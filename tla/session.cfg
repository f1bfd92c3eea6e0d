CONSTANTS
    Docs = {1, 2, 3}
    Scenes <- MCScenes
SPECIFICATION FairSpec
INVARIANTS NothingForgotten ExitSavedWhatIsOpen LostPrimaryFallsBack
PROPERTIES RestoreSettles
CHECK_DEADLOCK FALSE

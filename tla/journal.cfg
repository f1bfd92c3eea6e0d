CONSTANTS
    Docs = {1, 2}
    Scenes <- MCScenes
    MaxChain = 2
SPECIFICATION FairSpec
INVARIANTS AcknowledgedRestorable FallbackRestorable GroupAllOrNothing
PROPERTIES BatchSettles
CHECK_DEADLOCK FALSE

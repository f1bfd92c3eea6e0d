\* Two processes that save one file, alone or racing, by every strategy.
SPECIFICATION Spec
CONSTANTS
    Saves = {p1, p2}
    Strategies = {"exchange", "rename", "inplace"}
    MaxExternal = 2
    MaxFailures = 2
    RaceExternal = 1
    RaceCleanups = FALSE
    MayCrash = TRUE
    MayResume = TRUE
SYMMETRY SaveSymmetry
INVARIANTS
    TornTargetRecoverable
    ReportedFailureKeepsEdits
    InterruptedCleanupListed
    NoLostUpdate
PROPERTIES
    OnlyApprovedVersionsGo
CHECK_DEADLOCK FALSE

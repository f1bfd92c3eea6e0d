SPECIFICATION FairSpec
CONSTANTS
    MaxEdits = 2
    MaxPaths = 0
    MaxIncremental = 1
    MaxRetries = 1
    MaxSlots = 1
    MaxFaults = 1
    MayDiscard = FALSE
    Restored = TRUE
CHECK_DEADLOCK FALSE
PROPERTY SettlesOrReports

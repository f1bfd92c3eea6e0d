SPECIFICATION Spec
CONSTANTS
    MaxEdits = 2
    MaxPaths = 0
    MaxIncremental = 1
    MaxRetries = 1
    MaxSlots = 1
    MaxFaults = 1
    MayDiscard = FALSE
    Restored = FALSE
CHECK_DEADLOCK FALSE
INVARIANT SettledRestores

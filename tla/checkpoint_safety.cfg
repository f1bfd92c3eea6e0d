\* Checkpoints, retirement and retries; and a discard with a resumption.
SPECIFICATION Spec
CONSTANTS
    MaxEdits = 2
    MaxPaths = 1
    MaxIncremental = 1
    MaxRetries = 1
    MaxSlots = 2
    MaxFaults = 2
    MayDiscard = TRUE
    Restored = TRUE
INVARIANTS
    LatestCheckpointStays
    StatusIsCurrents
    DiscardedStaysGone
CHECK_DEADLOCK FALSE

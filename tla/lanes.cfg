\* Two lanes, two threads each, one file reached by overlapping keys.
SPECIFICATION FairSpec
CONSTANTS
    Names <- MCNames
    Directories <- MCDirectories
    NoDirectory = "root"
    Requests <- MCRequests
    Callers = {c1}
    Slots = {w1, w2}
    LaneDepth = 1
    MaxRequests = 3
    MaxSlices = 1
    MayPanic = TRUE
INVARIANTS
    TypeOK
    SharedFileOrder
    OneWorkerPerLane
    NoStrandedRequest
    NoLostWakeup
    LanesNeverGridlock
PROPERTIES
    EveryAcceptedRequestCompletes
CHECK_DEADLOCK FALSE

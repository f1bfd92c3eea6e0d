\* Three launches, a crash, an exit attempt, prompt launches.
CONSTANTS
    Launches = {a, b, c}
    Timeout = 1
    CommitWindow = 1
    Instances = 2
    Queue = 1
    PromptClients = TRUE
    MaxCrashes = 1
    MaxExits = 1
SPECIFICATION Spec
SYMMETRY LaunchSymmetry
INVARIANTS
    ActedOnOnce
    CommitIsRead
    OneOwner
CHECK_DEADLOCK FALSE

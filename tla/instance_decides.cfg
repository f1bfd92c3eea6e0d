\* Liveness: two launches, a crash and two exit attempts.
CONSTANTS
    Launches = {a, b}
    Timeout = 1
    CommitWindow = 1
    Instances = 2
    Queue = 1
    PromptClients = TRUE
    MaxCrashes = 1
    MaxExits = 2
SPECIFICATION FairSpec
PROPERTY EveryLaunchDecides
CHECK_DEADLOCK FALSE

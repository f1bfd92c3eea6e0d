\* Two documents, two workers that yield after each request: requests, group
\* edits, limits and moves, three calls in all, and a close.
CONSTANTS
    NumDocs = 2
    NumWorkers = 2
    Capacity = 2
    MailboxCapacity = 2
    Quantum = 1
    Limits = {1, 2}
    Cancels = TRUE
    MaxRequests = 3
    MaxGroups = 2
    MaxPolicies = 2
    MaxMoves = 1
    MaxCalls = 3
SPECIFICATION FairSpec
INVARIANTS AppliedInOrder GroupNeverOvertakes
PROPERTIES EveryRequestAnswered RetiredStaysFrozen
CHECK_DEADLOCK FALSE

\* One document, in one pane or two: typing, metadata, undo and redo, saves,
\* trimming.  Two documents on a shared budget: linked edits and eviction.
SPECIFICATION Spec
CONSTANTS
    NumDocs = 2
    Contents = {a, b}
    EntryCosts = {1, 7}
    SlotCost = 1
    HistoryLimit = 7
    ReliefPasses = 2
    ChangeLimits = {1, 3}
    MaxUnique = 6
    MaxRevision = 4
    MaxSaves = 1
INVARIANTS CleanIsOnDisk LinkedMoveTogether UndoNeverStuck
PROPERTIES ImplementsTimeline
CHECK_DEADLOCK FALSE

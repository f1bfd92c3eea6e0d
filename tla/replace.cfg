\* Two files, with and without backups: three of two edits by another program, a
\* failing call and a crash; or one of them beside a document that opens.
SPECIFICATION FairSpec
CONSTANTS
    Count = 2
    Backups = {TRUE, FALSE}
    MaxEdits = 2
    MaxFaults = 1
    MaxCrashes = 1
    MaxOpens = 1
    MaxEvents = 3
    MaxBeside = 1
INVARIANTS OutputRecoverable ReceiptTruthful
PROPERTIES ForeignContentKept OpenAdmitted
CHECK_DEADLOCK FALSE

---- MODULE MCPagedJournal ----
(***************************************************************************)
(* Model checking of PagedJournal.  One document goes through every kind of *)
(* edit and every failure; two documents go through transfers.              *)
(***************************************************************************)
EXTENDS PagedJournal

Alone ==
    [docs |-> {1}, kinds |-> {"typed", "source", "history", "save"},
     faults |-> {"baseline", "pointer", "recipe", "record", "death", "sweep"},
     edits |-> 3, groups |-> 0]

\* Two transfers, one after the other, in which records fail.
Transfers ==
    [docs |-> {1, 2}, kinds |-> {"source"}, faults |-> {"record"},
     edits |-> 4, groups |-> 2]

\* One transfer, after or before a streamed edit; every write fails or is the last.
Failing ==
    [docs |-> {1, 2}, kinds |-> {"source"},
     faults |-> {"record", "pointer", "recipe", "death"},
     edits |-> 3, groups |-> 1]

\* A marker reports a failure after its rename; an edit, or a second transfer,
\* takes the same revisions.
Untold ==
    [docs |-> {1, 2}, kinds |-> {"source"}, faults |-> {"marker", "recipe", "death"},
     edits |-> 4, groups |-> 2]

\* A document of a transfer is saved, or loses its journal, and is swept.
Saved ==
    [docs |-> {1, 2}, kinds |-> {"source", "history", "save"},
     faults |-> {"sweep", "death"}, edits |-> 3, groups |-> 1]

\* A transfer that waits for baselines, over deferred typing.
Waiting ==
    [docs |-> {1, 2}, kinds |-> {"typed"}, faults |-> {"baseline", "record"},
     edits |-> 3, groups |-> 1]

MCScenes == {Alone, Transfers, Failing, Untold, Saved, Waiting}
====

---- MODULE MCSessionLifecycle ----
(***************************************************************************)
(* Model checking of SessionLifecycle.                                      *)
(***************************************************************************)
EXTENDS SessionLifecycle

\* Two files restored beside a launch file, over two runs of the program.
Restores ==
    [docs |-> {1, 2, 3}, listed |-> {1, 2}, launch |-> {3}, named |-> {},
     capacity |-> 2, runs |-> 2, edits |-> 0, asks |-> 1, faults |-> {"trust", "open", "stop"}]

\* One run that ends: edits, forwarded launches, a named session, a logoff.
Exits ==
    [docs |-> {1, 2}, listed |-> {1}, launch |-> {2}, named |-> {2},
     capacity |-> 1, runs |-> 1, edits |-> 1, asks |-> 2, faults |-> {"end", "late", "write", "open"}]

\* Three runs over a session.json that is damaged between them.
Damages ==
    [docs |-> {1, 2}, listed |-> {1, 2}, launch |-> {}, named |-> {},
     capacity |-> 2, runs |-> 3, edits |-> 0, asks |-> 1, faults |-> {"damage", "read", "stop"}]

\* Two runs, each of which may find one generation, or both, unreadable.
Unread ==
    [docs |-> {1, 2}, listed |-> {1, 2}, launch |-> {}, named |-> {},
     capacity |-> 2, runs |-> 2, edits |-> 0, asks |-> 1, faults |-> {"read", "stop"}]

MCScenes == {Restores, Exits, Damages, Unread}
====

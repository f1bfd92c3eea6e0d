----------------------------- MODULE EditTimeline -----------------------------
(***************************************************************************)
(* What the document crate promises a user of undo and redo.  Every        *)
(* document stands somewhere on a line of versions: the versions it can    *)
(* undo to, the one it shows, and the ones it can redo.  History may be    *)
(* forgotten only from its far ends, a new edit forgets the redo versions, *)
(* and the only version that may vanish from the middle is one that the    *)
(* same run of typing extends, never one a save captured.                  *)
(* DocumentHistory implements this specification.                          *)
(***************************************************************************)
EXTENDS Naturals, Sequences

CONSTANTS Docs, Versions

VARIABLES past,      \* past[d]: versions undo returns to, the next one last
          present,   \* present[d]: the version the document shows
          future,    \* future[d]: versions redo returns to, the next one last
          typed,     \* typed[d]: present was left by a run of typing
          pinned     \* pinned[d]: versions that a save captured and that matter still

timeline == <<past, present, future, typed, pinned>>

Suffixes(s) == {SubSeq(s, n, Len(s)) : n \in 1..(Len(s) + 1)}
ButLast(s) == SubSeq(s, 1, Len(s) - 1)

Init ==
    /\ past = [d \in Docs |-> <<>>]
    /\ present \in [Docs -> Versions]
    /\ future = [d \in Docs |-> <<>>]
    /\ typed = [d \in Docs |-> FALSE]
    /\ pinned \in [Docs -> SUBSET Versions]
    /\ \A d \in Docs : present[d] \in pinned[d]

(* Old history may always be forgotten, the furthest versions first. *)
Forget(d) ==
    /\ present'[d] = present[d]
    /\ past'[d] \in Suffixes(past[d])
    /\ future'[d] \in Suffixes(future[d])

(* A new version.  The version it replaces becomes the next one to undo    *)
(* to, unless the new one continues the typing that left it.               *)
Edit(d) ==
    /\ present'[d] \in Versions
    /\ future'[d] = <<>>
    /\ \/ past'[d] \in Suffixes(Append(past[d], present[d]))
       \/ /\ typed[d]
          /\ present[d] \notin pinned[d]
          /\ past'[d] \in Suffixes(past[d])

Undo(d) ==
    /\ past[d] # <<>>
    /\ present'[d] = past[d][Len(past[d])]
    /\ past'[d] \in Suffixes(ButLast(past[d]))
    /\ future'[d] \in {Append(f, present[d]) : f \in Suffixes(future[d])}

Redo(d) ==
    /\ future[d] # <<>>
    /\ present'[d] = future[d][Len(future[d])]
    /\ future'[d] \in Suffixes(ButLast(future[d]))
    /\ past'[d] \in {Append(p, present[d]) : p \in Suffixes(past[d])}

(* One edit, undo or redo moves one document, or the members of one group  *)
(* together; the other documents only forget.                              *)
Next ==
    \E moved \in SUBSET Docs :
        /\ \/ \A d \in moved : Edit(d)
           \/ \A d \in moved : Undo(d)
           \/ \A d \in moved : Redo(d)
        /\ \A d \in Docs \ moved : Forget(d)

Spec == Init /\ [][Next]_timeline
=============================================================================

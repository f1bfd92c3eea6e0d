------------------------ MODULE DocumentHistoryProofs ------------------------
(***************************************************************************)
(* What is proved of DocumentHistory, for any number of documents, any      *)
(* contents, panes, budgets, limits, costs and steps.                       *)
(*                                                                          *)
(* IInv says what a history is.  StackInv: the two stacks of a document are *)
(* one chain of versions through the text it shows, ordered by when each    *)
(* was written, a group's tag on one entry at most.  ContentInv: a state is *)
(* one content wherever an entry, a save or the disk remembers it.          *)
(* SealedInv: typing does not extend an entry that a save has captured.     *)
(* JobInv: a worker that moves through the history has the entry it moves.  *)
(* LinkInv: linked entries are on the same side of all members, and what is *)
(* newer than one of them is newer than all.                                *)
(*                                                                          *)
(* Every step changes each document in one of a few ways (Evolves): it      *)
(* forgets the oldest entries (Pruned), takes its top entry back or         *)
(* forward, puts one entry on top or extends the one there.  What a step    *)
(* does to a document is proved once, and each part of IInv follows from    *)
(* that, as does the step of EditTimeline that a user sees (Visible).       *)
(***************************************************************************)
EXTENDS DocumentHistory, SequenceTheorems, FiniteSetTheorems, NaturalsInduction,
        WellFoundedInduction, TLAPS

(* What the parts of the state may be.                                     *)
Document == [content : Contents, state : Nat, revision : Nat, saved : Nat,
             undo : Seq(Entry), redo : Seq(Entry), undoCap : Nat, redoCap : Nat, limit : Nat]
Steps == {"relieve", "charge"}
EditJob == [kind : {"edit"}, step : Steps, pass : Nat, cost : Nat, content : Contents,
            typing : BOOLEAN, follows : BOOLEAN, boundary : Nat]
MetadataJob == [kind : {"metadata"}, step : Steps, cost : Nat, content : Contents]
MoveJob == [kind : {"undo", "redo"}, step : Steps]
Jobs == {Idle} \cup EditJob \cup MetadataJob \cup MoveJob
Saves == {NoSave} \cup [state : Nat, content : Contents]
GroupFields == {"members", "peers", "content", "cost", "charged", "lost", "relieve"}

ViewFits(d) ==
    /\ DOMAIN view[d] = {"active", "boundary", "savedState", "unsent", "saves"}
    /\ view[d].active \in Panes(d) /\ view[d].boundary \in [Panes(d) -> Nat \ {0}]
    /\ view[d].savedState \in Nat /\ view[d].unsent \in Nat

GroupFits ==
    group # NoGroup =>
      /\ DOMAIN group = GroupFields
      /\ group.members \subseteq Docs /\ group.peers \subseteq Docs /\ group.members # {}
      /\ \A d \in group.members : group.content[d] \in Contents /\ group.cost[d] \in Nat

Shape ==
    /\ open \subseteq Docs /\ split \subseteq Docs
    /\ doc \in [Docs -> Document]
    /\ job \in [Docs -> Jobs]
    /\ GroupFits
    /\ members \in Seq(SUBSET Docs) /\ linked \subseteq DOMAIN members
    /\ unique \in Nat /\ unique >= NumDocs
    /\ save \in [Docs -> Saves]
    /\ DOMAIN view = Docs /\ \A d \in Docs : ViewFits(d)
    /\ disk \in [Docs -> Contents]

(* The entries of a document form one chain through what it shows.         *)
Chain(x) ==
    /\ x.undo # <<>> => /\ x.undo[Len(x.undo)].after = x.content
                        /\ x.undo[Len(x.undo)].afterState = x.state
    /\ x.redo # <<>> => /\ x.redo[Len(x.redo)].before = x.content
                        /\ x.redo[Len(x.redo)].beforeState = x.state
    /\ \A i \in 1..(Len(x.undo) - 1) : /\ x.undo[i].after = x.undo[i+1].before
                                       /\ x.undo[i].afterState = x.undo[i+1].beforeState
    /\ \A i \in 1..(Len(x.redo) - 1) : /\ x.redo[i].before = x.redo[i+1].after
                                       /\ x.redo[i].beforeState = x.redo[i+1].afterState

(* Undo entries are older than redo entries, the newest in the middle      *)
(* undone last.                                                            *)
Sorted(x) ==
    /\ \A i, k \in DOMAIN x.undo : i < k => x.undo[i].seq < x.undo[k].seq
    /\ \A i, k \in DOMAIN x.redo : i < k => x.redo[i].seq > x.redo[k].seq
    /\ \A i \in DOMAIN x.undo, k \in DOMAIN x.redo : x.undo[i].seq < x.redo[k].seq

(* A group's tag is on one entry of a document at most.                    *)
TaggedOnce(x) ==
    /\ \A i, k \in DOMAIN x.undo : x.undo[i].tag = x.undo[k].tag /\ x.undo[i].tag # None => i = k
    /\ \A i, k \in DOMAIN x.redo : x.redo[i].tag = x.redo[k].tag /\ x.redo[i].tag # None => i = k
    /\ \A i \in DOMAIN x.undo, k \in DOMAIN x.redo : x.undo[i].tag = x.redo[k].tag => x.undo[i].tag = None

(* The states of an entry are those given out since the document opened.   *)
EntryFits(d, e, u, ms) ==
    /\ e.seq <= u /\ e.afterState <= u /\ e.afterState > NumDocs
    /\ e.beforeState <= u
    /\ e.tag # None => e.tag \in DOMAIN ms /\ d \in ms[e.tag]

StackInv ==
    \A d \in Docs :
      /\ Chain(doc[d]) /\ Sorted(doc[d]) /\ TaggedOnce(doc[d])
      /\ doc[d].state <= unique /\ view[d].unsent <= unique
      /\ \A e \in EntriesOf(doc[d]) : EntryFits(d, e, unique, members)

(* A typing run that a save has seen is not extended: its entries are      *)
(* before the boundary that the save set.                                  *)
SealedInv ==
    \A d \in Docs \ split :
      LET b == view[d].boundary[1]
      IN /\ view[d].active = 1
         /\ job[d].kind = "edit" => job[d].boundary = b
         /\ \A e \in EntriesOf(doc[d]) :
              /\ e.boundary <= b
              /\ e.boundary = b => e.afterState # save[d].state /\ e.afterState # view[d].unsent

(* A state of a document is one content, wherever it is remembered.        *)
Knows(x) == {<<x.state, x.content>>}
            \cup {<<e.beforeState, e.before>> : e \in EntriesOf(x)}
            \cup {<<e.afterState, e.after>> : e \in EntriesOf(x)}
Known(d) == Knows(doc[d]) \cup {<<view[d].savedState, disk[d]>>}
            \cup (IF save[d] = NoSave THEN {} ELSE {<<save[d].state, save[d].content>>})
Agree(K) == \A p, q \in K : p[1] = q[1] => p[2] = q[2]

ContentInv == \A d \in Docs : Agree(Known(d)) /\ \A p \in Known(d) : p[1] <= unique

(* A worker that moves through the history has the entry it moves, which   *)
(* is no group's; and nobody else has its document.                        *)
JobInv ==
    \A d \in Docs :
      /\ job[d] # Idle => d \notin Locked
      /\ job[d].kind = "undo" => doc[d].undo # <<>> /\ ~TopLinked(doc[d].undo)
      /\ job[d].kind = "redo" => doc[d].redo # <<>> /\ ~TopLinked(doc[d].redo)

Marks(x) == {<<e.seq, e.tag>> : e \in EntriesOf(x)}

(* Linked entries are on the same side of all members, and what is newer   *)
(* than one of them is newer than all.                                     *)
LinkInv ==
    /\ LinkedMoveTogether
    /\ \A p, q, n \in UNION {Marks(doc[d]) : d \in Docs} :
         p[2] = q[2] /\ p[2] # None /\ n[2] # p[2] /\ n[1] > p[1] => n[1] > q[1]

IInv == Shape /\ StackInv /\ SealedInv /\ ContentInv /\ JobInv /\ LinkInv

-----------------------------------------------------------------------------
(* Forgetting history: a document keeps a suffix of each stack.            *)

(* t is s without its first m entries.                                     *)
Cut(s, t, m) ==
    /\ t \in Seq(Entry) /\ m \in Nat /\ Len(t) = Len(s) - m
    /\ \A i \in 1..Len(t) : t[i] = s[i + m]

Pruned(x, y) ==
    /\ y \in Document
    /\ y.content = x.content /\ y.state = x.state
    /\ \E m \in Nat : Cut(x.undo, y.undo, m)
    /\ \E m \in Nat : Cut(x.redo, y.redo, m)

(* Draining drops what it is told, or everything.                          *)
LEMMA DrainCuts ==
    ASSUME NEW s \in Seq(Entry), NEW n \in Nat
    PROVE  \E m \in Nat : Cut(s, Drain(s, n), m) /\ m <= n
<1>1. Len(s) \in Nat
  OBVIOUS
<1>2. CASE n <= Len(s)
  <2>1. \A i \in (n + 1) .. Len(s) : s[i] \in Entry
    BY <1>1
  <2>2. /\ SubSeq(s, n + 1, Len(s)) \in Seq(Entry)
        /\ Len(SubSeq(s, n + 1, Len(s))) = IF n + 1 <= Len(s) THEN Len(s) - (n + 1) + 1 ELSE 0
        /\ \A i \in 1 .. Len(s) - (n + 1) + 1 : SubSeq(s, n + 1, Len(s))[i] = s[n + 1 + i - 1]
    BY <1>1, <2>1, SubSeqProperties
  <2>3. Cut(s, Drain(s, n), n)
    BY <1>1, <1>2, <2>2 DEF Cut, Drain
  <2> QED
    BY <2>3
<1>3. CASE n > Len(s)
  <2>1. Drain(s, n) = <<>>
    BY <1>1, <1>3, SubSeqEmpty DEF Drain
  <2>2. Cut(s, Drain(s, n), Len(s))
    BY <1>1, <2>1 DEF Cut
  <2> QED
    BY <1>1, <1>3, <2>2
<1> QED
  BY <1>1, <1>2, <1>3

(* Nothing has to be forgotten.                                            *)
LEMMA CutNone ==
    ASSUME NEW s \in Seq(Entry)
    PROVE  Cut(s, s, 0)
BY DEF Cut

(* What is forgotten in two steps could have been in one.                  *)
LEMMA CutTwice ==
    ASSUME NEW s \in Seq(Entry), NEW t, NEW w, NEW m, NEW n, Cut(s, t, m), Cut(t, w, n)
    PROVE  Cut(s, w, m + n) /\ m + n \in Nat
<1>1. Len(s) \in Nat /\ Len(t) \in Nat /\ Len(w) \in Nat /\ m \in Nat /\ n \in Nat
  BY DEF Cut
<1>2. \A i \in 1..Len(w) : i + n \in 1..Len(t) /\ w[i] = t[i + n] /\ t[i + n] = s[(i + n) + m]
  BY <1>1 DEF Cut
<1>3. \A i \in 1..Len(w) : w[i] = s[i + (m + n)]
  BY <1>1, <1>2
<1> QED
  BY <1>1, <1>3 DEF Cut

(* So with a document.                                                     *)
LEMMA PrunedTwice ==
    ASSUME NEW x \in Document, NEW y, NEW z, Pruned(x, y), Pruned(y, z)
    PROVE  Pruned(x, z)
<1>1. x.undo \in Seq(Entry) /\ x.redo \in Seq(Entry)
  BY DEF Document
<1>2. PICK m \in Nat, n \in Nat : Cut(x.undo, y.undo, m) /\ Cut(y.undo, z.undo, n)
  BY DEF Pruned
<1>3. PICK k \in Nat, l \in Nat : Cut(x.redo, y.redo, k) /\ Cut(y.redo, z.redo, l)
  BY DEF Pruned
<1>4. Cut(x.undo, z.undo, m + n) /\ m + n \in Nat
  BY <1>1, <1>2, CutTwice
<1>5. Cut(x.redo, z.redo, k + l) /\ k + l \in Nat
  BY <1>1, <1>3, CutTwice
<1> QED
  BY <1>4, <1>5 DEF Pruned

(* A document prunes to itself.                                             *)
LEMMA PrunedNone ==
    ASSUME NEW x \in Document
    PROVE  Pruned(x, x)
<1>1. Cut(x.undo, x.undo, 0) /\ Cut(x.redo, x.redo, 0)
  BY CutNone DEF Document
<1> QED
  BY <1>1 DEF Pruned

(* The entries of the two stacks.                                          *)
LEMMA EntriesAre ==
    ASSUME NEW x \in Document
    PROVE  /\ DOMAIN x.undo = 1..Len(x.undo) /\ Len(x.undo) \in Nat
           /\ DOMAIN x.redo = 1..Len(x.redo) /\ Len(x.redo) \in Nat
           /\ \A i \in DOMAIN x.undo : x.undo[i] \in Entry
           /\ \A i \in DOMAIN x.redo : x.redo[i] \in Entry
           /\ EntriesOf(x) \subseteq Entry
BY DEF Document, EntriesOf

(* A document that forgets is left with a chain, in order, of entries it   *)
(* had, each on the side it was on.                                        *)
LEMMA PrunedKeeps ==
    ASSUME NEW x \in Document, NEW y, Pruned(x, y), Chain(x), Sorted(x), TaggedOnce(x)
    PROVE  /\ Chain(y) /\ Sorted(y) /\ TaggedOnce(y)
           /\ \A i \in DOMAIN y.undo : \E k \in DOMAIN x.undo : y.undo[i] = x.undo[k]
           /\ \A i \in DOMAIN y.redo : \E k \in DOMAIN x.redo : y.redo[i] = x.redo[k]
           /\ EntriesOf(y) \subseteq EntriesOf(x)
<1>1. PICK m \in Nat : Cut(x.undo, y.undo, m)
  BY DEF Pruned
<1>2. PICK n \in Nat : Cut(x.redo, y.redo, n)
  BY DEF Pruned
<1>3. y \in Document /\ y.content = x.content /\ y.state = x.state
  BY DEF Pruned
<1>4. /\ DOMAIN x.undo = 1..Len(x.undo) /\ Len(x.undo) \in Nat
      /\ DOMAIN x.redo = 1..Len(x.redo) /\ Len(x.redo) \in Nat
      /\ DOMAIN y.undo = 1..Len(y.undo) /\ Len(y.undo) \in Nat
      /\ DOMAIN y.redo = 1..Len(y.redo) /\ Len(y.redo) \in Nat
  BY <1>3, EntriesAre
<1>5. /\ \A i \in DOMAIN y.undo : i + m \in DOMAIN x.undo /\ y.undo[i] = x.undo[i + m]
      /\ Len(y.undo) + m = Len(x.undo)
  <2>1. Len(y.undo) + m = Len(x.undo) /\ \A i \in 1..Len(y.undo) : y.undo[i] = x.undo[i + m]
    BY SMTT(40), <1>1, <1>4 DEF Cut
  <2> QED
    BY <1>4, <2>1
<1>6. /\ \A i \in DOMAIN y.redo : i + n \in DOMAIN x.redo /\ y.redo[i] = x.redo[i + n]
      /\ Len(y.redo) + n = Len(x.redo)
  <2>1. Len(y.redo) + n = Len(x.redo) /\ \A i \in 1..Len(y.redo) : y.redo[i] = x.redo[i + n]
    BY <1>2, <1>4 DEF Cut
  <2> QED
    BY <1>4, <2>1
<1>7. Chain(y)
  <2>1. y.undo # <<>> => /\ y.undo[Len(y.undo)].after = y.content
                         /\ y.undo[Len(y.undo)].afterState = y.state
    <3>1. y.undo # <<>> => Len(y.undo) \in DOMAIN y.undo /\ x.undo # <<>>
      BY <1>3, <1>4, <1>5 DEF Document
    <3> QED
      BY <1>3, <1>4, <1>5, <3>1 DEF Chain
  <2>2. y.redo # <<>> => /\ y.redo[Len(y.redo)].before = y.content
                         /\ y.redo[Len(y.redo)].beforeState = y.state
    <3>1. y.redo # <<>> => Len(y.redo) \in DOMAIN y.redo /\ x.redo # <<>>
      BY SMTT(40), <1>3, <1>4, <1>6 DEF Document
    <3> QED
      BY <1>3, <1>4, <1>6, <3>1 DEF Chain
  <2>3. ASSUME NEW i \in 1..(Len(y.undo) - 1)
        PROVE  /\ y.undo[i].after = y.undo[i+1].before
               /\ y.undo[i].afterState = y.undo[i+1].beforeState
    <3>1. PICK k \in 1..(Len(x.undo) - 1) : k = i + m
      BY <1>4, <1>5
    <3>2. i \in DOMAIN y.undo /\ i + 1 \in DOMAIN y.undo /\ (i + 1) + m = k + 1
      BY <1>4, <3>1
    <3>3. y.undo[i] = x.undo[k] /\ y.undo[i+1] = x.undo[k+1]
      BY <1>5, <3>1, <3>2
    <3> QED
      BY <3>1, <3>3 DEF Chain
  <2>4. ASSUME NEW i \in 1..(Len(y.redo) - 1)
        PROVE  /\ y.redo[i].before = y.redo[i+1].after
               /\ y.redo[i].beforeState = y.redo[i+1].afterState
    <3>1. PICK k \in 1..(Len(x.redo) - 1) : k = i + n
      BY <1>4, <1>6
    <3>2. i \in DOMAIN y.redo /\ i + 1 \in DOMAIN y.redo /\ (i + 1) + n = k + 1
      BY <1>4, <3>1
    <3>3. y.redo[i] = x.redo[k] /\ y.redo[i+1] = x.redo[k+1]
      BY <1>6, <3>1, <3>2
    <3> QED
      BY <3>1, <3>3 DEF Chain
  <2> QED
    BY <2>1, <2>2, <2>3, <2>4 DEF Chain
<1>8. Sorted(y)
  <2>1. ASSUME NEW i \in DOMAIN y.undo, NEW k \in DOMAIN y.undo, i < k
        PROVE  y.undo[i].seq < y.undo[k].seq
    <3>1. i + m \in DOMAIN x.undo /\ k + m \in DOMAIN x.undo /\ i + m < k + m
      BY <1>4, <1>5, <2>1
    <3>2. x.undo[i + m].seq < x.undo[k + m].seq
      BY <3>1 DEF Sorted
    <3> QED
      BY <1>5, <3>2
  <2>2. ASSUME NEW i \in DOMAIN y.redo, NEW k \in DOMAIN y.redo, i < k
        PROVE  y.redo[i].seq > y.redo[k].seq
    <3>1. i + n \in DOMAIN x.redo /\ k + n \in DOMAIN x.redo /\ i + n < k + n
      BY <1>4, <1>6, <2>2
    <3>2. x.redo[i + n].seq > x.redo[k + n].seq
      BY <3>1 DEF Sorted
    <3> QED
      BY <1>6, <3>2
  <2>3. \A i \in DOMAIN y.undo, k \in DOMAIN y.redo : y.undo[i].seq < y.redo[k].seq
    BY <1>5, <1>6 DEF Sorted
  <2> QED
    BY <2>1, <2>2, <2>3 DEF Sorted
<1>9. TaggedOnce(y)
  <2>1. ASSUME NEW i \in DOMAIN y.undo, NEW k \in DOMAIN y.undo,
               y.undo[i].tag = y.undo[k].tag, y.undo[i].tag # None
        PROVE  i = k
    <3>1. i + m = k + m
      BY SMTT(40), <1>5, <2>1 DEF TaggedOnce
    <3> QED
      BY <1>4, <3>1
  <2>2. ASSUME NEW i \in DOMAIN y.redo, NEW k \in DOMAIN y.redo,
               y.redo[i].tag = y.redo[k].tag, y.redo[i].tag # None
        PROVE  i = k
    <3>1. i + n = k + n
      BY <1>6, <2>2 DEF TaggedOnce
    <3> QED
      BY <1>4, <3>1
  <2>3. \A i \in DOMAIN y.undo, k \in DOMAIN y.redo :
           y.undo[i].tag = y.redo[k].tag => y.undo[i].tag = None
    BY <1>5, <1>6 DEF TaggedOnce
  <2> QED
    BY <2>1, <2>2, <2>3 DEF TaggedOnce
<1> QED
  BY <1>5, <1>6, <1>7, <1>8, <1>9 DEF EntriesOf

-----------------------------------------------------------------------------
(* What the budget makes a document forget, whatever it decides.           *)

(* A limit trims both stacks.                                              *)
LEMMA TrimPrunes ==
    ASSUME NEW x \in Document
    PROVE  Pruned(x, Trim(x))
<1>1. /\ x.undo \in Seq(Entry) /\ x.redo \in Seq(Entry) /\ x.limit \in Nat
      /\ Len(x.undo) \in Nat /\ Len(x.redo) \in Nat
  BY DEF Document
<1>2. PICK m \in Nat : m = Max2(0, Len(x.undo) - x.limit)
  BY <1>1 DEF Max2
<1>3. PICK u : u = Drain(x.undo, m)
  OBVIOUS
<1>4. PICK k \in Nat : Cut(x.undo, u, k)
  BY <1>1, <1>3, DrainCuts
<1>5. u \in Seq(Entry) /\ Len(u) \in Nat
  BY <1>4 DEF Cut
<1>6. PICK n \in Nat : n = Max2(0, Len(x.redo) - (x.limit - Len(u)))
  BY <1>1, <1>5 DEF Max2
<1>7. PICK r : r = Drain(x.redo, n)
  OBVIOUS
<1>8. PICK l \in Nat : Cut(x.redo, r, l)
  BY <1>1, <1>7, DrainCuts
<1>9. r \in Seq(Entry)
  BY <1>8 DEF Cut
<1>10. Trim(x) = [x EXCEPT !.undo = u, !.redo = r]
  BY <1>2, <1>3, <1>6, <1>7 DEF Trim
<1>11. PICK y \in Document : y = [x EXCEPT !.undo = u, !.redo = r]
  BY <1>5, <1>9 DEF Document
<1>12. y.undo = u /\ y.redo = r /\ y.content = x.content /\ y.state = x.state
  BY <1>11 DEF Document
<1>13. Pruned(x, y)
  BY <1>4, <1>8, <1>12 DEF Pruned
<1> QED
  BY <1>10, <1>11, <1>13

(* Discarding drops the oldest entries of each stack, as many as it is     *)
(* told.                                                                   *)
LEMMA DiscardPrunes ==
    ASSUME NEW x \in Document, NEW m \in Nat, NEW n \in Nat, NEW drop,
           drop.undo = m, drop.redo = n, NEW y, y = Discard(x, drop)
    PROVE  /\ Pruned(x, y)
           /\ \E k \in Nat : Cut(x.undo, y.undo, k) /\ k <= m
           /\ \E k \in Nat : Cut(x.redo, y.redo, k) /\ k <= n
<1>1. x.undo \in Seq(Entry) /\ x.redo \in Seq(Entry)
  BY DEF Document
<1>2. PICK k \in Nat : Cut(x.undo, Drain(x.undo, m), k) /\ k <= m
  BY <1>1, DrainCuts
<1>3. PICK l \in Nat : Cut(x.redo, Drain(x.redo, n), l) /\ l <= n
  BY <1>1, DrainCuts
<1>4. PICK u \in Seq(Entry) : u = Drain(x.undo, m)
  BY <1>2 DEF Cut
<1>5. PICK r \in Seq(Entry) : r = Drain(x.redo, n)
  BY <1>3 DEF Cut
<1>6. y = [x EXCEPT !.undo = u, !.redo = r]
  BY <1>4, <1>5 DEF Discard
<1>7. y \in Document /\ y.undo = u /\ y.redo = r /\ y.content = x.content /\ y.state = x.state
  BY <1>6 DEF Document
<1> QED
  BY <1>2, <1>3, <1>4, <1>5, <1>7 DEF Pruned

(* A set of positions is no larger than the last of them.                  *)
LEMMA SubrangeSmall ==
    ASSUME NEW n \in Nat, NEW k \in {0, 1}, NEW U, U \subseteq 1..(n - k)
    PROVE  Cardinality(U) \in Nat /\ (n # 0 => Cardinality(U) <= n - k)
<1>1. PICK b \in Int : b = n - k /\ (n # 0 => b >= 0)
  OBVIOUS
<1>2. 1 \in Int
  OBVIOUS
<1>3. IsFiniteSet(1..b) /\ Cardinality(1..b) = IF 1 > b THEN 0 ELSE b - 1 + 1
  BY <1>2, FS_Interval
<1>4. U \in SUBSET (1..b)
  BY <1>1
<1>5. IsFiniteSet(U) /\ Cardinality(U) <= Cardinality(1..b)
  BY <1>3, <1>4, FS_Subset
<1>6. Cardinality(U) \in Nat
  BY <1>5, FS_CardinalityType
<1> QED
  BY <1>1, <1>3, <1>5, <1>6

(* A stack that is not drained keeps its last entry.                       *)
LEMMA CutTop ==
    ASSUME NEW s \in Seq(Entry), NEW t, NEW m \in Nat, Cut(s, t, m), m < Len(s)
    PROVE  t # <<>> /\ t[Len(t)] = s[Len(s)]
<1>1. Len(s) \in Nat /\ Len(t) = Len(s) - m /\ t \in Seq(Entry)
  BY DEF Cut
<1>2. Len(t) \in 1..Len(t) /\ Len(t) + m = Len(s)
  BY <1>1
<1>3. t[Len(t)] = s[Len(t) + m]
  BY <1>2 DEF Cut
<1> QED
  BY <1>1, <1>2, <1>3

(* A document keeps the entry at the top of the stack it is moving through. *)
TopStays(kind, x, y) ==
    /\ kind = "undo" /\ x.undo # <<>> =>
         y.undo # <<>> /\ y.undo[Len(y.undo)] = x.undo[Len(x.undo)]
    /\ kind = "redo" /\ x.redo # <<>> =>
         y.redo # <<>> /\ y.redo[Len(y.redo)] = x.redo[Len(x.redo)]

(* Evicting entries up to a key prunes the documents in reach, and spares  *)
(* the entry that the demanding one moves.                                 *)
LEMMA DropToPrunes ==
    ASSUME NEW own, NEW kind, NEW reach, NEW ds \in [Docs -> Document], NEW key,
           NEW es, es = DropTo(own, kind, reach, ds, key)
    PROVE  /\ es \in [Docs -> Document]
           /\ \A d \in Docs : Pruned(ds[d], es[d]) /\ (d \notin reach => es[d] = ds[d])
           /\ own \in Docs => TopStays(kind, ds[own], es[own])
<1>1. ASSUME NEW d \in Docs
      PROVE  Pruned(ds[d], es[d]) /\ (d \notin reach => es[d] = ds[d])
               /\ (d = own => TopStays(kind, ds[d], es[d]))
  <2>1. PICK x \in Document : x = ds[d]
    OBVIOUS
  <2>2. /\ x.undo \in Seq(Entry) /\ x.redo \in Seq(Entry)
        /\ Len(x.undo) \in Nat /\ Len(x.redo) \in Nat
    BY SMTT(40) DEF Document
  <2>3. CASE d \notin reach
    <3>1. es[d] = x
      BY <2>1, <2>3 DEF DropTo
    <3> QED
      BY <2>1, <2>2, <3>1, PrunedNone DEF TopStays
  <2>4. CASE d \in reach
    <3>1. PICK keep : keep = Keep(IF d = own THEN kind ELSE "edit")
      OBVIOUS
    <3>2. /\ keep.undo \in {0, 1} /\ keep.redo \in {0, 1}
          /\ d = own /\ kind = "undo" => keep.undo = 1
          /\ d = own /\ kind = "redo" => keep.redo = 1
      BY <3>1 DEF Keep
    <3>3. PICK U : U = {i \in 1..(Len(x.undo) - keep.undo) : Key(own, kind, d, "undo", i, ds) <= key}
      OBVIOUS
    <3>4. PICK R : R = {i \in 1..(Len(x.redo) - keep.redo) : Key(own, kind, d, "redo", i, ds) <= key}
      OBVIOUS
    <3>5. U \subseteq 1..(Len(x.undo) - keep.undo) /\ R \subseteq 1..(Len(x.redo) - keep.redo)
      BY <3>3, <3>4
    <3>6. (x.undo # <<>> => Len(x.undo) # 0) /\ (x.redo # <<>> => Len(x.redo) # 0)
      BY <2>2, EmptySeq
    <3>7. PICK a \in {0, 1}, b \in {0, 1} : a = keep.undo /\ b = keep.redo
      BY <3>2
    <3>8. U \subseteq 1..(Len(x.undo) - a) /\ R \subseteq 1..(Len(x.redo) - b)
      BY <3>5, <3>7
    <3>9. /\ Cardinality(U) \in Nat /\ (Len(x.undo) # 0 => Cardinality(U) <= Len(x.undo) - a)
           /\ Cardinality(R) \in Nat /\ (Len(x.redo) # 0 => Cardinality(R) <= Len(x.redo) - b)
      BY <2>2, <3>8, SubrangeSmall
    <3>10. PICK m \in Nat : m = Cardinality(U) /\ (x.undo # <<>> => m <= Len(x.undo) - keep.undo)
      BY <3>6, <3>7, <3>9
    <3>11. PICK n \in Nat : n = Cardinality(R) /\ (x.redo # <<>> => n <= Len(x.redo) - keep.redo)
      BY <3>6, <3>7, <3>9
    <3>12. PICK drop : drop = [undo |-> m, redo |-> n]
      OBVIOUS
    <3>13. es[d] = Discard(x, drop) /\ drop.undo = m /\ drop.redo = n
      BY <2>1, <2>4, <3>1, <3>3, <3>4, <3>10, <3>11, <3>12 DEF DropTo
    <3>14. PICK y : y = es[d]
      OBVIOUS
    <3>15. /\ Pruned(x, y)
           /\ \E k \in Nat : Cut(x.undo, y.undo, k) /\ k <= m
           /\ \E k \in Nat : Cut(x.redo, y.redo, k) /\ k <= n
      BY <3>13, <3>14, DiscardPrunes
    <3>16. ASSUME d = own PROVE TopStays(kind, x, y)
      <4>1. PICK k \in Nat, l \in Nat : /\ Cut(x.undo, y.undo, k) /\ k <= m
                                       /\ Cut(x.redo, y.redo, l) /\ l <= n
        BY <3>15
      <4>2. kind = "undo" /\ x.undo # <<>> => k < Len(x.undo)
        BY <2>2, <3>2, <3>10, <3>16, <4>1
      <4>3. kind = "redo" /\ x.redo # <<>> => l < Len(x.redo)
        BY <2>2, <3>2, <3>11, <3>16, <4>1
      <4> QED
        BY <2>2, <4>1, <4>2, <4>3, CutTop DEF TopStays
    <3> QED
      BY <2>1, <2>4, <3>14, <3>15, <3>16
  <2> QED
    BY <2>3, <2>4
<1>2. es = [d \in Docs |-> es[d]]
  BY DEF DropTo
<1>3. \A d \in Docs : es[d] \in Document
  BY <1>1 DEF Pruned
<1> QED
  BY <1>1, <1>2, <1>3

(* Evicting for a demand prunes, whether the demand fits afterwards or not. *)
LEMMA EvictPrunes ==
    ASSUME NEW own, NEW kind, NEW cost, NEW reach, NEW ds \in [Docs -> Document],
           NEW es, es = EvictUntilFits(own, kind, cost, reach, ds)
    PROVE  /\ es \in [Docs -> Document]
           /\ \A d \in Docs : Pruned(ds[d], es[d]) /\ (d \notin reach => es[d] = ds[d])
           /\ own \in Docs => TopStays(kind, ds[own], es[own])
<1>1. es = ds \/ \E key : es = DropTo(own, kind, reach, ds, key)
  BY DEF EvictUntilFits
<1>2. CASE es = ds
  BY <1>2, PrunedNone DEF TopStays
<1>3. ASSUME NEW key, es = DropTo(own, kind, reach, ds, key)
      PROVE  /\ es \in [Docs -> Document]
             /\ \A d \in Docs : Pruned(ds[d], es[d]) /\ (d \notin reach => es[d] = ds[d])
             /\ own \in Docs => TopStays(kind, ds[own], es[own])
  BY <1>3, DropToPrunes
<1> QED
  BY <1>1, <1>2, <1>3

(* Relief prunes too; it may do nothing.                                    *)
LEMMA ReliefPrunes ==
    ASSUME NEW own, NEW kind, NEW cost, NEW reach, NEW ds \in [Docs -> Document],
           NEW es, es = Relieved(own, kind, cost, reach, ds)
    PROVE  /\ es \in [Docs -> Document]
           /\ \A d \in Docs : Pruned(ds[d], es[d]) /\ (d \notin reach => es[d] = ds[d])
           /\ own \in Docs => TopStays(kind, ds[own], es[own])
<1>1. es = ds \/ es = EvictUntilFits(own, kind, cost, reach, ds)
  BY DEF Relieved
<1>2. CASE es = ds
  BY <1>2, PrunedNone DEF TopStays
<1> QED
  BY <1>1, <1>2, EvictPrunes

(* The capacity of a stack that is admitted one entry is a number.         *)
LEMMA GrownIsNat ==
    ASSUME NEW n \in Nat, NEW cap \in Nat
    PROVE  Grown(n, cap) \in Nat
BY DEF Grown, Max2

(* Reserving a slot changes no entry.                                      *)
LEMMA ReservedPrunes ==
    ASSUME NEW d \in Docs, doc[d] \in Document
    PROVE  /\ Pruned(doc[d], Reserved(d))
           /\ Reserved(d).undo = doc[d].undo /\ Reserved(d).redo = doc[d].redo
<1>1. PICK x \in Document : x = doc[d]
  OBVIOUS
<1>2. PICK cap : cap = Grown(Len(x.undo), x.undoCap)
  OBVIOUS
<1>3. cap \in Nat
  BY <1>2, GrownIsNat DEF Document
<1>4. PICK y : y = [x EXCEPT !.undoCap = cap]
  OBVIOUS
<1>5. y \in Document /\ y.undo = x.undo /\ y.redo = x.redo /\ y.content = x.content /\ y.state = x.state
  BY <1>3, <1>4 DEF Document
<1>6. Cut(x.undo, x.undo, 0) /\ Cut(x.redo, x.redo, 0)
  BY CutNone DEF Document
<1>7. Pruned(x, y)
  BY <1>5, <1>6 DEF Pruned
<1>8. Reserved(d) = x \/ Reserved(d) = y
  BY <1>1, <1>2, <1>4 DEF Reserved
<1> QED
  BY <1>1, <1>5, <1>7, <1>8, PrunedNone

-----------------------------------------------------------------------------
(* What a step may do to the stacks of a document.                         *)

Good(x) == Chain(x) /\ Sorted(x) /\ TaggedOnce(x)

(* The same entry, but for its charge and the end of its typing run.       *)
Like(e, f) ==
    /\ e.before = f.before /\ e.beforeState = f.beforeState
    /\ e.after = f.after /\ e.afterState = f.afterState
    /\ e.seq = f.seq /\ e.tag = f.tag /\ e.boundary = f.boundary

(* An entry that an edit wrote: pushed with tag t, or extended.            *)
Fresh(x, y, e, t, u, b) ==
    /\ <<e.beforeState, e.before>> \in Knows(x)
    /\ e.after = y.content /\ e.afterState = y.state /\ y.state > u
    /\ e.boundary \in {0, b}
    /\ <<e.seq, e.tag>> \in Marks(x) \/ (e.seq = y.state /\ e.tag = t)

(* x becomes y, after unique had reached u.                                *)
Evolves(x, y, t, u, b) ==
    /\ y \in Document /\ Good(y)
    /\ <<y.state, y.content>> \in Knows(x) \/ y.state > u
    /\ \A e \in EntriesOf(y) : (\E f \in EntriesOf(x) : Like(e, f)) \/ Fresh(x, y, e, t, u, b)

OnUndo(x, g) == \E i \in DOMAIN x.undo : x.undo[i].tag = g
OnRedo(x, g) == \E i \in DOMAIN x.redo : x.redo[i].tag = g

(* No entry of a group but g changes sides.                                *)
Sided(x, y, g) ==
    \A h : h # g /\ h # None => /\ OnUndo(y, h) => OnUndo(x, h)
                                /\ OnRedo(y, h) => OnRedo(x, h)

(* Forgetting is such a change.                                            *)
LEMMA PrunedEvolves ==
    ASSUME NEW x \in Document, NEW y, Pruned(x, y), Good(x), NEW t, NEW u, NEW b, NEW g
    PROVE  Evolves(x, y, t, u, b) /\ Sided(x, y, g)
<1>1. /\ Good(y)
      /\ \A i \in DOMAIN y.undo : \E k \in DOMAIN x.undo : y.undo[i] = x.undo[k]
      /\ \A i \in DOMAIN y.redo : \E k \in DOMAIN x.redo : y.redo[i] = x.redo[k]
      /\ EntriesOf(y) \subseteq EntriesOf(x)
  BY PrunedKeeps DEF Good
<1>2. y \in Document /\ y.content = x.content /\ y.state = x.state
  BY DEF Pruned
<1>3. <<y.state, y.content>> \in Knows(x)
  BY <1>2 DEF Knows
<1>4. \A e \in EntriesOf(y) : \E f \in EntriesOf(x) : Like(e, f)
  BY <1>1 DEF Like
<1>5. Sided(x, y, g)
  BY <1>1 DEF Sided, OnUndo, OnRedo
<1> QED
  BY <1>1, <1>2, <1>3, <1>4, <1>5 DEF Evolves

(* What is known of a document that has forgotten was known.               *)
LEMMA PrunedKnows ==
    ASSUME NEW x \in Document, NEW y, Pruned(x, y), Good(x)
    PROVE  Knows(y) \subseteq Knows(x) /\ Marks(y) \subseteq Marks(x)
<1>1. EntriesOf(y) \subseteq EntriesOf(x)
  BY PrunedKeeps DEF Good
<1>2. y.content = x.content /\ y.state = x.state
  BY DEF Pruned
<1> QED
  BY <1>1, <1>2 DEF Knows, Marks

(* A change may be followed by forgetting.                                 *)
LEMMA EvolvesThenPruned ==
    ASSUME NEW x \in Document, NEW y, NEW z, NEW t, NEW u, NEW b, NEW g,
           Evolves(x, y, t, u, b), Sided(x, y, g), Pruned(y, z)
    PROVE  Evolves(x, z, t, u, b) /\ Sided(x, z, g)
<1>1. y \in Document /\ Good(y)
  BY DEF Evolves
<1>2. /\ Good(z) /\ EntriesOf(z) \subseteq EntriesOf(y)
      /\ \A i \in DOMAIN z.undo : \E k \in DOMAIN y.undo : z.undo[i] = y.undo[k]
      /\ \A i \in DOMAIN z.redo : \E k \in DOMAIN y.redo : z.redo[i] = y.redo[k]
  BY <1>1, PrunedKeeps DEF Good
<1>3. z \in Document /\ z.content = y.content /\ z.state = y.state
  BY DEF Pruned
<1>4. <<z.state, z.content>> \in Knows(x) \/ z.state > u
  BY <1>3 DEF Evolves
<1>5. ASSUME NEW e \in EntriesOf(z)
      PROVE  (\E f \in EntriesOf(x) : Like(e, f)) \/ Fresh(x, z, e, t, u, b)
  <2>1. (\E f \in EntriesOf(x) : Like(e, f)) \/ Fresh(x, y, e, t, u, b)
    BY <1>2 DEF Evolves
  <2>2. Fresh(x, y, e, t, u, b) => Fresh(x, z, e, t, u, b)
    BY <1>3 DEF Fresh
  <2> QED
    BY <2>1, <2>2
<1>6. Sided(x, z, g)
  BY <1>2 DEF Sided, OnUndo, OnRedo
<1> QED
  BY <1>2, <1>3, <1>4, <1>5, <1>6 DEF Evolves

(* And a change may follow it.                                              *)
LEMMA PrunedThenEvolves ==
    ASSUME NEW x \in Document, Good(x), NEW y, NEW z, NEW t, NEW u, NEW b, NEW g,
           Pruned(x, y), Evolves(y, z, t, u, b), Sided(y, z, g)
    PROVE  Evolves(x, z, t, u, b) /\ Sided(x, z, g)
<1>1. /\ EntriesOf(y) \subseteq EntriesOf(x)
      /\ \A i \in DOMAIN y.undo : \E k \in DOMAIN x.undo : y.undo[i] = x.undo[k]
      /\ \A i \in DOMAIN y.redo : \E k \in DOMAIN x.redo : y.redo[i] = x.redo[k]
  BY PrunedKeeps DEF Good
<1>2. Knows(y) \subseteq Knows(x) /\ Marks(y) \subseteq Marks(x)
  BY PrunedKnows
<1>3. ASSUME NEW e \in EntriesOf(z)
      PROVE  (\E f \in EntriesOf(x) : Like(e, f)) \/ Fresh(x, z, e, t, u, b)
  <2>1. (\E f \in EntriesOf(y) : Like(e, f)) \/ Fresh(y, z, e, t, u, b)
    BY DEF Evolves
  <2>2. Fresh(y, z, e, t, u, b) => Fresh(x, z, e, t, u, b)
    BY <1>2 DEF Fresh
  <2> QED
    BY <1>1, <2>1, <2>2
<1>4. Sided(x, z, g)
  BY <1>1 DEF Sided, OnUndo, OnRedo
<1>5. z \in Document /\ Good(z) /\ (<<z.state, z.content>> \in Knows(x) \/ z.state > u)
  BY <1>2 DEF Evolves
<1> QED
  BY <1>3, <1>4, <1>5 DEF Evolves

(* Undo: the top undo entry becomes the top redo entry.                    *)
TakesBack(x, y) ==
    /\ y \in Document /\ x.undo # <<>>
    /\ Len(y.undo) = Len(x.undo) - 1 /\ Len(y.redo) = Len(x.redo) + 1
    /\ \A i \in 1..Len(y.undo) : Like(y.undo[i], x.undo[i])
    /\ \A i \in 1..Len(x.redo) : Like(y.redo[i], x.redo[i])
    /\ Like(y.redo[Len(y.redo)], x.undo[Len(x.undo)])
    /\ y.content = x.undo[Len(x.undo)].before /\ y.state = x.undo[Len(x.undo)].beforeState

(* Redo: the reverse.                                                      *)
TakesForward(x, y) ==
    /\ y \in Document /\ x.redo # <<>>
    /\ Len(y.redo) = Len(x.redo) - 1 /\ Len(y.undo) = Len(x.undo) + 1
    /\ \A i \in 1..Len(y.redo) : Like(y.redo[i], x.redo[i])
    /\ \A i \in 1..Len(x.undo) : Like(y.undo[i], x.undo[i])
    /\ Like(y.undo[Len(y.undo)], x.redo[Len(x.redo)])
    /\ y.content = x.redo[Len(x.redo)].after /\ y.state = x.redo[Len(x.redo)].afterState

(* A stack that has entries has a top.                                     *)
LEMMA TopOf ==
    ASSUME NEW s \in Seq(Entry)
    PROVE  /\ DOMAIN s = 1..Len(s) /\ Len(s) \in Nat
           /\ s # <<>> <=> Len(s) \in DOMAIN s
           /\ s # <<>> <=> Len(s) >= 1
BY EmptySeq

(* Undo changes the document in no other way.                              *)
LEMMA TakesBackEvolves ==
    ASSUME NEW x \in Document, NEW y, Good(x), TakesBack(x, y), NEW t, NEW u, NEW b
    PROVE  /\ Evolves(x, y, t, u, b) /\ Sided(x, y, x.undo[Len(x.undo)].tag)
           /\ OnRedo(y, x.undo[Len(x.undo)].tag)
<1>1. PICK n \in Nat, m \in Nat : n = Len(x.undo) /\ m = Len(x.redo)
  BY EntriesAre
<1>2. /\ DOMAIN x.undo = 1..n /\ DOMAIN x.redo = 1..m
      /\ DOMAIN y.undo = 1..(n - 1) /\ DOMAIN y.redo = 1..(m + 1)
      /\ n \in 1..n
      /\ y \in Document /\ Len(y.undo) = n - 1 /\ Len(y.redo) = m + 1
  BY <1>1, EntriesAre, TopOf DEF TakesBack, Document
<1>3. PICK top : top = x.undo[n]
  OBVIOUS
<1>4. /\ \A i \in 1..(n - 1) : Like(y.undo[i], x.undo[i])
      /\ \A i \in 1..m : Like(y.redo[i], x.redo[i])
      /\ Like(y.redo[m + 1], top)
      /\ y.content = top.before /\ y.state = top.beforeState
  BY <1>1, <1>2, <1>3 DEF TakesBack
<1>5. Chain(y)
  <2>1. y.undo # <<>> => /\ y.undo[Len(y.undo)].after = y.content
                         /\ y.undo[Len(y.undo)].afterState = y.state
    <3>1. SUFFICES ASSUME y.undo # <<>> PROVE /\ y.undo[n - 1].after = top.before
                                             /\ y.undo[n - 1].afterState = top.beforeState
      BY <1>2, <1>4
    <3>2. n - 1 \in 1..(n - 1)
      BY <1>1, <1>2, <3>1, TopOf DEF Document
    <3>3. /\ x.undo[n - 1].after = x.undo[(n - 1) + 1].before
          /\ x.undo[n - 1].afterState = x.undo[(n - 1) + 1].beforeState
      BY <1>1, <3>2 DEF Good, Chain
    <3>4. (n - 1) + 1 = n
      BY <1>1
    <3> QED
      BY <1>3, <1>4, <3>2, <3>3, <3>4 DEF Like
  <2>2. y.redo # <<>> => /\ y.redo[Len(y.redo)].before = y.content
                         /\ y.redo[Len(y.redo)].beforeState = y.state
    BY <1>2, <1>4 DEF Like
  <2>3. ASSUME NEW i \in 1..(Len(y.undo) - 1)
        PROVE  /\ y.undo[i].after = y.undo[i+1].before
               /\ y.undo[i].afterState = y.undo[i+1].beforeState
    <3>1. i \in 1..(n - 1) /\ i + 1 \in 1..(n - 1)
      BY <1>1, <1>2, <2>3
    <3>2. /\ x.undo[i].after = x.undo[i+1].before
          /\ x.undo[i].afterState = x.undo[i+1].beforeState
      BY <1>1, <3>1 DEF Good, Chain
    <3> QED
      BY <1>4, <3>1, <3>2 DEF Like
  <2>4. ASSUME NEW i \in 1..(Len(y.redo) - 1)
        PROVE  /\ y.redo[i].before = y.redo[i+1].after
               /\ y.redo[i].beforeState = y.redo[i+1].afterState
    <3>1. i \in 1..m
      BY <1>1, <1>2, <2>4
    <3>2. CASE i = m
      <4>1. x.redo # <<>>
        BY <1>1, <3>1, TopOf DEF Document
      <4>2. x.redo[m].before = x.content /\ x.redo[m].beforeState = x.state
        BY <1>1, <4>1 DEF Good, Chain
      <4>3. top.after = x.content /\ top.afterState = x.state
        BY <1>1, <1>3 DEF Good, Chain, TakesBack
      <4> QED
        BY <1>4, <3>1, <3>2, <4>2, <4>3 DEF Like
    <3>3. CASE i # m
      <4>1. i \in 1..(m - 1) /\ i + 1 \in 1..m
        BY <1>1, <3>1, <3>3
      <4>2. /\ x.redo[i].before = x.redo[i+1].after
            /\ x.redo[i].beforeState = x.redo[i+1].afterState
        BY <1>1, <4>1 DEF Good, Chain
      <4> QED
        BY <1>4, <3>1, <4>1, <4>2 DEF Like
    <3> QED
      BY <3>2, <3>3
  <2> QED
    BY <2>1, <2>2, <2>3, <2>4 DEF Chain
<1>6. Sorted(y)
  <2>1. \A i, k \in DOMAIN y.undo : i < k => y.undo[i].seq < y.undo[k].seq
    BY <1>2, <1>4 DEF Good, Sorted, Like
  <2>2. ASSUME NEW i \in DOMAIN y.redo, NEW k \in DOMAIN y.redo, i < k
        PROVE  y.redo[i].seq > y.redo[k].seq
    <3>1. i \in 1..m /\ (k \in 1..m \/ k = m + 1)
      BY <1>2, <2>2
    <3>2. CASE k \in 1..m
      BY <1>2, <1>4, <2>2, <3>1, <3>2 DEF Good, Sorted, Like
    <3>3. CASE k = m + 1
      <4>1. x.undo[n].seq < x.redo[i].seq
        BY <1>2, <3>1 DEF Good, Sorted
      <4> QED
        BY <1>2, <1>3, <1>4, <3>1, <3>3, <4>1, EntriesAre DEF Like, Entry
    <3> QED
      BY <3>1, <3>2, <3>3
  <2>3. ASSUME NEW i \in DOMAIN y.undo, NEW k \in DOMAIN y.redo
        PROVE  y.undo[i].seq < y.redo[k].seq
    <3>1. i \in 1..n /\ i < n /\ i \in 1..(n - 1) /\ (k \in 1..m \/ k = m + 1)
      BY <1>2, <2>3
    <3>2. CASE k \in 1..m
      BY <1>2, <1>4, <3>1, <3>2 DEF Good, Sorted, Like
    <3>3. CASE k = m + 1
      BY <1>2, <1>3, <1>4, <3>1, <3>3 DEF Good, Sorted, Like
    <3> QED
      BY <3>1, <3>2, <3>3
  <2> QED
    BY <2>1, <2>2, <2>3 DEF Sorted
<1>7. TaggedOnce(y)
  <2>1. /\ TaggedOnce(x)
        /\ \A i \in 1..(n - 1) : i \in DOMAIN x.undo /\ y.undo[i].tag = x.undo[i].tag
        /\ \A i \in 1..m : i \in DOMAIN x.redo /\ y.redo[i].tag = x.redo[i].tag
        /\ y.redo[m + 1].tag = top.tag
    BY <1>2, <1>4 DEF Good, Like
  <2>2. ASSUME NEW i \in DOMAIN y.undo, NEW k \in DOMAIN y.undo,
               y.undo[i].tag = y.undo[k].tag, y.undo[i].tag # None
        PROVE  i = k
    <3>1. x.undo[i].tag = x.undo[k].tag /\ x.undo[i].tag # None
      BY <1>2, <2>2, <2>1
    <3> QED
      BY <1>2, <2>2, <2>1, <3>1 DEF TaggedOnce
  <2>3. ASSUME NEW i \in DOMAIN y.redo, NEW k \in DOMAIN y.redo,
               y.redo[i].tag = y.redo[k].tag, y.redo[i].tag # None
        PROVE  i = k
    <3>1. (i \in 1..m \/ i = m + 1) /\ (k \in 1..m \/ k = m + 1)
      BY <1>2
    <3>2. \A j \in 1..m : x.redo[j].tag = top.tag => top.tag = None
      BY <1>2, <1>3 DEF Good, TaggedOnce
    <3>3. \A j \in 1..m : y.redo[j].tag = x.redo[j].tag
      BY <1>4 DEF Like
    <3>4. y.redo[m + 1].tag = top.tag
      BY <1>4 DEF Like
    <3>5. CASE i \in 1..m /\ k \in 1..m
      BY <1>2, <2>3, <3>3, <3>5 DEF Good, TaggedOnce
    <3> QED
      BY <2>3, <3>1, <3>2, <3>3, <3>4, <3>5
  <2>4. ASSUME NEW i \in DOMAIN y.undo, NEW k \in DOMAIN y.redo, y.undo[i].tag = y.redo[k].tag
        PROVE  y.undo[i].tag = None
    <3>1. i \in 1..n /\ i # n /\ i \in 1..(n - 1) /\ (k \in 1..m \/ k = m + 1)
      BY <1>2, <2>4
    <3>2. CASE k \in 1..m
      <4>1. x.undo[i].tag = x.redo[k].tag
        BY <2>4, <2>1, <3>1, <3>2
      <4> QED
        BY <2>1, <3>1, <3>2, <4>1 DEF TaggedOnce
    <3>3. CASE k = m + 1
      <4>1. x.undo[i].tag = x.undo[n].tag
        BY <1>3, <2>4, <2>1, <3>1, <3>3
      <4> QED
        BY <1>2, <2>1, <3>1, <4>1 DEF TaggedOnce
    <3> QED
      BY <3>1, <3>2, <3>3
  <2> QED
    BY <2>2, <2>3, <2>4 DEF TaggedOnce
<1>8. \A i \in DOMAIN y.undo : i \in DOMAIN x.undo /\ Like(y.undo[i], x.undo[i])
  BY <1>2, <1>4
<1>9. \A i \in DOMAIN y.redo :
         \/ i \in DOMAIN x.redo /\ Like(y.redo[i], x.redo[i])
         \/ i = m + 1 /\ n \in DOMAIN x.undo /\ Like(y.redo[i], x.undo[n])
  BY <1>2, <1>3, <1>4
<1>10. \A e \in EntriesOf(y) : \E f \in EntriesOf(x) : Like(e, f)
  BY <1>8, <1>9 DEF EntriesOf
<1>11. <<y.state, y.content>> \in Knows(x)
  <2>1. top \in EntriesOf(x)
    BY <1>2, <1>3 DEF EntriesOf
  <2> QED
    BY <1>4, <2>1 DEF Knows
<1>12. Sided(x, y, top.tag)
  BY <1>3, <1>8, <1>9 DEF Sided, OnUndo, OnRedo, Like
<1>13. OnRedo(y, top.tag)
  BY SMTT(40), <1>2, <1>4 DEF OnRedo, Like
<1> QED
  BY <1>1, <1>2, <1>3, <1>5, <1>6, <1>7, <1>10, <1>11, <1>12, <1>13 DEF Evolves, Good
(* Redo changes the document in no other way.                               *)
LEMMA TakesForwardEvolves ==
    ASSUME NEW x \in Document, NEW y, Good(x), TakesForward(x, y), NEW t, NEW u, NEW b
    PROVE  /\ Evolves(x, y, t, u, b) /\ Sided(x, y, x.redo[Len(x.redo)].tag)
           /\ OnUndo(y, x.redo[Len(x.redo)].tag)
<1>1. PICK n \in Nat, m \in Nat : n = Len(x.redo) /\ m = Len(x.undo)
  BY EntriesAre
<1>2. /\ DOMAIN x.redo = 1..n /\ DOMAIN x.undo = 1..m
      /\ DOMAIN y.redo = 1..(n - 1) /\ DOMAIN y.undo = 1..(m + 1)
      /\ n \in 1..n
      /\ y \in Document /\ Len(y.redo) = n - 1 /\ Len(y.undo) = m + 1
  BY <1>1, EntriesAre, TopOf DEF TakesForward, Document
<1>3. PICK top : top = x.redo[n]
  OBVIOUS
<1>4. /\ \A i \in 1..(n - 1) : Like(y.redo[i], x.redo[i])
      /\ \A i \in 1..m : Like(y.undo[i], x.undo[i])
      /\ Like(y.undo[m + 1], top)
      /\ y.content = top.after /\ y.state = top.afterState
  BY <1>1, <1>2, <1>3 DEF TakesForward
<1>5. Chain(y)
  <2>1. y.redo # <<>> => /\ y.redo[Len(y.redo)].before = y.content
                         /\ y.redo[Len(y.redo)].beforeState = y.state
    <3>1. SUFFICES ASSUME y.redo # <<>> PROVE /\ y.redo[n - 1].before = top.after
                                             /\ y.redo[n - 1].beforeState = top.afterState
      BY <1>2, <1>4
    <3>2. n - 1 \in 1..(n - 1)
      BY <1>1, <1>2, <3>1, TopOf DEF Document
    <3>3. /\ x.redo[n - 1].before = x.redo[(n - 1) + 1].after
          /\ x.redo[n - 1].beforeState = x.redo[(n - 1) + 1].afterState
      BY <1>1, <3>2 DEF Good, Chain
    <3>4. (n - 1) + 1 = n
      BY <1>1
    <3> QED
      BY <1>3, <1>4, <3>2, <3>3, <3>4 DEF Like
  <2>2. y.undo # <<>> => /\ y.undo[Len(y.undo)].after = y.content
                         /\ y.undo[Len(y.undo)].afterState = y.state
    BY <1>2, <1>4 DEF Like
  <2>3. ASSUME NEW i \in 1..(Len(y.redo) - 1)
        PROVE  /\ y.redo[i].before = y.redo[i+1].after
               /\ y.redo[i].beforeState = y.redo[i+1].afterState
    <3>1. i \in 1..(n - 1) /\ i + 1 \in 1..(n - 1)
      BY <1>1, <1>2, <2>3
    <3>2. /\ x.redo[i].before = x.redo[i+1].after
          /\ x.redo[i].beforeState = x.redo[i+1].afterState
      BY <1>1, <3>1 DEF Good, Chain
    <3> QED
      BY <1>4, <3>1, <3>2 DEF Like
  <2>4. ASSUME NEW i \in 1..(Len(y.undo) - 1)
        PROVE  /\ y.undo[i].after = y.undo[i+1].before
               /\ y.undo[i].afterState = y.undo[i+1].beforeState
    <3>1. i \in 1..m
      BY <1>1, <1>2, <2>4
    <3>2. CASE i = m
      <4>1. x.undo # <<>>
        BY <1>1, <3>1, TopOf DEF Document
      <4>2. x.undo[m].after = x.content /\ x.undo[m].afterState = x.state
        BY <1>1, <4>1 DEF Good, Chain
      <4>3. top.before = x.content /\ top.beforeState = x.state
        BY <1>1, <1>3 DEF Good, Chain, TakesForward
      <4> QED
        BY <1>4, <3>1, <3>2, <4>2, <4>3 DEF Like
    <3>3. CASE i # m
      <4>1. i \in 1..(m - 1) /\ i + 1 \in 1..m
        BY <1>1, <3>1, <3>3
      <4>2. /\ x.undo[i].after = x.undo[i+1].before
            /\ x.undo[i].afterState = x.undo[i+1].beforeState
        BY <1>1, <4>1 DEF Good, Chain
      <4> QED
        BY <1>4, <3>1, <4>1, <4>2 DEF Like
    <3> QED
      BY <3>2, <3>3
  <2> QED
    BY <2>1, <2>2, <2>3, <2>4 DEF Chain
<1>6. Sorted(y)
  <2>1. ASSUME NEW i \in DOMAIN y.redo, NEW k \in DOMAIN y.redo, i < k
        PROVE  y.redo[i].seq > y.redo[k].seq
    <3>1. i \in 1..(n - 1) /\ k \in 1..(n - 1) /\ i \in DOMAIN x.redo /\ k \in DOMAIN x.redo
      BY <1>2, <2>1
    <3>2. x.redo[i].seq > x.redo[k].seq
      BY <2>1, <3>1 DEF Good, Sorted
    <3> QED
      BY <1>4, <3>1, <3>2 DEF Like
  <2>2. ASSUME NEW i \in DOMAIN y.undo, NEW k \in DOMAIN y.undo, i < k
        PROVE  y.undo[i].seq < y.undo[k].seq
    <3>1. i \in 1..m /\ (k \in 1..m \/ k = m + 1)
      BY <1>2, <2>2
    <3>2. CASE k \in 1..m
      BY <1>2, <1>4, <2>2, <3>1, <3>2 DEF Good, Sorted, Like
    <3>3. CASE k = m + 1
      <4>1. x.undo[i].seq < x.redo[n].seq
        BY <1>2, <3>1 DEF Good, Sorted
      <4> QED
        BY <1>2, <1>3, <1>4, <3>1, <3>3, <4>1, EntriesAre DEF Like, Entry
    <3> QED
      BY <3>1, <3>2, <3>3
  <2>3. ASSUME NEW i \in DOMAIN y.redo, NEW k \in DOMAIN y.undo
        PROVE  y.undo[k].seq < y.redo[i].seq
    <3>1. i \in 1..n /\ i < n /\ i \in 1..(n - 1) /\ (k \in 1..m \/ k = m + 1)
      BY <1>2, <2>3
    <3>2. CASE k \in 1..m
      BY <1>2, <1>4, <3>1, <3>2 DEF Good, Sorted, Like
    <3>3. CASE k = m + 1
      BY <1>2, <1>3, <1>4, <3>1, <3>3 DEF Good, Sorted, Like
    <3> QED
      BY <3>1, <3>2, <3>3
  <2> QED
    BY <2>1, <2>2, <2>3 DEF Sorted
<1>7. TaggedOnce(y)
  <2>1. /\ TaggedOnce(x)
        /\ \A i \in 1..(n - 1) : i \in DOMAIN x.redo /\ y.redo[i].tag = x.redo[i].tag
        /\ \A i \in 1..m : i \in DOMAIN x.undo /\ y.undo[i].tag = x.undo[i].tag
        /\ y.undo[m + 1].tag = top.tag
    BY <1>2, <1>4 DEF Good, Like
  <2>2. ASSUME NEW i \in DOMAIN y.redo, NEW k \in DOMAIN y.redo,
               y.redo[i].tag = y.redo[k].tag, y.redo[i].tag # None
        PROVE  i = k
    <3>1. x.redo[i].tag = x.redo[k].tag /\ x.redo[i].tag # None
      BY <1>2, <2>2, <2>1
    <3> QED
      BY <1>2, <2>2, <2>1, <3>1 DEF TaggedOnce
  <2>3. ASSUME NEW i \in DOMAIN y.undo, NEW k \in DOMAIN y.undo,
               y.undo[i].tag = y.undo[k].tag, y.undo[i].tag # None
        PROVE  i = k
    <3>1. (i \in 1..m \/ i = m + 1) /\ (k \in 1..m \/ k = m + 1)
      BY <1>2
    <3>2. \A j \in 1..m : x.undo[j].tag = top.tag => top.tag = None
      BY <1>2, <1>3 DEF Good, TaggedOnce
    <3>3. \A j \in 1..m : y.undo[j].tag = x.undo[j].tag
      BY <1>4 DEF Like
    <3>4. y.undo[m + 1].tag = top.tag
      BY <1>4 DEF Like
    <3>5. CASE i \in 1..m /\ k \in 1..m
      BY <1>2, <2>3, <3>3, <3>5 DEF Good, TaggedOnce
    <3> QED
      BY <2>3, <3>1, <3>2, <3>3, <3>4, <3>5
  <2>4. ASSUME NEW i \in DOMAIN y.redo, NEW k \in DOMAIN y.undo, y.redo[i].tag = y.undo[k].tag
        PROVE  y.redo[i].tag = None
    <3>1. i \in 1..n /\ i # n /\ i \in 1..(n - 1) /\ (k \in 1..m \/ k = m + 1)
      BY <1>2, <2>4
    <3>2. CASE k \in 1..m
      <4>1. x.redo[i].tag = x.undo[k].tag
        BY <2>4, <2>1, <3>1, <3>2
      <4> QED
        BY <2>1, <3>1, <3>2, <4>1 DEF TaggedOnce
    <3>3. CASE k = m + 1
      <4>1. x.redo[i].tag = x.redo[n].tag
        BY <1>3, <2>4, <2>1, <3>1, <3>3
      <4> QED
        BY <1>2, <2>1, <3>1, <4>1 DEF TaggedOnce
    <3> QED
      BY <3>1, <3>2, <3>3
  <2> QED
    BY <2>2, <2>3, <2>4 DEF TaggedOnce
<1>8. \A i \in DOMAIN y.redo : i \in DOMAIN x.redo /\ Like(y.redo[i], x.redo[i])
  BY <1>2, <1>4
<1>9. \A i \in DOMAIN y.undo :
         \/ i \in DOMAIN x.undo /\ Like(y.undo[i], x.undo[i])
         \/ i = m + 1 /\ n \in DOMAIN x.redo /\ Like(y.undo[i], x.redo[n])
  BY <1>2, <1>3, <1>4
<1>10. \A e \in EntriesOf(y) : \E f \in EntriesOf(x) : Like(e, f)
  BY <1>8, <1>9 DEF EntriesOf
<1>11. <<y.state, y.content>> \in Knows(x)
  <2>1. top \in EntriesOf(x)
    BY <1>2, <1>3 DEF EntriesOf
  <2> QED
    BY <1>4, <2>1 DEF Knows
<1>12. Sided(x, y, top.tag)
  BY <1>3, <1>8, <1>9 DEF Sided, OnRedo, OnUndo, Like
<1>13. OnUndo(y, top.tag)
  BY SMTT(40), <1>2, <1>4 DEF OnUndo, Like
<1> QED
  BY <1>1, <1>2, <1>3, <1>5, <1>6, <1>7, <1>10, <1>11, <1>12, <1>13 DEF Evolves, Good

(* The stack without its top.                                               *)
LEMMA ButTop ==
    ASSUME NEW s \in Seq(Entry), s # <<>>, NEW r, r = SubSeq(s, 1, Len(s) - 1)
    PROVE  /\ r \in Seq(Entry) /\ Len(r) = Len(s) - 1
           /\ \A i \in 1..Len(r) : r[i] = s[i]
<1>1. Len(s) \in Nat /\ Len(s) >= 1 /\ \A i \in 1..Len(s) : s[i] \in Entry
  BY TopOf
<1>2. PICK n \in Nat : n = Len(s) - 1
  BY <1>1
<1>3. \A i \in 1..n : s[i] \in Entry
  BY <1>1, <1>2
<1>4. /\ SubSeq(s, 1, n) \in Seq(Entry)
      /\ Len(SubSeq(s, 1, n)) = IF 1 <= n THEN n - 1 + 1 ELSE 0
      /\ \A i \in 1..(n - 1 + 1) : SubSeq(s, 1, n)[i] = s[1 + i - 1]
  BY <1>2, <1>3, SubSeqProperties
<1> QED
  BY <1>1, <1>2, <1>4

(* The top of a stack after one entry is put on.                            *)
LEMMA PlusTop ==
    ASSUME NEW s \in Seq(Entry), NEW e \in Entry, NEW r, r = Append(s, e)
    PROVE  /\ r \in Seq(Entry) /\ Len(r) = Len(s) + 1 /\ r # <<>>
           /\ \A i \in 1..Len(s) : r[i] = s[i]
           /\ r[Len(r)] = e
<1>1. Len(s) \in Nat
  OBVIOUS
<1>2. /\ r \in Seq(Entry) /\ Len(r) = Len(s) + 1 /\ r # <<>>
      /\ \A i \in 1..Len(s) : r[i] = s[i] /\ r[Len(s) + 1] = e
  BY <1>1, AppendProperties
<1>3. r[Len(r)] = e
  BY <1>1
<1> QED
  BY <1>1, <1>2, <1>3

(* The end of the typing run changes nothing else of an entry.             *)
LEMMA TypingEnds ==
    ASSUME NEW e \in Entry, NEW f, f = [e EXCEPT !.typing = FALSE]
    PROVE  f \in Entry /\ Like(f, e)
BY DEF Entry, Like

(* A document with another version and other stacks.                       *)
Shows(x, c, s, u, r, k, l) ==
    [Moved(x, c, s) EXCEPT !.undo = u, !.redo = r, !.undoCap = k, !.redoCap = l]

Shown(y, c, s, u, r) ==
    y \in Document /\ y.content = c /\ y.state = s /\ y.undo = u /\ y.redo = r

(* A document that shows another version has that version and the stacks it *)
(* is given.                                                                *)
LEMMA ShowsIs ==
    ASSUME NEW x \in Document, NEW c \in Contents, NEW s \in Nat,
           NEW u \in Seq(Entry), NEW r \in Seq(Entry), NEW k \in Nat, NEW l \in Nat,
           NEW y, y = Shows(x, c, s, u, r, k, l)
    PROVE  Shown(y, c, s, u, r)
<1>1. PICK z : z = Moved(x, c, s)
  OBVIOUS
<1>2. PICK v \in Nat : v = x.revision + 1
  BY DEF Document
<1>3. z \in Document /\ z.content = c /\ z.state = s
  <2>1. z = [x EXCEPT !.content = c, !.state = s, !.revision = v]
    BY <1>1, <1>2 DEF Moved
  <2> QED
    BY <2>1 DEF Document
<1>4. y = [z EXCEPT !.undo = u, !.redo = r, !.undoCap = k, !.redoCap = l]
  BY <1>1 DEF Shows
<1> QED
  BY <1>3, <1>4 DEF Document, Shown

(* A document shown with its top undo entry on the redo stack.             *)
LEMMA BackIs ==
    ASSUME NEW x \in Document, x.undo # <<>>, NEW u \in Seq(Entry), Len(u) = Len(x.undo) - 1,
           \A i \in 1..Len(u) : Like(u[i], x.undo[i]),
           NEW e \in Entry, Like(e, x.undo[Len(x.undo)]), NEW l \in Nat, NEW y,
           y = Shows(x, e.before, e.beforeState, u, Append(x.redo, e), x.undoCap, l)
    PROVE  TakesBack(x, y)
<1>1. x.redo \in Seq(Entry) /\ Len(x.redo) \in Nat
  BY DEF Document
<1>2. PICK r : r = Append(x.redo, e)
  OBVIOUS
<1>3. /\ r \in Seq(Entry) /\ Len(r) = Len(x.redo) + 1
      /\ \A i \in 1..Len(x.redo) : r[i] = x.redo[i]
      /\ r[Len(r)] = e
  BY <1>1, <1>2, PlusTop
<1>4. PICK c \in Contents, s \in Nat : c = e.before /\ s = e.beforeState
  BY DEF Entry
<1>5. PICK k \in Nat : k = x.undoCap
  BY DEF Document
<1>6. PICK w \in Seq(Entry) : w = r
  BY <1>3
<1>7. y = Shows(x, c, s, u, w, k, l)
  BY <1>2, <1>4, <1>5, <1>6
<1>8. y \in Document /\ y.content = c /\ y.state = s /\ y.undo = u /\ y.redo = w
  <2>1. Shown(y, c, s, u, w)
    BY <1>7, ShowsIs
  <2> QED
    BY <2>1 DEF Shown
<1>9. \A i \in 1..Len(x.redo) : Like(w[i], x.redo[i])
  BY <1>3, <1>6 DEF Like
<1>10. e.before = x.undo[Len(x.undo)].before /\ e.beforeState = x.undo[Len(x.undo)].beforeState
  BY DEF Like
<1> QED
  BY <1>3, <1>4, <1>6, <1>8, <1>9, <1>10 DEF TakesBack

(* An entry is like itself.                                                *)
LEMMA LikeItself ==
    ASSUME NEW e
    PROVE  Like(e, e)
BY DEF Like

(* What undo does, alone.                                                  *)
LEMMA UndoneIs ==
    ASSUME NEW x \in Document, x.undo # <<>>, NEW y, y = Undone(x)
    PROVE  TakesBack(x, y)
<1>1. /\ x.undo \in Seq(Entry) /\ Len(x.redo) \in Nat
      /\ x.undoCap \in Nat /\ x.redoCap \in Nat
  BY DEF Document
<1>2. PICK n \in Nat : n = Len(x.undo) /\ n >= 1 /\ \A i \in 1..n : x.undo[i] \in Entry
  BY <1>1, TopOf
<1>3. PICK top \in Entry : top = x.undo[n]
  BY <1>2
<1>4. PICK e : e = [top EXCEPT !.typing = FALSE]
  OBVIOUS
<1>5. e \in Entry /\ Like(e, top)
  BY <1>4, TypingEnds
<1>6. PICK rest : rest = SubSeq(x.undo, 1, n - 1)
  OBVIOUS
<1>7. rest \in Seq(Entry) /\ Len(rest) = n - 1 /\ \A i \in 1..Len(rest) : rest[i] = x.undo[i]
  BY <1>1, <1>2, <1>6, ButTop
<1>8. PICK u : u = IF n = 1 THEN rest ELSE [rest EXCEPT ![n - 1].typing = FALSE]
  OBVIOUS
<1>9. u \in Seq(Entry) /\ Len(u) = n - 1 /\ \A i \in 1..(n - 1) : Like(u[i], x.undo[i])
  <2>1. CASE n = 1
    BY <1>7, <1>8, <2>1
  <2>2. CASE n # 1
    <3>1. n - 1 \in 1..Len(rest)
      <4>1. n \in Nat /\ n >= 1 /\ Len(rest) = n - 1
        BY <1>2, <1>7
      <4> QED
        BY <2>2, <4>1
    <3>2. PICK f : f = [rest[n - 1] EXCEPT !.typing = FALSE]
      OBVIOUS
    <3>3. rest[n - 1] \in Entry
      BY <1>7, <3>1
    <3>4. f \in Entry /\ Like(f, rest[n - 1])
      BY <3>2, <3>3, TypingEnds
    <3>5. u = [rest EXCEPT ![n - 1] = f]
      BY <1>8, <2>2, <3>2
    <3>6. /\ u \in Seq(Entry) /\ Len(u) = Len(rest)
          /\ \A i \in 1..Len(rest) : u[i] = IF i = n - 1 THEN f ELSE rest[i]
      BY <1>7, <3>1, <3>4, <3>5, ExceptSeq
    <3> QED
      BY <1>7, <3>4, <3>6 DEF Like
  <2> QED
    BY <2>1, <2>2
<1>10. PICK cap \in Nat : cap = Grown(Len(x.redo), x.redoCap)
  BY <1>1, GrownIsNat
<1>11. y = Shows(x, e.before, e.beforeState, u, Append(x.redo, e), x.undoCap, cap)
  <2>1. y = [Moved(x, e.before, e.beforeState) EXCEPT !.undo = u, !.redo = Append(@, e), !.redoCap = cap]
    BY <1>2, <1>3, <1>4, <1>6, <1>8, <1>10 DEF Undone
  <2> QED
    BY <1>1, <2>1 DEF Moved, Document, Shows
<1>12. PICK v \in Seq(Entry) : v = u
  BY <1>9
<1>13. Len(v) = Len(x.undo) - 1 /\ \A i \in 1..Len(v) : Like(v[i], x.undo[i])
  BY <1>2, <1>9, <1>12
<1>14. Like(e, x.undo[Len(x.undo)])
  BY <1>2, <1>3, <1>5
<1> QED
  BY <1>5, <1>11, <1>12, <1>13, <1>14, BackIs, Z3

(* What undo does with a group: the entry keeps its typing run.             *)
LEMMA GroupUndoneIs ==
    ASSUME NEW x \in Document, x.undo # <<>>, NEW y, y = GroupUndone(x)
    PROVE  TakesBack(x, y)
<1>1. /\ x.undo \in Seq(Entry) /\ Len(x.redo) \in Nat
      /\ x.undoCap \in Nat /\ x.redoCap \in Nat
  BY DEF Document
<1>2. PICK e \in Entry : e = x.undo[Len(x.undo)]
  BY <1>1, TopOf
<1>3. PICK u \in Seq(Entry) : u = SubSeq(x.undo, 1, Len(x.undo) - 1)
  BY <1>1, ButTop
<1>4. Len(u) = Len(x.undo) - 1 /\ \A i \in 1..Len(u) : Like(u[i], x.undo[i])
  <2>1. Len(u) = Len(x.undo) - 1 /\ \A i \in 1..Len(u) : u[i] = x.undo[i]
    BY <1>1, <1>3, ButTop
  <2> QED
    BY <2>1, LikeItself
<1>5. PICK cap \in Nat : cap = Grown(Len(x.redo), x.redoCap)
  BY <1>1, GrownIsNat
<1>6. y = Shows(x, e.before, e.beforeState, u, Append(x.redo, e), x.undoCap, cap)
  <2>1. y = [Moved(x, e.before, e.beforeState) EXCEPT !.undo = u, !.redo = Append(@, e), !.redoCap = cap]
    BY <1>2, <1>3, <1>5 DEF GroupUndone, Moved
  <2> QED
    BY <1>1, <2>1 DEF Moved, Document, Shows
<1>7. Like(e, x.undo[Len(x.undo)])
  BY <1>2, LikeItself
<1> QED
  BY <1>4, <1>6, <1>7, BackIs, Z3

(* A document shown with its top redo entry on the undo stack.             *)
LEMMA ForwardIs ==
    ASSUME NEW x \in Document, x.redo # <<>>, NEW u \in Seq(Entry), Len(u) = Len(x.redo) - 1,
           \A i \in 1..Len(u) : Like(u[i], x.redo[i]),
           NEW e \in Entry, Like(e, x.redo[Len(x.redo)]), NEW l \in Nat, NEW y,
           y = Shows(x, e.after, e.afterState, Append(x.undo, e), u, l, x.redoCap)
    PROVE  TakesForward(x, y)
<1>1. x.undo \in Seq(Entry) /\ Len(x.undo) \in Nat
  BY DEF Document
<1>2. PICK r : r = Append(x.undo, e)
  OBVIOUS
<1>3. /\ r \in Seq(Entry) /\ Len(r) = Len(x.undo) + 1
      /\ \A i \in 1..Len(x.undo) : r[i] = x.undo[i]
      /\ r[Len(r)] = e
  BY <1>1, <1>2, PlusTop
<1>4. PICK c \in Contents, s \in Nat : c = e.after /\ s = e.afterState
  BY DEF Entry
<1>5. PICK k \in Nat : k = x.redoCap
  BY DEF Document
<1>6. PICK w \in Seq(Entry) : w = r
  BY <1>3
<1>7. y = Shows(x, c, s, w, u, l, k)
  BY <1>2, <1>4, <1>5, <1>6
<1>8. y \in Document /\ y.content = c /\ y.state = s /\ y.redo = u /\ y.undo = w
  <2>1. Shown(y, c, s, w, u)
    BY <1>7, ShowsIs
  <2> QED
    BY <2>1 DEF Shown
<1>9. \A i \in 1..Len(x.undo) : Like(w[i], x.undo[i])
  BY <1>3, <1>6 DEF Like
<1>10. e.after = x.redo[Len(x.redo)].after /\ e.afterState = x.redo[Len(x.redo)].afterState
  BY DEF Like
<1> QED
  BY <1>3, <1>4, <1>6, <1>8, <1>9, <1>10 DEF TakesForward

(* What redo does, alone.                                                   *)
LEMMA RedoneIs ==
    ASSUME NEW x \in Document, x.redo # <<>>, NEW y, y = Redone(x)
    PROVE  TakesForward(x, y)
<1>1. /\ x.redo \in Seq(Entry) /\ Len(x.undo) \in Nat
      /\ x.redoCap \in Nat /\ x.undoCap \in Nat
  BY DEF Document
<1>2. x.redo[Len(x.redo)] \in Entry
  BY <1>1, TopOf
<1>3. PICK e \in Entry : e = [x.redo[Len(x.redo)] EXCEPT !.typing = FALSE] /\ Like(e, x.redo[Len(x.redo)])
  BY <1>2, TypingEnds
<1>4. PICK u \in Seq(Entry) : u = SubSeq(x.redo, 1, Len(x.redo) - 1)
  BY <1>1, ButTop
<1>5. Len(u) = Len(x.redo) - 1 /\ \A i \in 1..Len(u) : Like(u[i], x.redo[i])
  <2>1. Len(u) = Len(x.redo) - 1 /\ \A i \in 1..Len(u) : u[i] = x.redo[i]
    BY <1>1, <1>4, ButTop
  <2> QED
    BY <2>1, LikeItself
<1>6. PICK cap \in Nat : cap = Grown(Len(x.undo), x.undoCap)
  BY <1>1, GrownIsNat
<1>7. y = Shows(x, e.after, e.afterState, Append(x.undo, e), u, cap, x.redoCap)
  <2>1. y = [Moved(x, e.after, e.afterState) EXCEPT !.redo = u, !.undo = Append(@, e), !.undoCap = cap]
    BY <1>3, <1>4, <1>6 DEF Redone, Moved
  <2> QED
    BY <1>1, <2>1 DEF Moved, Document, Shows
<1>8. Like(e, x.redo[Len(x.redo)])
  BY <1>3
<1> QED
  BY <1>5, <1>7, <1>8, ForwardIs, Z3

(* What redo does with a group.                                             *)
LEMMA GroupRedoneIs ==
    ASSUME NEW x \in Document, x.redo # <<>>, NEW y, y = GroupRedone(x)
    PROVE  TakesForward(x, y)
<1>1. /\ x.redo \in Seq(Entry) /\ Len(x.undo) \in Nat
      /\ x.redoCap \in Nat /\ x.undoCap \in Nat
  BY DEF Document
<1>2. PICK e \in Entry : e = x.redo[Len(x.redo)]
  BY <1>1, TopOf
<1>3. PICK u \in Seq(Entry) : u = SubSeq(x.redo, 1, Len(x.redo) - 1)
  BY <1>1, ButTop
<1>4. Len(u) = Len(x.redo) - 1 /\ \A i \in 1..Len(u) : Like(u[i], x.redo[i])
  <2>1. Len(u) = Len(x.redo) - 1 /\ \A i \in 1..Len(u) : u[i] = x.redo[i]
    BY <1>1, <1>3, ButTop
  <2> QED
    BY <2>1, LikeItself
<1>5. PICK cap \in Nat : cap = Grown(Len(x.undo), x.undoCap)
  BY <1>1, GrownIsNat
<1>6. y = Shows(x, e.after, e.afterState, Append(x.undo, e), u, cap, x.redoCap)
  <2>1. y = [Moved(x, e.after, e.afterState) EXCEPT !.redo = u, !.undo = Append(@, e), !.undoCap = cap]
    BY <1>2, <1>3, <1>5 DEF GroupRedone, Moved
  <2> QED
    BY <1>1, <2>1 DEF Moved, Document, Shows
<1>7. Like(e, x.redo[Len(x.redo)])
  BY <1>2, LikeItself
<1> QED
  BY <1>4, <1>6, <1>7, ForwardIs, Z3


(* An edit adds its entry, and nothing can be redone.                      *)
Adds(x, y) ==
    /\ y \in Document
    /\ Len(y.undo) = Len(x.undo) + 1
    /\ \A i \in 1..Len(x.undo) : y.undo[i] = x.undo[i]
    /\ y.undo[Len(y.undo)].before = x.content /\ y.undo[Len(y.undo)].beforeState = x.state
    /\ y.redo = <<>>

(* Or it becomes part of the last one.                                     *)
Joins(x, y) ==
    /\ y \in Document
    /\ Len(y.undo) = Len(x.undo)
    /\ \A i \in 1..Len(x.undo) : /\ y.undo[i].before = x.undo[i].before
                                 /\ y.undo[i].beforeState = x.undo[i].beforeState
    /\ y.redo = <<>>

(* What an edit that is not part of the last one does.                     *)
LEMMA PushedIs ==
    ASSUME NEW x \in Document, NEW c \in Contents, NEW s \in Nat, NEW e \in Entry, NEW y,
           y = Pushed(Moved(x, c, s), e)
    PROVE  Shown(y, c, s, Append(x.undo, e), <<>>)
<1>1. x.undo \in Seq(Entry)
  BY DEF Document
<1>2. PICK u \in Seq(Entry) : u = Append(x.undo, e)
  BY <1>1, PlusTop
<1>3. PICK r \in Seq(Entry) : r = <<>>
  BY EmptySeq
<1>4. PICK k \in Nat, l \in Nat : k = x.undoCap /\ l = x.redoCap
  BY DEF Document
<1>5. y = Shows(x, c, s, u, r, k, l)
  BY <1>2, <1>3, <1>4 DEF Pushed, Shows, Moved, Document
<1>6. Shown(y, c, s, u, r)
  BY <1>5, ShowsIs
<1> QED
  BY <1>2, <1>3, <1>6

(* An edit pushed onto the undo stack is a change of one fresh entry, on    *)
(* top.                                                                     *)
LEMMA PushedEvolves ==
    ASSUME NEW x \in Document, Good(x), NEW c \in Contents, NEW u \in Nat, NEW s \in Nat, s > u,
           \A f \in EntriesOf(x) : f.seq <= u,
           NEW t, t # None => \A f \in EntriesOf(x) : f.tag # t,
           NEW b, NEW e \in Entry, e.before = x.content, e.beforeState = x.state,
           e.after = c, e.afterState = s, e.seq = s, e.tag = t, e.boundary \in {0, b},
           NEW y, y = Pushed(Moved(x, c, s), e)
    PROVE  Evolves(x, y, t, u, b) /\ Sided(x, y, t) /\ Adds(x, y)
<1>1. /\ y \in Document /\ y.content = c /\ y.state = s
      /\ y.undo = Append(x.undo, e) /\ y.redo = <<>>
  BY PushedIs DEF Shown
<1>2. PICK n \in Nat : n = Len(x.undo) /\ DOMAIN x.undo = 1..n /\ x.undo \in Seq(Entry)
  BY EntriesAre DEF Document
<1>3. /\ Len(y.undo) = n + 1 /\ DOMAIN y.undo = 1..(n + 1)
      /\ \A i \in 1..n : y.undo[i] = x.undo[i]
      /\ y.undo[n + 1] = e
      /\ DOMAIN y.redo = {}
  <2>1. /\ Len(y.undo) = Len(x.undo) + 1 /\ y.undo[Len(y.undo)] = e
        /\ \A i \in 1..Len(x.undo) : y.undo[i] = x.undo[i]
    BY <1>1, <1>2, PlusTop
  <2>2. DOMAIN y.undo = 1..Len(y.undo)
    BY <1>1, EntriesAre
  <2> QED
    BY <1>1, <1>2, <2>1, <2>2
<1>4. Chain(y)
  <2>1. /\ y.undo[Len(y.undo)].after = y.content /\ y.undo[Len(y.undo)].afterState = y.state
    BY <1>1, <1>3
  <2>2. ASSUME NEW i \in 1..(Len(y.undo) - 1)
        PROVE  /\ y.undo[i].after = y.undo[i+1].before
               /\ y.undo[i].afterState = y.undo[i+1].beforeState
    <3>1. i \in 1..n /\ (i = n \/ (i \in 1..(n - 1) /\ i + 1 \in 1..n))
      BY <1>3, <2>2
    <3>2. CASE i = n
      <4>1. x.undo[n].after = x.content /\ x.undo[n].afterState = x.state
        BY <1>2, <3>1, <3>2, TopOf DEF Good, Chain
      <4> QED
        BY <1>3, <3>1, <3>2, <4>1
    <3>3. CASE i \in 1..(n - 1) /\ i + 1 \in 1..n
      <4>1. /\ x.undo[i].after = x.undo[i+1].before
            /\ x.undo[i].afterState = x.undo[i+1].beforeState
        BY <1>2, <3>3 DEF Good, Chain
      <4> QED
        BY <1>3, <3>1, <3>3, <4>1
    <3> QED
      BY <3>1, <3>2, <3>3
  <2>3. y.redo = <<>> /\ 1..(Len(y.redo) - 1) = {}
    BY <1>1
  <2> QED
    BY <2>1, <2>2, <2>3 DEF Chain
<1>5. \A i \in 1..n : x.undo[i] \in EntriesOf(x)
  BY <1>2 DEF EntriesOf
<1>6. Sorted(y)
  <2>1. ASSUME NEW i \in DOMAIN y.undo, NEW k \in DOMAIN y.undo, i < k
        PROVE  y.undo[i].seq < y.undo[k].seq
    <3>1. i \in 1..n /\ (k \in 1..n \/ k = n + 1)
      BY <1>3, <2>1
    <3>2. CASE k \in 1..n
      <4>1. x.undo[i].seq < x.undo[k].seq
        BY <1>2, <2>1, <3>1, <3>2 DEF Good, Sorted
      <4> QED
        BY <1>3, <3>1, <3>2, <4>1
    <3>3. CASE k = n + 1
      <4>1. x.undo[i].seq <= u /\ x.undo[i].seq \in Nat
        BY <1>2, <1>5, <3>1, EntriesAre DEF Entry
      <4> QED
        BY <1>3, <3>1, <3>3, <4>1
    <3> QED
      BY <3>1, <3>2, <3>3
  <2> QED
    BY <1>3, <2>1 DEF Sorted
<1>7. TaggedOnce(y)
  <2>1. ASSUME NEW i \in DOMAIN y.undo, NEW k \in DOMAIN y.undo,
               y.undo[i].tag = y.undo[k].tag, y.undo[i].tag # None
        PROVE  i = k
    <3>1. (i \in 1..n \/ i = n + 1) /\ (k \in 1..n \/ k = n + 1)
      BY <1>3, <2>1
    <3>2. \A j \in 1..n : y.undo[j].tag = x.undo[j].tag /\ (t # None => x.undo[j].tag # t)
      BY <1>3, <1>5
    <3>3. y.undo[n + 1].tag = t
      BY <1>3
    <3>4. CASE i \in 1..n /\ k \in 1..n
      BY <1>2, <2>1, <3>2, <3>4 DEF Good, TaggedOnce
    <3> QED
      BY <2>1, <3>1, <3>2, <3>3, <3>4
  <2> QED
    BY <1>3, <2>1 DEF TaggedOnce
<1>8. Fresh(x, y, e, t, u, b)
  BY <1>1 DEF Fresh, Knows
<1>9. EntriesOf(y) \subseteq EntriesOf(x) \cup {e}
  BY <1>3, <1>5 DEF EntriesOf
<1>10. \A f \in EntriesOf(y) : (\E h \in EntriesOf(x) : Like(f, h)) \/ Fresh(x, y, f, t, u, b)
  BY <1>8, <1>9, LikeItself
<1>11. Sided(x, y, t)
  <2>1. ASSUME NEW h, h # t, OnUndo(y, h)
        PROVE  OnUndo(x, h)
    BY <1>2, <1>3, <2>1 DEF OnUndo
  <2>2. ASSUME NEW h PROVE ~OnRedo(y, h)
    BY <1>3 DEF OnRedo
  <2> QED
    BY <2>1, <2>2 DEF Sided
<1>12. Adds(x, y)
  BY <1>1, <1>2, <1>3 DEF Adds
<1> QED
  BY <1>1, <1>4, <1>6, <1>7, <1>10, <1>11, <1>12 DEF Evolves, Good

(* What an edit that extends the last one does.                            *)
LEMMA ExtendedIs ==
    ASSUME NEW x \in Document, x.undo # <<>>, NEW c \in Contents, NEW s \in Nat, NEW e \in Entry,
           NEW y, y = Extended(Moved(x, c, s), e)
    PROVE  /\ y \in Document /\ y.content = c /\ y.state = s /\ y.redo = <<>>
           /\ Len(y.undo) = Len(x.undo)
           /\ \A i \in 1..Len(x.undo) : i # Len(x.undo) => y.undo[i] = x.undo[i]
           /\ LET top == x.undo[Len(x.undo)]
                  new == y.undo[Len(x.undo)]
              IN /\ new.before = top.before /\ new.beforeState = top.beforeState
                 /\ new.after = e.after /\ new.afterState = e.afterState
                 /\ new.seq = top.seq /\ new.tag = top.tag /\ new.boundary = top.boundary
<1>1. PICK n \in Nat : n = Len(x.undo) /\ DOMAIN x.undo = 1..n /\ x.undo \in Seq(Entry) /\ n \in 1..n
  BY TopOf DEF Document
<1>2. PICK top \in Entry : top = x.undo[n]
  BY <1>1
<1>3. PICK f : f = [top EXCEPT !.after = e.after, !.afterState = e.afterState, !.cost = e.cost]
  OBVIOUS
<1>4. /\ f \in Entry /\ f.before = top.before /\ f.beforeState = top.beforeState
      /\ f.after = e.after /\ f.afterState = e.afterState
      /\ f.seq = top.seq /\ f.tag = top.tag /\ f.boundary = top.boundary
  BY <1>3 DEF Entry
<1>5. PICK v : v = [x.undo EXCEPT ![n] = f]
  OBVIOUS
<1>6. v \in Seq(Entry) /\ Len(v) = n /\ \A i \in 1..n : v[i] = IF i = n THEN f ELSE x.undo[i]
  BY <1>1, <1>4, <1>5, ExceptSeq
<1>7. PICK w \in Seq(Entry) : w = v
  BY <1>6
<1>8. PICK r \in Seq(Entry) : r = <<>>
  BY EmptySeq
<1>9. PICK k \in Nat, l \in Nat : k = x.undoCap /\ l = x.redoCap
  BY DEF Document
<1>10. PICK z : z = Moved(x, c, s)
  OBVIOUS
<1>11. z \in Document /\ z.undo = x.undo /\ z.undoCap = k /\ z.redoCap = l
  <2>1. PICK j \in Nat : j = x.revision + 1
    BY DEF Document
  <2>2. z = [x EXCEPT !.content = c, !.state = s, !.revision = j]
    BY <1>10, <2>1 DEF Moved
  <2> QED
    BY <1>9, <2>2 DEF Document
<1>12. y = [z EXCEPT !.undo = w, !.redo = r]
  <2>1. y = [z EXCEPT !.undo[n].after = e.after, !.undo[n].afterState = e.afterState,
                      !.undo[n].cost = e.cost, !.redo = <<>>]
    BY <1>1, <1>10, <1>11 DEF Extended
  <2>2. [z.undo EXCEPT ![n].after = e.after, ![n].afterState = e.afterState, ![n].cost = e.cost] = w
    BY <1>1, <1>2, <1>3, <1>5, <1>7, <1>11
  <2> QED
    BY <1>8, <1>11, <2>1, <2>2 DEF Document
<1>13. y = Shows(x, c, s, w, r, k, l)
  BY <1>10, <1>11, <1>12 DEF Shows, Document
<1>14. Shown(y, c, s, w, r)
  BY <1>13, ShowsIs
<1> QED
  BY <1>1, <1>2, <1>4, <1>6, <1>7, <1>8, <1>14 DEF Shown

(* An edit that extends the last one changes that entry alone.              *)
LEMMA ExtendedEvolves ==
    ASSUME NEW x \in Document, Good(x), x.undo # <<>>, NEW c \in Contents, NEW u \in Nat,
           NEW s \in Nat, s > u, NEW t, NEW b, NEW g, x.undo[Len(x.undo)].boundary = b,
           NEW e \in Entry, e.after = c, e.afterState = s, NEW y, y = Extended(Moved(x, c, s), e)
    PROVE  Evolves(x, y, t, u, b) /\ Sided(x, y, g) /\ Joins(x, y)
<1>1. PICK n \in Nat : n = Len(x.undo) /\ DOMAIN x.undo = 1..n /\ n \in 1..n
  BY TopOf DEF Document
<1>2. /\ y \in Document /\ y.content = c /\ y.state = s /\ y.redo = <<>> /\ Len(y.undo) = n
      /\ \A i \in 1..n : i # n => y.undo[i] = x.undo[i]
      /\ y.undo[n].before = x.undo[n].before /\ y.undo[n].beforeState = x.undo[n].beforeState
      /\ y.undo[n].after = e.after /\ y.undo[n].afterState = e.afterState
      /\ y.undo[n].seq = x.undo[n].seq /\ y.undo[n].tag = x.undo[n].tag
      /\ y.undo[n].boundary = x.undo[n].boundary
  BY <1>1, ExtendedIs
<1>3. DOMAIN y.undo = 1..n /\ DOMAIN y.redo = {}
  BY <1>2, EntriesAre
<1>4. \A i \in 1..n : /\ y.undo[i].before = x.undo[i].before
                      /\ y.undo[i].beforeState = x.undo[i].beforeState
                      /\ y.undo[i].seq = x.undo[i].seq /\ y.undo[i].tag = x.undo[i].tag
  BY <1>2
<1>5. Chain(y)
  <2>1. ASSUME NEW i \in 1..(Len(y.undo) - 1)
        PROVE  /\ y.undo[i].after = y.undo[i+1].before
               /\ y.undo[i].afterState = y.undo[i+1].beforeState
    <3>1. i \in 1..(n - 1) /\ i + 1 \in 1..n /\ i \in 1..n /\ i # n
      BY <1>2, <2>1
    <3>2. x.undo[i].after = x.undo[i+1].before /\ x.undo[i].afterState = x.undo[i+1].beforeState
      BY <1>1, <3>1 DEF Good, Chain
    <3> QED
      BY <1>2, <1>4, <3>1, <3>2
  <2>2. y.redo = <<>> /\ 1..(Len(y.redo) - 1) = {}
    BY <1>2
  <2>3. y.undo[Len(y.undo)].after = y.content /\ y.undo[Len(y.undo)].afterState = y.state
    BY <1>2
  <2> QED
    BY <2>1, <2>2, <2>3 DEF Chain
<1>6. Sorted(y)
  <2>1. ASSUME NEW i \in DOMAIN y.undo, NEW k \in DOMAIN y.undo, i < k
        PROVE  y.undo[i].seq < y.undo[k].seq
    <3>1. x.undo[i].seq < x.undo[k].seq
      BY <1>1, <1>3, <2>1 DEF Good, Sorted
    <3> QED
      BY <1>3, <1>4, <3>1
  <2> QED
    BY <1>3, <2>1 DEF Sorted
<1>7. TaggedOnce(y)
  <2>1. ASSUME NEW i \in DOMAIN y.undo, NEW k \in DOMAIN y.undo,
               y.undo[i].tag = y.undo[k].tag, y.undo[i].tag # None
        PROVE  i = k
    <3>1. x.undo[i].tag = x.undo[k].tag /\ x.undo[i].tag # None
      BY <1>3, <1>4, <2>1
    <3> QED
      BY <1>1, <1>3, <3>1 DEF Good, TaggedOnce
  <2> QED
    BY <1>3, <2>1 DEF TaggedOnce
<1>8. x.undo[n] \in EntriesOf(x) /\ \A i \in 1..n : x.undo[i] \in EntriesOf(x)
  BY <1>1 DEF EntriesOf
<1>9. Fresh(x, y, y.undo[n], t, u, b)
  <2>1. <<y.undo[n].beforeState, y.undo[n].before>> \in Knows(x)
    BY <1>2, <1>8 DEF Knows
  <2>2. <<y.undo[n].seq, y.undo[n].tag>> \in Marks(x)
    BY <1>2, <1>8 DEF Marks
  <2> QED
    BY <1>1, <1>2, <2>1, <2>2 DEF Fresh
<1>10. EntriesOf(y) \subseteq EntriesOf(x) \cup {y.undo[n]}
  BY <1>2, <1>3, <1>8 DEF EntriesOf
<1>11. \A f \in EntriesOf(y) : (\E h \in EntriesOf(x) : Like(f, h)) \/ Fresh(x, y, f, t, u, b)
  BY <1>9, <1>10, LikeItself
<1>12. Sided(x, y, g)
  <2>1. ASSUME NEW h, OnUndo(y, h) PROVE OnUndo(x, h)
    BY <1>1, <1>3, <1>4, <2>1 DEF OnUndo
  <2>2. ASSUME NEW h PROVE ~OnRedo(y, h)
    BY <1>3 DEF OnRedo
  <2> QED
    BY <2>1, <2>2 DEF Sided
<1>13. Joins(x, y)
  BY <1>1, <1>2, <1>4 DEF Joins
<1> QED
  BY <1>2, <1>5, <1>6, <1>7, <1>11, <1>12, <1>13 DEF Evolves, Good

(* An edit without an entry leaves no history.                             *)
LEMMA ClearedEvolves ==
    ASSUME NEW x \in Document, NEW c \in Contents, NEW u \in Nat, NEW s \in Nat, s > u,
           NEW t, NEW b, NEW g, NEW y,
           y = [Moved(x, c, s) EXCEPT !.undo = <<>>, !.redo = <<>>]
    PROVE  Evolves(x, y, t, u, b) /\ Sided(x, y, g) /\ Shown(y, c, s, <<>>, <<>>)
<1>1. PICK v \in Seq(Entry) : v = <<>>
  BY EmptySeq
<1>2. PICK k \in Nat, l \in Nat : k = x.undoCap /\ l = x.redoCap
  BY DEF Document
<1>3. y = Shows(x, c, s, v, v, k, l)
  BY <1>1, <1>2 DEF Shows, Moved, Document
<1>4. Shown(y, c, s, v, v)
  BY <1>3, ShowsIs
<1>5. y \in Document /\ y.undo = <<>> /\ y.redo = <<>> /\ y.state = s /\ y.content = c
  BY <1>1, <1>4 DEF Shown
<1>6. DOMAIN y.undo = {} /\ DOMAIN y.redo = {}
  BY <1>5
<1>7. Good(y)
  <2>1. Chain(y)
    <3>1. 1..(Len(y.undo) - 1) = {} /\ 1..(Len(y.redo) - 1) = {}
      BY <1>5
    <3> QED
      BY <1>5, <3>1 DEF Chain
  <2> QED
    BY <1>6, <2>1 DEF Good, Sorted, TaggedOnce
<1>8. EntriesOf(y) = {}
  BY <1>6 DEF EntriesOf
<1>9. Sided(x, y, g)
  BY <1>6 DEF Sided, OnUndo, OnRedo
<1> QED
  BY <1>5, <1>7, <1>8, <1>9 DEF Evolves, Shown

-----------------------------------------------------------------------------
(* What a step may do to the state, and what that keeps.  g is the group   *)
(* that a step moves or makes, t the tag of the entries it pushes, b the   *)
(* boundary of the typing it writes.                                       *)
HistoryStep(g, t, b) ==
    /\ doc' \in [Docs -> Document]
    /\ \A d \in Docs : /\ Evolves(doc[d], doc'[d], t, unique, b[d])
                       /\ Sided(doc[d], doc'[d], g)
                       /\ doc'[d].state <= unique'
    /\ unique' \in Nat /\ unique' >= unique
    /\ \/ t = None /\ members' = members
       \/ \E ds \in SUBSET Docs : /\ t = Len(members) + 1 /\ members' = Append(members, ds)
                                  /\ \A d \in Docs \ ds : doc'[d] = doc[d]

(* A group that is known stays the same group.                             *)
LEMMA MembersStay ==
    ASSUME Shape, NEW g, NEW t, NEW b, HistoryStep(g, t, b)
    PROVE  /\ members' \in Seq(SUBSET Docs)
           /\ \A h \in DOMAIN members : h \in DOMAIN members' /\ members'[h] = members[h]
           /\ t # None => t \notin DOMAIN members
<1>1. members \in Seq(SUBSET Docs) /\ DOMAIN members = 1..Len(members) /\ Len(members) \in Nat
  BY DEF Shape
<1>2. CASE members' = members /\ t = None
  BY <1>1, <1>2
<1>3. ASSUME NEW ds \in SUBSET Docs, t = Len(members) + 1, members' = Append(members, ds)
      PROVE  /\ members' \in Seq(SUBSET Docs)
             /\ \A h \in DOMAIN members : h \in DOMAIN members' /\ members'[h] = members[h]
             /\ t # None => t \notin DOMAIN members
  <2>1. /\ members' \in Seq(SUBSET Docs) /\ Len(members') = Len(members) + 1
        /\ \A i \in 1..Len(members) : members'[i] = members[i]
    BY <1>1, <1>3, AppendProperties
  <2>2. DOMAIN members' = 1..Len(members')
    BY <2>1
  <2> QED
    BY <1>1, <1>3, <2>1, <2>2
<1> QED
  BY <1>2, <1>3 DEF HistoryStep

(* The entries of a document that evolved.                                 *)
LEMMA EvolvedEntry ==
    ASSUME NEW x \in Document, NEW y, NEW t, NEW u, NEW b, Evolves(x, y, t, u, b),
           NEW e \in EntriesOf(y)
    PROVE  /\ y \in Document /\ e \in Entry
           /\ (\E f \in EntriesOf(x) : f \in Entry /\ Like(e, f)) \/ Fresh(x, y, e, t, u, b)
<1>1. y \in Document
  BY DEF Evolves
<1>2. EntriesOf(y) \subseteq Entry /\ EntriesOf(x) \subseteq Entry
  BY <1>1, EntriesAre
<1> QED
  BY <1>1, <1>2 DEF Evolves

(* What is known of a document was known, but for what it shows now.       *)
LEMMA EvolvedKnows ==
    ASSUME NEW x \in Document, NEW y, NEW t, NEW u, NEW b, Evolves(x, y, t, u, b)
    PROVE  /\ Knows(y) \subseteq Knows(x) \cup {<<y.state, y.content>>}
           /\ <<y.state, y.content>> \in Knows(x) \/ y.state > u
<1>1. ASSUME NEW e \in EntriesOf(y)
      PROVE  /\ <<e.beforeState, e.before>> \in Knows(x)
             /\ <<e.afterState, e.after>> \in Knows(x) \cup {<<y.state, y.content>>}
  <2>1. CASE \E f \in EntriesOf(x) : Like(e, f)
    BY <2>1 DEF Like, Knows
  <2>2. CASE Fresh(x, y, e, t, u, b)
    BY <2>2 DEF Fresh
  <2> QED
    BY <2>1, <2>2 DEF Evolves
<1>2. Knows(y) \subseteq Knows(x) \cup {<<y.state, y.content>>}
  BY <1>1 DEF Knows
<1> QED
  BY <1>2 DEF Evolves

(* The marks of a document that evolved.                                   *)
LEMMA EvolvedMarks ==
    ASSUME NEW x \in Document, NEW y, NEW t, NEW u, NEW b, Evolves(x, y, t, u, b),
           NEW p \in Marks(y)
    PROVE  p \in Marks(x) \/ (p[1] = y.state /\ y.state > u /\ p[2] = t)
<1>1. PICK e \in EntriesOf(y) : p = <<e.seq, e.tag>>
  BY DEF Marks
<1>2. CASE \E f \in EntriesOf(x) : Like(e, f)
  BY <1>1, <1>2 DEF Like, Marks
<1>3. CASE Fresh(x, y, e, t, u, b)
  BY <1>1, <1>3 DEF Fresh
<1> QED
  BY <1>1, <1>2, <1>3 DEF Evolves

(* A step of the history keeps every stack a chain in order, with old       *)
(* states.                                                                  *)
LEMMA StackKeeps ==
    ASSUME IInv, NEW g, NEW t, NEW b, HistoryStep(g, t, b),
           \A d \in Docs : view'[d].unsent <= unique'
    PROVE  StackInv'
<1>1. SUFFICES ASSUME NEW d \in Docs
               PROVE  /\ Good(doc'[d]) /\ doc'[d].state <= unique'
                      /\ \A e \in EntriesOf(doc'[d]) : EntryFits(d, e, unique', members')
  BY DEF StackInv, Good
<1>2. PICK x \in Document : x = doc[d]
  BY DEF IInv, Shape
<1>3. PICK y \in Document : y = doc'[d]
  BY DEF HistoryStep
<1>4. Evolves(x, y, t, unique, b[d]) /\ y.state <= unique'
  BY <1>2, <1>3 DEF HistoryStep
<1>5. Good(y)
  BY <1>4 DEF Evolves
<1>6. unique \in Nat /\ unique' \in Nat /\ unique' >= unique /\ unique >= NumDocs /\ NumDocs \in Nat
  BY ConstantsAssumption DEF IInv, Shape, HistoryStep
<1>7. \A f \in EntriesOf(x) : EntryFits(d, f, unique, members)
  BY <1>2 DEF IInv, StackInv
<1>8. \A h \in DOMAIN members : h \in DOMAIN members' /\ members'[h] = members[h]
  BY MembersStay DEF IInv
<1>9. ASSUME NEW f \in Entry, EntryFits(d, f, unique, members)
      PROVE  EntryFits(d, f, unique', members')
  BY <1>6, <1>8, <1>9 DEF EntryFits, Entry
<1>10. ASSUME NEW e \in EntriesOf(y) PROVE EntryFits(d, e, unique', members')
  <2>1. /\ e \in Entry
        /\ (\E f \in EntriesOf(x) : f \in Entry /\ Like(e, f)) \/ Fresh(x, y, e, t, unique, b[d])
    BY <1>4, EvolvedEntry
  <2>2. CASE \E f \in EntriesOf(x) : f \in Entry /\ Like(e, f)
    <3>1. PICK f \in EntriesOf(x) : f \in Entry /\ Like(e, f)
      BY <2>2
    <3>2. EntryFits(d, f, unique', members')
      BY <1>7, <1>9, <3>1
    <3> QED
      BY <3>1, <3>2 DEF EntryFits, Like
  <2>3. CASE Fresh(x, y, e, t, unique, b[d])
    <3>1. e.afterState = y.state /\ y.state > unique /\ y.state \in Nat
      BY <2>3 DEF Fresh, Document
    <3>2. e.beforeState <= unique
      <4>1. <<e.beforeState, e.before>> \in Known(d)
        BY <1>2, <2>3 DEF Fresh, Known
      <4> QED
        BY <4>1 DEF IInv, ContentInv
    <3>3. CASE <<e.seq, e.tag>> \in Marks(x)
      <4>1. PICK f \in EntriesOf(x) : e.seq = f.seq /\ e.tag = f.tag
        BY <3>3 DEF Marks
      <4>2. f \in Entry /\ EntryFits(d, f, unique', members')
        BY <1>7, <1>9, <4>1, EntriesAre
      <4> QED
        BY <1>4, <1>6, <2>1, <3>1, <3>2, <4>1, <4>2 DEF EntryFits, Entry
    <3>4. CASE e.seq = y.state /\ e.tag = t
      <4>1. t # None => t \in DOMAIN members' /\ d \in members'[t]
        <5>1. SUFFICES ASSUME t # None PROVE t \in DOMAIN members' /\ d \in members'[t]
          OBVIOUS
        <5>2. PICK ds \in SUBSET Docs : /\ t = Len(members) + 1 /\ members' = Append(members, ds)
                                       /\ \A k \in Docs \ ds : doc'[k] = doc[k]
          BY <5>1 DEF HistoryStep
        <5>3. members \in Seq(SUBSET Docs) /\ Len(members) \in Nat
          BY DEF IInv, Shape
        <5>4. /\ members' \in Seq(SUBSET Docs) /\ Len(members') = Len(members) + 1
              /\ members'[Len(members) + 1] = ds
          BY <5>2, <5>3, AppendProperties
        <5>5. t \in DOMAIN members' /\ members'[t] = ds
          BY <5>2, <5>3, <5>4
        <5>6. d \in ds
          <6>1. SUFFICES ASSUME d \notin ds PROVE FALSE
            OBVIOUS
          <6>2. y = x
            BY <1>2, <1>3, <5>2, <6>1
          <6>3. x.state <= unique
            BY <1>2 DEF IInv, StackInv
          <6> QED
            BY <1>6, <3>1, <6>2, <6>3
        <5> QED
          BY <5>5, <5>6
      <4> QED
        BY <1>4, <1>6, <2>1, <3>1, <3>2, <3>4, <4>1 DEF EntryFits, Entry
    <3> QED
      BY <2>3, <3>3, <3>4 DEF Fresh
  <2> QED
    BY <2>1, <2>2, <2>3
<1> QED
  BY <1>3, <1>4, <1>5, <1>10

(* And every state one content, as long as saves and disk remember known    *)
(* ones.                                                                    *)
LEMMA ContentKeeps ==
    ASSUME IInv, NEW g, NEW t, NEW b, HistoryStep(g, t, b),
           \A d \in Docs : /\ <<view'[d].savedState, disk'[d]>> \in Known(d)
                           /\ save'[d] # NoSave => <<save'[d].state, save'[d].content>> \in Known(d)
    PROVE  ContentInv'
<1>1. SUFFICES ASSUME NEW d \in Docs
               PROVE  Agree(Known(d)') /\ \A p \in Known(d)' : p[1] <= unique'
  BY DEF ContentInv
<1>2. PICK x \in Document : x = doc[d]
  BY DEF IInv, Shape
<1>3. PICK y \in Document : y = doc'[d]
  BY DEF HistoryStep
<1>4. Evolves(x, y, t, unique, b[d]) /\ y.state <= unique'
  BY <1>2, <1>3 DEF HistoryStep
<1>5. PICK new : new = <<y.state, y.content>>
  OBVIOUS
<1>6. Knows(y) \subseteq Knows(x) \cup {new} /\ (new \in Knows(x) \/ y.state > unique)
  BY <1>4, <1>5, EvolvedKnows
<1>7. Knows(x) \subseteq Known(d)
  BY <1>2 DEF Known
<1>8. Known(d)' \subseteq Known(d) \cup {new}
  BY <1>1, <1>3, <1>6, <1>7 DEF Known
<1>9. new \in Known(d) \/ new[1] > unique
  BY <1>5, <1>6, <1>7
<1>10. Agree(Known(d)) /\ \A p \in Known(d) : p[1] <= unique
  BY DEF IInv, ContentInv
<1>11. unique \in Nat /\ unique' \in Nat /\ unique' >= unique
  BY DEF IInv, Shape, HistoryStep
<1>12. \A p \in Known(d) : p[1] \in Nat
  <2>1. ASSUME NEW p \in Knows(x) PROVE p[1] \in Nat
    <3>1. \A e \in EntriesOf(x) : e.beforeState \in Nat /\ e.afterState \in Nat
      BY EntriesAre DEF Entry
    <3>2. x.state \in Nat
      BY DEF Document
    <3>3. \/ p = <<x.state, x.content>>
          \/ \E e \in EntriesOf(x) : \/ p = <<e.beforeState, e.before>>
                                    \/ p = <<e.afterState, e.after>>
      BY <2>1 DEF Knows
    <3> QED
      BY <3>1, <3>2, <3>3
  <2>2. view[d].savedState \in Nat
    BY DEF IInv, Shape, ViewFits
  <2>3. save[d] # NoSave => save[d].state \in Nat
    BY DEF IInv, Shape, Saves
  <2> QED
    BY <1>2, <2>1, <2>2, <2>3 DEF Known
<1>13. y.state \in Nat /\ new[1] = y.state
  BY <1>5 DEF Document
<1>14. \A p \in Known(d)' : p[1] <= unique'
  <2>1. ASSUME NEW p \in Known(d) PROVE p[1] <= unique'
    <3>1. p[1] \in Nat /\ p[1] <= unique
      BY <1>10, <1>12
    <3> QED
      BY <1>11, <3>1
  <2>2. new[1] <= unique'
    BY <1>4, <1>13
  <2> QED
    BY <1>8, <2>1, <2>2
<1>15. Agree(Known(d)')
  <2>1. ASSUME NEW p \in Known(d)', NEW q \in Known(d)', p[1] = q[1]
        PROVE  p[2] = q[2]
    <3>1. CASE new \in Known(d)
      BY <1>8, <1>10, <2>1, <3>1 DEF Agree
    <3>2. CASE new \notin Known(d)
      <4>1. ASSUME NEW r \in Known(d) PROVE r[1] # new[1]
        <5>1. r[1] \in Nat /\ r[1] <= unique /\ new[1] > unique
          BY <1>9, <1>10, <1>12, <3>2
        <5> QED
          BY <1>11, <1>13, <5>1
      <4> QED
        BY <1>8, <1>10, <2>1, <4>1 DEF Agree
    <3> QED
      BY <3>1, <3>2
  <2> QED
    BY <2>1 DEF Agree
<1> QED
  BY <1>14, <1>15

(* What an entry's group is newer than.                                    *)
LEMMA MarksKeep ==
    ASSUME IInv, NEW g, NEW t, NEW b, HistoryStep(g, t, b),
           NEW p \in UNION {Marks(doc'[d]) : d \in Docs},
           NEW q \in UNION {Marks(doc'[d]) : d \in Docs},
           NEW n \in UNION {Marks(doc'[d]) : d \in Docs},
           p[2] = q[2], p[2] # None, n[2] # p[2], n[1] > p[1]
    PROVE  n[1] > q[1]
<1>1. PICK M : M = UNION {Marks(doc[d]) : d \in Docs}
  OBVIOUS
<1>2. unique \in Nat
  BY DEF IInv, Shape
<1>3. ASSUME NEW m \in UNION {Marks(doc'[d]) : d \in Docs}
      PROVE  m \in M \/ (m[1] > unique /\ m[2] = t /\ m[1] \in Nat)
  <2>1. PICK d \in Docs : m \in Marks(doc'[d])
    BY <1>3
  <2>2. /\ doc[d] \in Document /\ doc'[d] \in Document
        /\ Evolves(doc[d], doc'[d], t, unique, b[d])
    BY DEF IInv, Shape, HistoryStep
  <2>3. m \in Marks(doc[d]) \/ (m[1] = doc'[d].state /\ doc'[d].state > unique /\ m[2] = t)
    BY <2>1, <2>2, EvolvedMarks
  <2>4. doc'[d].state \in Nat
    BY <2>2 DEF Document
  <2> QED
    BY <1>1, <2>3, <2>4
<1>4. ASSUME NEW m \in M
      PROVE  m[1] \in Nat /\ m[1] <= unique /\ (m[2] # None => m[2] \in DOMAIN members)
  <2>1. PICK d \in Docs : m \in Marks(doc[d])
    BY <1>1
  <2>2. PICK e \in EntriesOf(doc[d]) : m = <<e.seq, e.tag>>
    BY <2>1 DEF Marks
  <2>3. e \in Entry
    BY EntriesAre DEF IInv, Shape
  <2>4. EntryFits(d, e, unique, members)
    BY DEF IInv, StackInv
  <2> QED
    BY <2>2, <2>3, <2>4 DEF EntryFits, Entry
<1>5. t # None => t \notin DOMAIN members
  BY MembersStay DEF IInv
<1>6. CASE p \in M
  <2>1. q \in M
    BY <1>3, <1>4, <1>5, <1>6
  <2>2. CASE n \in M
    BY <1>1, <1>6, <2>1, <2>2 DEF IInv, LinkInv
  <2>3. CASE n \notin M
    <3>1. n[1] > unique /\ n[1] \in Nat /\ q[1] <= unique /\ q[1] \in Nat
      BY <1>3, <1>4, <2>1, <2>3
    <3> QED
      BY <1>2, <3>1
  <2> QED
    BY <2>2, <2>3
<1>7. CASE p \notin M
  <2>1. p[1] > unique /\ p[2] = t /\ p[1] \in Nat
    BY <1>3, <1>7
  <2>2. n \in M
    BY <1>3, <2>1
  <2>3. n[1] \in Nat /\ n[1] <= unique
    BY <1>4, <2>2
  <2> QED
    BY <1>2, <2>1, <2>3
<1> QED
  BY <1>6, <1>7

(* A tag that is on a document is on one of its sides.                     *)
LEMMA TagSide ==
    ASSUME NEW x, NEW h
    PROVE  h \in TagsOf(x) <=> OnUndo(x, h) \/ OnRedo(x, h)
BY DEF TagsOf, EntriesOf, OnUndo, OnRedo

(* And linked entries on one side, if what it unlinks or links says so.     *)
LEMMA LinkKeeps ==
    ASSUME IInv, NEW g, NEW t, NEW b, HistoryStep(g, t, b),
           linked' \subseteq linked \cup {g}, g # None \/ linked' \subseteq linked,
           \A h \in linked', d \in Docs : h # g /\ h \in TagsOf(doc[d]) => h \in TagsOf(doc'[d]),
           g \in linked' /\ g # None =>
             \/ \A d \in members'[g] : OnUndo(doc'[d], g)
             \/ \A d \in members'[g] : OnRedo(doc'[d], g)
    PROVE  LinkInv'
<1>1. \A p, q, n \in UNION {Marks(doc'[d]) : d \in Docs} :
         p[2] = q[2] /\ p[2] # None /\ n[2] # p[2] /\ n[1] > p[1] => n[1] > q[1]
  BY MarksKeep
<1>2. ASSUME NEW h \in linked'
      PROVE  \/ \A d \in members'[h] : OnUndo(doc'[d], h)
             \/ \A d \in members'[h] : OnRedo(doc'[d], h)
  <2>1. linked \subseteq DOMAIN members /\ DOMAIN members \subseteq Nat \ {None}
    BY DEF IInv, Shape, None
  <2>2. h # None
    BY <2>1
  <2>3. CASE h = g
    BY <2>2, <2>3
  <2>4. CASE h # g
    <3>1. h \in linked /\ h \in DOMAIN members
      BY <2>1, <2>4
    <3>2. members'[h] = members[h] /\ members[h] \subseteq Docs
      BY <3>1, MembersStay DEF IInv, Shape
    <3>3. ASSUME NEW d \in members[h]
          PROVE  /\ OnUndo(doc[d], h) => OnUndo(doc'[d], h)
                 /\ OnRedo(doc[d], h) => OnRedo(doc'[d], h)
      <4>1. d \in Docs /\ Sided(doc[d], doc'[d], g) /\ TaggedOnce(doc[d])
        BY <3>2 DEF HistoryStep, IInv, StackInv
      <4>2. h \in TagsOf(doc[d]) => h \in TagsOf(doc'[d])
        BY <2>4, <4>1
      <4>3. ~(OnUndo(doc[d], h) /\ OnRedo(doc[d], h))
        BY <2>2, <4>1 DEF TaggedOnce, OnUndo, OnRedo
      <4>4. /\ OnUndo(doc'[d], h) => OnUndo(doc[d], h)
            /\ OnRedo(doc'[d], h) => OnRedo(doc[d], h)
        BY <2>2, <2>4, <4>1 DEF Sided
      <4> QED
        BY <4>2, <4>3, <4>4, TagSide
    <3>4. \/ \A d \in members[h] : OnUndo(doc[d], h)
          \/ \A d \in members[h] : OnRedo(doc[d], h)
      BY <3>1 DEF IInv, LinkInv, LinkedMoveTogether, OnUndo, OnRedo
    <3> QED
      BY <3>2, <3>3, <3>4
  <2> QED
    BY <2>3, <2>4
<1>3. LinkedMoveTogether'
  BY <1>2 DEF LinkedMoveTogether, OnUndo, OnRedo
<1> QED
  BY <1>1, <1>3 DEF LinkInv

(* The states that a save waits with are not new.                          *)
LEMMA SavesAreOld ==
    ASSUME IInv, NEW d \in Docs
    PROVE  /\ save[d].state \in Nat /\ save[d].state <= unique
           /\ view[d].unsent \in Nat /\ view[d].unsent <= unique
<1>1. view[d].unsent \in Nat /\ view[d].unsent <= unique /\ unique \in Nat
  BY DEF IInv, Shape, ViewFits, StackInv
<1>2. CASE save[d] = NoSave
  BY <1>1, <1>2 DEF NoSave, None
<1>3. CASE save[d] # NoSave
  <2>1. <<save[d].state, save[d].content>> \in Known(d)
    BY <1>3 DEF Known
  <2>2. save[d].state <= unique
    BY <2>1 DEF IInv, ContentInv
  <2> QED
    BY <1>1, <1>3, <2>2 DEF IInv, Shape, Saves
<1> QED
  BY <1>1, <1>2, <1>3

(* And typing runs that a save has seen as they are.                        *)
LEMMA SealedKeeps ==
    ASSUME IInv, NEW g, NEW t, NEW b, HistoryStep(g, t, b),
           view' = view, save' = save, split' = split,
           \A d \in Docs \ split :
             /\ b[d] \in {0, view[d].boundary[1]}
             /\ job'[d].kind = "edit" => job'[d].boundary = view[d].boundary[1]
    PROVE  SealedInv'
<1>1. SUFFICES ASSUME NEW d \in Docs \ split, NEW e \in EntriesOf(doc'[d])
               PROVE  /\ e.boundary <= view[d].boundary[1]
                      /\ e.boundary = view[d].boundary[1] =>
                           e.afterState # save[d].state /\ e.afterState # view[d].unsent
  <2>1. \A d \in Docs \ split : view[d].active = 1
    BY DEF IInv, SealedInv
  <2> QED
    BY <2>1 DEF SealedInv
<1>2. PICK x \in Document : x = doc[d]
  BY DEF IInv, Shape
<1>3. PICK y \in Document : y = doc'[d]
  BY DEF HistoryStep
<1>4. PICK v \in Nat : v = view[d].boundary[1] /\ v # 0
  <2>1. 1 \in Panes(d)
    BY DEF Panes
  <2> QED
    BY <2>1 DEF IInv, Shape, ViewFits
<1>5. Evolves(x, y, t, unique, b[d])
  BY <1>2, <1>3 DEF HistoryStep
<1>6. /\ e \in Entry /\ e \in EntriesOf(y)
      /\ (\E f \in EntriesOf(x) : f \in Entry /\ Like(e, f)) \/ Fresh(x, y, e, t, unique, b[d])
  BY <1>3, <1>5, EvolvedEntry
<1>7. CASE \E f \in EntriesOf(x) : f \in Entry /\ Like(e, f)
  <2>1. PICK f \in EntriesOf(x) : Like(e, f)
    BY <1>7
  <2>2. /\ f.boundary <= v
        /\ f.boundary = v => f.afterState # save[d].state /\ f.afterState # view[d].unsent
    BY <1>2, <1>4 DEF IInv, SealedInv
  <2> QED
    BY <1>4, <2>1, <2>2 DEF Like
<1>8. CASE Fresh(x, y, e, t, unique, b[d])
  <2>1. e.boundary = 0 \/ e.boundary = v
    BY <1>4, <1>8 DEF Fresh
  <2>2. e.afterState = y.state /\ y.state > unique /\ y.state \in Nat
    BY <1>8 DEF Fresh, Document
  <2>3. e.afterState # save[d].state /\ e.afterState # view[d].unsent
    <3>1. unique \in Nat
      BY DEF IInv, Shape
    <3> QED
      BY <2>2, <3>1, SavesAreOld
  <2> QED
    BY <1>4, <2>1, <2>3
<1> QED
  BY <1>6, <1>7, <1>8

(* A worker's document keeps the entry that it moves, and what is linked   *)
(* meanwhile is on others.                                                 *)
LEMMA JobKeeps ==
    ASSUME IInv, NEW t, t \notin DOMAIN members, t # None, linked' \subseteq linked \cup {t},
           \A d \in Docs : job'[d] # Idle => d \notin Locked',
           \A d \in Docs : \/ job'[d].kind \notin {"undo", "redo"}
                           \/ /\ job'[d].kind = job[d].kind
                              /\ TopStays(job[d].kind, doc[d], doc'[d])
    PROVE  JobInv'
<1>1. SUFFICES ASSUME NEW d \in Docs, job'[d].kind = job[d].kind,
                      TopStays(job[d].kind, doc[d], doc'[d])
               PROVE  /\ job[d].kind = "undo" => 
                             doc'[d].undo # <<>> /\ doc'[d].undo[Len(doc'[d].undo)].tag \notin linked'
                      /\ job[d].kind = "redo" => 
                             doc'[d].redo # <<>> /\ doc'[d].redo[Len(doc'[d].redo)].tag \notin linked'
  BY DEF JobInv, TopLinked
<1>2. linked \subseteq DOMAIN members
  BY DEF IInv, Shape
<1>3. doc[d] \in Document /\ \A e \in EntriesOf(doc[d]) : e.tag # None => e.tag \in DOMAIN members
  BY DEF IInv, Shape, StackInv, EntryFits
<1>4. PICK x \in Document : x = doc[d]
  BY <1>3
<1>5. CASE job[d].kind = "undo"
  <2>1. x.undo # <<>> /\ ~TopLinked(x.undo)
    BY <1>4, <1>5 DEF IInv, JobInv
  <2>2. doc'[d].undo # <<>> /\ doc'[d].undo[Len(doc'[d].undo)] = x.undo[Len(x.undo)]
    BY <1>1, <1>4, <1>5, <2>1 DEF TopStays
  <2>3. x.undo[Len(x.undo)] \in EntriesOf(x)
    BY <2>1, TopOf DEF EntriesOf, Document
  <2>4. x.undo[Len(x.undo)].tag # t
    BY <1>3, <1>4, <2>3
  <2> QED
    BY <1>2, <1>5, <2>1, <2>2, <2>4 DEF TopLinked
<1>6. CASE job[d].kind = "redo"
  <2>1. x.redo # <<>> /\ ~TopLinked(x.redo)
    BY <1>4, <1>6 DEF IInv, JobInv
  <2>2. doc'[d].redo # <<>> /\ doc'[d].redo[Len(doc'[d].redo)] = x.redo[Len(x.redo)]
    BY <1>1, <1>4, <1>6, <2>1 DEF TopStays
  <2>3. x.redo[Len(x.redo)] \in EntriesOf(x)
    BY <2>1, TopOf DEF EntriesOf, Document
  <2>4. x.redo[Len(x.redo)].tag # t
    BY <1>3, <1>4, <2>3
  <2> QED
    BY <1>2, <1>6, <2>1, <2>2, <2>4 DEF TopLinked
<1> QED
  BY <1>5, <1>6

(* What a user sees of a step: some documents move, the others forget.     *)
Rewrites(d, x, y) ==
    \E z \in Document :
      /\ \/ Adds(x, z)
         \/ /\ Joins(x, z) /\ x.undo # <<>> /\ x.undo[Len(x.undo)].typing
            /\ x.state \notin Captured(d)
      /\ Pruned(z, y)

Moves(moved) ==
    /\ \/ \A d \in moved : Rewrites(d, doc[d], doc'[d])
       \/ \A d \in moved : TakesBack(doc[d], doc'[d])
       \/ \A d \in moved : TakesForward(doc[d], doc'[d])
    /\ \A d \in Docs \ moved : Pruned(doc[d], doc'[d])

Visible == doc' \in [Docs -> Document] /\ \E moved \in SUBSET Docs : Moves(moved)

(* A step of the workers, which leaves the saves alone.                    *)
LEMMA WorkersKeep ==
    ASSUME IInv, NEW g, NEW t, NEW b, HistoryStep(g, t, b),
           UNCHANGED <<open, split, save, view, disk>>,
           job' \in [Docs -> Jobs], GroupFits', linked' \subseteq DOMAIN members', JobInv',
           linked' \subseteq linked \cup {g}, g # None \/ linked' \subseteq linked,
           \A h \in linked', d \in Docs : h # g /\ h \in TagsOf(doc[d]) => h \in TagsOf(doc'[d]),
           g \in linked' /\ g # None =>
             \/ \A d \in members'[g] : OnUndo(doc'[d], g)
             \/ \A d \in members'[g] : OnRedo(doc'[d], g),
           \A d \in Docs \ split :
             /\ b[d] \in {0, view[d].boundary[1]}
             /\ job'[d].kind = "edit" => job'[d].boundary = view[d].boundary[1]
    PROVE  IInv'
<1>1. unique' \in Nat /\ unique' >= unique /\ unique \in Nat /\ unique >= NumDocs /\ NumDocs \in Nat
  BY ConstantsAssumption DEF HistoryStep, IInv, Shape
<1>2. Shape'
  <2>1. members' \in Seq(SUBSET Docs)
    BY MembersStay DEF IInv
  <2>2. doc' \in [Docs -> Document]
    BY DEF HistoryStep
  <2>3. \A d \in Docs : ViewFits(d)'
    BY DEF ViewFits, IInv, Shape, Panes
  <2>4. unique' >= NumDocs
    BY <1>1
  <2> QED
    BY <1>1, <2>1, <2>2, <2>3, <2>4 DEF IInv, Shape
<1>3. StackInv'
  <2>1. \A d \in Docs : view'[d].unsent <= unique'
    <3>1. ASSUME NEW d \in Docs PROVE view[d].unsent <= unique'
      BY <1>1, SavesAreOld
    <3> QED
      BY <3>1
  <2> QED
    BY <2>1, StackKeeps
<1>4. ContentInv'
  <2>1. \A d \in Docs : /\ <<view'[d].savedState, disk'[d]>> \in Known(d)
                        /\ save'[d] # NoSave => <<save'[d].state, save'[d].content>> \in Known(d)
    BY DEF Known
  <2> QED
    BY <2>1, ContentKeeps
<1>5. LinkInv'
  BY LinkKeeps
<1>6. SealedInv'
  BY SealedKeeps
<1> QED
  BY <1>2, <1>3, <1>4, <1>5, <1>6 DEF IInv

(* Forgetting is a step of the workers.                                    *)
LEMMA ForgettingIsAStep ==
    ASSUME IInv, doc' \in [Docs -> Document], \A d \in Docs : Pruned(doc[d], doc'[d]),
           unique' = unique, members' = members, NEW g, NEW b
    PROVE  HistoryStep(g, None, b) /\ Visible
<1>1. unique \in Nat
  BY DEF IInv, Shape
<1>2. ASSUME NEW d \in Docs
      PROVE  /\ Evolves(doc[d], doc'[d], None, unique, b[d])
             /\ Sided(doc[d], doc'[d], g)
             /\ doc'[d].state <= unique'
  <2>1. doc[d] \in Document /\ Good(doc[d]) /\ doc[d].state <= unique
    BY DEF IInv, Shape, StackInv, Good
  <2>2. doc'[d].state = doc[d].state
    BY DEF Pruned
  <2> QED
    BY <2>1, <2>2, PrunedEvolves
<1>3. Moves({})
  BY DEF Moves
<1> QED
  BY <1>1, <1>2, <1>3 DEF HistoryStep, Visible

(* A step that finishes a worker's mutation of one document.               *)
LEMMA SettleKeeps ==
    ASSUME IInv, NEW d \in Docs, NEW y, Settle(d, y), NEW b, NEW g,
           Evolves(doc[d], y, None, unique, b), Sided(doc[d], y, g), g \notin linked,
           unique' \in Nat, unique' >= unique, y.state <= unique',
           \/ Pruned(doc[d], y) \/ Rewrites(d, doc[d], y)
           \/ TakesBack(doc[d], y) \/ TakesForward(doc[d], y),
           d \notin split => b \in {0, view[d].boundary[1]},
           UNCHANGED <<open, split, save, view, disk, members, group>>
    PROVE  IInv' /\ Visible
<1>1. y \in Document
  BY DEF Evolves
<1>2. /\ doc \in [Docs -> Document] /\ job \in [Docs -> Jobs] /\ unique \in Nat
      /\ linked \subseteq DOMAIN members
  BY DEF IInv, Shape
<1>3. /\ doc' \in [Docs -> Document] /\ doc'[d] = y
      /\ \A e \in Docs \ {d} : doc'[e] = doc[e]
  BY <1>1, <1>2 DEF Settle
<1>4. /\ job' \in [Docs -> Jobs] /\ job'[d] = Idle
      /\ \A e \in Docs \ {d} : job'[e] = job[e]
  BY <1>2 DEF Settle, Jobs
<1>5. linked' = linked \ DroppedTags(doc[d], y)
  BY DEF Settle
<1>6. PICK B : B = [e \in Docs |-> IF e = d THEN b ELSE 0]
  OBVIOUS
<1>7. HistoryStep(g, None, B)
  <2>1. ASSUME NEW e \in Docs
        PROVE  /\ Evolves(doc[e], doc'[e], None, unique, B[e])
               /\ Sided(doc[e], doc'[e], g)
               /\ doc'[e].state <= unique'
    <3>1. CASE e = d
      BY <1>3, <1>6, <3>1
    <3>2. CASE e # d
      <4>1. doc'[e] = doc[e] /\ doc[e] \in Document /\ Good(doc[e]) /\ doc[e].state <= unique
        BY <1>3, <3>2 DEF IInv, Shape, StackInv, Good
      <4>2. doc[e].state <= unique'
        BY <1>2, <4>1 DEF Document
      <4> QED
        BY <4>1, <4>2, PrunedNone, PrunedEvolves
    <3> QED
      BY <3>1, <3>2
  <2> QED
    BY <1>3, <2>1 DEF HistoryStep
<1>8. GroupFits' /\ linked' \subseteq DOMAIN members'
  <2>1. GroupFits'
    BY DEF IInv, Shape, GroupFits
  <2> QED
    BY <1>2, <1>5, <2>1
<1>9. JobInv'
  <2>1. \A e \in Docs : job'[e] # Idle => e \notin Locked'
    BY <1>4 DEF IInv, JobInv, Locked
  <2>2. ASSUME NEW e \in Docs
        PROVE  \/ job'[e].kind \notin {"undo", "redo"}
               \/ /\ job'[e].kind = job[e].kind
                  /\ TopStays(job[e].kind, doc[e], doc'[e])
    BY <1>3, <1>4 DEF Idle, TopStays
  <2>3. PICK t : t = Len(members) + 1
    OBVIOUS
  <2>4. t \notin DOMAIN members /\ t # None
    BY <2>3 DEF IInv, Shape, None
  <2> QED
    BY <1>5, <2>1, <2>2, <2>4, JobKeeps
<1>10. \A h \in linked', e \in Docs : h \in TagsOf(doc[e]) => h \in TagsOf(doc'[e])
  BY <1>3, <1>5 DEF DroppedTags
<1>11. \A e \in Docs \ split :
         /\ B[e] \in {0, view[e].boundary[1]}
         /\ job'[e].kind = "edit" => job'[e].boundary = view[e].boundary[1]
  BY <1>4, <1>6 DEF IInv, SealedInv, Idle
<1>12. IInv'
  <2>1. linked' \subseteq linked /\ g \notin linked'
    BY <1>5
  <2> QED
    BY <1>4, <1>7, <1>8, <1>9, <1>10, <1>11, <2>1, WorkersKeep
<1>13. Visible
  <2>1. \A e \in Docs \ {d} : Pruned(doc[e], doc'[e])
    BY <1>2, <1>3, PrunedNone
  <2>2. CASE Pruned(doc[d], y)
    <3>1. Moves({})
      BY <1>3, <2>1, <2>2 DEF Moves
    <3> QED
      BY <1>3, <3>1 DEF Visible
  <2>3. CASE ~Pruned(doc[d], y)
    <3>1. Moves({d})
      BY <1>3, <2>1, <2>3 DEF Moves
    <3> QED
      BY <1>3, <3>1 DEF Visible
  <2> QED
    BY <2>2, <2>3
<1> QED
  BY <1>12, <1>13

(* What the invariant says of one document.                                *)
LEMMA DocumentFacts ==
    ASSUME IInv, NEW d \in Docs
    PROVE  /\ doc[d] \in Document /\ Good(doc[d])
           /\ unique \in Nat /\ unique + 1 \in Nat /\ unique + 1 > unique
           /\ doc[d].state <= unique
           /\ \A f \in EntriesOf(doc[d]) :
                /\ f \in Entry /\ f.seq <= unique
                /\ f.tag # None => f.tag \in DOMAIN members
           /\ None \notin linked
<1>1. doc[d] \in Document /\ unique \in Nat /\ linked \subseteq Nat \ {0}
  BY DEF IInv, Shape
<1>2. EntriesOf(doc[d]) \subseteq Entry
  BY <1>1, EntriesAre
<1> QED
  BY <1>1, <1>2 DEF IInv, StackInv, EntryFits, Good, None

(* A change that pushes an entry, and what it trims.                       *)
LEMMA PushRewrites ==
    ASSUME IInv, NEW d \in Docs, NEW r, Pruned(doc[d], r),
           r.undo = doc[d].undo, r.redo = doc[d].redo,
           NEW c \in Contents, NEW s \in Nat, s > unique, NEW t, t \notin DOMAIN members,
           NEW b, NEW e \in Entry, e.before = doc[d].content, e.beforeState = doc[d].state,
           e.after = c, e.afterState = s, e.seq = s, e.tag = t, e.boundary \in {0, b},
           NEW y, y = Trim(Pushed(Moved(r, c, s), e))
    PROVE  /\ Evolves(doc[d], y, t, unique, b) /\ Sided(doc[d], y, t)
           /\ y.state = s /\ Rewrites(d, doc[d], y)
<1>1. PICK x \in Document : x = doc[d] /\ Good(x)
  BY DocumentFacts
<1>2. r \in Document /\ r.content = x.content /\ r.state = x.state
  BY <1>1 DEF Pruned
<1>3. Good(r)
  BY <1>1, PrunedKeeps DEF Good
<1>4. EntriesOf(r) = EntriesOf(x)
  BY <1>1 DEF EntriesOf
<1>5. /\ \A f \in EntriesOf(r) : f.seq <= unique
      /\ t # None => \A f \in EntriesOf(r) : f.tag # t
      /\ unique \in Nat
  BY <1>1, <1>4, DocumentFacts
<1>6. PICK z : z = Pushed(Moved(r, c, s), e)
  OBVIOUS
<1>7. Evolves(r, z, t, unique, b) /\ Sided(r, z, t) /\ Adds(r, z)
  BY <1>1, <1>2, <1>3, <1>5, <1>6, PushedEvolves
<1>8. Shown(z, c, s, Append(r.undo, e), <<>>)
  BY <1>2, <1>6, PushedIs
<1>9. z \in Document /\ z.state = s
  BY <1>8 DEF Shown
<1>10. Pruned(z, y)
  BY <1>6, <1>9, TrimPrunes
<1>11. Evolves(x, z, t, unique, b) /\ Sided(x, z, t)
  BY <1>1, <1>7, PrunedThenEvolves
<1>12. Evolves(x, y, t, unique, b) /\ Sided(x, y, t)
  BY <1>10, <1>11, EvolvesThenPruned
<1>13. y.state = s
  BY <1>9, <1>10 DEF Pruned
<1>14. Adds(x, z)
  BY <1>1, <1>2, <1>7 DEF Adds
<1>15. Rewrites(d, x, y)
  BY <1>9, <1>10, <1>14 DEF Rewrites
<1> QED
  BY <1>1, <1>12, <1>13, <1>15

(* The entry of an edit.                                                   *)
LEMMA NewEntryIs ==
    ASSUME IInv, NEW d \in Docs, job[d].kind \in {"edit", "metadata"}, NEW e,
           e = NewEntry(doc[d], job[d], None)
    PROVE  /\ e \in Entry /\ e.before = doc[d].content /\ e.beforeState = doc[d].state
           /\ e.after = job[d].content /\ e.afterState = unique + 1
           /\ e.seq = unique + 1 /\ e.tag = None
           /\ job[d].kind = "edit" => e.boundary = job[d].boundary
           /\ job[d].kind = "metadata" => e.boundary = 0
           /\ job[d].content \in Contents
<1>1. job[d] \in EditJob \cup MetadataJob
  BY DEF IInv, Shape, Jobs, Idle, MoveJob
<1>2. doc[d].content \in Contents /\ doc[d].state \in Nat /\ unique + 1 \in Nat
  BY DocumentFacts DEF Document
<1>3. CASE job[d] \in EditJob
  BY <1>2, <1>3 DEF NewEntry, Entry, EditJob, None
<1>4. CASE job[d] \in MetadataJob
  BY <1>2, <1>4 DEF NewEntry, Entry, MetadataJob, None
<1> QED
  BY <1>1, <1>3, <1>4

(* An edit commits.                                                        *)
LEMMA CommitEditKeeps ==
    ASSUME IInv, NEW d \in Docs, CommitEdit(d), UNCHANGED <<open, split>>
    PROVE  IInv' /\ Visible
<1>1. PICK x \in Document : x = doc[d] /\ Good(x)
  BY DocumentFacts
<1>2. PICK e : e = NewEntry(doc[d], job[d], None)
  OBVIOUS
<1>3. PICK c, b : c = job[d].content /\ b = job[d].boundary
  OBVIOUS
<1>4. job[d].kind = "edit"
  BY DEF CommitEdit
<1>5. /\ e \in Entry /\ e.before = x.content /\ e.beforeState = x.state
      /\ e.after = c /\ e.afterState = unique + 1 /\ e.seq = unique + 1 /\ e.tag = None
      /\ e.boundary = b /\ c \in Contents
  BY <1>1, <1>2, <1>3, <1>4, NewEntryIs
<1>6. PICK r : r = Reserved(d)
  OBVIOUS
<1>7. Pruned(x, r) /\ r.undo = x.undo /\ r.redo = x.redo
  BY <1>1, <1>6, ReservedPrunes
<1>8. /\ unique' = unique + 1 /\ unique + 1 \in Nat /\ unique + 1 > unique /\ unique \in Nat
      /\ UNCHANGED <<open, split, save, view, disk, members, group>>
  BY DocumentFacts DEF CommitEdit, SaveVars, GroupVars
<1>9. d \notin split => b = view[d].boundary[1]
  BY <1>3, <1>4 DEF IInv, SealedInv
<1>10. None \notin linked /\ None \notin DOMAIN members
  BY DocumentFacts DEF IInv, Shape, None
<1>11. unique' \in Nat /\ unique' >= unique /\ unique + 1 <= unique'
  BY <1>8
<1>12. CASE ~Merges(x, job[d])
  <2>1. PICK y : y = Trim(Pushed(Moved(r, c, unique + 1), e))
    OBVIOUS
  <2>2. Settle(d, y)
    BY <1>1, <1>2, <1>3, <1>6, <1>12, <2>1 DEF CommitEdit
  <2>3. /\ Evolves(x, y, None, unique, b) /\ Sided(x, y, None)
        /\ y.state = unique + 1 /\ Rewrites(d, x, y)
    BY <1>1, <1>5, <1>7, <1>8, <1>10, <2>1, PushRewrites
  <2>4. y.state <= unique' /\ (d \notin split => b \in {0, view[d].boundary[1]})
    BY <1>9, <1>11, <2>3
  <2> QED
    BY <1>1, <1>8, <1>10, <1>11, <2>2, <2>3, <2>4, SettleKeeps, ZenonT(60)
<1>13. CASE Merges(x, job[d])
  <2>1. PICK z : z = Extended(Moved(r, c, unique + 1), e)
    OBVIOUS
  <2>2. PICK y : y = Trim(z)
    OBVIOUS
  <2>3. Settle(d, y)
    BY <1>1, <1>2, <1>3, <1>6, <1>13, <2>1, <2>2 DEF CommitEdit
  <2>4. PICK last : last = x.undo[Len(x.undo)]
    OBVIOUS
  <2>5. /\ x.undo # <<>> /\ last.typing /\ last.afterState = x.state
        /\ last.afterState # x.saved /\ last.boundary = b
    BY <1>3, <1>13, <2>4 DEF Merges
  <2>6. r \in Document /\ r.content = x.content /\ r.state = x.state /\ Good(r)
    BY <1>1, <1>7, PrunedKeeps DEF Pruned, Good
  <2>7. Evolves(r, z, None, unique, b) /\ Sided(r, z, None) /\ Joins(r, z)
    BY <1>5, <1>7, <1>8, <2>1, <2>4, <2>5, <2>6, ExtendedEvolves
  <2>8. z \in Document /\ z.state = unique + 1
    BY <1>5, <1>7, <1>8, <2>1, <2>5, <2>6, ExtendedIs
  <2>9. Pruned(z, y) /\ y.state = unique + 1
    BY <2>2, <2>8, TrimPrunes DEF Pruned
  <2>10. Evolves(x, z, None, unique, b) /\ Sided(x, z, None)
    BY <1>1, <1>7, <2>7, PrunedThenEvolves
  <2>11. Evolves(x, y, None, unique, b) /\ Sided(x, y, None)
    BY <2>9, <2>10, EvolvesThenPruned
  <2>12. x.state \notin Captured(d)
    <3>1. last \in EntriesOf(x)
      BY <2>4, <2>5, TopOf DEF EntriesOf, Document
    <3>2. CASE d \in split
      <4>1. last.afterState > NumDocs /\ d <= NumDocs
        BY <1>1, <3>1 DEF IInv, StackInv, EntryFits, Docs
      <4>2. x.state \in Nat /\ NumDocs \in Nat /\ d \in Nat
        BY ConstantsAssumption DEF Document, Docs
      <4>3. x.state # d
        BY <2>5, <4>1, <4>2
      <4> QED
        BY <3>2, <4>3 DEF Captured
    <3>3. CASE d \notin split
      <4>1. last.afterState # save[d].state /\ last.afterState # view[d].unsent
        BY <1>1, <1>9, <2>5, <3>1, <3>3 DEF IInv, SealedInv
      <4> QED
        BY <1>1, <2>5, <3>3, <4>1 DEF Captured
    <3> QED
      BY <3>2, <3>3
  <2>13. Joins(x, z)
    BY <1>7, <2>7 DEF Joins
  <2>14. Rewrites(d, x, y)
    BY <2>4, <2>5, <2>8, <2>9, <2>12, <2>13 DEF Rewrites
  <2>15. y.state <= unique' /\ (d \notin split => b \in {0, view[d].boundary[1]})
    BY <1>9, <1>11, <2>9
  <2> QED
    BY <1>1, <1>8, <1>10, <1>11, <2>3, <2>11, <2>14, <2>15, SettleKeeps, ZenonT(60)
<1> QED
  BY <1>12, <1>13

(* A step that finishes a mutation by forgetting.                          *)
LEMMA SettlePruned ==
    ASSUME IInv, NEW d \in Docs, NEW y, Settle(d, y), Pruned(doc[d], y), unique' = unique,
           UNCHANGED <<open, split, save, view, disk, members, group>>
    PROVE  IInv' /\ Visible
<1>1. PICK x \in Document : x = doc[d] /\ Good(x) /\ x.state <= unique /\ unique \in Nat
  BY DocumentFacts
<1>2. None \notin linked
  BY DocumentFacts
<1>3. Evolves(x, y, None, unique, 0) /\ Sided(x, y, None)
  BY <1>1, PrunedEvolves
<1>4. y.state <= unique' /\ unique' \in Nat /\ unique' >= unique
  BY <1>1 DEF Pruned
<1>5. d \notin split => 0 \in {0, view[d].boundary[1]}
  OBVIOUS
<1> QED
  BY <1>1, <1>2, <1>3, <1>4, <1>5, SettleKeeps, ZenonT(60)

(* A move through the history is refused.                                  *)
LEMMA RefuseMoveKeeps ==
    ASSUME IInv, NEW d \in Docs, RefuseMove(d), UNCHANGED <<open, split>>
    PROVE  IInv' /\ Visible
<1>1. Pruned(doc[d], doc[d])
  BY DocumentFacts, PrunedNone
<1>2. /\ Settle(d, doc[d]) /\ unique' = unique
      /\ UNCHANGED <<open, split, save, view, disk, members, group>>
  BY DEF RefuseMove, SaveVars, GroupVars
<1> QED
  BY <1>1, <1>2, SettlePruned

(* A limit changes.                                                        *)
LEMMA SetHistoryPolicyKeeps ==
    ASSUME IInv, NEW d \in Docs, NEW limit \in ChangeLimits, SetHistoryPolicy(d, limit),
           UNCHANGED <<open, split>>
    PROVE  IInv' /\ Visible
<1>1. PICK x \in Document : x = doc[d]
  BY DocumentFacts
<1>2. limit \in Nat
  BY ConstantsAssumption
<1>3. PICK z : z = [x EXCEPT !.limit = limit]
  OBVIOUS
<1>4. z \in Document /\ z.undo = x.undo /\ z.redo = x.redo /\ z.content = x.content /\ z.state = x.state
  BY <1>2, <1>3 DEF Document
<1>5. Cut(x.undo, x.undo, 0) /\ Cut(x.redo, x.redo, 0)
  BY CutNone DEF Document
<1>6. Pruned(x, z)
  BY <1>4, <1>5 DEF Pruned
<1>7. PICK y : y = Trim(z)
  OBVIOUS
<1>8. Pruned(x, y)
  BY <1>4, <1>6, <1>7, TrimPrunes, PrunedTwice
<1>9. /\ Settle(d, y) /\ unique' = unique
      /\ UNCHANGED <<open, split, save, view, disk, members, group>>
  BY <1>1, <1>3, <1>7 DEF SetHistoryPolicy, SaveVars, GroupVars
<1> QED
  BY <1>1, <1>8, <1>9, SettlePruned

(* A document goes one version back or forward, alone.                     *)
LEMMA FinishMoveKeeps ==
    ASSUME IInv, NEW d \in Docs, FinishMove(d), UNCHANGED <<open, split>>
    PROVE  IInv' /\ Visible
<1>1. PICK x \in Document : x = doc[d] /\ Good(x)
  BY DocumentFacts
<1>2. /\ unique' = unique /\ unique \in Nat
      /\ UNCHANGED <<open, split, save, view, disk, members, group>>
  BY DocumentFacts DEF FinishMove, SaveVars, GroupVars
<1>3. ASSUME NEW y, Evolves(x, y, None, unique, 0), <<y.state, y.content>> \in Knows(x)
      PROVE  y.state <= unique' /\ unique' \in Nat /\ unique' >= unique
  <2>1. <<y.state, y.content>> \in Known(d)
    BY <1>1, <1>3 DEF Known
  <2>2. y.state <= unique
    BY <2>1 DEF IInv, ContentInv
  <2> QED
    BY <1>2, <2>2
<1>4. d \notin split => 0 \in {0, view[d].boundary[1]}
  OBVIOUS
<1>5. CASE job[d].kind = "undo"
  <2>1. PICK y : y = Undone(x)
    OBVIOUS
  <2>2. Settle(d, y)
    BY <1>1, <1>5, <2>1 DEF FinishMove
  <2>3. x.undo # <<>> /\ ~TopLinked(x.undo)
    BY <1>1, <1>5 DEF IInv, JobInv
  <2>4. PICK g : g = x.undo[Len(x.undo)].tag
    OBVIOUS
  <2>5. g \notin linked
    BY <2>3, <2>4 DEF TopLinked
  <2>6. TakesBack(x, y)
    BY <2>1, <2>3, UndoneIs
  <2>7. Evolves(x, y, None, unique, 0) /\ Sided(x, y, g)
    BY <1>1, <2>4, <2>6, TakesBackEvolves
  <2>8. <<y.state, y.content>> \in Knows(x)
    <3>1. x.undo[Len(x.undo)] \in EntriesOf(x)
      BY <2>3, TopOf DEF EntriesOf, Document
    <3> QED
      BY <2>6, <3>1 DEF TakesBack, Knows
  <2>9. y.state <= unique' /\ unique' \in Nat /\ unique' >= unique
    BY <1>3, <2>7, <2>8
  <2> QED
    BY <1>1, <1>2, <1>4, <2>2, <2>5, <2>6, <2>7, <2>9, SettleKeeps, ZenonT(60)
<1>6. CASE job[d].kind # "undo"
  <2>1. PICK y : y = Redone(x)
    OBVIOUS
  <2>2. Settle(d, y) /\ job[d].kind = "redo"
    BY <1>1, <1>6, <2>1 DEF FinishMove
  <2>3. x.redo # <<>> /\ ~TopLinked(x.redo)
    BY <1>1, <2>2 DEF IInv, JobInv
  <2>4. PICK g : g = x.redo[Len(x.redo)].tag
    OBVIOUS
  <2>5. g \notin linked
    BY <2>3, <2>4 DEF TopLinked
  <2>6. TakesForward(x, y)
    BY <2>1, <2>3, RedoneIs
  <2>7. Evolves(x, y, None, unique, 0) /\ Sided(x, y, g)
    BY <1>1, <2>4, <2>6, TakesForwardEvolves
  <2>8. <<y.state, y.content>> \in Knows(x)
    <3>1. x.redo[Len(x.redo)] \in EntriesOf(x)
      BY <2>3, TopOf DEF EntriesOf, Document
    <3> QED
      BY <2>6, <3>1 DEF TakesForward, Knows
  <2>9. y.state <= unique' /\ unique' \in Nat /\ unique' >= unique
    BY <1>3, <2>7, <2>8
  <2> QED
    BY <1>1, <1>2, <1>4, <2>2, <2>5, <2>6, <2>7, <2>9, SettleKeeps, ZenonT(60)
<1> QED
  BY <1>5, <1>6

(* A metadata change is written or refused.                                *)
LEMMA FinishMetadataKeeps ==
    ASSUME IInv, NEW d \in Docs, FinishMetadata(d), UNCHANGED <<open, split>>
    PROVE  IInv' /\ Visible
<1>1. PICK x \in Document : x = doc[d] /\ Good(x)
  BY DocumentFacts
<1>2. PICK e : e = NewEntry(doc[d], job[d], None)
  OBVIOUS
<1>3. PICK r : r = Reserved(d)
  OBVIOUS
<1>4. PICK c : c = job[d].content
  OBVIOUS
<1>5. PICK y : y = Trim(Pushed(Moved(r, c, unique + 1), e))
  OBVIOUS
<1>6. /\ \/ Settle(d, y) /\ unique' = unique + 1
         \/ Settle(d, doc[d]) /\ unique' = unique
      /\ UNCHANGED <<open, split, save, view, disk, members, group>>
      /\ job[d].kind = "metadata"
  BY <1>2, <1>3, <1>4, <1>5 DEF FinishMetadata, SaveVars, GroupVars
<1>7. CASE Settle(d, doc[d]) /\ unique' = unique
  <2>1. Pruned(doc[d], doc[d])
    BY DocumentFacts, PrunedNone
  <2> QED
    BY <1>6, <1>7, <2>1, SettlePruned
<1>8. CASE Settle(d, y) /\ unique' = unique + 1
  <2>1. /\ e \in Entry /\ e.before = x.content /\ e.beforeState = x.state
        /\ e.after = c /\ e.afterState = unique + 1 /\ e.seq = unique + 1 /\ e.tag = None
        /\ e.boundary \in {0, 0} /\ c \in Contents
    BY <1>1, <1>2, <1>4, <1>6, NewEntryIs
  <2>2. Pruned(x, r) /\ r.undo = x.undo /\ r.redo = x.redo
    BY <1>1, <1>3, ReservedPrunes
  <2>3. /\ unique + 1 \in Nat /\ unique + 1 > unique /\ unique \in Nat
        /\ None \notin linked /\ None \notin DOMAIN members
    BY DocumentFacts DEF IInv, Shape, None
  <2>4. /\ Evolves(x, y, None, unique, 0) /\ Sided(x, y, None)
        /\ y.state = unique + 1 /\ Rewrites(d, x, y)
    BY <1>1, <1>5, <2>1, <2>2, <2>3, PushRewrites
  <2>5. y.state <= unique' /\ unique' \in Nat /\ unique' >= unique
    BY <1>8, <2>3, <2>4
  <2>6. d \notin split => 0 \in {0, view[d].boundary[1]}
    OBVIOUS
  <2> QED
    BY <1>1, <1>6, <1>8, <2>3, <2>4, <2>5, <2>6, SettleKeeps, ZenonT(60)
<1> QED
  BY <1>6, <1>7, <1>8

(* An edit commits without an entry.                                       *)
LEMMA CommitUntrackedKeeps ==
    ASSUME IInv, NEW d \in Docs, CommitUntracked(d), UNCHANGED <<open, split>>
    PROVE  IInv' /\ Visible
<1>1. PICK x \in Document : x = doc[d] /\ Good(x)
  BY DocumentFacts
<1>2. PICK e : e = NewEntry(doc[d], job[d], None)
  OBVIOUS
<1>3. PICK c : c = job[d].content
  OBVIOUS
<1>4. job[d].kind = "edit"
  BY DEF CommitUntracked
<1>5. /\ e \in Entry /\ e.before = x.content /\ e.beforeState = x.state /\ c \in Contents
  BY <1>1, <1>2, <1>3, <1>4, NewEntryIs
<1>6. PICK r : r = Reserved(d)
  OBVIOUS
<1>7. Pruned(x, r) /\ r.undo = x.undo /\ r.redo = x.redo /\ r \in Document
  BY <1>1, <1>6, ReservedPrunes DEF Pruned
<1>8. /\ unique' = unique + 1 /\ unique + 1 \in Nat /\ unique + 1 > unique /\ unique \in Nat
      /\ UNCHANGED <<open, split, save, view, disk, members, group>>
  BY DocumentFacts DEF CommitUntracked, SaveVars, GroupVars
<1>9. PICK y : y = [Moved(r, c, unique + 1) EXCEPT !.undo = <<>>, !.redo = <<>>]
  OBVIOUS
<1>10. Settle(d, y)
  BY <1>3, <1>6, <1>9 DEF CommitUntracked
<1>11. /\ Evolves(r, y, None, unique, 0) /\ Sided(r, y, None)
       /\ y.undo = <<>> /\ y.redo = <<>> /\ y.content = c /\ y.state = unique + 1
  <2>1. PICK s \in Nat : s = unique + 1 /\ s > unique
    BY <1>8
  <2>2. y = [Moved(r, c, s) EXCEPT !.undo = <<>>, !.redo = <<>>]
    BY <1>9, <2>1
  <2>3. Evolves(r, y, None, unique, 0) /\ Sided(r, y, None) /\ Shown(y, c, s, <<>>, <<>>)
    BY <1>5, <1>7, <1>8, <2>1, <2>2, ClearedEvolves
  <2> QED
    BY <2>1, <2>3 DEF Shown
<1>12. Evolves(x, y, None, unique, 0) /\ Sided(x, y, None) /\ y \in Document
  BY ZenonT(60), <1>1, <1>7, <1>11, PrunedThenEvolves DEF Evolves
<1>13. PICK z : z = Pushed(Moved(r, c, unique + 1), e)
  OBVIOUS
<1>14. Shown(z, c, unique + 1, Append(r.undo, e), <<>>)
  BY <1>5, <1>7, <1>8, <1>13, PushedIs
<1>15. Rewrites(d, x, y)
  <2>1. z \in Document /\ z.content = c /\ z.state = unique + 1 /\ z.undo = Append(x.undo, e) /\ z.redo = <<>>
    BY <1>7, <1>14 DEF Shown
  <2>2. x.undo \in Seq(Entry)
    BY DEF Document
  <2>3. /\ Len(z.undo) = Len(x.undo) + 1 /\ z.undo[Len(z.undo)] = e
        /\ \A i \in 1..Len(x.undo) : z.undo[i] = x.undo[i]
    BY <1>5, <2>1, <2>2, PlusTop
  <2>4. Adds(x, z)
    BY <1>5, <2>1, <2>3 DEF Adds
  <2>5. Len(z.undo) \in Nat /\ Cut(z.redo, z.redo, 0)
    BY <2>1, EntriesAre, CutNone DEF Document
  <2>6. Cut(z.undo, y.undo, Len(z.undo))
    BY <1>11, <2>5, EmptySeq DEF Cut
  <2>7. Pruned(z, y)
    BY <1>11, <1>12, <2>1, <2>5, <2>6 DEF Pruned
  <2> QED
    BY <2>1, <2>4, <2>7 DEF Rewrites
<1>16. y.state <= unique' /\ unique' \in Nat /\ unique' >= unique
  BY <1>8, <1>11
<1>17. None \notin linked
  BY DocumentFacts
<1>18. d \notin split => 0 \in {0, view[d].boundary[1]}
  OBVIOUS
<1> QED
  BY <1>1, <1>8, <1>10, <1>12, <1>15, <1>16, <1>17, <1>18, SettleKeeps, ZenonT(60)

(* A step in which documents only forget.                                  *)
LEMMA ForgetKeeps ==
    ASSUME IInv, doc' \in [Docs -> Document], \A d \in Docs : Pruned(doc[d], doc'[d]),
           UNCHANGED <<open, split, save, view, disk, unique, members>>,
           job' \in [Docs -> Jobs], GroupFits', JobInv', linked' \subseteq linked,
           \A h \in linked', d \in Docs : h \in TagsOf(doc[d]) => h \in TagsOf(doc'[d]),
           \A d \in Docs \ split : job'[d].kind = "edit" => job'[d].boundary = view[d].boundary[1]
    PROVE  IInv' /\ Visible
<1>1. PICK b : b = [d \in Docs |-> 0]
  OBVIOUS
<1>2. HistoryStep(None, None, b) /\ Visible
  BY ForgettingIsAStep
<1>3. linked' \subseteq DOMAIN members' /\ None \notin linked'
  BY DEF IInv, Shape, None
<1>4. \A d \in Docs \ split : b[d] \in {0, view[d].boundary[1]}
  BY <1>1
<1> QED
  BY <1>2, <1>3, <1>4, WorkersKeep, ZenonT(60)

(* What is unlinked when documents forget.                                 *)
LEMMA UnlinkedAre ==
    ASSUME NEW before, NEW after, NEW h, h \notin Unlinked(before, after), NEW d \in Docs,
           h \in TagsOf(before[d])
    PROVE  h \in TagsOf(after[d])
BY DEF Unlinked, DroppedTags

(* A job goes to its next step.                                            *)
LEMMA JobStep ==
    ASSUME NEW j \in Jobs, j.kind # "idle", NEW s \in Steps, NEW k, k = [j EXCEPT !.step = s]
    PROVE  /\ k \in Jobs /\ k.kind = j.kind /\ k # Idle
           /\ j.kind = "edit" => k.boundary = j.boundary
<1>1. j # Idle
  BY DEF Idle
<1>2. CASE j \in EditJob
  BY <1>2 DEF Jobs, EditJob, Idle
<1>3. CASE j \in MetadataJob
  BY <1>3 DEF Jobs, MetadataJob, Idle
<1>4. CASE j \in MoveJob
  BY <1>4 DEF Jobs, MoveJob, Idle
<1> QED
  BY <1>1, <1>2, <1>3, <1>4 DEF Jobs

(* Relief evicts from the documents that no worker holds.                  *)
LEMMA RelieveKeeps ==
    ASSUME IInv, NEW d \in Docs, Relieve(d), UNCHANGED <<open, split>>
    PROVE  IInv' /\ Visible
<1>1. PICK kind, cost : kind = DemandKind(job[d].kind) /\ cost = DemandCost(job[d])
  OBVIOUS
<1>2. /\ doc' = Relieved(d, kind, cost, Reach(d), doc)
      /\ linked' = linked \ Unlinked(doc, doc')
      /\ job[d].kind # "idle" /\ job' = [job EXCEPT ![d].step = "charge"]
      /\ UNCHANGED <<open, split, save, view, disk, unique, members, group>>
  BY <1>1 DEF Relieve, SaveVars, GroupVars
<1>3. doc \in [Docs -> Document] /\ job \in [Docs -> Jobs]
  BY DEF IInv, Shape
<1>4. /\ doc' \in [Docs -> Document]
      /\ \A e \in Docs : Pruned(doc[e], doc'[e]) /\ (e \notin Reach(d) => doc'[e] = doc[e])
      /\ TopStays(kind, doc[d], doc'[d])
  BY <1>2, <1>3, ReliefPrunes
<1>5. PICK k : k = [job[d] EXCEPT !.step = "charge"]
  OBVIOUS
<1>6. /\ k \in Jobs /\ k.kind = job[d].kind /\ k # Idle
      /\ job[d].kind = "edit" => k.boundary = job[d].boundary
  BY <1>2, <1>3, <1>5, JobStep DEF Steps
<1>7. job' \in [Docs -> Jobs] /\ job'[d] = k /\ \A e \in Docs \ {d} : job'[e] = job[e]
  BY <1>2, <1>3, <1>5, <1>6
<1>8. JobInv'
  <2>1. \A e \in Docs : job'[e] # Idle => e \notin Locked'
    <3>1. Locked' = Locked /\ job[d] # Idle
      BY <1>2 DEF Locked, Idle
    <3> QED
      BY <1>7, <3>1 DEF IInv, JobInv
  <2>2. ASSUME NEW e \in Docs
        PROVE  \/ job'[e].kind \notin {"undo", "redo"}
               \/ /\ job'[e].kind = job[e].kind
                  /\ TopStays(job[e].kind, doc[e], doc'[e])
    <3>1. CASE e = d
      BY <1>1, <1>4, <1>6, <1>7, <3>1 DEF DemandKind, TopStays
    <3>2. CASE e # d /\ job[e] = Idle
      BY <1>7, <3>2 DEF Idle
    <3>3. CASE e # d /\ job[e] # Idle
      <4>1. e \notin Reach(d)
        BY <3>3 DEF Reach, Free
      <4> QED
        BY <1>4, <1>7, <3>3, <4>1 DEF TopStays
    <3> QED
      BY <3>1, <3>2, <3>3
  <2>3. PICK t : t = Len(members) + 1
    OBVIOUS
  <2>4. t \notin DOMAIN members /\ t # None
    BY <2>3 DEF IInv, Shape, None
  <2>5. linked' \subseteq linked \cup {t}
    BY <1>2
  <2> QED
    BY <2>1, <2>2, <2>4, <2>5, JobKeeps
<1>9. GroupFits'
  BY <1>2 DEF IInv, Shape, GroupFits
<1>10. \A h \in linked', e \in Docs : h \in TagsOf(doc[e]) => h \in TagsOf(doc'[e])
  BY <1>2, UnlinkedAre
<1>11. \A e \in Docs \ split : job'[e].kind = "edit" => job'[e].boundary = view[e].boundary[1]
  BY <1>6, <1>7 DEF IInv, SealedInv
<1>12. linked' \subseteq linked
  BY <1>2
<1> QED
  BY <1>2, <1>4, <1>7, <1>8, <1>9, <1>10, <1>11, <1>12, ForgetKeeps, ZenonT(60)

(* A worker's edit that stays a worker's edit, with what its document      *)
(* forgets meanwhile.                                                      *)
LEMMA EditWaits ==
    ASSUME IInv, NEW d \in Docs, NEW y, doc' = [doc EXCEPT ![d] = y], Pruned(doc[d], y),
           linked' = linked \ DroppedTags(doc[d], y),
           NEW k \in Jobs, job' = [job EXCEPT ![d] = k], job[d].kind = "edit", k.kind = "edit",
           k.boundary = job[d].boundary,
           UNCHANGED <<open, split, save, view, disk, unique, members, group>>
    PROVE  IInv' /\ Visible
<1>1. doc \in [Docs -> Document] /\ job \in [Docs -> Jobs] /\ y \in Document
  BY DEF IInv, Shape, Pruned
<1>2. doc' \in [Docs -> Document] /\ doc'[d] = y /\ \A e \in Docs \ {d} : doc'[e] = doc[e]
  BY <1>1
<1>3. job' \in [Docs -> Jobs] /\ job'[d] = k /\ \A e \in Docs \ {d} : job'[e] = job[e]
  BY <1>1
<1>4. \A e \in Docs : Pruned(doc[e], doc'[e])
  <2>1. ASSUME NEW e \in Docs PROVE Pruned(doc[e], doc'[e])
    <3>1. CASE e = d
      BY <1>2, <3>1
    <3>2. CASE e # d
      BY <1>1, <1>2, <3>2, PrunedNone
    <3> QED
      BY <3>1, <3>2
  <2> QED
    BY <2>1
<1>5. JobInv'
  <2>1. \A e \in Docs : job'[e] # Idle => e \notin Locked'
    <3>1. Locked' = Locked /\ job[d] # Idle
      BY DEF Locked, Idle
    <3> QED
      BY <1>3, <3>1 DEF IInv, JobInv
  <2>2. \A e \in Docs : \/ job'[e].kind \notin {"undo", "redo"}
                        \/ /\ job'[e].kind = job[e].kind
                           /\ TopStays(job[e].kind, doc[e], doc'[e])
    BY <1>2, <1>3 DEF TopStays
  <2>3. PICK t : t = Len(members) + 1
    OBVIOUS
  <2>4. t \notin DOMAIN members /\ t # None
    BY <2>3 DEF IInv, Shape, None
  <2>5. linked' \subseteq linked \cup {t}
    OBVIOUS
  <2> QED
    BY <2>1, <2>2, <2>4, <2>5, JobKeeps
<1>6. GroupFits'
  BY DEF IInv, Shape, GroupFits
<1>7. \A h \in linked', e \in Docs : h \in TagsOf(doc[e]) => h \in TagsOf(doc'[e])
  BY <1>2 DEF DroppedTags
<1>8. \A e \in Docs \ split : job'[e].kind = "edit" => job'[e].boundary = view[e].boundary[1]
  BY <1>3 DEF IInv, SealedInv
<1>9. linked' \subseteq linked
  OBVIOUS
<1> QED
  BY <1>2, <1>3, <1>4, <1>5, <1>6, <1>7, <1>8, <1>9, ForgetKeeps, ZenonT(60)

(* Another worker took the room.                                           *)
LEMMA RetryReliefKeeps ==
    ASSUME IInv, NEW d \in Docs, RetryRelief(d), UNCHANGED <<open, split>>
    PROVE  IInv' /\ Visible
<1>1. PICK y : y = Reserved(d)
  OBVIOUS
<1>2. Pruned(doc[d], y) /\ y.undo = doc[d].undo /\ y.redo = doc[d].redo
  BY <1>1, DocumentFacts, ReservedPrunes
<1>3. PICK k : k = [job[d] EXCEPT !.pass = @ + 1, !.step = "relieve"]
  OBVIOUS
<1>4. /\ job[d].kind = "edit" /\ doc' = [doc EXCEPT ![d] = y]
      /\ UNCHANGED <<open, split, save, view, disk, unique, members, group, linked>>
  BY <1>1 DEF RetryRelief, SaveVars, GroupVars
<1>5. job \in [Docs -> Jobs]
  BY DEF IInv, Shape
<1>6. job[d] \in EditJob
  BY <1>4, <1>5 DEF Jobs, Idle, MetadataJob, MoveJob
<1>7. k \in Jobs /\ k.kind = "edit" /\ k.boundary = job[d].boundary
  <2>1. PICK p \in Nat : p = job[d].pass + 1
    BY <1>6 DEF EditJob
  <2>2. k = [job[d] EXCEPT !.pass = p, !.step = "relieve"]
    BY <1>3, <2>1
  <2>3. k \in EditJob /\ k.kind = job[d].kind /\ k.boundary = job[d].boundary
    BY <1>6, <2>2 DEF EditJob, Steps
  <2> QED
    BY <1>4, <2>3 DEF Jobs
<1>8. job' = [job EXCEPT ![d] = k]
  BY <1>3, <1>5 DEF RetryRelief
<1>9. linked' = linked \ DroppedTags(doc[d], y)
  BY <1>2, <1>4 DEF DroppedTags, TagsOf, EntriesOf
<1> QED
  BY <1>2, <1>4, <1>7, <1>8, <1>9, EditWaits, ZenonT(60)

(* A document's own oldest entry gives way.                                *)
LEMMA EvictOwnKeeps ==
    ASSUME IInv, NEW d \in Docs, EvictOwn(d), UNCHANGED <<open, split>>
    PROVE  IInv' /\ Visible
<1>1. PICK x \in Document : x = Reserved(d) /\ Pruned(doc[d], x)
  BY DocumentFacts, ReservedPrunes DEF Pruned
<1>2. PICK drop, m, n : /\ m \in Nat /\ n \in Nat /\ drop = [undo |-> m, redo |-> n]
                      /\ doc' = [doc EXCEPT ![d] = Discard(x, drop)]
                      /\ linked' = linked \ DroppedTags(doc[d], Discard(x, drop))
  BY <1>1 DEF EvictOwn
<1>3. PICK y : y = Discard(x, drop)
  OBVIOUS
<1>4. drop.undo = m /\ drop.redo = n
  BY <1>2
<1>5. Pruned(x, y)
  BY <1>2, <1>3, <1>4, DiscardPrunes
<1>6. Pruned(doc[d], y)
  BY <1>1, <1>5, DocumentFacts, PrunedTwice
<1>7. /\ job[d].kind = "edit"
      /\ UNCHANGED <<open, split, save, view, disk, unique, members, group>>
  BY DEF EvictOwn, SaveVars, GroupVars
<1>8. job[d] \in Jobs /\ job' = [job EXCEPT ![d] = job[d]]
  BY DEF EvictOwn, IInv, Shape
<1>9. doc' = [doc EXCEPT ![d] = y] /\ linked' = linked \ DroppedTags(doc[d], y)
  BY <1>2, <1>3
<1> QED
  BY <1>6, <1>7, <1>8, <1>9, EditWaits, ZenonT(60)

(* A worker takes a document that nobody holds.                            *)
LEMMA BeginKeeps ==
    ASSUME IInv, NEW d \in Docs, Free(d), NEW k \in Jobs, job' = [job EXCEPT ![d] = k],
           d \notin split /\ k.kind = "edit" => k.boundary = view[d].boundary[1],
           k.kind = "undo" => doc[d].undo # <<>> /\ ~TopLinked(doc[d].undo),
           k.kind = "redo" => doc[d].redo # <<>> /\ ~TopLinked(doc[d].redo),
           UNCHANGED <<open, split, doc, save, view, disk, unique, members, group, linked>>
    PROVE  IInv' /\ Visible
<1>1. doc \in [Docs -> Document] /\ job \in [Docs -> Jobs]
  BY DEF IInv, Shape
<1>2. job' \in [Docs -> Jobs] /\ job'[d] = k /\ \A e \in Docs \ {d} : job'[e] = job[e]
  BY <1>1
<1>3. doc' \in [Docs -> Document] /\ \A e \in Docs : Pruned(doc[e], doc'[e])
  BY <1>1, PrunedNone
<1>4. JobInv'
  <2>1. Locked' = Locked
    BY DEF Locked
  <2>2. ASSUME NEW e \in Docs
        PROVE  /\ job'[e] # Idle => e \notin Locked
               /\ job'[e].kind = "undo" => doc[e].undo # <<>> /\ ~TopLinked(doc[e].undo)
               /\ job'[e].kind = "redo" => doc[e].redo # <<>> /\ ~TopLinked(doc[e].redo)
    BY <1>2 DEF IInv, JobInv, Free
  <2> QED
    BY <2>1, <2>2 DEF JobInv, TopLinked
<1>5. GroupFits'
  BY DEF IInv, Shape, GroupFits
<1>6. \A e \in Docs \ split : job'[e].kind = "edit" => job'[e].boundary = view[e].boundary[1]
  BY <1>2 DEF IInv, SealedInv
<1>7. linked' \subseteq linked /\ \A h \in linked', e \in Docs : h \in TagsOf(doc[e]) => h \in TagsOf(doc'[e])
  OBVIOUS
<1> QED
  BY <1>2, <1>3, <1>4, <1>5, <1>6, <1>7, ForgetKeeps, ZenonT(60)

(* A set of numbers that is not empty has a least one.                     *)
LEMMA LeastOf ==
    ASSUME NEW T, T \subseteq Nat, T # {}
    PROVE  \E x \in T : \A y \in T : x <= y
<1>1. \E x \in T : \A y \in T : ~ (<<y, x>> \in OpToRel(<, Nat))
  BY WFMin, NatLessThanWellFounded
<1>2. \E x \in T : \A y \in T : ~ (y < x)
  BY <1>1 DEF OpToRel
<1> QED
  BY <1>2

(* What an edit may bring.                                                 *)
LEMMA InputsAre ==
    ContentsUsed \subseteq Contents /\ CostsUsed \subseteq Nat /\ Opened \in Contents
<1>1. Opened \in Contents
  BY ConstantsAssumption DEF Opened
<1>2. EntryCosts \subseteq Nat /\ EntryCosts # {}
  BY ConstantsAssumption
<1>3. PICK n \in EntryCosts : \A m \in EntryCosts : n <= m
  BY <1>2, LeastOf
<1>4. Min(EntryCosts) \in EntryCosts
  BY <1>3 DEF Min
<1> QED
  BY <1>1, <1>2, <1>4 DEF ContentsUsed, CostsUsed

(* An edit is submitted.                                                   *)
LEMMA BeginEditKeeps ==
    ASSUME IInv, NEW d \in Docs, NEW content \in ContentsUsed, NEW cost \in CostsUsed,
           NEW typing \in BOOLEAN, NEW follows \in BOOLEAN,
           BeginEdit(d, content, typing, follows, cost), UNCHANGED <<open, split>>
    PROVE  IInv' /\ Visible
<1>1. PICK k : k = [kind |-> "edit", step |-> "relieve", pass |-> 1, cost |-> cost,
                    content |-> content, typing |-> typing, follows |-> follows,
                    boundary |-> view[d].boundary[view[d].active]]
  OBVIOUS
<1>2. view[d].boundary[view[d].active] \in Nat
  BY DEF IInv, Shape, ViewFits
<1>3. content \in Contents /\ cost \in Nat
  BY InputsAre
<1>4. k \in Jobs /\ k.kind = "edit" /\ k.boundary = view[d].boundary[view[d].active]
  BY <1>1, <1>2, <1>3 DEF Jobs, EditJob, Steps
<1>5. d \notin split => k.boundary = view[d].boundary[1]
  BY <1>4 DEF IInv, SealedInv
<1>6. /\ Free(d) /\ job' = [job EXCEPT ![d] = k]
      /\ UNCHANGED <<open, split, doc, save, view, disk, unique, members, group, linked>>
  BY <1>1 DEF BeginEdit, SaveVars, GroupVars
<1> QED
  BY <1>4, <1>5, <1>6, BeginKeeps, ZenonT(60)

(* A metadata change is submitted.                                         *)
LEMMA BeginMetadataKeeps ==
    ASSUME IInv, NEW d \in Docs, NEW content \in ContentsUsed, NEW cost \in CostsUsed,
           BeginMetadata(d, content, cost), UNCHANGED <<open, split>>
    PROVE  IInv' /\ Visible
<1>1. PICK k : k = [kind |-> "metadata", step |-> "relieve", cost |-> cost, content |-> content]
  OBVIOUS
<1>2. content \in Contents /\ cost \in Nat
  BY InputsAre
<1>3. k \in Jobs /\ k.kind = "metadata"
  BY <1>1, <1>2 DEF Jobs, MetadataJob, Steps
<1>4. /\ Free(d) /\ job' = [job EXCEPT ![d] = k]
      /\ UNCHANGED <<open, split, doc, save, view, disk, unique, members, group, linked>>
  BY <1>1 DEF BeginMetadata, SaveVars, GroupVars
<1> QED
  BY <1>3, <1>4, BeginKeeps, ZenonT(60)

(* An undo or a redo is submitted.                                         *)
LEMMA BeginMoveKeeps ==
    ASSUME IInv, NEW d \in Docs, NEW kind \in {"undo", "redo"}, BeginMove(d, kind),
           UNCHANGED <<open, split>>
    PROVE  IInv' /\ Visible
<1>1. PICK k : k = [kind |-> kind, step |-> "relieve"]
  OBVIOUS
<1>2. k \in Jobs /\ k.kind = kind
  BY <1>1 DEF Jobs, MoveJob, Steps
<1>3. /\ Free(d) /\ job' = [job EXCEPT ![d] = k]
      /\ UNCHANGED <<open, split, doc, save, view, disk, unique, members, group, linked>>
  BY <1>1 DEF BeginMove, SaveVars, GroupVars
<1>4. /\ kind = "undo" => doc[d].undo # <<>> /\ ~TopLinked(doc[d].undo)
      /\ kind = "redo" => doc[d].redo # <<>> /\ ~TopLinked(doc[d].redo)
  BY DEF BeginMove
<1> QED
  BY <1>2, <1>3, <1>4, BeginKeeps, ZenonT(60)

-----------------------------------------------------------------------------
(* Save points.                                                            *)

(* The typing runs that a save has seen are closed, with view v and save s. *)
SealedBy(d, v, s) ==
    /\ v.active = 1
    /\ job[d].kind = "edit" => job[d].boundary = v.boundary[1]
    /\ \A e \in EntriesOf(doc[d]) :
         /\ e.boundary <= v.boundary[1]
         /\ e.boundary = v.boundary[1] => e.afterState # s.state /\ e.afterState # v.unsent

(* A step of a save, which leaves every document the entries it has.       *)
LEMMA SaveStepKeeps ==
    ASSUME IInv, doc' \in [Docs -> Document],
           \A d \in Docs : /\ Pruned(doc[d], doc'[d])
                           /\ doc'[d].undo = doc[d].undo /\ doc'[d].redo = doc[d].redo,
           UNCHANGED <<open, split, job, linked, members, unique, group>>,
           save' \in [Docs -> Saves], disk' \in [Docs -> Contents],
           DOMAIN view' = Docs, \A d \in Docs : ViewFits(d)' /\ view'[d].unsent <= unique,
           \A d \in Docs : /\ <<view'[d].savedState, disk'[d]>> \in Known(d)
                           /\ save'[d] # NoSave => <<save'[d].state, save'[d].content>> \in Known(d),
           \A d \in Docs \ split : SealedBy(d, view'[d], save'[d])
    PROVE  IInv' /\ Visible
<1>1. PICK b : b = [d \in Docs |-> 0]
  OBVIOUS
<1>2. HistoryStep(None, None, b) /\ Visible
  BY ForgettingIsAStep
<1>3. Shape'
  <2>1. GroupFits'
    BY DEF IInv, Shape, GroupFits
  <2> QED
    BY <2>1 DEF IInv, Shape
<1>4. StackInv'
  BY <1>2, StackKeeps
<1>5. ContentInv'
  BY <1>2, ContentKeeps
<1>6. \A d \in Docs : EntriesOf(doc'[d]) = EntriesOf(doc[d]) /\ TagsOf(doc'[d]) = TagsOf(doc[d])
  BY DEF EntriesOf, TagsOf
<1>7. LinkInv'
  <2>1. None \notin linked'
    BY DEF IInv, Shape, None
  <2> QED
    BY <1>2, <1>6, <2>1, LinkKeeps
<1>8. SealedInv'
  BY <1>6 DEF SealedInv, SealedBy
<1>9. JobInv'
  BY DEF IInv, JobInv, TopLinked, Locked
<1> QED
  BY <1>2, <1>3, <1>4, <1>5, <1>7, <1>8, <1>9 DEF IInv

(* What the invariant says of the saves and views that a step leaves alone. *)
LEMMA OthersKeep ==
    ASSUME IInv, NEW d \in Docs
    PROVE  /\ ViewFits(d) /\ view[d].unsent <= unique
           /\ <<view[d].savedState, disk[d]>> \in Known(d)
           /\ save[d] # NoSave => <<save[d].state, save[d].content>> \in Known(d)
           /\ d \notin split => SealedBy(d, view[d], save[d]) /\ Panes(d) = {1}
           /\ \A e \in EntriesOf(doc[d]) : /\ e.boundary \in Nat
                                           /\ e.afterState > NumDocs /\ e.afterState # None
<1>1. \A e \in EntriesOf(doc[d]) : e.boundary \in Nat /\ e.afterState \in Nat
  BY DocumentFacts DEF Entry
<1>2. NumDocs \in Nat
  BY ConstantsAssumption
<1>3. \A e \in EntriesOf(doc[d]) : e.afterState > NumDocs /\ e.afterState # None
  BY <1>1, <1>2 DEF IInv, StackInv, EntryFits, None
<1>4. d \notin split => Panes(d) = {1}
  BY DEF Panes
<1> QED
  BY <1>1, <1>3, <1>4 DEF IInv, Shape, StackInv, Known, SealedInv, SealedBy

(* No state is the one of a save that is not under way.                    *)
LEMMA NoSaveSeals ==
    ASSUME IInv, NEW d \in Docs \ split, NEW v, v.active = view[d].active,
           v.boundary = view[d].boundary, v.unsent \in {view[d].unsent, save[d].state, None}
    PROVE  SealedBy(d, v, NoSave)
<1>1. SealedBy(d, view[d], save[d])
  BY OthersKeep
<1>2. NoSave.state = None
  BY DEF NoSave
<1>3. ASSUME NEW e \in EntriesOf(doc[d])
      PROVE  /\ e.boundary <= v.boundary[1]
             /\ e.boundary = v.boundary[1] => e.afterState # None /\ e.afterState # v.unsent
  <2>1. /\ e.boundary <= view[d].boundary[1]
        /\ e.boundary = view[d].boundary[1] =>
              e.afterState # save[d].state /\ e.afterState # view[d].unsent
    BY <1>1 DEF SealedBy
  <2>2. e.afterState # None
    BY OthersKeep
  <2> QED
    BY <2>1, <2>2
<1> QED
  BY <1>1, <1>2, <1>3 DEF SealedBy

(* A step that leaves the documents alone.                                 *)
LEMMA DocumentsKeep ==
    ASSUME IInv, UNCHANGED doc
    PROVE  /\ doc' \in [Docs -> Document]
           /\ \A d \in Docs : /\ Pruned(doc[d], doc'[d])
                              /\ doc'[d].undo = doc[d].undo /\ doc'[d].redo = doc[d].redo
BY PrunedNone DEF IInv, Shape

(* A save fails.                                                           *)
LEMMA SaveFailsKeeps ==
    ASSUME IInv, NEW d \in Docs, SaveFails(d), UNCHANGED <<open, split>>
    PROVE  IInv' /\ Visible
<1>1. /\ UNCHANGED <<open, split, doc, job, linked, members, unique, group, view, disk>>
      /\ save' = [save EXCEPT ![d] = NoSave]
  BY DEF SaveFails, GroupVars
<1>2. save' \in [Docs -> Saves] /\ disk' \in [Docs -> Contents] /\ DOMAIN view' = Docs
  BY <1>1 DEF IInv, Shape, Saves
<1>3. \A e \in Docs : save'[e] = IF e = d THEN NoSave ELSE save[e]
  BY <1>1 DEF IInv, Shape
<1>4. \A e \in Docs : ViewFits(e)' /\ view'[e].unsent <= unique
  BY <1>1, OthersKeep DEF ViewFits, Panes
<1>5. \A e \in Docs : /\ <<view'[e].savedState, disk'[e]>> \in Known(e)
                      /\ save'[e] # NoSave => <<save'[e].state, save'[e].content>> \in Known(e)
  BY <1>1, <1>3, OthersKeep
<1>6. \A e \in Docs \ split : SealedBy(e, view'[e], save'[e])
  <2>1. d \notin split => SealedBy(d, view'[d], save'[d])
    BY <1>1, <1>3, NoSaveSeals
  <2> QED
    BY <1>1, <1>3, <2>1, OthersKeep
<1> QED
  BY <1>1, <1>2, <1>4, <1>5, <1>6, DocumentsKeep, SaveStepKeeps, ZenonT(60)

(* A save is written: what it captured is on disk.                         *)
LEMMA SaveWrittenKeeps ==
    ASSUME IInv, NEW d \in Docs, SaveWritten(d), UNCHANGED <<open, split>>
    PROVE  IInv' /\ Visible
<1>1. /\ UNCHANGED <<open, split, doc, job, linked, members, unique, group>>
      /\ save[d] # NoSave
      /\ save' = [save EXCEPT ![d] = NoSave]
      /\ disk' = [disk EXCEPT ![d] = save[d].content]
      /\ view' = [view EXCEPT ![d].savedState = save[d].state, ![d].unsent = save[d].state]
  BY DEF SaveWritten, GroupVars
<1>2. save[d].state \in Nat /\ save[d].content \in Contents /\ save[d].state <= unique
  BY <1>1, SavesAreOld DEF IInv, Shape, Saves
<1>3. save' \in [Docs -> Saves] /\ disk' \in [Docs -> Contents] /\ DOMAIN view' = Docs
  BY <1>1, <1>2 DEF IInv, Shape, Saves
<1>4. /\ save'[d] = NoSave /\ disk'[d] = save[d].content
      /\ view'[d] = [view[d] EXCEPT !.savedState = save[d].state, !.unsent = save[d].state]
      /\ \A e \in Docs \ {d} : save'[e] = save[e] /\ disk'[e] = disk[e] /\ view'[e] = view[e]
  BY <1>1 DEF IInv, Shape
<1>5. DOMAIN view[d] = {"active", "boundary", "savedState", "unsent", "saves"}
  BY DEF IInv, Shape, ViewFits
<1>6. /\ view'[d].active = view[d].active /\ view'[d].boundary = view[d].boundary
      /\ view'[d].savedState = save[d].state /\ view'[d].unsent = save[d].state
      /\ DOMAIN view'[d] = DOMAIN view[d]
  BY <1>4, <1>5
<1>7. \A e \in Docs : ViewFits(e)' /\ view'[e].unsent <= unique
  <2>1. ViewFits(d)' /\ view'[d].unsent <= unique
    BY <1>1, <1>2, <1>5, <1>6, OthersKeep DEF ViewFits, Panes
  <2>2. \A e \in Docs \ {d} : ViewFits(e)' /\ view'[e].unsent <= unique
    BY <1>1, <1>4, OthersKeep DEF ViewFits, Panes
  <2> QED
    BY <2>1, <2>2
<1>8. \A e \in Docs : /\ <<view'[e].savedState, disk'[e]>> \in Known(e)
                      /\ save'[e] # NoSave => <<save'[e].state, save'[e].content>> \in Known(e)
  BY <1>1, <1>4, <1>6, OthersKeep
<1>9. \A e \in Docs \ split : SealedBy(e, view'[e], save'[e])
  <2>1. d \notin split => SealedBy(d, view'[d], save'[d])
    BY <1>4, <1>6, NoSaveSeals
  <2> QED
    BY <1>4, <2>1, OthersKeep
<1> QED
  BY <1>1, <1>3, <1>7, <1>8, <1>9, DocumentsKeep, SaveStepKeeps, ZenonT(60)

(* The larger boundary of the panes.                                       *)
LEMMA MaxOfPanes ==
    ASSUME NEW d \in Docs, NEW f \in [Panes(d) -> Nat \ {0}], NEW m,
           m = Max({f[p] : p \in Panes(d)})
    PROVE  m \in Nat /\ m >= f[1]
<1>1. PICK a \in Nat : a = f[1]
  BY DEF Panes
<1>2. CASE d \notin split
  <2>1. {f[p] : p \in Panes(d)} = {a}
    BY <1>1, <1>2 DEF Panes
  <2>2. a \in {a} /\ \A y \in {a} : a >= y
    OBVIOUS
  <2>3. m = CHOOSE x \in {a} : \A y \in {a} : x >= y
    BY <2>1 DEF Max
  <2> QED
    BY <1>1, <2>2, <2>3
<1>3. CASE d \in split
  <2>1. PICK b \in Nat : b = f[2]
    BY <1>3 DEF Panes
  <2>2. {f[p] : p \in Panes(d)} = {a, b}
    BY <1>1, <1>3, <2>1 DEF Panes
  <2>3. \E x \in {a, b} : \A y \in {a, b} : x >= y
    <3>1. a >= b \/ b >= a
      OBVIOUS
    <3> QED
      BY <3>1
  <2>4. m = CHOOSE x \in {a, b} : \A y \in {a, b} : x >= y
    BY <2>2 DEF Max
  <2>5. m \in {a, b} /\ \A y \in {a, b} : m >= y
    BY <2>3, <2>4
  <2> QED
    BY <1>1, <2>5
<1> QED
  BY <1>2, <1>3

(* A save starts: it captures what is shown and closes the typing run.     *)
LEMMA StartSaveKeeps ==
    ASSUME IInv, NEW d \in Docs, StartSave(d), UNCHANGED <<open, split>>
    PROVE  IInv' /\ Visible
<1>1. PICK m : m = Max({view[d].boundary[p] : p \in Panes(d)})
  OBVIOUS
<1>2. /\ UNCHANGED <<open, split, doc, job, linked, members, unique, group, disk>>
      /\ job[d] = Idle
      /\ save' = [save EXCEPT ![d] = [state |-> doc[d].state, content |-> doc[d].content]]
      /\ view' = [view EXCEPT ![d].saves = @ + 1, ![d].boundary[1] = m + 1]
  BY <1>1 DEF StartSave, GroupVars, Free
<1>3. /\ doc[d].state \in Nat /\ doc[d].content \in Contents
      /\ <<doc[d].state, doc[d].content>> \in Known(d)
  BY DocumentFacts DEF Document, Known, Knows
<1>4. /\ save' \in [Docs -> Saves] /\ disk' \in [Docs -> Contents] /\ DOMAIN view' = Docs
      /\ save'[d] = [state |-> doc[d].state, content |-> doc[d].content]
      /\ \A e \in Docs \ {d} : save'[e] = save[e] /\ view'[e] = view[e]
  <2>1. [state |-> doc[d].state, content |-> doc[d].content] \in Saves
    BY <1>3 DEF Saves
  <2> QED
    BY <1>2, <2>1 DEF IInv, Shape
<1>5. view[d].boundary \in [Panes(d) -> Nat \ {0}]
  BY OthersKeep DEF ViewFits
<1>6. m \in Nat /\ m >= view[d].boundary[1]
  BY <1>1, <1>5, MaxOfPanes
<1>7. DOMAIN view[d] = {"active", "boundary", "savedState", "unsent", "saves"}
  BY OthersKeep DEF ViewFits
<1>8. PICK f : f = [view[d].boundary EXCEPT ![1] = m + 1]
  OBVIOUS
<1>9. f \in [Panes(d) -> Nat \ {0}] /\ f[1] = m + 1
  <2>1. 1 \in Panes(d)
    BY DEF Panes
  <2>2. m + 1 \in Nat \ {0}
    BY <1>6
  <2> QED
    BY <1>5, <1>8, <2>1, <2>2
<1>10. view'[d] = [view[d] EXCEPT !.saves = @ + 1, !.boundary = f]
  BY <1>2, <1>8 DEF IInv, Shape
<1>11. /\ view'[d].active = view[d].active /\ view'[d].boundary = f
       /\ view'[d].savedState = view[d].savedState /\ view'[d].unsent = view[d].unsent
       /\ DOMAIN view'[d] = DOMAIN view[d]
  BY <1>7, <1>10
<1>12. \A e \in Docs : ViewFits(e)' /\ view'[e].unsent <= unique
  <2>1. ViewFits(d)' /\ view'[d].unsent <= unique
    BY <1>2, <1>7, <1>9, <1>11, OthersKeep DEF ViewFits, Panes
  <2>2. \A e \in Docs \ {d} : ViewFits(e)' /\ view'[e].unsent <= unique
    BY ZenonT(60), <1>2, <1>4, OthersKeep DEF ViewFits, Panes
  <2> QED
    BY <2>1, <2>2
<1>13. \A e \in Docs : /\ <<view'[e].savedState, disk'[e]>> \in Known(e)
                       /\ save'[e] # NoSave => <<save'[e].state, save'[e].content>> \in Known(e)
  BY ZenonT(60), <1>2, <1>3, <1>4, <1>11, OthersKeep
<1>14. \A e \in Docs \ split : SealedBy(e, view'[e], save'[e])
  <2>1. ASSUME d \notin split PROVE SealedBy(d, view'[d], save'[d])
    <3>1. SealedBy(d, view[d], save[d])
      BY <2>1, OthersKeep
    <3>2. view[d].boundary[1] \in Nat
      BY <1>5 DEF Panes
    <3>3. ASSUME NEW e \in EntriesOf(doc[d])
          PROVE  e.boundary <= m + 1 /\ e.boundary # m + 1
      <4>1. e.boundary <= view[d].boundary[1] /\ e.boundary \in Nat
        BY <3>1, OthersKeep DEF SealedBy
      <4> QED
        BY <1>6, <3>2, <4>1
    <3>4. view'[d].active = 1 /\ job[d].kind # "edit"
      BY <1>2, <1>11, <3>1 DEF SealedBy, Idle
    <3> QED
      BY <1>9, <1>11, <3>3, <3>4 DEF SealedBy
  <2> QED
    BY <1>4, <2>1, OthersKeep
<1> QED
  BY <1>2, <1>4, <1>12, <1>13, <1>14, DocumentsKeep, SaveStepKeeps, ZenonT(60)

(* The document learns which of its states is saved.                       *)
LEMMA MarkSavedKeeps ==
    ASSUME IInv, NEW d \in Docs, MarkSaved(d), UNCHANGED <<open, split>>
    PROVE  IInv' /\ Visible
<1>1. /\ UNCHANGED <<open, split, job, linked, members, unique, group, save, disk>>
      /\ doc' = [doc EXCEPT ![d].saved = view[d].unsent]
      /\ view' = [view EXCEPT ![d].unsent = None]
  BY DEF MarkSaved, GroupVars
<1>2. PICK x \in Document : x = doc[d]
  BY DocumentFacts
<1>3. PICK s \in Nat : s = view[d].unsent
  BY SavesAreOld
<1>4. PICK y : y = [x EXCEPT !.saved = s]
  OBVIOUS
<1>5. y \in Document /\ y.undo = x.undo /\ y.redo = x.redo /\ y.content = x.content /\ y.state = x.state
  BY <1>4 DEF Document
<1>6. Cut(x.undo, x.undo, 0) /\ Cut(x.redo, x.redo, 0)
  BY CutNone DEF Document
<1>7. Pruned(x, y)
  BY <1>5, <1>6 DEF Pruned
<1>8. doc' \in [Docs -> Document] /\ doc'[d] = y /\ \A e \in Docs \ {d} : doc'[e] = doc[e]
  BY <1>1, <1>2, <1>3, <1>4, <1>5 DEF IInv, Shape
<1>9. \A e \in Docs : /\ Pruned(doc[e], doc'[e])
                      /\ doc'[e].undo = doc[e].undo /\ doc'[e].redo = doc[e].redo
  <2>1. ASSUME NEW e \in Docs
        PROVE  /\ Pruned(doc[e], doc'[e])
               /\ doc'[e].undo = doc[e].undo /\ doc'[e].redo = doc[e].redo
    <3>1. CASE e = d
      BY <1>2, <1>5, <1>7, <1>8, <3>1
    <3>2. CASE e # d
      BY <1>8, <3>2, DocumentFacts, PrunedNone
    <3> QED
      BY <3>1, <3>2
  <2> QED
    BY <2>1
<1>10. save' \in [Docs -> Saves] /\ disk' \in [Docs -> Contents] /\ DOMAIN view' = Docs
  BY <1>1 DEF IInv, Shape
<1>11. DOMAIN view[d] = {"active", "boundary", "savedState", "unsent", "saves"}
  BY OthersKeep DEF ViewFits
<1>12. /\ view'[d] = [view[d] EXCEPT !.unsent = None]
       /\ \A e \in Docs \ {d} : view'[e] = view[e]
  BY <1>1 DEF IInv, Shape
<1>13. /\ view'[d].active = view[d].active /\ view'[d].boundary = view[d].boundary
       /\ view'[d].savedState = view[d].savedState /\ view'[d].unsent = None
       /\ DOMAIN view'[d] = DOMAIN view[d]
  BY <1>11, <1>12
<1>14. \A e \in Docs : ViewFits(e)' /\ view'[e].unsent <= unique
  <2>1. None \in Nat /\ None <= unique
    BY DocumentFacts DEF None
  <2>2. ViewFits(d)' /\ view'[d].unsent <= unique
    BY <1>1, <1>11, <1>13, <2>1, OthersKeep DEF ViewFits, Panes
  <2>3. \A e \in Docs \ {d} : ViewFits(e)' /\ view'[e].unsent <= unique
    BY <1>1, <1>12, OthersKeep DEF ViewFits, Panes
  <2> QED
    BY <2>2, <2>3
<1>15. \A e \in Docs : /\ <<view'[e].savedState, disk'[e]>> \in Known(e)
                       /\ save'[e] # NoSave => <<save'[e].state, save'[e].content>> \in Known(e)
  BY <1>1, <1>12, <1>13, OthersKeep
<1>16. \A e \in Docs \ split : SealedBy(e, view'[e], save'[e])
  <2>1. ASSUME d \notin split PROVE SealedBy(d, view'[d], save'[d])
    <3>1. SealedBy(d, view[d], save[d])
      BY <2>1, OthersKeep
    <3>2. \A e \in EntriesOf(doc[d]) : e.afterState # None
      BY OthersKeep
    <3> QED
      BY <1>1, <1>13, <3>1, <3>2 DEF SealedBy
  <2> QED
    BY <1>1, <1>12, <2>1, OthersKeep
<1> QED
  BY <1>1, <1>8, <1>9, <1>10, <1>14, <1>15, <1>16, SaveStepKeeps, ZenonT(60)

(* The input goes to the other pane of a split window.                     *)
LEMMA ActivateKeeps ==
    ASSUME IInv, NEW d \in Docs, NEW pane \in Panes(d), Activate(d, pane), UNCHANGED <<open, split>>
    PROVE  IInv' /\ Visible
<1>1. UNCHANGED <<open, split, doc, job, linked, members, unique, group, save, disk>>
  BY DEF Activate, GroupVars
<1>2. d \in split
  <2>1. view[d].active # pane
    BY DEF Activate
  <2>2. d \notin split => view[d].active = 1 /\ Panes(d) = {1}
    BY OthersKeep DEF SealedBy
  <2> QED
    BY <2>1, <2>2
<1>3. /\ view[d].boundary \in [Panes(d) -> Nat \ {0}] /\ view[d].active \in Panes(d)
      /\ DOMAIN view[d] = {"active", "boundary", "savedState", "unsent", "saves"}
  BY OthersKeep DEF ViewFits
<1>4. PICK v \in Nat \ {0} : v = IF EntriesOf(doc[d]) = {} THEN view[d].boundary[pane]
                                 ELSE view[d].boundary[view[d].active]
  BY <1>3
<1>5. PICK f : f = [view[d].boundary EXCEPT ![pane] = v]
  OBVIOUS
<1>6. f \in [Panes(d) -> Nat \ {0}]
  BY <1>3, <1>5
<1>7. /\ view' = [view EXCEPT ![d].active = pane, ![d].boundary[pane] = v]
      /\ \A e \in Docs \ {d} : view'[e] = view[e]
      /\ DOMAIN view' = Docs
  BY <1>4 DEF Activate, IInv, Shape
<1>8. view'[d] = [view[d] EXCEPT !.active = pane, !.boundary = f]
  BY <1>5, <1>7 DEF IInv, Shape
<1>9. /\ view'[d].active = pane /\ view'[d].boundary = f
      /\ view'[d].savedState = view[d].savedState /\ view'[d].unsent = view[d].unsent
      /\ DOMAIN view'[d] = DOMAIN view[d]
  BY <1>3, <1>8
<1>10. \A e \in Docs : ViewFits(e)' /\ view'[e].unsent <= unique
  <2>1. ViewFits(d)' /\ view'[d].unsent <= unique
    BY <1>1, <1>3, <1>6, <1>9, OthersKeep DEF ViewFits, Panes
  <2>2. \A e \in Docs \ {d} : ViewFits(e)' /\ view'[e].unsent <= unique
    BY ZenonT(60), <1>1, <1>7, OthersKeep DEF ViewFits, Panes
  <2> QED
    BY <2>1, <2>2
<1>11. \A e \in Docs : /\ <<view'[e].savedState, disk'[e]>> \in Known(e)
                       /\ save'[e] # NoSave => <<save'[e].state, save'[e].content>> \in Known(e)
  BY <1>1, <1>7, <1>9, OthersKeep
<1>12. \A e \in Docs \ split : SealedBy(e, view'[e], save'[e])
  BY <1>1, <1>2, <1>7, OthersKeep
<1>13. save' \in [Docs -> Saves] /\ disk' \in [Docs -> Contents]
  BY <1>1 DEF IInv, Shape
<1> QED
  BY <1>1, <1>7, <1>10, <1>11, <1>12, <1>13, DocumentsKeep, SaveStepKeeps, ZenonT(60)

-----------------------------------------------------------------------------
(* Groups.                                                                 *)

(* A step of the groups leaves the workers' documents alone.               *)
LEMMA WorkersApart ==
    ASSUME IInv, UNCHANGED job, NEW t, t \notin DOMAIN members, t # None,
           linked' \subseteq linked \cup {t},
           \A d \in Docs : job[d] # Idle => d \notin Locked' /\ doc'[d] = doc[d]
    PROVE  JobInv'
<1>1. \A d \in Docs : job'[d] # Idle => d \notin Locked'
  OBVIOUS
<1>2. \A d \in Docs : \/ job'[d].kind \notin {"undo", "redo"}
                      \/ /\ job'[d].kind = job[d].kind
                         /\ TopStays(job[d].kind, doc[d], doc'[d])
  BY DEF Idle, TopStays
<1> QED
  BY <1>1, <1>2, JobKeeps

(* The next tag is nobody's.                                               *)
LEMMA NextTag ==
    ASSUME IInv
    PROVE  /\ Len(members) \in Nat /\ Len(members) + 1 \notin DOMAIN members
           /\ Len(members) + 1 # None /\ Cardinality(DOMAIN members) = Len(members)
           /\ DOMAIN members = 1..Len(members) /\ None \notin DOMAIN members
<1>1. members \in Seq(SUBSET Docs)
  BY DEF IInv, Shape
<1>2. Len(members) \in Nat /\ DOMAIN members = 1..Len(members)
  BY <1>1
<1>3. Cardinality(1..Len(members)) = Len(members)
  <2>1. PICK n \in Nat : n = Len(members)
    BY <1>2
  <2>2. Cardinality(1..n) = IF 1 > n THEN 0 ELSE n - 1 + 1
    BY FS_Interval
  <2> QED
    BY <2>1, <2>2
<1> QED
  BY <1>2, <1>3 DEF None

(* A group edit begins.                                                    *)
LEMMA BeginGroupEditKeeps ==
    ASSUME IInv, NEW ds \in SUBSET open, NEW content \in [ds -> ContentsUsed],
           NEW cost \in [ds -> CostsUsed], BeginGroupEdit(ds, content, cost),
           UNCHANGED <<open, split>>
    PROVE  IInv' /\ Visible
<1>1. PICK peers, relieve :
        /\ peers \subseteq Docs /\ \A p \in peers : Free(p)
        /\ group' = [members |-> ds, peers |-> peers, content |-> content, cost |-> cost,
                     charged |-> {}, lost |-> 0, relieve |-> relieve]
  <2> DEFINE pressured == \E d \in ds : LacksRoom(d, "edit", cost[d], doc)
             held == IF pressured THEN {p \in Docs \ ds : Free(p)} ELSE {}
             wanted == pressured /\ GroupNeed(ds, cost) <= Available(doc) + Freeable(ds \cup held)
  <2>1. group' = [members |-> ds, peers |-> held, content |-> content, cost |-> cost,
                  charged |-> {}, lost |-> 0, relieve |-> wanted]
    BY Zenon DEF BeginGroupEdit
  <2>2. held \subseteq Docs /\ \A p \in held : Free(p)
    OBVIOUS
  <2> HIDE DEF pressured, held, wanted
  <2> WITNESS held, wanted
  <2> QED
    BY <2>1, <2>2
<1>2. /\ group = NoGroup /\ Cardinality(ds) >= 2 /\ \A d \in ds : Free(d)
      /\ UNCHANGED <<open, split, doc, job, linked, members, unique, save, view, disk>>
  BY DEF BeginGroupEdit, SaveVars
<1>3. ds \subseteq Docs /\ peers \subseteq Docs
  BY <1>1 DEF IInv, Shape
<1>4. ds # {}
  BY <1>2, FS_EmptySet
<1>5. GroupFits'
  <2>1. /\ group'.members = ds /\ group'.peers = peers
        /\ group'.content = content /\ group'.cost = cost
        /\ DOMAIN group' = GroupFields
    BY <1>1 DEF GroupFields
  <2>2. \A d \in ds : content[d] \in Contents /\ cost[d] \in Nat
    BY InputsAre
  <2> QED
    BY <1>3, <1>4, <2>1, <2>2 DEF GroupFits
<1>6. JobInv'
  <2>1. Locked' \subseteq ds \cup peers
    BY <1>1 DEF Locked
  <2>2. \A d \in Docs : job[d] # Idle => d \notin Locked' /\ doc'[d] = doc[d]
    BY <1>1, <1>2, <2>1 DEF Free
  <2>3. Len(members) + 1 \notin DOMAIN members /\ Len(members) + 1 # None
    BY NextTag
  <2>4. linked' \subseteq linked \cup {Len(members) + 1}
    BY <1>2
  <2> QED
    BY <1>2, <2>2, <2>3, <2>4, WorkersApart
<1>7. job' \in [Docs -> Jobs] /\ linked' \subseteq linked
  BY <1>2 DEF IInv, Shape
<1>8. \A h \in linked', d \in Docs : h \in TagsOf(doc[d]) => h \in TagsOf(doc'[d])
  BY <1>2
<1>9. \A d \in Docs \ split : job'[d].kind = "edit" => job'[d].boundary = view[d].boundary[1]
  BY <1>2 DEF IInv, SealedInv
<1>10. doc' \in [Docs -> Document] /\ \A d \in Docs : Pruned(doc[d], doc'[d])
  BY <1>2, DocumentsKeep
<1> QED
  BY <1>2, <1>5, <1>6, <1>7, <1>8, <1>9, <1>10, ForgetKeeps, ZenonT(60)

(* A stack gets room, and keeps what it has.                               *)
Roomier(x, y) ==
    /\ y \in Document /\ y.undo = x.undo /\ y.redo = x.redo
    /\ y.content = x.content /\ y.state = x.state

(* Reserving a slot forgets nothing and keeps every tag.                    *)
LEMMA RoomierPrunes ==
    ASSUME NEW x \in Document, NEW y, Roomier(x, y)
    PROVE  Pruned(x, y) /\ TagsOf(y) = TagsOf(x)
<1>1. Cut(x.undo, x.undo, 0) /\ Cut(x.redo, x.redo, 0)
  BY CutNone DEF Document
<1>2. Pruned(x, y)
  BY <1>1 DEF Pruned, Roomier
<1>3. TagsOf(y) = TagsOf(x)
  BY DEF TagsOf, EntriesOf, Roomier
<1> QED
  BY <1>2, <1>3

(* A member of the group is charged, or the group is refused.              *)
LEMMA ChargeMemberKeeps ==
    ASSUME IInv, NEW d \in Docs, ChargeMember(d), UNCHANGED <<open, split>>
    PROVE  IInv' /\ Visible
<1>1. PICK after, cap :
        /\ \/ after = EvictUntilFits(d, "edit", group.cost[d], group.members \cup group.peers, doc)
           \/ after = doc
        /\ cap \in {Grown(Len(after[d].undo), after[d].undoCap), after[d].undoCap}
        /\ doc' = [after EXCEPT ![d].undoCap = cap]
        /\ linked' = linked \ Unlinked(doc, after)
        /\ \/ group' = NoGroup
           \/ \E c, l : group' = [group EXCEPT !.charged = c, !.lost = l]
  BY DEF ChargeMember
<1>2. /\ group # NoGroup /\ d \in group.members
      /\ UNCHANGED <<open, split, job, members, unique, save, view, disk>>
  BY DEF ChargeMember, Charging, SaveVars
<1>3. Locked = group.members \cup group.peers
  BY <1>2 DEF Locked
<1>4. doc \in [Docs -> Document]
  BY DEF IInv, Shape
<1>5. /\ after \in [Docs -> Document]
      /\ \A e \in Docs : Pruned(doc[e], after[e]) /\ (e \notin Locked => after[e] = doc[e])
  <2>1. CASE after = doc
    BY <1>4, <2>1, PrunedNone
  <2>2. CASE after = EvictUntilFits(d, "edit", group.cost[d], group.members \cup group.peers, doc)
    BY <1>3, <1>4, <2>2, EvictPrunes
  <2> QED
    BY <1>1, <2>1, <2>2
<1>6. PICK x \in Document : x = after[d]
  BY <1>5
<1>7. PICK k \in Nat, l \in Nat : k = cap /\ l = x.redoCap
  <2>1. Len(x.undo) \in Nat /\ x.undoCap \in Nat /\ x.redoCap \in Nat
    BY DEF Document
  <2>2. cap \in Nat
    BY <1>1, <1>6, <2>1, GrownIsNat
  <2> QED
    BY <2>1, <2>2
<1>8. PICK y : y = [x EXCEPT !.undoCap = k, !.redoCap = l]
  OBVIOUS
<1>9. Pruned(x, y) /\ TagsOf(y) = TagsOf(x) /\ y \in Document
  <2>1. Roomier(x, y)
    BY <1>8 DEF Roomier, Document
  <2> QED
    BY <2>1, RoomierPrunes DEF Roomier
<1>10. /\ doc' \in [Docs -> Document] /\ doc'[d] = y
       /\ \A e \in Docs \ {d} : doc'[e] = after[e]
  <2>1. y = [x EXCEPT !.undoCap = cap]
    BY <1>7, <1>8 DEF Document
  <2>2. doc' = [after EXCEPT ![d] = y]
    BY <1>1, <1>6, <2>1
  <2> QED
    BY <1>5, <1>9, <2>2
<1>11. \A e \in Docs : Pruned(doc[e], doc'[e]) /\ TagsOf(doc'[e]) = TagsOf(after[e])
  <2>1. Pruned(doc[d], y)
    BY <1>4, <1>5, <1>6, <1>9, PrunedTwice
  <2> QED
    BY <1>5, <1>6, <1>9, <1>10, <2>1
<1>12. \A h \in linked', e \in Docs : h \in TagsOf(doc[e]) => h \in TagsOf(doc'[e])
  BY <1>1, <1>11, UnlinkedAre
<1>13. DOMAIN group = GroupFields
  BY <1>2 DEF IInv, Shape, GroupFits
<1>14. group' = NoGroup \/ (/\ group'.members = group.members /\ group'.peers = group.peers
                            /\ group'.content = group.content /\ group'.cost = group.cost
                            /\ DOMAIN group' = GroupFields)
  BY <1>1, <1>13 DEF GroupFields
<1>15. GroupFits'
  BY <1>2, <1>14 DEF IInv, Shape, GroupFits
<1>16. JobInv'
  <2>1. Locked' \subseteq Locked
    BY <1>2, <1>3, <1>14 DEF Locked, NoGroup
  <2>2. \A e \in Docs : job[e] # Idle => e \notin Locked' /\ doc'[e] = doc[e]
    <3>1. \A e \in Docs : job[e] # Idle => e \notin Locked
      BY DEF IInv, JobInv
    <3> QED
      BY <1>2, <1>3, <1>5, <1>10, <2>1, <3>1
  <2>3. Len(members) + 1 \notin DOMAIN members /\ Len(members) + 1 # None
    BY NextTag
  <2>4. linked' \subseteq linked \cup {Len(members) + 1}
    BY <1>1
  <2> QED
    BY <1>2, <2>2, <2>3, <2>4, WorkersApart
<1>17. job' \in [Docs -> Jobs] /\ linked' \subseteq linked
  BY <1>1, <1>2 DEF IInv, Shape
<1>18. \A e \in Docs \ split : job'[e].kind = "edit" => job'[e].boundary = view[e].boundary[1]
  BY <1>2 DEF IInv, SealedInv
<1> QED
  BY <1>2, <1>10, <1>11, <1>12, <1>15, <1>16, <1>17, <1>18, ForgetKeeps, ZenonT(60)

(* The place of a member in its group.                                     *)
LEMMA RankIs ==
    ASSUME IInv, group # NoGroup, NEW d \in group.members
    PROVE  /\ Rank(d) \in Nat /\ Rank(d) >= 1
           /\ Rank(d) <= Cardinality(group.members) /\ Cardinality(group.members) \in Nat
<1>1. group.members \subseteq 1..NumDocs /\ NumDocs \in Nat
  BY ConstantsAssumption DEF IInv, Shape, GroupFits, Docs
<1>2. IsFiniteSet(group.members)
  BY <1>1, FS_Interval, FS_Subset
<1>3. PICK S : S = {e \in group.members : e <= d}
  OBVIOUS
<1>4. S \subseteq group.members /\ d \in S
  BY <1>1, <1>3
<1>5. /\ IsFiniteSet(S) /\ Cardinality(S) <= Cardinality(group.members)
      /\ Cardinality(S) \in Nat /\ Cardinality(group.members) \in Nat
  BY <1>2, <1>4, FS_Subset, FS_CardinalityType
<1>6. Cardinality(S) # 0
  BY <1>4, <1>5, FS_EmptySet
<1> QED
  BY <1>3, <1>5, <1>6 DEF Rank

(* What the group's commit does to a member.                               *)
LEMMA CommittedIs ==
    ASSUME IInv, group # NoGroup, NEW d \in group.members, NEW y, y = Committed(d)
    PROVE  /\ Evolves(doc[d], y, NewTag, unique, 0) /\ Sided(doc[d], y, NewTag)
           /\ y.state = unique + Rank(d) /\ Rewrites(d, doc[d], y)
<1>1. d \in Docs /\ group.content[d] \in Contents /\ group.cost[d] \in Nat
  BY DEF IInv, Shape, GroupFits
<1>2. PICK c \in Contents : c = group.content[d]
  BY <1>1
<1>3. doc[d] \in Document /\ unique \in Nat
  BY <1>1, DocumentFacts
<1>4. PICK s \in Nat : s = unique + Rank(d) /\ s > unique
  BY <1>3, RankIs
<1>5. PICK t \in Nat : t = NewTag /\ t \notin DOMAIN members
  BY NextTag DEF NewTag
<1>6. PICK k \in Nat : k = group.cost[d]
  BY <1>1
<1>7. PICK x \in Document : x = doc[d]
  BY <1>3
<1>8. PICK e : e = GroupEntry(d)
  OBVIOUS
<1>9. e = [before |-> x.content, after |-> c, beforeState |-> x.state, afterState |-> s, seq |-> s,
           tag |-> t, cost |-> k, typing |-> FALSE, boundary |-> 0]
  BY <1>2, <1>4, <1>5, <1>6, <1>7, <1>8 DEF GroupEntry
<1>10. x.content \in Contents /\ x.state \in Nat
  BY DEF Document
<1>11. /\ e \in Entry /\ e.before = x.content /\ e.beforeState = x.state
       /\ e.after = c /\ e.afterState = s /\ e.seq = s /\ e.tag = t /\ e.boundary \in {0, 0}
  BY <1>9, <1>10 DEF Entry
<1>12. Pruned(x, x)
  BY PrunedNone
<1>13. y = Trim(Pushed(Moved(x, c, s), e))
  BY <1>2, <1>4, <1>7, <1>8 DEF Committed
<1>14. /\ Evolves(doc[d], y, t, unique, 0) /\ Sided(doc[d], y, t)
       /\ y.state = s /\ Rewrites(d, doc[d], y)
  <2>1. PICK r, b : r = x /\ b = 0
    OBVIOUS
  <2>2. /\ r.undo = doc[d].undo /\ r.redo = doc[d].redo /\ Pruned(doc[d], r)
        /\ e.before = doc[d].content /\ e.beforeState = doc[d].state
        /\ y = Trim(Pushed(Moved(r, c, s), e)) /\ e.boundary \in {0, b}
        /\ s > unique /\ t \notin DOMAIN members /\ d \in Docs
    BY <1>1, <1>4, <1>5, <1>7, <1>11, <1>12, <1>13, <2>1
  <2>3. /\ Evolves(doc[d], y, t, unique, b) /\ Sided(doc[d], y, t)
        /\ y.state = s /\ Rewrites(d, doc[d], y)
    BY <1>11, <2>2, PushRewrites
  <2> QED
    BY <2>1, <2>3
<1> QED
  BY <1>4, <1>5, <1>14

(* What forgets of nothing is nothing.                                     *)
LEMMA PrunedEmpty ==
    ASSUME NEW z \in Document, NEW y, Pruned(z, y), z.redo = <<>>
    PROVE  y.redo = <<>>
<1>1. PICK n \in Nat : Cut(z.redo, y.redo, n)
  BY DEF Pruned
<1>2. Len(z.redo) = 0
  BY EmptySeq
<1>3. y.redo \in Seq(Entry) /\ Len(y.redo) \in Nat
  BY DEF Pruned, Document
<1>4. Len(y.redo) = 0
  BY <1>1, <1>2, <1>3 DEF Cut
<1> QED
  BY <1>3, <1>4, EmptySeq

(* A group commits.                                                        *)
LEMMA CommitGroupKeeps ==
    ASSUME IInv, CommitGroup, UNCHANGED <<open, split>>
    PROVE  IInv' /\ Visible
<1>1. /\ group # NoGroup /\ group' = NoGroup
      /\ doc' = [d \in Docs |-> IF d \in group.members THEN Committed(d) ELSE doc[d]]
      /\ members' = Append(members, group.members)
      /\ unique' = unique + Cardinality(group.members)
      /\ UNCHANGED <<open, split, job, save, view, disk>>
  BY DEF CommitGroup, SaveVars
<1>2. \/ linked' = linked \ Unlinked(doc, doc')
      \/ /\ linked' = (linked \ Unlinked(doc, doc')) \cup {NewTag}
         /\ \A d \in group.members : NewTag \in TagsOf(doc'[d])
  BY DEF CommitGroup
<1>3. PICK t : t = NewTag
  OBVIOUS
<1>4. /\ t = Len(members) + 1 /\ t \in Nat /\ t \notin DOMAIN members /\ t # None
  BY <1>3, NextTag DEF NewTag
<1>5. group.members \subseteq Docs /\ group.members # {}
  BY <1>1 DEF IInv, Shape, GroupFits
<1>6. \A d \in Docs : doc'[d] = IF d \in group.members THEN Committed(d) ELSE doc[d]
  BY <1>1
<1>7. PICK n \in Nat : n = Cardinality(group.members)
  BY <1>1, <1>5, RankIs
<1>8. unique \in Nat /\ unique' = unique + n /\ unique' \in Nat /\ unique' >= unique
  BY <1>1, <1>7 DEF IInv, Shape
<1>9. ASSUME NEW d \in group.members
      PROVE  /\ Evolves(doc[d], doc'[d], t, unique, 0) /\ Sided(doc[d], doc'[d], t)
             /\ doc'[d].state <= unique' /\ Rewrites(d, doc[d], doc'[d])
  <2>1. doc'[d] = Committed(d)
    BY <1>5, <1>6
  <2>2. /\ Evolves(doc[d], doc'[d], t, unique, 0) /\ Sided(doc[d], doc'[d], t)
        /\ doc'[d].state = unique + Rank(d) /\ Rewrites(d, doc[d], doc'[d])
    BY <1>1, <1>3, <2>1, CommittedIs
  <2>3. Rank(d) \in Nat /\ Rank(d) <= n
    BY <1>1, <1>7, RankIs
  <2> QED
    BY <1>8, <2>2, <2>3
<1>10. ASSUME NEW d \in Docs \ group.members
       PROVE  /\ Evolves(doc[d], doc'[d], t, unique, 0) /\ Sided(doc[d], doc'[d], t)
              /\ doc'[d].state <= unique' /\ Pruned(doc[d], doc'[d]) /\ doc'[d] = doc[d]
  <2>1. doc'[d] = doc[d] /\ doc[d] \in Document /\ Good(doc[d]) /\ doc[d].state <= unique
    BY <1>6, DocumentFacts
  <2>2. Pruned(doc[d], doc'[d])
    BY <2>1, PrunedNone
  <2>3. Evolves(doc[d], doc'[d], t, unique, 0) /\ Sided(doc[d], doc'[d], t)
    BY <2>1, <2>2, PrunedEvolves
  <2>4. doc[d].state \in Nat
    BY <2>1 DEF Document
  <2> QED
    BY <1>8, <2>1, <2>2, <2>3, <2>4
<1>11. doc' \in [Docs -> Document]
  <2>1. \A d \in Docs : doc'[d] \in Document
    BY <1>9, <1>10 DEF Evolves
  <2> QED
    BY <1>1, <2>1
<1>12. PICK b : b = [d \in Docs |-> 0]
  OBVIOUS
<1>13. HistoryStep(t, t, b)
  <2>1. \A d \in Docs : /\ Evolves(doc[d], doc'[d], t, unique, b[d])
                        /\ Sided(doc[d], doc'[d], t)
                        /\ doc'[d].state <= unique'
    BY <1>9, <1>10, <1>12
  <2>2. \E ds \in SUBSET Docs : /\ t = Len(members) + 1 /\ members' = Append(members, ds)
                                /\ \A d \in Docs \ ds : doc'[d] = doc[d]
    BY <1>1, <1>4, <1>5, <1>10
  <2> QED
    BY <1>8, <1>11, <2>1, <2>2 DEF HistoryStep
<1>14. Visible
  <2>1. Moves(group.members)
    BY <1>9, <1>10 DEF Moves
  <2> QED
    BY <1>5, <1>11, <2>1 DEF Visible
<1>15. /\ members \in Seq(SUBSET Docs) /\ linked \subseteq DOMAIN members
       /\ DOMAIN members = 1..Len(members)
  BY DEF IInv, Shape
<1>16. DOMAIN members' = 1..(Len(members) + 1) /\ members'[t] = group.members
  <2>1. /\ members' \in Seq(SUBSET Docs) /\ Len(members') = Len(members) + 1
        /\ members'[Len(members) + 1] = group.members
    BY <1>1, <1>5, <1>15, AppendProperties
  <2> QED
    BY <1>4, <2>1
<1>17. linked' \subseteq linked \cup {t} /\ linked' \subseteq DOMAIN members'
  <2>1. Len(members) \in Nat
    BY NextTag
  <2>2. linked' \subseteq linked \cup {t}
    BY <1>2, <1>3
  <2> QED
    BY <1>4, <1>15, <1>16, <2>1, <2>2
<1>18. \A h \in linked', d \in Docs : h # t /\ h \in TagsOf(doc[d]) => h \in TagsOf(doc'[d])
  <2>1. ASSUME NEW h \in linked', NEW d \in Docs, h # t, h \in TagsOf(doc[d])
        PROVE  h \in TagsOf(doc'[d])
    <3>1. h \notin Unlinked(doc, doc')
      BY <1>2, <1>3, <2>1
    <3> QED
      BY <2>1, <3>1, UnlinkedAre
  <2> QED
    BY <2>1
<1>19. t \in linked' => \A d \in members'[t] : OnUndo(doc'[d], t)
  <2>1. SUFFICES ASSUME t \in linked', NEW d \in group.members
                 PROVE  OnUndo(doc'[d], t)
    BY <1>16
  <2>2. t \in TagsOf(doc'[d])
    BY <1>2, <1>3, <1>4, <1>15, <2>1
  <2>3. doc'[d].redo = <<>>
    <3>1. PICK z \in Document : (Adds(doc[d], z) \/ Joins(doc[d], z)) /\ Pruned(z, doc'[d])
      BY <1>9 DEF Rewrites
    <3>2. z.redo = <<>>
      BY <3>1 DEF Adds, Joins
    <3>3. doc'[d] \in Document
      BY <1>5, <1>11
    <3> QED
      BY <3>1, <3>2, <3>3, PrunedEmpty
  <2>4. ~OnRedo(doc'[d], t)
    BY <2>3 DEF OnRedo
  <2> QED
    BY <2>2, <2>4, TagSide
<1>20. GroupFits'
  BY <1>1 DEF GroupFits
<1>21. JobInv'
  <2>1. Locked' = {}
    BY <1>1 DEF Locked, NoGroup
  <2>2. \A d \in Docs : job[d] # Idle => d \notin Locked
    BY DEF IInv, JobInv
  <2>3. \A d \in Docs : job[d] # Idle => d \notin Locked' /\ doc'[d] = doc[d]
    BY <1>10, <2>1, <2>2 DEF Locked
  <2> QED
    BY <1>1, <1>4, <1>17, <2>3, WorkersApart
<1>22. job' \in [Docs -> Jobs]
  BY <1>1 DEF IInv, Shape
<1>23. \A d \in Docs \ split :
         /\ b[d] \in {0, view[d].boundary[1]}
         /\ job'[d].kind = "edit" => job'[d].boundary = view[d].boundary[1]
  BY <1>1, <1>12 DEF IInv, SealedInv
<1>24. IInv'
  <2>1. t \in linked' /\ t # None => \/ \A d \in members'[t] : OnUndo(doc'[d], t)
                                     \/ \A d \in members'[t] : OnRedo(doc'[d], t)
    BY <1>19
  <2>2. UNCHANGED <<open, split, save, view, disk>>
    BY <1>1
  <2> QED
    BY <1>4, <1>13, <1>17, <1>18, <1>20, <1>21, <1>22, <1>23, <2>1, <2>2, WorkersKeep
<1> QED
  BY <1>14, <1>24

(* Undo and redo keep every tag.                                           *)
LEMMA MovesKeepTags ==
    ASSUME NEW x \in Document, NEW y, TakesBack(x, y) \/ TakesForward(x, y), NEW h, h \in TagsOf(x)
    PROVE  h \in TagsOf(y)
<1>1. PICK n \in Nat, m \in Nat :
        n = Len(x.undo) /\ m = Len(x.redo) /\ DOMAIN x.undo = 1..n /\ DOMAIN x.redo = 1..m
  BY EntriesAre
<1>2. y \in Document
  BY DEF TakesBack, TakesForward
<1>3. PICK k \in Nat, l \in Nat :
        k = Len(y.undo) /\ l = Len(y.redo) /\ DOMAIN y.undo = 1..k /\ DOMAIN y.redo = 1..l
  BY <1>2, EntriesAre
<1>4. h \in {x.undo[i].tag : i \in 1..n} \cup {x.redo[i].tag : i \in 1..m}
  BY <1>1 DEF TagsOf, EntriesOf
<1>5. SUFFICES (\E i \in 1..k : y.undo[i].tag = h) \/ (\E i \in 1..l : y.redo[i].tag = h)
  BY <1>3 DEF TagsOf, EntriesOf
<1>6. CASE TakesBack(x, y)
  <2>1. /\ k = n - 1 /\ l = m + 1
        /\ \A i \in 1..k : y.undo[i].tag = x.undo[i].tag
        /\ \A i \in 1..m : y.redo[i].tag = x.redo[i].tag
        /\ y.redo[l].tag = x.undo[n].tag
    BY <1>1, <1>3, <1>6 DEF TakesBack, Like
  <2> QED
    BY <1>4, <2>1
<1>7. CASE TakesForward(x, y)
  <2>1. /\ l = m - 1 /\ k = n + 1
        /\ \A i \in 1..l : y.redo[i].tag = x.redo[i].tag
        /\ \A i \in 1..n : y.undo[i].tag = x.undo[i].tag
        /\ y.undo[k].tag = x.redo[m].tag
    BY <1>1, <1>3, <1>7 DEF TakesForward, Like
  <2> QED
    BY <1>4, <2>1
<1> QED
  BY <1>6, <1>7

(* A document that moves shows what it has known.                          *)
LEMMA MovesShowOld ==
    ASSUME IInv, NEW d \in Docs, NEW y, TakesBack(doc[d], y) \/ TakesForward(doc[d], y)
    PROVE  y.state <= unique
<1>1. PICK x \in Document : x = doc[d]
  BY DocumentFacts
<1>2. PICK n : n = Len(x.undo)
  OBVIOUS
<1>3. PICK m : m = Len(x.redo)
  OBVIOUS
<1>4. CASE TakesBack(x, y)
  <2>1. y.state = x.undo[n].beforeState /\ x.undo # <<>>
    BY <1>2, <1>4 DEF TakesBack
  <2>2. x.undo[n] \in EntriesOf(x)
    BY <1>2, <2>1, TopOf DEF EntriesOf, Document
  <2> QED
    BY <1>1, <2>1, <2>2 DEF IInv, StackInv, EntryFits
<1>5. CASE TakesForward(x, y)
  <2>1. y.state = x.redo[m].afterState /\ x.redo # <<>>
    BY <1>3, <1>5 DEF TakesForward
  <2>2. x.redo[m] \in EntriesOf(x)
    BY <1>3, <2>1, TopOf DEF EntriesOf, Document
  <2> QED
    BY <1>1, <2>1, <2>2 DEF IInv, StackInv, EntryFits
<1> QED
  BY <1>1, <1>4, <1>5

(* What a group's move does to a member.                                   *)
LEMMA GroupMoves ==
    ASSUME IInv, NEW g \in DOMAIN members, NEW kind \in {"undo", "redo"}, MovableGroup(g, kind),
           NEW d \in members[g], d \in Docs, NEW y,
           y = IF kind = "undo" THEN GroupUndone(doc[d]) ELSE GroupRedone(doc[d]), NEW u, NEW b
    PROVE  /\ Evolves(doc[d], y, None, u, b) /\ Sided(doc[d], y, g)
           /\ kind = "undo" => TakesBack(doc[d], y) /\ OnRedo(y, g)
           /\ kind = "redo" => TakesForward(doc[d], y) /\ OnUndo(y, g)
<1>1. PICK x \in Document : x = doc[d] /\ Good(x)
  BY DocumentFacts
<1>2. CASE kind = "undo"
  <2>1. x.undo # <<>> /\ x.undo[Len(x.undo)].tag = g
    BY <1>1, <1>2 DEF MovableGroup
  <2>2. TakesBack(x, y)
    BY <1>1, <1>2, <2>1, GroupUndoneIs
  <2> QED
    BY <1>1, <1>2, <2>1, <2>2, TakesBackEvolves
<1>3. CASE kind = "redo"
  <2>1. x.redo # <<>> /\ x.redo[Len(x.redo)].tag = g
    BY <1>1, <1>3 DEF MovableGroup
  <2>2. TakesForward(x, y)
    BY <1>1, <1>3, <2>1, GroupRedoneIs
  <2> QED
    BY <1>1, <1>3, <2>1, <2>2, TakesForwardEvolves
<1> QED
  BY <1>2, <1>3

(* A group is undone or redone.                                            *)
LEMMA MoveGroupKeeps ==
    ASSUME IInv, NEW g, NEW kind \in {"undo", "redo"}, MoveGroup(g, kind),
           UNCHANGED <<open, split>>
    PROVE  IInv' /\ Visible
<1>1. /\ g \in DOMAIN members /\ MovableGroup(g, kind) /\ g \in linked
      /\ \A d \in members[g] : Free(d)
      /\ doc' = [d \in Docs |-> IF d \notin members[g] THEN doc[d]
                                ELSE IF kind = "undo" THEN GroupUndone(doc[d])
                                                      ELSE GroupRedone(doc[d])]
      /\ UNCHANGED <<open, split, job, group, linked, members, unique, save, view, disk>>
  BY DEF MoveGroup, MovableGroup, SaveVars, GroupVars
<1>2. /\ members \in Seq(SUBSET Docs) /\ linked \subseteq DOMAIN members /\ unique \in Nat
  BY DEF IInv, Shape
<1>3. members[g] \subseteq Docs
  BY <1>1, <1>2
<1>4. g # None
  BY <1>1, NextTag
<1>5. ASSUME NEW d \in Docs, d \in members[g]
      PROVE  /\ Evolves(doc[d], doc'[d], None, unique, 0) /\ Sided(doc[d], doc'[d], g)
             /\ kind = "undo" => TakesBack(doc[d], doc'[d]) /\ OnRedo(doc'[d], g)
             /\ kind = "redo" => TakesForward(doc[d], doc'[d]) /\ OnUndo(doc'[d], g)
             /\ doc'[d].state <= unique
             /\ \A h \in TagsOf(doc[d]) : h \in TagsOf(doc'[d])
  <2>1. doc'[d] = IF kind = "undo" THEN GroupUndone(doc[d]) ELSE GroupRedone(doc[d])
    BY <1>1, <1>5
  <2>2. /\ Evolves(doc[d], doc'[d], None, unique, 0) /\ Sided(doc[d], doc'[d], g)
        /\ kind = "undo" => TakesBack(doc[d], doc'[d]) /\ OnRedo(doc'[d], g)
        /\ kind = "redo" => TakesForward(doc[d], doc'[d]) /\ OnUndo(doc'[d], g)
    BY <1>1, <1>5, <2>1, GroupMoves
  <2>3. doc[d] \in Document
    BY DocumentFacts
  <2>4. doc'[d].state <= unique
    BY <2>2, MovesShowOld
  <2>5. \A h \in TagsOf(doc[d]) : h \in TagsOf(doc'[d])
    BY <2>2, <2>3, MovesKeepTags
  <2> QED
    BY <2>2, <2>4, <2>5
<1>6. ASSUME NEW d \in Docs, d \notin members[g]
      PROVE  /\ Evolves(doc[d], doc'[d], None, unique, 0) /\ Sided(doc[d], doc'[d], g)
             /\ doc'[d].state <= unique /\ Pruned(doc[d], doc'[d]) /\ doc'[d] = doc[d]
  <2>1. doc'[d] = doc[d] /\ doc[d] \in Document /\ Good(doc[d]) /\ doc[d].state <= unique
    BY <1>1, <1>6, DocumentFacts
  <2>2. Pruned(doc[d], doc'[d])
    BY <2>1, PrunedNone
  <2> QED
    BY <2>1, <2>2, PrunedEvolves
<1>7. doc' \in [Docs -> Document]
  <2>1. \A d \in Docs : doc'[d] \in Document
    BY <1>5, <1>6 DEF Evolves
  <2> QED
    BY <1>1, <2>1
<1>8. PICK b : b = [d \in Docs |-> 0]
  OBVIOUS
<1>9. HistoryStep(g, None, b)
  <2>1. \A d \in Docs : /\ Evolves(doc[d], doc'[d], None, unique, b[d])
                        /\ Sided(doc[d], doc'[d], g)
                        /\ doc'[d].state <= unique'
    BY <1>1, <1>5, <1>6, <1>8
  <2> QED
    BY <1>1, <1>2, <1>7, <2>1 DEF HistoryStep
<1>10. Visible
  <2>1. Moves(members[g])
    BY <1>3, <1>5, <1>6 DEF Moves
  <2> QED
    BY <1>3, <1>7, <2>1 DEF Visible
<1>11. \A h \in linked', d \in Docs : h # g /\ h \in TagsOf(doc[d]) => h \in TagsOf(doc'[d])
  BY <1>5, <1>6
<1>12. \/ \A d \in members'[g] : OnUndo(doc'[d], g)
       \/ \A d \in members'[g] : OnRedo(doc'[d], g)
  BY <1>1, <1>3, <1>5
<1>13. GroupFits'
  BY <1>1 DEF IInv, Shape, GroupFits
<1>14. JobInv'
  <2>1. \A d \in Docs : job[d] # Idle => d \notin Locked' /\ doc'[d] = doc[d]
    <3>1. \A d \in Docs : job[d] # Idle => d \notin Locked /\ d \notin members[g]
      BY <1>1 DEF IInv, JobInv, Free
    <3> QED
      BY <1>1, <1>6, <3>1 DEF Locked
  <2>2. NewTag \notin DOMAIN members /\ NewTag # None
    BY NextTag DEF NewTag
  <2>3. linked' \subseteq linked \cup {NewTag}
    BY <1>1
  <2> QED
    BY <1>1, <2>1, <2>2, <2>3, WorkersApart
<1>15. job' \in [Docs -> Jobs] /\ linked' \subseteq DOMAIN members' /\ linked' \subseteq linked \cup {g}
  BY <1>1 DEF IInv, Shape
<1>16. \A d \in Docs \ split :
         /\ b[d] \in {0, view[d].boundary[1]}
         /\ job'[d].kind = "edit" => job'[d].boundary = view[d].boundary[1]
  BY <1>1, <1>8 DEF IInv, SealedInv
<1>17. IInv'
  <2>1. g \in linked' /\ g # None => \/ \A d \in members'[g] : OnUndo(doc'[d], g)
                                     \/ \A d \in members'[g] : OnRedo(doc'[d], g)
    BY <1>12
  <2>2. UNCHANGED <<open, split, save, view, disk>>
    BY <1>1
  <2> QED
    BY <1>4, <1>9, <1>11, <1>13, <1>14, <1>15, <1>16, <2>1, <2>2, WorkersKeep
<1> QED
  BY <1>10, <1>17

(* A refused group move leaves slots behind.                               *)
LEMMA RefuseGroupMoveKeeps ==
    ASSUME IInv, NEW g, NEW kind \in {"undo", "redo"}, NEW k, RefuseGroupMove(g, kind, k),
           UNCHANGED <<open, split>>
    PROVE  IInv' /\ Visible
<1>1. /\ g \in DOMAIN members /\ g \in linked /\ \A d \in members[g] : Free(d)
      /\ UNCHANGED <<open, split, job, group, linked, members, unique, save, view, disk>>
  BY DEF RefuseGroupMove, MovableGroup, SaveVars, GroupVars
<1>2. /\ DOMAIN doc' = Docs
      /\ \A d \in Docs :
           \/ doc'[d] = doc[d]
           \/ /\ d \in members[g]
              /\ \/ doc'[d] = [doc[d] EXCEPT !.redoCap = Grown(Len(doc[d].redo), @)]
                 \/ doc'[d] = [doc[d] EXCEPT !.undoCap = Grown(Len(doc[d].undo), @)]
  BY DEF RefuseGroupMove
<1>3. ASSUME NEW d \in Docs
      PROVE  /\ doc'[d] \in Document /\ Pruned(doc[d], doc'[d]) /\ TagsOf(doc'[d]) = TagsOf(doc[d])
             /\ d \notin members[g] => doc'[d] = doc[d]
  <2>1. PICK x \in Document : x = doc[d]
    BY DocumentFacts
  <2>2. PICK y : y = doc'[d]
    OBVIOUS
  <2>3. Len(x.undo) \in Nat /\ Len(x.redo) \in Nat /\ x.undoCap \in Nat /\ x.redoCap \in Nat
    BY DEF Document
  <2>4. PICK m \in Nat, n \in Nat :
          m = Grown(Len(x.redo), x.redoCap) /\ n = Grown(Len(x.undo), x.undoCap)
    BY <2>3, GrownIsNat
  <2>5. y = x \/ y = [x EXCEPT !.redoCap = m] \/ y = [x EXCEPT !.undoCap = n]
    BY <1>2, <2>1, <2>2, <2>4
  <2>6. Roomier(x, y)
    BY <2>5 DEF Roomier, Document
  <2>7. Pruned(x, y) /\ TagsOf(y) = TagsOf(x)
    BY <2>6, RoomierPrunes
  <2> QED
    BY <1>2, <2>1, <2>2, <2>6, <2>7 DEF Roomier
<1>4. doc' \in [Docs -> Document] /\ \A d \in Docs : Pruned(doc[d], doc'[d])
  <2>1. doc' = [d \in Docs |-> doc'[d]]
    BY DEF RefuseGroupMove
  <2> QED
    BY <1>3, <2>1
<1>5. \A h \in linked', d \in Docs : h \in TagsOf(doc[d]) => h \in TagsOf(doc'[d])
  BY <1>3
<1>6. GroupFits'
  BY <1>1 DEF IInv, Shape, GroupFits
<1>7. JobInv'
  <2>1. \A d \in Docs : job[d] # Idle => d \notin Locked' /\ doc'[d] = doc[d]
    <3>1. \A d \in Docs : job[d] # Idle => d \notin Locked /\ d \notin members[g]
      BY <1>1 DEF IInv, JobInv, Free
    <3> QED
      BY <1>1, <1>3, <3>1 DEF Locked
  <2>2. NewTag \notin DOMAIN members /\ NewTag # None
    BY NextTag DEF NewTag
  <2>3. linked' \subseteq linked \cup {NewTag}
    BY <1>1
  <2> QED
    BY <1>1, <2>1, <2>2, <2>3, WorkersApart
<1>8. job' \in [Docs -> Jobs] /\ linked' \subseteq linked
  BY <1>1 DEF IInv, Shape
<1>9. \A d \in Docs \ split : job'[d].kind = "edit" => job'[d].boundary = view[d].boundary[1]
  BY <1>1 DEF IInv, SealedInv
<1> QED
  BY <1>1, <1>4, <1>5, <1>6, <1>7, <1>8, <1>9, ForgetKeeps, ZenonT(60)

-----------------------------------------------------------------------------
(* Every step keeps the invariant and is a step that a user can see.       *)
LEMMA StepKeeps ==
    ASSUME IInv, Next
    PROVE  IInv' /\ Visible
<1>1. UNCHANGED <<open, split>> /\ open \subseteq Docs
  BY DEF Next, IInv, Shape
<1>2. CASE MutateGroup
  <2>1. CASE \E ds \in SUBSET open :
               \E content \in [ds -> ContentsUsed], cost \in [ds -> CostsUsed] :
                 BeginGroupEdit(ds, content, cost)
    BY <1>1, <2>1, BeginGroupEditKeeps
  <2>2. CASE CommitGroup
    BY <1>1, <2>2, CommitGroupKeeps
  <2>3. CASE \E d \in Docs : ChargeMember(d)
    BY <1>1, <2>3, ChargeMemberKeeps
  <2>4. CASE \E g \in 1..MaxUnique, kind \in {"undo", "redo"} : MoveGroup(g, kind)
    BY <1>1, <2>4, MoveGroupKeeps
  <2>5. CASE \E g \in 1..MaxUnique, kind \in {"undo", "redo"}, d \in open :
               RefuseGroupMove(g, kind, d)
    BY <1>1, <2>5, RefuseGroupMoveKeeps
  <2> QED
    BY <1>2, <2>1, <2>2, <2>3, <2>4, <2>5, Zenon DEF MutateGroup, GroupStep
<1>3. ASSUME NEW d \in Docs, Mutate(d)
      PROVE  IInv' /\ Visible
  <2>1. CASE \E content \in ContentsUsed, cost \in CostsUsed, typing, follows \in BOOLEAN :
               BeginEdit(d, content, typing, follows, cost)
    BY <1>1, <2>1, BeginEditKeeps
  <2>2. CASE \E content \in ContentsUsed, cost \in CostsUsed : BeginMetadata(d, content, cost)
    BY <1>1, <2>2, BeginMetadataKeeps
  <2>3. CASE \E kind \in {"undo", "redo"} : BeginMove(d, kind)
    BY <1>1, <2>3, BeginMoveKeeps
  <2>4. CASE WorkerStep(d)
    BY <1>1, <2>4, RelieveKeeps, CommitEditKeeps, RetryReliefKeeps, EvictOwnKeeps,
       CommitUntrackedKeeps, FinishMetadataKeeps, FinishMoveKeeps, RefuseMoveKeeps DEF WorkerStep
  <2>5. CASE \E limit \in ChangeLimits : SetHistoryPolicy(d, limit)
    BY <1>1, <2>5, SetHistoryPolicyKeeps
  <2>6. CASE StartSave(d) \/ SaveFails(d) \/ SaveWritten(d) \/ MarkSaved(d)
    BY <1>1, <2>6, StartSaveKeeps, SaveFailsKeeps, SaveWrittenKeeps, MarkSavedKeeps
  <2>7. CASE \E pane \in Panes(d) : Activate(d, pane)
    BY <1>1, <2>7, ActivateKeeps
  <2> QED
    BY <1>3, <2>1, <2>2, <2>3, <2>4, <2>5, <2>6, <2>7, Zenon DEF Mutate
<1> QED
  BY <1>1, <1>2, <1>3 DEF Next

(* A finite set of numbers has a greatest one: the smallest set without    *)
(* one would have one that lacks it.                                       *)
LEMMA GreatestOf ==
    ASSUME NEW S, S \subseteq Nat, S # {}, IsFiniteSet(S)
    PROVE  \E x \in S : \A y \in S : x >= y
<1> DEFINE Endless(T) == T \subseteq Nat /\ T # {} /\ IsFiniteSet(T) /\ ~ \E x \in T : \A y \in T : x >= y
           Sizes == {b \in Nat : \E T : Endless(T) /\ Cardinality(T) = b}
<1>1. SUFFICES ASSUME Endless(S) PROVE FALSE
  OBVIOUS
<1>2. Cardinality(S) \in Sizes
  BY <1>1, FS_CardinalityType
<1>3. PICK b \in Sizes : \A c \in Sizes : b <= c
  <2>1. Sizes \subseteq Nat /\ Sizes # {}
    BY <1>2
  <2> HIDE DEF Sizes
  <2> QED
    BY <2>1, LeastOf
<1>4. PICK T : Endless(T) /\ Cardinality(T) = b
  OBVIOUS
<1>5. PICK x \in T : x \in Nat
  BY <1>4
<1>6. PICK R : R = T \ {x}
  OBVIOUS
<1>7. IsFiniteSet(R) /\ Cardinality(R) = b - 1 /\ R \subseteq Nat /\ b \in Nat
  BY <1>4, <1>6, FS_RemoveElement
<1>8. R # {}
  <2>1. SUFFICES ASSUME R = {} PROVE FALSE
    OBVIOUS
  <2>2. \A y \in T : y = x
    BY <1>6, <2>1
  <2> QED
    BY <1>4, <1>5, <2>2
<1>9. ~Endless(R)
  <2>1. SUFFICES ASSUME Endless(R) PROVE FALSE
    OBVIOUS
  <2>2. Cardinality(R) \in Sizes
    BY <1>7, <2>1, FS_CardinalityType
  <2>3. b <= Cardinality(R)
    BY <1>3, <2>2
  <2> HIDE DEF Endless, Sizes
  <2> QED
    BY <1>7, <2>3
<1>10. PICK m \in R : \A y \in R : m >= y
  BY <1>7, <1>8, <1>9
<1>11. m \in Nat /\ m \in T /\ \A y \in T : y = x \/ m >= y
  BY <1>6, <1>7, <1>10
<1>12. CASE m >= x
  BY <1>4, <1>11, <1>12
<1>13. CASE ~(m >= x)
  <2>1. \A y \in T : y \in Nat
    BY <1>4
  <2>2. \A y \in T : x >= y
    BY <1>5, <1>11, <1>13, <2>1
  <2> QED
    BY <1>4, <2>2
<1> QED
  BY <1>12, <1>13

(* The documents as they are opened.                                       *)
LEMMA InitKeeps ==
    ASSUME Init
    PROVE  IInv
<1>1. NumDocs \in Nat /\ Docs = 1..NumDocs /\ Docs # {}
  BY ConstantsAssumption DEF Docs
<1>2. PICK limit \in Nat : limit = Max(ChangeLimits)
  <2>1. PICK L : L = ChangeLimits
    OBVIOUS
  <2>2. \E x \in L : \A y \in L : x >= y
    BY <2>1, ConstantsAssumption, GreatestOf
  <2>3. Max(L) = CHOOSE x \in L : \A y \in L : x >= y
    BY DEF Max
  <2>4. Max(L) \in L
    BY <2>2, <2>3
  <2> QED
    BY <2>1, <2>4, ConstantsAssumption
<1>3. Opened \in Contents
  BY InputsAre
<1>4. open \subseteq Docs /\ split \subseteq Docs
  BY <1>1 DEF Init
<1>5. ASSUME NEW d \in Docs
      PROVE  /\ doc[d] \in Document /\ doc[d].content = Opened /\ doc[d].state = d
             /\ doc[d].undo = <<>> /\ doc[d].redo = <<>>
             /\ EntriesOf(doc[d]) = {} /\ d \in Nat /\ d <= NumDocs
  <2>1. PICK x : x = doc[d]
    OBVIOUS
  <2>2. x = [content |-> Opened, state |-> d, revision |-> 0, saved |-> d,
             undo |-> <<>>, redo |-> <<>>, undoCap |-> 0, redoCap |-> 0, limit |-> limit]
    BY <1>2, <2>1 DEF Init
  <2>3. d \in Nat /\ d <= NumDocs
    BY <1>1
  <2>4. <<>> \in Seq(Entry)
    OBVIOUS
  <2>5. x \in Document /\ x.content = Opened /\ x.state = d /\ x.undo = <<>> /\ x.redo = <<>>
    BY <1>3, <2>2, <2>3, <2>4 DEF Document
  <2>6. EntriesOf(x) = {}
    BY <2>5 DEF EntriesOf
  <2> QED
    BY <2>1, <2>3, <2>5, <2>6
<1>6. ASSUME NEW d \in Docs
      PROVE  /\ job[d] = Idle /\ save[d] = NoSave /\ disk[d] = Opened /\ ViewFits(d)
             /\ view[d].active = 1 /\ view[d].savedState = d /\ view[d].unsent = None
  <2>1. view[d] = [active |-> 1, boundary |-> [p \in Panes(d) |-> p],
                   savedState |-> d, unsent |-> None, saves |-> 0]
    BY DEF Init
  <2>2. [p \in Panes(d) |-> p] \in [Panes(d) -> Nat \ {0}] /\ 1 \in Panes(d)
    BY DEF Panes
  <2>3. ViewFits(d)
    BY <1>5, <2>1, <2>2 DEF ViewFits, None
  <2> QED
    BY <2>1, <2>3 DEF Init
<1>7. group = NoGroup /\ linked = {} /\ members = <<>> /\ unique = NumDocs
  BY DEF Init
<1>8. Shape
  <2>1. doc \in [Docs -> Document]
    BY <1>5 DEF Init
  <2>2. job \in [Docs -> Jobs] /\ save \in [Docs -> Saves] /\ disk \in [Docs -> Contents]
    BY <1>3 DEF Init, Jobs, Saves
  <2>3. DOMAIN view = Docs
    BY DEF Init
  <2>4. members \in Seq(SUBSET Docs) /\ linked \subseteq DOMAIN members
    BY <1>7
  <2> QED
    BY <1>1, <1>4, <1>6, <1>7, <2>1, <2>2, <2>3, <2>4 DEF Shape, GroupFits
<1>9. StackInv
  <2>1. SUFFICES ASSUME NEW d \in Docs
                 PROVE  /\ Chain(doc[d]) /\ Sorted(doc[d]) /\ TaggedOnce(doc[d])
                        /\ doc[d].state <= unique /\ view[d].unsent <= unique
    BY <1>5 DEF StackInv
  <2>2. DOMAIN doc[d].undo = {} /\ DOMAIN doc[d].redo = {} /\ Len(doc[d].undo) = 0 /\ Len(doc[d].redo) = 0
    BY <1>5
  <2>3. Chain(doc[d])
    BY <1>5, <2>2 DEF Chain
  <2>4. Sorted(doc[d]) /\ TaggedOnce(doc[d])
    BY <2>2 DEF Sorted, TaggedOnce
  <2> QED
    BY <1>1, <1>5, <1>6, <1>7, <2>3, <2>4 DEF None
<1>10. SealedInv
  BY <1>5, <1>6 DEF SealedInv, Idle
<1>11. ContentInv
  <2>1. ASSUME NEW d \in Docs PROVE Known(d) = {<<d, Opened>>}
    BY <1>5, <1>6 DEF Known, Knows
  <2> QED
    BY <1>1, <1>5, <1>7, <2>1 DEF ContentInv, Agree
<1>12. JobInv
  BY <1>6 DEF JobInv, Idle
<1>13. LinkInv
  <2>1. \A d \in Docs : Marks(doc[d]) = {}
    BY <1>5 DEF Marks
  <2> QED
    BY <1>7, <2>1 DEF LinkInv, LinkedMoveTogether
<1> QED
  BY <1>8, <1>9, <1>10, <1>11, <1>12, <1>13 DEF IInv

(* Nothing changes.                                                        *)
LEMMA StutterKeeps ==
    ASSUME IInv, UNCHANGED vars
    PROVE  IInv'
<1>1. Shape' = Shape
  BY DEF vars, Shape, ViewFits, Panes, GroupFits
<1>2. StackInv' = StackInv
  BY DEF vars, StackInv
<1>3. SealedInv' = SealedInv
  BY DEF vars, SealedInv
<1>4. ContentInv' = ContentInv
  BY DEF vars, ContentInv, Known
<1>5. JobInv' = JobInv
  BY DEF vars, JobInv, Locked, TopLinked
<1>6. LinkInv' = LinkInv
  BY DEF vars, LinkInv, LinkedMoveTogether
<1> QED
  BY <1>1, <1>2, <1>3, <1>4, <1>5, <1>6 DEF IInv

(* What every step keeps: the documents and what is remembered of them     *)
(* have their shape, their entries are chains in the order they were       *)
(* written, a state is one content wherever it is remembered, and linked   *)
(* entries stay on one side with nothing between them.                     *)
THEOREM Inductive == Spec => []IInv
<1>1. Init => IInv
  BY InitKeeps
<1>2. IInv /\ [Next]_vars => IInv'
  BY StepKeeps, StutterKeeps
<1> QED
  BY <1>1, <1>2, PTL DEF Spec

(* The entries of a document form one chain of versions through the text   *)
(* it shows, whatever is merged, trimmed, evicted or moved with a group.   *)
THEOREM HistoryAlwaysChains == Spec => []HistoryChains
<1>1. IInv => HistoryChains
  <2>1. SUFFICES ASSUME IInv, NEW d \in Docs PROVE Chain(doc[d])
    BY DEF HistoryChains, Chain
  <2> QED
    BY <2>1 DEF IInv, StackInv
<1> QED
  BY <1>1, Inductive, PTL

(* A view without the unsaved mark shows what the last save wrote: a state *)
(* is one content wherever it is remembered, in the history, by a save or  *)
(* by the disk (complete_save, mark_saved).                                *)
THEOREM CleanAlwaysOnDisk == Spec => []CleanIsOnDisk
<1>1. IInv => CleanIsOnDisk
  <2>1. SUFFICES ASSUME IInv, NEW d \in Docs, view[d].savedState = doc[d].state
                 PROVE  doc[d].content = disk[d]
    BY DEF CleanIsOnDisk
  <2>2. <<doc[d].state, doc[d].content>> \in Known(d) /\ <<view[d].savedState, disk[d]>> \in Known(d)
    BY DEF Known, Knows
  <2>3. Agree(Known(d))
    BY <2>1 DEF IInv, ContentInv
  <2> QED
    BY <2>1, <2>2, <2>3 DEF Agree
<1> QED
  BY <1>1, Inductive, PTL

(* While a group is linked each member holds its entry, all on one side:   *)
(* trimming, eviction by other workers, single undo and refused groups     *)
(* never leave a member behind (group.rs, the tag all members share).      *)
THEOREM LinkedAlwaysMoveTogether == Spec => []LinkedMoveTogether
<1>1. IInv => LinkedMoveTogether
  BY DEF IInv, LinkInv
<1> QED
  BY <1>1, Inductive, PTL

(* The newest undo entry of all documents that can undo.                   *)
LEMMA NewestTop ==
    ASSUME IInv, \E d \in Docs : doc[d].undo # <<>>
    PROVE  \E d \in Docs :
             /\ doc[d].undo # <<>>
             /\ \A k \in Docs : doc[k].undo # <<>> =>
                  doc[d].undo[Len(doc[d].undo)].seq >= doc[k].undo[Len(doc[k].undo)].seq
<1> DEFINE Newest(d) == doc[d].undo[Len(doc[d].undo)].seq
           D == {d \in Docs : doc[d].undo # <<>>}
           S == {Newest(d) : d \in D}
<1>1. IsFiniteSet(D)
  <2>1. NumDocs \in Nat /\ Docs = 1..NumDocs
    BY ConstantsAssumption DEF Docs
  <2>2. IsFiniteSet(Docs) /\ D \subseteq Docs
    BY <2>1, FS_Interval
  <2> HIDE DEF D
  <2> QED
    BY <2>2, FS_Subset
<1>2. \A d \in D : Newest(d) \in Nat
  <2>1. SUFFICES ASSUME NEW d \in D PROVE Newest(d) \in Nat
    OBVIOUS
  <2>2. doc[d] \in Document /\ doc[d].undo # <<>>
    BY DocumentFacts
  <2>3. doc[d].undo[Len(doc[d].undo)] \in Entry
    BY <2>2, TopOf DEF Document
  <2> QED
    BY <2>3 DEF Entry
<1>3. S \subseteq Nat /\ S # {}
  BY <1>2
<1>4. IsFiniteSet(S)
  <2>1. PICK f : f = [d \in D |-> Newest(d)]
    OBVIOUS
  <2>2. f \in Surjection(D, S)
    <3> HIDE DEF D, Newest
    <3> QED
      BY <2>1 DEF Surjection
  <2> HIDE DEF D, S
  <2> QED
    BY <1>1, <2>2, FS_Surjection
<1>5. PICK x \in S : \A y \in S : x >= y
  <2> HIDE DEF S
  <2> QED
    BY <1>3, <1>4, GreatestOf
<1>6. PICK d \in D : x = Newest(d)
  OBVIOUS
<1> QED
  BY <1>5, <1>6

(* Some document can always undo, alone or with its group: the newest      *)
(* entry of all is on top of its stack, and if it is linked then so are    *)
(* its partners, for what is newer than a partner is newer than it.        *)
THEOREM UndoIsNeverStuck == Spec => []UndoNeverStuck
<1>1. ASSUME IInv, \E d \in Docs : doc[d].undo # <<>>,
             \A d \in Docs : doc[d].undo # <<>> => TopLinked(doc[d].undo)
      PROVE  \E g \in linked : MovableGroup(g, "undo")
  <2>1. PICK d \in Docs :
          /\ doc[d].undo # <<>>
          /\ \A k \in Docs : doc[k].undo # <<>> =>
               doc[d].undo[Len(doc[d].undo)].seq >= doc[k].undo[Len(doc[k].undo)].seq
    BY <1>1, NewestTop
  <2>2. PICK x \in Document : x = doc[d] /\ Good(x)
    BY <1>1, DocumentFacts
  <2>3. PICK n \in DOMAIN x.undo : n = Len(x.undo)
    BY <2>1, <2>2, TopOf DEF Document
  <2>4. PICK e \in Entry : e = x.undo[n]
    BY EntriesAre
  <2>5. PICK g : g = e.tag
    OBVIOUS
  <2>6. g \in linked
    BY <1>1, <2>1, <2>2, <2>3, <2>4, <2>5 DEF TopLinked
  <2>7. g # None /\ members \in Seq(SUBSET Docs) /\ g \in DOMAIN members
    BY <1>1, <2>6, NextTag DEF IInv, Shape
  <2>8. e \in EntriesOf(x)
    BY <2>3, <2>4 DEF EntriesOf
  <2>9. d \in members[g]
    BY <1>1, <2>2, <2>5, <2>7, <2>8 DEF IInv, StackInv, EntryFits
  <2>10. \A k \in members[g] : OnUndo(doc[k], g)
    <3>1. ~OnRedo(x, g)
      BY <2>2, <2>3, <2>4, <2>5, <2>7 DEF Good, TaggedOnce, OnRedo
    <3>2. \/ \A k \in members[g] : OnUndo(doc[k], g)
          \/ \A k \in members[g] : OnRedo(doc[k], g)
      BY <1>1, <2>6 DEF IInv, LinkInv, LinkedMoveTogether, OnUndo, OnRedo
    <3> QED
      BY <2>2, <2>9, <3>1, <3>2
  <2>11. ASSUME NEW k \in members[g]
         PROVE  doc[k].undo # <<>> /\ doc[k].undo[Len(doc[k].undo)].tag = g
    <3>1. k \in Docs
      BY <2>7
    <3>2. PICK y \in Document : y = doc[k] /\ Good(y)
      BY <1>1, <3>1, DocumentFacts
    <3>3. PICK i \in DOMAIN y.undo : y.undo[i].tag = g
      BY <2>10, <3>2 DEF OnUndo
    <3>4. PICK m \in Nat : m = Len(y.undo) /\ DOMAIN y.undo = 1..m
      BY EntriesAre
    <3>5. m \in DOMAIN y.undo /\ y.undo # <<>>
      BY <3>3, <3>4
    <3>6. PICK f \in Entry : f = y.undo[i]
      BY <3>3, EntriesAre
    <3>7. PICK h \in Entry : h = y.undo[m]
      BY <3>5, EntriesAre
    <3>8. f.seq \in Nat /\ h.seq \in Nat /\ e.seq \in Nat
      BY DEF Entry
    <3>9. e.seq >= h.seq
      BY <2>1, <2>2, <2>3, <2>4, <3>1, <3>2, <3>4, <3>5, <3>7
    <3>10. CASE i = m
      BY <3>2, <3>3, <3>4, <3>5, <3>10
    <3>11. CASE i # m
      <4>1. f.seq < h.seq
        BY <3>2, <3>3, <3>4, <3>5, <3>6, <3>7, <3>11 DEF Good, Sorted
      <4>2. h.tag # g
        BY <2>7, <3>2, <3>3, <3>5, <3>7, <3>11 DEF Good, TaggedOnce
      <4>3. /\ <<f.seq, f.tag>> \in Marks(y) /\ <<h.seq, h.tag>> \in Marks(y)
            /\ <<e.seq, e.tag>> \in Marks(x)
        BY <2>8, <3>3, <3>5, <3>6, <3>7 DEF Marks, EntriesOf
      <4>4. PICK M : M = UNION {Marks(doc[j]) : j \in Docs}
        OBVIOUS
      <4>5. <<f.seq, f.tag>> \in M /\ <<h.seq, h.tag>> \in M /\ <<e.seq, e.tag>> \in M
        BY <2>2, <3>1, <3>2, <4>3, <4>4
      <4>6. \A p, q, j \in M :
              p[2] = q[2] /\ p[2] # None /\ j[2] # p[2] /\ j[1] > p[1] => j[1] > q[1]
        BY <1>1, <4>4 DEF IInv, LinkInv
      <4>7. f.tag = g
        BY <3>3, <3>6
      <4>8. PICK p, q, j : p = <<f.seq, f.tag>> /\ q = <<e.seq, e.tag>> /\ j = <<h.seq, h.tag>>
        OBVIOUS
      <4>9. p[2] = q[2] /\ p[2] # None /\ j[2] # p[2] /\ j[1] > p[1]
        BY <2>5, <2>7, <3>8, <4>1, <4>2, <4>7, <4>8
      <4>10. h.seq > e.seq
        BY <4>5, <4>6, <4>8, <4>9
      <4> QED
        BY <3>8, <3>9, <4>10
    <3> QED
      BY <3>10, <3>11
  <2>12. MovableGroup(g, "undo")
    BY <2>6, <2>11 DEF MovableGroup
  <2> QED
    BY <2>6, <2>12
<1>2. IInv => UndoNeverStuck
  BY <1>1 DEF UndoNeverStuck
<1> QED
  BY <1>2, Inductive, PTL

-----------------------------------------------------------------------------
(* The refinement of EditTimeline: what a user sees of a document.         *)
AllVersions == [content : Contents, state : Nat]
Past(x) == [i \in DOMAIN x.undo |-> Version(x.undo[i].before, x.undo[i].beforeState)]
Future(x) == [i \in DOMAIN x.redo |-> Version(x.redo[i].after, x.redo[i].afterState)]
Present(x) == Version(x.content, x.state)
Typed(x) == x.undo # <<>> /\ x.undo[Len(x.undo)].typing

(* What is seen of a document are versions.                                *)
LEMMA SeenAre ==
    ASSUME NEW x \in Document
    PROVE  /\ Past(x) \in Seq(AllVersions) /\ Len(Past(x)) = Len(x.undo)
           /\ Future(x) \in Seq(AllVersions) /\ Len(Future(x)) = Len(x.redo)
           /\ Present(x) \in AllVersions
           /\ Len(x.undo) \in Nat /\ Len(x.redo) \in Nat
           /\ \A i \in 1..Len(x.undo) : Past(x)[i] = Version(x.undo[i].before, x.undo[i].beforeState)
           /\ \A i \in 1..Len(x.redo) : Future(x)[i] = Version(x.redo[i].after, x.redo[i].afterState)
<1>1. PICK n \in Nat, m \in Nat :
        n = Len(x.undo) /\ m = Len(x.redo) /\ DOMAIN x.undo = 1..n /\ DOMAIN x.redo = 1..m
  BY EntriesAre
<1>2. \A e \in Entry : /\ Version(e.before, e.beforeState) \in AllVersions
                       /\ Version(e.after, e.afterState) \in AllVersions
  BY DEF Version, AllVersions, Entry
<1>3. \A i \in 1..n : x.undo[i] \in Entry
  BY <1>1, EntriesAre
<1>4. \A i \in 1..m : x.redo[i] \in Entry
  BY <1>1, EntriesAre
<1>5. Past(x) \in [1..n -> AllVersions] /\ Future(x) \in [1..m -> AllVersions]
  BY <1>1, <1>2, <1>3, <1>4 DEF Past, Future
<1>6. /\ Past(x) \in Seq(AllVersions) /\ Len(Past(x)) = n
      /\ Future(x) \in Seq(AllVersions) /\ Len(Future(x)) = m
  BY <1>5
<1>7. Present(x) \in AllVersions
  BY DEF Present, Version, AllVersions, Document
<1> QED
  BY <1>1, <1>6, <1>7 DEF Past, Future

(* A sequence without its first entries is one of its suffixes.            *)
LEMMA SuffixIs ==
    ASSUME NEW s \in Seq(AllVersions), NEW t \in Seq(AllVersions), NEW m \in Nat,
           Len(t) = Len(s) - m, \A i \in 1..Len(t) : t[i] = s[i + m]
    PROVE  t \in Timeline!Suffixes(s)
<1>1. PICK k \in Nat, n \in Nat : k = Len(t) /\ n = Len(s)
  <2>1. Len(t) \in Nat
    OBVIOUS
  <2>2. Len(s) \in Nat
    OBVIOUS
  <2> QED
    BY <2>1, <2>2
<1>2. k = n - m /\ m + 1 \in 1..(n + 1)
  BY <1>1
<1>3. SubSeq(s, m + 1, n) \in Seq(AllVersions) /\ Len(SubSeq(s, m + 1, n)) = k
      /\ \A i \in 1..k : SubSeq(s, m + 1, n)[i] = s[i + m]
  <2>1. \A i \in (m + 1)..n : i \in 1..Len(s)
    BY <1>1
  <2> QED
    BY <1>1, <1>2, <2>1
<1>4. t = SubSeq(s, m + 1, n)
  BY <1>1, <1>3, SeqEqual
<1> QED
  BY <1>1, <1>2, <1>4 DEF Timeline!Suffixes

(* Forgetting shows as forgetting from the far ends.                       *)
LEMMA PrunedShows ==
    ASSUME NEW x \in Document, NEW y, Pruned(x, y)
    PROVE  /\ Present(y) = Present(x)
           /\ Past(y) \in Timeline!Suffixes(Past(x))
           /\ Future(y) \in Timeline!Suffixes(Future(x))
<1>1. y \in Document
  BY DEF Pruned
<1>2. PICK m \in Nat : Cut(x.undo, y.undo, m)
  BY DEF Pruned
<1>3. PICK n \in Nat : Cut(x.redo, y.redo, n)
  BY DEF Pruned
<1>4. Past(y) \in Timeline!Suffixes(Past(x))
  <2>1. PICK k \in Nat, l \in Nat : k = Len(x.undo) /\ l = Len(y.undo) /\ l = k - m
    BY <1>1, <1>2, SeenAre DEF Cut
  <2>2. \A i \in 1..l : i + m \in 1..k /\ y.undo[i] = x.undo[i + m]
    BY <1>2, <2>1 DEF Cut
  <2>3. \A i \in 1..l : Past(y)[i] = Past(x)[i + m]
    BY ZenonT(60), <1>1, <2>1, <2>2, SeenAre
  <2> QED
    BY <1>1, <2>1, <2>3, SeenAre, SuffixIs
<1>5. Future(y) \in Timeline!Suffixes(Future(x))
  <2>1. PICK k \in Nat, l \in Nat : k = Len(x.redo) /\ l = Len(y.redo) /\ l = k - n
    BY <1>1, <1>3, SeenAre DEF Cut
  <2>2. \A i \in 1..l : i + n \in 1..k /\ y.redo[i] = x.redo[i + n]
    BY <1>3, <2>1 DEF Cut
  <2>3. \A i \in 1..l : Future(y)[i] = Future(x)[i + n]
    BY ZenonT(60), <1>1, <2>1, <2>2, SeenAre
  <2> QED
    BY <1>1, <2>1, <2>3, SeenAre, SuffixIs
<1>6. Present(y) = Present(x)
  BY DEF Present, Pruned
<1> QED
  BY <1>4, <1>5, <1>6

(* One sequence is another with one more element.                          *)
LEMMA AppendedIs ==
    ASSUME NEW s \in Seq(AllVersions), NEW t \in Seq(AllVersions), NEW v \in AllVersions,
           Len(t) = Len(s) + 1, \A i \in 1..Len(s) : t[i] = s[i], t[Len(t)] = v
    PROVE  t = Append(s, v)
<1>1. /\ Append(s, v) \in Seq(AllVersions) /\ Len(Append(s, v)) = Len(s) + 1
      /\ \A i \in 1..Len(s) : Append(s, v)[i] = s[i]
      /\ Append(s, v)[Len(s) + 1] = v
  BY AppendProperties
<1>2. PICK n \in Nat : n = Len(s)
  <2>1. Len(s) \in Nat
    OBVIOUS
  <2> QED
    BY <2>1
<1>3. \A i \in 1..(n + 1) : t[i] = Append(s, v)[i]
  BY <1>1, <1>2
<1>4. Len(t) = n + 1 /\ Len(Append(s, v)) = n + 1
  BY <1>1, <1>2
<1> QED
  BY <1>1, <1>3, <1>4, SeqEqual

(* Or one less.                                                            *)
LEMMA ButLastIs ==
    ASSUME NEW s \in Seq(AllVersions), NEW t \in Seq(AllVersions), s # <<>>,
           Len(t) = Len(s) - 1, \A i \in 1..Len(t) : t[i] = s[i]
    PROVE  t = Timeline!ButLast(s)
<1>1. PICK n \in Nat : n = Len(s)
  <2>1. Len(s) \in Nat
    OBVIOUS
  <2> QED
    BY <2>1
<1>2. n >= 1
  BY <1>1, EmptySeq
<1>3. PICK m \in Nat : m = n - 1
  BY <1>2
<1>4. PICK w : w = SubSeq(s, 1, m)
  OBVIOUS
<1>5. w \in Seq(AllVersions) /\ Len(w) = m /\ \A i \in 1..m : w[i] = s[i]
  <2>1. \A i \in 1..m : i \in 1..Len(s)
    BY <1>1, <1>3
  <2> QED
    BY SMTT(40), <1>1, <1>3, <1>4, <2>1
<1>6. Len(t) = m
  BY <1>1, <1>3
<1>7. t = w
  BY <1>5, <1>6, SeqEqual
<1> QED
  BY <1>1, <1>3, <1>4, <1>7 DEF Timeline!ButLast

(* What stays is a suffix of itself.                                       *)
LEMMA SuffixItself ==
    ASSUME NEW s \in Seq(AllVersions)
    PROVE  s \in Timeline!Suffixes(s)
<1>1. Len(s) \in Nat
  OBVIOUS
<1>2. Len(s) = Len(s) - 0 /\ \A i \in 1..Len(s) : s[i] = s[i + 0]
  BY <1>1
<1> QED
  BY <1>2, SuffixIs

(* An edit, as a user sees it.                                             *)
LEMMA RewritesShows ==
    ASSUME NEW d \in Docs, NEW x \in Document, NEW y, Rewrites(d, x, y)
    PROVE  /\ Present(y) \in AllVersions /\ Future(y) = <<>>
           /\ \/ Past(y) \in Timeline!Suffixes(Append(Past(x), Present(x)))
              \/ /\ Typed(x) /\ x.state \notin Captured(d)
                 /\ Past(y) \in Timeline!Suffixes(Past(x))
<1>1. PICK z \in Document :
        /\ \/ Adds(x, z)
           \/ Joins(x, z) /\ Typed(x) /\ x.state \notin Captured(d)
        /\ Pruned(z, y)
  BY DEF Rewrites, Typed
<1>2. y \in Document
  BY <1>1 DEF Pruned
<1>3. Future(y) = <<>>
  <2>1. z.redo = <<>>
    BY <1>1 DEF Adds, Joins
  <2>2. y.redo = <<>>
    BY <1>1, <2>1, PrunedEmpty
  <2>3. Len(Future(y)) = 0 /\ Future(y) \in Seq(AllVersions)
    BY <1>2, <2>2, SeenAre
  <2> QED
    BY <2>3, EmptySeq
<1>4. Present(y) \in AllVersions
  BY <1>2, SeenAre
<1>5. Past(y) \in Timeline!Suffixes(Past(z))
  BY <1>1, PrunedShows
<1>6. PICK n \in Nat : n = Len(x.undo)
  BY SeenAre
<1>7. CASE Adds(x, z)
  <2>1. /\ Len(z.undo) = n + 1
        /\ \A i \in 1..n : z.undo[i] = x.undo[i]
        /\ z.undo[n + 1].before = x.content /\ z.undo[n + 1].beforeState = x.state
    BY <1>6, <1>7 DEF Adds
  <2>2. /\ Len(Past(z)) = n + 1 /\ Len(Past(x)) = n
        /\ \A i \in 1..n : Past(z)[i] = Past(x)[i]
        /\ Past(z)[n + 1] = Present(x)
    <3>1. n + 1 \in 1..Len(z.undo) /\ \A i \in 1..n : i \in 1..Len(z.undo)
      BY <2>1
    <3>2. Past(z)[n + 1] = Present(x)
      BY <2>1, <3>1, SeenAre DEF Present
    <3>3. \A i \in 1..n : Past(z)[i] = Past(x)[i]
      <4>1. ASSUME NEW i \in 1..n PROVE Past(z)[i] = Past(x)[i]
        <5>1. Past(z)[i] = Version(z.undo[i].before, z.undo[i].beforeState)
          BY <3>1, SeenAre
        <5>2. Past(x)[i] = Version(x.undo[i].before, x.undo[i].beforeState)
          BY <1>6, SeenAre
        <5> QED
          BY <2>1, <5>1, <5>2
      <4> QED
        BY <4>1
    <3> QED
      BY <1>6, <2>1, <3>2, <3>3, SeenAre
  <2>3. Past(z) = Append(Past(x), Present(x))
    BY <2>2, SeenAre, AppendedIs
  <2> QED
    BY <1>3, <1>4, <1>5, <2>3
<1>8. CASE Joins(x, z) /\ Typed(x) /\ x.state \notin Captured(d)
  <2>1. /\ Len(z.undo) = n
        /\ \A i \in 1..n : /\ z.undo[i].before = x.undo[i].before
                           /\ z.undo[i].beforeState = x.undo[i].beforeState
    BY <1>6, <1>8 DEF Joins
  <2>2. /\ Len(Past(z)) = n /\ Len(Past(x)) = n
        /\ \A i \in 1..n : Past(z)[i] = Past(x)[i]
    BY <1>6, <2>1, SeenAre
  <2>3. Past(z) = Past(x)
    BY <2>2, SeenAre, SeqEqual
  <2> QED
    BY <1>3, <1>4, <1>5, <1>8, <2>3
<1> QED
  BY <1>1, <1>7, <1>8

(* Undo, as a user sees it.                                                *)
LEMMA TakesBackShows ==
    ASSUME NEW x \in Document, Good(x), NEW y, TakesBack(x, y)
    PROVE  /\ Past(x) # <<>> /\ Present(y) = Past(x)[Len(Past(x))]
           /\ Past(y) = Timeline!ButLast(Past(x)) /\ Future(y) = Append(Future(x), Present(x))
<1>1. y \in Document /\ x.undo # <<>>
  BY DEF TakesBack
<1>2. PICK n \in Nat, m \in Nat : n = Len(x.undo) /\ m = Len(x.redo) /\ n >= 1 /\ n \in DOMAIN x.undo
  BY <1>1, TopOf DEF Document
<1>3. /\ Len(y.undo) = n - 1 /\ Len(y.redo) = m + 1
      /\ \A i \in 1..(n - 1) : Like(y.undo[i], x.undo[i])
      /\ \A i \in 1..m : Like(y.redo[i], x.redo[i])
      /\ Like(y.redo[m + 1], x.undo[n])
      /\ y.content = x.undo[n].before /\ y.state = x.undo[n].beforeState
  BY <1>2 DEF TakesBack
<1>4. x.undo[n].after = x.content /\ x.undo[n].afterState = x.state
  BY <1>1, <1>2 DEF Good, Chain
<1>5. Past(x) # <<>> /\ Present(y) = Past(x)[Len(Past(x))]
  <2>1. Len(Past(x)) = n /\ Past(x) \in Seq(AllVersions) /\ n \in 1..n
    BY <1>2, SeenAre
  <2>2. Past(x)[n] = Present(y)
    BY <1>2, <1>3, <2>1, SeenAre DEF Present
  <2> QED
    BY <1>2, <2>1, <2>2, EmptySeq
<1>6. Past(y) = Timeline!ButLast(Past(x))
  <2>1. \A i \in 1..(n - 1) : i \in 1..Len(x.undo) /\ i \in 1..Len(y.undo)
    BY <1>2, <1>3
  <2>2. \A i \in 1..(n - 1) : Past(y)[i] = Past(x)[i]
    BY <1>1, <1>3, <2>1, SeenAre DEF Like
  <2>3. Len(Past(y)) = n - 1 /\ Len(Past(x)) = n
    BY <1>1, <1>2, <1>3, SeenAre
  <2> QED
    BY <1>1, <1>5, <2>2, <2>3, SeenAre, ButLastIs
<1>7. Future(y) = Append(Future(x), Present(x))
  <2>1. m + 1 \in 1..Len(y.redo) /\ \A i \in 1..m : i \in 1..Len(x.redo) /\ i \in 1..Len(y.redo)
    BY <1>2, <1>3
  <2>2. \A i \in 1..m : Future(y)[i] = Future(x)[i]
    BY <1>1, <1>3, <2>1, SeenAre DEF Like
  <2>3. Future(y)[m + 1] = Present(x)
    BY <1>1, <1>3, <1>4, <2>1, SeenAre DEF Like, Present
  <2>4. Len(Future(y)) = m + 1 /\ Len(Future(x)) = m
    BY <1>1, <1>2, <1>3, SeenAre
  <2> QED
    BY <1>1, <2>2, <2>3, <2>4, SeenAre, AppendedIs
<1> QED
  BY <1>5, <1>6, <1>7

(* Redo, as a user sees it.                                                *)
LEMMA TakesForwardShows ==
    ASSUME NEW x \in Document, Good(x), NEW y, TakesForward(x, y)
    PROVE  /\ Future(x) # <<>> /\ Present(y) = Future(x)[Len(Future(x))]
           /\ Future(y) = Timeline!ButLast(Future(x)) /\ Past(y) = Append(Past(x), Present(x))
<1>1. y \in Document /\ x.redo # <<>>
  BY DEF TakesForward
<1>2. PICK n \in Nat, m \in Nat : n = Len(x.redo) /\ m = Len(x.undo) /\ n >= 1 /\ n \in DOMAIN x.redo
  BY <1>1, TopOf DEF Document
<1>3. /\ Len(y.redo) = n - 1 /\ Len(y.undo) = m + 1
      /\ \A i \in 1..(n - 1) : Like(y.redo[i], x.redo[i])
      /\ \A i \in 1..m : Like(y.undo[i], x.undo[i])
      /\ Like(y.undo[m + 1], x.redo[n])
      /\ y.content = x.redo[n].after /\ y.state = x.redo[n].afterState
  BY <1>2 DEF TakesForward
<1>4. x.redo[n].before = x.content /\ x.redo[n].beforeState = x.state
  BY <1>1, <1>2 DEF Good, Chain
<1>5. Future(x) # <<>> /\ Present(y) = Future(x)[Len(Future(x))]
  <2>1. Len(Future(x)) = n /\ Future(x) \in Seq(AllVersions) /\ n \in 1..n
    BY <1>2, SeenAre
  <2>2. Future(x)[n] = Present(y)
    BY <1>2, <1>3, <2>1, SeenAre DEF Present
  <2> QED
    BY <1>2, <2>1, <2>2, EmptySeq
<1>6. Future(y) = Timeline!ButLast(Future(x))
  <2>1. \A i \in 1..(n - 1) : i \in 1..Len(x.redo) /\ i \in 1..Len(y.redo)
    BY <1>2, <1>3
  <2>2. \A i \in 1..(n - 1) : Future(y)[i] = Future(x)[i]
    BY <1>1, <1>3, <2>1, SeenAre DEF Like
  <2>3. Len(Future(y)) = n - 1 /\ Len(Future(x)) = n
    BY <1>1, <1>2, <1>3, SeenAre
  <2> QED
    BY <1>1, <1>5, <2>2, <2>3, SeenAre, ButLastIs
<1>7. Past(y) = Append(Past(x), Present(x))
  <2>1. m + 1 \in 1..Len(y.undo) /\ \A i \in 1..m : i \in 1..Len(x.undo) /\ i \in 1..Len(y.undo)
    BY <1>2, <1>3
  <2>2. \A i \in 1..m : Past(y)[i] = Past(x)[i]
    BY <1>1, <1>3, <2>1, SeenAre DEF Like
  <2>3. Past(y)[m + 1] = Present(x)
    BY <1>1, <1>3, <1>4, <2>1, SeenAre DEF Like, Present
  <2>4. Len(Past(y)) = m + 1 /\ Len(Past(x)) = m
    BY <1>1, <1>2, <1>3, SeenAre
  <2> QED
    BY <1>1, <2>2, <2>3, <2>4, SeenAre, AppendedIs
<1> QED
  BY <1>5, <1>6, <1>7

(* The documents, as they are opened, are a timeline's beginning.          *)
LEMMA TimelineBegins ==
    ASSUME Init
    PROVE  Timeline!Init
<1>1. IInv
  BY InitKeeps
<1>2. ASSUME NEW d \in Docs
      PROVE  /\ Past(doc[d]) = <<>> /\ Future(doc[d]) = <<>> /\ ~Typed(doc[d])
             /\ Present(doc[d]) \in AllVersions
             /\ Captured(d) \subseteq Nat
             /\ Present(doc[d]) \in [content : Contents, state : Captured(d)]
  <2>1. PICK x \in Document : x = doc[d]
    BY <1>1, DocumentFacts
  <2>2. /\ x.undo = <<>> /\ x.redo = <<>> /\ x.state = d /\ x.saved = d
        /\ save[d] = NoSave /\ view[d].unsent = None
    BY <2>1 DEF Init
  <2>3. Past(x) = <<>> /\ Future(x) = <<>>
    <3>1. Len(Past(x)) = 0 /\ Len(Future(x)) = 0
      BY <2>2, SeenAre
    <3> QED
      BY <3>1, SeenAre, EmptySeq
  <2>4. ~Typed(x)
    BY <2>2 DEF Typed
  <2>5. Captured(d) \subseteq Nat /\ d \in Captured(d)
    BY <2>1, <2>2 DEF Captured, NoSave, None, Docs
  <2>6. Present(x) \in [content : Contents, state : Captured(d)]
    BY <2>2, <2>5 DEF Present, Version, Document
  <2> QED
    BY <2>1, <2>3, <2>4, <2>5, <2>6, SeenAre
<1> QED
  BY <1>2 DEF Timeline!Init, Past, Future, Typed, Present, AllVersions

(* Every step is one of the timeline: the documents that it edits, undoes  *)
(* or redoes move together, and the others only forget.                    *)
LEMMA TimelineMoves ==
    ASSUME IInv, Visible
    PROVE  Timeline!Next
<1>1. PICK moved \in SUBSET Docs : Moves(moved)
  BY DEF Visible
<1>2. ASSUME NEW d \in Docs PROVE doc[d] \in Document /\ Good(doc[d]) /\ doc'[d] \in Document
  BY DocumentFacts DEF Visible
<1>3. ASSUME NEW d \in Docs, Pruned(doc[d], doc'[d])
      PROVE  Timeline!Forget(d)
  <2>1. /\ Present(doc'[d]) = Present(doc[d])
        /\ Past(doc'[d]) \in Timeline!Suffixes(Past(doc[d]))
        /\ Future(doc'[d]) \in Timeline!Suffixes(Future(doc[d]))
    BY <1>2, <1>3, PrunedShows
  <2> QED
    BY <2>1 DEF Timeline!Forget, Past, Future, Present
<1>4. ASSUME NEW d \in Docs, Rewrites(d, doc[d], doc'[d])
      PROVE  Timeline!Edit(d)
  <2>1. /\ Present(doc'[d]) \in AllVersions /\ Future(doc'[d]) = <<>>
        /\ \/ Past(doc'[d]) \in Timeline!Suffixes(Append(Past(doc[d]), Present(doc[d])))
           \/ /\ Typed(doc[d]) /\ doc[d].state \notin Captured(d)
              /\ Past(doc'[d]) \in Timeline!Suffixes(Past(doc[d]))
    BY <1>2, <1>4, RewritesShows
  <2>2. doc[d].state \notin Captured(d) => Present(doc[d]) \notin [content : Contents, state : Captured(d)]
    BY DEF Present, Version
  <2> QED
    BY <2>1, <2>2 DEF Timeline!Edit, Past, Future, Present, Typed, AllVersions
<1>5. ASSUME NEW d \in Docs, TakesBack(doc[d], doc'[d])
      PROVE  Timeline!Undo(d)
  <2>1. /\ Past(doc[d]) # <<>> /\ Present(doc'[d]) = Past(doc[d])[Len(Past(doc[d]))]
        /\ Past(doc'[d]) = Timeline!ButLast(Past(doc[d]))
        /\ Future(doc'[d]) = Append(Future(doc[d]), Present(doc[d]))
    BY <1>2, <1>5, TakesBackShows
  <2>2. /\ Past(doc'[d]) \in Timeline!Suffixes(Timeline!ButLast(Past(doc[d])))
        /\ Future(doc[d]) \in Timeline!Suffixes(Future(doc[d]))
    <3>1. Past(doc'[d]) \in Seq(AllVersions) /\ Future(doc[d]) \in Seq(AllVersions)
      BY <1>2, SeenAre
    <3> QED
      BY <2>1, <3>1, SuffixItself
  <2> QED
    BY <2>1, <2>2 DEF Timeline!Undo, Past, Future, Present
<1>6. ASSUME NEW d \in Docs, TakesForward(doc[d], doc'[d])
      PROVE  Timeline!Redo(d)
  <2>1. /\ Future(doc[d]) # <<>> /\ Present(doc'[d]) = Future(doc[d])[Len(Future(doc[d]))]
        /\ Future(doc'[d]) = Timeline!ButLast(Future(doc[d]))
        /\ Past(doc'[d]) = Append(Past(doc[d]), Present(doc[d]))
    BY <1>2, <1>6, TakesForwardShows
  <2>2. /\ Future(doc'[d]) \in Timeline!Suffixes(Timeline!ButLast(Future(doc[d])))
        /\ Past(doc[d]) \in Timeline!Suffixes(Past(doc[d]))
    <3>1. Future(doc'[d]) \in Seq(AllVersions) /\ Past(doc[d]) \in Seq(AllVersions)
      BY <1>2, SeenAre
    <3> QED
      BY <2>1, <3>1, SuffixItself
  <2> QED
    BY <2>1, <2>2 DEF Timeline!Redo, Past, Future, Present
<1>7. /\ \/ \A d \in moved : Timeline!Edit(d)
         \/ \A d \in moved : Timeline!Undo(d)
         \/ \A d \in moved : Timeline!Redo(d)
      /\ \A d \in Docs \ moved : Timeline!Forget(d)
  BY <1>1, <1>3, <1>4, <1>5, <1>6 DEF Moves
<1> QED
  BY <1>7 DEF Timeline!Next

(* The history of the documents implements the timeline a user of undo and *)
(* redo is promised: entries are only forgotten from the far ends, a new   *)
(* version takes its place behind the one it replaced, and the only one    *)
(* that vanishes from the middle was left by the same run of typing and    *)
(* captured by no save.                                                    *)
THEOREM TimelineImplemented == Spec => ImplementsTimeline
<1>1. Init => Timeline!Init
  BY TimelineBegins
<1>2. IInv /\ [Next]_vars => [Timeline!Next]_Timeline!timeline
  <2>1. CASE IInv /\ Next
    BY <2>1, StepKeeps, TimelineMoves
  <2>2. CASE UNCHANGED vars
    <3>1. UNCHANGED <<doc, split, save, view>>
      BY <2>2 DEF vars
    <3>2. \A d \in Docs : Captured(d)' = Captured(d)
      BY <3>1 DEF Captured
    <3> QED
      BY <3>1, <3>2 DEF Timeline!timeline
  <2> QED
    BY <2>1, <2>2
<1> QED
  BY <1>1, <1>2, Inductive, PTL DEF Spec, ImplementsTimeline, Timeline!Spec
=============================================================================

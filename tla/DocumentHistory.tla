---------------------------- MODULE DocumentHistory ----------------------------
(***************************************************************************)
(* The undo history of the open documents: crates/document (lib.rs,        *)
(* history.rs, group.rs, and the relief of service.rs), with the save      *)
(* points that workspace.rs and the editor surface put into it.            *)
(*                                                                         *)
(* A worker holds one document's actor lock for a whole mutation, so a     *)
(* document has at most one mutation under way, job[d].  Documents share   *)
(* one history budget: a mutation that lacks room evicts the oldest        *)
(* history of every document that no other worker holds, then charges its  *)
(* own entry in a later step, and another worker may take the room first.  *)
(***************************************************************************)
EXTENDS Integers, Sequences, FiniteSets, FiniteSetsExt

CONSTANTS
    NumDocs,        \* open documents, identified by 1..NumDocs
    Contents,       \* what a document can hold: its text and its metadata
    EntryCosts,     \* history charge of one undo entry
    SlotCost,       \* history charge of one slot of an undo or redo stack
    HistoryLimit,   \* limit of the shared history budget
    ReliefPasses,   \* RELIEF_PASSES
    ChangeLimits,   \* values of the history policy's max_changes
    MaxUnique,      \* bound on unique(): content states and group ids
    MaxRevision,    \* bound on a document's revision
    MaxSaves        \* bound on the saves that are started

ASSUME ConstantsAssumption ==
    /\ NumDocs \in Nat \ {0}
    /\ Contents # {}
    /\ EntryCosts \subseteq Nat /\ EntryCosts # {}
    /\ SlotCost \in Nat /\ HistoryLimit \in Nat
    /\ ReliefPasses \in Nat \ {0}
    /\ ChangeLimits \subseteq Nat /\ ChangeLimits # {} /\ IsFiniteSet(ChangeLimits)
    /\ MaxUnique \in Nat /\ MaxRevision \in Nat /\ MaxSaves \in Nat

Docs == 1..NumDocs
None == 0

VARIABLES
    open,       \* the documents that are open; the others are never touched
    split,      \* those shown in both panes of a split window
    doc,        \* doc[d]: the Document
    job,        \* job[d]: the mutation a worker runs on d, or Idle
    group,      \* the group mutation a worker runs, or NoGroup
    linked,     \* groups whose tag still has `linked` set
    members,    \* members[g]: the documents of group g
    unique,     \* the last id given out
    save,       \* save[d]: the save of d under way, or NoSave
    view,       \* view[d]: what the editor surfaces of d keep
    disk,       \* disk[d]: what the last save of d wrote
    hidden,     \* history variable: states that a typing merge removed
    refused     \* history variable: entries lost to group edits refused later

vars == <<open, split, doc, job, group, linked, members, unique, save, view, disk, hidden, refused>>

Entry == [before : Contents, after : Contents, beforeState : Nat, afterState : Nat,
          seq : Nat, tag : Nat, typing : BOOLEAN, boundary : Nat, cost : Nat]

Panes(d) == IF d \in split THEN {1, 2} ELSE {1}

(* Bounds: typing, metadata, saves, split windows, and edits of different    *)
(* contents and costs only where one document is open.  Where several are,   *)
(* they are edited one by one and linked; a version is told by its state,    *)
(* and one id more is given out.                                            *)
Alone == Cardinality(open) = 1
Opened == CHOOSE c \in Contents : TRUE     \* what is opened
ContentsUsed == IF Alone THEN Contents ELSE {Opened}
CostsUsed == IF Alone THEN EntryCosts ELSE {Min(EntryCosts)}

Idle == [kind |-> "idle"]
NoGroup == [members |-> {}]
NoSave == [state |-> None]

---------------------------------------------------------------------------
(* The shared budget and the two stacks of a document. *)

Max2(a, b) == IF a < b THEN b ELSE a

(* Capacity of a stack once one more entry is admitted (geometric growth). *)
Grown(len, cap) == IF len + 1 <= cap THEN cap ELSE Max2(len + 1, 2 * cap)

(* The whole new allocation is reserved while the old one is still held. *)
GrowthBytes(len, cap) == IF len + 1 <= cap THEN 0 ELSE Grown(len, cap) * SlotCost

Costs(stack) == MapThenSumSet(LAMBDA i : stack[i].cost, DOMAIN stack)

Held(d, ds) == Costs(ds[d].undo) + Costs(ds[d].redo) + (ds[d].undoCap + ds[d].redoCap) * SlotCost

(* Claims that a running mutation holds before its entry is published. *)
Staged == MapThenSumSet(LAMBDA d : group.cost[d], IF group = NoGroup THEN {} ELSE group.charged)

Available(ds) == HistoryLimit - MapThenSumSet(LAMBDA d : Held(d, ds), Docs) - Staged

(* Entries that the mutation itself consumes stay at the top of (undo, redo). *)
Keep(kind) == [undo |-> IF kind = "undo" THEN 1 ELSE 0, redo |-> IF kind = "redo" THEN 1 ELSE 0]

(* History bytes the demand needs now: its entry and the growth of a stack. *)
HistoryNeed(kind, cost, x) ==
    IF kind = "undo"
      THEN GrowthBytes(Len(x.redo), x.redoCap)
      ELSE cost + GrowthBytes(Len(x.undo), x.undoCap)

LacksRoom(d, kind, cost, ds) == HistoryNeed(kind, cost, ds[d]) > Available(ds)

Drain(stack, n) == SubSeq(stack, n + 1, Len(stack))

Discard(x, drop) == [x EXCEPT !.undo = Drain(@, drop.undo), !.redo = Drain(@, drop.redo)]

(* Eviction order: the older first entry of a stack goes first, so a redo  *)
(* stack, newest entry first, goes as a whole once its first entry is the  *)
(* oldest.  A new edit discards its own redo entries anyway, so they go    *)
(* before everything else.  Key(t, stack, i) orders entry i of a stack.    *)
Key(own, kind, t, stack, i, ds) ==
    LET age == IF stack = "undo" THEN ds[t].undo[i].seq
               ELSE IF t = own /\ kind = "edit" THEN 0 ELSE ds[t].redo[1].seq
    IN age * (MaxUnique + 1) + i

(* What is gone once every evictable entry up to a key is dropped. *)
DropTo(own, kind, reach, ds, key) ==
    [d \in Docs |->
        IF d \notin reach THEN ds[d]
        ELSE LET keep == Keep(IF d = own THEN kind ELSE "edit")
             IN Discard(ds[d],
                  [undo |-> Cardinality({i \in 1..(Len(ds[d].undo) - keep.undo) :
                                            Key(own, kind, d, "undo", i, ds) <= key}),
                   redo |-> Cardinality({i \in 1..(Len(ds[d].redo) - keep.redo) :
                                            Key(own, kind, d, "redo", i, ds) <= key})])]

Keys(own, kind, reach, ds) ==
    UNION {{Key(own, kind, t, "undo", i, ds) : i \in DOMAIN ds[t].undo}
           \cup {Key(own, kind, t, "redo", i, ds) : i \in DOMAIN ds[t].redo} : t \in reach}

(* Evict the oldest history of the reachable documents until the demand    *)
(* fits; all of it when it never does.                                     *)
EvictUntilFits(own, kind, cost, reach, ds) ==
    IF ~LacksRoom(own, kind, cost, ds) THEN ds
    ELSE LET keys == Keys(own, kind, reach, ds)
             fitting == {k \in keys : ~LacksRoom(own, kind, cost, DropTo(own, kind, reach, ds, k))}
         IN CASE fitting # {} -> DropTo(own, kind, reach, ds, Min(fitting))
              [] fitting = {} /\ keys # {} -> DropTo(own, kind, reach, ds, Max(keys))
              [] OTHER -> ds

(* relieve_shared_history evicts nothing when even all the evictable       *)
(* history would not make room (relief_missing).                           *)
Relieved(own, kind, cost, reach, ds) ==
    LET after == EvictUntilFits(own, kind, cost, reach, ds)
    IN IF LacksRoom(own, kind, cost, after) THEN ds ELSE after

(* Dropping an entry of a group clears the tag all members share. *)
EntriesOf(x) == {x.undo[i] : i \in DOMAIN x.undo} \cup {x.redo[i] : i \in DOMAIN x.redo}
TagsOf(x) == {e.tag : e \in EntriesOf(x)}

(* Faulty variant: a dropped entry leaves its partners linked. *)
KeepLinks(x, after) == {}

DroppedTags(x, after) == TagsOf(x) \ TagsOf(after)
Unlinked(ds, after) == UNION {DroppedTags(ds[d], after[d]) : d \in Docs}

(* Faulty variant: the limit keeps the oldest changes and drops the newest. *)
TrimNewest(x) ==
    [x EXCEPT !.undo = SubSeq(@, 1, IF Len(@) < x.limit THEN Len(@) ELSE x.limit)]

(* max_changes holds for both stacks together; undo is served first. *)
Trim(x) ==
    LET undo == Drain(x.undo, Max2(0, Len(x.undo) - x.limit))
    IN [x EXCEPT !.undo = undo,
                 !.redo = Drain(x.redo, Max2(0, Len(x.redo) - (x.limit - Len(undo))))]

---------------------------------------------------------------------------
(* The state has the shape the definitions above give it. *)
TypeOK ==
    /\ \A d \in Docs :
        /\ doc[d].content \in Contents /\ doc[d].state \in 0..MaxUnique
        /\ doc[d].revision \in 0..MaxRevision /\ doc[d].saved \in 0..MaxUnique
        /\ EntriesOf(doc[d]) \subseteq Entry
        /\ doc[d].undoCap \in Nat /\ doc[d].redoCap \in Nat /\ doc[d].limit \in ChangeLimits
        /\ Len(doc[d].undo) <= doc[d].undoCap /\ Len(doc[d].redo) <= doc[d].redoCap
        /\ job[d].kind \in {"idle", "edit", "metadata", "undo", "redo"}
        /\ view[d].active \in Panes(d) /\ view[d].boundary \in [Panes(d) -> Nat]
        /\ view[d].savedState \in 0..MaxUnique /\ view[d].unsent \in 0..MaxUnique
        /\ hidden[d] \subseteq 0..MaxUnique
    /\ linked \subseteq DOMAIN members
    /\ unique \in 0..MaxUnique /\ refused \in Nat

Init ==
    /\ \E n \in Docs : open = 1..n
    /\ split = {} \/ (Alone /\ split = open)
    /\ doc = [d \in Docs |->
                [content |-> Opened, state |-> d, revision |-> 0, saved |-> d,
                 undo |-> <<>>, redo |-> <<>>, undoCap |-> 0, redoCap |-> 0,
                 limit |-> Max(ChangeLimits)]]
    /\ disk = [d \in Docs |-> Opened]
    /\ job = [d \in Docs |-> Idle]
    /\ group = NoGroup
    /\ linked = {} /\ members = <<>>
    /\ unique = NumDocs
    /\ save = [d \in Docs |-> NoSave]
    /\ view = [d \in Docs |-> [active |-> 1, boundary |-> [p \in Panes(d) |-> p],
                               savedState |-> d, unsent |-> None, saves |-> 0]]
    /\ hidden = [d \in Docs |-> {}]
    /\ refused = 0

---------------------------------------------------------------------------
(* A worker mutates one document. *)

Locked == group.members \cup (IF group = NoGroup THEN {} ELSE group.peers)
Free(d) == job[d] = Idle /\ d \notin Locked

(* The documents relief can lock without waiting, and the demanding one. *)
Reach(d) == {d} \cup {p \in Docs : Free(p)}

(* Ids left under the bound, beside those the running mutations will take. *)
SpareIds == MaxUnique - unique - Cardinality({d \in Docs : job[d].kind \in {"edit", "metadata"}})
                      - Cardinality(group.members)

SaveVars == <<save, view, disk>>
GroupVars == <<group, members>>

(* An edit from the active view: validated and staged against the current  *)
(* revision.  The primary view holds its edits while a save point waits.   *)
BeginEdit(d, content, typing, follows, cost) ==
    /\ Free(d)
    /\ SpareIds > IF Alone THEN 1 ELSE 0
    /\ doc[d].revision < MaxRevision
    /\ view[d].active = 1 => view[d].unsent = None
    /\ typing => Alone
    /\ follows => typing
    /\ job' = [job EXCEPT ![d] =
                [kind |-> "edit", step |-> "relieve", pass |-> 1, cost |-> cost,
                 content |-> content, typing |-> typing, follows |-> follows,
                 boundary |-> view[d].boundary[view[d].active]]]
    /\ UNCHANGED <<doc, linked, unique, hidden, refused, SaveVars, GroupVars>>

(* apply_metadata: no edit when the metadata is the same. *)
BeginMetadata(d, content, cost) ==
    /\ Free(d)
    /\ SpareIds > 1 /\ doc[d].revision < MaxRevision
    /\ Alone /\ content # doc[d].content
    /\ job' = [job EXCEPT ![d] =
                [kind |-> "metadata", step |-> "relieve", cost |-> cost, content |-> content]]
    /\ UNCHANGED <<doc, linked, unique, hidden, refused, SaveVars, GroupVars>>

TopLinked(stack) == stack # <<>> /\ stack[Len(stack)].tag \in linked

(* Faulty variant: one member of a linked edit is undone alone. *)
BeginMoveAlone(d, kind) ==
    /\ Free(d)
    /\ doc[d].revision < MaxRevision
    /\ (IF kind = "undo" THEN doc[d].undo ELSE doc[d].redo) # <<>>
    /\ job' = [job EXCEPT ![d] = [kind |-> kind, step |-> "relieve"]]
    /\ UNCHANGED <<doc, linked, unique, hidden, refused, SaveVars, GroupVars>>

(* undo and redo: refused on an empty stack and for a linked entry. *)
BeginMove(d, kind) ==
    /\ Free(d)
    /\ doc[d].revision < MaxRevision
    /\ LET stack == IF kind = "undo" THEN doc[d].undo ELSE doc[d].redo
       IN stack # <<>> /\ ~TopLinked(stack)
    /\ job' = [job EXCEPT ![d] = [kind |-> kind, step |-> "relieve"]]
    /\ UNCHANGED <<doc, linked, unique, hidden, refused, SaveVars, GroupVars>>

DemandKind(kind) == IF kind = "metadata" THEN "edit" ELSE kind
DemandCost(j) == IF j.kind \in {"edit", "metadata"} THEN j.cost ELSE 0

(* One relief pass, with the peers that no worker holds at this moment. *)
Relieve(d) ==
    /\ job[d].kind # "idle" /\ job[d].step = "relieve"
    /\ \E after \in {Relieved(d, DemandKind(job[d].kind), DemandCost(job[d]), Reach(d), doc)} :
          /\ doc' = after
          /\ linked' = linked \ Unlinked(doc, after)
    /\ job' = [job EXCEPT ![d].step = "charge"]
    /\ UNCHANGED <<unique, hidden, refused, SaveVars, GroupVars>>

(* Admission of an undo entry: its slot, then its charge. *)
SlotFits(len, cap) == GrowthBytes(len, cap) <= Available(doc)
ChargeFits(d, cost) ==
    cost <= Available(doc) - (Grown(Len(doc[d].undo), doc[d].undoCap) - doc[d].undoCap) * SlotCost

Admissible(d, cost) == SlotFits(Len(doc[d].undo), doc[d].undoCap) /\ ChargeFits(d, cost)

(* try_reserve keeps a slot that the charge then cannot use. *)
Reserved(d) ==
    IF SlotFits(Len(doc[d].undo), doc[d].undoCap)
      THEN [doc[d] EXCEPT !.undoCap = Grown(Len(doc[d].undo), doc[d].undoCap)]
      ELSE doc[d]

(* A commit gives the document a new state and discards its redo entries.  *)
Moved(x, content, state) ==
    [x EXCEPT !.content = content, !.state = state, !.revision = @ + 1]

NewEntry(x, j, tag) ==
    [before |-> x.content, after |-> j.content, beforeState |-> x.state, afterState |-> unique + 1,
     seq |-> unique + 1, tag |-> tag, cost |-> j.cost,
     typing |-> j.kind = "edit" /\ j.typing,
     boundary |-> IF j.kind = "edit" THEN j.boundary ELSE 0]

(* Typing extends the entry that the same run left, unless a save wrote    *)
(* the text in between.                                                    *)
Merges(x, j) ==
    /\ j.kind = "edit" /\ j.typing /\ j.follows
    /\ x.undo # <<>>
    /\ LET last == x.undo[Len(x.undo)]
       IN /\ last.tag = None /\ last.typing
          /\ last.afterState = x.state
          /\ last.afterState # x.saved
          /\ last.boundary = j.boundary

Pushed(x, e) == [x EXCEPT !.undo = Append(@, e), !.redo = <<>>]

Extended(x, e) ==
    [x EXCEPT !.undo[Len(x.undo)].after = e.after, !.undo[Len(x.undo)].afterState = e.afterState,
              !.undo[Len(x.undo)].cost = e.cost, !.redo = <<>>]

Settle(d, after) ==
    /\ doc' = [doc EXCEPT ![d] = after]
    /\ linked' = linked \ DroppedTags(doc[d], after)
    /\ job' = [job EXCEPT ![d] = Idle]

(* The charge is admitted and the edit is committed. *)
CommitEdit(d) ==
    /\ job[d].kind = "edit" /\ job[d].step = "charge"
    /\ Admissible(d, job[d].cost)
    /\ LET e == NewEntry(doc[d], job[d], None)
           x == Moved(Reserved(d), job[d].content, unique + 1)
           merge == Merges(doc[d], job[d])
       IN /\ Settle(d, Trim(IF merge THEN Extended(x, e) ELSE Pushed(x, e)))
          /\ hidden' = [hidden EXCEPT ![d] = IF merge THEN @ \cup {doc[d].state} ELSE @]
    /\ unique' = unique + 1
    /\ UNCHANGED <<refused, SaveVars, GroupVars>>

(* Another worker took the room: relief runs again. *)
RetryRelief(d) ==
    /\ job[d].kind = "edit" /\ job[d].step = "charge"
    /\ ~Admissible(d, job[d].cost)
    /\ job[d].pass < ReliefPasses
    /\ doc' = [doc EXCEPT ![d] = Reserved(d)]
    /\ job' = [job EXCEPT ![d].pass = @ + 1, ![d].step = "relieve"]
    /\ UNCHANGED <<linked, unique, hidden, refused, SaveVars, GroupVars>>

(* Then the document's own oldest entry gives way, one at a time. *)
EvictOwn(d) ==
    /\ job[d].kind = "edit" /\ job[d].step = "charge"
    /\ ~Admissible(d, job[d].cost)
    /\ job[d].pass = ReliefPasses
    /\ doc[d].undo # <<>> \/ doc[d].redo # <<>>
    /\ LET x == Reserved(d)
           fromRedo == IF x.undo = <<>> \/ x.redo = <<>> THEN x.undo = <<>>
                                                         ELSE x.redo[1].seq < x.undo[1].seq
           after == Discard(x, [undo |-> IF fromRedo THEN 0 ELSE 1, redo |-> IF fromRedo THEN 1 ELSE 0])
       IN /\ doc' = [doc EXCEPT ![d] = after]
          /\ linked' = linked \ DroppedTags(doc[d], after)
    /\ UNCHANGED <<job, unique, hidden, refused, SaveVars, GroupVars>>

(* No history can be admitted: the edit applies without an undo entry and  *)
(* the history, which would undo straight across it, is cleared.           *)
CommitUntracked(d) ==
    /\ job[d].kind = "edit" /\ job[d].step = "charge"
    /\ ~Admissible(d, job[d].cost)
    /\ job[d].pass = ReliefPasses
    /\ doc[d].undo = <<>> /\ doc[d].redo = <<>>
    /\ Settle(d, [Moved(Reserved(d), job[d].content, unique + 1) EXCEPT !.undo = <<>>, !.redo = <<>>])
    /\ unique' = unique + 1
    /\ UNCHANGED <<hidden, refused, SaveVars, GroupVars>>

(* A metadata change is refused when its entry cannot be charged. *)
FinishMetadata(d) ==
    /\ job[d].kind = "metadata" /\ job[d].step = "charge"
    /\ LET j == job[d]
           fits == /\ j.cost <= Available(doc)
                   /\ GrowthBytes(Len(doc[d].undo), doc[d].undoCap) <= Available(doc) - j.cost
           x == Moved(Reserved(d), j.content, unique + 1)
       IN IF fits
            THEN /\ Settle(d, Trim(Pushed(x, NewEntry(doc[d], j, None))))
                 /\ unique' = unique + 1
            ELSE Settle(d, doc[d]) /\ UNCHANGED unique
    /\ UNCHANGED <<hidden, refused, SaveVars, GroupVars>>

(* Undo restores the roots and the state of the entry and ends the typing  *)
(* run on both sides of the point it returns to.                           *)
Undone(x) ==
    LET n == Len(x.undo)
        e == [x.undo[n] EXCEPT !.typing = FALSE]
        rest == SubSeq(x.undo, 1, n - 1)
    IN [Moved(x, e.before, e.beforeState) EXCEPT
            !.undo = IF n = 1 THEN rest ELSE [rest EXCEPT ![n - 1].typing = FALSE],
            !.redo = Append(@, e), !.redoCap = Grown(Len(x.redo), x.redoCap)]

Redone(x) ==
    LET e == [x.redo[Len(x.redo)] EXCEPT !.typing = FALSE]
    IN [Moved(x, e.after, e.afterState) EXCEPT
            !.redo = SubSeq(@, 1, Len(@) - 1),
            !.undo = Append(@, e), !.undoCap = Grown(Len(x.undo), x.undoCap)]

FinishMove(d) ==
    /\ job[d].kind \in {"undo", "redo"} /\ job[d].step = "charge"
    /\ IF job[d].kind = "undo"
         THEN SlotFits(Len(doc[d].redo), doc[d].redoCap) /\ Settle(d, Undone(doc[d]))
         ELSE SlotFits(Len(doc[d].undo), doc[d].undoCap) /\ Settle(d, Redone(doc[d]))
    /\ UNCHANGED <<unique, hidden, refused, SaveVars, GroupVars>>

(* No slot, or no room in the byte budget for the receipt of the change. *)
RefuseMove(d) ==
    /\ job[d].kind \in {"undo", "redo"} /\ job[d].step = "charge"
    /\ Settle(d, doc[d])
    /\ UNCHANGED <<unique, hidden, refused, SaveVars, GroupVars>>

SetHistoryPolicy(d, limit) ==
    /\ Free(d) /\ limit # doc[d].limit
    /\ Settle(d, Trim([doc[d] EXCEPT !.limit = limit]))
    /\ UNCHANGED <<unique, hidden, refused, SaveVars, GroupVars>>

---------------------------------------------------------------------------
(* A worker mutates the members of a group, holding all their locks. *)

Charging(g, d) == d \in g.members \ g.charged /\ \A e \in g.members \ g.charged : d <= e

(* What the members need together, and what eviction could free.           *)
GroupNeed(ds, cost) == MapThenSumSet(LAMBDA d : HistoryNeed("edit", cost[d], doc[d]), ds)
Freeable(ds) == MapThenSumSet(LAMBDA d : Costs(doc[d].undo) + Costs(doc[d].redo), ds)

(* All members are validated and staged; the peers that are free are held  *)
(* for eviction when a member lacks room.  Evict only when the whole group *)
(* can then be admitted.                                                   *)
BeginGroupEdit(ds, content, cost) ==
    /\ group = NoGroup
    /\ Cardinality(ds) >= 2 /\ \A d \in ds : Free(d) /\ doc[d].revision < MaxRevision
    /\ Cardinality(ds) <= SpareIds
    /\ LET pressured == \E d \in ds : LacksRoom(d, "edit", cost[d], doc)
           peers == IF pressured THEN {p \in Docs \ ds : Free(p)} ELSE {}
       IN group' = [members |-> ds, peers |-> peers, content |-> content, cost |-> cost,
                    charged |-> {}, lost |-> 0,
                    relieve |-> pressured /\ GroupNeed(ds, cost) <= Available(doc) + Freeable(ds \cup peers)]
    /\ UNCHANGED <<doc, job, linked, members, unique, hidden, refused, SaveVars>>

(* The next member, in document order: relief, its slot, then its charge. *)
ChargeMember(d) ==
    /\ group # NoGroup /\ Charging(group, d)
    /\ LET after == IF group.relieve
                      THEN EvictUntilFits(d, "edit", group.cost[d], group.members \cup group.peers, doc)
                      ELSE doc
           x == after[d]
           slot == GrowthBytes(Len(x.undo), x.undoCap) <= Available(after)
           cap == IF slot THEN Grown(Len(x.undo), x.undoCap) ELSE x.undoCap
           admitted == slot /\ group.cost[d] <= Available(after) - (cap - x.undoCap) * SlotCost
           lost == MapThenSumSet(LAMBDA e : Cardinality(EntriesOf(doc[e]) \ EntriesOf(after[e])), Docs)
       IN /\ doc' = [after EXCEPT ![d].undoCap = cap]
          /\ linked' = linked \ Unlinked(doc, after)
          /\ IF admitted
               THEN /\ group' = [group EXCEPT !.charged = @ \cup {d}, !.lost = @ + lost]
                    /\ UNCHANGED refused
               ELSE /\ group' = NoGroup
                    /\ refused' = refused + group.lost + lost
    /\ UNCHANGED <<job, members, unique, hidden, SaveVars>>

(* A member takes its state in document order, and all take one tag.       *)
Rank(d) == Cardinality({e \in group.members : e <= d})
NewTag == Cardinality(DOMAIN members) + 1
GroupEntry(d) ==
    [before |-> doc[d].content, after |-> group.content[d],
     beforeState |-> doc[d].state, afterState |-> unique + Rank(d), seq |-> unique + Rank(d),
     tag |-> NewTag, cost |-> group.cost[d], typing |-> FALSE, boundary |-> 0]
Committed(d) == Trim(Pushed(Moved(doc[d], group.content[d], unique + Rank(d)), GroupEntry(d)))

(* All members are charged: commit them all, linked by the tag. *)
CommitGroup ==
    /\ group # NoGroup /\ group.charged = group.members
    /\ LET after == [d \in Docs |-> IF d \in group.members THEN Committed(d) ELSE doc[d]]
           lost == {d \in group.members : NewTag \notin TagsOf(after[d])}
       IN /\ doc' = after
          /\ linked' = (linked \ Unlinked(doc, after)) \cup (IF lost = {} THEN {NewTag} ELSE {})
          /\ members' = Append(members, group.members)
    /\ unique' = unique + Cardinality(group.members)
    /\ group' = NoGroup
    /\ UNCHANGED <<job, hidden, refused, SaveVars>>

(* move_history: every member's next entry is the group's and still linked. *)
MovableGroup(g, kind) ==
    /\ g \in linked
    /\ \A d \in members[g] :
        LET stack == IF kind = "undo" THEN doc[d].undo ELSE doc[d].redo
        IN stack # <<>> /\ stack[Len(stack)].tag = g

Destination(d, kind) ==
    IF kind = "undo" THEN GrowthBytes(Len(doc[d].redo), doc[d].redoCap)
                     ELSE GrowthBytes(Len(doc[d].undo), doc[d].undoCap)
SlotGain(d, kind) ==
    IF kind = "undo" THEN (Grown(Len(doc[d].redo), doc[d].redoCap) - doc[d].redoCap) * SlotCost
                     ELSE (Grown(Len(doc[d].undo), doc[d].undoCap) - doc[d].undoCap) * SlotCost
(* Slots are reserved in document order; the first failure refuses all. *)
DestinationFits(g, d, kind) ==
    Destination(d, kind) + MapThenSumSet(LAMBDA e : SlotGain(e, kind), {e \in members[g] : e < d})
        <= Available(doc)

GroupUndone(x) ==
    LET e == x.undo[Len(x.undo)]
    IN [Moved(x, e.before, e.beforeState) EXCEPT
            !.undo = SubSeq(@, 1, Len(@) - 1),
            !.redo = Append(@, e), !.redoCap = Grown(Len(x.redo), x.redoCap)]
GroupRedone(x) ==
    LET e == x.redo[Len(x.redo)]
    IN [Moved(x, e.after, e.afterState) EXCEPT
            !.redo = SubSeq(@, 1, Len(@) - 1),
            !.undo = Append(@, e), !.undoCap = Grown(Len(x.undo), x.undoCap)]

MoveGroup(g, kind) ==
    /\ group = NoGroup /\ g \in DOMAIN members
    /\ MovableGroup(g, kind)
    /\ \A d \in members[g] : Free(d) /\ doc[d].revision < MaxRevision /\ DestinationFits(g, d, kind)
    /\ doc' = [d \in Docs |-> IF d \notin members[g] THEN doc[d]
                              ELSE IF kind = "undo" THEN GroupUndone(doc[d]) ELSE GroupRedone(doc[d])]
    /\ UNCHANGED <<job, linked, unique, hidden, refused, SaveVars, GroupVars>>

(* The members before the first that finds no slot keep the slot they got. *)
RefuseGroupMove(g, kind, d) ==
    /\ group = NoGroup /\ g \in DOMAIN members
    /\ MovableGroup(g, kind)
    /\ d \in members[g] /\ ~DestinationFits(g, d, kind)
    /\ \A e \in members[g] : Free(e) /\ (e < d => DestinationFits(g, e, kind))
    /\ doc' = [e \in Docs |->
                IF ~(e \in members[g] /\ e < d) THEN doc[e]
                ELSE IF kind = "undo" THEN [doc[e] EXCEPT !.redoCap = Grown(Len(doc[e].redo), @)]
                                      ELSE [doc[e] EXCEPT !.undoCap = Grown(Len(doc[e].undo), @)]]
    /\ UNCHANGED <<job, linked, unique, hidden, refused, SaveVars, GroupVars>>

---------------------------------------------------------------------------
(* Save points. *)

(* save_internal: the primary view is not busy; the save takes its         *)
(* snapshot and the view ends its typing run (seal_history).               *)
StartSave(d) ==
    /\ save[d] = NoSave /\ Free(d)
    /\ view[d].unsent = None /\ Alone /\ view[d].saves < MaxSaves
    /\ save' = [save EXCEPT ![d] = [state |-> doc[d].state, content |-> doc[d].content]]
    /\ view' = [view EXCEPT ![d].saves = @ + 1,
                            ![d].boundary[1] = Max({view[d].boundary[p] : p \in Panes(d)}) + 1]
    /\ UNCHANGED <<doc, job, linked, unique, disk, hidden, refused, GroupVars>>

SaveFails(d) ==
    /\ save[d] # NoSave
    /\ save' = [save EXCEPT ![d] = NoSave]
    /\ UNCHANGED <<doc, job, linked, unique, view, disk, hidden, refused, GroupVars>>

(* Faulty variant: a finished save cleans the state the view shows now. *)
SaveWrittenCurrent(d) ==
    /\ save[d] # NoSave
    /\ disk' = [disk EXCEPT ![d] = save[d].content]
    /\ view' = [view EXCEPT ![d].savedState = doc[d].state, ![d].unsent = doc[d].state]
    /\ save' = [save EXCEPT ![d] = NoSave]
    /\ UNCHANGED <<doc, job, linked, unique, hidden, refused, GroupVars>>

(* complete_save and mark_saved: the captured state becomes the view's     *)
(* clean state, and the document is told once its mailbox admits it.       *)
SaveWritten(d) ==
    /\ save[d] # NoSave
    /\ disk' = [disk EXCEPT ![d] = save[d].content]
    /\ view' = [view EXCEPT ![d].savedState = save[d].state, ![d].unsent = save[d].state]
    /\ save' = [save EXCEPT ![d] = NoSave]
    /\ UNCHANGED <<doc, job, linked, unique, hidden, refused, GroupVars>>

(* Mutation::MarkSaved, served in mailbox order before any later edit. *)
MarkSaved(d) ==
    /\ view[d].unsent # None /\ Free(d)
    /\ doc' = [doc EXCEPT ![d].saved = view[d].unsent]
    /\ view' = [view EXCEPT ![d].unsent = None]
    /\ UNCHANGED <<job, linked, unique, save, disk, hidden, refused, GroupVars>>

(* Input goes to the other pane of a split window.  Before it is applied,  *)
(* while neither view is busy, the history moves there with its typing run *)
(* (take_peer_history).                                                    *)
Activate(d, pane) ==
    /\ view[d].active # pane /\ Free(d)
    /\ view' = [view EXCEPT ![d].active = pane,
                            ![d].boundary[pane] = IF EntriesOf(doc[d]) = {} THEN @
                                                  ELSE view[d].boundary[view[d].active]]
    /\ UNCHANGED <<doc, job, linked, unique, save, disk, hidden, refused, GroupVars>>

---------------------------------------------------------------------------
WorkerStep(d) ==
    \/ Relieve(d) \/ CommitEdit(d) \/ RetryRelief(d) \/ EvictOwn(d) \/ CommitUntracked(d)
    \/ FinishMetadata(d) \/ FinishMove(d) \/ RefuseMove(d)

GroupStep == CommitGroup \/ \E d \in Docs : ChargeMember(d)

Mutate(d) ==
    \/ \E content \in ContentsUsed, cost \in CostsUsed :
          \/ \E typing, follows \in BOOLEAN : BeginEdit(d, content, typing, follows, cost)
          \/ BeginMetadata(d, content, cost)
    \/ \E kind \in {"undo", "redo"} : BeginMove(d, kind)
    \/ WorkerStep(d)
    \/ \E limit \in ChangeLimits : SetHistoryPolicy(d, limit)
    \/ StartSave(d) \/ SaveFails(d) \/ SaveWritten(d) \/ MarkSaved(d)
    \/ \E pane \in Panes(d) : Activate(d, pane)

MutateGroup ==
    \/ \E ds \in SUBSET open :
          \E content \in [ds -> ContentsUsed], cost \in [ds -> CostsUsed] :
              BeginGroupEdit(ds, content, cost)
    \/ GroupStep
    \/ \E g \in 1..MaxUnique, kind \in {"undo", "redo"} :
          MoveGroup(g, kind) \/ \E d \in open : RefuseGroupMove(g, kind, d)

Next == (MutateGroup \/ \E d \in open : Mutate(d)) /\ UNCHANGED <<open, split>>

Spec == Init /\ [][Next]_vars

---------------------------------------------------------------------------
(* Properties. *)

(* The entries of a document form one chain of versions through the text   *)
(* it shows: merging, trimming, eviction by other documents' workers and   *)
(* group moves never leave an entry that would restore another text.       *)
HistoryChains ==
    \A d \in Docs :
        LET x == doc[d]
            u == x.undo
            r == x.redo
        IN /\ u # <<>> => u[Len(u)].after = x.content /\ u[Len(u)].afterState = x.state
           /\ r # <<>> => r[Len(r)].before = x.content /\ r[Len(r)].beforeState = x.state
           /\ \A i \in 1..(Len(u) - 1) : u[i].after = u[i+1].before /\ u[i].afterState = u[i+1].beforeState
           /\ \A i \in 1..(Len(r) - 1) : r[i].before = r[i+1].after /\ r[i].beforeState = r[i+1].afterState

(* A view without the unsaved mark shows what the last save wrote, also    *)
(* when that save finished after newer edits, undos and redos.             *)
CleanIsOnDisk == \A d \in Docs : view[d].savedState = doc[d].state => doc[d].content = disk[d]

SavePointsReachable(ds) ==
    \A d \in ds : {doc[d].saved, view[d].savedState, save[d].state} \cap hidden[d] = {}

(* The text a save captured is never swallowed by an undo entry that       *)
(* spans it, so undo and redo can return to it (mark_saved_state,          *)
(* seal_history).  In a split window it is: see SplitSavePointReachable.   *)
SavePointReachable == SavePointsReachable(Docs \ split)

(* The same of a document in a split window, whose save seals the typing   *)
(* run of its primary view only, so that the code does not keep it.        *)
SplitSavePointReachable == SavePointsReachable(split)

(* While a group is linked each member still holds its entry, and all of   *)
(* them are on the same side: undone together or not undone.               *)
LinkedMoveTogether ==
    \A g \in linked :
        \/ \A d \in members[g] : \E i \in DOMAIN doc[d].undo : doc[d].undo[i].tag = g
        \/ \A d \in members[g] : \E i \in DOMAIN doc[d].redo : doc[d].redo[i].tag = g

(* Some document can always undo, alone or with its group: linked entries  *)
(* never wait for each other in a circle or for a partner that is gone.    *)
UndoNeverStuck ==
    (\E d \in Docs : doc[d].undo # <<>>)
        => \/ \E d \in Docs : doc[d].undo # <<>> /\ ~TopLinked(doc[d].undo)
           \/ \E g \in linked : MovableGroup(g, "undo")

(* The documents together never hold more than the shared budget, though   *)
(* relief and charge are separate steps of different workers.              *)
BudgetRespected == Available(doc) >= 0

(* A group edit that is refused has cost no document its history (the      *)
(* comment on group_admissible's use in run_group).  The code does not     *)
(* keep it when another document's worker takes the room meanwhile.        *)
GroupRefusalCostsNothing == refused = 0

(* The states that matter to a save of d; in a split window the code only   *)
(* keeps the one that was opened.                                          *)
Captured(d) == IF d \in split THEN {d} ELSE {doc[d].saved, save[d].state, view[d].unsent}

Version(content, state) == [content |-> content, state |-> state]
Timeline == INSTANCE EditTimeline WITH
    Docs <- Docs,
    Versions <- [content : Contents, state : Nat],
    past <- [d \in Docs |-> [i \in DOMAIN doc[d].undo |->
                Version(doc[d].undo[i].before, doc[d].undo[i].beforeState)]],
    present <- [d \in Docs |-> Version(doc[d].content, doc[d].state)],
    future <- [d \in Docs |-> [i \in DOMAIN doc[d].redo |->
                Version(doc[d].redo[i].after, doc[d].redo[i].afterState)]],
    typed <- [d \in Docs |-> doc[d].undo # <<>> /\ doc[d].undo[Len(doc[d].undo)].typing],
    pinned <- [d \in Docs |-> [content : Contents, state : Captured(d)]]

(* The history implements the timeline a user sees; in a split window only *)
(* the text that was opened is pinned, as saves are not (see above).       *)
ImplementsTimeline == Timeline!Spec
=============================================================================

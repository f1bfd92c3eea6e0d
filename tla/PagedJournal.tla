----------------------------- MODULE PagedJournal -----------------------------
(***************************************************************************)
(* The recovery journals of paged documents: what is on disk at every       *)
(* instant a crash or a power loss can strike, and what `restore` would     *)
(* make of it.                                                              *)
(*                                                                          *)
(* A journal directory holds a baseline (the text the journal starts from), *)
(* a log of checksummed records, a manifest with the durable watermark, one *)
(* root (recipe and receipt) per journaled revision, and a pointer to the   *)
(* newest root.  A root is complete, or a delta on an earlier one over the  *)
(* same append-only store of owned text.  A transfer between documents      *)
(* commits a root in every member's directory with one marker file in their *)
(* common parent.                                                           *)
(*                                                                          *)
(* Everything an append does happens under the journal's writer lock, so an *)
(* append is one action whose parameter says how far it came before it      *)
(* succeeded, failed or died with the process.  What runs beside it is the  *)
(* baseline worker, which takes the writer lock only to attach; the steps   *)
(* of a group commit, between which that worker can run; and the death of   *)
(* the process, after which the next one sweeps retired directories.        *)
(*                                                                          *)
(* A text is a serial number, new for every edit, so two edits that claim   *)
(* the same revision are told apart the way the receipts' hashes do.        *)
(***************************************************************************)
EXTENDS Integers, FiniteSets, Sequences, SequencesExt, FiniteSetsExt

CONSTANTS
    Docs,        \* the documents of the process, each with its own journal
    MaxChain,    \* MAX_DELTA_CHAIN, the most delta roots on one full root
    Scenes       \* what a behaviour may consist of, one of them chosen at the start

\* `baseline`: the worker's queue is full or its copy fails; `pointer`:
\* publishing paged-root.json or the manifest fails; `marker`: publishing a
\* group marker reports a failure although the rename took effect; `recipe`: a
\* root cannot be prepared, or its record is refused before anything is
\* written; `record`: a record, or the manifest naming the baseline, cannot be
\* written; `sweep`: the next process purges retired journals; `death`: the
\* process dies.
AllFaults == {"baseline", "pointer", "marker", "recipe", "record", "sweep", "death"}

\* Typed edits are published and then journaled; a streamed source edit is
\* journaled first and rejected with its record; Undo and Redo are journaled
\* first, published all the same, and the journal that missed one is retired.
\* A save retires the journal.
AllKinds == {"typed", "source", "history", "save"}

ASSUME BoundsAssumption ==
    /\ MaxChain \in Nat /\ IsFiniteSet(Docs) /\ IsFiniteSet(Scenes) /\ Scenes # {}
    /\ \A s \in Scenes :
         /\ s.docs \subseteq Docs        \* the documents that are open
         /\ s.kinds \subseteq AllKinds   \* what the user does
         /\ s.faults \subseteq AllFaults \* what may fail
         /\ s.edits \in Nat              \* bound: edits ever tried, by all of them together
         /\ s.groups \in Nat             \* bound: group commits ever tried

MaxGroups == Max({s.groups : s \in Scenes})
Texts == 0 .. Max({s.edits : s \in Scenes})
Revs  == 0 .. Max({s.edits + s.groups : s \in Scenes})

VARIABLES
    disk,      \* the journal directory of each document
    marks,     \* the group-<id>.commit.json markers of their parent
    mem,       \* each document and its PagedRecovery, in memory
    base,      \* how far the baseline worker came for each journal
    group,     \* the group commit in progress
    serial,    \* texts handed out so far
    tries,     \* group commits begun so far
    up,        \* the process runs
    scene      \* the scene this behaviour is of; it never changes

moving == <<disk, marks, mem, base, group, serial, tries, up>>
vars == <<moving, scene>>

MayFail(fault) == fault \in scene.faults
MayEdit(kind)  == kind \in scene.kinds /\ serial < scene.edits

(***************************************************************************)
(* The data on disk                                                         *)
(***************************************************************************)
File  == [rev : Revs, text : Texts]
Root  == [rev : Revs, text : Texts, base : Revs, baseText : Texts,
          depth : 0 .. MaxChain, store : File]
Frame == [rev : Revs, text : Texts, ok : BOOLEAN]

NoFile    == [rev |-> 0, text |-> 0]
NoRoot    == [rev |-> 0, text |-> 0, base |-> 0, baseText |-> 0, depth |-> 0,
              store |-> NoFile]
NoPointer == [id |-> 0, rev |-> 0, prevId |-> 0, prevRev |-> 0]

Directory == [there : BOOLEAN, retired : BOOLEAN, journal : Seq(Frame),
              watermark : Revs, named : BOOLEAN, baseline : BOOLEAN,
              source : BOOLEAN, pointer : Root, receipts : SUBSET Root,
              recipes : SUBSET File, stores : SUBSET File,
              group : [id : 0 .. MaxGroups, rev : Revs,
                       prevId : 0 .. MaxGroups, prevRev : Revs],
              intents : SUBSET [id : 1 .. MaxGroups, root : Root]]

EmptyDirectory ==
    [there |-> TRUE, retired |-> FALSE, journal |-> <<>>, watermark |-> 0,
     named |-> FALSE, baseline |-> FALSE, source |-> FALSE, pointer |-> NoRoot,
     receipts |-> {}, recipes |-> {}, stores |-> {}, group |-> NoPointer,
     intents |-> {}]

Marked(id) == \E m \in marks : m.id = id

FileOf(r) == [rev |-> r.rev, text |-> r.text]

(***************************************************************************)
(* `restore`                                                                *)
(***************************************************************************)
\* The receipts, among `known`, whose chain of deltas is whole: every recipe is
\* there with the hash its receipt names, down to a full root of the same store.
WholeRoots(k, known) ==
    LET Present == {r \in known : FileOf(r) \in k.recipes}
        whole[n \in 0 .. MaxChain] ==
          IF n = 0
          THEN {r \in Present : r.base = 0 /\ r.depth = 0}
          ELSE {r \in Present :
                  /\ r.depth = n /\ r.base # 0
                  /\ \E b \in whole[n - 1] :
                       /\ b \in k.receipts
                       /\ b.rev = r.base /\ b.text = r.baseText
                       /\ b.store = r.store}
    IN  UNION {whole[n] : n \in 0 .. MaxChain}

\* `scan`: the records before the first one that is torn or does not replay.
ValidRecords(k) ==
    IF \A i \in DOMAIN k.journal : k.journal[i].ok THEN k.journal
    ELSE SubSeq(k.journal, 1,
                Min({i \in DOMAIN k.journal : ~k.journal[i].ok}) - 1)

DurableRecord(k) ==
    LET v == ValidRecords(k) IN IF v = <<>> THEN 0 ELSE v[Len(v)].rev

CorruptTail(k) ==
    \/ Len(ValidRecords(k)) < Len(k.journal)
    \/ DurableRecord(k) < k.watermark

\* A result is a root, or None (rev 0), or Failed (rev -1).
None   == NoRoot
Failed == [NoRoot EXCEPT !.rev = -1]

\* Faulty variant: the member's own intent is enough, marker or not.
CommittedByIntent(ds, d) ==
    IF ds[d].group.id = 0 THEN None
    ELSE (CHOOSE i \in ds[d].intents : i.id = ds[d].group.id).root

\* A member of group `id` verifies: its directory holds the intent the marker
\* names, and the recipe and the owned text of that root.
Verified(k, id, m) ==
    /\ k.there
    /\ \E i \in k.intents :
         /\ i.id = id /\ i.root.rev = m.rev /\ i.root.text = m.text
         /\ FileOf(i.root) \in k.recipes /\ i.root.store \in k.stores

\* d's root in the committed group `id`, which its pointer says is at `rev`.
RootInGroup(ds, d, id, rev) ==
    IF \A m \in marks : m.id = id =>
            /\ \A o \in m.members : Verified(ds[o.doc], id, o)
            /\ \E o \in m.members : o.doc = d /\ o.rev = rev
    THEN (CHOOSE i \in ds[d].intents : i.id = id).root
    ELSE Failed

\* `group::committed_root`: the pointer's group when its marker exists, else the
\* committed group the pointer remembers.
CommittedRoot(ds, d) ==
    IF Marked(ds[d].group.id) THEN RootInGroup(ds, d, ds[d].group.id, ds[d].group.rev)
    ELSE IF ds[d].group.prevId = 0 THEN None
    ELSE IF ~Marked(ds[d].group.prevId) THEN Failed
    ELSE RootInGroup(ds, d, ds[d].group.prevId, ds[d].group.prevRev)

\* The newest receipt at or below `rev` whose root is whole; Failed if none is.
ReceiptAtOrBelow(k, rev) ==
    LET fit == {r \in WholeRoots(k, k.receipts) : r.rev <= rev}
    IN  IF fit = {} THEN Failed
        ELSE CHOOSE r \in fit : \A o \in fit : o.rev <= r.rev

\* The steps of `restore` on directory k, whose committed group root is g and
\* whose last valid record is dr.  `fell`: an older receipt stood in.
AcceptRoot(k, g, dr, fell, root) ==
    IF \/ root = Failed \/ ~(k.named /\ k.baseline)
       \/ ~fell /\ dr # root.rev /\ (g = None \/ g.rev # root.rev)
       \/ root \notin WholeRoots(k, {root} \cup k.receipts)
       \/ root.store \notin k.stores
    THEN Failed ELSE root

AtDurable(k, g, dr, fell, root, next) ==
    AcceptRoot(k, g, dr, fell \/ (next # root /\ next.rev # dr), next)

\* The journal's last record, when it is newer or the group does not reach it.
FromGroup(k, g, dr, fell, root) ==
    AtDurable(k, g, dr, fell, root,
              IF dr # 0 /\ dr # root.rev /\ (dr > root.rev \/ g = None \/ g.rev < root.rev)
              THEN ReceiptAtOrBelow(k, dr) ELSE root)

\* The group's root when it is not older.
FromCut(k, g, dr, start, root) ==
    IF root = Failed THEN Failed
    ELSE FromGroup(k, g, dr, root # start /\ root.rev # dr,
                   IF g # None /\ g.rev >= root.rev THEN g ELSE root)

\* A damaged tail holds restore to what was validated.
FromStart(k, g, dr, start) ==
    FromCut(k, g, dr, start,
            IF CorruptTail(k) /\ dr # 0 /\ dr < start.rev /\ (g = None \/ g.rev < start.rev)
            THEN ReceiptAtOrBelow(k, dr) ELSE start)

\* Start from paged-root.json, or without one from the committed group.
RestoreFrom(k, g) ==
    IF \/ ~k.there \/ k.retired \/ ~k.source \/ g = Failed
       \/ k.pointer = NoRoot /\ g = None
    THEN Failed
    ELSE FromStart(k, g, DurableRecord(k), IF k.pointer # NoRoot THEN k.pointer ELSE g)

Restore(ds, d) == RestoreFrom(ds[d], CommittedRoot(ds, d))

(***************************************************************************)
(* The process                                                              *)
(***************************************************************************)
NoBatch == [rev |-> 0, text |-> 0, from |-> 0]
NoStore == [store |-> NoFile, chain |-> NoRoot]

NewMemory ==
    [open |-> TRUE,          \* the document holds its PagedRecovery
     head |-> 0,             \* the newest published revision
     poisoned |-> FALSE,     \* RecoveryWriter::poisoned
     durable |-> 0,          \* RecoveryWriter's manifest.durable
     acked |-> NoFile,       \* PagedRecoveryStatus::durable, and its text
     skipped |-> FALSE,      \* a record starts from a text the log never reached
     roots |-> {},           \* PagedRecovery::roots
     groupRoots |-> {},      \* PagedRecovery::group_roots
     owned |-> NoStore,      \* PagedRecovery::owned, with its chain head
     deferred |-> NoBatch]   \* PagedRecovery::deferred

\* The commit in progress: its members, the texts it used of those set aside
\* for it, the roots prepared so far, whether the marker is published, and the members whose own journal has yet to continue.
NoGroup == [id |-> 0, members |-> {}, text |-> 0, roots |-> [d \in Docs |-> NoRoot],
            marked |-> FALSE, left |-> {}]

Init ==
    /\ scene \in Scenes
    /\ disk = [d \in Docs |-> EmptyDirectory]
    /\ marks = {}
    /\ mem = [d \in Docs |-> [NewMemory EXCEPT !.open = d \in scene.docs]]
    /\ base \in [Docs -> {"copying", "failed"}]
    /\ \A d \in Docs :
         IF d \in scene.docs THEN base[d] = "copying" \/ MayFail("baseline")
         ELSE base[d] = "failed"
    /\ group = NoGroup
    /\ serial = 0 /\ tries = 0
    /\ up = TRUE

\* The revision a new edit of d makes, and the text its record starts from.
NextRev(d) == mem[d].head + 1
Tip(d) == LET j == disk[d].journal IN IF j = <<>> THEN 0 ELSE j[Len(j)].rev

\* Faulty variant: a failed record does not stop the next one.
WritablePoisoned(d, rev) == ~disk[d].retired /\ mem[d].durable < rev

\* `ensure_writable` and the watermark check of `prepare_recipe_revision`.
Writable(d, rev) ==
    /\ ~mem[d].poisoned /\ ~disk[d].retired
    /\ mem[d].durable < rev

\* `prepare_recipe_revision` removes what an earlier try of `rev` left.
Cleared(k, rev) ==
    [k EXCEPT !.recipes  = {f \in @ : f.rev # rev},
              !.receipts = {r \in @ : r.rev # rev},
              !.stores   = {f \in @ : f.rev # rev}]

\* `prepare_root`: a full root or a delta on the store's chain head, over the
\* journal's store when it can be continued, else over a new one.
OrdinaryRoots(d, rev, text) ==
    LET own  == mem[d].owned
        over == IF own = NoStore THEN [rev |-> rev, text |-> text] ELSE own.store
        Full == [rev |-> rev, text |-> text, base |-> 0, baseText |-> 0,
                 depth |-> 0, store |-> over]
        Delta == [rev |-> rev, text |-> text, base |-> own.chain.rev,
                  baseText |-> own.chain.text, depth |-> own.chain.depth + 1,
                  store |-> over]
    IN  {Full} \cup IF own = NoStore \/ own.chain.depth >= MaxChain \/ own.chain.rev >= rev
                    THEN {} ELSE {Delta}

\* Group markers pin a complete root over a file of its own.
GroupRoot(rev, text) ==
    [rev |-> rev, text |-> text, base |-> 0, baseText |-> 0, depth |-> 0,
     store |-> [rev |-> rev, text |-> text]]

WithRecipe(k, root) ==
    [k EXCEPT !.recipes = @ \cup {FileOf(root)}, !.stores = @ \cup {root.store}]
WithReceipt(k, root) ==
    [WithRecipe(k, root) EXCEPT !.receipts = @ \cup {root}]
WithFrame(k, root, ok) ==
    [k EXCEPT !.journal = Append(@, [rev |-> root.rev, text |-> root.text, ok |-> ok])]

\* A record whose edits start from a text the journal does not reach may or
\* may not replay: its inverse bytes are compared with the text it meets.
Replays(d, from) == IF from = Tip(d) THEN {TRUE} ELSE BOOLEAN

\* `checkpoint` and `attach_baseline` publish the writer's own manifest.
Checkpointed(k, durable) == [k EXCEPT !.watermark = durable]

\* What an append that came as far as `stage` leaves in the directory:
\*   recipe, receipt   the process died there (an error cleans both up)
\*   segment           the record's payload could not be written
\*   torn, frame       the record is partly, or fully, there but not synced
\*   record            durable; the pointer was not replaced
\*   pointer           durable; the manifest was not replaced
\*   checkpoint        all done
LoggedAfter(k, root, ok, stage) ==
    LET logged  == WithFrame(k, root, ok)
        pointed == [logged EXCEPT !.pointer = root]
    IN  CASE stage \in {"receipt", "segment"} -> k
          [] stage = "torn"                   -> WithFrame(k, root, FALSE)
          [] stage \in {"frame", "record"}    -> logged
          [] stage = "pointer"                -> pointed
          [] stage = "checkpoint"             -> Checkpointed(pointed, root.rev)

DiskAfter(k, root, ok, stage) ==
    IF stage = "recipe" THEN WithRecipe(Cleared(k, root.rev), root)
    ELSE LoggedAfter(WithReceipt(Cleared(k, root.rev), root), root, ok, stage)

Acknowledged == {"record", "pointer", "checkpoint"}

\* The stages an append can end at, by the failures the run allows.
FailStages  == IF MayFail("record") THEN {"segment", "torn", "frame"} ELSE {}
DoneStages  == {"checkpoint"} \cup IF MayFail("pointer") THEN {"record", "pointer"} ELSE {}
DeathStages == IF MayFail("death")
               THEN {"recipe", "receipt", "torn", "frame", "pointer", "checkpoint"} ELSE {}

\* Faulty variant: the root before the newest is pruned too.
KeepsNewest(roots, groupRoots, own) ==
    LET pinned == {r \in roots : r.rev \in groupRoots \/ \A o \in roots : o.rev <= r.rev}
        kept[n \in 0 .. MaxChain] ==
          IF n = 0 THEN pinned
          ELSE kept[n - 1] \cup {r \in roots : \E o \in kept[n - 1] : o.base = r.rev}
    IN  kept[MaxChain]

\* `remember_root`: the newest two roots, the group's roots and the store's
\* newest root stay, with every base their chains name.
KeptRoots(roots, groupRoots, own) ==
    LET newest == {r \in roots : Cardinality({o \in roots : o.rev > r.rev}) < 2}
        pinned == {r \in roots : r.rev \in groupRoots \/ r.rev = own.chain.rev}
        kept[n \in 0 .. MaxChain] ==
          IF n = 0 THEN newest \cup pinned
          ELSE kept[n - 1] \cup {r \in roots : \E o \in kept[n - 1] : o.base = r.rev}
    IN  kept[MaxChain]

Pruned(k, roots, kept, own) ==
    LET gone == roots \ kept
        revs == {r.rev : r \in gone}
        used == {r.store : r \in kept} \cup {own.store}
    IN  [k EXCEPT !.recipes  = {f \in @ : f.rev \notin revs},
                  !.receipts = {r \in @ : r.rev \notin revs},
                  !.stores   = {f \in @ : f \notin {r.store : r \in gone} \ used}]

\* The journal names `root` durably: acknowledge it, keep its store, prune.
Settle(d, k, root, own, groupRoots, extra) ==
    LET roots == mem[d].roots \cup {root}
        kept  == KeptRoots(roots, groupRoots, own)
    IN  /\ disk' = [disk EXCEPT ![d] = Pruned(k, roots, kept, own)]
        /\ mem' = [mem EXCEPT ![d] = [extra EXCEPT
                     !.acked = FileOf(root), !.owned = own,
                     !.roots = kept, !.groupRoots = groupRoots]]

(***************************************************************************)
(* Appends                                                                  *)
(***************************************************************************)
\* The document's journal may be used: its recovery lock is free.
Free(d) == up /\ mem[d].open /\ d \notin group.members

Die == up' = FALSE /\ group' = NoGroup

\* `abandon_recovery` detaches the journal and, unless that fails, tombstones it.
Abandoned(k, missed) ==
    IF missed.open THEN {k} ELSE {k, [k EXCEPT !.retired = TRUE]}

\* `append_now`, `append_sources` and `append_source_history`: the root of `rev`
\* is durable before the record that names it; `after` is the document once
\* the edit is journaled, `missed` once it is not.
JournalEdit(d, rev, text, from, after, missed) ==
    \/ \E root \in OrdinaryRoots(d, rev, text), ok \in Replays(d, from), stage \in DoneStages :
         /\ Writable(d, rev)
         /\ Settle(d, DiskAfter(disk[d], root, ok, stage), root,
                   [store |-> root.store, chain |-> root], mem[d].groupRoots,
                   [after EXCEPT !.durable = rev, !.skipped = @ \/ from # Tip(d)])
         /\ UNCHANGED <<up, group>>
    \/ \E root \in OrdinaryRoots(d, rev, text), ok \in Replays(d, from), stage \in FailStages :
         /\ Writable(d, rev)
         /\ \E k \in Abandoned(DiskAfter(disk[d], root, ok, stage), missed) :
              disk' = [disk EXCEPT ![d] = k]
         /\ mem' = [mem EXCEPT ![d] = [missed EXCEPT !.poisoned = TRUE, !.owned = NoStore]]
         /\ UNCHANGED up /\ group' = IF d \in group.members THEN NoGroup ELSE group
    \/ /\ ~Writable(d, rev) \/ MayFail("recipe") \/ from # Tip(d)
       /\ \E k \in Abandoned(IF Writable(d, rev) THEN Cleared(disk[d], rev) ELSE disk[d], missed) :
            disk' = [disk EXCEPT ![d] = k]
       /\ mem' = [mem EXCEPT ![d] = [missed EXCEPT !.owned = NoStore]]
       /\ UNCHANGED up /\ group' = IF d \in group.members THEN NoGroup ELSE group
    \/ \E root \in OrdinaryRoots(d, rev, text), ok \in Replays(d, from), stage \in DeathStages :
         /\ Writable(d, rev)
         /\ disk' = [disk EXCEPT ![d] = DiskAfter(disk[d], root, ok, stage)]
         /\ Die /\ UNCHANGED mem

\* A typed edit, journaled now: the document has already published it, and the
\* batch that waited goes with it as one record.
TypeNow(d) ==
    /\ Free(d) /\ MayEdit("typed")
    /\ LET next == [mem[d] EXCEPT !.head = @ + 1, !.deferred = NoBatch]
           from == IF mem[d].deferred = NoBatch THEN mem[d].head ELSE mem[d].deferred.from
       IN  JournalEdit(d, NextRev(d), serial + 1, from, next, next)
    /\ serial' = serial + 1 /\ UNCHANGED <<marks, base, tries>>

\* `defer`: the edit joins the batch, which starts where its first edit did.
TypeDeferred(d) ==
    /\ Free(d) /\ MayEdit("typed")
    /\ mem' = [mem EXCEPT ![d] =
         [@ EXCEPT !.head = @ + 1,
                   !.deferred = [rev |-> NextRev(d), text |-> serial + 1,
                                 from |-> IF @ = NoBatch THEN mem[d].head ELSE @.from]]]
    /\ serial' = serial + 1 /\ UNCHANGED <<disk, marks, base, group, tries, up>>

\* Faulty variant: a batch that cannot be journaled is kept for another try.
FlushKeepsBatch(d) ==
    /\ Free(d) \/ (up /\ d \in group.members /\ group.roots[d] = NoRoot)
    /\ mem[d].deferred # NoBatch
    /\ LET b == mem[d].deferred
       IN  JournalEdit(d, b.rev, b.text, b.from, [mem[d] EXCEPT !.deferred = NoBatch], mem[d])
    /\ UNCHANGED <<marks, base, serial, tries>>

\* `flush_deferred`, alone or from a group commit, which ends when it fails.
FlushDeferred(d) ==
    /\ Free(d) \/ (up /\ d \in group.members /\ group.roots[d] = NoRoot)
    /\ mem[d].deferred # NoBatch
    /\ LET b == mem[d].deferred
           m == [mem[d] EXCEPT !.deferred = NoBatch]
       IN  JournalEdit(d, b.rev, b.text, b.from, m, m)
    /\ UNCHANGED <<marks, base, serial, tries>>

\* A streamed edit holds the document's commit lease: journaled, then published;
\* a failure rejects it.
EditSources(d) ==
    /\ Free(d) /\ MayEdit("source")
    /\ mem[d].deferred = NoBatch
    /\ JournalEdit(d, NextRev(d), serial + 1, mem[d].head,
                   [mem[d] EXCEPT !.head = @ + 1], mem[d])
    /\ serial' = serial + 1 /\ UNCHANGED <<marks, base, tries>>

\* Undo or Redo is published either way; `abandon_recovery` retires a journal
\* that missed it.
EditHistory(d) ==
    /\ Free(d) /\ MayEdit("history")
    /\ mem[d].deferred = NoBatch
    /\ JournalEdit(d, NextRev(d), serial + 1, mem[d].head,
                   [mem[d] EXCEPT !.head = @ + 1],
                   [mem[d] EXCEPT !.head = @ + 1, !.open = FALSE])
    /\ serial' = serial + 1 /\ UNCHANGED <<marks, base, tries>>

\* The document was saved: its journal is detached and, unless that fails,
\* tombstoned.
Retire(d) ==
    /\ Free(d) /\ "save" \in scene.kinds
    /\ \E done \in BOOLEAN : disk' = [disk EXCEPT ![d].retired = done]
    /\ mem' = [mem EXCEPT ![d].open = FALSE, ![d].deferred = NoBatch]
    /\ UNCHANGED <<marks, base, group, serial, tries, up>>

(***************************************************************************)
(* The baseline worker                                                      *)
(***************************************************************************)
\* The job settles its status and wakes whoever waits for the baseline.
BaselineFails(d) ==
    /\ base' = [base EXCEPT ![d] = "failed"]
    /\ UNCHANGED mem

\* Retain the source and copy the text; an error removes the copy.
CopyBaseline(d) ==
    /\ up /\ base[d] = "copying"
    /\ \/ /\ base' = [base EXCEPT ![d] = "copied"]
          /\ disk' = [disk EXCEPT ![d].baseline = TRUE] /\ UNCHANGED mem
       \/ MayFail("baseline") /\ BaselineFails(d) /\ UNCHANGED disk
    /\ UNCHANGED <<marks, group, serial, tries, up>>

\* paged-source.json; dropping the preparation removes the copy.
PublishSource(d) ==
    /\ up /\ base[d] = "copied"
    /\ \/ /\ base' = [base EXCEPT ![d] = "published"]
          /\ disk' = [disk EXCEPT ![d].source = TRUE] /\ UNCHANGED mem
       \/ /\ MayFail("baseline") /\ BaselineFails(d)
          /\ \E seen \in BOOLEAN :
               disk' = [disk EXCEPT ![d].source = seen, ![d].baseline = FALSE]
    /\ UNCHANGED <<marks, group, serial, tries, up>>

\* `attach_baseline`: refused by a poisoned or retired journal, which drops the
\* copy; a failed publication may already name the copy, so it stays.
AttachBaseline(d) ==
    /\ up /\ base[d] = "published"
    /\ \/ /\ mem[d].poisoned \/ disk[d].retired
          /\ BaselineFails(d)
          /\ disk' = [disk EXCEPT ![d].baseline = FALSE]
       \/ /\ ~mem[d].poisoned /\ ~disk[d].retired
          /\ base' = [base EXCEPT ![d] = "complete"]
          /\ disk' = [disk EXCEPT ![d] = [Checkpointed(@, mem[d].durable) EXCEPT !.named = TRUE]]
          /\ UNCHANGED mem
       \/ /\ ~mem[d].poisoned /\ ~disk[d].retired /\ MayFail("record")
          /\ base' = [base EXCEPT ![d] = "failed"]
          /\ \E seen \in BOOLEAN :
               disk' = [disk EXCEPT ![d] = IF seen
                          THEN [Checkpointed(@, mem[d].durable) EXCEPT !.named = TRUE] ELSE @]
          /\ mem' = [mem EXCEPT ![d].poisoned = TRUE]
    /\ UNCHANGED <<marks, group, serial, tries, up>>

(***************************************************************************)
(* Group commits                                                            *)
(***************************************************************************)
GroupBegin(S) ==
    /\ group = NoGroup /\ tries < scene.groups /\ serial + Cardinality(S) <= scene.edits
    /\ Cardinality(S) >= 2 /\ \A d \in S : Free(d)
    /\ tries' = tries + 1 /\ serial' = serial + Cardinality(S)
    /\ group' = [NoGroup EXCEPT !.id = tries + 1, !.members = S, !.text = serial]
    /\ UNCHANGED <<disk, marks, mem, base, up>>

\* The pointer names the new group and remembers the last committed one.
NextPointer(k, id, rev) ==
    IF Marked(k.group.id)
    THEN [id |-> id, rev |-> rev, prevId |-> k.group.id, prevRev |-> k.group.rev]
    ELSE [id |-> id, rev |-> rev, prevId |-> k.group.prevId, prevRev |-> k.group.prevRev]

\* One member: wait for its baseline, then publish its root, its intent and its
\* group pointer.  `stage` is the last of them that reached the disk; an error
\* ends the commit and leaves what is there.
GroupPrepare(d) ==
    /\ up /\ group.id # 0 /\ ~group.marked
    /\ d \in group.members /\ group.roots[d] = NoRoot /\ mem[d].deferred = NoBatch
    /\ base[d] = "complete" /\ Writable(d, NextRev(d))
    /\ LET root    == GroupRoot(NextRev(d), group.text + 1)
           rooted  == WithReceipt(Cleared(disk[d], root.rev), root)
           intent  == [rooted EXCEPT !.intents = @ \cup {[id |-> group.id, root |-> root]}]
           pointed == [intent EXCEPT !.group = NextPointer(disk[d], group.id, root.rev)]
       IN  \/ /\ disk' = [disk EXCEPT ![d] = pointed]
              /\ group' = [group EXCEPT !.roots[d] = root, !.text = @ + 1]
           \/ /\ \E k \in {rooted, intent, pointed} : disk' = [disk EXCEPT ![d] = k]
              /\ group' = NoGroup
    /\ UNCHANGED <<marks, mem, base, serial, tries, up>>

\* A member whose baseline failed, or whose journal takes no more records.
GroupRefused(d) ==
    /\ up /\ group.id # 0 /\ ~group.marked
    /\ d \in group.members /\ group.roots[d] = NoRoot
    /\ base[d] = "failed" \/ ~Writable(d, NextRev(d))
    /\ group' = NoGroup
    /\ UNCHANGED <<disk, marks, mem, base, serial, tries, up>>

\* The transfer is cancelled, or its marker cannot be published.
GroupAbort ==
    /\ up /\ group.id # 0 /\ ~group.marked
    /\ group' = NoGroup
    /\ UNCHANGED <<disk, marks, mem, base, serial, tries, up>>

\* `told`: whether the commit learned that its marker is published; a name for
\* properties to use, restore does not see it.
Mark(told) ==
        [id |-> group.id, told |-> told,
         members |-> {[doc |-> d, rev |-> group.roots[d].rev, text |-> group.roots[d].text] :
                        d \in group.members}]

\* The marker is the commit point.  When its folder cannot be synced after the
\* rename, the commit fails and the documents go on without it.
GroupMark ==
    /\ up /\ group.id # 0 /\ ~group.marked
    /\ \A d \in group.members : group.roots[d] # NoRoot
    /\ \/ /\ marks' = marks \cup {Mark(TRUE)}
          /\ group' = [group EXCEPT !.marked = TRUE, !.left = group.members]
       \/ /\ MayFail("marker")
          /\ marks' = marks \cup {Mark(FALSE)} /\ group' = NoGroup
    /\ UNCHANGED <<disk, mem, base, serial, tries, up>>

\* Each member's own journal continues after the marker; one that cannot is
\* poisoned, and the committed root is acknowledged either way.
GroupContinue(d) ==
    /\ up /\ group.marked /\ d \in group.left
    /\ LET root == group.roots[d]
           failing == FailStages \cup (DoneStages \ {"checkpoint"})
                        \cup IF MayFail("recipe") THEN {"receipt"} ELSE {}
       IN  \E ok \in Replays(d, mem[d].head), stage \in {"checkpoint"} \cup failing :
             /\ (mem[d].poisoned \/ disk[d].retired) => stage = "receipt"
             /\ Settle(d, LoggedAfter(disk[d], root, ok, stage), root, mem[d].owned,
                       mem[d].groupRoots \cup {root.rev},
                       [mem[d] EXCEPT !.head = root.rev,
                          !.durable = IF stage \in Acknowledged THEN root.rev ELSE @,
                          !.poisoned = @ \/ stage # "checkpoint",
                          !.skipped = @ \/ (stage \in Acknowledged /\ mem[d].head # Tip(d))])
    /\ group' = IF group.left = {d} THEN NoGroup ELSE [group EXCEPT !.left = @ \ {d}]
    /\ UNCHANGED <<marks, base, serial, tries, up>>

(***************************************************************************)
(* The death of the process, and the next one's startup sweep               *)
(***************************************************************************)
Crash ==
    /\ up /\ MayFail("death")
    /\ Die /\ UNCHANGED <<disk, marks, mem, base, serial, tries>>

Sweep(d) ==
    /\ ~up /\ MayFail("sweep")
    /\ disk[d].there /\ disk[d].retired
    /\ disk' = [disk EXCEPT ![d] = [EmptyDirectory EXCEPT !.there = FALSE]]
    /\ UNCHANGED <<marks, mem, base, group, serial, tries, up>>

Step ==
    \/ \E d \in Docs :
         \/ TypeNow(d) \/ TypeDeferred(d) \/ FlushDeferred(d)
         \/ EditSources(d) \/ EditHistory(d) \/ Retire(d)
         \/ CopyBaseline(d) \/ PublishSource(d) \/ AttachBaseline(d)
         \/ GroupPrepare(d) \/ GroupRefused(d) \/ GroupContinue(d) \/ Sweep(d)
    \/ \E S \in SUBSET Docs : GroupBegin(S)
    \/ GroupAbort \/ GroupMark \/ Crash

Next == Step /\ UNCHANGED scene

Spec == Init /\ [][Next]_vars

\* The baseline worker, the transfer's worker and the view's idle flush keep
\* running while the process does; nothing obliges a user to act.
FairSpec ==
    /\ Spec
    /\ WF_moving(GroupMark)
    /\ \A d \in Docs :
         /\ WF_moving(CopyBaseline(d) \/ PublishSource(d) \/ AttachBaseline(d))
         /\ WF_moving(GroupPrepare(d) \/ GroupRefused(d) \/ GroupContinue(d))
         /\ WF_moving(FlushDeferred(d))

(***************************************************************************)
(* Correctness                                                              *)
(***************************************************************************)
\* The state has the shape the definitions above give it.
TypeOK ==
    /\ disk \in [Docs -> Directory]
    /\ \A d \in Docs :
         /\ mem[d].head \in Revs /\ mem[d].durable \in Revs /\ mem[d].acked \in File
         /\ mem[d].roots \subseteq Root /\ mem[d].groupRoots \subseteq Revs
         /\ mem[d].owned \in [store : File, chain : Root]
         /\ mem[d].deferred \in [rev : Revs, text : Texts, from : Revs]
    /\ base \in [Docs -> {"copying", "copied", "published", "complete", "failed"}]
    /\ serial \in Texts /\ tries \in 0 .. MaxGroups /\ up \in BOOLEAN

\* The journal protects its document: there, not retired, baseline attached.
Protecting(k) == k.there /\ ~k.retired /\ k.named /\ k.baseline

\* Restore has somewhere to start from.
Started(d) == disk[d].pointer # NoRoot \/ CommittedRoot(disk, d) # None

\* Two things undo what a marker committed, for every member, because restore
\* verifies all of them: a member's directory is swept once its document was
\* saved; or the commit was not told of its marker, and a member's next edit took
\* the revision of its root (see SurvivorRestorable and CommittedEvidenceKept).
Undermined(m) ==
    \E o \in m.members :
      \/ ~disk[o.doc].there
      \/ ~m.told /\ [rev |-> o.rev, text |-> o.text] \notin disk[o.doc].recipes

\* r is d's root in a group whose marker the commit was not told of.
RootOfUntold(d, r) ==
    \E m \in marks : ~m.told /\ [doc |-> d, rev |-> r.rev, text |-> r.text] \in m.members

\* Restore of d does not rest on such a marker.
SoundGroup(d) ==
    \A m \in marks :
      m.id = (IF Marked(disk[d].group.id) THEN disk[d].group.id ELSE disk[d].group.prevId)
        => ~Undermined(m)

\* Whatever instant the process dies at, an acknowledged revision is what
\* restore returns, or a later one that was being journaled; and while the
\* journal is healthy and idle it is exactly that revision with its text, or
\* the transfer a marker committed although its publication reported a failure.
\* The premises exclude what the code's comments wrongly rule out: a journal that
\* no pointer and no group ever named (PointerFailureFallsBack), one extended
\* past a revision it has no record of (`skipped`, GapNeverExtended), and an
\* undermined marker (paged_recovery.rs append_now and restore).
AcknowledgedRestorable ==
    \A d \in Docs :
      LET a == mem[d].acked
      IN  (Protecting(disk[d]) /\ a # NoFile /\ Started(d) /\ ~mem[d].skipped
           /\ SoundGroup(d)) =>
            \E r \in {Restore(disk, d)} :
              /\ r.rev >= a.rev
              /\ r.rev = a.rev => r.text = a.text
              /\ (up /\ ~mem[d].poisoned /\ d \notin group.members) =>
                   FileOf(r) = a \/ RootOfUntold(d, r)

\* Were the newest record damaged on the medium, restore would find the record
\* before it, or the group commit that is newer: pruning keeps the newest two
\* roots with the chains they stand on (paged_recovery.rs remember_root).
FallbackRestorable ==
    \A d \in Docs :
      LET k == disk[d]
          n == Len(k.journal)
      IN  (/\ Protecting(k) /\ n >= 2 /\ k.pointer # NoRoot
           /\ \A i \in 1 .. n : k.journal[i].ok
           /\ ~mem[d].poisoned /\ up /\ SoundGroup(d)) =>
            \E g \in {CommittedRoot(disk, d)} :
              RestoreFrom([k EXCEPT !.journal[n].ok = FALSE], g).rev
                = Max({k.journal[n - 1].rev, g.rev})

\* A group commit is all or nothing, whichever write of its many fails or is the
\* last: with the marker every member that still protects its document restores
\* to at least its root in the group, and without it no member restores to a
\* text the group prepared.  That holds of a marker whose publication reported a
\* failure too, until an edit reuses a revision of it; what is excluded is an
\* undermined marker, and a journal extended over a gap (`skipped`)
\* (paged_group_recovery.rs commit and committed_root).
GroupAllOrNothing ==
    \A d \in Docs : \E r \in {Restore(disk, d)} :
      /\ (Protecting(disk[d]) /\ ~mem[d].skipped /\ SoundGroup(d)) =>
           \A m \in marks : \A o \in m.members : (o.doc = d /\ ~Undermined(m)) =>
             /\ r.rev >= o.rev
             /\ r.rev = o.rev => r.text = o.text
      /\ \A i \in disk[d].intents : ~Marked(i.id) => r.text # i.root.text

\* A manifest never names a baseline whose copy was dropped
\* (recovery/mod.rs attach_baseline and PreparedBaseline's Drop).
NamedBaselineStays ==
    \A d \in Docs : (disk[d].there /\ disk[d].named) => disk[d].baseline

\* A group commit ends: it waits for baselines the worker settles without the
\* recovery locks the commit holds (paged_group_recovery.rs commit, BaselineSignal).
GroupEnds == group.id # 0 ~> (group.id = 0 \/ ~up)

\* A deferred batch is journaled, dropped with a report, or goes with its
\* journal (paged_recovery.rs flush_deferred and Drop).
BatchSettles == \A d \in Docs : mem[d].deferred # NoBatch ~> (mem[d].deferred = NoBatch \/ ~up)

(***************************************************************************)
(* What the code's comments claim and the code does not do                  *)
(***************************************************************************)
\* paged_recovery.rs append_now: a pointer that cannot be published does not
\* matter, because restore falls back to the historical receipt.
PointerFailureFallsBack ==
    \A d \in Docs :
      (Protecting(disk[d]) /\ mem[d].acked # NoFile /\ ~mem[d].skipped) =>
        Restore(disk, d).rev >= mem[d].acked.rev

\* paged_service.rs abandon_recovery: a journal is never extended past a
\* published revision it has no record of, so what it acknowledges restores.
GapNeverExtended ==
    \A d \in Docs :
      (Protecting(disk[d]) /\ mem[d].acked # NoFile /\ Started(d)) =>
        Restore(disk, d).rev >= mem[d].acked.rev

\* streaming.rs prepare_recipe_revision: reusing a revision never erases
\* recoverable evidence, such as the roots a published marker names.
CommittedEvidenceKept ==
    \A m \in marks : \A o \in m.members :
      disk[o.doc].there => [rev |-> o.rev, text |-> o.text] \in disk[o.doc].recipes

\* paged_recovery.rs group_root_committed: a group's roots stay, so every
\* member that still protects its document can be restored.
SurvivorRestorable ==
    \A m \in marks : \A o \in m.members :
      (Protecting(disk[o.doc]) /\ mem[o.doc].acked # NoFile) =>
        Restore(disk, o.doc).rev >= mem[o.doc].acked.rev
=============================================================================

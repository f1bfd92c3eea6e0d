--------------------------- MODULE SaveTransaction ---------------------------
(***************************************************************************)
(* Saving a document: save_bytes of crates/file-io/src/lifecycle.rs on the  *)
(* transactions of crates/platform-posix/src/transaction.rs, and what the   *)
(* next start does with the saves a crash interrupted.                      *)
(*                                                                          *)
(* One folder holds the target.  Each save is made by a process of its own  *)
(* (two editors, or one editor and its successor), other programs write the *)
(* target, any process may die between two system calls, and any call may   *)
(* fail.  Bytes are version names; a file object is a node, its identity.   *)
(* One action is one step that other processes, or a crash, can separate    *)
(* from the next.                                                           *)
(***************************************************************************)
EXTENDS Integers, Sequences, FiniteSets

CONSTANTS
    Saves,        \* one save attempt each, in a process of its own
    Strategies,   \* what the capability report may answer for the target
    MaxExternal,  \* bound on the writes of other programs
    MaxFailures,  \* bound on failing calls
    RaceExternal, \* bound on the writes of other programs among saves that race
    RaceCleanups, \* whether saves race while a cleanup is under way
    MayCrash,     \* whether a saving process may die or end
    MayResume     \* whether a later process takes up interrupted cleanups

ASSUME ConstantsAssumption ==
    /\ Strategies \subseteq {"exchange", "rename", "inplace"}
    /\ Strategies # {}
    /\ MaxExternal \in Nat /\ MaxFailures \in Nat /\ MayCrash \in BOOLEAN
    /\ MayResume \in BOOLEAN /\ RaceExternal \in Nat /\ RaceCleanups \in BOOLEAN
    /\ IsFiniteSet(Saves)

-----------------------------------------------------------------------------
NoNode == <<"none">>
BaseNode == <<"base">>
StageNode(p) == <<"stage", p>>
CopyNode(p) == <<"copy", p>>           \* the displaced copy of an in-place save
ForeignNode(k) == <<"foreign", k>>
Nodes == {BaseNode} \cup {StageNode(p) : p \in Saves}
            \cup {CopyNode(p) : p \in Saves}
            \cup {ForeignNode(k) : k \in 1 .. MaxExternal}

Torn == <<"torn">>                     \* empty, or only partly written
Original == <<"original">>
Edited(p) == <<"edited", p>>
Foreign(k) == <<"foreign", k>>
Versions == {Original} \cup {Edited(p) : p \in Saves}
               \cup {Foreign(k) : k \in 1 .. MaxExternal}

(* The names in a transaction folder, `displaced-version` excepted, and how  *)
(* much of the file is there.                                               *)
States == {"precommit", "created", "replaced", "conflict", "cleanup"}
Entries == States \cup {"manifest", "authority", "editor"}
Extents == {"absent", "partial", "whole"}

Results == {"none", "saved", "saved_uncleaned", "cancelled", "failed",
            "deleted_outside", "commit_failure", "conflict",
            "conflict_after_create", "conflict_after_commit",
            "verification_after_commit"}

Steps == {"closed", "open", "staging", "mkdir", "manifest", "editor",
          "precommit", "prepared", "commit", "swapped", "aside", "copied",
          "published", "verify", "authority", "pending", "unlink", "retry",
          "rollback", "abort", "done", "crashed"}

VARIABLES
    names,      \* what each name of the folder holds
    content,    \* the version in each node
    folder,     \* whether each save's transaction folder exists
    entry,      \* what each transaction folder holds
    save,       \* what each saving process knows
    cleaner,    \* the cleanups a later process has resumed
    externals,  \* writes other programs have made
    failures    \* calls that have failed

vars == <<names, content, folder, entry, save, cleaner, externals, failures>>
disk == <<names, content, folder, entry>>
bounds == <<externals, failures>>

Places == Nodes \cup {NoNode}
Contents == Versions \cup {Torn}
Fingerprints == [node : Places, version : Contents]
Naming == [target : Places, stage : [Saves -> Places], kept : [Saves -> Places],
           displaced : [Saves -> Places]]
Todo == Seq(Entries \cup {"displaced"})
Progress == [pc : Steps, approved : Fingerprints, strategy : {"exchange", "rename", "inplace"},
             fd : Places, todo : Todo, verified : BOOLEAN, result : Results]

(* The state has the shape the definitions above give it. *)
TypeOK ==
    /\ names \in Naming
    /\ content \in [Nodes -> Contents]
    /\ folder \in [Saves -> BOOLEAN]
    /\ entry \in [Saves -> [Entries -> Extents]]
    /\ save \in [Saves -> Progress]
    /\ cleaner \in [Saves -> [pc : {"idle", "listed", "unlink"}, todo : Todo]]
    /\ externals \in 0 .. MaxExternal
    /\ failures \in 0 .. MaxFailures

Init ==
    /\ names = [target |-> BaseNode,
                stage |-> [p \in Saves |-> NoNode],
                kept |-> [p \in Saves |-> NoNode],
                displaced |-> [p \in Saves |-> NoNode]]
    /\ content = [n \in Nodes |-> IF n = BaseNode THEN Original ELSE Torn]
    /\ folder = [p \in Saves |-> FALSE]
    /\ entry = [p \in Saves |-> [e \in Entries |-> "absent"]]
    /\ save = [p \in Saves |-> [pc |-> "closed",
                                approved |-> [node |-> NoNode, version |-> Torn],
                                strategy |-> "exchange", fd |-> NoNode,
                                todo |-> <<>>, verified |-> FALSE,
                                result |-> "none"]]
    /\ cleaner = [p \in Saves |-> [pc |-> "idle", todo |-> <<>>]]
    /\ externals = 0
    /\ failures = 0

-----------------------------------------------------------------------------
At(p, step) == save[p].pc = step
Goto(p, step) == save' = [save EXCEPT ![p].pc = step]
Return(p, r) == save' = [save EXCEPT ![p].pc = "done", ![p].result = r]

(* ReplaceCaptured, or MustBeAbsent when no file was there to capture.      *)
Replacing(p) == save[p].approved.node # NoNode

-----------------------------------------------------------------------------
(* Faulty variants: what a plausible mistake would make of a definition      *)
(* below.  No specification uses them.                                       *)

(* A reported stage is dropped like any other.                               *)
KeepStageDropped(p) == [names EXCEPT !.stage[p] = NoNode]

(* The authority goes before what it authorises; the precommit record stays. *)
CleanupOrderEager == <<"authority", "editor", "displaced", "precommit", "created",
                       "replaced", "conflict", "manifest", "cleanup">>

(* The target is rewritten with only an empty copy behind it.                *)
CopyPreviousEmpty(p) ==
    /\ At(p, "commit") /\ Replacing(p) /\ save[p].strategy = "inplace"
    /\ names.target # NoNode
    /\ names' = [names EXCEPT !.displaced[p] = CopyNode(p)]
    /\ save' = [save EXCEPT ![p].pc = "copied", ![p].fd = names.target]
    /\ UNCHANGED <<content, folder, entry, cleaner, bounds>>

(* What was displaced is not compared with what was approved.                *)
DisplacedUnchecked(p) == names.displaced[p] # NoNode

-----------------------------------------------------------------------------
Fingerprint(n) == [node |-> n, version |-> IF n = NoNode THEN Torn ELSE content[n]]

(* Bounds.  A save on its own meets every disturbance the constants allow;   *)
(* saves that race meet crashes, RaceExternal writes of other programs and,   *)
(* as RaceCleanups says, cleanups under way, but no failing call.            *)
Racing == Cardinality({p \in Saves : ~ At(p, "closed")}) > 1
MayRace ==
    /\ failures = 0 /\ externals <= RaceExternal
    /\ RaceCleanups \/ \A p \in Saves : /\ cleaner[p].pc = "idle"
                                       /\ entry[p]["authority"] = "absent"

MayFail == ~ Racing /\ failures < MaxFailures /\ failures' = failures + 1
MayDisturb == externals < MaxExternal /\ (Racing => externals < RaceExternal)

(* Staged::drop and Staged::keep: a reported stage is renamed out of the     *)
(* sweep's grammar; where that fails too it is reported under its own name.  *)
DropStage(p) == [names EXCEPT !.stage[p] = NoNode]
KeepStage(p) == [names EXCEPT !.kept[p] = names.stage[p], !.stage[p] = NoNode]
Kept(p) == {KeepStage(p), names}
ReportStage(p) == \/ names' = KeepStage(p) /\ UNCHANGED failures
                  \/ MayFail /\ UNCHANGED names

(* sweep_dead_stages removes a stage name whose process is dead and whose    *)
(* file nobody has locked; the dead process was the only one that would.     *)
Dead(p) == At(p, "crashed")
SweptStages == [p \in Saves |-> IF Dead(p) THEN NoNode ELSE names.stage[p]]

(* The saving process holds the folder's shared lease from its creation      *)
(* until save_bytes returns; a receipt kept for a retry holds it on.         *)
Leased(p) ==
    \/ save[p].pc \in {"manifest", "editor", "precommit", "prepared", "commit",
                       "swapped", "aside", "copied", "published", "verify",
                       "authority", "pending", "unlink", "retry", "rollback",
                       "abort"}
    \/ cleaner[p].pc # "idle"

-----------------------------------------------------------------------------
(* Opening the document captures the fingerprint a save will replace.       *)
Open(p) ==
    /\ At(p, "closed")
    /\ (\E q \in Saves : ~ At(q, "closed")) => MayRace
    /\ save' = [save EXCEPT ![p].pc = "open",
                            ![p].approved = Fingerprint(names.target)]
    /\ UNCHANGED <<disk, cleaner, bounds>>

(* A destination deleted outside is refused before anything is created.     *)
RefuseDeleted(p) ==
    /\ At(p, "open")
    /\ Replacing(p)
    /\ names.target = NoNode
    /\ Return(p, "deleted_outside")
    /\ UNCHANGED <<disk, cleaner, bounds>>

(* The first save into a folder sweeps it, then creates and locks a stage.  *)
CreateStage(p) ==
    /\ At(p, "open")
    /\ Replacing(p) => names.target # NoNode
    /\ names' = [names EXCEPT !.stage = [SweptStages EXCEPT ![p] = StageNode(p)]]
    /\ Goto(p, "staging")
    /\ UNCHANGED <<content, folder, entry, cleaner, bounds>>

WriteStage(p) ==
    /\ At(p, "staging")
    /\ content' = [content EXCEPT ![StageNode(p)] = Edited(p)]
    /\ Goto(p, "mkdir")
    /\ UNCHANGED <<names, folder, entry, cleaner, bounds>>

(* prepare: the folder and its lease, the manifest, a durable copy of the   *)
(* stage, and only then the precommit record.                               *)
CreateTransaction(p) ==
    /\ At(p, "mkdir")
    /\ folder' = [folder EXCEPT ![p] = TRUE]
    /\ \E s \in Strategies :
          save' = [save EXCEPT ![p].pc = "manifest", ![p].strategy = s]
    /\ UNCHANGED <<names, content, entry, cleaner, bounds>>

(* Which entry the step a process is at writes, and the step that follows.  *)
Writing(p) ==
    CASE At(p, "manifest") -> "manifest"
      [] At(p, "editor") -> "editor"
      [] At(p, "precommit") -> "precommit"
      [] At(p, "published") -> IF Replacing(p) THEN "replaced" ELSE "created"
      [] At(p, "authority") -> "authority"
      [] At(p, "pending") -> "cleanup"

AfterWriting(p) ==
    CASE At(p, "manifest") -> "editor"
      [] At(p, "editor") -> "precommit"
      [] At(p, "precommit") -> "prepared"
      [] At(p, "published") -> "verify"
      [] At(p, "authority") -> "pending"
      [] At(p, "pending") -> "unlink"

WritingSteps == {"manifest", "editor", "precommit", "published", "authority",
                 "pending"}

(* cleanup() and abort() unlink in these orders; cleanup pops its artifacts  *)
(* from the end.                                                            *)
CleanupOrder == <<"editor", "displaced", "precommit", "created", "replaced",
                  "conflict", "manifest", "cleanup", "authority">>
ResumedOrder == <<"displaced", "editor", "precommit", "created", "replaced",
                  "conflict", "manifest", "cleanup", "authority">>
AbortOrder == <<"editor", "precommit", "conflict", "manifest">>
RollbackOrder == <<"editor", "manifest", "precommit">>

(* publish_commit_state and publish_cleanup_authority accept their own whole *)
(* record again and refuse a partial one.  The authority copies the manifest; *)
(* cleanup is announced only under it.                                       *)
MayWrite(p) ==
    /\ folder[p]
    /\ entry[p][Writing(p)] # "partial"
    /\ At(p, "published") => names.target # NoNode
    /\ At(p, "authority") => "whole" \in {entry[p]["manifest"], entry[p]["authority"]}
    /\ At(p, "pending") => entry[p]["authority"] = "whole"

WriteRecord(p) ==
    /\ save[p].pc \in WritingSteps
    /\ MayWrite(p)
    /\ entry' = [entry EXCEPT ![p][Writing(p)] = "whole"]
    /\ save' = [save EXCEPT
                  ![p].pc = AfterWriting(p),
                  ![p].fd = IF At(p, "published") THEN names.target ELSE @,
                  ![p].todo = IF At(p, "pending") THEN CleanupOrder ELSE @]
    /\ UNCHANGED <<names, content, folder, cleaner, bounds>>

-----------------------------------------------------------------------------
(* The destination is compared with the approved fingerprint, then committed.*)
CheckUnchanged(p) ==
    /\ At(p, "prepared")
    /\ Fingerprint(names.target) = save[p].approved
    /\ Goto(p, "commit")
    /\ UNCHANGED <<disk, cleaner, bounds>>

(* Deleted while the save was prepared: abort_commit, nothing kept.         *)
CheckDeleted(p) ==
    /\ At(p, "prepared")
    /\ Replacing(p) /\ names.target = NoNode
    /\ save' = [save EXCEPT ![p].pc = "abort", ![p].todo = AbortOrder,
                            ![p].result = "deleted_outside"]
    /\ UNCHANGED <<disk, cleaner, bounds>>

(* A best-effort conflict record: written, or failed with or without leaving *)
(* an empty file.                                                            *)
MarkConflict(p) ==
    \/ /\ entry' = [entry EXCEPT ![p]["conflict"] = "whole"]
       /\ UNCHANGED failures
    \/ /\ MayFail
       /\ \E extent \in {"absent", "partial"} :
             entry' = [entry EXCEPT ![p]["conflict"] = extent]

CheckChanged(p) ==
    /\ At(p, "prepared")
    /\ names.target # NoNode
    /\ Fingerprint(names.target) # save[p].approved
    /\ MarkConflict(p)
    /\ names' = DropStage(p)
    /\ Return(p, "conflict")
    /\ UNCHANGED <<content, folder, cleaner, externals>>

(* replace_by_exchange: one rename swaps the stage and the target.          *)
Exchange(p) ==
    /\ At(p, "commit") /\ Replacing(p) /\ save[p].strategy = "exchange"
    /\ names.target # NoNode
    /\ names' = [names EXCEPT !.target = names.stage[p],
                              !.stage[p] = names.target]
    /\ Goto(p, "swapped")
    /\ UNCHANGED <<content, folder, entry, cleaner, bounds>>

MoveDisplaced(p) ==
    /\ At(p, "swapped")
    /\ names' = [names EXCEPT !.displaced[p] = names.stage[p],
                              !.stage[p] = NoNode]
    /\ Goto(p, "published")
    /\ UNCHANGED <<content, folder, entry, cleaner, bounds>>

(* The move failed: swap back as far as both names still exist, keep what    *)
(* has the stage's name as a reported copy.  The swap back may fail as well. *)
SwappedBack(p) ==
    {[names EXCEPT !.target = names.stage[p], !.kept[p] = names.target,
                   !.stage[p] = NoNode],
     [names EXCEPT !.target = names.stage[p], !.stage[p] = names.target]}

SwapBack(p) ==
    /\ At(p, "swapped")
    /\ MayFail
    /\ names' \in Kept(p) \cup (IF names.target = NoNode THEN {} ELSE SwappedBack(p))
    /\ Return(p, "commit_failure")
    /\ UNCHANGED <<content, folder, entry, cleaner, externals>>

(* replace_by_rename, chosen or because the filesystem has no exchange.     *)
MoveAside(p) ==
    /\ At(p, "commit") /\ Replacing(p) /\ save[p].strategy # "inplace"
    /\ names.target # NoNode
    /\ names' = [names EXCEPT !.displaced[p] = names.target, !.target = NoNode]
    /\ save' = [save EXCEPT ![p].pc = "aside", ![p].strategy = "rename"]
    /\ UNCHANGED <<content, folder, entry, cleaner, bounds>>

PublishStage(p) ==
    /\ At(p, "aside")
    /\ names.target = NoNode
    /\ names' = [names EXCEPT !.target = names.stage[p], !.stage[p] = NoNode]
    /\ Goto(p, "published")
    /\ UNCHANGED <<content, folder, entry, cleaner, bounds>>

(* The name was taken meanwhile, or the rename failed: put the displaced     *)
(* version back where the name is free, unless that fails too, and keep the  *)
(* stage.                                                                   *)
PutBack(p) ==
    /\ At(p, "aside")
    /\ \/ names.target # NoNode /\ ReportStage(p)
       \/ /\ names.target = NoNode
          /\ MayFail
          /\ \E kept \in Kept(p) :
                names' \in {kept, [kept EXCEPT !.target = names.displaced[p],
                                              !.displaced[p] = NoNode]}
    /\ Return(p, "commit_failure")
    /\ UNCHANGED <<content, folder, entry, cleaner, externals>>

(* rewrite_in_place: open the target, retain its bytes, then rewrite it.    *)
CopyPrevious(p) ==
    /\ At(p, "commit") /\ Replacing(p) /\ save[p].strategy = "inplace"
    /\ names.target # NoNode
    /\ content' = [content EXCEPT ![CopyNode(p)] = content[names.target]]
    /\ names' = [names EXCEPT !.displaced[p] = CopyNode(p)]
    /\ save' = [save EXCEPT ![p].pc = "copied", ![p].fd = names.target]
    /\ UNCHANGED <<folder, entry, cleaner, bounds>>

Rewrite(p) ==
    /\ At(p, "copied")
    /\ content' = [content EXCEPT ![save[p].fd] = Edited(p)]
    /\ Goto(p, "published")
    /\ UNCHANGED <<names, folder, entry, cleaner, bounds>>

(* A failed rewrite restores the retained bytes, or fails at that too.      *)
RestorePrevious(p) ==
    /\ At(p, "copied")
    /\ MayFail
    /\ \E v \in {content[CopyNode(p)], Torn} :
          content' = [content EXCEPT ![save[p].fd] = v]
    /\ names' \in Kept(p)
    /\ Return(p, "commit_failure")
    /\ UNCHANGED <<folder, entry, cleaner, externals>>

(* A new file is published with a no-replace rename.                        *)
CreateNew(p) ==
    /\ At(p, "commit") /\ ~ Replacing(p)
    /\ names.target = NoNode
    /\ names' = [names EXCEPT !.target = names.stage[p], !.stage[p] = NoNode]
    /\ Goto(p, "published")
    /\ UNCHANGED <<content, folder, entry, cleaner, bounds>>

CreateCollides(p) ==
    /\ At(p, "commit") /\ ~ Replacing(p)
    /\ names.target # NoNode
    /\ MarkConflict(p)
    /\ names' = DropStage(p)
    /\ Return(p, "conflict_after_create")
    /\ UNCHANGED <<content, folder, cleaner, externals>>

(* The name the commit was to displace, or to identify, is gone.            *)
CommitFindsNoTarget(p) ==
    /\ names.target = NoNode
    /\ At(p, "published") \/ (At(p, "commit") /\ Replacing(p))
    /\ ReportStage(p)
    /\ Return(p, "commit_failure")
    /\ UNCHANGED <<content, folder, entry, cleaner, externals>>

-----------------------------------------------------------------------------
(* After the commit only the verified outcome is reported: the target holds  *)
(* the written bytes, and what was displaced is what was approved, by        *)
(* identity where the exchange keeps it and by its bytes otherwise.          *)
TargetIsOutput(p) ==
    Fingerprint(names.target) = [node |-> save[p].fd, version |-> Edited(p)]

DisplacedIsApproved(p) ==
    LET displaced == Fingerprint(names.displaced[p])
    IN IF save[p].strategy = "exchange" THEN displaced = save[p].approved
       ELSE displaced.version = save[p].approved.version

VerifyGood(p) ==
    /\ At(p, "verify")
    /\ TargetIsOutput(p)
    /\ Replacing(p) => DisplacedIsApproved(p)
    /\ save' = [save EXCEPT ![p].pc = "authority", ![p].verified = TRUE]
    /\ UNCHANGED <<disk, cleaner, bounds>>

VerifyBad(p) ==
    /\ At(p, "verify")
    /\ ~ (TargetIsOutput(p) /\ (Replacing(p) => DisplacedIsApproved(p)))
    /\ MarkConflict(p)
    /\ names' = DropStage(p)
    /\ Return(p, IF names.target = NoNode THEN "verification_after_commit"
                 ELSE IF Replacing(p) THEN "conflict_after_commit"
                 ELSE "conflict_after_create")
    /\ UNCHANGED <<content, folder, cleaner, externals>>

(* A version cannot be read back.                                           *)
VerifyUnreadable(p) ==
    /\ At(p, "verify")
    /\ MayFail
    /\ entry' = [entry EXCEPT ![p]["conflict"] = "whole"]
    /\ names' = DropStage(p)
    /\ Return(p, "verification_after_commit")
    /\ UNCHANGED <<content, folder, cleaner, externals>>

-----------------------------------------------------------------------------
Unlinked(p, e) == [entry EXCEPT ![p] = [f \in Entries |->
                                          IF f = e THEN "absent" ELSE @[f]]]
UndisplacedBy(p, e) ==
    [names EXCEPT !.displaced[p] = IF e = "displaced" THEN NoNode ELSE @]

FolderEmpty(p) ==
    /\ \A e \in Entries : entry[p][e] = "absent"
    /\ names.displaced[p] = NoNode

(* cleanup() and abort() remove one name at a time, whoever else removes it. *)
Unlink(p) ==
    /\ save[p].pc \in {"unlink", "rollback", "abort"}
    /\ save[p].todo # <<>>
    /\ entry' = Unlinked(p, Head(save[p].todo))
    /\ names' = UndisplacedBy(p, Head(save[p].todo))
    /\ save' = [save EXCEPT ![p].todo = Tail(@)]
    /\ UNCHANGED <<content, folder, cleaner, bounds>>

(* The last step of a save that cleaned up after itself.                    *)
FinishCleanup(p) ==
    /\ At(p, "unlink") /\ save[p].todo = <<>>
    /\ folder[p] /\ FolderEmpty(p)
    /\ folder' = [folder EXCEPT ![p] = FALSE]
    /\ names' = DropStage(p)
    /\ Return(p, "saved")
    /\ UNCHANGED <<content, entry, cleaner, bounds>>

(* Cleanup cannot go on: the save is still a success, with a retry.          *)
CleanupStops(p) ==
    /\ \/ save[p].pc \in {"authority", "pending"} /\ ~ MayWrite(p)
       \/ At(p, "unlink") /\ save[p].todo = <<>> /\ ~ (folder[p] /\ FolderEmpty(p))
    /\ names' = DropStage(p)
    /\ save' = [save EXCEPT ![p].pc = "retry", ![p].result = "saved_uncleaned"]
    /\ UNCHANGED <<content, folder, entry, cleaner, bounds>>

(* SaveCleanup::retry.                                                      *)
RetryCleanup(p) ==
    /\ At(p, "retry")
    /\ Goto(p, "authority")
    /\ UNCHANGED <<disk, cleaner, bounds>>

(* A prepared transaction has been removed, as far as it could be: the stage *)
(* is kept for a reported failure and dropped otherwise.                    *)
FinishUndo(p) ==
    /\ save[p].pc \in {"rollback", "abort"} /\ save[p].todo = <<>>
    /\ folder' = [folder EXCEPT ![p] = ~ FolderEmpty(p)]
    /\ IF save[p].result = "commit_failure" THEN ReportStage(p)
       ELSE names' = DropStage(p) /\ UNCHANGED failures
    /\ Goto(p, "done")
    /\ UNCHANGED <<content, entry, cleaner, externals>>

-----------------------------------------------------------------------------
(* Cancellation is honoured up to the commit and ignored after it.          *)
CancelStage(p) ==
    /\ save[p].pc \in {"open", "staging", "mkdir"}
    /\ names' = DropStage(p)
    /\ Return(p, "cancelled")
    /\ UNCHANGED <<content, folder, entry, cleaner, bounds>>

CancelPrepared(p) ==
    /\ At(p, "editor") \/ (At(p, "prepared") /\ Replacing(p))
    /\ entry' = [entry EXCEPT ![p]["editor"] = IF At(p, "editor") THEN "partial"
                                               ELSE @]
    /\ save' = [save EXCEPT
                  ![p].pc = IF At(p, "editor") THEN "rollback" ELSE "abort",
                  ![p].result = "cancelled",
                  ![p].todo = IF At(p, "editor") THEN RollbackOrder ELSE AbortOrder]
    /\ UNCHANGED <<names, content, folder, cleaner, bounds>>

(* What a write that did not complete leaves of the entry it was making.    *)
LeftBehind(p) ==
    IF save[p].pc \in WritingSteps /\ MayWrite(p)
    THEN {entry, [entry EXCEPT ![p][Writing(p)] =
                                   IF @ = "absent" THEN "partial" ELSE @]}
    ELSE {entry}

FailStage(p) ==
    /\ At(p, "staging")
    /\ MayFail
    /\ names' = DropStage(p)
    /\ Return(p, "failed")
    /\ UNCHANGED <<content, folder, entry, cleaner, externals>>

(* Storage that is full drops the stage; another error keeps it.            *)
FailPrepare(p) ==
    /\ save[p].pc \in {"mkdir", "manifest", "editor", "precommit"}
    /\ MayFail
    /\ entry' \in LeftBehind(p)
    /\ \E r \in {"failed", "commit_failure"} :
          save' = [save EXCEPT ![p].pc = "rollback", ![p].result = r,
                               ![p].todo = RollbackOrder]
    /\ UNCHANGED <<names, content, folder, cleaner, externals>>

(* A destination that cannot be read counts as changed.                     *)
CheckUnreadable(p) ==
    /\ At(p, "prepared")
    /\ MayFail
    /\ entry' = [entry EXCEPT ![p]["conflict"] = "whole"]
    /\ names' = DropStage(p)
    /\ Return(p, "conflict")
    /\ UNCHANGED <<content, folder, cleaner, externals>>

(* A commit that fails before it touched the target, one whose copy of the   *)
(* previous bytes failed, or one that fails after publication.               *)
FailCommit(p) ==
    /\ save[p].pc \in {"commit", "published"}
    /\ MayFail
    /\ entry' \in LeftBehind(p)
    /\ \E kept \in Kept(p) :
          \/ names' = kept
          \/ /\ At(p, "commit") /\ Replacing(p) /\ save[p].strategy = "inplace"
             /\ names' = [kept EXCEPT !.displaced[p] = CopyNode(p)]
    /\ Return(p, "commit_failure")
    /\ UNCHANGED <<content, folder, cleaner, externals>>

FailCleanup(p) ==
    /\ save[p].pc \in {"authority", "pending", "unlink"}
    /\ MayFail
    /\ entry' \in LeftBehind(p)
    /\ names' = DropStage(p)
    /\ save' = [save EXCEPT ![p].pc = "retry", ![p].result = "saved_uncleaned"]
    /\ UNCHANGED <<content, folder, cleaner, externals>>

(* A name that cannot be removed ends an abort; a rollback passes over it.  *)
FailUndo(p) ==
    /\ save[p].pc \in {"rollback", "abort"} /\ save[p].todo # <<>>
    /\ MayFail
    /\ save' = [save EXCEPT ![p].todo = IF At(p, "abort") THEN <<>> ELSE Tail(@)]
    /\ UNCHANGED <<disk, cleaner, externals>>

(* The process dies.  What it was writing may be half there: a record, the   *)
(* retained copy of an in-place save, or the target it was rewriting.        *)
Crash(p) ==
    /\ MayCrash
    /\ save[p].pc \notin {"closed", "open", "done", "crashed"}
    /\ entry' \in LeftBehind(p)
    /\ \/ UNCHANGED <<names, content>>
       \/ /\ At(p, "commit") /\ Replacing(p) /\ save[p].strategy = "inplace"
          /\ names' = [names EXCEPT !.displaced[p] = CopyNode(p)]
          /\ UNCHANGED content
       \/ /\ At(p, "copied")
          /\ content' = [content EXCEPT ![save[p].fd] = Torn]
          /\ UNCHANGED names
    /\ Goto(p, "crashed")
    /\ UNCHANGED <<folder, cleaner, bounds>>

(* The process ends, by itself or not, after it reported its save.           *)
Exit(p) ==
    /\ MayCrash
    /\ At(p, "done")
    /\ Goto(p, "crashed")
    /\ UNCHANGED <<disk, cleaner, bounds>>

-----------------------------------------------------------------------------
(* Restart: inspect_save_recovery in a later process.                       *)
Rank(state) == CASE state = "precommit" -> 1 [] state = "created" -> 2
                 [] state = "replaced" -> 3 [] state = "conflict" -> 4
                 [] state = "cleanup" -> 5

(* state_from_records: the newest record, unless it or a newer one is not    *)
(* whole.                                                                    *)
NewestValid(p, s) ==
    /\ entry[p][s] = "whole"
    /\ \A r \in States : Rank(r) > Rank(s) => entry[p][r] = "absent"

StateFromRecords(p) ==
    IF \E s \in States : NewestValid(p, s)
    THEN CHOOSE s \in States : NewestValid(p, s)
    ELSE "unverified"

(* A valid authority makes an unverified state a cleanup to resume.         *)
ListedState(p) ==
    IF StateFromRecords(p) = "unverified" /\ entry[p]["authority"] = "whole"
    THEN "cleanup"
    ELSE StateFromRecords(p)

Verified(p) ==
    /\ folder[p]
    /\ "whole" \in {entry[p]["manifest"], entry[p]["authority"]}
    /\ ListedState(p) # "unverified"
    /\ entry[p]["editor"] # "absent" \/ ListedState(p) = "cleanup"

(* resume: the authority must be readable and the target still there.       *)
Resumable(p) ==
    /\ Verified(p) /\ ListedState(p) = "cleanup"
    /\ entry[p]["authority"] = "whole"
    /\ names.target # NoNode

(* reclaim: a manifest, at most an editor version beside it, and no lease.  *)
Reclaimable(p) ==
    /\ folder[p]
    /\ entry[p]["manifest"] = "whole"
    /\ ~ Leased(p)
    /\ \A e \in Entries \ {"manifest", "editor"} : entry[p][e] = "absent"
    /\ names.displaced[p] = NoNode

(* Reclaim, sweep and list; a listed cleanup keeps its receipt for a retry. *)
Inspect ==
    /\ folder' = [p \in Saves |-> folder[p] /\ ~ Reclaimable(p)]
    /\ entry' = [p \in Saves |-> IF Reclaimable(p)
                                 THEN [e \in Entries |-> "absent"] ELSE entry[p]]
    /\ names' = [names EXCEPT !.stage = SweptStages]
    /\ cleaner' = [p \in Saves |->
                      IF MayResume /\ (Racing => RaceCleanups)
                            /\ cleaner[p].pc = "idle" /\ Resumable(p)
                      THEN [pc |-> "listed", todo |-> <<>>] ELSE cleaner[p]]
    /\ UNCHANGED <<content, save, bounds>>

RetryResumed(p) ==
    /\ cleaner[p].pc = "listed"
    /\ folder[p]
    /\ entry[p]["authority"] = "whole"
    /\ entry[p]["cleanup"] # "partial"
    /\ entry' = [entry EXCEPT ![p]["cleanup"] = "whole"]
    /\ cleaner' = [cleaner EXCEPT ![p] = [pc |-> "unlink", todo |-> ResumedOrder]]
    /\ UNCHANGED <<names, content, folder, save, bounds>>

ResumedUnlink(p) ==
    /\ cleaner[p].pc = "unlink"
    /\ cleaner[p].todo # <<>>
    /\ entry' = Unlinked(p, Head(cleaner[p].todo))
    /\ names' = UndisplacedBy(p, Head(cleaner[p].todo))
    /\ cleaner' = [cleaner EXCEPT ![p].todo = Tail(@)]
    /\ UNCHANGED <<content, folder, save, bounds>>

(* The folder goes where it is empty and still there; either way the later   *)
(* process lets go, as it also does when it ends early.                      *)
ResumedEnds(p) ==
    /\ cleaner[p].pc # "idle"
    /\ folder' = [folder EXCEPT
                    ![p] = @ /\ ~ (/\ cleaner[p].pc = "unlink"
                                  /\ cleaner[p].todo = <<>>
                                  /\ FolderEmpty(p))]
    /\ cleaner' = [cleaner EXCEPT ![p] = [pc |-> "idle", todo |-> <<>>]]
    /\ UNCHANGED <<names, content, entry, save, bounds>>

-----------------------------------------------------------------------------
(* Other programs: replace the file (or create it), write it, delete it.    *)
ForeignReplace ==
    /\ MayDisturb
    /\ externals' = externals + 1
    /\ names' = [names EXCEPT !.target = ForeignNode(externals')]
    /\ content' = [content EXCEPT ![ForeignNode(externals')] = Foreign(externals')]
    /\ UNCHANGED <<folder, entry, save, cleaner, failures>>

ForeignWrite ==
    /\ MayDisturb
    /\ names.target # NoNode
    /\ externals' = externals + 1
    /\ content' = [content EXCEPT ![names.target] = Foreign(externals')]
    /\ UNCHANGED <<names, folder, entry, save, cleaner, failures>>

ForeignDelete ==
    /\ MayDisturb
    /\ names.target # NoNode
    /\ externals' = externals + 1
    /\ names' = [names EXCEPT !.target = NoNode]
    /\ UNCHANGED <<content, folder, entry, save, cleaner, failures>>

ForeignStep == ForeignReplace \/ ForeignWrite \/ ForeignDelete

Prepare(p) ==
    \/ Open(p) \/ RefuseDeleted(p) \/ CreateStage(p) \/ WriteStage(p)
    \/ CreateTransaction(p) \/ WriteRecord(p)

Commit(p) ==
    \/ CheckUnchanged(p) \/ CheckDeleted(p) \/ CheckChanged(p)
    \/ Exchange(p) \/ MoveDisplaced(p) \/ SwapBack(p)
    \/ MoveAside(p) \/ PublishStage(p) \/ PutBack(p)
    \/ CopyPrevious(p) \/ Rewrite(p) \/ RestorePrevious(p)
    \/ CreateNew(p) \/ CreateCollides(p) \/ CommitFindsNoTarget(p)

Conclude(p) ==
    \/ VerifyGood(p) \/ VerifyBad(p) \/ VerifyUnreadable(p)
    \/ Unlink(p) \/ FinishCleanup(p) \/ CleanupStops(p) \/ RetryCleanup(p)
    \/ FinishUndo(p)

Disturb(p) ==
    \/ CancelStage(p) \/ CancelPrepared(p) \/ FailStage(p) \/ FailPrepare(p)
    \/ CheckUnreadable(p) \/ FailCommit(p) \/ FailCleanup(p) \/ FailUndo(p)
    \/ Crash(p) \/ Exit(p)

Recover(p) == RetryResumed(p) \/ ResumedUnlink(p) \/ ResumedEnds(p)

Next ==
    \/ \E p \in Saves : Prepare(p) \/ Commit(p) \/ Conclude(p) \/ Disturb(p)
                          \/ Recover(p)
    \/ Inspect
    \/ ForeignStep

Spec == Init /\ [][Next]_vars

-----------------------------------------------------------------------------
(* Properties.                                                              *)

(* A version can be found under some name, or in a transaction's editor copy.*)
Held == {names.target} \cup {names.stage[p] : p \in Saves}
           \cup {names.kept[p] : p \in Saves}
           \cup {names.displaced[p] : p \in Saves}
Named(v) == \E n \in Held \ {NoNode} : content[n] = v
Reachable(v) ==
    \/ Named(v)
    \/ \E p \in Saves : v = Edited(p) /\ entry[p]["editor"] = "whole"

(* The bytes nobody's editor still holds: what was there, what other programs*)
(* wrote, and what a save reported as published.                             *)
Published == {Original} \cup {Foreign(k) : k \in 1 .. MaxExternal}
                \cup {Edited(p) : p \in {q \in Saves : save[q].verified}}

(* v is the file, or what some save displaced: not just a save's own stage.  *)
Standing(v) == \E n \in Held \ ({NoNode} \cup {StageNode(p) : p \in
                                   {q \in Saves : names.stage[q] = StageNode(q)}}) :
                  content[n] = v

(* A verified save replaced exactly this version, with the user's approval.  *)
Superseded(v) == \E p \in Saves : save[p].verified /\ save[p].approved.version = v

(* An in-place rewrite opened this file before another program wrote v to it.*)
WrittenUnderRewrite(v) ==
    \E p \in Saves : /\ At(p, "copied")
                     /\ content[save[p].fd] = v /\ v # save[p].approved.version

(* The stage name of a process that is gone holds the version it displaced:  *)
(* it died between the exchange and the move, or neither the swap back nor   *)
(* the keeping of that name worked.                                         *)
SweptAsStage(v) ==
    \E p \in Saves : /\ Dead(p)
                     /\ names.stage[p] \notin {NoNode, StageNode(p)}
                     /\ content[names.stage[p]] = v

LosesNo(v) == Standing(v) => Reachable(v)' \/ Superseded(v)

(* No step of Bareline destroys the last copy of a version nobody approved   *)
(* replacing: not a commit, a cleanup, a crash or the next start, where      *)
(* other saves and programs race with it, and not the undo of a commit that  *)
(* failed, where other programs do (MayFail).  Two windows are excepted and  *)
(* named above.                                                             *)
OnlyApprovedVersionsGo ==
    [][ForeignStep \/ \A v \in Published :
          LosesNo(v) \/ WrittenUnderRewrite(v) \/ SweptAsStage(v)]_vars

(* SaveStrategy::Transactional "keeps the displaced version" through a     *)
(* crash.  The next start sweeps it when the crash falls between the       *)
(* exchange and the move of the displaced file.                            *)
ExchangeKeepsDisplaced ==
    [][ForeignStep \/ \A v \in Published : LosesNo(v)]_vars

(* Two saves that approved replacing the same version never both succeed,    *)
(* unless both rewrite in place, where the previous bytes are copied first.  *)
NoLostUpdate ==
    \A p, q \in Saves :
       /\ p # q /\ save[p].verified /\ save[q].verified
       /\ save[p].approved.version \in Versions
       /\ {save[p].strategy, save[q].strategy} # {"inplace"}
       => save[p].approved # save[q].approved

(* A transaction listed as verified has all of the editor's bytes.          *)
ListedEditorWhole ==
    \A p \in Saves : Verified(p) /\ ListedState(p) # "cleanup"
                        => entry[p]["editor"] = "whole"

(* Recovery in another process never takes a working save's records away.    *)
WorkingTransactionIntact ==
    \A p \in Saves :
       LET committing == {"prepared", "commit", "swapped", "aside", "copied",
                          "published", "verify"}
           step == save[p].pc
       IN /\ step \in committing \cup {"manifest", "editor", "precommit"} => folder[p]
          /\ step \in committing \cup {"editor", "precommit"}
                => entry[p]["manifest"] = "whole"
          /\ step \in committing \cup {"precommit"} => entry[p]["editor"] = "whole"
          /\ step \in committing => entry[p]["precommit"] = "whole"

(* A target torn by an interrupted rewrite has its previous bytes and the    *)
(* editor's in a transaction the next start lists.                          *)
TornTargetRecoverable ==
    names.target # NoNode /\ content[names.target] = Torn =>
       \E p \in Saves : /\ Verified(p)
                        /\ entry[p]["editor"] = "whole"
                        /\ names.displaced[p] # NoNode
                        /\ content[names.displaced[p]] # Torn

(* A cancelled save, or one whose file was deleted, leaves nothing behind    *)
(* where every removal worked.                                               *)
CancelledLeavesNothing ==
    \A p \in Saves :
       /\ At(p, "done") /\ save[p].result \in {"cancelled", "deleted_outside"}
       /\ failures = 0
       => /\ ~ folder[p] /\ FolderEmpty(p)
          /\ names.stage[p] = NoNode /\ names.kept[p] = NoNode

(* A save that reports a failed commit, a conflict or a verification that    *)
(* failed has the edited bytes on disk, for as long as its process runs; a   *)
(* reported stage that could not be renamed is swept by a save after that.   *)
(* Not meant are the reports after which only the document in the editor has *)
(* them: "failed" (the stage was not written, or the storage was full before *)
(* the commit), "cancelled" and "deleted_outside".                           *)
ReportedFailureKeepsEdits ==
    \A p \in Saves :
       /\ At(p, "done")
       /\ save[p].result \in {"commit_failure", "conflict", "conflict_after_create",
                              "conflict_after_commit", "verification_after_commit"}
       => Reachable(Edited(p))

(* A verified save that died before its cleanup ended is listed for review,  *)
(* or for a resumed cleanup under its authority, while a version is left.    *)
InterruptedCleanupListed ==
    \A p \in Saves :
       /\ Dead(p) /\ save[p].verified
       /\ entry[p]["editor"] # "absent" \/ names.displaced[p] # NoNode
       =>
          /\ Verified(p)
          /\ ListedState(p) = "cleanup" => entry[p]["authority"] = "whole"
=============================================================================

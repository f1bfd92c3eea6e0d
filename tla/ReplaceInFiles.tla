--------------------------- MODULE ReplaceInFiles ---------------------------
(***************************************************************************)
(* One Replace in Files job, from its apply to its rollback and the        *)
(* removal of its backups, with the receipt that a restart reconciles.     *)
(*                                                                         *)
(* The job's files are numbered.  A file's content is the one that was     *)
(* reviewed ("orig"), the job's output ("after"), somebody else's          *)
(* ("other"), a restore that did not reproduce the original ("mangled"), a *)
(* rewrite that was not finished ("torn") or none ("gone").  Comparing     *)
(* hashes is comparing contents.  Nobody but a rollback, or a save that    *)
(* gives up, brings the original or the output back.                       *)
(*                                                                         *)
(* All of a process's operations run one after the other on its            *)
(* replacement worker.  Around it other programs write, documents open and *)
(* close, the user cancels, the process crashes and starts again.          *)
(***************************************************************************)
EXTENDS Integers

CONSTANTS
    Count,      \* files of the job
    Backups,    \* backup policies the user may choose: a subset of BOOLEAN
    MaxEdits,   \* bound: edits by other programs, of targets and backups
    MaxFaults,  \* bound: failures of the file system
    MaxCrashes, \* bound: crashes
    MaxOpens,   \* bound: documents opened
    MaxEvents,  \* bound: all four together
    MaxBeside   \* bound: the other three, once a document has opened

ASSUME ReplaceAssumption ==
    /\ Count \in Nat \ {0}
    /\ Backups \subseteq BOOLEAN
    /\ {MaxEdits, MaxFaults, MaxCrashes, MaxOpens, MaxEvents, MaxBeside} \subseteq Nat

Files == 1 .. Count
Contents == {"orig", "after", "other", "mangled", "torn", "gone"}

\* "Kept" is Skipped with the output left in place: no backup to restore.
\* "Mismatched" is Failed with a restore that differs from the original.
States == {"Planned", "Staged", "Uncertain", "Committed", "ReconciledCommitted",
           "RollbackStaged", "RolledBack", "Skipped", "Kept", "Failed",
           "Mismatched", "Conflict", "RollbackFailed"}
Unresolved == {"Planned", "Staged", "Uncertain", "RollbackStaged"}
Restorable == {"Committed", "ReconciledCommitted", "RollbackFailed"}

Record == [state : States, hashed : BOOLEAN, backup : BOOLEAN]
NoReceipt == <<>>

VARIABLES
    disk,      \* content of each target
    bak,       \* content of each backup file, "none" if there is none
    rcpt,      \* the receipt on disk, or NoReceipt
    mem,       \* the worker's receipt
    pc, at,    \* the worker's next step and the record it works on
    op,        \* what it runs: "apply", "rollback", "list" or "none"
    saved,     \* whether the last save reported success
    held,      \* the content the running save took out of the target, or "none"
    beside,    \* targets beside which a save's files keep somebody else's version
    protect,   \* whether this job makes backups
    cancelled, \* the user has cancelled the operation
    docs,      \* documents of the targets: "none", "loaded" or "open"
    listed,    \* the job's row in Manage Replace Backups
    startup,   \* the process has not yet made its startup listing
    \* History and bounds.
    published, restored, removed, tampered, edits, faults, crashes, opens

files == <<disk, held, beside>>
job == <<files, bak, rcpt, mem, pc, at, op, saved, protect>>
env == <<cancelled, docs, listed, startup, tampered, edits, crashes, opens>>
history == <<published, restored, removed>>
vars == <<job, env, history, faults>>

Blank == [f \in Files |-> [state |-> "Planned", hashed |-> FALSE, backup |-> FALSE]]

Init ==
    /\ disk = [f \in Files |-> "orig"] /\ bak = [f \in Files |-> "none"]
    /\ rcpt = NoReceipt /\ mem = Blank /\ pc = "idle" /\ at = 1 /\ op = "none"
    /\ saved = FALSE /\ protect \in Backups /\ held = "none" /\ beside = {}
    /\ cancelled = FALSE /\ docs = [f \in Files |-> "none"]
    /\ listed = "no" /\ startup = FALSE
    /\ published = {} /\ restored = {} /\ removed = FALSE /\ tampered = {}
    /\ edits = 0 /\ faults = 0 /\ crashes = 0 /\ opens = 0

-----------------------------------------------------------------------------
(* The worker's vocabulary.                                                *)

\* The steps of a save, of the output or of a restored original.
Displacing == {"swapped", "aside", "copied", "verify"}
Saving == {"save", "commit"} \cup Displacing

\* The steps at which the worker owns file admission.
Admission == {"review", "backup", "stage", "classify", "record", "rstage"} \cup Saving

MayHappen ==
    /\ edits + faults + crashes + opens < MaxEvents
    /\ opens > 0 => edits + faults + crashes < MaxBeside
Fault == MayHappen /\ faults < MaxFaults /\ faults' = faults + 1
NoFault == UNCHANGED faults

\* publish_json: the receipt is replaced as a whole.  A failure is reported
\* before the replacement or, where only the flush of the directory failed,
\* after it.
Persist(r) == rcpt' = r /\ NoFault
PersistFails(r) == rcpt' \in {rcpt, r} /\ Fault

Set(state) == [mem EXCEPT ![at].state = state]
SomeState(r, set) == \E f \in Files : r[f].state \in set

Goto(step, f) == pc' = step /\ at' = f /\ UNCHANGED op
Finish == pc' = "idle" /\ op' = "none" /\ at' = 1

Idle == pc = "idle" /\ ~startup

-----------------------------------------------------------------------------
(* A save of the job: save_utf8_cancellable and its kin, which             *)
(* SaveTransaction has in full.  Here are its check, its commit and its    *)
(* verification, between which other programs may write.                   *)

Restoring == op = "rollback"
Expected == IF Restoring THEN "after" ELSE "orig"
\* The original is decoded and encoded again, which may not reproduce it.
Outputs == IF Restoring THEN {"orig", "mangled"} ELSE {"after"}

EndSave(ok) ==
    /\ saved' = ok /\ held' = "none"
    /\ Goto(IF Restoring THEN "rclassify" ELSE "classify", at)

SaveLeaves == UNCHANGED <<bak, rcpt, mem, protect, env, removed>>
TargetStays == UNCHANGED <<disk, published, restored>>

Publish ==
    \E c \in Outputs :
        /\ disk' = [disk EXCEPT ![at] = c]
        /\ published' = published \cup {at}
        /\ restored' = IF c = "orig" THEN restored \cup {at} ELSE restored
        /\ IF c = "mangled" THEN Fault ELSE NoFault

\* Up to the commit a target that is not the expected one is a conflict and
\* cancellation is honoured.
Save ==
    /\ pc = "save"
    /\ \/ /\ disk[at] = Expected /\ ~cancelled /\ NoFault
          /\ Goto("commit", at) /\ UNCHANGED <<saved, held>>
       \/ /\ IF disk[at] # Expected \/ cancelled THEN NoFault ELSE Fault
          /\ EndSave(FALSE)
    /\ TargetStays /\ UNCHANGED beside /\ SaveLeaves

CommitStops ==
    /\ pc = "commit" /\ EndSave(FALSE)
    /\ IF disk[at] = "gone" THEN NoFault ELSE Fault
    /\ TargetStays /\ UNCHANGED beside /\ SaveLeaves

\* Whatever the target holds by now is displaced: exchanged with the stage,
\* moved aside, or copied to be rewritten in place.
Displace(step) ==
    /\ pc = "commit" /\ disk[at] # "gone" /\ held' = disk[at]
    /\ Goto(step, at) /\ UNCHANGED <<saved, beside>> /\ SaveLeaves

Exchange == Displace("swapped") /\ Publish

MoveAside ==
    /\ Displace("aside") /\ disk' = [disk EXCEPT ![at] = "gone"] /\ NoFault
    /\ UNCHANGED <<published, restored>>

CopyPrevious == Displace("copied") /\ TargetStays /\ NoFault

\* A save that fails leaves what it displaced beside the target.
KeepHeld == beside' = IF held = "other" THEN beside \cup {at} ELSE beside

MoveDisplaced ==
    /\ pc = "swapped" /\ Goto("verify", at) /\ NoFault
    /\ TargetStays /\ UNCHANGED <<saved, held, beside>> /\ SaveLeaves

\* The exchange is undone, what the target held meanwhile staying in the
\* stage; or it stands, the displaced version in a stage that is kept, or not.
SwapBack ==
    /\ pc = "swapped" /\ EndSave(FALSE) /\ Fault /\ SaveLeaves
    /\ \/ TargetStays /\ (KeepHeld \/ UNCHANGED beside)
       \/ /\ disk[at] # "gone" /\ disk' = [disk EXCEPT ![at] = held]
          /\ published' = IF Restoring THEN published ELSE published \ {at}
          /\ restored' = restored \ {at}
          /\ beside' = IF disk[at] = "other" THEN beside \cup {at} ELSE beside

PublishStage ==
    /\ pc = "aside" /\ disk[at] = "gone" /\ Publish /\ Goto("verify", at)
    /\ UNCHANGED <<saved, held, beside>> /\ SaveLeaves

\* The name was taken, or the stage could not be published.
PutBack ==
    /\ pc = "aside" /\ EndSave(FALSE)
    /\ \/ disk[at] # "gone" /\ NoFault /\ KeepHeld /\ UNCHANGED disk
       \/ disk[at] = "gone" /\ Fault /\ KeepHeld /\ UNCHANGED disk
       \/ /\ disk[at] = "gone" /\ Fault /\ UNCHANGED beside
          /\ disk' = [disk EXCEPT ![at] = held]
    /\ UNCHANGED <<published, restored>> /\ SaveLeaves

\* What another program writes into the file after it was copied is
\* overwritten.  A file that has lost its name is rewritten unseen.
Rewrite ==
    /\ pc = "copied" /\ Goto("verify", at)
    /\ IF disk[at] = "gone" THEN TargetStays /\ NoFault ELSE Publish
    /\ UNCHANGED <<saved, held, beside>> /\ SaveLeaves

Tear ==
    /\ disk' = [disk EXCEPT ![at] = "torn"] /\ published' = published \cup {at}
    /\ UNCHANGED restored

RewriteFails ==
    /\ pc = "copied" /\ EndSave(FALSE) /\ KeepHeld /\ Fault /\ SaveLeaves
    /\ \/ disk[at] = "gone" /\ TargetStays
       \/ disk[at] # "gone" /\ Tear
       \/ /\ disk[at] # "gone" /\ disk' = [disk EXCEPT ![at] = held]
          /\ UNCHANGED <<published, restored>>

\* Faulty variant: what was displaced is removed without a look at it.
VerifyTargetOnly ==
    /\ pc = "verify" /\ TargetStays /\ SaveLeaves
    /\ \/ disk[at] \in Outputs /\ NoFault /\ EndSave(TRUE) /\ UNCHANGED beside
       \/ /\ IF disk[at] \in Outputs THEN Fault ELSE NoFault
          /\ EndSave(FALSE) /\ KeepHeld

\* The save succeeds, and removes what it displaced, when the target holds
\* its output and what it displaced is what it expected.
Verify ==
    /\ pc = "verify" /\ TargetStays /\ SaveLeaves
    /\ LET good == disk[at] \in Outputs /\ held = Expected IN
       \/ good /\ NoFault /\ EndSave(TRUE) /\ UNCHANGED beside
       \/ (IF good THEN Fault ELSE NoFault) /\ EndSave(FALSE) /\ KeepHeld

Commit == CommitStops \/ Exchange \/ MoveAside \/ CopyPrevious \/ MoveDisplaced
          \/ SwapBack \/ PublishStage \/ PutBack \/ Rewrite \/ RewriteFails

-----------------------------------------------------------------------------
(* Apply: apply_disk_files_impl.                                           *)

StartApply ==
    /\ Idle /\ rcpt = NoReceipt /\ ~removed /\ published = {}
    /\ mem' = Blank /\ cancelled' = FALSE /\ listed' = "no"
    /\ \/ Persist(Blank) /\ pc' = "next" /\ at' = 1 /\ op' = "apply"
       \/ PersistFails(Blank) /\ Finish
    /\ UNCHANGED <<files, bak, saved, protect, docs, startup, tampered, edits,
                   crashes, opens, history>>

\* A file that is passed over is persisted in the same step: nothing else of
\* the job happens in between.
PassOver(r, next) ==
    /\ mem' = r
    /\ \/ Persist(r) /\ Goto("next", next)
       \/ PersistFails(r) /\ Finish

Rest == [f \in Files |-> IF f >= at THEN [mem[f] EXCEPT !.state = "Skipped"] ELSE mem[f]]

\* A target that is open, or found to be read-only, is skipped.
NextFile ==
    /\ pc = "next"
    /\ \/ at > Count /\ Finish /\ UNCHANGED <<rcpt, mem, faults>>
       \/ at <= Count /\ cancelled /\ PassOver(Rest, Count + 1)
       \/ at <= Count /\ ~cancelled /\ PassOver(Set("Skipped"), at + 1)
       \/ /\ at <= Count /\ ~cancelled /\ docs[at] # "open"
          /\ Goto("review", at) /\ UNCHANGED <<rcpt, mem, faults>>
    /\ UNCHANGED <<files, bak, saved, protect, env, history>>

\* The file is opened again and compared with the reviewed fingerprint.  A
\* touch changes the fingerprint and not the content.
Review ==
    /\ pc = "review"
    /\ \/ /\ disk[at] = "orig" /\ ~cancelled /\ NoFault
          /\ mem' = [mem EXCEPT ![at].hashed = TRUE]
          /\ Goto(IF protect THEN "backup" ELSE "stage", at)
       \/ /\ disk[at] \notin {"orig", "gone"} /\ NoFault
          /\ mem' = Set("Skipped") /\ Goto("record", at)
       \/ disk[at] = "orig" /\ Fault /\ mem' = Set("Skipped") /\ Goto("record", at)
       \/ /\ disk[at] = "gone" \/ cancelled
          /\ NoFault /\ mem' = Set("Failed") /\ Goto("record", at)
    /\ UNCHANGED <<files, bak, rcpt, saved, protect, env, history>>

Backup ==
    /\ pc = "backup"
    /\ \/ /\ disk[at] = "orig" /\ ~cancelled /\ NoFault
          /\ bak' = [bak EXCEPT ![at] = "orig"]
          /\ mem' = [mem EXCEPT ![at].backup = TRUE] /\ Goto("stage", at)
       \/ /\ IF disk[at] # "orig" \/ cancelled THEN NoFault ELSE Fault
          /\ bak' = [bak EXCEPT ![at] = "partial"]
          /\ mem' = Set("Failed") /\ Goto("record", at)
    /\ UNCHANGED <<files, rcpt, saved, protect, env, history>>

\* Faulty variant: the receipt is not persisted before the target changes.
StageInMemory ==
    /\ pc = "stage" /\ mem' = Set("Staged") /\ Goto("save", at) /\ NoFault
    /\ UNCHANGED <<files, bak, rcpt, saved, protect, env, history>>

Stage ==
    /\ pc = "stage"
    /\ \/ Persist(Set("Staged")) /\ mem' = Set("Staged") /\ Goto("save", at)
       \/ PersistFails(Set("Staged")) /\ mem' = Set("Failed") /\ Goto("record", at)
    /\ UNCHANGED <<files, bak, saved, protect, env, history>>

\* Faulty variant: waits for the target to become readable, and owns file
\* admission meanwhile.
ClassifyWaiting ==
    /\ pc = "classify" /\ disk[at] # "gone" /\ NoFault
    /\ mem' = Set(IF saved \/ disk[at] = "after" THEN "Committed"
                  ELSE IF disk[at] = "orig" THEN "Failed" ELSE "Conflict")
    /\ Goto("record", at)
    /\ UNCHANGED <<files, bak, rcpt, saved, protect, env, history>>

\* A save that failed is classified by the target's bytes, at once:
\* classify_interrupted.
Classify ==
    /\ pc = "classify"
    /\ \/ saved /\ NoFault /\ mem' = Set("Committed")
       \/ /\ ~saved /\ disk[at] # "gone" /\ NoFault
          /\ mem' = Set(IF disk[at] = "after" THEN "Committed"
                        ELSE IF disk[at] # "orig" THEN "Conflict"
                        ELSE IF cancelled THEN "Skipped" ELSE "Failed")
       \/ /\ ~saved /\ IF disk[at] = "gone" THEN NoFault ELSE Fault
          /\ mem' = Set("Uncertain")
    /\ Goto("record", at)
    /\ UNCHANGED <<files, bak, rcpt, saved, protect, env, history>>

\* The outcome is persisted, then the file's admission ends.  A failure ends
\* the job and leaves the record as it was staged.
RecordOutcome ==
    /\ pc = "record"
    /\ \/ Persist(mem) /\ Goto("next", at + 1)
       \/ PersistFails(mem) /\ Finish
    /\ UNCHANGED <<files, bak, mem, saved, protect, env, history>>

-----------------------------------------------------------------------------
(* Reconciliation: reconcile_receipt, for a listing and before a rollback. *)

Begin(operation) ==
    /\ pc' = "reconcile" /\ at' = 1 /\ op' = operation /\ mem' = rcpt
    /\ cancelled' = FALSE

\* search_replace_list_backups: at startup once, then when the user asks.
List ==
    /\ pc = "idle" /\ startup' = FALSE
    /\ IF rcpt # NoReceipt /\ SomeState(rcpt, Unresolved)
       THEN Begin("list") /\ listed' = "no"
       ELSE /\ listed' = IF rcpt = NoReceipt THEN "no" ELSE "ready"
            /\ UNCHANGED <<pc, at, op, mem, cancelled>>
    /\ UNCHANGED <<files, bak, rcpt, saved, protect, docs, tampered, edits,
                   crashes, opens, history, faults>>

StartRollback ==
    /\ Idle /\ rcpt # NoReceipt /\ Begin("rollback") /\ listed' = "no"
    /\ UNCHANGED <<files, bak, rcpt, saved, protect, docs, startup, tampered,
                   edits, crashes, opens, history, faults>>

\* Faulty variant: a staged rollback is read as a staged commit.
ReconciledStateOneWay(r, content) ==
    IF r.hashed /\ content = "after" THEN "ReconciledCommitted"
    ELSE IF content = "orig" THEN "Skipped"
    ELSE "Conflict"

ReconciledState(r, content) ==
    IF r.state = "RollbackStaged" /\ content = "orig" THEN "RolledBack"
    ELSE IF r.hashed /\ content = "after" THEN "ReconciledCommitted"
    ELSE IF content = "orig" THEN "Skipped"
    ELSE "Conflict"

\* The row of a job whose reconciliation failed is an unreadable receipt's.
EndListing(row) == listed' = IF op = "list" THEN row ELSE listed

Reconcile ==
    /\ pc = "reconcile" /\ at <= Count
    /\ \/ /\ mem[at].state \notin Unresolved /\ NoFault
          /\ Goto("reconcile", at + 1) /\ UNCHANGED <<mem, listed>>
       \/ /\ mem[at].state \in Unresolved /\ cancelled /\ NoFault
          /\ Finish /\ UNCHANGED <<mem, listed>>
       \/ /\ mem[at].state \in Unresolved /\ ~cancelled
          /\ \/ NoFault /\ mem' = Set(ReconciledState(mem[at], disk[at]))
             \/ /\ Fault
                /\ mem' = IF mem[at].state = "RollbackStaged" THEN mem ELSE Set("Uncertain")
          /\ Goto("reconcile", at + 1) /\ UNCHANGED listed
    /\ UNCHANGED <<files, bak, rcpt, saved, protect, cancelled, docs, startup,
                   tampered, edits, crashes, opens, history>>

EndReconcile ==
    /\ pc = "reconcile" /\ at > Count
    /\ \/ /\ Persist(mem)
          /\ IF op = "rollback" THEN Goto("unprotect", 1) ELSE Finish
          /\ EndListing(IF SomeState(mem, Unresolved) THEN "reconciling" ELSE "ready")
       \/ PersistFails(mem) /\ Finish /\ EndListing("unreadable")
    /\ UNCHANGED <<files, bak, mem, saved, protect, cancelled, docs, startup,
                   tampered, edits, crashes, opens, history>>

-----------------------------------------------------------------------------
(* Rollback: rollback_receipt_impl.                                        *)

Unprotected(f) == mem[f].state \in Restorable /\ ~mem[f].backup

\* Records that were replaced without a backup are given up at once.
Unprotect ==
    /\ pc = "unprotect"
    /\ mem' = [f \in Files |->
                 IF Unprotected(f) THEN [mem[f] EXCEPT !.state = "Kept"] ELSE mem[f]]
    /\ IF mem' = mem
       THEN NoFault /\ UNCHANGED rcpt /\ Goto("restore", 1)
       ELSE \/ Persist(mem') /\ Goto("restore", 1)
            \/ PersistFails(mem') /\ Finish
    /\ UNCHANGED <<files, bak, saved, protect, env, history>>

\* What the target and its backup, read under admission, say of a restore.
RestoreState(f) ==
    IF disk[f] = "gone" THEN "Conflict"
    ELSE IF docs[f] = "open" THEN "RollbackFailed"
    ELSE IF disk[f] = "orig" THEN "RolledBack"
    ELSE IF disk[f] # "after" THEN "Conflict"
    ELSE IF bak[f] = "none" THEN "Kept"
    ELSE IF bak[f] # "orig" THEN "Conflict"
    ELSE "RollbackStaged"

Restore ==
    /\ pc = "restore"
    /\ \/ at > Count /\ NoFault /\ Finish /\ UNCHANGED mem
       \/ at <= Count /\ cancelled /\ NoFault /\ Finish /\ UNCHANGED mem
       \/ /\ at <= Count /\ ~cancelled /\ mem[at].state \notin Restorable
          /\ NoFault /\ Goto("restore", at + 1) /\ UNCHANGED mem
       \/ /\ at <= Count /\ ~cancelled /\ mem[at].state \in Restorable
          /\ mem[at].backup /\ NoFault /\ mem' = Set(RestoreState(at))
          /\ Goto(IF RestoreState(at) = "RollbackStaged" THEN "rstage" ELSE "rrecord", at)
       \/ /\ at <= Count /\ ~cancelled /\ mem[at].state \in Restorable
          /\ mem[at].backup /\ Fault /\ mem' = Set("RollbackFailed")
          /\ Goto("rrecord", at)
    /\ UNCHANGED <<files, bak, rcpt, saved, protect, env, history>>

RestoreStage ==
    /\ pc = "rstage"
    /\ \/ Persist(mem) /\ Goto("save", at) /\ UNCHANGED saved
       \/ PersistFails(mem) /\ saved' = FALSE /\ Goto("rclassify", at)
    /\ UNCHANGED <<files, bak, mem, protect, env, history>>

RestoreClassify ==
    /\ pc = "rclassify" /\ Goto("rrecord", at)
    /\ \/ /\ disk[at] # "gone" /\ NoFault
          /\ mem' = Set(IF disk[at] = "orig" THEN "RolledBack"
                        ELSE IF disk[at] = "after" THEN "RollbackFailed"
                        ELSE IF saved THEN "Mismatched" ELSE "Conflict")
       \/ /\ IF disk[at] = "gone" THEN NoFault ELSE Fault
          /\ mem' = Set("RollbackStaged")
    /\ UNCHANGED <<files, bak, rcpt, saved, protect, env, history>>

RestoreRecord ==
    /\ pc = "rrecord"
    /\ \/ Persist(mem) /\ Goto("restore", at + 1)
       \/ PersistFails(mem) /\ Finish
    /\ UNCHANGED <<files, bak, mem, saved, protect, env, history>>

-----------------------------------------------------------------------------
(* Removal: retention and the user's delete, remove_receipt_job.           *)

BeginRemoval ==
    /\ pc' = "remove" /\ op' = "remove" /\ at' = 1 /\ listed' = "no"
    /\ UNCHANGED <<files, bak, rcpt, mem, saved, protect, cancelled, docs, startup,
                   tampered, edits, crashes, opens, history, faults>>

\* BackupRetention: settled jobs expire by age, which may come at any time.
Expire ==
    /\ Idle /\ rcpt # NoReceipt
    /\ ~SomeState(rcpt, Unresolved \cup {"RollbackFailed"})
    /\ BeginRemoval

Delete == Idle /\ listed \in {"ready", "unreadable"} /\ BeginRemoval

\* The receipt goes first.
RemoveReceipt ==
    /\ pc = "remove"
    /\ \/ /\ NoFault /\ rcpt' = NoReceipt /\ removed' = TRUE
          /\ pc' = "sweep" /\ UNCHANGED <<at, op>>
       \/ Fault /\ Finish /\ UNCHANGED <<rcpt, removed>>
    /\ UNCHANGED <<files, bak, mem, saved, protect, env, published, restored>>

SweepBackups ==
    /\ pc = "sweep"
    /\ \/ \E f \in Files : /\ bak[f] # "none" /\ bak' = [bak EXCEPT ![f] = "none"]
                           /\ NoFault /\ UNCHANGED <<pc, at, op>>
       \/ (\A f \in Files : bak[f] = "none") /\ Finish /\ NoFault /\ UNCHANGED bak
       \/ Fault /\ Finish /\ UNCHANGED bak
    /\ UNCHANGED <<files, rcpt, mem, saved, protect, env, history>>

-----------------------------------------------------------------------------
(* Around the worker.                                                      *)

Cancel ==
    /\ op \in {"apply", "rollback", "list"} /\ ~cancelled /\ cancelled' = TRUE
    /\ UNCHANGED <<job, docs, listed, startup, tampered, edits, crashes, opens,
                   history, faults>>

\* Another program writes or removes a target.
ExternalEdit(f) ==
    /\ MayHappen /\ edits < MaxEdits /\ edits' = edits + 1
    /\ \E c \in {"other", "gone"} \ {disk[f]} : disk' = [disk EXCEPT ![f] = c]
    /\ UNCHANGED <<held, beside, bak, rcpt, mem, pc, at, op, saved, protect, cancelled, docs,
                   listed, startup, tampered, crashes, opens, history, faults>>

\* Another program writes or removes a backup.
Tamper(f) ==
    /\ MayHappen /\ edits < MaxEdits /\ edits' = edits + 1 /\ bak[f] = "orig"
    /\ \E c \in {"other", "none"} : bak' = [bak EXCEPT ![f] = c]
    /\ tampered' = tampered \cup {f}
    /\ UNCHANGED <<files, rcpt, mem, pc, at, op, saved, protect, cancelled, docs,
                   listed, startup, crashes, opens, history, faults>>

SetDoc(f, state) == docs' = [docs EXCEPT ![f] = state]
OnlyDocs == UNCHANGED <<job, cancelled, listed, startup, tampered, edits,
                        crashes, history, faults>>

\* The file has been read; the document is not exposed yet.
Load(f) ==
    /\ ~startup /\ MayHappen /\ opens < MaxOpens /\ opens' = opens + 1
    /\ edits + faults + crashes <= MaxBeside
    /\ docs[f] = "none" /\ disk[f] # "gone" /\ SetDoc(f, "loaded") /\ OnlyDocs

\* try_register: refused, and tried again, while the worker owns admission.
Admit(f) ==
    /\ docs[f] = "loaded" /\ pc \notin Admission
    /\ SetDoc(f, "open") /\ OnlyDocs /\ UNCHANGED opens

CloseDocument(f) ==
    docs[f] = "open" /\ SetDoc(f, "none") /\ OnlyDocs /\ UNCHANGED opens

\* The process ends and starts again: a listing is due.  A rewrite may be
\* half done, and a stage that was just exchanged is swept with the stages.
Crash ==
    /\ MayHappen /\ crashes < MaxCrashes /\ crashes' = crashes + 1
    /\ TargetStays \/ (pc = "copied" /\ disk[at] # "gone" /\ Tear)
    /\ IF pc = "swapped" THEN UNCHANGED beside ELSE KeepHeld
    /\ held' = "none"
    /\ Finish /\ mem' = Blank /\ saved' = FALSE /\ cancelled' = FALSE
    /\ docs' = [f \in Files |-> "none"] /\ listed' = "no" /\ startup' = TRUE
    /\ UNCHANGED <<bak, rcpt, protect, tampered, edits, opens, removed, faults>>

Apply == NextFile \/ Review \/ Backup \/ Stage \/ Classify \/ RecordOutcome
Rollback == Unprotect \/ Restore \/ RestoreStage \/ RestoreClassify \/ RestoreRecord
Replacement == Save \/ Commit \/ Verify
Work == Apply \/ Replacement \/ Reconcile \/ EndReconcile \/ Rollback \/ RemoveReceipt \/ SweepBackups
User == StartApply \/ List \/ StartRollback \/ Expire \/ Delete \/ Cancel
Others == \E f \in Files : ExternalEdit(f) \/ Tamper(f)
Documents == \E f \in Files : Load(f) \/ Admit(f) \/ CloseDocument(f)

Next == Work \/ User \/ Others \/ Documents \/ Crash

Spec == Init /\ [][Next]_vars

\* The worker runs what it was given.  Every pump tries the loaded documents
\* again, and the thread that pumps is the one that starts the next operation:
\* a document is tried between two operations, however many the user starts.
FairSpec ==
    /\ Spec /\ WF_vars(Work)
    /\ SF_vars(\E f \in Files : Admit(f))

-----------------------------------------------------------------------------
(* The state has the shape the definitions above give it. *)
TypeOK ==
    /\ disk \in [Files -> Contents] /\ held \in Contents \cup {"none"} /\ beside \subseteq Files
    /\ bak \in [Files -> {"none", "orig", "partial", "other"}]
    /\ rcpt \in [Files -> Record] \cup {NoReceipt} /\ mem \in [Files -> Record]
    /\ pc \in Admission \cup {"idle", "next", "reconcile", "unprotect", "restore",
                              "rclassify", "rrecord", "remove", "sweep"}
    /\ at \in 1 .. Count + 1 /\ op \in {"none", "apply", "rollback", "list", "remove"}
    /\ docs \in [Files -> {"none", "loaded", "open"}]
    /\ listed \in {"no", "ready", "reconciling", "unreadable"}
    /\ {saved, protect, cancelled, startup, removed} \subseteq BOOLEAN
    /\ tampered \subseteq Files /\ published \subseteq Files /\ restored \subseteq Files
    /\ edits \in 0 .. MaxEdits /\ faults \in 0 .. MaxFaults
    /\ crashes \in 0 .. MaxCrashes /\ opens \in 0 .. MaxOpens

\* As long as the job was not removed and nobody touched the backup, a file
\* the job has changed, or left half rewritten, has its original in a backup that the receipt names,
\* and the receipt on disk leaves its rollback open: whatever failed, was
\* cancelled or crashed between staging, saving and recording.
OutputRecoverable ==
    \A f \in Files :
        disk[f] \in {"after", "mangled", "torn"} /\ ~removed =>
            /\ rcpt # NoReceipt
            /\ disk[f] = "after" /\ protect /\ f \notin tampered =>
                 rcpt[f].state \in (Restorable \cup Unresolved) \ {"Planned"}
            /\ protect /\ f \notin tampered => rcpt[f].backup /\ bak[f] = "orig"

\* A rollback the receipt on disk still offers finds its backup, unless
\* another program removed it: a removal that is interrupted leaves none.
OfferedBackupExists ==
    \A f \in Files :
        /\ rcpt # NoReceipt /\ f \notin tampered
        /\ rcpt # NoReceipt => rcpt[f].backup /\ rcpt[f].state \in Restorable \cup Unresolved
        => bak[f] = "orig"

\* What the receipt on disk says happened did happen: a committed file was
\* replaced, a skipped or failed one was not, a restored one was restored.
ReceiptTruthful ==
    rcpt # NoReceipt =>
        \A f \in Files :
            LET state == rcpt[f].state IN
            /\ state \in Restorable \cup {"RollbackStaged", "Kept", "Mismatched", "RolledBack"}
               => f \in published
            /\ state \in {"Planned", "Skipped", "Failed"} => f \notin published
            /\ state = "RolledBack" => f \in restored

\* The two windows that are left: a write into a file that was copied and is
\* being rewritten in place, and a version that an exchange left under a stage
\* name, for the process ended before the move or neither that, the swap back
\* nor the rename that keeps the stage worked: a later start sweeps it.
OverwrittenInPlace(f) == pc = "copied" /\ f = at
SweptAsStage == pc = "swapped" /\ pc' # "verify" /\ disk' = disk

\* What another program writes to a target at any time, between a save's
\* check and its replacement too, is never destroyed by the job: it stays in
\* the target, or it is displaced and stays beside it, or it is put back.
ForeignContentKept ==
    [][/\ \A f \in Files : disk[f] = "other" /\ disk'[f] # "other" /\ edits' = edits =>
             held' = "other" \/ f \in beside' \/ OverwrittenInPlace(f)
       /\ held = "other" /\ held' # "other" =>
             disk'[at] = "other" \/ at \in beside' \/ SweptAsStage]_vars

\* The worker never changes a file under a document that is open on it.
OpenDocumentUntouched ==
    [][\A f \in Files :
         disk'[f] # disk[f] /\ edits' = edits => docs[f] # "open"]_vars

\* A document that is waiting for the worker to release file admission is
\* exposed in the end, or its process is gone.
OpenAdmitted == \A f \in Files : (docs[f] = "loaded") ~> (docs[f] # "loaded")

\* A job whose records still await reconciliation is not deleted: deleting
\* it would lose that answer (shell/search/replace.rs ListedJob.reconciling).  The
\* code deletes one whose receipt the listing could not read.
UnreconciledKept ==
    [][rcpt # NoReceipt /\ rcpt' = NoReceipt => ~SomeState(rcpt, Unresolved)]_vars
=============================================================================

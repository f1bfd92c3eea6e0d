-------------------------- MODULE ResidentCheckpoint --------------------------
(***************************************************************************)
(* Crash checkpoints of a resident document: ResidentRecovery of            *)
(* crates/file-io/src/resident_recovery.rs on the journals of               *)
(* paged_recovery.rs, and the discard ticket of recovery_retirement.rs.     *)
(*                                                                          *)
(* Four threads: the UI thread calls observe, set_original_path, retry,      *)
(* discard and resume_after_discard; the resident-recovery worker writes     *)
(* journals and purges retired ones in the order they were queued; the       *)
(* baseline worker copies each new journal's baseline; the retirement        *)
(* executor runs discard tickets.  Journals of one slot share a status.      *)
(* The disk is what a crash at any moment would leave.                       *)
(***************************************************************************)
EXTENDS Integers, Sequences, FiniteSets

CONSTANTS
    MaxEdits,        \* bound on the document's content states
    MaxPaths,        \* bound on the changes of the original path
    MaxIncremental,  \* MAX_INCREMENTAL
    MaxRetries,      \* bound on the user's retries
    MaxSlots,        \* bound on the slots used: one more than the resumptions
    MaxFaults,       \* bound on failing calls and full queues
    MayDiscard,      \* whether the document's recovery may be discarded
    Restored         \* whether the document was itself restored from a journal

ASSUME ConstantsAssumption ==
    /\ MaxEdits \in Nat \ {0} /\ MaxPaths \in Nat /\ MaxIncremental \in Nat
    /\ MaxRetries \in Nat /\ MaxSlots \in Nat \ {0} /\ MaxFaults \in Nat
    /\ MayDiscard \in BOOLEAN /\ Restored \in BOOLEAN

-----------------------------------------------------------------------------
None == 0                       \* no content state, no journal
States == 1 .. MaxEdits
(* A full copy follows an edit, a retry or a resumption.                      *)
MaxJournals == MaxEdits + MaxRetries + MaxSlots
Journals == 1 .. MaxJournals
Slots == 1 .. MaxSlots

(* Faulty variant: a resumed document keeps its first slot's directory names. *)
DirectoryUnrenewed(slot, generation) == <<1, generation % 2>>

(* slot_directory: two directories for each slot, by generation parity.     *)
Directory(slot, generation) == <<slot, generation % 2>>
SlotDirectories(slot) == {Directory(slot, 0), Directory(slot, 1)}
Adopted == <<0, 0>>             \* the journal the document was restored from
NoDirectory == <<0, 1>>
Directories == {Adopted} \cup UNION {SlotDirectories(s) : s \in Slots}

VARIABLES
    doc,        \* the document: its content state and whether it is dirty
    ui,         \* the fields of ResidentRecovery
    status,     \* the PagedRecoveryStatus the journals of each slot share
    disk,       \* what each journal directory holds
    journals,   \* the PagedRecovery objects created so far
    queue,      \* jobs of the resident-recovery worker, the running one first
    baselines,  \* journals whose baseline copy is queued, the running one first
    replies,    \* what the worker sent for each slot and nobody received
    tickets,    \* the discard ticket of each slot
    faults,     \* calls that have failed
    retries,    \* retries the user has asked for
    cover       \* history: the newest state a journal made durable, until
                \* observe sees the document clean or it is discarded

vars == <<doc, ui, status, disk, journals, queue, baselines, replies, tickets,
          faults, retries, cover>>

NoStatus == [dir |-> NoDirectory, durable |-> FALSE, complete |-> FALSE,
             error |-> FALSE, baseline_error |-> FALSE]
Absent == [extent |-> "absent", journal |-> None, root |-> None, baseline |-> None]
NoReply == [kind |-> "none", ok |-> FALSE, journal |-> None, paths |-> {}]
NoTicket == [phase |-> "none", drained |-> FALSE, journals |-> {}, paths |-> {}]

(* The state has the shape the definitions above give it. *)
TypeOK ==
    /\ doc \in [state : States, dirty : BOOLEAN]
    /\ ui \in [slot : Slots, generation : 0 .. MaxJournals,
               pending_generation : 0 .. MaxJournals + 1,
               current : Journals \cup {None}, previous : SUBSET Journals,
               adopted_paths : SUBSET Directories, retire_paths : SUBSET Directories,
               retry_retirement : BOOLEAN, retirement : BOOLEAN,
               pending : {"none", "full", "incremental"},
               appending : Directories \cup {NoDirectory},
               incremental : 0 .. MaxIncremental, force_full : BOOLEAN,
               path_changes : 0 .. MaxPaths, pending_path_changes : 0 .. MaxPaths,
               captured : States \cup {None}, discard : BOOLEAN]
    /\ status \in [Slots -> [dir : Directories \cup {NoDirectory}, durable : BOOLEAN,
                             complete : BOOLEAN, error : BOOLEAN,
                             baseline_error : BOOLEAN]]
    /\ disk \in [Directories -> [extent : {"absent", "bare", "journal", "retired"},
                                 journal : Journals \cup {None},
                                 root : States \cup {None},
                                 baseline : Journals \cup {None}]]
    /\ Len(journals) <= MaxJournals
    /\ \A i \in DOMAIN baselines : baselines[i].journal \in DOMAIN journals
    /\ \A s \in Slots : tickets[s].paths \subseteq Directories
    /\ faults \in 0 .. MaxFaults
    /\ retries \in 0 .. MaxRetries
    /\ cover \in States \cup {None}

(* A new recovery; a restored document adopts the journal it came from.     *)
Init ==
    /\ doc = [state |-> 1, dirty |-> Restored]
    /\ ui = [slot |-> 1, generation |-> 0, pending_generation |-> 0,
             current |-> None, previous |-> {},
             adopted_paths |-> IF Restored THEN {Adopted} ELSE {},
             retire_paths |-> {}, retry_retirement |-> TRUE, retirement |-> FALSE,
             pending |-> "none", appending |-> NoDirectory, incremental |-> 0,
             force_full |-> FALSE, path_changes |-> 0, pending_path_changes |-> 0,
             captured |-> None, discard |-> FALSE]
    /\ status = [s \in Slots |-> NoStatus]
    /\ disk = [d \in Directories |->
                  IF Restored /\ d = Adopted
                  THEN [Absent EXCEPT !.extent = "journal", !.root = 1] ELSE Absent]
    /\ journals = <<>>
    /\ queue = <<>>
    /\ baselines = <<>>
    /\ replies = [s \in Slots |-> [checkpoint |-> NoReply, retirement |-> NoReply]]
    /\ tickets = [s \in Slots |-> NoTicket]
    /\ faults = 0
    /\ retries = 0
    /\ cover = IF Restored THEN 1 ELSE None

-----------------------------------------------------------------------------
(* Bounds.  A document whose recovery is discarded meets one edit and one     *)
(* fault less, and neither a retry nor a change of path.                    *)
Discarded == ui.discard \/ ui.slot > 1
Less(bound) == IF Discarded /\ bound > 1 THEN bound - 1 ELSE bound
MayDrop == /\ MayDiscard /\ retries = 0 /\ ui.path_changes = 0
           /\ doc.state < MaxEdits \/ MaxEdits = 1
           /\ faults < MaxFaults \/ MaxFaults = 0

Fault == faults < Less(MaxFaults) /\ faults' = faults + 1

(* A PagedRecovery lives while the UI, a job, a reply or a ticket holds it;   *)
(* dropping it cancels its baseline copy and releases its DirectoryClaim.    *)
Live == ({ui.current} \cup ui.previous
           \cup {queue[i].journal : i \in DOMAIN queue}
           \cup {replies[s].checkpoint.journal : s \in Slots}
           \cup UNION {tickets[s].journals : s \in Slots}) \ {None}
Claimed == {journals[j].dir : j \in Live}

RecordAppend(s, maintenance) ==
    [s EXCEPT !.durable = TRUE, !.error = maintenance \/ s.baseline_error]
(* Faulty variant: the failed copy is kept but not reported.                 *)
FailBaselineQuiet(s) == [s EXCEPT !.baseline_error = TRUE]

FailBaseline(s) == [s EXCEPT !.baseline_error = TRUE, !.error = TRUE]

-----------------------------------------------------------------------------
(* observe, in the order of the code: each part maps the UI's fields and the *)
(* slot's status to what they are after it.                                  *)

PollCheckpoint(v) ==
    LET r == replies[v.u.slot].checkpoint
        received == [v.u EXCEPT !.pending = "none"]
    IN CASE r.kind = "none" -> v
         [] r.kind = "full" /\ r.ok ->
              [v EXCEPT !.u = [received EXCEPT
                 !.generation = v.u.pending_generation,
                 !.incremental = 0,
                 !.force_full = @ /\ v.u.pending_path_changes # v.u.path_changes,
                 !.previous = @ \cup ({v.u.current} \ {None}),
                 !.current = r.journal]]
         [] r.kind = "full" /\ ~ r.ok ->
              [v EXCEPT !.u = received, !.s.error = TRUE]
         [] r.kind = "incremental" ->
              [v EXCEPT !.u = [received EXCEPT
                                 !.appending = NoDirectory, !.current = r.journal,
                                 !.incremental = IF r.ok THEN @ + 1 ELSE @],
                        !.s.error = @ \/ ~ r.ok]

(* Faulty variant: a retirement resets the status whatever it removed.       *)
PollRetirementResets(v) ==
    LET r == replies[v.u.slot].retirement
    IN IF r.kind = "none" THEN v
       ELSE [u |-> [v.u EXCEPT !.retirement = FALSE, !.retire_paths = @ \ r.paths],
             s |-> IF r.ok THEN NoStatus ELSE [v.s EXCEPT !.error = TRUE]]

PollRetirement(v) ==
    LET r == replies[v.u.slot].retirement
    IN CASE r.kind = "none" -> v
         [] r.kind # "none" /\ r.ok ->
              [u |-> [v.u EXCEPT !.retirement = FALSE, !.retire_paths = @ \ r.paths],
               s |-> IF v.s.dir \in r.paths THEN NoStatus ELSE v.s]
         [] r.kind # "none" /\ ~ r.ok ->
              [v EXCEPT !.u.retirement = FALSE, !.s.error = TRUE]

(* A durable successor makes predecessors and adopted journals obsolete; a   *)
(* saved document makes the checkpoint itself obsolete.                      *)
Superseding(v) ==
    /\ ~ v.u.retirement /\ v.u.pending = "none"
    /\ v.u.current # None
    /\ v.s.durable /\ ~ v.s.error
Unneeded(v) == Superseding(v) /\ ~ doc.dirty /\ v.u.captured = doc.state

CollectObsolete(v) ==
    LET obsolete == v.u.previous \cup (IF Unneeded(v) THEN {v.u.current} ELSE {})
    IN IF ~ Superseding(v) THEN v
       ELSE [v EXCEPT !.u = [v.u EXCEPT
               !.adopted_paths = {},
               !.retire_paths = @ \cup v.u.adopted_paths
                                  \cup {journals[j].dir : j \in obsolete},
               !.previous = {},
               !.current = IF Unneeded(v) THEN None ELSE @,
               !.captured = IF Unneeded(v) THEN None ELSE @,
               !.retry_retirement = @ \/ obsolete # {}]]

(* The live checkpoint's directory is never purged.                         *)
SpareLive(v) ==
    [v EXCEPT !.u.retire_paths = @ \ ({v.u.appending}
        \cup (IF v.u.current = None THEN {} ELSE {journals[v.u.current].dir}))]

Observed == SpareLive(CollectObsolete(PollRetirement(PollCheckpoint(
                [u |-> ui, s |-> status[ui.slot]]))))

MustRetire(v) ==
    ~ v.u.retirement /\ v.u.retry_retirement /\ v.u.retire_paths # {}

(* observe returns before it starts a checkpoint.                            *)
NothingToStart(v) ==
    \/ ~ doc.dirty /\ v.u.captured = None
    \/ v.u.pending # "none"
    \/ v.u.retirement
    \/ v.u.retire_paths # {}
    \/ v.u.captured = doc.state
    \/ v.u.current # None /\ ~ v.s.complete /\ ~ v.s.error

IncrementalAllowed(v) ==
    /\ ~ v.u.force_full
    /\ v.u.incremental < MaxIncremental
    /\ v.u.current # None
    /\ v.s.durable /\ ~ v.s.error
    /\ journals[v.u.current].root < doc.state

(* The parity slot the current checkpoint does not own.                      *)
Target(v) ==
    LET next == Directory(v.u.slot, v.u.generation + 1)
    IN IF v.u.current # None /\ journals[v.u.current].dir = next
       THEN Directory(v.u.slot, v.u.generation + 2) ELSE next

Job(kind, v) == [kind |-> kind, slot |-> v.u.slot, step |-> "queued",
                 dir |-> NoDirectory, state |-> doc.state, path |-> 0,
                 journal |-> None, paths |-> {}, done |-> {}]

(* What every call of observe ends with.                                     *)
Ends(u, s) ==
    /\ ui' = u
    /\ status' = [status EXCEPT ![ui.slot] = s]
    /\ replies' = [replies EXCEPT ![ui.slot] =
                      [checkpoint |-> NoReply, retirement |-> NoReply]]
    /\ cover' = IF doc.dirty THEN cover ELSE None
    /\ UNCHANGED <<doc, disk, journals, baselines, tickets, retries>>

ObserveRetire ==
    LET v == Observed
        u == [v.u EXCEPT !.retry_retirement = FALSE]
    IN /\ ~ ui.discard
       /\ MustRetire(v)
       /\ \/ /\ queue' = Append(queue, [Job("retire", v) EXCEPT
                                            !.paths = v.u.retire_paths])
             /\ Ends([u EXCEPT !.retirement = TRUE], v.s)
             /\ UNCHANGED faults
          \/ /\ Fault
             /\ Ends(u, [v.s EXCEPT !.error = TRUE])
             /\ UNCHANGED queue

ObserveOnly ==
    LET v == Observed
    IN /\ ~ ui.discard
       /\ ~ MustRetire(v) /\ NothingToStart(v)
       /\ Ends(v.u, v.s)
       /\ UNCHANGED <<queue, faults>>

(* append_incremental hands the journal to the job; a full queue hands it    *)
(* straight back.                                                            *)
ObserveAppend ==
    LET v == Observed
    IN /\ ~ ui.discard
       /\ ~ MustRetire(v) /\ ~ NothingToStart(v) /\ IncrementalAllowed(v)
       /\ \/ /\ queue' = Append(queue, [Job("incremental", v) EXCEPT
                             !.dir = journals[v.u.current].dir,
                             !.journal = v.u.current])
             /\ Ends([v.u EXCEPT !.pending = "incremental", !.current = None,
                                 !.appending = journals[v.u.current].dir,
                                 !.captured = doc.state], v.s)
             /\ UNCHANGED faults
          \/ /\ Fault
             /\ Ends(v.u, [v.s EXCEPT !.error = TRUE])
             /\ UNCHANGED queue

(* A full copy, because an append is not allowed or the journal's owned store *)
(* has outgrown the text (how far is left open).  A predecessor that owns    *)
(* the target directory is released.                                         *)
ObserveFull ==
    LET v == Observed
        u == [v.u EXCEPT !.previous = {j \in @ : journals[j].dir # Target(v)}]
    IN /\ ~ ui.discard
       /\ ~ MustRetire(v) /\ ~ NothingToStart(v)
       /\ \/ /\ queue' = Append(queue, [Job("full", v) EXCEPT
                             !.dir = Target(v), !.path = v.u.path_changes])
             /\ Ends([u EXCEPT !.pending = "full",
                               !.pending_generation = v.u.generation + 1,
                               !.pending_path_changes = v.u.path_changes,
                               !.captured = doc.state], v.s)
             /\ UNCHANGED faults
          \/ /\ Fault
             /\ Ends(u, [v.s EXCEPT !.error = TRUE])
             /\ UNCHANGED queue

-----------------------------------------------------------------------------
(* The resident-recovery worker runs the first job of its queue.             *)
Running(kind, step) == queue # <<>> /\ Head(queue).kind = kind /\ Head(queue).step = step

CheckpointReply(ok, journal) ==
    LET job == Head(queue)
    IN /\ replies' = [replies EXCEPT ![job.slot].checkpoint =
                         [kind |-> job.kind, ok |-> ok, journal |-> journal,
                          paths |-> {}]]
       /\ queue' = Tail(queue)

Cancelled(slot) == tickets[slot].phase # "none"

(* A discard cancels a job that has not started; reading and transcoding the *)
(* original may fail; create_in refuses a directory somebody owns.  The job  *)
(* ends before it touches its directory, or with it half removed.            *)
FullFails ==
    /\ Running("full", "queued")
    /\ LET d == Head(queue).dir
       IN \/ /\ Cancelled(Head(queue).slot) \/ d \in Claimed
             /\ UNCHANGED <<disk, faults>>
          \/ /\ Fault
             /\ \/ UNCHANGED disk
                \/ /\ d \notin Claimed /\ disk[d].extent # "absent"
                   /\ disk' = [disk EXCEPT ![d] = [Absent EXCEPT !.extent = "bare"]]
    /\ CheckpointReply(FALSE, None)
    /\ UNCHANGED <<doc, ui, status, journals, baselines, tickets, cover, retries>>

(* create_in claims the directory and removes what it held.                  *)
FullClear ==
    /\ Running("full", "queued")
    /\ Head(queue).dir \notin Claimed
    /\ disk' = [disk EXCEPT ![Head(queue).dir] = Absent]
    /\ queue' = [queue EXCEPT ![1].step = "cleared"]
    /\ UNCHANGED <<doc, ui, status, journals, baselines, replies, tickets, faults,
                   cover, retries>>

(* RecoveryWriter::create, the status reset, and the baseline copy queued or *)
(* its queue found full.                                                     *)
FullCreate ==
    /\ Running("full", "cleared")
    /\ LET job == Head(queue)
           id == Len(journals) + 1
           reset == [NoStatus EXCEPT !.dir = job.dir]
       IN /\ disk' = [disk EXCEPT ![job.dir] =
                         [Absent EXCEPT !.extent = "journal", !.journal = id]]
          /\ journals' = Append(journals, [dir |-> job.dir, slot |-> job.slot,
                                           path |-> job.path, root |-> None])
          /\ queue' = [queue EXCEPT ![1].step = "created", ![1].journal = id]
          /\ \/ /\ baselines' = Append(baselines, [journal |-> id, copied |-> FALSE])
                /\ status' = [status EXCEPT ![job.slot] = reset]
                /\ UNCHANGED faults
             \/ /\ Fault
                /\ status' = [status EXCEPT ![job.slot] = FailBaseline(reset)]
                /\ UNCHANGED baselines
    /\ UNCHANGED <<doc, ui, replies, tickets, cover, retries>>

(* Creation stops before its manifest is published.                          *)
FullCreateFails ==
    /\ Running("full", "cleared")
    /\ Fault
    /\ \E extent \in {"absent", "bare"} :
          disk' = [disk EXCEPT ![Head(queue).dir].extent = extent]
    /\ CheckpointReply(FALSE, None)
    /\ UNCHANGED <<doc, ui, status, journals, baselines, tickets, cover, retries>>

(* append_resident: the root is durable, then its pointer is published; a    *)
(* failure of the second is only reported.  Full and incremental jobs end    *)
(* with it.                                                                  *)
Appending == Running("full", "created") \/ Running("incremental", "queued")

AppendRoot ==
    /\ Appending
    /\ LET job == Head(queue)
       IN /\ job.kind = "incremental" => ~ Cancelled(job.slot)
          /\ disk' = [disk EXCEPT ![job.dir].root = job.state]
          /\ journals' = [journals EXCEPT ![job.journal].root = job.state]
          /\ \/ /\ UNCHANGED faults
                /\ status' = [status EXCEPT ![job.slot] = RecordAppend(@, FALSE)]
             \/ /\ Fault
                /\ status' = [status EXCEPT ![job.slot] = RecordAppend(@, TRUE)]
          /\ cover' = IF Cancelled(job.slot) THEN cover ELSE job.state
          /\ CheckpointReply(TRUE, job.journal)
    /\ UNCHANGED <<doc, ui, baselines, tickets, retries>>

(* A failed append of a full copy drops its journal.                         *)
AppendFails ==
    /\ Appending
    /\ LET job == Head(queue)
       IN /\ \/ job.kind = "incremental" /\ Cancelled(job.slot) /\ UNCHANGED <<faults, status>>
             \/ Fault /\ status' = [status EXCEPT ![job.slot].error = TRUE]
          /\ CheckpointReply(FALSE, IF job.kind = "full" THEN None ELSE job.journal)
    /\ UNCHANGED <<doc, ui, disk, journals, baselines, tickets, cover, retries>>

(* Retiring paths one by one: a tombstone, then removal.  A directory with   *)
(* no manifest is refused; the first failure ends the job.                   *)
RetirePath ==
    /\ Running("retire", "queued")
    /\ \E d \in Head(queue).paths \ Head(queue).done :
          /\ disk[d].extent # "bare"
          /\ disk' = [disk EXCEPT ![d] = Absent]
          /\ queue' = [queue EXCEPT ![1].done = @ \cup {d}]
    /\ UNCHANGED <<doc, ui, status, journals, baselines, replies, tickets, faults,
                   cover, retries>>

RetirementReply(ok) ==
    /\ replies' = [replies EXCEPT ![Head(queue).slot].retirement =
                      [kind |-> "retire", ok |-> ok, journal |-> None,
                       paths |-> IF ok THEN Head(queue).paths ELSE {}]]
    /\ queue' = Tail(queue)

RetireDone ==
    /\ Running("retire", "queued")
    /\ Head(queue).paths = Head(queue).done
    /\ RetirementReply(TRUE)
    /\ UNCHANGED <<doc, ui, status, disk, journals, baselines, tickets, faults, cover, retries>>

RetireFails ==
    /\ Running("retire", "queued")
    /\ \E d \in Head(queue).paths \ Head(queue).done :
          \/ disk[d].extent = "bare" /\ UNCHANGED <<disk, faults>>
          \/ /\ Fault
             /\ \/ UNCHANGED disk
                \/ /\ disk[d].extent = "journal"
                   /\ disk' = [disk EXCEPT ![d].extent = "retired"]
    /\ RetirementReply(FALSE)
    /\ UNCHANGED <<doc, ui, status, journals, baselines, tickets, cover, retries>>

-----------------------------------------------------------------------------
(* The baseline worker.  Cancellation is only looked at while it copies, so  *)
(* a journal dropped after that still attaches its baseline to whatever the  *)
(* directory holds by then, and reports to the slot's shared status.         *)
Copying == Head(baselines).journal
Exists(j) == disk[journals[j].dir].extent = "journal"

BaselineCopied ==
    /\ baselines # <<>>
    /\ ~ Head(baselines).copied
    /\ Copying \in Live
    /\ Exists(Copying)
    /\ baselines' = [baselines EXCEPT ![1].copied = TRUE]
    /\ UNCHANGED <<doc, ui, status, disk, journals, queue, replies, tickets, faults,
                   retries, cover>>

BaselineLands ==
    /\ baselines # <<>>
    /\ Head(baselines).copied
    /\ Exists(Copying)
    /\ disk' = [disk EXCEPT ![journals[Copying].dir].baseline = Copying]
    /\ status' = [status EXCEPT ![journals[Copying].slot].complete = TRUE]
    /\ baselines' = Tail(baselines)
    /\ UNCHANGED <<doc, ui, journals, queue, replies, tickets, faults, retries, cover>>

(* Dropping the journal cancels the copy; an append that failed may have     *)
(* poisoned its writer.  A failure is reported unless the journal was dropped. *)
BaselineFails ==
    /\ baselines # <<>>
    /\ \/ /\ Copying \notin Live
          /\ Head(baselines).copied => journals[Copying].root = None
          /\ UNCHANGED faults
       \/ ~ Exists(Copying) /\ UNCHANGED faults
       \/ Fault
    /\ status' = IF Copying \in Live
                 THEN [status EXCEPT ![journals[Copying].slot] = FailBaseline(@)]
                 ELSE status
    /\ baselines' = Tail(baselines)
    /\ UNCHANGED <<doc, ui, disk, journals, queue, replies, tickets, retries, cover>>

-----------------------------------------------------------------------------
(* The document and the other calls of the UI thread.                        *)
Edit ==
    /\ doc.state < Less(MaxEdits)
    /\ doc' = [state |-> doc.state + 1, dirty |-> TRUE]
    /\ UNCHANGED <<ui, status, disk, journals, queue, baselines, replies, tickets,
                   faults, cover, retries>>

Saved ==
    /\ doc.dirty
    /\ doc' = [doc EXCEPT !.dirty = FALSE]
    /\ UNCHANGED <<ui, status, disk, journals, queue, baselines, replies, tickets,
                   faults, cover, retries>>

SetOriginalPath ==
    /\ ~ Discarded /\ ui.path_changes < MaxPaths
    /\ ui' = [ui EXCEPT !.force_full = TRUE, !.path_changes = @ + 1]
    /\ UNCHANGED <<doc, status, disk, journals, queue, baselines, replies, tickets,
                   faults, cover, retries>>

Retry ==
    /\ ~ Discarded /\ retries < MaxRetries
    /\ retries' = retries + 1
    /\ ui' = [ui EXCEPT !.captured = None, !.retry_retirement = TRUE]
    /\ UNCHANGED <<doc, status, disk, journals, queue, baselines, replies, tickets,
                   faults, cover>>

(* discard: everything the document owns goes to a ticket; the ticket's      *)
(* executor may refuse it, which discard retries at once and may meet again. *)
Discard ==
    /\ MayDrop /\ ~ ui.discard
    /\ \E phase \in {"requested", "failed"} :
          /\ tickets' = [tickets EXCEPT ![ui.slot] =
                [phase |-> phase, drained |-> FALSE,
                 journals |-> (ui.previous \cup {ui.current}) \ {None},
                 paths |-> ui.retire_paths \cup ui.adopted_paths
                              \cup SlotDirectories(ui.slot)]]
          /\ \/ /\ phase = "requested" /\ UNCHANGED faults
                /\ status' = [status EXCEPT ![ui.slot].error = FALSE]
             \/ /\ Fault
                /\ status' = [status EXCEPT ![ui.slot].error = TRUE]
    /\ ui' = [ui EXCEPT !.discard = TRUE, !.pending = "none", !.retirement = FALSE,
                        !.appending = NoDirectory, !.previous = {}, !.current = None,
                        !.retire_paths = {}, !.adopted_paths = {}]
    /\ cover' = None
    /\ UNCHANGED <<doc, disk, journals, queue, baselines, replies, retries>>

(* discard called again polls the ticket, and retries a failed tombstone.    *)
PollDiscard ==
    /\ ui.discard
    /\ LET phase == tickets[ui.slot].phase
       IN /\ status' = [status EXCEPT ![ui.slot] =
                CASE phase = "requested" -> [@ EXCEPT !.error = FALSE]
                  [] phase \in {"cleanup", "failed"} -> [@ EXCEPT !.error = TRUE]
                  [] OTHER -> NoStatus]
          /\ \/ /\ tickets' = [tickets EXCEPT ![ui.slot].phase =
                                  IF @ = "failed" THEN "requested" ELSE @]
                /\ UNCHANGED faults
             \/ phase = "failed" /\ Fault /\ UNCHANGED tickets
    /\ UNCHANGED <<doc, ui, disk, journals, queue, baselines, replies, cover, retries>>

(* An abandoned reload, or a document that stays open, takes a new slot; the *)
(* ticket runs on.                                                           *)
ResumeAfterDiscard ==
    /\ ui.discard /\ ui.slot < MaxSlots
    /\ ui' = [ui EXCEPT !.discard = FALSE, !.slot = @ + 1, !.generation = 0,
                        !.incremental = 0, !.force_full = FALSE, !.captured = None]
    /\ UNCHANGED <<doc, status, disk, journals, queue, baselines, replies, tickets,
                   faults, cover, retries>>

-----------------------------------------------------------------------------
(* Faulty variant: the ticket does not wait for the slot's jobs.             *)
TicketDrainEager(s) ==
    /\ tickets[s].phase = "requested" /\ ~ tickets[s].drained
    /\ tickets' = [tickets EXCEPT ![s].drained = TRUE]
    /\ UNCHANGED <<doc, ui, status, disk, journals, queue, baselines, replies,
                   faults, cover, retries>>

(* recovery_retirement::run.  It waits for the slot's jobs to reply, and     *)
(* takes the journal they return.                                            *)
TicketDrain(s) ==
    LET r == replies[s]
        owned == tickets[s].journals \cup ({r.checkpoint.journal} \ {None})
    IN /\ tickets[s].phase = "requested" /\ ~ tickets[s].drained
       /\ \A i \in DOMAIN queue : queue[i].slot # s
       /\ tickets' = [tickets EXCEPT ![s].drained = TRUE, ![s].journals = owned,
                         ![s].paths = (@ \ r.retirement.paths)
                                         \cup {journals[j].dir : j \in owned}]
       /\ replies' = [replies EXCEPT ![s] = [checkpoint |-> NoReply,
                                             retirement |-> NoReply]]
       /\ UNCHANGED <<doc, ui, status, disk, journals, queue, baselines, faults, cover, retries>>

Present(s) == {d \in tickets[s].paths : disk[d].extent # "absent"}
Retiring(D) == [d \in Directories |->
                   IF d \in D THEN [disk[d] EXCEPT !.extent = "retired"] ELSE disk[d]]

TicketTombstone(s) ==
    /\ tickets[s].phase = "requested" /\ tickets[s].drained
    /\ \A d \in Present(s) : disk[d].extent # "bare"
    /\ disk' = Retiring(Present(s))
    /\ tickets' = [tickets EXCEPT ![s].phase = "purging", ![s].journals = {}]
    /\ UNCHANGED <<doc, ui, status, journals, queue, baselines, replies, faults, cover, retries>>

TicketTombstoneFails(s) ==
    /\ tickets[s].phase = "requested" /\ tickets[s].drained
    /\ \E D \in SUBSET {d \in Present(s) : disk[d].extent # "bare"} : disk' = Retiring(D)
    /\ \/ Fault
       \/ (\E d \in Present(s) : disk[d].extent = "bare") /\ UNCHANGED faults
    /\ tickets' = [tickets EXCEPT ![s].phase = "failed"]
    /\ UNCHANGED <<doc, ui, status, journals, queue, baselines, replies, cover, retries>>

(* Purging removes what the tombstones cover; what it cannot remove is kept  *)
(* for a later retry.                                                        *)
Purged(D) == [d \in Directories |-> IF d \in D THEN Absent ELSE disk[d]]
Tombstoned(s) == {d \in tickets[s].paths : disk[d].extent = "retired"}

TicketPurge(s) ==
    /\ tickets[s].phase = "purging"
    /\ \/ /\ disk' = Purged(Tombstoned(s))
          /\ tickets' = [tickets EXCEPT ![s].phase = "complete"]
          /\ UNCHANGED faults
       \/ /\ Fault
          /\ \E D \in SUBSET Tombstoned(s) : disk' = Purged(D)
          /\ tickets' = [tickets EXCEPT ![s].phase = "cleanup"]
    /\ UNCHANGED <<doc, ui, status, journals, queue, baselines, replies, cover, retries>>

(* retry_pending_cleanup: retained receipts, and tickets whose tombstone     *)
(* failed.                                                                   *)
RetryPendingCleanup(s) ==
    /\ \/ /\ tickets[s].phase = "cleanup"
          /\ disk' = Purged(Tombstoned(s))
          /\ UNCHANGED tickets
       \/ /\ tickets[s].phase = "failed"
          /\ tickets' = [tickets EXCEPT ![s].phase = "requested"]
          /\ UNCHANGED disk
    /\ UNCHANGED <<doc, ui, status, journals, queue, baselines, replies, faults, cover, retries>>

-----------------------------------------------------------------------------
Observe == ObserveRetire \/ ObserveOnly \/ ObserveAppend \/ ObserveFull
Worker == FullFails \/ FullClear \/ FullCreate \/ FullCreateFails \/ AppendRoot
            \/ AppendFails \/ RetirePath \/ RetireDone \/ RetireFails
Baseline == BaselineCopied \/ BaselineLands \/ BaselineFails
Ticket(s) == TicketDrain(s) \/ TicketTombstone(s) \/ TicketTombstoneFails(s)
               \/ TicketPurge(s) \/ RetryPendingCleanup(s)
User == Edit \/ Saved \/ SetOriginalPath \/ Retry \/ Discard \/ PollDiscard
          \/ ResumeAfterDiscard

Next == Observe \/ Worker \/ Baseline \/ User \/ \E s \in Slots : Ticket(s)

Spec == Init /\ [][Next]_vars

(* The UI's pump calls observe, and every thread runs its queue.  Nobody has *)
(* to edit, save, retry or discard.                                          *)
Fairness ==
    /\ WF_vars(Observe) /\ WF_vars(Worker) /\ WF_vars(Baseline)
    /\ \A s \in Slots : WF_vars(TicketDrain(s) \/ TicketTombstone(s)
                                  \/ TicketTombstoneFails(s) \/ TicketPurge(s))

FairSpec == Spec /\ Fairness

-----------------------------------------------------------------------------
(* Properties.                                                               *)

(* A journal's last root is on disk and not retired; it can be restored when *)
(* its own baseline has landed too.                                          *)
Durable(d) == disk[d].extent = "journal" /\ disk[d].root # None
Restorable(d) == Durable(d) /\ disk[d].baseline = disk[d].journal

(* "While the document is dirty the latest successful checkpoint must stay   *)
(* durable": whatever attempts fail, are refused by a full queue or overlap   *)
(* retirement, a crash finds the newest checkpointed text on disk until it   *)
(* is saved or discarded.                                                    *)
LatestCheckpointStays ==
    cover # None => \E d \in Directories : Durable(d) /\ disk[d].root >= cover

(* The debug assertion of DirectoryClaim::acquire: no full copy is ever sent *)
(* to a directory a live journal still owns.                                 *)
TargetNeverOwned ==
    Running("full", "queued") => Head(queue).dir \notin Claimed

(* "the live checkpoint's directory is never purged": while a purge is under *)
(* way no path of it belongs to a live journal or a checkpoint being made.   *)
PurgeSparesLive ==
    \A i \in DOMAIN queue : queue[i].kind = "retire" =>
        /\ queue[i].paths \cap Claimed = {}
        /\ \A k \in DOMAIN queue : queue[k].kind # "retire"
                                      => queue[k].dir \notin queue[i].paths

(* A path change after a copy was queued still forces another: unless one is *)
(* due, the current journal records the document's present path.             *)
CurrentRecordsPath ==
    ui.current # None /\ ~ ui.force_full
        => journals[ui.current].path = ui.path_changes

(* "an old retirement reply can erase the new slot's status": the shared      *)
(* status of a settled, error-free checkpoint is that of the current journal. *)
StatusIsCurrents ==
    LET s == status[ui.slot]
    IN ui.current # None /\ ui.pending = "none" /\ ~ s.error
          => s.dir = journals[ui.current].dir /\ s.durable

(* Once discard reports durable, nothing the document owned is restorable    *)
(* again, although jobs and copies were under way when it was requested.     *)
DiscardedStaysGone ==
    \A s \in Slots : tickets[s].phase \in {"purging", "complete", "cleanup"} =>
        \A d \in tickets[s].paths \cup SlotDirectories(s) : ~ Durable(d)

Settled ==
    \/ ui.discard
    \/ /\ ui.pending = "none"
       /\ ~ doc.dirty \/ ui.captured = doc.state
       /\ ui.current = None \/ status[ui.slot].complete \/ status[ui.slot].error

(* "its baseline copy has landed, since a journal restores only with it":    *)
(* what logoff waits for means a restorable checkpoint of the dirty text,    *)
(* unless an error is on the status.                                         *)
SettledRestores ==
    Settled /\ ~ ui.discard /\ doc.dirty /\ ~ status[ui.slot].error
        => \E d \in Directories : Restorable(d) /\ disk[d].root = doc.state

(* Logoff never waits in vain: again and again the checkpoint is settled, or *)
(* an error tells the user why it is not.                                    *)
SettlesOrReports == []<>(Settled \/ status[ui.slot].error)
=============================================================================

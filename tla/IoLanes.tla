------------------------------- MODULE IoLanes -------------------------------
(***************************************************************************)
(* The file I/O service of crates/file-io/src/lifecycle.rs: two lanes of    *)
(* requests (saves, and bulk reads), one worker thread for each lane, and   *)
(* one mutex with one condition variable between them and the callers.      *)
(*                                                                          *)
(* Every action that reads or writes the lane state is one critical section *)
(* of the mutex; `notify_all` is called after the mutex is released, so it  *)
(* is a step of its own.  A request's own work (reading, transcoding,       *)
(* saving) is what happens between Take and Yield, Finish or Panic; what it *)
(* does to the file is module SaveTransaction.                              *)
(***************************************************************************)
EXTENDS Integers, Sequences, SequencesExt

CONSTANTS
    Names,        \* lowercased file names
    Directories,  \* lowercased names of parent directories
    NoDirectory,  \* the directory of a file at a drive or share root
    Requests,     \* the kinds of request callers submit
    Callers,      \* the threads that submit
    Slots,        \* identities for a lane's threads, reused when one exits
    LaneDepth,    \* LANE_DEPTH
    MaxRequests,  \* bound on the requests accepted in a behaviour
    MaxSlices,    \* bound on how often one transcode yields
    MayPanic      \* whether a worker may unwind (debug and test builds)

Save == "save"
Bulk == "bulk"
Lanes == {Save, Bulk}

OrderingKeys == [name : Names, directory : Directories \cup {NoDirectory}]

ASSUME ConstantsAssumption ==
    /\ NoDirectory \notin Directories
    /\ Requests \subseteq [lane : Lanes, keys : SUBSET OrderingKeys]
    /\ LaneDepth \in Nat /\ MaxRequests \in Nat /\ MaxSlices \in Nat
    /\ MayPanic \in BOOLEAN

(* A root may be any directory of a mapped drive, so it matches them all.   *)
Overlaps(k, other) ==
    /\ k.name = other.name
    /\ \/ k.directory = NoDirectory
       \/ other.directory = NoDirectory
       \/ k.directory = other.directory

Sequence == 0 .. (MaxRequests - 1)
Threads == Lanes \X Slots
LaneOf(t) == t[1]

VARIABLES
    queues,        \* per lane, the sequence numbers waiting
    unfinished,    \* accepted and not yet completed
    next_sequence,
    started,       \* per lane, whether its worker counts as running
    closed,
    request,       \* what was submitted under each sequence number
    slices,        \* how often each transcode has yielded
    pc,            \* where each worker thread is
    job,           \* what each worker thread is running
    caller,        \* where each caller is
    begun,         \* history: sequence numbers some worker has taken
    unwound        \* history: per lane, whether its last worker unwound

vars == <<queues, unfinished, next_sequence, started, closed, request, slices,
          pc, job, caller, begun, unwound>>

NoJob == -1

(* "loop": about to look for work, holding or waiting for the mutex;        *)
(* "wait": in Condvar::wait or wait_timeout; "run": outside the mutex with a *)
(* request; "notify" and "dying": the mutex released, notify_all still due,  *)
(* a dying thread unwinding.                                                 *)
WorkerStates == {"off", "loop", "wait", "run", "notify", "dying"}
Live(t) == pc[t] \in {"loop", "wait", "run", "notify"}

(* The state has the shape the definitions above give it. *)
TypeOK ==
    /\ queues \in [Lanes -> Seq(Sequence)]
    /\ unfinished \subseteq Sequence
    /\ next_sequence \in 0 .. MaxRequests
    /\ started \in [Lanes -> BOOLEAN]
    /\ closed \in BOOLEAN
    /\ request \in [Sequence -> [lane : Lanes, keys : SUBSET OrderingKeys]]
    /\ slices \in [Sequence -> 0 .. MaxSlices]
    /\ pc \in [Threads -> WorkerStates]
    /\ job \in [Threads -> Sequence \cup {NoJob}]
    /\ \A t \in Threads : pc[t] = "run" => job[t] \in Sequence
    /\ caller \in [Callers -> {"idle", "notify"}]
    /\ begun \subseteq Sequence
    /\ unwound \in [Lanes -> BOOLEAN]

-----------------------------------------------------------------------------
(* The service starts with the bulk worker only.                            *)
Init ==
    /\ queues = [l \in Lanes |-> <<>>]
    /\ unfinished = {}
    /\ next_sequence = 0
    /\ started = [l \in Lanes |-> l = Bulk]
    /\ closed = FALSE
    /\ request = [s \in Sequence |-> [lane |-> Bulk, keys |-> {}]]
    /\ slices = [s \in Sequence |-> 0]
    /\ \E slot \in Slots :
          pc = [t \in Threads |-> IF t = <<Bulk, slot>> THEN "loop" ELSE "off"]
    /\ job = [t \in Threads |-> NoJob]
    /\ caller = [c \in Callers |-> "idle"]
    /\ begun = {}
    /\ unwound = [l \in Lanes |-> FALSE]

(* Condvar::notify_all makes every waiting worker compete for the mutex.    *)
Woken(t) == IF pc[t] = "wait" THEN "loop" ELSE pc[t]

(* Two accepted requests share a file.                                      *)
Shares(r, s) ==
    \E k \in request[r].keys, mine \in request[s].keys : Overlaps(mine, k)

-----------------------------------------------------------------------------
(* Faulty variants of the definitions below, used to see that the properties *)
(* at the end of this module can fail.                                       *)

(* Orders a request only against its own lane.                              *)
RunnableInLane(s) ==
    s \in unfinished =>
        \A r \in unfinished :
            (r < s /\ request[r].lane = request[s].lane) => ~ Shares(r, s)

(* Spawns without looking at `started`.                                     *)
StartAlways(l) ==
    /\ started' = [started EXCEPT ![l] = TRUE]
    /\ unwound' = [unwound EXCEPT ![l] = FALSE]
    /\ \E slot \in Slots :
          /\ pc[<<l, slot>>] = "off"
          /\ pc' = [pc EXCEPT ![<<l, slot>>] = "loop"]

(* Exits when the idle time has run out without looking at the queue again. *)
IdleExitUnchecked(t) ==
    /\ pc[t] = "loop"
    /\ ~ closed
    /\ LaneOf(t) = Save
    /\ started' = [started EXCEPT ![Save] = FALSE]
    /\ pc' = [pc EXCEPT ![t] = "off"]
    /\ UNCHANGED <<queues, unfinished, next_sequence, unwound, closed, request,
                   slices, job, caller, begun>>

(* Notifies only the finishing lane's own worker.                           *)
WorkerNotifySelf(t) ==
    /\ pc[t] = "notify"
    /\ pc' = [pc EXCEPT ![t] = "loop"]
    /\ UNCHANGED <<queues, unfinished, next_sequence, started, unwound, closed,
                   request, slices, job, caller, begun>>

(* Requeues a transcode under NoJob instead of its sequence number.         *)
YieldForgetting(t) ==
    /\ pc[t] = "run"
    /\ LaneOf(t) = Bulk
    /\ slices[job[t]] < MaxSlices
    /\ slices' = [slices EXCEPT ![job[t]] = @ + 1]
    /\ queues' = [queues EXCEPT ![Bulk] = Append(@, NoJob)]
    /\ job' = [job EXCEPT ![t] = NoJob]
    /\ pc' = [pc EXCEPT ![t] = "notify"]
    /\ UNCHANGED <<unfinished, next_sequence, started, unwound, closed, request,
                   caller, begun>>

-----------------------------------------------------------------------------
(* LaneState::runnable: no earlier unfinished request shares a file.        *)
Runnable(s) ==
    s \in unfinished => \A r \in unfinished : r < s => ~ Shares(r, s)

(* LaneState::take: the first runnable entry of the lane's queue.           *)
FirstRunnable(l, i) ==
    /\ i \in DOMAIN queues[l]
    /\ Runnable(queues[l][i])
    /\ \A j \in DOMAIN queues[l] : j < i => ~ Runnable(queues[l][j])

NothingRunnable(l) == \A i \in DOMAIN queues[l] : ~ Runnable(queues[l][i])

(* IoService::start: spawn the lane's worker unless it counts as running.   *)
Start(l) ==
    \/ started[l] /\ UNCHANGED <<started, unwound, pc>>
    \/ /\ ~ started[l]
       /\ started' = [started EXCEPT ![l] = TRUE]
       /\ unwound' = [unwound EXCEPT ![l] = FALSE]
       /\ \E slot \in Slots :
             /\ pc[<<l, slot>>] = "off"
             /\ pc' = [pc EXCEPT ![<<l, slot>>] = "loop"]

(* submit_inner accepting a request.  A refusal (closed, the lane full, the  *)
(* thread not spawned) gives the request back and changes nothing.          *)
Submit(c, r) ==
    /\ caller[c] = "idle"
    /\ next_sequence < MaxRequests
    /\ ~ closed
    /\ Len(queues[r.lane]) < LaneDepth
    /\ Start(r.lane)
    /\ next_sequence' = next_sequence + 1
    /\ unfinished' = unfinished \cup {next_sequence}
    /\ request' = [request EXCEPT ![next_sequence] = r]
    /\ queues' = [queues EXCEPT ![r.lane] = Append(@, next_sequence)]
    /\ caller' = [caller EXCEPT ![c] = "notify"]
    /\ UNCHANGED <<closed, slices, job, begun>>

CallerNotify(c) ==
    /\ caller[c] = "notify"
    /\ caller' = [caller EXCEPT ![c] = "idle"]
    /\ pc' = [t \in Threads |-> Woken(t)]
    /\ UNCHANGED <<queues, unfinished, next_sequence, started, unwound, closed,
                   request, slices, job, begun>>

(* Dropping the service: it is owned, so no call of submit is under way.    *)
Close(c) ==
    /\ ~ closed
    /\ \A d \in Callers : caller[d] = "idle"
    /\ closed' = TRUE
    /\ caller' = [caller EXCEPT ![c] = "notify"]
    /\ UNCHANGED <<queues, unfinished, next_sequence, started, unwound, request,
                   slices, pc, job, begun>>

-----------------------------------------------------------------------------
(* The steps of Lanes::run.                                                 *)
Take(t) ==
    /\ pc[t] = "loop"
    /\ \E i \in DOMAIN queues[LaneOf(t)] :
          /\ FirstRunnable(LaneOf(t), i)
          /\ job' = [job EXCEPT ![t] = queues[LaneOf(t)][i]]
          /\ begun' = begun \cup {queues[LaneOf(t)][i]}
          /\ queues' = [queues EXCEPT ![LaneOf(t)] = RemoveAt(@, i)]
    /\ pc' = [pc EXCEPT ![t] = "run"]
    /\ UNCHANGED <<unfinished, next_sequence, started, unwound, closed, request,
                   slices, caller>>

(* A closed lane with an empty queue ends its worker; `started` stays set.  *)
CloseExit(t) ==
    /\ pc[t] = "loop"
    /\ closed
    /\ queues[LaneOf(t)] = <<>>
    /\ pc' = [pc EXCEPT ![t] = "off"]
    /\ UNCHANGED <<queues, unfinished, next_sequence, started, unwound, closed,
                   request, slices, job, caller, begun>>

(* The save worker's idle time has run out.                                 *)
IdleExit(t) ==
    /\ pc[t] = "loop"
    /\ ~ closed
    /\ LaneOf(t) = Save
    /\ queues[Save] = <<>>
    /\ started' = [started EXCEPT ![Save] = FALSE]
    /\ pc' = [pc EXCEPT ![t] = "off"]
    /\ UNCHANGED <<queues, unfinished, next_sequence, unwound, closed, request,
                   slices, job, caller, begun>>

(* Nothing this worker may run now: wait, and give up the mutex, in a step. *)
Wait(t) ==
    /\ pc[t] = "loop"
    /\ NothingRunnable(LaneOf(t))
    /\ ~ (closed /\ queues[LaneOf(t)] = <<>>)
    /\ pc' = [pc EXCEPT ![t] = "wait"]
    /\ UNCHANGED <<queues, unfinished, next_sequence, started, unwound, closed,
                   request, slices, job, caller, begun>>

(* An idle save worker's wait_timeout runs out, or either kind of wait       *)
(* returns without a notification, as a condition variable may.             *)
WaitEnds(t) ==
    /\ pc[t] = "wait"
    /\ pc' = [pc EXCEPT ![t] = "loop"]
    /\ UNCHANGED <<queues, unfinished, next_sequence, started, unwound, closed,
                   request, slices, job, caller, begun>>

(* Transcoding::run returns the rest of a transcode: back of the queue, still *)
(* unfinished, without the depth check submission makes.                     *)
Yield(t) ==
    /\ pc[t] = "run"
    /\ LaneOf(t) = Bulk
    /\ slices[job[t]] < MaxSlices
    /\ slices' = [slices EXCEPT ![job[t]] = @ + 1]
    /\ queues' = [queues EXCEPT ![Bulk] = Append(@, job[t])]
    /\ job' = [job EXCEPT ![t] = NoJob]
    /\ pc' = [pc EXCEPT ![t] = "notify"]
    /\ UNCHANGED <<unfinished, next_sequence, started, unwound, closed, request,
                   caller, begun>>

(* The request has replied; its sequence number is retired.                 *)
Finish(t) ==
    /\ pc[t] = "run"
    /\ unfinished' = unfinished \ {job[t]}
    /\ job' = [job EXCEPT ![t] = NoJob]
    /\ pc' = [pc EXCEPT ![t] = "notify"]
    /\ UNCHANGED <<queues, next_sequence, started, unwound, closed, request,
                   slices, caller, begun>>

WorkerNotify(t) ==
    /\ pc[t] = "notify"
    /\ pc' = [u \in Threads |-> IF u = t THEN "loop" ELSE Woken(u)]
    /\ UNCHANGED <<queues, unfinished, next_sequence, started, unwound, closed,
                   request, slices, job, caller, begun>>

(* Running::drop while the thread unwinds.                                  *)
Panic(t) ==
    /\ MayPanic
    /\ pc[t] = "run"
    /\ started' = [started EXCEPT ![LaneOf(t)] = FALSE]
    /\ unwound' = [unwound EXCEPT ![LaneOf(t)] = TRUE]
    /\ unfinished' = unfinished \ {job[t]}
    /\ job' = [job EXCEPT ![t] = NoJob]
    /\ pc' = [pc EXCEPT ![t] = "dying"]
    /\ UNCHANGED <<queues, next_sequence, closed, request, slices, caller,
                   begun>>

DyingNotify(t) ==
    /\ pc[t] = "dying"
    /\ pc' = [u \in Threads |-> IF u = t THEN "off" ELSE Woken(u)]
    /\ UNCHANGED <<queues, unfinished, next_sequence, started, unwound, closed,
                   request, slices, job, caller, begun>>

-----------------------------------------------------------------------------
Worker(t) ==
    \/ Take(t)
    \/ CloseExit(t)
    \/ IdleExit(t)
    \/ Wait(t)
    \/ WaitEnds(t)
    \/ Yield(t)
    \/ Finish(t)
    \/ WorkerNotify(t)
    \/ Panic(t)
    \/ DyingNotify(t)

Caller(c) ==
    \/ \E r \in Requests : Submit(c, r)
    \/ CallerNotify(c)
    \/ Close(c)

Next ==
    \/ \E c \in Callers : Caller(c)
    \/ \E t \in Threads : Worker(t)

Spec == Init /\ [][Next]_vars

(* A thread that may run, runs; a call of submit or drop returns.  Nothing   *)
(* makes a caller submit or close, and a timeout is never relied upon.       *)
Fairness ==
    /\ \A t \in Threads :
          WF_vars(Take(t) \/ CloseExit(t) \/ IdleExit(t) \/ Wait(t) \/ Yield(t)
                  \/ Finish(t) \/ WorkerNotify(t) \/ DyingNotify(t))
    /\ \A c \in Callers : WF_vars(CallerNotify(c))

FairSpec == Spec /\ Fairness

-----------------------------------------------------------------------------
Running(t) == pc[t] = "run"

NotifyDue ==
    \/ \E t \in Threads : pc[t] \in {"notify", "dying"}
    \/ \E c \in Callers : caller[c] = "notify"

(* The lane's last worker unwound, so the next submission starts another.    *)
AwaitsSubmission(l) == unwound[l] /\ ~ started[l]

(* Requests an unwound worker left behind wait for the next submission.      *)
Unwound == \E l \in Lanes : AwaitsSubmission(l) /\ queues[l] # <<>>

(* No accepted request is lost or doubled: an unfinished one is queued once  *)
(* in its own lane, or running in that lane's thread, and never both, also   *)
(* between the slices of a transcode.                                        *)
EachRequestInOnePlace ==
    /\ \A s \in unfinished \cup begun : s < next_sequence
    /\ \A l \in Lanes : \A i \in DOMAIN queues[l] :
          /\ queues[l][i] \in unfinished
          /\ request[queues[l][i]].lane = l
          /\ \A j \in DOMAIN queues[l] : queues[l][i] = queues[l][j] => i = j
    /\ \A t \in Threads : Running(t) =>
          /\ job[t] \in unfinished \cap begun
          /\ request[job[t]].lane = LaneOf(t)
          /\ \A i \in DOMAIN queues[LaneOf(t)] : queues[LaneOf(t)][i] # job[t]
    /\ \A s \in unfinished :
          \/ \E l \in Lanes : \E i \in DOMAIN queues[l] : queues[l][i] = s
          \/ \E t \in Threads : Running(t) /\ job[t] = s

(* "Requests that share a file run in submission order, whichever lane they *)
(* are in" (LaneState::runnable): none begins, not even a first slice, until *)
(* every earlier one that shares a file with it is finished.                *)
SharedFileOrder ==
    \A r, s \in Sequence :
        (r < s /\ s \in begun /\ Shares(r, s)) => r \notin unfinished

(* Two requests that share a file never run at the same time, so a save     *)
(* never races its own document's open or reload.                           *)
SharedFileExclusion ==
    \A t, u \in Threads :
        (t # u /\ Running(t) /\ Running(u)) => ~ Shares(job[t], job[u])

(* "Each lane has one worker, so saves never overlap one another": the       *)
(* worker that exits idle, drains after close or unwinds is never doubled.   *)
OneWorkerPerLane ==
    \A t, u \in Threads :
        (Live(t) /\ Live(u) /\ LaneOf(t) = LaneOf(u)) => t = u

(* A lane that does not count as started has no thread, so Start never gives *)
(* a lane a second one; and unless its worker unwound it has no request.      *)
UnstartedMeansIdle ==
    \A l \in Lanes :
        ~ started[l] => /\ \A t \in Threads : LaneOf(t) = l => ~ Live(t)
                        /\ unwound[l] \/ queues[l] = <<>>

(* A lane that counts as started has a thread, so Start's early return never *)
(* leaves a new request without a worker; only a drained, closed lane has    *)
(* neither work nor thread.                                                  *)
StartedMeansServed ==
    \A l \in Lanes :
        started[l] => \/ \E t \in Threads : LaneOf(t) = l /\ Live(t)
                      \/ closed /\ queues[l] = <<>>

(* A lane without a worker has no queued request: its worker exits idle or   *)
(* closed only with the queue seen empty under the mutex, whatever a caller  *)
(* that saw the lane started has queued meanwhile.  The one exception is a   *)
(* worker that unwound (debug and test builds), with `started` given back.   *)
NoStrandedRequest ==
    \A l \in Lanes :
        queues[l] # <<>> => \/ \E t \in Threads : LaneOf(t) = l /\ Live(t)
                            \/ AwaitsSubmission(l)

(* No wakeup is lost: while a worker waits and nobody owes a notify_all,     *)
(* every request of its queue is held behind an earlier one on its file.     *)
NoLostWakeup ==
    \A t \in Threads :
        (pc[t] = "wait" /\ ~ NotifyDue) => NothingRunnable(LaneOf(t))

(* "The oldest unfinished request is never held": whatever shares files with *)
(* what, the lanes never wait for each other.  While a request is unfinished *)
(* a worker is running or about to look for work, or a notification is due,  *)
(* or an unwound worker's lane waits for the next submission.                *)
LanesNeverGridlock ==
    unfinished # {} =>
        \/ NotifyDue
        \/ \E t \in Threads : pc[t] \in {"loop", "run"}
        \/ Unwound

(* LANE_DEPTH: "Requests each lane accepts beyond the running one (a         *)
(* transcode between slices counts)".  The requeue in Lanes::run makes no    *)
(* depth check; with one worker the lane still holds at most one more.       *)
LaneHoldsDepthPlusOne ==
    \A l \in Lanes :
        /\ Len(queues[l]) <= LaneDepth + 1
        /\ (\E t \in Threads : LaneOf(t) = l /\ Running(t))
              => Len(queues[l]) <= LaneDepth

(* "Every accepted request eventually runs", also when the service has been *)
(* dropped meanwhile: "accepted requests still drain".  Only a worker that   *)
(* unwound may leave requests waiting.                                      *)
EveryAcceptedRequestCompletes ==
    \A s \in Sequence : (s \in unfinished) ~> (s \notin unfinished \/ Unwound)

(* After the service is dropped both workers end, unless one unwound.       *)
WorkersEndAfterClose == closed ~> (Unwound \/ \A t \in Threads : pc[t] = "off")
=============================================================================

---------------------------- MODULE SingleInstance ----------------------------
(***************************************************************************)
(* Single-instance handoff: crates/platform-posix/src/instance.rs with the *)
(* transfers of ipc.rs and the owner's side of shell/instance.rs.          *)
(*                                                                         *)
(* Every launch tries to take the ownership lock.  One that cannot connects *)
(* to the owner's socket and hands its files over: request, PREPARED,      *)
(* COMMIT, DONE.  A launch that is not answered in time opens its files    *)
(* itself.  An owner that is asked to leave does so only when nothing      *)
(* acknowledged is left; the end of the desktop session does not ask.  Time *)
(* is the age of a launch and of a connection, in ticks.                   *)
(***************************************************************************)
EXTENDS Integers, Sequences, FiniteSets, SequencesExt

CONSTANTS
    Launches,       \* processes, each with the files it was started with
    Timeout,        \* TIMEOUT: a launch's budget to be prepared
    CommitWindow,   \* COMMIT_WINDOW
    Instances,      \* INSTANCES: concurrent handoffs
    Queue,          \* QUEUE: committed and reserved requests an owner holds
    PromptClients,  \* whether a prepared launch runs before its deadline passes
    MaxCrashes,     \* bound on the crashes
    MaxExits        \* bound on the exits that owners attempt

Nobody == "nobody"

ASSUME ConstantsAssumption ==
    /\ Nobody \notin Launches
    /\ {Timeout, CommitWindow, Instances, Queue} \subseteq Nat \ {0}
    /\ PromptClients \in BOOLEAN
    /\ {MaxCrashes, MaxExits} \subseteq Nat

VARIABLES
    pc,       \* pc[p]: where launch p is
    age,      \* age[p]: ticks since p was launched, up to LongAgo
    lock,     \* holder of the ownership lock
    socket,   \* the process that bound the socket file, which may be gone
    chan,     \* chan[p]: the connection p made as a client
    queue,    \* queue[p]: committed requests that p, an owner, has to open
    reserved, \* reserved[p]: prepared handoffs that may still commit
    refusing, \* refusing[p]: the owner turns handoffs away
    opened,   \* opened[p]: history variable: who opened the files of p
    rejected, \* history variable: committed launches whose request was turned down
    abrupt,   \* history variable: owners that exited without quiescing
    crashes, exits

vars == <<pc, age, lock, socket, chan, queue, reserved, refusing, opened, crashes, exits, rejected, abrupt>>
ownerVars == <<queue, reserved, refusing>>
bounds == <<crashes, exits>>
losses == <<rejected, abrupt>>

(* Faulty variant: the owner waits no longer than a launch does. *)
ServerTimeoutTooShort == Timeout
ServerTimeout == Timeout + CommitWindow + 1
LongAgo == ServerTimeout + 1

NoChannel == [server |-> "none"]
Channel == [owner : Launches, handled : 0..LongAgo, client : {"open", "closed"},
            server : {"backlog", "reading", "prepared", "closing", "closed"},
            unread : {"none", "request", "commit"}, reply : BOOLEAN]
Serving == {"owner", "quiescing", "ending", "stopping"}
Ended == {"forwarded", "independent", "exited", "crashed"}

Init ==
    /\ pc = [p \in Launches |-> "new"]
    /\ age = [p \in Launches |-> 0]
    /\ lock = Nobody /\ socket = Nobody
    /\ chan = [p \in Launches |-> NoChannel]
    /\ queue = [p \in Launches |-> <<>>]
    /\ reserved = [p \in Launches |-> 0]
    /\ refusing = [p \in Launches |-> FALSE]
    /\ opened = [p \in Launches |-> {}]
    /\ crashes = 0 /\ exits = 0
    /\ rejected = {} /\ abrupt = {}

Becomes(p, state) == pc' = [pc EXCEPT ![p] = state]
OpenAlone(p) ==
    /\ Becomes(p, "independent")
    /\ opened' = [opened EXCEPT ![p] = @ \cup {p}]
Hang(c) == chan' = [chan EXCEPT ![c].client = "closed"]

---------------------------------------------------------------------------
(* A launch: coordinate_in. *)

Launch(p) ==
    /\ pc[p] = "new"
    /\ Becomes(p, "elect")
    /\ UNCHANGED <<age, lock, socket, chan, ownerVars, opened, bounds, losses>>

TryLock(p) ==
    /\ pc[p] = "elect"
    /\ IF lock = Nobody
         THEN lock' = p /\ Becomes(p, "locked")
         ELSE Becomes(p, "probe") /\ UNCHANGED lock
    /\ UNCHANGED <<age, socket, chan, ownerVars, opened, bounds, losses>>

(* Without a socket the owner starts or exits: the lock is tried again. *)
Probe(p) ==
    /\ pc[p] = "probe"
    /\ Becomes(p, IF socket # Nobody \/ age[p] >= Timeout THEN "connect" ELSE "elect")
    /\ UNCHANGED <<age, lock, socket, chan, ownerVars, opened, bounds, losses>>

(* The profile is taken by an owner of another scope, or the system        *)
(* refuses the socket: this launch gives the lock back.                    *)
DeclineOwnership(p) ==
    /\ pc[p] \in {"locked", "bind"}
    /\ lock' = Nobody
    /\ OpenAlone(p)
    /\ UNCHANGED <<age, socket, chan, ownerVars, bounds, losses>>

(* Whatever is at the socket's name belongs to an owner that is gone. *)
RemoveStaleSocket(p) ==
    /\ pc[p] = "locked"
    /\ socket' = Nobody
    /\ Becomes(p, "bind")
    /\ UNCHANGED <<age, lock, chan, ownerVars, opened, bounds, losses>>

Bind(p) ==
    /\ pc[p] = "bind"
    /\ socket' = p
    /\ Becomes(p, "owner")
    /\ opened' = [opened EXCEPT ![p] = @ \cup {p}]
    /\ UNCHANGED <<age, lock, chan, ownerVars, bounds, losses>>

Listening == socket # Nobody /\ pc[socket] \in Serving

(* Faulty variant: the connection is retried without a deadline. *)
ConnectForever(c) ==
    /\ pc[c] = "connect"
    /\ Listening
    /\ chan' = [chan EXCEPT ![c] = [owner |-> socket, server |-> "backlog", handled |-> 0,
                                    client |-> "open", unread |-> "request", reply |-> FALSE]]
    /\ Becomes(c, "sent")
    /\ UNCHANGED <<age, lock, socket, ownerVars, opened, bounds, losses>>

(* Connects and writes the request; retried until the deadline. *)
Connect(c) ==
    /\ pc[c] = "connect"
    /\ \/ /\ Listening
          /\ chan' = [chan EXCEPT ![c] = [owner |-> socket, server |-> "backlog", handled |-> 0,
                                          client |-> "open", unread |-> "request", reply |-> FALSE]]
          /\ Becomes(c, "sent")
          /\ UNCHANGED opened
       \/ /\ ~Listening
          /\ age[c] >= Timeout
          /\ OpenAlone(c)
          /\ UNCHANGED chan
    /\ UNCHANGED <<age, lock, socket, ownerVars, bounds, losses>>

(* PREPARED arrives, or the owner hangs up, or the deadline passes. *)
AwaitPrepared(c) ==
    /\ pc[c] = "sent"
    /\ \/ chan[c].reply /\ Becomes(c, "commit") /\ UNCHANGED <<opened, chan>>
       \/ /\ ~chan[c].reply
          /\ chan[c].server = "closed" \/ age[c] >= Timeout
          /\ OpenAlone(c) /\ Hang(c)
    /\ UNCHANGED <<age, lock, socket, ownerVars, bounds, losses>>

(* The commit is sent without a look at the clock; a connection that the   *)
(* owner closed refuses it.                                                *)
Commit(c) ==
    /\ pc[c] = "commit"
    /\ IF chan[c].server = "closed"
         THEN OpenAlone(c) /\ Hang(c)
         ELSE /\ Becomes(c, "committed")
              /\ chan' = [chan EXCEPT ![c].unread = "commit"]
              /\ UNCHANGED opened
    /\ UNCHANGED <<age, lock, socket, ownerVars, bounds, losses>>

(* DONE, a closed connection or a timeout: the launch was forwarded. *)
EndForwarded(c) ==
    /\ pc[c] = "committed"
    /\ Becomes(c, "forwarded")
    /\ Hang(c)
    /\ UNCHANGED <<age, lock, socket, ownerVars, opened, bounds, losses>>

---------------------------------------------------------------------------
(* The owner's side of a connection: accept_loop and receive. *)

Busy(p) == {c \in Launches : chan[c] # NoChannel /\ chan[c].owner = p
                             /\ chan[c].server \in {"reading", "prepared", "closing"}}

Accept(c) ==
    /\ chan[c].server = "backlog"
    /\ pc[chan[c].owner] \in {"owner", "quiescing", "ending"}
    /\ Cardinality(Busy(chan[c].owner)) < Instances
    /\ chan' = [chan EXCEPT ![c].server = "reading", ![c].handled = 0]
    /\ UNCHANGED <<pc, age, lock, socket, ownerVars, opened, bounds, losses>>

(* The request is refused, or a slot is reserved and PREPARED is sent.  A   *)
(* worker that waits for data when the server stops reads none.            *)
CanReserve(p) == ~refusing[p] /\ Len(queue[p]) + reserved[p] < Queue

ReadRequest(c) ==
    LET p == chan[c].owner
    IN /\ chan[c].server = "reading"
       /\ chan[c].unread = "request"
       /\ \/ /\ CanReserve(p)
             /\ reserved' = [reserved EXCEPT ![p] = @ + 1]
             /\ chan' = [chan EXCEPT ![c].server = "prepared", ![c].unread = "none", ![c].reply = TRUE]
          \/ /\ ~CanReserve(p) \/ pc[p] = "stopping"
             /\ chan' = [chan EXCEPT ![c].server = "closed"]
             /\ UNCHANGED reserved
       /\ UNCHANGED <<pc, age, lock, socket, queue, refusing, opened, bounds, losses>>

(* Faulty variant: a prepared request is queued before its commit. *)
ReadCommitEarly(c) ==
    LET p == chan[c].owner
    IN /\ chan[c].server = "prepared"
       /\ reserved' = [reserved EXCEPT ![p] = @ - 1]
       /\ queue' = [queue EXCEPT ![p] = Append(@, c)]
       /\ chan' = [chan EXCEPT ![c].server = "closing", ![c].unread = "none"]
       /\ UNCHANGED <<pc, age, lock, socket, refusing, opened, bounds, losses>>

(* Only a received commit queues the request. *)
ReadCommit(c) ==
    LET p == chan[c].owner
    IN /\ chan[c].server = "prepared"
       /\ chan[c].unread = "commit"
       /\ reserved' = [reserved EXCEPT ![p] = @ - 1]
       /\ queue' = [queue EXCEPT ![p] = Append(@, c)]
       /\ chan' = [chan EXCEPT ![c].server = "closing", ![c].unread = "none"]
       /\ UNCHANGED <<pc, age, lock, socket, refusing, opened, bounds, losses>>

(* A read that finds nothing ends at the deadline or when the launch hung  *)
(* up; one that waits when the server stops ends even if data just came.   *)
NoMoreData(c) ==
    \/ /\ chan[c].unread = "none"
       /\ chan[c].handled >= ServerTimeout \/ chan[c].client = "closed"
    \/ pc[chan[c].owner] = "stopping"

GiveUp(c) ==
    LET p == chan[c].owner
    IN /\ chan[c].server = "prepared"
       /\ NoMoreData(c)
       /\ reserved' = [reserved EXCEPT ![p] = @ - 1]
       /\ chan' = [chan EXCEPT ![c].server = "closing"]
       /\ UNCHANGED <<pc, age, lock, socket, queue, refusing, opened, bounds, losses>>

(* The worker ends and its stream is closed. *)
EndWorker(c) ==
    /\ chan[c].server = "closing"
    /\ chan' = [chan EXCEPT ![c].server = "closed"]
    /\ UNCHANGED <<pc, age, lock, socket, ownerVars, opened, bounds, losses>>

---------------------------------------------------------------------------
(* The owner: instance_pump, instance_exit_ready and Drop. *)

Drain(p) ==
    /\ pc[p] = "owner"
    /\ queue[p] # <<>>
    /\ opened' = [opened EXCEPT ![Head(queue[p])] = @ \cup {p}]
    /\ queue' = [queue EXCEPT ![p] = Tail(@)]
    /\ UNCHANGED <<pc, age, lock, socket, chan, reserved, refusing, bounds, losses>>

(* A launch queue that is full, or a workspace that cannot be made, turns  *)
(* a committed request down; the owner tells its user, the launch nobody.  *)
Reject(p) ==
    /\ pc[p] = "owner"
    /\ queue[p] # <<>>
    /\ rejected' = rejected \cup {Head(queue[p])}
    /\ queue' = [queue EXCEPT ![p] = Tail(@)]
    /\ UNCHANGED <<pc, age, lock, socket, chan, reserved, refusing, opened, abrupt, bounds>>

BeginExit(p) ==
    /\ pc[p] = "owner"
    /\ exits < MaxExits
    /\ refusing' = [refusing EXCEPT ![p] = TRUE]
    /\ Becomes(p, "quiescing")
    /\ exits' = exits + 1
    /\ UNCHANGED <<age, lock, socket, chan, queue, reserved, opened, crashes, losses>>

(* quiesce returns once the slots settled, or at its limit: the exit       *)
(* happens only when nothing acknowledged is left, else launches are       *)
(* accepted again.                                                         *)
EndQuiesce(p) ==
    /\ pc[p] = "quiescing"
    /\ IF queue[p] = <<>> /\ reserved[p] = 0
         THEN Becomes(p, "stopping") /\ UNCHANGED refusing
         ELSE Becomes(p, "owner") /\ refusing' = [refusing EXCEPT ![p] = FALSE]
    /\ UNCHANGED <<age, lock, socket, chan, queue, reserved, opened, bounds, losses>>

(* The desktop session ends, or the shell fails: the event loop exits and  *)
(* nothing waits for what was acknowledged.  Handoffs are still accepted   *)
(* until the server is dropped.                                            *)
ExitAtOnce(p) ==
    /\ pc[p] \in {"owner", "quiescing"}
    /\ exits < MaxExits
    /\ Becomes(p, "ending")
    /\ exits' = exits + 1
    /\ abrupt' = abrupt \cup {p}
    /\ UNCHANGED <<age, lock, socket, chan, ownerVars, opened, crashes, rejected>>

StopServer(p) ==
    /\ pc[p] = "ending"
    /\ Becomes(p, "stopping")
    /\ UNCHANGED <<age, lock, socket, chan, ownerVars, opened, bounds, losses>>

(* Workers are joined, then the owner's own socket file goes. *)
RemoveSocket(p) ==
    /\ pc[p] = "stopping"
    /\ Busy(p) = {}
    /\ socket' = IF socket = p THEN Nobody ELSE socket
    /\ Becomes(p, "unlocking")
    /\ UNCHANGED <<age, lock, chan, ownerVars, opened, bounds, losses>>

Closed(p) ==
    [c \in Launches |-> IF chan[c] # NoChannel /\ chan[c].owner = p
                          THEN [chan[c] EXCEPT !.server = "closed"] ELSE chan[c]]

(* Faulty variant: the lock goes before the socket file. *)
ExitLockFirst(p) ==
    /\ pc[p] \in {"stopping", "unlocking"}
    /\ lock' = IF lock = p THEN Nobody ELSE lock
    /\ Becomes(p, IF pc[p] = "unlocking" THEN "exited" ELSE "stopping")
    /\ chan' = IF pc[p] = "unlocking" THEN Closed(p) ELSE chan
    /\ UNCHANGED <<age, socket, ownerVars, opened, bounds, losses>>

(* What the process still held in memory is gone with it. *)
Exit(p) ==
    /\ pc[p] = "unlocking"
    /\ Becomes(p, "exited")
    /\ lock' = Nobody
    /\ chan' = Closed(p)
    /\ queue' = [queue EXCEPT ![p] = <<>>]
    /\ UNCHANGED <<age, socket, reserved, refusing, opened, bounds, losses>>

(* The kernel drops a crashed owner's lock and connections, not its socket *)
(* file.                                                                   *)
Crash(p) ==
    /\ pc[p] \in {"locked", "bind", "owner", "quiescing", "ending", "stopping", "unlocking"}
    /\ crashes < MaxCrashes
    /\ Becomes(p, "crashed")
    /\ lock' = Nobody
    /\ chan' = Closed(p)
    /\ queue' = [queue EXCEPT ![p] = <<>>]
    /\ reserved' = [reserved EXCEPT ![p] = 0]
    /\ crashes' = crashes + 1
    /\ UNCHANGED <<age, socket, refusing, opened, exits, losses>>

(* A prompt launch is not kept from running when its deadline is reached. *)
Overdue(c) ==
    \/ pc[c] = "sent" /\ age[c] >= Timeout
    \/ pc[c] = "commit" /\ age[c] >= Timeout + CommitWindow

Tick ==
    /\ PromptClients => \A c \in Launches : ~Overdue(c)
    /\ age' = [p \in Launches |->
                IF pc[p] \notin {"elect", "probe", "connect", "sent", "commit"} \/ age[p] >= LongAgo
                  THEN age[p] ELSE age[p] + 1]
    /\ chan' = [c \in Launches |->
                IF chan[c].server \in {"reading", "prepared"} /\ chan[c].handled < LongAgo
                  THEN [chan[c] EXCEPT !.handled = @ + 1] ELSE chan[c]]
    /\ <<age', chan'>> # <<age, chan>>
    /\ UNCHANGED <<pc, lock, socket, ownerVars, opened, bounds, losses>>

ClientStep(p) ==
    \/ TryLock(p) \/ Probe(p) \/ Connect(p) \/ AwaitPrepared(p) \/ Commit(p) \/ EndForwarded(p)
    \/ RemoveStaleSocket(p) \/ Bind(p)
WorkerStep(c) == Accept(c) \/ ReadRequest(c) \/ ReadCommit(c) \/ GiveUp(c) \/ EndWorker(c)
OwnerStep(p) == Drain(p) \/ EndQuiesce(p) \/ StopServer(p) \/ RemoveSocket(p) \/ Exit(p)

Next ==
    \/ \E p \in Launches : Launch(p) \/ ClientStep(p) \/ DeclineOwnership(p) \/ WorkerStep(p)
                           \/ OwnerStep(p) \/ Reject(p) \/ BeginExit(p) \/ ExitAtOnce(p) \/ Crash(p)
    \/ Tick

Spec == Init /\ [][Next]_vars

(* Processes that live run, and time passes. *)
FairSpec ==
    /\ Spec
    /\ \A p \in Launches : WF_vars(ClientStep(p)) /\ WF_vars(WorkerStep(p)) /\ WF_vars(OwnerStep(p))
    /\ WF_vars(Tick)

---------------------------------------------------------------------------
(* The state has the shape the definitions above give it. *)
TypeOK ==
    /\ pc \in [Launches -> {"new", "elect", "probe", "locked", "bind", "owner", "connect", "sent", "commit",
                            "committed", "quiescing", "ending", "stopping", "unlocking"} \cup Ended]
    /\ age \in [Launches -> 0..LongAgo]
    /\ lock \in Launches \cup {Nobody} /\ socket \in Launches \cup {Nobody}
    /\ chan \in [Launches -> Channel \cup {NoChannel}]
    /\ queue \in [Launches -> Seq(Launches)] /\ reserved \in [Launches -> 0..Queue]
    /\ \A p \in Launches : Len(queue[p]) + reserved[p] <= Queue
    /\ refusing \in [Launches -> BOOLEAN]
    /\ opened \in [Launches -> SUBSET Launches]

(* At most one process acts on a launch's files: the launch itself or one  *)
(* owner, also when owners crash, exit and are succeeded (APP-04).         *)
Holding(c) == {p \in Launches : c \in Range(queue[p])}
ActedOnOnce == \A c \in Launches : Cardinality(opened[c] \cup Holding(c)) <= 1

(* A launch that committed is not lost by a deadline, by the number of     *)
(* launches, by an exit the user asked for or by a successor: its files    *)
(* are opened or queued, or its commit waits for a worker that will read   *)
(* it (APP-03).  What may lose it: the owner crashed; it exited at once,   *)
(* for a session end or a failure of the shell; or its launch queue was    *)
(* full or its workspace could not be made, and it said so to its user.    *)
CommitIsRead ==
    \A c \in Launches : pc[c] \in {"committed", "forwarded"} =>
        \/ opened[c] \cup Holding(c) # {}
        \/ chan[c].server = "prepared" /\ chan[c].unread = "commit"
        \/ c \in rejected
        \/ chan[c].owner \in abrupt
        \/ pc[chan[c].owner] = "crashed"

(* An owner exits only when nothing it acknowledged is left, as quiesce's  *)
(* contract asks of it ("may exit only when it is 0").  A session end does *)
(* not ask: what the queue held is lost with the process.                  *)
ExitsSettled ==
    \A p \in Launches : pc[p] = "unlocking" => queue[p] = <<>>

(* One process at a time owns the scope: it holds the lock for as long as  *)
(* it serves, and no other process removes the socket it listens on.       *)
OneOwner ==
    \A p \in Launches : pc[p] \in Serving => lock = p /\ socket = p

(* Every launch that started opens its files, hands them over or owns. *)
EveryLaunchDecides ==
    \A p \in Launches : pc[p] = "elect" ~> pc[p] \in Ended \cup Serving

==============================================================================

------------------------ MODULE SingleInstanceProofs ------------------------
(* Safety of the handoff for every set of launches, every timeout and every  *)
(* size of the owner's queue.                                                *)
EXTENDS SingleInstance, FiniteSetTheorems, SequenceTheorems, TLAPS

-----------------------------------------------------------------------------
(* Facts about the owner's queue and its slots.                              *)

(* Appending a launch keeps the queue's entries and adds that one.           *)
LEMMA AppendRange ==
    ASSUME NEW S, NEW q \in Seq(S), NEW e \in S
    PROVE  /\ Append(q, e) \in Seq(S)
           /\ Len(Append(q, e)) = Len(q) + 1
           /\ Range(Append(q, e)) = Range(q) \cup {e}
<1>1. /\ Append(q, e) \in Seq(S)
      /\ Len(Append(q, e)) = Len(q) + 1
      /\ DOMAIN Append(q, e) = 1 .. (Len(q) + 1)
      /\ \A j \in 1 .. Len(q) : Append(q, e)[j] = q[j]
      /\ Append(q, e)[Len(q) + 1] = e
    BY AppendProperties
<1>2. DOMAIN q = 1 .. Len(q) /\ Len(q) \in Nat
    OBVIOUS
<1>3. \A j \in 1 .. (Len(q) + 1) : j = Len(q) + 1 \/ j \in 1 .. Len(q)
    BY <1>2
<1>4. \A j \in 1 .. Len(q) : j \in 1 .. (Len(q) + 1)
    BY <1>2
<1>5. Len(q) + 1 \in 1 .. (Len(q) + 1)
    BY <1>2
<1> QED
    BY <1>1, <1>2, <1>3, <1>4, <1>5 DEF Range

(* Taking the head leaves a queue of the other entries.                      *)
LEMMA TailRange ==
    ASSUME NEW S, NEW q \in Seq(S), q # <<>>
    PROVE  /\ Tail(q) \in Seq(S)
           /\ Len(Tail(q)) = Len(q) - 1
           /\ Head(q) \in Range(q)
           /\ Head(q) \in S
           /\ Range(Tail(q)) \subseteq Range(q)
<1>1. /\ Tail(q) \in Seq(S)
      /\ Len(Tail(q)) = Len(q) - 1
      /\ \A j \in 1 .. Len(Tail(q)) : Tail(q)[j] = q[j + 1]
      /\ Len(q) \in Nat /\ Len(q) # 0
    BY HeadTailProperties
<1>2. 1 \in DOMAIN q /\ Head(q) = q[1]
    BY <1>1
<1>3. \A j \in DOMAIN Tail(q) : j + 1 \in DOMAIN q /\ Tail(q)[j] = q[j + 1]
    BY <1>1
<1> QED
    BY <1>1, <1>2, <1>3 DEF Range

(* A range is empty only of the empty queue, and holds only members.         *)
LEMMA RangeFacts ==
    ASSUME NEW S, NEW q \in Seq(S)
    PROVE  Range(q) \subseteq S /\ (q = <<>> => Range(q) = {})
    BY DEF Range

(* The numbers of the specification.                                         *)
LEMMA Numbers ==
    /\ Timeout \in Nat /\ CommitWindow \in Nat /\ Queue \in Nat
    /\ ServerTimeout \in Nat /\ LongAgo \in Nat
    /\ Timeout + CommitWindow < ServerTimeout
    /\ ServerTimeout < LongAgo
    /\ Timeout < LongAgo
    /\ 0 \in 0 .. LongAgo
    BY ConstantsAssumption DEF ServerTimeout, LongAgo

(* Changing one owner's queue and slots keeps the bound of the others.       *)
LEMMA QueueBound ==
    ASSUME NEW q \in [Launches -> Seq(Launches)], NEW r \in [Launches -> 0 .. Queue],
           \A x \in Launches : Len(q[x]) + r[x] <= Queue,
           NEW p \in Launches, NEW s \in Seq(Launches), NEW n \in Nat,
           Len(s) + n <= Queue
    PROVE  /\ [q EXCEPT ![p] = s] \in [Launches -> Seq(Launches)]
           /\ [r EXCEPT ![p] = n] \in [Launches -> 0 .. Queue]
           /\ \A x \in Launches : Len([q EXCEPT ![p] = s][x]) + [r EXCEPT ![p] = n][x] <= Queue
<1>1. Len(s) \in Nat /\ Queue \in Nat
    BY Numbers
<1>2. n \in 0 .. Queue
    BY <1>1
<1>3. ASSUME NEW x \in Launches
      PROVE  Len([q EXCEPT ![p] = s][x]) + [r EXCEPT ![p] = n][x] <= Queue
    <2>1. CASE x = p
        BY <2>1
    <2>2. CASE x # p
        BY <2>2
    <2> QED
        BY <2>1, <2>2
<1> QED
    BY <1>2, <1>3

-----------------------------------------------------------------------------
(* The inductive invariant.                                                  *)

Locking == {"locked", "bind", "unlocking"} \cup Serving

(* Whoever won the lock has it until it gives it back, and who serves has    *)
(* the socket: nobody without the lock touches the socket.                   *)
OwnerInv ==
    /\ \A p \in Launches : pc[p] \in Locking => lock = p
    /\ \A p \in Launches : pc[p] \in Serving => socket = p

(* A launch that sent its request has a connection.                          *)
Connected ==
    \A c \in Launches :
        pc[c] \in {"sent", "commit", "committed", "forwarded"} => chan[c] \in Channel

(* A reserved slot is a handoff that is prepared and not yet decided.        *)
Prepared(p) == {c \in Launches : chan[c].server = "prepared" /\ chan[c].owner = p}
SlotsInv ==
    \A p \in Launches : IsFiniteSet(Prepared(p)) /\ reserved[p] = Cardinality(Prepared(p))

(* A launch that has not connected has no connection.                        *)
Unconnected ==
    \A c \in Launches : pc[c] \in {"new", "elect", "probe", "connect"} => chan[c] = NoChannel

(* An owner that leaves refuses every handoff, and once it stops it has      *)
(* nothing left to open and nothing that may still commit; one that exits at *)
(* once is remembered.                                                       *)
LeavingInv ==
    \A p \in Launches :
        /\ pc[p] = "quiescing" => refusing[p]
        /\ pc[p] = "ending" => p \in abrupt
        /\ pc[p] \in {"stopping", "unlocking"} /\ p \notin abrupt =>
              refusing[p] /\ queue[p] = <<>> /\ reserved[p] = 0

(* The lock is given back after the last worker was joined.                  *)
IdleInv == \A p \in Launches : pc[p] = "unlocking" => Busy(p) = {}

(* The steps in which an owner moves on towards its exit.                    *)
LeavingStep(p) ==
    BeginExit(p) \/ EndQuiesce(p) \/ ExitAtOnce(p) \/ StopServer(p) \/ RemoveSocket(p)

(* Who acts on a launch's files; a launch that is undecided, or whose commit *)
(* nobody has read, is acted on by nobody.                                   *)
Actors(c) == opened[c] \cup Holding(c)
Undecided == {"new", "elect", "probe", "locked", "bind", "connect", "sent", "commit"}
Unread(c) == chan[c] # NoChannel /\ chan[c].unread = "commit"
OnceInv ==
    \A c \in Launches :
        /\ \A x, y \in Actors(c) : x = y
        /\ pc[c] \in Undecided => Actors(c) = {}
        /\ Unread(c) => pc[c] \in {"committed", "forwarded"} /\ Actors(c) = {}

(* A request in an owner's queue came over its launch's connection to it.    *)
HoldsOwn ==
    \A c \in Launches : \A p \in Holding(c) : chan[c] \in Channel /\ chan[c].owner = p

(* What a launch that waits relies on: its worker ends a handoff only after  *)
(* the launch is done with it.  The worker has waited no longer than the     *)
(* launch itself, and a launch that may commit finds its slot or a closed    *)
(* connection.  An owner that exits at once keeps none of this.              *)
WaitInv ==
    \A c \in Launches : pc[c] \in {"sent", "commit"} /\ chan[c].owner \notin abrupt =>
        /\ chan[c].client = "open"
        /\ chan[c].server \in {"backlog", "reading", "prepared", "closed"}
        /\ pc[c] = "commit" \/ chan[c].reply => chan[c].server \in {"prepared", "closed"}
        /\ chan[c].server \in {"reading", "prepared"} =>
              chan[c].handled <= age[c] /\ chan[c].handled <= Timeout + CommitWindow

-----------------------------------------------------------------------------
(* What was lost is remembered.                                              *)
LEMMA LossesGrow == [Next]_vars => rejected \subseteq rejected' /\ abrupt \subseteq abrupt'
<1> SUFFICES ASSUME [Next]_vars PROVE rejected \subseteq rejected' /\ abrupt \subseteq abrupt'
    OBVIOUS
<1> USE DEF losses
<1>1. CASE UNCHANGED vars
    BY <1>1 DEF vars
<1>2. ASSUME NEW p \in Launches, Launch(p) \/ ClientStep(p) \/ DeclineOwnership(p)
      PROVE  UNCHANGED losses
    BY <1>2 DEF Launch, ClientStep, TryLock, Probe, Connect, AwaitPrepared, Commit, EndForwarded,
                RemoveStaleSocket, Bind, DeclineOwnership
<1>3. ASSUME NEW p \in Launches, WorkerStep(p) \/ OwnerStep(p) \/ BeginExit(p) \/ Crash(p)
      PROVE  UNCHANGED losses
    BY <1>3 DEF WorkerStep, Accept, ReadRequest, ReadCommit, GiveUp, EndWorker, OwnerStep, Drain,
                EndQuiesce, StopServer, RemoveSocket, Exit, BeginExit, Crash
<1>4. ASSUME NEW p \in Launches, Reject(p) \/ ExitAtOnce(p)
      PROVE  rejected \subseteq rejected' /\ abrupt \subseteq abrupt'
    BY <1>4 DEF Reject, ExitAtOnce
<1>5. CASE Tick
    BY <1>5 DEF Tick
<1> QED
    BY <1>1, <1>2, <1>3, <1>4, <1>5 DEF Next

(* A connection that somebody made has an owner; the other one is a          *)
(* placeholder that no worker serves.                                        *)
LEMMA ChannelFacts ==
    ASSUME TypeOK, NEW c \in Launches
    PROVE  /\ chan[c] = NoChannel => chan[c].server = "none"
           /\ chan[c] # NoChannel => chan[c] \in Channel
           /\ chan[c].server # "none" => chan[c] \in Channel
           /\ \A d \in Channel : d # NoChannel
    BY SMTT(40) DEF TypeOK, NoChannel, Channel

(* Making the connections of one owner closed keeps them connections.        *)
LEMMA ClosedFacts ==
    ASSUME TypeOK, NEW p \in Launches
    PROVE  /\ Closed(p) \in [Launches -> Channel \cup {NoChannel}]
           /\ \A c \in Launches :
                 IF chan[c] # NoChannel /\ chan[c].owner = p
                   THEN /\ Closed(p)[c] \in Channel
                        /\ Closed(p)[c] = [chan[c] EXCEPT !.server = "closed"]
                   ELSE Closed(p)[c] = chan[c]
<1> USE ChannelFacts DEF TypeOK
<1>1. ASSUME NEW c \in Launches, chan[c] # NoChannel
      PROVE  [chan[c] EXCEPT !.server = "closed"] \in Channel
    BY <1>1 DEF Channel
<1> QED
    BY <1>1 DEF Closed

(* A process that is gone closes the channels it served.                   *)
LEMMA ClosedEffect ==
    ASSUME TypeOK, NEW p \in Launches, NEW c \in Launches, chan[c] \in Channel, chan[c].owner = p
    PROVE  /\ Closed(p)[c] \in Channel
           /\ Closed(p)[c].server = "closed" /\ Closed(p)[c].owner = p
           /\ Closed(p)[c].client = chan[c].client /\ Closed(p)[c].unread = chan[c].unread
           /\ Closed(p)[c].reply = chan[c].reply
<1>1. Closed(p)[c] = [chan[c] EXCEPT !.server = "closed"] /\ Closed(p)[c] \in Channel
    BY ClosedFacts, ChannelFacts
<1> QED
    BY <1>1 DEF Channel

(* Only the connection of c changes, and its owner stays.                     *)
Only(c) ==
    /\ chan' \in [Launches -> Channel \cup {NoChannel}]
    /\ \A d \in Launches \ {c} : chan'[d] = chan[d]
    /\ chan'[c] \in Channel
Keeps(c) ==
    /\ Only(c)
    /\ chan[c] \in Channel
    /\ chan'[c].owner = chan[c].owner
    /\ chan'[c].reply = chan[c].reply \/ chan'[c].server = "prepared"

(* Replacing one channel changes no other.                                 *)
LEMMA OnlyOne ==
    ASSUME TypeOK, NEW c \in Launches, NEW d \in Channel, chan' = [chan EXCEPT ![c] = d]
    PROVE  Only(c) /\ chan'[c] = d
    BY DEF TypeOK, Only

(* What a worker's step does to the fields of its connection.                *)
LEMMA AcceptEffect ==
    ASSUME TypeOK, NEW c \in Launches, Accept(c)
    PROVE  /\ Keeps(c)
           /\ chan[c].server = "backlog"
           /\ chan'[c].server = "reading"
           /\ chan'[c].handled = 0
           /\ chan'[c].unread = chan[c].unread
           /\ chan'[c].client = chan[c].client
           /\ chan'[c].reply = chan[c].reply
<1> DEFINE d == [chan[c] EXCEPT !.server = "reading", !.handled = 0]
<1>1. chan[c] \in Channel
    BY ChannelFacts DEF Accept
<1>2. chan' = [chan EXCEPT ![c] = d]
    BY <1>1 DEF TypeOK, Accept
<1>3. /\ d \in Channel /\ d.owner = chan[c].owner
      /\ d.server = "reading"
      /\ d.handled = 0
      /\ d.unread = chan[c].unread
      /\ d.client = chan[c].client
      /\ d.reply = chan[c].reply
    BY <1>1, Numbers DEF Channel
<1>4. Only(c) /\ chan'[c] = d
    BY <1>2, <1>3, OnlyOne
<1> HIDE DEF d
<1> QED
    BY <1>1, <1>3, <1>4 DEF Accept, Keeps

(* read request: a slot is reserved and prepared, or the channel ends.     *)
LEMMA ReadRequestEffect ==
    ASSUME TypeOK, NEW c \in Launches, ReadRequest(c)
    PROVE  /\ Keeps(c)
           /\ chan[c].server = "reading"
           /\ chan[c].unread = "request"
           /\ chan'[c].client = chan[c].client
           /\ chan'[c].handled = chan[c].handled
           /\ \/ /\ CanReserve(chan[c].owner)
                 /\ reserved' = [reserved EXCEPT ![chan[c].owner] = @ + 1]
                 /\ chan'[c].server = "prepared" /\ chan'[c].unread = "none"
              \/ /\ UNCHANGED reserved
                 /\ chan'[c].server = "closed" /\ chan'[c].unread = chan[c].unread
                 /\ chan'[c].reply = chan[c].reply
<1> DEFINE d == [chan[c] EXCEPT !.server = "prepared", !.unread = "none", !.reply = TRUE]
           e == [chan[c] EXCEPT !.server = "closed"]
<1>1. chan[c] \in Channel
    BY ChannelFacts DEF ReadRequest
<1>2. /\ d \in Channel /\ d.owner = chan[c].owner /\ d.server = "prepared"
      /\ d.client = chan[c].client /\ d.handled = chan[c].handled /\ d.unread = "none"
      /\ e \in Channel /\ e.owner = chan[c].owner /\ e.server = "closed"
      /\ e.client = chan[c].client /\ e.handled = chan[c].handled
      /\ e.unread = chan[c].unread /\ e.reply = chan[c].reply
    BY <1>1 DEF Channel
<1>3. CASE /\ CanReserve(chan[c].owner)
           /\ reserved' = [reserved EXCEPT ![chan[c].owner] = @ + 1]
           /\ chan' = [chan EXCEPT ![c].server = "prepared", ![c].unread = "none", ![c].reply = TRUE]
    <2>1. chan' = [chan EXCEPT ![c] = d]
        BY <1>1, <1>3 DEF TypeOK
    <2>2. Only(c) /\ chan'[c] = d
        BY <1>2, <2>1, OnlyOne
    <2> HIDE DEF d, e
    <2> QED
        BY <1>1, <1>2, <1>3, <2>2 DEF ReadRequest, Keeps
<1>4. CASE chan' = [chan EXCEPT ![c].server = "closed"] /\ UNCHANGED reserved
    <2>1. chan' = [chan EXCEPT ![c] = e]
        BY <1>1, <1>4 DEF TypeOK
    <2>2. Only(c) /\ chan'[c] = e
        BY <1>2, <2>1, OnlyOne
    <2> HIDE DEF d, e
    <2> QED
        BY <1>1, <1>2, <1>4, <2>2 DEF ReadRequest, Keeps
<1> QED
    BY <1>3, <1>4 DEF ReadRequest

(* read commit: the reservation becomes a queued launch.                   *)
LEMMA ReadCommitEffect ==
    ASSUME TypeOK, NEW c \in Launches, ReadCommit(c)
    PROVE  /\ Keeps(c)
           /\ chan[c].server = "prepared"
           /\ chan[c].unread = "commit"
           /\ chan'[c].server = "closing"
           /\ chan'[c].unread = "none"
           /\ chan'[c].client = chan[c].client
           /\ chan'[c].reply = chan[c].reply
<1> DEFINE d == [chan[c] EXCEPT !.server = "closing", !.unread = "none"]
<1>1. chan[c] \in Channel
    BY ChannelFacts DEF ReadCommit
<1>2. chan' = [chan EXCEPT ![c] = d]
    BY <1>1 DEF TypeOK, ReadCommit
<1>3. /\ d \in Channel /\ d.owner = chan[c].owner
      /\ d.server = "closing"
      /\ d.unread = "none"
      /\ d.client = chan[c].client
      /\ d.reply = chan[c].reply
    BY <1>1, Numbers DEF Channel
<1>4. Only(c) /\ chan'[c] = d
    BY <1>2, <1>3, OnlyOne
<1> HIDE DEF d
<1> QED
    BY <1>1, <1>3, <1>4 DEF ReadCommit, Keeps

(* A prepared handoff that times out gives its slot back.                  *)
LEMMA GiveUpEffect ==
    ASSUME TypeOK, NEW c \in Launches, GiveUp(c)
    PROVE  /\ Keeps(c)
           /\ chan[c].server = "prepared"
           /\ chan[c].unread = "none" \/ pc[chan[c].owner] = "stopping"
           /\ chan'[c].server = "closing"
           /\ chan'[c].unread = chan[c].unread
           /\ chan'[c].client = chan[c].client
           /\ chan'[c].reply = chan[c].reply
<1> DEFINE d == [chan[c] EXCEPT !.server = "closing"]
<1>1. chan[c] \in Channel
    BY ChannelFacts DEF GiveUp
<1>2. chan' = [chan EXCEPT ![c] = d]
    BY <1>1 DEF TypeOK, GiveUp
<1>3. /\ d \in Channel /\ d.owner = chan[c].owner
      /\ d.server = "closing"
      /\ d.unread = chan[c].unread
      /\ d.client = chan[c].client
      /\ d.reply = chan[c].reply
    BY <1>1, Numbers DEF Channel
<1>4. Only(c) /\ chan'[c] = d
    BY <1>2, <1>3, OnlyOne
<1> HIDE DEF d
<1> QED
    BY <1>1, <1>3, <1>4 DEF GiveUp, Keeps, NoMoreData

(* A worker that is done closes its end.                                   *)
LEMMA EndWorkerEffect ==
    ASSUME TypeOK, NEW c \in Launches, EndWorker(c)
    PROVE  /\ Keeps(c)
           /\ chan[c].server = "closing"
           /\ chan'[c].server = "closed"
           /\ chan'[c].unread = chan[c].unread
           /\ chan'[c].client = chan[c].client
           /\ chan'[c].reply = chan[c].reply
<1> DEFINE d == [chan[c] EXCEPT !.server = "closed"]
<1>1. chan[c] \in Channel
    BY ChannelFacts DEF EndWorker
<1>2. chan' = [chan EXCEPT ![c] = d]
    BY <1>1 DEF TypeOK, EndWorker
<1>3. /\ d \in Channel /\ d.owner = chan[c].owner
      /\ d.server = "closed"
      /\ d.unread = chan[c].unread
      /\ d.client = chan[c].client
      /\ d.reply = chan[c].reply
    BY <1>1, Numbers DEF Channel
<1>4. Only(c) /\ chan'[c] = d
    BY <1>2, <1>3, OnlyOne
<1> HIDE DEF d
<1> QED
    BY <1>1, <1>3, <1>4 DEF EndWorker, Keeps

(* What a launch's step does to its own connection.                          *)
Hung(c) ==
    /\ Keeps(c)
    /\ chan'[c].client = "closed"
    /\ chan'[c].server = chan[c].server
    /\ chan'[c].unread = chan[c].unread
    /\ chan'[c].reply = chan[c].reply

(* A client that hangs up leaves the server's end alone.                   *)
LEMMA HangEffect ==
    ASSUME TypeOK, NEW c \in Launches, chan[c] \in Channel, Hang(c)
    PROVE  Hung(c)
<1> DEFINE d == [chan[c] EXCEPT !.client = "closed"]
<1>1. chan' = [chan EXCEPT ![c] = d]
    BY DEF TypeOK, Hang
<1>2. /\ d \in Channel /\ d.owner = chan[c].owner /\ d.client = "closed"
      /\ d.server = chan[c].server /\ d.unread = chan[c].unread /\ d.reply = chan[c].reply
    BY DEF Channel
<1>3. Only(c) /\ chan'[c] = d
    BY <1>1, <1>2, OnlyOne
<1> HIDE DEF d
<1> QED
    BY <1>2, <1>3 DEF Hung, Keeps

(* A launch connects and sends, or opens its files alone.                  *)
LEMMA ConnectEffect ==
    ASSUME TypeOK, NEW c \in Launches, Connect(c)
    PROVE  \/ /\ Only(c) /\ chan'[c].server = "backlog" /\ chan'[c].unread = "request"
              /\ chan'[c].client = "open" /\ ~ chan'[c].reply
              /\ Becomes(c, "sent") /\ UNCHANGED opened
           \/ UNCHANGED chan /\ OpenAlone(c)
<1> DEFINE d == [owner |-> socket, server |-> "backlog", handled |-> 0,
                client |-> "open", unread |-> "request", reply |-> FALSE]
<1>1. CASE Listening
    <2>1. socket \in Launches
        BY <1>1 DEF Listening, TypeOK
    <2>2. /\ d \in Channel /\ d.server = "backlog" /\ d.unread = "request"
          /\ d.client = "open" /\ d.reply = FALSE
        BY <2>1, Numbers DEF Channel
    <2>3. /\ chan' = [chan EXCEPT ![c] = d]
          /\ Becomes(c, "sent") /\ UNCHANGED opened
        BY <1>1 DEF Connect
    <2>4. Only(c) /\ chan'[c] = d
        BY <2>2, <2>3, OnlyOne
    <2> HIDE DEF d
    <2> QED
        BY <2>2, <2>3, <2>4
<1> QED
    BY <1>1 DEF Connect

(* A launch commits to a live channel, or opens its files alone.           *)
LEMMA CommitEffect ==
    ASSUME TypeOK, Connected, NEW c \in Launches, Commit(c)
    PROVE  \/ /\ chan[c].server = "closed" /\ OpenAlone(c) /\ Hung(c)
           \/ /\ chan[c].server # "closed"
              /\ Keeps(c) /\ chan'[c].unread = "commit"
              /\ chan'[c].server = chan[c].server /\ chan'[c].reply = chan[c].reply
              /\ Becomes(c, "committed") /\ UNCHANGED opened
<1> DEFINE d == [chan[c] EXCEPT !.unread = "commit"]
<1>1. chan[c] \in Channel
    BY DEF Connected, Commit
<1>2. CASE chan[c].server = "closed"
    BY <1>1, <1>2, HangEffect DEF Commit
<1>3. CASE chan[c].server # "closed"
    <2>1. chan' = [chan EXCEPT ![c] = d]
        BY <1>3 DEF TypeOK, Commit
    <2>2. /\ d \in Channel /\ d.owner = chan[c].owner /\ d.unread = "commit"
          /\ d.server = chan[c].server /\ d.reply = chan[c].reply
        BY <1>1 DEF Channel
    <2>3. Only(c) /\ chan'[c] = d
        BY <2>1, <2>2, OnlyOne
    <2> HIDE DEF d
    <2> QED
        BY <1>1, <1>3, <2>2, <2>3 DEF Commit, Keeps
<1> QED
    BY <1>2, <1>3

(* Time passes for the launches and for the workers.                         *)
LEMMA TickEffect ==
    ASSUME TypeOK, Tick
    PROVE  /\ chan' \in [Launches -> Channel \cup {NoChannel}]
           /\ \A c \in Launches :
                 IF chan[c].server \in {"reading", "prepared"} /\ chan[c].handled < LongAgo
                   THEN /\ chan[c] \in Channel /\ chan'[c] \in Channel
                        /\ chan'[c].handled = chan[c].handled + 1
                        /\ chan'[c].owner = chan[c].owner /\ chan'[c].server = chan[c].server
                        /\ chan'[c].client = chan[c].client /\ chan'[c].unread = chan[c].unread
                        /\ chan'[c].reply = chan[c].reply
                   ELSE chan'[c] = chan[c]
<1>1. ASSUME NEW c \in Launches, chan[c].server \in {"reading", "prepared"}, chan[c].handled < LongAgo
      PROVE  /\ chan[c] \in Channel /\ chan'[c] \in Channel
             /\ chan'[c].handled = chan[c].handled + 1
             /\ chan'[c].owner = chan[c].owner /\ chan'[c].server = chan[c].server
             /\ chan'[c].client = chan[c].client /\ chan'[c].unread = chan[c].unread
             /\ chan'[c].reply = chan[c].reply
    <2>1. chan[c] \in Channel
        BY <1>1, ChannelFacts
    <2>2. chan'[c] = [chan[c] EXCEPT !.handled = @ + 1]
        BY <1>1 DEF Tick
    <2>3. chan[c].handled + 1 \in 0 .. LongAgo
        BY <1>1, <2>1, Numbers DEF Channel
    <2> QED
        BY <2>1, <2>2, <2>3 DEF Channel
<1>2. ASSUME NEW c \in Launches,
             ~ (chan[c].server \in {"reading", "prepared"} /\ chan[c].handled < LongAgo)
      PROVE  chan'[c] = chan[c]
    BY <1>2 DEF Tick
<1>3. \A c \in Launches : chan'[c] \in Channel \cup {NoChannel}
    BY <1>1, <1>2 DEF TypeOK
<1>4. chan' = [c \in Launches |-> chan'[c]]
    BY DEF Tick
<1> QED
    BY <1>1, <1>2, <1>3, <1>4

(* The initial state is well typed.                                          *)
LEMMA InitType == Init => TypeOK /\ Connected
    BY Numbers DEF Init, TypeOK, Connected, NoChannel, Ended

(* A prepared handoff holds a slot of its owner.                             *)
LEMMA SlotHeld ==
    ASSUME TypeOK, SlotsInv, NEW c \in Launches, chan[c].server = "prepared",
           chan[c].owner \in Launches
    PROVE  reserved[chan[c].owner] \in Nat \ {0}
<1>1. c \in Prepared(chan[c].owner)
    BY DEF Prepared
<1>2. IsFiniteSet(Prepared(chan[c].owner))
    BY DEF SlotsInv
<1>3. /\ Cardinality(Prepared(chan[c].owner)) \in Nat
      /\ Cardinality(Prepared(chan[c].owner)) # 0
    BY <1>1, <1>2, FS_CardinalityType, FS_EmptySet
<1> QED
    BY <1>3 DEF SlotsInv

(* One owner's queue and slots change, within their bound.                   *)
LEMMA OwnerChanges ==
    ASSUME TypeOK, Connected, NEW c \in Launches, Only(c),
           NEW p \in Launches, NEW s \in Seq(Launches), NEW n \in Nat,
           Len(s) + n <= Queue,
           queue' = [queue EXCEPT ![p] = s], reserved' = [reserved EXCEPT ![p] = n],
           UNCHANGED <<pc, age, lock, socket, refusing, opened>>
    PROVE  TypeOK' /\ Connected'
<1>1. /\ queue \in [Launches -> Seq(Launches)] /\ reserved \in [Launches -> 0 .. Queue]
      /\ \A x \in Launches : Len(queue[x]) + reserved[x] <= Queue
    BY DEF TypeOK
<1>2. /\ queue' \in [Launches -> Seq(Launches)]
      /\ reserved' \in [Launches -> 0 .. Queue]
      /\ \A x \in Launches : Len(queue'[x]) + reserved'[x] <= Queue
    BY <1>1, QueueBound
<1> QED
    BY <1>2 DEF TypeOK, Only, Connected

(* Reading a request keeps types and channels.                             *)
LEMMA ReadRequestType ==
    ASSUME TypeOK, Connected, NEW c \in Launches, ReadRequest(c)
    PROVE  TypeOK' /\ Connected'
<1> DEFINE p == chan[c].owner
<1>1. /\ Only(c) /\ p \in Launches
      /\ UNCHANGED <<pc, age, lock, socket, queue, refusing, opened>>
    BY ReadRequestEffect DEF Keeps, Channel, ReadRequest
<1>2. queue[p] \in Seq(Launches) /\ Len(queue[p]) \in Nat /\ reserved[p] \in Nat
    BY <1>1, Numbers DEF TypeOK
<1>3. CASE UNCHANGED reserved
    BY <1>1, <1>3 DEF TypeOK, Connected, Only
<1>4. CASE CanReserve(p) /\ reserved' = [reserved EXCEPT ![p] = @ + 1]
    <2>1. Len(queue[p]) + (reserved[p] + 1) <= Queue
        BY <1>2, <1>4, Numbers DEF CanReserve
    <2> HIDE DEF p
    <2>2. queue' = [queue EXCEPT ![p] = queue[p]]
        BY <1>1 DEF TypeOK
    <2>3. reserved' = [reserved EXCEPT ![p] = reserved[p] + 1]
        BY <1>1, <1>4 DEF TypeOK
    <2>4. reserved[p] + 1 \in Nat
        BY <1>2
    <2> QED
        BY <1>1, <1>2, <2>1, <2>2, <2>3, <2>4, OwnerChanges
<1> QED
    BY <1>3, <1>4, ReadRequestEffect

(* Reading a commit keeps types and channels.                              *)
LEMMA ReadCommitType ==
    ASSUME TypeOK, Connected, SlotsInv, NEW c \in Launches, ReadCommit(c)
    PROVE  TypeOK' /\ Connected'
<1> DEFINE p == chan[c].owner
<1>1. /\ Only(c) /\ p \in Launches
      /\ UNCHANGED <<pc, age, lock, socket, refusing, opened>>
      /\ queue' = [queue EXCEPT ![p] = Append(@, c)]
      /\ reserved' = [reserved EXCEPT ![p] = @ - 1]
    BY ReadCommitEffect DEF Keeps, Channel, ReadCommit
<1>2. /\ queue[p] \in Seq(Launches) /\ Len(queue[p]) \in Nat
      /\ Len(queue[p]) + reserved[p] <= Queue
    BY <1>1 DEF TypeOK
<1>3. reserved[p] \in Nat \ {0}
    BY <1>1, ReadCommitEffect, SlotHeld
<1> HIDE DEF p
<1>4. Append(queue[p], c) \in Seq(Launches) /\ Len(Append(queue[p], c)) = Len(queue[p]) + 1
    BY <1>1, <1>2, AppendRange
<1>5. reserved[p] - 1 \in Nat /\ Len(Append(queue[p], c)) + (reserved[p] - 1) <= Queue
    BY <1>2, <1>3, <1>4, Numbers
<1>6. /\ queue' = [queue EXCEPT ![p] = Append(queue[p], c)]
      /\ reserved' = [reserved EXCEPT ![p] = reserved[p] - 1]
    BY <1>1 DEF TypeOK
<1> QED
    BY <1>1, <1>4, <1>5, <1>6, OwnerChanges

(* Giving up keeps types and channels.                                     *)
LEMMA GiveUpType ==
    ASSUME TypeOK, Connected, SlotsInv, NEW c \in Launches, GiveUp(c)
    PROVE  TypeOK' /\ Connected'
<1> DEFINE p == chan[c].owner
<1>1. /\ Only(c) /\ p \in Launches
      /\ UNCHANGED <<pc, age, lock, socket, queue, refusing, opened>>
      /\ reserved' = [reserved EXCEPT ![p] = @ - 1]
    BY GiveUpEffect DEF Keeps, Channel, GiveUp
<1>2. /\ queue[p] \in Seq(Launches) /\ Len(queue[p]) \in Nat
      /\ Len(queue[p]) + reserved[p] <= Queue
    BY <1>1 DEF TypeOK
<1>3. reserved[p] \in Nat \ {0}
    BY <1>1, GiveUpEffect, SlotHeld
<1> HIDE DEF p
<1>4. reserved[p] - 1 \in Nat /\ Len(queue[p]) + (reserved[p] - 1) <= Queue
    BY <1>2, <1>3, Numbers
<1>5. reserved' = [reserved EXCEPT ![p] = reserved[p] - 1]
    BY <1>1 DEF TypeOK
<1>6. queue' = [queue EXCEPT ![p] = queue[p]]
    BY <1>1 DEF TypeOK
<1> QED
    BY <1>1, <1>2, <1>4, <1>5, <1>6, OwnerChanges

(* A slot is only given back while it is reserved, and only reserved while   *)
(* the queue has room for it.                                                *)
LEMMA NextType == TypeOK /\ Connected /\ SlotsInv /\ [Next]_vars => TypeOK' /\ Connected'
<1> SUFFICES ASSUME TypeOK, Connected, SlotsInv, [Next]_vars PROVE TypeOK' /\ Connected'
    OBVIOUS
<1> USE Numbers DEF TypeOK, Connected, Becomes, OpenAlone, Ended
<1>1. ASSUME NEW p \in Launches, Launch(p) PROVE TypeOK' /\ Connected'
    BY <1>1 DEF Launch, ownerVars
<1>2. ASSUME NEW p \in Launches, TryLock(p) PROVE TypeOK' /\ Connected'
    BY <1>2 DEF TryLock, ownerVars
<1>3. ASSUME NEW p \in Launches, Probe(p) PROVE TypeOK' /\ Connected'
    BY <1>3 DEF Probe, ownerVars
<1>4. ASSUME NEW p \in Launches, DeclineOwnership(p) PROVE TypeOK' /\ Connected'
    BY <1>4 DEF DeclineOwnership, ownerVars
<1>5. ASSUME NEW p \in Launches, RemoveStaleSocket(p) PROVE TypeOK' /\ Connected'
    BY <1>5 DEF RemoveStaleSocket, ownerVars
<1>6. ASSUME NEW p \in Launches, Bind(p) PROVE TypeOK' /\ Connected'
    BY <1>6 DEF Bind, ownerVars
<1>7. ASSUME NEW c \in Launches, Connect(c) PROVE TypeOK' /\ Connected'
    <2>1. CASE Only(c) /\ Becomes(c, "sent") /\ UNCHANGED opened
        BY <1>7, <2>1 DEF Only, Connect, ownerVars
    <2>2. CASE UNCHANGED chan /\ OpenAlone(c)
        BY <1>7, <2>2 DEF Connect, ownerVars
    <2> QED
        BY <1>7, <2>1, <2>2, ConnectEffect
<1>8. ASSUME NEW c \in Launches, AwaitPrepared(c) PROVE TypeOK' /\ Connected'
    <2>1. chan[c] \in Channel
        BY <1>8 DEF AwaitPrepared
    <2>2. CASE Becomes(c, "commit") /\ UNCHANGED <<opened, chan>>
        BY <1>8, <2>1, <2>2 DEF AwaitPrepared, ownerVars
    <2>3. CASE OpenAlone(c) /\ Hang(c)
        <3>1. Only(c)
            BY <2>1, <2>3, HangEffect DEF Hung, Keeps
        <3> QED
            BY <1>8, <2>3, <3>1 DEF Only, AwaitPrepared, ownerVars
    <2> QED
        BY <1>8, <2>2, <2>3 DEF AwaitPrepared
<1>9. ASSUME NEW c \in Launches, Commit(c) PROVE TypeOK' /\ Connected'
    <2>1. Only(c)
        BY <1>9, CommitEffect DEF Hung, Keeps
    <2>2. CASE OpenAlone(c)
        BY <1>9, <2>1, <2>2 DEF Only, Commit, ownerVars
    <2>3. CASE Becomes(c, "committed") /\ UNCHANGED opened
        BY <1>9, <2>1, <2>3 DEF Only, Commit, ownerVars
    <2> QED
        BY <1>9, <2>2, <2>3, CommitEffect
<1>10. ASSUME NEW c \in Launches, EndForwarded(c) PROVE TypeOK' /\ Connected'
    <2>1. chan[c] \in Channel
        BY <1>10 DEF EndForwarded
    <2>2. Only(c)
        BY <1>10, <2>1, HangEffect DEF EndForwarded, Hung, Keeps
    <2> QED
        BY <1>10, <2>2 DEF EndForwarded, Only, ownerVars
<1>11. ASSUME NEW c \in Launches, Accept(c) PROVE TypeOK' /\ Connected'
    BY <1>11, AcceptEffect DEF Accept, Only, Keeps, ownerVars
<1>12. ASSUME NEW c \in Launches, ReadRequest(c) PROVE TypeOK' /\ Connected'
    BY <1>12, ReadRequestType
<1>13. ASSUME NEW c \in Launches, ReadCommit(c) PROVE TypeOK' /\ Connected'
    BY <1>13, ReadCommitType
<1>14. ASSUME NEW c \in Launches, GiveUp(c) PROVE TypeOK' /\ Connected'
    BY <1>14, GiveUpType
<1>15. ASSUME NEW c \in Launches, EndWorker(c) PROVE TypeOK' /\ Connected'
    BY <1>15, EndWorkerEffect DEF EndWorker, Only, Keeps, ownerVars
<1>16. ASSUME NEW p \in Launches, Drain(p) \/ Reject(p) PROVE TypeOK' /\ Connected'
    <2>1. /\ queue[p] \in Seq(Launches) /\ queue[p] # <<>>
          /\ queue' = [queue EXCEPT ![p] = Tail(@)]
          /\ UNCHANGED opened \/ opened' = [opened EXCEPT ![Head(queue[p])] = @ \cup {p}]
          /\ UNCHANGED <<pc, age, lock, socket, chan, reserved, refusing>>
        BY <1>16 DEF Drain, Reject
    <2>2. /\ Tail(queue[p]) \in Seq(Launches) /\ Head(queue[p]) \in Launches
          /\ Len(Tail(queue[p])) = Len(queue[p]) - 1
        BY <2>1, TailRange
    <2>3. opened' \in [Launches -> SUBSET Launches]
        <3>1. CASE UNCHANGED opened
            BY <3>1
        <3>2. CASE opened' = [opened EXCEPT ![Head(queue[p])] = @ \cup {p}]
            BY <2>2, <3>2
        <3> QED
            BY <2>1, <3>1, <3>2
    <2>4. \A q \in Launches : Len(queue'[q]) + reserved'[q] <= Queue
        BY <2>1, <2>2
    <2>5. queue' \in [Launches -> Seq(Launches)]
        BY <2>1, <2>2
    <2> QED
        BY <2>1, <2>3, <2>4, <2>5
<1>17. ASSUME NEW p \in Launches, BeginExit(p) \/ ExitAtOnce(p) \/ StopServer(p) PROVE TypeOK' /\ Connected'
    BY <1>17 DEF BeginExit, ExitAtOnce, StopServer, ownerVars
<1>18. ASSUME NEW p \in Launches, EndQuiesce(p) PROVE TypeOK' /\ Connected'
    BY <1>18 DEF EndQuiesce
<1>19. ASSUME NEW p \in Launches, RemoveSocket(p) PROVE TypeOK' /\ Connected'
    BY <1>19 DEF RemoveSocket, ownerVars
<1>20. ASSUME NEW p \in Launches, Exit(p) PROVE TypeOK' /\ Connected'
    <2>1. /\ chan' \in [Launches -> Channel \cup {NoChannel}]
          /\ \A c \in Launches : chan[c] \in Channel => chan'[c] \in Channel
        BY <1>20, ClosedFacts DEF Exit
    <2>2. /\ queue' \in [Launches -> Seq(Launches)] /\ reserved' \in [Launches -> 0 .. Queue]
          /\ \A q \in Launches : Len(queue'[q]) + reserved'[q] <= Queue
        <3>1. <<>> \in Seq(Launches) /\ Len(<<>>) = 0
            OBVIOUS
        <3>2. \A q \in Launches : Len(queue[q]) \in Nat
            OBVIOUS
        <3> QED
            BY <1>20, <3>1, <3>2 DEF Exit
    <2> QED
        BY <1>20, <2>1, <2>2 DEF Exit
<1>21. ASSUME NEW p \in Launches, Crash(p) PROVE TypeOK' /\ Connected'
    <2>1. /\ chan' \in [Launches -> Channel \cup {NoChannel}]
          /\ \A c \in Launches : chan[c] \in Channel => chan'[c] \in Channel
        BY <1>21, ClosedFacts DEF Crash
    <2>2. /\ queue' \in [Launches -> Seq(Launches)] /\ reserved' \in [Launches -> 0 .. Queue]
          /\ \A q \in Launches : Len(queue'[q]) + reserved'[q] <= Queue
        <3>1. <<>> \in Seq(Launches) /\ Len(<<>>) = 0
            OBVIOUS
        <3>2. \A q \in Launches : Len(queue[q]) \in Nat
            OBVIOUS
        <3> QED
            BY <1>21, <3>1, <3>2 DEF Crash
    <2> QED
        BY <1>21, <2>1, <2>2 DEF Crash
<1>22. ASSUME Tick PROVE TypeOK' /\ Connected'
    <2>1. ASSUME NEW p \in Launches
          PROVE  IF pc[p] \notin {"elect", "probe", "connect", "sent", "commit"} \/ age[p] >= LongAgo
                   THEN age[p] \in 0 .. LongAgo ELSE age[p] + 1 \in 0 .. LongAgo
        BY SMTT(40)
    <2>2. age' \in [Launches -> 0 .. LongAgo]
        BY <1>22, <2>1 DEF Tick
    <2>3. /\ chan' \in [Launches -> Channel \cup {NoChannel}]
          /\ \A c \in Launches : chan[c] \in Channel => chan'[c] \in Channel
        BY <1>22, TickEffect
    <2> QED
        BY <1>22, <2>2, <2>3 DEF Tick, ownerVars
<1>23. CASE UNCHANGED vars
    BY <1>23 DEF vars, ownerVars
<1> QED
    BY <1>1, <1>2, <1>3, <1>4, <1>5, <1>6, <1>7, <1>8, <1>9, <1>10, <1>11, <1>12,
       <1>13, <1>14, <1>15, <1>16, <1>17, <1>18, <1>19, <1>20, <1>21, <1>22, <1>23
       DEF Next, ClientStep, WorkerStep, OwnerStep, LeavingStep

(* The lock and the socket change hands in this order only: lock, remove a   *)
(* stale socket, bind; remove the own socket, unlock.                        *)
LEMMA InitOwner == Init => OwnerInv
    BY DEF Init, OwnerInv, Locking, Serving

(* Every step keeps OwnerInv.                                              *)
LEMMA NextOwner == TypeOK /\ OwnerInv /\ [Next]_vars => OwnerInv'
<1> SUFFICES ASSUME TypeOK, OwnerInv, [Next]_vars PROVE OwnerInv'
    OBVIOUS
<1> USE ConstantsAssumption DEF TypeOK, OwnerInv, Locking, Serving, Becomes, OpenAlone
<1>1. ASSUME NEW p \in Launches, Launch(p) PROVE OwnerInv'
    BY <1>1 DEF Launch
<1>2. ASSUME NEW p \in Launches, TryLock(p) PROVE OwnerInv'
    BY ZenonT(60), <1>2 DEF TryLock
<1>3. ASSUME NEW p \in Launches, Probe(p) PROVE OwnerInv'
    BY <1>3 DEF Probe
<1>4. ASSUME NEW p \in Launches, DeclineOwnership(p) PROVE OwnerInv'
    BY <1>4 DEF DeclineOwnership
<1>5. ASSUME NEW p \in Launches, RemoveStaleSocket(p) PROVE OwnerInv'
    BY <1>5 DEF RemoveStaleSocket
<1>6. ASSUME NEW p \in Launches, Bind(p) PROVE OwnerInv'
    BY <1>6 DEF Bind
<1>7. ASSUME NEW c \in Launches, Connect(c) PROVE OwnerInv'
    BY ZenonT(60), <1>7 DEF Connect
<1>8. ASSUME NEW c \in Launches, AwaitPrepared(c) PROVE OwnerInv'
    BY ZenonT(60), <1>8 DEF AwaitPrepared
<1>9. ASSUME NEW c \in Launches, Commit(c) PROVE OwnerInv'
    BY ZenonT(60), <1>9 DEF Commit
<1>10. ASSUME NEW c \in Launches, EndForwarded(c) PROVE OwnerInv'
    BY <1>10 DEF EndForwarded
<1>11. ASSUME NEW c \in Launches, WorkerStep(c) PROVE OwnerInv'
    BY <1>11 DEF WorkerStep, Accept, ReadRequest, ReadCommit, GiveUp, EndWorker
<1>12. ASSUME NEW p \in Launches, Drain(p) \/ Reject(p) PROVE OwnerInv'
    BY <1>12 DEF Drain, Reject
<1>13. ASSUME NEW p \in Launches, BeginExit(p) \/ ExitAtOnce(p) \/ StopServer(p) PROVE OwnerInv'
    BY <1>13 DEF BeginExit, ExitAtOnce, StopServer
<1>14. ASSUME NEW p \in Launches, EndQuiesce(p) PROVE OwnerInv'
    BY <1>14 DEF EndQuiesce
<1>15. ASSUME NEW p \in Launches, RemoveSocket(p) PROVE OwnerInv'
    BY <1>15 DEF RemoveSocket
<1>16. ASSUME NEW p \in Launches, Exit(p) PROVE OwnerInv'
    BY <1>16 DEF Exit
<1>17. ASSUME NEW p \in Launches, Crash(p) PROVE OwnerInv'
    BY <1>17 DEF Crash
<1>18. ASSUME Tick PROVE OwnerInv'
    BY <1>18 DEF Tick
<1>19. CASE UNCHANGED vars
    BY <1>19 DEF vars
<1> QED
    BY <1>1, <1>2, <1>3, <1>4, <1>5, <1>6, <1>7, <1>8, <1>9, <1>10, <1>11, <1>12, <1>13, <1>14,
       <1>15, <1>16, <1>17, <1>18, <1>19 DEF Next, ClientStep, OwnerStep

(* No launch gets a connection but by connecting.                            *)
LEMMA InitUnconnected == Init => Unconnected
    BY DEF Init, Unconnected

(* Every step keeps Unconnected.                                           *)
LEMMA NextUnconnected == TypeOK /\ Connected /\ Unconnected /\ [Next]_vars => Unconnected'
<1> SUFFICES ASSUME TypeOK, Connected, Unconnected, [Next]_vars PROVE Unconnected'
    OBVIOUS
<1> USE DEF Unconnected, Becomes, OpenAlone
<1>1. ASSUME NEW c \in Launches, Keeps(c), UNCHANGED pc PROVE Unconnected'
    BY <1>1, ChannelFacts DEF Keeps, Only
<1>2. ASSUME NEW c \in Launches, Only(c), pc'[c] \notin {"new", "elect", "probe", "connect"},
             \A d \in Launches \ {c} : pc'[d] = pc[d]
      PROVE  Unconnected'
    BY <1>2 DEF Only
<1>3. ASSUME NEW p \in Launches, Launch(p) \/ TryLock(p) \/ Probe(p) PROVE Unconnected'
    BY <1>3 DEF TypeOK, Launch, TryLock, Probe
<1>4. ASSUME NEW p \in Launches, DeclineOwnership(p) \/ RemoveStaleSocket(p) \/ Bind(p) PROVE Unconnected'
    BY <1>4 DEF TypeOK, DeclineOwnership, RemoveStaleSocket, Bind
<1>5. ASSUME NEW c \in Launches, Connect(c) PROVE Unconnected'
    <2>1. CASE Only(c) /\ Becomes(c, "sent")
        BY <2>1, <1>2 DEF TypeOK
    <2>2. CASE UNCHANGED chan /\ OpenAlone(c)
        BY <2>2 DEF TypeOK
    <2> QED
        BY <1>5, <2>1, <2>2, ConnectEffect
<1>6. ASSUME NEW c \in Launches, AwaitPrepared(c) PROVE Unconnected'
    <2>1. CASE Becomes(c, "commit") /\ UNCHANGED chan
        BY <2>1 DEF TypeOK
    <2>2. CASE OpenAlone(c) /\ Hang(c)
        <3>1. chan[c] \in Channel
            BY <1>6 DEF AwaitPrepared, Connected
        <3> QED
            BY <2>2, <3>1, <1>2, HangEffect DEF TypeOK, Hung, Keeps
    <2> QED
        BY <1>6, <2>1, <2>2 DEF AwaitPrepared
<1>7. ASSUME NEW c \in Launches, Commit(c) PROVE Unconnected'
    <2>1. Only(c)
        BY <1>7, CommitEffect DEF Hung, Keeps
    <2>2. Becomes(c, "independent") \/ Becomes(c, "committed")
        BY <1>7 DEF Commit
    <2> QED
        BY <2>1, <2>2, <1>2 DEF TypeOK
<1>8. ASSUME NEW c \in Launches, EndForwarded(c) PROVE Unconnected'
    <2>1. chan[c] \in Channel
        BY <1>8 DEF EndForwarded, Connected
    <2>2. Only(c)
        BY <1>8, <2>1, HangEffect DEF EndForwarded, Hung, Keeps
    <2> QED
        BY <1>8, <2>2, <1>2 DEF EndForwarded, TypeOK
<1>9. ASSUME NEW c \in Launches, WorkerStep(c) PROVE Unconnected'
    <2>1. UNCHANGED pc
        BY <1>9 DEF WorkerStep, Accept, ReadRequest, ReadCommit, GiveUp, EndWorker
    <2>2. Keeps(c)
        BY <1>9, AcceptEffect, ReadRequestEffect, ReadCommitEffect, GiveUpEffect, EndWorkerEffect
           DEF WorkerStep
    <2> QED
        BY <1>1, <2>1, <2>2
<1>10. ASSUME NEW p \in Launches, Drain(p) \/ Reject(p) PROVE Unconnected'
    BY <1>10 DEF Drain, Reject
<1>11. ASSUME NEW p \in Launches, LeavingStep(p) PROVE Unconnected'
    BY <1>11 DEF TypeOK, LeavingStep, BeginExit, EndQuiesce, ExitAtOnce, StopServer, RemoveSocket
<1>12. ASSUME NEW p \in Launches, Exit(p) \/ Crash(p) PROVE Unconnected'
    <2>1. chan' = Closed(p) /\ (Becomes(p, "exited") \/ Becomes(p, "crashed"))
        BY <1>12 DEF Exit, Crash
    <2>2. \A c \in Launches : chan[c] = NoChannel => chan'[c] = NoChannel
        BY <2>1, ClosedFacts
    <2> QED
        BY <2>1, <2>2 DEF TypeOK
<1>13. ASSUME Tick PROVE Unconnected'
    <2>1. UNCHANGED pc
        BY <1>13 DEF Tick
    <2>2. \A c \in Launches : chan[c] = NoChannel => chan'[c] = chan[c]
        BY <1>13, TickEffect, ChannelFacts
    <2> QED
        BY <2>1, <2>2
<1>14. CASE UNCHANGED vars
    BY <1>14 DEF vars
<1> QED
    BY <1>3, <1>4, <1>5, <1>6, <1>7, <1>8, <1>9, <1>10, <1>11, <1>12, <1>13, <1>14
       DEF Next, ClientStep, OwnerStep, LeavingStep

(* An owner leaves only once it is settled, and nothing unsettles it after:  *)
(* it reserves nothing, and without a reservation there is no commit to read. *)
LEMMA InitLeaving == Init => LeavingInv
    BY DEF Init, LeavingInv

(* Every step keeps LeavingInv.                                            *)
LEMMA NextLeaving == TypeOK /\ SlotsInv /\ LeavingInv /\ [Next]_vars => LeavingInv'
<1> SUFFICES ASSUME TypeOK, SlotsInv, LeavingInv, [Next]_vars PROVE LeavingInv'
    OBVIOUS
<1>0. abrupt \subseteq abrupt'
    BY LossesGrow
<1> USE <1>0 DEF LeavingInv, Becomes, OpenAlone
<1>1. ASSUME NEW p \in Launches, Launch(p) \/ TryLock(p) \/ Probe(p) PROVE LeavingInv'
    BY <1>1 DEF TypeOK, Launch, TryLock, Probe, ownerVars
<1>2. ASSUME NEW p \in Launches, DeclineOwnership(p) \/ RemoveStaleSocket(p) \/ Bind(p) PROVE LeavingInv'
    BY <1>2 DEF TypeOK, DeclineOwnership, RemoveStaleSocket, Bind, ownerVars
<1>3. ASSUME NEW c \in Launches, Connect(c) \/ AwaitPrepared(c) PROVE LeavingInv'
    BY <1>3 DEF TypeOK, Connect, AwaitPrepared, ownerVars
<1>4. ASSUME NEW c \in Launches, Commit(c) \/ EndForwarded(c) PROVE LeavingInv'
    BY <1>4 DEF TypeOK, Commit, EndForwarded, ownerVars
<1>5. ASSUME NEW c \in Launches, Accept(c) \/ EndWorker(c) PROVE LeavingInv'
    BY <1>5 DEF Accept, EndWorker, ownerVars
<1>6. ASSUME NEW c \in Launches, ReadRequest(c) PROVE LeavingInv'
    <2> DEFINE p == chan[c].owner
    <2>1. p \in Launches /\ UNCHANGED <<pc, queue, refusing>>
        BY <1>6, ReadRequestEffect DEF Keeps, Channel, ReadRequest
    <2>2. \/ UNCHANGED reserved
          \/ ~ refusing[p] /\ reserved' = [reserved EXCEPT ![p] = @ + 1]
        BY <1>6, ReadRequestEffect DEF CanReserve
    <2> HIDE DEF p
    <2> QED
        BY <2>1, <2>2 DEF TypeOK
<1>7. ASSUME NEW c \in Launches, ReadCommit(c) \/ GiveUp(c) PROVE LeavingInv'
    <2> DEFINE p == chan[c].owner
    <2>1. p \in Launches /\ chan[c].server = "prepared"
        BY <1>7, ReadCommitEffect, GiveUpEffect DEF Keeps, Channel
    <2>2. reserved[p] # 0
        BY <2>1, SlotHeld
    <2>3. UNCHANGED <<pc, refusing>>
        BY <1>7 DEF ReadCommit, GiveUp
    <2>4. \A q \in Launches \ {p} : queue'[q] = queue[q] /\ reserved'[q] = reserved[q]
        BY <1>7, <2>1 DEF TypeOK, ReadCommit, GiveUp
    <2> HIDE DEF p
    <2> QED
        BY <2>1, <2>2, <2>3, <2>4
<1>8. ASSUME NEW p \in Launches, Drain(p) \/ Reject(p) PROVE LeavingInv'
    BY <1>8 DEF TypeOK, Drain, Reject
<1>9. ASSUME NEW p \in Launches, BeginExit(p) \/ ExitAtOnce(p) \/ StopServer(p) PROVE LeavingInv'
    BY <1>9 DEF TypeOK, BeginExit, ExitAtOnce, StopServer, ownerVars
<1>10. ASSUME NEW p \in Launches, EndQuiesce(p) PROVE LeavingInv'
    BY <1>10 DEF TypeOK, EndQuiesce
<1>11. ASSUME NEW p \in Launches, RemoveSocket(p) PROVE LeavingInv'
    BY <1>11 DEF TypeOK, RemoveSocket, ownerVars
<1>12. ASSUME NEW p \in Launches, Exit(p) PROVE LeavingInv'
    BY <1>12 DEF TypeOK, Exit
<1>13. ASSUME NEW p \in Launches, Crash(p) PROVE LeavingInv'
    BY <1>13 DEF TypeOK, Crash
<1>14. ASSUME Tick PROVE LeavingInv'
    BY <1>14 DEF Tick, ownerVars
<1>15. CASE UNCHANGED vars
    BY <1>15 DEF vars, ownerVars
<1> QED
    BY <1>1, <1>2, <1>3, <1>4, <1>5, <1>6, <1>7, <1>8, <1>9, <1>10, <1>11, <1>12, <1>13, <1>14,
       <1>15 DEF Next, ClientStep, WorkerStep, OwnerStep, LeavingStep

(* IdleInv holds initially.                                                *)
LEMMA InitIdle == Init => IdleInv
    BY DEF Init, IdleInv

(* Connections are accepted before the server stops, so a joined worker has  *)
(* no successor.                                                             *)
LEMMA NextIdle == TypeOK /\ Connected /\ Unconnected /\ IdleInv /\ [Next]_vars => IdleInv'
<1> SUFFICES ASSUME TypeOK, Connected, Unconnected, IdleInv, [Next]_vars PROVE IdleInv'
    OBVIOUS
<1> DEFINE Served == {"reading", "prepared", "closing"}
           Same == \A q \in Launches : pc'[q] = "unlocking" => pc[q] = "unlocking"
<1>1. ASSUME Same, UNCHANGED chan PROVE IdleInv'
    BY <1>1 DEF IdleInv, Busy
<1>2. ASSUME NEW c \in Launches, Keeps(c), Same, chan'[c].server \in Served => chan[c].server \in Served
      PROVE  IdleInv'
    BY <1>2, ChannelFacts DEF IdleInv, Busy, Keeps, Only
<1>3. ASSUME NEW p \in Launches, Launch(p) \/ TryLock(p) \/ Probe(p) PROVE IdleInv'
    BY <1>1, <1>3 DEF Launch, TryLock, Probe, Becomes, TypeOK
<1>4. ASSUME NEW p \in Launches, DeclineOwnership(p) \/ RemoveStaleSocket(p) \/ Bind(p) PROVE IdleInv'
    BY <1>1, <1>4 DEF DeclineOwnership, RemoveStaleSocket, Bind, OpenAlone, Becomes, TypeOK
<1>5. ASSUME NEW c \in Launches, Connect(c) PROVE IdleInv'
    <2>1. Same
        BY <1>5 DEF Connect, OpenAlone, Becomes, TypeOK
    <2>2. CASE Only(c) /\ chan'[c].server = "backlog"
        <3>1. \A d \in Launches \ {c} : chan'[d] = chan[d]
            BY <2>2 DEF Only
        <3> QED
            BY <2>1, <2>2, <3>1 DEF IdleInv, Busy
    <2>3. CASE UNCHANGED chan
        BY <1>1, <2>1, <2>3
    <2> QED
        BY <1>5, <2>2, <2>3, ConnectEffect
<1>6. ASSUME NEW c \in Launches, AwaitPrepared(c) \/ EndForwarded(c) PROVE IdleInv'
    <2>1. chan[c] \in Channel /\ Same /\ (UNCHANGED chan \/ Hang(c))
        BY <1>6 DEF AwaitPrepared, EndForwarded, OpenAlone, Becomes, TypeOK, Connected
    <2> QED
        BY <1>1, <1>2, <2>1, HangEffect DEF Hung
<1>7. ASSUME NEW c \in Launches, Commit(c) PROVE IdleInv'
    <2>1. Same
        BY <1>7 DEF Commit, OpenAlone, Becomes, TypeOK
    <2> QED
        BY <1>2, <1>7, <2>1, CommitEffect DEF Hung
<1>8. ASSUME NEW c \in Launches, Accept(c) PROVE IdleInv'
    <2>1. pc[chan[c].owner] # "unlocking" /\ UNCHANGED pc
        BY <1>8 DEF Accept
    <2>2. /\ chan'[c].owner = chan[c].owner
          /\ \A d \in Launches \ {c} : chan'[d] = chan[d]
        BY <1>8, AcceptEffect DEF Keeps, Only
    <2> QED
        BY <2>1, <2>2 DEF IdleInv, Busy
<1>9. ASSUME NEW c \in Launches, ReadRequest(c) \/ ReadCommit(c) \/ GiveUp(c) \/ EndWorker(c)
      PROVE  IdleInv'
    <2>1. Same
        BY <1>9 DEF ReadRequest, ReadCommit, GiveUp, EndWorker
    <2>2. Keeps(c) /\ chan[c].server \in Served
        BY <1>9, ReadRequestEffect, ReadCommitEffect, GiveUpEffect, EndWorkerEffect
    <2> QED
        BY <1>2, <2>1, <2>2
<1>10. ASSUME NEW p \in Launches, Drain(p) \/ Reject(p) PROVE IdleInv'
    BY <1>1, <1>10 DEF Drain, Reject
<1>11. ASSUME NEW p \in Launches, LeavingStep(p) PROVE IdleInv'
    <2>1. CASE RemoveSocket(p)
        <3>1. /\ Busy(p) = {} /\ UNCHANGED chan
              /\ \A q \in Launches \ {p} : pc'[q] = pc[q]
            BY <2>1 DEF RemoveSocket, Becomes, TypeOK
        <3> QED
            BY <3>1 DEF IdleInv, Busy
    <2>2. CASE BeginExit(p) \/ EndQuiesce(p) \/ ExitAtOnce(p) \/ StopServer(p)
        BY <1>1, <2>2 DEF BeginExit, EndQuiesce, ExitAtOnce, StopServer, Becomes, TypeOK
    <2> QED
        BY <1>11, <2>1, <2>2 DEF LeavingStep
<1>12. ASSUME NEW p \in Launches, Exit(p) \/ Crash(p) PROVE IdleInv'
    <2>1. chan' = Closed(p) /\ Same
        BY <1>12 DEF Exit, Crash, Becomes, TypeOK
    <2>2. ASSUME NEW d \in Launches, chan'[d].server \in Served PROVE chan'[d] = chan[d]
        <3>1. CASE chan[d] # NoChannel /\ chan[d].owner = p
            BY <2>1, <2>2, <3>1, ClosedEffect, ChannelFacts
        <3>2. CASE ~ (chan[d] # NoChannel /\ chan[d].owner = p)
            BY <2>1, <3>2, ClosedFacts
        <3> QED
            BY <3>1, <3>2
    <2> QED
        BY <2>1, <2>2 DEF IdleInv, Busy
<1>13. ASSUME Tick PROVE IdleInv'
    <2>1. Same
        BY <1>13 DEF Tick
    <2>2. ASSUME NEW d \in Launches, chan'[d].server \in Served
          PROVE  chan[d] # NoChannel /\ chan[d].server \in Served /\ chan'[d].owner = chan[d].owner
        BY <1>13, <2>2, TickEffect, ChannelFacts
    <2> QED
        BY <2>1, <2>2 DEF IdleInv, Busy
<1>14. CASE UNCHANGED vars
    BY <1>1, <1>14 DEF vars
<1> QED
    BY <1>3, <1>4, <1>5, <1>6, <1>7, <1>8, <1>9, <1>10, <1>11, <1>12, <1>13, <1>14
       DEF Next, ClientStep, WorkerStep, OwnerStep, LeavingStep

(* A step that changes neither the slots nor who is prepared keeps the count. *)
LEMMA SameSlots ==
    ASSUME SlotsInv, UNCHANGED reserved,
           \A d \in Launches : /\ chan'[d].server = "prepared" <=> chan[d].server = "prepared"
                               /\ chan[d].server = "prepared" => chan'[d].owner = chan[d].owner
    PROVE  SlotsInv'
<1>1. \A p \in Launches : Prepared(p)' = Prepared(p)
    BY DEF Prepared
<1> QED
    BY <1>1 DEF SlotsInv

(* A handoff that is decided gives its slot back.                            *)
LEMMA SlotBack ==
    ASSUME TypeOK, SlotsInv, NEW c \in Launches, Keeps(c),
           chan[c].server = "prepared", chan'[c].server # "prepared",
           reserved' = [reserved EXCEPT ![chan[c].owner] = @ - 1]
    PROVE  SlotsInv'
<1>1. PICK p \in Launches : p = chan[c].owner
    BY DEF Keeps, Channel
<1>2. c \in Prepared(p) /\ IsFiniteSet(Prepared(p)) /\ reserved[p] = Cardinality(Prepared(p))
    BY <1>1 DEF Prepared, SlotsInv
<1>3. Prepared(p)' = Prepared(p) \ {c}
    BY <1>1 DEF Prepared, Keeps, Only
<1>4. \A q \in Launches \ {p} : Prepared(q)' = Prepared(q)
    BY <1>1 DEF Prepared, Keeps, Only
<1>5. /\ IsFiniteSet(Prepared(p) \ {c})
      /\ Cardinality(Prepared(p) \ {c}) = Cardinality(Prepared(p)) - 1
    BY <1>2, FS_RemoveElement
<1>6. reserved' = [reserved EXCEPT ![p] = @ - 1]
    BY <1>1
<1>7. IsFiniteSet(Prepared(p)') /\ reserved'[p] = Cardinality(Prepared(p)')
    BY <1>1, <1>2, <1>3, <1>5, <1>6 DEF TypeOK
<1>8. ASSUME NEW q \in Launches \ {p}
      PROVE  IsFiniteSet(Prepared(q)') /\ reserved'[q] = Cardinality(Prepared(q)')
    <2>1. reserved'[q] = reserved[q]
        BY <1>1, <1>6 DEF TypeOK
    <2> QED
        BY <1>4, <2>1 DEF SlotsInv
<1> QED
    BY <1>7, <1>8 DEF SlotsInv

(* A handoff that is prepared takes one.                                     *)
LEMMA SlotTaken ==
    ASSUME TypeOK, SlotsInv, NEW c \in Launches, Keeps(c),
           chan[c].server # "prepared", chan'[c].server = "prepared",
           reserved' = [reserved EXCEPT ![chan[c].owner] = @ + 1]
    PROVE  SlotsInv'
<1>1. PICK p \in Launches : p = chan[c].owner
    BY DEF Keeps, Channel
<1>2. c \notin Prepared(p) /\ IsFiniteSet(Prepared(p)) /\ reserved[p] = Cardinality(Prepared(p))
    BY <1>1 DEF Prepared, SlotsInv
<1>3. Prepared(p)' = Prepared(p) \cup {c}
    BY <1>1 DEF Prepared, Keeps, Only
<1>4. \A q \in Launches \ {p} : Prepared(q)' = Prepared(q)
    BY <1>1 DEF Prepared, Keeps, Only
<1>5. /\ IsFiniteSet(Prepared(p) \cup {c})
      /\ Cardinality(Prepared(p) \cup {c}) = Cardinality(Prepared(p)) + 1
    BY <1>2, FS_AddElement
<1>6. reserved' = [reserved EXCEPT ![p] = @ + 1]
    BY <1>1
<1>7. IsFiniteSet(Prepared(p)') /\ reserved'[p] = Cardinality(Prepared(p)')
    BY <1>1, <1>2, <1>3, <1>5, <1>6 DEF TypeOK
<1>8. ASSUME NEW q \in Launches \ {p}
      PROVE  IsFiniteSet(Prepared(q)') /\ reserved'[q] = Cardinality(Prepared(q)')
    <2>1. reserved'[q] = reserved[q]
        BY <1>1, <1>6 DEF TypeOK
    <2> QED
        BY <1>4, <2>1 DEF SlotsInv
<1> QED
    BY <1>7, <1>8 DEF SlotsInv

(* A process that is gone prepared nothing and holds no slot.                *)
LEMMA SlotsGone ==
    ASSUME TypeOK, SlotsInv, NEW p \in Launches, chan' = Closed(p),
           reserved' = [reserved EXCEPT ![p] = 0]
    PROVE  SlotsInv'
<1>1. Prepared(p)' = {}
    <2>1. ASSUME NEW c \in Launches, chan'[c].server = "prepared", chan'[c].owner = p
          PROVE  FALSE
        <3>1. CASE chan[c] # NoChannel /\ chan[c].owner = p
            BY ZenonT(60), <2>1, <3>1, ClosedFacts, ChannelFacts DEF Channel
        <3>2. CASE ~ (chan[c] # NoChannel /\ chan[c].owner = p)
            <4>1. chan'[c] = chan[c]
                BY <3>2, ClosedFacts
            <4> QED
                BY <2>1, <3>2, <4>1, ChannelFacts
        <3> QED
            BY <3>1, <3>2
    <2> QED
        BY <2>1 DEF Prepared
<1>2. ASSUME NEW q \in Launches \ {p}
      PROVE  Prepared(q)' = Prepared(q)
    <2>1. ASSUME NEW c \in Launches
          PROVE  /\ chan'[c].server = "prepared" /\ chan'[c].owner = q
                       <=> chan[c].server = "prepared" /\ chan[c].owner = q
        <3>1. CASE chan[c] # NoChannel /\ chan[c].owner = p
            <4>1. chan'[c].owner = p
                BY ZenonT(60), <3>1, ClosedFacts, ChannelFacts DEF Channel
            <4> QED
                BY <3>1, <4>1
        <3>2. CASE ~ (chan[c] # NoChannel /\ chan[c].owner = p)
            BY <3>2, ClosedFacts
        <3> QED
            BY <3>1, <3>2
    <2> QED
        BY <2>1 DEF Prepared
<1>3. IsFiniteSet({}) /\ Cardinality({}) = 0
    BY FS_EmptySet
<1> QED
    BY <1>1, <1>2, <1>3 DEF SlotsInv, TypeOK

(* SlotsInv holds initially.                                               *)
LEMMA InitSlots == Init => SlotsInv
<1> SUFFICES ASSUME Init PROVE SlotsInv
    OBVIOUS
<1>1. ASSUME NEW p \in Launches PROVE Prepared(p) = {} /\ reserved[p] = 0
    BY DEF Init, Prepared, NoChannel
<1>2. IsFiniteSet({}) /\ Cardinality({}) = 0
    BY FS_EmptySet
<1> QED
    BY <1>1, <1>2 DEF SlotsInv

(* Every step keeps SlotsInv.                                              *)
LEMMA NextSlots ==
    TypeOK /\ Connected /\ Unconnected /\ SlotsInv /\ IdleInv /\ [Next]_vars => SlotsInv'
<1> SUFFICES ASSUME TypeOK, Connected, Unconnected, SlotsInv, IdleInv, [Next]_vars
             PROVE  SlotsInv'
    OBVIOUS
<1>1. ASSUME UNCHANGED <<chan, reserved>> PROVE SlotsInv'
    BY <1>1, SameSlots
<1>2. ASSUME NEW c \in Launches, Keeps(c), UNCHANGED reserved,
             chan'[c].server = "prepared" <=> chan[c].server = "prepared"
      PROVE  SlotsInv'
    BY <1>2, SameSlots DEF Keeps, Only
<1>3. ASSUME NEW p \in Launches, Launch(p) \/ TryLock(p) \/ Probe(p) PROVE SlotsInv'
    BY <1>1, <1>3 DEF Launch, TryLock, Probe, ownerVars
<1>4. ASSUME NEW p \in Launches, DeclineOwnership(p) \/ RemoveStaleSocket(p) \/ Bind(p) PROVE SlotsInv'
    BY <1>1, <1>4 DEF DeclineOwnership, RemoveStaleSocket, Bind, ownerVars
<1>5. ASSUME NEW c \in Launches, Connect(c) PROVE SlotsInv'
    <2>1. UNCHANGED reserved /\ chan[c] = NoChannel
        BY <1>5 DEF Connect, ownerVars, Unconnected
    <2>2. CASE Only(c) /\ chan'[c].server = "backlog"
        BY <2>1, <2>2, SameSlots DEF Only, NoChannel
    <2>3. CASE UNCHANGED chan
        BY <1>1, <2>1, <2>3
    <2> QED
        BY <1>5, <2>2, <2>3, ConnectEffect
<1>6. ASSUME NEW c \in Launches, AwaitPrepared(c) \/ EndForwarded(c) PROVE SlotsInv'
    <2>1. UNCHANGED reserved /\ chan[c] \in Channel
        BY <1>6 DEF AwaitPrepared, EndForwarded, ownerVars, Connected
    <2>2. CASE UNCHANGED chan
        BY <1>1, <2>1, <2>2
    <2>3. CASE Hang(c)
        BY <1>2, <2>1, <2>3, HangEffect DEF Hung
    <2> QED
        BY <1>6, <2>2, <2>3 DEF AwaitPrepared, EndForwarded
<1>7. ASSUME NEW c \in Launches, Commit(c) PROVE SlotsInv'
    BY <1>2, <1>7, CommitEffect DEF Commit, Hung, ownerVars
<1>8. ASSUME NEW c \in Launches, Accept(c) \/ EndWorker(c) PROVE SlotsInv'
    BY <1>2, <1>8, AcceptEffect, EndWorkerEffect DEF Accept, EndWorker, ownerVars
<1>9. ASSUME NEW c \in Launches, ReadRequest(c) PROVE SlotsInv'
    BY <1>2, <1>9, ReadRequestEffect, SlotTaken
<1>10. ASSUME NEW c \in Launches, ReadCommit(c) PROVE SlotsInv'
    BY <1>10, ReadCommitEffect, SlotBack DEF ReadCommit
<1>11. ASSUME NEW c \in Launches, GiveUp(c) PROVE SlotsInv'
    BY <1>11, GiveUpEffect, SlotBack DEF GiveUp
<1>12. ASSUME NEW p \in Launches, Drain(p) \/ Reject(p) \/ BeginExit(p) PROVE SlotsInv'
    BY <1>1, <1>12 DEF Drain, Reject, BeginExit
<1>13. ASSUME NEW p \in Launches, EndQuiesce(p) \/ ExitAtOnce(p) \/ StopServer(p) \/ RemoveSocket(p) PROVE SlotsInv'
    BY <1>1, <1>13 DEF EndQuiesce, ExitAtOnce, StopServer, RemoveSocket, ownerVars
<1>14. ASSUME NEW p \in Launches, Exit(p) PROVE SlotsInv'
    <2>1. reserved' = reserved /\ reserved[p] = 0 /\ chan' = Closed(p)
        <3>1. Prepared(p) = {}
            BY <1>14, ChannelFacts DEF Exit, IdleInv, Busy, Prepared
        <3> QED
            BY <1>14, <3>1, FS_EmptySet DEF Exit, SlotsInv
    <2>2. reserved' = [reserved EXCEPT ![p] = 0]
        BY <2>1 DEF TypeOK
    <2> QED
        BY <2>1, <2>2, SlotsGone
<1>15. ASSUME NEW p \in Launches, Crash(p) PROVE SlotsInv'
    BY <1>15, SlotsGone DEF Crash
<1>16. ASSUME Tick PROVE SlotsInv'
    <2>1. UNCHANGED reserved
        BY <1>16 DEF Tick, ownerVars
    <2>2. \A d \in Launches : chan'[d].server = chan[d].server
                             /\ (chan[d].server = "prepared" => chan'[d].owner = chan[d].owner)
        BY <1>16, TickEffect
    <2> QED
        BY <2>1, <2>2, SameSlots
<1>17. CASE UNCHANGED vars
    BY <1>1, <1>17 DEF vars, ownerVars
<1> QED
    BY <1>3, <1>4, <1>5, <1>6, <1>7, <1>8, <1>9, <1>10, <1>11, <1>12, <1>13, <1>14, <1>15, <1>16,
       <1>17 DEF Next, ClientStep, WorkerStep, OwnerStep, LeavingStep

-----------------------------------------------------------------------------
(* Who acts on a launch's files.                                             *)

(* Nobody new acts on a launch, and no commit is outstanding that was not.   *)
LEMMA OnceKept ==
    ASSUME OnceInv,
           \A d \in Launches :
              /\ Actors(d)' \subseteq Actors(d)
              /\ pc'[d] \in Undecided => pc[d] \in Undecided
              /\ Unread(d)' => Unread(d)
              /\ pc[d] \in {"committed", "forwarded"} => pc'[d] \in {"committed", "forwarded"}
    PROVE  OnceInv'
    BY DEF OnceInv

(* A launch that gives up waiting, or that becomes the owner, opens its own  *)
(* files: nobody else has them.                                              *)
LEMMA OnceAlone ==
    ASSUME TypeOK, OnceInv, NEW p \in Launches, pc[p] \in Undecided, pc'[p] \notin Undecided,
           \A d \in Launches \ {p} : pc'[d] = pc[d],
           opened' = [opened EXCEPT ![p] = @ \cup {p}], UNCHANGED queue,
           \A d \in Launches : Unread(d)' => Unread(d)
    PROVE  OnceInv'
<1>1. Actors(p) = {} /\ ~ Unread(p)
    BY DEF OnceInv, Undecided
<1>2. Actors(p)' = {p} /\ ~ Unread(p)'
    BY <1>1 DEF Actors, Holding, TypeOK
<1>3. \A d \in Launches \ {p} : Actors(d)' = Actors(d)
    BY DEF Actors, Holding, TypeOK
<1> QED
    BY <1>2, <1>3 DEF OnceInv

(* The owner that reads a commit is the only one to act on it: the commit is *)
(* taken from the connection in the same step.                               *)
LEMMA OnceQueued ==
    ASSUME TypeOK, OnceInv, NEW c \in Launches, ReadCommit(c)
    PROVE  OnceInv'
<1>1. PICK p \in Launches : p = chan[c].owner
    BY ReadCommitEffect DEF Keeps, Channel
<1>2. /\ chan[c] \in Channel /\ Unread(c) /\ ~ Unread(c)'
      /\ \A d \in Launches \ {c} : Unread(d)' <=> Unread(d)
    BY ReadCommitEffect, ChannelFacts DEF Keeps, Only, Unread
<1>3. Actors(c) = {} /\ pc[c] \in {"committed", "forwarded"}
    BY <1>2 DEF OnceInv
<1>4. UNCHANGED <<pc, opened>> /\ queue' = [queue EXCEPT ![p] = Append(queue[p], c)]
    BY <1>1 DEF ReadCommit, TypeOK
<1>5. Range(Append(queue[p], c)) = Range(queue[p]) \cup {c}
    BY AppendRange DEF TypeOK
<1>6. \A x \in Launches \ {p} : queue'[x] = queue[x]
    BY <1>4 DEF TypeOK
<1>7. Range(queue'[p]) = Range(queue[p]) \cup {c}
    BY <1>4, <1>5 DEF TypeOK
<1>8. Actors(c)' = {p}
    BY <1>3, <1>4, <1>6, <1>7 DEF Actors, Holding
<1>9. \A d \in Launches \ {c} : Actors(d)' = Actors(d)
    BY <1>4, <1>6, <1>7 DEF Actors, Holding
<1> QED
    BY <1>2, <1>3, <1>4, <1>8, <1>9 DEF OnceInv, Undecided

(* A request taken from the queue leaves its owner the one who acts on it,   *)
(* or it is turned down.                                                     *)
LEMMA DrainActors ==
    ASSUME TypeOK, NEW p \in Launches, Drain(p) \/ Reject(p)
    PROVE  /\ \A d \in Launches : Actors(d)' \subseteq Actors(d) /\ opened[d] \subseteq opened'[d]
           /\ \A d \in Launches : p \in Holding(d) => p \in Holding(d)' \/ p \in opened'[d] \/ d \in rejected'
           /\ \A d \in Launches, x \in Launches \ {p} : x \in Holding(d) <=> x \in Holding(d)'
<1> DEFINE h == Head(queue[p])
<1>1. /\ queue[p] \in Seq(Launches) /\ queue[p] # <<>>
      /\ queue' = [queue EXCEPT ![p] = Tail(@)]
      /\ \/ opened' = [opened EXCEPT ![h] = @ \cup {p}]
         \/ UNCHANGED opened /\ h \in rejected'
    BY DEF Drain, Reject, TypeOK
<1>2. /\ h \in Launches /\ h \in Range(queue[p])
      /\ Range(Tail(queue[p])) \subseteq Range(queue[p])
      /\ Range(queue[p]) \subseteq Range(Tail(queue[p])) \cup {h}
    <2>1. ASSUME NEW i \in DOMAIN queue[p], i # 1
          PROVE  \E j \in DOMAIN Tail(queue[p]) : Tail(queue[p])[j] = queue[p][i]
        <3>1. /\ i - 1 \in DOMAIN Tail(queue[p])
              /\ Tail(queue[p])[i - 1] = queue[p][(i - 1) + 1]
              /\ (i - 1) + 1 = i
            BY <1>1, <2>1
        <3> QED
            BY <3>1
    <2>2. h = queue[p][1]
        BY <1>1
    <2> QED
        BY ZenonT(60), <1>1, <2>1, <2>2, TailRange DEF Range
<1>3. /\ queue'[p] = Tail(queue[p]) /\ \A x \in Launches \ {p} : queue'[x] = queue[x]
      /\ opened'[h] = opened[h] \cup {p} \/ (UNCHANGED opened /\ h \in rejected')
      /\ \A d \in Launches \ {h} : opened'[d] = opened[d]
    BY <1>1, <1>2 DEF TypeOK
<1> HIDE DEF h
<1> QED
    BY <1>2, <1>3 DEF Actors, Holding

(* Nothing is held by a queue that is thrown away.                           *)
LEMMA GoneActors ==
    ASSUME TypeOK, NEW p \in Launches, queue' = [queue EXCEPT ![p] = <<>>], UNCHANGED opened
    PROVE  \A d \in Launches : Actors(d)' \subseteq Actors(d)
<1>1. queue'[p] = <<>> /\ \A x \in Launches \ {p} : queue'[x] = queue[x]
    BY DEF TypeOK
<1>2. Range(<<>>) = {}
    BY DEF Range
<1> QED
    BY <1>1, <1>2 DEF Actors, Holding

(* What a connection says of its launch's commit when the owner is gone.     *)
LEMMA GoneUnread ==
    ASSUME TypeOK, NEW p \in Launches, chan' = Closed(p)
    PROVE  \A d \in Launches : Unread(d)' => Unread(d)
<1>1. ASSUME NEW d \in Launches, chan[d] # NoChannel, chan[d].owner = p
      PROVE  chan'[d].unread = chan[d].unread
    BY ZenonT(60), <1>1, ClosedFacts, ChannelFacts DEF Channel
<1> QED
    BY <1>1, ClosedFacts DEF Unread

(* OnceInv holds initially.                                                *)
LEMMA InitOnce == Init => OnceInv
<1> SUFFICES ASSUME Init PROVE OnceInv
    OBVIOUS
<1>1. ASSUME NEW c \in Launches PROVE Actors(c) = {} /\ ~ Unread(c)
    BY DEF Init, Actors, Holding, Unread, Range
<1> QED
    BY <1>1 DEF OnceInv

(* Every step keeps OnceInv.                                               *)
LEMMA NextOnce ==
    TypeOK /\ Connected /\ Unconnected /\ OnceInv /\ [Next]_vars => OnceInv'
<1> SUFFICES ASSUME TypeOK, Connected, Unconnected, OnceInv, [Next]_vars PROVE OnceInv'
    OBVIOUS
<1>1. ASSUME UNCHANGED <<opened, queue>> PROVE \A d \in Launches : Actors(d)' = Actors(d)
    BY <1>1 DEF Actors, Holding
<1>2. ASSUME UNCHANGED <<opened, queue, chan>>,
             \A d \in Launches : /\ pc'[d] \in Undecided => pc[d] \in Undecided
                                 /\ pc[d] \in {"committed", "forwarded"} =>
                                      pc'[d] \in {"committed", "forwarded"}
      PROVE  OnceInv'
    BY <1>1, <1>2, OnceKept DEF Unread
<1>3. ASSUME NEW c \in Launches, Keeps(c), UNCHANGED <<opened, queue>>,
             chan'[c].unread = "commit" => chan[c].unread = "commit",
             \A d \in Launches : /\ pc'[d] \in Undecided => pc[d] \in Undecided
                                 /\ pc[d] \in {"committed", "forwarded"} =>
                                      pc'[d] \in {"committed", "forwarded"}
      PROVE  OnceInv'
    <2>1. \A d \in Launches : Unread(d)' => Unread(d)
        BY <1>3, ChannelFacts DEF Keeps, Only, Unread
    <2> QED
        BY <1>1, <1>3, <2>1, OnceKept
<1>4. ASSUME NEW p \in Launches, Launch(p) \/ TryLock(p) \/ Probe(p) PROVE OnceInv'
    BY <1>2, <1>4 DEF TypeOK, Launch, TryLock, Probe, Becomes, Undecided, ownerVars
<1>5. ASSUME NEW p \in Launches, RemoveStaleSocket(p) PROVE OnceInv'
    BY <1>2, <1>5 DEF TypeOK, RemoveStaleSocket, Becomes, Undecided, ownerVars
<1>6. ASSUME NEW p \in Launches, DeclineOwnership(p) \/ Bind(p) PROVE OnceInv'
    <2>1. UNCHANGED <<queue, chan>> /\ opened' = [opened EXCEPT ![p] = @ \cup {p}]
        BY <1>6 DEF DeclineOwnership, Bind, OpenAlone, ownerVars
    <2>2. pc[p] \in Undecided /\ pc'[p] \notin Undecided /\ \A d \in Launches \ {p} : pc'[d] = pc[d]
        BY <1>6 DEF TypeOK, DeclineOwnership, Bind, OpenAlone, Becomes, Undecided
    <2> QED
        BY <2>1, <2>2, OnceAlone DEF Unread
<1>7. ASSUME NEW c \in Launches, Connect(c) PROVE OnceInv'
    <2>1. pc[c] = "connect" /\ chan[c] = NoChannel /\ UNCHANGED queue
        BY <1>7 DEF Connect, ownerVars, Unconnected
    <2>2. CASE /\ Only(c) /\ chan'[c].unread = "request" /\ Becomes(c, "sent") /\ UNCHANGED opened
        <3>1. \A d \in Launches : Unread(d)' => Unread(d)
            BY <2>2 DEF Only, Unread
        <3>2. \A d \in Launches : /\ pc'[d] \in Undecided => pc[d] \in Undecided
                                  /\ pc[d] \in {"committed", "forwarded"} =>
                                       pc'[d] \in {"committed", "forwarded"}
            BY <2>1, <2>2 DEF Becomes, Undecided, TypeOK
        <3> QED
            BY <1>1, <2>1, <2>2, <3>1, <3>2, OnceKept
    <2>3. CASE UNCHANGED chan /\ OpenAlone(c)
        <3>1. /\ pc[c] \in Undecided /\ pc'[c] \notin Undecided
              /\ \A d \in Launches \ {c} : pc'[d] = pc[d]
              /\ opened' = [opened EXCEPT ![c] = @ \cup {c}]
            BY <2>1, <2>3 DEF OpenAlone, Becomes, Undecided, TypeOK
        <3> QED
            BY <2>1, <2>3, <3>1, OnceAlone DEF Unread
    <2> QED
        BY <1>7, <2>2, <2>3, ConnectEffect
<1>8. ASSUME NEW c \in Launches, pc[c] \in {"sent", "commit"}, OpenAlone(c), Hung(c), UNCHANGED queue
      PROVE  OnceInv'
    <2>1. /\ pc[c] \in Undecided /\ pc'[c] \notin Undecided
          /\ \A d \in Launches \ {c} : pc'[d] = pc[d]
          /\ opened' = [opened EXCEPT ![c] = @ \cup {c}]
        BY <1>8 DEF OpenAlone, Becomes, Undecided, TypeOK
    <2>2. \A d \in Launches : Unread(d)' => Unread(d)
        BY <1>8, ChannelFacts DEF Hung, Keeps, Only, Unread
    <2> QED
        BY <1>8, <2>1, <2>2, OnceAlone
<1>9. ASSUME NEW c \in Launches, AwaitPrepared(c) PROVE OnceInv'
    <2>1. pc[c] = "sent" /\ chan[c] \in Channel /\ UNCHANGED queue
        BY <1>9 DEF AwaitPrepared, ownerVars, Connected
    <2>2. CASE Becomes(c, "commit") /\ UNCHANGED <<opened, chan>>
        BY <1>2, <2>1, <2>2 DEF Becomes, Undecided, TypeOK
    <2>3. CASE OpenAlone(c) /\ Hang(c)
        BY <1>8, <2>1, <2>3, HangEffect
    <2> QED
        BY <1>9, <2>2, <2>3 DEF AwaitPrepared
<1>10. ASSUME NEW c \in Launches, Commit(c) PROVE OnceInv'
    <2>1. pc[c] = "commit" /\ UNCHANGED queue
        BY <1>10 DEF Commit, ownerVars
    <2>2. CASE OpenAlone(c) /\ Hung(c)
        BY <1>8, <2>1, <2>2
    <2>3. CASE Keeps(c) /\ Becomes(c, "committed") /\ UNCHANGED opened
        <3>1. Actors(c) = {}
            BY <2>1 DEF OnceInv, Undecided
        <3>2. \A d \in Launches : Actors(d)' = Actors(d)
            BY <1>1, <2>1, <2>3
        <3>3. pc'[c] = "committed" /\ \A d \in Launches \ {c} : pc'[d] = pc[d]
            BY <2>3 DEF Becomes, TypeOK
        <3>4. \A d \in Launches \ {c} : Unread(d)' <=> Unread(d)
            BY <2>3 DEF Keeps, Only, Unread
        <3> QED
            BY <3>1, <3>2, <3>3, <3>4 DEF OnceInv, Undecided
    <2> QED
        BY <1>10, <2>2, <2>3, CommitEffect
<1>11. ASSUME NEW c \in Launches, EndForwarded(c) PROVE OnceInv'
    <2>1. /\ pc[c] = "committed" /\ chan[c] \in Channel /\ Hang(c)
          /\ UNCHANGED <<opened, queue>> /\ Becomes(c, "forwarded")
        BY <1>11 DEF EndForwarded, Connected, ownerVars
    <2>2. \A d \in Launches : /\ pc'[d] \in Undecided => pc[d] \in Undecided
                              /\ pc[d] \in {"committed", "forwarded"} =>
                                   pc'[d] \in {"committed", "forwarded"}
        BY <2>1 DEF Becomes, Undecided, TypeOK
    <2> QED
        BY <1>3, <2>1, <2>2, HangEffect DEF Hung
<1>12. ASSUME NEW c \in Launches, Accept(c) \/ ReadRequest(c) \/ GiveUp(c) \/ EndWorker(c) PROVE OnceInv'
    <2>1. UNCHANGED <<pc, opened, queue>>
        BY <1>12 DEF Accept, ReadRequest, GiveUp, EndWorker, ownerVars
    <2>2. Keeps(c) /\ (chan'[c].unread = "commit" => chan[c].unread = "commit")
        BY <1>12, AcceptEffect, ReadRequestEffect, GiveUpEffect, EndWorkerEffect
    <2> QED
        BY <1>3, <2>1, <2>2
<1>13. ASSUME NEW p \in Launches, Drain(p) \/ Reject(p) PROVE OnceInv'
    <2>1. UNCHANGED <<pc, chan>>
        BY <1>13 DEF Drain, Reject
    <2> QED
        BY <1>13, <2>1, DrainActors, OnceKept DEF Unread
<1>14. ASSUME NEW p \in Launches, BeginExit(p) \/ EndQuiesce(p) PROVE OnceInv'
    BY <1>2, <1>14 DEF TypeOK, BeginExit, EndQuiesce, Becomes, Undecided
<1>15. ASSUME NEW p \in Launches, ExitAtOnce(p) \/ StopServer(p) \/ RemoveSocket(p) PROVE OnceInv'
    BY <1>2, <1>15 DEF TypeOK, ExitAtOnce, StopServer, RemoveSocket, Becomes, Undecided, ownerVars
<1>16. ASSUME NEW p \in Launches, Exit(p) \/ Crash(p) PROVE OnceInv'
    <2>1. chan' = Closed(p) /\ queue' = [queue EXCEPT ![p] = <<>>] /\ UNCHANGED opened
        BY <1>16 DEF Exit, Crash
    <2>2. \A d \in Launches : /\ pc'[d] \in Undecided => pc[d] \in Undecided
                              /\ pc[d] \in {"committed", "forwarded"} =>
                                   pc'[d] \in {"committed", "forwarded"}
        BY <1>16 DEF Exit, Crash, Becomes, Undecided, TypeOK
    <2> QED
        BY <2>1, <2>2, GoneActors, GoneUnread, OnceKept
<1>17. ASSUME Tick PROVE OnceInv'
    <2>1. UNCHANGED <<pc, opened, queue>>
        BY <1>17 DEF Tick, ownerVars
    <2>2. \A d \in Launches : Unread(d)' => Unread(d)
        BY <1>17, TickEffect, ChannelFacts DEF Unread
    <2> QED
        BY <1>1, <2>1, <2>2, OnceKept
<1>18. CASE UNCHANGED vars
    BY <1>2, <1>18 DEF vars, ownerVars
<1> QED
    BY <1>4, <1>5, <1>6, <1>7, <1>9, <1>10, <1>11, <1>12, <1>13, <1>14, <1>15, <1>16, <1>17, <1>18,
       OnceQueued DEF Next, ClientStep, WorkerStep, OwnerStep, LeavingStep

-----------------------------------------------------------------------------
(* What becomes of a commit.                                                 *)

(* HoldsOwn holds initially.                                               *)
LEMMA InitHolds == Init => HoldsOwn
<1> SUFFICES ASSUME Init PROVE HoldsOwn
    OBVIOUS
<1>1. \A c \in Launches : Holding(c) = {}
    BY DEF Init, Holding, Range
<1> QED
    BY <1>1 DEF HoldsOwn

(* A launch whose request is queued has decided and does not connect again.  *)
LEMMA NextHolds ==
    TypeOK /\ Connected /\ OnceInv /\ HoldsOwn /\ [Next]_vars => HoldsOwn'
<1> SUFFICES ASSUME TypeOK, Connected, OnceInv, HoldsOwn, [Next]_vars PROVE HoldsOwn'
    OBVIOUS
<1>1. ASSUME \A d \in Launches : Holding(d)' \subseteq Holding(d), UNCHANGED chan PROVE HoldsOwn'
    BY <1>1 DEF HoldsOwn
<1>2. ASSUME UNCHANGED queue PROVE \A d \in Launches : Holding(d)' = Holding(d)
    BY <1>2 DEF Holding
<1>3. ASSUME NEW c \in Launches, Keeps(c), UNCHANGED queue PROVE HoldsOwn'
    BY <1>2, <1>3 DEF HoldsOwn, Keeps, Only
<1>4. ASSUME NEW p \in Launches, Launch(p) \/ TryLock(p) \/ Probe(p) \/ DeclineOwnership(p) PROVE HoldsOwn'
    BY <1>1, <1>2, <1>4 DEF Launch, TryLock, Probe, DeclineOwnership, ownerVars
<1>5. ASSUME NEW p \in Launches, RemoveStaleSocket(p) \/ Bind(p) PROVE HoldsOwn'
    BY <1>1, <1>2, <1>5 DEF RemoveStaleSocket, Bind, ownerVars
<1>6. ASSUME NEW c \in Launches, Connect(c) PROVE HoldsOwn'
    <2>1. UNCHANGED queue /\ Holding(c) = {}
        BY <1>6 DEF Connect, ownerVars, OnceInv, Actors, Undecided
    <2>2. \A d \in Launches \ {c} : chan'[d] = chan[d]
        BY <1>6, ConnectEffect DEF Only
    <2> QED
        BY <1>2, <2>1, <2>2 DEF HoldsOwn
<1>7. ASSUME NEW c \in Launches, AwaitPrepared(c) \/ EndForwarded(c) PROVE HoldsOwn'
    <2>1. UNCHANGED queue /\ chan[c] \in Channel /\ (UNCHANGED chan \/ Hang(c))
        BY <1>7 DEF AwaitPrepared, EndForwarded, ownerVars, Connected
    <2> QED
        BY <1>1, <1>2, <1>3, <2>1, HangEffect DEF Hung
<1>8. ASSUME NEW c \in Launches, Commit(c) PROVE HoldsOwn'
    BY <1>3, <1>8, CommitEffect DEF Commit, Hung, ownerVars
<1>9. ASSUME NEW c \in Launches, Accept(c) \/ ReadRequest(c) \/ GiveUp(c) \/ EndWorker(c) PROVE HoldsOwn'
    <2>1. UNCHANGED queue
        BY <1>9 DEF Accept, ReadRequest, GiveUp, EndWorker, ownerVars
    <2> QED
        BY <1>3, <1>9, <2>1, AcceptEffect, ReadRequestEffect, GiveUpEffect, EndWorkerEffect
<1>10. ASSUME NEW c \in Launches, ReadCommit(c) PROVE HoldsOwn'
    <2>1. PICK p \in Launches : p = chan[c].owner
        BY <1>10, ReadCommitEffect DEF Keeps, Channel
    <2>2. queue' = [queue EXCEPT ![p] = Append(queue[p], c)]
        BY <1>10, <2>1 DEF ReadCommit, TypeOK
    <2>3. /\ Range(queue'[p]) = Range(queue[p]) \cup {c}
          /\ \A x \in Launches \ {p} : queue'[x] = queue[x]
        BY <2>2, AppendRange DEF TypeOK
    <2>4. /\ Holding(c)' = Holding(c) \cup {p}
          /\ \A d \in Launches \ {c} : Holding(d)' = Holding(d)
        BY <2>3 DEF Holding
    <2>5. Keeps(c)
        BY <1>10, ReadCommitEffect
    <2> QED
        BY <2>1, <2>4, <2>5 DEF HoldsOwn, Keeps, Only
<1>11. ASSUME NEW p \in Launches, Drain(p) \/ Reject(p) PROVE HoldsOwn'
    <2>1. UNCHANGED chan /\ queue[p] \in Seq(Launches) /\ queue[p] # <<>>
          /\ queue' = [queue EXCEPT ![p] = Tail(@)]
        BY <1>11 DEF Drain, Reject, TypeOK
    <2>2. \A x \in Launches : Range(queue'[x]) \subseteq Range(queue[x])
        BY SMTT(40), <2>1, TailRange DEF TypeOK
    <2> QED
        BY <1>1, <2>1, <2>2 DEF Holding
<1>12. ASSUME NEW p \in Launches, LeavingStep(p) PROVE HoldsOwn'
    BY <1>1, <1>2, <1>12 DEF LeavingStep, BeginExit, EndQuiesce, ExitAtOnce, StopServer, RemoveSocket, ownerVars
<1>13. ASSUME NEW p \in Launches, Exit(p) \/ Crash(p) PROVE HoldsOwn'
    <2>1. chan' = Closed(p) /\ queue' = [queue EXCEPT ![p] = <<>>]
        BY <1>13 DEF Exit, Crash
    <2>2. \A d \in Launches : Holding(d)' \subseteq Holding(d)
        <3>1. queue'[p] = <<>> /\ \A x \in Launches \ {p} : queue'[x] = queue[x]
            BY <2>1 DEF TypeOK
        <3>2. Range(<<>>) = {}
            BY DEF Range
        <3> QED
            BY <3>1, <3>2 DEF Holding
    <2>3. ASSUME NEW d \in Launches, chan[d] \in Channel
          PROVE  chan'[d] \in Channel /\ chan'[d].owner = chan[d].owner
        <3>1. CASE chan[d].owner = p
            BY <2>1, <2>3, <3>1, ClosedEffect
        <3>2. CASE chan[d].owner # p
            BY <2>1, <2>3, <3>2, ClosedFacts
        <3> QED
            BY <3>1, <3>2
    <2> QED
        BY <2>2, <2>3 DEF HoldsOwn
<1>14. ASSUME Tick PROVE HoldsOwn'
    <2>1. UNCHANGED queue
        BY <1>14 DEF Tick, ownerVars
    <2>2. \A d \in Launches : chan[d] \in Channel => chan'[d] \in Channel /\ chan'[d].owner = chan[d].owner
        BY <1>14, TickEffect
    <2> QED
        BY <1>2, <2>1, <2>2 DEF HoldsOwn
<1>15. CASE UNCHANGED vars
    BY <1>1, <1>2, <1>15 DEF vars, ownerVars
<1> QED
    BY <1>4, <1>5, <1>6, <1>7, <1>8, <1>9, <1>10, <1>11, <1>12, <1>13, <1>14, <1>15
       DEF Next, ClientStep, WorkerStep, OwnerStep, LeavingStep

(* A connection that a worker serves belongs to an owner that does not stop, *)
(* unless it exits at once.                                                  *)
LEMMA PreparedKeepsOwner ==
    ASSUME TypeOK, SlotsInv, LeavingInv, NEW c \in Launches, chan[c].server = "prepared"
    PROVE  /\ chan[c] \in Channel /\ chan[c].owner \in Launches
           /\ chan[c].owner \in abrupt \/ pc[chan[c].owner] \notin {"stopping", "unlocking"}
<1>1. chan[c] \in Channel /\ chan[c].owner \in Launches
    BY ChannelFacts DEF Channel
<1>2. reserved[chan[c].owner] # 0
    BY <1>1, SlotHeld
<1> QED
    BY <1>1, <1>2 DEF LeavingInv

(* WaitInv holds initially.                                                *)
LEMMA InitWait == Init => WaitInv
    BY DEF Init, WaitInv

(* A worker never gives up on a prompt launch that still waits: its own      *)
(* deadline is the later one, and an owner that stops has none prepared.     *)
LEMMA NextWait ==
    ASSUME PromptClients
    PROVE  TypeOK /\ Connected /\ Unconnected /\ OnceInv /\ SlotsInv /\ LeavingInv /\ WaitInv
              /\ [Next]_vars => WaitInv'
<1> SUFFICES ASSUME TypeOK, Connected, Unconnected, OnceInv, SlotsInv, LeavingInv, WaitInv, [Next]_vars
             PROVE  WaitInv'
    OBVIOUS
<1>0. abrupt \subseteq abrupt'
    BY LossesGrow
<1> USE <1>0
<1>1. ASSUME UNCHANGED <<chan, age>>,
             \A d \in Launches : pc'[d] \in {"sent", "commit"} => pc'[d] = pc[d]
      PROVE  WaitInv'
    BY <1>1 DEF WaitInv
<1>2. ASSUME NEW c \in Launches, Keeps(c), UNCHANGED age,
             pc'[c] \notin {"sent", "commit"} \/ chan[c].owner \in abrupt,
             \A d \in Launches \ {c} : pc'[d] = pc[d]
      PROVE  WaitInv'
    BY <1>2 DEF WaitInv, Keeps, Only
<1>3. ASSUME NEW c \in Launches, Keeps(c), UNCHANGED <<pc, age>>,
             pc[c] \in {"sent", "commit"} /\ chan[c].owner \notin abrupt =>
                /\ chan'[c].client = "open"
                /\ chan'[c].server \in {"backlog", "reading", "prepared", "closed"}
                /\ pc[c] = "commit" \/ chan'[c].reply => chan'[c].server \in {"prepared", "closed"}
                /\ chan'[c].server \in {"reading", "prepared"} =>
                      chan'[c].handled <= age[c] /\ chan'[c].handled <= Timeout + CommitWindow
      PROVE  WaitInv'
    BY <1>3 DEF WaitInv, Keeps, Only
<1>4. ASSUME NEW p \in Launches, Launch(p) \/ TryLock(p) \/ Probe(p) PROVE WaitInv'
    BY <1>1, <1>4 DEF TypeOK, Launch, TryLock, Probe, Becomes, ownerVars
<1>5. ASSUME NEW p \in Launches, DeclineOwnership(p) \/ RemoveStaleSocket(p) \/ Bind(p) PROVE WaitInv'
    BY <1>1, <1>5 DEF TypeOK, DeclineOwnership, RemoveStaleSocket, Bind, OpenAlone, Becomes, ownerVars
<1>6. ASSUME NEW c \in Launches, Connect(c) PROVE WaitInv'
    <2>1. UNCHANGED age
        BY <1>6 DEF Connect
    <2>2. CASE /\ Only(c) /\ chan'[c].server = "backlog" /\ chan'[c].client = "open" /\ ~ chan'[c].reply
               /\ Becomes(c, "sent")
        <3>1. pc'[c] = "sent" /\ \A d \in Launches \ {c} : pc'[d] = pc[d] /\ chan'[d] = chan[d]
            BY <2>2 DEF Becomes, TypeOK, Only
        <3> QED
            BY <2>1, <2>2, <3>1 DEF WaitInv
    <2>3. CASE UNCHANGED chan /\ OpenAlone(c)
        BY <1>1, <2>1, <2>3 DEF OpenAlone, Becomes, TypeOK
    <2> QED
        BY <1>6, <2>2, <2>3, ConnectEffect
<1>7. ASSUME NEW c \in Launches, AwaitPrepared(c) PROVE WaitInv'
    <2>1. UNCHANGED age /\ pc[c] = "sent" /\ chan[c] \in Channel
        BY <1>7 DEF AwaitPrepared, Connected
    <2>2. CASE chan[c].reply /\ Becomes(c, "commit") /\ UNCHANGED chan
        <3>1. pc'[c] = "commit" /\ \A d \in Launches \ {c} : pc'[d] = pc[d]
            BY <2>2 DEF Becomes, TypeOK
        <3> QED
            BY <2>1, <2>2, <3>1 DEF WaitInv
    <2>3. CASE OpenAlone(c) /\ Hang(c)
        <3>1. pc'[c] = "independent" /\ \A d \in Launches \ {c} : pc'[d] = pc[d]
            BY <2>3 DEF OpenAlone, Becomes, TypeOK
        <3>2. Keeps(c)
            BY <2>1, <2>3, HangEffect DEF Hung
        <3> QED
            BY <1>2, <2>1, <3>1, <3>2
    <2> QED
        BY <1>7, <2>2, <2>3 DEF AwaitPrepared
<1>8. ASSUME NEW c \in Launches, Commit(c) PROVE WaitInv'
    <2>1. Keeps(c)
        BY <1>8, CommitEffect DEF Hung
    <2>2. /\ pc'[c] \notin {"sent", "commit"} /\ UNCHANGED age
          /\ \A d \in Launches \ {c} : pc'[d] = pc[d]
        BY <1>8 DEF Commit, OpenAlone, Becomes, TypeOK
    <2> QED
        BY <1>2, <2>1, <2>2
<1>9. ASSUME NEW c \in Launches, EndForwarded(c) PROVE WaitInv'
    <2>1. Keeps(c)
        BY <1>9, HangEffect DEF EndForwarded, Connected, Hung
    <2>2. /\ pc'[c] \notin {"sent", "commit"} /\ UNCHANGED age
          /\ \A d \in Launches \ {c} : pc'[d] = pc[d]
        BY <1>9 DEF EndForwarded, Becomes, TypeOK
    <2> QED
        BY <1>2, <2>1, <2>2
<1>10. ASSUME NEW c \in Launches, Accept(c) PROVE WaitInv'
    <2>1. UNCHANGED <<pc, age>> /\ age[c] \in Nat
        BY <1>10, Numbers DEF Accept, TypeOK
    <2>2. pc[c] \in {"sent", "commit"} /\ chan[c].owner \notin abrupt =>
              pc[c] = "sent" /\ ~ chan[c].reply /\ chan[c].client = "open"
        BY <1>10, AcceptEffect DEF WaitInv
    <2>3. 0 <= age[c] /\ 0 <= Timeout + CommitWindow
        BY <2>1, Numbers
    <2> QED
        BY <1>3, <1>10, <2>1, <2>2, <2>3, AcceptEffect
<1>11. ASSUME NEW c \in Launches, ReadRequest(c) PROVE WaitInv'
    <2>1. UNCHANGED <<pc, age>>
        BY <1>11 DEF ReadRequest
    <2>2. /\ Keeps(c) /\ chan[c].server = "reading"
          /\ chan'[c].client = chan[c].client /\ chan'[c].handled = chan[c].handled
          /\ chan'[c].server \in {"prepared", "closed"}
        BY <1>11, ReadRequestEffect
    <2> QED
        BY <1>3, <2>1, <2>2 DEF WaitInv
<1>12. ASSUME NEW c \in Launches, ReadCommit(c) PROVE WaitInv'
    <2>1. UNCHANGED <<pc, age>> /\ Keeps(c) /\ Unread(c)
        BY <1>12, ReadCommitEffect, ChannelFacts DEF ReadCommit, Keeps, Unread
    <2>2. pc[c] \notin {"sent", "commit"}
        BY <2>1 DEF OnceInv
    <2> QED
        BY <1>2, <2>1, <2>2
<1>13. ASSUME NEW c \in Launches, GiveUp(c) PROVE WaitInv'
    <2>1. UNCHANGED <<pc, age>> /\ Keeps(c) /\ chan[c].server = "prepared"
        BY <1>13, GiveUpEffect DEF GiveUp
    <2>2. chan[c].owner \in abrupt \/ pc[chan[c].owner] # "stopping"
        BY <2>1, PreparedKeepsOwner
    <2>3. chan[c].owner \in abrupt \/ chan[c].handled >= ServerTimeout \/ chan[c].client = "closed"
        BY <1>13, <2>2 DEF GiveUp, NoMoreData
    <2>4. chan[c].handled \in Nat
        BY <2>1, Numbers DEF Keeps, Channel
    <2>5. pc[c] \notin {"sent", "commit"} \/ chan[c].owner \in abrupt
        BY <2>1, <2>3, <2>4, Numbers DEF WaitInv
    <2> QED
        BY <1>2, <2>1, <2>5
<1>14. ASSUME NEW c \in Launches, EndWorker(c) PROVE WaitInv'
    <2>1. UNCHANGED <<pc, age>> /\ Keeps(c) /\ chan[c].server = "closing"
        BY <1>14, EndWorkerEffect DEF EndWorker
    <2>2. pc[c] \notin {"sent", "commit"} \/ chan[c].owner \in abrupt
        BY <2>1 DEF WaitInv
    <2> QED
        BY <1>2, <2>1, <2>2
<1>15. ASSUME NEW p \in Launches, Drain(p) \/ Reject(p) PROVE WaitInv'
    BY <1>1, <1>15 DEF Drain, Reject
<1>16. ASSUME NEW p \in Launches, LeavingStep(p) PROVE WaitInv'
    BY <1>1, <1>16 DEF TypeOK, LeavingStep, BeginExit, EndQuiesce, ExitAtOnce, StopServer, RemoveSocket, Becomes, ownerVars
<1>17. ASSUME NEW p \in Launches, Exit(p) \/ Crash(p) PROVE WaitInv'
    <2>1. chan' = Closed(p) /\ UNCHANGED age /\ (Becomes(p, "exited") \/ Becomes(p, "crashed"))
        BY <1>17 DEF Exit, Crash
    <2>2. \A d \in Launches : pc'[d] \in {"sent", "commit"} => pc'[d] = pc[d]
        BY <2>1 DEF Becomes, TypeOK
    <2>3. ASSUME NEW d \in Launches, chan[d] # NoChannel, chan[d].owner = p
          PROVE  /\ chan'[d].server = "closed" /\ chan'[d].client = chan[d].client
                 /\ chan'[d].owner = chan[d].owner
        BY <2>1, <2>3, ClosedEffect, ChannelFacts
    <2>4. ASSUME NEW d \in Launches, ~ (chan[d] # NoChannel /\ chan[d].owner = p)
          PROVE  chan'[d] = chan[d]
        BY <2>1, <2>4, ClosedFacts
    <2> QED
        BY <2>1, <2>2, <2>3, <2>4 DEF WaitInv
<1>18. ASSUME Tick PROVE WaitInv'
    <2>1. UNCHANGED pc /\ \A d \in Launches : ~ Overdue(d)
        BY <1>18 DEF Tick
    <2>0. \A d \in Launches : pc[d] \in {"sent", "commit"} => chan'[d].owner = chan[d].owner
        BY <1>18, TickEffect DEF Connected
    <2>2. SUFFICES ASSUME NEW d \in Launches, pc[d] \in {"sent", "commit"}, chan[d].owner \notin abrupt
                   PROVE  /\ chan'[d].client = "open"
                          /\ chan'[d].server \in {"backlog", "reading", "prepared", "closed"}
                          /\ pc[d] = "commit" \/ chan'[d].reply => chan'[d].server \in {"prepared", "closed"}
                          /\ chan'[d].server \in {"reading", "prepared"} =>
                                chan'[d].handled <= age'[d] /\ chan'[d].handled <= Timeout + CommitWindow
        BY <2>0, <2>1 DEF WaitInv
    <2>3. age[d] \in Nat /\ age[d] < Timeout + CommitWindow
        BY <2>1, <2>2, Numbers, ConstantsAssumption DEF Overdue, TypeOK
    <2>4. age'[d] = age[d] + 1
        BY <1>18, <2>2, <2>3, Numbers DEF Tick
    <2>5. CASE chan[d].server \in {"reading", "prepared"}
        <3>1. chan[d] \in Channel /\ chan[d].handled \in Nat
            BY <2>5, ChannelFacts, Numbers DEF Channel
        <3>2. chan[d].handled <= age[d] /\ chan[d].handled < LongAgo
            BY <2>2, <2>3, <2>5, <3>1, Numbers DEF WaitInv
        <3>3. /\ chan'[d].handled = chan[d].handled + 1
              /\ chan'[d].server = chan[d].server /\ chan'[d].client = chan[d].client
              /\ chan'[d].reply = chan[d].reply
            BY <1>18, <2>5, <3>2, TickEffect
        <3>4. chan'[d].handled <= age'[d] /\ chan'[d].handled <= Timeout + CommitWindow
            BY <2>3, <2>4, <3>1, <3>2, <3>3, Numbers
        <3> QED
            BY <2>2, <3>3, <3>4 DEF WaitInv
    <2>6. CASE chan[d].server \notin {"reading", "prepared"}
        <3>1. chan'[d] = chan[d]
            BY <1>18, <2>6, TickEffect
        <3> QED
            BY <2>2, <2>6, <3>1 DEF WaitInv
    <2> QED
        BY <2>5, <2>6
<1>19. CASE UNCHANGED vars
    BY <1>1, <1>19 DEF vars, ownerVars
<1> QED
    BY <1>4, <1>5, <1>6, <1>7, <1>8, <1>9, <1>10, <1>11, <1>12, <1>13, <1>14, <1>15, <1>16, <1>17,
       <1>18, <1>19 DEF Next, ClientStep, WorkerStep, OwnerStep, LeavingStep

(* What may lose a commit.                                                   *)
Excused(d) == d \in rejected \/ chan[d].owner \in abrupt \/ pc[chan[d].owner] = "crashed"

(* A launch that committed stays accounted for.                              *)
LEMMA CommitKept ==
    ASSUME CommitIsRead,
           rejected \subseteq rejected', abrupt \subseteq abrupt',
           \A d \in Launches : pc'[d] \in {"committed", "forwarded"} =>
              /\ pc[d] \in {"committed", "forwarded"}
              /\ chan'[d].owner = chan[d].owner
              /\ Actors(d) # {} => Actors(d)' # {} \/ Excused(d)'
              /\ chan[d].server = "prepared" /\ chan[d].unread = "commit" =>
                    \/ Actors(d)' # {}
                    \/ chan'[d].server = "prepared" /\ chan'[d].unread = "commit"
                    \/ Excused(d)'
              /\ pc[chan[d].owner] = "crashed" => pc'[chan[d].owner] = "crashed"
    PROVE  CommitIsRead'
    BY DEF CommitIsRead, Actors, Excused

(* CommitIsRead holds initially.                                           *)
LEMMA InitCommit == Init => CommitIsRead
    BY DEF Init, CommitIsRead

(* A commit is sent only to a worker that has prepared it, which reads it    *)
(* before it gives up; what was read is opened, or is in a queue that only a *)
(* crash throws away.                                                        *)
LEMMA NextCommit ==
    TypeOK /\ Connected /\ Unconnected /\ SlotsInv /\ LeavingInv /\ HoldsOwn /\ WaitInv /\ CommitIsRead
       /\ [Next]_vars => CommitIsRead'
<1> SUFFICES ASSUME TypeOK, Connected, Unconnected, SlotsInv, LeavingInv, HoldsOwn, WaitInv, CommitIsRead,
                    [Next]_vars
             PROVE  CommitIsRead'
    OBVIOUS
<1>0. rejected \subseteq rejected' /\ abrupt \subseteq abrupt'
    BY LossesGrow
<1> USE <1>0
<1>1. ASSUME UNCHANGED <<opened, queue>> PROVE \A d \in Launches : Actors(d)' = Actors(d)
    BY <1>1 DEF Actors, Holding
(* The process p goes on, it does not commit and no connection changes.      *)
<1>2. ASSUME NEW p \in Launches, NEW s, Becomes(p, s), s \notin {"committed", "forwarded"},
             pc[p] # "crashed", UNCHANGED <<chan, queue>>,
             \A d \in Launches : opened[d] \subseteq opened'[d]
      PROVE  CommitIsRead'
    <2>1. \A d \in Launches : Actors(d) \subseteq Actors(d)'
        BY <1>2 DEF Actors, Holding
    <2>2. \A d \in Launches : pc'[d] \in {"committed", "forwarded"} => pc[d] \in {"committed", "forwarded"}
        BY <1>2 DEF Becomes, TypeOK
    <2>3. \A d : pc[d] = "crashed" => pc'[d] = "crashed"
        BY <1>2 DEF Becomes, TypeOK
    <2> QED
        BY <1>2, <2>1, <2>2, <2>3, CommitKept
(* The connection of c changes, and its commit is not lost by it.            *)
<1>3. ASSUME NEW c \in Launches, Keeps(c), UNCHANGED <<pc, opened, queue>>,
             chan[c].server = "prepared" /\ chan[c].unread = "commit" =>
                \/ chan'[c].server = "prepared" /\ chan'[c].unread = "commit"
                \/ chan[c].owner \in abrupt
      PROVE  CommitIsRead'
    BY <1>1, <1>3, CommitKept DEF Keeps, Only, Excused
<1>4. ASSUME NEW p \in Launches, Launch(p) \/ TryLock(p) \/ Probe(p) PROVE CommitIsRead'
    <2>1. PICK s : Becomes(p, s) /\ s \notin {"committed", "forwarded"}
        BY <1>4 DEF Launch, TryLock, Probe
    <2> QED
        BY <1>2, <1>4, <2>1 DEF Launch, TryLock, Probe, ownerVars
<1>5. ASSUME NEW p \in Launches, DeclineOwnership(p) \/ RemoveStaleSocket(p) \/ Bind(p) PROVE CommitIsRead'
    <2>1. PICK s : Becomes(p, s) /\ s \notin {"committed", "forwarded"}
        BY <1>5 DEF DeclineOwnership, RemoveStaleSocket, Bind, OpenAlone
    <2>2. \A d \in Launches : opened[d] \subseteq opened'[d]
        BY <1>5 DEF DeclineOwnership, RemoveStaleSocket, Bind, OpenAlone, TypeOK
    <2> QED
        BY <1>2, <1>5, <2>1, <2>2 DEF DeclineOwnership, RemoveStaleSocket, Bind, ownerVars
(* A launch that is on its way has no commit to lose.                        *)
<1>6. ASSUME NEW c \in Launches, Only(c), pc[c] \in {"connect", "sent", "commit"},
             pc'[c] \notin {"committed", "forwarded"},
             \A d \in Launches \ {c} : pc'[d] = pc[d],
             \A d \in Launches : opened[d] \subseteq opened'[d], UNCHANGED queue
      PROVE  CommitIsRead'
    <2>1. \A d \in Launches : Actors(d) \subseteq Actors(d)'
        BY <1>6 DEF Actors, Holding
    <2>2. ASSUME NEW d \in Launches, pc'[d] \in {"committed", "forwarded"}
          PROVE  d # c /\ pc'[d] = pc[d] /\ chan'[d] = chan[d]
        BY <1>6, <2>2 DEF Only
    <2>3. \A d \in Launches : pc[d] = "crashed" => pc'[d] = "crashed"
        BY <1>6
    <2>4. \A d \in Launches : pc[d] \in {"committed", "forwarded"} => chan[d].owner \in Launches
        BY DEF Connected, Channel
    <2> QED
        BY <2>1, <2>2, <2>3, <2>4 DEF CommitIsRead, Actors
<1>7. ASSUME NEW c \in Launches, Connect(c) PROVE CommitIsRead'
    <2>1. pc[c] = "connect" /\ UNCHANGED queue
        BY <1>7 DEF Connect, ownerVars
    <2>2. CASE Only(c) /\ Becomes(c, "sent") /\ UNCHANGED opened
        <3>1. pc'[c] = "sent" /\ \A d \in Launches \ {c} : pc'[d] = pc[d]
            BY <2>2 DEF Becomes, TypeOK
        <3> QED
            BY <1>6, <2>1, <2>2, <3>1
    <2>3. CASE UNCHANGED chan /\ OpenAlone(c)
        <3>1. \A d \in Launches : opened[d] \subseteq opened'[d]
            BY <2>3 DEF OpenAlone, TypeOK
        <3> QED
            BY <1>2, <2>1, <2>3, <3>1 DEF OpenAlone
    <2> QED
        BY <1>7, <2>2, <2>3, ConnectEffect
<1>8. ASSUME NEW c \in Launches, pc[c] \in {"sent", "commit"}, OpenAlone(c), Only(c), UNCHANGED queue
      PROVE  CommitIsRead'
    <2>1. \A d \in Launches : opened[d] \subseteq opened'[d]
        BY <1>8 DEF OpenAlone, TypeOK
    <2>2. pc'[c] = "independent" /\ \A d \in Launches \ {c} : pc'[d] = pc[d]
        BY <1>8 DEF OpenAlone, Becomes, TypeOK
    <2> QED
        BY <1>6, <1>8, <2>1, <2>2
<1>9. ASSUME NEW c \in Launches, AwaitPrepared(c) PROVE CommitIsRead'
    <2>1. pc[c] = "sent" /\ chan[c] \in Channel /\ UNCHANGED queue
        BY <1>9 DEF AwaitPrepared, ownerVars, Connected
    <2>2. CASE Becomes(c, "commit") /\ UNCHANGED <<opened, chan>>
        BY <1>2, <2>1, <2>2
    <2>3. CASE OpenAlone(c) /\ Hang(c)
        BY <1>8, <2>1, <2>3, HangEffect DEF Hung, Keeps
    <2> QED
        BY <1>9, <2>2, <2>3 DEF AwaitPrepared
<1>10. ASSUME NEW c \in Launches, Commit(c) PROVE CommitIsRead'
    <2>1. pc[c] = "commit" /\ UNCHANGED queue
        BY <1>10 DEF Commit, ownerVars
    <2>2. CASE OpenAlone(c) /\ Hung(c)
        BY <1>8, <2>1, <2>2 DEF Hung, Keeps
    <2>3. CASE /\ chan[c].server # "closed" /\ Keeps(c) /\ chan'[c].unread = "commit"
               /\ chan'[c].server = chan[c].server /\ Becomes(c, "committed") /\ UNCHANGED opened
        <3>1. \/ chan'[c].server = "prepared" /\ chan'[c].unread = "commit"
              \/ chan'[c].owner \in abrupt
            BY <2>1, <2>3 DEF WaitInv, Keeps
        <3>2. \A d \in Launches \ {c} : pc'[d] = pc[d] /\ chan'[d] = chan[d]
            BY <2>3 DEF Keeps, Only, Becomes, TypeOK
        <3>3. \A d : pc[d] = "crashed" => pc'[d] = "crashed"
            BY <2>1, <2>3 DEF Becomes, TypeOK
        <3>4. \A d \in Launches : Actors(d)' = Actors(d)
            BY <1>1, <2>1, <2>3
        <3> QED
            BY <3>1, <3>2, <3>3, <3>4 DEF CommitIsRead, Actors
    <2> QED
        BY <1>10, <2>2, <2>3, CommitEffect
<1>11. ASSUME NEW c \in Launches, EndForwarded(c) PROVE CommitIsRead'
    <2>1. /\ pc[c] = "committed" /\ Hung(c) /\ UNCHANGED <<opened, queue>> /\ Becomes(c, "forwarded")
        BY <1>11, HangEffect DEF EndForwarded, Connected, ownerVars
    <2>2. \A d \in Launches : pc'[d] \in {"committed", "forwarded"} => pc[d] \in {"committed", "forwarded"}
        BY <2>1 DEF Becomes, TypeOK
    <2>3. \A d : pc[d] = "crashed" => pc'[d] = "crashed"
        BY <2>1 DEF Becomes, TypeOK
    <2>4. \A d \in Launches : Actors(d)' = Actors(d)
        BY <1>1, <2>1
    <2>5. \A d \in Launches : /\ chan'[d].server = chan[d].server /\ chan'[d].unread = chan[d].unread
                              /\ chan'[d].owner = chan[d].owner
        BY <2>1 DEF Hung, Keeps, Only
    <2> QED
        BY <2>2, <2>3, <2>4, <2>5, CommitKept
<1>12. ASSUME NEW c \in Launches, Accept(c) \/ ReadRequest(c) \/ GiveUp(c) \/ EndWorker(c) PROVE CommitIsRead'
    <2>1. UNCHANGED <<pc, opened, queue>>
        BY <1>12 DEF Accept, ReadRequest, GiveUp, EndWorker, ownerVars
    <2>2. /\ Keeps(c)
          /\ chan[c].server = "prepared" /\ chan[c].unread = "commit" => pc[chan[c].owner] = "stopping"
        BY <1>12, AcceptEffect, ReadRequestEffect, GiveUpEffect, EndWorkerEffect
    <2>3. chan[c].server = "prepared" /\ chan[c].unread = "commit" => chan[c].owner \in abrupt
        BY <2>2, PreparedKeepsOwner
    <2> QED
        BY <1>3, <2>1, <2>2, <2>3
<1>13. ASSUME NEW c \in Launches, ReadCommit(c) PROVE CommitIsRead'
    <2>1. PICK p \in Launches : p = chan[c].owner
        BY <1>13, ReadCommitEffect DEF Keeps, Channel
    <2>2. UNCHANGED <<pc, opened>> /\ queue' = [queue EXCEPT ![p] = Append(queue[p], c)]
        BY <1>13, <2>1 DEF ReadCommit, TypeOK
    <2>3. /\ Range(queue'[p]) = Range(queue[p]) \cup {c}
          /\ \A x \in Launches \ {p} : queue'[x] = queue[x]
        BY <2>2, AppendRange DEF TypeOK
    <2>4. p \in Actors(c)' /\ \A d \in Launches : Actors(d) \subseteq Actors(d)'
        BY <2>2, <2>3 DEF Actors, Holding
    <2>5. Keeps(c)
        BY <1>13, ReadCommitEffect
    <2>6. \A d \in Launches \ {c} : chan'[d] = chan[d]
        BY <2>5 DEF Keeps, Only
    <2>7. chan'[c].owner = chan[c].owner
        BY <2>5 DEF Keeps
    <2> QED
        BY <2>2, <2>4, <2>6, <2>7, CommitKept
<1>14. ASSUME NEW p \in Launches, Drain(p) \/ Reject(p) PROVE CommitIsRead'
    <2>1. UNCHANGED <<pc, chan>>
        BY <1>14 DEF Drain, Reject
    <2>2. \A d \in Launches : Actors(d) # {} => Actors(d)' # {} \/ Excused(d)'
        BY <1>14, DrainActors DEF Actors, Holding, Excused
    <2> QED
        BY <2>1, <2>2, CommitKept
<1>15. ASSUME NEW p \in Launches, LeavingStep(p) PROVE CommitIsRead'
    <2>1. PICK s : Becomes(p, s) /\ s \notin {"committed", "forwarded"}
        BY <1>15 DEF LeavingStep, BeginExit, EndQuiesce, ExitAtOnce, StopServer, RemoveSocket
    <2>2. pc[p] # "crashed" /\ UNCHANGED <<chan, queue, opened>>
        BY <1>15 DEF LeavingStep, BeginExit, EndQuiesce, ExitAtOnce, StopServer, RemoveSocket, ownerVars
    <2> QED
        BY <1>2, <2>1, <2>2
(* An owner that exits has an empty queue and nothing prepared, or it exits  *)
(* at once; what a crash loses was the crashed owner's.                      *)
<1>16. ASSUME NEW p \in Launches, Exit(p) \/ Crash(p) PROVE CommitIsRead'
    <2>1. /\ chan' = Closed(p) /\ UNCHANGED opened
          /\ queue' = [queue EXCEPT ![p] = <<>>]
          /\ pc[p] \notin {"committed", "forwarded", "crashed"}
          /\ Becomes(p, "crashed") \/ (Becomes(p, "exited") /\ pc[p] = "unlocking")
        BY <1>16 DEF Exit, Crash
    <2>2. /\ pc'[p] = "crashed" \/ (pc'[p] = "exited" /\ pc[p] = "unlocking")
          /\ \A d \in Launches \ {p} : pc'[d] = pc[d]
        BY <2>1 DEF Becomes, TypeOK
    <2>3. SUFFICES ASSUME NEW d \in Launches, pc'[d] \in {"committed", "forwarded"}
                   PROVE  \/ Actors(d)' # {}
                          \/ chan'[d].server = "prepared" /\ chan'[d].unread = "commit"
                          \/ Excused(d)'
        BY DEF CommitIsRead, Actors, Excused
    <2>4. /\ pc[d] \in {"committed", "forwarded"} /\ chan[d] \in Channel
          /\ chan[d].owner \in Launches
        BY <2>1, <2>2, <2>3 DEF Connected, Channel
    <2>5. \/ Actors(d) # {}
          \/ chan[d].server = "prepared" /\ chan[d].unread = "commit"
          \/ Excused(d)
        BY <2>4 DEF CommitIsRead, Actors, Excused
    <2>6. CASE chan[d].owner = p
        <3>1. chan'[d].owner = p
            BY <2>1, <2>4, <2>6, ClosedEffect
        <3>2. CASE pc'[p] = "crashed" \/ p \in abrupt
            BY <3>1, <3>2 DEF Excused
        <3>3. CASE pc[p] = "unlocking" /\ p \notin abrupt
            <4>1. queue' = queue
                BY <2>1, <3>3 DEF LeavingInv, TypeOK
            <4>2. Actors(d)' = Actors(d)
                BY <1>1, <2>1, <4>1
            <4>3. chan[d].server # "prepared"
                BY <2>6, <3>3, PreparedKeepsOwner
            <4> QED
                BY <2>5, <2>6, <3>3, <4>2, <4>3 DEF Excused
        <3> QED
            BY <2>2, <3>2, <3>3
    <2>7. CASE chan[d].owner # p
        <3>1. chan'[d] = chan[d]
            BY <2>1, <2>7, ClosedFacts
        <3>2. \A x \in Launches : queue'[x] = queue[x] \/ x = p
            BY <2>1 DEF TypeOK
        <3>3. p \notin Holding(d)
            BY <2>7 DEF HoldsOwn
        <3>4. Holding(d) \subseteq Holding(d)'
            BY <3>2, <3>3 DEF Holding
        <3>5. Actors(d) \subseteq Actors(d)'
            BY <2>1, <3>4 DEF Actors
        <3>6. pc'[chan'[d].owner] = pc[chan[d].owner]
            BY <2>2, <2>4, <2>7, <3>1
        <3> QED
            BY <2>5, <3>1, <3>5, <3>6 DEF Excused
    <2> QED
        BY <2>6, <2>7
<1>17. ASSUME Tick PROVE CommitIsRead'
    <2>1. UNCHANGED <<pc, opened, queue>>
        BY <1>17 DEF Tick, ownerVars
    <2>2. \A d \in Launches : /\ chan'[d].server = chan[d].server /\ chan'[d].unread = chan[d].unread
                              /\ chan[d] \in Channel => chan'[d].owner = chan[d].owner
        BY <1>17, TickEffect
    <2>3. \A d \in Launches : pc[d] \in {"committed", "forwarded"} => chan[d] \in Channel
        BY DEF Connected
    <2> QED
        BY <1>1, <2>1, <2>2, <2>3 DEF CommitIsRead, Actors
<1>18. CASE UNCHANGED vars
    BY <1>1, <1>18 DEF vars, ownerVars, CommitIsRead, Actors
<1> QED
    BY <1>4, <1>5, <1>7, <1>9, <1>10, <1>11, <1>12, <1>13, <1>14, <1>15, <1>16, <1>17, <1>18
       DEF Next, ClientStep, WorkerStep, OwnerStep, LeavingStep

-----------------------------------------------------------------------------
(* The inductive invariant: what holds whatever the launches' pace is.       *)
IInv ==
    /\ TypeOK /\ Connected /\ Unconnected /\ OwnerInv /\ SlotsInv /\ IdleInv
    /\ LeavingInv /\ OnceInv /\ HoldsOwn

(* The parts of IInv hold in every reachable state, with no assumption on  *)
(* how promptly the launches run (ipc.rs, instance.rs).                    *)
THEOREM Inductive == Spec => []IInv
<1>1. Init => IInv
    BY InitType, InitUnconnected, InitOwner, InitSlots, InitIdle, InitLeaving, InitOnce, InitHolds DEF IInv
<1>2. IInv /\ [Next]_vars => IInv'
    BY NextType, NextUnconnected, NextOwner, NextSlots, NextIdle, NextLeaving, NextOnce, NextHolds
       DEF IInv
<1> QED
    BY <1>1, <1>2, PTL DEF Spec

(* The state has its type: a slot is given back only while it is reserved,   *)
(* and an owner's queue with its slots never outgrows QUEUE.                  *)
THEOREM TypeCorrect == Spec => []TypeOK
<1>1. IInv => TypeOK
    BY DEF IInv
<1> QED
    BY <1>1, Inductive, PTL

(* One process serves at a time, with the lock and with the socket that      *)
(* launches connect to: coordinate_in and Drop order lock and socket so.     *)
THEOREM ServesAlone == Spec => []OneOwner
<1>1. IInv => OneOwner
    BY DEF IInv, OwnerInv, OneOwner, Locking
<1> QED
    BY <1>1, Inductive, PTL

(* The files of a launch are acted on by one process, whatever crashes,      *)
(* exits and deadlines come between request, PREPARED and COMMIT.            *)
THEOREM NeverTwice == Spec => []ActedOnOnce
<1>1. IInv => ActedOnOnce
    <2> SUFFICES ASSUME IInv, NEW c \in Launches PROVE Cardinality(Actors(c)) <= 1
        BY DEF ActedOnOnce, Actors
    <2>1. \A x, y \in Actors(c) : x = y
        BY DEF IInv, OnceInv
    <2>2. CASE Actors(c) = {}
        BY <2>2, FS_EmptySet
    <2>3. CASE Actors(c) # {}
        <3>1. PICK x : Actors(c) = {x}
            BY <2>1, <2>3
        <3> QED
            BY <3>1, FS_Singleton
    <2> QED
        BY <2>2, <2>3
<1> QED
    BY <1>1, Inductive, PTL

(* As long as a prepared launch runs before its deadline passes, its commit  *)
(* is read and its files are opened: the owner's window is the longer one    *)
(* (receive's deadline), and an owner that is asked to leave is settled      *)
(* first.  CommitIsRead names what still loses it: a crash, an exit at once  *)
(* (session end, failed shell) and a request the owner turns down.           *)
THEOREM CommitNotLost == PromptClients => (Spec => []CommitIsRead)
<1> SUFFICES ASSUME PromptClients PROVE Spec => []CommitIsRead
    OBVIOUS
<1>1. Init => WaitInv /\ CommitIsRead
    BY InitWait, InitCommit
<1>2. IInv /\ (WaitInv /\ CommitIsRead) /\ [Next]_vars => (WaitInv /\ CommitIsRead)'
    BY NextWait, NextCommit DEF IInv
<1> QED
    BY <1>1, <1>2, Inductive, PTL DEF Spec
=============================================================================

---------------------------- MODULE IoLanesProofs ----------------------------
EXTENDS IoLanes, SequenceTheorems, NaturalsInduction,
        WellFoundedInduction, TLAPS

(* RemoveAt closes the gap: the entries before i stay, the others move up.   *)
LEMMA RemoveAtFacts ==
    ASSUME NEW S, NEW q \in Seq(S), NEW i \in DOMAIN q
    PROVE  /\ RemoveAt(q, i) \in Seq(S)
           /\ Len(RemoveAt(q, i)) = Len(q) - 1
           /\ \A j \in DOMAIN RemoveAt(q, i) :
                 RemoveAt(q, i)[j] = IF j < i THEN q[j] ELSE q[j + 1]
<1>1. i \in 1 .. Len(q)
    OBVIOUS
<1>2. /\ SubSeq(q, 1, i - 1) \in Seq(S)
      /\ SubSeq(q, i + 1, Len(q)) \in Seq(S)
      /\ Len(SubSeq(q, 1, i - 1)) = i - 1
      /\ Len(SubSeq(q, i + 1, Len(q))) = Len(q) - i
      /\ \A j \in 1 .. (i - 1) : SubSeq(q, 1, i - 1)[j] = q[j]
      /\ \A j \in 1 .. (Len(q) - i) : SubSeq(q, i + 1, Len(q))[j] = q[j + i]
    BY <1>1
<1> DEFINE a == SubSeq(q, 1, i - 1)
           b == SubSeq(q, i + 1, Len(q))
<1>3. /\ a \in Seq(S) /\ b \in Seq(S)
      /\ Len(a) = i - 1 /\ Len(b) = Len(q) - i
      /\ \A j \in 1 .. (i - 1) : a[j] = q[j]
      /\ \A j \in 1 .. (Len(q) - i) : b[j] = q[j + i]
    BY <1>2
<1>4. RemoveAt(q, i) = a \o b
    BY DEF RemoveAt
<1> HIDE DEF a, b
<1>5. /\ a \o b \in Seq(S)
      /\ Len(a \o b) = Len(q) - 1
    BY <1>1, <1>3
<1>6. ASSUME NEW j \in 1 .. (Len(q) - 1)
      PROVE  (a \o b)[j] = IF j < i THEN q[j] ELSE q[j + 1]
    <2>1. (a \o b)[j] = IF j <= Len(a) THEN a[j] ELSE b[j - Len(a)]
        BY <1>1, <1>3, <1>5, ConcatProperties
    <2>2. CASE j < i
        BY <1>1, <1>3, <2>1, <2>2
    <2>3. CASE ~ (j < i)
        <3>1. j - Len(a) \in 1 .. (Len(q) - i)
            BY <1>1, <1>3, <2>3
        <3>2. (j - Len(a)) + i = j + 1
            BY <1>1, <1>3
        <3>3. b[j - Len(a)] = q[(j - Len(a)) + i]
            BY <1>3, <3>1
        <3>4. ~ (j <= Len(a))
            BY <1>1, <1>3, <2>3
        <3> QED
            BY <2>1, <2>3, <3>2, <3>3, <3>4
    <2> QED
        BY <2>2, <2>3
<1>7. DOMAIN (a \o b) = 1 .. (Len(q) - 1)
    BY <1>5
<1> QED
    BY <1>4, <1>5, <1>6, <1>7

-----------------------------------------------------------------------------
(* Appending to a queue keeps its entries and puts the new one last.         *)
LEMMA AppendFacts ==
    ASSUME NEW S, NEW q \in Seq(S), NEW e \in S
    PROVE  /\ Append(q, e) \in Seq(S)
           /\ DOMAIN Append(q, e) = 1 .. (Len(q) + 1)
           /\ Len(Append(q, e)) = Len(q) + 1
           /\ \A j \in 1 .. Len(q) : Append(q, e)[j] = q[j]
           /\ Append(q, e)[Len(q) + 1] = e
    BY AppendProperties

(* The initial state of the service is well typed.                           *)
LEMMA InitType == Init => TypeOK
<1> SUFFICES ASSUME Init PROVE TypeOK
    OBVIOUS
<1> USE DEF Init
<1>1. queues \in [Lanes -> Seq(Sequence)]
    OBVIOUS
<1>2. request \in [Sequence -> [lane : Lanes, keys : SUBSET OrderingKeys]]
    BY DEF Lanes
<1>3. /\ next_sequence \in 0 .. MaxRequests
      /\ slices \in [Sequence -> 0 .. MaxSlices]
    BY ConstantsAssumption
<1>4. /\ pc \in [Threads -> WorkerStates]
      /\ \A t \in Threads : pc[t] # "run"
    BY DEF WorkerStates
<1> QED
    BY <1>1, <1>2, <1>3, <1>4 DEF TypeOK

(* Every step of a caller or a worker keeps the state well typed.            *)
LEMMA NextType == TypeOK /\ [Next]_vars => TypeOK'
<1> SUFFICES ASSUME TypeOK, [Next]_vars PROVE TypeOK'
    OBVIOUS
<1> USE DEF TypeOK
<1>1. ASSUME NEW c \in Callers, NEW r \in Requests, Submit(c, r)
      PROVE  TypeOK'
    <2>1. /\ r \in [lane : Lanes, keys : SUBSET OrderingKeys]
          /\ next_sequence \in Sequence
          /\ next_sequence' \in 0 .. MaxRequests
        BY <1>1, ConstantsAssumption DEF Submit, Sequence
    <2>2. queues' \in [Lanes -> Seq(Sequence)]
        BY <1>1, <2>1, AppendFacts DEF Submit
    <2>3. /\ started' \in [Lanes -> BOOLEAN]
          /\ unwound' \in [Lanes -> BOOLEAN]
          /\ pc' \in [Threads -> WorkerStates]
        BY <1>1, <2>1 DEF Submit, Start, WorkerStates
    <2>4. \A t \in Threads : pc'[t] = "run" => job'[t] \in Sequence
        BY <1>1 DEF Submit, Start
    <2>5. request' \in [Sequence -> [lane : Lanes, keys : SUBSET OrderingKeys]]
        BY <1>1, <2>1 DEF Submit
    <2> QED
        BY <1>1, <2>1, <2>2, <2>3, <2>4, <2>5 DEF Submit
<1>2. ASSUME NEW c \in Callers, CallerNotify(c) PROVE TypeOK'
    BY <1>2 DEF CallerNotify, Woken, WorkerStates
<1>3. ASSUME NEW c \in Callers, Close(c) PROVE TypeOK'
    BY <1>3 DEF Close
<1>4. ASSUME NEW t \in Threads, Take(t) PROVE TypeOK'
    <2>1. LaneOf(t) \in Lanes
        BY DEF Threads, LaneOf
    <2>2. PICK i \in DOMAIN queues[LaneOf(t)] :
             /\ job' = [job EXCEPT ![t] = queues[LaneOf(t)][i]]
             /\ begun' = begun \cup {queues[LaneOf(t)][i]}
             /\ queues' = [queues EXCEPT ![LaneOf(t)] = RemoveAt(@, i)]
        BY <1>4 DEF Take
    <2>3. queues[LaneOf(t)] \in Seq(Sequence)
        BY <2>1
    <2>4. queues[LaneOf(t)][i] \in Sequence
        BY <2>2, <2>3
    <2>5. RemoveAt(queues[LaneOf(t)], i) \in Seq(Sequence)
        BY <2>2, <2>3, RemoveAtFacts
    <2>6. queues' \in [Lanes -> Seq(Sequence)]
        BY <2>1, <2>2, <2>5
    <2>7. pc' \in [Threads -> WorkerStates]
        BY <1>4 DEF Take, WorkerStates
    <2> QED
        BY <1>4, <2>2, <2>4, <2>6, <2>7 DEF Take
<1>5. ASSUME NEW t \in Threads, CloseExit(t) PROVE TypeOK'
    BY <1>5 DEF CloseExit, WorkerStates
<1>6. ASSUME NEW t \in Threads, IdleExit(t) PROVE TypeOK'
    BY <1>6 DEF IdleExit, WorkerStates
<1>7. ASSUME NEW t \in Threads, Wait(t) PROVE TypeOK'
    BY <1>7 DEF Wait, WorkerStates
<1>8. ASSUME NEW t \in Threads, WaitEnds(t) PROVE TypeOK'
    BY <1>8 DEF WaitEnds, WorkerStates
<1>9. ASSUME NEW t \in Threads, Yield(t) PROVE TypeOK'
    <2>0. job[t] \in Sequence
        BY <1>9 DEF Yield
    <2>1. queues' \in [Lanes -> Seq(Sequence)]
        BY <1>9, <2>0, AppendFacts DEF Yield, Lanes
    <2>2. slices' \in [Sequence -> 0 .. MaxSlices]
        BY <1>9, <2>0, ConstantsAssumption DEF Yield
    <2> QED
        BY <1>9, <2>1, <2>2 DEF Yield, WorkerStates
<1>10. ASSUME NEW t \in Threads, Finish(t) PROVE TypeOK'
    BY <1>10 DEF Finish, WorkerStates
<1>11. ASSUME NEW t \in Threads, WorkerNotify(t) PROVE TypeOK'
    BY <1>11 DEF WorkerNotify, Woken, WorkerStates
<1>12. ASSUME NEW t \in Threads, Panic(t) PROVE TypeOK'
    BY <1>12 DEF Panic, WorkerStates
<1>13. ASSUME NEW t \in Threads, DyingNotify(t) PROVE TypeOK'
    BY <1>13 DEF DyingNotify, Woken, WorkerStates
<1>14. CASE UNCHANGED vars
    BY <1>14 DEF vars
<1> QED
    BY <1>1, <1>2, <1>3, <1>4, <1>5, <1>6, <1>7, <1>8, <1>9, <1>10, <1>11,
       <1>12, <1>13, <1>14 DEF Next, Caller, Worker

-----------------------------------------------------------------------------
(* A thread's lane is a lane, and slots name threads.                        *)
LEMMA ThreadFacts ==
    /\ \A t \in Threads : LaneOf(t) \in Lanes
    /\ \A l \in Lanes, slot \in Slots :
          <<l, slot>> \in Threads /\ LaneOf(<<l, slot>>) = l
    BY DEF Threads, LaneOf

WorkerInv == OneWorkerPerLane /\ UnstartedMeansIdle /\ StartedMeansServed

(* At first only the bulk lane has a thread, and only it counts as started.  *)
LEMMA InitWorkers == Init => WorkerInv
<1> SUFFICES ASSUME Init PROVE WorkerInv
    OBVIOUS
<1>1. PICK slot \in Slots :
         pc = [t \in Threads |-> IF t = <<Bulk, slot>> THEN "loop" ELSE "off"]
    BY DEF Init
<1>2. \A t \in Threads : Live(t) => t = <<Bulk, slot>>
    BY <1>1 DEF Live
<1>3. /\ <<Bulk, slot>> \in Threads
      /\ LaneOf(<<Bulk, slot>>) = Bulk
      /\ Live(<<Bulk, slot>>)
    BY <1>1, ThreadFacts DEF Live, Lanes
<1>4. OneWorkerPerLane
    BY <1>2 DEF OneWorkerPerLane
<1>5. UnstartedMeansIdle
    BY <1>2, <1>3 DEF UnstartedMeansIdle, Init
<1>6. StartedMeansServed
    BY <1>3 DEF StartedMeansServed, Init
<1> QED
    BY <1>4, <1>5, <1>6 DEF WorkerInv

(* Starting, exiting idle, draining and unwinding keep at most one thread in *)
(* a lane, and `started` in step with it.                                    *)
LEMMA NextWorkers == TypeOK /\ WorkerInv /\ [Next]_vars => WorkerInv'
<1> SUFFICES ASSUME TypeOK, WorkerInv, [Next]_vars PROVE WorkerInv'
    OBVIOUS
<1> USE ThreadFacts
<1> USE DEF WorkerInv, OneWorkerPerLane, UnstartedMeansIdle, StartedMeansServed,
            Live, TypeOK
<1>1. ASSUME NEW c \in Callers, NEW r \in Requests, Submit(c, r)
      PROVE  WorkerInv'
    <2>1. r.lane \in Lanes
        BY ConstantsAssumption
    <2>2. CASE started[r.lane]
        <3>1. UNCHANGED <<started, unwound, pc, closed>>
            BY <1>1, <2>2 DEF Submit, Start
        <3>2. \A l \in Lanes : l # r.lane => queues'[l] = queues[l]
            BY <1>1 DEF Submit
        <3> QED
            BY <1>1, <2>1, <2>2, <3>1, <3>2 DEF Submit
    <2>3. CASE ~ started[r.lane]
        <3>1. PICK w \in Threads :
                 /\ LaneOf(w) = r.lane
                 /\ pc' = [pc EXCEPT ![w] = "loop"]
            <4>1. PICK slot \in Slots : pc' = [pc EXCEPT ![<<r.lane, slot>>] = "loop"]
                BY <1>1, <2>3 DEF Submit, Start
            <4> QED
                BY <2>1, <4>1
        <3>2. /\ started' = [started EXCEPT ![r.lane] = TRUE]
              /\ unwound' = [unwound EXCEPT ![r.lane] = FALSE]
            BY <1>1, <2>3 DEF Submit, Start
        <3>3. \A l \in Lanes : l # r.lane => queues'[l] = queues[l]
            BY <1>1 DEF Submit
        <3>4. \A t \in Threads : LaneOf(t) = r.lane => ~ Live(t)
            BY <2>1, <2>3
        <3>5. \A t \in Threads : Live(t)' <=> (Live(t) \/ t = w)
            BY <3>1
        <3>6. OneWorkerPerLane'
            BY <3>1, <3>4, <3>5
        <3>7. UnstartedMeansIdle'
            BY <2>1, <3>1, <3>2, <3>3, <3>5
        <3>8. StartedMeansServed'
            BY <1>1, <2>1, <3>1, <3>2, <3>3, <3>5 DEF Submit
        <3> QED
            BY <3>6, <3>7, <3>8
    <2> QED
        BY <2>2, <2>3
<1>2. ASSUME NEW c \in Callers, CallerNotify(c) PROVE WorkerInv'
    BY <1>2 DEF CallerNotify, Woken
<1>3. ASSUME NEW c \in Callers, Close(c) PROVE WorkerInv'
    BY <1>3 DEF Close
<1>4. ASSUME NEW t \in Threads, Take(t) PROVE WorkerInv'
    <2>1. \A u \in Threads : Live(u)' <=> Live(u)
        BY <1>4 DEF Take
    <2>2. \A l \in Lanes : l # LaneOf(t) => queues'[l] = queues[l]
        BY <1>4 DEF Take
    <2>3. UNCHANGED <<started, unwound, closed>>
        BY <1>4 DEF Take
    <2>4. started[LaneOf(t)] /\ Live(t)
        BY <1>4 DEF Take
    <2> QED
        BY <2>1, <2>2, <2>3, <2>4
<1>5. ASSUME NEW t \in Threads, CloseExit(t) PROVE WorkerInv'
    <2>1. \A u \in Threads : Live(u)' <=> (Live(u) /\ u # t)
        BY <1>5 DEF CloseExit
    <2>2. UNCHANGED <<started, unwound, closed, queues>>
        BY <1>5 DEF CloseExit
    <2>3. closed /\ queues[LaneOf(t)] = <<>>
        BY <1>5 DEF CloseExit
    <2> QED
        BY <2>1, <2>2, <2>3
<1>6. ASSUME NEW t \in Threads, IdleExit(t) PROVE WorkerInv'
    <2>1. \A u \in Threads : Live(u)' <=> (Live(u) /\ u # t)
        BY <1>6 DEF IdleExit
    <2>2. /\ UNCHANGED <<closed, queues, unwound>>
          /\ started' = [started EXCEPT ![Save] = FALSE]
          /\ LaneOf(t) = Save /\ queues[Save] = <<>> /\ Live(t)
        BY <1>6 DEF IdleExit
    <2>3. \A u \in Threads : LaneOf(u) = Save => ~ Live(u)'
        BY <2>1, <2>2
    <2> QED
        BY <2>1, <2>2, <2>3
<1>7. ASSUME NEW t \in Threads, Wait(t) PROVE WorkerInv'
    BY <1>7 DEF Wait
<1>8. ASSUME NEW t \in Threads, WaitEnds(t) PROVE WorkerInv'
    BY <1>8 DEF WaitEnds
<1>9. ASSUME NEW t \in Threads, Yield(t) PROVE WorkerInv'
    <2>1. \A u \in Threads : Live(u)' <=> Live(u)
        BY <1>9 DEF Yield
    <2>2. \A l \in Lanes : l # LaneOf(t) => queues'[l] = queues[l]
        BY <1>9 DEF Yield
    <2>3. UNCHANGED <<started, unwound, closed>>
        BY <1>9 DEF Yield
    <2>4. started[LaneOf(t)] /\ Live(t)
        BY <1>9 DEF Yield
    <2> QED
        BY <2>1, <2>2, <2>3, <2>4
<1>10. ASSUME NEW t \in Threads, Finish(t) PROVE WorkerInv'
    BY <1>10 DEF Finish
<1>11. ASSUME NEW t \in Threads, WorkerNotify(t) PROVE WorkerInv'
    BY <1>11 DEF WorkerNotify, Woken
<1>12. ASSUME NEW t \in Threads, Panic(t) PROVE WorkerInv'
    <2>1. \A u \in Threads : Live(u)' <=> (Live(u) /\ u # t)
        BY <1>12 DEF Panic
    <2>2. /\ UNCHANGED <<closed, queues>>
          /\ started' = [started EXCEPT ![LaneOf(t)] = FALSE]
          /\ unwound' = [unwound EXCEPT ![LaneOf(t)] = TRUE]
          /\ Live(t)
        BY <1>12 DEF Panic
    <2> QED
        BY <2>1, <2>2
<1>13. ASSUME NEW t \in Threads, DyingNotify(t) PROVE WorkerInv'
    BY ZenonT(60), <1>13 DEF DyingNotify, Woken
<1>14. CASE UNCHANGED vars
    BY <1>14 DEF vars
<1> QED
    BY <1>1, <1>2, <1>3, <1>4, <1>5, <1>6, <1>7, <1>8, <1>9, <1>10, <1>11,
       <1>12, <1>13, <1>14 DEF Next, Caller, Worker

-----------------------------------------------------------------------------
(* What an entry of a queue satisfies in EachRequestInOnePlace.              *)
QueuedOk(l) ==
    \A i \in DOMAIN queues[l] :
        /\ queues[l][i] \in unfinished
        /\ request[queues[l][i]].lane = l
        /\ \A j \in DOMAIN queues[l] : queues[l][i] = queues[l][j] => i = j

RunningOk(t) ==
    Running(t) =>
        /\ job[t] \in unfinished \cap begun
        /\ request[job[t]].lane = LaneOf(t)
        /\ \A i \in DOMAIN queues[LaneOf(t)] : queues[LaneOf(t)][i] # job[t]

Somewhere(s) ==
    \/ \E l \in Lanes : \E i \in DOMAIN queues[l] : queues[l][i] = s
    \/ \E t \in Threads : Running(t) /\ job[t] = s

Numbered == \A s \in unfinished \cup begun : s < next_sequence

(* EachRequestInOnePlace by its parts.                                       *)
LEMMA PlaceParts ==
    EachRequestInOnePlace <=>
        /\ Numbered
        /\ \A l \in Lanes : QueuedOk(l)
        /\ \A t \in Threads : RunningOk(t)
        /\ \A s \in unfinished : Somewhere(s)
    BY DEF EachRequestInOnePlace, Numbered, QueuedOk, RunningOk, Somewhere

(* A step that moves no request: only threads that are not running change.   *)
LEMMA SamePlaces ==
    ASSUME EachRequestInOnePlace,
           UNCHANGED <<queues, unfinished, next_sequence, request, job, begun>>,
           \A t \in Threads : Running(t)' <=> Running(t)
    PROVE  EachRequestInOnePlace'
    BY ThreadFacts DEF EachRequestInOnePlace

(* Nothing has been accepted yet.                                            *)
LEMMA InitPlaces == Init => EachRequestInOnePlace
<1> SUFFICES ASSUME Init PROVE EachRequestInOnePlace
    OBVIOUS
<1>1. \A t \in Threads : ~ Running(t)
    BY DEF Init, Running
<1> QED
    BY <1>1 DEF Init, EachRequestInOnePlace

(* A submitted request is put once in its queue, taking it moves it to the   *)
(* thread, a yield moves it back, and finishing or unwinding retires it.     *)
LEMMA NextPlaces ==
    TypeOK /\ WorkerInv /\ EachRequestInOnePlace /\ [Next]_vars
        => EachRequestInOnePlace'
<1> SUFFICES ASSUME TypeOK, WorkerInv, EachRequestInOnePlace, [Next]_vars
             PROVE  EachRequestInOnePlace'
    OBVIOUS
<1> USE ThreadFacts DEF TypeOK
<1>0. /\ Numbered
      /\ \A l \in Lanes : QueuedOk(l)
      /\ \A t \in Threads : RunningOk(t)
      /\ \A s \in unfinished : Somewhere(s)
    BY PlaceParts
<1>1. ASSUME NEW c \in Callers, NEW r \in Requests, Submit(c, r)
      PROVE  EachRequestInOnePlace'
    <2> DEFINE n == next_sequence
               q == queues[r.lane]
    <2>1. /\ r.lane \in Lanes
          /\ n \in Sequence
          /\ q \in Seq(Sequence)
          /\ r \in [lane : Lanes, keys : SUBSET OrderingKeys]
        BY <1>1, ConstantsAssumption DEF Submit, Sequence
    <2>2. /\ queues' = [queues EXCEPT ![r.lane] = Append(q, n)]
          /\ unfinished' = unfinished \cup {n}
          /\ n' = n + 1
          /\ request' = [request EXCEPT ![n] = r]
          /\ UNCHANGED <<job, begun>>
        BY <1>1 DEF Submit
    <2>3. /\ DOMAIN Append(q, n) = 1 .. (Len(q) + 1)
          /\ DOMAIN q = 1 .. Len(q)
          /\ Len(q) \in Nat
          /\ \A j \in 1 .. Len(q) : Append(q, n)[j] = q[j]
          /\ Append(q, n)[Len(q) + 1] = n
        BY <2>1, AppendFacts
    <2>4. \A t \in Threads : Running(t)' <=> Running(t)
        BY <1>1 DEF Submit, Start, Running
    <2>5. /\ n \notin unfinished /\ n \notin begun
          /\ \A l \in Lanes : \A i \in DOMAIN queues[l] : queues[l][i] # n
        BY <1>0, <2>1 DEF Numbered, QueuedOk, Sequence
    <2>6. Numbered'
        BY <1>0, <2>2, <2>1 DEF Numbered, Sequence
    <2>7. ASSUME NEW l \in Lanes PROVE QueuedOk(l)'
        <3>1. CASE l # r.lane
            <4>1. queues'[l] = queues[l]
                BY <3>1, <2>2
            <4>2. \A i \in DOMAIN queues[l] :
                     request'[queues[l][i]] = request[queues[l][i]]
                BY <2>2, <2>5
            <4> QED
                BY <1>0, <2>2, <4>1, <4>2 DEF QueuedOk
        <3>2. CASE l = r.lane
            <4>1. queues'[l] = Append(q, n)
                BY <3>2, <2>1, <2>2
            <4>2. ASSUME NEW i \in 1 .. Len(q)
                  PROVE  /\ q[i] \in unfinished
                         /\ request[q[i]].lane = l
                         /\ q[i] # n
                         /\ \A j \in 1 .. Len(q) : q[i] = q[j] => i = j
                BY SMTT(40), <1>0, <2>3, <2>5, <3>2 DEF QueuedOk
            <4>3. /\ request'[n].lane = l
                  /\ \A i \in 1 .. Len(q) : request'[q[i]] = request[q[i]]
                BY <2>1, <2>2, <3>2, <4>2
            <4> HIDE DEF q, n
            <4>4. \A i \in 1 .. (Len(q) + 1) :
                     \/ i \in 1 .. Len(q) /\ Append(q, n)[i] = q[i]
                     \/ i = Len(q) + 1 /\ Append(q, n)[i] = n
                BY <2>3
            <4>5. \A i \in 1 .. (Len(q) + 1) :
                     /\ Append(q, n)[i] \in unfinished'
                     /\ request'[Append(q, n)[i]].lane = l
                BY <2>2, <4>2, <4>3, <4>4
            <4>6. \A i, j \in 1 .. (Len(q) + 1) :
                     Append(q, n)[i] = Append(q, n)[j] => i = j
                BY <4>2, <4>4
            <4> QED
                BY <2>3, <4>1, <4>5, <4>6 DEF QueuedOk
        <3> QED
            BY <3>1, <3>2
    <2>8. ASSUME NEW t \in Threads PROVE RunningOk(t)'
        <3> SUFFICES ASSUME Running(t)' PROVE RunningOk(t)'
            BY DEF RunningOk
        <3>1. /\ Running(t) /\ job[t] # n /\ job'[t] = job[t]
              /\ job[t] \in unfinished \cap begun
              /\ request[job[t]].lane = LaneOf(t)
              /\ \A i \in DOMAIN queues[LaneOf(t)] : queues[LaneOf(t)][i] # job[t]
            BY <1>0, <2>2, <2>4, <2>5 DEF RunningOk
        <3>2. request'[job[t]] = request[job[t]]
            BY <2>2, <3>1
        <3>3. CASE LaneOf(t) # r.lane
            BY <2>2, <3>1, <3>2, <3>3 DEF RunningOk
        <3>4. CASE LaneOf(t) = r.lane
            <4>1. queues'[LaneOf(t)] = Append(q, n)
                BY <3>4, <2>1, <2>2
            <4>2. \A i \in 1 .. Len(q) : q[i] # job[t]
                BY <2>3, <3>1, <3>4
            <4> HIDE DEF q, n
            <4>3. \A i \in 1 .. (Len(q) + 1) : Append(q, n)[i] # job[t]
                BY <2>3, <3>1, <4>2
            <4> QED
                BY <2>2, <2>3, <3>1, <3>2, <4>1, <4>3 DEF RunningOk
        <3> QED
            BY <3>3, <3>4
    <2>9. ASSUME NEW s \in unfinished' PROVE Somewhere(s)'
        <3>1. CASE s = n
            <4>1. queues'[r.lane] = Append(q, n)
                BY <2>1, <2>2
            <4>2. Len(q) + 1 \in DOMAIN queues'[r.lane]
                BY <2>3, <4>1
            <4> QED
                BY <2>1, <2>3, <3>1, <4>1, <4>2 DEF Somewhere
        <3>2. CASE s # n
            <4>1. Somewhere(s)
                BY <1>0, <2>2, <3>2
            <4>2. CASE \E t \in Threads : Running(t) /\ job[t] = s
                BY <2>2, <2>4, <4>2 DEF Somewhere
            <4>3. ASSUME NEW l \in Lanes, NEW i \in DOMAIN queues[l],
                         queues[l][i] = s
                  PROVE  Somewhere(s)'
                <5>1. CASE l # r.lane
                    BY <2>2, <4>3, <5>1 DEF Somewhere
                <5>2. CASE l = r.lane
                    <6>1. /\ queues'[l] = Append(q, n)
                          /\ i \in 1 .. Len(q)
                        BY <2>1, <2>2, <2>3, <5>2
                    <6>2. /\ i \in DOMAIN queues'[l]
                          /\ queues'[l][i] = s
                        BY <2>3, <4>3, <5>2, <6>1
                    <6> QED
                        BY <6>2 DEF Somewhere
                <5> QED
                    BY <5>1, <5>2
            <4> QED
                BY <4>1, <4>2, <4>3 DEF Somewhere
        <3> QED
            BY <3>1, <3>2
    <2> QED
        BY <2>6, <2>7, <2>8, <2>9
        DEF EachRequestInOnePlace, Numbered, QueuedOk, RunningOk, Somewhere
<1>2. ASSUME NEW t \in Threads, Take(t) PROVE EachRequestInOnePlace'
    <2> DEFINE l == LaneOf(t)
               q == queues[l]
    <2>1. PICK i \in DOMAIN q :
             /\ job' = [job EXCEPT ![t] = q[i]]
             /\ begun' = begun \cup {q[i]}
             /\ queues' = [queues EXCEPT ![l] = RemoveAt(q, i)]
        BY <1>2 DEF Take
    <2> DEFINE p == RemoveAt(q, i)
    <2>2. /\ l \in Lanes /\ q \in Seq(Sequence)
          /\ i \in 1 .. Len(q) /\ Len(q) \in Nat /\ DOMAIN q = 1 .. Len(q)
        BY <2>1
    <2>3. /\ p \in Seq(Sequence)
          /\ Len(p) = Len(q) - 1
          /\ DOMAIN p = 1 .. (Len(q) - 1)
          /\ \A j \in 1 .. (Len(q) - 1) : p[j] = IF j < i THEN q[j] ELSE q[j + 1]
        <3> HIDE DEF q
        <3>1. /\ RemoveAt(q, i) \in Seq(Sequence)
              /\ Len(RemoveAt(q, i)) = Len(q) - 1
              /\ \A j \in DOMAIN RemoveAt(q, i) :
                    RemoveAt(q, i)[j] = IF j < i THEN q[j] ELSE q[j + 1]
            BY <2>1, <2>2, RemoveAtFacts
        <3>2. p = RemoveAt(q, i)
            BY DEF p
        <3> HIDE DEF p
        <3>3. DOMAIN p = 1 .. (Len(q) - 1)
            BY <3>1, <3>2
        <3> QED
            BY <3>1, <3>2, <3>3
    <2>4. /\ UNCHANGED <<unfinished, next_sequence, request>>
          /\ pc' = [pc EXCEPT ![t] = "run"]
          /\ pc[t] = "loop"
        BY <1>2 DEF Take
    <2>5. /\ Running(t)' /\ ~ Running(t)
          /\ \A u \in Threads : u # t => (Running(u)' <=> Running(u))
          /\ \A u \in Threads : (Running(u) /\ u # t) => LaneOf(u) # l
        BY <2>4 DEF Running, WorkerInv, OneWorkerPerLane, Live
    <2>6. /\ queues'[l] = p
          /\ \A m \in Lanes : m # l => queues'[m] = queues[m]
          /\ job'[t] = q[i]
          /\ \A u \in Threads : u # t => job'[u] = job[u]
        BY <2>1, <2>2
    <2>7. \A j \in 1 .. Len(q) :
             /\ q[j] \in unfinished
             /\ request[q[j]].lane = l
             /\ \A k \in 1 .. Len(q) : q[j] = q[k] => j = k
        BY <1>0, <2>2 DEF QueuedOk
    <2> HIDE DEF p, q
    <2>8. \A j \in 1 .. (Len(q) - 1) :
             \E k \in 1 .. Len(q) : k # i /\ p[j] = q[k] /\ k = IF j < i THEN j ELSE j + 1
        <3> SUFFICES ASSUME NEW j \in 1 .. (Len(q) - 1)
                     PROVE  \E k \in 1 .. Len(q) :
                                k # i /\ p[j] = q[k] /\ k = IF j < i THEN j ELSE j + 1
            OBVIOUS
        <3>1. CASE j < i
            BY <2>2, <2>3, <3>1
        <3>2. CASE ~ (j < i)
            <4>1. j + 1 \in 1 .. Len(q) /\ j + 1 # i
                BY <2>2, <3>2
            <4> QED
                BY <2>3, <3>2, <4>1
        <3> QED
            BY <3>1, <3>2
    <2>9. Numbered'
        BY <1>0, <2>1, <2>2, <2>4, <2>7 DEF Numbered
    <2>10. \A m \in Lanes : QueuedOk(m)'
        <3>1. ASSUME NEW m \in Lanes, m # l PROVE QueuedOk(m)'
            BY <1>0, <2>4, <2>6, <3>1 DEF QueuedOk
        <3>2. QueuedOk(l)'
            <4>1. ASSUME NEW j \in 1 .. (Len(q) - 1), NEW k \in 1 .. (Len(q) - 1),
                         p[j] = p[k]
                  PROVE  j = k
                <5>1. PICK a \in 1 .. Len(q) :
                         p[j] = q[a] /\ a = IF j < i THEN j ELSE j + 1
                    BY <2>8
                <5>2. PICK b \in 1 .. Len(q) :
                         p[k] = q[b] /\ b = IF k < i THEN k ELSE k + 1
                    BY <2>8
                <5>3. a = b
                    BY <2>7, <4>1, <5>1, <5>2
                <5>4. /\ i \in Int /\ j \in Int /\ k \in Int
                      /\ a = IF j < i THEN j ELSE j + 1
                      /\ a = IF k < i THEN k ELSE k + 1
                    <6>1. i \in Int /\ j \in Int /\ k \in Int
                        BY <2>2
                    <6> QED
                        BY <5>1, <5>2, <5>3, <6>1
                <5>5. CASE j < i
                    BY <5>4, <5>5
                <5>6. CASE ~ (j < i)
                    BY <5>4, <5>6
                <5> QED
                    BY <5>5, <5>6
            <4>2. ASSUME NEW j \in 1 .. (Len(q) - 1)
                  PROVE  p[j] \in unfinished /\ request[p[j]].lane = l
                <5>1. PICK a \in 1 .. Len(q) : p[j] = q[a]
                    BY <2>8
                <5> QED
                    BY <2>7, <5>1
            <4> QED
                BY <2>3, <2>4, <2>6, <4>1, <4>2 DEF QueuedOk
        <3> QED
            BY <3>1, <3>2
    <2>11. \A u \in Threads : RunningOk(u)'
        <3>1. ASSUME NEW u \in Threads, u # t PROVE RunningOk(u)'
            BY <1>0, <2>1, <2>4, <2>5, <2>6, <3>1 DEF RunningOk
        <3>2. RunningOk(t)'
            <4>1. \A j \in 1 .. (Len(q) - 1) : p[j] # q[i]
                BY SMTT(40), <2>2, <2>7, <2>8
            <4> QED
                BY <2>1, <2>2, <2>3, <2>4, <2>6, <2>7, <4>1 DEF RunningOk
        <3> QED
            BY <3>1, <3>2
    <2>12. ASSUME NEW s \in unfinished' PROVE Somewhere(s)'
        <3>1. Somewhere(s)
            BY <1>0, <2>4
        <3>2. CASE \E u \in Threads : Running(u) /\ job[u] = s
            BY <2>5, <2>6, <3>2 DEF Somewhere
        <3>3. ASSUME NEW m \in Lanes, m # l, NEW j \in DOMAIN queues[m],
                     queues[m][j] = s
              PROVE  Somewhere(s)'
            BY <2>6, <3>3 DEF Somewhere
        <3>4. ASSUME NEW j \in 1 .. Len(q), q[j] = s PROVE Somewhere(s)'
            <4>1. CASE j = i
                BY <2>5, <2>6, <3>4, <4>1 DEF Somewhere
            <4>2. CASE j < i
                <5>0. j \in 1 .. (Len(q) - 1)
                    BY <2>2, <4>2
                <5>1. j \in 1 .. (Len(q) - 1) /\ p[j] = q[j]
                    BY <2>3, <4>2, <5>0
                <5> QED
                    BY <2>2, <2>3, <2>6, <3>4, <5>1 DEF Somewhere
            <4>3. CASE j > i
                <5>1. j - 1 \in 1 .. (Len(q) - 1) /\ ~ (j - 1 < i) /\ (j - 1) + 1 = j
                    BY <2>2, <4>3
                <5>2. p[j - 1] = q[j]
                    BY <2>3, <5>1
                <5> QED
                    BY <2>2, <2>3, <2>6, <3>4, <5>1, <5>2 DEF Somewhere
            <4> QED
                BY <2>2, <4>1, <4>2, <4>3
        <3>5. q = queues[l]
            BY DEF q
        <3> QED
            BY <2>2, <3>1, <3>2, <3>3, <3>4, <3>5 DEF Somewhere
    <2> QED
        BY <2>9, <2>10, <2>11, <2>12
        DEF EachRequestInOnePlace, Numbered, QueuedOk, RunningOk, Somewhere
<1>3. ASSUME NEW t \in Threads, Yield(t) PROVE EachRequestInOnePlace'
    <2> DEFINE n == job[t]
               q == queues[Bulk]
    <2>1. /\ Bulk \in Lanes /\ q \in Seq(Sequence) /\ n \in Sequence
          /\ LaneOf(t) = Bulk
        BY <1>3 DEF Yield, Lanes
    <2>2. /\ queues' = [queues EXCEPT ![Bulk] = Append(q, n)]
          /\ job' = [job EXCEPT ![t] = NoJob]
          /\ pc' = [pc EXCEPT ![t] = "notify"]
          /\ UNCHANGED <<unfinished, next_sequence, request, begun>>
        BY <1>3 DEF Yield
    <2>3. /\ DOMAIN Append(q, n) = 1 .. (Len(q) + 1)
          /\ DOMAIN q = 1 .. Len(q)
          /\ Len(q) \in Nat
          /\ \A j \in 1 .. Len(q) : Append(q, n)[j] = q[j]
          /\ Append(q, n)[Len(q) + 1] = n
        BY <2>1, AppendFacts
    <2>4. /\ Running(t) /\ ~ Running(t)'
          /\ \A u \in Threads : u # t => (Running(u)' <=> Running(u))
          /\ \A u \in Threads : (Running(u) /\ u # t) => LaneOf(u) # Bulk
        BY <1>3, <2>1, <2>2 DEF Yield, Running, WorkerInv, OneWorkerPerLane, Live
    <2>5. /\ n \in unfinished
          /\ request[n].lane = Bulk
          /\ \A i \in 1 .. Len(q) : q[i] # n
        BY <1>0, <2>1, <2>3, <2>4 DEF RunningOk
    <2>6. /\ queues'[Bulk] = Append(q, n)
          /\ \A m \in Lanes : m # Bulk => queues'[m] = queues[m]
          /\ \A u \in Threads : u # t => job'[u] = job[u]
        BY <2>1, <2>2
    <2>7. \A j \in 1 .. Len(q) :
             /\ q[j] \in unfinished
             /\ request[q[j]].lane = Bulk
             /\ \A k \in 1 .. Len(q) : q[j] = q[k] => j = k
        BY <1>0, <2>1, <2>3 DEF QueuedOk
    <2>8. Numbered'
        BY <1>0, <2>2 DEF Numbered
    <2>9. \A m \in Lanes : QueuedOk(m)'
        <3>1. ASSUME NEW m \in Lanes, m # Bulk PROVE QueuedOk(m)'
            BY <1>0, <2>2, <2>6, <3>1 DEF QueuedOk
        <3> HIDE DEF q, n
        <3>2. \A i \in 1 .. (Len(q) + 1) :
                 \/ i \in 1 .. Len(q) /\ Append(q, n)[i] = q[i]
                 \/ i = Len(q) + 1 /\ Append(q, n)[i] = n
            BY <2>3
        <3>3. \A i \in 1 .. (Len(q) + 1) :
                 /\ Append(q, n)[i] \in unfinished
                 /\ request[Append(q, n)[i]].lane = Bulk
            BY <2>5, <2>7, <3>2
        <3>4. \A i, j \in 1 .. (Len(q) + 1) :
                 Append(q, n)[i] = Append(q, n)[j] => i = j
            BY <2>5, <2>7, <3>2
        <3>5. QueuedOk(Bulk)'
            <4> DEFINE r == Append(q, n)
            <4>1. /\ queues'[Bulk] = r
                  /\ DOMAIN r = 1 .. (Len(q) + 1)
                  /\ unfinished' = unfinished /\ request' = request
                BY <2>2, <2>3, <2>6
            <4>2. /\ \A i \in DOMAIN r : r[i] \in unfinished /\ request[r[i]].lane = Bulk
                  /\ \A i, j \in DOMAIN r : r[i] = r[j] => i = j
                BY <3>3, <3>4, <4>1
            <4> HIDE DEF r
            <4> QED
                BY <4>1, <4>2 DEF QueuedOk
        <3> QED
            BY <3>1, <3>5
    <2>10. \A u \in Threads : RunningOk(u)'
        BY <1>0, <2>2, <2>4, <2>6 DEF RunningOk
    <2>11. ASSUME NEW s \in unfinished' PROVE Somewhere(s)'
        <3>1. Somewhere(s)
            BY <1>0, <2>2
        <3>2. CASE s = n
            <4>1. Len(q) + 1 \in DOMAIN queues'[Bulk] /\ queues'[Bulk][Len(q) + 1] = s
                BY <2>3, <2>6, <3>2
            <4> QED
                BY <2>1, <4>1 DEF Somewhere
        <3>3. ASSUME NEW u \in Threads, Running(u), job[u] = s, s # n
              PROVE  Somewhere(s)'
            BY <2>4, <2>6, <3>3 DEF Somewhere
        <3>4. ASSUME NEW m \in Lanes, m # Bulk, NEW j \in DOMAIN queues[m],
                     queues[m][j] = s
              PROVE  Somewhere(s)'
            BY <2>6, <3>4 DEF Somewhere
        <3>5. ASSUME NEW j \in DOMAIN queues[Bulk], queues[Bulk][j] = s
              PROVE  Somewhere(s)'
            <4>1. j \in DOMAIN queues'[Bulk] /\ queues'[Bulk][j] = s
                BY <2>3, <2>6, <3>5
            <4> QED
                BY <2>1, <4>1 DEF Somewhere
        <3> QED
            BY <3>1, <3>2, <3>3, <3>4, <3>5 DEF Somewhere
    <2> QED
        BY <2>8, <2>9, <2>10, <2>11
        DEF EachRequestInOnePlace, Numbered, QueuedOk, RunningOk, Somewhere
<1>4. ASSUME NEW t \in Threads, Running(t), ~ Running(t)',
             unfinished' = unfinished \ {job[t]},
             \A u \in Threads : u # t => (Running(u)' <=> Running(u)),
             \A u \in Threads : u # t => job'[u] = job[u],
             UNCHANGED <<queues, next_sequence, request, begun>>
      PROVE  EachRequestInOnePlace'
    <2>1. \A l \in Lanes : \A i \in DOMAIN queues[l] : queues[l][i] # job[t]
        BY <1>0, <1>4 DEF RunningOk, QueuedOk
    <2>2. \A u \in Threads : (u # t /\ Running(u)) => job[u] # job[t]
        BY <1>0, <1>4 DEF RunningOk, WorkerInv, OneWorkerPerLane, Live, Running
    <2>3. \A l \in Lanes : QueuedOk(l)'
        BY <1>0, <1>4, <2>1 DEF QueuedOk
    <2>4. \A u \in Threads : RunningOk(u)'
        BY <1>0, <1>4, <2>2 DEF RunningOk
    <2>5. \A s \in unfinished' : Somewhere(s)'
        BY <1>0, <1>4 DEF Somewhere
    <2>6. Numbered'
        BY <1>0, <1>4 DEF Numbered
    <2> QED
        BY <2>3, <2>4, <2>5, <2>6
        DEF EachRequestInOnePlace, Numbered, QueuedOk, RunningOk, Somewhere
<1>5. ASSUME NEW t \in Threads, Finish(t) \/ Panic(t)
      PROVE  EachRequestInOnePlace'
    BY <1>4, <1>5 DEF Finish, Panic, Running
<1>6. ASSUME NEW c \in Callers, CallerNotify(c) \/ Close(c)
      PROVE  EachRequestInOnePlace'
    BY <1>6, SamePlaces DEF CallerNotify, Close, Woken, Running
<1>7. ASSUME NEW t \in Threads,
             \/ CloseExit(t) \/ IdleExit(t) \/ Wait(t) \/ WaitEnds(t)
             \/ WorkerNotify(t) \/ DyingNotify(t)
      PROVE  EachRequestInOnePlace'
    <2>1. UNCHANGED <<queues, unfinished, next_sequence, request, job, begun>>
        BY <1>7 DEF CloseExit, IdleExit, Wait, WaitEnds, WorkerNotify, DyingNotify
    <2>2. \A u \in Threads : Running(u)' <=> Running(u)
        BY <1>7 DEF CloseExit, IdleExit, Wait, WaitEnds, WorkerNotify,
                    DyingNotify, Woken, Running
    <2> QED
        BY <2>1, <2>2, SamePlaces
<1>8. CASE UNCHANGED vars
    BY <1>8, SamePlaces DEF vars, Running
<1> QED
    BY <1>1, <1>2, <1>3, <1>5, <1>6, <1>7, <1>8 DEF Next, Caller, Worker

-----------------------------------------------------------------------------
(* A step keeps SharedFileOrder: what is begun has no earlier unfinished     *)
(* request on its files when it is taken, and later ones have later numbers. *)
LEMMA NextOrder ==
    TypeOK /\ EachRequestInOnePlace /\ SharedFileOrder /\ [Next]_vars
        => SharedFileOrder'
<1> SUFFICES ASSUME TypeOK, EachRequestInOnePlace, SharedFileOrder, [Next]_vars
             PROVE  SharedFileOrder'
    OBVIOUS
<1> USE DEF TypeOK, SharedFileOrder, Shares
<1>1. ASSUME NEW c \in Callers, NEW r \in Requests, Submit(c, r)
      PROVE  SharedFileOrder'
    <2>1. \A s \in begun : s < next_sequence
        BY DEF EachRequestInOnePlace
    <2>2. /\ begun' = begun
          /\ unfinished' = unfinished \cup {next_sequence}
          /\ request' = [request EXCEPT ![next_sequence] = r]
        BY <1>1 DEF Submit
    <2> QED
        BY <2>1, <2>2 DEF Sequence
<1>2. ASSUME NEW t \in Threads, Take(t) PROVE SharedFileOrder'
    <2> DEFINE q == queues[LaneOf(t)]
    <2>1. PICK i \in DOMAIN q :
             /\ begun' = begun \cup {q[i]}
             /\ Runnable(q[i])
        BY <1>2 DEF Take, FirstRunnable
    <2>2. q[i] \in unfinished
        BY ThreadFacts, <2>1 DEF EachRequestInOnePlace
    <2>3. \A r \in unfinished : r < q[i] => ~ Shares(r, q[i])
        BY <2>1, <2>2 DEF Runnable
    <2>4. UNCHANGED <<unfinished, request>>
        BY <1>2 DEF Take
    <2> QED
        BY <2>1, <2>3, <2>4
<1>3. ASSUME UNCHANGED <<begun, request>>, unfinished' \subseteq unfinished
      PROVE  SharedFileOrder'
    BY <1>3
<1>4. ASSUME NEW t \in Threads, Worker(t), ~ Take(t)
      PROVE  UNCHANGED <<begun, request>> /\ unfinished' \subseteq unfinished
    BY <1>4 DEF Worker, CloseExit, IdleExit, Wait, WaitEnds, Yield, Finish,
                WorkerNotify, Panic, DyingNotify
<1>5. ASSUME NEW c \in Callers, CallerNotify(c) \/ Close(c)
      PROVE  UNCHANGED <<begun, request, unfinished>>
    BY <1>5 DEF CallerNotify, Close
<1>6. CASE UNCHANGED vars
    BY <1>3, <1>6 DEF vars
<1> QED
    BY <1>1, <1>2, <1>3, <1>4, <1>5, <1>6 DEF Next, Caller

(* A step keeps NoLostWakeup: whoever makes a request runnable owes a        *)
(* notify_all until it has called it, and a worker waits only after looking. *)
LEMMA NextWakeup ==
    TypeOK /\ WorkerInv /\ NoLostWakeup /\ [Next]_vars => NoLostWakeup'
<1> SUFFICES ASSUME TypeOK, WorkerInv, NoLostWakeup, [Next]_vars
             PROVE  NoLostWakeup'
    OBVIOUS
<1> USE ThreadFacts DEF TypeOK
<1>1. ASSUME NotifyDue' PROVE NoLostWakeup'
    BY <1>1 DEF NoLostWakeup
<1>2. ASSUME \A t \in Threads : pc'[t] # "wait" PROVE NoLostWakeup'
    BY <1>2 DEF NoLostWakeup
<1>3. ASSUME NEW c \in Callers, (\E r \in Requests : Submit(c, r)) \/ Close(c)
      PROVE  NotifyDue'
    <2>1. caller' = [caller EXCEPT ![c] = "notify"]
        BY <1>3 DEF Submit, Close
    <2> QED
        BY <2>1 DEF NotifyDue
<1>4. ASSUME NEW t \in Threads, Yield(t) \/ Finish(t) \/ Panic(t)
      PROVE  NotifyDue'
    BY <1>4 DEF Yield, Finish, Panic, NotifyDue
<1>5. ASSUME NEW c \in Callers, CallerNotify(c)
      PROVE  \A t \in Threads : pc'[t] # "wait"
    BY <1>5 DEF CallerNotify, Woken
<1>6. ASSUME NEW t \in Threads, WorkerNotify(t) \/ DyingNotify(t)
      PROVE  \A u \in Threads : pc'[u] # "wait"
    BY <1>6 DEF WorkerNotify, DyingNotify, Woken
<1>7. ASSUME NEW t \in Threads, Take(t) PROVE NoLostWakeup'
    <2>1. /\ UNCHANGED <<unfinished, request, caller>>
          /\ pc' = [pc EXCEPT ![t] = "run"] /\ pc[t] = "loop"
          /\ \A l \in Lanes : l # LaneOf(t) => queues'[l] = queues[l]
        BY <1>7 DEF Take
    <2>2. NotifyDue' <=> NotifyDue
        BY <2>1 DEF NotifyDue
    <2>3. ASSUME NEW u \in Threads, pc'[u] = "wait"
          PROVE  pc[u] = "wait" /\ LaneOf(u) # LaneOf(t)
        BY <2>1, <2>3 DEF WorkerInv, OneWorkerPerLane, Live
    <2>4. \A u \in Threads : (pc'[u] = "wait" /\ NothingRunnable(LaneOf(u)))
                                => NothingRunnable(LaneOf(u))'
        BY <2>1, <2>3 DEF NothingRunnable, Runnable, Shares
    <2> QED
        BY <2>2, <2>3, <2>4 DEF NoLostWakeup
<1>8. ASSUME NEW t \in Threads,
             CloseExit(t) \/ IdleExit(t) \/ Wait(t) \/ WaitEnds(t)
      PROVE  NoLostWakeup'
    <2>1. UNCHANGED <<unfinished, request, caller, queues>>
        BY <1>8 DEF CloseExit, IdleExit, Wait, WaitEnds
    <2>2. NotifyDue' <=> NotifyDue
        BY <1>8, <2>1 DEF NotifyDue, CloseExit, IdleExit, Wait, WaitEnds
    <2>3. \A l \in Lanes : NothingRunnable(l)' <=> NothingRunnable(l)
        BY <2>1 DEF NothingRunnable, Runnable, Shares
    <2>4. \A u \in Threads :
             pc'[u] = "wait" => pc[u] = "wait" \/ NothingRunnable(LaneOf(u))
        BY <1>8 DEF CloseExit, IdleExit, Wait, WaitEnds
    <2> QED
        BY <2>2, <2>3, <2>4 DEF NoLostWakeup
<1>9. CASE UNCHANGED vars
    BY <1>9 DEF vars, NoLostWakeup, NotifyDue, NothingRunnable, Runnable, Shares
<1> QED
    BY <1>1, <1>2, <1>3, <1>4, <1>5, <1>6, <1>7, <1>8, <1>9
       DEF Next, Caller, Worker

(* A step keeps a lane within its depth and one: the requeue of a yield only *)
(* puts back the request its one worker was running.                         *)
LEMMA NextDepth ==
    TypeOK /\ WorkerInv /\ LaneHoldsDepthPlusOne /\ [Next]_vars
        => LaneHoldsDepthPlusOne'
<1> SUFFICES ASSUME TypeOK, WorkerInv, LaneHoldsDepthPlusOne, [Next]_vars
             PROVE  LaneHoldsDepthPlusOne'
    OBVIOUS
<1> DEFINE Busy(l) == \E t \in Threads : LaneOf(t) = l /\ Running(t)
           Fits(l) == /\ Len(queues[l]) <= LaneDepth + 1
                      /\ Busy(l) => Len(queues[l]) <= LaneDepth
<1> USE ThreadFacts, ConstantsAssumption DEF TypeOK
<1>1. /\ \A l \in Lanes : Len(queues[l]) \in Nat
      /\ \A l \in Lanes : Fits(l)
    BY DEF LaneHoldsDepthPlusOne
<1>3. SUFFICES \A l \in Lanes : Fits(l)'
    BY DEF LaneHoldsDepthPlusOne
<1>4. ASSUME NEW c \in Callers, NEW r \in Requests, Submit(c, r), NEW l \in Lanes
      PROVE  Fits(l)'
    <2>1. /\ r.lane \in Lanes /\ next_sequence \in Sequence
          /\ Len(queues[r.lane]) < LaneDepth
        BY <1>4 DEF Submit, Sequence
    <2>2. Busy(l)' <=> Busy(l)
        BY ZenonT(60), <1>4 DEF Submit, Start, Running
    <2>3. CASE l = r.lane
        <3>1. Len(queues'[l]) = Len(queues[l]) + 1
            BY <1>4, <2>1, <2>3, AppendFacts DEF Submit
        <3> QED
            BY <1>1, <2>1, <2>3, <3>1
    <2>4. CASE l # r.lane
        <3>1. queues'[l] = queues[l]
            BY <1>4, <2>4 DEF Submit
        <3> QED
            BY <1>1, <2>2, <3>1
    <2> QED
        BY <2>3, <2>4
<1>5. ASSUME NEW t \in Threads, Take(t), NEW l \in Lanes PROVE Fits(l)'
    <2>1. CASE l = LaneOf(t)
        <3>1. PICK i \in DOMAIN queues[l] : queues'[l] = RemoveAt(queues[l], i)
            BY <1>5, <2>1 DEF Take
        <3>2. Len(queues'[l]) = Len(queues[l]) - 1
            BY <3>1, RemoveAtFacts
        <3> QED
            BY <1>1, <3>2
    <2>2. CASE l # LaneOf(t)
        <3>1. /\ queues'[l] = queues[l]
              /\ Busy(l)' <=> Busy(l)
            BY <1>5, <2>2 DEF Take, Running
        <3> QED
            BY <1>1, <3>1
    <2> QED
        BY <2>1, <2>2
<1>6. ASSUME NEW t \in Threads, Yield(t), NEW l \in Lanes PROVE Fits(l)'
    <2>1. CASE l = Bulk
        <3>1. LaneOf(t) = Bulk /\ Running(t) /\ job[t] \in Sequence
            BY <1>6 DEF Yield, Running
        <3>2. Len(queues'[l]) = Len(queues[l]) + 1
            BY <1>6, <2>1, <3>1, AppendFacts DEF Yield
        <3>3. ~ Busy(l)'
            BY <1>6, <2>1, <3>1
               DEF Yield, Running, WorkerInv, OneWorkerPerLane, Live
        <3> QED
            BY <1>1, <2>1, <3>1, <3>2, <3>3
    <2>2. CASE l # Bulk
        <3>1. /\ queues'[l] = queues[l]
              /\ Busy(l)' => Busy(l)
            BY <1>6, <2>2 DEF Yield, Running
        <3> QED
            BY <1>1, <3>1
    <2> QED
        BY <2>1, <2>2
<1>7. ASSUME UNCHANGED queues, \A t \in Threads : Running(t)' => Running(t)
      PROVE  \A l \in Lanes : Fits(l)'
    BY <1>1, <1>7
<1>8. ASSUME NEW t \in Threads, Worker(t), ~ Take(t), ~ Yield(t)
      PROVE  UNCHANGED queues /\ \A u \in Threads : Running(u)' => Running(u)
    BY <1>8 DEF Worker, CloseExit, IdleExit, Wait, WaitEnds, Finish,
                WorkerNotify, Panic, DyingNotify, Woken, Running
<1>9. ASSUME NEW c \in Callers, CallerNotify(c) \/ Close(c)
      PROVE  UNCHANGED queues /\ \A u \in Threads : Running(u)' => Running(u)
    BY <1>9 DEF CallerNotify, Close, Woken, Running
<1>10. CASE UNCHANGED vars
    BY <1>7, <1>10 DEF vars, Running
<1> QED
    BY <1>4, <1>5, <1>6, <1>7, <1>8, <1>9, <1>10 DEF Next, Caller

-----------------------------------------------------------------------------
(* Whether two requests share a file does not depend on their order.         *)
LEMMA SharesSymmetric ==
    \A r, s \in Sequence : Shares(r, s) <=> Shares(s, r)
    BY DEF Shares, Overlaps

(* Running together would need both requests begun and unfinished.           *)
LEMMA OrderExcludes ==
    TypeOK /\ WorkerInv /\ EachRequestInOnePlace /\ SharedFileOrder
        => SharedFileExclusion
<1> SUFFICES ASSUME TypeOK, WorkerInv, EachRequestInOnePlace, SharedFileOrder,
                    NEW t \in Threads, NEW u \in Threads, t # u,
                    Running(t), Running(u)
             PROVE  ~ Shares(job[t], job[u])
    BY DEF SharedFileExclusion
<1>1. LaneOf(t) # LaneOf(u)
    BY DEF WorkerInv, OneWorkerPerLane, Live, Running
<1>2. /\ job[t] \in unfinished \cap begun /\ job[u] \in unfinished \cap begun
      /\ job[t] # job[u]
    BY <1>1 DEF EachRequestInOnePlace
<1>3. /\ job[t] \in Sequence /\ job[u] \in Sequence
      /\ job[t] < job[u] \/ job[u] < job[t]
    <2>1. job[t] \in Sequence /\ job[u] \in Sequence
        BY DEF TypeOK, Running
    <2>2. job[t] \in Int /\ job[u] \in Int
        BY <2>1, ConstantsAssumption DEF Sequence
    <2> QED
        BY <1>2, <2>1, <2>2
<1> QED
    BY <1>2, <1>3, SharesSymmetric DEF SharedFileOrder

(* A non-empty set of sequence numbers has a least one.                      *)
LEMMA LeastSequence ==
    ASSUME NEW T, T \subseteq Nat, T # {}
    PROVE  \E x \in T : \A y \in T : ~ (y < x)
<1>1. \E x \in T : \A y \in T : ~ (<<y, x>> \in OpToRel(<, Nat))
    BY WFMin, NatLessThanWellFounded
<1> QED
    BY <1>1 DEF OpToRel

(* The oldest unfinished request is runnable or running; if it is queued its *)
(* lane's worker, which exists, cannot be waiting without a notify_all due.  *)
LEMMA OldestProgresses ==
    TypeOK /\ WorkerInv /\ EachRequestInOnePlace /\ NoLostWakeup
        => LanesNeverGridlock
<1> SUFFICES ASSUME TypeOK, WorkerInv, EachRequestInOnePlace, NoLostWakeup,
                    unfinished # {}
             PROVE  \/ NotifyDue
                    \/ \E t \in Threads : pc[t] \in {"loop", "run"}
                    \/ Unwound
    BY DEF LanesNeverGridlock
<1>1. PICK s \in unfinished : \A r \in unfinished : ~ (r < s)
    <2>1. unfinished \subseteq Nat
        BY ConstantsAssumption DEF TypeOK, Sequence
    <2> QED
        BY <2>1, LeastSequence
<1>2. Runnable(s)
    BY <1>1 DEF Runnable
<1>3. ASSUME NEW l \in Lanes, NEW i \in DOMAIN queues[l], queues[l][i] = s
      PROVE  \/ NotifyDue
             \/ \E t \in Threads : pc[t] \in {"loop", "run"}
             \/ Unwound
    <2>1. queues[l] # <<>>
        BY <1>3 DEF TypeOK
    <2>2. CASE started[l]
        <3>1. PICK t \in Threads : LaneOf(t) = l /\ Live(t)
            BY <2>1, <2>2 DEF WorkerInv, StartedMeansServed
        <3>2. ~ NothingRunnable(l)
            BY <1>2, <1>3 DEF NothingRunnable
        <3>3. pc[t] = "wait" => NotifyDue
            BY <3>1, <3>2 DEF NoLostWakeup
        <3> QED
            BY <3>1, <3>3 DEF Live, NotifyDue
    <2>3. CASE ~ started[l]
        <3>1. unwound[l]
            BY <2>1, <2>3 DEF WorkerInv, UnstartedMeansIdle
        <3> QED
            BY <2>1, <2>3, <3>1 DEF Unwound, AwaitsSubmission
    <2> QED
        BY <2>2, <2>3
<1>4. ASSUME NEW t \in Threads, Running(t), job[t] = s
      PROVE  pc[t] \in {"loop", "run"}
    BY <1>4 DEF Running
<1> QED
    BY <1>1, <1>3, <1>4 DEF EachRequestInOnePlace

-----------------------------------------------------------------------------
(* The inductive invariant of the service.                                   *)
IndInv ==
    /\ TypeOK
    /\ WorkerInv
    /\ EachRequestInOnePlace
    /\ SharedFileOrder
    /\ NoLostWakeup
    /\ LaneHoldsDepthPlusOne

(* The invariant holds when the service has been created and in every state  *)
(* its callers and workers reach.                                            *)
THEOREM Inductive == Spec => []IndInv
<1>1. Init => IndInv
    <2> SUFFICES ASSUME Init PROVE IndInv
        OBVIOUS
    <2>1. TypeOK /\ WorkerInv /\ EachRequestInOnePlace
        BY InitType, InitWorkers, InitPlaces
    <2>2. SharedFileOrder
        BY DEF Init, SharedFileOrder
    <2>3. NoLostWakeup
        BY DEF Init, NoLostWakeup
    <2>4. LaneHoldsDepthPlusOne
        BY ConstantsAssumption DEF Init, LaneHoldsDepthPlusOne
    <2> QED
        BY <2>1, <2>2, <2>3, <2>4 DEF IndInv
<1>2. IndInv /\ [Next]_vars => IndInv'
    BY NextType, NextWorkers, NextPlaces, NextOrder, NextWakeup, NextDepth
       DEF IndInv
<1> QED
    BY <1>1, <1>2, PTL DEF Spec

(* The lane state keeps its types: queues hold sequence numbers, and a       *)
(* running thread has one.                                                   *)
THEOREM TypeCorrect == Spec => []TypeOK
    BY Inductive, PTL DEF IndInv

(* No lane ever has two workers, through idle exits, restarts and unwinding. *)
THEOREM SingleWorker == Spec => []OneWorkerPerLane
    BY Inductive, PTL DEF IndInv, WorkerInv

(* No accepted request is lost, doubled or in two places.                    *)
THEOREM Conserved == Spec => []EachRequestInOnePlace
    BY Inductive, PTL DEF IndInv

(* Requests that share a file begin in submission order and never overlap,   *)
(* whichever lanes they are in.                                              *)
THEOREM FileOrder == Spec => [](SharedFileOrder /\ SharedFileExclusion)
<1>1. IndInv => SharedFileOrder /\ SharedFileExclusion
    BY OrderExcludes DEF IndInv
<1> QED
    BY <1>1, Inductive, PTL

(* No wakeup of a waiting worker is lost.                                    *)
THEOREM WakeupKept == Spec => []NoLostWakeup
    BY Inductive, PTL DEF IndInv

(* The lanes never wait for each other while a request is unfinished.        *)
THEOREM GridlockFree == Spec => []LanesNeverGridlock
<1>1. IndInv => LanesNeverGridlock
    BY OldestProgresses DEF IndInv
<1> QED
    BY <1>1, Inductive, PTL

(* A queued request has a worker, unless that worker unwound.                *)
THEOREM Served == Spec => [](NoStrandedRequest /\ StartedMeansServed)
<1>1. IndInv => NoStrandedRequest /\ StartedMeansServed
    BY DEF IndInv, WorkerInv, NoStrandedRequest, StartedMeansServed,
           UnstartedMeansIdle, AwaitsSubmission, TypeOK
<1> QED
    BY <1>1, Inductive, PTL

(* A lane holds at most one request beyond its depth.                        *)
THEOREM DepthKept == Spec => []LaneHoldsDepthPlusOne
    BY Inductive, PTL DEF IndInv
=============================================================================

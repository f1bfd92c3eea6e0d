------------------------ MODULE DocumentSchedulerProofs ------------------------
(* Safety of the document workers for any number of documents, workers and   *)
(* requests, any capacity and any quantum.                                   *)
EXTENDS DocumentScheduler, FiniteSetTheorems, SequenceTheorems, WellFoundedInduction, TLAPS

-----------------------------------------------------------------------------
(* The inductive invariant.                                                  *)

Resting == {"unstarted", "next", "waiting", "woken", "exited"}
ServesActor == {"lock", "mutate", "settle", "last", "reply", "yield"}
States == Resting \cup ServesActor \cup {"policy", "members", "check", "complete", "answer"}

Mailbox == [queue : Seq(Nat), scheduled : BOOLEAN, retired : BOOLEAN, configured : Nat]
Ready == [queue : Seq(Works \ {Nothing}), admitted : Int, closed : BOOLEAN]
Group == [members : (SUBSET Docs) \ {{}}, outcome : {"pending", "refused", "committed"},
          replied : BOOLEAN, base : UNION {[m -> Nat] : m \in SUBSET Docs},
          before : UNION {[m -> Nat] : m \in SUBSET Docs}]
Document == [revision : Nat, depth : Nat, limit : Nat]
Effects == [kind : {"request", "group"}, id : Nat]

(* The shape of what the proofs speak about.                                 *)
Shape ==
    /\ pc \in [Workers -> States]
    /\ work \in [Workers -> Works]
    /\ request \in [Workers -> Nat]
    /\ locked \in [Workers -> SUBSET Docs]
    /\ checked \in [Workers -> SUBSET Docs]
    /\ ready \in Ready
    /\ mailbox \in [Docs -> Mailbox]
    /\ doc \in [Docs -> Document]
    /\ group \in Seq(Group)
    /\ accepted \in [Docs -> Seq(Nat)]
    /\ applied \in [Docs -> Seq(Effects)]

(* A worker's place in the code goes with the work it holds, and a group     *)
(* that is held or queued was submitted.                                     *)
WorkerWork(w) ==
    /\ pc[w] \in ServesActor => work[w].kind = "actor"
    /\ pc[w] = "policy" => work[w].kind = "policy"
    /\ pc[w] \in {"members", "check", "answer"} => work[w].kind = "group"
    /\ work[w].kind = "group" => work[w].group \in 1..Len(group)
QueueWork ==
    \A i \in 1..Len(ready.queue) :
        ready.queue[i].kind = "group" => ready.queue[i].group \in 1..Len(group)
SeenByGroups ==
    \A g \in 1..Len(group) : \A d \in group[g].members : group[g].before[d] \in 0..Len(accepted[d])
WorkInv == (\A w \in Workers : WorkerWork(w)) /\ QueueWork /\ SeenByGroups

(* Which actors' states a worker holds.                                      *)
Busy == {"mutate", "settle", "members", "check"}
Exclusive == \A v, w \in Workers : v # w => locked[v] \cap locked[w] = {}
WorkerLock(w) ==
    /\ pc[w] \in {"mutate", "settle"} => locked[w] = {work[w].doc}
    /\ pc[w] = "members" => locked[w] \subseteq Members(w) /\ locked[w] # Members(w)
    /\ pc[w] = "check" => locked[w] = Members(w) /\ checked[w] \subseteq Members(w)
    /\ pc[w] \notin Busy => locked[w] = {}
LockInv == Exclusive /\ \A w \in Workers : WorkerLock(w)

(* An actor with requests is scheduled until its last request has settled,   *)
(* and only an actor that is not scheduled is retired.  A member that a      *)
(* group found ready stays, because the group holds its state.               *)
ActorRetire(d) ==
    /\ mailbox[d].queue # <<>> => mailbox[d].scheduled
    /\ mailbox[d].retired => ~ mailbox[d].scheduled
WorkerRetire(w) ==
    /\ pc[w] \in {"mutate", "settle"} => mailbox[work[w].doc].scheduled
    /\ pc[w] = "check" => \A d \in checked[w] : ~ mailbox[d].retired
RetireInv == (\A d \in Docs : ActorRetire(d)) /\ \A w \in Workers : WorkerRetire(w)

(* Requests are told apart by their number.                                  *)
NumberInv ==
    /\ \E n \in Nat : Accepted = 1..n
    /\ \A d \in Docs : \A i, j \in 1..Len(accepted[d]) : accepted[d][i] = accepted[d][j] => i = j

(* The first n requests accepted for d have taken effect.                    *)
AppliedUpTo(d, n) ==
    \A m \in 1..n : \E j \in 1..Len(applied[d]) : applied[d][j] = RequestEffect(accepted[d][m])
Taken(d) == Len(accepted[d]) - Len(mailbox[d].queue)

(* A mailbox holds what was accepted and not yet taken.  What was taken has  *)
(* taken effect, but for the request that a worker is about to apply.        *)
QueueIs(d) ==
    /\ Taken(d) \in Nat
    /\ \A i \in 1..Len(mailbox[d].queue) : mailbox[d].queue[i] = accepted[d][Taken(d) + i]
EffectsTaken(d) ==
    \A i \in 1..Len(applied[d]) : applied[d][i].kind = "request" =>
        \E k \in 1..Taken(d) : applied[d][i] = RequestEffect(accepted[d][k])
TakenApplied(d) ==
    (\A w \in Workers : pc[w] = "mutate" => work[w].doc # d) => AppliedUpTo(d, Taken(d))
AboutToApply(w) ==
    pc[w] = "mutate" =>
        LET d == work[w].doc
        IN /\ Taken(d) # 0 /\ request[w] = accepted[d][Taken(d)]
           /\ AppliedUpTo(d, Taken(d) - 1)
           /\ \A j \in 1..Len(applied[d]) : applied[d][j] # RequestEffect(request[w])
TakenInv ==
    /\ \A d \in Docs : QueueIs(d) /\ EffectsTaken(d) /\ TakenApplied(d)
    /\ \A w \in Workers : AboutToApply(w)

(* A group that found a member ready found its earlier requests applied.     *)
CheckedAreApplied(w) ==
    pc[w] = "check" => \A d \in checked[w] : AppliedUpTo(d, group[work[w].group].before[d])
GroupIds(d) ==
    \A i \in 1..Len(applied[d]) : applied[d][i].kind = "group" => applied[d][i].id \in 1..Len(group)
ReadyInv == (\A w \in Workers : CheckedAreApplied(w)) /\ \A d \in Docs : GroupIds(d)

-----------------------------------------------------------------------------
(* Least elements, and the workers that a notification wakes.                *)

(* A set of natural numbers has a least element.                             *)
LEMMA LeastNatural ==
    ASSUME NEW S \in SUBSET Nat, S # {}
    PROVE  \E x \in S : \A y \in S : x <= y
<1> DEFINE R == OpToRel(<, Nat)
<1>1. IsWellFoundedOn(R, Nat)
    BY NatLessThanWellFounded
<1>2. \A y, z \in Nat : y < z => <<y, z>> \in R
    BY DEF OpToRel
<1> HIDE DEF R
<1>3. PICK x \in S : \A y \in S : ~ (<<y, x>> \in R)
    BY <1>1, WFMin
<1>4. ASSUME NEW y \in S PROVE x <= y
    <2>1. ~ (y < x)
        BY <1>2, <1>3, Zenon
    <2>2. x \in Nat /\ y \in Nat
        OBVIOUS
    <2> QED
        BY <2>1, <2>2
<1> QED
    BY <1>4

(* Min of a nonempty set of numbers is its least member.                   *)
LEMMA MinIsLeast ==
    ASSUME NEW S \in SUBSET Nat, S # {}
    PROVE  Min(S) \in S /\ \A y \in S : Min(S) <= y
    BY LeastNatural DEF Min

(* Only workers without work are woken or started.                           *)
Others(w) ==
    /\ pc' \in [Workers -> States]
    /\ \A v \in Workers \ {w} : pc'[v] = pc[v] \/ (pc[v] \in Resting /\ pc'[v] \in Resting)
Quiet ==
    /\ pc' \in [Workers -> States]
    /\ \A v \in Workers : pc'[v] = pc[v] \/ (pc[v] \in Resting /\ pc'[v] \in Resting)

(* Waking the workers moves none that is not resting.                      *)
LEMMA NotifyAllFacts ==
    ASSUME Shape
    PROVE  /\ NotifyAll(pc) \in [Workers -> States]
           /\ \A v \in Workers : \/ NotifyAll(pc)[v] = pc[v]
                                 \/ pc[v] \in Resting /\ NotifyAll(pc)[v] \in Resting
    BY DEF Shape, NotifyAll, States, Resting

(* Work that is admitted goes to the end of the ready queue.               *)
LEMMA AdmitEffect ==
    ASSUME Shape, NEW x \in Works \ {Nothing}, Admit(x)
    PROVE  /\ Quiet
           /\ ready' \in Ready
           /\ ready'.queue = Append(ready.queue, x)
<1>1. PICK p \in EnsureWorker(pc) : pc' \in NotifyOne(p)
    BY DEF Admit
<1>2. /\ p \in [Workers -> States]
      /\ \A v \in Workers : p[v] = pc[v] \/ (pc[v] \in Resting /\ p[v] \in Resting)
    <2>1. CASE p = pc
        BY <2>1 DEF Shape
    <2>2. CASE p # pc
        <3>1. /\ Started(pc) # Workers
              /\ p = [pc EXCEPT ![Min(Workers \ Started(pc))] = "next"]
            BY <1>1, <2>2 DEF EnsureWorker
        <3>2. Workers \ Started(pc) \in SUBSET Nat /\ Workers \ Started(pc) # {}
            BY <3>1 DEF Started, Workers
        <3>3. Min(Workers \ Started(pc)) \in Workers \ Started(pc)
            BY <3>2, MinIsLeast
        <3> DEFINE u == Min(Workers \ Started(pc))
        <3>4. u \in Workers /\ pc[u] = "unstarted"
            BY <3>3 DEF Started
        <3>5. p = [pc EXCEPT ![u] = "next"]
            BY <3>1
        <3> HIDE DEF u
        <3> QED
            BY <3>4, <3>5 DEF Shape, States, Resting
    <2> QED
        BY <2>1, <2>2
<1>3. pc' = p \/ \E w \in Workers : p[w] = "waiting" /\ pc' = [p EXCEPT ![w] = "woken"]
    BY <1>1 DEF NotifyOne, Waiting
<1>4. Quiet
    <2>1. CASE pc' = p
        BY <1>2, <2>1 DEF Quiet
    <2>2. CASE pc' # p
        <3>1. PICK w \in Workers : p[w] = "waiting" /\ pc' = [p EXCEPT ![w] = "woken"]
            BY <1>3, <2>2
        <3>2. pc[w] \in Resting /\ pc'[w] = "woken"
            BY <1>2, <3>1 DEF Resting
        <3>3. \A v \in Workers \ {w} : pc'[v] = p[v]
            BY <1>2, <3>1
        <3>4. pc' \in [Workers -> States]
            BY <1>2, <3>1 DEF States, Resting
        <3> QED
            BY <1>2, <3>2, <3>3, <3>4 DEF Quiet, Resting
    <2> QED
        BY <2>1, <2>2
<1>5. ready' = [ready EXCEPT !.admitted = ready.admitted + 1, !.queue = Append(ready.queue, x)]
    BY DEF Admit
<1>6. Append(ready.queue, x) \in Seq(Works \ {Nothing})
    BY DEF Shape, Ready
<1>7. ready'.queue = Append(ready.queue, x) /\ ready' \in Ready
    <2> DEFINE q == Append(ready.queue, x)
               a == ready.admitted + 1
    <2>1. ready = [queue |-> ready.queue, admitted |-> ready.admitted, closed |-> ready.closed]
        BY DEF Shape, Ready
    <2>2. q \in Seq(Works \ {Nothing}) /\ a \in Int /\ ready.closed \in BOOLEAN
        BY <1>6 DEF Shape, Ready
    <2>3. ready' = [queue |-> q, admitted |-> a, closed |-> ready.closed]
        BY <1>5, <2>1
    <2> HIDE DEF q, a
    <2>4. ready'.queue = q /\ ready' \in Ready
        BY <2>2, <2>3 DEF Ready
    <2> QED
        BY <2>4 DEF q
<1> QED
    BY <1>4, <1>7

(* What the steps of the callers do to a mailbox.                            *)
OnlyMailbox(d) ==
    /\ mailbox' \in [Docs -> Mailbox]
    /\ \A e \in Docs \ {d} : mailbox'[e] = mailbox[e]

(* Replacing one mailbox changes no other.                                 *)
LEMMA MailboxChanges ==
    ASSUME Shape, NEW d \in Docs, NEW m \in Mailbox, mailbox' = [mailbox EXCEPT ![d] = m]
    PROVE  OnlyMailbox(d) /\ mailbox'[d] = m
    BY DEF Shape, OnlyMailbox

OnlyDoc(d) == doc' \in [Docs -> Document] /\ \A e \in Docs \ {d} : doc'[e] = doc[e]

(* Replacing one document changes no other.                                *)
LEMMA DocChanges ==
    ASSUME Shape, NEW d \in Docs, NEW x \in Document, doc' = [doc EXCEPT ![d] = x]
    PROVE  OnlyDoc(d)
    BY DEF Shape, OnlyDoc

(* A changed document is a document.                                       *)
LEMMA MutatedType ==
    ASSUME NEW x \in Document
    PROVE  Mutated(x) \in Document
<1> DEFINE n == IF x.depth < x.limit THEN x.depth + 1 ELSE x.limit
<1>1. x.revision + 1 \in Nat /\ n \in Nat
    BY DEF Document
<1>2. Mutated(x) = [x EXCEPT !.revision = x.revision + 1, !.depth = n]
    BY DEF Mutated
<1> HIDE DEF n
<1> QED
    BY <1>1, <1>2 DEF Document

(* A document under a new history limit is a document.                     *)
LEMMA LimitedType ==
    ASSUME NEW x \in Document, NEW l \in Nat
    PROVE  Limited(x, l) \in Document
<1> DEFINE n == IF x.depth < l THEN x.depth ELSE l
<1>1. n \in Nat
    BY DEF Document
<1>2. Limited(x, l) = [x EXCEPT !.limit = l, !.depth = n]
    BY DEF Limited, Document
<1> HIDE DEF n
<1> QED
    BY <1>1, <1>2 DEF Document

(* submit: a new request, last in its mailbox; the actor is ready.         *)
LEMMA SubmitEffect ==
    ASSUME Shape, NumberInv, NEW d \in Docs, Submit(d)
    PROVE  \E r \in Nat \ {0} :
              /\ Accepted = 1..(r - 1)
              /\ Quiet /\ ready' \in Ready
              /\ ready' = ready \/ ready'.queue = Append(ready.queue, [kind |-> "actor", doc |-> d])
              /\ OnlyMailbox(d)
              /\ mailbox'[d].queue = Append(mailbox[d].queue, r)
              /\ mailbox'[d].scheduled /\ ~ mailbox'[d].retired /\ ~ mailbox[d].retired
              /\ accepted' = [accepted EXCEPT ![d] = Append(accepted[d], r)]
<1>1. PICK n \in Nat : Accepted = 1..n
    BY DEF NumberInv
<1>2. Cardinality(Accepted) + 1 = n + 1
    <2>1. Cardinality(1..n) = IF 1 > n THEN 0 ELSE n - 1 + 1
        BY <1>1, FS_Interval
    <2> QED
        BY <1>1, <2>1
<1> DEFINE r == n + 1
           m == [mailbox[d] EXCEPT !.queue = Append(mailbox[d].queue, r), !.scheduled = TRUE]
<1>3. r \in Nat \ {0} /\ Accepted = 1..(r - 1)
    BY <1>1
<1>4. mailbox[d] \in Mailbox
    BY DEF Shape
<1>5. /\ m \in Mailbox /\ m.queue = Append(mailbox[d].queue, r) /\ m.scheduled
      /\ m.retired = mailbox[d].retired
    <2>1. Append(mailbox[d].queue, r) \in Seq(Nat)
        BY <1>3, <1>4, AppendProperties DEF Mailbox
    <2> HIDE DEF r
    <2> QED
        BY <1>4, <2>1 DEF Mailbox
<1>6. mailbox' = [mailbox EXCEPT ![d] = m]
    <2>1. mailbox' = [mailbox EXCEPT ![d].queue = Append(@, r), ![d].scheduled = TRUE]
        BY <1>2 DEF Submit
    <2> HIDE DEF r
    <2> QED
        BY <2>1 DEF Shape
<1>7. accepted' = [accepted EXCEPT ![d] = Append(accepted[d], r)]
    BY <1>2 DEF Submit, Shape
<1>8. OnlyMailbox(d) /\ mailbox'[d] = m
    BY <1>5, <1>6, MailboxChanges
<1>9. Quiet /\ ready' \in Ready
      /\ (ready' = ready \/ ready'.queue = Append(ready.queue, [kind |-> "actor", doc |-> d]))
    <2>1. CASE UNCHANGED <<pc, ready>>
        BY <2>1 DEF Quiet, Shape
    <2>2. CASE Admit([kind |-> "actor", doc |-> d])
        <3>1. [kind |-> "actor", doc |-> d] \in Works \ {Nothing}
            BY DEF Works, Nothing
        <3> QED
            BY <2>2, <3>1, AdmitEffect
    <2> QED
        BY <2>1, <2>2 DEF Submit
<1>10. ~ mailbox[d].retired
    BY DEF Submit
<1> HIDE DEF m, r
<1> QED
    BY <1>3, <1>5, <1>7, <1>8, <1>9, <1>10

(* configure_history_limit never touches a retired document.               *)
LEMMA ConfigureEffect ==
    ASSUME Shape, NEW d \in Docs, NEW limit \in Limits, ConfigureHistoryLimit(d, limit)
    PROVE  /\ Quiet /\ ready' \in Ready
           /\ \/ ready' = ready
              \/ ready'.queue = Append(ready.queue, [kind |-> "policy", doc |-> d, limit |-> limit])
           /\ OnlyDoc(d) /\ OnlyMailbox(d) /\ ~ mailbox[d].retired
           /\ mailbox'[d].queue = mailbox[d].queue
           /\ mailbox'[d].scheduled = mailbox[d].scheduled
           /\ mailbox'[d].retired = mailbox[d].retired
<1> DEFINE m == [mailbox[d] EXCEPT !.configured = limit]
<1>1. mailbox[d] \in Mailbox /\ limit \in Nat
    BY ConstantsAssumption DEF Shape
<1>2. /\ m \in Mailbox /\ m.queue = mailbox[d].queue /\ m.scheduled = mailbox[d].scheduled
      /\ m.retired = mailbox[d].retired
    BY <1>1 DEF Mailbox
<1>3. mailbox' = [mailbox EXCEPT ![d] = m] /\ ~ mailbox[d].retired
    BY DEF ConfigureHistoryLimit, Shape
<1>4. OnlyMailbox(d) /\ mailbox'[d] = m
    BY <1>2, <1>3, MailboxChanges
<1> HIDE DEF m
<1>5. CASE UNCHANGED <<pc, ready>> /\ doc' = [doc EXCEPT ![d].limit = limit]
    <2> DEFINE x == [doc[d] EXCEPT !.limit = limit]
    <2>1. x \in Document
        BY <1>1 DEF Shape, Document
    <2>2. doc' = [doc EXCEPT ![d] = x]
        BY <1>5 DEF Shape
    <2> HIDE DEF x
    <2>3. OnlyDoc(d)
        BY <2>1, <2>2, DocChanges
    <2> QED
        BY <1>2, <1>3, <1>4, <1>5, <2>3 DEF Quiet, Shape
<1>6. CASE Admit([kind |-> "policy", doc |-> d, limit |-> limit]) /\ UNCHANGED doc
    <2>1. [kind |-> "policy", doc |-> d, limit |-> limit] \in Works \ {Nothing}
        BY DEF Works, Nothing
    <2>2. OnlyDoc(d)
        BY <1>6 DEF OnlyDoc, Shape
    <2> QED
        BY <1>2, <1>3, <1>4, <1>6, <2>1, <2>2, AdmitEffect
<1> QED
    BY <1>5, <1>6 DEF ConfigureHistoryLimit

(* A document is retired, or freed, only while its mailbox rests.          *)
LEMMA MoveEffect ==
    ASSUME Shape, NEW d \in Docs, MigrateSpill(d) \/ CancelSpill(d)
    PROVE  /\ OnlyMailbox(d)
           /\ mailbox'[d].queue = mailbox[d].queue
           /\ mailbox'[d].scheduled = mailbox[d].scheduled
           /\ StateFree(d)
           /\ \/ ~ mailbox'[d].retired
              \/ ~ mailbox[d].scheduled /\ mailbox[d].queue = <<>>
<1> DEFINE m == [mailbox[d] EXCEPT !.retired = TRUE]
           n == [mailbox[d] EXCEPT !.retired = FALSE]
<1>1. mailbox[d] \in Mailbox
    BY DEF Shape
<1>2. /\ m \in Mailbox /\ m.queue = mailbox[d].queue /\ m.scheduled = mailbox[d].scheduled
      /\ n \in Mailbox /\ n.queue = mailbox[d].queue /\ n.scheduled = mailbox[d].scheduled
      /\ ~ n.retired
    BY <1>1 DEF Mailbox
<1>3. CASE MigrateSpill(d)
    <2>1. mailbox' = [mailbox EXCEPT ![d] = m]
        BY <1>3 DEF MigrateSpill, Shape
    <2>2. OnlyMailbox(d) /\ mailbox'[d] = m
        BY <1>2, <2>1, MailboxChanges
    <2> HIDE DEF m, n
    <2> QED
        BY <1>2, <1>3, <2>2 DEF MigrateSpill, IdleActor
<1>4. CASE CancelSpill(d)
    <2>1. mailbox' = [mailbox EXCEPT ![d] = n]
        BY <1>4 DEF CancelSpill, Shape
    <2>2. OnlyMailbox(d) /\ mailbox'[d] = n
        BY <1>2, <2>1, MailboxChanges
    <2> HIDE DEF m, n
    <2> QED
        BY <1>2, <1>4, <2>2 DEF CancelSpill
<1> QED
    BY <1>3, <1>4

(* What the steps of the workers do.                                         *)
OnlyWork(w) == work' \in [Workers -> Works] /\ \A v \in Workers \ {w} : work'[v] = work[v]

(* What each kind of work names, and where a worker enters it.             *)
LEMMA KindFacts ==
    ASSUME NEW x \in Works
    PROVE  /\ x.kind = "actor" => x.doc \in Docs
           /\ x.kind = "policy" => x.doc \in Docs
           /\ x # Nothing => x.kind \in {"actor", "policy", "group"}
           /\ Nothing.kind = "nothing"
           /\ x.kind = "actor" => Entry(x) = "lock"
           /\ x.kind = "policy" => Entry(x) = "policy"
           /\ x.kind = "group" => Entry(x) = "members"
    BY DEF Works, Nothing, Entry

(* A resting worker takes the work at the head of the queue.               *)
LEMMA TakeWorkEffect ==
    ASSUME Shape, NEW w \in Workers, TakeWork(w)
    PROVE  /\ Others(w) /\ OnlyWork(w)
           /\ ready' \in Ready /\ ready.queue # <<>> /\ ready'.queue = Tail(ready.queue)
           /\ work'[w] = ready.queue[1] /\ work'[w] \in Works \ {Nothing}
           /\ pc'[w] = Entry(work'[w]) /\ pc[w] \in Resting
<1>1. /\ ready.queue \in Seq(Works \ {Nothing}) /\ ready.queue # <<>> /\ pc[w] \in Resting
    BY DEF TakeWork, Shape, Ready, Resting
<1>2. /\ Head(ready.queue) \in Works \ {Nothing} /\ Head(ready.queue) = ready.queue[1]
      /\ Tail(ready.queue) \in Seq(Works \ {Nothing})
    BY <1>1, HeadTailProperties
<1> DEFINE x == Head(ready.queue)
<1>3. /\ work' = [work EXCEPT ![w] = x] /\ pc' = [pc EXCEPT ![w] = Entry(x)]
      /\ ready' = [ready EXCEPT !.queue = Tail(ready.queue)]
    BY DEF TakeWork, Shape
<1>4. Entry(x) \in States
    BY <1>2, KindFacts DEF States, ServesActor
<1> HIDE DEF x
<1>5. ready'.queue = Tail(ready.queue) /\ ready' \in Ready
    BY <1>2, <1>3 DEF Shape, Ready
<1>6. Others(w) /\ pc'[w] = Entry(x)
    BY <1>3, <1>4 DEF Shape, Others
<1>7. OnlyWork(w) /\ work'[w] = x
    BY <1>2, <1>3 DEF Shape, OnlyWork, x
<1> QED
    BY <1>1, <1>2, <1>5, <1>6, <1>7 DEF x

(* The actor's worker takes the document and its oldest request.           *)
LEMMA TakeRequestEffect ==
    ASSUME Shape, WorkInv, NEW w \in Workers, TakeRequest(w)
    PROVE  LET d == work[w].doc
           IN /\ d \in Docs /\ StateFree(d)
              /\ Others(w) /\ pc[w] = "lock" /\ pc'[w] = "mutate"
              /\ locked' \in [Workers -> SUBSET Docs] /\ locked'[w] = {d}
              /\ \A v \in Workers \ {w} : locked'[v] = locked[v]
              /\ mailbox[d].queue # <<>> /\ OnlyMailbox(d)
              /\ mailbox'[d].queue = Tail(mailbox[d].queue)
              /\ mailbox'[d].scheduled = mailbox[d].scheduled
              /\ mailbox'[d].retired = mailbox[d].retired
              /\ request' \in [Workers -> Nat] /\ request'[w] = mailbox[d].queue[1]
              /\ \A v \in Workers \ {w} : request'[v] = request[v]
<1>1. PICK d \in Docs : d = work[w].doc
    BY KindFacts DEF Shape, WorkInv, WorkerWork, TakeRequest, ServesActor
<1>2. /\ mailbox[d] \in Mailbox /\ mailbox[d].queue \in Seq(Nat) /\ mailbox[d].queue # <<>>
      /\ pc[w] = "lock" /\ StateFree(d)
    BY <1>1 DEF Shape, Mailbox, TakeRequest
<1>3. /\ Head(mailbox[d].queue) \in Nat /\ Head(mailbox[d].queue) = mailbox[d].queue[1]
      /\ Tail(mailbox[d].queue) \in Seq(Nat)
    BY <1>2, HeadTailProperties
<1> DEFINE m == [mailbox[d] EXCEPT !.queue = Tail(mailbox[d].queue)]
<1>4. /\ m \in Mailbox /\ m.queue = Tail(mailbox[d].queue) /\ m.scheduled = mailbox[d].scheduled
      /\ m.retired = mailbox[d].retired
    BY <1>2, <1>3 DEF Mailbox
<1>5. /\ mailbox' = [mailbox EXCEPT ![d] = m]
      /\ request' = [request EXCEPT ![w] = mailbox[d].queue[1]]
      /\ locked' = [locked EXCEPT ![w] = {d}]
      /\ pc' = [pc EXCEPT ![w] = "mutate"]
    BY <1>1, <1>3 DEF TakeRequest, Shape
<1>6. OnlyMailbox(d) /\ mailbox'[d] = m
    BY <1>4, <1>5, MailboxChanges
<1>7. Others(w) /\ pc'[w] = "mutate"
    BY <1>5 DEF Shape, Others, States, ServesActor
<1>8. /\ locked' \in [Workers -> SUBSET Docs] /\ locked'[w] = {d}
      /\ \A v \in Workers \ {w} : locked'[v] = locked[v]
    BY <1>5 DEF Shape
<1>9. /\ request' \in [Workers -> Nat] /\ request'[w] = mailbox[d].queue[1]
      /\ \A v \in Workers \ {w} : request'[v] = request[v]
    BY <1>3, <1>5 DEF Shape
<1> HIDE DEF m
<1> QED
    BY <1>1, <1>2, <1>4, <1>6, <1>7, <1>8, <1>9

(* A worker at a document's steps has work for a document.                 *)
LEMMA ActorFacts ==
    ASSUME Shape, WorkInv, NEW w \in Workers, pc[w] \in ServesActor \cup {"policy"}
    PROVE  work[w].doc \in Docs
    BY KindFacts DEF Shape, WorkInv, WorkerWork

(* The one step at which a request takes effect on its document.           *)
LEMMA MutateEffect ==
    ASSUME Shape, WorkInv, NEW w \in Workers, Mutate(w)
    PROVE  LET d == work[w].doc
           IN /\ d \in Docs /\ Others(w) /\ pc[w] = "mutate" /\ pc'[w] = "settle"
              /\ OnlyDoc(d)
              /\ applied' \in [Docs -> Seq(Effects)]
              /\ applied'[d] = Append(applied[d], RequestEffect(request[w]))
              /\ \A e \in Docs \ {d} : applied'[e] = applied[e]
<1>1. PICK d \in Docs : d = work[w].doc
    BY ActorFacts DEF Mutate, ServesActor
<1>2. RequestEffect(request[w]) \in Effects
    BY DEF Shape, RequestEffect, Effects
<1> DEFINE s == Append(applied[d], RequestEffect(request[w]))
<1>3. s \in Seq(Effects)
    BY <1>2, AppendProperties DEF Shape
<1>4. applied' = [applied EXCEPT ![d] = s] /\ pc' = [pc EXCEPT ![w] = "settle"] /\ pc[w] = "mutate"
    BY <1>1 DEF Mutate
<1> HIDE DEF s
<1>5. /\ applied' \in [Docs -> Seq(Effects)] /\ applied'[d] = s
      /\ \A e \in Docs \ {d} : applied'[e] = applied[e]
    BY <1>3, <1>4 DEF Shape
<1>6. Others(w) /\ pc'[w] = "settle"
    BY <1>4 DEF Shape, Others, States, ServesActor
<1>7. OnlyDoc(d)
    <2>1. CASE doc' = doc
        BY <2>1 DEF OnlyDoc, Shape
    <2>2. CASE doc' # doc
        <3>1. doc' = [doc EXCEPT ![d] = Mutated(doc[d])]
            BY <1>1, <2>2 DEF Mutate
        <3> QED
            BY <3>1, MutatedType, DocChanges DEF Shape
    <2> QED
        BY <2>1, <2>2
<1> QED
    BY <1>1, <1>4, <1>5, <1>6, <1>7 DEF s

(* The document goes back, and is scheduled again if more is queued.       *)
LEMMA SettleEffect ==
    ASSUME Shape, WorkInv, NEW w \in Workers, Settle(w)
    PROVE  LET d == work[w].doc
           IN /\ d \in Docs /\ Others(w) /\ pc[w] = "settle" /\ pc'[w] \in {"last", "reply"}
              /\ locked' \in [Workers -> SUBSET Docs] /\ locked'[w] = {}
              /\ \A v \in Workers \ {w} : locked'[v] = locked[v]
              /\ ready' \in Ready /\ ready'.queue = ready.queue
              /\ OnlyMailbox(d)
              /\ mailbox'[d].queue = mailbox[d].queue
              /\ mailbox'[d].retired = mailbox[d].retired
              /\ mailbox'[d].scheduled <=> mailbox[d].scheduled /\ mailbox[d].queue # <<>>
<1>1. PICK d \in Docs : d = work[w].doc
    BY ActorFacts DEF Settle, ServesActor
<1> DEFINE b == mailbox[d].scheduled /\ mailbox[d].queue # <<>>
           m == [mailbox[d] EXCEPT !.scheduled = b]
<1>2. mailbox[d] \in Mailbox
    BY DEF Shape
<1>3. /\ m \in Mailbox /\ m.queue = mailbox[d].queue /\ m.retired = mailbox[d].retired
      /\ m.scheduled = b
    BY <1>2 DEF Mailbox
<1>4. mailbox' = [mailbox EXCEPT ![d] = m]
    <2>1. mailbox' = [mailbox EXCEPT ![d].scheduled = @ /\ ~ (mailbox[d].queue = <<>>)]
        BY <1>1 DEF Settle
    <2> QED
        BY <2>1 DEF Shape
<1>5. OnlyMailbox(d) /\ mailbox'[d] = m
    BY <1>3, <1>4, MailboxChanges
<1>6. ready' \in Ready /\ ready'.queue = ready.queue
    <2>1. CASE ready' = ready
        BY <2>1 DEF Shape
    <2>2. CASE ready' = Released
        <3> DEFINE a == ready.admitted - 1
        <3>1. a \in Int /\ ready' = [ready EXCEPT !.admitted = a]
            BY <2>2 DEF Shape, Ready, Released
        <3> HIDE DEF a
        <3> QED
            BY <3>1 DEF Shape, Ready
    <2> QED
        BY <2>1, <2>2 DEF Settle
<1>7. /\ locked' \in [Workers -> SUBSET Docs] /\ locked'[w] = {}
      /\ \A v \in Workers \ {w} : locked'[v] = locked[v]
    BY DEF Settle, Shape
<1>8. Others(w) /\ pc[w] = "settle" /\ pc'[w] \in {"last", "reply"}
    <2>1. \E x \in {"last", "reply"} : \/ pc' = [pc EXCEPT ![w] = x]
                                      \/ pc' = [NotifyAll(pc) EXCEPT ![w] = x]
        BY DEF Settle
    <2>2. {"last", "reply"} \subseteq States /\ pc[w] = "settle"
        BY DEF States, ServesActor, Settle
    <2> QED
        BY <2>1, <2>2, NotifyAllFacts DEF Shape, Others
<1> HIDE DEF m
<1> QED
    BY <1>1, <1>3, <1>5, <1>6, <1>7, <1>8

(* After an answer the worker goes on, yields or is done.                  *)
LEMMA ReplyEffect ==
    ASSUME Shape, NEW w \in Workers, Reply(w)
    PROVE  /\ Others(w) /\ OnlyWork(w) /\ pc[w] \in {"last", "reply"}
           /\ request' \in [Workers -> Nat] /\ \A v \in Workers \ {w} : request'[v] = request[v]
           /\ \/ pc'[w] = "next" /\ work'[w] = Nothing
              \/ pc'[w] \in {"yield", "lock"} /\ work'[w] = work[w]
<1>1. /\ request' \in [Workers -> Nat]
      /\ \A v \in Workers \ {w} : request'[v] = request[v]
    BY DEF Reply, Shape
<1>2. Nothing \in Works
    BY DEF Works
<1>3. CASE pc[w] = "last"
    <2>1. pc' = [pc EXCEPT ![w] = "next"] /\ work' = [work EXCEPT ![w] = Nothing]
        BY <1>3 DEF Reply
    <2>2. OnlyWork(w) /\ work'[w] = Nothing
        BY <1>2, <2>1 DEF Shape, OnlyWork
    <2>3. Others(w) /\ pc'[w] = "next"
        BY <2>1 DEF Shape, Others, States, Resting
    <2> QED
        BY <1>1, <1>3, <2>2, <2>3
<1>4. CASE pc[w] = "reply"
    <2>1. \E x \in {"yield", "lock"} : pc' = [pc EXCEPT ![w] = x]
        BY <1>4 DEF Reply
    <2>2. work' = [work EXCEPT ![w] = work[w]]
        BY <1>4 DEF Reply
    <2> QED
        BY <1>1, <1>4, <2>1, <2>2 DEF Shape, Others, OnlyWork, States, ServesActor
<1> QED
    BY <1>3, <1>4 DEF Reply

(* An actor past its quantum goes to the end of the ready queue.           *)
LEMMA YieldEffect ==
    ASSUME Shape, WorkInv, NEW w \in Workers, Yield(w)
    PROVE  /\ Others(w) /\ OnlyWork(w) /\ pc[w] = "yield" /\ pc'[w] = "next"
           /\ work[w].kind = "actor" /\ work'[w] = Nothing
           /\ ready' \in Ready /\ ready'.queue = Append(ready.queue, work[w])
<1>1. work[w].kind = "actor" /\ work[w] \in Works \ {Nothing}
    BY KindFacts DEF Shape, WorkInv, WorkerWork, Yield, ServesActor
<1>2. pc[w] = "yield" /\ pc' = [NotifyAll(pc) EXCEPT ![w] = "next"] /\ work' = [work EXCEPT ![w] = Nothing]
    BY DEF Yield
<1> DEFINE q == Append(ready.queue, work[w])
<1>3. q \in Seq(Works \ {Nothing})
    BY <1>1, AppendProperties DEF Shape, Ready
<1>4. ready' = [ready EXCEPT !.queue = q]
    BY DEF Yield, Yielded
<1> HIDE DEF q
<1>5. ready' \in Ready /\ ready'.queue = q
    BY <1>3, <1>4 DEF Shape, Ready
<1>6. Others(w) /\ OnlyWork(w) /\ pc'[w] = "next" /\ work'[w] = Nothing
    BY <1>2, NotifyAllFacts DEF Shape, Others, OnlyWork, States, Resting, Works
<1> QED
    BY <1>1, <1>2, <1>5, <1>6 DEF q

(* A late policy changes one document, unless it is retired.               *)
LEMMA ApplyPolicyEffect ==
    ASSUME Shape, WorkInv, NEW w \in Workers, ApplyPolicy(w)
    PROVE  LET d == work[w].doc
           IN /\ d \in Docs /\ Others(w) /\ pc[w] = "policy" /\ pc'[w] = "complete"
              /\ OnlyDoc(d)
              /\ mailbox[d].retired => doc' = doc
<1>1. work[w].doc \in Docs
    BY ActorFacts DEF ApplyPolicy
<1>2. Others(w) /\ pc[w] = "policy" /\ pc'[w] = "complete"
    BY DEF ApplyPolicy, Shape, Others, States
<1>3. OnlyDoc(work[w].doc) /\ (mailbox[work[w].doc].retired => doc' = doc)
    <2>1. PICK d \in Docs : d = work[w].doc
        BY <1>1
    <2>2. mailbox[d].configured \in Nat
        BY DEF Shape, Mailbox
    <2>3. doc' = IF mailbox[d].retired THEN doc
                 ELSE [doc EXCEPT ![d] = Limited(doc[d], mailbox[d].configured)]
        BY <2>1 DEF ApplyPolicy
    <2>4. OnlyDoc(d)
        BY <2>2, <2>3, LimitedType, DocChanges DEF OnlyDoc, Shape
    <2> QED
        BY <2>1, <2>3, <2>4
<1> QED
    BY <1>1, <1>2, <1>3

(* Groups keep their members and what their callers saw.                     *)
GroupsKept ==
    /\ group' \in Seq(Group) /\ Len(group') = Len(group)
    /\ \A g \in 1..Len(group) : group'[g].members = group[g].members /\ group'[g].before = group[g].before

(* A worker at a group's steps has a group with members.                   *)
LEMMA GroupFacts ==
    ASSUME Shape, WorkInv, NEW w \in Workers, pc[w] \in {"members", "check", "answer"}
    PROVE  /\ work[w].group \in 1..Len(group) /\ work[w].kind = "group"
           /\ Members(w) \in SUBSET Docs /\ Members(w) # {}
<1>1. work[w].group \in 1..Len(group) /\ work[w].kind = "group"
    BY DEF WorkInv, WorkerWork
<1>2. DOMAIN group = 1..Len(group)
    BY DEF Shape
<1>3. group[work[w].group] \in Group
    BY <1>1, <1>2 DEF Shape
<1> QED
    BY <1>1, <1>2, <1>3 DEF Group, Members

(* Deciding and answering a group change neither members nor bounds.       *)
LEMMA GroupEnds ==
    ASSUME Shape, WorkInv, NEW w \in Workers, pc[w] \in {"members", "check", "answer"},
           \/ \E o \in {"refused", "committed"} : group' = [group EXCEPT ![work[w].group].outcome = o]
           \/ group' = [group EXCEPT ![work[w].group].replied = TRUE]
    PROVE  GroupsKept
<1>1. PICK g \in 1..Len(group) : g = work[w].group
    BY GroupFacts
<1>2. group \in [1..Len(group) -> Group] /\ Len(group) \in Nat /\ group[g] \in Group
    BY DEF Shape
<1>3. ASSUME NEW r \in Group, group' = [group EXCEPT ![g] = r],
             r.members = group[g].members, r.before = group[g].before
      PROVE  GroupsKept
    <2>1. group' \in [1..Len(group) -> Group]
        BY <1>2, <1>3
    <2>2. group' \in Seq(Group) /\ Len(group') = Len(group)
        BY <1>2, <2>1
    <2> QED
        BY <1>2, <1>3, <2>2 DEF GroupsKept
<1>4. CASE \E o \in {"refused", "committed"} : group' = [group EXCEPT ![work[w].group].outcome = o]
    <2>1. PICK o \in {"refused", "committed"} : group' = [group EXCEPT ![g].outcome = o]
        BY <1>1, <1>4
    <2> DEFINE r == [group[g] EXCEPT !.outcome = o]
    <2>2. r \in Group /\ r.members = group[g].members /\ r.before = group[g].before
        BY <1>2 DEF Group
    <2>3. group' = [group EXCEPT ![g] = r]
        BY <1>2, <2>1
    <2> HIDE DEF r
    <2> QED
        BY <1>3, <2>2, <2>3
<1>5. CASE group' = [group EXCEPT ![work[w].group].replied = TRUE]
    <2> DEFINE r == [group[g] EXCEPT !.replied = TRUE]
    <2>2. r \in Group /\ r.members = group[g].members /\ r.before = group[g].before
        BY <1>2 DEF Group
    <2>3. group' = [group EXCEPT ![g] = r]
        BY <1>1, <1>2, <1>5
    <2> HIDE DEF r
    <2> QED
        BY <1>3, <2>2, <2>3
<1> QED
    BY <1>4, <1>5

(* A group that ends gives all of its locks back.                          *)
LEMMA FinishEffect ==
    ASSUME Shape, WorkInv, NEW w \in Workers, pc[w] = "check",
           FinishGroup(w, "refused") \/ FinishGroup(w, "committed")
    PROVE  /\ Others(w) /\ pc'[w] = "complete" /\ GroupsKept
           /\ locked' \in [Workers -> SUBSET Docs] /\ locked'[w] = {}
           /\ \A v \in Workers \ {w} : locked'[v] = locked[v]
<1>1. GroupsKept
    BY GroupEnds DEF FinishGroup
<1>2. locked' = [locked EXCEPT ![w] = {}] /\ pc' = [pc EXCEPT ![w] = "complete"]
    BY DEF FinishGroup
<1> QED
    BY <1>1, <1>2 DEF Shape, Others, States

(* A group takes the least member it lacks, if that is free.               *)
LEMMA LockMemberEffect ==
    ASSUME Shape, WorkInv, LockInv, NEW w \in Workers, LockMember(w)
    PROVE  \E d \in Members(w) :
              /\ Others(w) /\ pc[w] = "members" /\ StateFree(d)
              /\ locked' \in [Workers -> SUBSET Docs] /\ locked'[w] = locked[w] \cup {d}
              /\ \A v \in Workers \ {w} : locked'[v] = locked[v]
              /\ checked' \in [Workers -> SUBSET Docs] /\ checked'[w] = {}
              /\ \A v \in Workers \ {w} : checked'[v] = checked[v]
              /\ \/ pc'[w] = "check" /\ Members(w) = locked'[w]
                 \/ pc'[w] = "members" /\ Members(w) # locked'[w]
<1>1. pc[w] = "members" /\ locked[w] \subseteq Members(w) /\ locked[w] # Members(w)
    BY DEF LockInv, WorkerLock, LockMember
<1>2. Members(w) \in SUBSET Docs
    BY <1>1, GroupFacts
<1>3. PICK d : d = Min(Members(w) \ locked[w])
    OBVIOUS
<1>4. d \in Members(w)
    <2>1. Members(w) \ locked[w] \in SUBSET Nat /\ Members(w) \ locked[w] # {}
        BY <1>1, <1>2 DEF Docs
    <2> QED
        BY <1>3, <2>1, MinIsLeast
<1>5. /\ StateFree(d) /\ locked' = [locked EXCEPT ![w] = locked[w] \cup {d}]
      /\ pc' = [pc EXCEPT ![w] = IF Members(w) = locked[w] \cup {d} THEN "check" ELSE pc[w]]
      /\ checked' = [checked EXCEPT ![w] = {}]
    BY <1>3 DEF LockMember
<1>6. /\ locked' \in [Workers -> SUBSET Docs] /\ locked'[w] = locked[w] \cup {d}
      /\ \A v \in Workers \ {w} : locked'[v] = locked[v]
      /\ checked' \in [Workers -> SUBSET Docs] /\ checked'[w] = {}
      /\ \A v \in Workers \ {w} : checked'[v] = checked[v]
    BY <1>2, <1>4, <1>5 DEF Shape
<1>7. CASE Members(w) = locked[w] \cup {d}
    <2>1. pc' = [pc EXCEPT ![w] = "check"]
        BY <1>5, <1>7
    <2>2. Others(w) /\ pc'[w] = "check"
        BY <2>1 DEF Shape, Others, States
    <2> QED
        BY <1>1, <1>4, <1>5, <1>6, <1>7, <2>2
<1>8. CASE Members(w) # locked[w] \cup {d}
    <2>1. pc' = [pc EXCEPT ![w] = pc[w]]
        BY <1>5, <1>8
    <2> QED
        BY ZenonT(60), <1>1, <1>4, <1>5, <1>6, <1>8, <2>1 DEF Shape, Others, States
<1> QED
    BY <1>7, <1>8

(* A member is checked, or the group ends refused.                         *)
LEMMA CheckMemberEffect ==
    ASSUME Shape, WorkInv, LockInv, NEW w \in Workers, CheckMember(w)
    PROVE  /\ pc[w] = "check"
           /\ \/ /\ UNCHANGED <<pc, locked, group>>
                 /\ checked' \in [Workers -> SUBSET Docs]
                 /\ \A v \in Workers \ {w} : checked'[v] = checked[v]
                 /\ \E d \in Members(w) : /\ MemberReady(work[w].group, d)
                                         /\ checked'[w] = checked[w] \cup {d}
              \/ FinishGroup(w, "refused") /\ UNCHANGED checked
<1>1. pc[w] = "check" /\ checked[w] \subseteq Members(w) /\ checked[w] # Members(w)
    BY DEF LockInv, WorkerLock, CheckMember
<1>2. Members(w) \in SUBSET Docs
    BY <1>1, GroupFacts
<1>3. PICK d : d = Min(Members(w) \ checked[w])
    OBVIOUS
<1>4. d \in Members(w)
    <2>1. Members(w) \ checked[w] \in SUBSET Nat /\ Members(w) \ checked[w] # {}
        BY <1>1, <1>2 DEF Docs
    <2> QED
        BY <1>3, <2>1, MinIsLeast
<1>5. CASE MemberReady(work[w].group, d)
    <2>1. checked' = [checked EXCEPT ![w] = checked[w] \cup {d}] /\ UNCHANGED <<pc, locked, group>>
        BY <1>3, <1>5 DEF CheckMember
    <2> QED
        BY <1>1, <1>2, <1>4, <1>5, <2>1 DEF Shape
<1>6. CASE ~ MemberReady(work[w].group, d)
    BY <1>1, <1>3, <1>6 DEF CheckMember
<1> QED
    BY <1>5, <1>6

(* complete_work: the worker rests, or has a group to answer.              *)
LEMMA CompleteEffect ==
    ASSUME Shape, NEW w \in Workers, CompleteWork(w)
    PROVE  /\ Others(w) /\ OnlyWork(w) /\ pc[w] = "complete"
           /\ \/ pc'[w] = "next" /\ work'[w] = Nothing
              \/ pc'[w] = "answer" /\ work'[w] = work[w] /\ work[w].kind = "group"
           /\ ready' \in Ready /\ ready'.queue = ready.queue
<1>1. ready' \in Ready /\ ready'.queue = ready.queue
    <2> DEFINE a == ready.admitted - 1
    <2>1. a \in Int /\ ready' = [ready EXCEPT !.admitted = a]
        BY DEF Shape, Ready, Released, CompleteWork
    <2> HIDE DEF a
    <2> QED
        BY <2>1 DEF Shape, Ready
<1>2. pc[w] = "complete" /\ Nothing \in Works /\ {"answer", "next"} \subseteq States
    BY DEF CompleteWork, Works, States, Resting
<1>3. CASE work[w].kind = "group"
    <2>1. pc' = [NotifyAll(pc) EXCEPT ![w] = "answer"] /\ work' = work
        BY <1>3 DEF CompleteWork
    <2> QED
        BY <1>1, <1>2, <1>3, <2>1, NotifyAllFacts DEF Shape, Others, OnlyWork
<1>4. CASE work[w].kind # "group"
    <2>1. pc' = [NotifyAll(pc) EXCEPT ![w] = "next"] /\ work' = [work EXCEPT ![w] = Nothing]
        BY <1>4 DEF CompleteWork
    <2> QED
        BY <1>1, <1>2, <1>4, <2>1, NotifyAllFacts DEF Shape, Others, OnlyWork
<1> QED
    BY <1>3, <1>4

(* Once answered, a group is out of its worker's hands.                    *)
LEMMA ReplyGroupEffect ==
    ASSUME Shape, WorkInv, NEW w \in Workers, ReplyGroup(w)
    PROVE  Others(w) /\ OnlyWork(w) /\ GroupsKept /\ pc[w] = "answer" /\ pc'[w] = "next" /\ work'[w] = Nothing
<1>1. GroupsKept
    BY GroupEnds DEF ReplyGroup
<1> QED
    BY <1>1 DEF ReplyGroup, Shape, Others, OnlyWork, States, Resting, Works

(* A worker finds no work, a waiting one wakes, or the queue is closed.      *)
RestingStep == Close \/ \E w \in Workers : NoWork(w) \/ SpuriousWake(w)

(* Waking, leaving, stopping and starting touch no document.               *)
LEMMA RestingEffect ==
    ASSUME Shape, RestingStep
    PROVE  /\ Quiet /\ ready' \in Ready /\ ready'.queue = ready.queue
           /\ UNCHANGED <<work, request, locked, checked, mailbox, doc, group, accepted, applied>>
<1>1. CASE Close
    <2>1. ready' = [ready EXCEPT !.closed = TRUE] /\ pc' = NotifyAll(pc)
        BY <1>1 DEF Close
    <2>2. Quiet
        BY <2>1, NotifyAllFacts DEF Quiet
    <2>3. ready' \in Ready /\ ready'.queue = ready.queue
        BY <2>1 DEF Shape, Ready
    <2> QED
        BY <1>1, <2>2, <2>3 DEF Close, historyVars
<1>2. ASSUME NEW w \in Workers, NoWork(w) \/ SpuriousWake(w) PROVE Quiet
    BY <1>2 DEF NoWork, SpuriousWake, Shape, Quiet, States, Resting
<1> QED
    BY <1>1, <1>2 DEF RestingStep, NoWork, SpuriousWake, historyVars, Shape

(* A group notes what each member had accepted before it.                  *)
LEMMA SubmitGroupEffect ==
    ASSUME Shape, NEW members \in SUBSET Docs, SubmitGroup(members)
    PROVE  \E r \in Group :
              /\ Quiet /\ ready' \in Ready
              /\ ready'.queue = Append(ready.queue, [kind |-> "group", group |-> Len(group) + 1])
              /\ group' = Append(group, r)
              /\ r.members = members
              /\ \A d \in members : r.before[d] = Len(accepted[d])
<1> DEFINE r == [members |-> members, outcome |-> "pending", replied |-> FALSE,
                 base |-> [d \in members |-> doc[d].revision],
                 before |-> [d \in members |-> Len(accepted[d])]]
<1>1. members # {}
    <2>1. Cardinality(members) >= 2
        BY DEF SubmitGroup
    <2>2. Cardinality({}) = 0
        BY FS_EmptySet
    <2> QED
        BY <2>1, <2>2
<1>2. /\ [d \in members |-> doc[d].revision] \in [members -> Nat]
      /\ [d \in members |-> Len(accepted[d])] \in [members -> Nat]
    BY DEF Shape, Document
<1>3. r \in Group /\ r.members = members /\ \A d \in members : r.before[d] = Len(accepted[d])
    BY <1>1, <1>2 DEF Group
<1>4. group' = Append(group, r)
    BY DEF SubmitGroup
<1> HIDE DEF r
<1>5. [kind |-> "group", group |-> Len(group) + 1] \in Works \ {Nothing}
    <2>1. Len(group) \in Nat /\ MaxGroups \in Nat /\ Len(group) < MaxGroups
        BY ConstantsAssumption DEF Shape, SubmitGroup
    <2>2. Len(group) + 1 \in 1..MaxGroups
        BY <2>1
    <2> QED
        BY <2>2 DEF Works, Nothing
<1>6. Admit([kind |-> "group", group |-> Len(group) + 1])
    BY DEF SubmitGroup
<1> QED
    BY <1>3, <1>4, <1>5, <1>6, AdmitEffect

(* The one step at which a group takes effect, on every member.            *)
LEMMA CommitGroupEffect ==
    ASSUME Shape, WorkInv, NEW w \in Workers, CommitGroup(w)
    PROVE  /\ pc[w] = "check" /\ checked[w] = Members(w)
           /\ FinishGroup(w, "refused") \/ FinishGroup(w, "committed")
           /\ doc' \in [Docs -> Document]
           /\ \A d \in Docs \ Members(w) : doc'[d] = doc[d]
           /\ applied' \in [Docs -> Seq(Effects)]
           /\ \/ applied' = applied
              \/ \A d \in Docs : applied'[d] = IF d \in Members(w)
                                                THEN Append(applied[d], GroupEffect(work[w].group))
                                                ELSE applied[d]
<1>1. pc[w] = "check" /\ checked[w] = Members(w)
    BY DEF CommitGroup
<1>2. CASE FinishGroup(w, "refused") /\ UNCHANGED <<doc, applied>>
    BY <1>1, <1>2 DEF Shape
<1>3. CASE /\ doc' = [d \in Docs |-> IF d \in Members(w) THEN Mutated(doc[d]) ELSE doc[d]]
           /\ applied' = [d \in Docs |->
                 IF d \in Members(w) THEN Append(applied[d], GroupEffect(work[w].group))
                                     ELSE applied[d]]
           /\ FinishGroup(w, "committed")
    <2>1. \A d \in Docs : Mutated(doc[d]) \in Document /\ doc[d] \in Document
        BY MutatedType DEF Shape
    <2>2. doc' \in [Docs -> Document] /\ \A d \in Docs \ Members(w) : doc'[d] = doc[d]
        BY <1>3, <2>1
    <2>3. work[w].group \in Nat
        BY <1>1, GroupFacts DEF Shape
    <2>4. GroupEffect(work[w].group) \in Effects
        BY <2>3 DEF GroupEffect, Effects
    <2>5. \A d \in Docs : /\ applied[d] \in Seq(Effects)
                         /\ Append(applied[d], GroupEffect(work[w].group)) \in Seq(Effects)
        BY <2>4, AppendProperties DEF Shape
    <2>6. applied' \in [Docs -> Seq(Effects)]
        BY <1>3, <2>5
    <2> QED
        BY <1>1, <1>3, <2>2, <2>6
<1> QED
    BY <1>2, <1>3 DEF CommitGroup

(* Groups, accepted requests and effects are only ever added.                *)
GroupsGrow ==
    /\ group' \in Seq(Group) /\ Len(group) <= Len(group')
    /\ \A g \in 1..Len(group) : group'[g].members = group[g].members /\ group'[g].before = group[g].before
Extends(t, s) == Len(s) <= Len(t) /\ \A i \in 1..Len(s) : t[i] = s[i]
AcceptedGrow == accepted' \in [Docs -> Seq(Nat)] /\ \A d \in Docs : Extends(accepted'[d], accepted[d])
AppliedGrow == applied' \in [Docs -> Seq(Effects)] /\ \A d \in Docs : Extends(applied'[d], applied[d])

(* A sequence extends itself, and is extended by appending to it.          *)
LEMMA ExtendsFacts ==
    ASSUME NEW S, NEW s \in Seq(S), NEW x \in S
    PROVE  Extends(s, s) /\ Extends(Append(s, x), s)
    BY AppendProperties DEF Extends

(* No step changes the members or the bounds of a group.                   *)
LEMMA GroupsOnlyGrow ==
    ASSUME Shape, WorkInv, Next
    PROVE  GroupsGrow
<1>1. ASSUME GroupsKept PROVE GroupsGrow
    BY <1>1 DEF GroupsKept, GroupsGrow, Shape
<1>2. ASSUME UNCHANGED group PROVE GroupsGrow
    BY <1>2 DEF GroupsGrow, Shape
<1>3. ASSUME NEW members \in SUBSET Docs, SubmitGroup(members) PROVE GroupsGrow
    <2>1. PICK r \in Group : group' = Append(group, r)
        BY <1>3, SubmitGroupEffect
    <2> QED
        BY <2>1, AppendProperties DEF GroupsGrow, Shape
<1>4. ASSUME NEW w \in Workers, WorkerStep(w) PROVE GroupsGrow
    <2>1. CASE CheckMember(w)
        <3>1. pc[w] = "check"
            BY <2>1 DEF CheckMember
        <3> QED
            BY <1>1, <1>2, <2>1, <3>1, FinishEffect DEF CheckMember
    <2>2. CASE CommitGroup(w)
        BY <1>1, <2>2, CommitGroupEffect, FinishEffect
    <2>3. CASE ReplyGroup(w)
        BY <1>1, <2>3, ReplyGroupEffect
    <2>4. CASE TakeWork(w) \/ NoWork(w) \/ ServeActor(w) \/ ApplyPolicy(w) \/ LockMember(w) \/ CompleteWork(w)
        BY <1>2, <2>4 DEF TakeWork, NoWork, ServeActor, TakeRequest, Mutate, Settle, Reply, Yield,
                          ApplyPolicy, LockMember, CompleteWork
    <2> QED
        BY <1>4, <2>1, <2>2, <2>3, <2>4 DEF WorkerStep, RunGroup
<1> QED
    BY <1>2, <1>3, <1>4
       DEF Next, Submit, MigrateSpill, CancelSpill, ConfigureHistoryLimit, Close, SpuriousWake

(* No step forgets an accepted request.                                    *)
LEMMA AcceptedOnlyGrows ==
    ASSUME Shape, NumberInv, Next
    PROVE  AcceptedGrow
<1>1. ASSUME UNCHANGED accepted PROVE AcceptedGrow
    BY <1>1, ExtendsFacts DEF AcceptedGrow, Shape, Extends
<1>2. ASSUME NEW d \in Docs, Submit(d) PROVE AcceptedGrow
    <2>1. PICK r \in Nat : accepted' = [accepted EXCEPT ![d] = Append(accepted[d], r)]
        BY <1>2, SubmitEffect
    <2>2. accepted[d] \in Seq(Nat) /\ Append(accepted[d], r) \in Seq(Nat)
        BY AppendProperties DEF Shape
    <2>3. accepted' \in [Docs -> Seq(Nat)]
        BY <2>1, <2>2 DEF Shape
    <2>4. ASSUME NEW e \in Docs PROVE Extends(accepted'[e], accepted[e])
        <3>1. accepted[e] \in Seq(Nat) /\ accepted'[e] = IF e = d THEN Append(accepted[d], r) ELSE accepted[e]
            BY <2>1 DEF Shape
        <3> QED
            BY <3>1, ExtendsFacts
    <2> QED
        BY <2>3, <2>4 DEF AcceptedGrow
<1> QED
    BY <1>1, <1>2
       DEF Next, MigrateSpill, CancelSpill, ConfigureHistoryLimit, SubmitGroup, Close, SpuriousWake,
           WorkerStep, ServeActor, RunGroup, TakeWork, NoWork, TakeRequest, Mutate, Settle, Reply, Yield,
           ApplyPolicy, LockMember, CheckMember, CommitGroup, CompleteWork, ReplyGroup, historyVars

(* No step takes an effect back.                                           *)
LEMMA AppliedOnlyGrows ==
    ASSUME Shape, WorkInv, Next
    PROVE  AppliedGrow
<1>1. ASSUME UNCHANGED applied PROVE AppliedGrow
    BY <1>1, ExtendsFacts DEF AppliedGrow, Shape, Extends
<1>2. ASSUME NEW w \in Workers, Mutate(w) PROVE AppliedGrow
    <2>1. RequestEffect(request[w]) \in Effects
        BY DEF Shape, RequestEffect, Effects
    <2>2. ASSUME NEW e \in Docs PROVE Extends(applied'[e], applied[e])
        <3>1. applied[e] \in Seq(Effects)
            BY DEF Shape
        <3>2. applied'[e] = applied[e] \/ applied'[e] = Append(applied[e], RequestEffect(request[w]))
            BY <1>2, MutateEffect
        <3> QED
            BY <2>1, <3>1, <3>2, ExtendsFacts
    <2> QED
        BY <1>2, <2>2, MutateEffect DEF AppliedGrow
<1>3. ASSUME NEW w \in Workers, CommitGroup(w) PROVE AppliedGrow
    <2>1. GroupEffect(work[w].group) \in Effects
        BY <1>3, GroupFacts DEF CommitGroup, GroupEffect, Effects, Shape
    <2>2. ASSUME NEW e \in Docs PROVE Extends(applied'[e], applied[e])
        <3>1. applied[e] \in Seq(Effects)
            BY DEF Shape
        <3>2. applied'[e] = applied[e] \/ applied'[e] = Append(applied[e], GroupEffect(work[w].group))
            BY <1>3, CommitGroupEffect
        <3> QED
            BY <2>1, <3>1, <3>2, ExtendsFacts
    <2> QED
        BY <1>3, <2>2, CommitGroupEffect DEF AppliedGrow
<1> QED
    BY ZenonT(60), <1>1, <1>2, <1>3
       DEF Next, Submit, MigrateSpill, CancelSpill, ConfigureHistoryLimit, SubmitGroup, Close, SpuriousWake,
           WorkerStep, ServeActor, RunGroup, TakeWork, NoWork, TakeRequest, Settle, Reply, Yield,
           ApplyPolicy, LockMember, CheckMember, CompleteWork, ReplyGroup, historyVars

-----------------------------------------------------------------------------
(* Shape is kept.                                                            *)

(* Shape holds initially.                                                  *)
LEMMA InitShape ==
    ASSUME Init
    PROVE  Shape
<1>1. /\ pc \in [Workers -> States] /\ work \in [Workers -> Works] /\ request \in [Workers -> Nat]
      /\ locked \in [Workers -> SUBSET Docs] /\ checked \in [Workers -> SUBSET Docs]
    BY DEF Init, States, Resting, Works
<1>2. ready \in Ready
    BY EmptySeq DEF Init, Ready
<1>3. mailbox \in [Docs -> Mailbox]
    BY EmptySeq DEF Init, Mailbox
<1>4. doc \in [Docs -> Document]
    <2>1. Max(Limits) \in Nat
        BY ConstantsAssumption DEF Max
    <2>2. [revision : {0}, depth : {1}, limit : {Max(Limits)}] \subseteq Document
        BY <2>1 DEF Document
    <2> QED
        BY <2>2 DEF Init
<1>5. group \in Seq(Group) /\ accepted \in [Docs -> Seq(Nat)] /\ applied \in [Docs -> Seq(Effects)]
    BY EmptySeq DEF Init
<1> QED
    BY <1>1, <1>2, <1>3, <1>4, <1>5 DEF Shape

(* The part of Shape that the growing variables do not settle.               *)
LEMMA NextShape ==
    ASSUME Shape, WorkInv, LockInv, NumberInv, Next
    PROVE  Shape'
<1>1. group' \in Seq(Group) /\ accepted' \in [Docs -> Seq(Nat)] /\ applied' \in [Docs -> Seq(Effects)]
    BY GroupsOnlyGrow, AcceptedOnlyGrows, AppliedOnlyGrows DEF GroupsGrow, AcceptedGrow, AppliedGrow
<1> DEFINE Rest == /\ pc' \in [Workers -> States] /\ work' \in [Workers -> Works]
                   /\ request' \in [Workers -> Nat]
                   /\ locked' \in [Workers -> SUBSET Docs] /\ checked' \in [Workers -> SUBSET Docs]
                   /\ ready' \in Ready /\ mailbox' \in [Docs -> Mailbox] /\ doc' \in [Docs -> Document]
<1>2. ASSUME RestingStep PROVE Rest
    BY <1>2, RestingEffect DEF Shape, Quiet
<1>3. ASSUME NEW d \in Docs, Submit(d) PROVE Rest
    BY <1>3, SubmitEffect DEF Submit, Shape, Quiet, OnlyMailbox
<1>4. ASSUME NEW d \in Docs, MigrateSpill(d) \/ CancelSpill(d) PROVE Rest
    BY <1>4, MoveEffect DEF MigrateSpill, CancelSpill, workerVars, Shape, OnlyMailbox
<1>5. ASSUME NEW d \in Docs, NEW limit \in Limits, ConfigureHistoryLimit(d, limit) PROVE Rest
    BY <1>5, ConfigureEffect DEF ConfigureHistoryLimit, Shape, Quiet, OnlyMailbox, OnlyDoc
<1>6. ASSUME NEW members \in SUBSET Docs, SubmitGroup(members) PROVE Rest
    BY <1>6, SubmitGroupEffect DEF SubmitGroup, Shape, Quiet
<1>7. ASSUME NEW w \in Workers, ServeActor(w) PROVE Rest
    <2>1. CASE TakeRequest(w)
        BY <2>1, TakeRequestEffect DEF TakeRequest, Shape, Others, OnlyMailbox
    <2>2. CASE Mutate(w)
        BY <2>2, MutateEffect DEF Mutate, Shape, Others, OnlyDoc
    <2>3. CASE Settle(w)
        BY <2>3, SettleEffect DEF Settle, Shape, Others, OnlyMailbox
    <2>4. CASE Reply(w)
        BY <2>4, ReplyEffect DEF Reply, Shape, Others, OnlyWork
    <2>5. CASE Yield(w)
        BY <2>5, YieldEffect DEF Yield, Shape, Others, OnlyWork
    <2> QED
        BY <1>7, <2>1, <2>2, <2>3, <2>4, <2>5 DEF ServeActor
<1>8. ASSUME NEW w \in Workers, RunGroup(w) PROVE Rest
    <2>1. CASE LockMember(w)
        BY <2>1, LockMemberEffect DEF LockMember, Shape, Others
    <2>2. CASE CheckMember(w)
        BY <2>2, CheckMemberEffect, FinishEffect DEF CheckMember, Shape, Others
    <2>3. CASE CommitGroup(w)
        BY <2>3, CommitGroupEffect, FinishEffect DEF CommitGroup, Shape, Others
    <2>4. CASE ReplyGroup(w)
        BY <2>4, ReplyGroupEffect DEF ReplyGroup, Shape, Others, OnlyWork
    <2> QED
        BY <1>8, <2>1, <2>2, <2>3, <2>4 DEF RunGroup
<1>9. ASSUME NEW w \in Workers, TakeWork(w) \/ ApplyPolicy(w) \/ CompleteWork(w) PROVE Rest
    <2>1. CASE TakeWork(w)
        BY <2>1, TakeWorkEffect DEF TakeWork, Shape, Others, OnlyWork
    <2>2. CASE ApplyPolicy(w)
        BY <2>2, ApplyPolicyEffect DEF ApplyPolicy, Shape, Others, OnlyDoc
    <2>3. CASE CompleteWork(w)
        BY <2>3, CompleteEffect DEF CompleteWork, Shape, Others, OnlyWork
    <2> QED
        BY <1>9, <2>1, <2>2, <2>3
<1>10. Rest
    BY <1>2, <1>3, <1>4, <1>5, <1>6, <1>7, <1>8, <1>9 DEF Next, WorkerStep, RestingStep
<1> QED
    BY <1>1, <1>10 DEF Shape

-----------------------------------------------------------------------------
(* Works and workers agree.                                                  *)

(* A worker that does not move.                                              *)
Stays(v) == pc'[v] = pc[v] \/ (pc[v] \in Resting /\ pc'[v] \in Resting)

(* A worker that no step is about keeps what holds of its work.            *)
LEMMA WorkStays ==
    ASSUME Shape, GroupsGrow, NEW v \in Workers, WorkerWork(v), Stays(v), work'[v] = work[v]
    PROVE  WorkerWork(v)'
<1>1. 1..Len(group) \subseteq 1..Len(group')
    BY DEF GroupsGrow, Shape
<1> QED
    BY <1>1 DEF WorkerWork, Stays, Resting, ServesActor

(* An unchanged ready queue keeps what holds of it,                        *)
LEMMA QueueStays ==
    ASSUME Shape, GroupsGrow, QueueWork, ready'.queue = ready.queue
    PROVE  QueueWork'
<1>1. 1..Len(group) \subseteq 1..Len(group')
    BY DEF GroupsGrow, Shape
<1> QED
    BY <1>1 DEF QueueWork

(* and so does one that fitting work was added to,                         *)
LEMMA QueueGrows ==
    ASSUME Shape, GroupsGrow, QueueWork, NEW x \in Works \ {Nothing},
           x.kind = "group" => x.group \in 1..Len(group'),
           ready'.queue = Append(ready.queue, x)
    PROVE  QueueWork'
<1>1. 1..Len(group) \subseteq 1..Len(group')
    BY DEF GroupsGrow, Shape
<1>2. ready.queue \in Seq(Works \ {Nothing})
    BY DEF Shape, Ready
<1>3. ASSUME NEW i \in 1..Len(ready'.queue)
      PROVE  \/ ready'.queue[i] = x
             \/ i \in 1..Len(ready.queue) /\ ready'.queue[i] = ready.queue[i]
    <2> DEFINE q == ready.queue
    <2>1. /\ Len(Append(q, x)) = Len(q) + 1 /\ Len(q) \in Nat
          /\ \A k \in 1..Len(q) : Append(q, x)[k] = q[k]
          /\ Append(q, x)[Len(q) + 1] = x
        BY <1>2, AppendProperties
    <2>2. ready'.queue = Append(q, x)
        OBVIOUS
    <2> HIDE DEF q
    <2>3. i \in 1..Len(q) \/ i = Len(q) + 1
        BY <2>1, <2>2
    <2>4. CASE i = Len(q) + 1
        BY <2>1, <2>2, <2>4
    <2>5. CASE i \in 1..Len(q)
        BY <2>1, <2>2, <2>5 DEF q
    <2> QED
        BY <2>3, <2>4, <2>5
<1> QED
    BY <1>1, <1>3 DEF QueueWork

(* and one whose head was taken.                                           *)
LEMMA QueueShrinks ==
    ASSUME Shape, GroupsGrow, QueueWork, ready.queue # <<>>, ready'.queue = Tail(ready.queue)
    PROVE  QueueWork'
<1>1. 1..Len(group) \subseteq 1..Len(group')
    BY DEF GroupsGrow, Shape
<1>2. ready.queue \in Seq(Works \ {Nothing})
    BY DEF Shape, Ready
<1>3. ASSUME NEW i \in 1..Len(ready'.queue) PROVE i + 1 \in 1..Len(ready.queue) /\ ready'.queue[i] = ready.queue[i + 1]
    BY <1>2, HeadTailProperties
<1> QED
    BY <1>1, <1>3 DEF QueueWork

(* A group's bounds stay within what its members accepted.                 *)
LEMMA NextSeen ==
    ASSUME Shape, WorkInv, NumberInv, Next
    PROVE  SeenByGroups'
<1>1. GroupsGrow /\ AcceptedGrow
    BY GroupsOnlyGrow, AcceptedOnlyGrows
<1>2. ASSUME NEW g \in 1..Len(group), NEW d \in group'[g].members
      PROVE  group'[g].before[d] \in 0..Len(accepted'[d])
    <2>1. d \in group[g].members /\ group'[g].before[d] = group[g].before[d] /\ group[g] \in Group
        BY <1>1, <1>2 DEF GroupsGrow, Shape
    <2>2. d \in Docs
        BY <2>1 DEF Group
    <2>3. group[g].before[d] \in 0..Len(accepted[d]) /\ Len(accepted[d]) <= Len(accepted'[d])
        BY <1>1, <2>1, <2>2 DEF WorkInv, SeenByGroups, AcceptedGrow, Extends
    <2>4. Len(accepted[d]) \in Nat /\ Len(accepted'[d]) \in Nat
        BY <1>1, <2>2 DEF AcceptedGrow, Shape
    <2> QED
        BY <2>1, <2>3, <2>4
<1>3. CASE Len(group') = Len(group)
    BY <1>2, <1>3 DEF SeenByGroups
<1>4. CASE Len(group') # Len(group)
    <2>1. PICK members \in SUBSET Docs : SubmitGroup(members)
        <3>1. \A w \in Workers : WorkerStep(w) => Len(group') = Len(group)
            <4>1. ASSUME NEW w \in Workers, pc[w] = "check", FinishGroup(w, "refused") \/ FinishGroup(w, "committed")
                  PROVE  Len(group') = Len(group)
                BY <4>1, FinishEffect DEF GroupsKept
            <4>2. ASSUME NEW w \in Workers, CheckMember(w) \/ CommitGroup(w) PROVE Len(group') = Len(group)
                BY <4>1, <4>2 DEF CheckMember, CommitGroup
            <4>3. ASSUME NEW w \in Workers, ReplyGroup(w) PROVE Len(group') = Len(group)
                BY <4>3, ReplyGroupEffect DEF GroupsKept
            <4> QED
                BY <4>2, <4>3 DEF WorkerStep, RunGroup, TakeWork, NoWork, ServeActor, TakeRequest, Mutate, Settle,
                                  Reply, Yield, ApplyPolicy, LockMember, CompleteWork
        <3> QED
            BY <1>4, <3>1 DEF Next, Submit, MigrateSpill, CancelSpill, ConfigureHistoryLimit, Close, SpuriousWake
    <2>2. PICK r \in Group : /\ group' = Append(group, r) /\ r.members = members
                             /\ \A d \in members : r.before[d] = Len(accepted[d])
        BY <2>1, SubmitGroupEffect
    <2>3. accepted' = accepted
        BY <2>1 DEF SubmitGroup, historyVars
    <2>4. Len(group') = Len(group) + 1 /\ group'[Len(group) + 1] = r /\ Len(group) \in Nat
        BY <2>2, AppendProperties DEF Shape
    <2>5. \A d \in members : r.before[d] \in 0..Len(accepted'[d])
        BY <2>2, <2>3 DEF Shape
    <2> QED
        BY <1>2, <2>2, <2>4, <2>5 DEF SeenByGroups
<1> QED
    BY <1>3, <1>4

(* Every step keeps WorkInv.                                               *)
LEMMA NextWork ==
    ASSUME Shape, WorkInv, LockInv, NumberInv, Next
    PROVE  WorkInv'
<1>1. GroupsGrow /\ SeenByGroups' /\ QueueWork /\ \A w \in Workers : WorkerWork(w)
    BY GroupsOnlyGrow, NextSeen DEF WorkInv
<1> DEFINE Goal == QueueWork' /\ \A v \in Workers : WorkerWork(v)'
<1>2. ASSUME Quiet, work' = work PROVE \A v \in Workers : WorkerWork(v)'
    BY <1>1, <1>2, WorkStays DEF Quiet, Stays
<1>3. ASSUME NEW w \in Workers, Others(w), OnlyWork(w) \/ work' = work, WorkerWork(w)'
      PROVE  \A v \in Workers : WorkerWork(v)'
    <2>1. ASSUME NEW v \in Workers, v # w PROVE WorkerWork(v)'
        BY <1>1, <1>3, <2>1, WorkStays DEF Others, OnlyWork, Stays
    <2> QED
        BY <1>3, <2>1
<1>4. 1..Len(group) \subseteq 1..Len(group')
    BY <1>1 DEF GroupsGrow, Shape
<1>5. ASSUME RestingStep PROVE Goal
    BY <1>1, <1>2, <1>5, RestingEffect, QueueStays
<1>6. ASSUME NEW d \in Docs, Submit(d) PROVE Goal
    <2>1. [kind |-> "actor", doc |-> d] \in Works \ {Nothing}
        BY DEF Works, Nothing
    <2>2. Quiet /\ work' = work
        BY <1>6, SubmitEffect DEF Submit
    <2>3. ready' = ready \/ ready'.queue = Append(ready.queue, [kind |-> "actor", doc |-> d])
        BY <1>6, SubmitEffect
    <2> QED
        BY <1>1, <1>2, <2>1, <2>2, <2>3, QueueStays, QueueGrows
<1>7. ASSUME NEW d \in Docs, MigrateSpill(d) \/ CancelSpill(d) PROVE Goal
    <2>1. UNCHANGED <<pc, work, ready>>
        BY <1>7 DEF MigrateSpill, CancelSpill, workerVars
    <2>2. Quiet
        BY <2>1 DEF Quiet, Shape
    <2> QED
        BY <1>1, <1>2, <2>1, <2>2, QueueStays
<1>8. ASSUME NEW d \in Docs, NEW limit \in Limits, ConfigureHistoryLimit(d, limit) PROVE Goal
    <2>1. [kind |-> "policy", doc |-> d, limit |-> limit] \in Works \ {Nothing}
        BY DEF Works, Nothing
    <2>2. Quiet /\ work' = work
        BY <1>8, ConfigureEffect DEF ConfigureHistoryLimit
    <2>3. ready' = ready \/ ready'.queue = Append(ready.queue, [kind |-> "policy", doc |-> d, limit |-> limit])
        BY <1>8, ConfigureEffect
    <2> QED
        BY <1>1, <1>2, <2>1, <2>2, <2>3, QueueStays, QueueGrows
<1>9. ASSUME NEW members \in SUBSET Docs, SubmitGroup(members) PROVE Goal
    <2> DEFINE x == [kind |-> "group", group |-> Len(group) + 1]
    <2>1. /\ Quiet /\ work' = work /\ ready' \in Ready /\ ready'.queue = Append(ready.queue, x)
          /\ \E r \in Group : group' = Append(group, r)
        BY <1>9, SubmitGroupEffect DEF SubmitGroup
    <2>2. Len(group) + 1 \in 1..Len(group')
        BY <2>1, AppendProperties DEF Shape
    <2>3. x.kind = "group" /\ x.group \in 1..Len(group')
        BY <2>2
    <2>4. x \in Works \ {Nothing}
        <3>1. Len(group) + 1 \in 1..MaxGroups
            BY <1>9, ConstantsAssumption DEF SubmitGroup, Shape
        <3> QED
            BY <3>1 DEF Works, Nothing
    <2> HIDE DEF x
    <2> QED
        BY <1>1, <1>2, <2>1, <2>3, <2>4, QueueGrows
<1>10. ASSUME NEW w \in Workers, TakeWork(w) PROVE Goal
    <2>1. /\ Others(w) /\ OnlyWork(w) /\ ready.queue # <<>> /\ ready'.queue = Tail(ready.queue)
          /\ work'[w] = ready.queue[1] /\ work'[w] \in Works \ {Nothing} /\ pc'[w] = Entry(work'[w])
        BY <1>10, TakeWorkEffect
    <2>2. ready.queue \in Seq(Works \ {Nothing}) /\ 1 \in 1..Len(ready.queue)
        BY <2>1 DEF Shape, Ready
    <2>3. work'[w].kind = "group" => work'[w].group \in 1..Len(group')
        BY <1>1, <1>4, <2>1, <2>2 DEF QueueWork
    <2>4. WorkerWork(w)'
        <3>1. \/ work'[w].kind = "actor" /\ pc'[w] = "lock"
              \/ work'[w].kind = "policy" /\ pc'[w] = "policy"
              \/ work'[w].kind = "group" /\ pc'[w] = "members"
            BY <2>1, KindFacts
        <3> QED
            BY <2>3, <3>1 DEF WorkerWork, ServesActor
    <2> QED
        BY <1>1, <1>3, <2>1, <2>4, QueueShrinks
<1>11. ASSUME NEW w \in Workers, TakeRequest(w) PROVE Goal
    <2>1. Others(w) /\ work' = work /\ ready' = ready /\ pc[w] = "lock" /\ pc'[w] = "mutate"
        BY <1>11, TakeRequestEffect DEF TakeRequest
    <2>2. WorkerWork(w)'
        BY <1>1, <1>4, <2>1 DEF WorkerWork, ServesActor
    <2> QED
        BY <1>1, <1>3, <2>1, <2>2, QueueStays
<1>12. ASSUME NEW w \in Workers, Mutate(w) PROVE Goal
    <2>1. Others(w) /\ work' = work /\ ready' = ready /\ pc[w] = "mutate" /\ pc'[w] = "settle"
        BY <1>12, MutateEffect DEF Mutate
    <2>2. WorkerWork(w)'
        BY <1>1, <1>4, <2>1 DEF WorkerWork, ServesActor
    <2> QED
        BY <1>1, <1>3, <2>1, <2>2, QueueStays
<1>13. ASSUME NEW w \in Workers, Settle(w) PROVE Goal
    <2>1. /\ Others(w) /\ work' = work /\ ready'.queue = ready.queue
          /\ pc[w] = "settle" /\ pc'[w] \in {"last", "reply"}
        BY <1>13, SettleEffect DEF Settle
    <2>2. WorkerWork(w)'
        BY <1>1, <1>4, <2>1 DEF WorkerWork, ServesActor
    <2> QED
        BY <1>1, <1>3, <2>1, <2>2, QueueStays
<1>14. ASSUME NEW w \in Workers, Reply(w) PROVE Goal
    <2>1. /\ Others(w) /\ OnlyWork(w) /\ pc[w] \in {"last", "reply"}
          /\ \/ pc'[w] = "next" /\ work'[w] = Nothing
             \/ pc'[w] \in {"yield", "lock"} /\ work'[w] = work[w]
        BY <1>14, ReplyEffect
    <2>2. ready' = ready
        BY <1>14 DEF Reply
    <2>3. WorkerWork(w)'
        BY <1>1, <1>4, <2>1 DEF WorkerWork, ServesActor, Nothing
    <2> QED
        BY <1>1, <1>3, <2>1, <2>2, <2>3, QueueStays
<1>15. ASSUME NEW w \in Workers, Yield(w) PROVE Goal
    <2>1. /\ Others(w) /\ OnlyWork(w) /\ pc'[w] = "next" /\ work'[w] = Nothing
          /\ work[w].kind = "actor" /\ ready'.queue = Append(ready.queue, work[w])
        BY <1>15, YieldEffect
    <2>2. work[w] \in Works \ {Nothing}
        BY <2>1 DEF Shape, Nothing
    <2>3. WorkerWork(w)'
        BY <2>1 DEF WorkerWork, ServesActor, Nothing
    <2> QED
        BY <1>1, <1>3, <2>1, <2>2, <2>3, QueueGrows
<1>16. ASSUME NEW w \in Workers, ApplyPolicy(w) PROVE Goal
    <2>1. Others(w) /\ work' = work /\ ready' = ready /\ pc'[w] = "complete"
        BY <1>16, ApplyPolicyEffect DEF ApplyPolicy
    <2>2. WorkerWork(w)'
        BY <1>1, <1>4, <2>1 DEF WorkerWork, ServesActor
    <2> QED
        BY <1>1, <1>3, <2>1, <2>2, QueueStays
<1>17. ASSUME NEW w \in Workers, LockMember(w) PROVE Goal
    <2>1. /\ Others(w) /\ work' = work /\ ready' = ready
          /\ pc[w] = "members" /\ pc'[w] \in {"members", "check"}
        BY <1>17, LockMemberEffect DEF LockMember
    <2>2. WorkerWork(w)'
        BY <1>1, <1>4, <2>1 DEF WorkerWork, ServesActor
    <2> QED
        BY <1>1, <1>3, <2>1, <2>2, QueueStays
<1>18. ASSUME NEW w \in Workers, CheckMember(w) \/ CommitGroup(w) PROVE Goal
    <2>1. work' = work /\ ready' = ready
        BY <1>18 DEF CheckMember, CommitGroup
    <2>2. CASE UNCHANGED pc
        <3>1. Quiet
            BY <2>2 DEF Quiet, Shape
        <3> QED
            BY <1>1, <1>2, <2>1, <3>1, QueueStays
    <2>3. CASE Others(w) /\ pc'[w] = "complete"
        <3>1. WorkerWork(w)'
            BY <1>1, <1>4, <2>1, <2>3 DEF WorkerWork, ServesActor
        <3> QED
            BY <1>1, <1>3, <2>1, <2>3, <3>1, QueueStays
    <2> QED
        BY <1>18, <2>2, <2>3, CheckMemberEffect, CommitGroupEffect, FinishEffect
<1>19. ASSUME NEW w \in Workers, ReplyGroup(w) PROVE Goal
    <2>1. /\ Others(w) /\ OnlyWork(w) /\ ready' = ready /\ pc'[w] = "next" /\ work'[w] = Nothing
        BY <1>19, ReplyGroupEffect DEF ReplyGroup
    <2>2. WorkerWork(w)'
        BY <2>1 DEF WorkerWork, ServesActor, Nothing
    <2> QED
        BY <1>1, <1>3, <2>1, <2>2, QueueStays
<1>20. ASSUME NEW w \in Workers, CompleteWork(w) PROVE Goal
    <2>1. /\ Others(w) /\ OnlyWork(w) /\ ready'.queue = ready.queue
          /\ \/ pc'[w] = "next" /\ work'[w] = Nothing
             \/ pc'[w] = "answer" /\ work'[w] = work[w] /\ work[w].kind = "group"
        BY <1>20, CompleteEffect
    <2>2. WorkerWork(w)'
        BY <1>1, <1>4, <2>1 DEF WorkerWork, ServesActor, Nothing
    <2> QED
        BY <1>1, <1>3, <2>1, <2>2, QueueStays
<1>21. Goal
    BY <1>5, <1>6, <1>7, <1>8, <1>9, <1>10, <1>11, <1>12, <1>13, <1>14, <1>15, <1>16, <1>17, <1>18, <1>19, <1>20
       DEF Next, WorkerStep, ServeActor, RunGroup, RestingStep
<1> QED
    BY <1>1, <1>21 DEF WorkInv

-----------------------------------------------------------------------------
(* Locks.                                                                    *)

(* A worker whose locks, and what it does with them, a step leaves alone.    *)
Same(v) ==
    /\ pc'[v] \in Busy => pc'[v] = pc[v] /\ work'[v] = work[v] /\ request'[v] = request[v]
    /\ pc[v] \in Busy => pc'[v] \in Busy
    /\ locked'[v] = locked[v] /\ checked'[v] = checked[v]

(* No step touches the locks of another worker, and the steps outside        *)
(* the locks touch nobody's.                                                 *)
OutsideStep ==
    \/ RestingStep
    \/ \E d \in Docs : Submit(d) \/ MigrateSpill(d) \/ CancelSpill(d)
    \/ \E d \in Docs, limit \in Limits : ConfigureHistoryLimit(d, limit)
    \/ \E members \in SUBSET Docs : SubmitGroup(members)

(* Callers change no worker's hands.                                       *)
LEMMA OutsideSame ==
    ASSUME Shape, NumberInv, OutsideStep
    PROVE  (\A v \in Workers : Same(v)) /\ applied' = applied
<1>1. ASSUME Quiet, UNCHANGED <<work, request, locked, checked>>
      PROVE  \A v \in Workers : Same(v)
    BY <1>1 DEF Quiet, Same, Busy, Resting
<1>2. ASSUME RestingStep PROVE Quiet /\ UNCHANGED <<work, request, locked, checked, applied>>
    BY <1>2, RestingEffect
<1>3. ASSUME NEW d \in Docs, Submit(d) PROVE Quiet /\ UNCHANGED <<work, request, locked, checked, applied>>
    BY <1>3, SubmitEffect DEF Submit
<1>4. ASSUME NEW d \in Docs, MigrateSpill(d) \/ CancelSpill(d)
      PROVE  Quiet /\ UNCHANGED <<work, request, locked, checked, applied>>
    BY <1>4 DEF MigrateSpill, CancelSpill, workerVars, historyVars, Quiet, Shape
<1>5. ASSUME NEW d \in Docs, NEW limit \in Limits, ConfigureHistoryLimit(d, limit)
      PROVE  Quiet /\ UNCHANGED <<work, request, locked, checked, applied>>
    BY <1>5, ConfigureEffect DEF ConfigureHistoryLimit, historyVars
<1>6. ASSUME NEW members \in SUBSET Docs, SubmitGroup(members)
      PROVE  Quiet /\ UNCHANGED <<work, request, locked, checked, applied>>
    BY <1>6, SubmitGroupEffect DEF SubmitGroup, historyVars
<1> QED
    BY <1>1, <1>2, <1>3, <1>4, <1>5, <1>6 DEF OutsideStep

(* A worker changes no other worker's hands.                               *)
LEMMA OthersSame ==
    ASSUME Shape, WorkInv, LockInv, NEW w \in Workers, WorkerStep(w)
    PROVE  \A v \in Workers \ {w} : Same(v)
<1>1. ASSUME Others(w), OnlyWork(w) \/ work' = work,
             \A v \in Workers \ {w} : /\ request'[v] = request[v]
                                     /\ locked'[v] = locked[v] /\ checked'[v] = checked[v]
      PROVE  \A v \in Workers \ {w} : Same(v)
    BY <1>1 DEF Others, OnlyWork, Same, Busy, Resting
<1>2. CASE TakeWork(w)
    BY <1>1, <1>2, TakeWorkEffect DEF TakeWork
<1>3. CASE NoWork(w)
    BY <1>3, OutsideSame DEF OutsideStep, RestingStep, NoWork, Same, Shape, Busy
<1>4. CASE TakeRequest(w)
    BY ZenonT(60), <1>1, <1>4, TakeRequestEffect DEF TakeRequest
<1>5. CASE Mutate(w)
    BY <1>1, <1>5, MutateEffect DEF Mutate
<1>6. CASE Settle(w)
    BY <1>1, <1>6, SettleEffect DEF Settle
<1>7. CASE Reply(w)
    BY <1>1, <1>7, ReplyEffect DEF Reply
<1>8. CASE Yield(w)
    BY <1>1, <1>8, YieldEffect DEF Yield
<1>9. CASE ApplyPolicy(w)
    BY <1>1, <1>9, ApplyPolicyEffect DEF ApplyPolicy
<1>10. CASE LockMember(w)
    BY <1>1, <1>10, LockMemberEffect DEF LockMember
<1>11. CASE CheckMember(w)
    <2>1. CASE FinishGroup(w, "refused") /\ UNCHANGED checked
        BY <1>1, <1>11, <2>1, FinishEffect DEF CheckMember
    <2>2. CASE UNCHANGED <<pc, locked, group>>
        BY <1>11, <2>2, CheckMemberEffect DEF CheckMember, Same
    <2> QED
        BY <1>11, <2>1, <2>2, CheckMemberEffect
<1>12. CASE CommitGroup(w)
    BY <1>1, <1>12, CommitGroupEffect, FinishEffect DEF CommitGroup
<1>13. CASE ReplyGroup(w)
    BY <1>1, <1>13, ReplyGroupEffect DEF ReplyGroup
<1>14. CASE CompleteWork(w)
    BY <1>1, <1>14, CompleteEffect DEF CompleteWork
<1> QED
    BY <1>2, <1>3, <1>4, <1>5, <1>6, <1>7, <1>8, <1>9, <1>10, <1>11, <1>12, <1>13, <1>14
       DEF WorkerStep, ServeActor, RunGroup

(* The steps of a worker that holds no lock.                                 *)
FreeStep(w) == Reply(w) \/ Yield(w) \/ ApplyPolicy(w) \/ ReplyGroup(w) \/ CompleteWork(w) \/ NoWork(w)

(* Steps outside the locks change nobody's hands.                          *)
LEMMA FreeSame ==
    ASSUME Shape, WorkInv, LockInv, NEW w \in Workers, FreeStep(w)
    PROVE  (\A v \in Workers : Same(v)) /\ UNCHANGED <<mailbox, accepted, applied>>
<1>1. \A v \in Workers \ {w} : Same(v)
    BY OthersSame DEF FreeStep, WorkerStep, ServeActor, RunGroup
<1>2. /\ UNCHANGED <<mailbox, accepted, applied>>
      /\ locked'[w] = locked[w] /\ checked'[w] = checked[w]
    BY DEF FreeStep, Reply, Yield, ApplyPolicy, ReplyGroup, CompleteWork, NoWork, historyVars
<1>3. pc[w] \notin Busy /\ pc'[w] \notin Busy
    <2>1. CASE NoWork(w)
        BY <2>1 DEF NoWork, Busy, Shape
    <2> QED
        BY <2>1, ReplyEffect, YieldEffect, ApplyPolicyEffect, ReplyGroupEffect, CompleteEffect DEF FreeStep, Busy
<1> QED
    BY <1>1, <1>2, <1>3 DEF Same

(* A worker that no step is about keeps what holds of its locks.           *)
LEMMA LockStays ==
    ASSUME Shape, WorkInv, GroupsGrow, NEW v \in Workers, WorkerLock(v), Same(v)
    PROVE  WorkerLock(v)'
<1>1. ASSUME pc'[v] \in {"members", "check"} PROVE Members(v)' = Members(v)
    <2>1. pc[v] = pc'[v] /\ work'[v] = work[v]
        BY <1>1 DEF Same, Busy
    <2>2. work[v].group \in 1..Len(group)
        BY <1>1, <2>1, GroupFacts
    <2> QED
        BY <2>1, <2>2 DEF Members, GroupsGrow
<1> QED
    BY <1>1 DEF Same, WorkerLock, Busy

(* Every step keeps LockInv.                                               *)
LEMMA NextLock ==
    ASSUME Shape, WorkInv, LockInv, NumberInv, Next
    PROVE  LockInv'
<1>1. GroupsGrow /\ \A v \in Workers : Same(v) => WorkerLock(v)'
    BY GroupsOnlyGrow, LockStays DEF LockInv
<1>2. ASSUME \A v \in Workers : Same(v) PROVE LockInv'
    <2>1. \A v \in Workers : WorkerLock(v)' /\ locked'[v] = locked[v]
        BY <1>1, <1>2 DEF Same
    <2> QED
        BY <2>1 DEF LockInv, Exclusive
<1>3. ASSUME NEW w \in Workers, WorkerStep(w), WorkerLock(w)',
             NEW d, locked'[w] \subseteq locked[w] \cup {d}, StateFree(d) \/ d \in locked[w]
      PROVE  LockInv'
    <2>1. \A v \in Workers \ {w} : WorkerLock(v)' /\ locked'[v] = locked[v]
        BY <1>1, <1>3, OthersSame DEF Same
    <2>2. \A v \in Workers \ {w} : locked'[v] \cap locked'[w] = {}
        BY <1>3, <2>1 DEF LockInv, Exclusive, StateFree
    <2>3. Exclusive'
        BY <2>1, <2>2 DEF LockInv, Exclusive
    <2> QED
        BY <1>3, <2>1, <2>3 DEF LockInv
<1>4. ASSUME NEW w \in Workers, WorkerStep(w), WorkerLock(w)', locked'[w] \subseteq locked[w]
      PROVE  LockInv'
    <2>1. \A v \in Workers \ {w} : WorkerLock(v)' /\ locked'[v] = locked[v]
        BY <1>1, <1>4, OthersSame DEF Same
    <2>2. \A v \in Workers \ {w} : locked'[v] \cap locked'[w] = {}
        BY <1>4, <2>1 DEF LockInv, Exclusive
    <2>3. Exclusive'
        BY <2>1, <2>2 DEF LockInv, Exclusive
    <2> QED
        BY <1>4, <2>1, <2>3 DEF LockInv
<1>5. CASE OutsideStep
    BY <1>2, <1>5, OutsideSame
<1>6. ASSUME NEW w \in Workers, FreeStep(w) PROVE LockInv'
    BY <1>2, <1>6, FreeSame
<1>7. ASSUME NEW w \in Workers, TakeWork(w) PROVE LockInv'
    <2>1. /\ locked'[w] = {} /\ pc'[w] = Entry(work'[w]) /\ work'[w] \in Works \ {Nothing}
        BY <1>7, TakeWorkEffect DEF TakeWork, LockInv, WorkerLock, Busy, Resting
    <2>2. pc'[w] \in {"lock", "policy", "members"}
        BY <2>1, KindFacts
    <2>3. pc'[w] = "members" => Members(w)' # {}
        <3>1. Shape' /\ WorkInv'
            BY <1>7, NextShape, NextWork
        <3>2. work'[w].kind = "group" => work'[w].group \in 1..Len(group')
            BY <3>1 DEF WorkInv, WorkerWork
        <3>3. pc'[w] = "members" => work'[w].kind = "group"
            BY <2>1, KindFacts
        <3>4. \A g \in 1..Len(group') : group'[g] \in Group
            BY <3>1 DEF Shape
        <3> QED
            BY <3>2, <3>3, <3>4 DEF Members, Group
    <2>4. WorkerLock(w)'
        BY <2>1, <2>2, <2>3 DEF WorkerLock, Busy
    <2> QED
        BY <1>4, <1>7, <2>1, <2>4 DEF WorkerStep
<1>8. ASSUME NEW w \in Workers, TakeRequest(w) PROVE LockInv'
    <2>1. PICK d \in Docs : d = work[w].doc /\ StateFree(d) /\ locked'[w] = {d} /\ pc'[w] = "mutate"
        BY <1>8, TakeRequestEffect
    <2>2. work' = work
        BY <1>8 DEF TakeRequest
    <2>3. WorkerLock(w)'
        BY <2>1, <2>2 DEF WorkerLock, Busy
    <2> QED
        BY <1>3, <1>8, <2>1, <2>3 DEF WorkerStep, ServeActor
<1>9. ASSUME NEW w \in Workers, Mutate(w) PROVE LockInv'
    <2>1. pc[w] = "mutate" /\ pc'[w] = "settle" /\ work' = work /\ locked' = locked
        BY <1>9, MutateEffect DEF Mutate
    <2>2. WorkerLock(w)'
        BY <2>1 DEF WorkerLock, LockInv, Busy
    <2> QED
        BY <1>4, <1>9, <2>1, <2>2 DEF WorkerStep, ServeActor
<1>10. ASSUME NEW w \in Workers, Settle(w) PROVE LockInv'
    <2>1. pc'[w] \in {"last", "reply"} /\ locked'[w] = {}
        BY <1>10, SettleEffect
    <2>2. WorkerLock(w)'
        BY <2>1 DEF WorkerLock, Busy
    <2> QED
        BY <1>4, <1>10, <2>1, <2>2 DEF WorkerStep, ServeActor
<1>11. ASSUME NEW w \in Workers, LockMember(w) PROVE LockInv'
    <2>1. PICK d \in Members(w) :
              /\ StateFree(d) /\ locked'[w] = locked[w] \cup {d} /\ checked'[w] = {}
              /\ \/ pc'[w] = "check" /\ Members(w) = locked'[w]
                 \/ pc'[w] = "members" /\ Members(w) # locked'[w]
        BY <1>11, LockMemberEffect
    <2>2. Members(w)' = Members(w) /\ locked[w] \subseteq Members(w)
        BY <1>11 DEF LockMember, Members, LockInv, WorkerLock
    <2>3. WorkerLock(w)'
        BY <2>1, <2>2 DEF WorkerLock, Busy
    <2> QED
        BY <1>3, <1>11, <2>1, <2>3 DEF WorkerStep, RunGroup
<1>12. ASSUME NEW w \in Workers, CheckMember(w) \/ CommitGroup(w) PROVE LockInv'
    <2>1. pc[w] = "check" /\ work' = work
        BY <1>12 DEF CheckMember, CommitGroup
    <2>2. CASE /\ UNCHANGED <<pc, locked, group>>
               /\ \E d \in Members(w) : checked'[w] = checked[w] \cup {d}
        <3>1. WorkerLock(w)'
            BY <2>1, <2>2 DEF WorkerLock, LockInv, Members, Busy
        <3> QED
            BY <1>4, <1>12, <2>2, <3>1 DEF WorkerStep, RunGroup
    <2>3. CASE FinishGroup(w, "refused") \/ FinishGroup(w, "committed")
        <3>1. pc'[w] = "complete" /\ locked'[w] = {}
            BY <2>1, <2>3, FinishEffect
        <3>2. WorkerLock(w)'
            BY <3>1 DEF WorkerLock, Busy
        <3> QED
            BY <1>4, <1>12, <3>1, <3>2 DEF WorkerStep, RunGroup
    <2> QED
        BY <1>12, <2>2, <2>3, CheckMemberEffect, CommitGroupEffect
<1> QED
    BY <1>5, <1>6, <1>7, <1>8, <1>9, <1>10, <1>11, <1>12
       DEF Next, WorkerStep, ServeActor, RunGroup, OutsideStep, FreeStep, RestingStep

-----------------------------------------------------------------------------
(* Retired actors.                                                           *)

(* What a worker relies on in a mailbox changes only for documents it does   *)
(* not hold.                                                                 *)
LEMMA RetireStays ==
    ASSUME WorkInv, Shape, NEW v \in Workers, WorkerLock(v), WorkerRetire(v), Same(v),
           \A d \in Docs : \/ d \notin locked[v]
                         \/ /\ mailbox[d].scheduled => mailbox'[d].scheduled
                            /\ mailbox'[d].retired => mailbox[d].retired
    PROVE  WorkerRetire(v)'
<1>1. CASE pc'[v] \in {"mutate", "settle"}
    <2>1. pc[v] = pc'[v] /\ work'[v] = work[v]
        BY <1>1 DEF Same, Busy
    <2>2. work[v].doc \in Docs /\ work[v].doc \in locked[v]
        BY <1>1, <2>1, ActorFacts DEF WorkerLock, ServesActor
    <2> QED
        BY <1>1, <2>1, <2>2 DEF WorkerRetire
<1>2. CASE pc'[v] = "check"
    <2>1. pc[v] = "check" /\ checked'[v] = checked[v] /\ checked[v] \subseteq locked[v]
        BY <1>2 DEF Same, Busy, WorkerLock
    <2>2. checked[v] \subseteq Docs
        BY DEF Shape
    <2> QED
        BY <1>2, <2>1, <2>2 DEF WorkerRetire
<1> QED
    BY <1>1, <1>2 DEF WorkerRetire

(* Every step keeps RetireInv.                                             *)
LEMMA NextRetire ==
    ASSUME Shape, WorkInv, LockInv, RetireInv, NumberInv, Next
    PROVE  RetireInv'
<1> DEFINE Keeps(d) == /\ mailbox[d].scheduled => mailbox'[d].scheduled
                       /\ mailbox'[d].retired => mailbox[d].retired
<1>1. \A v \in Workers : WorkerLock(v) /\ WorkerRetire(v)
    BY DEF LockInv, RetireInv
<1>2. ASSUME NEW v \in Workers, Same(v), \A d \in Docs : d \notin locked[v] \/ Keeps(d)
      PROVE  WorkerRetire(v)'
    BY <1>1, <1>2, RetireStays
<1> HIDE DEF Keeps
<1>3. ASSUME UNCHANGED mailbox PROVE \A d \in Docs : ActorRetire(d)' /\ Keeps(d)
    BY <1>3 DEF RetireInv, ActorRetire, Keeps
<1>4. ASSUME NEW d \in Docs, OnlyMailbox(d), ActorRetire(d)'
      PROVE  \A e \in Docs : ActorRetire(e)' /\ (e = d \/ Keeps(e))
    BY <1>4 DEF RetireInv, ActorRetire, Keeps, OnlyMailbox
<1>5. ASSUME RestingStep PROVE RetireInv'
    <2>1. UNCHANGED mailbox /\ \A v \in Workers : Same(v)
        BY <1>5, RestingEffect, OutsideSame DEF OutsideStep
    <2> QED
        BY <1>2, <1>3, <2>1 DEF RetireInv
<1>6. ASSUME NEW members \in SUBSET Docs, SubmitGroup(members) PROVE RetireInv'
    <2>1. UNCHANGED mailbox /\ \A v \in Workers : Same(v)
        BY <1>6, OutsideSame DEF OutsideStep, SubmitGroup
    <2> QED
        BY <1>2, <1>3, <2>1 DEF RetireInv
<1>7. ASSUME NEW d \in Docs, Submit(d) PROVE RetireInv'
    <2>1. OnlyMailbox(d) /\ mailbox'[d].scheduled /\ ~ mailbox'[d].retired
        BY <1>7, SubmitEffect
    <2>2. ActorRetire(d)' /\ Keeps(d)
        BY <2>1 DEF ActorRetire, Keeps
    <2>3. \A v \in Workers : Same(v)
        BY <1>7, OutsideSame DEF OutsideStep
    <2> QED
        BY <1>2, <1>4, <2>1, <2>2, <2>3 DEF RetireInv
<1>8. ASSUME NEW d \in Docs, MigrateSpill(d) \/ CancelSpill(d) PROVE RetireInv'
    <2>1. /\ OnlyMailbox(d) /\ mailbox'[d].queue = mailbox[d].queue
          /\ mailbox'[d].scheduled = mailbox[d].scheduled /\ StateFree(d)
          /\ ~ mailbox'[d].retired \/ (~ mailbox[d].scheduled /\ mailbox[d].queue = <<>>)
        BY <1>8, MoveEffect
    <2>2. ActorRetire(d)'
        BY <2>1 DEF ActorRetire, RetireInv
    <2>3. \A v \in Workers : Same(v) /\ d \notin locked[v]
        BY <1>8, <2>1, OutsideSame DEF OutsideStep, StateFree
    <2> QED
        BY <1>2, <1>4, <2>1, <2>2, <2>3 DEF RetireInv
<1>9. ASSUME NEW d \in Docs, NEW limit \in Limits, ConfigureHistoryLimit(d, limit) PROVE RetireInv'
    <2>1. /\ OnlyMailbox(d) /\ mailbox'[d].queue = mailbox[d].queue
          /\ mailbox'[d].scheduled = mailbox[d].scheduled /\ mailbox'[d].retired = mailbox[d].retired
        BY <1>9, ConfigureEffect
    <2>2. ActorRetire(d)' /\ Keeps(d)
        BY <2>1 DEF ActorRetire, RetireInv, Keeps
    <2>3. \A v \in Workers : Same(v)
        BY <1>9, OutsideSame DEF OutsideStep
    <2> QED
        BY <1>2, <1>4, <2>1, <2>2, <2>3 DEF RetireInv
<1>10. ASSUME NEW w \in Workers, FreeStep(w) PROVE RetireInv'
    BY <1>2, <1>3, <1>10, FreeSame DEF RetireInv
<1>11. ASSUME NEW w \in Workers, WorkerStep(w), UNCHANGED mailbox, WorkerRetire(w)' PROVE RetireInv'
    <2>1. \A v \in Workers \ {w} : WorkerRetire(v)'
        BY <1>2, <1>3, <1>11, OthersSame
    <2> QED
        BY <1>3, <1>11, <2>1 DEF RetireInv
<1>12. ASSUME NEW w \in Workers, TakeWork(w) PROVE RetireInv'
    <2>1. pc'[w] \in {"lock", "policy", "members"} /\ UNCHANGED mailbox
        BY <1>12, TakeWorkEffect, KindFacts DEF TakeWork
    <2>2. WorkerRetire(w)'
        BY <2>1 DEF WorkerRetire
    <2> QED
        BY <1>11, <1>12, <2>1, <2>2 DEF WorkerStep
<1>13. ASSUME NEW w \in Workers, TakeRequest(w) PROVE RetireInv'
    <2>1. PICK d \in Docs :
              /\ d = work[w].doc /\ OnlyMailbox(d) /\ pc'[w] = "mutate"
              /\ mailbox[d].queue # <<>> /\ mailbox'[d].scheduled = mailbox[d].scheduled
              /\ mailbox'[d].retired = mailbox[d].retired
        BY <1>13, TakeRequestEffect
    <2>2. ActorRetire(d)' /\ Keeps(d) /\ mailbox'[d].scheduled
        BY <2>1 DEF ActorRetire, RetireInv, Keeps
    <2>3. WorkerRetire(w)'
        <3>1. work' = work
            BY <1>13 DEF TakeRequest
        <3> QED
            BY <2>1, <2>2, <3>1 DEF WorkerRetire
    <2>4. \A v \in Workers \ {w} : Same(v)
        BY <1>13, OthersSame DEF WorkerStep, ServeActor
    <2> QED
        BY <1>2, <1>4, <2>1, <2>2, <2>3, <2>4 DEF RetireInv
<1>14. ASSUME NEW w \in Workers, Mutate(w) PROVE RetireInv'
    <2>1. pc[w] = "mutate" /\ pc'[w] = "settle" /\ work' = work /\ mailbox' = mailbox
        BY <1>14, MutateEffect DEF Mutate
    <2>2. WorkerRetire(w)'
        BY <1>1, <2>1 DEF WorkerRetire
    <2> QED
        BY <1>11, <1>14, <2>1, <2>2 DEF WorkerStep, ServeActor
<1>15. ASSUME NEW w \in Workers, Settle(w) PROVE RetireInv'
    <2>1. PICK d \in Docs :
              /\ d = work[w].doc /\ OnlyMailbox(d) /\ pc[w] = "settle" /\ pc'[w] \in {"last", "reply"}
              /\ mailbox'[d].queue = mailbox[d].queue /\ mailbox'[d].retired = mailbox[d].retired
              /\ mailbox'[d].scheduled <=> mailbox[d].scheduled /\ mailbox[d].queue # <<>>
        BY <1>15, SettleEffect
    <2>2. ActorRetire(d)'
        BY <2>1 DEF ActorRetire, RetireInv
    <2>3. WorkerRetire(w)'
        BY <2>1 DEF WorkerRetire
    <2>4. d \in locked[w]
        BY <1>1, <2>1 DEF WorkerLock
    <2>5. \A v \in Workers \ {w} : Same(v) /\ d \notin locked[v]
        BY <1>15, <2>4, OthersSame DEF WorkerStep, ServeActor, LockInv, Exclusive
    <2> QED
        BY <1>2, <1>4, <2>1, <2>2, <2>3, <2>5 DEF RetireInv
<1>16. ASSUME NEW w \in Workers, LockMember(w) PROVE RetireInv'
    <2>1. pc'[w] \in {"check", "members"} /\ checked'[w] = {} /\ UNCHANGED mailbox
        BY <1>16, LockMemberEffect DEF LockMember
    <2>2. WorkerRetire(w)'
        BY <2>1 DEF WorkerRetire
    <2> QED
        BY <1>11, <1>16, <2>1, <2>2 DEF WorkerStep, RunGroup
<1>17. ASSUME NEW w \in Workers, CheckMember(w) \/ CommitGroup(w) PROVE RetireInv'
    <2>1. pc[w] = "check" /\ UNCHANGED mailbox
        BY <1>17 DEF CheckMember, CommitGroup
    <2>2. CASE /\ UNCHANGED <<pc, locked, group>>
               /\ \E d \in Members(w) : MemberReady(work[w].group, d) /\ checked'[w] = checked[w] \cup {d}
        <3>1. WorkerRetire(w)'
            BY <1>1, <2>1, <2>2 DEF WorkerRetire, MemberReady
        <3> QED
            BY <1>11, <1>17, <2>1, <3>1 DEF WorkerStep, RunGroup
    <2>3. CASE FinishGroup(w, "refused") \/ FinishGroup(w, "committed")
        <3>1. pc'[w] = "complete"
            BY <2>1, <2>3, FinishEffect
        <3>2. WorkerRetire(w)'
            BY <3>1 DEF WorkerRetire
        <3> QED
            BY <1>11, <1>17, <2>1, <3>2 DEF WorkerStep, RunGroup
    <2> QED
        BY <1>17, <2>2, <2>3, CheckMemberEffect, CommitGroupEffect
<1> QED
    BY <1>5, <1>6, <1>7, <1>8, <1>9, <1>10, <1>12, <1>13, <1>14, <1>15, <1>16, <1>17
       DEF Next, WorkerStep, ServeActor, RunGroup, FreeStep, RestingStep

(* The step of RetiredStaysFrozen.                                           *)
Frozen == \A d \in Docs : mailbox[d].retired => doc'[d] = doc[d] /\ mailbox'[d].queue = <<>>

(* No step changes a document that stays retired.                          *)
LEMMA NextFrozen ==
    ASSUME Shape, WorkInv, LockInv, RetireInv, NumberInv, Next
    PROVE  Frozen
<1>1. \A d \in Docs : mailbox[d].retired => mailbox[d].queue = <<>> /\ ~ mailbox[d].scheduled
    BY DEF RetireInv, ActorRetire
<1>2. ASSUME UNCHANGED <<doc, mailbox>> PROVE Frozen
    BY <1>1, <1>2 DEF Frozen
<1>3. ASSUME NEW d \in Docs, doc' = doc \/ OnlyDoc(d), mailbox' = mailbox \/ OnlyMailbox(d), ~ mailbox[d].retired
      PROVE  Frozen
    BY <1>1, <1>3 DEF Frozen, OnlyDoc, OnlyMailbox
<1>4. ASSUME NEW d \in Docs, Submit(d) PROVE Frozen
    BY <1>3, <1>4, SubmitEffect DEF Submit
<1>5. ASSUME NEW d \in Docs, NEW limit \in Limits, ConfigureHistoryLimit(d, limit) PROVE Frozen
    BY <1>3, <1>5, ConfigureEffect
<1>6. ASSUME NEW d \in Docs, MigrateSpill(d) \/ CancelSpill(d) PROVE Frozen
    <2>1. OnlyMailbox(d) /\ mailbox'[d].queue = mailbox[d].queue /\ UNCHANGED doc
        BY <1>6, MoveEffect DEF MigrateSpill, CancelSpill
    <2> QED
        BY <1>1, <2>1 DEF Frozen, OnlyMailbox
<1>7. ASSUME NEW w \in Workers, TakeRequest(w) PROVE Frozen
    <2>1. PICK d \in Docs : OnlyMailbox(d) /\ mailbox[d].queue # <<>>
        BY <1>7, TakeRequestEffect
    <2> QED
        BY <1>1, <1>3, <1>7, <2>1 DEF TakeRequest
<1>8. ASSUME NEW w \in Workers, Mutate(w) PROVE Frozen
    <2>1. PICK d \in Docs : d = work[w].doc /\ pc[w] = "mutate" /\ OnlyDoc(d)
        BY <1>8, MutateEffect
    <2>2. ~ mailbox[d].retired
        BY <1>1, <2>1 DEF RetireInv, WorkerRetire
    <2> QED
        BY <1>3, <1>8, <2>1, <2>2 DEF Mutate
<1>9. ASSUME NEW w \in Workers, Settle(w) PROVE Frozen
    <2>1. PICK d \in Docs : d = work[w].doc /\ pc[w] = "settle" /\ OnlyMailbox(d)
        BY <1>9, SettleEffect
    <2>2. ~ mailbox[d].retired
        BY <1>1, <2>1 DEF RetireInv, WorkerRetire
    <2> QED
        BY <1>3, <1>9, <2>1, <2>2 DEF Settle
<1>10. ASSUME NEW w \in Workers, ApplyPolicy(w) PROVE Frozen
    <2>1. PICK d \in Docs : OnlyDoc(d) /\ (mailbox[d].retired => doc' = doc)
        BY <1>10, ApplyPolicyEffect
    <2>2. mailbox' = mailbox
        BY <1>10 DEF ApplyPolicy
    <2> QED
        BY <1>2, <1>3, <2>1, <2>2
<1>11. ASSUME NEW w \in Workers, CommitGroup(w) PROVE Frozen
    <2>1. /\ \A d \in Docs \ Members(w) : doc'[d] = doc[d]
          /\ pc[w] = "check" /\ checked[w] = Members(w) /\ mailbox' = mailbox
        BY <1>11, CommitGroupEffect DEF CommitGroup
    <2>2. \A d \in Members(w) : ~ mailbox[d].retired
        BY <2>1 DEF RetireInv, WorkerRetire
    <2> QED
        BY <1>1, <2>1, <2>2 DEF Frozen
<1> QED
    BY <1>2, <1>4, <1>5, <1>6, <1>7, <1>8, <1>9, <1>10, <1>11
       DEF Next, SubmitGroup, Close, SpuriousWake, WorkerStep, ServeActor, RunGroup, TakeWork, NoWork,
           Reply, Yield, LockMember, CheckMember, CompleteWork, ReplyGroup

-----------------------------------------------------------------------------
(* Requests are numbered.                                                    *)

(* Every step keeps NumberInv.                                             *)
LEMMA NextNumber ==
    ASSUME Shape, NumberInv, Next
    PROVE  NumberInv'
<1>1. CASE accepted' = accepted
    BY <1>1 DEF NumberInv, Accepted
<1>2. ASSUME NEW d \in Docs, Submit(d) PROVE NumberInv'
    <2>1. PICK r \in Nat \ {0} :
              /\ Accepted = 1..(r - 1)
              /\ accepted' = [accepted EXCEPT ![d] = Append(accepted[d], r)]
        BY <1>2, SubmitEffect
    <2>2. /\ \A e \in Docs : accepted[e] \in Seq(Nat)
          /\ accepted'[d] = Append(accepted[d], r)
          /\ \A e \in Docs \ {d} : accepted'[e] = accepted[e]
        BY <2>1 DEF Shape
    <2>3. /\ Len(accepted'[d]) = Len(accepted[d]) + 1 /\ Len(accepted[d]) \in Nat
          /\ \A i \in 1..Len(accepted[d]) : accepted'[d][i] = accepted[d][i]
          /\ accepted'[d][Len(accepted[d]) + 1] = r
        BY <2>2, AppendProperties
    <2>4. ASSUME NEW e \in Docs, NEW i \in 1..Len(accepted[e]) PROVE accepted[e][i] \in 1..(r - 1)
        BY <2>1, <2>2 DEF Accepted, Range
    <2> DEFINE n == Len(accepted[d])
    <2>10. ASSUME NEW e \in Docs
           PROVE  DOMAIN accepted[e] = 1..Len(accepted[e]) /\ DOMAIN accepted'[e] = 1..Len(accepted'[e])
        <3>1. accepted[e] \in Seq(Nat) /\ accepted'[e] \in Seq(Nat)
            BY <2>2, AcceptedOnlyGrows DEF AcceptedGrow
        <3> QED
            BY <3>1, LenProperties
    <2>11. \A i : i \in 1..(n + 1) <=> i \in 1..n \/ i = n + 1
        BY <2>3
    <2>5. 1..r \in SUBSET Accepted'
        <3>1. r \in Accepted'
            <4>1. Len(accepted[d]) + 1 \in DOMAIN accepted'[d]
                BY <2>2, <2>3, AppendProperties
            <4> QED
                BY <2>3, <4>1 DEF Accepted, Range
        <3>2. ASSUME NEW e \in Docs, NEW i \in DOMAIN accepted[e] PROVE accepted[e][i] \in Accepted'
            <4>1. i \in DOMAIN accepted'[e] /\ accepted'[e][i] = accepted[e][i]
                <5>1. CASE e = d
                    BY <2>3, <2>10, <2>11, <3>2, <5>1
                <5>2. CASE e # d
                    BY <2>2, <3>2, <5>2
                <5> QED
                    BY <5>1, <5>2
            <4> QED
                BY <4>1 DEF Accepted, Range
        <3>3. Accepted \subseteq Accepted'
            BY <3>2 DEF Accepted, Range
        <3>4. \A x \in 1..r : x \in 1..(r - 1) \/ x = r
            OBVIOUS
        <3> QED
            BY <2>1, <3>1, <3>3, <3>4
    <2>6. Accepted' \subseteq 1..(r - 1) \cup {r}
        <3>1. ASSUME NEW e \in Docs, NEW i \in DOMAIN accepted'[e]
              PROVE  accepted'[e][i] \in 1..(r - 1) \cup {r}
            <4>1. CASE e = d
                <5>1. i \in 1..n \/ i = n + 1
                    BY <2>3, <2>10, <2>11, <3>1, <4>1
                <5>2. CASE i = n + 1
                    BY <2>3, <4>1, <5>2
                <5>3. CASE i \in 1..n
                    BY <2>3, <2>4, <4>1, <5>3
                <5> QED
                    BY <5>1, <5>2, <5>3
            <4>2. CASE e # d
                <5>1. i \in 1..Len(accepted[e]) /\ accepted'[e][i] = accepted[e][i]
                    BY <2>2, <2>10, <3>1, <4>2
                <5> QED
                    BY <2>4, <5>1
            <4> QED
                BY <4>1, <4>2
        <3> QED
            BY <3>1 DEF Accepted, Range
    <2>8. Accepted' = 1..r
        <3>1. \A x \in 1..(r - 1) \cup {r} : x \in 1..r
            OBVIOUS
        <3> QED
            BY <2>5, <2>6, <3>1
    <2>9. ASSUME NEW e \in Docs, NEW i \in 1..Len(accepted'[e]), NEW j \in 1..Len(accepted'[e]),
                 accepted'[e][i] = accepted'[e][j]
          PROVE  i = j
        <3>1. CASE e = d
            <4>1. (i \in 1..n \/ i = n + 1) /\ (j \in 1..n \/ j = n + 1)
                BY <2>3, <2>9, <2>11, <3>1
            <4>2. CASE i \in 1..n /\ j \in 1..n
                <5>1. accepted[d][i] = accepted[d][j]
                    BY <2>3, <2>9, <3>1, <4>2
                <5> QED
                    BY <4>2, <5>1 DEF NumberInv
            <4>3. ASSUME NEW x \in 1..n PROVE accepted'[d][x] # accepted'[d][n + 1]
                <5>1. accepted[d][x] \in 1..(r - 1)
                    BY <2>4, <4>3
                <5>2. accepted[d][x] # r
                    BY <5>1
                <5> QED
                    BY <2>3, <4>3, <5>2
            <4> QED
                BY <2>9, <3>1, <4>1, <4>2, <4>3
        <3>2. CASE e # d
            BY <2>2, <2>9, <3>2 DEF NumberInv
        <3> QED
            BY <3>1, <3>2
    <2> QED
        BY <2>8, <2>9 DEF NumberInv
<1> QED
    BY ZenonT(60), <1>1, <1>2
       DEF Next, MigrateSpill, CancelSpill, ConfigureHistoryLimit, SubmitGroup, Close, SpuriousWake,
           WorkerStep, ServeActor, RunGroup, TakeWork, NoWork, TakeRequest, Mutate, Settle, Reply, Yield,
           ApplyPolicy, LockMember, CheckMember, CommitGroup, CompleteWork, ReplyGroup, historyVars

-----------------------------------------------------------------------------
(* What was taken has taken effect.                                          *)

(* What took effect up to a bound has taken effect for good.               *)
LEMMA AppliedPersists ==
    ASSUME Shape, AcceptedGrow, AppliedGrow, NEW d \in Docs, NEW n \in Nat, n <= Len(accepted[d]),
           AppliedUpTo(d, n)
    PROVE  AppliedUpTo(d, n)'
<1> SUFFICES ASSUME NEW m \in 1..n
             PROVE  \E j \in 1..Len(applied'[d]) : applied'[d][j] = RequestEffect(accepted'[d][m])
    BY DEF AppliedUpTo
<1>1. PICK j \in 1..Len(applied[d]) : applied[d][j] = RequestEffect(accepted[d][m])
    BY DEF AppliedUpTo
<1>2. /\ Len(accepted[d]) \in Nat /\ Len(applied[d]) \in Nat /\ Len(applied'[d]) \in Nat
      /\ Len(applied[d]) <= Len(applied'[d])
    BY DEF Shape, AppliedGrow, Extends
<1>3. m \in 1..Len(accepted[d]) /\ j \in 1..Len(applied'[d])
    BY <1>2
<1>4. accepted'[d][m] = accepted[d][m] /\ applied'[d][j] = applied[d][j]
    BY <1>3 DEF AcceptedGrow, AppliedGrow, Extends
<1> QED
    BY <1>1, <1>3, <1>4

(* Effects of requests and of groups are told apart.                       *)
LEMMA EffectKinds ==
    /\ \A r, s : RequestEffect(r) = RequestEffect(s) => r = s
    /\ \A r, g : RequestEffect(r) # GroupEffect(g)
    /\ \A r : RequestEffect(r).kind = "request"
    /\ \A g : GroupEffect(g).kind = "group" /\ GroupEffect(g).id = g
    BY DEF RequestEffect, GroupEffect

(* The effects on d, or one more effect of a group.                          *)
GroupOrNone(d) ==
    applied'[d] = applied[d] \/ \E g \in Nat : applied'[d] = Append(applied[d], GroupEffect(g))
MutatorsSame(d) ==
    \A w \in Workers : pc'[w] = "mutate" /\ work'[w].doc = d <=> pc[w] = "mutate" /\ work[w].doc = d

(* An effect is added behind those there are.                              *)
LEMMA OneMore ==
    ASSUME Shape, NEW d \in Docs, NEW x \in Effects, applied'[d] = Append(applied[d], x)
    PROVE  /\ Len(applied'[d]) = Len(applied[d]) + 1 /\ Len(applied[d]) \in Nat
           /\ \A i \in 1..Len(applied[d]) : applied'[d][i] = applied[d][i]
           /\ applied'[d][Len(applied[d]) + 1] = x
    BY AppendProperties DEF Shape

(* A group's effect is no request's.                                       *)
LEMMA NewEffects ==
    ASSUME Shape, NEW d \in Docs, GroupOrNone(d), NEW i \in 1..Len(applied'[d]), applied'[d][i].kind = "request"
    PROVE  i \in 1..Len(applied[d]) /\ applied'[d][i] = applied[d][i]
<1>1. CASE applied'[d] = applied[d]
    BY <1>1
<1>2. CASE applied'[d] # applied[d]
    <2>1. PICK g \in Nat : applied'[d] = Append(applied[d], GroupEffect(g))
        BY <1>2 DEF GroupOrNone
    <2>2. GroupEffect(g) \in Effects
        BY DEF GroupEffect, Effects
    <2>3. /\ Len(applied'[d]) = Len(applied[d]) + 1 /\ Len(applied[d]) \in Nat
          /\ \A k \in 1..Len(applied[d]) : applied'[d][k] = applied[d][k]
          /\ applied'[d][Len(applied[d]) + 1] = GroupEffect(g)
        BY <2>1, <2>2, OneMore
    <2>4. i # Len(applied[d]) + 1
        BY <2>3, EffectKinds
    <2> QED
        BY <2>3, <2>4
<1> QED
    BY <1>1, <1>2

(* A document with no new request effect keeps the order of its own.       *)
LEMMA EffectsKept ==
    ASSUME Shape, AcceptedGrow, AppliedGrow, NEW d \in Docs, QueueIs(d), EffectsTaken(d), TakenApplied(d),
           Taken(d)' = Taken(d), MutatorsSame(d), GroupOrNone(d)
    PROVE  EffectsTaken(d)' /\ TakenApplied(d)'
<1>1. Taken(d) \in Nat /\ Taken(d) <= Len(accepted[d]) /\ Len(accepted[d]) \in Nat
    BY DEF QueueIs, Taken, Shape, Mailbox
<1>2. \A k \in 1..Taken(d) : accepted'[d][k] = accepted[d][k]
    BY <1>1 DEF AcceptedGrow, Extends
<1>3. EffectsTaken(d)'
    <2> SUFFICES ASSUME NEW i \in 1..Len(applied'[d]), applied'[d][i].kind = "request"
                 PROVE  \E k \in 1..Taken(d) : applied'[d][i] = RequestEffect(accepted'[d][k])
        BY DEF EffectsTaken
    <2>1. i \in 1..Len(applied[d]) /\ applied'[d][i] = applied[d][i]
        BY NewEffects
    <2> QED
        BY <1>2, <2>1 DEF EffectsTaken
<1>4. TakenApplied(d)'
    <2> SUFFICES ASSUME \A w \in Workers : pc'[w] = "mutate" => work'[w].doc # d
                 PROVE  AppliedUpTo(d, Taken(d))'
        BY DEF TakenApplied
    <2>1. \A w \in Workers : pc[w] = "mutate" => work[w].doc # d
        BY DEF MutatorsSame
    <2>2. AppliedUpTo(d, Taken(d))
        BY <2>1 DEF TakenApplied
    <2> DEFINE n == Taken(d)
    <2>3. PICK k \in Nat : k = Taken(d)
        BY <1>1
    <2>4. AppliedUpTo(d, k)'
        BY <1>1, <2>2, <2>3, AppliedPersists
    <2> QED
        BY <2>3, <2>4 DEF AppliedUpTo
<1> QED
    BY <1>3, <1>4

(* A worker about to apply a request stays so while others step.           *)
LEMMA AboutKept ==
    ASSUME Shape, WorkInv, AcceptedGrow, AppliedGrow, NEW v \in Workers, AboutToApply(v), Same(v),
           NEW d \in Docs, pc[v] = "mutate" => d = work[v].doc, QueueIs(d), Taken(d)' = Taken(d), GroupOrNone(d)
    PROVE  AboutToApply(v)'
<1> SUFFICES ASSUME pc'[v] = "mutate" PROVE AboutToApply(v)'
    BY DEF AboutToApply
<1>1. pc[v] = "mutate" /\ work'[v] = work[v] /\ request'[v] = request[v] /\ d = work[v].doc
    BY DEF Same, Busy
<1>2. /\ Taken(d) # 0 /\ request[v] = accepted[d][Taken(d)] /\ AppliedUpTo(d, Taken(d) - 1)
      /\ \A j \in 1..Len(applied[d]) : applied[d][j] # RequestEffect(request[v])
    BY <1>1 DEF AboutToApply
<1>3. Taken(d) \in Nat /\ Taken(d) <= Len(accepted[d]) /\ Len(accepted[d]) \in Nat
    BY DEF QueueIs, Taken, Shape, Mailbox
<1>4. accepted'[d][Taken(d)] = accepted[d][Taken(d)]
    BY <1>2, <1>3 DEF AcceptedGrow, Extends
<1>5. AppliedUpTo(d, Taken(d) - 1)'
    <2>1. PICK k \in Nat : k = Taken(d) - 1
        BY <1>2, <1>3
    <2>2. k <= Len(accepted[d])
        BY <1>3, <2>1
    <2>3. AppliedUpTo(d, k)'
        BY <1>2, <2>1, <2>2, AppliedPersists
    <2> QED
        BY <2>1, <2>3 DEF AppliedUpTo
<1>6. ASSUME NEW j \in 1..Len(applied'[d]) PROVE applied'[d][j] # RequestEffect(request[v])
    BY <1>2, NewEffects, EffectKinds
<1> QED
    BY <1>1, <1>2, <1>4, <1>5, <1>6 DEF AboutToApply

(* An unchanged mailbox leaves the same requests taken.                    *)
LEMMA TakenSame ==
    ASSUME NEW d \in Docs, QueueIs(d), mailbox'[d].queue = mailbox[d].queue, accepted'[d] = accepted[d]
    PROVE  Taken(d)' = Taken(d) /\ QueueIs(d)'
    BY DEF Taken, QueueIs

(* A worker that takes no part in d's requests.                              *)
Apart(v, d) ==
    \/ Same(v)
    \/ (pc[v] = "mutate" => work[v].doc # d) /\ (pc'[v] = "mutate" => work'[v].doc # d)

(* A document the step is not about keeps what TakenInv says of it.        *)
LEMMA DocKept ==
    ASSUME Shape, TakenInv, AcceptedGrow, AppliedGrow, NEW d \in Docs,
           QueueIs(d)', Taken(d)' = Taken(d), GroupOrNone(d), \A v \in Workers : Apart(v, d)
    PROVE  QueueIs(d)' /\ EffectsTaken(d)' /\ TakenApplied(d)'
<1>1. MutatorsSame(d)
    BY DEF MutatorsSame, Apart, Same, Busy
<1> QED
    BY <1>1, EffectsKept DEF TakenInv

(* A step that starts or ends no mutation, and takes no request.             *)
LEMMA NoneTaken ==
    ASSUME Shape, WorkInv, TakenInv, AcceptedGrow, AppliedGrow,
           \A v \in Workers : Same(v) \/ (pc[v] # "mutate" /\ pc'[v] # "mutate"),
           \A d \in Docs : QueueIs(d)' /\ Taken(d)' = Taken(d) /\ GroupOrNone(d)
    PROVE  TakenInv'
<1>1. ASSUME NEW d \in Docs PROVE QueueIs(d)' /\ EffectsTaken(d)' /\ TakenApplied(d)'
    <2>1. \A v \in Workers : Apart(v, d)
        BY DEF Apart
    <2> QED
        BY <2>1, DocKept
<1>2. ASSUME NEW v \in Workers PROVE AboutToApply(v)'
    <2>1. CASE pc'[v] # "mutate"
        BY <2>1 DEF AboutToApply
    <2>2. CASE pc'[v] = "mutate"
        <3>1. Same(v) /\ pc[v] = "mutate" /\ AboutToApply(v)
            BY <2>2 DEF Same, Busy, TakenInv
        <3>2. PICK d \in Docs : d = work[v].doc
            BY <3>1, ActorFacts DEF ServesActor
        <3>3. QueueIs(d)
            BY DEF TakenInv
        <3> QED
            BY <3>1, <3>2, <3>3, AboutKept
    <2> QED
        BY <2>1, <2>2
<1> QED
    BY <1>1, <1>2 DEF TakenInv

(* Taking a request keeps TakenInv.                                        *)
LEMMA TakeRequestTaken ==
    ASSUME Shape, WorkInv, LockInv, NumberInv, TakenInv, NEW w \in Workers, TakeRequest(w),
           AcceptedGrow, AppliedGrow
    PROVE  TakenInv'
<1>1. PICK d \in Docs :
          /\ d = work[w].doc /\ StateFree(d) /\ pc[w] = "lock" /\ pc'[w] = "mutate"
          /\ mailbox[d].queue # <<>> /\ OnlyMailbox(d) /\ mailbox'[d].queue = Tail(mailbox[d].queue)
          /\ request'[w] = mailbox[d].queue[1]
    BY TakeRequestEffect
<1>2. work' = work /\ accepted' = accepted /\ applied' = applied
    BY DEF TakeRequest, historyVars
<1>3. \A v \in Workers \ {w} : Same(v)
    BY OthersSame DEF WorkerStep, ServeActor
<1>4. mailbox[d].queue \in Seq(Nat) /\ accepted[d] \in Seq(Nat) /\ applied[d] \in Seq(Effects)
    BY DEF Shape, Mailbox
<1>5. /\ Len(mailbox'[d].queue) = Len(mailbox[d].queue) - 1
      /\ Len(mailbox[d].queue) \in Nat \ {0}
      /\ \A i \in 1..Len(mailbox'[d].queue) : mailbox'[d].queue[i] = mailbox[d].queue[i + 1]
    BY <1>1, <1>4, HeadTailProperties
<1>6. QueueIs(d) /\ EffectsTaken(d) /\ TakenApplied(d)
    BY DEF TakenInv
<1>7. Taken(d)' = Taken(d) + 1 /\ Taken(d) \in Nat /\ Taken(d) + 1 <= Len(accepted[d])
    BY <1>2, <1>4, <1>5, <1>6 DEF Taken, QueueIs
<1>8. mailbox[d].queue[1] = accepted[d][Taken(d) + 1]
    BY <1>5, <1>6 DEF QueueIs
<1>9. QueueIs(d)'
    <2>1. ASSUME NEW i \in 1..Len(mailbox'[d].queue)
          PROVE  mailbox'[d].queue[i] = accepted[d][Taken(d) + 1 + i]
        <3>1. i + 1 \in 1..Len(mailbox[d].queue)
            BY <1>5
        <3>2. mailbox[d].queue[i + 1] = accepted[d][Taken(d) + (i + 1)]
            BY <1>6, <3>1 DEF QueueIs
        <3>3. Taken(d) + (i + 1) = Taken(d) + 1 + i
            BY <1>7
        <3> QED
            BY <1>5, <3>2, <3>3
    <2> QED
        BY <1>2, <1>7, <2>1 DEF QueueIs
<1>10. EffectsTaken(d)'
    <2>1. 1..Taken(d) \subseteq 1..(Taken(d) + 1)
        BY <1>7
    <2> QED
        BY <1>2, <1>6, <1>7, <2>1 DEF EffectsTaken
<1>11. TakenApplied(d)'
    BY <1>1, <1>2 DEF TakenApplied
<1>12. \A v \in Workers : pc[v] = "mutate" => work[v].doc # d
    BY <1>1 DEF StateFree, LockInv, WorkerLock
<1>13. AboutToApply(w)'
    <2>1. request'[w] = accepted'[d][Taken(d)'] /\ Taken(d)' # 0
        BY <1>1, <1>2, <1>7, <1>8
    <2>2. AppliedUpTo(d, Taken(d))
        BY <1>6, <1>12 DEF TakenApplied
    <2>3. Taken(d)' - 1 = Taken(d)
        BY <1>7
    <2>4. AppliedUpTo(d, Taken(d) - 1)'
        BY <1>2, <2>2, <2>3 DEF AppliedUpTo
    <2>5. ASSUME NEW j \in 1..Len(applied[d]), applied[d][j] = RequestEffect(request'[w]) PROVE FALSE
        <3>1. PICK k \in 1..Taken(d) : applied[d][j] = RequestEffect(accepted[d][k])
            BY <1>6, <2>5, EffectKinds DEF EffectsTaken
        <3>2. accepted[d][k] = accepted[d][Taken(d) + 1]
            BY <1>1, <1>8, <2>5, <3>1, EffectKinds
        <3>3. k \in 1..Len(accepted[d]) /\ Taken(d) + 1 \in 1..Len(accepted[d])
            BY <1>4, <1>7
        <3>4. k = Taken(d) + 1
            BY <3>2, <3>3 DEF NumberInv
        <3> QED
            BY <1>7, <3>4
    <2> QED
        BY <1>1, <1>2, <2>1, <2>4, <2>5 DEF AboutToApply
<1>14. ASSUME NEW e \in Docs \ {d} PROVE QueueIs(e)' /\ Taken(e)' = Taken(e) /\ GroupOrNone(e)
    BY <1>1, <1>2, TakenSame DEF OnlyMailbox, TakenInv, GroupOrNone
<1>15. ASSUME NEW e \in Docs PROVE QueueIs(e)' /\ EffectsTaken(e)' /\ TakenApplied(e)'
    <2>1. CASE e = d
        BY <1>9, <1>10, <1>11, <2>1
    <2>2. CASE e # d
        <3>1. \A v \in Workers : Apart(v, e)
            BY <1>1, <1>2, <1>3, <2>2 DEF Apart
        <3> QED
            BY <1>14, <2>2, <3>1, DocKept
    <2> QED
        BY <2>1, <2>2
<1>16. ASSUME NEW v \in Workers \ {w} PROVE AboutToApply(v)'
    <2>1. CASE pc'[v] # "mutate"
        BY <2>1 DEF AboutToApply
    <2>2. CASE pc'[v] = "mutate"
        <3>1. Same(v) /\ pc[v] = "mutate" /\ AboutToApply(v)
            BY <1>3, <2>2 DEF Same, Busy, TakenInv
        <3>2. PICK e \in Docs : e = work[v].doc
            BY <3>1, ActorFacts DEF ServesActor
        <3>3. QueueIs(e) /\ e # d
            BY <1>12, <3>1, <3>2 DEF TakenInv
        <3> QED
            BY <1>14, <3>1, <3>2, <3>3, AboutKept
    <2> QED
        BY <2>1, <2>2
<1> QED
    BY <1>13, <1>15, <1>16 DEF TakenInv

(* The effect of the taken request is the next of its document.            *)
LEMMA MutateTaken ==
    ASSUME Shape, WorkInv, LockInv, TakenInv, NEW w \in Workers, Mutate(w), AcceptedGrow, AppliedGrow
    PROVE  TakenInv'
<1>1. PICK d \in Docs :
          /\ d = work[w].doc /\ pc[w] = "mutate" /\ pc'[w] = "settle"
          /\ applied'[d] = Append(applied[d], RequestEffect(request[w]))
          /\ \A e \in Docs \ {d} : applied'[e] = applied[e]
    BY MutateEffect
<1>2. work' = work /\ accepted' = accepted /\ mailbox' = mailbox
    BY DEF Mutate
<1>3. \A v \in Workers \ {w} : Same(v)
    BY OthersSame DEF WorkerStep, ServeActor
<1>4. RequestEffect(request[w]) \in Effects
    BY DEF RequestEffect, Effects, Shape
<1>5. /\ Len(applied'[d]) = Len(applied[d]) + 1 /\ Len(applied[d]) \in Nat
      /\ \A i \in 1..Len(applied[d]) : applied'[d][i] = applied[d][i]
      /\ applied'[d][Len(applied[d]) + 1] = RequestEffect(request[w])
    BY <1>1, <1>4, OneMore
<1>6. \A e \in Docs : QueueIs(e) /\ QueueIs(e)' /\ Taken(e)' = Taken(e)
    BY <1>2, TakenSame DEF TakenInv
<1>7. /\ Taken(d) # 0 /\ request[w] = accepted[d][Taken(d)] /\ AppliedUpTo(d, Taken(d) - 1)
      /\ Taken(d) \in Nat /\ EffectsTaken(d)
    BY <1>1, <1>6 DEF TakenInv, AboutToApply, QueueIs
<1>8. EffectsTaken(d)'
    <2> SUFFICES ASSUME NEW i \in 1..Len(applied'[d]), applied'[d][i].kind = "request"
                 PROVE  \E k \in 1..Taken(d) : applied'[d][i] = RequestEffect(accepted[d][k])
        BY <1>2, <1>6 DEF EffectsTaken
    <2>1. CASE i = Len(applied[d]) + 1
        <3>1. Taken(d) \in 1..Taken(d)
            BY <1>7
        <3> QED
            BY <1>5, <1>7, <2>1, <3>1
    <2>2. CASE i # Len(applied[d]) + 1
        <3>1. i \in 1..Len(applied[d])
            BY <1>5, <2>2
        <3> QED
            BY <1>5, <1>7, <3>1 DEF EffectsTaken
    <2> QED
        BY <2>1, <2>2
<1>9. TakenApplied(d)'
    <2> SUFFICES ASSUME NEW m \in 1..Taken(d)
                 PROVE  \E j \in 1..Len(applied'[d]) : applied'[d][j] = RequestEffect(accepted[d][m])
        BY <1>2, <1>6 DEF TakenApplied, AppliedUpTo
    <2>1. CASE m = Taken(d)
        <3>1. Len(applied[d]) + 1 \in 1..Len(applied'[d])
            BY <1>5
        <3> QED
            BY <1>5, <1>7, <2>1, <3>1
    <2>2. CASE m # Taken(d)
        <3>1. m \in 1..(Taken(d) - 1)
            BY <1>7, <2>2
        <3>2. PICK j \in 1..Len(applied[d]) : applied[d][j] = RequestEffect(accepted[d][m])
            BY <1>7, <3>1 DEF AppliedUpTo
        <3>3. j \in 1..Len(applied'[d])
            BY <1>5
        <3> QED
            BY <1>5, <3>2, <3>3
    <2> QED
        BY <2>1, <2>2
<1>10. ASSUME NEW e \in Docs PROVE QueueIs(e)' /\ EffectsTaken(e)' /\ TakenApplied(e)'
    <2>1. CASE e = d
        BY <1>6, <1>8, <1>9, <2>1
    <2>2. CASE e # d
        <3>1. \A v \in Workers : Apart(v, e)
            BY <1>1, <1>2, <1>3, <2>2 DEF Apart
        <3>2. GroupOrNone(e)
            BY <1>1, <2>2 DEF GroupOrNone
        <3> QED
            BY <1>6, <2>2, <3>1, <3>2, DocKept
    <2> QED
        BY <2>1, <2>2
<1>11. ASSUME NEW v \in Workers PROVE AboutToApply(v)'
    <2>1. CASE pc'[v] # "mutate"
        BY <2>1 DEF AboutToApply
    <2>2. CASE pc'[v] = "mutate"
        <3>1. v # w /\ Same(v) /\ pc[v] = "mutate" /\ AboutToApply(v)
            BY <1>1, <1>3, <2>2 DEF Same, Busy, TakenInv
        <3>2. PICK e \in Docs : e = work[v].doc
            BY <3>1, ActorFacts DEF ServesActor
        <3>3. e # d
            BY <1>1, <3>1, <3>2 DEF LockInv, WorkerLock, Exclusive
        <3>4. GroupOrNone(e)
            BY <1>1, <3>3 DEF GroupOrNone
        <3> QED
            BY <1>6, <3>1, <3>2, <3>4, AboutKept
    <2> QED
        BY <2>1, <2>2
<1> QED
    BY <1>10, <1>11 DEF TakenInv

(* A new request is not yet taken.                                         *)
LEMMA SubmitTaken ==
    ASSUME Shape, NumberInv, TakenInv, NEW d \in Docs, Submit(d)
    PROVE  \A e \in Docs : QueueIs(e)' /\ Taken(e)' = Taken(e)
<1>1. PICK r \in Nat : /\ OnlyMailbox(d) /\ mailbox'[d].queue = Append(mailbox[d].queue, r)
                      /\ accepted' = [accepted EXCEPT ![d] = Append(accepted[d], r)]
    BY SubmitEffect
<1>2. /\ accepted'[d] = Append(accepted[d], r)
      /\ \A e \in Docs \ {d} : accepted'[e] = accepted[e] /\ mailbox'[e] = mailbox[e]
    BY <1>1 DEF Shape, OnlyMailbox
<1>3. mailbox[d].queue \in Seq(Nat) /\ accepted[d] \in Seq(Nat)
    BY DEF Shape, Mailbox
<1> DEFINE q == mailbox[d].queue
           a == accepted[d]
           p == mailbox'[d].queue
           b == accepted'[d]
<1>4. /\ Len(p) = Len(q) + 1 /\ Len(q) \in Nat /\ \A i \in 1..Len(q) : p[i] = q[i]
      /\ p[Len(q) + 1] = r
    BY <1>1, <1>3, AppendProperties
<1>5. /\ Len(b) = Len(a) + 1 /\ Len(a) \in Nat /\ \A i \in 1..Len(a) : b[i] = a[i]
      /\ b[Len(a) + 1] = r
    BY <1>2, <1>3, AppendProperties
<1>6. /\ Taken(d) = Len(a) - Len(q) /\ Taken(d)' = Len(b) - Len(p) /\ Taken(d) \in Nat
      /\ \A i \in 1..Len(q) : q[i] = a[Taken(d) + i]
    BY DEF Taken, TakenInv, QueueIs
<1> HIDE DEF q, a, p, b
<1>7. Taken(d)' = Taken(d)
    BY <1>4, <1>5, <1>6
<1>8. ASSUME NEW i \in 1..Len(p) PROVE p[i] = b[Taken(d) + i]
    <2>1. CASE i = Len(q) + 1
        BY <1>4, <1>5, <1>6, <2>1
    <2>2. CASE i # Len(q) + 1
        <3>1. i \in 1..Len(q) /\ Taken(d) + i \in 1..Len(a)
            BY <1>4, <1>5, <1>6, <2>2
        <3> QED
            BY <1>4, <1>5, <1>6, <3>1
    <2> QED
        BY <2>1, <2>2
<1>9. QueueIs(d)'
    BY <1>6, <1>7, <1>8 DEF QueueIs, p, b
<1>10. \A e \in Docs \ {d} : QueueIs(e)' /\ Taken(e)' = Taken(e)
    BY <1>2, TakenSame DEF TakenInv
<1> QED
    BY <1>7, <1>9, <1>10

(* Every step keeps TakenInv.                                              *)
LEMMA NextTaken ==
    ASSUME Shape, WorkInv, LockInv, NumberInv, TakenInv, Next
    PROVE  TakenInv'
<1>1. AcceptedGrow /\ AppliedGrow
    BY AcceptedOnlyGrows, AppliedOnlyGrows
<1>2. ASSUME NEW d \in Docs, mailbox'[d].queue = mailbox[d].queue, accepted'[d] = accepted[d]
      PROVE  QueueIs(d)' /\ Taken(d)' = Taken(d)
    BY <1>2, TakenSame DEF TakenInv
<1>3. ASSUME applied' = applied PROVE \A d \in Docs : GroupOrNone(d)
    BY <1>3 DEF GroupOrNone
<1>4. ASSUME NEW w \in Workers, WorkerStep(w), pc[w] # "mutate", pc'[w] # "mutate", accepted' = accepted,
             \A d \in Docs : mailbox'[d].queue = mailbox[d].queue /\ GroupOrNone(d)
      PROVE  TakenInv'
    <2>1. \A v \in Workers : Same(v) \/ (pc[v] # "mutate" /\ pc'[v] # "mutate")
        BY <1>4, OthersSame
    <2> QED
        BY <1>1, <1>2, <1>4, <2>1, NoneTaken
<1>5. CASE OutsideStep
    <2>1. \A d \in Docs : QueueIs(d)' /\ Taken(d)' = Taken(d)
        <3>1. CASE RestingStep
            BY <1>2, <3>1, RestingEffect
        <3>2. ASSUME NEW d \in Docs, MigrateSpill(d) \/ CancelSpill(d)
              PROVE  \A e \in Docs : mailbox'[e].queue = mailbox[e].queue /\ accepted'[e] = accepted[e]
            BY <3>2, MoveEffect DEF MigrateSpill, CancelSpill, historyVars, OnlyMailbox
        <3>3. ASSUME NEW d \in Docs, NEW limit \in Limits, ConfigureHistoryLimit(d, limit)
              PROVE  \A e \in Docs : mailbox'[e].queue = mailbox[e].queue /\ accepted'[e] = accepted[e]
            BY <3>3, ConfigureEffect DEF ConfigureHistoryLimit, historyVars, OnlyMailbox
        <3>4. ASSUME NEW members \in SUBSET Docs, SubmitGroup(members)
              PROVE  \A e \in Docs : mailbox'[e].queue = mailbox[e].queue /\ accepted'[e] = accepted[e]
            BY <3>4 DEF SubmitGroup, historyVars
        <3> QED
            BY <1>2, <1>5, <3>1, <3>2, <3>3, <3>4, SubmitTaken DEF OutsideStep
    <2> QED
        BY <1>1, <1>3, <1>5, <2>1, OutsideSame, NoneTaken
<1>6. ASSUME NEW w \in Workers, FreeStep(w) PROVE TakenInv'
    <2>1. (\A v \in Workers : Same(v)) /\ UNCHANGED <<mailbox, accepted, applied>>
        BY <1>6, FreeSame
    <2> QED
        BY <1>1, <1>2, <1>3, <2>1, NoneTaken
<1>7. ASSUME NEW w \in Workers, TakeWork(w) PROVE TakenInv'
    <2>1. pc'[w] \in {"lock", "policy", "members"} /\ pc[w] \in Resting
        BY <1>7, TakeWorkEffect, KindFacts
    <2>2. UNCHANGED <<mailbox, accepted, applied>>
        BY <1>7 DEF TakeWork, historyVars
    <2> QED
        BY <1>3, <1>4, <1>7, <2>1, <2>2 DEF WorkerStep, Resting
<1>8. ASSUME NEW w \in Workers, Settle(w) PROVE TakenInv'
    <2>1. PICK d \in Docs : /\ pc[w] = "settle" /\ pc'[w] \in {"last", "reply"}
                           /\ OnlyMailbox(d) /\ mailbox'[d].queue = mailbox[d].queue
        BY <1>8, SettleEffect
    <2>2. accepted' = accepted /\ applied' = applied
        BY <1>8 DEF Settle, historyVars
    <2> QED
        BY <1>3, <1>4, <1>8, <2>1, <2>2 DEF WorkerStep, ServeActor, OnlyMailbox
<1>9. ASSUME NEW w \in Workers, LockMember(w) PROVE TakenInv'
    <2>1. pc[w] = "members" /\ pc'[w] \in {"check", "members"}
        BY <1>9, LockMemberEffect
    <2>2. UNCHANGED <<mailbox, accepted, applied>>
        BY <1>9 DEF LockMember, historyVars
    <2> QED
        BY <1>3, <1>4, <1>9, <2>1, <2>2 DEF WorkerStep, RunGroup
<1>10. ASSUME NEW w \in Workers, CheckMember(w) PROVE TakenInv'
    <2>1. pc[w] = "check" /\ pc'[w] \in {"check", "complete"}
        BY <1>10, CheckMemberEffect, FinishEffect
    <2>2. UNCHANGED <<mailbox, accepted, applied>>
        BY <1>10 DEF CheckMember, historyVars
    <2> QED
        BY <1>3, <1>4, <1>10, <2>1, <2>2 DEF WorkerStep, RunGroup
<1>11. ASSUME NEW w \in Workers, CommitGroup(w) PROVE TakenInv'
    <2>1. pc[w] = "check" /\ pc'[w] = "complete"
        BY <1>11, CommitGroupEffect, FinishEffect
    <2>2. mailbox' = mailbox /\ accepted' = accepted
        BY <1>11 DEF CommitGroup
    <2>3. work[w].group \in Nat
        BY <2>1, GroupFacts DEF Shape
    <2>4. \A d \in Docs : GroupOrNone(d)
        BY <1>11, <2>3, CommitGroupEffect DEF GroupOrNone
    <2> QED
        BY <1>4, <1>11, <2>1, <2>2, <2>4 DEF WorkerStep, RunGroup
<1>12. ASSUME NEW w \in Workers, TakeRequest(w) \/ Mutate(w) PROVE TakenInv'
    BY <1>1, <1>12, TakeRequestTaken, MutateTaken
<1> QED
    BY <1>5, <1>6, <1>7, <1>8, <1>9, <1>10, <1>11, <1>12
       DEF Next, WorkerStep, ServeActor, RunGroup, OutsideStep, FreeStep, RestingStep

-----------------------------------------------------------------------------
(* What a group checked.                                                     *)

(* A checked member stays applied up to the group's bound.                 *)
LEMMA CheckedStays ==
    ASSUME Shape, WorkInv, LockInv, AcceptedGrow, AppliedGrow, GroupsGrow,
           NEW v \in Workers, CheckedAreApplied(v), pc[v] = "check", NEW d \in checked[v]
    PROVE  \E n \in Nat : n = group'[work[v].group].before[d] /\ AppliedUpTo(d, n)'
<1>1. work[v].group \in 1..Len(group) /\ d \in Members(v) /\ d \in Docs
    BY GroupFacts DEF LockInv, WorkerLock, Shape
<1>2. PICK n : n = group[work[v].group].before[d]
    OBVIOUS
<1>3. n \in 0..Len(accepted[d])
    BY <1>1, <1>2 DEF WorkInv, SeenByGroups, Members
<1>4. n \in Nat /\ n <= Len(accepted[d])
    BY <1>1, <1>3 DEF Shape
<1>5. AppliedUpTo(d, n)
    BY <1>2 DEF CheckedAreApplied
<1>6. AppliedUpTo(d, n)'
    BY <1>1, <1>4, <1>5, AppliedPersists
<1>7. group'[work[v].group].before[d] = n
    BY <1>1, <1>2 DEF GroupsGrow, Members
<1> QED
    BY <1>4, <1>6, <1>7

(* A group at its checks keeps them while others step.                     *)
LEMMA CheckedSame ==
    ASSUME Shape, WorkInv, LockInv, AcceptedGrow, AppliedGrow, GroupsGrow,
           NEW v \in Workers, CheckedAreApplied(v), Same(v)
    PROVE  CheckedAreApplied(v)'
<1> SUFFICES ASSUME pc'[v] = "check", NEW d \in checked'[v]
             PROVE  AppliedUpTo(d, group[work[v].group].before[d])'
    BY DEF CheckedAreApplied
<1>1. pc[v] = "check" /\ work'[v] = work[v] /\ checked'[v] = checked[v]
    BY DEF Same, Busy
<1>2. PICK n \in Nat : n = group'[work[v].group].before[d] /\ AppliedUpTo(d, n)'
    BY <1>1, CheckedStays
<1> QED
    BY <1>1, <1>2 DEF AppliedUpTo

(* A member is checked only when its mailbox passed the bound.             *)
LEMMA CheckMemberChecked ==
    ASSUME Shape, WorkInv, LockInv, TakenInv, AcceptedGrow, AppliedGrow, GroupsGrow,
           NEW w \in Workers, CheckMember(w), CheckedAreApplied(w), pc' = pc,
           NEW d \in Members(w), MemberReady(work[w].group, d), checked'[w] = checked[w] \cup {d}
    PROVE  CheckedAreApplied(w)'
<1>1. pc[w] = "check" /\ work' = work /\ UNCHANGED <<mailbox, accepted, applied>>
    BY DEF CheckMember, historyVars
<1>2. d \in Docs /\ work[w].group \in 1..Len(group) /\ locked[w] = Members(w)
    BY <1>1, GroupFacts DEF LockInv, WorkerLock
<1>3. \A v \in Workers : pc[v] = "mutate" => work[v].doc # d
    BY <1>1, <1>2 DEF LockInv, WorkerLock, Exclusive
<1>4. AppliedUpTo(d, Taken(d)) /\ Taken(d) = Len(accepted[d])
    <2>1. mailbox[d].queue = <<>> /\ Len(accepted[d]) \in Nat
        BY <1>2 DEF MemberReady, Shape
    <2>2. Taken(d) = Len(accepted[d])
        BY <2>1 DEF Taken
    <2> QED
        BY <1>2, <1>3, <2>2 DEF TakenInv, TakenApplied
<1>5. PICK n : n = group[work[w].group].before[d]
    OBVIOUS
<1>6. AppliedUpTo(d, n) /\ n = group'[work[w].group].before[d]
    <2>1. n \in 0..Len(accepted[d])
        BY <1>2, <1>5 DEF WorkInv, SeenByGroups, Members
    <2>2. Len(accepted[d]) \in Nat
        BY <1>2 DEF Shape
    <2>3. 1..n \subseteq 1..Len(accepted[d])
        BY <2>1, <2>2
    <2>4. n = group'[work[w].group].before[d]
        BY <1>2, <1>5 DEF GroupsGrow
    <2> QED
        BY <1>4, <2>3, <2>4 DEF AppliedUpTo
<1> SUFFICES ASSUME NEW e \in checked'[w]
             PROVE  AppliedUpTo(e, group[work[w].group].before[e])'
    BY DEF CheckedAreApplied
<1>7. CASE e = d
    BY <1>1, <1>6, <1>7 DEF AppliedUpTo
<1>8. CASE e # d
    <2>1. e \in checked[w]
        BY <1>8
    <2>2. PICK k \in Nat : k = group'[work[w].group].before[e] /\ AppliedUpTo(e, k)'
        BY <1>1, <2>1, CheckedStays
    <2> QED
        BY <1>1, <2>2 DEF AppliedUpTo
<1> QED
    BY <1>7, <1>8

(* Every step keeps ReadyInv.                                              *)
LEMMA NextReady ==
    ASSUME Shape, WorkInv, LockInv, NumberInv, TakenInv, ReadyInv, Next
    PROVE  ReadyInv'
<1>1. AcceptedGrow /\ AppliedGrow /\ GroupsGrow
    BY AcceptedOnlyGrows, AppliedOnlyGrows, GroupsOnlyGrow
<1>2. ASSUME NEW v \in Workers, Same(v) \/ pc'[v] # "check" PROVE CheckedAreApplied(v)'
    <2>1. CheckedAreApplied(v)
        BY DEF ReadyInv
    <2>2. CASE pc'[v] # "check"
        BY <2>2 DEF CheckedAreApplied
    <2> QED
        BY <1>1, <1>2, <2>1, <2>2, CheckedSame
<1>3. ASSUME NEW v \in Workers PROVE CheckedAreApplied(v)'
    <2>1. CASE OutsideStep
        BY <1>2, <2>1, OutsideSame
    <2>2. ASSUME NEW w \in Workers, WorkerStep(w) PROVE CheckedAreApplied(v)'
        <3>1. CASE v # w
            BY <1>2, <2>2, <3>1, OthersSame
        <3>2. CASE v = w
            <4>1. CASE FreeStep(w)
                BY <1>2, <3>2, <4>1, FreeSame
            <4>2. CASE TakeWork(w)
                BY <1>2, <3>2, <4>2, TakeWorkEffect, KindFacts
            <4>3. CASE TakeRequest(w) \/ Mutate(w) \/ Settle(w)
                BY <1>2, <3>2, <4>3, TakeRequestEffect, MutateEffect, SettleEffect
            <4>4. CASE LockMember(w)
                <5>1. checked'[w] = {}
                    BY <4>4, LockMemberEffect
                <5> QED
                    BY <3>2, <5>1 DEF CheckedAreApplied
            <4>5. CASE CheckMember(w)
                <5>1. CheckedAreApplied(w)
                    BY DEF ReadyInv
                <5>2. \/ pc' = pc /\ \E d \in Members(w) : /\ MemberReady(work[w].group, d)
                                                          /\ checked'[w] = checked[w] \cup {d}
                      \/ pc[w] = "check" /\ FinishGroup(w, "refused")
                    BY <4>5, CheckMemberEffect
                <5> QED
                    BY <1>1, <1>2, <3>2, <4>5, <5>1, <5>2, CheckMemberChecked, FinishEffect
            <4>6. CASE CommitGroup(w)
                BY <1>2, <3>2, <4>6, CommitGroupEffect, FinishEffect
            <4> QED
                BY <2>2, <4>1, <4>2, <4>3, <4>4, <4>5, <4>6 DEF WorkerStep, ServeActor, RunGroup, FreeStep
        <3> QED
            BY <3>1, <3>2
    <2> QED
        BY <2>1, <2>2 DEF Next, OutsideStep, RestingStep
<1>4. 1..Len(group) \subseteq 1..Len(group')
    BY <1>1 DEF GroupsGrow, Shape
<1>5. ASSUME NEW d \in Docs PROVE GroupIds(d)'
    <2>1. GroupIds(d)
        BY DEF ReadyInv
    <2>2. CASE applied'[d] = applied[d]
        BY <1>4, <2>1, <2>2 DEF GroupIds
    <2>3. ASSUME NEW x \in Effects, applied'[d] = Append(applied[d], x),
                 x.kind = "group" => x.id \in 1..Len(group)
          PROVE  GroupIds(d)'
        <3>1. /\ Len(applied'[d]) = Len(applied[d]) + 1 /\ Len(applied[d]) \in Nat
              /\ \A i \in 1..Len(applied[d]) : applied'[d][i] = applied[d][i]
              /\ applied'[d][Len(applied[d]) + 1] = x
            BY <2>3, OneMore
        <3>2. ASSUME NEW i \in 1..Len(applied'[d])
              PROVE  i = Len(applied[d]) + 1 \/ i \in 1..Len(applied[d])
            BY <3>1
        <3> QED
            BY <1>4, <2>1, <2>3, <3>1, <3>2 DEF GroupIds
    <2>4. ASSUME NEW w \in Workers, Mutate(w) PROVE GroupIds(d)'
        <3>1. RequestEffect(request[w]) \in Effects /\ RequestEffect(request[w]).kind # "group"
            BY DEF RequestEffect, Effects, Shape
        <3>2. applied'[d] = applied[d] \/ applied'[d] = Append(applied[d], RequestEffect(request[w]))
            BY <2>4, MutateEffect
        <3> QED
            BY <2>2, <2>3, <3>1, <3>2
    <2>5. ASSUME NEW w \in Workers, CommitGroup(w) PROVE GroupIds(d)'
        <3>1. work[w].group \in 1..Len(group)
            BY <2>5, GroupFacts DEF CommitGroup
        <3>2. GroupEffect(work[w].group) \in Effects /\ GroupEffect(work[w].group).id \in 1..Len(group)
            BY <3>1 DEF GroupEffect, Effects, Shape
        <3>3. applied'[d] = applied[d] \/ applied'[d] = Append(applied[d], GroupEffect(work[w].group))
            BY <2>5, CommitGroupEffect
        <3> QED
            BY <2>2, <2>3, <3>2, <3>3
    <2> QED
        BY <2>2, <2>4, <2>5
           DEF Next, Submit, MigrateSpill, CancelSpill, ConfigureHistoryLimit, SubmitGroup, Close, SpuriousWake,
               WorkerStep, ServeActor, RunGroup, TakeWork, NoWork, TakeRequest, Settle, Reply, Yield,
               ApplyPolicy, LockMember, CheckMember, CompleteWork, ReplyGroup, historyVars
<1> QED
    BY <1>3, <1>5 DEF ReadyInv

-----------------------------------------------------------------------------
(* The order of effects.                                                     *)

(* How the effects on a document change.                                     *)
LEMMA HowApplied ==
    ASSUME Shape, WorkInv, Next, NEW d \in Docs
    PROVE  \/ applied'[d] = applied[d]
           \/ \E w \in Workers : /\ Mutate(w) /\ pc[w] = "mutate" /\ d = work[w].doc
                               /\ applied'[d] = Append(applied[d], RequestEffect(request[w]))
           \/ \E w \in Workers : /\ CommitGroup(w) /\ d \in Members(w) /\ pc[w] = "check"
                               /\ checked[w] = Members(w)
                               /\ applied'[d] = Append(applied[d], GroupEffect(work[w].group))
<1>1. ASSUME NEW w \in Workers, Mutate(w)
      PROVE  \/ applied'[d] = applied[d]
             \/ /\ pc[w] = "mutate" /\ d = work[w].doc
                /\ applied'[d] = Append(applied[d], RequestEffect(request[w]))
    BY <1>1, MutateEffect
<1>2. ASSUME NEW w \in Workers, CommitGroup(w)
      PROVE  \/ applied'[d] = applied[d]
             \/ /\ d \in Members(w) /\ pc[w] = "check" /\ checked[w] = Members(w)
                /\ applied'[d] = Append(applied[d], GroupEffect(work[w].group))
    BY <1>2, CommitGroupEffect
<1> QED
    BY ZenonT(60), <1>1, <1>2
       DEF Next, Submit, MigrateSpill, CancelSpill, ConfigureHistoryLimit, SubmitGroup, Close, SpuriousWake,
           WorkerStep, ServeActor, RunGroup, TakeWork, NoWork, TakeRequest, Settle, Reply, Yield,
           ApplyPolicy, LockMember, CheckMember, CompleteWork, ReplyGroup, historyVars

(* The i-th effect on d is in order.                                         *)
InOrder(d, i) ==
    applied[d][i].kind = "request" =>
        \E k \in 1..Len(accepted[d]) :
            /\ applied[d][i] = RequestEffect(accepted[d][k])
            /\ \A j \in 1..(i - 1) : applied[d][j] # applied[d][i]
            /\ \A m \in 1..(k - 1) : \E j \in 1..(i - 1) : applied[d][j] = RequestEffect(accepted[d][m])
NotOvertaking(d, i) ==
    applied[d][i].kind = "group" =>
        \A m \in 1..group[applied[d][i].id].before[d] :
            \E j \in 1..(i - 1) : applied[d][j] = RequestEffect(accepted[d][m])

(* Both order properties, and that every effect of a group is on a member.   *)
OrderInv ==
    \A d \in Docs : \A i \in 1..Len(applied[d]) :
        /\ InOrder(d, i) /\ NotOvertaking(d, i)
        /\ applied[d][i].kind = "group" => d \in group[applied[d][i].id].members

(* Effects that are in order stay in order.                                *)
LEMMA OrderStays ==
    ASSUME Shape, WorkInv, ReadyInv, OrderInv, AcceptedGrow, AppliedGrow, GroupsGrow,
           NEW d \in Docs, NEW i \in 1..Len(applied[d])
    PROVE  /\ InOrder(d, i)' /\ NotOvertaking(d, i)'
           /\ applied'[d][i].kind = "group" => d \in group'[applied'[d][i].id].members
<1>1. /\ Len(applied[d]) \in Nat /\ Len(applied'[d]) \in Nat /\ Len(applied[d]) <= Len(applied'[d])
      /\ Len(accepted[d]) \in Nat /\ Len(accepted'[d]) \in Nat /\ Len(accepted[d]) <= Len(accepted'[d])
    BY DEF Shape, AppliedGrow, AcceptedGrow, Extends
<1>2. /\ \A j \in 1..Len(applied[d]) : applied'[d][j] = applied[d][j]
      /\ \A m \in 1..Len(accepted[d]) : accepted'[d][m] = accepted[d][m]
    BY DEF AppliedGrow, AcceptedGrow, Extends
<1>3. 1..(i - 1) \subseteq 1..Len(applied[d]) /\ i \in 1..Len(applied'[d]) /\ applied'[d][i] = applied[d][i]
    BY <1>1, <1>2
<1>4. InOrder(d, i)'
    <2> SUFFICES ASSUME applied[d][i].kind = "request"
                 PROVE  InOrder(d, i)'
        BY <1>3 DEF InOrder
    <2>1. PICK k \in 1..Len(accepted[d]) :
              /\ applied[d][i] = RequestEffect(accepted[d][k])
              /\ \A j \in 1..(i - 1) : applied[d][j] # applied[d][i]
              /\ \A m \in 1..(k - 1) : \E j \in 1..(i - 1) : applied[d][j] = RequestEffect(accepted[d][m])
        BY DEF OrderInv, InOrder
    <2>2. k \in 1..Len(accepted'[d]) /\ 1..(k - 1) \subseteq 1..Len(accepted[d])
        BY <1>1
    <2>3. applied'[d][i] = RequestEffect(accepted'[d][k])
        BY <1>2, <1>3, <2>1
    <2>4. \A j \in 1..(i - 1) : applied'[d][j] # applied'[d][i]
        BY <1>2, <1>3, <2>1
    <2>5. \A m \in 1..(k - 1) : \E j \in 1..(i - 1) : applied'[d][j] = RequestEffect(accepted'[d][m])
        BY <1>2, <1>3, <2>1, <2>2
    <2> QED
        BY <2>2, <2>3, <2>4, <2>5 DEF InOrder
<1>5. ASSUME applied[d][i].kind = "group"
      PROVE  NotOvertaking(d, i)' /\ d \in group'[applied'[d][i].id].members
    <2>1. applied[d][i].id \in 1..Len(group) /\ d \in group[applied[d][i].id].members
        BY <1>5 DEF ReadyInv, GroupIds, OrderInv
    <2>2. /\ group'[applied[d][i].id].before[d] = group[applied[d][i].id].before[d]
          /\ group'[applied[d][i].id].members = group[applied[d][i].id].members
        BY <2>1 DEF GroupsGrow
    <2>3. group[applied[d][i].id].before[d] \in 0..Len(accepted[d])
        BY <2>1 DEF WorkInv, SeenByGroups
    <2>4. 1..group[applied[d][i].id].before[d] \subseteq 1..Len(accepted[d])
        BY <1>1, <2>3
    <2>5. ASSUME NEW m \in 1..group[applied[d][i].id].before[d]
          PROVE  \E j \in 1..(i - 1) : applied'[d][j] = RequestEffect(accepted'[d][m])
        <3>1. PICK j \in 1..(i - 1) : applied[d][j] = RequestEffect(accepted[d][m])
            BY <1>5, <2>5 DEF OrderInv, NotOvertaking
        <3> QED
            BY <1>2, <1>3, <2>4, <3>1
    <2> QED
        BY <1>3, <2>1, <2>2, <2>5 DEF NotOvertaking
<1> QED
    BY <1>3, <1>4, <1>5 DEF NotOvertaking

(* Every step keeps OrderInv.                                              *)
LEMMA NextOrder ==
    ASSUME Shape, WorkInv, LockInv, NumberInv, TakenInv, ReadyInv, OrderInv, Next
    PROVE  OrderInv'
<1>1. AcceptedGrow /\ AppliedGrow /\ GroupsGrow
    BY AcceptedOnlyGrows, AppliedOnlyGrows, GroupsOnlyGrow
<1> SUFFICES ASSUME NEW d \in Docs, NEW i \in 1..Len(applied'[d])
             PROVE  /\ InOrder(d, i)' /\ NotOvertaking(d, i)'
                    /\ applied'[d][i].kind = "group" => d \in group'[applied'[d][i].id].members
    BY DEF OrderInv
<1>2. CASE i \in 1..Len(applied[d])
    BY <1>1, <1>2, OrderStays
<1>3. ASSUME NEW w \in Workers, Mutate(w), i \notin 1..Len(applied[d]), pc[w] = "mutate", d = work[w].doc,
             applied'[d] = Append(applied[d], RequestEffect(request[w]))
      PROVE  /\ InOrder(d, i)' /\ NotOvertaking(d, i)'
             /\ applied'[d][i].kind = "group" => d \in group'[applied'[d][i].id].members
    <2>1. RequestEffect(request[w]) \in Effects
        BY DEF RequestEffect, Effects, Shape
    <2>2. /\ Len(applied'[d]) = Len(applied[d]) + 1 /\ Len(applied[d]) \in Nat
          /\ \A j \in 1..Len(applied[d]) : applied'[d][j] = applied[d][j]
          /\ applied'[d][Len(applied[d]) + 1] = RequestEffect(request[w])
        BY <1>3, <2>1, OneMore
    <2>3. i - 1 = Len(applied[d]) /\ applied'[d][i] = RequestEffect(request[w])
        <3>1. i \in 1..(Len(applied[d]) + 1)
            BY <2>2
        <3>2. i = Len(applied[d]) + 1
            BY <1>3, <2>2, <3>1
        <3> QED
            BY <2>2, <3>2
    <2>4. accepted' = accepted
        BY <1>3 DEF Mutate
    <2>5. /\ Taken(d) # 0 /\ request[w] = accepted[d][Taken(d)] /\ AppliedUpTo(d, Taken(d) - 1)
          /\ \A j \in 1..Len(applied[d]) : applied[d][j] # RequestEffect(request[w])
        BY <1>3 DEF TakenInv, AboutToApply
    <2>6. Taken(d) \in 1..Len(accepted[d])
        <3>1. Taken(d) \in Nat /\ Taken(d) = Len(accepted[d]) - Len(mailbox[d].queue)
            BY DEF TakenInv, QueueIs, Taken
        <3>2. Len(accepted[d]) \in Nat /\ Len(mailbox[d].queue) \in Nat
            BY DEF Shape, Mailbox
        <3>3. PICK n \in Nat, q \in Nat : n = Len(accepted[d]) /\ q = Len(mailbox[d].queue)
            BY <3>2
        <3>4. n - q \in Nat /\ n - q # 0 /\ Taken(d) = n - q
            BY <2>5, <3>1, <3>3
        <3>5. n - q \in 1..n
            BY <3>4
        <3> QED
            BY <3>3, <3>4, <3>5
    <2>7. \A m \in 1..(Taken(d) - 1) : \E j \in 1..(i - 1) : applied'[d][j] = RequestEffect(accepted[d][m])
        BY <2>2, <2>3, <2>5 DEF AppliedUpTo
    <2>8. \A j \in 1..(i - 1) : applied'[d][j] # applied'[d][i]
        BY <2>2, <2>3, <2>5
    <2>9. InOrder(d, i)'
        BY <2>3, <2>4, <2>5, <2>6, <2>7, <2>8 DEF InOrder
    <2>10. applied'[d][i].kind # "group"
        BY <2>3, EffectKinds
    <2> QED
        BY <2>9, <2>10 DEF NotOvertaking
<1>4. ASSUME NEW w \in Workers, CommitGroup(w), i \notin 1..Len(applied[d]), pc[w] = "check",
             checked[w] = Members(w), d \in Members(w),
             applied'[d] = Append(applied[d], GroupEffect(work[w].group))
      PROVE  /\ InOrder(d, i)' /\ NotOvertaking(d, i)'
             /\ applied'[d][i].kind = "group" => d \in group'[applied'[d][i].id].members
    <2>1. work[w].group \in 1..Len(group)
        BY <1>4, GroupFacts
    <2>2. GroupEffect(work[w].group) \in Effects
        BY <2>1 DEF GroupEffect, Effects, Shape
    <2>3. /\ Len(applied'[d]) = Len(applied[d]) + 1 /\ Len(applied[d]) \in Nat
          /\ \A j \in 1..Len(applied[d]) : applied'[d][j] = applied[d][j]
          /\ applied'[d][Len(applied[d]) + 1] = GroupEffect(work[w].group)
        BY <1>4, <2>2, OneMore
    <2>4. i - 1 = Len(applied[d]) /\ applied'[d][i] = GroupEffect(work[w].group)
        BY <1>4, <2>3
    <2>5. applied'[d][i].id = work[w].group /\ applied'[d][i].kind # "request"
        BY <2>4 DEF GroupEffect
    <2>6. /\ group'[work[w].group].before[d] = group[work[w].group].before[d]
          /\ d \in group'[work[w].group].members
        BY <1>1, <1>4, <2>1 DEF GroupsGrow, Members
    <2>7. AppliedUpTo(d, group[work[w].group].before[d])
        BY <1>4 DEF ReadyInv, CheckedAreApplied
    <2>8. accepted' = accepted
        BY <1>4 DEF CommitGroup
    <2>9. ASSUME NEW m \in 1..group'[work[w].group].before[d]
          PROVE  \E j \in 1..(i - 1) : applied'[d][j] = RequestEffect(accepted'[d][m])
        <3>1. PICK j \in 1..Len(applied[d]) : applied[d][j] = RequestEffect(accepted[d][m])
            BY <2>6, <2>7, <2>9 DEF AppliedUpTo
        <3> QED
            BY <2>3, <2>4, <2>8, <3>1
    <2> QED
        BY <2>5, <2>6, <2>9 DEF InOrder, NotOvertaking
<1> QED
    BY <1>2, <1>3, <1>4, HowApplied

(* OrderInv is what the two properties of the effects say.                 *)
LEMMA OrderMeans ==
    ASSUME Shape, OrderInv
    PROVE  AppliedInOrder /\ GroupNeverOvertakes
<1>1. \A d \in Docs : DOMAIN applied[d] = 1..Len(applied[d]) /\ DOMAIN accepted[d] = 1..Len(accepted[d])
    BY DEF Shape
<1>2. AppliedInOrder
    <2>1. ASSUME NEW d \in Docs, NEW i \in DOMAIN applied[d], applied[d][i].kind = "request"
          PROVE  \E k \in DOMAIN accepted[d] :
                    /\ applied[d][i] = RequestEffect(accepted[d][k])
                    /\ \A j \in 1..(i - 1) : applied[d][j] # applied[d][i]
                    /\ \A m \in 1..(k - 1) : \E j \in 1..(i - 1) : applied[d][j] = RequestEffect(accepted[d][m])
        <3>1. InOrder(d, i)
            BY <1>1, <2>1 DEF OrderInv
        <3> QED
            BY <1>1, <2>1, <3>1, Zenon DEF InOrder
    <2> QED
        BY <2>1, Zenon DEF AppliedInOrder
<1>3. GroupNeverOvertakes
    BY <1>1 DEF GroupNeverOvertakes, OrderInv, NotOvertaking
<1> QED
    BY <1>2, <1>3

-----------------------------------------------------------------------------
(* The theorems.                                                             *)

IInv == Shape /\ WorkInv /\ LockInv /\ RetireInv /\ NumberInv /\ TakenInv /\ ReadyInv /\ OrderInv

(* IInv holds initially.                                                   *)
LEMMA InitInv ==
    ASSUME Init
    PROVE  IInv
<1>1. Shape
    BY InitShape
<1>2. \A w \in Workers : pc[w] = "unstarted" /\ work[w] = Nothing /\ locked[w] = {}
    BY DEF Init
<1>3. /\ ready.queue = <<>> /\ group = <<>>
      /\ \A d \in Docs : /\ mailbox[d].queue = <<>> /\ ~ mailbox[d].scheduled /\ ~ mailbox[d].retired
                       /\ accepted[d] = <<>> /\ applied[d] = <<>>
    BY DEF Init
<1>4. WorkInv
    BY <1>2, <1>3 DEF WorkInv, WorkerWork, QueueWork, SeenByGroups, ServesActor, Nothing
<1>5. LockInv
    BY <1>2 DEF LockInv, Exclusive, WorkerLock, Busy
<1>6. RetireInv
    BY <1>2, <1>3 DEF RetireInv, ActorRetire, WorkerRetire
<1>7. NumberInv
    <2>1. Accepted = 1..0
        BY <1>3 DEF Accepted, Range
    <2> QED
        BY <1>3, <2>1 DEF NumberInv
<1>8. TakenInv
    <2>1. \A d \in Docs : Taken(d) = 0
        BY <1>3 DEF Taken
    <2> QED
        BY <1>2, <1>3, <2>1 DEF TakenInv, QueueIs, EffectsTaken, TakenApplied, AppliedUpTo, AboutToApply
<1>9. ReadyInv
    BY <1>2, <1>3 DEF ReadyInv, CheckedAreApplied, GroupIds
<1>10. OrderInv
    BY <1>3 DEF OrderInv
<1> QED
    BY <1>1, <1>4, <1>5, <1>6, <1>7, <1>8, <1>9, <1>10 DEF IInv

(* Every step keeps IInv.                                                  *)
LEMMA NextInv ==
    ASSUME IInv, [Next]_vars
    PROVE  IInv'
<1>1. CASE Next
    <2>1. Shape /\ WorkInv /\ LockInv /\ RetireInv /\ NumberInv /\ TakenInv /\ ReadyInv /\ OrderInv
        BY DEF IInv
    <2>2. Shape' /\ WorkInv' /\ LockInv'
        BY <1>1, <2>1, NextShape, NextWork, NextLock
    <2>3. RetireInv' /\ NumberInv' /\ TakenInv'
        BY <1>1, <2>1, NextRetire, NextNumber, NextTaken
    <2>4. ReadyInv' /\ OrderInv'
        BY <1>1, <2>1, NextReady, NextOrder
    <2> QED
        BY <2>2, <2>3, <2>4 DEF IInv
<1>2. CASE UNCHANGED vars
    <2>1. UNCHANGED <<pc, work, request, locked, checked, ready, mailbox, doc, group, accepted, applied>>
        BY <1>2 DEF vars, workerVars, historyVars
    <2>2. Shape'
        BY <2>1 DEF IInv, Shape
    <2>3. WorkInv'
        BY <2>1 DEF IInv, WorkInv, WorkerWork, QueueWork, SeenByGroups
    <2>4. LockInv'
        BY <2>1 DEF IInv, LockInv, Exclusive, WorkerLock, Members
    <2>5. RetireInv'
        BY <2>1 DEF IInv, RetireInv, ActorRetire, WorkerRetire
    <2>6. NumberInv'
        BY <2>1 DEF IInv, NumberInv, Accepted
    <2>7. \A d \in Docs : (QueueIs(d) /\ EffectsTaken(d) /\ TakenApplied(d))
                          => (QueueIs(d) /\ EffectsTaken(d) /\ TakenApplied(d))'
        BY <2>1 DEF QueueIs, Taken, EffectsTaken, TakenApplied, AppliedUpTo
    <2>8. \A w \in Workers : AboutToApply(w) => AboutToApply(w)'
        BY <2>1 DEF AboutToApply, Taken, AppliedUpTo
    <2>9. TakenInv'
        BY <2>7, <2>8 DEF IInv, TakenInv
    <2>10. ReadyInv'
        BY <2>1 DEF IInv, ReadyInv, CheckedAreApplied, AppliedUpTo, GroupIds
    <2>11. OrderInv'
        <3>1. ASSUME NEW d \in Docs, NEW i \in 1..Len(applied[d])
              PROVE  InOrder(d, i) /\ NotOvertaking(d, i) => (InOrder(d, i) /\ NotOvertaking(d, i))'
            BY <2>1 DEF InOrder, NotOvertaking
        <3> QED
            BY <2>1, <3>1 DEF IInv, OrderInv
    <2> QED
        BY <2>2, <2>3, <2>4, <2>5, <2>6, <2>9, <2>10, <2>11 DEF IInv
<1> QED
    BY <1>1, <1>2

(* The inductive invariant of the document workers.                          *)
THEOREM Inductive == Spec => []IInv
<1> QED
    BY InitInv, NextInv, PTL DEF Spec

(* Requests of a document take effect once each and in the order they were   *)
(* accepted, for any number of workers and any quantum (run_worker).         *)
THEOREM EffectsInOrder == Spec => []AppliedInOrder
<1>1. IInv => AppliedInOrder
    BY OrderMeans DEF IInv
<1> QED
    BY <1>1, Inductive, PTL

(* A group edit takes effect after every request that its caller's documents *)
(* had accepted when it was submitted (run_group).                           *)
THEOREM GroupsWaitTheirTurn == Spec => []GroupNeverOvertakes
<1>1. IInv => GroupNeverOvertakes
    BY OrderMeans DEF IInv
<1> QED
    BY <1>1, Inductive, PTL

(* No step changes an actor that was retired, or puts a request into its     *)
(* mailbox (migrate_spill).                                                  *)
THEOREM MovedTextStays == Spec => RetiredStaysFrozen
<1>1. IInv /\ [Next]_vars => [Frozen]_vars
    BY NextFrozen DEF IInv
<1>2. [][Frozen]_vars <=> RetiredStaysFrozen
    BY DEF Frozen, RetiredStaysFrozen
<1> QED
    BY <1>1, <1>2, Inductive, PTL DEF Spec
=============================================================================

--------------------------- MODULE DocumentScheduler ---------------------------
(***************************************************************************)
(* The document workers: crates/document/src/service.rs.                   *)
(*                                                                         *)
(* Every open document is an actor with a mailbox.  A request puts the     *)
(* actor, once, into a bounded ready queue; workers, started on demand,    *)
(* take an actor and serve a quantum of its requests.  A group edit and a  *)
(* change of the history policy are works of their own, and lock the       *)
(* actors they touch.  A document that moves to large-file storage is      *)
(* retired, and revived when its new editor cannot be installed.           *)
(*                                                                         *)
(* The mailbox lock and the ready lock are held for O(1) work, so what is  *)
(* done under them is one step; the actor lock is held across steps.       *)
(***************************************************************************)
EXTENDS Integers, Sequences, FiniteSets, FiniteSetsExt, SequencesExt

CONSTANTS
    NumDocs,          \* open documents, identified by 1..NumDocs
    NumWorkers,       \* max_workers
    Capacity,         \* ready_capacity: works admitted, running ones included
    MailboxCapacity,  \* requests queued at one actor
    Quantum,          \* ACTOR_QUANTUM
    Limits,           \* values of the history limit that are configured
    Cancels,          \* whether the installation of a moved document may fail
    MaxRequests,      \* bound on the requests that are accepted
    MaxGroups,        \* bound on the group edits that are accepted
    MaxPolicies,      \* bound on the configured limits
    MaxMoves,         \* bound on the moves to large-file storage
    MaxCalls          \* bound on all of these together

ASSUME ConstantsAssumption ==
    /\ {NumDocs, NumWorkers, Capacity, MailboxCapacity, Quantum} \subseteq Nat \ {0}
    /\ Limits \subseteq Nat \ {0} /\ \E most \in Limits : \A l \in Limits : l <= most
    /\ Cancels \in BOOLEAN
    /\ {MaxRequests, MaxGroups, MaxPolicies, MaxMoves, MaxCalls} \subseteq Nat

Docs == 1..NumDocs
Workers == 1..NumWorkers
Nothing == [kind |-> "nothing"]

VARIABLES
    pc,         \* pc[w]: where worker w is in run_worker
    work,       \* work[w]: the Work it holds
    request,    \* request[w]: the request it serves, 0 for none
    served,     \* served[w]: requests served of this quantum
    locked,     \* locked[w]: the actors whose state it holds, all its members for a group
    checked,    \* checked[w]: members of its group found ready
    ready,      \* ReadyState: the queue, the admitted works, closed
    mailbox,    \* mailbox[d]: the Mailbox of actor d
    doc,        \* doc[d]: revision, history depth and history limit
    group,      \* group[g]: a group edit: its members, what its caller saw, its outcome
    moves,      \* moves to large-file storage made so far
    policies,   \* policies configured so far
    accepted,   \* accepted[d]: requests in the order they were accepted
    applied,    \* applied[d]: requests and groups in the order they took effect
    answered    \* requests whose completion was sent

workerVars == <<pc, work, request, served, locked, checked>>
historyVars == <<accepted, applied, answered>>
vars == <<workerVars, ready, mailbox, doc, group, moves, policies, historyVars>>

Requests == 1..MaxRequests
Accepted == UNION {Range(accepted[d]) : d \in Docs}

Works ==
    {Nothing} \cup [kind : {"actor"}, doc : Docs]
              \cup [kind : {"policy"}, doc : Docs, limit : Limits]
              \cup [kind : {"group"}, group : 1..MaxGroups]

---------------------------------------------------------------------------
(* The condition variable of the ready queue, and the workers it wakes.    *)

Waiting(p) == {w \in Workers : p[w] = "waiting"}
Started(p) == {w \in Workers : p[w] # "unstarted"}

(* Workers in `next` that wait, or were woken and have not run yet. *)
IdleWorkers(p) == {w \in Workers : p[w] \in {"waiting", "woken"}}

NotifyOne(p) == IF Waiting(p) = {} THEN {p} ELSE {[p EXCEPT ![w] = "woken"] : w \in Waiting(p)}

NotifyAll(p) == [w \in Workers |-> IF p[w] = "waiting" THEN "woken" ELSE p[w]]

(* Starts a worker when every idle one is promised to queued work; the     *)
(* system may refuse the thread.                                           *)
EnsureWorker(p) ==
    IF Len(ready.queue) >= Cardinality(IdleWorkers(p)) /\ Started(p) # Workers
      THEN {p, [p EXCEPT ![Min(Workers \ Started(p))] = "next"]}
      ELSE {p}

(* ReadyQueue::submit, and the same admission in submit_context. *)
Admit(w) ==
    /\ ~ready.closed
    /\ ready.admitted < Capacity
    /\ \E p \in EnsureWorker(pc) : Started(p) # {} /\ pc' \in NotifyOne(p)
    /\ ready' = [ready EXCEPT !.admitted = @ + 1, !.queue = Append(@, w)]

(* ReadyQueue::complete: a work ends, or yields and keeps its slot. *)
Released == [ready EXCEPT !.admitted = @ - 1]
Yielded(w) == [ready EXCEPT !.queue = Append(@, w)]

---------------------------------------------------------------------------
(* The callers. *)

(* Every call that is counted, for the bound. *)
MayCall == Cardinality(Accepted) + Len(group) + policies + moves < MaxCalls

StateFree(d) == \A w \in Workers : d \notin locked[w]

(* submit_context: only the mailbox and the ready queue, never the state. *)
Submit(d) ==
    LET r == Cardinality(Accepted) + 1
        m == mailbox[d]
    IN /\ r <= MaxRequests /\ MayCall
       /\ ~m.retired
       /\ Len(m.queue) < MailboxCapacity
       /\ IF m.scheduled
            THEN ~ready.closed /\ UNCHANGED <<pc, ready>>
            ELSE Admit([kind |-> "actor", doc |-> d])
       /\ mailbox' = [mailbox EXCEPT ![d].queue = Append(@, r), ![d].scheduled = TRUE]
       /\ accepted' = [accepted EXCEPT ![d] = Append(@, r)]
       /\ UNCHANGED <<work, request, served, locked, checked, doc, group, moves, policies,
                      applied, answered>>

(* submit_group: at least two documents of this scheduler, each with the   *)
(* snapshot its caller captured from the publication.                      *)
SubmitGroup(members) ==
    /\ Len(group) < MaxGroups /\ MayCall
    /\ Cardinality(members) >= 2
    /\ Admit([kind |-> "group", group |-> Len(group) + 1])
    /\ group' = Append(group, [members |-> members, outcome |-> "pending", replied |-> FALSE,
                               base |-> [d \in members |-> doc[d].revision],
                               before |-> [d \in members |-> Len(accepted[d])]])
    /\ UNCHANGED <<work, request, served, locked, checked, mailbox, doc, moves, policies, historyVars>>

(* configure_history_limit: at once when nothing has to be trimmed and no  *)
(* worker holds the actor, else through the queue.                         *)
ConfigureHistoryLimit(d, limit) ==
    /\ policies < MaxPolicies /\ MayCall
    /\ ~mailbox[d].retired
    /\ mailbox[d].configured # limit
    /\ IF StateFree(d) /\ doc[d].depth <= limit
         THEN doc' = [doc EXCEPT ![d].limit = limit] /\ UNCHANGED <<pc, ready>>
         ELSE Admit([kind |-> "policy", doc |-> d, limit |-> limit]) /\ UNCHANGED doc
    /\ mailbox' = [mailbox EXCEPT ![d].configured = limit]
    /\ policies' = policies + 1
    /\ UNCHANGED <<work, request, served, locked, checked, group, moves, historyVars>>

(* The mailbox of a live actor with no queued or running request. *)
IdleActor(d) == ~mailbox[d].retired /\ ~mailbox[d].scheduled /\ mailbox[d].queue = <<>>

(* Faulty variant: an empty mailbox is taken for an idle actor. *)
RetireEmptyMailbox(d) ==
    /\ moves < MaxMoves /\ MayCall
    /\ ~mailbox[d].retired /\ mailbox[d].queue = <<>>
    /\ mailbox' = [mailbox EXCEPT ![d].retired = TRUE]
    /\ moves' = moves + 1
    /\ UNCHANGED <<workerVars, ready, doc, group, policies, historyVars>>

(* migrate_spill and migrate_clean_spill: the document moves to            *)
(* large-file storage and its actor is retired.                            *)
MigrateSpill(d) ==
    /\ moves < MaxMoves /\ MayCall
    /\ StateFree(d)
    /\ IdleActor(d)
    /\ mailbox' = [mailbox EXCEPT ![d].retired = TRUE]
    /\ moves' = moves + 1
    /\ UNCHANGED <<workerVars, ready, doc, group, policies, historyVars>>

(* cancel_clean_spill: the new editor could not be installed. *)
CancelSpill(d) ==
    /\ Cancels
    /\ mailbox[d].retired
    /\ StateFree(d)
    /\ mailbox' = [mailbox EXCEPT ![d].retired = FALSE]
    /\ UNCHANGED <<workerVars, ready, doc, group, moves, policies, historyVars>>

Close ==
    /\ ~ready.closed
    /\ ready' = [ready EXCEPT !.closed = TRUE]
    /\ pc' = NotifyAll(pc)
    /\ UNCHANGED <<work, request, served, locked, checked, mailbox, doc, group, moves, policies, historyVars>>

---------------------------------------------------------------------------
(* A worker serves an actor. *)

Entry(w) == [actor |-> "lock", policy |-> "policy", group |-> "members"][w.kind]

(* ReadyQueue::next: takes work, leaves, or waits. *)
TakeWork(w) ==
    /\ pc[w] \in {"next", "woken"}
    /\ ready.queue # <<>>
    /\ work' = [work EXCEPT ![w] = Head(ready.queue)]
    /\ pc' = [pc EXCEPT ![w] = Entry(Head(ready.queue))]
    /\ ready' = [ready EXCEPT !.queue = Tail(@)]
    /\ served' = [served EXCEPT ![w] = 0]
    /\ UNCHANGED <<request, locked, checked, mailbox, doc, group, moves, policies, historyVars>>

NoWork(w) ==
    /\ pc[w] \in {"next", "woken"}
    /\ ready.queue = <<>>
    /\ pc' = [pc EXCEPT ![w] = IF ready.closed /\ ready.admitted = 0 THEN "exited" ELSE "waiting"]
    /\ UNCHANGED <<work, request, served, locked, checked, ready, mailbox, doc, group, moves,
                   policies, historyVars>>

(* Faulty variant: the newest request is served first. *)
TakeNewestRequest(w) ==
    LET d == work[w].doc
    IN /\ pc[w] = "lock"
       /\ StateFree(d)
       /\ mailbox[d].queue # <<>>
       /\ request' = [request EXCEPT ![w] = Last(mailbox[d].queue)]
       /\ mailbox' = [mailbox EXCEPT ![d].queue = Front(@)]
       /\ locked' = [locked EXCEPT ![w] = {d}]
       /\ pc' = [pc EXCEPT ![w] = "mutate"]
       /\ UNCHANGED <<work, served, checked, ready, doc, group, moves, policies, historyVars>>

(* The actor's state is locked, then a request leaves the mailbox. *)
TakeRequest(w) ==
    LET d == work[w].doc
    IN /\ pc[w] = "lock"
       /\ StateFree(d)
       /\ mailbox[d].queue # <<>>
       /\ request' = [request EXCEPT ![w] = Head(mailbox[d].queue)]
       /\ mailbox' = [mailbox EXCEPT ![d].queue = Tail(@)]
       /\ locked' = [locked EXCEPT ![w] = {d}]
       /\ pc' = [pc EXCEPT ![w] = "mutate"]
       /\ UNCHANGED <<work, served, checked, ready, doc, group, moves, policies, historyVars>>

(* What takes effect on a document: a request, or a group. *)
RequestEffect(r) == [kind |-> "request", id |-> r]
GroupEffect(g) == [kind |-> "group", id |-> g]

(* The mutation commits, or is refused and changes nothing, and the        *)
(* document is published.                                                  *)
Mutated(x) == [x EXCEPT !.revision = @ + 1, !.depth = IF @ < x.limit THEN @ + 1 ELSE x.limit]

Mutate(w) ==
    LET d == work[w].doc
    IN /\ pc[w] = "mutate"
       /\ doc' \in {doc, [doc EXCEPT ![d] = Mutated(@)]}
       /\ applied' = [applied EXCEPT ![d] = Append(@, RequestEffect(request[w]))]
       /\ served' = [served EXCEPT ![w] = @ + 1]
       /\ pc' = [pc EXCEPT ![w] = "settle"]
       /\ UNCHANGED <<work, request, locked, checked, ready, mailbox, group, moves, policies,
                      accepted, answered>>

(* With the last request the admission slot is released, before the actor  *)
(* is and before the reply.                                                *)
Settle(w) ==
    LET d == work[w].doc
        last == mailbox[d].queue = <<>>
    IN /\ pc[w] = "settle"
       /\ mailbox' = [mailbox EXCEPT ![d].scheduled = @ /\ ~last]
       /\ ready' = IF last THEN Released ELSE ready
       /\ pc' = [(IF last THEN NotifyAll(pc) ELSE pc) EXCEPT ![w] = IF last THEN "last" ELSE "reply"]
       /\ locked' = [locked EXCEPT ![w] = {}]
       /\ UNCHANGED <<work, request, served, checked, doc, group, moves, policies, historyVars>>

(* The completion is sent.  The actor is left after its last request, and  *)
(* yielded after a quantum.                                                *)
Reply(w) ==
    /\ pc[w] \in {"last", "reply"}
    /\ answered' = answered \cup {request[w]}
    /\ request' = [request EXCEPT ![w] = 0]
    /\ pc' = [pc EXCEPT ![w] = IF pc[w] = "last" THEN "next"
                               ELSE IF served[w] = Quantum THEN "yield" ELSE "lock"]
    /\ work' = [work EXCEPT ![w] = IF pc[w] = "last" THEN Nothing ELSE @]
    /\ UNCHANGED <<served, locked, checked, ready, mailbox, doc, group, moves, policies, accepted, applied>>

Yield(w) ==
    /\ pc[w] = "yield"
    /\ ready' = Yielded(work[w])
    /\ pc' = [NotifyAll(pc) EXCEPT ![w] = "next"]
    /\ work' = [work EXCEPT ![w] = Nothing]
    /\ UNCHANGED <<request, served, locked, checked, mailbox, doc, group, moves, policies, historyVars>>

(* A limit takes effect, and the oldest history goes. *)
Limited(x, limit) == [x EXCEPT !.limit = limit, !.depth = IF @ < limit THEN @ ELSE limit]

(* A policy work applies the latest configured limit, not its own: workers *)
(* may reach the actor out of queue order.                                 *)
ApplyPolicy(w) ==
    LET d == work[w].doc
        limit == mailbox[d].configured
    IN /\ pc[w] = "policy"
       /\ StateFree(d)
       /\ doc' = IF mailbox[d].retired THEN doc
                 ELSE [doc EXCEPT ![d] = Limited(@, limit)]
       /\ pc' = [pc EXCEPT ![w] = "complete"]
       /\ UNCHANGED <<work, request, served, locked, checked, ready, mailbox, group, moves,
                      policies, historyVars>>

---------------------------------------------------------------------------
(* A worker runs a group edit. *)

Members(w) == group[work[w].group].members

(* Faulty variant: the members are locked in any order. *)
LockAnyMember(w) ==
    /\ pc[w] = "members"
    /\ \E d \in Members(w) \ locked[w] :
        /\ StateFree(d)
        /\ locked' = [locked EXCEPT ![w] = @ \cup {d}]
        /\ pc' = [pc EXCEPT ![w] = IF Members(w) = locked[w] \cup {d} THEN "check" ELSE @]
    /\ checked' = [checked EXCEPT ![w] = {}]
    /\ UNCHANGED <<work, request, served, ready, mailbox, doc, group, moves, policies, historyVars>>

(* The members are locked in the order of their ids. *)
LockMember(w) ==
    /\ pc[w] = "members"
    /\ LET d == Min(Members(w) \ locked[w])
       IN /\ StateFree(d)
          /\ locked' = [locked EXCEPT ![w] = @ \cup {d}]
          /\ pc' = [pc EXCEPT ![w] = IF Members(w) = locked[w] \cup {d} THEN "check" ELSE @]
    /\ checked' = [checked EXCEPT ![w] = {}]
    /\ UNCHANGED <<work, request, served, ready, mailbox, doc, group, moves, policies, historyVars>>

(* Faulty variant: the revision alone shows that a member is unchanged. *)
MemberUnchanged(g, d) == ~mailbox[d].retired /\ doc[d].revision = group[g].base[d]

(* Nothing may wait in a member's mailbox, and the caller saw its text. *)
MemberReady(g, d) ==
    /\ ~mailbox[d].retired
    /\ mailbox[d].queue = <<>>
    /\ doc[d].revision = group[g].base[d]

FinishGroup(w, outcome) ==
    /\ group' = [group EXCEPT ![work[w].group].outcome = outcome]
    /\ locked' = [locked EXCEPT ![w] = {}]
    /\ pc' = [pc EXCEPT ![w] = "complete"]

CheckMember(w) ==
    /\ pc[w] = "check"
    /\ checked[w] # Members(w)
    /\ LET d == Min(Members(w) \ checked[w])
       IN IF MemberReady(work[w].group, d)
            THEN /\ checked' = [checked EXCEPT ![w] = @ \cup {d}]
                 /\ UNCHANGED <<pc, locked, group>>
            ELSE FinishGroup(w, "refused") /\ UNCHANGED checked
    /\ UNCHANGED <<work, request, served, ready, mailbox, doc, moves, policies, historyVars>>

(* All members commit, or none when one cannot be staged or charged. *)
CommitGroup(w) ==
    /\ pc[w] = "check"
    /\ checked[w] = Members(w)
    /\ \/ /\ doc' = [d \in Docs |-> IF d \in Members(w) THEN Mutated(doc[d]) ELSE doc[d]]
          /\ applied' = [d \in Docs |->
                IF d \in Members(w) THEN Append(applied[d], GroupEffect(work[w].group))
                                    ELSE applied[d]]
          /\ FinishGroup(w, "committed")
       \/ FinishGroup(w, "refused") /\ UNCHANGED <<doc, applied>>
    /\ UNCHANGED <<work, request, served, checked, ready, mailbox, moves, policies, accepted, answered>>

(* A policy and a group release their slot; a group then replies. *)
CompleteWork(w) ==
    /\ pc[w] = "complete"
    /\ ready' = Released
    /\ LET replies == work[w].kind = "group"
       IN /\ pc' = [NotifyAll(pc) EXCEPT ![w] = IF replies THEN "answer" ELSE "next"]
          /\ work' = IF replies THEN work ELSE [work EXCEPT ![w] = Nothing]
    /\ UNCHANGED <<request, served, locked, checked, mailbox, doc, group, moves, policies, historyVars>>

ReplyGroup(w) ==
    /\ pc[w] = "answer"
    /\ group' = [group EXCEPT ![work[w].group].replied = TRUE]
    /\ pc' = [pc EXCEPT ![w] = "next"]
    /\ work' = [work EXCEPT ![w] = Nothing]
    /\ UNCHANGED <<request, served, locked, checked, ready, mailbox, doc, moves, policies, historyVars>>

---------------------------------------------------------------------------
Init ==
    /\ pc = [w \in Workers |-> "unstarted"]
    /\ work = [w \in Workers |-> Nothing]
    /\ request = [w \in Workers |-> 0]
    /\ served = [w \in Workers |-> 0]
    /\ locked = [w \in Workers |-> {}]
    /\ checked = [w \in Workers |-> {}]
    /\ ready = [queue |-> <<>>, admitted |-> 0, closed |-> FALSE]
    /\ mailbox = [d \in Docs |-> [queue |-> <<>>, scheduled |-> FALSE, retired |-> FALSE,
                                  configured |-> 0]]
    /\ doc \in [Docs -> [revision : {0}, depth : {1}, limit : {Max(Limits)}]]
    /\ group = <<>> /\ moves = 0 /\ policies = 0
    /\ accepted = [d \in Docs |-> <<>>]
    /\ applied = [d \in Docs |-> <<>>]
    /\ answered = {}

ServeActor(w) == TakeRequest(w) \/ Mutate(w) \/ Settle(w) \/ Reply(w) \/ Yield(w)
RunGroup(w) == LockMember(w) \/ CheckMember(w) \/ CommitGroup(w) \/ ReplyGroup(w)
WorkerStep(w) ==
    TakeWork(w) \/ NoWork(w) \/ ServeActor(w) \/ ApplyPolicy(w) \/ RunGroup(w) \/ CompleteWork(w)

(* A condition variable may wake without a notification. *)
SpuriousWake(w) ==
    /\ pc[w] = "waiting"
    /\ pc' = [pc EXCEPT ![w] = "woken"]
    /\ UNCHANGED <<work, request, served, locked, checked, ready, mailbox, doc, group, moves,
                   policies, historyVars>>

Next ==
    \/ \E d \in Docs : Submit(d) \/ MigrateSpill(d) \/ CancelSpill(d)
    \/ \E d \in Docs, limit \in Limits : ConfigureHistoryLimit(d, limit)
    \/ \E members \in SUBSET Docs : SubmitGroup(members)
    \/ Close
    \/ \E w \in Workers : WorkerStep(w) \/ SpuriousWake(w)

Spec == Init /\ [][Next]_vars

(* The operating system runs every started worker; callers may stop.       *)
FairSpec == Spec /\ \A w \in Workers : WF_vars(WorkerStep(w))

---------------------------------------------------------------------------
(* The state has the shape the definitions above give it, and no document *)
(* is locked by two workers (ActorState's mutex).                          *)
TypeOK ==
    /\ pc \in [Workers -> {"unstarted", "next", "waiting", "woken", "exited", "lock", "mutate", "settle",
                           "last", "reply", "yield", "policy", "members", "check", "complete",
                           "answer"}]
    /\ work \in [Workers -> Works]
    /\ request \in [Workers -> 0..MaxRequests]
    /\ served \in [Workers -> 0..Quantum]
    /\ locked \in [Workers -> SUBSET Docs]
    /\ \A v, w \in Workers : v # w => locked[v] \cap locked[w] = {}
    /\ checked \in [Workers -> SUBSET Docs]
    /\ ready.queue \in Seq(Works) /\ ready.admitted \in 0..Capacity /\ ready.closed \in BOOLEAN
    /\ \A d \in Docs :
        /\ mailbox[d].queue \in Seq(Requests) /\ Len(mailbox[d].queue) <= MailboxCapacity
        /\ mailbox[d].scheduled \in BOOLEAN /\ mailbox[d].retired \in BOOLEAN
        /\ mailbox[d].configured \in Limits \cup {0}
        /\ doc[d].revision \in 0..(MaxRequests + MaxGroups) /\ doc[d].depth \in 0..Max(Limits)
        /\ doc[d].limit \in Limits
    /\ Len(group) <= MaxGroups /\ moves \in 0..MaxMoves /\ policies \in 0..MaxPolicies
    /\ answered \subseteq Requests

Serving(d) ==
    {w \in Workers : work[w].kind = "actor" /\ work[w].doc = d /\ pc[w] \notin {"last", "next"}}
QueuedFor(d) == {i \in DOMAIN ready.queue : ready.queue[i] = [kind |-> "actor", doc |-> d]}

(* An actor that has requests, or a worker, is in exactly one place: once  *)
(* in the ready queue or with one worker.  A request that found the actor  *)
(* scheduled is therefore never stranded in a mailbox nobody will open     *)
(* (`scheduled`, run_worker and submit_context).                           *)
ScheduledOnce ==
    \A d \in Docs :
        /\ mailbox[d].queue # <<>> => mailbox[d].scheduled
        /\ Cardinality(Serving(d)) + Cardinality(QueuedFor(d)) = IF mailbox[d].scheduled THEN 1 ELSE 0

(* Requests of a document take effect once each and in the order they were *)
(* accepted, whichever workers serve them, also across a yield after a     *)
(* quantum: at its turn a request finds all earlier ones applied.          *)
AppliedInOrder ==
    \A d \in Docs : \A i \in DOMAIN applied[d] : applied[d][i].kind = "request" =>
        \E k \in DOMAIN accepted[d] :
            /\ applied[d][i] = RequestEffect(accepted[d][k])
            /\ \A j \in 1..(i - 1) : applied[d][j] # applied[d][i]
            /\ \A m \in 1..(k - 1) : \E j \in 1..(i - 1) : applied[d][j] = RequestEffect(accepted[d][m])

(* A group edit never overtakes a request that was accepted before the     *)
(* group was submitted (run_group refuses it while a mailbox holds one).   *)
GroupNeverOvertakes ==
    \A d \in Docs : \A i \in DOMAIN applied[d] : applied[d][i].kind = "group" =>
        \A m \in 1..group[applied[d][i].id].before[d] :
            \E j \in 1..(i - 1) : applied[d][j] = RequestEffect(accepted[d][m])

Unanswered(d) == \E r \in Range(accepted[d]) : r \notin answered
PendingGroups == {g \in DOMAIN group : ~group[g].replied}
PolicyWorks ==
    Cardinality({i \in DOMAIN ready.queue : ready.queue[i].kind = "policy"})
    + Cardinality({w \in Workers : work[w].kind = "policy"})

(* A caller that acts on a completion is admitted at once (QA-06): the     *)
(* slots in use never exceed the work that somebody still waits for.       *)
SlotsAwaited ==
    ready.admitted <= Cardinality({d \in Docs : Unanswered(d)}) + Cardinality(PendingGroups) + PolicyWorks

(* Each queued work is promised to a worker that is awake and will look    *)
(* into the queue: no wake-up is lost (ReadyState.idle, ensure_worker).    *)
WorkIsPromised ==
    Waiting(pc) # {} => Len(ready.queue) <= Cardinality({w \in Workers : pc[w] \in {"woken", "next"}})

(* A retired actor is never changed: the text that moved to large-file     *)
(* storage stays the document's text (migrate_spill).                      *)
RetiredStaysFrozen ==
    [][\A d \in Docs : mailbox[d].retired => doc'[d] = doc[d] /\ mailbox'[d].queue = <<>>]_vars

PolicyWorkFor(d) ==
    \/ \E i \in DOMAIN ready.queue : ready.queue[i].kind = "policy" /\ ready.queue[i].doc = d
    \/ \E w \in Workers : pc[w] = "policy" /\ work[w].doc = d

(* Once no policy work is left, every live actor has the limit that was    *)
(* configured last, also when a move to large-file storage was called off. *)
(* The code drops a limit that is configured during the move.              *)
MovedPolicyHolds ==
    \A d \in Docs : mailbox[d].retired \/ PolicyWorkFor(d)
                    \/ mailbox[d].configured \in {0, doc[d].limit}

(* The same as long as no move was begun (set_history_limit).              *)
LatestPolicyHolds == moves = 0 => MovedPolicyHolds

(* Every accepted request and every group edit is answered, also when the  *)
(* scheduler is closed meanwhile.                                          *)
EveryRequestAnswered ==
    /\ \A r \in Requests : r \in Accepted ~> r \in answered
    /\ \A g \in 1..MaxGroups : g \in DOMAIN group ~> g \in DOMAIN group /\ group[g].replied

==============================================================================

----------------------- MODULE SessionLifecycleProofs -----------------------
(***************************************************************************)
(* What is proved of SessionLifecycle, for any files, any scenes and any    *)
(* number of runs, edits, opens, session saves and loads.                   *)
(*                                                                          *)
(* The inductive invariant IInv is about two things that are apart for as   *)
(* long as the worker takes: what the window thread knows, and the saves    *)
(* that wait in the worker's queue with what was captured when each was     *)
(* asked for.  Nothing is saved before the previous session was read; from  *)
(* then on every restored file is in the restore queue, failed or open, so  *)
(* whatever is captured when the restore settles has it (PromiseInv).  From *)
(* a close that was asked for to the answer of its save the documents it    *)
(* saw stay open, and they are in its save and in every save queued behind  *)
(* it, a logoff's (ExitInv).  DiskInv ties both generations to those saved. *)
(***************************************************************************)
EXTENDS SessionLifecycle, FiniteSetTheorems, SequenceTheorems, TLAPS

(* What the parts of the state may be.                                     *)
QueueStates == Pending \cup {"none", "loaded", "failed"}
TabStates == {"closed", "loading", "open", "failed"}
Answers == [docs : SUBSET Docs, refused : SUBSET Docs, ok : BOOLEAN, recovered : BOOLEAN,
            there : BOOLEAN]
Kinds == {"load", "import", "resolve", "export", "save"}
Jobs == [kind : Kinds, ticket : Tickets, docs : SUBSET Docs, live : BOOLEAN]

Window ==
    [started : BOOLEAN, tickets : SUBSET Tickets, replies : [Tickets -> Answers],
     jobs : Seq(Jobs), asked : Nat, queue : [Docs -> QueueStates], flight : Int,
     opening : SUBSET Docs, tabs : [Docs -> TabStates], content : [Docs -> Nat],
     launch : SUBSET Docs, exit : BOOLEAN, failed : BOOLEAN,
     snaps : SUBSET (Docs \X TabStates \X Nat),
     named : {"none", "writing", "reading", "closing"}, queued : SUBSET Docs,
     ending : BOOLEAN]

Shape ==
    /\ disk \in [primary : Generation, previous : Generation]
    /\ worker \in {"idle", "busy", "kept"} /\ up \in BOOLEAN
    /\ history \in Seq(SUBSET Docs) /\ promise \subseteq Docs
    /\ scene \in Scenes

(* The files on disk, against everything that was ever saved.              *)
DiskInv ==
    LET n == Len(history) IN
    /\ n >= 1
    /\ disk.primary.kind = "whole" => disk.primary.docs \in Range(history)
    /\ \/ disk.previous = Absent
       \/ disk.previous.kind = "whole" /\ disk.previous.docs \in Range(history)
    /\ ~MayFail("damage") => disk.primary = Whole(history[n])
    /\ ~MayFail("damage") /\ ~MayFail("read") =>
         /\ n >= 2 => disk.previous \in {Whole(history[n]), Whole(history[n - 1])}
         /\ worker = "kept" => disk.previous = Whole(history[n])

(* The worker's queue.                                                     *)
QueueInv(w) ==
    /\ worker # "idle" => w.jobs # <<>>
    /\ worker = "kept" => Head(w.jobs).kind = "save"
    /\ \A i \in DOMAIN w.jobs :
         /\ w.jobs[i].kind = "load" <=> w.jobs[i].ticket = "load"
         /\ w.jobs[i].ticket = "save" => w.jobs[i].kind = "save" /\ w.jobs[i].live
    /\ \A t \in Tickets : w.replies[t].there => t \in w.tickets
    /\ ~w.started => w.tickets = {} /\ w.jobs = <<>> /\ ~w.exit

(* The restored session: nothing is saved before it is read, and what is   *)
(* saved after that has every file of the promise.                         *)
PromiseInv(w, p) ==
    /\ "load" \in w.tickets => \A i \in DOMAIN w.jobs : w.jobs[i].kind # "save"
    /\ "load" \notin w.tickets /\ w.started =>
         \A d \in p : w.queue[d] \in Pending \cup {"failed"} \/ w.tabs[d] = "open"
    /\ \A i \in DOMAIN w.jobs : w.jobs[i].kind = "save" => p \subseteq w.jobs[i].docs
    /\ ~MayFail("damage") => p \subseteq disk.primary.docs
    /\ ~MayFail("damage") /\ w.replies["load"].there /\ w.replies["load"].ok
         /\ ~w.replies["load"].recovered => w.replies["load"].docs \subseteq disk.primary.docs

(* The files that were open when the exit was asked for.                   *)
Snapped(w) == {d \in Docs : \E c \in Nat : <<d, "open", c>> \in w.snaps}

(* From the request to the answer of its save, these stay open and in every*)
(* session that is saved.                                                  *)
ExitInv(w) ==
    /\ w.exit <=> "save" \in w.tickets
    /\ \A i, j \in DOMAIN w.jobs : w.jobs[i].ticket = "save" =>
         /\ w.exit /\ ~w.replies["save"].there
         /\ w.jobs[j].ticket = "save" => i = j
         /\ i <= j /\ w.jobs[j].kind = "save" => Snapped(w) \subseteq w.jobs[j].docs
    /\ w.exit => \A d \in Snapped(w) : w.tabs[d] = "open"
    /\ w.replies["save"].there =>
         /\ \A i \in DOMAIN w.jobs : w.jobs[i].kind = "save" => Snapped(w) \subseteq w.jobs[i].docs
         /\ w.replies["save"].ok => Snapped(w) \subseteq disk.primary.docs

LeftInv ==
    /\ ~up => win = NewWindow /\ worker = "idle"
    /\ ~up /\ leave.how = "saved" =>
         leave.reviewed /\ (disk.primary.kind = "whole" => leave.open \subseteq disk.primary.docs)

(* All that is said of the window and the promise.                         *)
Good(w, p) ==
    /\ w \in Window /\ p \subseteq Docs
    /\ QueueInv(w) /\ PromiseInv(w, p) /\ ExitInv(w)

IInv == Shape /\ Good(win, promise) /\ DiskInv /\ LeftInv

(* A step that keeps the jobs, the exit and the restored files keeps Good. *)
LEMMA Quiet ==
    ASSUME NEW w, NEW p, NEW r, Good(w, p), r \in Window,
           r.started = w.started, r.jobs = w.jobs, r.tickets \subseteq w.tickets,
           "load" \in w.tickets => "load" \in r.tickets,
           "save" \in w.tickets => "save" \in r.tickets,
           \A t \in Tickets : r.replies[t].there => t \in r.tickets,
           r.replies["load"] = w.replies["load"], r.replies["save"] = w.replies["save"],
           r.exit = w.exit, r.snaps = w.snaps,
           \A d \in Docs : w.tabs[d] = "open" => r.tabs[d] = "open",
           \A d \in Docs : w.queue[d] \in Pending \cup {"failed"} =>
                r.queue[d] \in Pending \cup {"failed"} \/ r.tabs[d] = "open"
    PROVE  Good(r, p)
<1>1. QueueInv(r)
  BY DEF Good, QueueInv
<1>2. PromiseInv(r, p)
  BY DEF Good, PromiseInv
<1>3. ExitInv(r)
  BY DEF Good, ExitInv, Snapped
<1> QED
  BY <1>1, <1>2, <1>3 DEF Good

(* Good looks at no variable but worker, disk and scene.                   *)
LEMMA WindowStep ==
    ASSUME UNCHANGED <<worker, disk, scene>>, Good(win', promise')
    PROVE  Good(win, promise)'
BY DEF Good, QueueInv, PromiseInv, ExitInv, Snapped, MayFail

(* Taking an answer changes a ticket and its reply only.                   *)
LEMMA TakenFields ==
    ASSUME NEW w \in Window, NEW t \in Tickets, NEW r, r = Taken(w, t)
    PROVE  /\ r \in Window
           /\ r.tickets = w.tickets \ {t} /\ r.replies = [w.replies EXCEPT ![t] = Idle]
           /\ r.started = w.started /\ r.jobs = w.jobs /\ r.queue = w.queue /\ r.tabs = w.tabs
           /\ r.opening = w.opening /\ r.flight = w.flight /\ r.content = w.content
           /\ r.exit = w.exit /\ r.snaps = w.snaps /\ r.failed = w.failed
<1>1. Idle \in Answers
  BY DEF Idle, Answers
<1>2. PICK a \in [Tickets -> Answers] : a = [w.replies EXCEPT ![t] = Idle]
  BY <1>1 DEF Window
<1>3. PICK s \in SUBSET Tickets : s = w.tickets \ {t}
  BY DEF Window
<1>4. r = [w EXCEPT !.tickets = s, !.replies = a]
  BY <1>2, <1>3 DEF Taken
<1> QED
  BY <1>2, <1>3, <1>4 DEF Window

(* What asking the worker for a job makes of the window's state.           *)
Submitted(r, w, t, k, S) ==
    /\ r \in Window /\ r.tickets = w.tickets \cup {t}
    /\ DOMAIN w.jobs = 1 .. Len(w.jobs) /\ DOMAIN r.jobs = 1 .. Len(w.jobs) + 1
    /\ Len(w.jobs) \in Nat
    /\ \A i \in DOMAIN w.jobs : r.jobs[i] = w.jobs[i]
    /\ r.jobs[Len(w.jobs) + 1].kind = k /\ r.jobs[Len(w.jobs) + 1].ticket = t
    /\ r.jobs[Len(w.jobs) + 1].docs = S /\ r.jobs[Len(w.jobs) + 1].live
    /\ r.jobs # <<>> /\ (w.jobs # <<>> => Head(r.jobs) = Head(w.jobs))
    /\ r.started = w.started /\ r.replies = w.replies /\ r.queue = w.queue
    /\ r.tabs = w.tabs /\ r.exit = w.exit /\ r.snaps = w.snaps /\ r.content = w.content
    /\ r.opening = w.opening /\ r.flight = w.flight

(* What `submit` adds is one live job, last.                               *)
LEMMA SubmitFields ==
    ASSUME NEW w \in Window, NEW t \in Tickets, NEW k \in Kinds, NEW S \in SUBSET Docs,
           NEW r, r = Submit(w, t, k, S)
    PROVE  Submitted(r, w, t, k, S)
<1>1. PICK j \in Jobs : j = [kind |-> k, ticket |-> t, docs |-> S, live |-> TRUE]
  BY DEF Jobs
<1>0. j.kind = k /\ j.ticket = t /\ j.docs = S /\ j.live
  BY <1>1
<1>2. w.jobs \in Seq(Jobs)
  BY DEF Window
<1>3. PICK q \in Seq(Jobs) : q = Append(w.jobs, j)
  BY <1>2, AppendProperties
<1>4. PICK s \in SUBSET Tickets : s = w.tickets \cup {t}
  BY DEF Window
<1>5. r = [w EXCEPT !.tickets = s, !.jobs = q]
  BY <1>1, <1>3, <1>4 DEF Submit
<1>6. /\ DOMAIN w.jobs = 1 .. Len(w.jobs) /\ DOMAIN q = 1 .. Len(w.jobs) + 1
      /\ Len(w.jobs) \in Nat
      /\ \A i \in DOMAIN w.jobs : q[i] = w.jobs[i]
      /\ q[Len(w.jobs) + 1] = j
      /\ q # <<>> /\ (w.jobs # <<>> => Head(q) = Head(w.jobs))
  BY <1>2, <1>3
<1>7. r \in Window /\ r.jobs = q
  BY <1>3, <1>4, <1>5 DEF Window
<1>8. /\ r.started = w.started /\ r.replies = w.replies /\ r.queue = w.queue
      /\ r.tabs = w.tabs /\ r.exit = w.exit /\ r.snaps = w.snaps /\ r.content = w.content
      /\ r.opening = w.opening /\ r.flight = w.flight /\ r.tickets = s
  BY <1>5 DEF Window
<1> QED
  BY <1>0, <1>4, <1>6, <1>7, <1>8 DEF Submitted

(* A job that saves nothing may be asked for at any time.                  *)
LEMMA AskGood ==
    ASSUME NEW w, NEW p, Good(w, p), w.started, NEW S \in SUBSET Docs,
           NEW t \in {"resolve", "named"}, NEW k \in {"resolve", "export", "import"}
    PROVE  Good(Submit(w, t, k, S), p)
<1>1. PICK r : r = Submit(w, t, k, S)
  OBVIOUS
<1>2. w \in Window /\ t \in Tickets /\ k \in Kinds /\ S \in SUBSET Docs
  BY DEF Good, Tickets, Kinds
<1>3. Submitted(r, w, t, k, S)
  BY <1>1, <1>2, SubmitFields
<1>4. \A i \in DOMAIN r.jobs : i \in DOMAIN w.jobs \/ i = Len(w.jobs) + 1
  BY <1>3 DEF Submitted
<1>5. QueueInv(r)
  <2>1. \A i \in DOMAIN r.jobs :
          /\ r.jobs[i].kind = "load" <=> r.jobs[i].ticket = "load"
          /\ r.jobs[i].ticket = "save" => r.jobs[i].kind = "save" /\ r.jobs[i].live
    BY <1>3, <1>4 DEF Submitted, Good, QueueInv
  <2> QED
    BY <1>3, <2>1 DEF Submitted, Good, QueueInv
<1>6. PromiseInv(r, p)
  BY SMTT(40), <1>3, <1>4 DEF Submitted, Good, PromiseInv
<1>7. ExitInv(r)
  <2>1. \A i \in DOMAIN r.jobs : r.jobs[i].kind = "save" => i \in DOMAIN w.jobs
    BY <1>3, <1>4 DEF Submitted
  <2>2. \A i \in DOMAIN r.jobs : r.jobs[i].ticket = "save" => i \in DOMAIN w.jobs
    BY <1>3, <1>4 DEF Submitted
  <2>3. Snapped(r) = Snapped(w)
    BY <1>3 DEF Submitted, Snapped
  <2> QED
    BY <1>3, <2>1, <2>2, <2>3 DEF Submitted, Good, ExitInv
<1> QED
  BY <1>1, <1>3, <1>5, <1>6, <1>7 DEF Submitted, Good

(* A settled session may be saved: what is captured keeps the promise.     *)
LEMMA CaptureFits ==
    ASSUME NEW w, NEW p, Good(w, p), Settled(w)
    PROVE  /\ w.started /\ "load" \notin w.tickets /\ Capture(w) \in SUBSET Docs
           /\ p \subseteq Capture(w)
           /\ \A d \in Docs : w.tabs[d] = "open" => d \in Capture(w)
           /\ w.exit => Snapped(w) \subseteq Capture(w)
<1>1. w.started /\ "load" \notin w.tickets
  BY DEF Settled, StartupPending
<1>2. \A d \in Docs : w.queue[d] \notin Pending
  BY DEF Settled, StartupPending
<1>3. p \subseteq Capture(w)
  BY <1>1, <1>2 DEF Good, PromiseInv, Capture
<1>4. w.exit => Snapped(w) \subseteq Capture(w)
  BY DEF Good, ExitInv, Snapped, Capture
<1> QED
  BY <1>1, <1>3, <1>4 DEF Capture

(* A save that is asked for after an exit's save keeps what that exit saw. *)
LEMMA SaveGood ==
    ASSUME NEW w, NEW p, Good(w, p), w.started, "load" \notin w.tickets, NEW S \in SUBSET Docs,
           p \subseteq S, w.exit => Snapped(w) \subseteq S, NEW t \in {"end", "save"},
           NEW r, r = Submit(w, t, "save", S)
    PROVE  /\ QueueInv(r) /\ PromiseInv(r, p)
           /\ t = "end" => ExitInv(r)
<1>1. Submitted(r, w, t, "save", S)
  BY SubmitFields DEF Good, Tickets, Kinds
<1>2. \A i \in DOMAIN r.jobs : i \in DOMAIN w.jobs \/ i = Len(w.jobs) + 1
  BY <1>1 DEF Submitted
<1>3. QueueInv(r)
  <2>1. \A i \in DOMAIN r.jobs :
          /\ r.jobs[i].kind = "load" <=> r.jobs[i].ticket = "load"
          /\ r.jobs[i].ticket = "save" => r.jobs[i].kind = "save" /\ r.jobs[i].live
    BY <1>1, <1>2 DEF Submitted, Good, QueueInv
  <2> QED
    BY <1>1, <2>1 DEF Submitted, Good, QueueInv
<1>4. PromiseInv(r, p)
  BY <1>1, <1>2 DEF Submitted, Good, PromiseInv
<1>5. ASSUME t = "end" PROVE ExitInv(r)
  <2>1. \A i \in DOMAIN r.jobs : r.jobs[i].ticket = "save" => i \in DOMAIN w.jobs
    BY <1>1, <1>2, <1>5 DEF Submitted
  <2>2. Snapped(r) = Snapped(w)
    BY <1>1 DEF Submitted, Snapped
  <2>3. ("save" \in w.tickets <=> "save" \in r.tickets) /\ ("save" \in w.tickets <=> w.exit)
    BY <1>1, <1>5 DEF Submitted, Good, ExitInv
  <2>4. w.replies["save"].there => w.exit
    BY <2>3 DEF Good, QueueInv, Tickets
  <2>5. \A i, j \in DOMAIN r.jobs : r.jobs[i].ticket = "save" =>
          /\ r.exit /\ ~r.replies["save"].there
          /\ r.jobs[j].ticket = "save" => i = j
          /\ i <= j /\ r.jobs[j].kind = "save" => Snapped(r) \subseteq r.jobs[j].docs
    BY SMTT(40), <1>1, <1>2, <1>5, <2>1, <2>2 DEF Submitted, Good, ExitInv
  <2>6. r.replies["save"].there =>
          /\ \A i \in DOMAIN r.jobs : r.jobs[i].kind = "save" => Snapped(r) \subseteq r.jobs[i].docs
          /\ r.replies["save"].ok => Snapped(r) \subseteq disk.primary.docs
    BY <1>1, <1>2, <2>2, <2>4 DEF Submitted, Good, ExitInv
  <2> QED
    BY <1>1, <2>2, <2>3, <2>5, <2>6 DEF Submitted, Good, ExitInv
<1> QED
  BY <1>3, <1>4, <1>5

(* request_close_now.                                                      *)
LEMMA CloseGood ==
    ASSUME NEW w, NEW p, Good(w, p), Settled(w), ~w.exit, NEW r,
           r = [Submit(w, "save", "save", Capture(w)) EXCEPT
                  !.exit = TRUE, !.snaps = Editors(w), !.asked = @ + 1]
    PROVE  Good(r, p)
<1>1. PICK q : q = Submit(w, "save", "save", Capture(w))
  OBVIOUS
<1>2. Submitted(q, w, "save", "save", Capture(w)) /\ QueueInv(q) /\ PromiseInv(q, p)
  BY <1>1, CaptureFits, SaveGood, SubmitFields DEF Good, Tickets, Kinds
<1>3. PICK e \in SUBSET (Docs \X TabStates \X Nat) : e = Editors(w)
  <2>1. \A d \in HasTab(w) : <<d, w.tabs[d], w.content[d]>> \in Docs \X TabStates \X Nat
    BY DEF HasTab, Good, Window
  <2> QED
    BY <2>1 DEF Editors
<1>4. q \in Window
  BY <1>2 DEF Submitted
<1>5. PICK n \in Nat : n = q.asked + 1
  BY <1>4 DEF Window
<1>6. r = [q EXCEPT !.exit = TRUE, !.snaps = e, !.asked = n]
  BY <1>1, <1>3, <1>5
<1>7. /\ r \in Window /\ r.started = q.started /\ r.jobs = q.jobs /\ r.tickets = q.tickets
      /\ r.replies = q.replies /\ r.queue = q.queue /\ r.tabs = q.tabs
      /\ r.exit = TRUE /\ r.snaps = Editors(w)
  BY ZenonT(60), <1>3, <1>4, <1>6 DEF Window
<1>8. QueueInv(r) /\ PromiseInv(r, p)
  <2>1. QueueInv(r)
    BY SMTT(40), <1>2, <1>7, CaptureFits DEF Submitted, QueueInv
  <2>2. PromiseInv(r, p)
    BY <1>2, <1>7 DEF PromiseInv
  <2> QED
    BY <2>1, <2>2
<1>9. ExitInv(r)
  <2>1. \A d \in Snapped(r) : w.tabs[d] = "open"
    BY <1>7 DEF Snapped, Editors
  <2>2. Snapped(r) \subseteq Capture(w)
    BY <2>1 DEF Capture, Snapped
  <2>3. \A i \in DOMAIN w.jobs : w.jobs[i].ticket # "save"
    BY DEF Good, ExitInv
  <2>4. ~w.replies["save"].there
    BY DEF Good, ExitInv, QueueInv, Tickets
  <2>5. \A i \in DOMAIN r.jobs : i \in DOMAIN w.jobs \/ i = Len(w.jobs) + 1
    BY <1>2, <1>7 DEF Submitted
  <2>6. \A i \in DOMAIN r.jobs : r.jobs[i].ticket = "save" => i = Len(w.jobs) + 1
    BY <1>2, <1>7, <2>3, <2>5 DEF Submitted
  <2>7. \A j \in DOMAIN r.jobs : Len(w.jobs) + 1 <= j => j = Len(w.jobs) + 1
    BY <1>2, <1>7 DEF Submitted
  <2>8. \A i, j \in DOMAIN r.jobs : r.jobs[i].ticket = "save" =>
          /\ r.exit /\ ~r.replies["save"].there
          /\ r.jobs[j].ticket = "save" => i = j
          /\ i <= j /\ r.jobs[j].kind = "save" => Snapped(r) \subseteq r.jobs[j].docs
    BY <1>2, <1>7, <2>2, <2>4, <2>6, <2>7 DEF Submitted
  <2> QED
    BY <1>2, <1>7, <2>1, <2>4, <2>8 DEF Submitted, ExitInv
<1> QED
  BY <1>7, <1>8, <1>9 DEF Good

-----------------------------------------------------------------------------
(* session_pump, step by step.                                             *)

AfterLoad(w, p) ==
    LET r == Reply(w, "load")
    IN  IF ~r.there THEN p
        ELSE IF ~r.ok THEN {}
        ELSE IF r.recovered THEN p \cap r.docs
        ELSE r.docs

(* A session that is installed waits for trust, document by document.      *)
LEMMA Installed ==
    ASSUME NEW w \in Window, NEW S \in SUBSET Docs, NEW r, r = Install(w, S)
    PROVE  /\ r \in Window
           /\ \A d \in Docs : r.queue[d] = IF d \in S THEN "awaiting" ELSE "none"
           /\ r.started = w.started /\ r.jobs = w.jobs /\ r.tickets = w.tickets
           /\ r.replies = w.replies /\ r.tabs = w.tabs /\ r.exit = w.exit /\ r.snaps = w.snaps
<1>1. PICK q \in [Docs -> QueueStates] : q = [d \in Docs |-> IF d \in S THEN "awaiting" ELSE "none"]
  BY DEF QueueStates, Pending
<1>2. r = [w EXCEPT !.queue = q]
  BY <1>1 DEF Install
<1>3. /\ r \in Window /\ r.queue = q
      /\ r.started = w.started /\ r.jobs = w.jobs /\ r.tickets = w.tickets
      /\ r.replies = w.replies /\ r.tabs = w.tabs /\ r.exit = w.exit /\ r.snaps = w.snaps
  BY <1>2 DEF Window
<1>4. \A d \in Docs : r.queue[d] = IF d \in S THEN "awaiting" ELSE "none"
  BY <1>1, <1>3
<1> QED
  BY <1>3, <1>4

(* The previous session's answer decides the promise.                      *)
LEMMA TakeLoadedGood ==
    ASSUME NEW w, NEW p, Good(w, p)
    PROVE  Good(TakeLoaded(w), AfterLoad(w, p))
<1>1. CASE ~Reply(w, "load").there
  BY <1>1 DEF TakeLoaded, AfterLoad
<1>2. CASE Reply(w, "load").there
  <2>1. PICK v : v = Taken(w, "load")
    OBVIOUS
  <2>2. w \in Window /\ "load" \in Tickets
    BY DEF Good, Tickets
  <2>3. /\ v \in Window /\ v.tickets = w.tickets \ {"load"}
        /\ v.replies = [w.replies EXCEPT !["load"] = Idle]
        /\ v.started = w.started /\ v.jobs = w.jobs /\ v.queue = w.queue /\ v.tabs = w.tabs
        /\ v.exit = w.exit /\ v.snaps = w.snaps
    BY <2>1, <2>2, TakenFields
  <2>4. PICK S \in SUBSET Docs : S = AfterLoad(w, p) /\ (~MayFail("damage") => S \subseteq disk.primary.docs)
    <3>1. w.replies["load"] \in Answers
      BY <2>2 DEF Window
    <3>2. w.replies["load"].docs \in SUBSET Docs
      BY <3>1 DEF Answers
    <3>3. CASE w.replies["load"].ok /\ ~w.replies["load"].recovered
      <4>1. AfterLoad(w, p) = w.replies["load"].docs
        BY <1>2, <3>3 DEF AfterLoad, Reply
      <4> QED
        BY <1>2, <3>2, <3>3, <4>1 DEF Good, PromiseInv, Reply
    <3>5. CASE w.replies["load"].ok /\ w.replies["load"].recovered
      <4>1. AfterLoad(w, p) = p \cap w.replies["load"].docs
        BY <1>2, <3>5 DEF AfterLoad, Reply
      <4> QED
        BY <3>2, <4>1 DEF Good, PromiseInv
    <3>4. CASE ~w.replies["load"].ok
      <4>1. AfterLoad(w, p) = {}
        BY <1>2, <3>4 DEF AfterLoad, Reply
      <4> QED
        BY <4>1
    <3> QED
      BY <3>3, <3>4, <3>5
  <2>5. PICK r : r = TakeLoaded(w)
    OBVIOUS
  <2>6. /\ r \in Window /\ r.tickets = v.tickets /\ r.replies = v.replies /\ r.started = v.started
        /\ r.jobs = v.jobs /\ r.tabs = v.tabs /\ r.exit = v.exit /\ r.snaps = v.snaps
        /\ \A d \in S : r.queue[d] = "awaiting"
    <3>1. CASE Reply(w, "load").ok
      <4>1. PICK D \in SUBSET Docs : D = Reply(w, "load").docs
        BY <2>2 DEF Window, Answers, Reply
      <4>2. r = Install(v, D)
        BY <1>2, <2>1, <2>5, <3>1, <4>1 DEF TakeLoaded
      <4>3. S \subseteq D
        BY <1>2, <2>4, <3>1, <4>1 DEF AfterLoad
      <4> QED
        BY <2>3, <4>2, <4>3, Installed
    <3>2. CASE ~Reply(w, "load").ok
      <4>1. r = v /\ S = {}
        BY <1>2, <2>1, <2>4, <2>5, <3>2 DEF TakeLoaded, AfterLoad
      <4> QED
        BY <2>3, <4>1
    <3> QED
      BY <3>1, <3>2
  <2>7. \A t \in Tickets : t # "load" => r.replies[t] = w.replies[t]
    BY <2>2, <2>3, <2>6 DEF Window
  <2>8. ~r.replies["load"].there
    BY <2>2, <2>3, <2>6 DEF Window, Idle
  <2>9. "load" \in w.tickets
    BY <1>2, <2>2 DEF Good, QueueInv, Reply
  <2>10. QueueInv(r)
    BY <2>3, <2>6, <2>7, <2>8 DEF Good, QueueInv
  <2>11. PromiseInv(r, S)
    BY <2>3, <2>4, <2>6, <2>8, <2>9 DEF Good, PromiseInv, Pending
  <2>12. ExitInv(r)
    <3>1. r.replies["save"] = w.replies["save"] /\ ("save" \in r.tickets <=> "save" \in w.tickets)
      BY <2>3, <2>6, <2>7 DEF Tickets
    <3>2. Snapped(r) = Snapped(w)
      BY <2>3, <2>6 DEF Snapped
    <3> QED
      BY <2>3, <2>6, <3>1, <3>2 DEF Good, ExitInv
  <2> QED
    BY <2>4, <2>5, <2>6, <2>10, <2>11, <2>12 DEF Good
<1> QED
  BY <1>1, <1>2

(* Trusted or refused, a restored document stays in the queue or failed.   *)
LEMMA TakeResolvedGood ==
    ASSUME NEW w, NEW p, Good(w, p)
    PROVE  Good(TakeResolved(w), p)
<1>1. CASE ~Reply(w, "resolve").there
  BY <1>1 DEF TakeResolved
<1>2. CASE Reply(w, "resolve").there
  <2>1. PICK v : v = Taken(w, "resolve")
    OBVIOUS
  <2>2. w \in Window /\ "resolve" \in Tickets
    BY DEF Good, Tickets
  <2>3. /\ v \in Window /\ v.tickets = w.tickets \ {"resolve"}
        /\ v.replies = [w.replies EXCEPT !["resolve"] = Idle]
        /\ v.started = w.started /\ v.jobs = w.jobs /\ v.queue = w.queue /\ v.tabs = w.tabs
        /\ v.exit = w.exit /\ v.snaps = w.snaps
    BY <2>1, <2>2, TakenFields
  <2>4. PICK q \in [Docs -> QueueStates] :
          /\ q = [d \in Docs |-> IF v.queue[d] # "awaiting" THEN v.queue[d]
                                 ELSE IF d \in Reply(w, "resolve").docs THEN "ready"
                                 ELSE IF d \in Reply(w, "resolve").refused THEN "failed"
                                 ELSE v.queue[d]]
    BY <2>3 DEF Window, QueueStates, Pending
  <2>5. PICK r : r = TakeResolved(w)
    OBVIOUS
  <2>6. r = [v EXCEPT !.queue = q]
    BY <1>2, <2>1, <2>4, <2>5 DEF TakeResolved
  <2>7. /\ r \in Window /\ r.tickets = v.tickets /\ r.replies = v.replies /\ r.started = v.started
        /\ r.jobs = v.jobs /\ r.tabs = v.tabs /\ r.exit = v.exit /\ r.snaps = v.snaps /\ r.queue = q
    BY <2>3, <2>4, <2>6 DEF Window
  <2>8. \A d \in Docs : w.queue[d] \in Pending \cup {"failed"} => r.queue[d] \in Pending \cup {"failed"}
    BY <2>3, <2>4, <2>7 DEF Pending
  <2>9. /\ \A t \in Tickets : r.replies[t].there => t \in r.tickets
        /\ r.replies["load"] = w.replies["load"] /\ r.replies["save"] = w.replies["save"]
        /\ r.tickets \subseteq w.tickets
        /\ "load" \in w.tickets => "load" \in r.tickets
        /\ "save" \in w.tickets => "save" \in r.tickets
    BY <2>2, <2>3, <2>7 DEF Good, QueueInv, Window, Idle, Tickets
  <2>10. /\ r.started = w.started /\ r.jobs = w.jobs /\ r.exit = w.exit /\ r.snaps = w.snaps
         /\ \A d \in Docs : w.tabs[d] = "open" => r.tabs[d] = "open"
         /\ \A d \in Docs : w.queue[d] \in Pending \cup {"failed"} =>
              r.queue[d] \in Pending \cup {"failed"} \/ r.tabs[d] = "open"
    BY <2>3, <2>7, <2>8
  <2>11. Good(r, p)
    BY <2>7, <2>9, <2>10, Quiet
  <2> QED
    BY <2>5, <2>11
<1> QED
  BY <1>1, <1>2

(* There are finitely many documents.                                      *)
LEMMA FiniteDocs == \A S \in SUBSET Docs : IsFiniteSet(S) /\ Cardinality(S) \in Nat
BY SessionAssumption, FS_Subset, FS_CardinalityType

(* A document leaves the restore queue open or failed.                     *)
LEMMA TakeOpenedGood ==
    ASSUME NEW w, NEW p, Good(w, p)
    PROVE  Good(TakeOpened(w), p)
<1>1. PICK D \in SUBSET Docs : D = {d \in w.opening : w.tabs[d] # "loading"}
  BY DEF Good, Window
<1>2. w \in Window
  BY DEF Good
<1>3. PICK n \in Int : n = w.flight - Cardinality(D)
  BY SMTT(40), <1>2, FiniteDocs DEF Window
<1>4. PICK q \in [Docs -> QueueStates] :
        q = [d \in Docs |-> IF d \notin D THEN w.queue[d]
                            ELSE IF w.tabs[d] = "open" THEN "loaded" ELSE "failed"]
  BY <1>2 DEF Window, QueueStates, Pending
<1>5. PICK o \in SUBSET Docs : o = w.opening \ D
  BY <1>2 DEF Window
<1>6. PICK r : r = TakeOpened(w)
  OBVIOUS
<1>7. r = [w EXCEPT !.opening = o, !.flight = n, !.queue = q]
  BY <1>1, <1>3, <1>4, <1>5, <1>6 DEF TakeOpened
<1>8. /\ r \in Window /\ r.tickets = w.tickets /\ r.replies = w.replies /\ r.started = w.started
      /\ r.jobs = w.jobs /\ r.tabs = w.tabs /\ r.exit = w.exit /\ r.snaps = w.snaps /\ r.queue = q
  BY <1>2, <1>3, <1>4, <1>5, <1>7 DEF Window
<1>9. \A d \in Docs : w.queue[d] \in Pending \cup {"failed"} =>
        r.queue[d] \in Pending \cup {"failed"} \/ r.tabs[d] = "open"
  BY <1>4, <1>8
<1> QED
  BY <1>6, <1>8, <1>9, Quiet DEF Good, QueueInv

(* Asking for trust saves nothing.                                         *)
LEMMA AskTrustGood ==
    ASSUME NEW w, NEW p, Good(w, p), w.started
    PROVE  Good(AskTrust(w), p) /\ AskTrust(w).started
<1>1. PICK S \in SUBSET Docs :
        S = First({d \in Docs : w.queue[d] = "awaiting"}, 2 - Cardinality(w.opening))
  BY DEF First
<1>2. AskTrust(w) = w \/ AskTrust(w) = Submit(w, "resolve", "resolve", S)
  BY <1>1 DEF AskTrust
<1>3. Good(Submit(w, "resolve", "resolve", S), p)
  BY AskGood
<1>4. Submit(w, "resolve", "resolve", S).started
  <2>1. w \in Window /\ "resolve" \in Tickets /\ "resolve" \in Kinds
    BY DEF Good, Tickets, Kinds
  <2>2. Submitted(Submit(w, "resolve", "resolve", S), w, "resolve", "resolve", S)
    BY <2>1, SubmitFields
  <2> QED
    BY <2>2 DEF Submitted
<1> QED
  BY <1>2, <1>3, <1>4

(* Opening what is trusted closes nothing.                                 *)
LEMMA OpenReadyGood ==
    ASSUME NEW w, NEW p, Good(w, p)
    PROVE  Good(OpenReady(w), p)
<1>1. PICK R \in SUBSET Docs :
        R = {d \in Docs : w.queue[d] = "ready" /\ \A e \in {d2 \in Docs : w.queue[d2] = "awaiting"} : d < e}
  OBVIOUS
<1>2. PICK O \in SUBSET Docs : O = First(R, 2 - w.flight)
  BY <1>1 DEF First
<1>3. w \in Window
  BY DEF Good
<1>4. PICK n \in Int : n = w.flight + Cardinality(O)
  <2>1. Cardinality(O) \in Nat /\ w.flight \in Int
    BY <1>3, FiniteDocs DEF Window
  <2> QED
    BY <2>1
<1>5. PICK q \in [Docs -> QueueStates] : q = [d \in Docs |-> IF d \in O THEN "loading" ELSE w.queue[d]]
  BY <1>3 DEF Window, QueueStates, Pending
<1>6. PICK t \in [Docs -> TabStates] :
        t = [d \in Docs |-> IF d \in O /\ w.tabs[d] # "open" THEN "loading" ELSE w.tabs[d]]
  BY <1>3 DEF Window, TabStates
<1>7. PICK o \in SUBSET Docs : o = w.opening \cup O
  BY <1>3 DEF Window
<1>8. PICK r : r = OpenReady(w)
  OBVIOUS
<1>9. r = [w EXCEPT !.queue = q, !.flight = n, !.opening = o, !.tabs = t]
  BY <1>1, <1>2, <1>4, <1>5, <1>6, <1>7, <1>8 DEF OpenReady
<1>10. /\ r \in Window /\ r.tickets = w.tickets /\ r.replies = w.replies /\ r.started = w.started
       /\ r.jobs = w.jobs /\ r.tabs = t /\ r.exit = w.exit /\ r.snaps = w.snaps /\ r.queue = q
  BY <1>3, <1>4, <1>5, <1>6, <1>7, <1>9 DEF Window
<1>11. \A d \in Docs : /\ w.tabs[d] = "open" => r.tabs[d] = "open"
                       /\ w.queue[d] \in Pending \cup {"failed"} => r.queue[d] \in Pending \cup {"failed"}
  BY <1>5, <1>6, <1>10 DEF Pending
<1> QED
  BY <1>8, <1>10, <1>11, Quiet DEF Good, QueueInv

(* Opening launch files closes nothing.                                    *)
LEMMA OpenLaunchesGood ==
    ASSUME NEW w, NEW p, Good(w, p)
    PROVE  Good(OpenLaunches(w), p)
<1>1. CASE ~Settled(w)
  BY <1>1 DEF OpenLaunches
<1>2. CASE Settled(w)
  <2>1. w \in Window
    BY DEF Good
  <2>2. PICK G \in SUBSET Docs : G = {d \in w.launch : w.tabs[d] # "loading"}
    BY <2>1 DEF Window
  <2>3. PICK l \in SUBSET Docs : l = w.launch \ G
    BY <2>1 DEF Window
  <2>4. PICK t \in [Docs -> TabStates] :
          t = [d \in Docs |-> IF d \in G /\ w.tabs[d] # "open" THEN "loading" ELSE w.tabs[d]]
    BY <2>1 DEF Window, TabStates
  <2>5. PICK r : r = OpenLaunches(w)
    OBVIOUS
  <2>6. r = [w EXCEPT !.launch = l, !.tabs = t]
    BY <1>2, <2>2, <2>3, <2>4, <2>5 DEF OpenLaunches
  <2>7. /\ r \in Window /\ r.tickets = w.tickets /\ r.replies = w.replies /\ r.started = w.started
        /\ r.jobs = w.jobs /\ r.tabs = t /\ r.exit = w.exit /\ r.snaps = w.snaps /\ r.queue = w.queue
    BY <2>1, <2>3, <2>4, <2>6 DEF Window
  <2>8. \A d \in Docs : w.tabs[d] = "open" => r.tabs[d] = "open"
    BY <2>4, <2>7
  <2>9. \A d \in Docs : w.queue[d] \in Pending \cup {"failed"} =>
          r.queue[d] \in Pending \cup {"failed"} \/ r.tabs[d] = "open"
    BY <2>7
  <2>10. \A x \in Tickets : r.replies[x].there => x \in r.tickets
    BY <2>7 DEF Good, QueueInv
  <2>11. Good(r, p)
    BY <2>7, <2>8, <2>9, <2>10, Quiet
  <2> QED
    BY <2>5, <2>11
<1> QED
  BY <1>1, <1>2

(* The answer to an exit's save ends that exit.                            *)
LEMMA TakeSavedGood ==
    ASSUME NEW w, NEW p, Good(w, p)
    PROVE  Good(TakeSaved(w), p)
<1>1. CASE ~Reply(w, "save").there
  BY <1>1 DEF TakeSaved
<1>2. CASE Reply(w, "save").there
  <2>1. PICK v : v = Taken(w, "save")
    OBVIOUS
  <2>2. w \in Window /\ "save" \in Tickets
    BY DEF Good, Tickets
  <2>3. /\ v \in Window /\ v.tickets = w.tickets \ {"save"}
        /\ v.replies = [w.replies EXCEPT !["save"] = Idle]
        /\ v.started = w.started /\ v.jobs = w.jobs /\ v.queue = w.queue /\ v.tabs = w.tabs
        /\ v.exit = w.exit /\ v.snaps = w.snaps
    BY <2>1, <2>2, TakenFields
  <2>4. PICK b \in BOOLEAN : b = (v.failed \/ ~Reply(w, "save").ok)
    OBVIOUS
  <2>5. PICK r : r = TakeSaved(w)
    OBVIOUS
  <2>6. r = [v EXCEPT !.exit = FALSE, !.failed = b]
    BY <1>2, <2>1, <2>4, <2>5 DEF TakeSaved
  <2>7. /\ r \in Window /\ r.tickets = v.tickets /\ r.replies = v.replies /\ r.started = v.started
        /\ r.jobs = v.jobs /\ r.tabs = v.tabs /\ r.exit = FALSE /\ r.snaps = v.snaps /\ r.queue = v.queue
    BY <2>3, <2>6 DEF Window
  <2>8. /\ ~r.replies["save"].there
        /\ \A t \in Tickets : t # "save" => r.replies[t] = w.replies[t]
    BY <2>2, <2>3, <2>7 DEF Window, Idle
  <2>9. QueueInv(r)
    BY <2>3, <2>7, <2>8 DEF Good, QueueInv
  <2>10. PromiseInv(r, p)
    BY <2>3, <2>7, <2>8 DEF Good, PromiseInv, Tickets
  <2>11. ExitInv(r)
    BY <1>2, <2>3, <2>7, <2>8 DEF Good, ExitInv, Reply
  <2> QED
    BY <2>5, <2>7, <2>9, <2>10, <2>11 DEF Good
<1> QED
  BY <1>1, <1>2

(* Taking the session does not undo the start.                             *)
LEMMA TakeLoadedStarted ==
    ASSUME NEW w, NEW p, Good(w, p) PROVE TakeLoaded(w).started = w.started
<1>1. w \in Window /\ "load" \in Tickets
  BY DEF Good, Tickets
<1>2. Taken(w, "load") \in Window /\ Taken(w, "load").started = w.started
  <2>1. PICK v : v = Taken(w, "load")
    OBVIOUS
  <2>2. v \in Window /\ v.started = w.started
    BY ZenonT(60), <1>1, <2>1, TakenFields
  <2> QED
    BY <2>1, <2>2
<1>3. CASE Reply(w, "load").there /\ Reply(w, "load").ok
  <2>1. w.replies["load"] \in Answers
    BY <1>1 DEF Window
  <2>2. w.replies["load"].docs \in SUBSET Docs
    BY <2>1 DEF Answers
  <2>3. Install(Taken(w, "load"), Reply(w, "load").docs).started = Taken(w, "load").started
    BY <1>2, <2>2, Installed DEF Reply
  <2> QED
    BY <1>2, <1>3, <2>3 DEF TakeLoaded
<1> QED
  BY <1>2, <1>3 DEF TakeLoaded

(* Neither does taking what was trusted,                                   *)
LEMMA TakeResolvedStarted ==
    ASSUME NEW w, NEW p, Good(w, p) PROVE TakeResolved(w).started = w.started
<1>1. w \in Window /\ "resolve" \in Tickets
  BY DEF Good, Tickets
<1>2. Taken(w, "resolve") \in Window /\ Taken(w, "resolve").started = w.started
  <2>1. PICK v : v = Taken(w, "resolve")
    OBVIOUS
  <2>2. v \in Window /\ v.started = w.started
    BY ZenonT(60), <1>1, <2>1, TakenFields
  <2> QED
    BY <2>1, <2>2
<1>3. \A v, q : v \in Window => [v EXCEPT !.queue = q].started = v.started
  BY DEF Window
<1> QED
  BY <1>2, <1>3 DEF TakeResolved

(* nor taking what was opened.                                             *)
LEMMA TakeOpenedStarted ==
    ASSUME NEW w, NEW p, Good(w, p) PROVE TakeOpened(w).started = w.started
<1>1. w \in Window
  BY DEF Good
<1>2. \A o, n, q : [w EXCEPT !.opening = o, !.flight = n, !.queue = q].started = w.started
  BY <1>1 DEF Window
<1> QED
  BY <1>2 DEF TakeOpened

-----------------------------------------------------------------------------
(* One step of the window thread, or the end of the process.               *)

(* A step of the window thread alone has Good to show.                     *)
LEMMA WindowActs ==
    ASSUME IInv, UNCHANGED <<scene, disk, worker, history, up, leave>>, up,
           Good(win', promise')
    PROVE  IInv'
<1>1. Good(win, promise)'
  BY WindowStep
<1>2. DiskInv'
  BY DEF IInv, DiskInv, MayFail
<1>3. Shape'
  BY DEF IInv, Shape, Good
<1>4. LeftInv'
  BY DEF LeftInv
<1> QED
  BY <1>1, <1>2, <1>3, <1>4 DEF IInv

(* What a new process starts with.                                         *)
LEMMA NewFields ==
    ASSUME scene \in Scenes
    PROVE  /\ NewWindow \in Window /\ ~NewWindow.started /\ NewWindow.tickets = {}
           /\ NewWindow.jobs = <<>> /\ ~NewWindow.exit
           /\ \A t \in Tickets : ~NewWindow.replies[t].there
<1>1. Idle \in Answers /\ ~Idle.there
  BY DEF Idle, Answers
<1>2. PICK a \in [Tickets -> Answers] : a = [t \in Tickets |-> Idle]
  BY <1>1
<1>3. PICK q \in [Docs -> QueueStates] : q = [d \in Docs |-> "none"]
  BY DEF QueueStates
<1>4. PICK t \in [Docs -> TabStates] : t = [d \in Docs |-> "closed"]
  BY DEF TabStates
<1>5. PICK c \in [Docs -> Nat] : c = [d \in Docs |-> 0]
  OBVIOUS
<1>6. PICK l \in SUBSET Docs : l = scene.launch
  BY SessionAssumption
<1>7. PICK j \in Seq(Jobs) : j = <<>>
  BY EmptySeq
<1>8. NewWindow = [started |-> FALSE, tickets |-> {}, replies |-> a, jobs |-> j, asked |-> 0,
                   queue |-> q, flight |-> 0, opening |-> {}, tabs |-> t, content |-> c,
                   launch |-> l, exit |-> FALSE, failed |-> FALSE, snaps |-> {},
                   named |-> "none", queued |-> {}, ending |-> FALSE]
  BY <1>2, <1>3, <1>4, <1>5, <1>6, <1>7 DEF NewWindow
<1>9. NewWindow \in Window
  BY <1>2, <1>8 DEF Window
<1>10. NewWindow.replies = a
  BY <1>8
<1>11. \A x \in Tickets : ~NewWindow.replies[x].there
  BY <1>1, <1>2, <1>10
<1> QED
  BY <1>7, <1>8, <1>9, <1>11

(* A new process, or the end of one, has Good.                             *)
LEMMA NewStep ==
    ASSUME scene' \in Scenes, win' = NewWindow', worker' = "idle", promise' \subseteq Docs,
           ~MayFail("damage")' => promise' \subseteq disk'.primary.docs, scene' = scene
    PROVE  Good(win, promise)'
<1>1. NewWindow' = NewWindow
  BY DEF NewWindow
<1>2. /\ win' \in Window /\ ~win'.started /\ win'.tickets = {} /\ win'.jobs = <<>>
      /\ ~win'.exit /\ \A t \in Tickets : ~win'.replies[t].there
  BY <1>1, NewFields
<1>3. DOMAIN win'.jobs = {}
  BY <1>2
<1>4. "load" \in Tickets /\ "save" \in Tickets
  BY DEF Tickets
<1>5. QueueInv(win)'
  BY <1>2, <1>3 DEF QueueInv
<1>6. PromiseInv(win, promise)'
  BY <1>2, <1>3, <1>4 DEF PromiseInv
<1>7. ExitInv(win)'
  BY <1>2, <1>3, <1>4 DEF ExitInv
<1> QED
  BY <1>2, <1>5, <1>6, <1>7 DEF Good

(* The process ends: after a saved exit nothing that was open is missing.  *)
LEMMA GoneStep ==
    ASSUME IInv, UNCHANGED <<scene, disk, history>>, NEW w, NEW how, Gone(how, w),
           promise' \subseteq Docs, ~MayFail("damage") => promise' \subseteq disk.primary.docs,
           how = "saved" =>
             /\ Editors(w) = w.snaps
             /\ {d \in Docs : w.tabs[d] = "open"} \subseteq disk.primary.docs
    PROVE  IInv'
<1>0. NewWindow' = NewWindow
  BY DEF NewWindow
<1>1. Good(win, promise)'
  BY <1>0, NewStep DEF IInv, Shape, Gone, MayFail
<1>2. DiskInv'
  BY DEF IInv, DiskInv, Gone, MayFail
<1>3. Shape'
  BY DEF IInv, Shape, Gone
<1>4. LeftInv'
  BY <1>0 DEF LeftInv, Gone
<1> QED
  BY <1>1, <1>2, <1>3, <1>4 DEF IInv

(* session_pump keeps IInv, whether or not the process exits in it.        *)
LEMMA PumpStep ==
    ASSUME IInv, Pump, UNCHANGED scene
    PROVE  IInv'
<1>1. PICK a : a = TakeLoaded(win)
  OBVIOUS
<1>2. PICK b : b = TakeResolved(a)
  OBVIOUS
<1>3. PICK c : c = TakeOpened(b)
  OBVIOUS
<1>4. PICK e : e = AskTrust(c)
  OBVIOUS
<1>5. PICK f : f = OpenReady(e)
  OBVIOUS
<1>6. PICK w : w = OpenLaunches(f)
  OBVIOUS
<1>7. PICK ready \in BOOLEAN :
        IF ExitsNow(w, ready) THEN Gone("saved", w)
        ELSE win' = TakeSaved(w) /\ UNCHANGED worker /\ Stays
  BY <1>1, <1>2, <1>3, <1>4, <1>5, <1>6 DEF Pump
<1>8. /\ up /\ win.started /\ promise' = AfterLoad(win, promise)
      /\ UNCHANGED <<disk, history>>
  BY DEF Pump, Running, PromiseAfterLoad, AfterLoad, Other
<1>9. PICK p : p = AfterLoad(win, promise)
  OBVIOUS
<1>10. Good(a, p) /\ a.started
  <2>1. Good(a, p)
    BY <1>1, <1>9, TakeLoadedGood DEF IInv
  <2>2. a.started
    BY <1>1, <1>8, TakeLoadedStarted DEF IInv
  <2> QED
    BY <2>1, <2>2
<1>11. Good(b, p) /\ b.started
  <2>1. Good(b, p)
    BY <1>2, <1>10, TakeResolvedGood
  <2>2. b.started
    BY <1>2, <1>10, TakeResolvedStarted
  <2> QED
    BY <2>1, <2>2
<1>12. Good(c, p) /\ c.started
  <2>1. Good(c, p)
    BY <1>3, <1>11, TakeOpenedGood
  <2>2. c.started
    BY <1>3, <1>11, TakeOpenedStarted
  <2> QED
    BY <2>1, <2>2
<1>13. Good(e, p)
  BY <1>4, <1>12, AskTrustGood
<1>14. Good(f, p)
  BY <1>5, <1>13, OpenReadyGood
<1>15. Good(w, p)
  BY <1>6, <1>14, OpenLaunchesGood
<1>16. CASE ~ExitsNow(w, ready)
  <2>1. win' = TakeSaved(w) /\ UNCHANGED <<worker, up, leave>>
    BY <1>7, <1>16 DEF Stays
  <2>2. Good(win', promise')
    BY <1>8, <1>9, <1>15, <2>1, TakeSavedGood
  <2> QED
    BY <1>8, <2>1, <2>2, WindowActs
<1>17. CASE ExitsNow(w, ready)
  <2>1. Gone("saved", w)
    BY <1>7, <1>17
  <2>2. Editors(w) = w.snaps /\ w.replies["save"].there /\ w.replies["save"].ok
    BY <1>17 DEF ExitsNow, ExitUnchanged, Reply
  <2>3. Snapped(w) \subseteq disk.primary.docs
    BY <1>15, <2>2 DEF Good, ExitInv
  <2>4. {d \in Docs : w.tabs[d] = "open"} \subseteq Snapped(w)
    <3>1. ASSUME NEW d \in Docs, w.tabs[d] = "open" PROVE d \in Snapped(w)
      <4>1. <<d, "open", w.content[d]>> \in w.snaps
        BY <2>2, <3>1 DEF Editors, HasTab
      <4>2. w.content[d] \in Nat
        BY <1>15 DEF Good, Window
      <4> QED
        BY <4>1, <4>2 DEF Snapped
    <3> QED
      BY <3>1
  <2>5. p \subseteq Docs /\ (~MayFail("damage") => p \subseteq disk.primary.docs)
    BY <1>15 DEF Good, PromiseInv
  <2> QED
    BY <1>8, <1>9, <2>1, <2>2, <2>3, <2>4, <2>5, GoneStep
<1> QED
  BY <1>16, <1>17
-----------------------------------------------------------------------------
(* The user and the rest of the program.                                   *)

(* A step that lets go of files, and forgets none of the others.           *)
LEMMA QuietLess ==
    ASSUME NEW w, NEW p, NEW r, NEW s, Good(w, p), r \in Window, s \subseteq p,
           r.started = w.started, r.jobs = w.jobs, r.tickets = w.tickets,
           r.replies = w.replies, r.exit = w.exit, r.snaps = w.snaps,
           w.exit => \A d \in Docs : w.tabs[d] = "open" => r.tabs[d] = "open",
           \A d \in s : w.queue[d] \in Pending \cup {"failed"} \/ w.tabs[d] = "open" =>
                r.queue[d] \in Pending \cup {"failed"} \/ r.tabs[d] = "open"
    PROVE  Good(r, s)
<1>1. QueueInv(r)
  BY DEF Good, QueueInv
<1>2. PromiseInv(r, s)
  BY DEF Good, PromiseInv
<1>3. ExitInv(r)
  BY DEF Good, ExitInv, Snapped
<1> QED
  BY <1>1, <1>2, <1>3 DEF Good

(* A change that leaves the queues, the tickets and the exit alone.        *)
Beside(r, w) ==
    /\ r \in Window /\ r.started = w.started /\ r.jobs = w.jobs /\ r.tickets = w.tickets
    /\ r.replies = w.replies /\ r.exit = w.exit /\ r.snaps = w.snaps

(* Such a change keeps Good if no document closes.                         *)
LEMMA BesideGood ==
    ASSUME NEW w, NEW p, NEW r, Good(w, p), Beside(r, w), r.queue = w.queue,
           \A d \in Docs : w.tabs[d] = "open" => r.tabs[d] = "open"
    PROVE  Good(r, p)
<1>1. p \subseteq Docs
  BY DEF Good
<1> QED
  BY <1>1, QuietLess DEF Beside

(* Such a step of the window thread keeps IInv.                            *)
LEMMA DoesStep ==
    ASSUME IInv, up, UNCHANGED scene, NEW w, Does(w), promise' = promise, Good(w, promise)
    PROVE  IInv'
BY WindowActs DEF Does, Stays, Other

(* open_tracked keeps IInv.                                                *)
LEMMA OpenFileStep ==
    ASSUME IInv, NEW d \in Docs, OpenFile(d), UNCHANGED scene
    PROVE  IInv'
<1>1. win \in Window /\ Good(win, promise)
  BY DEF IInv, Good
<1>2. PICK r : r = [win EXCEPT !.tabs[d] = "loading", !.asked = @ + 1]
  OBVIOUS
<1>3. PICK t \in [Docs -> TabStates] : t = [win.tabs EXCEPT ![d] = "loading"]
  BY <1>1 DEF Window, TabStates
<1>4. PICK n \in Nat : n = win.asked + 1
  BY <1>1 DEF Window
<1>5. r = [win EXCEPT !.tabs = t, !.asked = n]
  BY <1>1, <1>2, <1>3, <1>4 DEF Window
<1>6. Beside(r, win) /\ r.tabs = t /\ r.queue = win.queue
  BY <1>1, <1>3, <1>4, <1>5 DEF Window, Beside
<1>7. \A e \in Docs : win.tabs[e] = "open" => r.tabs[e] = "open"
  BY <1>1, <1>3, <1>6 DEF OpenFile, Window
<1>8. Good(r, promise)
  BY <1>1, <1>6, <1>7, BesideGood
<1> QED
  BY <1>2, <1>8, DoesStep DEF OpenFile, Running

(* The end of an open keeps IInv.                                          *)
LEMMA FileOpenedStep ==
    ASSUME IInv, NEW d \in Docs, FileOpened(d), UNCHANGED scene
    PROVE  IInv'
<1>1. win \in Window /\ Good(win, promise)
  BY DEF IInv, Good
<1>2. PICK x \in {"open", "failed", "closed"} : Does([win EXCEPT !.tabs[d] = x])
  BY DEF FileOpened
<1>3. PICK t \in [Docs -> TabStates] : t = [win.tabs EXCEPT ![d] = x]
  BY <1>1 DEF Window, TabStates
<1>4. PICK r : r = [win EXCEPT !.tabs[d] = x]
  OBVIOUS
<1>5. r = [win EXCEPT !.tabs = t]
  BY <1>1, <1>3, <1>4 DEF Window
<1>6. Beside(r, win) /\ r.tabs = t /\ r.queue = win.queue
  BY <1>1, <1>3, <1>5 DEF Window, Beside
<1>7. \A e \in Docs : win.tabs[e] = "open" => r.tabs[e] = "open"
  BY <1>1, <1>3, <1>6 DEF FileOpened, Window
<1>8. Good(r, promise)
  BY <1>1, <1>6, <1>7, BesideGood
<1> QED
  BY <1>2, <1>4, <1>8, DoesStep DEF FileOpened

(* A forwarded launch keeps IInv.                                          *)
LEMMA ForwardStep ==
    ASSUME IInv, NEW d \in Docs, Forward(d), UNCHANGED scene
    PROVE  IInv'
<1>1. win \in Window /\ Good(win, promise)
  BY DEF IInv, Good
<1>2. PICK r : r = [win EXCEPT !.launch = @ \cup {d}, !.asked = @ + 1]
  OBVIOUS
<1>3. PICK l \in SUBSET Docs : l = win.launch \cup {d}
  BY <1>1 DEF Window
<1>4. PICK n \in Nat : n = win.asked + 1
  BY <1>1 DEF Window
<1>5. r = [win EXCEPT !.launch = l, !.asked = n]
  BY <1>1, <1>2, <1>3, <1>4 DEF Window
<1>6. Beside(r, win) /\ r.tabs = win.tabs /\ r.queue = win.queue
  BY <1>1, <1>3, <1>4, <1>5 DEF Window, Beside
<1>7. Good(r, promise)
  BY <1>1, <1>6, BesideGood
<1> QED
  BY <1>2, <1>7, DoesStep DEF Forward, Running

(* An edit keeps IInv.                                                     *)
LEMMA EditStep ==
    ASSUME IInv, NEW d \in Docs, Edit(d), UNCHANGED scene
    PROVE  IInv'
<1>1. win \in Window /\ Good(win, promise)
  BY DEF IInv, Good
<1>2. PICK r : r = [win EXCEPT !.content[d] = @ + 1]
  OBVIOUS
<1>3. PICK c \in [Docs -> Nat] : c = [win.content EXCEPT ![d] = @ + 1]
  <2>1. win.content \in [Docs -> Nat]
    BY <1>1 DEF Window
  <2>2. PICK n \in Nat : n = win.content[d] + 1
    BY <2>1
  <2>3. [win.content EXCEPT ![d] = n] \in [Docs -> Nat]
    BY <2>1
  <2> QED
    BY <2>2, <2>3
<1>4. r = [win EXCEPT !.content = c]
  BY <1>1, <1>2, <1>3 DEF Window
<1>5. Beside(r, win) /\ r.tabs = win.tabs /\ r.queue = win.queue
  BY <1>1, <1>3, <1>4 DEF Window, Beside
<1>6. Good(r, promise)
  BY <1>1, <1>5, BesideGood
<1> QED
  BY <1>2, <1>6, DoesStep DEF Edit, Running

(* A tab that is closed leaves the promise, and no exit is under way.      *)
LEMMA CloseTabStep ==
    ASSUME IInv, NEW d \in Docs, CloseTab(d), UNCHANGED scene
    PROVE  IInv'
<1>1. win \in Window /\ Good(win, promise) /\ ~win.exit
  BY DEF IInv, Good, CloseTab
<1>2. PICK r : r = [win EXCEPT !.tabs[d] = "closed", !.queued = @ \ {d}]
  OBVIOUS
<1>3. PICK t \in [Docs -> TabStates] : t = [win.tabs EXCEPT ![d] = "closed"]
  BY <1>1 DEF Window, TabStates
<1>4. PICK q \in SUBSET Docs : q = win.queued \ {d}
  BY <1>1 DEF Window
<1>5. r = [win EXCEPT !.tabs = t, !.queued = q]
  BY <1>1, <1>2, <1>3, <1>4 DEF Window
<1>6. Beside(r, win) /\ r.tabs = t /\ r.queue = win.queue
  BY <1>1, <1>3, <1>4, <1>5 DEF Window, Beside
<1>7. promise' \subseteq promise /\ d \notin promise' /\ promise \subseteq Docs
  BY <1>1 DEF CloseTab, Good
<1>8. \A e \in Docs : e # d => r.tabs[e] = win.tabs[e]
  BY <1>1, <1>3, <1>6 DEF Window
<1>9. Good(r, promise')
  BY <1>1, <1>6, <1>7, <1>8, QuietLess DEF Beside
<1> QED
  BY <1>2, <1>9, WindowActs DEF CloseTab, Running, Does, Stays, Other

(* The first frame asks for the previous session.                          *)
LEMMA FirstFrameStep ==
    ASSUME IInv, FirstFrame, UNCHANGED scene
    PROVE  IInv'
<1>1. win \in Window /\ Good(win, promise) /\ ~win.started
  BY DEF IInv, Good, FirstFrame
<1>2. PICK v : v = [win EXCEPT !.started = TRUE]
  OBVIOUS
<1>3. /\ v \in Window /\ v.started /\ v.jobs = win.jobs /\ v.tickets = win.tickets
      /\ v.replies = win.replies /\ v.exit = win.exit
  BY <1>1, <1>2 DEF Window
<1>4. PICK r : r = Submit(v, "load", "load", {})
  OBVIOUS
<1>5. "load" \in Tickets /\ "save" \in Tickets /\ "load" \in Kinds
  BY DEF Tickets, Kinds
<1>6. Submitted(r, v, "load", "load", {})
  BY <1>3, <1>4, <1>5, SubmitFields
<1>7. /\ win.tickets = {} /\ win.jobs = <<>> /\ ~win.exit
      /\ \A t \in Tickets : ~win.replies[t].there
  BY <1>1 DEF Good, QueueInv
<1>8. /\ r.tickets = {"load"} /\ r.started /\ ~r.exit /\ r.jobs # <<>>
      /\ \A t \in Tickets : ~r.replies[t].there
      /\ \A i \in DOMAIN r.jobs : r.jobs[i].kind = "load" /\ r.jobs[i].ticket = "load"
  BY <1>3, <1>6, <1>7 DEF Submitted
<1>9. worker = "idle"
  BY <1>1, <1>7 DEF Good, QueueInv
<1>10. QueueInv(r)
  BY <1>8, <1>9 DEF QueueInv
<1>11. PromiseInv(r, promise)
  BY <1>1, <1>5, <1>8 DEF PromiseInv, Good
<1>12. ExitInv(r)
  BY <1>5, <1>8 DEF ExitInv
<1>13. Good(r, promise)
  BY <1>1, <1>6, <1>10, <1>11, <1>12 DEF Good, Submitted
<1> QED
  BY <1>2, <1>4, <1>13, DoesStep DEF FirstFrame, Running

(* A close that was asked for keeps IInv.                                  *)
LEMMA RequestCloseStep ==
    ASSUME IInv, RequestClose, UNCHANGED scene
    PROVE  IInv'
<1>1. /\ win \in Window /\ Good(win, promise) /\ ~win.exit /\ up /\ promise' = promise
      /\ UNCHANGED <<disk, history>>
  BY DEF IInv, Good, RequestClose, Running, Other
<1>2. CASE Gone("unsaved", win)
  BY <1>1, <1>2, GoneStep DEF Good, PromiseInv
<1>3. CASE /\ Settled(win)
           /\ win' = [Submit(win, "save", "save", Capture(win)) EXCEPT
                        !.exit = TRUE, !.snaps = Editors(win), !.asked = @ + 1]
           /\ UNCHANGED worker /\ Stays
  <2>1. Good(win', promise')
    BY <1>1, <1>3, CloseGood
  <2> QED
    BY <1>1, <1>3, <2>1, WindowActs DEF Stays
<1>4. CASE win' = [win EXCEPT !.failed = TRUE] /\ UNCHANGED worker /\ Stays
  <2>1. Beside(win', win) /\ win'.queue = win.queue /\ win'.tabs = win.tabs
    BY <1>1, <1>4 DEF Window, Beside
  <2>2. Good(win', promise')
    BY <1>1, <2>1, BesideGood
  <2> QED
    BY <1>1, <1>4, <2>2, WindowActs DEF Stays
<1> QED
  BY <1>2, <1>3, <1>4 DEF RequestClose
-----------------------------------------------------------------------------
(* Named sessions.                                                         *)

(* Exporting or importing a named session saves nothing else.              *)
LEMMA AskNamedGood ==
    ASSUME NEW w, NEW p, Good(w, p), w.started, NEW S \in SUBSET Docs,
           NEW k \in {"export", "import"}, NEW n \in {"writing", "reading"}, NEW r,
           r = [Submit(w, "named", k, S) EXCEPT !.named = n, !.asked = @ + 1]
    PROVE  Good(r, p)
<1>1. PICK v : v = Submit(w, "named", k, S)
  OBVIOUS
<1>2. Good(v, p)
  BY <1>1, AskGood
<1>3. v \in Window
  BY <1>2 DEF Good
<1>4. PICK m \in Nat : m = v.asked + 1
  BY <1>3 DEF Window
<1>5. r = [v EXCEPT !.named = n, !.asked = m]
  BY <1>1, <1>4
<1>6. Beside(r, v) /\ r.queue = v.queue /\ r.tabs = v.tabs
  BY ZenonT(60), <1>3, <1>4, <1>5 DEF Window, Beside
<1> QED
  BY <1>2, <1>6, BesideGood

(* session_named_save keeps IInv.                                          *)
LEMMA SaveNamedStep ==
    ASSUME IInv, SaveNamed, UNCHANGED scene
    PROVE  IInv'
<1>1. Good(win, promise) /\ Settled(win) /\ up
  BY DEF IInv, SaveNamed, NamedIdle, Running
<1>2. win.started /\ Capture(win) \in SUBSET Docs
  BY <1>1, CaptureFits
<1>3. PICK r : r = [Submit(win, "named", "export", Capture(win)) EXCEPT
                      !.named = "writing", !.asked = @ + 1]
  OBVIOUS
<1>4. Good(r, promise)
  BY <1>1, <1>2, <1>3, AskNamedGood
<1> QED
  BY <1>1, <1>3, <1>4, DoesStep DEF SaveNamed

(* session_named_load keeps IInv.                                          *)
LEMMA LoadNamedStep ==
    ASSUME IInv, LoadNamed, UNCHANGED scene
    PROVE  IInv'
<1>1. Good(win, promise) /\ Settled(win) /\ up
  BY DEF IInv, LoadNamed, NamedIdle, Running
<1>2. win.started
  BY <1>1, CaptureFits
<1>3. PICK r : r = [Submit(win, "named", "import", {}) EXCEPT
                      !.named = "reading", !.asked = @ + 1]
  OBVIOUS
<1>4. Good(r, promise)
  BY <1>1, <1>2, <1>3, AskNamedGood
<1> QED
  BY <1>1, <1>3, <1>4, DoesStep DEF LoadNamed

(* An answer that is neither the session's nor an exit's is taken.         *)
LEMMA TakenGood ==
    ASSUME NEW w, NEW p, Good(w, p), NEW t \in {"named", "end"}, NEW v, v = Taken(w, t)
    PROVE  Good(v, p)
<1>1. w \in Window /\ t \in Tickets /\ "load" \in Tickets /\ "save" \in Tickets
  BY DEF Good, Tickets
<1>2. /\ v \in Window /\ v.tickets = w.tickets \ {t} /\ v.replies = [w.replies EXCEPT ![t] = Idle]
      /\ v.started = w.started /\ v.jobs = w.jobs /\ v.queue = w.queue /\ v.tabs = w.tabs
      /\ v.exit = w.exit /\ v.snaps = w.snaps
  BY <1>1, TakenFields
<1>3. /\ v.replies["load"] = w.replies["load"] /\ v.replies["save"] = w.replies["save"]
      /\ v.tickets \subseteq w.tickets
      /\ "load" \in w.tickets => "load" \in v.tickets
      /\ "save" \in w.tickets => "save" \in v.tickets
  BY <1>1, <1>2 DEF Window
<1>4. \A x \in Tickets : v.replies[x].there => x \in v.tickets
  <2>1. \A x \in Tickets : w.replies[x].there => x \in w.tickets
    BY DEF Good, QueueInv
  <2>2. ~v.replies[t].there
    BY <1>1, <1>2 DEF Window, Idle
  <2>3. \A x \in Tickets : x # t => v.replies[x] = w.replies[x]
    BY <1>1, <1>2 DEF Window
  <2> QED
    BY <1>2, <2>1, <2>2, <2>3
<1>5. /\ \A d \in Docs : w.tabs[d] = "open" => v.tabs[d] = "open"
      /\ \A d \in Docs : w.queue[d] \in Pending \cup {"failed"} =>
           v.queue[d] \in Pending \cup {"failed"} \/ v.tabs[d] = "open"
  BY <1>2
<1> QED
  BY <1>2, <1>3, <1>4, <1>5, Quiet

(* session_named_pump keeps IInv: a loaded session drops the promise.      *)
LEMMA NamedPumpStep ==
    ASSUME IInv, NamedPump, UNCHANGED scene
    PROVE  IInv'
<1>1. win \in Window /\ Good(win, promise) /\ up
  BY DEF IInv, Good, NamedPump, Running
<1>2. PICK v : v = Taken(win, "named")
  OBVIOUS
<1>3. Good(v, promise) /\ v \in Window
  BY <1>1, <1>2, TakenGood DEF Good
<1>4. CASE promise' = promise /\ Does([v EXCEPT !.named = "closing", !.queued = HasTab(win)])
  <2>1. PICK h \in SUBSET Docs : h = HasTab(win)
    BY DEF HasTab
  <2>2. PICK r : r = [v EXCEPT !.named = "closing", !.queued = h]
    OBVIOUS
  <2>3. Beside(r, v) /\ r.queue = v.queue /\ r.tabs = v.tabs
    BY <1>3, <2>1, <2>2 DEF Window, Beside
  <2>4. Good(r, promise)
    BY <1>3, <2>3, BesideGood
  <2> QED
    BY <1>1, <1>4, <2>1, <2>2, <2>4, DoesStep
<1>5. CASE promise' = promise /\ Does([v EXCEPT !.named = "none"])
  <2>1. PICK r : r = [v EXCEPT !.named = "none"]
    OBVIOUS
  <2>2. Beside(r, v) /\ r.queue = v.queue /\ r.tabs = v.tabs
    BY <1>3, <2>1 DEF Window, Beside
  <2>3. Good(r, promise)
    BY <1>3, <2>2, BesideGood
  <2> QED
    BY <1>1, <1>5, <2>1, <2>3, DoesStep
<1>6. CASE promise' = promise /\ Does([win EXCEPT !.named = "none", !.queued = {}])
  <2>1. PICK r : r = [win EXCEPT !.named = "none", !.queued = {}]
    OBVIOUS
  <2>2. Beside(r, win) /\ r.queue = win.queue /\ r.tabs = win.tabs
    BY <1>1, <2>1 DEF Window, Beside
  <2>3. Good(r, promise)
    BY <1>1, <2>2, BesideGood
  <2> QED
    BY <1>1, <1>6, <2>1, <2>3, DoesStep
<1>7. CASE /\ Does([Install(win, scene.named) EXCEPT !.named = "none", !.opening = {}, !.flight = 0])
           /\ promise' = {}
  <2>1. PICK S \in SUBSET Docs : S = scene.named
    BY SessionAssumption DEF IInv, Shape
  <2>2. PICK u : u = Install(win, S)
    OBVIOUS
  <2>3. u \in Window /\ Beside(u, win) /\ u.tabs = win.tabs
    BY <1>1, <2>2, Installed DEF Beside
  <2>4. PICK r : r = [u EXCEPT !.named = "none", !.opening = {}, !.flight = 0]
    OBVIOUS
  <2>5. Beside(r, u) /\ r.tabs = u.tabs
    <3>1. PICK o \in SUBSET Docs : o = {}
      OBVIOUS
    <3>2. PICK f \in Int : f = 0
      OBVIOUS
    <3>3. r = [u EXCEPT !.named = "none", !.opening = o, !.flight = f]
      BY <2>4, <3>1, <3>2
    <3>4. r \in Window
      BY <2>3, <3>3 DEF Window
    <3> QED
      BY <2>3, <3>3, <3>4 DEF Window, Beside
  <2>6. Good(r, {})
    BY <1>1, <2>3, <2>5, QuietLess DEF Beside
  <2>7. win' = r /\ UNCHANGED <<disk, worker, history, up, leave>>
    BY <1>7, <2>1, <2>2, <2>4 DEF Does, Stays, Other
  <2> QED
    BY <1>1, <1>7, <2>6, <2>7, WindowActs
<1> QED
  BY <1>2, <1>4, <1>5, <1>6, <1>7 DEF NamedPump

-----------------------------------------------------------------------------
(* The end of the desktop session.                                         *)

(* A logoff's save lists the promise and what an exit under way saw.       *)
LEMMA SessionEndsStep ==
    ASSUME IInv, SessionEnds, UNCHANGED scene
    PROVE  IInv'
<1>1. win \in Window /\ Good(win, promise) /\ up /\ promise' = promise
  BY DEF IInv, Good, SessionEnds, Running
<1>2. PICK w : w = [win EXCEPT !.ending = TRUE, !.asked = @ + 1]
  OBVIOUS
<1>3. PICK n \in Nat : n = win.asked + 1
  BY <1>1 DEF Window
<1>4. w = [win EXCEPT !.ending = TRUE, !.asked = n]
  BY <1>2, <1>3
<1>5. Beside(w, win) /\ w.queue = win.queue /\ w.tabs = win.tabs
  BY <1>1, <1>3, <1>4 DEF Window, Beside
<1>6. Good(w, promise)
  BY <1>1, <1>5, BesideGood
<1>7. CASE Does(w)
  BY <1>1, <1>6, <1>7, DoesStep
<1>8. CASE Settled(win) /\ Does(Submit(w, "end", "save", Capture(win)))
  <2>1. /\ win.started /\ "load" \notin win.tickets /\ promise \subseteq Capture(win)
        /\ win.exit => Snapped(win) \subseteq Capture(win)
        /\ Capture(win) \in SUBSET Docs
    BY <1>1, <1>8, CaptureFits
  <2>2. /\ w.started /\ "load" \notin w.tickets
        /\ w.exit => Snapped(w) \subseteq Capture(win)
    BY <1>5, <2>1 DEF Beside, Snapped
  <2>3. PICK r : r = Submit(w, "end", "save", Capture(win))
    OBVIOUS
  <2>4. QueueInv(r) /\ PromiseInv(r, promise) /\ ExitInv(r)
    BY <1>6, <2>1, <2>2, <2>3, SaveGood
  <2>5. w \in Window /\ "end" \in Tickets /\ "save" \in Kinds
    BY <1>5 DEF Beside, Tickets, Kinds
  <2>6. r \in Window
    BY <2>1, <2>3, <2>5, SubmitFields DEF Submitted
  <2>7. Good(r, promise)
    BY <1>1, <2>4, <2>6 DEF Good
  <2> QED
    BY <1>1, <1>8, <2>3, <2>7, DoesStep
<1> QED
  BY <1>2, <1>7, <1>8 DEF SessionEnds

(* A save given up keeps what it says, and no exit's save is given up.     *)
LEMMA CancelGood ==
    ASSUME NEW w, NEW p, Good(w, p), NEW r,
           r = [w EXCEPT !.ending = FALSE,
                  !.jobs = [i \in DOMAIN @ |-> IF @[i].ticket = "end"
                                               THEN [@[i] EXCEPT !.live = FALSE] ELSE @[i]]]
    PROVE  Good(r, p)
<1>1. w \in Window /\ w.jobs \in Seq(Jobs)
  BY DEF Good, Window
<1>2. DOMAIN w.jobs = 1 .. Len(w.jobs) /\ Len(w.jobs) \in Nat
  BY <1>1
<1>3. \A i \in DOMAIN w.jobs : w.jobs[i] \in Jobs
  BY <1>1
<1>4. \A i \in DOMAIN w.jobs : [w.jobs[i] EXCEPT !.live = FALSE] \in Jobs
  BY <1>3 DEF Jobs
<1>5. PICK q : q = [i \in 1 .. Len(w.jobs) |-> IF w.jobs[i].ticket = "end"
                                               THEN [w.jobs[i] EXCEPT !.live = FALSE] ELSE w.jobs[i]]
  OBVIOUS
<1>6. q \in [1 .. Len(w.jobs) -> Jobs]
  BY <1>2, <1>3, <1>4, <1>5
<1>7. q \in Seq(Jobs) /\ DOMAIN q = DOMAIN w.jobs
  BY <1>2, <1>6
<1>8. \A i \in DOMAIN w.jobs :
        /\ q[i].kind = w.jobs[i].kind /\ q[i].ticket = w.jobs[i].ticket
        /\ q[i].docs = w.jobs[i].docs
        /\ w.jobs[i].ticket = "save" => q[i].live = w.jobs[i].live
  BY <1>2, <1>3, <1>5 DEF Jobs
<1>9. r = [w EXCEPT !.ending = FALSE, !.jobs = q]
  BY <1>2, <1>5
<1>10. /\ r \in Window /\ r.jobs = q /\ r.started = w.started /\ r.tickets = w.tickets
       /\ r.replies = w.replies /\ r.exit = w.exit /\ r.snaps = w.snaps
       /\ r.queue = w.queue /\ r.tabs = w.tabs
  BY ZenonT(60), <1>1, <1>7, <1>9 DEF Window
<1>11. (w.jobs = <<>> <=> q = <<>>) /\ (w.jobs # <<>> => Head(q).kind = Head(w.jobs).kind)
  <2>1. w.jobs = <<>> <=> Len(w.jobs) = 0
    BY <1>1, EmptySeq
  <2>2. q = <<>> <=> Len(q) = 0
    BY <1>7, EmptySeq
  <2>3. Len(q) = Len(w.jobs)
    BY <1>2, <1>7
  <2>4. w.jobs # <<>> => Head(q) = q[1] /\ Head(w.jobs) = w.jobs[1] /\ 1 \in DOMAIN w.jobs
    BY <1>1, <1>2, <1>7, <2>1
  <2> QED
    BY <1>8, <2>1, <2>2, <2>3, <2>4
<1>12. QueueInv(r)
  <2>1. /\ worker # "idle" => r.jobs # <<>>
        /\ worker = "kept" => r.jobs # <<>> /\ Head(r.jobs).kind = "save"
    BY <1>10, <1>11 DEF Good, QueueInv
  <2>2. \A i \in DOMAIN r.jobs :
          /\ r.jobs[i].kind = "load" <=> r.jobs[i].ticket = "load"
          /\ r.jobs[i].ticket = "save" => r.jobs[i].kind = "save" /\ r.jobs[i].live
    <3>1. \A i \in DOMAIN w.jobs :
            /\ w.jobs[i].kind = "load" <=> w.jobs[i].ticket = "load"
            /\ w.jobs[i].ticket = "save" => w.jobs[i].kind = "save" /\ w.jobs[i].live
      BY DEF Good, QueueInv
    <3> QED
      BY <1>7, <1>8, <1>10, <3>1
  <2>3. \A t \in Tickets : r.replies[t].there => t \in r.tickets
    BY <1>10 DEF Good, QueueInv
  <2>4. ~r.started => r.tickets = {} /\ r.jobs = <<>> /\ ~r.exit
    BY <1>10, <1>11 DEF Good, QueueInv
  <2> QED
    BY <2>1, <2>2, <2>3, <2>4 DEF QueueInv
<1>13. PromiseInv(r, p)
  BY <1>7, <1>8, <1>10 DEF Good, PromiseInv
<1>14. ExitInv(r)
  <2>1. Snapped(r) = Snapped(w)
    BY <1>10 DEF Snapped
  <2>2. ExitInv(w)
    BY DEF Good
  <2>3. \A i, j \in DOMAIN r.jobs : r.jobs[i].ticket = "save" =>
          /\ r.exit /\ ~r.replies["save"].there
          /\ r.jobs[j].ticket = "save" => i = j
          /\ i <= j /\ r.jobs[j].kind = "save" => Snapped(r) \subseteq r.jobs[j].docs
    <3>1. DOMAIN r.jobs = DOMAIN w.jobs
      BY <1>7, <1>10
    <3>2. \A i \in DOMAIN r.jobs : /\ r.jobs[i].kind = w.jobs[i].kind
                                   /\ r.jobs[i].ticket = w.jobs[i].ticket
                                   /\ r.jobs[i].docs = w.jobs[i].docs
      BY <1>7, <1>8, <1>10
    <3>3. SUFFICES ASSUME NEW i \in DOMAIN r.jobs, NEW j \in DOMAIN r.jobs,
                          r.jobs[i].ticket = "save"
                   PROVE  /\ r.exit /\ ~r.replies["save"].there
                          /\ r.jobs[j].ticket = "save" => i = j
                          /\ i <= j /\ r.jobs[j].kind = "save" => Snapped(r) \subseteq r.jobs[j].docs
      OBVIOUS
    <3>4. /\ w.exit /\ ~w.replies["save"].there
          /\ w.jobs[j].ticket = "save" => i = j
          /\ i <= j /\ w.jobs[j].kind = "save" => Snapped(w) \subseteq w.jobs[j].docs
      BY <2>2, <3>1, <3>2, <3>3 DEF ExitInv
    <3> QED
      BY <1>10, <2>1, <3>2, <3>4
  <2>4. r.replies["save"].there =>
          /\ \A i \in DOMAIN r.jobs : r.jobs[i].kind = "save" => Snapped(r) \subseteq r.jobs[i].docs
          /\ r.replies["save"].ok => Snapped(r) \subseteq disk.primary.docs
    BY ZenonT(60), <1>7, <1>8, <1>10, <2>1, <2>2 DEF ExitInv
  <2>5. /\ r.exit <=> "save" \in r.tickets
        /\ r.exit => \A d \in Snapped(r) : r.tabs[d] = "open"
    BY <1>10, <2>1, <2>2 DEF ExitInv
  <2> QED
    BY <2>3, <2>4, <2>5 DEF ExitInv
<1> QED
  BY <1>10, <1>12, <1>13, <1>14 DEF Good

(* Nothing an exit relies on is cancelled with a logoff's save.            *)
LEMMA SessionEndedStep ==
    ASSUME IInv, SessionEnded, UNCHANGED scene
    PROVE  IInv'
<1>1. /\ Good(win, promise) /\ up /\ promise' = promise /\ UNCHANGED <<disk, history>>
      /\ promise \subseteq Docs /\ (~MayFail("damage") => promise \subseteq disk.primary.docs)
  BY DEF IInv, Good, PromiseInv, SessionEnded, Other
<1>2. PICK v : v = Taken(win, "end")
  OBVIOUS
<1>3. Good(v, promise)
  BY <1>1, <1>2, TakenGood
<1>4. PICK r :
        r = [v EXCEPT !.ending = FALSE,
               !.jobs = [i \in DOMAIN @ |-> IF @[i].ticket = "end"
                                            THEN [@[i] EXCEPT !.live = FALSE] ELSE @[i]]]
  OBVIOUS
<1>5. Good(r, promise)
  BY <1>3, <1>4, CancelGood
<1>6. \/ win' = r /\ UNCHANGED worker /\ Stays
      \/ Gone("signal", r)
  BY <1>2, <1>4 DEF SessionEnded
<1>7. CASE win' = r /\ UNCHANGED worker /\ Stays
  BY <1>1, <1>5, <1>7, WindowActs DEF Stays
<1>8. CASE Gone("signal", r)
  BY <1>1, <1>8, GoneStep
<1> QED
  BY <1>6, <1>7, <1>8
-----------------------------------------------------------------------------
(* The worker.                                                             *)

(* What an answer makes of the window's state.                             *)
Replied(v, w, r) ==
    /\ v \in Window /\ v.started = w.started /\ v.tickets = w.tickets /\ v.queue = w.queue
    /\ v.tabs = w.tabs /\ v.exit = w.exit /\ v.snaps = w.snaps
    /\ 1 \in DOMAIN w.jobs /\ Head(w.jobs) = w.jobs[1] /\ w.jobs[1] \in Jobs
    /\ \A i \in DOMAIN v.jobs : i + 1 \in DOMAIN w.jobs /\ v.jobs[i] = w.jobs[i + 1] /\ i \in Nat /\ i >= 1
    /\ \A t \in Tickets : t # w.jobs[1].ticket => v.replies[t] = w.replies[t]
    /\ v.replies[w.jobs[1].ticket] \in {w.replies[w.jobs[1].ticket]} \cup
         IF w.jobs[1].live /\ w.jobs[1].ticket \in w.tickets THEN {r} ELSE {}

(* An answered job leaves the head of the queue.                           *)
LEMMA AnswerFields ==
    ASSUME NEW w \in Window, w.jobs # <<>>, NEW r \in Answers, NEW v,
           v = [w EXCEPT !.jobs = Tail(@), !.replies[Head(w.jobs).ticket] =
                  IF Head(w.jobs).live /\ Head(w.jobs).ticket \in w.tickets THEN r ELSE @]
    PROVE  Replied(v, w, r)
<1>1. w.jobs \in Seq(Jobs)
  BY DEF Window
<1>2. /\ Head(w.jobs) = w.jobs[1] /\ 1 \in DOMAIN w.jobs /\ w.jobs[1] \in Jobs
      /\ Len(w.jobs) \in Nat /\ DOMAIN w.jobs = 1 .. Len(w.jobs)
  BY <1>1, EmptySeq
<1>3. PICK q \in Seq(Jobs) : q = Tail(w.jobs)
  BY <1>1, HeadTailProperties
<1>4. DOMAIN q = 1 .. Len(w.jobs) - 1 /\ \A i \in DOMAIN q : q[i] = w.jobs[i + 1]
  BY <1>1, <1>3, HeadTailProperties
<1>5. PICK t \in Tickets : t = w.jobs[1].ticket
  BY <1>2 DEF Jobs
<1>6. PICK x \in Answers : x = IF w.jobs[1].live /\ t \in w.tickets THEN r ELSE w.replies[t]
  BY <1>5 DEF Window
<1>7. PICK a \in [Tickets -> Answers] : a = [w.replies EXCEPT ![t] = x]
  BY <1>5, <1>6 DEF Window
<1>8. v = [w EXCEPT !.jobs = q, !.replies = a]
  BY <1>2, <1>3, <1>5, <1>6, <1>7 DEF Window
<1>9. /\ v \in Window /\ v.started = w.started /\ v.tickets = w.tickets /\ v.queue = w.queue
      /\ v.tabs = w.tabs /\ v.exit = w.exit /\ v.snaps = w.snaps
      /\ v.jobs = q /\ v.replies = a
  BY ZenonT(60), <1>3, <1>7, <1>8 DEF Window
<1>10. \A i \in DOMAIN v.jobs : i + 1 \in DOMAIN w.jobs /\ v.jobs[i] = w.jobs[i + 1] /\ i \in Nat /\ i >= 1
  BY <1>2, <1>4, <1>9
<1>11. w.replies \in [Tickets -> Answers]
  BY DEF Window
<1>12. a[t] = x /\ \A y \in Tickets : y # t => a[y] = w.replies[y]
  BY <1>5, <1>7, <1>11
<1>13. \A y \in Tickets : y # w.jobs[1].ticket => v.replies[y] = w.replies[y]
  BY <1>5, <1>9, <1>12
<1>14. v.replies[w.jobs[1].ticket] \in {w.replies[w.jobs[1].ticket]} \cup
         IF w.jobs[1].live /\ w.jobs[1].ticket \in w.tickets THEN {r} ELSE {}
  <2>1. v.replies[w.jobs[1].ticket] = x
    BY <1>5, <1>9, <1>12
  <2> QED
    BY <2>1, <1>5, <1>6
<1> QED
  BY <1>2, <1>9, <1>10, <1>13, <1>14 DEF Replied

(* An answer that tells the truth of what is on disk.                      *)
LEMMA AnswerStep ==
    ASSUME IInv, UNCHANGED <<scene, promise>>, worker # "idle", NEW r \in Answers, Answer(r),
           \/ disk'.primary = disk.primary
           \/ disk'.primary = Whole(Job.docs) /\ Job.kind = "save",
           Job.kind = "load" /\ r.ok /\ ~r.recovered /\ ~MayFail("damage") =>
                r.docs \subseteq disk'.primary.docs,
           Job.ticket = "save" /\ r.ok => disk'.primary = Whole(Job.docs)
    PROVE  Good(win, promise)'
<1>1. PICK w : w = win
  OBVIOUS
<1>2. PICK v : v = win'
  OBVIOUS
<1>3. w \in Window /\ Good(w, promise) /\ w.jobs # <<>>
  BY <1>1 DEF IInv, Good, QueueInv
<1>4. v = [w EXCEPT !.jobs = Tail(@), !.replies[Head(w.jobs).ticket] =
             IF Head(w.jobs).live /\ Head(w.jobs).ticket \in w.tickets THEN r ELSE @]
  BY <1>1, <1>2 DEF Answer, Job
<1>5. Replied(v, w, r)
  BY <1>3, <1>4, AnswerFields
<1>6. PICK j : j = w.jobs[1]
  OBVIOUS
<1>7. PICK R : R = disk'.primary.docs
  OBVIOUS
<1>8. /\ R = disk.primary.docs \/ (R = j.docs /\ j.kind = "save")
      /\ j.kind = "load" /\ r.ok /\ ~r.recovered /\ ~MayFail("damage") => r.docs \subseteq R
      /\ j.ticket = "save" /\ r.ok => R = j.docs
  BY <1>1, <1>5, <1>6, <1>7 DEF Job, Whole, Replied
<1>9. worker' = "idle"
  BY DEF Answer
<1>10. /\ j.kind = "load" <=> j.ticket = "load"
       /\ j.ticket = "save" => j.kind = "save" /\ j.live
       /\ w.started /\ j.ticket \in Tickets /\ "load" \in Tickets /\ "save" \in Tickets
  BY <1>3, <1>5, <1>6 DEF Good, QueueInv, Jobs, Tickets, Replied
<1>11. ASSUME NEW t \in Tickets
       PROVE  \/ v.replies[t] = w.replies[t]
              \/ t = j.ticket /\ t \in w.tickets /\ v.replies[t] = r
  BY <1>5, <1>6 DEF Replied
<1>12. \A t \in Tickets : v.replies[t].there => t \in v.tickets
  BY <1>3, <1>5, <1>11 DEF Good, QueueInv, Replied
<1>13. QueueInv(v)'
  <2>1. \A i \in DOMAIN v.jobs :
          /\ v.jobs[i].kind = "load" <=> v.jobs[i].ticket = "load"
          /\ v.jobs[i].ticket = "save" => v.jobs[i].kind = "save" /\ v.jobs[i].live
    BY <1>3, <1>5 DEF Good, QueueInv, Replied
  <2> QED
    BY <1>5, <1>9, <1>10, <1>12, <2>1 DEF QueueInv, Replied
<1>14. PromiseInv(w, promise) /\ ExitInv(w)
  BY <1>3 DEF Good
<1>15. j.kind = "save" => /\ "load" \notin w.tickets /\ ~w.replies["load"].there
                          /\ promise \subseteq j.docs
  BY <1>3, <1>5, <1>6, <1>10, <1>14 DEF PromiseInv, Good, QueueInv, Replied
<1>16. PromiseInv(v, promise)'
  <2>1. "load" \in v.tickets => \A i \in DOMAIN v.jobs : v.jobs[i].kind # "save"
    BY <1>5, <1>14 DEF PromiseInv, Replied
  <2>2. "load" \notin v.tickets /\ v.started =>
          \A d \in promise : v.queue[d] \in Pending \cup {"failed"} \/ v.tabs[d] = "open"
    BY <1>5, <1>14 DEF PromiseInv, Replied
  <2>3. \A i \in DOMAIN v.jobs : v.jobs[i].kind = "save" => promise \subseteq v.jobs[i].docs
    BY <1>5, <1>14 DEF PromiseInv, Replied
  <2>4. ~MayFail("damage") => promise \subseteq R
    BY <1>8, <1>14, <1>15 DEF PromiseInv
  <2>5. ~MayFail("damage") /\ v.replies["load"].there /\ v.replies["load"].ok
          /\ ~v.replies["load"].recovered => v.replies["load"].docs \subseteq R
    <3>1. CASE v.replies["load"] = w.replies["load"]
      BY <1>8, <1>14, <1>15, <3>1 DEF PromiseInv
    <3>2. CASE "load" = j.ticket /\ v.replies["load"] = r
      BY <1>8, <1>10, <3>2
    <3> QED
      BY <1>10, <1>11, <3>1, <3>2
  <2> QED
    BY <1>7, <2>1, <2>2, <2>3, <2>4, <2>5 DEF PromiseInv, MayFail
<1>17. Snapped(v) = Snapped(w)
  BY <1>5 DEF Snapped, Replied
<1>18. ExitInv(v)'
  <2>1. /\ v.exit <=> "save" \in v.tickets
        /\ v.exit => \A d \in Snapped(v) : v.tabs[d] = "open"
    BY <1>5, <1>14, <1>17 DEF ExitInv, Replied
  <2>2. \A i, k \in DOMAIN v.jobs : v.jobs[i].ticket = "save" =>
          /\ v.exit /\ ~v.replies["save"].there
          /\ v.jobs[k].ticket = "save" => i = k
          /\ i <= k /\ v.jobs[k].kind = "save" => Snapped(v) \subseteq v.jobs[k].docs
    <3>1. SUFFICES ASSUME NEW i \in DOMAIN v.jobs, NEW k \in DOMAIN v.jobs,
                          v.jobs[i].ticket = "save"
                   PROVE  /\ v.exit /\ ~v.replies["save"].there
                          /\ v.jobs[k].ticket = "save" => i = k
                          /\ i <= k /\ v.jobs[k].kind = "save" => Snapped(v) \subseteq v.jobs[k].docs
      OBVIOUS
    <3>2. /\ i + 1 \in DOMAIN w.jobs /\ v.jobs[i] = w.jobs[i + 1] /\ i \in Nat /\ i >= 1
          /\ k + 1 \in DOMAIN w.jobs /\ v.jobs[k] = w.jobs[k + 1] /\ k \in Nat
      BY <1>5 DEF Replied
    <3>3. /\ w.exit /\ ~w.replies["save"].there
          /\ w.jobs[k + 1].ticket = "save" => i + 1 = k + 1
          /\ i + 1 <= k + 1 /\ w.jobs[k + 1].kind = "save" => Snapped(w) \subseteq w.jobs[k + 1].docs
      BY <1>14, <3>1, <3>2 DEF ExitInv
    <3>4. j.ticket # "save"
      <4>1. j.ticket = "save" => 1 = i + 1
        BY <1>5, <1>6, <1>14, <3>1, <3>2 DEF ExitInv, Replied
      <4> QED
        BY <3>2, <4>1
    <3>5. v.replies["save"] = w.replies["save"]
      BY <1>10, <1>11, <3>4
    <3> QED
      BY <1>5, <1>17, <3>2, <3>3, <3>5 DEF Replied
  <2>3. v.replies["save"].there =>
          /\ \A i \in DOMAIN v.jobs : v.jobs[i].kind = "save" => Snapped(v) \subseteq v.jobs[i].docs
          /\ v.replies["save"].ok => Snapped(v) \subseteq R
    <3>1. CASE v.replies["save"] = w.replies["save"]
      BY <1>5, <1>6, <1>8, <1>14, <1>17, <3>1 DEF ExitInv, Replied
    <3>2. CASE "save" = j.ticket /\ v.replies["save"] = r
      <4>1. \A i \in DOMAIN w.jobs : 1 <= i /\ w.jobs[i].kind = "save" => Snapped(w) \subseteq w.jobs[i].docs
        BY <1>5, <1>6, <1>14, <3>2 DEF ExitInv, Replied
      <4>2. \A i \in DOMAIN v.jobs : v.jobs[i].kind = "save" => Snapped(v) \subseteq v.jobs[i].docs
        BY <1>5, <1>17, <4>1 DEF Replied
      <4>3. Snapped(w) \subseteq j.docs
        BY <1>5, <1>6, <1>10, <3>2, <4>1 DEF Replied
      <4> QED
        BY <1>8, <1>17, <3>2, <4>2, <4>3
    <3> QED
      BY <1>10, <1>11, <3>1, <3>2
  <2> QED
    BY <1>7, <2>1, <2>2, <2>3 DEF ExitInv, Snapped
<1>19. promise' \subseteq Docs
  BY <1>3 DEF Good
<1> QED
  BY <1>2, <1>5, <1>13, <1>16, <1>18, <1>19 DEF Good, QueueInv, PromiseInv, ExitInv, Snapped, MayFail, Replied
(* What a step of the worker has to show of the files it writes.           *)
LEMMA WorkStep ==
    ASSUME IInv, UNCHANGED <<scene, promise, up, leave>>, up,
           disk' \in [primary : Generation, previous : Generation],
           worker' \in {"idle", "busy", "kept"}, history' \in Seq(SUBSET Docs),
           Good(win, promise)', DiskInv'
    PROVE  IInv'
<1>1. Shape'
  BY DEF IInv, Shape
<1>2. LeftInv'
  BY DEF LeftInv
<1> QED
  BY <1>1, <1>2 DEF IInv

(* The worker takes a job.                                                 *)
LEMMA WorkTakeStep ==
    ASSUME IInv, WorkTake, UNCHANGED scene
    PROVE  IInv'
<1>1. /\ up /\ worker = "idle" /\ win.jobs # <<>> /\ worker' = "busy"
      /\ UNCHANGED <<win, up, leave, disk, history, promise>>
  BY DEF WorkTake, Stays, Other
<1>2. Good(win, promise)'
  BY <1>1 DEF IInv, Good, QueueInv, PromiseInv, ExitInv, Snapped, MayFail
<1>3. DiskInv'
  BY <1>1 DEF IInv, DiskInv, MayFail
<1> QED
  BY <1>1, <1>2, <1>3, WorkStep DEF IInv, Shape

(* An answer that leaves session.json as it is.                            *)
LEMMA AnswersOnly ==
    ASSUME IInv, UNCHANGED <<scene, promise, up, leave, disk, history>>, up, worker # "idle",
           NEW r \in Answers, Answer(r),
           Job.kind = "load" /\ r.ok /\ ~r.recovered /\ ~MayFail("damage") =>
                r.docs \subseteq disk.primary.docs,
           Job.ticket = "save" => ~r.ok
    PROVE  IInv'
<1>1. Good(win, promise)'
  BY AnswerStep
<1>2. worker' = "idle"
  BY DEF Answer
<1>3. DiskInv'
  BY <1>2 DEF IInv, DiskInv, MayFail
<1> QED
  BY <1>1, <1>2, <1>3, WorkStep DEF IInv, Shape

(* What an answer holds.                                                   *)
LEMMA AnsweredType ==
    ASSUME NEW ok \in BOOLEAN, NEW S \in SUBSET Docs, NEW T \in SUBSET Docs
    PROVE  /\ Answered(ok, S, T) \in Answers
           /\ Answered(ok, S, T).ok = ok /\ Answered(ok, S, T).docs = S
BY DEF Answered, Answers

(* What the job at the head is.                                            *)
LEMMA JobType ==
    ASSUME IInv, worker # "idle"
    PROVE  /\ Job \in Jobs /\ Job.docs \in SUBSET Docs
           /\ (Job.kind = "load" <=> Job.ticket = "load")
           /\ Job.ticket = "save" => Job.kind = "save" /\ Job.live
<1>1. win.jobs \in Seq(Jobs) /\ win.jobs # <<>> /\ QueueInv(win)
  BY DEF IInv, Good, Window, QueueInv
<1>2. Job = win.jobs[1] /\ 1 \in DOMAIN win.jobs /\ Job \in Jobs
  BY <1>1, EmptySeq DEF Job
<1>3. Job.docs \in SUBSET Docs
  BY <1>2 DEF Jobs
<1> QED
  BY <1>1, <1>2, <1>3 DEF QueueInv

(* What `load` answers; what did not fall back is in session.json.         *)
LEMMA LoadedType ==
    ASSUME IInv, NEW seen \in Seen(disk)
    PROVE  /\ Loaded(seen) \in Answers
           /\ Loaded(seen).ok /\ ~Loaded(seen).recovered =>
                Loaded(seen).docs \subseteq disk.primary.docs
<1>1. /\ disk \in [primary : Generation, previous : Generation]
      /\ Bad \in Generation
  BY DEF IInv, Shape, Bad, Generation
<1>2. /\ seen.primary \in {disk.primary, Bad} /\ seen.primary \in Generation
      /\ seen.previous \in Generation
  BY <1>1 DEF Seen
<1>3. PICK g \in Generation : g = Load(seen)
  BY <1>2 DEF Load
<1>4. PICK S \in SUBSET Docs : S = Load(seen).docs
  BY <1>3 DEF Generation
<1>5. PICK b \in BOOLEAN : b = StandsIn(seen)
  <2>1. \A P, Q : (P /\ Q) \in BOOLEAN
    OBVIOUS
  <2>2. StandsIn(seen) \in BOOLEAN
    BY ONLY <2>1 DEF StandsIn
  <2> QED
    BY ONLY <2>2
<1>6. PICK ok \in BOOLEAN : ok = Readable(Load(seen))
  <2>1. \A x, T : (x \in T) \in BOOLEAN
    OBVIOUS
  <2>2. Readable(Load(seen)) \in BOOLEAN
    BY ONLY <2>1 DEF Readable
  <2> QED
    BY ONLY <2>2
<1>7. PICK a : a = Answered(ok, S, {})
  OBVIOUS
<1>8. /\ a = [docs |-> S, refused |-> {}, ok |-> ok, recovered |-> FALSE, there |-> TRUE]
      /\ Loaded(seen) = [a EXCEPT !.recovered = b]
  BY <1>4, <1>5, <1>6, <1>7 DEF Loaded, Answered
<1>9. ~b => S \subseteq disk.primary.docs
  <2>1. ASSUME ~b PROVE Load(seen) = seen.primary
    BY <1>5, <2>1 DEF Load
  <2> QED
    BY <1>2, <1>4, <2>1 DEF Bad
<1>10. PICK l : l = Loaded(seen)
  OBVIOUS
<1>11. l = [docs |-> S, refused |-> {}, ok |-> ok, recovered |-> b, there |-> TRUE]
  BY <1>8, <1>10
<1>12. l \in Answers
  BY <1>11 DEF Answers
<1> QED
  BY <1>9, <1>10, <1>11, <1>12

(* Reading the session or a named one keeps IInv.                          *)
LEMMA WorkReadStep ==
    ASSUME IInv, WorkRead, UNCHANGED scene
    PROVE  IInv'
<1>1. /\ up /\ worker # "idle" /\ Job.kind \in {"load", "import"}
      /\ UNCHANGED <<promise, up, leave, disk, history>>
  BY DEF WorkRead, Working, Stays, Other
<1>2. Job.ticket # "save"
  BY <1>1, JobType
<1>3. CASE Job.kind = "load" /\ \E seen \in Seen(disk) : Answer(Loaded(seen))
  <2>1. PICK seen \in Seen(disk) : Answer(Loaded(seen))
    BY <1>3
  <2>2. PICK r \in Answers : r = Loaded(seen)
    BY LoadedType
  <2>3. r.ok /\ ~r.recovered => r.docs \subseteq disk.primary.docs
    BY <2>2, LoadedType
  <2> QED
    BY <1>1, <1>2, <2>1, <2>2, <2>3, AnswersOnly
<1>4. CASE Job.kind = "import" /\ Answer(Answered(TRUE, scene.named, {}))
  <2>1. PICK S \in SUBSET Docs : S = scene.named
    BY SessionAssumption DEF IInv, Shape
  <2>2. PICK r \in Answers : r = Answered(TRUE, S, {})
    BY AnsweredType
  <2> QED
    BY <1>1, <1>2, <1>4, <2>1, <2>2, AnswersOnly
<1>5. CASE Answer(Answered(FALSE, {}, {}))
  <2>1. PICK r \in Answers : r = Answered(FALSE, {}, {}) /\ ~r.ok
    BY AnsweredType
  <2> QED
    BY <1>1, <1>2, <1>5, <2>1, AnswersOnly
<1> QED
  BY <1>3, <1>4, <1>5 DEF WorkRead

(* Deciding trust keeps IInv.                                              *)
LEMMA WorkResolveStep ==
    ASSUME IInv, WorkResolve, UNCHANGED scene
    PROVE  IInv'
<1>1. /\ up /\ worker # "idle" /\ Job.kind = "resolve"
      /\ UNCHANGED <<promise, up, leave, disk, history>>
  BY DEF WorkResolve, Working, Stays, Other
<1>2. Job.ticket # "save" /\ Job.docs \in SUBSET Docs
  BY <1>1, JobType
<1>3. PICK T \in SUBSET Job.docs : Answer(Answered(TRUE, Job.docs \ T, T))
  BY DEF WorkResolve
<1>4. PICK r \in Answers : r = Answered(TRUE, Job.docs \ T, T)
  <2>1. T \in SUBSET Docs /\ Job.docs \ T \in SUBSET Docs
    BY <1>2
  <2> QED
    BY <2>1, AnsweredType
<1> QED
  BY <1>1, <1>2, <1>3, <1>4, AnswersOnly

(* Exporting a named session keeps IInv.                                   *)
LEMMA WorkExportStep ==
    ASSUME IInv, WorkExport, UNCHANGED scene
    PROVE  IInv'
<1>1. /\ up /\ worker # "idle" /\ Job.kind = "export"
      /\ UNCHANGED <<promise, up, leave, disk, history>>
  BY DEF WorkExport, Working, Stays, Other
<1>2. Job.ticket # "save"
  BY <1>1, JobType
<1>3. PICK ok \in BOOLEAN : Answer(Answered(ok, {}, {}))
  BY DEF WorkExport
<1>4. PICK r \in Answers : r = Answered(ok, {}, {})
  BY AnsweredType
<1> QED
  BY <1>1, <1>2, <1>3, <1>4, AnswersOnly

(* A cancelled save writes nothing, and is never an exit's.                *)
LEMMA WorkCancelledStep ==
    ASSUME IInv, WorkCancelled, UNCHANGED scene
    PROVE  IInv'
<1>1. /\ up /\ worker # "idle" /\ Job.kind = "save" /\ ~Job.live
      /\ UNCHANGED <<promise, up, leave, disk, history>> /\ Answer(Answered(FALSE, {}, {}))
  BY DEF WorkCancelled, Working, Stays, Other
<1>2. Job.ticket # "save"
  BY <1>1, JobType
<1>3. PICK r \in Answers : r = Answered(FALSE, {}, {}) /\ ~r.ok
  BY AnsweredType
<1> QED
  BY <1>1, <1>2, <1>3, AnswersOnly

(* The previous generation is one that was saved whole.                    *)
LEMMA KeptFits ==
    ASSUME IInv, NEW k, k = KeepPrevious(disk)
    PROVE  /\ k \in [primary : Generation, previous : Generation] /\ k.primary = disk.primary
           /\ \/ k.previous = Absent
              \/ k.previous.kind = "whole" /\ k.previous.docs \in Range(history)
           /\ ~MayFail("damage") => k.previous = Whole(history[Len(history)])
<1>1. disk \in [primary : Generation, previous : Generation]
  BY DEF IInv, Shape
<1>2. CASE disk.primary.kind = "whole"
  <2>1. k = [disk EXCEPT !.previous = disk.primary]
    BY <1>2 DEF KeepPrevious
  <2>2. /\ k \in [primary : Generation, previous : Generation] /\ k.primary = disk.primary
        /\ k.previous = disk.primary
    BY <1>1, <2>1
  <2> QED
    BY <1>2, <2>2 DEF IInv, DiskInv
<1>3. CASE disk.primary.kind # "whole"
  <2>1. k = disk
    BY <1>3 DEF KeepPrevious
  <2>2. MayFail("damage")
    BY <1>3 DEF IInv, DiskInv, Whole
  <2> QED
    BY <1>1, <2>1, <2>2 DEF IInv, DiskInv
<1> QED
  BY <1>2, <1>3

(* The first half of a save keeps IInv.                                    *)
LEMMA WorkPreviousStep ==
    ASSUME IInv, WorkPrevious, UNCHANGED scene
    PROVE  IInv'
<1>1. /\ up /\ worker = "busy" /\ Job.kind = "save"
      /\ UNCHANGED <<promise, up, leave, history>>
  BY DEF WorkPrevious, Working, Stays
<1>2. PICK k : k = KeepPrevious(disk)
  OBVIOUS
<1>3. /\ k \in [primary : Generation, previous : Generation] /\ k.primary = disk.primary
      /\ \/ k.previous = Absent
         \/ k.previous.kind = "whole" /\ k.previous.docs \in Range(history)
      /\ ~MayFail("damage") => k.previous = Whole(history[Len(history)])
  BY <1>2, KeptFits
<1>4. history \in Seq(SUBSET Docs) /\ disk \in [primary : Generation, previous : Generation]
  BY DEF IInv, Shape
<1>5. /\ disk' \in {disk, k} /\ disk' \in [primary : Generation, previous : Generation]
      /\ disk'.primary = disk.primary
  BY <1>2, <1>3, <1>4 DEF WorkPrevious
<1>6. \/ worker' = "kept" /\ disk' = k /\ UNCHANGED win
      \/ MayFail("read") /\ worker' = "kept" /\ UNCHANGED <<disk, win>>
      \/ worker' = "idle" /\ Answer(Answered(FALSE, {}, {}))
  BY <1>2 DEF WorkPrevious, Answer
<1>7. DiskInv'
  BY <1>1, <1>3, <1>5, <1>6 DEF IInv, DiskInv, MayFail
<1>8. Good(win, promise)'
  <2>1. CASE worker' = "kept" /\ UNCHANGED win
    BY <1>1, <1>5, <2>1 DEF IInv, Good, QueueInv, PromiseInv, ExitInv, Snapped, MayFail, Job
  <2>2. CASE Answer(Answered(FALSE, {}, {}))
    <3>1. PICK r \in Answers : r = Answered(FALSE, {}, {}) /\ ~r.ok
      BY AnsweredType
    <3> QED
      BY <1>1, <1>5, <2>2, <3>1, AnswerStep
  <2> QED
    BY <1>6, <2>1, <2>2
<1> QED
  BY <1>1, <1>4, <1>5, <1>6, <1>7, <1>8, WorkStep

(* The second half of a save keeps IInv.                                   *)
LEMMA WorkPrimaryStep ==
    ASSUME IInv, WorkPrimary, UNCHANGED scene
    PROVE  IInv'
<1>1. /\ up /\ worker = "kept" /\ UNCHANGED <<promise, up, leave>>
  BY DEF WorkPrimary, Stays
<1>2. Job.kind = "save" /\ Job.docs \in SUBSET Docs
  BY <1>1, JobType DEF IInv, Good, QueueInv, Job
<1>3. CASE UNCHANGED <<disk, history>> /\ Answer(Answered(FALSE, {}, {}))
  <2>1. PICK r \in Answers : r = Answered(FALSE, {}, {}) /\ ~r.ok
    BY AnsweredType
  <2> QED
    BY <1>1, <1>2, <1>3, <2>1, AnswersOnly
<1>4. CASE /\ disk' = [disk EXCEPT !.primary = Whole(Job.docs)]
           /\ history' = Append(history, Job.docs)
           /\ \E ok \in BOOLEAN : Answer(Answered(ok, {}, {}))
  <2>1. PICK S \in SUBSET Docs : S = Job.docs
    BY <1>2
  <2>2. history \in Seq(SUBSET Docs) /\ disk \in [primary : Generation, previous : Generation]
    BY DEF IInv, Shape
  <2>3. Whole(S) \in Generation
    BY DEF Whole, Generation
  <2>4. /\ disk' \in [primary : Generation, previous : Generation]
        /\ disk'.primary = Whole(S) /\ disk'.previous = disk.previous
    BY <1>4, <2>1, <2>2, <2>3
  <2>5. Len(history) \in Nat /\ Len(history) >= 1
    BY <2>2 DEF IInv, DiskInv
  <2>6. /\ history' \in Seq(SUBSET Docs) /\ Len(history') = Len(history) + 1
        /\ history'[Len(history) + 1] = S /\ history'[Len(history)] = history[Len(history)]
        /\ \A i \in DOMAIN history : i \in DOMAIN history' /\ history'[i] = history[i]
        /\ Len(history) + 1 \in DOMAIN history'
    BY <1>4, <2>1, <2>2, <2>5
  <2>7. S \in Range(history') /\ Range(history) \subseteq Range(history')
    BY <2>6 DEF Range
  <2>8. worker' = "idle"
    BY <1>4 DEF Answer
  <2>9. DiskInv'
    <3>1. /\ Len(history') >= 1 /\ Len(history') - 1 = Len(history)
      BY <2>5, <2>6
    <3>2. \/ disk'.previous = Absent
          \/ disk'.previous.kind = "whole" /\ disk'.previous.docs \in Range(history')
      BY <2>4, <2>7 DEF IInv, DiskInv
    <3>3. ~MayFail("damage") /\ ~MayFail("read") => disk'.previous = Whole(history'[Len(history') - 1])
      BY <1>1, <2>4, <2>6, <3>1 DEF IInv, DiskInv
    <3> QED
      BY <2>4, <2>6, <2>7, <2>8, <3>1, <3>2, <3>3 DEF DiskInv, MayFail, Whole
  <2>10. Good(win, promise)'
    <3>1. PICK r \in Answers : Answer(r) /\ (Job.ticket = "save" /\ r.ok => disk'.primary = Whole(Job.docs))
      BY <1>4, <2>1, <2>4, AnsweredType
    <3> QED
      BY <1>1, <1>2, <2>1, <2>4, <3>1, AnswerStep
  <2> QED
    BY <1>1, <2>4, <2>6, <2>8, <2>9, <2>10, WorkStep
<1> QED
  BY <1>3, <1>4 DEF WorkPrimary
-----------------------------------------------------------------------------
(* Death, restart and the medium.                                          *)

(* A crash keeps IInv.                                                     *)
LEMMA CrashStep ==
    ASSUME IInv, Crash, UNCHANGED scene
    PROVE  IInv'
BY GoneStep DEF Crash, Other, IInv, Good, PromiseInv

(* A restart keeps IInv.                                                   *)
LEMMA RestartStep ==
    ASSUME IInv, Restart, UNCHANGED scene
    PROVE  IInv'
<1>1. up' = TRUE /\ UNCHANGED <<disk, worker, win, history, promise, leave, scene>>
  BY DEF Restart
<1>2. Good(win, promise)'
  BY <1>1, WindowStep DEF IInv
<1>3. DiskInv'
  BY <1>1 DEF IInv, DiskInv, MayFail
<1>4. Shape'
  BY <1>1 DEF IInv, Shape
<1>5. LeftInv'
  BY <1>1 DEF LeftInv
<1> QED
  BY <1>2, <1>3, <1>4, <1>5 DEF IInv

(* A damaged session.json keeps IInv.                                      *)
LEMMA DamageStep ==
    ASSUME IInv, Damage, UNCHANGED scene
    PROVE  IInv'
<1>1. /\ MayFail("damage") /\ ~up
      /\ UNCHANGED <<worker, win, up, history, promise, leave, scene>>
  BY DEF Damage
<1>2. disk \in [primary : Generation, previous : Generation]
  BY DEF IInv, Shape
<1>3. PICK g \in [kind : {"salvaged"}, docs : SUBSET disk.primary.docs]
                   \cup {[kind |-> "bad", docs |-> {}]} :
          disk' = [disk EXCEPT !.primary = g]
  BY DEF Damage, Bad
<1>4. g \in Generation /\ g.kind # "whole"
  BY <1>2, <1>3 DEF Generation
<1>5. /\ disk' \in [primary : Generation, previous : Generation]
      /\ disk'.primary = g /\ disk'.previous = disk.previous
  BY <1>2, <1>3, <1>4
<1>6. win = NewWindow /\ worker = "idle" /\ win' = NewWindow' /\ worker' = "idle"
  BY <1>1 DEF IInv, LeftInv, NewWindow
<1>7. Good(win, promise)'
  BY <1>1, <1>6, NewStep DEF IInv, Shape, MayFail
<1>8. DiskInv'
  BY <1>1, <1>4, <1>5 DEF IInv, DiskInv, MayFail
<1>9. Shape'
  BY <1>1, <1>5 DEF IInv, Shape
<1>10. LeftInv'
  BY <1>1, <1>4, <1>5, <1>6 DEF IInv, LeftInv
<1> QED
  BY <1>7, <1>8, <1>9, <1>10 DEF IInv

-----------------------------------------------------------------------------
(* IInv holds initially.                                                   *)
LEMMA Start == Init => IInv
<1> SUFFICES ASSUME Init PROVE IInv
  OBVIOUS
<1>1. PICK S \in SUBSET Docs : S = scene.listed /\ scene \in Scenes
  BY SessionAssumption DEF Init
<1>2. history \in Seq(SUBSET Docs) /\ Len(history) = 1 /\ history[1] = S /\ 1 \in DOMAIN history
  BY <1>1 DEF Init
<1>3. S \in Range(history)
  BY <1>2 DEF Range
<1>4. /\ disk.primary = Whole(S) /\ disk.previous = Absent /\ promise = S
      /\ worker = "idle" /\ win = NewWindow /\ up = TRUE
  BY <1>1 DEF Init
<1>5. Whole(S) \in Generation /\ Absent \in Generation /\ disk.primary.docs = S
  BY <1>4 DEF Whole, Absent, Generation
<1>6. disk \in [primary : Generation, previous : Generation]
  BY <1>1, <1>5 DEF Init
<1>7. Shape
  BY <1>1, <1>2, <1>4, <1>6 DEF Shape
<1>8. DiskInv
  BY <1>2, <1>3, <1>4, <1>5 DEF DiskInv
<1>9. LeftInv
  BY <1>4 DEF LeftInv
<1>10. Good(win, promise)
  <2>1. /\ win \in Window /\ ~win.started /\ win.tickets = {} /\ win.jobs = <<>>
        /\ ~win.exit /\ \A t \in Tickets : ~win.replies[t].there
    BY <1>1, <1>4, NewFields
  <2>2. DOMAIN win.jobs = {} /\ "load" \in Tickets /\ "save" \in Tickets
    BY <2>1 DEF Tickets
  <2>3. QueueInv(win)
    BY <1>4, <2>1, <2>2 DEF QueueInv
  <2>4. PromiseInv(win, promise)
    BY <1>4, <1>5, <2>1, <2>2 DEF PromiseInv
  <2>5. ExitInv(win)
    BY <2>1, <2>2 DEF ExitInv
  <2> QED
    BY <1>4, <2>1, <2>3, <2>4, <2>5 DEF Good
<1> QED
  BY <1>7, <1>8, <1>9, <1>10 DEF IInv

(* Every step keeps IInv.                                                  *)
LEMMA Kept == IInv /\ [Next]_vars => IInv'
<1> SUFFICES ASSUME IInv, [Next]_vars PROVE IInv'
  OBVIOUS
<1>1. CASE UNCHANGED vars
  <2>1. UNCHANGED <<scene, disk, worker, win, up, history, promise, leave>>
    BY <1>1 DEF vars, moving
  <2>2. Good(win, promise)'
    BY <2>1, WindowStep DEF IInv
  <2>3. DiskInv' /\ Shape'
    BY <2>1 DEF IInv, DiskInv, Shape, MayFail
  <2>4. LeftInv'
    BY <2>1 DEF IInv, LeftInv, NewWindow
  <2> QED
    BY <2>2, <2>3, <2>4 DEF IInv
<1>2. CASE Next
  <2>0. UNCHANGED scene /\ scene \in Scenes
    BY <1>2 DEF Next, IInv, Shape
  <2>1. CASE FirstFrame
    BY <2>0, <2>1, FirstFrameStep
  <2>2. CASE Pump
    BY <2>0, <2>2, PumpStep
  <2>3. CASE RequestClose
    BY <2>0, <2>3, RequestCloseStep
  <2>4. CASE SaveNamed
    BY <2>0, <2>4, SaveNamedStep
  <2>5. CASE LoadNamed
    BY <2>0, <2>5, LoadNamedStep
  <2>6. CASE NamedPump
    BY <2>0, <2>6, NamedPumpStep
  <2>7. CASE SessionEnds
    BY <2>0, <2>7, SessionEndsStep
  <2>8. CASE SessionEnded
    BY <2>0, <2>8, SessionEndedStep
  <2>9. CASE \E d \in scene.docs : OpenFile(d) \/ FileOpened(d) \/ Forward(d) \/ CloseTab(d) \/ Edit(d)
    <3>1. PICK d \in Docs : OpenFile(d) \/ FileOpened(d) \/ Forward(d) \/ CloseTab(d) \/ Edit(d)
      BY <2>0, <2>9, SessionAssumption
    <3> QED
      BY <2>0, <3>1, OpenFileStep, FileOpenedStep, ForwardStep, CloseTabStep, EditStep
  <2>10. CASE WorkTake
    BY <2>0, <2>10, WorkTakeStep
  <2>11. CASE WorkRead
    BY <2>0, <2>11, WorkReadStep
  <2>12. CASE WorkResolve
    BY <2>0, <2>12, WorkResolveStep
  <2>13. CASE WorkExport
    BY <2>0, <2>13, WorkExportStep
  <2>14. CASE WorkCancelled
    BY <2>0, <2>14, WorkCancelledStep
  <2>15. CASE WorkPrevious
    BY <2>0, <2>15, WorkPreviousStep
  <2>16. CASE WorkPrimary
    BY <2>0, <2>16, WorkPrimaryStep
  <2>17. CASE Crash
    BY <2>0, <2>17, CrashStep
  <2>18. CASE Restart
    BY <2>0, <2>18, RestartStep
  <2>19. CASE Damage
    BY <2>0, <2>19, DamageStep
  <2> QED
    BY <1>2, <2>1, <2>2, <2>3, <2>4, <2>5, <2>6, <2>7, <2>8, <2>9, <2>10, <2>11, <2>12,
       <2>13, <2>14, <2>15, <2>16, <2>17, <2>18, <2>19 DEF Next, Step
<1> QED
  BY <1>1, <1>2

(* The parts of IInv hold in every reachable state: the files on disk are  *)
(* generations that were saved, no session is saved before the previous    *)
(* one is read, and every save that is queued lists the files that were    *)
(* restored and those open when the exit was asked for (file-io            *)
(* session/service.rs, shell/session.rs).                                  *)
THEOREM Inductive == Spec => []IInv
<1>1. Init => IInv
  BY Start
<1>2. IInv /\ [Next]_vars => IInv'
  BY Kept
<1> QED
  BY <1>1, <1>2, PTL DEF Spec

(* Whatever ends the process, and whenever, session.json lists every file  *)
(* the previous session listed and the user did not close, unless the      *)
(* medium damages it; a restore that could not read session.json fell back *)
(* to the previous generation and promises only what both list (session.rs *)
(* restore_settled, session_before_exit, session_end_write,                *)
(* capture_session; file-io session/mod.rs load).                          *)
THEOREM RestoredFilesAreKept == Spec => []NothingForgotten
<1>1. IInv => NothingForgotten
  <2> SUFFICES ASSUME IInv, ~MayFail("damage") PROVE promise \subseteq Load(disk).docs
    BY DEF NothingForgotten
  <2>1. disk.primary.kind = "whole"
    BY DEF IInv, DiskInv, Whole
  <2>2. Load(disk) = disk.primary
    BY <2>1 DEF Load, StandsIn, Readable
  <2> QED
    BY <2>2 DEF IInv, Good, PromiseInv
<1> QED
  BY <1>1, Inductive, PTL

(* An exit that saved the session left no open file out of session.json,   *)
(* and nothing was opened, closed or typed since the user asked for it     *)
(* (session.rs session_pump and exit_unchanged).                           *)
THEOREM SavedExitIsComplete == Spec => []ExitSavedWhatIsOpen
<1>1. IInv => ExitSavedWhatIsOpen
  BY DEF IInv, LeftInv, ExitSavedWhatIsOpen
<1> QED
  BY <1>1, Inductive, PTL

(* The previous generation is one that was saved whole, and with no damage *)
(* and no read error one of the last two: losing session.json costs at     *)
(* most one save (file-io session/mod.rs SessionStore::save and load).     *)
THEOREM PreviousStandsIn == Spec => []LostPrimaryFallsBack
<1>1. IInv => LostPrimaryFallsBack
  <2> SUFFICES ASSUME IInv PROVE LostPrimaryFallsBack
    OBVIOUS
  <2>1. PICK b : b = Bad
    OBVIOUS
  <2>2. PICK d : d = [disk EXCEPT !.primary = b]
    OBVIOUS
  <2>3. d.primary = b /\ d.previous = disk.previous
    BY <2>2 DEF IInv, Shape
  <2>4. ~Readable(b)
    BY <2>1 DEF Readable, Bad
  <2>5. Load(d) = IF Readable(disk.previous) THEN disk.previous ELSE b
    BY <2>3, <2>4 DEF Load, StandsIn
  <2>6. ~Readable(Absent) /\ \A S : Readable(Whole(S)) /\ Whole(S).docs = S
    BY DEF Readable, Absent, Whole
  <2>7. Readable(Load(d)) => Load(d).docs \in Range(history)
    BY <2>4, <2>5, <2>6 DEF IInv, DiskInv
  <2>8. Len(history) >= 2 /\ ~MayFail("damage") /\ ~MayFail("read") =>
          /\ Readable(Load(d))
          /\ Load(d).docs \in {history[Len(history)], history[Len(history) - 1]}
    BY <2>5, <2>6 DEF IInv, DiskInv
  <2> QED
    BY <2>1, <2>2, <2>7, <2>8 DEF LostPrimaryFallsBack
<1> QED
  BY <1>1, Inductive, PTL
=============================================================================

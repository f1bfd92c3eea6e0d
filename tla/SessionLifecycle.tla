--------------------------- MODULE SessionLifecycle ---------------------------
(***************************************************************************)
(* The session: which files are open, kept in session.json over the runs of *)
(* the program.                                                             *)
(*                                                                          *)
(* One worker thread reads and writes the session files in the order it was *)
(* asked.  The window thread restores the previous session in the           *)
(* background, opens launch files on top of it, saves the session before an *)
(* exit, replaces it by a named session, and answers the end of the desktop *)
(* session.  The window thread polls: whatever the worker and the file      *)
(* lanes did is seen by the next pump.                                      *)
(*                                                                          *)
(* A document is a file, and the order of the numbers is restore_order.     *)
(* Untitled documents, tabs' views and the window's place are left out.     *)
(***************************************************************************)
EXTENDS Integers, FiniteSets, Sequences, SequencesExt, FiniteSetsExt

CONSTANTS
    Docs,        \* the files, numbered in the order a session restores them
    Scenes       \* what a behaviour may consist of, one of them chosen at the start

\* `read`: a generation of the session cannot be read; `write`: a session file cannot be
\* written; `damage`: the medium damages session.json; `trust`: a path is
\* refused; `open`: a file cannot be opened; `stop`: the process dies;
\* `end`: the desktop session ends; `late`: its deadline passes.
AllFaults == {"read", "write", "damage", "trust", "open", "stop", "end", "late"}

ASSUME SessionAssumption ==
    /\ Docs \subseteq Nat /\ IsFiniteSet(Docs) /\ IsFiniteSet(Scenes)
    /\ \A s \in Scenes :
         /\ s.docs \subseteq Docs         \* the files there are
         /\ s.listed \subseteq s.docs     \* the session on disk lists these at first
         /\ s.launch \subseteq s.docs     \* named on the command line of every run
         /\ s.named \subseteq s.docs      \* those of the named session a user may load
         /\ s.capacity \in Nat \ {0}     \* jobs the worker's queue holds beside the
                                         \* one at work (4 in the code)
         /\ s.faults \subseteq AllFaults  \* what may fail
         /\ s.runs \in Nat               \* bound: starts of the program
         /\ s.edits \in Nat              \* bound: changes of each document in one run
         /\ s.asks \in Nat               \* bound: opens, session saves and loads asked
                                         \* for in one run

VARIABLES
    disk,       \* session.json and session.json.previous
    worker,     \* how far the worker came with the job at the head: it waits in
                \* the queue (`idle`), was taken (`busy`), or is a save whose
                \* previous generation is kept (`kept`)
    win,        \* the window thread: SessionRuntime, the workspace, its tickets
    up,         \* the process runs
    runs,       \* starts so far
    history,    \* every generation that ever became session.json, oldest first
    promise,    \* files the restored session listed that the user did not close
    leave,      \* what the last exit left behind
    scene       \* the scene this behaviour is of; it never changes

moving == <<disk, worker, win, up, runs, history, promise, leave>>
vars   == <<moving, scene>>

MayFail(fault) == fault \in scene.faults

(***************************************************************************)
(* The session files                                                        *)
(***************************************************************************)
\* `whole` decodes without diagnostics, `salvaged` with entries skipped, `bad`
\* not at all.
Generation == [kind : {"absent", "whole", "salvaged", "bad"}, docs : SUBSET Docs]
Absent     == [kind |-> "absent", docs |-> {}]
Whole(S)   == [kind |-> "whole", docs |-> S]
Readable(g) == g.kind \in {"whole", "salvaged"}

\* `SessionStore::load`: the previous generation stands in for one that cannot
\* be read or decoded, or whose every document was skipped.
StandsIn(d) ==
    /\ Readable(d.previous)
    /\ \/ ~Readable(d.primary)
       \/ d.primary.kind = "salvaged" /\ d.primary.docs = {} /\ d.previous.docs # {}
Load(d) == IF StandsIn(d) THEN d.previous ELSE d.primary

\* The generations as a load meets them: one that cannot be read is as good as bad.
Bad == [kind |-> "bad", docs |-> {}]
Seen(d) ==
    IF MayFail("read") THEN [primary : {d.primary, Bad}, previous : {d.previous, Bad}]
    ELSE {d}

\* Faulty variant: what was salvaged replaces the previous generation.
KeepsSalvaged(d) ==
    IF Readable(d.primary) THEN [d EXCEPT !.previous = Whole(d.primary.docs)] ELSE d

\* `SessionStore::save` keeps the current generation if it is whole.
KeepPrevious(d) ==
    IF d.primary.kind = "whole" THEN [d EXCEPT !.previous = d.primary] ELSE d

(***************************************************************************)
(* The window thread                                                        *)
(***************************************************************************)
Idle == [docs |-> {}, refused |-> {}, ok |-> FALSE, recovered |-> FALSE, there |-> FALSE]

\* Tickets are named after what they wait for.
Tickets == {"load", "resolve", "save", "end", "named"}
Pending == {"awaiting", "ready", "loading"}

NewWindow ==
    [started |-> FALSE,                        \* SessionRuntime::started
     tickets |-> {},                           \* tickets held
     replies |-> [t \in Tickets |-> Idle],     \* completions not taken yet
     jobs    |-> <<>>,                         \* the worker's queue
     asked   |-> 0,                            \* what was asked for, for the bound
     queue   |-> [d \in Docs |-> "none"],      \* RestoreQueue::states
     flight  |-> 0,                            \* RestoreQueue::in_flight
     opening |-> {},                           \* SessionRuntime::opening
     tabs    |-> [d \in Docs |-> "closed"],    \* the workspace
     content |-> [d \in Docs |-> 0],           \* each document's content_state
     launch  |-> scene.launch,                       \* launch requests still queued
     exit    |-> FALSE,                        \* exit_requested
     failed  |-> FALSE,                        \* exit_failed
     snaps   |-> {},                           \* exit_snapshots
     named   |-> "none",                       \* NamedSession
     queued  |-> {},                           \* NamedSession::Closing::queued
     ending  |-> FALSE]                        \* inside session_end_flush

Init ==
    /\ scene \in Scenes
    /\ disk = [primary |-> Whole(scene.listed), previous |-> Absent]
    /\ worker = "idle"
    /\ win = NewWindow
    /\ up = TRUE /\ runs = 1
    /\ history = <<scene.listed>>
    /\ promise = scene.listed
    /\ leave = [how |-> "none", open |-> {}, reviewed |-> TRUE]

StartupPending(w) == "load" \in w.tickets \/ \E d \in Docs : w.queue[d] \in Pending

\* Faulty variant: the session counts as settled once it is loaded.
SettledEarly(w) == w.started /\ "load" \notin w.tickets

\* `restore_settled`, for a launch that restores.
Settled(w) == w.started /\ ~StartupPending(w)

\* The workspace's editors, a failed open's placeholder among them, with what
\* tells their state apart; and `io_busy`.
HasTab(w)  == {d \in Docs : w.tabs[d] \in {"open", "failed"}}
Editors(w) == {<<d, w.tabs[d], w.content[d]>> : d \in HasTab(w)}
IoBusy(w)  == \E d \in Docs : w.tabs[d] = "loading"

\* `capture_session`: the complete documents, and those that failed to restore.
Capture(w) == {d \in Docs : w.tabs[d] = "open" \/ w.queue[d] = "failed"}

\* `SessionService::submit` refuses when its queue is full.
CanSubmit(w) == Len(w.jobs) < IF worker = "idle" THEN scene.capacity ELSE scene.capacity + 1
Submit(w, ticket, kind, S) ==
    [w EXCEPT !.tickets = @ \cup {ticket},
              !.jobs = Append(@, [kind |-> kind, ticket |-> ticket, docs |-> S, live |-> TRUE])]

Reply(w, ticket) == w.replies[ticket]
Taken(w, ticket) == [w EXCEPT !.tickets = @ \ {ticket}, !.replies[ticket] = Idle]

(***************************************************************************)
(* `session_pump`, step by step                                             *)
(***************************************************************************)
Install(w, S) == [w EXCEPT !.queue = [d \in Docs |-> IF d \in S THEN "awaiting" ELSE "none"]]

TakeLoaded(w) ==
    IF ~Reply(w, "load").there THEN w
    ELSE IF Reply(w, "load").ok THEN Install(Taken(w, "load"), Reply(w, "load").docs)
    ELSE Taken(w, "load")

\* Trust was decided for a batch: approve or reject each document.
TakeResolved(w) ==
    IF ~Reply(w, "resolve").there THEN w
    ELSE [Taken(w, "resolve") EXCEPT !.queue =
            [d \in Docs |-> IF @[d] # "awaiting" THEN @[d]
                            ELSE IF d \in Reply(w, "resolve").docs THEN "ready"
                            ELSE IF d \in Reply(w, "resolve").refused THEN "failed"
                            ELSE @[d]]]

\* Faulty variant: an open that failed keeps its place among the two.
SettlesOpened(w) ==
    LET done == {d \in w.opening : w.tabs[d] # "loading"}
    IN  [w EXCEPT !.opening = @ \ done,
                  !.flight = @ - Cardinality({d \in done : w.tabs[d] = "open"}),
                  !.queue = [d \in Docs |-> IF d \notin done THEN @[d]
                                            ELSE IF w.tabs[d] = "open" THEN "loaded" ELSE "failed"]]

\* An open document restores; one neither open nor loading failed.
TakeOpened(w) ==
    LET done == {d \in w.opening : w.tabs[d] # "loading"}
    IN  [w EXCEPT !.opening = @ \ done, !.flight = @ - Cardinality(done),
                  !.queue = [d \in Docs |-> IF d \notin done THEN @[d]
                                            ELSE IF w.tabs[d] = "open" THEN "loaded" ELSE "failed"]]

First(S, n) == {d \in S : Cardinality({e \in S : e < d}) < n}

\* Ask for the trust of the next documents, at most two with those opening.
AskTrust(w) ==
    LET next == First({d \in Docs : w.queue[d] = "awaiting"}, 2 - Cardinality(w.opening))
    IN  IF "resolve" \in w.tickets \/ next = {} \/ ~CanSubmit(w) THEN w
        ELSE Submit(w, "resolve", "resolve", next)

\* `next_open`: in order, never past a document whose trust is undecided.
OpenReady(w) ==
    LET ahead == {d \in Docs : w.queue[d] = "awaiting"}
        ready == {d \in Docs : w.queue[d] = "ready" /\ \A e \in ahead : d < e}
        open  == First(ready, 2 - w.flight)
    IN  [w EXCEPT !.queue = [d \in Docs |-> IF d \in open THEN "loading" ELSE @[d]],
                  !.flight = @ + Cardinality(open), !.opening = @ \cup open,
                  !.tabs = [d \in Docs |-> IF d \in open /\ @[d] # "open" THEN "loading" ELSE @[d]]]

\* `launch_pump`: after the restore, files not open and not already opening.
OpenLaunches(w) ==
    IF ~Settled(w) THEN w
    ELSE LET go == {d \in w.launch : w.tabs[d] # "loading"}
         IN  [w EXCEPT !.launch = @ \ go,
                       !.tabs = [d \in Docs |-> IF d \in go /\ @[d] # "open" THEN "loading" ELSE @[d]]]

\* Faulty variant: an exit does not look at what changed meanwhile.
UnchangedUnchecked(w) == TRUE

\* `exit_unchanged`.
ExitUnchanged(w) == ~IoBusy(w) /\ Editors(w) = w.snaps

\* The session saved for an exit: exit, unless something changed meanwhile or
\* a launch was acknowledged meanwhile (`ready` is FALSE then).
ExitsNow(w, ready) ==
    /\ Reply(w, "save").there /\ Reply(w, "save").ok /\ w.exit
    /\ ExitUnchanged(w) /\ ready

TakeSaved(w) ==
    IF ~Reply(w, "save").there THEN w
    ELSE [Taken(w, "save") EXCEPT !.exit = FALSE, !.failed = @ \/ ~Reply(w, "save").ok]

(***************************************************************************)
(* Ends of the process                                                      *)
(***************************************************************************)
Gone(how, w) ==
    /\ up' = FALSE /\ worker' = "idle" /\ win' = NewWindow
    /\ leave' = [how |-> how, open |-> {d \in Docs : w.tabs[d] = "open"},
                 reviewed |-> how # "saved" \/ Editors(w) = w.snaps]

Running == up /\ ~win.ending
Other == UNCHANGED <<disk, history, runs>>
Stays == UNCHANGED <<up, leave>>

\* What a restore promises.  A session.json that cannot be read takes from the
\* promise what the previous generation does not list, all of it when that one
\* cannot be read either: the user is told.
PromiseAfterLoad ==
    LET r == Reply(win, "load")
    IN  IF ~r.there THEN promise
        ELSE IF ~r.ok THEN {}
        ELSE IF r.recovered THEN promise \cap r.docs
        ELSE r.docs

Pump ==
    /\ Running /\ win.started
    /\ promise' = PromiseAfterLoad
    /\ \E a \in {TakeLoaded(win)} : \E b \in {TakeResolved(a)} : \E c \in {TakeOpened(b)} :
       \E e \in {AskTrust(c)} : \E f \in {OpenReady(e)} : \E w \in {OpenLaunches(f)} :
       \E ready \in BOOLEAN :
         IF ExitsNow(w, ready) THEN Gone("saved", w)
         ELSE win' = TakeSaved(w) /\ UNCHANGED worker /\ Stays
    /\ Other

(***************************************************************************)
(* The user and the rest of the program                                     *)
(***************************************************************************)
Does(w) == win' = w /\ UNCHANGED worker /\ Stays /\ Other

FirstFrame ==
    /\ Running /\ ~win.started
    /\ Does(Submit([win EXCEPT !.started = TRUE], "load", "load", {})) /\ UNCHANGED promise

OpenFile(d) ==
    /\ Running /\ win.started /\ ~win.exit /\ win.tabs[d] \in {"closed", "failed"}
    /\ win.asked < scene.asks
    /\ Does([win EXCEPT !.tabs[d] = "loading", !.asked = @ + 1]) /\ UNCHANGED promise

\* The file lane is done with d, or the user cancelled it.
FileOpened(d) ==
    /\ up /\ win.tabs[d] = "loading"
    /\ \E t \in {"open"} \cup IF MayFail("open") THEN {"failed", "closed"} ELSE {} :
         Does([win EXCEPT !.tabs[d] = t])
    /\ UNCHANGED promise

\* Another launch hands a file over; an exit under way turns it away.
Forward(d) ==
    /\ Running /\ win.started /\ ~win.exit /\ d \in scene.launch /\ win.tabs[d] = "closed"
    /\ win.asked < scene.asks
    /\ Does([win EXCEPT !.launch = @ \cup {d}, !.asked = @ + 1]) /\ UNCHANGED promise

CloseTab(d) ==
    /\ Running /\ ~win.exit /\ win.tabs[d] \in {"open", "failed"}
    /\ Does([win EXCEPT !.tabs[d] = "closed", !.queued = @ \ {d}]) /\ promise' = promise \ {d}

\* Typed, replaced, followed or run by an extension: not all of it is input
\* that an exit under way refuses.
Edit(d) ==
    /\ Running /\ win.tabs[d] = "open" /\ win.content[d] < scene.edits
    /\ Does([win EXCEPT !.content[d] = @ + 1]) /\ UNCHANGED promise

\* `request_close_now`, with every unsaved document answered for.
RequestClose ==
    /\ Running /\ ~win.exit /\ ~IoBusy(win)
    /\ \/ /\ win.failed \/ ~Settled(win)
          /\ Gone("unsaved", win)
       \/ /\ ~win.failed /\ Settled(win) /\ win.asked < scene.asks /\ CanSubmit(win)
          /\ win' = [Submit(win, "save", "save", Capture(win)) EXCEPT
                       !.exit = TRUE, !.snaps = Editors(win), !.asked = @ + 1]
          /\ UNCHANGED worker /\ Stays
       \/ /\ ~win.failed /\ Settled(win) /\ ~CanSubmit(win)
          /\ win' = [win EXCEPT !.failed = TRUE]
          /\ UNCHANGED worker /\ Stays
    /\ Other /\ UNCHANGED promise

(***************************************************************************)
(* Named sessions                                                           *)
(***************************************************************************)
NamedIdle == Running /\ win.named = "none" /\ Settled(win) /\ win.asked < scene.asks /\ CanSubmit(win)

SaveNamed ==
    /\ NamedIdle
    /\ Does([Submit(win, "named", "export", Capture(win)) EXCEPT !.named = "writing", !.asked = @ + 1])
    /\ UNCHANGED promise

LoadNamed ==
    /\ NamedIdle /\ ~win.exit
    /\ Does([Submit(win, "named", "import", {}) EXCEPT !.named = "reading", !.asked = @ + 1])
    /\ UNCHANGED promise

\* `session_named_pump`: a session that was read closes the open documents
\* first, each of which may refuse; then it is restored like the previous one.
NamedPump ==
    /\ Running
    /\ \/ /\ win.named \in {"reading", "writing"} /\ Reply(win, "named").there
          /\ IF win.named = "reading" /\ Reply(win, "named").ok /\ Reply(win, "named").docs # {}
             THEN Does([Taken(win, "named") EXCEPT !.named = "closing", !.queued = HasTab(win)])
             ELSE Does([Taken(win, "named") EXCEPT !.named = "none"])
          /\ UNCHANGED promise
       \/ /\ win.named = "closing"
          /\ \/ Does([win EXCEPT !.named = "none", !.queued = {}]) /\ UNCHANGED promise
             \/ /\ win.queued = {}
                /\ Does([Install(win, scene.named) EXCEPT !.named = "none", !.opening = {}, !.flight = 0])
                /\ promise' = {}

(***************************************************************************)
(* The end of the desktop session                                           *)
(***************************************************************************)
\* `session_end_write`: guarded like an exit, and the window thread waits.
SessionEnds ==
    /\ Running /\ MayFail("end") /\ win.asked < scene.asks
    /\ LET w == [win EXCEPT !.ending = TRUE, !.asked = @ + 1]
       IN  Does(IF Settled(win) /\ CanSubmit(win) THEN Submit(w, "end", "save", Capture(win)) ELSE w)
    /\ UNCHANGED promise

\* The answer came, none was asked for, or the deadline passed, which cancels
\* the job if it still waits.  A logoff may be called off; a signal ends the
\* process.
SessionEnded ==
    /\ up /\ win.ending
    /\ "end" \notin win.tickets \/ Reply(win, "end").there \/ MayFail("late")
    /\ \E w \in {[Taken(win, "end") EXCEPT !.ending = FALSE,
                    !.jobs = [i \in DOMAIN @ |-> IF @[i].ticket = "end"
                                                 THEN [@[i] EXCEPT !.live = FALSE] ELSE @[i]]]} :
         \/ win' = w /\ UNCHANGED worker /\ Stays
         \/ Gone("signal", w)
    /\ Other /\ UNCHANGED promise

(***************************************************************************)
(* The worker                                                               *)
(***************************************************************************)
Job == Head(win.jobs)
Working(kinds) == up /\ worker = "busy" /\ Job.kind \in kinds

WorkTake ==
    /\ up /\ worker = "idle" /\ win.jobs # <<>>
    /\ worker' = "busy"
    /\ UNCHANGED win /\ Stays /\ Other /\ UNCHANGED promise

\* The head job is done: its reply goes to the ticket, if that is still held.
Answer(r) ==
    /\ win' = [win EXCEPT !.jobs = Tail(@), !.replies[Job.ticket] =
                 IF Job.live /\ Job.ticket \in win.tickets THEN r ELSE @]
    /\ worker' = "idle"
Answered(ok, S, refused) ==
    [docs |-> S, refused |-> refused, ok |-> ok, recovered |-> FALSE, there |-> TRUE]

\* What `load` answers to what it met.
Loaded(seen) ==
    [Answered(Readable(Load(seen)), Load(seen).docs, {}) EXCEPT !.recovered = StandsIn(seen)]

WorkRead ==
    /\ Working({"load", "import"})
    /\ \/ Job.kind = "load" /\ \E seen \in Seen(disk) : Answer(Loaded(seen))
       \/ Job.kind = "import" /\ Answer(Answered(TRUE, scene.named, {}))
       \/ Job.kind = "import" /\ MayFail("read") /\ Answer(Answered(FALSE, {}, {}))
    /\ Stays /\ Other /\ UNCHANGED promise

\* The worker stops before an answer only with the process: a release build
\* aborts when a thread panics.
WorkResolve ==
    /\ Working({"resolve"})
    /\ \E refused \in IF MayFail("trust") THEN SUBSET Job.docs ELSE {{}} :
         Answer(Answered(TRUE, Job.docs \ refused, refused))
    /\ Stays /\ Other /\ UNCHANGED promise

WorkExport ==
    /\ Working({"export"})
    /\ \E ok \in BOOLEAN : Answer(Answered(ok, {}, {}))
    /\ Stays /\ Other /\ UNCHANGED promise

WorkCancelled ==
    /\ Working({"save"}) /\ ~Job.live
    /\ Answer(Answered(FALSE, {}, {}))
    /\ Stays /\ Other /\ UNCHANGED promise

\* `save`, first half: keep the current generation, if it can be read, as the
\* previous one.
WorkPrevious ==
    /\ Working({"save"}) /\ Job.live
    /\ \/ worker' = "kept" /\ disk' = KeepPrevious(disk) /\ UNCHANGED win
       \/ MayFail("read") /\ worker' = "kept" /\ UNCHANGED <<disk, win>>
       \/ /\ MayFail("write") /\ disk' \in {disk, KeepPrevious(disk)}
          /\ Answer(Answered(FALSE, {}, {}))
    /\ Stays /\ UNCHANGED <<runs, history, promise>>

\* `save`, second half.  A write may report a failure after its rename.
WorkPrimary ==
    /\ up /\ worker = "kept"
    /\ \/ /\ disk' = [disk EXCEPT !.primary = Whole(Job.docs)]
          /\ history' = Append(history, Job.docs)
          /\ \E ok \in {TRUE} \cup IF MayFail("write") THEN {FALSE} ELSE {} :
               Answer(Answered(ok, {}, {}))
       \/ /\ MayFail("write") /\ UNCHANGED <<disk, history>>
          /\ Answer(Answered(FALSE, {}, {}))
    /\ Stays /\ UNCHANGED <<runs, promise>>

(***************************************************************************)
(* Death, restart and the medium                                            *)
(***************************************************************************)
Crash ==
    /\ up /\ MayFail("stop")
    /\ Gone("crash", win) /\ Other /\ UNCHANGED promise

Restart ==
    /\ ~up /\ runs < scene.runs
    /\ up' = TRUE /\ runs' = runs + 1
    /\ UNCHANGED <<disk, worker, win, history, promise, leave>>

Damage ==
    /\ MayFail("damage") /\ ~up /\ disk.primary.kind = "whole" /\ disk.primary.docs # {}
    /\ \E g \in [kind : {"salvaged"}, docs : SUBSET disk.primary.docs]
               \cup {Bad} :
         disk' = [disk EXCEPT !.primary = g]
    /\ UNCHANGED <<worker, win, up, runs, history, promise, leave>>

Step ==
    \/ FirstFrame \/ Pump \/ RequestClose \/ SaveNamed \/ LoadNamed \/ NamedPump
    \/ SessionEnds \/ SessionEnded
    \/ \E d \in scene.docs : OpenFile(d) \/ FileOpened(d) \/ Forward(d) \/ CloseTab(d) \/ Edit(d)
    \/ WorkTake \/ WorkRead \/ WorkResolve \/ WorkExport \/ WorkCancelled \/ WorkPrevious \/ WorkPrimary
    \/ Crash \/ Restart \/ Damage

Next == Step /\ UNCHANGED scene

Spec == Init /\ [][Next]_vars

\* The worker wakes the window thread after every job, the file lanes finish
\* what they open, and the event loop pumps after every wake.
FairSpec ==
    /\ Spec
    /\ WF_moving(FirstFrame) /\ WF_moving(Pump) /\ WF_moving(SessionEnded)
    /\ WF_moving(WorkTake \/ WorkRead \/ WorkResolve \/ WorkExport \/ WorkCancelled \/ WorkPrevious \/ WorkPrimary)
    /\ \A d \in Docs : WF_moving(FileOpened(d))

(***************************************************************************)
(* Correctness                                                              *)
(***************************************************************************)
\* The state has the shape the definitions above give it.
TypeOK ==
    /\ disk \in [primary : Generation, previous : Generation]
    /\ worker \in {"idle", "busy", "kept"} /\ up \in BOOLEAN /\ runs \in 0 .. scene.runs
    /\ promise \subseteq Docs
    /\ win.tickets \subseteq Tickets /\ win.opening \subseteq Docs /\ win.flight \in 0 .. 2
    /\ Len(win.jobs) <= scene.capacity + 1

\* A file the previous session listed, and the user did not close, is listed
\* whenever the process dies: not the partial restore, not the launch files,
\* not a file that failed to open and not the fallback to the previous
\* generation replace it.  What only an unreadable session.json listed is not
\* promised, see PromiseAfterLoad, nor what damage takes (session.rs
\* restore_settled, session_before_exit, session_end_write, capture_session).
NothingForgotten == ~MayFail("damage") => promise \subseteq Load(disk).docs

\* An exit that saved the session listed every file that was open, however
\* long the worker took: a file opened, and text typed, after the close was
\* asked for call the exit off (session.rs session_pump and exit_unchanged).
ExitSavedWhatIsOpen ==
    (leave.how = "saved" /\ ~up) =>
      leave.reviewed /\ (disk.primary.kind = "whole" => leave.open \subseteq disk.primary.docs)

\* session.json.previous is never what is left of a damaged session: it is a
\* generation that was saved whole, and when session.json was never damaged nor
\* unreadable it is one of the last two, so that losing session.json costs at
\* most one save (file-io session/mod.rs SessionStore::save and load).
LostPrimaryFallsBack ==
    LET back == Load([disk EXCEPT !.primary = Bad])
        n    == Len(history)
    IN  /\ Readable(back) => back.docs \in Range(history)
        /\ (n >= 2 /\ ~MayFail("damage") /\ ~MayFail("read")) =>
             Readable(back) /\ back.docs \in {history[n], history[n - 1]}

\* A restore settles: until it does no exit saves the session and no launch
\* file opens (session.rs session_restore_pump).
RestoreSettles == win.started ~> (Settled(win) \/ ~up)
===============================================================================

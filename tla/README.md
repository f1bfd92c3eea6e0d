# Formal models of Bareline

Bareline is a desktop text editor in Rust. Losing what a user typed, or what
another program wrote, is the worst thing it can do, so this project models the
code that decides it: how file requests are ordered, how a save and a replacement
reach the disk, how undo history and edits are scheduled, how unsaved text
survives a crash, and how launches and sessions hand files on. Every module is
TLA+, checked with TLC on small instances; the theorems listed in section 4 are
proved with TLAPS for every value of the constants.

## 1. Inventory

### The parts, their state and their operations

| Part | Code | State | Operations |
|---|---|---|---|
| File I/O lanes | `file-io/lifecycle.rs` `IoService`, `Lanes`, `LaneState` | two bounded queues, the unfinished requests and their ordering keys, `started`, `closed` | submit, take, yield a transcode slice, finish, idle exit, unwind, close |
| Save transaction | `lifecycle.rs` `save_bytes`, `sweep_dead_stages`, `inspect_save_recovery`; `platform-posix/transaction.rs` | the target, stage files, `.bareline-save-*` folders with manifest, editor version, displaced version, state records, authority | prepare, commit (exchange, rename, in place, create), verify, clean up, abort, sweep, reclaim, resume |
| Resident checkpoints | `resident_recovery.rs` | two journal directories, generations, paths to retire, jobs in flight, shared status | observe, retry, note a path change, discard, resume |
| Recovery journal | `recovery/`, `recovery_seal.rs` | records with checksums, watermark, manifest, a seal | append, poison, checkpoint, scan, replay, discard |
| Paged recovery | `paged_recovery.rs`, `paged_group_recovery.rs`, `paged_service.rs` | baseline, roots and their deltas, pointer, group markers, claims on directories | create, prepare a baseline, append, defer, flush, commit a transfer, retire, sweep, restore |
| Retirement queue | `recovery_retirement.rs` | tickets, cleanup holds | retire, hold, purge |
| Document core | `document/lib.rs`, `history.rs`, `group.rs` | content, revision, undo and redo stacks, saved state, shared history budget | edit, undo, redo, link, trim, evict, mark saved |
| Document scheduler | `document/service.rs` | mailboxes, ready queue, workers, retired actors | submit, serve a quantum, run a group, apply a policy, retire, revive, close |
| Replace in Files | `search/replace_disk.rs`, `shell/search/replace.rs` | per-file records in a receipt, backups, file admission | apply, cancel, reconcile, roll back, list, delete |
| Single instance | `platform-posix/instance.rs`, `ipc.rs` | lock, socket, prepared and committed handoffs | elect, connect, prepare, commit, drain, quiesce, exit |
| Session | `file-io/session`, `app/session_service.rs`, `session_ui.rs`, `shell/session.rs` | two generations of `session.json`, restore queue, launch files | restore, save, review an exit, load a named session, end at logoff |
| Owned cache and store | `owned_cache.rs`, `owned_store.rs`, `platform-posix/cache.rs` | entries, leases | acquire, sweep |
| Tail and watch | `tail.rs`, `platform-linux/watch.rs` | position, identity, rotation | poll, truncate, rotate |
| Codecs | `file-io/codecs` | decoder state between chunks | decode, encode |
| Settings, keymaps | `settings` | merged configuration | load, write |
| Workspace | `app/workspace.rs`, `task.rs` | tabs, pending operations | open, close, save, reload |
| Extensions | `extensions-protocol`, `apps/extension-host` | sessions, budgets | invoke, time out |
| Updates | `distribution`, `apps/update-helper` | staged release, trust | verify, install, roll back |
| Diff, syntax, surface, UI, renderers, adapters | their crates | geometry, tables | pure work or calls to the desktop |

### How they interact

The user interface thread sends edits to a document's actor, whose mailbox the
document workers serve, and file requests (open, save, reload, transcode) to
`IoService`, which queues them in one of two lanes; both answer over channels. A
save captures a content state of the document, runs `save_bytes` in the save
lane's worker, and when it has finished tells the view and, through the mailbox,
the document which state is clean. `save_bytes` asks the platform for a
transaction folder beside the target, and the next start's
`inspect_save_recovery` reads whatever a crash left in such folders. Replace in
Files uses the same platform transactions from its own worker and holds file
admission while it does, so that no document opens on a half-replaced file.

For each dirty document the UI thread calls `observe` on its resident checkpoint,
or, for large files, appends to its paged journal; recovery, baseline and
retirement workers run beside it and share a status record. A start reads the
session, hands its files to a running owner or becomes the owner, restores the
listed files through the lanes and keeps the session up to date until it exits.
Other programs write the same files at any moment, and a second Bareline may be
running.

### What is hard

- Two lanes must keep the order of requests on one file with no common queue, and
  "one file" is an overlap of names that is not transitive.
- A condition variable is shared by both workers and by every caller; the document
  workers have another, and are started on demand.
- The destination is checked and then replaced; between the two another program
  may write, replace or delete it.
- A crash may fall between any two system calls of a save, a replacement, a journal
  append or a group commit, and the next start acts on what is left.
- A checkpoint must be on disk before the one it replaces goes, while jobs,
  retirements, cancellation and a discard overlap.
- Linked edits of several documents must move together while each document's
  history is merged, trimmed and evicted on its own, by other workers too.
- A launch and an owner both act on deadlines, and each must know what the other
  decided.
- A session is captured at one moment and written at a later one, while files open.

`PROJECT.json` lists each of these as a hazard at its line with the properties
that would catch it.

### What makes each part correct

- Lanes: requests on a file keep their order; nobody sleeps over work; everything
  accepted completes.
- Save: no version is destroyed that the user did not approve replacing; two saves
  never silently overwrite each other; whatever a crash leaves is listed with its
  bytes complete, or removed.
- Checkpoint: the newest checkpointed text stays durable until the document is
  clean or discarded; a discard leaves nothing; a wait for it ends.
- Journal: what was acknowledged restores; a transfer restores in all its
  documents or in none; no batch waits for ever.
- History: it behaves like a line of versions with a cursor; clean means on disk;
  linked edits move together.
- Scheduler: requests take effect in order, groups overtake nothing, a retired
  document does not change, everything accepted is answered.
- Replace in Files: what a job changed can be restored, its receipt tells the truth,
  and what other programs write meanwhile is kept.
- Single instance: one owner; each launch's files are opened by one process.
- Session: a listed file is forgotten only when the user closes it.

## 2. Modules and the code they model

| Module | Models | Run with |
|---|---|---|
| `IoLanes` | the two lanes of `IoService` | `MCIoLanes` |
| `IoLanesProofs` | theorems about `IoLanes` | `tlapm` |
| `SaveTransaction` | one save from stage to cleanup, and the next start | `MCSaveTransaction` |
| `SaveTransactionProofs` | theorems about `SaveTransaction` | `tlapm` |
| `ResidentCheckpoint` | crash checkpoints of a resident document, and their discard | itself |
| `ResidentCheckpointProofs` | theorems about `ResidentCheckpoint` | `tlapm` |
| `PagedJournal` | recovery journals of paged documents, on disk and in memory | `MCPagedJournal` |
| `EditTimeline` | abstract: what undo and redo promise | refined by `DocumentHistory` |
| `DocumentHistory` | undo history of several documents on one budget, and save points | itself |
| `DocumentHistoryProofs` | theorems about `DocumentHistory`, and its refinement of `EditTimeline` | `tlapm` |
| `DocumentScheduler` | mailboxes, ready queue and workers of the documents | itself |
| `DocumentSchedulerProofs` | theorems about `DocumentScheduler` | `tlapm` |
| `ReplaceInFiles` | one Replace in Files job, its receipt and its backups | itself |
| `ReplaceInFilesProofs` | theorems about `ReplaceInFiles` | `tlapm` |
| `SingleInstance` | election and handoff between launches | `MCSingleInstance` |
| `SingleInstanceProofs` | theorems about `SingleInstance` | `tlapm` |
| `SessionLifecycle` | the session over the runs of the program | `MCSessionLifecycle` |
| `SessionLifecycleProofs` | theorems about `SessionLifecycle` | `tlapm` |

`PROJECT.json` maps each definition to its lines. Operators whose comment begins
with "Faulty variant" are not part of a specification: each is a plausible bug,
put in place of the definition it precedes to show that a property would notice.

### IoLanes

`queues`, `unfinished`, `next_sequence`, `started` and `closed` are the fields of
`LaneState`, all guarded by one mutex; `request` has the lane and the ordering keys
of each accepted request, `pc` and `job` where each worker thread is in
`Lanes::run` and what it runs, `caller` who still has to notify. One action is one
critical section, or the notification after it: the code unlocks before it
notifies, and another thread may run in between. What a request computes is one
step (`Finish`), except a transcode, which may `Yield` and is requeued by the
critical section that follows its slice. A panic unwinds through `Running::drop`
(`Panic`, `DyingNotify`). `unwound` is a history variable that no guard reads: the last
worker of this lane unwound, and nothing has been submitted since. Only such a lane may
have work and no worker (`AwaitsSubmission`); a worker that leaves work behind when it
exits idle or at the close breaks `NoStrandedRequest`. Ordering keys are a folded name and a directory; a root
overlaps every directory, which is why the overlap is not transitive. A timed wait
of the idle save worker is `WaitEnds`, possible at any moment.

### SaveTransaction

A node is a file's identity and `content` its bytes, so that a rename moves a
node and a rewrite changes one. `names` is what the folder's names hold: the
target, each save's stage, displaced version and kept copy; `entry` how much of
each file of a transaction folder is on disk. One action is one system call (or
a run of calls that nothing can separate for the properties), in the order of
`save_bytes`, `prepare`, `commit` with its three strategies, `Cleanup::cleanup`
and `abort`. `Crash` ends a process between any two; `Inspect` is the next
start's sweep, reclaim and listing; `RetryResumed`, `ResumedUnlink` and
`ResumedEnds` its resumed cleanup. Other programs replace, write or delete the
target at any moment. A call of an undo may fail like any other: the swap back, the
rename that puts the displaced version back, and the one that keeps the stage for the
report (`SwappedBack`, `PutBack`, `Kept`). `Exit` ends a process that has reported, after
which a later save sweeps a stage that could not be renamed, although
`lifecycle.rs:1163` says a kept stage is never swept. A version is *reachable* while a name, a displaced version
or a whole editor version holds it.

### ResidentCheckpoint

`ui` has the fields of `ResidentRecovery` with their names; `status` the shared
`PagedRecoveryStatus`; `disk` what each journal directory holds: nothing, a
directory without a manifest ("bare"), a journal with its last durable root and
whose baseline it has, or one under a tombstone. A call of `observe` is one
action: it polls both channels, collects what is obsolete, spares the live
directory and then queues a retirement, returns, queues an append or queues a
full copy (`ObserveRetire`, `ObserveOnly`, `ObserveAppend`, `ObserveFull`). The
worker's job is cut where the disk or the status is seen by somebody else:
clear, create, append a root; retire one path at a time. The baseline worker
copies, then attaches. A journal (`PagedRecovery`) lives while a field, a job, a
reply or a ticket holds it; dropping it cancels its baseline and gives back its
directory. A discard moves everything to a ticket that drains the jobs, writes
tombstones and purges. Revisions and content states are one number that grows
with each edit; undo to an earlier content state is not distinguished from a new
one. The owned store's size is not kept: a full copy is possible wherever an
append is.

### PagedJournal

A directory on `disk` has the log of records (`journal`), its durable `watermark`,
the `baseline` and whether the manifest names it, one receipt and recipe per
journaled revision, the append-only `stores` of owned text, the `pointer` to the
newest root and the newest group intent; `marks` are the markers that commit
transfers. `mem` is a document and its `PagedRecovery`: what is published, what was
acknowledged, a deferred batch, whether the writer is poisoned. An append holds the
writer lock from end to end, so it is one action with a parameter that says how far
it came (record, receipt, pointer, manifest) before it succeeded, failed or died
with the process. Typed edits are published and then journaled, or deferred;
streamed edits are journaled first; undo and redo are journaled and published
whatever the journal says. `CopyBaseline`, `PublishSource` and `AttachBaseline` are
the baseline worker; `GroupPrepare`, `GroupRefused`, `GroupContinue` and
`GroupMark` a transfer, between whose steps that worker runs. `Restore` is the
function the next process computes from `disk` and `marks`: the pointer's root, a
committed group's root, a delta's chain, and the log behind it.

### EditTimeline and DocumentHistory

`EditTimeline` says what a user may expect of undo and redo: versions in the past,
one shown, versions in the future; history is forgotten only from its ends, and
the only version that vanishes from the middle is one the same run of typing
extends, never one a save pinned. `DocumentHistory` is the code: `doc[d]` the
fields of `Document` and `HistoryStack`, with entries that carry their versions,
cost, typing run and group tag; `job[d]` the mutation a worker runs under the
document's lock. A mutation begins (validation), relieves the shared budget by
evicting the oldest history of whichever documents can be locked, commits or gives
up its entry, and may find the room taken by another worker. Group edits lock their
members and charge them one by one. `save` and `view` are the save in flight, the
views' clean state, and the typing boundary that `seal_history` moves; a split
window has two views and its history moves between them.

### DocumentScheduler

`mailbox[d]` and `ready` are the code's `Mailbox` and `ReadyState`; `pc`, `work`,
`served` and `locked` where each worker is in `run_worker`. What is done under the
mailbox and ready locks is one step; the actor's own lock is held over steps. A
submission schedules the actor once, admits its work, starts a worker if the idle
ones are all promised, and notifies. A worker serves up to a quantum, then yields
or unschedules under both locks. Group edits lock members in order, check each one
against the snapshot their caller saw, and commit all or nothing. `MigrateSpill`
retires an actor and `CancelSpill` revives it.

### ReplaceInFiles

A file is the reviewed text, the job's output, somebody else's text, a restore gone
wrong, half rewritten, or gone. `rcpt` is the receipt on disk and `mem` the worker's copy of it;
each file's record walks through the states of `ReceiptState`. Each step of the
apply is a step here: review, back up, stage, save, classify an uncertain outcome
by hash, record; likewise for the rollback. Both end in the same save, which is an
abstraction of `SaveTransaction` with the same step names: `Save` checks the target,
`Exchange`, `MoveAside` and `CopyPrevious` take whatever it holds by then (`held`),
`PublishStage` and `Rewrite` finish the replacement, `SwapBack`, `PutBack` and
`RewriteFails` undo it or fail to, and `Verify` compares what was displaced. A save
that ends otherwise than verified leaves a foreign version beside the target
(`beside`): in its transaction or its stage, of which `SaveTransaction` shows that
they stay. A crash drops everything but `disk`,
`bak` and `rcpt`; the next start lists jobs and reconciles records it cannot trust.
Documents load beside the worker and wait for its file admission.

### SingleInstance

`lock` and `socket` are the two files of the scope, `chan[c]` the connection launch
`c` made, `queue` and `reserved` what an owner has to open or may have to, `age`
the ticks of its budget a launch has used. A launch locks, or connects and walks
through request, PREPARED, COMMIT, DONE; the owner's worker for that connection
does the same with its own, longer, deadline. An exit quiesces: it refuses new
handoffs, waits for those reserved, and takes the queue back if anything came in.
Only then does it remove its socket and release its lock. `ExitAtOnce` is the exit
that does not quiesce, at the end of the desktop session or when the shell fails;
its server is dropped with what it holds, and a worker that waits is interrupted.
`Reject` is a drained request that the launch queue or a missing workspace turns
down.

### SessionLifecycle

`disk` has the two generations of the session file, each absent, whole, salvaged or
undecodable; `win` the window thread's `SessionRuntime`, workspace and tickets;
`worker` the session worker's place in its queue. `Pump` is one pass of
`session_pump` and `session_restore_pump`: it takes what the worker answered, opens
at most two restored files at a time, lets launch files in when the restore has
settled and goes on with an exit. A save keeps the current generation first, if it
is whole (`WorkPrevious`), and then replaces it (`WorkPrimary`). A load that cannot
read one generation takes the other (`Seen`, `Load`). `Damage` is the medium's doing
between two runs.

## 3. What the runs check

| Run | Question | Result |
|---|---|---|
| `lanes` | Do requests on one file keep their order in both lanes, is none lost or stranded, does nobody sleep over work, does everything accepted complete? | holds; completion under fairness |
| `save_file` | Is anything lost by two saves of one file, alone or racing, by any strategy, with crashes, failing calls, foreign writes and resumed cleanups? | holds, with the named exceptions below |
| `checkpoint_safety` | Does the newest checkpointed text stay durable, the status speak for the current journal, a discard leave nothing? | holds |
| `checkpoint_settles` | Does a wait for a settled checkpoint end, or show an error? | holds, under fairness |
| `checkpoint_restorable` | Can a settled checkpoint be restored? | violated (finding) |
| `history` | Is a clean document's text on disk, do linked edits move together, does no undo wait in vain, does the history implement `EditTimeline`? | holds |
| `scheduler` | Do requests take effect in order, groups overtake nothing, retired documents stay frozen, is everything answered? | holds; answers under fairness |
| `instance_handoff` | Are a launch's files opened by one process, is a commit read, does one process own the scope? | holds |
| `instance_decides` | Does every launch own, hand over or open its files itself? | holds, under fairness |
| `replace` | Can what a job changed be restored, does its receipt tell the truth, is others' text kept, is every document that waits for file admission exposed? | holds; admission under fairness |
| `journal` | Does what was acknowledged restore, also by the fallback, is a transfer all or nothing, does a deferred batch settle? | holds; settling under fairness |
| `session` | Is a listed file ever forgotten, does a saved exit have what is open, does a lost generation fall back, does every restore settle? | holds; settling under fairness |

`ImplementsTimeline` is the refinement: `DocumentHistory` instantiates
`EditTimeline` once per document with a mapping from its stacks to past, present
and future, and the abstract specification is a property of the run.

The comment of each property says which code it is about. Besides the properties
of the runs, the modules state some that were checked while the modules were
written, and that the runs leave out because another property or a theorem covers
them: the type invariants; `CurrentRecordsPath`, `TargetNeverOwned` and
`PurgeSparesLive` (checkpoints); `ListedEditorWhole` and `WorkingTransactionIntact`
(both proved) and `CancelledLeavesNothing` (saves); `HistoryChains`, `SavePointReachable` and
`BudgetRespected` (history); `ScheduledOnce`, `SlotsAwaited`, `WorkIsPromised` and
`LatestPolicyHolds` (scheduler); `OfferedBackupExists` and `OpenDocumentUntouched`
(replace, both proved); `NamedBaselineStays` and `GroupEnds` (journal);
`LaneHoldsDepthPlusOne` and `WorkersEndAfterClose` (lanes).

### Exceptions written into properties

- `OnlyApprovedVersionsGo` excepts bytes that another program writes into a file
  while it is rewritten in place (`WrittenUnderRewrite`, inherent in rewriting), and
  a displaced version under a dead process's stage name (`SweptAsStage`: the process
  died between the two renames of an exchange, or neither the swap back nor the rename
  that keeps the stage worked; the next start sweeps the stage).
  `ExchangeKeepsDisplaced` is the property without the second exception; it is false.
- `ForeignContentKept` has the same two exceptions (`OverwrittenInPlace`,
  `SweptAsStage`) for the saves of a Replace in Files job. A program that replaces a
  file under its name between an in-place save's copy and its rewrite is not in
  `ReplaceInFiles`: there every write in that window is overwritten.
- `ReportedFailureKeepsEdits` is about a failed commit, a conflict and a failed
  verification, while the reporting process runs. A save that reports "failed",
  "cancelled" or "deleted_outside" has dropped its stage: the edits are in the open
  document only.
- `NoLostUpdate` excepts two saves that both rewrite in place: there is no atomic
  step between one's check and the other's write. It is about replaced versions, not
  about saves that found no file, or a torn one: two saves of a new file may both
  succeed when a third moves the first's file aside between their commits (TLC finds
  this with three saves). The first's version is then what the third displaced.
  Failing calls among three saves are section 4's subject.
- `AcknowledgedRestorable`, `FallbackRestorable` and `GroupAllOrNothing` except an
  undermined marker (`Undermined`): a member's directory was swept after its document
  was saved, or an edit took the revision of a marker whose publication had reported a
  failure. Restore verifies every member, so it then fails for all of them. The first
  and the third also except a journal extended over a gap (`skipped`), and the first
  one that neither a pointer nor a group names. Up to that edit, a marker whose failure
  was reported does commit its group for every member.
- `NothingForgotten` is about a `session.json` that the medium did not damage. When it
  cannot be read, `load` falls back to the previous generation and tells the user; the
  files that only `session.json` lists are then not promised (`PromiseAfterLoad`), and
  the next save leaves them out.
- `CommitIsRead` excepts three ways in which the files of a launch that committed are
  not opened, and names each: the owner crashed; it exited at once (`abrupt`: a
  session end, or `Shell::fail` with no document open), which waits for nothing; or it
  turned the drained request down (`rejected`: more than 256 launch operations are
  outstanding, or no workspace can be made), with a message to its own user or an
  exit. An exit that the user asks for, a deadline or a successor loses none.
- `CommitIsRead` needs `PromptClients`: a launch that is held up between reading
  PREPARED and writing COMMIT can commit to an owner that has given up, for `ipc.rs`
  checks a deadline before it writes, not after. With `PromptClients = FALSE` TLC
  finds that behaviour.

### Findings, and where the code and its comments part

*A baseline reports to a status that no longer describes its journal* (listed in
`PROJECT.json`, run `checkpoint_restorable`). Journals of one document share a
status. A copy that lands after a newer journal has reset it sets `complete` for
that journal (`paged_recovery.rs:407`), so `settled` answers true before the newer
journal can be restored; its documentation (`resident_recovery.rs:166`) says "its
baseline copy has landed, since a journal restores only with it".

The models follow the code in the places below too, where a comment says something
else. Each has a property in its module that states the comment; TLC finds a
counterexample, but they have no run of their own.

- `ExitsSettled` (`SingleInstance`): a session end loses acknowledged launches. On
  Linux and macOS `session_end_pump` (`shell/session.rs:997`), like `Shell::fail`
  (`shell.rs:3473`), exits without asking `instance_exit_ready`. What the instance
  queue holds is lost although its launches were told DONE; the documentation of
  `quiesce` says "the owner may exit only when it is 0" (`instance.rs:247-250`).
- `CommittedEvidenceKept` (`PagedJournal`): a transfer that reported a failure may cost
  every member its recovery. A marker whose folder cannot be synced after the rename
  (`files.rs:307`) is on disk although the commit failed. The next edit of a member
  reuses the revision and removes the recipe the marker names, and restore, which
  verifies all members, fails for each; the documentation says a writer "cannot erase
  recoverable evidence" (`recovery/streaming.rs:798-799`).
- `ExchangeKeepsDisplaced` (`SaveTransaction`): `SaveStrategy::Transactional` is "One
  atomic replacement that keeps the displaced version" (`platform/lib.rs:73`); on
  POSIX it is two renames (`transaction.rs:492` and `:500`), see `SweptAsStage`.
- `SplitSavePointReachable` (`DocumentHistory`): a save seals the typing run of one
  view (`workspace.rs:3410`), so that in a split window typing in the other may merge
  into the text the save captured, which `seal_history` says never happens
  (`editor-surface/lib.rs:1472`).
- `GroupRefusalCostsNothing` (`DocumentHistory`): "a refused group edit costs no
  document its history" (`service.rs:587`); another document's worker may take the
  room between the relief and the charge, and the group is refused after evictions.
- `MovedPolicyHolds` (`DocumentScheduler`): a history limit that is configured while
  a document moves to large-file storage is skipped (`service.rs:384`) and not applied
  when the move is cancelled.
- `UnreconciledKept` (`ReplaceInFiles`): "Records still await reconciliation by hash;
  deleting would lose that answer" (`shell/search/replace.rs:260`); a job whose receipt
  could not be read is listed as if it had no such records (`:566`) and may be deleted.
- `PointerFailureFallsBack`, `GapNeverExtended`, `SurvivorRestorable`
  (`PagedJournal`): the claims of `paged_recovery.rs:530`, `paged_service.rs:543` and
  `paged_recovery.rs:698` on what a failing pointer, an unjournaled step and the end
  of another member's journal may cost. `AcknowledgedRestorable` and the other
  properties of the run name in their premises what they exclude.

### Bounds, and why they are enough

Every constant that bounds a counter is in a module's CONSTANTS with a comment
that says so. Some runs also bound *what happens together*, by an operator of its own.

- `lanes`: three requests of two kinds on overlapping keys reach a full lane (depth
  1, one running), both lanes waiting for one file, and an overlap of three files
  that is not transitive. Two thread slots per lane let a successor start while its
  predecessor unwinds; one slice makes a transcode yield, after which it is queued as
  any other request is. One panic is allowed, and excuses only the lane it happened in.
  The theorems remove these bounds.
- `save_file`: two savers are all that a lost update needs; two failures cover a
  failing call and its failing undo; two foreign writes cover one before and one
  after the commit. `Racing`, `MayRace` and `MayDisturb` let a save that is alone
  meet every disturbance, and two racing saves one of them (`RaceExternal`,
  `RaceCleanups`). Savers are symmetric.
- `checkpoint_*`: two edits give a current journal and a successor, and a restored
  journal a third; one append before the next full copy stands for 256; two faults
  with a retry reach each error path and a second failure while the first one's
  journals are held; two slots let a discard run beside its successor. `Less` and
  `MayDrop` take one edit and one fault from behaviours that also discard.
- `history`: a cost of 1 fits the limit of 7 several times, a cost of 7 once, so a
  linked edit evicts the other document's history and may be refused. `Alone` keeps
  a document on its own when saves or panes are under way; `ContentsUsed` and
  `CostsUsed` bind the values a behaviour uses.
- `scheduler`: two documents are all a group needs, two workers all a race needs; a
  quantum of one makes each worker yield after each request; `MayCall` bounds the
  calls by three in all (a request, a group and a move; two groups and a limit; ...).
- `instance_*`: three launches are an owner, its successor and the launch between
  them; one tick of Timeout and CommitWindow separates a launch's deadline from the
  owner's; one crash and one exit, quiesced or at once, each meet every step. Liveness
  takes two launches, as symmetry is not sound there, and two exits, so that an exit
  at once may follow one that began to quiesce.
- `replace`: two files make a job stop between them; `MayHappen` allows three of two
  edits, a failure and a crash, in any order: one edit between a
  save's check and its commit, another between its commit and its verification, and
  the failure or crash that leaves the save in the middle. A document that opens has
  one of them beside it (`MaxBeside`), which the temporal check affords.
- `journal`, `session`: a behaviour starts in one of the scenes of the MC module,
  which says what may happen in it: all that one document can meet; two transfers with
  failing records; one transfer in which every write fails or is the last; a marker
  that reports a failure; a member that is saved and swept; a transfer that waits
  (journal); two runs that restore, one that ends in each way, three over a damaged
  file, two that cannot read a generation (session).

### Fairness

Weak fairness of a thread's own steps, wherever the thread cannot be held up by
something that is not a step of the model: an operating-system thread runs.

- `lanes`: each worker's steps and each caller's notification. Nobody has to
  submit, close or panic.
- `checkpoint_settles`: `Observe` (the UI pumps it while it waits), the recovery
  worker, the baseline worker, each ticket. Nothing promises that a call succeeds.
- `scheduler`: each worker.
- `instance_decides`: each launch's client, worker and owner, and `Tick`: deadlines
  pass. A crash disables the steps of the crashed process.
- `replace`: the worker. The admission of a loaded document is strongly fair, for
  the thread that starts jobs is the one that tries the waiting documents again, so
  one is tried between two jobs however many the user starts.
- `journal`: the group worker's mark, each document's baseline worker, the steps of
  a transfer, and the flush of a deferred batch, which a timer drives.
- `session`: the pump, the first frame, the end of the desktop's session, the
  session worker and the opening of files (`IoLanes` shows that they complete).
  The user has to do nothing.

## 4. What is proved

The theorems below hold for every value of the constants that the named assumptions
of each module admit, and for unboundedly many steps: the bounds of the runs do not
limit them. Each rests on one inductive invariant, and TLC checked each invariant on
small instances before it was proved. A proof has one lemma per part of the invariant
or per group of actions, and under it one step per action.

| Module | Theorems | Property of a run |
|---|---|---|
| `IoLanesProofs` | `Inductive`; `TypeCorrect`, `SingleWorker`, `Conserved`, `FileOrder`, `WakeupKept`, `Served`, `DepthKept`, `GridlockFree` | `TypeOK`, `OneWorkerPerLane`, `SharedFileOrder`, `NoLostWakeup`, `NoStrandedRequest`, `LanesNeverGridlock` |
| `ResidentCheckpointProofs` | `Inductive`; `LatestStays`, `StatusIsTheCurrents`, `DiscardedGone` | `LatestCheckpointStays`, `StatusIsCurrents`, `DiscardedStaysGone` |
| `DocumentSchedulerProofs` | `Inductive`; `EffectsInOrder`, `GroupsWaitTheirTurn`, `MovedTextStays` | `AppliedInOrder`, `GroupNeverOvertakes`, `RetiredStaysFrozen` |
| `SaveTransactionProofs` | `Inductive`; `TypeCorrect`, `TornIsRecoverable`, `FailureKeepsEdits`, `InterruptedIsListed`, `ListedHasEdits`, `WorkingIsIntact`, `NoUpdateIsLost`, `OnlyApprovedGo` | `TornTargetRecoverable`, `ReportedFailureKeepsEdits`, `InterruptedCleanupListed`, `NoLostUpdate`, `OnlyApprovedVersionsGo` |
| `SingleInstanceProofs` | `Inductive`; `TypeCorrect`, `ServesAlone`, `NeverTwice`, `CommitNotLost` | `OneOwner`, `ActedOnOnce`, `CommitIsRead` |
| `ReplaceInFilesProofs` | `Inductive`; `ChangedFilesRecoverable`, `ReceiptTellsTheTruth`, `OthersTextIsKept`, `OfferedRollbackHasItsBackup`, `OpenFilesAreLeftAlone`, `TypeCorrect` | `OutputRecoverable`, `ReceiptTruthful`, `ForeignContentKept` |
| `DocumentHistoryProofs` | `Inductive`; `HistoryAlwaysChains`, `CleanAlwaysOnDisk`, `LinkedAlwaysMoveTogether`, `UndoIsNeverStuck`, `TimelineImplemented` | `CleanIsOnDisk`, `LinkedMoveTogether`, `UndoNeverStuck`, `ImplementsTimeline` |
| `SessionLifecycleProofs` | `Inductive`; `RestoredFilesAreKept`, `SavedExitIsComplete`, `PreviousStandsIn` | `NothingForgotten`, `ExitSavedWhatIsOpen`, `LostPrimaryFallsBack` |

### Lanes

The invariant `IndInv` has types; `WorkerInv` (a lane has at most one live worker,
and one exactly while `started`); every unfinished request is in exactly one place;
requests that share a file run only behind the earlier ones; a waiting worker with no
notification due has nothing runnable; and the depth bound. Order alone is not
inductive: a `Take` is only safe because the request it takes has no unfinished
predecessor, which needs conservation, and conservation needs that the worker which
finishes a request is the only one that has it. `GridlockFree` is not inductive at
all: it follows from conservation and order, since the oldest unfinished request is
never held (well-founded induction gives the oldest).

### Checkpoints

`LatestCheckpointStays` is about the disk alone, and nothing keeps it but what four
threads know of each other. `IInv` says what that is: a slot has one job under way or
one answer not yet received (`QueueInv`); what a retirement says it removed is gone and
stays so (`RemovedInv`); a slot has a ticket from its discard on, which leaves none of
its directories out, and once it has drained no job of the slot is left to make
another (`TicketInv`); the adopted journal is intact and in nobody's list until
`observe` gives it up (`AdoptedInv`). `Fits` joins the window to its slot: under a full
copy the current journal keeps the checkpoint and the job's directory is another one;
under an append the journal is in the job's hands and keeps it; a retirement lists
paths of neither; and the status describes the current journal, unless it shows an
error and nothing is being retired. The exception and its limit make
`StatusIsCurrents` inductive: a copy that failed half way leaves an error on a status
that already names its directory; but a retirement is only started without an error,
and whatever fails while it runs, its answer resets the status only of a directory it
removed, which the current journal's is not. The bounds in
`TypeOK` are not proved.

### Scheduler

`AppliedInOrder` speaks of the effects of a document, which a worker causes long
after it took the request out of the mailbox. So `IInv` says what a worker has in its
hands: `WorkInv` (at which step it serves which work), `LockInv` (an actor's lock is
held by one worker, through the steps that change the document), `ReadyInv` (an actor
that is scheduled is in the ready queue or with a worker, exactly once, so no two
workers serve one mailbox), `TakenInv` (a taken request is the oldest not applied),
`NumberInv` (requests and groups are numbered in the order of acceptance), `RetireInv`
(what a retired actor's mailbox may hold) and `OrderInv` (what was accepted is what
was applied, then what a worker holds, then the mailbox's queue; and each group's
snapshot of its members). `TypeOK`'s bounds on counters are not proved: they are
bounds of the model, and no property needs them.

### Single instance

`IInv` has `TypeOK`; `Connected` and `Unconnected` (what a launch's step says of its
connection); `OwnerInv` (who has the lock, the socket, both); `SlotsInv` (an owner's
reserved slots are its prepared handoffs, counted); `LeavingInv` (an owner that
settled stays settled: no handoff is prepared any more); `IdleInv` (no worker is left
once the socket went); `OnceInv` (one actor per launch) and `HoldsOwn`. `OneOwner` alone is not inductive: between the removal of a
socket and the release of the lock only the order of the exit's steps keeps a second
owner out. None of this needs prompt launches. `CommitNotLost` adds `WaitInv`, a
relation of the two sides' ages, and assumes `PromptClients`; what it does not promise
is in the property's own exceptions (section 3).

### Replace in Files

`Fits` says of one record how it fits the target, its backup, and what was published
and restored. What the properties need of the receipt on disk (`OnDisk`) only stays
true because the same is true of the worker's copy, which it persists next (`InMemory`),
and because of how far the worker has come at its file (`Progress`): a target is
replaced only under a record persisted as staged with its backup. `Admitted` says
that no document is open on the file at hand, `AtSave` what a running save may have
displaced: what it expected or another program's version. A save's steps preserve the
invariant by one lemma (`SaveStepKeeps`), for a save changes one target whose staged
record is the same on disk and in memory (`TargetFits`). `OthersTextIsKept` follows
two ways: what leaves a target is in hand or beside it (`TakenIsHeld`), and what is in
hand is handed on (`HeldIsHandedOn`).

### Session

`NothingForgotten` compares a file on disk with what the window knows, between which
lie a queue of saves and a worker. `IInv` says of every queued save what it has:
`PromiseInv` (nothing is saved before the previous session was read; then every
restored file is waiting, failed or open, so that whatever is captured has it) and
`ExitInv` (from a close to the answer of its save the documents it saw stay open, and
they are in its save and in every save behind it). `DiskInv` ties the generations to
the saves ever made, `LeftInv` the end of a run to its last answer.

### Document history

`IInv` says what a history is. `StackInv`: the two stacks of a document are one chain
of versions through the text it shows, ordered by when each was written, a group's tag
on one entry at most. `ContentInv`: a state is one content wherever an entry, a save or
the disk remembers it; that makes `CleanIsOnDisk` a matter of comparing numbers, as the
code does. `SealedInv`: typing never extends an entry that a save has captured. `JobInv`:
a worker that moves through the history still has the entry it moves, so eviction by
others spares it. `LinkInv`: linked entries are on the same side of all members, and an
entry of another group that is newer than one of them is newer than all. The last
clause is what `UndoNeverStuck` needs and no step states: the newest undo entry of all
documents is on top of its stack, and if it is linked, then so are its partners.

A step touches several documents (relief evicts from all a worker can lock, a group
move from each member), so every step is first described document by document:
a document forgets its oldest entries (`Pruned`), takes its top entry back or forward,
or puts one entry on top (`Evolves`). Each part of `IInv` is proved from that alone, and
so is the refinement: `Visible` says which documents moved, and `TimelineMoves` that
such a step is a step of `EditTimeline` under the mapping. The theorems assume
`ConstantsAssumption` only: any number of documents, any budget, limits and costs.

### Save transaction

Each property relates what one save left on disk to what any other save, a foreign
program or a later start does to the same names. `IInv` therefore first says what
nobody else can reach: a stage has no name but its own until it is published, and no
save has approved or is rewriting it (`StageInv`, `Hidden`); a file has one name
(`NodeInv`). `RecordInv` and `CleanupInv` say what a transaction folder holds at each
step, which is the order of the records: no record of success before the editor's copy
is whole, no version left without the records that list it. Together these give
`FailureKeepsEdits`, `InterruptedIsListed`, `ListedHasEdits` and `WorkingIsIntact`.

`NoLostUpdate` and `TornTargetRecoverable` compare versions, and the code identifies
what a rename displaced by its bytes alone. So `FreshInv` says that an edited version
appears in public only when it is published, and `HomeInv` that until a call fails a
version is in one file: then equal bytes mean the same file. `SpentInv` says that a
version a verified save replaced does not come back, which is why a second save that
approved it cannot succeed; a save that rewrites in place is told from one that renames,
for it leaves the file where it was. `TornInv` is stronger than what it is for: a torn
file is recoverable wherever it may be put back from, not only under the target's name.

`OnlyApprovedVersionsGo` is proved of the steps one by one. `Moves` says that a step
lets go of no file but a `Loose` one (an unpublished stage, the stage name of a dead
process, what a verified save displaced), and `MovesSafely` that a version which stood
in such a file was superseded, or swept in the excepted window. A rewrite destroys only
what its copy has, or what was written after it (`RewritesSafely`), for which `HomeInv`
is needed once more. A failed commit is undone only in a save that is alone, so for the
undo the property says what it does among other programs, not among other saves.

The number of saves, of foreign writes and of resumed cleanups among them is any:
`RaceExternal` and `RaceCleanups` are constants. One bound is left in the theorems, for
it is a guard: a call fails only in a save that is alone, any number of times
(`MayFail`), and no other save starts after a failed call (`MayRace`); saves that race
may crash. `HomeInv` needs it, and so does `NoLostUpdate`. With failing calls among three saves TLC finds a behaviour
where the undo of a failed in-place rewrite puts the old version back over a save that
had succeeded, and a third save that approved that old version succeeds too. With two
saves, two failing calls and a foreign write TLC finds none.

### What is only model-checked

- Liveness, out of the prover's reach: `EveryAcceptedRequestCompletes`,
  `SettlesOrReports`, `EveryRequestAnswered`, `EveryLaunchDecides`, `OpenAdmitted`,
  `BatchSettles`, `RestoreSettles`.
- What a recursive definition computes for every input: induction over data is not
  available, so the roots a chain of deltas reaches in `PagedJournal` (a recursive
  function) and the costs of a stack in `DocumentHistory` (a fold) are checked on
  bounded inputs only.
- The properties of `PagedJournal`: what restores is computed by a recursive function.

## 5. What is not modelled

- Windows saves (`ReplaceFileW`), and the two-step fallback for filesystems
  without a rename that refuses to replace: the renames are atomic here.
- What a save copies beside bytes (permissions, extended attributes), encodings,
  and the choice of a name in Save As.
- A torn record's bytes: a file is absent, partial or whole, and a partial one
  fails its checksum. A new file's name is durable once the file was flushed, and
  a journal's removal succeeds; quotas and size limits are a refusal that may come
  at any moment (`PagedJournal`).
- Panics of the recovery and session workers (release builds abort, `Cargo.toml:21`, so
  what the shell does about a stopped worker is not reached), cleanup holds of Undo
  Close Tab, and the drop of a clean document's recovery, which is a discard.
- A predecessor is retired when its successor is durable, before the successor's
  baseline has landed. The code accepts this gap deliberately; a crash within it
  finds the text durable but not restorable without its baseline.
- A directory whose creation failed before its manifest ("bare") cannot be given
  a tombstone, so a retirement that lists it fails again on each retry, and a
  ticket that owns it never completes; the document goes on in a new slot.
- Text: documents hold content values. The piece tree, encodings, spilling a large
  document to disk and the byte budget of its undo storage are left out.
- The session's untitled documents, views and window place, and the salvage of
  single entries from a damaged `session.json`, which is parsing.
- The open-document phase of a replacement, which is a group edit of the scheduler.
- The components listed as `not_modelled` in `PROJECT.json`, each with its reason.

## 6. Plan

Modules to come, each with its runs, mutants and map as it is written:

1. `ProfileMigration`: the one-time move of a data folder that a crash may interrupt.
2. Owned-cache leases against the sweep of another process.
3. The workspace above `IoLanes`: close while saving, reload prompts.
4. File tails: truncation and rotation under a running tail.
5. The update helper's replace and roll back; the extension broker's sessions.

Theorems to come: `PagedJournal`'s `AcknowledgedRestorable` and `GroupAllOrNothing`.

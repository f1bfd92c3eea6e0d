--------------------- MODULE ResidentCheckpointProofs ---------------------
(***************************************************************************)
(* The safety of resident checkpoints, for any number of edits, slots,      *)
(* retries and faults.                                                      *)
(*                                                                          *)
(* IInv says what the four threads may rely on.  QueueInv: a slot has one   *)
(* job or one answer.  RemovedInv: what a retirement has removed stays      *)
(* removed.  TicketInv: a discarded slot belongs to its ticket.  AdoptedInv: *)
(* the journal a restored document came from stays until observe gives it   *)
(* up.  FitsInv: the window, its slot's status, job and answers, the        *)
(* journals and the disk belong together, whether a full copy, an append, a *)
(* retirement or nothing is under way.                                      *)
(*                                                                          *)
(* observe is proved part by part, in the order of the code; a worker's step *)
(* by what it does to its own slot and what it leaves of the others; a      *)
(* ticket's by what it leaves to the slot in use.                           *)
(***************************************************************************)
EXTENDS ResidentCheckpoint, SequenceTheorems, TLAPS

(* What the parts of the state may be.                                     *)
Nowhere == Directories \cup {NoDirectory}
Phases == {"none", "requested", "purging", "complete", "cleanup", "failed"}
Extents == {"absent", "bare", "journal", "retired"}
Kinds == {"full", "incremental", "retire"}

Document == [state : Nat \ {None}, dirty : BOOLEAN]
Window == [slot : Slots, generation : Nat, pending_generation : Nat, current : Nat,
           previous : SUBSET Nat, adopted_paths : SUBSET {Adopted},
           retire_paths : SUBSET Directories, retry_retirement : BOOLEAN,
           retirement : BOOLEAN, pending : {"none", "full", "incremental"},
           appending : Nowhere, incremental : Nat, force_full : BOOLEAN,
           path_changes : Nat, pending_path_changes : Nat, captured : Nat,
           discard : BOOLEAN]
Shared == [dir : Nowhere, durable : BOOLEAN, complete : BOOLEAN, error : BOOLEAN,
           baseline_error : BOOLEAN]
OnDisk == [extent : Extents, journal : Nat, root : Nat, baseline : Nat]
Journal == [dir : Directories, slot : Slots, path : Nat, root : Nat]
Jobs == [kind : Kinds, slot : Slots, step : {"queued", "cleared", "created"},
         dir : Nowhere, state : Nat, path : Nat, journal : Nat,
         paths : SUBSET Directories, done : SUBSET Directories]
Answers == [kind : Kinds \cup {"none"}, ok : BOOLEAN, journal : Nat,
            paths : SUBSET Directories]
Ticketed == [phase : Phases, drained : BOOLEAN, journals : SUBSET Nat,
             paths : SUBSET Directories]
Copies == [journal : Nat, copied : BOOLEAN]
Silent == [checkpoint |-> NoReply, retirement |-> NoReply]

Shape ==
    /\ doc \in Document
    /\ ui \in Window
    /\ status \in [Slots -> Shared]
    /\ disk \in [Directories -> OnDisk]
    /\ journals \in Seq(Journal)
    /\ queue \in Seq(Jobs)
    /\ baselines \in Seq(Copies)
    /\ replies \in [Slots -> [checkpoint : Answers, retirement : Answers]]
    /\ tickets \in [Slots -> Ticketed]
    /\ cover \in Nat

(* What a slot's jobs and its ticket may write or remove.                  *)
Reach(s) == SlotDirectories(s) \cup {Adopted}

(* The jobs of the queue, whatever their order.                            *)
Queued == {queue[i] : i \in DOMAIN queue}
Of(jobs, s) == {q \in jobs : q.slot = s}

(* A job knows its slot's directories, and its own journal.                *)
JobFits(q, js) ==
    /\ q.kind # "retire" => q.dir \in SlotDirectories(q.slot) /\ q.state # None /\ q.done = {}
    /\ q.kind = "retire" => q.done \subseteq q.paths /\ q.paths \subseteq Reach(q.slot)
    /\ q.kind # "full" => q.step = "queued"
    /\ q.journal # None <=> (q.kind = "incremental" \/ q.step = "created")
    /\ q.journal # None =>
         /\ q.journal \in DOMAIN js
         /\ js[q.journal].dir = q.dir /\ js[q.journal].slot = q.slot

JournalsFit(js) == \A j \in DOMAIN js : js[j].dir \in SlotDirectories(js[j].slot)

(* A slot has one job under way at most, and no answer while it has one.   *)
QueueInv ==
    /\ \A i, k \in DOMAIN queue : queue[i].slot = queue[k].slot => i = k
    /\ \A q \in Queued : q.slot <= ui.slot /\ replies[q.slot] = Silent /\ JobFits(q, journals)
    /\ JournalsFit(journals)
    /\ \A i \in DOMAIN baselines : baselines[i].journal \in DOMAIN journals

Gone(ds, d) == ds[d].extent # "journal" \/ ds[d].root = None

(* A retirement has removed what it says it did, and nothing came back.    *)
RemovedInv ==
    /\ \A q \in Queued : \A d \in q.done : Gone(disk, d)
    /\ \A s \in Slots :
         /\ replies[s].retirement.paths \subseteq Reach(s)
         /\ \A d \in replies[s].retirement.paths : Gone(disk, d)
         /\ replies[s].retirement.journal = None
         /\ replies[s].checkpoint.journal # None =>
              /\ replies[s].checkpoint.journal \in DOMAIN journals
              /\ journals[replies[s].checkpoint.journal].slot = s

(* A slot has a ticket from its discard on, which leaves none of its       *)
(* directories out, unless a retirement removed them.                      *)
TicketInv ==
    \A s \in Slots :
      LET t == tickets[s]
      IN  /\ t.phase = "none" <=> (s > ui.slot \/ (s = ui.slot /\ ~ui.discard))
          /\ t.phase = "none" => t = NoTicket
          /\ s > ui.slot => replies[s] = Silent
          /\ t.paths \subseteq Reach(s)
          /\ \A j \in t.journals : j \in DOMAIN journals /\ journals[j].slot = s
          /\ t.phase # "none" /\ ~t.drained => SlotDirectories(s) \subseteq t.paths
          /\ t.drained =>
               /\ Of(Queued, s) = {} /\ replies[s] = Silent
               /\ \A d \in SlotDirectories(s) \ t.paths : Gone(disk, d)
          /\ t.phase \in {"purging", "complete", "cleanup"} =>
               t.drained /\ \A d \in t.paths : Gone(disk, d)

(* Journal j holds the newest checkpoint, on disk as in memory.            *)
Kept(j, js, ds, k) ==
    /\ js[j].root # None /\ js[j].root >= k
    /\ ds[js[j].dir].extent = "journal" /\ ds[js[j].dir].root = js[j].root

Describes(s, j, js) == s.dir = js[j].dir /\ s.durable

Front(j, u, s, js, ds, k) ==
    /\ j \in DOMAIN js /\ j # None /\ js[j].slot = u.slot
    /\ Kept(j, js, ds, k) /\ Describes(s, j, js)

(* The status is the current journal's, unless it shows an error.  While   *)
(* something is to be retired it stays so, error or not.                   *)
StatusFits(u, s, js) ==
    u.current # None /\ (~s.error \/ u.retirement \/ u.retire_paths # {})
      => Describes(s, u.current, js)

(* The window's paths and journals are those of its slot.                  *)
OwnFits(u, js) ==
    /\ u.current # None => /\ u.current \in DOMAIN js /\ js[u.current].slot = u.slot
                           /\ js[u.current].dir \notin u.retire_paths
    /\ \A j \in u.previous : j \in DOMAIN js /\ js[j].slot = u.slot
    /\ u.retire_paths \subseteq Reach(u.slot) \ u.adopted_paths
    /\ u.retirement \/ u.retire_paths # {} => u.pending = "none"
    /\ u.pending # "incremental" => u.appending = NoDirectory

(* The newest checkpoint is the current journal's, or the adopted one.     *)
CurrentKept(u, js, ds, k) ==
    /\ u.current # None => Kept(u.current, js, ds, k)
    /\ u.current = None /\ k # None => k = 1 /\ Adopted \in u.adopted_paths

RetireFits(u, t, mine) ==
    /\ u.pending = "none" => \A q \in mine : q.kind = "retire"
    /\ ~u.retirement => t.kind = "none" /\ \A q \in mine : q.kind # "retire"
    /\ t.paths \subseteq u.retire_paths
    /\ \A q \in mine : q.kind = "retire" => q.paths \subseteq u.retire_paths

FullFits(u, s, c, mine, js, ds, k) ==
    /\ c.kind \in {"none", "full"}
    /\ \A q \in mine :
         /\ q.kind = "full"
         /\ u.current # None => q.dir # js[u.current].dir
         /\ IF q.step = "created" THEN s.dir = q.dir /\ ds[q.dir].extent = "journal"
            ELSE StatusFits(u, s, js)
    /\ IF c.kind = "full" /\ c.ok THEN Front(c.journal, u, s, js, ds, k)
       ELSE CurrentKept(u, js, ds, k)

AppendFits(u, s, c, mine, js, ds, k) ==
    /\ u.current = None
    /\ mine # {} \/ c.kind = "incremental"
    /\ c.kind \in {"none", "incremental"}
    /\ \A q \in mine : q.kind = "incremental" /\ Front(q.journal, u, s, js, ds, k)
    /\ c.kind = "incremental" => Front(c.journal, u, s, js, ds, k)

(* How the window, its slot's status and answers, its jobs, the journals   *)
(* and the disk fit together while the document's recovery is in use; k is *)
(* the state that has to stay.                                             *)
Fits(u, s, c, t, mine, js, ds, k) ==
    /\ OwnFits(u, js) /\ RetireFits(u, t, mine)
    /\ u.pending = "none" => c.kind = "none" /\ StatusFits(u, s, js) /\ CurrentKept(u, js, ds, k)
    /\ u.pending = "full" => FullFits(u, s, c, mine, js, ds, k)
    /\ u.pending = "incremental" => AppendFits(u, s, c, mine, js, ds, k)

(* A discarded recovery keeps nothing for the window.                      *)
Dropped == ui.current = None /\ ui.previous = {} /\ ui.pending = "none" /\ ~ui.retirement
             /\ ui.retire_paths = {} /\ ui.adopted_paths = {}
             /\ ui.appending = NoDirectory /\ cover = None

(* The journal the document came from stays until a checkpoint is durable. *)
AdoptedInv ==
    Adopted \in ui.adopted_paths =>
      /\ disk[Adopted].extent = "journal" /\ disk[Adopted].root = 1
      /\ \A q \in Queued : Adopted \notin q.paths
      /\ \A s \in Slots : Adopted \notin tickets[s].paths

FitsInv ==
    IF ui.discard THEN Dropped
    ELSE Fits(ui, status[ui.slot], replies[ui.slot].checkpoint, replies[ui.slot].retirement,
              Of(Queued, ui.slot), journals, disk, cover)

IInv == Shape /\ QueueInv /\ RemovedInv /\ TicketInv /\ AdoptedInv /\ FitsInv

-----------------------------------------------------------------------------
(* Facts about directories and the queue.                                  *)

(* The directories of different slots, and the adopted one, are different. *)
LEMMA SlotsApart ==
    /\ \A s \in Slots : /\ SlotDirectories(s) \subseteq Directories
                        /\ Adopted \notin SlotDirectories(s) /\ NoDirectory \notin SlotDirectories(s)
                        /\ SlotDirectories(s) \subseteq Reach(s) /\ Reach(s) \subseteq Directories
    /\ Adopted \in Directories /\ NoDirectory \notin Directories
    /\ \A s, r \in Slots : s # r => Reach(s) \cap SlotDirectories(r) = {}
<1>1. \A s \in Slots : SlotDirectories(s) = {<<s, 0>>, <<s, 1>>}
  BY DEF SlotDirectories, Directory, Slots
<1>2. \A s \in Slots : s # 0
  BY DEF Slots
<1>3. \A d \in Directories : d = Adopted \/ \E s \in Slots : d \in SlotDirectories(s)
  <2>1. \A d \in UNION {SlotDirectories(s) : s \in Slots} : \E s \in Slots : d \in SlotDirectories(s)
    OBVIOUS
  <2> QED
    BY <2>1 DEF Directories
<1>4. \A s \in Slots : SlotDirectories(s) \subseteq Directories
  BY DEF Directories
<1>5. \A s \in Slots : Adopted \notin SlotDirectories(s) /\ NoDirectory \notin SlotDirectories(s)
  BY <1>1, <1>2 DEF Adopted, NoDirectory
<1>6. Adopted \in Directories
  BY DEF Directories
<1>7. NoDirectory \notin Directories
  BY <1>3, <1>5 DEF Adopted, NoDirectory
<1>8. \A s, r \in Slots : s # r => SlotDirectories(s) \cap SlotDirectories(r) = {}
  BY <1>1
<1> QED
  BY <1>4, <1>5, <1>6, <1>7, <1>8 DEF Reach

(* A full copy goes to its slot, never to the current journal's directory. *)
LEMMA TargetElsewhere ==
    ASSUME NEW v, v.u.slot \in Slots, v.u.generation \in Nat
    PROVE  /\ Target(v) \in SlotDirectories(v.u.slot)
           /\ v.u.current # None => Target(v) # journals[v.u.current].dir
<1>1. /\ (v.u.generation + 1) % 2 \in {0, 1} /\ (v.u.generation + 2) % 2 \in {0, 1}
      /\ (v.u.generation + 1) % 2 # (v.u.generation + 2) % 2
  OBVIOUS
<1>2. Directory(v.u.slot, v.u.generation + 1) # Directory(v.u.slot, v.u.generation + 2)
  BY <1>1 DEF Directory
<1>3. /\ Directory(v.u.slot, v.u.generation + 1) \in SlotDirectories(v.u.slot)
      /\ Directory(v.u.slot, v.u.generation + 2) \in SlotDirectories(v.u.slot)
  BY <1>1 DEF Directory, SlotDirectories
<1> QED
  BY <1>2, <1>3 DEF Target

(* What is appended is queued, beside what was.                            *)
LEMMA QueueGrows ==
    ASSUME NEW T, NEW q \in Seq(T), NEW x \in T, NEW p, p = Append(q, x)
    PROVE  /\ p \in Seq(T)
           /\ {p[i] : i \in DOMAIN p} = {q[i] : i \in DOMAIN q} \cup {x}
           /\ DOMAIN p = DOMAIN q \cup {Len(q) + 1} /\ p[Len(q) + 1] = x
           /\ \A i \in DOMAIN q : p[i] = q[i] /\ i # Len(q) + 1
<1>1. /\ p \in Seq(T) /\ DOMAIN p = 1 .. Len(q) + 1 /\ p[Len(q) + 1] = x
      /\ \A i \in 1 .. Len(q) : p[i] = q[i]
  BY AppendProperties
<1>2. DOMAIN q = 1 .. Len(q) /\ Len(q) \in Nat
  OBVIOUS
<1>3. DOMAIN p = DOMAIN q \cup {Len(q) + 1}
  BY <1>1, <1>2
<1>4. \A i \in DOMAIN q : p[i] = q[i] /\ i # Len(q) + 1
  BY <1>1, <1>2
<1> QED
  BY <1>1, <1>3, <1>4

-----------------------------------------------------------------------------
(* How the parts fit, as long as nothing else touches them.                *)

(* Steps of other slots, of tickets and of the baseline worker, which only *)
(* report to the status, leave the parts fitting.                          *)
LEMMA FitsFrame ==
    ASSUME NEW u \in Window, NEW s, NEW r, NEW c, NEW t, NEW mine, NEW js, NEW hs,
           NEW ds, NEW es, NEW k,
           Fits(u, s, c, t, mine, js, ds, k), JournalsFit(js),
           \A j \in DOMAIN js : /\ j \in DOMAIN hs
                                /\ hs[j].dir = js[j].dir /\ hs[j].slot = js[j].slot
                                /\ js[j].slot = u.slot => hs[j].root = js[j].root,
           \A d \in SlotDirectories(u.slot) : es[d].extent = ds[d].extent /\ es[d].root = ds[d].root,
           \A q \in mine : q.kind # "retire" => q.dir \in SlotDirectories(u.slot),
           r.dir = s.dir, r.durable = s.durable, s.error => r.error
    PROVE  Fits(u, r, c, t, mine, hs, es, k)
<1>1. \A j \in DOMAIN js : js[j].slot = u.slot => js[j].dir \in SlotDirectories(u.slot)
  BY DEF JournalsFit
<1>2. \A j \in DOMAIN js : js[j].slot = u.slot /\ Kept(j, js, ds, k) => Kept(j, hs, es, k)
  BY <1>1 DEF Kept
<1>3. \A j \in DOMAIN js : Describes(s, j, js) => Describes(r, j, hs)
  BY DEF Describes
<1>4. \A j : Front(j, u, s, js, ds, k) => Front(j, u, r, hs, es, k)
  BY <1>2, <1>3 DEF Front
<1>5. OwnFits(u, js) /\ OwnFits(u, hs) /\ RetireFits(u, t, mine)
  BY DEF Fits, OwnFits
<1>6. StatusFits(u, s, js) => StatusFits(u, r, hs)
  BY <1>3, <1>5 DEF StatusFits, OwnFits
<1>7. CurrentKept(u, js, ds, k) => CurrentKept(u, hs, es, k)
  BY <1>2, <1>5 DEF CurrentKept, OwnFits
<1>8. FullFits(u, s, c, mine, js, ds, k) => FullFits(u, r, c, mine, hs, es, k)
  <2>1. SUFFICES ASSUME FullFits(u, s, c, mine, js, ds, k)
                 PROVE  FullFits(u, r, c, mine, hs, es, k)
    OBVIOUS
  <2>2. ASSUME NEW q \in mine
        PROVE  /\ q.kind = "full"
               /\ u.current # None => q.dir # hs[u.current].dir
               /\ IF q.step = "created" THEN r.dir = q.dir /\ es[q.dir].extent = "journal"
                  ELSE StatusFits(u, r, hs)
    BY <2>1, <2>2, <1>5, <1>6 DEF FullFits, OwnFits
  <2> QED
    BY <2>1, <2>2, <1>4, <1>7 DEF FullFits
<1>9. AppendFits(u, s, c, mine, js, ds, k) => AppendFits(u, r, c, mine, hs, es, k)
  BY <1>4 DEF AppendFits
<1> QED
  BY <1>5, <1>6, <1>7, <1>8, <1>9 DEF Fits

(* Fields of the window that the fit does not speak of.                    *)
Alike(w, u) ==
    /\ w.slot = u.slot /\ w.current = u.current /\ w.previous \subseteq u.previous
    /\ w.adopted_paths = u.adopted_paths /\ w.retire_paths = u.retire_paths
    /\ w.retirement = u.retirement /\ w.pending = u.pending /\ w.appending = u.appending

(* The other fields may change.                                            *)
LEMMA FitsAlike ==
    ASSUME NEW u, NEW w, NEW s, NEW c, NEW t, NEW mine, NEW js, NEW ds, NEW k,
           Fits(u, s, c, t, mine, js, ds, k), Alike(w, u)
    PROVE  Fits(w, s, c, t, mine, js, ds, k)
<1>1. OwnFits(w, js) /\ RetireFits(w, t, mine)
  BY DEF Fits, OwnFits, RetireFits, Alike
<1>2. StatusFits(u, s, js) => StatusFits(w, s, js)
  BY DEF StatusFits, Alike
<1>3. CurrentKept(u, js, ds, k) => CurrentKept(w, js, ds, k)
  BY DEF CurrentKept, Alike
<1>4. \A j : Front(j, u, s, js, ds, k) => Front(j, w, s, js, ds, k)
  BY DEF Front, Alike
<1>5. FullFits(u, s, c, mine, js, ds, k) => FullFits(w, s, c, mine, js, ds, k)
  BY <1>2, <1>3, <1>4 DEF FullFits, Alike
<1>6. AppendFits(u, s, c, mine, js, ds, k) => AppendFits(w, s, c, mine, js, ds, k)
  BY <1>4 DEF AppendFits, Alike
<1> QED
  BY <1>1, <1>2, <1>3, <1>5, <1>6 DEF Fits, Alike

(* Less may have to stay: nothing, once observe sees a clean document.     *)
LEMMA FitsLess ==
    ASSUME NEW u, NEW s, NEW c, NEW t, NEW mine, NEW js, NEW ds, NEW k \in Nat,
           Fits(u, s, c, t, mine, js, ds, k), NEW h, h = k \/ h = None,
           \A j \in DOMAIN js : js[j].root \in Nat, OwnFits(u, js)
    PROVE  Fits(u, s, c, t, mine, js, ds, h)
<1>1. \A j \in DOMAIN js : Kept(j, js, ds, k) => Kept(j, js, ds, h)
  BY DEF Kept, None
<1>2. \A j : Front(j, u, s, js, ds, k) => Front(j, u, s, js, ds, h)
  BY <1>1 DEF Front
<1>3. CurrentKept(u, js, ds, k) => CurrentKept(u, js, ds, h)
  BY <1>1 DEF CurrentKept, OwnFits
<1>4. FullFits(u, s, c, mine, js, ds, k) => FullFits(u, s, c, mine, js, ds, h)
  BY <1>2, <1>3 DEF FullFits
<1>5. AppendFits(u, s, c, mine, js, ds, k) => AppendFits(u, s, c, mine, js, ds, h)
  BY <1>2 DEF AppendFits
<1> QED
  BY <1>3, <1>4, <1>5 DEF Fits

Views == [u : Window, s : Shared]

(* What observe has not yet changed.                                       *)
SameUse(w, v) ==
    /\ w.u.slot = v.u.slot /\ w.u.discard = v.u.discard
    /\ w.u.adopted_paths \subseteq v.u.adopted_paths

(* No answer is one.                                                       *)
LEMMA NothingSaid ==
    /\ NoReply \in Answers /\ NoReply.kind = "none" /\ NoReply.journal = None /\ NoReply.paths = {}
    /\ NoStatus \in Shared /\ ~NoStatus.error /\ ~NoStatus.durable
BY DEF NoReply, Answers, NoStatus, Shared, Nowhere, None

(* Polling the checkpoint's answer: a copy that succeeded is current, an   *)
(* append gives its journal back, and a failure shows.                     *)
LEMMA PollCheckpointFits ==
    ASSUME NEW v \in Views, NEW w, w = PollCheckpoint(v), NEW k, NEW t, NEW mine,
           NEW c \in Answers, c = replies[v.u.slot].checkpoint,
           Fits(v.u, v.s, c, t, mine, journals, disk, k),
           c.kind # "none" => mine = {}, \A j \in DOMAIN journals : j \in Nat
    PROVE  /\ w \in Views /\ SameUse(w, v)
           /\ Fits(w.u, w.s, NoReply, t, mine, journals, disk, k)
<1>1. v.u \in Window /\ v.s \in Shared
  BY DEF Views
<1>2. CASE c.kind = "none"
  <2>1. w = v
    BY <1>2 DEF PollCheckpoint
  <2> QED
    BY <1>2, <2>1, NothingSaid DEF Fits, FullFits, AppendFits, SameUse
<1>3. CASE c.kind = "full" /\ c.ok
  <2>1. v.u.pending = "full" /\ v.u.retire_paths = {} /\ ~v.u.retirement
    BY <1>1, <1>3 DEF Fits, AppendFits, OwnFits, Window
  <2>2. Front(c.journal, v.u, v.s, journals, disk, k) /\ mine = {}
    BY <1>3, <2>1 DEF Fits, FullFits
  <2>3. PICK P \in SUBSET Nat : P = v.u.previous \cup ({v.u.current} \ {None})
    BY <1>1 DEF Window
  <2>4. PICK b \in BOOLEAN : b = (v.u.force_full /\ v.u.pending_path_changes # v.u.path_changes)
    BY <1>1 DEF Window
  <2>5. \A j \in P : j \in DOMAIN journals /\ journals[j].slot = v.u.slot
    BY <2>3 DEF Fits, OwnFits
  <2>6. w = [v EXCEPT !.u = [[v.u EXCEPT !.pending = "none"] EXCEPT
                 !.generation = v.u.pending_generation, !.incremental = 0, !.force_full = b,
                 !.previous = P, !.current = c.journal]]
    BY <1>1, <1>3, <2>3, <2>4 DEF PollCheckpoint, Window
  <2>7. c.journal \in Nat /\ v.u.pending_generation \in Nat
    BY <1>1 DEF Answers, Window
  <2>8. PICK x \in Window : x = [v.u EXCEPT !.pending = "none"]
    BY <1>1 DEF Window
  <2>9. PICK y \in Window : y = [x EXCEPT
                 !.generation = v.u.pending_generation, !.incremental = 0, !.force_full = b,
                 !.previous = P, !.current = c.journal]
    BY ZenonT(60), <2>7 DEF Window
  <2>10. w = [u |-> y, s |-> v.s]
    BY <2>6, <2>8, <2>9 DEF Views
  <2>11. /\ x.pending = "none" /\ x.slot = v.u.slot /\ x.discard = v.u.discard
         /\ x.adopted_paths = v.u.adopted_paths /\ x.appending = v.u.appending
         /\ x.retire_paths = {} /\ ~x.retirement
    BY <1>1, <2>1, <2>8 DEF Window
  <2>12. /\ y.pending = "none" /\ y.slot = v.u.slot /\ y.discard = v.u.discard
         /\ y.adopted_paths = v.u.adopted_paths /\ y.appending = v.u.appending
         /\ y.retire_paths = {} /\ ~y.retirement /\ y.current = c.journal /\ y.previous = P
    BY <2>9, <2>11 DEF Window
  <2>13. /\ w.u \in Window /\ w.s = v.s /\ w \in Views
        /\ w.u.pending = "none" /\ w.u.current = c.journal /\ w.u.previous = P
        /\ w.u.slot = v.u.slot /\ w.u.discard = v.u.discard /\ w.u.adopted_paths = v.u.adopted_paths
        /\ w.u.retire_paths = {} /\ ~w.u.retirement /\ w.u.appending = v.u.appending
    BY <1>1, <2>10, <2>12 DEF Views
  <2>14. v.u.appending = NoDirectory
    BY <2>1 DEF Fits, OwnFits
  <2>15. OwnFits(w.u, journals)
    BY <2>2, <2>5, <2>13, <2>14 DEF OwnFits, Front
  <2>16. RetireFits(w.u, t, mine)
    BY <2>1, <2>2, <2>13 DEF RetireFits, Fits
  <2>17. StatusFits(w.u, w.s, journals) /\ CurrentKept(w.u, journals, disk, k)
    BY <2>2, <2>13 DEF StatusFits, CurrentKept, Front
  <2> QED
    BY <2>13, <2>15, <2>16, <2>17, NothingSaid DEF Fits, SameUse
<1>4. CASE c.kind = "full" /\ ~c.ok
  <2>1. v.u.pending = "full" /\ v.u.retire_paths = {} /\ ~v.u.retirement /\ mine = {}
    BY <1>1, <1>4 DEF Fits, AppendFits, OwnFits, Window
  <2>2. w = [u |-> [v.u EXCEPT !.pending = "none"], s |-> [v.s EXCEPT !.error = TRUE]]
    BY <1>1, <1>4 DEF PollCheckpoint, Views
  <2>3. PICK x \in Window : x = [v.u EXCEPT !.pending = "none"]
    BY <1>1 DEF Window
  <2>4. PICK z \in Shared : z = [v.s EXCEPT !.error = TRUE]
    BY <1>1 DEF Shared
  <2>5. w = [u |-> x, s |-> z]
    BY <2>2, <2>3, <2>4
  <2>6. /\ x.pending = "none" /\ x.slot = v.u.slot /\ x.discard = v.u.discard
         /\ x.adopted_paths = v.u.adopted_paths /\ x.appending = v.u.appending
         /\ x.retire_paths = {} /\ ~x.retirement
         /\ x.current = v.u.current /\ x.previous = v.u.previous
    BY <1>1, <2>1, <2>3 DEF Window
  <2>7. z.error
    BY <1>1, <2>4 DEF Shared
  <2>8. /\ w.u \in Window /\ w.s \in Shared /\ w \in Views /\ w.s.error
        /\ w.u.pending = "none" /\ w.u.current = v.u.current /\ w.u.previous = v.u.previous
        /\ w.u.slot = v.u.slot /\ w.u.discard = v.u.discard /\ w.u.adopted_paths = v.u.adopted_paths
        /\ w.u.retire_paths = {} /\ ~w.u.retirement /\ w.u.appending = v.u.appending
    BY <2>5, <2>6, <2>7 DEF Views
  <2>9. OwnFits(w.u, journals)
    BY <2>1, <2>8 DEF OwnFits, Fits
  <2>10. RetireFits(w.u, t, mine)
    BY <2>1, <2>8 DEF RetireFits, Fits
  <2>11. StatusFits(w.u, w.s, journals)
    BY <2>8 DEF StatusFits
  <2>12. CurrentKept(w.u, journals, disk, k)
    BY <1>4, <2>1, <2>8 DEF CurrentKept, Fits, FullFits
  <2> QED
    BY <2>8, <2>9, <2>10, <2>11, <2>12, NothingSaid DEF Fits, SameUse
<1>5. CASE c.kind = "incremental"
  <2>1. v.u.pending = "incremental" /\ v.u.retire_paths = {} /\ ~v.u.retirement /\ mine = {}
    BY <1>1, <1>5 DEF Fits, FullFits, OwnFits, Window
  <2>2. Front(c.journal, v.u, v.s, journals, disk, k) /\ v.u.current = None
    BY <1>5, <2>1 DEF Fits, AppendFits
  <2>3. PICK n \in Nat : n = IF c.ok THEN v.u.incremental + 1 ELSE v.u.incremental
    BY <1>1 DEF Window
  <2>4. PICK b \in BOOLEAN : b = (v.s.error \/ ~c.ok)
    BY <1>1 DEF Shared
  <2>5. w = [u |-> [[v.u EXCEPT !.pending = "none"] EXCEPT !.appending = NoDirectory,
                        !.current = c.journal, !.incremental = n],
             s |-> [v.s EXCEPT !.error = b]]
    BY <1>1, <1>5, <2>3, <2>4 DEF PollCheckpoint, Views, Window, Shared
  <2>6. c.journal \in Nat /\ NoDirectory \in Nowhere
    BY DEF Answers, Nowhere
  <2>7. PICK x \in Window : x = [v.u EXCEPT !.pending = "none"]
    BY <1>1 DEF Window
  <2>8. PICK y \in Window : y = [x EXCEPT !.appending = NoDirectory, !.current = c.journal,
                                   !.incremental = n]
    BY <2>6 DEF Window
  <2>9. PICK z \in Shared : z = [v.s EXCEPT !.error = b]
    BY <1>1 DEF Shared
  <2>10. w = [u |-> y, s |-> z]
    BY <2>5, <2>7, <2>8, <2>9
  <2>11. /\ x.pending = "none" /\ x.slot = v.u.slot /\ x.discard = v.u.discard
         /\ x.adopted_paths = v.u.adopted_paths /\ x.retire_paths = {} /\ ~x.retirement
         /\ x.previous = v.u.previous
    BY <1>1, <2>1, <2>7 DEF Window
  <2>12. /\ y.pending = "none" /\ y.slot = v.u.slot /\ y.discard = v.u.discard
         /\ y.adopted_paths = v.u.adopted_paths /\ y.retire_paths = {} /\ ~y.retirement
         /\ y.previous = v.u.previous /\ y.current = c.journal /\ y.appending = NoDirectory
    BY <2>8, <2>11 DEF Window
  <2>13. z.dir = v.s.dir /\ z.durable = v.s.durable
    BY <1>1, <2>9 DEF Shared
  <2>14. /\ w.u \in Window /\ w.s \in Shared /\ w \in Views
        /\ w.s.dir = v.s.dir /\ w.s.durable = v.s.durable
        /\ w.u.pending = "none" /\ w.u.current = c.journal /\ w.u.previous = v.u.previous
        /\ w.u.slot = v.u.slot /\ w.u.discard = v.u.discard /\ w.u.adopted_paths = v.u.adopted_paths
        /\ w.u.retire_paths = {} /\ ~w.u.retirement /\ w.u.appending = NoDirectory
    BY <2>10, <2>12, <2>13 DEF Views
  <2>15. OwnFits(w.u, journals)
    BY <2>2, <2>14 DEF OwnFits, Front, Fits
  <2>16. RetireFits(w.u, t, mine)
    BY <2>1, <2>14 DEF RetireFits, Fits
  <2>17. StatusFits(w.u, w.s, journals) /\ CurrentKept(w.u, journals, disk, k)
    BY <2>2, <2>14 DEF StatusFits, CurrentKept, Front, Describes
  <2> QED
    BY <2>14, <2>15, <2>16, <2>17, NothingSaid DEF Fits, SameUse
<1>6. c.kind # "retire"
  BY <1>1 DEF Fits, FullFits, AppendFits, Window
<1> QED
  BY <1>2, <1>3, <1>4, <1>5, <1>6 DEF Answers, Kinds

(* Polling the retirement's answer: what was removed is no longer to be    *)
(* retired, and the status of the current journal is not reset with it.    *)
LEMMA PollRetirementFits ==
    ASSUME NEW v \in Views, NEW w, w = PollRetirement(v), NEW k, NEW mine,
           NEW t \in Answers, t = replies[v.u.slot].retirement,
           Fits(v.u, v.s, NoReply, t, mine, journals, disk, k),
           t.kind # "none" => mine = {}
    PROVE  /\ w \in Views /\ SameUse(w, v)
           /\ Fits(w.u, w.s, NoReply, NoReply, mine, journals, disk, k)
<1>1. v.u \in Window /\ v.s \in Shared
  BY DEF Views
<1>2. CASE t.kind = "none"
  <2>1. w = v
    BY <1>2 DEF PollRetirement
  <2> QED
    BY <1>2, <2>1, NothingSaid DEF Fits, RetireFits, SameUse
<1>3. CASE t.kind # "none"
  <2>1. v.u.retirement /\ v.u.pending = "none" /\ mine = {} /\ t.paths \subseteq v.u.retire_paths
    BY <1>3 DEF Fits, RetireFits, OwnFits
  <2>2. StatusFits(v.u, v.s, journals) /\ CurrentKept(v.u, journals, disk, k)
    BY <2>1 DEF Fits
  <2>3. v.u.current # None => /\ Describes(v.s, v.u.current, journals)
                              /\ v.s.dir \notin v.u.retire_paths
    BY <2>1, <2>2 DEF StatusFits, Describes, Fits, OwnFits
  <2>4. PICK z \in Shared : /\ z = IF t.ok THEN (IF v.s.dir \in t.paths THEN NoStatus ELSE v.s)
                                   ELSE [v.s EXCEPT !.error = TRUE]
                            /\ v.u.current # None => Describes(z, v.u.current, journals)
    <3>1. CASE t.ok
      BY <1>1, <2>1, <2>3, <3>1, NothingSaid
    <3>2. CASE ~t.ok
      <4>1. PICK z \in Shared : z = [v.s EXCEPT !.error = TRUE]
        BY <1>1 DEF Shared
      <4>2. z.dir = v.s.dir /\ z.durable = v.s.durable
        BY <1>1, <4>1 DEF Shared
      <4> QED
        BY <2>3, <3>2, <4>1, <4>2 DEF Describes
    <3> QED
      BY <3>1, <3>2
  <2>5. PICK R \in SUBSET v.u.retire_paths : R = IF t.ok THEN v.u.retire_paths \ t.paths
                                                 ELSE v.u.retire_paths
    OBVIOUS
  <2>6. PICK x \in Window : x = [v.u EXCEPT !.retirement = FALSE, !.retire_paths = R]
    BY <1>1 DEF Window
  <2>7. w = [u |-> x, s |-> z]
    <3>1. CASE t.ok
      BY <1>1, <1>3, <2>4, <2>5, <2>6, <3>1 DEF PollRetirement
    <3>2. CASE ~t.ok
      <4>1. w = [v EXCEPT !.u.retirement = FALSE, !.s.error = TRUE]
        BY <1>3, <3>2 DEF PollRetirement
      <4>2. w = [u |-> [v.u EXCEPT !.retirement = FALSE], s |-> [v.s EXCEPT !.error = TRUE]]
        BY <4>1 DEF Views
      <4>3. x = [v.u EXCEPT !.retirement = FALSE]
        BY <1>1, <2>5, <2>6, <3>2 DEF Window
      <4> QED
        BY <2>4, <3>2, <4>2, <4>3
    <3> QED
      BY <3>1, <3>2
  <2>8. /\ ~x.retirement /\ x.retire_paths = R /\ x.pending = "none"
        /\ x.current = v.u.current /\ x.previous = v.u.previous /\ x.slot = v.u.slot
        /\ x.discard = v.u.discard /\ x.adopted_paths = v.u.adopted_paths
        /\ x.appending = v.u.appending
    BY <1>1, <2>1, <2>6 DEF Window
  <2>9. w \in Views /\ SameUse(w, v) /\ w.u = x /\ w.s = z
    BY <2>7, <2>8 DEF Views, SameUse
  <2>10. OwnFits(x, journals)
    BY <2>1, <2>8 DEF OwnFits, Fits
  <2>11. StatusFits(x, z, journals) /\ CurrentKept(x, journals, disk, k)
    BY <2>2, <2>4, <2>8 DEF StatusFits, CurrentKept
  <2>12. RetireFits(x, NoReply, mine)
    BY <2>1, <2>8, NothingSaid DEF RetireFits
  <2> QED
    BY <2>8, <2>9, <2>10, <2>11, <2>12, NothingSaid DEF Fits
<1> QED
  BY <1>2, <1>3

(* What has to stay once observe has looked at the document.               *)
Staying == IF doc.dirty THEN cover ELSE None

(* The directories of what became obsolete are retired, never those of the *)
(* current journal, and what has to stay is still there.                   *)
LEMMA CollectFits ==
    ASSUME NEW v \in Views, NEW w, w = SpareLive(CollectObsolete(v)), NEW mine,
           Fits(v.u, v.s, NoReply, NoReply, mine, journals, disk, cover), cover \in Nat,
           JournalsFit(journals), \A j \in DOMAIN journals : journals[j].root \in Nat
    PROVE  /\ w \in Views /\ SameUse(w, v)
           /\ Fits(w.u, w.s, NoReply, NoReply, mine, journals, disk, Staying)
<1>1. v.u \in Window /\ v.s \in Shared /\ OwnFits(v.u, journals)
  BY DEF Views, Fits
<1>2. CASE ~Superseding(v)
  <2>1. /\ v.u.appending \notin v.u.retire_paths
        /\ v.u.current # None => journals[v.u.current].dir \notin v.u.retire_paths
    BY <1>1, SlotsApart DEF OwnFits, Window
  <2>2. PICK x \in Window : x = [v.u EXCEPT !.retire_paths = v.u.retire_paths]
    BY <1>1 DEF Window
  <2>3. w = [v EXCEPT !.u.retire_paths = v.u.retire_paths]
    BY <1>2, <2>1 DEF SpareLive, CollectObsolete
  <2>4. w = [u |-> x, s |-> v.s]
    BY <2>2, <2>3 DEF Views
  <2>5. Alike(x, v.u) /\ x.discard = v.u.discard
    BY <1>1, <2>2 DEF Alike, Window
  <2>6. w \in Views /\ SameUse(w, v) /\ w.u = x /\ w.s = v.s
    BY <1>1, <2>4, <2>5 DEF Views, SameUse, Alike
  <2>7. Fits(x, v.s, NoReply, NoReply, mine, journals, disk, cover)
    BY <2>5, FitsAlike
  <2>8. OwnFits(x, journals)
    BY <2>7 DEF Fits
  <2>9. Fits(x, v.s, NoReply, NoReply, mine, journals, disk, Staying)
    BY <2>7, <2>8, FitsLess DEF Staying
  <2> QED
    BY <2>6, <2>9
<1>3. CASE Superseding(v)
  <2> DEFINE obsolete == v.u.previous \cup (IF Unneeded(v) THEN {v.u.current} ELSE {})
             retired == v.u.retire_paths \cup v.u.adopted_paths
                          \cup {journals[j].dir : j \in obsolete}
  <2>1. /\ ~v.u.retirement /\ v.u.pending = "none" /\ v.u.current # None
        /\ v.s.durable /\ ~v.s.error /\ mine = {} /\ v.u.appending = NoDirectory
    BY <1>1, <1>3 DEF Superseding, Fits, RetireFits, OwnFits
  <2>2. \A j \in obsolete : j \in DOMAIN journals /\ journals[j].dir \in SlotDirectories(v.u.slot)
    BY <1>1, <2>1 DEF OwnFits, JournalsFit
  <2>3. PICK R \in SUBSET Directories : R = retired /\ R \subseteq Reach(v.u.slot)
    <3>1. v.u.slot \in Slots /\ v.u.adopted_paths \subseteq {Adopted}
      BY <1>1 DEF Window
    <3>2. v.u.retire_paths \subseteq Reach(v.u.slot)
      BY <1>1 DEF OwnFits
    <3>3. v.u.adopted_paths \subseteq Reach(v.u.slot)
      BY <3>1 DEF Reach
    <3>4. {journals[j].dir : j \in obsolete} \subseteq Reach(v.u.slot)
      BY <2>2 DEF Reach
    <3>5. Reach(v.u.slot) \subseteq Directories
      BY <3>1, SlotsApart
    <3> QED
      BY <3>2, <3>3, <3>4, <3>5
  <2>4. PICK c \in Nat : c = IF Unneeded(v) THEN None ELSE v.u.current
    BY <1>1 DEF Window, None
  <2>5. PICK p \in Nat : p = IF Unneeded(v) THEN None ELSE v.u.captured
    BY <1>1 DEF Window, None
  <2>6. PICK b \in BOOLEAN : b = (v.u.retry_retirement \/ obsolete # {})
    BY <1>1 DEF Window
  <2>7. PICK x \in Window : x = [v.u EXCEPT !.adopted_paths = {}, !.retire_paths = R,
                                   !.previous = {}, !.current = c, !.captured = p,
                                   !.retry_retirement = b]
    BY <1>1 DEF Window
  <2>8. CollectObsolete(v) = [v EXCEPT !.u = x]
    BY <1>1, <1>3, <2>3, <2>4, <2>5, <2>6, <2>7 DEF CollectObsolete, Window
  <2>9. CollectObsolete(v) = [u |-> x, s |-> v.s]
    BY <2>8 DEF Views
  <2>10. /\ ~x.retirement /\ x.retire_paths = R /\ x.pending = "none" /\ x.current = c
         /\ x.previous = {} /\ x.slot = v.u.slot /\ x.discard = v.u.discard
         /\ x.adopted_paths = {} /\ x.appending = NoDirectory
    BY <1>1, <2>1, <2>7 DEF Window
  <2>11. PICK Q \in SUBSET R : Q = R \ ({NoDirectory}
                                    \cup (IF c = None THEN {} ELSE {journals[c].dir}))
    OBVIOUS
  <2>12. PICK y \in Window : y = [x EXCEPT !.retire_paths = Q]
    BY DEF Window
  <2>13. w = [u |-> y, s |-> v.s]
    <3>1. PICK n : n = [u |-> x, s |-> v.s]
      OBVIOUS
    <3>2. n.u = x /\ w = SpareLive(n)
      BY <2>9, <3>1
    <3>3. w = [n EXCEPT !.u.retire_paths = Q]
      BY <2>10, <2>11, <3>2 DEF SpareLive
    <3>4. w = [u |-> [x EXCEPT !.retire_paths = Q], s |-> v.s]
      BY <3>1, <3>3
    <3> QED
      BY <2>12, <3>4
  <2>14. /\ ~y.retirement /\ y.retire_paths = Q /\ y.pending = "none" /\ y.current = c
         /\ y.previous = {} /\ y.slot = v.u.slot /\ y.discard = v.u.discard
         /\ y.adopted_paths = {} /\ y.appending = NoDirectory
    BY <2>10, <2>12 DEF Window
  <2>15. w \in Views /\ SameUse(w, v) /\ w.u = y /\ w.s = v.s
    BY <1>1, <2>13, <2>14 DEF Views, SameUse
  <2>16. OwnFits(y, journals)
    BY <1>1, <2>3, <2>4, <2>11, <2>14 DEF OwnFits
  <2>17. RetireFits(y, NoReply, mine)
    BY <2>1, <2>14, NothingSaid DEF RetireFits
  <2>18. StatusFits(v.u, v.s, journals) /\ CurrentKept(v.u, journals, disk, cover)
    BY <2>1 DEF Fits
  <2>19. StatusFits(y, v.s, journals)
    BY <2>1, <2>4, <2>14, <2>18 DEF StatusFits
  <2>20. CurrentKept(y, journals, disk, Staying)
    <3>1. CASE c = None
      <4>1. Staying = None
        BY <2>1, <2>4, <3>1 DEF Unneeded, Staying
      <4> QED
        BY <2>14, <3>1, <4>1 DEF CurrentKept
    <3>2. CASE c # None
      <4>1. c = v.u.current /\ c \in DOMAIN journals
        BY <1>1, <2>4, <3>2 DEF OwnFits
      <4>2. Kept(c, journals, disk, Staying)
        BY <2>18, <3>2, <4>1 DEF CurrentKept, Kept, Staying, None
      <4> QED
        BY <2>14, <3>2, <4>2 DEF CurrentKept
    <3> QED
      BY <3>1, <3>2
  <2> QED
    BY <2>14, <2>15, <2>16, <2>17, <2>19, <2>20, NothingSaid DEF Fits
<1> QED
  BY <1>2, <1>3

(* What is on the queue and in the journals.                               *)
LEMMA JobsAre ==
    ASSUME NEW p \in Seq(Jobs)
    PROVE  \A x \in {p[i] : i \in DOMAIN p} : x \in Jobs
OBVIOUS

(* So is a journal of the list of journals.                                *)
LEMMA JournalsAre ==
    ASSUME NEW js \in Seq(Journal)
    PROVE  \A j \in DOMAIN js : js[j] \in Journal /\ j \in Nat /\ js[j].root \in Nat
<1>1. \A j \in DOMAIN js : js[j] \in Journal /\ j \in Nat
  OBVIOUS
<1> QED
  BY <1>1 DEF Journal

(* What the poll, the retirement and the collection leave fits, with no    *)
(* answer left.                                                            *)
LEMMA ObservedFits ==
    ASSUME IInv, ~ui.discard, NEW v, v = Observed
    PROVE  /\ v \in Views /\ v.u.slot = ui.slot /\ ~v.u.discard
           /\ v.u.adopted_paths \subseteq ui.adopted_paths
           /\ Fits(v.u, v.s, NoReply, NoReply, Of(Queued, ui.slot), journals, disk, Staying)
<1> DEFINE mine == Of(Queued, ui.slot)
<1>1. /\ ui \in Window /\ ui.slot \in Slots /\ status[ui.slot] \in Shared /\ cover \in Nat
      /\ replies[ui.slot].checkpoint \in Answers /\ replies[ui.slot].retirement \in Answers
  BY DEF IInv, Shape, Window
<1>2. JournalsFit(journals) /\ \A j \in DOMAIN journals : j \in Nat /\ journals[j].root \in Nat
  <2>1. JournalsFit(journals) /\ journals \in Seq(Journal)
    BY DEF IInv, QueueInv, Shape
  <2> QED
    BY <2>1, JournalsAre
<1>3. replies[ui.slot].checkpoint.kind # "none" \/ replies[ui.slot].retirement.kind # "none" => mine = {}
  BY NothingSaid DEF IInv, QueueInv, Of, Silent
<1>4. Fits(ui, status[ui.slot], replies[ui.slot].checkpoint, replies[ui.slot].retirement,
           mine, journals, disk, cover)
  BY DEF IInv, FitsInv
<1>5. PICK a : a = [u |-> ui, s |-> status[ui.slot]]
  OBVIOUS
<1>6. a \in Views /\ a.u = ui /\ a.s = status[ui.slot]
  BY <1>1, <1>5 DEF Views
<1>7. PICK b : b = PollCheckpoint(a)
  OBVIOUS
<1>8. /\ b \in Views /\ SameUse(b, a)
      /\ Fits(b.u, b.s, NoReply, replies[ui.slot].retirement, mine, journals, disk, cover)
  <2> HIDE DEF mine
  <2> QED
    BY <1>1, <1>2, <1>3, <1>4, <1>6, <1>7, PollCheckpointFits
<1>9. PICK c : c = PollRetirement(b)
  OBVIOUS
<1>10. b.u.slot = ui.slot
  BY <1>6, <1>8 DEF SameUse
<1>11. /\ c \in Views /\ SameUse(c, b)
       /\ Fits(c.u, c.s, NoReply, NoReply, mine, journals, disk, cover)
  <2> HIDE DEF mine
  <2> QED
    BY <1>1, <1>3, <1>8, <1>9, <1>10, PollRetirementFits
<1>12. v = SpareLive(CollectObsolete(c))
  BY <1>5, <1>7, <1>9 DEF Observed
<1>13. /\ v \in Views /\ SameUse(v, c)
       /\ Fits(v.u, v.s, NoReply, NoReply, mine, journals, disk, Staying)
  <2> HIDE DEF mine
  <2> QED
    BY <1>1, <1>2, <1>11, <1>12, CollectFits
<1> QED
  BY <1>6, <1>8, <1>11, <1>13 DEF SameUse

(* A job observe may queue.                                                *)
Queueable(q, u) ==
    /\ q \in Jobs /\ q.slot = ui.slot /\ q.done = {} /\ JobFits(q, journals)
    /\ Adopted \in u.adopted_paths => Adopted \notin q.paths

(* How observe ends, with a job queued or none.                            *)
LEMMA EndsKeeps ==
    ASSUME IInv, ~ui.discard, NEW u \in Window, NEW s \in Shared, NEW q,
           u.slot = ui.slot, ~u.discard, u.adopted_paths \subseteq ui.adopted_paths, Ends(u, s),
           \/ /\ queue' = queue
              /\ Fits(u, s, NoReply, NoReply, Of(Queued, ui.slot), journals, disk, Staying)
           \/ /\ queue' = Append(queue, q) /\ Of(Queued, ui.slot) = {} /\ Queueable(q, u)
              /\ Fits(u, s, NoReply, NoReply, {q}, journals, disk, Staying)
    PROVE  IInv'
<1>1. /\ ui.slot \in Slots /\ Shape /\ QueueInv /\ RemovedInv /\ TicketInv /\ AdoptedInv
  BY DEF IInv, Shape, Window
<1>2. /\ ui' = u /\ status' = [status EXCEPT ![ui.slot] = s]
      /\ replies' = [replies EXCEPT ![ui.slot] = Silent] /\ cover' = Staying
      /\ UNCHANGED <<doc, disk, journals, baselines, tickets>>
  BY DEF Ends, Silent, Staying
<1>3. /\ status' \in [Slots -> Shared] /\ status'[ui.slot] = s
      /\ replies' \in [Slots -> [checkpoint : Answers, retirement : Answers]]
      /\ replies'[ui.slot] = Silent /\ \A r \in Slots : r # ui.slot => replies'[r] = replies[r]
  BY <1>1, <1>2, NothingSaid DEF Shape, Silent
<1>4. /\ queue' \in Seq(Jobs)
      /\ \A x \in Queued' : x \in Queued \/ (x = q /\ Queueable(q, u))
      /\ \A i, k \in DOMAIN queue' : queue'[i].slot = queue'[k].slot => i = k
      /\ Fits(u, s, NoReply, NoReply, Of(Queued', ui.slot), journals, disk, Staying)
  <2>1. CASE queue' = queue /\ Fits(u, s, NoReply, NoReply, Of(Queued, ui.slot), journals, disk, Staying)
    BY <1>1, <2>1 DEF QueueInv, Shape, Queued
  <2>2. CASE /\ queue' = Append(queue, q) /\ Of(Queued, ui.slot) = {} /\ Queueable(q, u)
             /\ Fits(u, s, NoReply, NoReply, {q}, journals, disk, Staying)
    <3>1. queue \in Seq(Jobs) /\ q \in Jobs
      BY <1>1, <2>2 DEF Shape, Queueable
    <3>2. /\ queue' \in Seq(Jobs) /\ Queued' = Queued \cup {q}
          /\ DOMAIN queue' = DOMAIN queue \cup {Len(queue) + 1} /\ queue'[Len(queue) + 1] = q
          /\ \A i \in DOMAIN queue : queue'[i] = queue[i] /\ i # Len(queue) + 1
      BY <2>2, <3>1, QueueGrows DEF Queued
    <3>3. Of(Queued', ui.slot) = {q}
      BY <2>2, <3>2 DEF Of, Queueable
    <3>4. \A i \in DOMAIN queue : queue[i].slot # q.slot
      BY <2>2 DEF Of, Queued, Queueable
    <3>5. \A i, k \in DOMAIN queue' : queue'[i].slot = queue'[k].slot => i = k
      BY <1>1, <3>2, <3>4 DEF QueueInv
    <3> QED
      BY <2>2, <3>2, <3>3, <3>5
  <2> QED
    BY <2>1, <2>2
<1>5. Shape'
  BY <1>1, <1>2, <1>3, <1>4 DEF Shape, Staying, None
<1>6. QueueInv'
  <2>1. \A x \in Queued' : x.slot \in Slots
    BY <1>4, JobsAre DEF Queued, Jobs
  <2>2. \A x \in Queued' : /\ x.slot <= ui'.slot /\ JobFits(x, journals')
                           /\ replies'[x.slot] = Silent
    BY <1>1, <1>2, <1>3, <1>4, <2>1 DEF QueueInv, Queueable, Slots
  <2> QED
    BY <1>1, <1>2, <1>4, <2>2 DEF QueueInv
<1>7. RemovedInv'
  <2>1. \A x \in Queued' : \A d \in x.done : Gone(disk', d)
    BY <1>1, <1>2, <1>4 DEF RemovedInv, Queueable
  <2>2. ASSUME NEW r \in Slots
        PROVE  /\ replies'[r].retirement.paths \subseteq Reach(r)
               /\ \A d \in replies'[r].retirement.paths : Gone(disk', d)
               /\ replies'[r].retirement.journal = None
               /\ replies'[r].checkpoint.journal # None =>
                    /\ replies'[r].checkpoint.journal \in DOMAIN journals'
                    /\ journals'[replies'[r].checkpoint.journal].slot = r
    <3>1. CASE r = ui.slot
      BY <1>3, <3>1, NothingSaid DEF Silent
    <3>2. CASE r # ui.slot
      BY <1>1, <1>2, <1>3, <3>2 DEF RemovedInv
    <3> QED
      BY <3>1, <3>2
  <2> QED
    BY <2>1, <2>2 DEF RemovedInv
<1>8. TicketInv'
  <2>1. ASSUME NEW r \in Slots, tickets[r].drained
        PROVE  Of(Queued', r) = {} /\ replies'[r] = Silent
    <3>1. tickets[ui.slot] = NoTicket
      BY <1>1 DEF TicketInv
    <3>2. r # ui.slot
      BY <2>1, <3>1 DEF NoTicket
    <3>3. Of(Queued, r) = {} /\ replies[r] = Silent
      BY <1>1, <2>1 DEF TicketInv
    <3> QED
      BY <1>3, <1>4, <3>2, <3>3 DEF Of, Queueable
  <2> QED
    BY <1>1, <1>2, <1>3, <2>1 DEF TicketInv
<1>9. AdoptedInv'
  BY <1>1, <1>2, <1>4 DEF AdoptedInv, Queueable
<1>10. FitsInv'
  BY <1>2, <1>3, <1>4 DEF FitsInv, Silent
<1> QED
  BY <1>5, <1>6, <1>7, <1>8, <1>9, <1>10 DEF IInv

(* With nothing pending and no retirement under way the slot has no job.   *)
LEMMA IdleFits ==
    ASSUME NEW u, NEW s, NEW mine, NEW js, NEW ds, NEW k,
           Fits(u, s, NoReply, NoReply, mine, js, ds, k), ~u.retirement
    PROVE  /\ u.retire_paths # {} => u.pending = "none"
           /\ u.pending = "none" => mine = {} /\ StatusFits(u, s, js) /\ CurrentKept(u, js, ds, k)
BY DEF Fits, OwnFits, RetireFits

(* An error on the status only.                                            *)
LEMMA FitsError ==
    ASSUME NEW u \in Window, NEW s \in Shared, NEW k, JournalsFit(journals),
           Fits(u, s, NoReply, NoReply, {}, journals, disk, k)
    PROVE  /\ [s EXCEPT !.error = TRUE] \in Shared
           /\ Fits(u, [s EXCEPT !.error = TRUE], NoReply, NoReply, {}, journals, disk, k)
<1>1. PICK r \in Shared : r = [s EXCEPT !.error = TRUE]
  BY DEF Shared
<1>2. r.dir = s.dir /\ r.durable = s.durable /\ r.error
  BY <1>1 DEF Shared
<1>3. Fits(u, r, NoReply, NoReply, {}, journals, disk, k)
  BY <1>2, FitsFrame
<1> QED
  BY <1>1, <1>3

(* observe sends what is to be retired, or finds its worker's queue full.  *)
LEMMA RetireStep ==
    ASSUME IInv, ObserveRetire
    PROVE  IInv'
<1>1. PICK v : v = Observed
  OBVIOUS
<1>2. /\ v \in Views /\ v.u.slot = ui.slot /\ ~v.u.discard
      /\ v.u.adopted_paths \subseteq ui.adopted_paths
      /\ Fits(v.u, v.s, NoReply, NoReply, Of(Queued, ui.slot), journals, disk, Staying)
      /\ ~ui.discard
  BY <1>1, ObservedFits DEF ObserveRetire
<1>3. /\ v.u \in Window /\ v.s \in Shared /\ ui.slot \in Slots /\ JournalsFit(journals)
      /\ ~v.u.retirement /\ v.u.retire_paths # {} /\ doc \in Document
  BY <1>1, <1>2 DEF Views, Window, IInv, QueueInv, ObserveRetire, MustRetire, Shape
<1>4. /\ v.u.pending = "none" /\ Of(Queued, ui.slot) = {}
      /\ StatusFits(v.u, v.s, journals) /\ CurrentKept(v.u, journals, disk, Staying)
  BY <1>2, <1>3, IdleFits
<1>5. PICK x \in Window : x = [v.u EXCEPT !.retry_retirement = FALSE]
  BY <1>3 DEF Window
<1>6. Alike(x, v.u) /\ x.discard = v.u.discard
  BY <1>3, <1>5 DEF Alike, Window
<1>7. Fits(x, v.s, NoReply, NoReply, {}, journals, disk, Staying)
  BY <1>2, <1>4, <1>6, FitsAlike
<1>8. CASE /\ queue' = Append(queue, [Job("retire", v) EXCEPT !.paths = v.u.retire_paths])
           /\ Ends([x EXCEPT !.retirement = TRUE], v.s)
  <2>1. PICK q : q = [Job("retire", v) EXCEPT !.paths = v.u.retire_paths]
    OBVIOUS
  <2>2. q = [kind |-> "retire", slot |-> ui.slot, step |-> "queued", dir |-> NoDirectory,
             state |-> doc.state, path |-> 0, journal |-> None, paths |-> v.u.retire_paths,
             done |-> {}]
    BY <1>2, <2>1 DEF Job
  <2>3. v.u.retire_paths \subseteq Directories /\ doc.state \in Nat /\ None \in Nat
    BY <1>3 DEF Window, Document, None
  <2>4. q \in Jobs
    BY <1>3, <2>2, <2>3 DEF Jobs, Kinds, Nowhere
  <2>5. /\ q.kind = "retire" /\ q.slot = ui.slot /\ q.step = "queued" /\ q.journal = None
        /\ q.paths = v.u.retire_paths /\ q.done = {}
    BY <2>2
  <2>6. v.u.retire_paths \subseteq Reach(ui.slot) \ v.u.adopted_paths
    BY <1>2 DEF Fits, OwnFits
  <2>7. PICK y \in Window : y = [x EXCEPT !.retirement = TRUE]
    BY DEF Window
  <2>8. /\ y.slot = ui.slot /\ ~y.discard /\ y.adopted_paths = v.u.adopted_paths
        /\ y.retire_paths = v.u.retire_paths /\ y.retirement /\ y.pending = "none"
        /\ y.current = v.u.current /\ y.previous \subseteq v.u.previous /\ y.appending = v.u.appending
    BY <1>2, <1>4, <1>6, <2>7 DEF Window, Alike
  <2>9. Queueable(q, y)
    BY <2>4, <2>5, <2>6, <2>8 DEF Queueable, JobFits
  <2>10. OwnFits(y, journals)
    BY <1>2, <1>4, <2>8 DEF Fits, OwnFits
  <2>11. RetireFits(y, NoReply, {q})
    BY <2>5, <2>8, NothingSaid DEF RetireFits
  <2>12. StatusFits(y, v.s, journals) /\ CurrentKept(y, journals, disk, Staying)
    BY <1>3, <1>4, <2>8 DEF StatusFits, CurrentKept
  <2>13. Fits(y, v.s, NoReply, NoReply, {q}, journals, disk, Staying)
    BY <2>8, <2>10, <2>11, <2>12, NothingSaid DEF Fits
  <2> QED
    BY <1>2, <1>3, <1>4, <1>8, <2>1, <2>7, <2>8, <2>9, <2>13, EndsKeeps
<1>9. CASE queue' = queue /\ Ends(x, [v.s EXCEPT !.error = TRUE])
  <2>1. PICK s \in Shared : /\ s = [v.s EXCEPT !.error = TRUE]
                            /\ Fits(x, s, NoReply, NoReply, {}, journals, disk, Staying)
    BY <1>3, <1>7, FitsError
  <2>2. x.slot = ui.slot /\ ~x.discard /\ x.adopted_paths \subseteq ui.adopted_paths
    BY <1>2, <1>6 DEF Alike
  <2> QED
    BY <1>2, <1>4, <1>9, <2>1, <2>2, EndsKeeps
<1> QED
  BY <1>1, <1>5, <1>8, <1>9 DEF ObserveRetire

(* observe starts nothing.                                                 *)
LEMMA OnlyStep ==
    ASSUME IInv, ObserveOnly
    PROVE  IInv'
<1>1. PICK v : v = Observed
  OBVIOUS
<1>2. /\ v \in Views /\ v.u.slot = ui.slot /\ ~v.u.discard
      /\ v.u.adopted_paths \subseteq ui.adopted_paths
      /\ Fits(v.u, v.s, NoReply, NoReply, Of(Queued, ui.slot), journals, disk, Staying)
      /\ ~ui.discard /\ Ends(v.u, v.s) /\ queue' = queue
  BY <1>1, ObservedFits DEF ObserveOnly
<1>3. v.u \in Window /\ v.s \in Shared
  BY <1>2 DEF Views
<1> QED
  BY <1>2, <1>3, EndsKeeps

(* observe appends the text to the current journal.                        *)
LEMMA AppendStep ==
    ASSUME IInv, ObserveAppend
    PROVE  IInv'
<1>1. PICK v : v = Observed
  OBVIOUS
<1>2. /\ v \in Views /\ v.u.slot = ui.slot /\ ~v.u.discard
      /\ v.u.adopted_paths \subseteq ui.adopted_paths
      /\ Fits(v.u, v.s, NoReply, NoReply, Of(Queued, ui.slot), journals, disk, Staying)
      /\ ~ui.discard
  BY <1>1, ObservedFits DEF ObserveAppend
<1>3. /\ v.u \in Window /\ v.s \in Shared /\ ui.slot \in Slots /\ JournalsFit(journals)
      /\ doc \in Document /\ journals \in Seq(Journal)
  BY <1>2 DEF Views, Window, IInv, QueueInv, Shape
<1>4. /\ ~v.u.retirement /\ v.u.retire_paths = {} /\ v.u.pending = "none"
      /\ v.u.current # None /\ v.s.durable /\ ~v.s.error
  BY <1>1 DEF ObserveAppend, NothingToStart, IncrementalAllowed
<1>5. /\ Of(Queued, ui.slot) = {}
      /\ StatusFits(v.u, v.s, journals) /\ CurrentKept(v.u, journals, disk, Staying)
  BY <1>2, <1>4, IdleFits
<1>6. v.u.current \in DOMAIN journals /\ journals[v.u.current].slot = ui.slot
  BY <1>2, <1>4 DEF Fits, OwnFits
<1>7. /\ journals[v.u.current].dir \in SlotDirectories(ui.slot)
      /\ journals[v.u.current].dir \in Directories
  BY <1>3, <1>6, SlotsApart DEF JournalsFit
<1>8. CASE /\ queue' = Append(queue, [Job("incremental", v) EXCEPT
                                  !.dir = journals[v.u.current].dir, !.journal = v.u.current])
           /\ Ends([v.u EXCEPT !.pending = "incremental", !.current = None,
                               !.appending = journals[v.u.current].dir,
                               !.captured = doc.state], v.s)
  <2>1. PICK q : q = [Job("incremental", v) EXCEPT
                         !.dir = journals[v.u.current].dir, !.journal = v.u.current]
    OBVIOUS
  <2>2. q = [kind |-> "incremental", slot |-> ui.slot, step |-> "queued",
             dir |-> journals[v.u.current].dir, state |-> doc.state, path |-> 0,
             journal |-> v.u.current, paths |-> {}, done |-> {}]
    BY <1>2, <2>1 DEF Job
  <2>3. v.u.current \in Nat /\ doc.state \in Nat /\ doc.state # None /\ None \in Nat
    BY <1>3 DEF Window, Document, None
  <2>4. q \in Jobs
    BY <1>3, <1>7, <2>2, <2>3 DEF Jobs, Kinds, Nowhere
  <2>5. /\ q.kind = "incremental" /\ q.slot = ui.slot /\ q.step = "queued"
        /\ q.journal = v.u.current /\ q.dir = journals[v.u.current].dir
        /\ q.paths = {} /\ q.done = {} /\ q.state = doc.state
    BY <2>2
  <2>6. PICK y \in Window : y = [v.u EXCEPT !.pending = "incremental", !.current = None,
                                            !.appending = journals[v.u.current].dir,
                                            !.captured = doc.state]
    BY <1>3, <1>7, <2>3 DEF Window, Nowhere
  <2>7. /\ y.slot = ui.slot /\ ~y.discard /\ y.adopted_paths = v.u.adopted_paths
        /\ y.retire_paths = {} /\ ~y.retirement /\ y.pending = "incremental"
        /\ y.current = None /\ y.previous = v.u.previous
    BY <1>2, <1>3, <1>4, <2>6 DEF Window
  <2>8. Queueable(q, y)
    BY <1>4, <1>6, <1>7, <2>3, <2>4, <2>5 DEF Queueable, JobFits
  <2>9. OwnFits(y, journals)
    BY <1>2, <2>7 DEF Fits, OwnFits
  <2>10. RetireFits(y, NoReply, {q})
    BY <2>5, <2>7, NothingSaid DEF RetireFits
  <2>11. Front(v.u.current, y, v.s, journals, disk, Staying)
    BY <1>4, <1>5, <1>6, <2>7 DEF Front, StatusFits, CurrentKept
  <2>12. AppendFits(y, v.s, NoReply, {q}, journals, disk, Staying)
    BY <2>5, <2>7, <2>11, NothingSaid DEF AppendFits
  <2>13. Fits(y, v.s, NoReply, NoReply, {q}, journals, disk, Staying)
    BY <2>7, <2>9, <2>10, <2>12 DEF Fits
  <2> QED
    BY <1>2, <1>3, <1>5, <1>8, <2>1, <2>6, <2>7, <2>8, <2>13, EndsKeeps
<1>9. CASE queue' = queue /\ Ends(v.u, [v.s EXCEPT !.error = TRUE])
  <2>1. PICK s \in Shared : /\ s = [v.s EXCEPT !.error = TRUE]
                            /\ Fits(v.u, s, NoReply, NoReply, {}, journals, disk, Staying)
    BY <1>2, <1>3, <1>5, FitsError
  <2> QED
    BY <1>2, <1>3, <1>5, <1>9, <2>1, EndsKeeps
<1> QED
  BY <1>1, <1>8, <1>9 DEF ObserveAppend

(* observe queues a full copy, for the directory the current journal does  *)
(* not own.                                                                *)
LEMMA FullStep ==
    ASSUME IInv, ObserveFull
    PROVE  IInv'
<1>1. PICK v : v = Observed
  OBVIOUS
<1>2. /\ v \in Views /\ v.u.slot = ui.slot /\ ~v.u.discard
      /\ v.u.adopted_paths \subseteq ui.adopted_paths
      /\ Fits(v.u, v.s, NoReply, NoReply, Of(Queued, ui.slot), journals, disk, Staying)
      /\ ~ui.discard
  BY <1>1, ObservedFits DEF ObserveFull
<1>3. /\ v.u \in Window /\ v.s \in Shared /\ ui.slot \in Slots /\ JournalsFit(journals)
      /\ doc \in Document
  BY <1>2 DEF Views, Window, IInv, QueueInv, Shape
<1>4. ~v.u.retirement /\ v.u.retire_paths = {} /\ v.u.pending = "none"
  BY <1>1 DEF ObserveFull, NothingToStart
<1>5. /\ Of(Queued, ui.slot) = {}
      /\ StatusFits(v.u, v.s, journals) /\ CurrentKept(v.u, journals, disk, Staying)
  BY <1>2, <1>4, IdleFits
<1>6. /\ Target(v) \in SlotDirectories(ui.slot) /\ Target(v) \in Directories
      /\ v.u.current # None => Target(v) # journals[v.u.current].dir
  <2>1. v.u.slot \in Slots /\ v.u.generation \in Nat
    BY <1>3 DEF Window
  <2> QED
    BY <1>2, <2>1, SlotsApart, TargetElsewhere
<1>7. PICK P \in SUBSET v.u.previous : P = {j \in v.u.previous : journals[j].dir # Target(v)}
  OBVIOUS
<1>8. PICK x \in Window : x = [v.u EXCEPT !.previous = P]
  BY <1>3 DEF Window
<1>9. Alike(x, v.u) /\ x.discard = v.u.discard
  BY <1>3, <1>7, <1>8 DEF Alike, Window
<1>10. CASE /\ queue' = Append(queue, [Job("full", v) EXCEPT
                                   !.dir = Target(v), !.path = v.u.path_changes])
            /\ Ends([x EXCEPT !.pending = "full", !.pending_generation = v.u.generation + 1,
                              !.pending_path_changes = v.u.path_changes,
                              !.captured = doc.state], v.s)
  <2>1. PICK q : q = [Job("full", v) EXCEPT !.dir = Target(v), !.path = v.u.path_changes]
    OBVIOUS
  <2>2. q = [kind |-> "full", slot |-> ui.slot, step |-> "queued", dir |-> Target(v),
             state |-> doc.state, path |-> v.u.path_changes, journal |-> None,
             paths |-> {}, done |-> {}]
    BY <1>2, <2>1 DEF Job
  <2>3. /\ v.u.path_changes \in Nat /\ v.u.generation + 1 \in Nat
        /\ doc.state \in Nat /\ doc.state # None /\ None \in Nat
    BY <1>3 DEF Window, Document, None
  <2>4. q \in Jobs
    BY <1>3, <1>6, <2>2, <2>3 DEF Jobs, Kinds, Nowhere
  <2>5. /\ q.kind = "full" /\ q.slot = ui.slot /\ q.step = "queued" /\ q.journal = None
        /\ q.dir = Target(v) /\ q.paths = {} /\ q.done = {} /\ q.state = doc.state
    BY <2>2
  <2>6. PICK y \in Window : y = [x EXCEPT !.pending = "full",
                                   !.pending_generation = v.u.generation + 1,
                                   !.pending_path_changes = v.u.path_changes,
                                   !.captured = doc.state]
    BY <2>3 DEF Window
  <2>7. /\ y.slot = ui.slot /\ ~y.discard /\ y.adopted_paths = v.u.adopted_paths
        /\ y.retire_paths = {} /\ ~y.retirement /\ y.pending = "full"
        /\ y.current = v.u.current /\ y.previous \subseteq v.u.previous
        /\ y.appending = v.u.appending
    BY <1>2, <1>4, <1>9, <2>6 DEF Window, Alike
  <2>8. Queueable(q, y)
    BY <1>6, <2>3, <2>4, <2>5 DEF Queueable, JobFits
  <2>9. OwnFits(y, journals)
    BY <1>2, <1>4, <2>7 DEF Fits, OwnFits
  <2>10. RetireFits(y, NoReply, {q})
    BY <2>5, <2>7, NothingSaid DEF RetireFits
  <2>11. StatusFits(y, v.s, journals) /\ CurrentKept(y, journals, disk, Staying)
    BY <1>4, <1>5, <2>7 DEF StatusFits, CurrentKept
  <2>12. FullFits(y, v.s, NoReply, {q}, journals, disk, Staying)
    BY <1>6, <2>5, <2>7, <2>11, NothingSaid DEF FullFits
  <2>13. Fits(y, v.s, NoReply, NoReply, {q}, journals, disk, Staying)
    BY <2>7, <2>9, <2>10, <2>12 DEF Fits
  <2> QED
    BY <1>2, <1>3, <1>5, <1>10, <2>1, <2>6, <2>7, <2>8, <2>13, EndsKeeps
<1>11. CASE queue' = queue /\ Ends(x, [v.s EXCEPT !.error = TRUE])
  <2>1. Fits(x, v.s, NoReply, NoReply, {}, journals, disk, Staying)
    BY <1>2, <1>5, <1>9, FitsAlike
  <2>2. PICK s \in Shared : /\ s = [v.s EXCEPT !.error = TRUE]
                            /\ Fits(x, s, NoReply, NoReply, {}, journals, disk, Staying)
    BY <1>3, <2>1, FitsError
  <2>3. x.slot = ui.slot /\ ~x.discard /\ x.adopted_paths \subseteq ui.adopted_paths
    BY <1>2, <1>9 DEF Alike
  <2> QED
    BY <1>2, <1>5, <1>11, <2>2, <2>3, EndsKeeps
<1> QED
  BY <1>1, <1>7, <1>8, <1>10, <1>11 DEF ObserveFull

-----------------------------------------------------------------------------
(* The worker's steps.                                                     *)

(* Journals are added, and never move.                                     *)
Grows(js, hs) ==
    \A j \in DOMAIN js : j \in DOMAIN hs /\ hs[j].dir = js[j].dir /\ hs[j].slot = js[j].slot

(* The running job is the only one of its slot.                            *)
LEMMA HeadJob ==
    ASSUME IInv, queue # <<>>, NEW job, job = Head(queue)
    PROVE  /\ job \in Jobs /\ job \in Queued /\ job.slot \in Slots /\ job.slot <= ui.slot
           /\ JobFits(job, journals) /\ replies[job.slot] = Silent /\ Of(Queued, job.slot) = {job}
           /\ queue \in Seq(Jobs) /\ \A i, k \in DOMAIN queue : queue[i] = queue[k] => i = k
           /\ ~tickets[job.slot].drained
<1>1. queue \in Seq(Jobs) /\ QueueInv /\ TicketInv
  BY DEF IInv, Shape
<1>2. 1 \in DOMAIN queue /\ job = queue[1] /\ job \in Jobs
  BY <1>1, EmptySeq
<1>3. job \in Queued /\ job.slot \in Slots
  BY <1>2 DEF Queued, Jobs
<1>4. Of(Queued, job.slot) = {job}
  BY <1>1, <1>2, <1>3 DEF QueueInv, Of, Queued
<1> QED
  BY <1>1, <1>2, <1>3, <1>4 DEF QueueInv, TicketInv

(* It is answered and leaves the queue, or changes.                        *)
LEMMA TailShifts ==
    ASSUME NEW T, NEW q \in Seq(T), q # <<>>, NEW p, p = Tail(q)
    PROVE  p \in Seq(T) /\ Len(p) = Len(q) - 1 /\ \A i \in 1 .. Len(p) : p[i] = q[i + 1]
BY HeadTailProperties

(* When the running job ends, the others move up.                          *)
LEMMA JobShifts ==
    ASSUME IInv, queue # <<>>, NEW job, job = Head(queue), NEW p \in Seq(Jobs), p = queue',
           Len(p) = Len(queue) - 1, \A i \in 1 .. Len(p) : p[i] = queue[i + 1]
    PROVE  /\ queue' \in Seq(Jobs) /\ Of(Queued', job.slot) = {}
           /\ \A i, k \in DOMAIN queue' : queue'[i].slot = queue'[k].slot => i = k
           /\ \A s \in Slots : s # job.slot => Of(Queued', s) = Of(Queued, s)
<1>1. /\ queue \in Seq(Jobs) /\ \A i, k \in DOMAIN queue : queue[i] = queue[k] => i = k
      /\ Of(Queued, job.slot) = {job} /\ QueueInv
  BY HeadJob DEF IInv
<1>2. /\ queue' \in Seq(Jobs)
      /\ \A i \in DOMAIN queue' : i + 1 \in DOMAIN queue /\ queue'[i] = queue[i + 1] /\ i \in Nat
      /\ Queued' = Queued \ {job}
  <2>1. /\ DOMAIN queue = 1 .. Len(queue) /\ Len(queue) \in Nat /\ Len(queue) >= 1
        /\ job = queue[1] /\ 1 \in DOMAIN queue /\ DOMAIN p = 1 .. Len(p)
    BY <1>1, EmptySeq
  <2>2. \A i \in DOMAIN p : i + 1 \in DOMAIN queue /\ p[i] = queue[i + 1] /\ i \in Nat
    BY <2>1
  <2>3. \A i \in DOMAIN queue : i # 1 => i - 1 \in DOMAIN p /\ p[i - 1] = queue[i]
    BY <2>1
  <2>4. ASSUME NEW i \in DOMAIN p PROVE p[i] # job /\ p[i] \in Queued
    <3>1. i + 1 \in DOMAIN queue /\ i + 1 # 1 /\ p[i] = queue[i + 1]
      BY <2>2
    <3> QED
      BY <1>1, <2>1, <3>1 DEF Queued
  <2>5. ASSUME NEW i \in DOMAIN queue, queue[i] # job PROVE \E k \in DOMAIN p : queue[i] = p[k]
    <3>1. i # 1
      BY <2>1, <2>5
    <3> QED
      BY <2>3, <3>1
  <2>6. Queued' = Queued \ {job}
    BY <2>4, <2>5 DEF Queued
  <2> QED
    BY <2>2, <2>6
<1>3. \A i, k \in DOMAIN queue' : queue'[i].slot = queue'[k].slot => i = k
  BY <1>1, <1>2 DEF QueueInv
<1>4. Of(Queued', job.slot) = {} /\ \A s \in Slots : s # job.slot => Of(Queued', s) = Of(Queued, s)
  BY <1>1, <1>2 DEF Of
<1> QED
  BY <1>2, <1>3, <1>4

(* When the running job changes, the others stay.                          *)
LEMMA JobChanges ==
    ASSUME IInv, queue # <<>>, NEW job, job = Head(queue), NEW x \in Jobs, x.slot = job.slot,
           queue' \in Seq(Jobs), DOMAIN queue' = DOMAIN queue, queue'[1] = x,
           \A i \in DOMAIN queue : i # 1 => queue'[i] = queue[i]
    PROVE  /\ queue' \in Seq(Jobs) /\ Of(Queued', job.slot) = {x}
           /\ \A i, k \in DOMAIN queue' : queue'[i].slot = queue'[k].slot => i = k
           /\ \A s \in Slots : s # job.slot => Of(Queued', s) = Of(Queued, s)
<1>1. /\ queue \in Seq(Jobs) /\ \A i, k \in DOMAIN queue : queue[i] = queue[k] => i = k
      /\ Of(Queued, job.slot) = {job} /\ QueueInv
  BY HeadJob DEF IInv
<1>2. 1 \in DOMAIN queue /\ job = queue[1]
  BY <1>1, EmptySeq
<1>3. Queued' = (Queued \ {job}) \cup {x}
  BY <1>1, <1>2 DEF Queued
<1>4. \A i \in DOMAIN queue : queue'[i].slot = queue[i].slot
  BY <1>2
<1>5. \A i, k \in DOMAIN queue' : queue'[i].slot = queue'[k].slot => i = k
  BY <1>1, <1>2, <1>4 DEF QueueInv
<1>6. Of(Queued', job.slot) = {x} /\ \A s \in Slots : s # job.slot => Of(Queued', s) = Of(Queued, s)
  BY <1>1, <1>3 DEF Of
<1> QED
  BY <1>5, <1>6

(* A job that ends leaves its slot without one.                            *)
LEMMA JobLeaves ==
    ASSUME IInv, queue # <<>>, NEW job, job = Head(queue), queue' = Tail(queue)
    PROVE  /\ queue' \in Seq(Jobs) /\ Of(Queued', job.slot) = {}
           /\ \A i, k \in DOMAIN queue' : queue'[i].slot = queue'[k].slot => i = k
           /\ \A s \in Slots : s # job.slot => Of(Queued', s) = Of(Queued, s)
<1>1. PICK p \in Seq(Jobs) : p = queue' /\ Len(p) = Len(queue) - 1
                               /\ \A i \in 1 .. Len(p) : p[i] = queue[i + 1]
  BY HeadJob, TailShifts
<1> QED
  BY <1>1, JobShifts, Zenon

(* What the running job of slot r leaves: at most the job x itself, and an *)
(* answer once there is none.                                              *)
JobOf(r, x) ==
    /\ x.slot = r /\ JobFits(x, journals')
    /\ \A d \in x.done : Gone(disk', d)
    /\ \A q \in Of(Queued, r) : x.paths = q.paths

AnswerOf(a, r) ==
    /\ a.retirement.paths \subseteq Reach(r)
    /\ \A d \in a.retirement.paths : Gone(disk', d)
    /\ a.retirement.journal = None
    /\ a.checkpoint.journal # None => /\ a.checkpoint.journal \in DOMAIN journals'
                                      /\ journals'[a.checkpoint.journal].slot = r

(* Nothing comes back outside the job's slot, and what was gone stays so   *)
(* for its retired paths.                                                  *)
LEMMA WorkerKeeps ==
    ASSUME IInv, NEW r \in Slots, r <= ui.slot, ~tickets[r].drained, Of(Queued, r) # {},
           UNCHANGED <<doc, ui, tickets>>,
           status' \in [Slots -> Shared], disk' \in [Directories -> OnDisk], cover' \in Nat,
           journals' \in Seq(Journal), Grows(journals, journals'), JournalsFit(journals'),
           baselines' \in Seq(Copies),
           \A i \in DOMAIN baselines' : baselines'[i].journal \in DOMAIN journals',
           queue' \in Seq(Jobs),
           \A i, k \in DOMAIN queue' : queue'[i].slot = queue'[k].slot => i = k,
           \A s \in Slots : s # r => Of(Queued', s) = Of(Queued, s),
           \A x \in Of(Queued', r) : JobOf(r, x),
           replies' \in [Slots -> [checkpoint : Answers, retirement : Answers]],
           \A s \in Slots : s # r => replies'[s] = replies[s],
           AnswerOf(replies'[r], r), Of(Queued', r) # {} => replies'[r] = Silent,
           Adopted \in ui.adopted_paths => disk'[Adopted] = disk[Adopted],
           \A d \in Directories \ SlotDirectories(r) : Gone(disk, d) => Gone(disk', d)
    PROVE  Shape' /\ QueueInv' /\ RemovedInv' /\ TicketInv' /\ AdoptedInv'
<1>1. Shape /\ QueueInv /\ RemovedInv /\ TicketInv /\ AdoptedInv
  BY DEF IInv
<1>2. /\ replies' \in [Slots -> [checkpoint : Answers, retirement : Answers]]
      /\ \A s \in Slots : s # r => replies'[s] = replies[s]
  OBVIOUS
<1>3. Shape'
  BY <1>1, <1>2 DEF Shape
<1>4. \A x \in Queued' : x.slot \in Slots
  BY JobsAre DEF Queued, Jobs
<1>5. \A x \in Queued' : x.slot # r => x \in Queued
  BY <1>4 DEF Of
<1>6. \A x \in Queued' : x.slot = r => x \in Of(Queued', r)
  BY DEF Of
<1>7. \A s \in Slots : s # r => Reach(s) \subseteq Directories \ SlotDirectories(r)
  BY SlotsApart
<1>8. \A q : JobFits(q, journals) => JobFits(q, journals')
  BY DEF JobFits, Grows
<1>9. QueueInv'
  <2>1. ASSUME NEW x \in Queued'
        PROVE  x.slot <= ui'.slot /\ replies'[x.slot] = Silent /\ JobFits(x, journals')
    <3>1. CASE x.slot = r
      BY <1>2, <1>6, <3>1 DEF JobOf
    <3>2. CASE x.slot # r
      BY <1>1, <1>2, <1>4, <1>5, <1>8, <3>2 DEF QueueInv
    <3> QED
      BY <3>1, <3>2
  <2> QED
    BY <2>1 DEF QueueInv
<1>10. RemovedInv'
  <2>1. ASSUME NEW x \in Queued', NEW d \in x.done
        PROVE  Gone(disk', d)
    <3>1. CASE x.slot = r
      BY <1>6, <2>1, <3>1 DEF JobOf
    <3>2. CASE x.slot # r
      <4>1. x \in Queued /\ JobFits(x, journals) /\ x.slot \in Slots /\ Gone(disk, d)
        BY <1>1, <1>4, <1>5, <2>1, <3>2 DEF QueueInv, RemovedInv
      <4>2. d \in Reach(x.slot)
        BY <2>1, <4>1 DEF JobFits, Kinds
      <4> QED
        BY <1>7, <3>2, <4>1, <4>2
    <3> QED
      BY <3>1, <3>2
  <2>2. ASSUME NEW s \in Slots
        PROVE  /\ replies'[s].retirement.paths \subseteq Reach(s)
               /\ \A d \in replies'[s].retirement.paths : Gone(disk', d)
               /\ replies'[s].retirement.journal = None
               /\ replies'[s].checkpoint.journal # None =>
                    /\ replies'[s].checkpoint.journal \in DOMAIN journals'
                    /\ journals'[replies'[s].checkpoint.journal].slot = s
    <3>1. CASE s = r
      BY <1>2, <3>1 DEF AnswerOf
    <3>2. CASE s # r
      <4>1. replies'[s] = replies[s] /\ Reach(s) \subseteq Directories \ SlotDirectories(r)
        BY <1>2, <1>7, <3>2
      <4>2. /\ replies[s].retirement.paths \subseteq Reach(s)
            /\ \A d \in replies[s].retirement.paths : Gone(disk, d)
            /\ replies[s].retirement.journal = None
            /\ replies[s].checkpoint.journal # None =>
                 /\ replies[s].checkpoint.journal \in DOMAIN journals
                 /\ journals[replies[s].checkpoint.journal].slot = s
        BY <1>1 DEF RemovedInv
      <4>3. \A d \in replies[s].retirement.paths : Gone(disk', d)
        BY <4>1, <4>2
      <4> QED
        BY <4>1, <4>2, <4>3 DEF Grows
    <3> QED
      BY <3>1, <3>2
  <2> QED
    BY <2>1, <2>2 DEF RemovedInv
<1>11. TicketInv'
  <2>1. ASSUME NEW s \in Slots, tickets[s].drained
        PROVE  /\ Of(Queued', s) = {} /\ replies'[s] = Silent
               /\ \A d \in SlotDirectories(s) \ tickets[s].paths : Gone(disk', d)
               /\ tickets[s].phase \in {"purging", "complete", "cleanup"} =>
                     \A d \in tickets[s].paths : Gone(disk', d)
    <3>1. s # r
      BY <2>1
    <3>2. /\ Of(Queued, s) = {} /\ replies[s] = Silent
          /\ \A d \in SlotDirectories(s) \ tickets[s].paths : Gone(disk, d)
          /\ tickets[s].paths \subseteq Reach(s)
          /\ tickets[s].phase \in {"purging", "complete", "cleanup"} =>
                \A d \in tickets[s].paths : Gone(disk, d)
      BY <1>1, <2>1 DEF TicketInv
    <3>3. SlotDirectories(s) \subseteq Reach(s)
      BY DEF Reach
    <3> QED
      BY <1>2, <1>7, <3>1, <3>2, <3>3
  <2>2. ASSUME NEW s \in Slots, s > ui.slot
        PROVE  s # r /\ replies'[s] = replies[s]
    <3>1. ui.slot \in Slots
      BY <1>1 DEF Shape, Window
    <3>2. s # r
      BY <2>2, <3>1 DEF Slots
    <3> QED
      BY <1>2, <3>2
  <2>3. ASSUME NEW s \in Slots, NEW j \in tickets[s].journals
        PROVE  j \in DOMAIN journals' /\ journals'[j].slot = s
    <3>1. j \in DOMAIN journals /\ journals[j].slot = s
      BY <1>1, <2>3 DEF TicketInv
    <3> QED
      BY <3>1 DEF Grows
  <2> QED
    BY <1>1, <2>1, <2>2, <2>3 DEF TicketInv
<1>12. AdoptedInv'
  <2>1. ASSUME Adopted \in ui.adopted_paths, NEW x \in Queued'
        PROVE  Adopted \notin x.paths
    <3>1. CASE x.slot = r
      <4>1. PICK q \in Of(Queued, r) : x.paths = q.paths
        BY <1>6, <3>1 DEF JobOf
      <4> QED
        BY <1>1, <2>1, <4>1 DEF AdoptedInv, Of
    <3>2. CASE x.slot # r
      BY <1>1, <1>5, <2>1, <3>2 DEF AdoptedInv
    <3> QED
      BY <3>1, <3>2
  <2> QED
    BY <1>1, <2>1 DEF AdoptedInv
<1> QED
  BY <1>3, <1>9, <1>10, <1>11, <1>12

(* A step that does not touch the slot in use leaves its parts fitting.    *)
LEMMA OtherFits ==
    ASSUME IInv, ui' = ui, cover' = cover,
           \/ ui.discard
           \/ /\ Of(Queued', ui.slot) = Of(Queued, ui.slot)
              /\ replies'[ui.slot] = replies[ui.slot]
              /\ Grows(journals, journals')
              /\ \A j \in DOMAIN journals :
                    journals[j].slot = ui.slot => journals'[j].root = journals[j].root
              /\ \A d \in SlotDirectories(ui.slot) :
                    disk'[d].extent = disk[d].extent /\ disk'[d].root = disk[d].root
              /\ status'[ui.slot].dir = status[ui.slot].dir
              /\ status'[ui.slot].durable = status[ui.slot].durable
              /\ status[ui.slot].error => status'[ui.slot].error
    PROVE  FitsInv'
<1>1. CASE ui.discard
  BY <1>1 DEF IInv, FitsInv, Dropped
<1>2. CASE ~ui.discard
  <2> DEFINE mine == Of(Queued, ui.slot)
  <2>1. ui \in Window /\ JournalsFit(journals)
    BY DEF IInv, Shape, QueueInv
  <2>2. Fits(ui, status[ui.slot], replies[ui.slot].checkpoint, replies[ui.slot].retirement,
             mine, journals, disk, cover)
    BY <1>2 DEF IInv, FitsInv
  <2>3. \A q \in mine : q.kind # "retire" => q.dir \in SlotDirectories(ui.slot)
    BY DEF IInv, QueueInv, JobFits, Of
  <2>4. \A j \in DOMAIN journals : /\ j \in DOMAIN journals'
                                   /\ journals'[j].dir = journals[j].dir
                                   /\ journals'[j].slot = journals[j].slot
                                   /\ journals[j].slot = ui.slot => journals'[j].root = journals[j].root
    BY <1>2 DEF Grows
  <2> HIDE DEF mine
  <2>5. Fits(ui, status'[ui.slot], replies[ui.slot].checkpoint, replies[ui.slot].retirement,
             mine, journals', disk', cover)
    BY <1>2, <2>1, <2>2, <2>3, <2>4, FitsFrame
  <2>6. Fits(ui', status'[ui'.slot], replies'[ui'.slot].checkpoint,
             replies'[ui'.slot].retirement, Of(Queued', ui'.slot), journals', disk', cover')
    BY <1>2, <2>5 DEF mine
  <2> QED
    BY <1>2, <2>6 DEF FitsInv
<1> QED
  BY <1>1, <1>2

(* A worker's step for a slot that is not in use.                          *)
LEMMA WorkerFits ==
    ASSUME IInv, NEW r \in Slots, ui.discard \/ r # ui.slot, ui' = ui, cover' = cover,
           Grows(journals, journals'),
           \A j \in DOMAIN journals : journals[j].slot # r => journals'[j].root = journals[j].root,
           \A d \in Directories \ Reach(r) : disk'[d] = disk[d],
           \A s \in Slots : s # r => replies'[s] = replies[s] /\ status'[s] = status[s]
                                      /\ Of(Queued', s) = Of(Queued, s)
    PROVE  FitsInv'
<1>1. ui.slot \in Slots
  BY DEF IInv, Shape, Window
<1>2. r # ui.slot => SlotDirectories(ui.slot) \subseteq Directories \ Reach(r)
  BY <1>1, SlotsApart
<1>3. CASE ui.discard
  BY <1>3, OtherFits
<1>4. CASE r # ui.slot
  <2>1. /\ Of(Queued', ui.slot) = Of(Queued, ui.slot) /\ replies'[ui.slot] = replies[ui.slot]
        /\ status'[ui.slot] = status[ui.slot]
    BY <1>1, <1>4
  <2>2. \A d \in SlotDirectories(ui.slot) : disk'[d] = disk[d]
    BY <1>2, <1>4
  <2>3. \A j \in DOMAIN journals : journals[j].slot = ui.slot => journals'[j].root = journals[j].root
    BY <1>4
  <2> QED
    BY <2>1, <2>2, <2>3, OtherFits
<1> QED
  BY <1>3, <1>4

(* What the running job of the slot in use is about.                       *)
LEMMA OwnJob ==
    ASSUME IInv, queue # <<>>, NEW job, job = Head(queue), job.slot = ui.slot, ~ui.discard,
           NEW s, s = status[ui.slot]
    PROVE  /\ OwnFits(ui, journals) /\ ui.adopted_paths \subseteq {Adopted}
           /\ job.kind = "full" =>
                /\ ui.pending = "full" /\ ~ui.retirement
                /\ CurrentKept(ui, journals, disk, cover)
                /\ ui.current # None => job.dir # journals[ui.current].dir
                /\ IF job.step = "created" THEN s.dir = job.dir /\ disk[job.dir].extent = "journal"
                   ELSE StatusFits(ui, s, journals)
           /\ job.kind = "incremental" =>
                /\ ui.pending = "incremental" /\ ~ui.retirement /\ ui.current = None
                /\ Front(job.journal, ui, s, journals, disk, cover)
           /\ job.kind = "retire" =>
                /\ ui.pending = "none" /\ ui.retirement /\ job.paths \subseteq ui.retire_paths
                /\ StatusFits(ui, s, journals) /\ CurrentKept(ui, journals, disk, cover)
<1>1. Of(Queued, ui.slot) = {job} /\ replies[ui.slot] = Silent /\ ui \in Window
  BY HeadJob DEF IInv, Shape
<1>2. Fits(ui, s, NoReply, NoReply, {job}, journals, disk, cover)
  BY <1>1 DEF IInv, FitsInv, Silent
<1>3. OwnFits(ui, journals) /\ RetireFits(ui, NoReply, {job})
  BY <1>2 DEF Fits
<1>4. ui.adopted_paths \subseteq {Adopted} /\ ui.pending \in {"none", "full", "incremental"}
  BY <1>1 DEF Window
<1>5. ui.pending = "none" => job.kind = "retire"
  BY <1>3 DEF RetireFits
<1>6. ui.pending = "full" => job.kind = "full" /\ FullFits(ui, s, NoReply, {job}, journals, disk, cover)
  BY <1>2 DEF Fits, FullFits
<1>7. ui.pending = "incremental" =>
        job.kind = "incremental" /\ AppendFits(ui, s, NoReply, {job}, journals, disk, cover)
  BY <1>2 DEF Fits, AppendFits
<1>8. CASE job.kind = "full"
  <2>1. ui.pending = "full" /\ ~ui.retirement
    BY <1>3, <1>4, <1>5, <1>7, <1>8 DEF OwnFits
  <2> QED
    BY <1>3, <1>4, <1>6, <1>8, <2>1, NothingSaid DEF FullFits
<1>9. CASE job.kind = "incremental"
  <2>1. ui.pending = "incremental" /\ ~ui.retirement
    BY <1>3, <1>4, <1>5, <1>6, <1>9 DEF OwnFits
  <2> QED
    BY <1>3, <1>4, <1>7, <1>9, <2>1 DEF AppendFits
<1>10. CASE job.kind = "retire"
  <2>1. ui.pending = "none"
    BY <1>4, <1>6, <1>7, <1>10
  <2> QED
    BY <1>2, <1>3, <1>4, <1>10, <2>1 DEF Fits, RetireFits
<1> QED
  BY <1>3, <1>4, <1>8, <1>9, <1>10

(* What has to stay stays while its directory is not touched.              *)
LEMMA KeptElsewhere ==
    ASSUME NEW u, NEW js, NEW hs, NEW ds, NEW es, NEW k,
           CurrentKept(u, js, ds, k), OwnFits(u, js), Grows(js, hs),
           u.current # None => /\ hs[u.current].root = js[u.current].root
                               /\ es[js[u.current].dir] = ds[js[u.current].dir]
    PROVE  CurrentKept(u, hs, es, k) /\ OwnFits(u, hs)
<1>1. OwnFits(u, hs)
  BY DEF OwnFits, Grows
<1>2. CurrentKept(u, hs, es, k)
  BY DEF CurrentKept, OwnFits, Kept, Grows
<1> QED
  BY <1>1, <1>2

(* An answer given to a slot that had none.                                *)
LEMMA SilentExcept ==
    \A x : /\ [Silent EXCEPT !.checkpoint = x] = [checkpoint |-> x, retirement |-> NoReply]
           /\ [Silent EXCEPT !.retirement = x] = [checkpoint |-> NoReply, retirement |-> x]
BY DEF Silent

(* The answer to a checkpoint job is the only one of its slot.             *)
LEMMA Answered ==
    ASSUME IInv, queue # <<>>, NEW job, job = Head(queue), NEW ok \in BOOLEAN, NEW j \in Nat,
           CheckpointReply(ok, j)
    PROVE  /\ replies' \in [Slots -> [checkpoint : Answers, retirement : Answers]]
           /\ \A s \in Slots : s # job.slot => replies'[s] = replies[s]
           /\ replies'[job.slot].retirement = NoReply
           /\ replies'[job.slot].checkpoint.kind = job.kind
           /\ replies'[job.slot].checkpoint.ok = ok
           /\ replies'[job.slot].checkpoint.journal = j
<1>1. /\ job \in Jobs /\ job.slot \in Slots /\ replies[job.slot] = Silent
      /\ replies \in [Slots -> [checkpoint : Answers, retirement : Answers]]
  BY HeadJob DEF IInv, Shape
<1>2. PICK c \in Answers : c = [kind |-> job.kind, ok |-> ok, journal |-> j, paths |-> {}]
  BY <1>1 DEF Answers, Jobs
<1>3. c.kind = job.kind /\ c.ok = ok /\ c.journal = j
  BY <1>2
<1>4. replies' = [replies EXCEPT ![job.slot] = [replies[job.slot] EXCEPT !.checkpoint = c]]
  BY <1>2 DEF CheckpointReply
<1>5. PICK a \in [checkpoint : Answers, retirement : Answers] :
         a = [checkpoint |-> c, retirement |-> NoReply]
  BY NothingSaid
<1>6. a.checkpoint = c /\ a.retirement = NoReply
  BY <1>5
<1>7. replies' = [replies EXCEPT ![job.slot] = a]
  BY <1>1, <1>4, <1>5, SilentExcept
<1> QED
  BY <1>1, <1>3, <1>6, <1>7

(* One directory changes on disk.                                          *)
LEMMA DiskChanges ==
    ASSUME disk \in [Directories -> OnDisk], NEW d \in Directories, NEW x \in OnDisk,
           NEW ds, ds = [disk EXCEPT ![d] = x]
    PROVE  ds \in [Directories -> OnDisk] /\ ds[d] = x /\ \A e \in Directories : e # d => ds[e] = disk[e]
OBVIOUS

(* An absent directory, and what a copy first makes of one.                *)
LEMMA AbsentIs ==
    /\ Absent \in OnDisk /\ Absent.extent = "absent" /\ Absent.root = None
    /\ \A n \in Nat : LET x == [Absent EXCEPT !.extent = "journal", !.journal = n]
                      IN x \in OnDisk /\ x.extent = "journal" /\ x.root = None
    /\ LET x == [Absent EXCEPT !.extent = "bare"] IN x \in OnDisk /\ x.extent = "bare"
<1>1. Absent \in OnDisk /\ Absent.extent = "absent" /\ Absent.root = None
  BY DEF Absent, OnDisk, Extents, None
<1>2. ASSUME NEW n \in Nat, NEW x, x = [Absent EXCEPT !.extent = "journal", !.journal = n]
      PROVE  x \in OnDisk /\ x.extent = "journal" /\ x.root = None
  BY <1>2 DEF Absent, OnDisk, Extents, None
<1>3. ASSUME NEW x, x = [Absent EXCEPT !.extent = "bare"]
      PROVE  x \in OnDisk /\ x.extent = "bare"
  BY <1>3 DEF Absent, OnDisk, Extents, None
<1> QED
  BY <1>1, <1>2, <1>3

(* A copy that ends before its journal exists.                             *)
LEMMA CopyStops ==
    ASSUME IInv, queue # <<>>, NEW job, job = Head(queue), job.kind = "full",
           job.step # "created", CheckpointReply(FALSE, None),
           UNCHANGED <<doc, ui, status, journals, baselines, tickets, cover>>,
           disk' \in [Directories -> OnDisk],
           \A d \in Directories : d # job.dir => disk'[d] = disk[d]
    PROVE  IInv'
<1> DEFINE r == job.slot
<1>1. /\ job \in Jobs /\ job \in Queued /\ r \in Slots /\ r <= ui.slot
      /\ JobFits(job, journals) /\ Of(Queued, r) = {job} /\ ~tickets[r].drained
  BY HeadJob
<1>2. job.dir \in SlotDirectories(r) /\ job.dir # Adopted
  BY <1>1, SlotsApart DEF JobFits
<1>3. None \in Nat
  BY DEF None
<1>4. PICK ok \in BOOLEAN : ~ok /\ CheckpointReply(ok, None)
  OBVIOUS
<1>5. /\ replies' \in [Slots -> [checkpoint : Answers, retirement : Answers]]
      /\ \A s \in Slots : s # r => replies'[s] = replies[s]
      /\ replies'[r].retirement = NoReply
      /\ replies'[r].checkpoint.kind = "full" /\ ~replies'[r].checkpoint.ok
      /\ replies'[r].checkpoint.journal = None
  BY <1>3, <1>4, Answered
<1>6. /\ queue' \in Seq(Jobs) /\ Of(Queued', r) = {}
      /\ \A i, k \in DOMAIN queue' : queue'[i].slot = queue'[k].slot => i = k
      /\ \A s \in Slots : s # r => Of(Queued', s) = Of(Queued, s)
  <2>1. queue' = Tail(queue)
    BY DEF CheckpointReply
  <2> QED
    BY <2>1, JobLeaves
<1>7. Shape /\ QueueInv /\ Adopted \in Directories
  BY SlotsApart DEF IInv
<1>8. Grows(journals, journals') /\ JournalsFit(journals')
  BY <1>7 DEF Grows, QueueInv
<1>9. AnswerOf(replies'[r], r)
  BY <1>5, NothingSaid DEF AnswerOf
<1>10. \A d \in Directories \ SlotDirectories(r) : disk'[d] = disk[d]
  BY <1>2
<1>11. Shape' /\ QueueInv' /\ RemovedInv' /\ TicketInv' /\ AdoptedInv'
  <2>1. /\ status' \in [Slots -> Shared] /\ cover' \in Nat /\ journals' \in Seq(Journal)
        /\ baselines' \in Seq(Copies)
        /\ \A i \in DOMAIN baselines' : baselines'[i].journal \in DOMAIN journals'
    BY <1>7 DEF Shape, QueueInv
  <2>2. \A d \in Directories \ SlotDirectories(r) : Gone(disk, d) => Gone(disk', d)
    BY <1>10 DEF Gone
  <2>3. Adopted \in ui.adopted_paths => disk'[Adopted] = disk[Adopted]
    BY <1>2, <1>7
  <2> HIDE DEF r
  <2> QED
    BY <1>1, <1>5, <1>6, <1>8, <1>9, <2>1, <2>2, <2>3, WorkerKeeps
<1>12. CASE ui.discard \/ r # ui.slot
  <2>1. \A d \in Directories \ Reach(r) : disk'[d] = disk[d]
    BY <1>10 DEF Reach
  <2>2. \A s \in Slots : s # r => replies'[s] = replies[s] /\ status'[s] = status[s]
                                   /\ Of(Queued', s) = Of(Queued, s)
    BY <1>5, <1>6
  <2>3. FitsInv'
    BY <1>1, <1>8, <1>12, <2>1, <2>2, WorkerFits
  <2> QED
    BY <1>11, <2>3 DEF IInv
<1>13. CASE ~ui.discard /\ r = ui.slot
  <2>1. /\ OwnFits(ui, journals) /\ ui.pending = "full" /\ ~ui.retirement
        /\ CurrentKept(ui, journals, disk, cover)
        /\ ui.current # None => job.dir # journals[ui.current].dir
    BY <1>13, OwnJob
  <2>2. ui.current # None => journals[ui.current].dir \in Directories
    BY <1>7, <1>13, <1>1, <2>1, SlotsApart DEF OwnFits, QueueInv, JournalsFit
  <2>3. CurrentKept(ui, journals', disk', cover) /\ OwnFits(ui, journals')
    BY <1>8, <2>1, <2>2, KeptElsewhere
  <2>4. RetireFits(ui, replies'[ui.slot].retirement, {})
    BY <1>5, <1>13, <2>1, NothingSaid DEF RetireFits
  <2>5. FullFits(ui, status'[ui.slot], replies'[ui.slot].checkpoint, {}, journals', disk', cover)
    BY <1>5, <1>13, <2>3 DEF FullFits
  <2>6. Fits(ui, status'[ui.slot], replies'[ui.slot].checkpoint, replies'[ui.slot].retirement, {}, journals', disk', cover)
    BY <2>1, <2>3, <2>4, <2>5 DEF Fits
  <2>7. FitsInv'
    BY <1>5, <1>6, <1>13, <2>6 DEF FitsInv
  <2> QED
    BY <1>11, <2>7 DEF IInv
<1> QED
  BY <1>12, <1>13

(* A copy that fails before it clears its directory.                       *)
LEMMA FullFailsStep ==
    ASSUME IInv, FullFails
    PROVE  IInv'
<1>1. PICK job : job = Head(queue)
  OBVIOUS
<1>2. /\ queue # <<>> /\ job.kind = "full" /\ job.step = "queued" /\ CheckpointReply(FALSE, None)
      /\ UNCHANGED <<doc, ui, status, journals, baselines, tickets, cover>>
  BY <1>1 DEF FullFails, Running
<1>3. job.dir \in Directories /\ disk \in [Directories -> OnDisk]
  <2>1. job.slot \in Slots /\ JobFits(job, journals)
    BY <1>1, <1>2, HeadJob
  <2> QED
    BY <1>2, <2>1, SlotsApart DEF JobFits, IInv, Shape
<1>4. CASE disk' = disk
  BY <1>1, <1>2, <1>3, <1>4, CopyStops
<1>5. CASE disk' = [disk EXCEPT ![job.dir] = [Absent EXCEPT !.extent = "bare"]]
  <2>1. PICK x \in OnDisk : x = [Absent EXCEPT !.extent = "bare"]
    BY AbsentIs
  <2>2. /\ disk' \in [Directories -> OnDisk]
        /\ \A d \in Directories : d # job.dir => disk'[d] = disk[d]
    BY <1>3, <1>5, <2>1, DiskChanges
  <2> QED
    BY <1>1, <1>2, <2>2, CopyStops
<1> QED
  BY <1>1, <1>4, <1>5 DEF FullFails

(* A copy that fails to create its journal.                                *)
LEMMA FullCreateFailsStep ==
    ASSUME IInv, FullCreateFails
    PROVE  IInv'
<1>1. PICK job : job = Head(queue)
  OBVIOUS
<1>2. /\ queue # <<>> /\ job.kind = "full" /\ job.step = "cleared" /\ CheckpointReply(FALSE, None)
      /\ UNCHANGED <<doc, ui, status, journals, baselines, tickets, cover>>
  BY <1>1 DEF FullCreateFails, Running
<1>3. job.dir \in Directories /\ disk \in [Directories -> OnDisk]
  <2>1. job.slot \in Slots /\ JobFits(job, journals)
    BY <1>1, <1>2, HeadJob
  <2> QED
    BY <1>2, <2>1, SlotsApart DEF JobFits, IInv, Shape
<1>4. PICK extent \in {"absent", "bare"} : disk' = [disk EXCEPT ![job.dir].extent = extent]
  BY <1>1 DEF FullCreateFails
<1>5. PICK x \in OnDisk : x = [disk[job.dir] EXCEPT !.extent = extent]
  BY <1>3 DEF OnDisk, Extents
<1>6. disk' = [disk EXCEPT ![job.dir] = x]
  BY <1>4, <1>5
<1>7. /\ disk' \in [Directories -> OnDisk]
      /\ \A d \in Directories : d # job.dir => disk'[d] = disk[d]
  BY <1>3, <1>6, DiskChanges
<1> QED
  BY <1>1, <1>2, <1>7, CopyStops

(* A full copy goes on: its directory changes, and its job.                *)
LEMMA CopyGoesOn ==
    ASSUME IInv, queue # <<>>, NEW job, job = Head(queue), job.kind = "full",
           NEW x, x \in Jobs, x.slot = job.slot, x.kind = "full", x.dir = job.dir,
           x.state = job.state, x.done = {}, x.paths = job.paths, JobFits(x, journals'),
           queue' \in Seq(Jobs), DOMAIN queue' = DOMAIN queue, queue'[1] = x,
           \A i \in DOMAIN queue : i # 1 => queue'[i] = queue[i],
           UNCHANGED <<doc, ui, replies, tickets, cover>>,
           disk' \in [Directories -> OnDisk],
           \A d \in Directories : d # job.dir => disk'[d] = disk[d],
           journals' \in Seq(Journal), Grows(journals, journals'), JournalsFit(journals'),
           \A j \in DOMAIN journals : journals'[j] = journals[j],
           status' \in [Slots -> Shared],
           \A s \in Slots : s # job.slot => status'[s] = status[s],
           baselines' \in Seq(Copies),
           \A i \in DOMAIN baselines' : baselines'[i].journal \in DOMAIN journals',
           IF x.step = "created"
           THEN status'[job.slot].dir = job.dir /\ disk'[job.dir].extent = "journal"
           ELSE status' = status /\ job.step # "created"
    PROVE  IInv'
<1> DEFINE r == job.slot
<1>1. /\ job \in Jobs /\ job \in Queued /\ r \in Slots /\ r <= ui.slot
      /\ JobFits(job, journals) /\ Of(Queued, r) = {job} /\ ~tickets[r].drained
      /\ replies[r] = Silent
  BY HeadJob
<1>2. job.dir \in SlotDirectories(r) /\ job.dir # Adopted
  BY <1>1, SlotsApart DEF JobFits
<1>3. Shape /\ QueueInv /\ Adopted \in Directories
  BY SlotsApart DEF IInv
<1>4. /\ queue' \in Seq(Jobs) /\ Of(Queued', r) = {x}
      /\ \A i, k \in DOMAIN queue' : queue'[i].slot = queue'[k].slot => i = k
      /\ \A s \in Slots : s # r => Of(Queued', s) = Of(Queued, s)
  BY ZenonT(60), JobChanges
<1>5. \A d \in Directories \ SlotDirectories(r) : disk'[d] = disk[d]
  BY <1>2
<1>6. \A y \in Of(Queued', r) : JobOf(r, y)
  BY <1>1, <1>4 DEF JobOf
<1>7. AnswerOf(replies'[r], r) /\ replies'[r] = Silent
  BY <1>1, NothingSaid DEF AnswerOf, Silent
<1>8. Shape' /\ QueueInv' /\ RemovedInv' /\ TicketInv' /\ AdoptedInv'
  <2>1. /\ cover' \in Nat /\ replies' \in [Slots -> [checkpoint : Answers, retirement : Answers]]
        /\ \A s \in Slots : s # r => replies'[s] = replies[s]
    BY <1>3 DEF Shape
  <2>2. \A d \in Directories \ SlotDirectories(r) : Gone(disk, d) => Gone(disk', d)
    BY <1>5 DEF Gone
  <2>3. Adopted \in ui.adopted_paths => disk'[Adopted] = disk[Adopted]
    BY <1>2, <1>3
  <2> HIDE DEF r
  <2> QED
    BY <1>1, <1>4, <1>6, <1>7, <2>1, <2>2, <2>3, WorkerKeeps
<1>9. CASE ui.discard \/ r # ui.slot
  <2>1. \A d \in Directories \ Reach(r) : disk'[d] = disk[d]
    BY <1>5 DEF Reach
  <2>2. \A s \in Slots : s # r => replies'[s] = replies[s] /\ status'[s] = status[s]
                                   /\ Of(Queued', s) = Of(Queued, s)
    BY <1>4
  <2>3. FitsInv'
    BY <1>1, <1>9, <2>1, <2>2, WorkerFits
  <2> QED
    BY <1>8, <2>3 DEF IInv
<1>10. CASE ~ui.discard /\ r = ui.slot
  <2>1. /\ OwnFits(ui, journals) /\ ui.pending = "full" /\ ~ui.retirement
        /\ CurrentKept(ui, journals, disk, cover)
        /\ ui.current # None => job.dir # journals[ui.current].dir
        /\ job.step # "created" => StatusFits(ui, status[ui.slot], journals)
    BY <1>10, OwnJob
  <2>2. ui.current # None => /\ journals[ui.current].dir \in Directories
                             /\ ui.current \in DOMAIN journals
    BY <1>1, <1>3, <1>10, <2>1, SlotsApart DEF OwnFits, QueueInv, JournalsFit
  <2>3. CurrentKept(ui, journals', disk', cover) /\ OwnFits(ui, journals')
    BY <2>1, <2>2, KeptElsewhere
  <2>4. x.step # "created" => StatusFits(ui, status'[ui.slot], journals')
    BY <2>1, <2>2 DEF StatusFits, Describes
  <2>5. RetireFits(ui, NoReply, {x})
    BY <2>1, NothingSaid DEF RetireFits
  <2>6. FullFits(ui, status'[ui.slot], NoReply, {x}, journals', disk', cover)
    BY <1>10, <2>1, <2>2, <2>3, <2>4, NothingSaid DEF FullFits
  <2>7. Fits(ui, status'[ui.slot], NoReply, NoReply, {x}, journals', disk', cover)
    BY <2>1, <2>3, <2>5, <2>6 DEF Fits
  <2>8. replies'[ui.slot].checkpoint = NoReply /\ replies'[ui.slot].retirement = NoReply
    BY <1>1, <1>10 DEF Silent
  <2>9. FitsInv'
    BY <1>4, <1>10, <2>7, <2>8 DEF FitsInv
  <2> QED
    BY <1>8, <2>9 DEF IInv
<1> QED
  BY <1>9, <1>10

(* A copy clears the directory the current journal is not in.              *)
LEMMA FullClearStep ==
    ASSUME IInv, FullClear
    PROVE  IInv'
<1>1. PICK job : job = Head(queue)
  OBVIOUS
<1>2. /\ queue # <<>> /\ job.kind = "full" /\ job.step = "queued"
      /\ disk' = [disk EXCEPT ![job.dir] = Absent]
      /\ queue' = [queue EXCEPT ![1].step = "cleared"]
      /\ UNCHANGED <<doc, ui, status, journals, baselines, replies, tickets, cover>>
  BY <1>1 DEF FullClear, Running
<1>3. /\ job \in Jobs /\ job.slot \in Slots /\ JobFits(job, journals) /\ queue \in Seq(Jobs)
  BY <1>1, <1>2, HeadJob
<1>4. Shape /\ QueueInv /\ job.dir \in Directories
  BY <1>2, <1>3, SlotsApart DEF JobFits, IInv
<1>5. PICK x \in Jobs : x = [job EXCEPT !.step = "cleared"]
  BY <1>3 DEF Jobs
<1>6. /\ x.slot = job.slot /\ x.kind = job.kind /\ x.dir = job.dir /\ x.state = job.state
      /\ x.done = job.done /\ x.paths = job.paths /\ x.journal = job.journal /\ x.step = "cleared"
  BY <1>3, <1>5 DEF Jobs
<1>7. /\ queue' \in Seq(Jobs) /\ DOMAIN queue' = DOMAIN queue /\ queue'[1] = x
      /\ \A i \in DOMAIN queue : i # 1 => queue'[i] = queue[i]
  <2>1. /\ DOMAIN queue = 1 .. Len(queue) /\ Len(queue) \in Nat /\ 1 \in DOMAIN queue
        /\ job = queue[1]
    BY <1>1, <1>2, <1>3, EmptySeq
  <2>2. queue' = [queue EXCEPT ![1] = x]
    BY <1>2, <1>5, <2>1
  <2>3. queue' \in Seq(Jobs)
    BY <1>3, <2>1, <2>2, ExceptSeq
  <2> QED
    BY <2>1, <2>2, <2>3
<1>8. JobFits(x, journals') /\ x.done = {}
  BY <1>2, <1>3, <1>6 DEF JobFits
<1>9. /\ disk' \in [Directories -> OnDisk]
      /\ \A d \in Directories : d # job.dir => disk'[d] = disk[d]
  BY <1>2, <1>4, AbsentIs DEF Shape
<1>10. /\ journals' \in Seq(Journal) /\ Grows(journals, journals') /\ JournalsFit(journals')
       /\ status' \in [Slots -> Shared]
       /\ baselines' \in Seq(Copies)
       /\ \A i \in DOMAIN baselines' : baselines'[i].journal \in DOMAIN journals'
  BY <1>2, <1>4 DEF Shape, QueueInv, Grows
<1>11. /\ \A j \in DOMAIN journals : journals'[j] = journals[j]
       /\ \A s \in Slots : s # job.slot => status'[s] = status[s]
       /\ IF x.step = "created"
          THEN status'[job.slot].dir = job.dir /\ disk'[job.dir].extent = "journal"
          ELSE status' = status /\ job.step # "created"
       /\ UNCHANGED <<doc, ui, replies, tickets, cover>>
  BY <1>2, <1>6
<1>12. /\ x.kind = "full" /\ x.dir = job.dir /\ x.state = job.state /\ x.paths = job.paths
       /\ x.slot = job.slot /\ x.done = {} /\ x \in Jobs /\ JobFits(x, journals')
       /\ queue # <<>> /\ job = Head(queue) /\ job.kind = "full"
  BY <1>1, <1>2, <1>6, <1>8
<1> QED
  BY <1>7, <1>9, <1>10, <1>11, <1>12, CopyGoesOn

(* A journal is created at the end of the list.                            *)
LEMMA JournalAdded ==
    ASSUME NEW js \in Seq(Journal), JournalsFit(js), NEW n \in Journal,
           n.dir \in SlotDirectories(n.slot), NEW hs \in Seq(Journal),
           DOMAIN hs = DOMAIN js \cup {Len(js) + 1}, hs[Len(js) + 1] = n,
           \A j \in DOMAIN js : hs[j] = js[j]
    PROVE  Grows(js, hs) /\ JournalsFit(hs) /\ Len(js) + 1 \in DOMAIN hs /\ Len(js) + 1 \in Nat \ {0}
BY DEF Grows, JournalsFit

(* A copy creates its journal; the status is reset for it.                 *)
LEMMA FullCreateStep ==
    ASSUME IInv, FullCreate
    PROVE  IInv'
<1>1. PICK job : job = Head(queue)
  OBVIOUS
<1>2. PICK id : id = Len(journals) + 1
  OBVIOUS
<1>3. PICK reset : reset = [NoStatus EXCEPT !.dir = job.dir]
  OBVIOUS
<1>4. /\ queue # <<>> /\ job.kind = "full" /\ job.step = "cleared"
      /\ disk' = [disk EXCEPT ![job.dir] = [Absent EXCEPT !.extent = "journal", !.journal = id]]
      /\ journals' = Append(journals, [dir |-> job.dir, slot |-> job.slot,
                                       path |-> job.path, root |-> None])
      /\ queue' = [queue EXCEPT ![1].step = "created", ![1].journal = id]
      /\ \/ /\ baselines' = Append(baselines, [journal |-> id, copied |-> FALSE])
            /\ status' = [status EXCEPT ![job.slot] = reset]
         \/ /\ status' = [status EXCEPT ![job.slot] = FailBaseline(reset)]
            /\ baselines' = baselines
      /\ UNCHANGED <<doc, ui, replies, tickets, cover>>
  BY <1>1, <1>2, <1>3 DEF FullCreate, Running
<1>5. /\ job \in Jobs /\ job.slot \in Slots /\ JobFits(job, journals) /\ queue \in Seq(Jobs)
  BY <1>1, <1>4, HeadJob
<1>6. /\ Shape /\ QueueInv /\ job.dir \in Directories /\ job.dir \in SlotDirectories(job.slot)
      /\ job.state # None /\ job.done = {}
  BY <1>4, <1>5, SlotsApart DEF JobFits, IInv
<1>7. /\ journals \in Seq(Journal) /\ JournalsFit(journals) /\ Len(journals) \in Nat
      /\ baselines \in Seq(Copies)
  BY <1>6 DEF Shape, QueueInv
<1>8. PICK n \in Journal : /\ n = [dir |-> job.dir, slot |-> job.slot, path |-> job.path, root |-> None]
                           /\ n.dir = job.dir /\ n.slot = job.slot
  <2>1. job.path \in Nat /\ None \in Nat
    BY <1>5 DEF Jobs, None
  <2>2. PICK n : n = [dir |-> job.dir, slot |-> job.slot, path |-> job.path, root |-> None]
    OBVIOUS
  <2>3. n \in Journal
    BY <1>5, <1>6, <2>1, <2>2 DEF Journal
  <2>4. n.dir = job.dir /\ n.slot = job.slot
    BY <2>2
  <2> QED
    BY <2>2, <2>3, <2>4
<1>9. /\ journals' \in Seq(Journal) /\ DOMAIN journals' = DOMAIN journals \cup {id}
      /\ journals'[id] = n /\ \A j \in DOMAIN journals : journals'[j] = journals[j]
  BY <1>2, <1>4, <1>7, <1>8, QueueGrows
<1>10. /\ Grows(journals, journals') /\ JournalsFit(journals')
       /\ id \in DOMAIN journals' /\ id \in Nat /\ id # None
  BY <1>2, <1>6, <1>7, <1>8, <1>9, JournalAdded DEF None
<1>11. /\ baselines' \in Seq(Copies)
       /\ \A i \in DOMAIN baselines' : baselines'[i].journal \in DOMAIN journals'
  <2>1. \A i \in DOMAIN baselines : baselines[i].journal \in DOMAIN journals'
    BY <1>6, <1>9 DEF QueueInv
  <2>2. CASE baselines' = baselines
    BY <1>7, <2>1, <2>2
  <2>3. CASE baselines' = Append(baselines, [journal |-> id, copied |-> FALSE])
    <3>1. PICK b \in Copies :
             b = [journal |-> id, copied |-> FALSE] /\ b.journal = id
      <4>1. PICK b : b = [journal |-> id, copied |-> FALSE]
        OBVIOUS
      <4>2. b \in Copies /\ b.journal = id
        BY <1>10, <4>1 DEF Copies
      <4> QED
        BY <4>1, <4>2
    <3>2. /\ baselines' \in Seq(Copies)
          /\ DOMAIN baselines' = DOMAIN baselines \cup {Len(baselines) + 1}
          /\ baselines'[Len(baselines) + 1] = b
          /\ \A i \in DOMAIN baselines : baselines'[i] = baselines[i]
      BY <1>7, <2>3, <3>1, QueueGrows
    <3> QED
      BY <1>10, <2>1, <3>1, <3>2
  <2> QED
    BY <1>4, <2>2, <2>3
<1>12. /\ status' \in [Slots -> Shared] /\ status'[job.slot].dir = job.dir
       /\ \A s \in Slots : s # job.slot => status'[s] = status[s]
  <2>1. reset \in Shared /\ reset.dir = job.dir
    BY <1>3, <1>6, NothingSaid DEF Shared, Nowhere
  <2>2. FailBaseline(reset) \in Shared /\ FailBaseline(reset).dir = job.dir
    BY <2>1 DEF FailBaseline, Shared
  <2> QED
    BY <1>4, <1>5, <1>6, <2>1, <2>2 DEF Shape
<1>13. PICK y \in Jobs : y = [job EXCEPT !.step = "created"]
  BY <1>5 DEF Jobs
<1>14. PICK x \in Jobs : x = [y EXCEPT !.journal = id]
  BY <1>10 DEF Jobs
<1>15. /\ x.slot = job.slot /\ x.kind = "full" /\ x.dir = job.dir /\ x.state = job.state
       /\ x.done = {} /\ x.paths = job.paths /\ x.journal = id /\ x.step = "created"
  BY <1>4, <1>5, <1>6, <1>13, <1>14 DEF Jobs
<1>16. /\ queue' \in Seq(Jobs) /\ DOMAIN queue' = DOMAIN queue /\ queue'[1] = x
       /\ \A i \in DOMAIN queue : i # 1 => queue'[i] = queue[i]
  <2>1. /\ DOMAIN queue = 1 .. Len(queue) /\ Len(queue) \in Nat /\ 1 \in DOMAIN queue
        /\ job = queue[1]
    BY <1>1, <1>4, <1>5, EmptySeq
  <2>2. queue' = [queue EXCEPT ![1] = x]
    BY <1>4, <1>13, <1>14, <2>1
  <2>3. queue' \in Seq(Jobs)
    BY <1>5, <2>1, <2>2, ExceptSeq
  <2> QED
    BY <2>1, <2>2, <2>3
<1>17. JobFits(x, journals')
  BY <1>6, <1>8, <1>9, <1>10, <1>15 DEF JobFits
<1>18. /\ disk' \in [Directories -> OnDisk] /\ disk'[job.dir].extent = "journal"
       /\ \A d \in Directories : d # job.dir => disk'[d] = disk[d]
  <2>1. PICK z \in OnDisk : /\ z = [Absent EXCEPT !.extent = "journal", !.journal = id]
                            /\ z.extent = "journal"
    BY <1>10, AbsentIs
  <2> QED
    BY <1>4, <1>6, <2>1 DEF Shape
<1>19. /\ queue # <<>> /\ job = Head(queue) /\ job.kind = "full"
       /\ UNCHANGED <<doc, ui, replies, tickets, cover>>
  BY <1>1, <1>4
<1> QED
  BY <1>9, <1>10, <1>11, <1>12, <1>15, <1>16, <1>17, <1>18, <1>19, CopyGoesOn

(* The slots that are not in use have a ticket, or no document yet.        *)
LEMMA CancelledOthers ==
    ASSUME IInv, NEW r \in Slots, r <= ui.slot
    PROVE  Cancelled(r) <=> (ui.discard \/ r # ui.slot)
<1>1. ui.slot \in Slots /\ TicketInv
  BY DEF IInv, Shape, Window
<1>2. tickets[r].phase = "none" <=> (r > ui.slot \/ (r = ui.slot /\ ~ui.discard))
  BY <1>1 DEF TicketInv
<1>3. ~(r > ui.slot)
  BY <1>1 DEF Slots
<1> QED
  BY <1>2, <1>3 DEF Cancelled

(* A root is appended: a copy's first, or the next of the current journal. *)
LEMMA AppendRootStep ==
    ASSUME IInv, AppendRoot
    PROVE  IInv'
<1>1. PICK job : job = Head(queue)
  OBVIOUS
<1> DEFINE r == job.slot
           j == job.journal
<1>2. /\ queue # <<>>
      /\ (job.kind = "full" /\ job.step = "created") \/ (job.kind = "incremental" /\ job.step = "queued")
      /\ disk' = [disk EXCEPT ![job.dir].root = job.state]
      /\ journals' = [journals EXCEPT ![job.journal].root = job.state]
      /\ \/ status' = [status EXCEPT ![job.slot] = RecordAppend(@, FALSE)]
         \/ status' = [status EXCEPT ![job.slot] = RecordAppend(@, TRUE)]
      /\ cover' = IF Cancelled(job.slot) THEN cover ELSE job.state
      /\ CheckpointReply(TRUE, job.journal)
      /\ UNCHANGED <<doc, ui, baselines, tickets>>
  BY <1>1 DEF AppendRoot, Appending, Running
<1>3. /\ job \in Jobs /\ r \in Slots /\ r <= ui.slot /\ JobFits(job, journals)
      /\ Of(Queued, r) = {job} /\ ~tickets[r].drained
  BY <1>1, <1>2, HeadJob
<1>4. /\ Shape /\ QueueInv /\ job.dir \in Directories /\ job.dir \in SlotDirectories(r)
      /\ job.dir # Adopted /\ Adopted \in Directories
      /\ job.state # None /\ job.state \in Nat /\ j \in Nat
      /\ j # None /\ j \in DOMAIN journals /\ journals[j].dir = job.dir /\ journals[j].slot = r
  BY <1>2, <1>3, SlotsApart DEF JobFits, IInv, Jobs
<1>5. /\ journals \in Seq(Journal) /\ JournalsFit(journals) /\ disk \in [Directories -> OnDisk]
      /\ status \in [Slots -> Shared] /\ cover \in Nat
  BY <1>4 DEF Shape, QueueInv
<1>6. PICK n \in Journal : /\ n = [journals[j] EXCEPT !.root = job.state]
                           /\ n.dir = job.dir /\ n.slot = r /\ n.root = job.state
  <2>1. journals[j] \in Journal
    BY <1>4, <1>5, JournalsAre
  <2>2. PICK n \in Journal : n = [journals[j] EXCEPT !.root = job.state]
    BY <1>4, <2>1 DEF Journal
  <2> QED
    BY <1>4, <2>1, <2>2 DEF Journal
<1>7. /\ journals' \in Seq(Journal) /\ DOMAIN journals' = DOMAIN journals /\ journals'[j] = n
      /\ \A i \in DOMAIN journals : i # j => journals'[i] = journals[i]
  <2>1. journals' = [journals EXCEPT ![j] = n]
    BY <1>2, <1>6
  <2>2. journals' \in Seq(Journal)
    BY <1>4, <1>5, <2>1, ExceptSeq
  <2> QED
    BY <1>4, <1>5, <2>1, <2>2
<1>8. Grows(journals, journals') /\ JournalsFit(journals')
  BY <1>4, <1>5, <1>6, <1>7 DEF Grows, JournalsFit
<1>9. /\ disk' \in [Directories -> OnDisk]
      /\ disk'[job.dir].extent = disk[job.dir].extent /\ disk'[job.dir].root = job.state
      /\ \A d \in Directories : d # job.dir => disk'[d] = disk[d]
  <2>1. PICK z \in OnDisk : z = [disk[job.dir] EXCEPT !.root = job.state]
    BY <1>4, <1>5 DEF OnDisk
  <2>2. z.extent = disk[job.dir].extent /\ z.root = job.state
    BY <1>4, <1>5, <2>1 DEF OnDisk
  <2>3. disk' = [disk EXCEPT ![job.dir] = z]
    BY <1>2, <2>1
  <2> QED
    BY <1>4, <1>5, <2>2, <2>3
<1>10. /\ status' \in [Slots -> Shared] /\ \A s \in Slots : s # r => status'[s] = status[s]
       /\ status'[r].dir = status[r].dir /\ status'[r].durable
  <2>1. \A m \in BOOLEAN : /\ RecordAppend(status[r], m) \in Shared
                           /\ RecordAppend(status[r], m).dir = status[r].dir
                           /\ RecordAppend(status[r], m).durable
    <3>1. SUFFICES ASSUME NEW m \in BOOLEAN
                   PROVE  /\ RecordAppend(status[r], m) \in Shared
                          /\ RecordAppend(status[r], m).dir = status[r].dir
                          /\ RecordAppend(status[r], m).durable
      OBVIOUS
    <3>2. status[r] \in Shared
      BY <1>3, <1>5
    <3>3. PICK b \in BOOLEAN : b = (m \/ status[r].baseline_error)
      BY <3>2 DEF Shared
    <3>4. RecordAppend(status[r], m) = [status[r] EXCEPT !.durable = TRUE, !.error = b]
      BY <3>3 DEF RecordAppend
    <3> QED
      BY <3>2, <3>4 DEF Shared
  <2>2. PICK m \in BOOLEAN : status' = [status EXCEPT ![r] = RecordAppend(status[r], m)]
    <3>1. CASE status' = [status EXCEPT ![job.slot] = RecordAppend(@, FALSE)]
      BY <3>1
    <3>2. CASE status' = [status EXCEPT ![job.slot] = RecordAppend(@, TRUE)]
      BY <3>2
    <3> QED
      BY <1>2, <3>1, <3>2
  <2> QED
    BY <1>3, <1>5, <2>1, <2>2
<1>11. /\ replies' \in [Slots -> [checkpoint : Answers, retirement : Answers]]
       /\ \A s \in Slots : s # r => replies'[s] = replies[s]
       /\ replies'[r].retirement = NoReply
       /\ replies'[r].checkpoint.kind = job.kind /\ replies'[r].checkpoint.ok
       /\ replies'[r].checkpoint.journal = j
  <2>1. PICK ok \in BOOLEAN : ok /\ CheckpointReply(ok, j)
    BY <1>2
  <2> QED
    BY ZenonT(60), <1>1, <1>2, <1>4, <2>1, Answered
<1>12. /\ queue' \in Seq(Jobs) /\ Of(Queued', r) = {}
       /\ \A i, k \in DOMAIN queue' : queue'[i].slot = queue'[k].slot => i = k
       /\ \A s \in Slots : s # r => Of(Queued', s) = Of(Queued, s)
  <2>1. queue' = Tail(queue)
    BY <1>2 DEF CheckpointReply
  <2> QED
    BY ZenonT(60), <1>1, <1>2, <2>1, JobLeaves
<1>13. \A d \in Directories \ SlotDirectories(r) : disk'[d] = disk[d]
  BY <1>4, <1>9
<1>14. cover' \in Nat /\ (Cancelled(r) => cover' = cover) /\ (~Cancelled(r) => cover' = job.state)
  BY <1>2, <1>4, <1>5
<1>15. Shape' /\ QueueInv' /\ RemovedInv' /\ TicketInv' /\ AdoptedInv'
  <2>1. /\ baselines' \in Seq(Copies)
        /\ \A i \in DOMAIN baselines' : baselines'[i].journal \in DOMAIN journals'
    BY <1>2, <1>4, <1>7 DEF Shape, QueueInv
  <2>2. \A d \in Directories \ SlotDirectories(r) : Gone(disk, d) => Gone(disk', d)
    BY <1>13 DEF Gone
  <2>3. Adopted \in ui.adopted_paths => disk'[Adopted] = disk[Adopted]
    BY <1>4, <1>9
  <2>4. AnswerOf(replies'[r], r)
    BY ZenonT(60), <1>4, <1>6, <1>7, <1>11, NothingSaid DEF AnswerOf
  <2>5. UNCHANGED <<doc, ui, tickets>>
    BY <1>2
  <2> HIDE DEF r, j
  <2> QED
    BY <1>3, <1>7, <1>8, <1>9, <1>10, <1>11, <1>12, <1>14, <2>1, <2>2, <2>3, <2>4, <2>5, WorkerKeeps
<1>16. CASE ui.discard \/ r # ui.slot
  <2>1. \A d \in Directories \ Reach(r) : disk'[d] = disk[d]
    BY <1>13 DEF Reach
  <2>2. \A s \in Slots : s # r => replies'[s] = replies[s] /\ status'[s] = status[s]
                                   /\ Of(Queued', s) = Of(Queued, s)
    BY <1>10, <1>11, <1>12
  <2>3. cover' = cover /\ ui' = ui
    BY <1>2, <1>3, <1>14, <1>16, CancelledOthers
  <2>4. \A i \in DOMAIN journals : journals[i].slot # r => journals'[i].root = journals[i].root
    BY <1>4, <1>7
  <2>5. FitsInv'
    BY <1>3, <1>8, <1>16, <2>1, <2>2, <2>3, <2>4, WorkerFits
  <2> QED
    BY <1>15, <2>5 DEF IInv
<1>17. CASE ~ui.discard /\ r = ui.slot
  <2>1. cover' = job.state
    BY <1>3, <1>14, <1>17, CancelledOthers
  <2>2. /\ OwnFits(ui, journals) /\ ~ui.retirement
        /\ job.kind = "full" => ui.pending = "full"
        /\ job.kind = "incremental" => ui.pending = "incremental" /\ ui.current = None
        /\ status[ui.slot].dir = job.dir /\ disk[job.dir].extent = "journal"
    <3>1. CASE job.kind = "full"
      BY <1>1, <1>2, <1>17, <3>1, OwnJob
    <3>2. CASE job.kind = "incremental"
      <4>1. /\ OwnFits(ui, journals) /\ ui.pending = "incremental" /\ ~ui.retirement
            /\ ui.current = None /\ Front(j, ui, status[ui.slot], journals, disk, cover)
        BY <1>1, <1>2, <1>17, <3>2, OwnJob
      <4>2. status[ui.slot].dir = job.dir /\ disk[job.dir].extent = "journal"
        BY <1>4, <4>1 DEF Front, Kept, Describes
      <4> QED
        BY <3>2, <4>1, <4>2
    <3> QED
      BY <1>2, <3>1, <3>2
  <2>3. Kept(j, journals', disk', cover')
    BY <1>4, <1>6, <1>7, <1>9, <2>1, <2>2 DEF Kept
  <2>4. Front(j, ui, status'[ui.slot], journals', disk', cover')
    BY <1>4, <1>6, <1>7, <1>10, <1>17, <2>2, <2>3 DEF Front, Describes
  <2>5. OwnFits(ui, journals')
    BY <1>8, <2>2 DEF OwnFits, Grows
  <2>6. RetireFits(ui, replies'[ui.slot].retirement, {})
    BY <1>11, <1>17, <2>2, NothingSaid DEF RetireFits
  <2>7. /\ job.kind = "full" =>
              FullFits(ui, status'[ui.slot], replies'[ui.slot].checkpoint, {}, journals', disk', cover')
        /\ job.kind = "incremental" =>
              AppendFits(ui, status'[ui.slot], replies'[ui.slot].checkpoint, {}, journals', disk', cover')
    BY <1>11, <1>17, <2>2, <2>4 DEF FullFits, AppendFits
  <2>8. Fits(ui, status'[ui.slot], replies'[ui.slot].checkpoint, replies'[ui.slot].retirement, {},
             journals', disk', cover')
    BY <1>2, <2>2, <2>5, <2>6, <2>7 DEF Fits
  <2>9. FitsInv'
    BY <1>2, <1>12, <1>17, <2>8 DEF FitsInv
  <2> QED
    BY <1>15, <2>9 DEF IInv
<1> QED
  BY <1>16, <1>17

(* An append fails: a copy's journal is dropped, the current one given     *)
(* back.                                                                   *)
LEMMA AppendFailsStep ==
    ASSUME IInv, AppendFails
    PROVE  IInv'
<1>1. PICK job : job = Head(queue)
  OBVIOUS
<1>2. PICK back \in Nat : back = IF job.kind = "full" THEN None ELSE job.journal
  BY <1>1, HeadJob DEF AppendFails, Appending, Running, Jobs, None
<1> DEFINE r == job.slot
<1>3. /\ queue # <<>>
      /\ (job.kind = "full" /\ job.step = "created") \/ (job.kind = "incremental" /\ job.step = "queued")
      /\ status' = status \/ status' = [status EXCEPT ![job.slot].error = TRUE]
      /\ CheckpointReply(FALSE, back)
      /\ UNCHANGED <<doc, ui, disk, journals, baselines, tickets, cover>>
  BY <1>1, <1>2 DEF AppendFails, Appending, Running
<1>4. /\ job \in Jobs /\ r \in Slots /\ r <= ui.slot /\ JobFits(job, journals)
      /\ Of(Queued, r) = {job} /\ ~tickets[r].drained
  BY <1>1, <1>3, HeadJob
<1>5. /\ Shape /\ QueueInv /\ JournalsFit(journals) /\ status \in [Slots -> Shared]
      /\ job.journal \in DOMAIN journals /\ journals[job.journal].slot = r
      /\ job.kind = "incremental" => back = job.journal
      /\ job.kind = "full" => back = None
  BY <1>2, <1>3, <1>4 DEF JobFits, IInv, Shape, QueueInv
<1>6. /\ status' \in [Slots -> Shared] /\ \A s \in Slots : s # r => status'[s] = status[s]
      /\ status'[r].dir = status[r].dir /\ status'[r].durable = status[r].durable
  <2>1. CASE status' = status
    BY <1>5, <2>1
  <2>2. CASE status' = [status EXCEPT ![job.slot].error = TRUE]
    <3>1. PICK z \in Shared : z = [status[r] EXCEPT !.error = TRUE]
      BY <1>4, <1>5 DEF Shared
    <3>2. z.dir = status[r].dir /\ z.durable = status[r].durable
      BY <1>4, <1>5, <3>1 DEF Shared
    <3>3. status' = [status EXCEPT ![r] = z]
      BY <2>2, <3>1
    <3> QED
      BY <1>4, <1>5, <3>2, <3>3
  <2> QED
    BY <1>3, <2>1, <2>2
<1>7. /\ replies' \in [Slots -> [checkpoint : Answers, retirement : Answers]]
      /\ \A s \in Slots : s # r => replies'[s] = replies[s]
      /\ replies'[r].retirement = NoReply
      /\ replies'[r].checkpoint.kind = job.kind /\ ~replies'[r].checkpoint.ok
      /\ replies'[r].checkpoint.journal = back
  <2>1. PICK ok \in BOOLEAN : ~ok /\ CheckpointReply(ok, back)
    BY <1>3
  <2> QED
    BY <1>1, <1>3, <2>1, Answered
<1>8. /\ queue' \in Seq(Jobs) /\ Of(Queued', r) = {}
      /\ \A i, k \in DOMAIN queue' : queue'[i].slot = queue'[k].slot => i = k
      /\ \A s \in Slots : s # r => Of(Queued', s) = Of(Queued, s)
  <2>1. queue' = Tail(queue)
    BY <1>3 DEF CheckpointReply
  <2> QED
    BY <1>1, <1>3, <2>1, JobLeaves
<1>9. Grows(journals, journals') /\ JournalsFit(journals')
  BY <1>3, <1>5 DEF Grows
<1>10. Shape' /\ QueueInv' /\ RemovedInv' /\ TicketInv' /\ AdoptedInv'
  <2>1. /\ cover' \in Nat /\ journals' \in Seq(Journal) /\ disk' \in [Directories -> OnDisk]
        /\ baselines' \in Seq(Copies)
        /\ \A i \in DOMAIN baselines' : baselines'[i].journal \in DOMAIN journals'
    BY <1>3, <1>5 DEF Shape, QueueInv
  <2>2. \A d \in Directories \ SlotDirectories(r) : Gone(disk, d) => Gone(disk', d)
    BY <1>3 DEF Gone
  <2>3. Adopted \in ui.adopted_paths => disk'[Adopted] = disk[Adopted]
    BY <1>3
  <2>4. AnswerOf(replies'[r], r)
    BY <1>3, <1>5, <1>7, NothingSaid DEF AnswerOf
  <2>5. UNCHANGED <<doc, ui, tickets>>
    BY <1>3
  <2> HIDE DEF r
  <2> QED
    BY <1>4, <1>6, <1>7, <1>8, <1>9, <2>1, <2>2, <2>3, <2>4, <2>5, WorkerKeeps
<1>11. CASE ui.discard \/ r # ui.slot
  <2>1. /\ \A d \in Directories \ Reach(r) : disk'[d] = disk[d]
        /\ \A i \in DOMAIN journals : journals[i].slot # r => journals'[i].root = journals[i].root
        /\ cover' = cover /\ ui' = ui
    BY <1>3
  <2>2. \A s \in Slots : s # r => replies'[s] = replies[s] /\ status'[s] = status[s]
                                   /\ Of(Queued', s) = Of(Queued, s)
    BY <1>6, <1>7, <1>8
  <2>3. FitsInv'
    BY <1>4, <1>9, <1>11, <2>1, <2>2, WorkerFits
  <2> QED
    BY <1>10, <2>3 DEF IInv
<1>12. CASE ~ui.discard /\ r = ui.slot
  <2>1. /\ OwnFits(ui, journals) /\ ~ui.retirement
        /\ job.kind = "full" => ui.pending = "full" /\ CurrentKept(ui, journals, disk, cover)
        /\ job.kind = "incremental" =>
             /\ ui.pending = "incremental" /\ ui.current = None
             /\ Front(job.journal, ui, status[ui.slot], journals, disk, cover)
    BY <1>1, <1>3, <1>12, OwnJob
  <2>2. RetireFits(ui, replies'[ui.slot].retirement, {})
    BY <1>7, <1>12, <2>1, NothingSaid DEF RetireFits
  <2>3. job.kind = "full" =>
          FullFits(ui, status'[ui.slot], replies'[ui.slot].checkpoint, {}, journals, disk, cover)
    BY <1>7, <1>12, <2>1 DEF FullFits
  <2>4. job.kind = "incremental" =>
          AppendFits(ui, status'[ui.slot], replies'[ui.slot].checkpoint, {}, journals, disk, cover)
    BY <1>5, <1>6, <1>7, <1>12, <2>1 DEF AppendFits, Front, Describes
  <2>5. Fits(ui, status'[ui.slot], replies'[ui.slot].checkpoint, replies'[ui.slot].retirement, {},
             journals, disk, cover)
    BY <1>3, <2>1, <2>2, <2>3, <2>4 DEF Fits
  <2>6. FitsInv'
    BY <1>3, <1>8, <1>12, <2>5 DEF FitsInv
  <2> QED
    BY <1>10, <2>6 DEF IInv
<1> QED
  BY <1>11, <1>12

(* The answer to a retirement.                                             *)
LEMMA RetirementAnswered ==
    ASSUME IInv, queue # <<>>, NEW job, job = Head(queue), NEW ok \in BOOLEAN,
           RetirementReply(ok)
    PROVE  /\ replies' \in [Slots -> [checkpoint : Answers, retirement : Answers]]
           /\ \A s \in Slots : s # job.slot => replies'[s] = replies[s]
           /\ replies'[job.slot].checkpoint = NoReply
           /\ replies'[job.slot].retirement.journal = None
           /\ replies'[job.slot].retirement.paths = (IF ok THEN job.paths ELSE {})
<1>1. /\ job \in Jobs /\ job.slot \in Slots /\ replies[job.slot] = Silent
      /\ replies \in [Slots -> [checkpoint : Answers, retirement : Answers]]
  BY HeadJob DEF IInv, Shape
<1>2. PICK P \in SUBSET Directories : P = IF ok THEN job.paths ELSE {}
  BY <1>1 DEF Jobs
<1>3. PICK c \in Answers : c = [kind |-> "retire", ok |-> ok, journal |-> None, paths |-> P]
  BY <1>1, <1>2 DEF Answers, Kinds, None
<1>4. c.journal = None /\ c.paths = P
  BY <1>3
<1>5. replies' = [replies EXCEPT ![job.slot] = [replies[job.slot] EXCEPT !.retirement = c]]
  BY <1>2, <1>3 DEF RetirementReply
<1>6. PICK a \in [checkpoint : Answers, retirement : Answers] :
         a = [checkpoint |-> NoReply, retirement |-> c]
  BY NothingSaid
<1>7. a.checkpoint = NoReply /\ a.retirement = c
  BY <1>6
<1>8. replies' = [replies EXCEPT ![job.slot] = a]
  BY <1>1, <1>5, <1>6, SilentExcept
<1> QED
  BY <1>1, <1>2, <1>4, <1>7, <1>8

(* A retirement removes a path, or ends.                                   *)
LEMMA RetirementGoesOn ==
    ASSUME IInv, queue # <<>>, NEW job, job = Head(queue), job.kind = "retire",
           UNCHANGED <<doc, ui, status, journals, baselines, tickets, cover>>,
           disk' \in [Directories -> OnDisk],
           \A d \in Directories : disk'[d] = disk[d] \/ (d \in job.paths /\ Gone(disk', d)),
           queue' \in Seq(Jobs),
           \A i, k \in DOMAIN queue' : queue'[i].slot = queue'[k].slot => i = k,
           \A s \in Slots : s # job.slot => Of(Queued', s) = Of(Queued, s),
           replies' \in [Slots -> [checkpoint : Answers, retirement : Answers]],
           \A s \in Slots : s # job.slot => replies'[s] = replies[s],
           replies'[job.slot].checkpoint = NoReply,
           replies'[job.slot].retirement.journal = None,
           replies'[job.slot].retirement.paths \subseteq job.paths,
           \A d \in replies'[job.slot].retirement.paths : Gone(disk', d),
           \/ Of(Queued', job.slot) = {}
           \/ /\ replies'[job.slot] = Silent
              /\ \A x \in Of(Queued', job.slot) :
                   x.kind = "retire" /\ x.paths = job.paths /\ JobOf(job.slot, x)
    PROVE  IInv'
<1> DEFINE r == job.slot
<1>1. /\ job \in Jobs /\ job \in Queued /\ r \in Slots /\ r <= ui.slot /\ JobFits(job, journals)
      /\ Of(Queued, r) = {job} /\ ~tickets[r].drained
  BY HeadJob
<1>2. /\ Shape /\ QueueInv /\ AdoptedInv /\ JournalsFit(journals) /\ Adopted \in Directories
      /\ job.paths \subseteq Reach(r)
  BY <1>1, SlotsApart DEF IInv, QueueInv, JobFits
<1>3. Adopted \in ui.adopted_paths => disk'[Adopted] = disk[Adopted]
  BY <1>1, <1>2 DEF AdoptedInv
<1>4. \A d \in Directories \ Reach(r) : disk'[d] = disk[d]
  BY <1>2
<1>5. Grows(journals, journals') /\ JournalsFit(journals')
  BY <1>2 DEF Grows
<1>6. Shape' /\ QueueInv' /\ RemovedInv' /\ TicketInv' /\ AdoptedInv'
  <2>1. /\ cover' \in Nat /\ journals' \in Seq(Journal) /\ status' \in [Slots -> Shared]
        /\ baselines' \in Seq(Copies)
        /\ \A i \in DOMAIN baselines' : baselines'[i].journal \in DOMAIN journals'
    BY <1>2 DEF Shape, QueueInv
  <2>2. \A d \in Directories \ SlotDirectories(r) : Gone(disk, d) => Gone(disk', d)
    BY DEF Gone
  <2>3. AnswerOf(replies'[r], r)
    BY <1>2, NothingSaid DEF AnswerOf
  <2>4. /\ Of(Queued', r) # {} => replies'[r] = Silent
        /\ \A x \in Of(Queued', r) : JobOf(r, x)
    OBVIOUS
  <2>5. Of(Queued, r) # {}
    BY <1>1
  <2> HIDE DEF r
  <2> QED
    BY <1>1, <1>3, <1>5, <2>1, <2>2, <2>3, <2>4, <2>5, WorkerKeeps DEF r
<1>7. CASE ui.discard \/ r # ui.slot
  <2>1. \A i \in DOMAIN journals : journals[i].slot # r => journals'[i].root = journals[i].root
    OBVIOUS
  <2>2. \A s \in Slots : s # r => replies'[s] = replies[s] /\ status'[s] = status[s]
                                   /\ Of(Queued', s) = Of(Queued, s)
    OBVIOUS
  <2>3. FitsInv'
    BY <1>1, <1>4, <1>5, <1>7, <2>1, <2>2, WorkerFits
  <2> QED
    BY <1>6, <2>3 DEF IInv
<1>8. CASE ~ui.discard /\ r = ui.slot
  <2>1. /\ OwnFits(ui, journals) /\ ui.pending = "none" /\ ui.retirement
        /\ job.paths \subseteq ui.retire_paths
        /\ StatusFits(ui, status[ui.slot], journals) /\ CurrentKept(ui, journals, disk, cover)
    BY <1>8, OwnJob
  <2>2. ui.current # None => disk'[journals[ui.current].dir] = disk[journals[ui.current].dir]
    <3>1. SUFFICES ASSUME ui.current # None
                   PROVE  disk'[journals[ui.current].dir] = disk[journals[ui.current].dir]
      OBVIOUS
    <3>2. journals[ui.current].dir \in Directories /\ journals[ui.current].dir \notin job.paths
      BY <1>1, <1>2, <1>8, <2>1, <3>1, SlotsApart DEF OwnFits, JournalsFit
    <3> QED
      BY <3>2
  <2>3. CurrentKept(ui, journals', disk', cover)
    BY <1>5, <2>1, <2>2, KeptElsewhere
  <2>4. RetireFits(ui, replies'[ui.slot].retirement, Of(Queued', ui.slot))
    BY <1>8, <2>1 DEF RetireFits
  <2>5. Fits(ui, status[ui.slot], replies'[ui.slot].checkpoint, replies'[ui.slot].retirement,
             Of(Queued', ui.slot), journals, disk', cover)
    BY <1>8, <2>1, <2>3, <2>4, NothingSaid DEF Fits
  <2>6. FitsInv'
    BY <1>8, <2>5 DEF FitsInv
  <2> QED
    BY <1>6, <2>6 DEF IInv
<1> QED
  BY <1>7, <1>8

(* A retirement removes one path.                                          *)
LEMMA RetirePathStep ==
    ASSUME IInv, RetirePath
    PROVE  IInv'
<1>1. PICK job : job = Head(queue)
  OBVIOUS
<1>2. /\ queue # <<>> /\ job.kind = "retire"
      /\ UNCHANGED <<doc, ui, status, journals, baselines, replies, tickets, cover>>
  BY <1>1 DEF RetirePath, Running
<1>3. PICK d \in job.paths : /\ disk' = [disk EXCEPT ![d] = Absent]
                             /\ queue' = [queue EXCEPT ![1].done = @ \cup {d}]
  BY <1>1 DEF RetirePath
<1>4. /\ job \in Jobs /\ job.slot \in Slots /\ JobFits(job, journals) /\ queue \in Seq(Jobs)
      /\ replies[job.slot] = Silent /\ Of(Queued, job.slot) = {job} /\ job \in Queued
  BY <1>1, <1>2, HeadJob
<1>5. Shape /\ RemovedInv /\ d \in Directories /\ disk \in [Directories -> OnDisk]
  BY <1>4 DEF IInv, Jobs, Shape
<1>6. PICK x \in Jobs : x = [job EXCEPT !.done = job.done \cup {d}]
  BY <1>4, <1>5 DEF Jobs
<1>7. /\ x.slot = job.slot /\ x.kind = "retire" /\ x.paths = job.paths
      /\ x.journal = job.journal /\ x.step = job.step /\ x.done = job.done \cup {d}
  BY <1>2, <1>4, <1>6 DEF Jobs
<1>8. /\ queue' \in Seq(Jobs) /\ DOMAIN queue' = DOMAIN queue /\ queue'[1] = x
      /\ \A i \in DOMAIN queue : i # 1 => queue'[i] = queue[i]
  <2>1. /\ DOMAIN queue = 1 .. Len(queue) /\ Len(queue) \in Nat /\ 1 \in DOMAIN queue
        /\ job = queue[1]
    BY <1>1, <1>2, <1>4, EmptySeq
  <2>2. queue' = [queue EXCEPT ![1] = x]
    BY <1>3, <1>6, <2>1
  <2>3. queue' \in Seq(Jobs)
    BY <1>4, <2>1, <2>2, ExceptSeq
  <2> QED
    BY <2>1, <2>2, <2>3
<1>9. /\ Of(Queued', job.slot) = {x}
      /\ \A i, k \in DOMAIN queue' : queue'[i].slot = queue'[k].slot => i = k
      /\ \A s \in Slots : s # job.slot => Of(Queued', s) = Of(Queued, s)
  BY <1>1, <1>2, <1>7, <1>8, JobChanges
<1>10. disk'[d] = Absent /\ \A e \in Directories : e # d => disk'[e] = disk[e]
  BY <1>3, <1>5
<1>11. disk' \in [Directories -> OnDisk]
  BY <1>3, <1>5, AbsentIs
<1>12. Gone(disk', d) /\ \A e \in Directories : Gone(disk, e) => Gone(disk', e)
  BY <1>10, AbsentIs DEF Gone
<1>13. \A e \in Directories : disk'[e] = disk[e] \/ (e \in job.paths /\ Gone(disk', e))
  BY <1>10, <1>12
<1>14. JobFits(x, journals')
  BY <1>2, <1>4, <1>7 DEF JobFits
<1>15. \A e \in x.done : Gone(disk', e)
  BY <1>4, <1>5, <1>7, <1>12 DEF RemovedInv, Jobs
<1>16. JobOf(job.slot, x)
  BY <1>4, <1>7, <1>14, <1>15 DEF JobOf
<1>17. /\ replies' \in [Slots -> [checkpoint : Answers, retirement : Answers]]
       /\ \A s \in Slots : s # job.slot => replies'[s] = replies[s]
       /\ replies'[job.slot] = Silent
       /\ replies'[job.slot].checkpoint = NoReply /\ replies'[job.slot].retirement.journal = None
       /\ replies'[job.slot].retirement.paths = {}
  BY <1>2, <1>4, <1>5, NothingSaid DEF Shape, Silent
<1>18. \A y \in Of(Queued', job.slot) : y.kind = "retire" /\ y.paths = job.paths /\ JobOf(job.slot, y)
  BY <1>7, <1>9, <1>16
<1> QED
  BY <1>1, <1>2, <1>8, <1>9, <1>11, <1>13, <1>17, <1>18, RetirementGoesOn

(* A retirement that removed all of them says so.                          *)
LEMMA RetireDoneStep ==
    ASSUME IInv, RetireDone
    PROVE  IInv'
<1>1. PICK job : job = Head(queue)
  OBVIOUS
<1>2. /\ queue # <<>> /\ job.kind = "retire" /\ job.paths = job.done /\ RetirementReply(TRUE)
      /\ UNCHANGED <<doc, ui, status, disk, journals, baselines, tickets, cover>>
  BY <1>1 DEF RetireDone, Running
<1>3. job \in Queued /\ Shape /\ RemovedInv
  BY <1>1, <1>2, HeadJob DEF IInv
<1>4. \A d \in job.paths : Gone(disk', d)
  BY <1>2, <1>3 DEF RemovedInv, Gone
<1>5. /\ replies' \in [Slots -> [checkpoint : Answers, retirement : Answers]]
      /\ \A s \in Slots : s # job.slot => replies'[s] = replies[s]
      /\ replies'[job.slot].checkpoint = NoReply
      /\ replies'[job.slot].retirement.journal = None
      /\ replies'[job.slot].retirement.paths = job.paths
  <2>1. PICK ok \in BOOLEAN : ok /\ RetirementReply(ok)
    BY <1>2
  <2> QED
    BY <1>1, <1>2, <2>1, RetirementAnswered
<1>6. /\ queue' \in Seq(Jobs) /\ Of(Queued', job.slot) = {}
      /\ \A i, k \in DOMAIN queue' : queue'[i].slot = queue'[k].slot => i = k
      /\ \A s \in Slots : s # job.slot => Of(Queued', s) = Of(Queued, s)
  <2>1. queue' = Tail(queue)
    BY <1>2 DEF RetirementReply
  <2> QED
    BY SMTT(40), <1>1, <1>2, <2>1, JobLeaves
<1>7. disk' \in [Directories -> OnDisk] /\ \A d \in Directories : disk'[d] = disk[d]
  BY <1>2, <1>3 DEF Shape
<1> QED
  BY <1>1, <1>2, <1>4, <1>5, <1>6, <1>7, RetirementGoesOn

(* One that fails names none, though it may have removed some.             *)
LEMMA RetireFailsStep ==
    ASSUME IInv, RetireFails
    PROVE  IInv'
<1>1. PICK job : job = Head(queue)
  OBVIOUS
<1>2. /\ queue # <<>> /\ job.kind = "retire" /\ RetirementReply(FALSE)
      /\ UNCHANGED <<doc, ui, status, journals, baselines, tickets, cover>>
  BY <1>1 DEF RetireFails, Running
<1>3. PICK d \in job.paths : disk' = disk \/ disk' = [disk EXCEPT ![d].extent = "retired"]
  BY <1>1 DEF RetireFails
<1>4. Shape /\ d \in Directories /\ disk \in [Directories -> OnDisk]
  BY <1>1, <1>2, HeadJob DEF IInv, Jobs, Shape
<1>5. /\ disk' \in [Directories -> OnDisk]
      /\ \A e \in Directories : disk'[e] = disk[e] \/ (e \in job.paths /\ Gone(disk', e))
  <2>1. CASE disk' = disk
    BY <1>4, <2>1
  <2>2. CASE disk' = [disk EXCEPT ![d].extent = "retired"]
    <3>1. PICK x \in OnDisk : x = [disk[d] EXCEPT !.extent = "retired"]
      BY <1>4 DEF OnDisk, Extents
    <3>2. x.extent = "retired"
      BY <1>4, <3>1 DEF OnDisk
    <3>3. disk' = [disk EXCEPT ![d] = x]
      BY <2>2, <3>1
    <3> QED
      BY <1>4, <3>2, <3>3 DEF Gone
  <2> QED
    BY <1>3, <2>1, <2>2
<1>6. /\ replies' \in [Slots -> [checkpoint : Answers, retirement : Answers]]
      /\ \A s \in Slots : s # job.slot => replies'[s] = replies[s]
      /\ replies'[job.slot].checkpoint = NoReply
      /\ replies'[job.slot].retirement.journal = None
      /\ replies'[job.slot].retirement.paths = {}
  <2>1. PICK ok \in BOOLEAN : ~ok /\ RetirementReply(ok)
    BY <1>2
  <2> QED
    BY <1>1, <1>2, <2>1, RetirementAnswered
<1>7. /\ queue' \in Seq(Jobs) /\ Of(Queued', job.slot) = {}
      /\ \A i, k \in DOMAIN queue' : queue'[i].slot = queue'[k].slot => i = k
      /\ \A s \in Slots : s # job.slot => Of(Queued', s) = Of(Queued, s)
  <2>1. queue' = Tail(queue)
    BY <1>2 DEF RetirementReply
  <2> QED
    BY SMTT(40), <1>1, <1>2, <2>1, JobLeaves
<1> QED
  BY <1>1, <1>2, <1>5, <1>6, <1>7, RetirementGoesOn

-----------------------------------------------------------------------------
(* The baseline worker's steps, which leave extents and roots alone.       *)

(* Such a step keeps everything.                                           *)
LEMMA BaselineKeeps ==
    ASSUME IInv, UNCHANGED <<doc, ui, journals, queue, replies, tickets, cover>>,
           disk' \in [Directories -> OnDisk], status' \in [Slots -> Shared],
           baselines' \in Seq(Copies),
           \A i \in DOMAIN baselines' : baselines'[i].journal \in DOMAIN journals,
           \A d \in Directories : disk'[d].extent = disk[d].extent /\ disk'[d].root = disk[d].root,
           \A s \in Slots : /\ status'[s].dir = status[s].dir
                            /\ status'[s].durable = status[s].durable
                            /\ status[s].error => status'[s].error
    PROVE  IInv'
<1>1. Shape /\ QueueInv /\ RemovedInv /\ TicketInv /\ AdoptedInv /\ ui.slot \in Slots
  BY DEF IInv, Shape, Window
<1>2. Queued' = Queued
  BY DEF Queued
<1>3. \A d \in Directories : Gone(disk', d) <=> Gone(disk, d)
  BY DEF Gone
<1>4. Shape'
  BY <1>1 DEF Shape
<1>5. QueueInv'
  BY <1>1, <1>2 DEF QueueInv
<1>6. \A s \in Slots : Reach(s) \subseteq Directories /\ SlotDirectories(s) \subseteq Directories
  BY SlotsApart
<1>7. RemovedInv'
  <2>1. ASSUME NEW q \in Queued, NEW d \in q.done PROVE Gone(disk', d)
    <3>1. d \in Directories
      BY <1>1, <2>1, JobsAre DEF Queued, Jobs, Shape
    <3> QED
      BY <1>1, <1>3, <2>1, <3>1 DEF RemovedInv
  <2>2. \A s \in Slots : \A d \in replies[s].retirement.paths : Gone(disk', d)
    BY <1>1, <1>3, <1>6 DEF RemovedInv
  <2> QED
    BY <1>1, <1>2, <2>1, <2>2 DEF RemovedInv
<1>8. TicketInv'
  <2>1. ASSUME NEW s \in Slots
        PROVE  /\ tickets[s].paths \subseteq Directories
               /\ \A d \in SlotDirectories(s) \ tickets[s].paths : Gone(disk, d) => Gone(disk', d)
               /\ \A d \in tickets[s].paths : Gone(disk, d) => Gone(disk', d)
    BY <1>1, <1>3, <1>6 DEF TicketInv
  <2> QED
    BY <1>1, <1>2, <2>1 DEF TicketInv
<1>9. AdoptedInv'
  <2>1. Adopted \in Directories
    BY SlotsApart
  <2> QED
    BY <1>1, <1>2, <2>1 DEF AdoptedInv
<1>10. FitsInv'
  <2>1. SlotDirectories(ui.slot) \subseteq Directories
    BY <1>1, SlotsApart
  <2>2. /\ \A d \in SlotDirectories(ui.slot) : disk'[d].extent = disk[d].extent /\ disk'[d].root = disk[d].root
        /\ Of(Queued', ui.slot) = Of(Queued, ui.slot) /\ Grows(journals, journals')
    BY <1>2, <2>1 DEF Grows
  <2> QED
    BY <1>1, <2>2, OtherFits
<1> QED
  BY <1>4, <1>5, <1>7, <1>8, <1>9, <1>10 DEF IInv

(* The queue of copies loses its first.                                    *)
LEMMA CopyLeaves ==
    ASSUME IInv, baselines # <<>>, baselines' = Tail(baselines)
    PROVE  /\ baselines' \in Seq(Copies)
           /\ \A i \in DOMAIN baselines' : baselines'[i].journal \in DOMAIN journals
<1>1. /\ baselines \in Seq(Copies)
      /\ \A i \in DOMAIN baselines : baselines[i].journal \in DOMAIN journals
  BY DEF IInv, Shape, QueueInv
<1>2. PICK p \in Seq(Copies) :
         /\ p = baselines' /\ Len(p) = Len(baselines) - 1
         /\ \A i \in 1 .. Len(p) : p[i] = baselines[i + 1]
  BY <1>1, TailShifts
<1>3. \A i \in DOMAIN p : i + 1 \in DOMAIN baselines /\ p[i] = baselines[i + 1]
  BY <1>1, <1>2
<1>4. \A i \in DOMAIN p : p[i].journal \in DOMAIN journals
  BY <1>1, <1>3
<1> QED
  BY <1>2, <1>4, Zenon

(* A baseline is copied, while its journal lives.                          *)
LEMMA CopiedStep ==
    ASSUME IInv, BaselineCopied
    PROVE  IInv'
<1>1. /\ baselines # <<>> /\ baselines' = [baselines EXCEPT ![1].copied = TRUE]
      /\ UNCHANGED <<doc, ui, status, disk, journals, queue, replies, tickets, cover>>
  BY DEF BaselineCopied
<1>2. /\ baselines \in Seq(Copies)
      /\ \A i \in DOMAIN baselines : baselines[i].journal \in DOMAIN journals
  BY DEF IInv, Shape, QueueInv
<1>3. DOMAIN baselines = 1 .. Len(baselines) /\ 1 \in DOMAIN baselines
  BY <1>1, <1>2, EmptySeq
<1>4. PICK b \in Copies :
         b = [baselines[1] EXCEPT !.copied = TRUE] /\ b.journal = baselines[1].journal
  <2>1. baselines[1] \in Copies
    BY <1>2, <1>3
  <2>2. PICK b : b = [baselines[1] EXCEPT !.copied = TRUE]
    OBVIOUS
  <2>3. b \in Copies /\ b.journal = baselines[1].journal
    BY <2>1, <2>2 DEF Copies
  <2> QED
    BY <2>2, <2>3
<1>5. baselines' = [baselines EXCEPT ![1] = b]
  BY <1>1, <1>4
<1>6. baselines' \in Seq(Copies)
  BY <1>2, <1>3, <1>5, ExceptSeq
<1>7. \A i \in DOMAIN baselines' : baselines'[i].journal \in DOMAIN journals
  BY <1>2, <1>3, <1>4, <1>5
<1>8. disk' \in [Directories -> OnDisk] /\ status' \in [Slots -> Shared]
  BY <1>1 DEF IInv, Shape
<1> QED
  BY <1>1, <1>6, <1>7, <1>8, BaselineKeeps

(* A copied baseline lands in whatever the directory holds by then.        *)
LEMMA LandsStep ==
    ASSUME IInv, BaselineLands
    PROVE  IInv'
<1>1. PICK j : j = Copying
  OBVIOUS
<1>2. /\ baselines # <<>> /\ baselines' = Tail(baselines)
      /\ disk' = [disk EXCEPT ![journals[j].dir].baseline = j]
      /\ status' = [status EXCEPT ![journals[j].slot].complete = TRUE]
      /\ UNCHANGED <<doc, ui, journals, queue, replies, tickets, cover>>
  BY <1>1 DEF BaselineLands
<1>3. j \in Nat /\ journals[j] \in Journal
  <2>1. /\ baselines \in Seq(Copies) /\ journals \in Seq(Journal)
        /\ \A i \in DOMAIN baselines : baselines[i].journal \in DOMAIN journals
    BY DEF IInv, Shape, QueueInv
  <2>2. baselines # <<>> /\ j = Head(baselines).journal
    BY <1>1, <1>2 DEF Copying
  <2>3. 1 \in DOMAIN baselines /\ j = baselines[1].journal
    BY <2>1, <2>2, EmptySeq
  <2> QED
    BY <2>1, <2>3, JournalsAre
<1>4. /\ journals[j].dir \in Directories /\ journals[j].slot \in Slots
      /\ disk \in [Directories -> OnDisk] /\ status \in [Slots -> Shared]
  BY <1>3 DEF Journal, IInv, Shape
<1>5. PICK x \in OnDisk : x = [disk[journals[j].dir] EXCEPT !.baseline = j]
  BY <1>3, <1>4 DEF OnDisk
<1>6. x.extent = disk[journals[j].dir].extent /\ x.root = disk[journals[j].dir].root
  BY <1>4, <1>5 DEF OnDisk
<1>7. disk' = [disk EXCEPT ![journals[j].dir] = x]
  BY <1>2, <1>5
<1>8. /\ disk' \in [Directories -> OnDisk]
      /\ \A d \in Directories : disk'[d].extent = disk[d].extent /\ disk'[d].root = disk[d].root
  BY <1>4, <1>6, <1>7
<1>9. PICK z \in Shared : z = [status[journals[j].slot] EXCEPT !.complete = TRUE]
  BY <1>4 DEF Shared
<1>10. PICK o \in Shared : o = status[journals[j].slot]
  BY <1>4
<1>11. z.dir = o.dir /\ z.durable = o.durable /\ z.error = o.error
  BY <1>9, <1>10 DEF Shared
<1>12. status' = [status EXCEPT ![journals[j].slot] = z]
  BY <1>2, <1>9
<1>13. /\ status' \in [Slots -> Shared]
       /\ \A s \in Slots : /\ status'[s].dir = status[s].dir
                           /\ status'[s].durable = status[s].durable
                           /\ status[s].error => status'[s].error
  BY <1>4, <1>10, <1>11, <1>12
<1>14. /\ baselines' \in Seq(Copies)
       /\ \A i \in DOMAIN baselines' : baselines'[i].journal \in DOMAIN journals
  BY <1>2, CopyLeaves
<1> QED
  BY <1>2, <1>8, <1>13, <1>14, BaselineKeeps

(* A baseline fails, or its journal was dropped.                           *)
LEMMA BaselineFailsStep ==
    ASSUME IInv, BaselineFails
    PROVE  IInv'
<1>1. PICK j : j = Copying
  OBVIOUS
<1>2. /\ baselines # <<>> /\ baselines' = Tail(baselines)
      /\ status' = status \/ status' = [status EXCEPT ![journals[j].slot] = FailBaseline(@)]
      /\ UNCHANGED <<doc, ui, disk, journals, queue, replies, tickets, cover>>
  BY <1>1 DEF BaselineFails
<1>3. j \in Nat /\ journals[j] \in Journal
  <2>1. /\ baselines \in Seq(Copies) /\ journals \in Seq(Journal)
        /\ \A i \in DOMAIN baselines : baselines[i].journal \in DOMAIN journals
    BY DEF IInv, Shape, QueueInv
  <2>2. baselines # <<>> /\ j = Head(baselines).journal
    BY <1>1, <1>2 DEF Copying
  <2>3. 1 \in DOMAIN baselines /\ j = baselines[1].journal
    BY <2>1, <2>2, EmptySeq
  <2> QED
    BY <2>1, <2>3, JournalsAre
<1>4. /\ journals[j].slot \in Slots /\ disk \in [Directories -> OnDisk]
      /\ status \in [Slots -> Shared]
  BY <1>3 DEF Journal, IInv, Shape
<1>5. PICK o \in Shared : o = status[journals[j].slot]
  BY <1>4
<1>6. PICK z \in Shared : z = FailBaseline(o) /\ z.dir = o.dir /\ z.durable = o.durable /\ z.error
  <2>1. PICK z : z = FailBaseline(o)
    OBVIOUS
  <2>2. z \in Shared /\ z.dir = o.dir /\ z.durable = o.durable /\ z.error
    BY <2>1 DEF FailBaseline, Shared
  <2> QED
    BY <2>1, <2>2
<1>7. /\ status' \in [Slots -> Shared]
      /\ \A s \in Slots : /\ status'[s].dir = status[s].dir
                          /\ status'[s].durable = status[s].durable
                          /\ status[s].error => status'[s].error
  <2>1. CASE status' = status
    BY <1>4, <2>1
  <2>2. CASE status' = [status EXCEPT ![journals[j].slot] = FailBaseline(@)]
    <3>1. status' = [status EXCEPT ![journals[j].slot] = z]
      BY <1>5, <1>6, <2>2
    <3> QED
      BY <1>4, <1>5, <1>6, <3>1
  <2> QED
    BY <1>2, <2>1, <2>2
<1>8. /\ baselines' \in Seq(Copies)
      /\ \A i \in DOMAIN baselines' : baselines'[i].journal \in DOMAIN journals
  BY <1>2, CopyLeaves
<1>9. /\ disk' \in [Directories -> OnDisk]
      /\ \A d \in Directories : disk'[d].extent = disk[d].extent /\ disk'[d].root = disk[d].root
  BY <1>2, <1>4
<1> QED
  BY <1>2, <1>7, <1>8, <1>9, BaselineKeeps

-----------------------------------------------------------------------------
(* The other steps of the UI thread.                                       *)

(* A step of the window that leaves what the parts are fitted by alone.    *)
LEMMA WindowKeeps ==
    ASSUME IInv, doc' \in Document, ui' \in Window, Alike(ui', ui), ui'.discard = ui.discard,
           UNCHANGED <<status, disk, journals, queue, baselines, replies, tickets, cover>>
    PROVE  IInv'
<1>1. Shape /\ QueueInv /\ RemovedInv /\ TicketInv /\ AdoptedInv /\ FitsInv
  BY DEF IInv
<1>2. Queued' = Queued
  BY DEF Queued
<1>3. Shape'
  BY <1>1 DEF Shape
<1>4. QueueInv'
  BY <1>1, <1>2 DEF QueueInv, Alike
<1>5. RemovedInv'
  BY <1>1, <1>2 DEF RemovedInv
<1>6. TicketInv'
  BY <1>1, <1>2 DEF TicketInv, Alike
<1>7. AdoptedInv'
  BY <1>1, <1>2 DEF AdoptedInv, Alike
<1>8. CASE ui.discard
  <2>1. Dropped'
    BY <1>1, <1>8 DEF FitsInv, Dropped, Alike
  <2> QED
    BY <1>3, <1>4, <1>5, <1>6, <1>7, <1>8, <2>1 DEF IInv, FitsInv
<1>9. CASE ~ui.discard
  <2>1. Fits(ui, status[ui.slot], replies[ui.slot].checkpoint, replies[ui.slot].retirement,
             Of(Queued, ui.slot), journals, disk, cover)
    BY <1>1, <1>9 DEF FitsInv
  <2>2. PICK u : u = ui'
    OBVIOUS
  <2>3. Fits(u, status[ui.slot], replies[ui.slot].checkpoint, replies[ui.slot].retirement,
             Of(Queued, ui.slot), journals, disk, cover)
    BY <2>1, <2>2, FitsAlike
  <2>4. ui'.slot = ui.slot
    BY DEF Alike
  <2>5. FitsInv'
    BY <1>2, <1>9, <2>2, <2>3, <2>4 DEF FitsInv
  <2> QED
    BY <1>3, <1>4, <1>5, <1>6, <1>7, <2>5 DEF IInv
<1> QED
  BY <1>8, <1>9

(* An edit or a save changes the document only.                            *)
LEMMA DocumentSteps ==
    ASSUME IInv, Edit \/ Saved
    PROVE  IInv'
<1>1. /\ doc \in Document /\ ui \in Window
      /\ UNCHANGED <<ui, status, disk, journals, queue, baselines, replies, tickets, cover>>
  BY DEF IInv, Shape, Edit, Saved
<1>2. doc' \in Document
  <2>1. CASE Edit
    <3>1. doc.state \in Nat /\ doc.state + 1 \in Nat \ {None}
      BY <1>1 DEF Document, None
    <3> QED
      BY <2>1, <3>1 DEF Edit, Document
  <2>2. CASE Saved
    BY <1>1, <2>2 DEF Saved, Document
  <2> QED
    BY <2>1, <2>2
<1>3. ui' \in Window /\ Alike(ui', ui) /\ ui'.discard = ui.discard
  BY <1>1 DEF Alike
<1> QED
  BY <1>1, <1>2, <1>3, WindowKeeps

(* A change of path or a retry changes what the fit does not speak of.     *)
LEMMA WindowSteps ==
    ASSUME IInv, SetOriginalPath \/ Retry
    PROVE  IInv'
<1>1. /\ doc \in Document /\ ui \in Window
      /\ UNCHANGED <<doc, status, disk, journals, queue, baselines, replies, tickets, cover>>
  BY DEF IInv, Shape, SetOriginalPath, Retry
<1>2. ui' \in Window /\ Alike(ui', ui) /\ ui'.discard = ui.discard
  <2>1. CASE SetOriginalPath
    <3>1. PICK n \in Nat : n = ui.path_changes + 1
      BY <1>1 DEF Window
    <3>2. PICK x \in Window : x = [ui EXCEPT !.force_full = TRUE, !.path_changes = n]
      BY <1>1 DEF Window
    <3>3. ui' = x
      BY <2>1, <3>1, <3>2 DEF SetOriginalPath
    <3>4. Alike(x, ui) /\ x.discard = ui.discard
      BY <1>1, <3>2 DEF Alike, Window
    <3> QED
      BY <3>3, <3>4
  <2>2. CASE Retry
    <3>1. PICK x \in Window : x = [ui EXCEPT !.captured = None, !.retry_retirement = TRUE]
      BY <1>1 DEF Window, None
    <3>2. ui' = x
      BY <2>2, <3>1 DEF Retry
    <3>3. Alike(x, ui) /\ x.discard = ui.discard
      BY <1>1, <3>1 DEF Alike, Window
    <3> QED
      BY <3>2, <3>3
  <2> QED
    BY <2>1, <2>2
<1>3. doc' \in Document
  BY <1>1
<1> QED
  BY <1>1, <1>2, <1>3, WindowKeeps

(* Everything the document owns goes to the ticket.                        *)
LEMMA DiscardStep ==
    ASSUME IInv, Discard
    PROVE  IInv'
<1>1. /\ Shape /\ QueueInv /\ RemovedInv /\ TicketInv /\ AdoptedInv /\ ui \in Window
      /\ ui.slot \in Slots /\ ~ui.discard
  BY DEF IInv, Shape, Window, Discard
<1>2. OwnFits(ui, journals)
  BY <1>1 DEF IInv, FitsInv, Fits
<1> DEFINE J == (ui.previous \cup {ui.current}) \ {None}
           P == ui.retire_paths \cup ui.adopted_paths \cup SlotDirectories(ui.slot)
<1>3. PICK phase \in {"requested", "failed"} :
         /\ tickets' = [tickets EXCEPT ![ui.slot] =
                [phase |-> phase, drained |-> FALSE, journals |-> J, paths |-> P]]
         /\ \/ status' = [status EXCEPT ![ui.slot].error = FALSE]
            \/ status' = [status EXCEPT ![ui.slot].error = TRUE]
  BY DEF Discard
<1>4. /\ ui' = [ui EXCEPT !.discard = TRUE, !.pending = "none", !.retirement = FALSE,
                          !.appending = NoDirectory, !.previous = {}, !.current = None,
                          !.retire_paths = {}, !.adopted_paths = {}]
      /\ cover' = None
      /\ UNCHANGED <<doc, disk, journals, queue, baselines, replies>>
  BY DEF Discard
<1>5. P \subseteq Reach(ui.slot) /\ P \subseteq Directories
  <2>1. ui.retire_paths \subseteq Reach(ui.slot)
    BY <1>2 DEF OwnFits
  <2>2. ui.adopted_paths \subseteq {Adopted}
    BY <1>1 DEF Window
  <2>3. P \subseteq Reach(ui.slot)
    BY <2>1, <2>2 DEF Reach
  <2> QED
    BY <1>1, <2>3, SlotsApart
<1>6. J \subseteq Nat /\ \A j \in J : j \in DOMAIN journals /\ journals[j].slot = ui.slot
  BY <1>1, <1>2 DEF OwnFits, Window
<1>7. PICK t \in Ticketed : /\ t = [phase |-> phase, drained |-> FALSE, journals |-> J, paths |-> P]
                            /\ t.phase # "none" /\ ~t.drained /\ t.journals = J /\ t.paths = P
                            /\ t.phase \notin {"purging", "complete", "cleanup"}
  <2> HIDE DEF J, P
  <2>1. PICK t : t = [phase |-> phase, drained |-> FALSE, journals |-> J, paths |-> P]
    OBVIOUS
  <2>2. t \in Ticketed
    BY <1>5, <1>6, <2>1 DEF Ticketed, Phases
  <2> QED
    BY <2>1, <2>2
<1>8. /\ tickets' \in [Slots -> Ticketed] /\ tickets'[ui.slot] = t
      /\ \A s \in Slots : s # ui.slot => tickets'[s] = tickets[s]
  <2>1. tickets' = [tickets EXCEPT ![ui.slot] = t]
    BY <1>3, <1>7
  <2> QED
    BY <1>1, <2>1 DEF Shape
<1>9. status' \in [Slots -> Shared]
  <2>1. status \in [Slots -> Shared]
    BY <1>1 DEF Shape
  <2>2. PICK b \in BOOLEAN : status' = [status EXCEPT ![ui.slot].error = b]
    BY <1>3
  <2>3. PICK z \in Shared : z = [status[ui.slot] EXCEPT !.error = b]
    BY <1>1, <2>1 DEF Shared
  <2>4. status' = [status EXCEPT ![ui.slot] = z]
    BY <2>2, <2>3
  <2> QED
    BY <2>1, <2>4
<1>10. /\ ui' \in Window /\ ui'.slot = ui.slot /\ ui'.discard /\ ui'.pending = "none"
       /\ ~ui'.retirement /\ ui'.appending = NoDirectory /\ ui'.previous = {}
       /\ ui'.current = None /\ ui'.retire_paths = {} /\ ui'.adopted_paths = {}
  BY <1>1, <1>4 DEF Window, None, Nowhere
<1>11. Queued' = Queued
  BY <1>4 DEF Queued
<1>12. Shape'
  BY <1>1, <1>4, <1>8, <1>9, <1>10 DEF Shape, None
<1>13. QueueInv'
  BY <1>1, <1>4, <1>10, <1>11 DEF QueueInv
<1>14. RemovedInv'
  BY <1>1, <1>4, <1>11 DEF RemovedInv
<1>15. TicketInv'
  <2>1. ASSUME NEW s \in Slots, s # ui.slot
        PROVE  (tickets'[s].phase = "none" <=> (s > ui'.slot \/ (s = ui'.slot /\ ~ui'.discard)))
    BY <1>1, <1>8, <1>10, <2>1 DEF TicketInv
  <2>2. (tickets'[ui.slot].phase = "none"
           <=> (ui.slot > ui'.slot \/ (ui.slot = ui'.slot /\ ~ui'.discard)))
    BY <1>1, <1>7, <1>8, <1>10 DEF Slots
  <2>3. SlotDirectories(ui.slot) \subseteq P
    OBVIOUS
  <2> HIDE DEF J, P
  <2>4. ASSUME NEW s \in Slots
        PROVE  LET z == tickets'[s]
               IN  /\ z.phase = "none" => z = NoTicket
                   /\ s > ui'.slot => replies'[s] = Silent
                   /\ z.paths \subseteq Reach(s)
                   /\ \A j \in z.journals : j \in DOMAIN journals' /\ journals'[j].slot = s
                   /\ z.phase # "none" /\ ~z.drained => SlotDirectories(s) \subseteq z.paths
                   /\ z.drained =>
                        /\ Of(Queued', s) = {} /\ replies'[s] = Silent
                        /\ \A d \in SlotDirectories(s) \ z.paths : Gone(disk', d)
                   /\ z.phase \in {"purging", "complete", "cleanup"} =>
                        z.drained /\ \A d \in z.paths : Gone(disk', d)
    <3>1. CASE s = ui.slot
      BY <1>1, <1>4, <1>5, <1>6, <1>7, <1>8, <1>10, <2>3, <3>1 DEF Slots
    <3>2. CASE s # ui.slot
      BY <1>1, <1>4, <1>8, <1>10, <1>11, <3>2 DEF TicketInv
    <3> QED
      BY <3>1, <3>2
  <2> QED
    BY <2>1, <2>2, <2>4 DEF TicketInv
<1>16. AdoptedInv'
  BY <1>10 DEF AdoptedInv
<1>17. FitsInv'
  BY <1>4, <1>10 DEF FitsInv, Dropped
<1> QED
  BY <1>12, <1>13, <1>14, <1>15, <1>16, <1>17 DEF IInv

(* discard asks its ticket how far it is.                                  *)
LEMMA PollDiscardStep ==
    ASSUME IInv, PollDiscard
    PROVE  IInv'
<1>1. /\ Shape /\ QueueInv /\ RemovedInv /\ TicketInv /\ AdoptedInv
      /\ ui.slot \in Slots /\ ui.discard /\ Dropped
  BY DEF IInv, Shape, Window, PollDiscard, FitsInv
<1>2. /\ UNCHANGED <<doc, ui, disk, journals, queue, baselines, replies, cover>>
      /\ \/ tickets' = [tickets EXCEPT ![ui.slot].phase = IF @ = "failed" THEN "requested" ELSE @]
         \/ tickets' = tickets
      /\ \/ status' = [status EXCEPT ![ui.slot] = [@ EXCEPT !.error = FALSE]]
         \/ status' = [status EXCEPT ![ui.slot] = [@ EXCEPT !.error = TRUE]]
         \/ status' = [status EXCEPT ![ui.slot] = NoStatus]
  <2>1. UNCHANGED <<doc, ui, disk, journals, queue, baselines, replies, cover>>
    BY DEF PollDiscard
  <2>2. \/ tickets' = [tickets EXCEPT ![ui.slot].phase = IF @ = "failed" THEN "requested" ELSE @]
        \/ tickets' = tickets
    BY DEF PollDiscard
  <2>3. PICK phase : phase = tickets[ui.slot].phase
    OBVIOUS
  <2>4. status' = [status EXCEPT ![ui.slot] =
                CASE phase = "requested" -> [@ EXCEPT !.error = FALSE]
                  [] phase \in {"cleanup", "failed"} -> [@ EXCEPT !.error = TRUE]
                  [] OTHER -> NoStatus]
    BY <2>3 DEF PollDiscard
  <2>5. CASE phase = "requested"
    BY <2>1, <2>2, <2>4, <2>5
  <2>6. CASE phase \in {"cleanup", "failed"}
    BY <2>1, <2>2, <2>4, <2>6
  <2>7. CASE phase \notin {"requested", "cleanup", "failed"}
    BY <2>1, <2>2, <2>4, <2>7
  <2> QED
    BY <2>5, <2>6, <2>7
<1>3. status' \in [Slots -> Shared]
  <2>1. status \in [Slots -> Shared] /\ NoStatus \in Shared
    BY <1>1, NothingSaid DEF Shape
  <2>2. PICK y \in Shared : y = [status[ui.slot] EXCEPT !.error = FALSE]
    BY <1>1, <2>1 DEF Shared
  <2>3. PICK z \in Shared : z = [status[ui.slot] EXCEPT !.error = TRUE]
    BY <1>1, <2>1 DEF Shared
  <2>4. PICK x \in Shared : status' = [status EXCEPT ![ui.slot] = x]
    BY <1>2, <2>1, <2>2, <2>3
  <2> QED
    BY <2>1, <2>4
<1>4. PICK o \in Ticketed : o = tickets[ui.slot]
  BY <1>1 DEF Shape
<1>5. PICK t \in Ticketed :
         /\ t.drained = o.drained /\ t.journals = o.journals /\ t.paths = o.paths
         /\ t.phase = o.phase \/ (o.phase = "failed" /\ t.phase = "requested")
         /\ o.phase = "none" => t = o
         /\ tickets' = [tickets EXCEPT ![ui.slot] = t]
  <2>1. CASE tickets' = tickets
    <3>1. tickets' = [tickets EXCEPT ![ui.slot] = o]
      BY <1>1, <1>4, <2>1 DEF Shape
    <3> QED
      BY <3>1
  <2>2. CASE tickets' = [tickets EXCEPT ![ui.slot].phase = IF @ = "failed" THEN "requested" ELSE @]
    <3>1. PICK p \in Phases : p = IF o.phase = "failed" THEN "requested" ELSE o.phase
      BY DEF Ticketed, Phases
    <3>2. PICK t \in Ticketed : t = [o EXCEPT !.phase = p]
      BY DEF Ticketed
    <3>3. /\ t.drained = o.drained /\ t.journals = o.journals /\ t.paths = o.paths /\ t.phase = p
      BY <3>2 DEF Ticketed
    <3>4. o.phase # "failed" => t = o
      BY <3>1, <3>2 DEF Ticketed
    <3>5. tickets' = [tickets EXCEPT ![ui.slot] = t]
      BY <1>4, <2>2, <3>1, <3>2
    <3> QED
      BY <3>1, <3>3, <3>4, <3>5
  <2> QED
    BY <1>2, <2>1, <2>2
<1>6. /\ tickets' \in [Slots -> Ticketed] /\ tickets'[ui.slot] = t
      /\ \A s \in Slots : s # ui.slot => tickets'[s] = tickets[s]
  BY <1>1, <1>5 DEF Shape
<1>7. Queued' = Queued
  BY <1>2 DEF Queued
<1>8. Shape'
  BY <1>1, <1>2, <1>3, <1>6 DEF Shape
<1>9. QueueInv'
  BY <1>1, <1>2, <1>7 DEF QueueInv
<1>10. RemovedInv'
  BY <1>1, <1>2, <1>7 DEF RemovedInv
<1>11. TicketInv'
  <2>1. o.phase # "none" /\ t.phase # "none"
    BY <1>1, <1>4, <1>5 DEF TicketInv, Slots
  <2>2. ASSUME NEW s \in Slots, s # ui.slot
        PROVE  tickets'[s] = tickets[s]
    BY <1>6, <2>2
  <2>3. /\ o.paths \subseteq Reach(ui.slot)
        /\ \A j \in o.journals : j \in DOMAIN journals /\ journals[j].slot = ui.slot
        /\ ~o.drained => SlotDirectories(ui.slot) \subseteq o.paths
        /\ o.drained =>
             /\ Of(Queued, ui.slot) = {} /\ replies[ui.slot] = Silent
             /\ \A d \in SlotDirectories(ui.slot) \ o.paths : Gone(disk, d)
        /\ o.phase \in {"purging", "complete", "cleanup"} =>
             o.drained /\ \A d \in o.paths : Gone(disk, d)
    BY <1>1, <1>4, <2>1 DEF TicketInv
  <2>4. ASSUME NEW s \in Slots
        PROVE  LET z == tickets'[s]
               IN  /\ z.phase = "none" <=> (s > ui'.slot \/ (s = ui'.slot /\ ~ui'.discard))
                   /\ z.phase = "none" => z = NoTicket
                   /\ s > ui'.slot => replies'[s] = Silent
                   /\ z.paths \subseteq Reach(s)
                   /\ \A j \in z.journals : j \in DOMAIN journals' /\ journals'[j].slot = s
                   /\ z.phase # "none" /\ ~z.drained => SlotDirectories(s) \subseteq z.paths
                   /\ z.drained =>
                        /\ Of(Queued', s) = {} /\ replies'[s] = Silent
                        /\ \A d \in SlotDirectories(s) \ z.paths : Gone(disk', d)
                   /\ z.phase \in {"purging", "complete", "cleanup"} =>
                        z.drained /\ \A d \in z.paths : Gone(disk', d)
    <3>1. CASE s = ui.slot
      BY <1>1, <1>2, <1>5, <1>6, <1>7, <2>1, <2>3, <3>1 DEF Slots
    <3>2. CASE s # ui.slot
      BY <1>1, <1>2, <1>6, <1>7, <3>2 DEF TicketInv
    <3> QED
      BY <3>1, <3>2
  <2> QED
    BY <2>4 DEF TicketInv
<1>12. AdoptedInv'
  BY <1>1, <1>2 DEF AdoptedInv, Dropped
<1>13. FitsInv'
  BY <1>1, <1>2 DEF FitsInv, Dropped
<1> QED
  BY <1>8, <1>9, <1>10, <1>11, <1>12, <1>13 DEF IInv

(* A document that stays open starts over in a slot of its own.            *)
LEMMA ResumeStep ==
    ASSUME IInv, ResumeAfterDiscard
    PROVE  IInv'
<1>1. /\ Shape /\ QueueInv /\ RemovedInv /\ TicketInv /\ AdoptedInv /\ ui \in Window
      /\ ui.slot \in Slots /\ ui.discard /\ Dropped /\ ui.slot < MaxSlots
  BY DEF IInv, Shape, Window, ResumeAfterDiscard, FitsInv
<1>2. /\ UNCHANGED <<doc, status, disk, journals, queue, baselines, replies, tickets, cover>>
      /\ ui' = [ui EXCEPT !.discard = FALSE, !.slot = ui.slot + 1, !.generation = 0,
                          !.incremental = 0, !.force_full = FALSE, !.captured = None]
  BY DEF ResumeAfterDiscard
<1>3. PICK n \in Slots : n = ui.slot + 1
  BY <1>1, ConstantsAssumption DEF Slots, ConstantsAssumption
<1>4. /\ ui' \in Window /\ ui'.slot = n /\ ~ui'.discard /\ ui'.pending = ui.pending
      /\ ui'.retirement = ui.retirement /\ ui'.appending = ui.appending
      /\ ui'.previous = ui.previous /\ ui'.current = ui.current
      /\ ui'.retire_paths = ui.retire_paths /\ ui'.adopted_paths = ui.adopted_paths
  <2>1. PICK x \in Window : x = [ui EXCEPT !.discard = FALSE, !.slot = n, !.generation = 0,
                                   !.incremental = 0, !.force_full = FALSE, !.captured = None]
    BY <1>1 DEF Window, None
  <2>2. ui' = x
    BY <1>2, <1>3, <2>1
  <2>3. /\ x.slot = n /\ ~x.discard /\ x.pending = ui.pending
        /\ x.retirement = ui.retirement /\ x.appending = ui.appending
        /\ x.previous = ui.previous /\ x.current = ui.current
        /\ x.retire_paths = ui.retire_paths /\ x.adopted_paths = ui.adopted_paths
    BY <1>1, <2>1 DEF Window
  <2> QED
    BY <2>2, <2>3
<1>5. \A s \in Slots : s > n \/ s = n <=> s > ui.slot
  BY <1>1, <1>3 DEF Slots
<1>6. Queued' = Queued
  BY <1>2 DEF Queued
<1>7. Shape'
  BY <1>1, <1>2, <1>4 DEF Shape
<1>8. QueueInv'
  <2>1. \A q \in Queued : q.slot \in Slots /\ q.slot <= n
    <3>1. \A q \in Queued : q.slot \in Slots
      BY <1>1, JobsAre DEF Queued, Jobs, Shape
    <3> QED
      BY <1>1, <1>3, <3>1 DEF QueueInv, Slots
  <2> QED
    BY <1>1, <1>2, <1>4, <1>6, <2>1 DEF QueueInv
<1>9. RemovedInv'
  BY <1>1, <1>2, <1>6 DEF RemovedInv
<1>10. TicketInv'
  <2>1. \A s \in Slots : s > n => s > ui.slot
    BY <1>5
  <2> QED
    BY <1>1, <1>2, <1>4, <1>5, <1>6, <2>1 DEF TicketInv
<1>11. AdoptedInv'
  BY <1>1, <1>4 DEF AdoptedInv, Dropped
<1>12. FitsInv'
  <2>1. replies[n] = Silent /\ Of(Queued, n) = {}
    <3>1. n > ui.slot /\ ~(n <= ui.slot)
      BY <1>1, <1>3 DEF Slots
    <3> QED
      BY <1>1, <3>1 DEF TicketInv, QueueInv, Of
  <2>2. PICK u : u = ui'
    OBVIOUS
  <2>3. /\ u.current = None /\ u.previous = {} /\ u.pending = "none" /\ ~u.retirement
        /\ u.retire_paths = {} /\ u.adopted_paths = {} /\ u.appending = NoDirectory
        /\ u.slot = n /\ ~u.discard /\ cover = None
    BY <1>1, <1>4, <2>2 DEF Dropped
  <2>4. OwnFits(u, journals)
    BY <2>3 DEF OwnFits
  <2>5. RetireFits(u, NoReply, {})
    BY <2>3, NothingSaid DEF RetireFits
  <2>6. StatusFits(u, status[n], journals) /\ CurrentKept(u, journals, disk, cover)
    BY <2>3 DEF StatusFits, CurrentKept
  <2>7. Fits(u, status[n], NoReply, NoReply, {}, journals, disk, cover)
    BY <2>3, <2>4, <2>5, <2>6, NothingSaid DEF Fits
  <2>8. replies[n].checkpoint = NoReply /\ replies[n].retirement = NoReply
    BY <2>1 DEF Silent
  <2> QED
    BY <1>2, <1>6, <2>1, <2>2, <2>3, <2>7, <2>8 DEF FitsInv
<1> QED
  BY <1>7, <1>8, <1>9, <1>10, <1>11, <1>12 DEF IInv

-----------------------------------------------------------------------------
(* The discard tickets.                                                    *)

(* What the ticket of slot s is after its step.                            *)
TicketOf(t, s) ==
    /\ t.phase # "none" /\ t.paths \subseteq Reach(s)
    /\ Adopted \in t.paths => Adopted \in tickets[s].paths
    /\ \A j \in t.journals : j \in DOMAIN journals /\ journals[j].slot = s
    /\ ~t.drained => SlotDirectories(s) \subseteq t.paths
    /\ t.drained => /\ Of(Queued, s) = {} /\ replies'[s] = Silent
                    /\ \A d \in SlotDirectories(s) \ t.paths : Gone(disk', d)
    /\ t.phase \in {"purging", "complete", "cleanup"} =>
         t.drained /\ \A d \in t.paths : Gone(disk', d)

(* A ticket only removes what it covers, and only of slots not in use.     *)
LEMMA TicketKeeps ==
    ASSUME IInv, NEW s \in Slots, tickets[s].phase # "none",
           UNCHANGED <<doc, ui, status, journals, queue, baselines, cover>>,
           replies' \in [Slots -> [checkpoint : Answers, retirement : Answers]],
           \A r \in Slots : r # s => replies'[r] = replies[r],
           replies'[s] = replies[s] \/ replies'[s] = Silent,
           disk' \in [Directories -> OnDisk],
           \A d \in Directories :
              disk'[d] = disk[d] \/ (d \in tickets[s].paths /\ Gone(disk', d)),
           tickets' \in [Slots -> Ticketed], \A r \in Slots : r # s => tickets'[r] = tickets[r],
           TicketOf(tickets'[s], s)
    PROVE  IInv'
<1>1. /\ Shape /\ QueueInv /\ RemovedInv /\ TicketInv /\ AdoptedInv /\ ui.slot \in Slots
  BY DEF IInv, Shape, Window
<1>2. Queued' = Queued /\ \A r \in Slots : Of(Queued', r) = Of(Queued, r)
  BY DEF Queued
<1>3. (s < ui.slot \/ s = ui.slot) /\ (s = ui.slot => ui.discard)
  <2>1. tickets[s].phase = "none" <=> (s > ui.slot \/ (s = ui.slot /\ ~ui.discard))
    BY <1>1 DEF TicketInv
  <2> QED
    BY <1>1, <2>1 DEF Slots
<1>4. \A d \in Directories : Gone(disk, d) => Gone(disk', d)
  BY DEF Gone
<1>5. \A r \in Slots : Reach(r) \subseteq Directories /\ SlotDirectories(r) \subseteq Directories
  BY SlotsApart
<1>6. Shape'
  BY <1>1 DEF Shape
<1>7. QueueInv'
  <2>1. ASSUME NEW q \in Queued PROVE replies'[q.slot] = Silent
    <3>1. q.slot \in Slots /\ replies[q.slot] = Silent
      BY <1>1, JobsAre DEF Queued, Jobs, Shape, QueueInv
    <3> QED
      BY <3>1
  <2> QED
    BY <1>1, <1>2, <2>1 DEF QueueInv
<1>8. RemovedInv'
  <2>1. ASSUME NEW q \in Queued, NEW d \in q.done PROVE Gone(disk', d)
    <3>1. d \in Directories
      BY <1>1, <2>1, JobsAre DEF Queued, Jobs, Shape
    <3> QED
      BY <1>1, <1>4, <2>1, <3>1 DEF RemovedInv
  <2>2. ASSUME NEW r \in Slots
        PROVE  /\ replies'[r].retirement.paths \subseteq Reach(r)
               /\ \A d \in replies'[r].retirement.paths : Gone(disk', d)
               /\ replies'[r].retirement.journal = None
               /\ replies'[r].checkpoint.journal # None =>
                    /\ replies'[r].checkpoint.journal \in DOMAIN journals'
                    /\ journals'[replies'[r].checkpoint.journal].slot = r
    <3>1. CASE replies'[r] = Silent
      BY <3>1, NothingSaid DEF Silent
    <3>2. CASE replies'[r] = replies[r]
      <4>1. /\ replies[r].retirement.paths \subseteq Reach(r)
            /\ \A d \in replies[r].retirement.paths : Gone(disk, d)
            /\ replies[r].retirement.journal = None
            /\ replies[r].checkpoint.journal # None =>
                 /\ replies[r].checkpoint.journal \in DOMAIN journals
                 /\ journals[replies[r].checkpoint.journal].slot = r
        BY <1>1 DEF RemovedInv
      <4>2. \A d \in replies[r].retirement.paths : Gone(disk', d)
        BY <1>4, <1>5, <4>1
      <4> QED
        BY <3>2, <4>1, <4>2
    <3> QED
      BY <3>1, <3>2
  <2> QED
    BY <1>2, <2>1, <2>2 DEF RemovedInv
<1>9. TicketInv'
  <2>1. ASSUME NEW r \in Slots, r # s
        PROVE  /\ tickets[r].drained =>
                    /\ Of(Queued', r) = {} /\ replies'[r] = Silent
                    /\ \A d \in SlotDirectories(r) \ tickets[r].paths : Gone(disk', d)
               /\ tickets[r].phase \in {"purging", "complete", "cleanup"} =>
                    \A d \in tickets[r].paths : Gone(disk', d)
    <3>1. /\ tickets[r].drained =>
               /\ Of(Queued, r) = {} /\ replies[r] = Silent
               /\ \A d \in SlotDirectories(r) \ tickets[r].paths : Gone(disk, d)
          /\ tickets[r].phase \in {"purging", "complete", "cleanup"} =>
               \A d \in tickets[r].paths : Gone(disk, d)
          /\ tickets[r].paths \subseteq Reach(r)
      BY <1>1, <2>1 DEF TicketInv
    <3> QED
      BY <1>2, <1>4, <1>5, <2>1, <3>1
  <2>2. ~(s > ui.slot)
    BY <1>1, <1>3 DEF Slots
  <2>3. ASSUME NEW r \in Slots
        PROVE  LET z == tickets'[r]
               IN  /\ z.phase = "none" <=> (r > ui'.slot \/ (r = ui'.slot /\ ~ui'.discard))
                   /\ z.phase = "none" => z = NoTicket
                   /\ r > ui'.slot => replies'[r] = Silent
                   /\ z.paths \subseteq Reach(r)
                   /\ \A j \in z.journals : j \in DOMAIN journals' /\ journals'[j].slot = r
                   /\ z.phase # "none" /\ ~z.drained => SlotDirectories(r) \subseteq z.paths
                   /\ z.drained =>
                        /\ Of(Queued', r) = {} /\ replies'[r] = Silent
                        /\ \A d \in SlotDirectories(r) \ z.paths : Gone(disk', d)
                   /\ z.phase \in {"purging", "complete", "cleanup"} =>
                        z.drained /\ \A d \in z.paths : Gone(disk', d)
    <3>1. CASE r = s
      BY <1>2, <1>3, <2>2, <3>1 DEF TicketOf
    <3>2. CASE r # s
      BY <1>1, <2>1, <3>2 DEF TicketInv
    <3> QED
      BY <3>1, <3>2
  <2> QED
    BY <2>3 DEF TicketInv
<1>10. AdoptedInv'
  <2>1. ASSUME Adopted \in ui.adopted_paths
        PROVE  disk'[Adopted] = disk[Adopted] /\ \A r \in Slots : Adopted \notin tickets'[r].paths
    <3>1. Adopted \in Directories /\ \A r \in Slots : Adopted \notin tickets[r].paths
      BY <1>1, <2>1, SlotsApart DEF AdoptedInv
    <3> QED
      BY <3>1 DEF TicketOf
  <2> QED
    BY <1>1, <1>2, <2>1 DEF AdoptedInv
<1>11. FitsInv'
  <2>1. CASE ui.discard
    BY <2>1, OtherFits
  <2>2. CASE ui.slot # s
    <3>1. Reach(s) \cap SlotDirectories(ui.slot) = {} /\ SlotDirectories(ui.slot) \subseteq Directories
      BY <1>1, <2>2, SlotsApart
    <3>2. \A d \in SlotDirectories(ui.slot) : disk'[d] = disk[d]
      BY <1>1, <3>1 DEF TicketInv
    <3>3. replies'[ui.slot] = replies[ui.slot] /\ Of(Queued', ui.slot) = Of(Queued, ui.slot)
      BY <1>1, <1>2, <2>2
    <3> QED
      BY <3>2, <3>3, OtherFits DEF Grows
  <2> QED
    BY <1>3, <2>1, <2>2
<1> QED
  BY <1>6, <1>7, <1>8, <1>9, <1>10, <1>11 DEF IInv

(* The ticket waits for the slot's jobs and takes what they answered.      *)
LEMMA TicketDrainStep ==
    ASSUME IInv, NEW s \in Slots, TicketDrain(s)
    PROVE  IInv'
<1>1. /\ Shape /\ QueueInv /\ RemovedInv /\ TicketInv
      /\ UNCHANGED <<doc, ui, status, disk, journals, queue, baselines, cover>>
  BY DEF IInv, TicketDrain
<1>2. PICK o \in Ticketed : o = tickets[s]
  BY <1>1 DEF Shape
<1>3. PICK c \in Answers : c = replies[s].checkpoint
  BY <1>1 DEF Shape
<1>4. PICK a \in Answers : a = replies[s].retirement
  BY <1>1 DEF Shape
<1>5. o.phase = "requested" /\ ~o.drained /\ \A i \in DOMAIN queue : queue[i].slot # s
  BY <1>2 DEF TicketDrain
<1>6. /\ c.journal # None => c.journal \in DOMAIN journals /\ journals[c.journal].slot = s
      /\ a.paths \subseteq Reach(s) /\ \A d \in a.paths : Gone(disk, d)
  BY <1>1, <1>3, <1>4 DEF RemovedInv
<1>7. /\ o.paths \subseteq Reach(s) /\ SlotDirectories(s) \subseteq o.paths
      /\ \A j \in o.journals : j \in DOMAIN journals /\ journals[j].slot = s
  BY <1>1, <1>2, <1>5 DEF TicketInv
<1>8. PICK owned : owned = o.journals \cup ({c.journal} \ {None})
  OBVIOUS
<1>9. PICK dirs : dirs = {journals[j].dir : j \in owned}
  OBVIOUS
<1>10. \A j \in owned : j \in DOMAIN journals /\ journals[j].slot = s /\ j \in Nat
  BY <1>1, <1>6, <1>7, <1>8, JournalsAre DEF Shape
<1>11. dirs \subseteq SlotDirectories(s)
  BY <1>1, <1>9, <1>10 DEF QueueInv, JournalsFit
<1>12. PICK ps : ps = (o.paths \ a.paths) \cup dirs
  OBVIOUS
<1>13. ps \subseteq Reach(s) /\ ps \subseteq Directories /\ Adopted \notin dirs
  BY <1>7, <1>11, <1>12, SlotsApart
<1>14. tickets' = [tickets EXCEPT ![s].drained = TRUE, ![s].journals = owned, ![s].paths = ps]
  BY <1>2, <1>3, <1>4, <1>8, <1>9, <1>12 DEF TicketDrain
<1>15. PICK t \in Ticketed : t = [o EXCEPT !.drained = TRUE, !.journals = owned, !.paths = ps]
  BY <1>10, <1>13 DEF Ticketed
<1>16. t.phase = "requested" /\ t.drained /\ t.journals = owned /\ t.paths = ps
  BY <1>5, <1>15 DEF Ticketed
<1>17. tickets' = [tickets EXCEPT ![s] = t]
  BY <1>1, <1>2, <1>14, <1>15 DEF Shape, Ticketed
<1>18. /\ tickets' \in [Slots -> Ticketed] /\ tickets'[s] = t
       /\ \A r \in Slots : r # s => tickets'[r] = tickets[r]
  BY <1>1, <1>17 DEF Shape
<1>19. replies' = [replies EXCEPT ![s] = Silent]
  BY DEF TicketDrain, Silent
<1>20. Silent \in [checkpoint : Answers, retirement : Answers]
  BY NothingSaid DEF Silent
<1>21. /\ replies' \in [Slots -> [checkpoint : Answers, retirement : Answers]]
       /\ replies'[s] = Silent /\ \A r \in Slots : r # s => replies'[r] = replies[r]
  BY <1>1, <1>19, <1>20 DEF Shape
<1>22. Of(Queued, s) = {}
  BY <1>5 DEF Of, Queued
<1>23. \A d \in SlotDirectories(s) \ ps : Gone(disk', d)
  <2>1. \A d \in SlotDirectories(s) \ ps : Gone(disk, d)
    BY <1>6, <1>7, <1>12
  <2> QED
    BY <1>1, <2>1 DEF Gone
<1>24. TicketOf(tickets'[s], s)
  <2>1. Adopted \in ps => Adopted \in tickets[s].paths
    BY <1>2, <1>12, <1>13
  <2> QED
    BY <1>10, <1>13, <1>16, <1>18, <1>21, <1>22, <1>23, <2>1 DEF TicketOf
<1>25. tickets[s].phase # "none"
  BY <1>2, <1>5
<1>26. disk' \in [Directories -> OnDisk] /\ \A d \in Directories : disk'[d] = disk[d]
  BY <1>1 DEF Shape
<1> QED
  BY <1>1, <1>18, <1>21, <1>24, <1>25, <1>26, TicketKeeps

(* What a ticket's tombstones and removals leave of its slot.              *)
LEMMA TicketRemoves ==
    ASSUME IInv, NEW s \in Slots, NEW o \in Ticketed, o = tickets[s],
           o.phase # "none", o.drained,
           UNCHANGED <<doc, ui, status, journals, queue, baselines, replies, cover>>,
           disk' \in [Directories -> OnDisk],
           \A d \in Directories : disk'[d] = disk[d] \/ (d \in o.paths /\ Gone(disk', d)),
           NEW t \in Ticketed, tickets' \in [Slots -> Ticketed], tickets'[s] = t,
           \A r \in Slots : r # s => tickets'[r] = tickets[r],
           t.phase # "none", t.drained, t.paths = o.paths, t.journals \subseteq o.journals,
           t.phase \in {"purging", "complete", "cleanup"} => \A d \in o.paths : Gone(disk', d)
    PROVE  IInv'
<1>1. Shape /\ TicketInv
  BY DEF IInv
<1>2. /\ o.paths \subseteq Reach(s) /\ Of(Queued, s) = {} /\ replies[s] = Silent
      /\ \A j \in o.journals : j \in DOMAIN journals /\ journals[j].slot = s
      /\ \A d \in SlotDirectories(s) \ o.paths : Gone(disk, d)
  BY <1>1 DEF TicketInv
<1>3. SlotDirectories(s) \subseteq Directories
  BY SlotsApart
<1>4. \A d \in SlotDirectories(s) \ o.paths : Gone(disk', d)
  BY <1>2, <1>3 DEF Gone
<1>5. TicketOf(tickets'[s], s)
  BY <1>2, <1>4 DEF TicketOf
<1>6. /\ replies' \in [Slots -> [checkpoint : Answers, retirement : Answers]]
      /\ \A r \in Slots : replies'[r] = replies[r]
  BY <1>1 DEF Shape
<1> QED
  BY <1>5, <1>6, TicketKeeps

(* Setting the phase of a ticket leaves what it covers.                    *)
Phased(s, p) == tickets' = [tickets EXCEPT ![s].phase = p]

(* The ticket has that phase then, and nothing else of it changes.         *)
LEMMA PhaseSet ==
    ASSUME Shape, NEW s \in Slots, NEW o \in Ticketed, o = tickets[s], NEW p \in Phases,
           Phased(s, p)
    PROVE  \E t \in Ticketed :
             /\ tickets' \in [Slots -> Ticketed] /\ tickets'[s] = t
             /\ \A r \in Slots : r # s => tickets'[r] = tickets[r]
             /\ t.phase = p /\ t.drained = o.drained /\ t.paths = o.paths
             /\ t.journals = o.journals
<1>1. PICK t \in Ticketed : t = [o EXCEPT !.phase = p]
  BY DEF Ticketed
<1>2. t.phase = p /\ t.drained = o.drained /\ t.paths = o.paths /\ t.journals = o.journals
  BY <1>1 DEF Ticketed
<1>3. tickets' = [tickets EXCEPT ![s] = t]
  BY <1>1 DEF Phased
<1>4. /\ tickets' \in [Slots -> Ticketed] /\ tickets'[s] = t
      /\ \A r \in Slots : r # s => tickets'[r] = tickets[r]
  BY <1>3 DEF Shape
<1> QED
  BY <1>2, <1>4

(* A tombstone retires what the disk holds, a removal leaves nothing.      *)
LEMMA RetiringIs ==
    ASSUME Shape, NEW D, NEW ds, ds = Retiring(D)
    PROVE  /\ ds \in [Directories -> OnDisk]
           /\ \A d \in Directories : IF d \in D THEN ds[d].extent = "retired" ELSE ds[d] = disk[d]
<1>1. ASSUME NEW d \in Directories
      PROVE  /\ ds[d] \in OnDisk
             /\ IF d \in D THEN ds[d].extent = "retired" ELSE ds[d] = disk[d]
  <2>1. PICK x \in OnDisk : x = disk[d]
    BY DEF Shape
  <2>2. PICK y \in OnDisk : y = [x EXCEPT !.extent = "retired"]
    BY DEF OnDisk, Extents
  <2>3. y.extent = "retired"
    BY <2>2 DEF OnDisk
  <2>4. ds[d] = IF d \in D THEN y ELSE x
    BY <2>1, <2>2 DEF Retiring
  <2> QED
    BY <2>1, <2>3, <2>4
<1>2. ds = [d \in Directories |-> ds[d]]
  BY DEF Retiring
<1> QED
  BY <1>1, <1>2

(* What is purged is no longer there.                                      *)
LEMMA PurgedIs ==
    ASSUME Shape, NEW D, NEW ds, ds = Purged(D)
    PROVE  /\ ds \in [Directories -> OnDisk]
           /\ \A d \in Directories : IF d \in D THEN ds[d].extent = "absent" ELSE ds[d] = disk[d]
<1>1. ASSUME NEW d \in Directories
      PROVE  ds[d] \in OnDisk /\ IF d \in D THEN ds[d].extent = "absent" ELSE ds[d] = disk[d]
  <2>1. PICK x \in OnDisk : x = disk[d]
    BY DEF Shape
  <2>2. ds[d] = IF d \in D THEN Absent ELSE x
    BY <2>1 DEF Purged
  <2> QED
    BY <2>1, <2>2, AbsentIs
<1>2. ds = [d \in Directories |-> ds[d]]
  BY DEF Purged
<1> QED
  BY <1>1, <1>2

(* A tombstone covers every directory the ticket names.                    *)
LEMMA TicketTombstoneStep ==
    ASSUME IInv, NEW s \in Slots, TicketTombstone(s)
    PROVE  IInv'
<1>1. /\ Shape /\ TicketInv
      /\ UNCHANGED <<doc, ui, status, journals, queue, baselines, replies, cover>>
  BY DEF IInv, TicketTombstone
<1>2. PICK o \in Ticketed : o = tickets[s]
  BY <1>1 DEF Shape
<1>3. o.phase = "requested" /\ o.drained
  BY <1>2 DEF TicketTombstone
<1>4. o.paths \subseteq Directories
  BY DEF Ticketed
<1>5. PICK D : D = Present(s)
  OBVIOUS
<1>6. D = {d \in o.paths : disk[d].extent # "absent"}
  BY <1>2, <1>5 DEF Present
<1>7. disk' = Retiring(D)
  BY <1>5 DEF TicketTombstone
<1>8. /\ disk' \in [Directories -> OnDisk]
      /\ \A d \in Directories : IF d \in D THEN disk'[d].extent = "retired" ELSE disk'[d] = disk[d]
  BY <1>1, <1>7, RetiringIs
<1>9. /\ \A d \in Directories : disk'[d] = disk[d] \/ (d \in o.paths /\ Gone(disk', d))
      /\ \A d \in o.paths : Gone(disk', d)
  BY <1>4, <1>6, <1>8 DEF Gone
<1>10. PICK t \in Ticketed : t = [o EXCEPT !.phase = "purging", !.journals = {}]
  BY DEF Ticketed, Phases
<1>11. t.phase = "purging" /\ t.drained /\ t.paths = o.paths /\ t.journals = {}
  BY <1>3, <1>10 DEF Ticketed
<1>12. tickets' = [tickets EXCEPT ![s] = t]
  BY <1>1, <1>2, <1>10 DEF TicketTombstone, Shape, Ticketed
<1>13. /\ tickets' \in [Slots -> Ticketed] /\ tickets'[s] = t
       /\ \A r \in Slots : r # s => tickets'[r] = tickets[r]
  BY <1>1, <1>12 DEF Shape
<1>14. t.phase # "none" /\ o.phase # "none" /\ t.journals \subseteq o.journals
  BY <1>3, <1>11
<1> QED
  BY <1>1, <1>2, <1>3, <1>8, <1>9, <1>11, <1>13, <1>14, TicketRemoves

(* A tombstone that fails may have covered some of them.                   *)
LEMMA TicketTombstoneFailsStep ==
    ASSUME IInv, NEW s \in Slots, TicketTombstoneFails(s)
    PROVE  IInv'
<1>1. /\ Shape /\ TicketInv
      /\ UNCHANGED <<doc, ui, status, journals, queue, baselines, replies, cover>>
  BY DEF IInv, TicketTombstoneFails
<1>2. PICK o \in Ticketed : o = tickets[s]
  BY <1>1 DEF Shape
<1>3. o.phase = "requested" /\ o.drained
  BY <1>2 DEF TicketTombstoneFails
<1>4. PICK D : D \subseteq o.paths /\ disk' = Retiring(D)
  BY <1>2 DEF TicketTombstoneFails, Present
<1>5. /\ disk' \in [Directories -> OnDisk]
      /\ \A d \in Directories : IF d \in D THEN disk'[d].extent = "retired" ELSE disk'[d] = disk[d]
  BY <1>1, <1>4, RetiringIs
<1>6. \A d \in Directories : disk'[d] = disk[d] \/ (d \in o.paths /\ Gone(disk', d))
  BY <1>4, <1>5 DEF Gone
<1>7. Phased(s, "failed") /\ "failed" \in Phases
  BY DEF TicketTombstoneFails, Phases, Phased
<1>8. PICK t \in Ticketed :
         /\ tickets' \in [Slots -> Ticketed] /\ tickets'[s] = t
         /\ \A r \in Slots : r # s => tickets'[r] = tickets[r]
         /\ t.phase = "failed" /\ t.drained = o.drained /\ t.paths = o.paths
         /\ t.journals = o.journals
  BY <1>1, <1>2, <1>7, PhaseSet
<1>9. /\ t.phase # "none" /\ o.phase # "none" /\ t.drained /\ t.journals \subseteq o.journals
      /\ t.phase \notin {"purging", "complete", "cleanup"}
  BY <1>3, <1>8
<1> QED
  BY <1>1, <1>2, <1>3, <1>5, <1>6, <1>8, <1>9, TicketRemoves

(* Purging takes away only what is already gone for a restart.             *)
LEMMA PurgeRemoves ==
    ASSUME IInv, NEW s \in Slots, NEW o \in Ticketed, o = tickets[s],
           o.phase \in {"purging", "complete", "cleanup"},
           UNCHANGED <<doc, ui, status, journals, queue, baselines, replies, cover>>,
           NEW D, D \subseteq Tombstoned(s), disk' = Purged(D),
           NEW t \in Ticketed, tickets' \in [Slots -> Ticketed], tickets'[s] = t,
           \A r \in Slots : r # s => tickets'[r] = tickets[r],
           t.phase # "none", t.drained = o.drained, t.paths = o.paths, t.journals = o.journals
    PROVE  IInv'
<1>1. Shape /\ TicketInv
  BY DEF IInv
<1>2. o.drained /\ \A d \in o.paths : Gone(disk, d)
  BY <1>1 DEF TicketInv
<1>3. D \subseteq o.paths /\ o.paths \subseteq Directories
  BY DEF Tombstoned, Ticketed
<1>4. /\ disk' \in [Directories -> OnDisk]
      /\ \A d \in Directories : IF d \in D THEN disk'[d].extent = "absent" ELSE disk'[d] = disk[d]
  BY <1>1, PurgedIs
<1>5. /\ \A d \in Directories : disk'[d] = disk[d] \/ (d \in o.paths /\ Gone(disk', d))
      /\ \A d \in o.paths : Gone(disk', d)
  BY <1>2, <1>3, <1>4 DEF Gone
<1>6. t.drained /\ t.journals \subseteq o.journals /\ o.phase # "none"
  BY <1>2
<1> QED
  BY <1>2, <1>4, <1>5, <1>6, TicketRemoves

(* A purge succeeds, or keeps a receipt for what it left.                  *)
LEMMA TicketPurgeStep ==
    ASSUME IInv, NEW s \in Slots, TicketPurge(s)
    PROVE  IInv'
<1>1. Shape /\ UNCHANGED <<doc, ui, status, journals, queue, baselines, replies, cover>>
  BY DEF IInv, TicketPurge
<1>2. PICK o \in Ticketed : o = tickets[s]
  BY <1>1 DEF Shape
<1>3. o.phase \in {"purging", "complete", "cleanup"}
  BY <1>2 DEF TicketPurge
<1>4. PICK p \in {"complete", "cleanup"} :
         Phased(s, p) /\ \E D \in SUBSET Tombstoned(s) : disk' = Purged(D)
  BY DEF TicketPurge, Phased
<1>5. PICK D : D \subseteq Tombstoned(s) /\ disk' = Purged(D)
  BY <1>4
<1>6. p \in Phases /\ p # "none"
  BY <1>4 DEF Phases
<1>7. PICK t \in Ticketed :
         /\ tickets' \in [Slots -> Ticketed] /\ tickets'[s] = t
         /\ \A r \in Slots : r # s => tickets'[r] = tickets[r]
         /\ t.phase = p /\ t.drained = o.drained /\ t.paths = o.paths
         /\ t.journals = o.journals
  BY <1>1, <1>2, <1>4, <1>6, PhaseSet
<1> QED
  BY <1>1, <1>2, <1>3, <1>5, <1>6, <1>7, PurgeRemoves

(* A retry removes what an earlier one left, or asks for the tombstones    *)
(* again.                                                                  *)
LEMMA RetryStep ==
    ASSUME IInv, NEW s \in Slots, RetryPendingCleanup(s)
    PROVE  IInv'
<1>1. /\ Shape /\ TicketInv
      /\ UNCHANGED <<doc, ui, status, journals, queue, baselines, replies, cover>>
  BY DEF IInv, RetryPendingCleanup
<1>2. PICK o \in Ticketed : o = tickets[s]
  BY <1>1 DEF Shape
<1>3. CASE o.phase = "cleanup"
  <2>1. disk' = Purged(Tombstoned(s)) /\ tickets' = tickets
    BY <1>2, <1>3 DEF RetryPendingCleanup
  <2>2. tickets' \in [Slots -> Ticketed] /\ tickets'[s] = o /\ \A r \in Slots : tickets'[r] = tickets[r]
    BY <1>1, <1>2, <2>1 DEF Shape
  <2> QED
    BY <1>1, <1>2, <1>3, <2>1, <2>2, PurgeRemoves
<1>4. CASE o.phase = "failed"
  <2>1. Phased(s, "requested") /\ "requested" \in Phases /\ disk' = disk
    BY <1>2, <1>4 DEF RetryPendingCleanup, Phases, Phased
  <2>2. PICK t \in Ticketed :
           /\ tickets' \in [Slots -> Ticketed] /\ tickets'[s] = t
           /\ \A r \in Slots : r # s => tickets'[r] = tickets[r]
           /\ t.phase = "requested" /\ t.drained = o.drained /\ t.paths = o.paths
           /\ t.journals = o.journals
    BY <1>1, <1>2, <2>1, PhaseSet
  <2>3. /\ o.paths \subseteq Reach(s)
        /\ \A j \in o.journals : j \in DOMAIN journals /\ journals[j].slot = s
        /\ ~o.drained => SlotDirectories(s) \subseteq o.paths
        /\ o.drained => /\ Of(Queued, s) = {} /\ replies[s] = Silent
                        /\ \A d \in SlotDirectories(s) \ o.paths : Gone(disk, d)
    BY <1>1, <1>2, <1>4 DEF TicketInv
  <2>4. TicketOf(tickets'[s], s)
    BY <1>1, <1>2, <2>1, <2>2, <2>3 DEF TicketOf, Gone
  <2>5. /\ replies' \in [Slots -> [checkpoint : Answers, retirement : Answers]]
        /\ \A r \in Slots : replies'[r] = replies[r]
        /\ disk' \in [Directories -> OnDisk] /\ \A d \in Directories : disk'[d] = disk[d]
        /\ tickets[s].phase # "none"
    BY <1>1, <1>2, <1>4, <2>1 DEF Shape
  <2> QED
    BY <1>1, <2>2, <2>4, <2>5, TicketKeeps
<1> QED
  BY <1>2, <1>3, <1>4 DEF RetryPendingCleanup

-----------------------------------------------------------------------------
(* The document starts with nothing under way; a restored one has the      *)
(* journal it came from.                                                   *)
LEMMA InitHolds == Init => IInv
<1> SUFFICES ASSUME Init PROVE IInv
  OBVIOUS
<1>1. /\ doc = [state |-> 1, dirty |-> Restored] /\ journals = <<>> /\ queue = <<>>
      /\ baselines = <<>> /\ cover = (IF Restored THEN 1 ELSE None)
      /\ status = [s \in Slots |-> NoStatus] /\ tickets = [s \in Slots |-> NoTicket]
  BY DEF Init
<1>2. Restored \in BOOLEAN /\ 1 \in Slots
  BY ConstantsAssumption DEF ConstantsAssumption, Slots
<1>3. PICK adopted : adopted = IF Restored THEN {Adopted} ELSE {}
  OBVIOUS
<1>4. ui = [slot |-> 1, generation |-> 0, pending_generation |-> 0,
            current |-> None, previous |-> {}, adopted_paths |-> adopted,
            retire_paths |-> {}, retry_retirement |-> TRUE, retirement |-> FALSE,
            pending |-> "none", appending |-> NoDirectory, incremental |-> 0,
            force_full |-> FALSE, path_changes |-> 0, pending_path_changes |-> 0,
            captured |-> None, discard |-> FALSE]
  BY <1>3 DEF Init
<1>5. /\ ui.slot = 1 /\ ui.current = None /\ ui.previous = {} /\ ui.adopted_paths = adopted
      /\ ui.retire_paths = {} /\ ~ui.retirement /\ ui.pending = "none"
      /\ ui.appending = NoDirectory /\ ~ui.discard
  BY <1>4
<1>6. ui \in Window
  <2>1. adopted \in SUBSET {Adopted}
    BY <1>2, <1>3
  <2> QED
    BY <1>2, <1>4, <2>1 DEF Window, Nowhere, None
<1>7. PICK first : first = [Absent EXCEPT !.extent = "journal", !.root = 1]
  OBVIOUS
<1>8. first \in OnDisk /\ first.extent = "journal" /\ first.root = 1
  BY <1>7 DEF OnDisk, Absent, Extents, None
<1>9. disk = [d \in Directories |-> IF Restored /\ d = Adopted THEN first ELSE Absent]
  BY <1>7 DEF Init
<1>10. disk \in [Directories -> OnDisk] /\ (Restored => disk[Adopted] = first)
  BY <1>8, <1>9, AbsentIs, SlotsApart
<1>11. /\ replies \in [Slots -> [checkpoint : Answers, retirement : Answers]]
       /\ \A s \in Slots : replies[s] = Silent
  BY NothingSaid DEF Init, Silent
<1>12. NoTicket \in Ticketed /\ NoTicket.phase = "none" /\ ~NoTicket.drained
         /\ NoTicket.paths = {} /\ NoTicket.journals = {}
  BY DEF NoTicket, Ticketed, Phases
<1>13. /\ tickets \in [Slots -> Ticketed] /\ status \in [Slots -> Shared]
       /\ \A s \in Slots : tickets[s] = NoTicket
  BY <1>1, <1>12, NothingSaid
<1>14. Queued = {} /\ \A s \in Slots : Of(Queued, s) = {}
  BY <1>1 DEF Queued, Of
<1>15. Shape
  <2>1. doc \in Document /\ cover \in Nat
    BY <1>1, <1>2 DEF Document, None
  <2> QED
    BY <1>1, <1>6, <1>10, <1>11, <1>13, <2>1 DEF Shape
<1>16. QueueInv
  BY <1>1, <1>14 DEF QueueInv, JournalsFit
<1>17. RemovedInv
  BY <1>11, <1>14, NothingSaid DEF RemovedInv, Silent
<1>18. TicketInv
  <2>1. \A s \in Slots : s > ui.slot \/ (s = ui.slot /\ ~ui.discard)
    BY <1>5 DEF Slots
  <2> QED
    BY <1>11, <1>12, <1>13, <2>1 DEF TicketInv
<1>19. AdoptedInv
  BY <1>2, <1>3, <1>5, <1>8, <1>10, <1>12, <1>13, <1>14 DEF AdoptedInv
<1>20. FitsInv
  <2>1. OwnFits(ui, journals)
    BY <1>5 DEF OwnFits
  <2>2. CurrentKept(ui, journals, disk, cover)
    BY <1>1, <1>2, <1>3, <1>5 DEF CurrentKept
  <2>3. /\ replies[ui.slot].checkpoint.kind = "none" /\ replies[ui.slot].retirement.kind = "none"
        /\ replies[ui.slot].retirement.paths = {}
    BY <1>2, <1>5, <1>11, NothingSaid DEF Silent
  <2>4. Of(Queued, ui.slot) = {}
    BY <1>2, <1>5, <1>14
  <2>5. RetireFits(ui, replies[ui.slot].retirement, Of(Queued, ui.slot))
    BY <1>5, <2>3, <2>4 DEF RetireFits
  <2>6. StatusFits(ui, status[ui.slot], journals)
    BY <1>5 DEF StatusFits
  <2> QED
    BY <1>5, <2>1, <2>2, <2>3, <2>5, <2>6 DEF FitsInv, Fits
<1> QED
  BY <1>15, <1>16, <1>17, <1>18, <1>19, <1>20 DEF IInv

(* Every step of every thread keeps it.                                    *)
LEMMA StepKeeps == IInv /\ [Next]_vars => IInv'
<1> SUFFICES ASSUME IInv, [Next]_vars PROVE IInv'
  OBVIOUS
<1>1. CASE Observe
  BY <1>1, RetireStep, OnlyStep, AppendStep, FullStep DEF Observe
<1>2. CASE Worker
  BY <1>2, FullFailsStep, FullClearStep, FullCreateStep, FullCreateFailsStep, AppendRootStep,
     AppendFailsStep, RetirePathStep, RetireDoneStep, RetireFailsStep DEF Worker
<1>3. CASE Baseline
  BY <1>3, CopiedStep, LandsStep, BaselineFailsStep DEF Baseline
<1>4. CASE User
  BY <1>4, DocumentSteps, WindowSteps, DiscardStep, PollDiscardStep, ResumeStep DEF User
<1>5. ASSUME NEW s \in Slots, Ticket(s) PROVE IInv'
  BY <1>5, TicketDrainStep, TicketTombstoneStep, TicketTombstoneFailsStep, TicketPurgeStep,
     RetryStep DEF Ticket
<1>6. CASE UNCHANGED vars
  <2>1. UNCHANGED <<doc, ui, status, disk, journals, queue, baselines, replies, tickets, cover>>
    BY <1>6 DEF vars
  <2>2. Queued' = Queued
    BY <2>1 DEF Queued
  <2>3. Shape' /\ QueueInv' /\ RemovedInv'
    BY <2>1, <2>2 DEF IInv, Shape, QueueInv, RemovedInv
  <2>4. TicketInv' /\ AdoptedInv'
    BY <2>1, <2>2 DEF IInv, TicketInv, AdoptedInv
  <2>5. FitsInv'
    BY <2>1, <2>2 DEF IInv, FitsInv, Dropped
  <2> QED
    BY <2>3, <2>4, <2>5 DEF IInv
<1> QED
  BY <1>1, <1>2, <1>3, <1>4, <1>5, <1>6 DEF Next

(* The window, its jobs, their answers and the disk fit together in every  *)
(* reachable state.                                                        *)
THEOREM Inductive == Spec => []IInv
BY InitHolds, StepKeeps, PTL DEF Spec

(* "while the document is dirty the latest successful checkpoint must stay *)
(* durable": a crash finds the newest checkpointed text, or a newer one,   *)
(* until it is saved or discarded.                                         *)
THEOREM LatestStays == Spec => []LatestCheckpointStays
<1>1. ASSUME IInv PROVE LatestCheckpointStays
  <2>1. CASE cover = None
    BY <2>1 DEF LatestCheckpointStays
  <2>2. CASE cover # None
    <3>1. ~ui.discard /\ ui.slot \in Slots /\ Shape /\ AdoptedInv /\ QueueInv
      BY <1>1, <2>2 DEF IInv, FitsInv, Dropped, Shape, Window
    <3>2. PICK c : c = replies[ui.slot].checkpoint
      OBVIOUS
    <3>3. PICK mine : mine = Of(Queued, ui.slot)
      OBVIOUS
    <3>4. Fits(ui, status[ui.slot], c, replies[ui.slot].retirement, mine, journals, disk, cover)
      BY <1>1, <3>1, <3>2, <3>3 DEF IInv, FitsInv
    <3>5. ASSUME NEW j \in DOMAIN journals, Kept(j, journals, disk, cover)
          PROVE  LatestCheckpointStays
      <4>1. journals[j].dir \in Directories
        BY <3>1, <3>5, JournalsAre DEF Shape, Journal
      <4>2. LET d == journals[j].dir IN Durable(d) /\ disk[d].root >= cover
        BY <3>5 DEF Kept, Durable
      <4> QED
        BY <4>1, <4>2 DEF LatestCheckpointStays
    <3>6. CASE CurrentKept(ui, journals, disk, cover)
      <4>1. CASE ui.current # None
        BY <3>4, <3>5, <3>6, <4>1 DEF CurrentKept, Fits, OwnFits
      <4>2. CASE ui.current = None
        <5>1. cover = 1 /\ Durable(Adopted) /\ disk[Adopted].root = 1
          BY <2>2, <3>1, <3>6, <4>2 DEF CurrentKept, AdoptedInv, Durable, None
        <5> QED
          BY <5>1, SlotsApart DEF LatestCheckpointStays
      <4> QED
        BY <4>1, <4>2
    <3>7. ASSUME NEW j, Front(j, ui, status[ui.slot], journals, disk, cover)
          PROVE  LatestCheckpointStays
      BY <3>5, <3>7 DEF Front
    <3>8. CASE ui.pending = "none"
      BY <3>4, <3>6, <3>8 DEF Fits
    <3>9. CASE ui.pending = "full"
      BY <3>4, <3>6, <3>7, <3>9 DEF Fits, FullFits
    <3>10. CASE ui.pending = "incremental"
      BY <3>4, <3>7, <3>10 DEF Fits, AppendFits
    <3> QED
      BY <3>1, <3>8, <3>9, <3>10 DEF Shape, Window
  <2> QED
    BY <2>1, <2>2
<1> QED
  BY <1>1, Inductive, PTL

(* "an old retirement reply can erase the new slot's status": the status   *)
(* that the journals of a slot share is the current journal's whenever it  *)
(* shows no error and no checkpoint is being made.                         *)
THEOREM StatusIsTheCurrents == Spec => []StatusIsCurrents
<1>1. ASSUME IInv PROVE StatusIsCurrents
  <2> SUFFICES ASSUME ui.current # None, ui.pending = "none", ~status[ui.slot].error
               PROVE  /\ status[ui.slot].dir = journals[ui.current].dir
                      /\ status[ui.slot].durable
    BY DEF StatusIsCurrents
  <2>1. ~ui.discard
    BY <1>1 DEF IInv, FitsInv, Dropped
  <2>2. StatusFits(ui, status[ui.slot], journals)
    BY <1>1, <2>1 DEF IInv, FitsInv, Fits
  <2> QED
    BY <2>2 DEF StatusFits, Describes
<1> QED
  BY <1>1, Inductive, PTL

(* Once a discard reports durable, nothing of what the document owned can  *)
(* be restored, although jobs and copies were under way when it was asked. *)
THEOREM DiscardedGone == Spec => []DiscardedStaysGone
<1>1. ASSUME IInv PROVE DiscardedStaysGone
  <2> SUFFICES ASSUME NEW s \in Slots, tickets[s].phase \in {"purging", "complete", "cleanup"},
                      NEW d \in tickets[s].paths \cup SlotDirectories(s)
               PROVE  ~Durable(d)
    BY DEF DiscardedStaysGone
  <2>1. Gone(disk, d)
    BY <1>1 DEF IInv, TicketInv
  <2> QED
    BY <2>1 DEF Gone, Durable
<1> QED
  BY <1>1, Inductive, PTL
=============================================================================

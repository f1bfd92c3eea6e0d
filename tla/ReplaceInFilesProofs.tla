------------------------ MODULE ReplaceInFilesProofs ------------------------
(***************************************************************************)
(* What is proved of ReplaceInFiles, for any number of files, any choice of *)
(* backup policies and any number of edits, failures, crashes and opened    *)
(* documents.                                                               *)
(*                                                                          *)
(* The inductive invariant IInv says of every record that a receipt keeps,  *)
(* on disk or in the worker's hands, how it fits the target, its backup and *)
(* what was published and restored (Fits).  The properties follow from what *)
(* the receipt on disk says; that it stays so needs the worker's own copy,  *)
(* which it persists next, and how far the worker has come at its file      *)
(* (Progress): a target is replaced only under a record that was persisted  *)
(* as staged with its backup, and restored only under one persisted as      *)
(* staged for rollback.                                                     *)
(***************************************************************************)
EXTENDS ReplaceInFiles, TLAPS

USE DEF files, Saving, Displacing, Restoring

(* The steps at which the worker's receipt speaks for the job.             *)
Holding == Admission \cup {"next", "reconcile", "unprotect", "restore",
                                        "rclassify", "rrecord"}

(* The steps at which the worker is at one of the files.                   *)
AtFile == Admission \cup {"rclassify", "rrecord"}

Place ==
    /\ pc \in AtFile => at \in Files
    /\ pc \in Holding => rcpt # NoReceipt
    /\ pc = "sweep" => removed /\ rcpt = NoReceipt
    /\ published # {} /\ ~removed => rcpt # NoReceipt

(* What a target's content says of what the job did to it.                 *)
Written ==
    /\ restored \subseteq published
    /\ \A f \in Files :
         /\ disk[f] \in {"after", "mangled", "torn"} => f \in published
         /\ disk[f] = "orig" /\ f \in published => f \in restored

(* A record of file f as a receipt may keep it. *)
Fits(e, f) ==
    /\ e.state \in Restorable \cup {"RollbackStaged", "Kept", "Mismatched", "RolledBack"}
         => f \in published
    /\ e.state \in {"Planned", "Skipped", "Failed"} => f \notin published
    /\ e.state \in {"Staged", "Uncertain"} /\ disk[f] = "orig" => f \notin published
    /\ e.state = "RolledBack" => f \in restored
    /\ f \in published => e.hashed
    /\ e.backup /\ f \notin tampered => bak[f] = "orig"
    /\ disk[f] \in {"after", "mangled", "torn"} /\ protect /\ f \notin tampered => e.backup
    /\ disk[f] = "after" /\ protect /\ f \notin tampered
         => e.state \in (Restorable \cup Unresolved) \ {"Planned"}

OnDisk == rcpt # NoReceipt => \A f \in Files : Fits(rcpt[f], f)
InMemory == pc \in Holding => \A f \in Files : Fits(mem[f], f)

WorldStays == UNCHANGED <<disk, bak, protect, tampered, published, restored>>

(* How far the job has come. *)
Outgoing == pc \in Saving /\ ~Restoring
Incoming == pc \in Saving /\ Restoring

USE DEF Outgoing, Incoming

Untouched(f) == mem[f] = Blank[f] /\ rcpt[f] = Blank[f]

Progress ==
    /\ pc \in {"review", "backup", "stage", "classify", "record"} \/ Outgoing =>
         \A f \in Files : f > at => Untouched(f)
    /\ pc = "next" => \A f \in Files : f >= at => Untouched(f)
    /\ pc = "review" => Untouched(at)
    /\ pc = "backup" => rcpt[at] = Blank[at] /\ ~mem[at].backup /\ mem[at].state = "Planned"
    /\ pc = "stage" => mem[at].state = "Planned"
    /\ pc \in {"backup", "stage"} \cup Saving => mem[at].hashed
    /\ pc \in {"stage", "rstage"} \cup Saving => (protect => mem[at].backup)
    /\ pc = "classify" \/ Outgoing => mem[at].state = "Staged"
    /\ pc \in {"rstage", "rclassify"} \/ Incoming => mem[at].state = "RollbackStaged"
    /\ pc \in Saving => rcpt[at] = mem[at]

(* What the running save displaces, and which of the two it is.             *)
AtSave ==
    /\ pc \in {"next", "review", "backup", "stage", "classify", "record"} => ~Restoring
    /\ pc \in {"unprotect", "restore", "rstage", "rclassify", "rrecord"} => Restoring
    /\ pc = "commit" => disk[at] \in {Expected, "other", "gone"}
    /\ pc \in Displacing => held \in {Expected, "other"}
    /\ pc \notin Displacing => held = "none"
    /\ pc \in {"commit", "aside", "copied"} /\ ~Restoring => at \notin published
    /\ pc = "classify" /\ saved => at \in published

Admitted == pc \in Admission => docs[at] # "open"

Pcs == Admission \cup {"idle", "next", "reconcile", "unprotect", "restore",
                     "rclassify", "rrecord", "remove", "sweep"}

Shape ==
    /\ disk \in [Files -> Contents] /\ held \in Contents \cup {"none"} /\ beside \subseteq Files
    /\ bak \in [Files -> {"none", "orig", "partial", "other"}]
    /\ rcpt \in [Files -> Record] \cup {NoReceipt} /\ mem \in [Files -> Record]
    /\ pc \in Pcs
    /\ at \in 1 .. Count + 1 /\ op \in {"none", "apply", "rollback", "list", "remove"}
    /\ docs \in [Files -> {"none", "loaded", "open"}]
    /\ listed \in {"no", "ready", "reconciling", "unreadable"}
    /\ saved \in BOOLEAN /\ protect \in BOOLEAN /\ cancelled \in BOOLEAN
    /\ startup \in BOOLEAN /\ removed \in BOOLEAN
    /\ tampered \subseteq Files /\ published \subseteq Files /\ restored \subseteq Files
    /\ edits \in 0 .. MaxEdits /\ faults \in 0 .. MaxFaults
    /\ crashes \in 0 .. MaxCrashes /\ opens \in 0 .. MaxOpens

IInv == Shape /\ Place /\ Written /\ OnDisk /\ InMemory /\ Progress /\ Admitted /\ AtSave


(* The operators of the model.                                             *)
LEMMA FilesThere == 1 \in Files /\ Count \in Nat /\ Count >= 1 /\ Files \subseteq 1 .. Count + 1
BY ReplaceAssumption DEF Files

(* A receipt with records is one.                                          *)
LEMMA ReceiptThere == \A r \in [Files -> Record] : r # NoReceipt
BY FilesThere DEF NoReceipt

(* A fresh receipt has nothing behind its records.                         *)
LEMMA BlankRecords ==
    /\ Blank \in [Files -> Record]
    /\ \A f \in Files : Blank[f].state = "Planned" /\ ~Blank[f].hashed /\ ~Blank[f].backup
BY DEF Blank, Record, States

(* Setting the state of the record at hand changes nothing else.            *)
LEMMA SetEntry ==
    ASSUME mem \in [Files -> Record], at \in Files, NEW s \in States
    PROVE  /\ Set(s) \in [Files -> Record]
           /\ Set(s)[at].state = s
           /\ Set(s)[at].hashed = mem[at].hashed /\ Set(s)[at].backup = mem[at].backup
           /\ \A f \in Files : f # at => Set(s)[f] = mem[f]
BY DEF Set, Record

(* What is left of a cancelled job is skipped.                             *)
LEMMA RestEntries ==
    ASSUME mem \in [Files -> Record], at \in 1 .. Count + 1
    PROVE  /\ Rest \in [Files -> Record]
           /\ \A f \in Files : f < at => Rest[f] = mem[f]
           /\ \A f \in Files : f >= at =>
                /\ Rest[f].state = "Skipped"
                /\ Rest[f].hashed = mem[f].hashed /\ Rest[f].backup = mem[f].backup
<1>1. \A f \in Files : mem[f] \in Record
  OBVIOUS
<1>2. \A e \in Record : [e EXCEPT !.state = "Skipped"] = [state |-> "Skipped", hashed |-> e.hashed, backup |-> e.backup]
  BY DEF Record
<1>3. \A f \in Files : Rest[f] = IF f >= at THEN [state |-> "Skipped", hashed |-> mem[f].hashed, backup |-> mem[f].backup] ELSE mem[f]
  BY <1>1, <1>2 DEF Rest
<1>4. Rest = [f \in Files |-> Rest[f]]
  BY DEF Rest
<1>5. \A f \in Files : Rest[f] \in Record
  <2> TAKE f \in Files
  <2>1. mem[f].hashed \in BOOLEAN /\ mem[f].backup \in BOOLEAN
    BY <1>1 DEF Record
  <2>2. [state |-> "Skipped", hashed |-> mem[f].hashed, backup |-> mem[f].backup] \in Record
    BY <2>1 DEF Record, States
  <2> QED
    BY <1>1, <1>3, <2>2
<1>6. Rest \in [Files -> Record]
  BY <1>4, <1>5
<1>7. \A f \in Files : f < at <=> ~(f >= at)
  BY DEF Files
<1> QED
  BY <1>3, <1>6, <1>7

(* A record fits as long as the files and the history stay. *)
LEMMA Frame ==
    ASSUME WorldStays, NEW e \in Record, NEW f \in Files
    PROVE  Fits(e, f)' <=> Fits(e, f)
BY DEF WorldStays, Fits

(* Recording a state that fits leaves every record fitting.                *)
LEMMA SetFits ==
    ASSUME mem \in [Files -> Record], at \in Files, NEW s \in States,
           \A f \in Files : Fits(mem[f], f), Fits(Set(s)[at], at)
    PROVE  \A f \in Files : Fits(Set(s)[f], f)
<1> TAKE f \in Files
<1>1. CASE f = at
  BY <1>1
<1>2. CASE f # at
  BY <1>2, SetEntry
<1> QED
  BY <1>1, <1>2

(* publish_json leaves the receipt that was there or the one it was given.  *)
LEMMA PersistKeeps ==
    ASSUME WorldStays, Shape, OnDisk, NEW r \in [Files -> Record],
           \A f \in Files : Fits(r[f], f), rcpt' \in {rcpt, r}
    PROVE  OnDisk'
<1>1. SUFFICES ASSUME rcpt' # NoReceipt, NEW f \in Files
               PROVE  Fits(rcpt[f], f)'
  BY DEF OnDisk
<1>2. rcpt'[f] \in Record /\ Fits(rcpt'[f], f)
  BY <1>1 DEF OnDisk, Shape
<1>3. PICK e \in Record : e = rcpt'[f]
  BY <1>2
<1>4. Fits(e, f)'
  BY <1>2, <1>3, Frame
<1> QED
  BY <1>3, <1>4 DEF Fits

(* Records that fit may be held.                                           *)
LEMMA HoldKeeps ==
    ASSUME WorldStays, mem' \in [Files -> Record], \A f \in Files : Fits(mem'[f], f)
    PROVE  InMemory'
<1>1. SUFFICES ASSUME NEW f \in Files
               PROVE  Fits(mem[f], f)'
  BY DEF InMemory
<1>2. PICK e \in Record : e = mem'[f]
  OBVIOUS
<1>3. Fits(e, f)'
  BY <1>2, Frame
<1> QED
  BY <1>2, <1>3 DEF Fits

(* The receipt on disk fits as long as the world stays.                    *)
LEMMA ReceiptStands ==
    ASSUME IInv, WorldStays, rcpt' \in {rcpt, NoReceipt}
    PROVE  OnDisk'
<1>1. CASE rcpt' = NoReceipt
  BY <1>1 DEF OnDisk
<1>2. CASE rcpt' = rcpt /\ rcpt # NoReceipt
  BY <1>2, PersistKeeps DEF IInv, Shape, OnDisk
<1> QED
  BY <1>1, <1>2

(* So does the worker's own.                                               *)
LEMMA MemoryStands ==
    ASSUME IInv, WorldStays, mem' = mem, pc' \in Holding => pc \in Holding
    PROVE  InMemory'
<1>1. CASE pc' \in Holding
  BY <1>1, HoldKeeps DEF IInv, Shape, InMemory
<1>2. CASE pc' \notin Holding
  BY <1>2 DEF InMemory
<1> QED
  BY <1>1, <1>2

(* What the worker may count on at each of its steps. *)
LEMMA AtWork ==
    ASSUME IInv, pc \in Holding
    PROVE  /\ mem \in [Files -> Record] /\ rcpt \in [Files -> Record]
           /\ \A f \in Files : Fits(mem[f], f) /\ Fits(rcpt[f], f)
           /\ pc \in AtFile => at \in Files
<1>1. Shape /\ Place /\ OnDisk /\ InMemory
  BY DEF IInv
<1> QED
  BY <1>1 DEF Shape, Place, OnDisk, InMemory

(* A file whose turn has not come is given up, or staged.                  *)
LEMMA PlannedMoves ==
    ASSUME mem \in [Files -> Record], at \in Files, \A f \in Files : Fits(mem[f], f),
           mem[at].state = "Planned", NEW s \in {"Skipped", "Failed", "Staged"}
    PROVE  Set(s) \in [Files -> Record] /\ \A f \in Files : Fits(Set(s)[f], f)
<1>1. s \in States
  BY DEF States
<1>2. /\ Set(s)[at].state = s
      /\ Set(s)[at].hashed = mem[at].hashed /\ Set(s)[at].backup = mem[at].backup
  BY <1>1, SetEntry
<1>3. at \notin published
  BY DEF Fits
<1>4. Fits(mem[at], at)
  OBVIOUS
<1>5. Fits(Set(s)[at], at)
  BY <1>2, <1>3, <1>4 DEF Fits, Restorable, Unresolved
<1> QED
  BY <1>1, <1>5, SetEntry, SetFits


(* StartApply keeps IInv.                                                  *)
LEMMA StartApplyKeeps == ASSUME IInv, StartApply PROVE IInv'
<1>1. Shape'
  <2>1. /\ (disk \in [Files -> Contents])'
        /\ (bak \in [Files -> {"none", "orig", "partial", "other"}])'
        /\ (docs \in [Files -> {"none", "loaded", "open"}])'
        /\ (tampered \subseteq Files)'
        /\ (held \in Contents \cup {"none"})'
        /\ (beside \subseteq Files)'
        /\ (published \subseteq Files)'
        /\ (restored \subseteq Files)'
        /\ (op \in {"none", "apply", "rollback", "list", "remove"})'
        /\ (listed \in {"no", "ready", "reconciling", "unreadable"})'
        /\ (saved \in BOOLEAN)'
        /\ (protect \in BOOLEAN)'
        /\ (cancelled \in BOOLEAN)'
        /\ (startup \in BOOLEAN)'
        /\ (removed \in BOOLEAN)'
    BY DEF IInv, Shape, StartApply, Contents, Finish, history
  <2>2. (rcpt \in [Files -> Record] \cup {NoReceipt})'
    BY BlankRecords DEF IInv, Shape, StartApply, Persist, PersistFails
  <2>3. (mem \in [Files -> Record])'
    BY BlankRecords DEF IInv, Shape, StartApply, Finish
  <2>4. /\ (pc \in Pcs)'
        /\ (at \in 1 .. Count + 1)'
        /\ (edits \in 0 .. MaxEdits)'
        /\ (faults \in 0 .. MaxFaults)'
        /\ (crashes \in 0 .. MaxCrashes)'
        /\ (opens \in 0 .. MaxOpens)'
    BY SMTT(40), FilesThere, ReplaceAssumption DEF IInv, Shape, StartApply, Pcs, Place, AtFile,
       Admission, Files, Fault, Finish, MayHappen, NoFault, Persist, PersistFails
  <2> QED
    BY <2>1, <2>2, <2>3, <2>4 DEF Shape
<1>2. Place'
  BY BlankRecords, ReceiptThere, FilesThere DEF IInv, Shape, Place, AtFile, Admission, Holding,
     Files, StartApply, Persist, PersistFails, Goto, Finish, Idle, history
<1>3. Written'
  BY DEF IInv, Shape, Written, StartApply, history
<1>4. OnDisk'
  BY FilesThere, BlankRecords DEF IInv, Shape, OnDisk, StartApply, Fits, Written, Place,
     Finish, Persist, PersistFails, history, Unresolved, Restorable
<1>5. InMemory'
  BY BlankRecords DEF IInv, Shape, InMemory, StartApply, Fits, Written, Holding, Admission,
     Finish, history, Unresolved, Restorable
<1>6. Progress'
  BY FilesThere DEF IInv, Shape, Progress, StartApply, Untouched, Blank, Admission, Files,
     AtFile, Finish, Persist, PersistFails
<1>7. Admitted'
  BY DEF IInv, Shape, Admitted, StartApply, Admission, Finish
<1>8. AtSave'
  BY DEF IInv, AtSave, Expected, StartApply, Idle, Admission, Finish
<1> QED
  BY <1>1, <1>2, <1>3, <1>4, <1>5, <1>6, <1>7, <1>8 DEF IInv

-----------------------------------------------------------------------------
(* Each action keeps the invariant: first what it leaves in the worker's    *)
(* receipt (<1>0), then part after part.                                    *)
LEMMA NextFileKeeps == ASSUME IInv, NextFile PROVE IInv'
<1>0. /\ mem' \in [Files -> Record] /\ \A f \in Files : Fits(mem'[f], f)
      /\ rcpt' \in {rcpt, mem'}
  <2>0. pc = "next" /\ pc \in Holding /\ at \in 1 .. Count + 1
    BY DEF IInv, Shape, NextFile, Holding
  <2>1. CASE mem' = mem /\ rcpt' = rcpt
    BY <2>0, <2>1, AtWork
  <2>2. CASE /\ at <= Count /\ mem' = Rest /\ rcpt' \in {rcpt, mem'}
    <3>1. \A f \in Files : f >= at => mem[f].state = "Planned"
      BY <2>0, BlankRecords DEF IInv, Progress, Untouched
    <3>2. ASSUME NEW f \in Files PROVE Fits(Rest[f], f)
      <4>1. CASE f >= at
        BY <2>0, <3>1, <4>1, AtWork, RestEntries DEF Fits, Restorable, Unresolved
      <4>2. CASE f < at
        BY <2>0, <4>2, AtWork, RestEntries
      <4> QED
        BY <2>0, <4>1, <4>2 DEF Files
    <3> QED
      BY <2>0, <2>2, <3>2, AtWork, RestEntries
  <2>3. CASE /\ at <= Count /\ mem' = Set("Skipped") /\ rcpt' \in {rcpt, mem'}
    <3>1. at \in Files
      BY <2>0, <2>3 DEF Files
    <3>2. mem[at].state = "Planned"
      BY <2>0, <3>1, BlankRecords, FilesThere DEF IInv, Progress, Untouched, Files
    <3> QED
      BY <2>0, <2>3, <3>1, <3>2, AtWork, PlannedMoves
  <2>4. \/ mem' = mem /\ rcpt' = rcpt
        \/ at <= Count /\ PassOver(Rest, Count + 1)
        \/ at <= Count /\ PassOver(Set("Skipped"), at + 1)
    BY DEF NextFile
  <2>5. PassOver(Rest, Count + 1) => mem' = Rest /\ rcpt' \in {rcpt, mem'}
    BY DEF PassOver, Persist, PersistFails
  <2>6. PassOver(Set("Skipped"), at + 1) => mem' = Set("Skipped") /\ rcpt' \in {rcpt, mem'}
    BY DEF PassOver, Persist, PersistFails
  <2> QED
    BY <2>1, <2>2, <2>3, <2>4, <2>5, <2>6
<1>1. Shape'
  <2>1. /\ (disk \in [Files -> Contents])'
        /\ (bak \in [Files -> {"none", "orig", "partial", "other"}])'
        /\ (docs \in [Files -> {"none", "loaded", "open"}])'
        /\ (tampered \subseteq Files)'
        /\ (held \in Contents \cup {"none"})'
        /\ (beside \subseteq Files)'
        /\ (published \subseteq Files)'
        /\ (restored \subseteq Files)'
        /\ (op \in {"none", "apply", "rollback", "list", "remove"})'
        /\ (listed \in {"no", "ready", "reconciling", "unreadable"})'
        /\ (saved \in BOOLEAN)'
        /\ (protect \in BOOLEAN)'
        /\ (cancelled \in BOOLEAN)'
        /\ (startup \in BOOLEAN)'
        /\ (removed \in BOOLEAN)'
    BY DEF IInv, Shape, NextFile, Contents, Finish, Goto, PassOver, env, history
  <2>2. (rcpt \in [Files -> Record] \cup {NoReceipt})'
    BY <1>0 DEF IInv, Shape, NextFile, Persist, PersistFails
  <2>3. (mem \in [Files -> Record])'
    BY <1>0
  <2>4. /\ (pc \in Pcs)'
        /\ (at \in 1 .. Count + 1)'
        /\ (edits \in 0 .. MaxEdits)'
        /\ (faults \in 0 .. MaxFaults)'
        /\ (crashes \in 0 .. MaxCrashes)'
        /\ (opens \in 0 .. MaxOpens)'
    BY SMTT(40), FilesThere, ReplaceAssumption DEF IInv, Shape, NextFile, Pcs, Place, AtFile, Admission,
       Files, Fault, Finish, Goto, MayHappen, NoFault, PassOver, Persist, PersistFails, env
  <2> QED
    BY <2>1, <2>2, <2>3, <2>4 DEF Shape
<1>2. Place'
  <2>1. pc \in Holding
    BY DEF NextFile, Holding, Admission
  <2>2. rcpt \in [Files -> Record] /\ rcpt' \in [Files -> Record]
    BY <1>0, <2>1, AtWork DEF NextFile, PassOver, Persist, PersistFails
  <2>3. rcpt # NoReceipt /\ rcpt' # NoReceipt
    BY <2>2, ReceiptThere
  <2> QED
    BY <2>3, FilesThere DEF IInv, Shape, Place, AtFile, Admission, Holding, Files, NextFile,
       PassOver, Goto, Finish, env, history
<1>3. Written'
  BY DEF IInv, Shape, Written, NextFile, history
<1>4. OnDisk'
  <2>1. PICK r \in [Files -> Record] : r = mem'
    BY <1>0
  <2>2. rcpt' \in {rcpt, r}
    BY <1>0, <2>1 DEF NextFile, Persist, PersistFails
  <2>3. WorldStays
    BY DEF NextFile, WorldStays, env, history
  <2> QED
    BY <1>0, <2>1, <2>2, <2>3, PersistKeeps DEF IInv
<1>5. InMemory'
  BY <1>0, HoldKeeps DEF NextFile, WorldStays, env, history
<1>6. Progress'
  <2>1. pc = "next" /\ pc \in Holding /\ at \in 1 .. Count + 1 /\ Progress
    BY DEF IInv, Shape, NextFile, Holding
  <2>2. CASE pc' = "next"
    <3>1. at' = Count + 1 \/ (at' = at + 1 /\ at <= Count /\ mem' = Set("Skipped"))
      BY <2>1, <2>2 DEF NextFile, PassOver, Goto, Finish
    <3>2. \A f \in Files : f >= at' => mem'[f] = mem[f] /\ f >= at
      BY <2>1, <3>1, ReplaceAssumption DEF Files, IInv, Shape, Set
    <3>3. \A f \in Files : f >= at' => Untouched(f)'
      BY <1>0, <2>1, <3>2 DEF Progress, Untouched, Blank
    <3> QED
      BY <2>2, <3>3 DEF Progress
  <2>3. CASE pc' = "review"
    <3>1. at' = at /\ at \in Files /\ UNCHANGED <<mem, rcpt>>
      BY <2>1, <2>3, ReplaceAssumption DEF NextFile, PassOver, Goto, Finish, Files
    <3>2. \A f \in Files : f > at \/ f = at => f >= at
      BY <3>1 DEF Files
    <3> QED
      BY <2>1, <2>3, <3>1, <3>2 DEF Progress, Untouched, Blank
  <2>4. pc' \in {"next", "review", "idle"}
    BY DEF NextFile, PassOver, Goto, Finish
  <2> QED
    BY <2>2, <2>3, <2>4 DEF Progress
<1>7. Admitted'
  BY DEF IInv, Shape, Admitted, NextFile, Admission, Finish, Goto, PassOver, env
<1>8. AtSave'
  BY DEF IInv, AtSave, Expected, NextFile, Admission, Finish, Goto, PassOver, env
<1> QED
  BY <1>1, <1>2, <1>3, <1>4, <1>5, <1>6, <1>7, <1>8 DEF IInv

(* Review keeps IInv.                                                      *)
LEMMA ReviewKeeps == ASSUME IInv, Review PROVE IInv'
<1>0. mem' \in [Files -> Record] /\ \A f \in Files : Fits(mem'[f], f)
  <2>0. pc = "review" /\ pc \in Holding /\ at \in Files
    BY AtWork DEF Review, Holding, AtFile, Admission
  <2>1. mem[at].state = "Planned" /\ at \notin published
    BY <2>0, AtWork, BlankRecords DEF IInv, Progress, Untouched, Fits
  <2>2. CASE disk[at] = "orig" /\ mem' = [mem EXCEPT ![at].hashed = TRUE]
    <3>1. /\ mem' \in [Files -> Record]
          /\ mem'[at].state = "Planned" /\ mem'[at].backup = mem[at].backup
          /\ \A f \in Files : f # at => mem'[f] = mem[f]
      BY <2>0, <2>1, <2>2, AtWork DEF Record
    <3>2. Fits(mem'[at], at)
      BY <2>0, <2>1, <2>2, <3>1, AtWork DEF Fits
    <3> QED
      BY <2>0, <3>1, <3>2, AtWork
  <2>3. CASE mem' = Set("Skipped")
    BY <2>0, <2>1, <2>3, AtWork, PlannedMoves
  <2>4. CASE mem' = Set("Failed")
    BY <2>0, <2>1, <2>4, AtWork, PlannedMoves
  <2> QED
    BY <2>2, <2>3, <2>4 DEF Review
<1>1. Shape'
  <2>1. /\ (disk \in [Files -> Contents])'
        /\ (bak \in [Files -> {"none", "orig", "partial", "other"}])'
        /\ (docs \in [Files -> {"none", "loaded", "open"}])'
        /\ (tampered \subseteq Files)'
        /\ (held \in Contents \cup {"none"})'
        /\ (beside \subseteq Files)'
        /\ (published \subseteq Files)'
        /\ (restored \subseteq Files)'
        /\ (op \in {"none", "apply", "rollback", "list", "remove"})'
        /\ (listed \in {"no", "ready", "reconciling", "unreadable"})'
        /\ (saved \in BOOLEAN)'
        /\ (protect \in BOOLEAN)'
        /\ (cancelled \in BOOLEAN)'
        /\ (startup \in BOOLEAN)'
        /\ (removed \in BOOLEAN)'
    BY DEF IInv, Shape, Review, Contents, Goto, env, history
  <2>2. (rcpt \in [Files -> Record] \cup {NoReceipt})'
    BY FilesThere DEF IInv, Shape, Review, Holding, Place, Goto
  <2>3. (mem \in [Files -> Record])'
    BY <1>0
  <2>4. /\ (pc \in Pcs)'
        /\ (at \in 1 .. Count + 1)'
        /\ (edits \in 0 .. MaxEdits)'
        /\ (faults \in 0 .. MaxFaults)'
        /\ (crashes \in 0 .. MaxCrashes)'
        /\ (opens \in 0 .. MaxOpens)'
    BY SMTT(40), FilesThere, ReplaceAssumption DEF IInv, Shape, Review, Pcs, Place, AtFile, Admission,
       Files, Fault, Goto, MayHappen, NoFault, env
  <2> QED
    BY <2>1, <2>2, <2>3, <2>4 DEF Shape
<1>2. Place'
  BY FilesThere DEF IInv, Shape, Place, Review, AtFile, Holding, Admission, Files, Goto, env,
     history
<1>3. Written'
  BY DEF IInv, Shape, Written, Review, history
<1>4. OnDisk'
  BY ReceiptStands DEF Review, env, history, WorldStays, job
<1>5. InMemory'
  BY <1>0, HoldKeeps DEF Review, WorldStays, env, history
<1>6. Progress'
  <2>0. pc = "review" /\ pc \in Holding /\ at \in Files /\ Progress
    BY AtWork DEF IInv, Review, Holding, AtFile, Admission
  <2>1. \A f \in Files : f # at => mem'[f] = mem[f]
    BY <2>0, AtWork DEF Review, Set
  <2>2. Untouched(at)
    BY <2>0 DEF Progress
  <2>4. pc' \in {"backup", "stage"} =>
          mem'[at].state = "Planned" /\ mem'[at].hashed /\ ~mem'[at].backup
    <3>1. SUFFICES ASSUME pc' \in {"backup", "stage"}
                   PROVE  mem'[at].state = "Planned" /\ mem'[at].hashed /\ ~mem'[at].backup
      OBVIOUS
    <3>2. mem' = [mem EXCEPT ![at].hashed = TRUE]
      BY <3>1 DEF Review, Goto
    <3>3. mem[at].state = "Planned" /\ ~mem[at].backup
      BY <2>0, <2>2, BlankRecords DEF Untouched
    <3> QED
      BY <2>0, <3>2, <3>3, AtWork DEF Record
  <2>5. (pc' = "stage" => ~protect) /\ UNCHANGED <<protect, rcpt>>
    BY DEF Review, Goto
  <2>9. at' = at /\ pc' \in {"backup", "stage", "record"}
    BY DEF Review, Goto
  <2>f. ASSUME NEW f \in Files, f > at PROVE Untouched(f)'
    BY <2>0, <2>1, <2>f, FilesThere DEF Review, Progress, Untouched, Blank, Files, Persist,
       PersistFails
  <2> QED
    BY <2>0, <2>9, <2>f, <2>2, <2>4, <2>5 DEF Progress, Untouched, Blank
<1>7. Admitted'
  BY DEF IInv, Shape, Admitted, Review, Admission, Goto, env
<1>8. AtSave'
  BY DEF IInv, AtSave, Expected, Review, Admission, Goto, env
<1> QED
  BY <1>1, <1>2, <1>3, <1>4, <1>5, <1>6, <1>7, <1>8 DEF IInv

(* Backup keeps IInv.                                                      *)
LEMMA BackupKeeps == ASSUME IInv, Backup PROVE IInv'
<1>0. /\ mem' \in [Files -> Record]
      /\ \A f \in Files : f # at => Fits(mem'[f], f) /\ mem'[f] = mem[f]
      /\ at \in Files /\ at \notin published /\ ~mem[at].backup /\ ~rcpt[at].backup
      /\ \/ pc' = "stage" /\ bak'[at] = "orig" /\ mem'[at].backup /\ mem'[at].state = "Planned"
         \/ pc' = "record" /\ ~mem'[at].backup /\ mem'[at].state = "Failed"
      /\ mem'[at].hashed = mem[at].hashed
  <2>0. pc = "backup" /\ pc \in Holding /\ at \in Files
    BY AtWork DEF Backup, Holding, AtFile, Admission
  <2>1. mem[at].state = "Planned" /\ at \notin published
    BY <2>0, AtWork, BlankRecords DEF IInv, Progress, Untouched, Fits
  <2>2. mem[at].backup = FALSE /\ ~rcpt[at].backup
    BY <2>0, AtWork, BlankRecords DEF IInv, Progress, Record
  <2>3. CASE pc' = "stage" /\ mem' = [mem EXCEPT ![at].backup = TRUE] /\ bak' = [bak EXCEPT ![at] = "orig"]
    <3>1. bak'[at] = "orig"
      BY <2>0, <2>3 DEF IInv, Shape
    <3>2. /\ mem' \in [Files -> Record]
          /\ mem'[at].state = "Planned" /\ mem'[at].hashed = mem[at].hashed /\ mem'[at].backup
          /\ \A f \in Files : f # at => mem'[f] = mem[f]
      BY <2>0, <2>1, <2>3, AtWork DEF Record
    <3> QED
      BY <2>0, <2>1, <2>2, <2>3, <3>1, <3>2, AtWork
  <2>4. CASE pc' = "record" /\ mem' = Set("Failed")
    <3>1. "Failed" \in States
      BY DEF States
    <3> QED
      BY <2>0, <2>1, <2>2, <2>4, <3>1, AtWork, SetEntry
  <2> QED
    BY <2>3, <2>4 DEF Backup, Goto
<1>1. Shape'
  <2>1. /\ (disk \in [Files -> Contents])'
        /\ (bak \in [Files -> {"none", "orig", "partial", "other"}])'
        /\ (docs \in [Files -> {"none", "loaded", "open"}])'
        /\ (tampered \subseteq Files)'
        /\ (held \in Contents \cup {"none"})'
        /\ (beside \subseteq Files)'
        /\ (published \subseteq Files)'
        /\ (restored \subseteq Files)'
        /\ (op \in {"none", "apply", "rollback", "list", "remove"})'
        /\ (listed \in {"no", "ready", "reconciling", "unreadable"})'
        /\ (saved \in BOOLEAN)'
        /\ (protect \in BOOLEAN)'
        /\ (cancelled \in BOOLEAN)'
        /\ (startup \in BOOLEAN)'
        /\ (removed \in BOOLEAN)'
    BY DEF IInv, Shape, Backup, Contents, Goto, env, history
  <2>2. (rcpt \in [Files -> Record] \cup {NoReceipt})'
    BY FilesThere DEF IInv, Shape, Backup, Holding, Place, Goto
  <2>3. (mem \in [Files -> Record])'
    BY <1>0
  <2>4. /\ (pc \in Pcs)'
        /\ (at \in 1 .. Count + 1)'
        /\ (edits \in 0 .. MaxEdits)'
        /\ (faults \in 0 .. MaxFaults)'
        /\ (crashes \in 0 .. MaxCrashes)'
        /\ (opens \in 0 .. MaxOpens)'
    BY SMTT(40), FilesThere, ReplaceAssumption DEF IInv, Shape, Backup, Pcs, Place, AtFile, Admission,
       Files, Fault, Goto, MayHappen, NoFault, env
  <2> QED
    BY <2>1, <2>2, <2>3, <2>4 DEF Shape
<1>2. Place'
  BY FilesThere DEF IInv, Shape, Place, Backup, AtFile, Holding, Admission, Files, Goto, env,
     history
<1>3. Written'
  BY DEF IInv, Shape, Written, Backup, history
<1>4. OnDisk'
  <2>1. pc \in Holding /\ pc = "backup" /\ Written
    BY DEF IInv, Backup, Holding, Admission
  <2>2. UNCHANGED <<disk, protect, tampered, published, restored, rcpt>>
    BY DEF Backup, env, history
  <2>3. \A f \in Files : f # at => bak'[f] = bak[f]
    BY DEF Backup, IInv, Shape
  <2>4. ASSUME NEW f \in Files PROVE Fits(rcpt[f], f)'
    <3>1. Fits(rcpt[f], f)
      BY <2>1, AtWork
    <3> QED
      BY <1>0, <2>1, <2>2, <2>3, <3>1 DEF Fits, Written
  <2> QED
    BY <2>4 DEF OnDisk
<1>5. InMemory'
  <2>1. pc \in Holding /\ pc = "backup" /\ Written
    BY DEF IInv, Backup, Holding, Admission
  <2>2. UNCHANGED <<disk, protect, tampered, published, restored, rcpt>>
    BY DEF Backup, env, history
  <2>3. \A f \in Files : f # at => bak'[f] = bak[f]
    BY DEF Backup, IInv, Shape
  <2>4. Fits(mem[at], at) /\ mem[at].hashed
    BY <1>0, <2>1, AtWork DEF IInv, Progress
  <2>5. ASSUME NEW f \in Files PROVE Fits(mem[f], f)'
    <3>1. CASE f # at
      BY <1>0, <2>2, <2>3, <3>1 DEF Fits
    <3>2. CASE f = at
      BY <1>0, <2>1, <2>2, <2>4, <3>2 DEF Fits, Written, Restorable, Unresolved
    <3> QED
      BY <3>1, <3>2
  <2> QED
    BY <2>5 DEF InMemory
<1>6. Progress'
  <2>0. pc = "backup" /\ pc \in Holding /\ at \in Files /\ Progress
    BY AtWork DEF IInv, Backup, Holding, AtFile, Admission
  <2>1. \A f \in Files : f # at => mem'[f] = mem[f]
    BY <2>0, AtWork DEF Backup, Set
  <2>9. at' = at /\ pc' \in {"stage", "record"}
    BY DEF Backup, Goto
  <2>f. ASSUME NEW f \in Files, f > at PROVE Untouched(f)'
    BY <2>0, <2>1, <2>f, FilesThere DEF Backup, Progress, Untouched, Blank, Files, Persist,
       PersistFails
  <2> QED
    BY <2>0, <2>9, <2>f, <1>0 DEF Progress, Backup
<1>7. Admitted'
  BY DEF IInv, Shape, Admitted, Backup, Admission, Goto, env
<1>8. AtSave'
  BY DEF IInv, AtSave, Expected, Backup, Admission, Goto, env
<1> QED
  BY <1>1, <1>2, <1>3, <1>4, <1>5, <1>6, <1>7, <1>8 DEF IInv

(* Stage keeps IInv.                                                       *)
LEMMA StageKeeps == ASSUME IInv, Stage PROVE IInv'
<1>0. /\ mem' \in [Files -> Record] /\ \A f \in Files : Fits(mem'[f], f)
      /\ Set("Staged") \in [Files -> Record] /\ \A f \in Files : Fits(Set("Staged")[f], f)
  <2>0. pc = "stage" /\ pc \in Holding /\ at \in Files
    BY AtWork DEF Stage, Holding, AtFile, Admission
  <2>1. mem[at].state = "Planned" /\ at \notin published
    BY <2>0, AtWork, BlankRecords DEF IInv, Progress, Untouched, Fits
  <2>2. \A s \in {"Failed", "Staged"} : Set(s) \in [Files -> Record] /\ \A f \in Files : Fits(Set(s)[f], f)
    BY <2>0, <2>1, AtWork, PlannedMoves
  <2>3. mem' = Set("Failed") \/ mem' = Set("Staged")
    BY DEF Stage
  <2> QED
    BY <2>2, <2>3
<1>1. Shape'
  <2>1. /\ (disk \in [Files -> Contents])'
        /\ (bak \in [Files -> {"none", "orig", "partial", "other"}])'
        /\ (docs \in [Files -> {"none", "loaded", "open"}])'
        /\ (tampered \subseteq Files)'
        /\ (held \in Contents \cup {"none"})'
        /\ (beside \subseteq Files)'
        /\ (published \subseteq Files)'
        /\ (restored \subseteq Files)'
        /\ (op \in {"none", "apply", "rollback", "list", "remove"})'
        /\ (listed \in {"no", "ready", "reconciling", "unreadable"})'
        /\ (saved \in BOOLEAN)'
        /\ (protect \in BOOLEAN)'
        /\ (cancelled \in BOOLEAN)'
        /\ (startup \in BOOLEAN)'
        /\ (removed \in BOOLEAN)'
    BY DEF IInv, Shape, Stage, Contents, Goto, env, history
  <2>2. (rcpt \in [Files -> Record] \cup {NoReceipt})'
    BY <1>0 DEF IInv, Shape, Stage, Persist, PersistFails
  <2>3. (mem \in [Files -> Record])'
    BY <1>0
  <2>4. /\ (pc \in Pcs)'
        /\ (at \in 1 .. Count + 1)'
        /\ (edits \in 0 .. MaxEdits)'
        /\ (faults \in 0 .. MaxFaults)'
        /\ (crashes \in 0 .. MaxCrashes)'
        /\ (opens \in 0 .. MaxOpens)'
    BY SMTT(40), FilesThere, ReplaceAssumption DEF IInv, Shape, Stage, Pcs, Place, AtFile, Admission,
       Files, Fault, Goto, MayHappen, NoFault, Persist, PersistFails, env
  <2> QED
    BY <2>1, <2>2, <2>3, <2>4 DEF Shape
<1>2. Place'
  <2>1. pc \in Holding
    BY DEF Stage, Holding, Admission
  <2>2. rcpt \in [Files -> Record] /\ rcpt' \in [Files -> Record]
    BY <1>0, <2>1, AtWork DEF Stage, PassOver, Persist, PersistFails
  <2>3. rcpt # NoReceipt /\ rcpt' # NoReceipt
    BY <2>2, ReceiptThere
  <2> QED
    BY <2>3, FilesThere DEF IInv, Shape, Place, AtFile, Admission, Holding, Files, Stage,
       PassOver, Goto, Finish, env, history
<1>3. Written'
  BY DEF IInv, Shape, Written, Stage, history
<1>4. OnDisk'
  <2>1. PICK r \in [Files -> Record] : r = Set("Staged")
    BY <1>0
  <2>2. rcpt' \in {rcpt, r}
    BY <2>1 DEF Stage, Persist, PersistFails
  <2>3. WorldStays
    BY DEF Stage, WorldStays, env, history
  <2> QED
    BY <1>0, <2>1, <2>2, <2>3, PersistKeeps DEF IInv
<1>5. InMemory'
  BY <1>0, HoldKeeps DEF Stage, WorldStays, env, history
<1>6. Progress'
  <2>0. pc = "stage" /\ pc \in Holding /\ at \in Files /\ Progress
    BY AtWork DEF IInv, Stage, Holding, AtFile, Admission
  <2>1. \A f \in Files : f # at => mem'[f] = mem[f]
    BY <2>0, AtWork DEF Stage, Set
  <2>2. pc' = "save" => mem' = Set("Staged") /\ rcpt' = mem'
    BY DEF Stage, Goto, Persist
  <2>3. /\ Set("Staged")[at].state = "Staged"
        /\ Set("Staged")[at].hashed = mem[at].hashed /\ Set("Staged")[at].backup = mem[at].backup
        /\ \A f \in Files : f # at => Set("Staged")[f] = mem[f]
    BY <2>0, AtWork, SetEntry DEF States
  <2>9. at' = at /\ pc' \in {"save", "record"}
    BY DEF Stage, Goto
  <2>f. ASSUME NEW f \in Files, f > at PROVE Untouched(f)'
    BY <2>0, <2>1, <2>3, <2>f, FilesThere DEF Stage, Progress, Untouched, Blank, Files,
       Persist, PersistFails
  <2> QED
    BY <2>0, <2>9, <2>2, <2>3, <2>f DEF IInv, AtSave, Progress, Stage, Goto
<1>7. Admitted'
  BY DEF IInv, Shape, Admitted, Stage, Admission, Goto, env
<1>8. AtSave'
  BY DEF IInv, AtSave, Expected, Stage, Admission, Goto, env
<1> QED
  BY <1>1, <1>2, <1>3, <1>4, <1>5, <1>6, <1>7, <1>8 DEF IInv

-----------------------------------------------------------------------------
(* A save leaves the world fitting the staged record, which is the same on  *)
(* disk and in the worker's hands, if it changes its own target only and    *)
(* keeps the history in step with it.                                      *)
TargetFits ==
    /\ disk' \in [Files -> Contents] /\ published' \subseteq Files /\ restored' \subseteq Files
    /\ \A f \in Files : f # at => /\ disk'[f] = disk[f]
                                  /\ f \in published' <=> f \in published
                                  /\ f \in restored' <=> f \in restored
    /\ at \in restored' => at \in published'
    /\ disk'[at] \in {"after", "mangled", "torn"} => at \in published'
    /\ disk'[at] = "orig" /\ at \in published' => at \in restored'
    /\ Restoring => at \in published'
    /\ ~Restoring /\ disk'[at] = "orig" => at \notin published'

(* What a step of a save leaves of everything else.                        *)
SaveStep ==
    /\ SaveLeaves /\ at' = at /\ op' = op
    /\ pc' \in Saving \cup {IF Restoring THEN "rclassify" ELSE "classify"}
    /\ saved' \in BOOLEAN /\ faults' \in 0 .. MaxFaults /\ beside' \subseteq Files

(* What a running save may count on.                                       *)
LEMMA AtSaveStep ==
    ASSUME IInv, pc \in Saving
    PROVE  /\ at \in Files /\ rcpt[at] = mem[at] /\ mem[at].hashed
           /\ protect => mem[at].backup
           /\ mem[at].state = IF Restoring THEN "RollbackStaged" ELSE "Staged"
           /\ mem \in [Files -> Record] /\ rcpt \in [Files -> Record]
           /\ \A f \in Files : Fits(mem[f], f) /\ Fits(rcpt[f], f)
           /\ disk \in [Files -> Contents] /\ published \subseteq Files /\ restored \subseteq Files
           /\ Restoring => at \in published
           /\ disk[at] = "orig" /\ ~Restoring => at \notin published
<1>1. /\ pc \in Holding /\ at \in Files /\ mem \in [Files -> Record] /\ rcpt \in [Files -> Record]
      /\ \A f \in Files : Fits(mem[f], f) /\ Fits(rcpt[f], f)
  BY AtWork DEF Holding, AtFile, Admission
<1>2. /\ rcpt[at] = mem[at] /\ mem[at].hashed /\ (protect => mem[at].backup)
      /\ mem[at].state = IF Restoring THEN "RollbackStaged" ELSE "Staged"
  BY DEF IInv, Progress
<1>3. Fits(mem[at], at)
  BY <1>1
<1>4. /\ Restoring => at \in published
      /\ disk[at] = "orig" /\ ~Restoring => at \notin published
  BY <1>2, <1>3 DEF Fits
<1> QED
  BY <1>1, <1>2, <1>4 DEF IInv, Shape

(* Every record that was staged on disk fits what the save makes of its     *)
(* target.                                                                  *)
LEMMA RecordsFit ==
    ASSUME IInv, pc \in Saving, TargetFits, UNCHANGED <<bak, rcpt, protect, tampered>>
    PROVE  /\ \A f \in Files : Fits(rcpt[f], f)'
           /\ mem' = mem => \A f \in Files : Fits(mem[f], f)'
<1>1. ASSUME NEW f \in Files, NEW e, e = rcpt[f] \/ e = mem[f] PROVE Fits(e, f)'
  <2>1. CASE f # at
    <3>1. /\ Fits(mem[f], f) /\ Fits(rcpt[f], f) /\ disk'[f] = disk[f]
          /\ f \in published' <=> f \in published
          /\ f \in restored' <=> f \in restored
      BY <2>1, AtSaveStep DEF TargetFits
    <3> QED
      BY <1>1, <3>1 DEF Fits
  <2>2. CASE f = at
    <3>1. /\ e = mem[f] /\ Fits(mem[f], f)
          /\ mem[f].state = IF Restoring THEN "RollbackStaged" ELSE "Staged"
          /\ mem[f].hashed /\ (protect => mem[f].backup)
      BY <1>1, <2>2, AtSaveStep
    <3> QED
      BY <3>1, <2>2 DEF Fits, TargetFits, Restorable, Unresolved
  <2> QED
    BY <2>1, <2>2
<1>2. ASSUME NEW f \in Files PROVE Fits(rcpt[f], f)'
  <2>1. PICK e : e = rcpt[f]
    OBVIOUS
  <2>2. Fits(e, f)'
    BY <1>1, <2>1
  <2> QED
    BY <2>1, <2>2 DEF Fits
<1>3. ASSUME NEW f \in Files, mem' = mem PROVE Fits(mem[f], f)'
  <2>1. PICK e : e = mem[f]
    OBVIOUS
  <2>2. Fits(e, f)'
    BY <1>1, <2>1
  <2> QED
    BY <1>3, <2>1, <2>2 DEF Fits
<1> QED
  BY <1>2, <1>3

(* A step of a save keeps IInv.                                            *)
LEMMA SaveStepKeeps ==
    ASSUME IInv, pc \in Saving, SaveStep, TargetFits, AtSave'
    PROVE  IInv'
<1>0. /\ pc \in Holding /\ pc \in Admission /\ pc' \in AtFile /\ pc' \in Holding
      /\ UNCHANGED <<bak, rcpt, mem, protect, tampered, removed, cancelled, docs, listed,
                     startup, edits, crashes, opens, at, op>>
  BY DEF SaveStep, SaveLeaves, env, Holding, Admission, AtFile
<1>1. Shape'
  <2>1. pc' \in Pcs
    BY DEF SaveStep, Pcs, Admission
  <2>2. held' \in Contents \cup {"none"}
    BY DEF AtSave, Expected, Contents
  <2> QED
    BY <1>0, <2>1, <2>2 DEF IInv, Shape, SaveStep, TargetFits
<1>2. Place'
  BY <1>0, AtSaveStep, ReceiptThere DEF IInv, Place, Holding, AtFile, SaveStep
<1>3. Written'
  BY AtSaveStep, <1>0 DEF IInv, Written, TargetFits
<1>4. rcpt' \in [Files -> Record] /\ \A f \in Files : Fits(rcpt[f], f)' /\ Fits(mem[f], f)'
  BY <1>0, RecordsFit, AtSaveStep
<1>5. OnDisk' /\ InMemory'
  BY <1>4 DEF OnDisk, InMemory
<1>6. Progress'
  BY <1>0 DEF IInv, Progress, Untouched, Blank, SaveStep
<1>7. Admitted'
  BY <1>0 DEF IInv, Admitted
<1> QED
  BY <1>1, <1>2, <1>3, <1>5, <1>6, <1>7 DEF IInv

(* A failing call is counted.                                              *)
LEMMA FaultCounts == Shape => /\ Fault => faults' \in 0 .. MaxFaults
                              /\ NoFault => faults' \in 0 .. MaxFaults
BY ReplaceAssumption DEF Shape, Fault, NoFault

(* The save ends, whatever it leaves.                                      *)
LEMMA SaveEnds ==
    ASSUME IInv, pc \in Saving, NEW ok \in BOOLEAN, EndSave(ok), ok => at \in published',
           SaveLeaves, TargetFits, faults' \in 0 .. MaxFaults, beside' \subseteq Files
    PROVE  IInv'
<1>1. SaveStep
  BY DEF EndSave, Goto, SaveStep
<1>2. AtSave'
  BY DEF EndSave, Goto, AtSave
<1> QED
  BY <1>1, <1>2, SaveStepKeeps

(* A step that leaves the target alone.                                    *)
LEMMA StandsFit == ASSUME IInv, pc \in Saving, TargetStays PROVE TargetFits
BY AtSaveStep DEF TargetStays, TargetFits, IInv, Written

(* A step that publishes the stage.                                        *)
LEMMA PublishFits == ASSUME IInv, pc \in Saving, Publish PROVE TargetFits /\ faults' \in 0 .. MaxFaults
<1>1. PICK c \in Outputs : /\ disk' = [disk EXCEPT ![at] = c]
                           /\ published' = published \cup {at}
                           /\ restored' = IF c = "orig" THEN restored \cup {at} ELSE restored
                           /\ IF c = "mangled" THEN Fault ELSE NoFault
  BY DEF Publish
<1>2. c \in Contents /\ (~Restoring => c = "after") /\ (Restoring => c \in {"orig", "mangled"})
  BY DEF Outputs, Contents
<1>3. disk' \in [Files -> Contents] /\ disk'[at] = c /\ \A f \in Files : f # at => disk'[f] = disk[f]
  BY <1>1, <1>2, AtSaveStep
<1>4. at \in restored' => at \in published'
  BY <1>1
<1>5. published' \subseteq Files /\ restored' \subseteq Files
  BY <1>1, AtSaveStep
<1>6. TargetFits
  BY <1>1, <1>2, <1>3, <1>4, <1>5 DEF TargetFits
<1> QED
  BY <1>1, <1>6, FaultCounts DEF IInv

(* Save keeps IInv.                                                        *)
LEMMA SaveKeeps == ASSUME IInv, Save PROVE IInv'
<1>1. pc \in Saving /\ TargetFits /\ faults' \in 0 .. MaxFaults /\ beside' \subseteq Files
  BY StandsFit, FaultCounts DEF Save, IInv, Shape
<1>2. CASE EndSave(FALSE)
  BY <1>1, <1>2, SaveEnds DEF Save
<1>3. CASE disk[at] = Expected /\ Goto("commit", at) /\ UNCHANGED <<saved, held>>
  <2>1. SaveStep
    BY <1>1, <1>3 DEF SaveStep, Save, Goto, IInv, Shape
  <2>2. AtSave'
    BY <1>1, <1>3, AtSaveStep DEF IInv, AtSave, Save, Goto, TargetStays, Expected
  <2> QED
    BY <1>1, <2>1, <2>2, SaveStepKeeps
<1> QED
  BY <1>2, <1>3 DEF Save

(* CommitStops keeps IInv.                                                 *)
LEMMA CommitStopsKeeps == ASSUME IInv, CommitStops PROVE IInv'
<1>1. pc \in Saving /\ TargetFits /\ faults' \in 0 .. MaxFaults /\ beside' \subseteq Files
  BY StandsFit, FaultCounts DEF CommitStops, IInv, Shape
<1> QED
  BY <1>1, SaveEnds DEF CommitStops

(* What a commit displaces is what it expected, or what another program     *)
(* wrote after the check.                                                  *)
LEMMA DisplaceKeeps ==
    ASSUME IInv, NEW step \in {"swapped", "aside", "copied"}, Displace(step), TargetFits,
           faults' \in 0 .. MaxFaults,
           step \in {"aside", "copied"} /\ ~Restoring => published' = published
    PROVE  IInv'
<1>1. /\ pc = "commit" /\ held' \in {Expected, "other"} /\ pc' = step /\ at' = at /\ op' = op
      /\ UNCHANGED <<saved, beside>> /\ SaveLeaves
  BY DEF Displace, Goto, IInv, AtSave
<1>2. SaveStep
  BY <1>1 DEF SaveStep, IInv, Shape
<1>3. AtSave'
  BY <1>1 DEF IInv, AtSave, Expected
<1> QED
  BY <1>1, <1>2, <1>3, SaveStepKeeps

(* Exchange keeps IInv.                                                    *)
LEMMA ExchangeKeeps == ASSUME IInv, Exchange PROVE IInv'
<1>1. pc \in Saving
  BY DEF Exchange, Displace
<1> QED
  BY <1>1, PublishFits, DisplaceKeeps DEF Exchange

(* MoveAside keeps IInv.                                                   *)
LEMMA MoveAsideKeeps == ASSUME IInv, MoveAside PROVE IInv'
<1>1. pc \in Saving /\ faults' \in 0 .. MaxFaults
  BY FaultCounts DEF MoveAside, Displace, IInv
<1>2. /\ disk' \in [Files -> Contents] /\ disk'[at] = "gone"
      /\ \A f \in Files : f # at => disk'[f] = disk[f]
  BY <1>1, AtSaveStep DEF MoveAside, Contents
<1>3. TargetFits
  BY <1>1, <1>2, AtSaveStep DEF MoveAside, TargetFits, IInv, Written
<1> QED
  BY <1>1, <1>3, DisplaceKeeps DEF MoveAside

(* CopyPrevious keeps IInv.                                                *)
LEMMA CopyPreviousKeeps == ASSUME IInv, CopyPrevious PROVE IInv'
<1>1. pc \in Saving /\ faults' \in 0 .. MaxFaults /\ TargetStays
  BY FaultCounts DEF CopyPrevious, Displace, IInv
<1> QED
  BY <1>1, StandsFit, DisplaceKeeps DEF CopyPrevious, TargetStays

(* What a save kept of another program's is beside one of the targets.      *)
LEMMA KeptBeside == ASSUME IInv, pc \in Saving, KeepHeld PROVE beside' \subseteq Files
BY AtSaveStep DEF KeepHeld, IInv, Shape

(* A save that puts back what it displaced.                                *)
LEMMA BackFits ==
    ASSUME IInv, pc \in Displacing, disk' = [disk EXCEPT ![at] = held],
           restored' = restored \ {at} /\ published' = IF Restoring THEN published ELSE published \ {at}
    PROVE  TargetFits
<1>1. held \in {Expected, "other"} /\ held \in Contents
  BY DEF IInv, AtSave, Expected, Contents
<1>2. /\ disk' \in [Files -> Contents] /\ disk'[at] = held
      /\ \A f \in Files : f # at => disk'[f] = disk[f]
  BY <1>1, AtSaveStep
<1> QED
  BY <1>1, <1>2, AtSaveStep DEF TargetFits, Expected

(* The same where nothing was published yet.                               *)
LEMMA UnpublishedFits ==
    ASSUME IInv, pc \in {"aside", "copied"}, disk' = [disk EXCEPT ![at] = held],
           UNCHANGED <<published, restored>>
    PROVE  TargetFits
<1>1. held \in {Expected, "other"} /\ held \in Contents /\ (~Restoring => at \notin published)
  BY DEF IInv, AtSave, Expected, Contents
<1>2. /\ disk' \in [Files -> Contents] /\ disk'[at] = held
      /\ \A f \in Files : f # at => disk'[f] = disk[f]
  BY <1>1, AtSaveStep
<1> QED
  BY <1>1, <1>2, AtSaveStep DEF TargetFits, Expected, IInv, Written

(* MoveDisplaced keeps IInv.                                               *)
LEMMA MoveDisplacedKeeps == ASSUME IInv, MoveDisplaced PROVE IInv'
<1>1. pc \in Saving /\ TargetFits /\ faults' \in 0 .. MaxFaults
  BY StandsFit, FaultCounts DEF MoveDisplaced, IInv
<1>2. SaveStep
  BY <1>1 DEF SaveStep, MoveDisplaced, Goto, IInv, Shape
<1>3. AtSave'
  BY DEF IInv, AtSave, MoveDisplaced, Goto, Expected
<1> QED
  BY <1>1, <1>2, <1>3, SaveStepKeeps

(* SwapBack keeps IInv.                                                    *)
LEMMA SwapBackKeeps == ASSUME IInv, SwapBack PROVE IInv'
<1>1. pc \in Displacing /\ pc \in Saving /\ faults' \in 0 .. MaxFaults
  BY FaultCounts DEF SwapBack, IInv
<1>2. beside' \subseteq Files
  BY <1>1, KeptBeside, AtSaveStep DEF SwapBack, IInv, Shape
<1>3. TargetFits
  BY <1>1, StandsFit, BackFits DEF SwapBack
<1> QED
  BY <1>1, <1>2, <1>3, SaveEnds DEF SwapBack

(* PublishStage keeps IInv.                                                *)
LEMMA PublishStageKeeps == ASSUME IInv, PublishStage PROVE IInv'
<1>1. pc \in Saving /\ TargetFits /\ faults' \in 0 .. MaxFaults
  BY PublishFits DEF PublishStage
<1>2. SaveStep
  BY <1>1 DEF SaveStep, PublishStage, Goto, IInv, Shape
<1>3. AtSave'
  BY DEF IInv, AtSave, PublishStage, Goto, Expected
<1> QED
  BY <1>1, <1>2, <1>3, SaveStepKeeps

(* PutBack keeps IInv.                                                     *)
LEMMA PutBackKeeps == ASSUME IInv, PutBack PROVE IInv'
<1>1. pc \in {"aside", "copied"} /\ pc \in Saving /\ faults' \in 0 .. MaxFaults
  BY FaultCounts DEF PutBack, IInv
<1>2. beside' \subseteq Files
  BY <1>1, KeptBeside DEF PutBack, IInv, Shape
<1>3. TargetFits
  BY <1>1, StandsFit, UnpublishedFits DEF PutBack, TargetStays
<1> QED
  BY <1>1, <1>2, <1>3, SaveEnds DEF PutBack

(* Rewrite keeps IInv.                                                     *)
LEMMA RewriteKeeps == ASSUME IInv, Rewrite PROVE IInv'
<1>1. pc \in Saving /\ TargetFits /\ faults' \in 0 .. MaxFaults
  BY StandsFit, PublishFits, FaultCounts DEF Rewrite, IInv
<1>2. SaveStep
  BY <1>1 DEF SaveStep, Rewrite, Goto, IInv, Shape
<1>3. AtSave'
  BY DEF IInv, AtSave, Rewrite, Goto, Expected
<1> QED
  BY <1>1, <1>2, <1>3, SaveStepKeeps

(* A torn target has its record staged for the step that tore it.          *)
LEMMA TornFits == ASSUME IInv, pc \in Saving, Tear PROVE TargetFits
<1>1. /\ disk' \in [Files -> Contents] /\ disk'[at] = "torn"
      /\ \A f \in Files : f # at => disk'[f] = disk[f]
  BY AtSaveStep DEF Tear, Contents
<1> QED
  BY <1>1, AtSaveStep DEF Tear, TargetFits

(* RewriteFails keeps IInv.                                                *)
LEMMA RewriteFailsKeeps == ASSUME IInv, RewriteFails PROVE IInv'
<1>1. pc \in {"aside", "copied"} /\ pc \in Saving /\ faults' \in 0 .. MaxFaults
  BY FaultCounts DEF RewriteFails, IInv
<1>2. beside' \subseteq Files
  BY <1>1, KeptBeside DEF RewriteFails
<1>3. TargetFits
  BY <1>1, StandsFit, TornFits, UnpublishedFits DEF RewriteFails
<1> QED
  BY <1>1, <1>2, <1>3, SaveEnds DEF RewriteFails

(* Verify keeps IInv.                                                      *)
LEMMA VerifyKeeps == ASSUME IInv, Verify PROVE IInv'
<1>1. pc \in Saving /\ TargetFits /\ faults' \in 0 .. MaxFaults
  BY StandsFit, FaultCounts DEF Verify, IInv
<1>2. CASE EndSave(FALSE) /\ KeepHeld
  BY <1>1, <1>2, KeptBeside, SaveEnds DEF Verify
<1>3. CASE EndSave(TRUE) /\ disk[at] \in Outputs /\ UNCHANGED beside
  <2>1. at \in published'
    BY <1>1, <1>3, AtSaveStep DEF Verify, TargetStays, Outputs, IInv, Written
  <2>2. beside' \subseteq Files
    BY <1>3 DEF IInv, Shape
  <2> QED
    BY <1>1, <1>3, <2>1, <2>2, SaveEnds DEF Verify
<1> QED
  BY <1>2, <1>3 DEF Verify

(* The steps of a commit keep IInv.                                        *)
LEMMA CommitKeeps == ASSUME IInv, Commit PROVE IInv'
BY CommitStopsKeeps, ExchangeKeeps, MoveAsideKeeps, CopyPreviousKeeps, MoveDisplacedKeeps,
   SwapBackKeeps, PublishStageKeeps, PutBackKeeps, RewriteKeeps, RewriteFailsKeeps DEF Commit

(* Classify keeps IInv.                                                    *)
LEMMA ClassifyKeeps == ASSUME IInv, Classify PROVE IInv'
<1>0. mem' \in [Files -> Record] /\ \A f \in Files : Fits(mem'[f], f)
  <2>0. pc = "classify" /\ pc \in Holding /\ at \in Files
    BY AtWork DEF Classify, Holding, AtFile, Admission
  <2>1. Fits(mem[at], at) /\ mem[at].state = "Staged"
    BY <2>0, AtWork DEF IInv, Progress
  <2>2. CASE mem' = Set("Committed") /\ (saved \/ disk[at] = "after")
    <3>1. "Committed" \in States
      BY DEF States
    <3>2. Fits(Set("Committed")[at], at)
      BY <2>0, <2>1, <2>2, <3>1, AtWork, SetEntry DEF IInv, Written, AtSave, Fits,
         Restorable, Unresolved
    <3> QED
      BY <2>0, <2>2, <3>1, <3>2, AtWork, SetEntry, SetFits
  <2>3. CASE mem' = Set("Conflict") /\ disk[at] \notin {"gone", "after"}
    <3>1. "Conflict" \in States
      BY DEF States
    <3>2. Fits(Set("Conflict")[at], at)
      BY <2>0, <2>1, <2>3, <3>1, AtWork, SetEntry DEF IInv, Written, Fits, Restorable,
         Unresolved
    <3> QED
      BY <2>0, <2>3, <3>1, <3>2, AtWork, SetEntry, SetFits
  <2>4. CASE mem' = Set("Skipped") /\ disk[at] = "orig"
    <3>1. "Skipped" \in States
      BY DEF States
    <3>2. Fits(Set("Skipped")[at], at)
      BY <2>0, <2>1, <2>4, <3>1, AtWork, SetEntry DEF IInv, Written, Fits, Restorable,
         Unresolved
    <3> QED
      BY <2>0, <2>4, <3>1, <3>2, AtWork, SetEntry, SetFits
  <2>5. CASE mem' = Set("Failed") /\ disk[at] = "orig"
    <3>1. "Failed" \in States
      BY DEF States
    <3>2. Fits(Set("Failed")[at], at)
      BY <2>0, <2>1, <2>5, <3>1, AtWork, SetEntry DEF IInv, Written, Fits, Restorable,
         Unresolved
    <3> QED
      BY <2>0, <2>5, <3>1, <3>2, AtWork, SetEntry, SetFits
  <2>6. CASE mem' = Set("Uncertain")
    <3>1. "Uncertain" \in States
      BY DEF States
    <3>2. Fits(Set("Uncertain")[at], at)
      BY <2>0, <2>1, <2>6, <3>1, AtWork, SetEntry DEF IInv, Written, Fits, Restorable,
         Unresolved
    <3> QED
      BY <2>0, <2>6, <3>1, <3>2, AtWork, SetEntry, SetFits
  <2> QED
    BY <2>2, <2>3, <2>4, <2>5, <2>6 DEF Classify
<1>1. Shape'
  <2>1. /\ (disk \in [Files -> Contents])'
        /\ (bak \in [Files -> {"none", "orig", "partial", "other"}])'
        /\ (docs \in [Files -> {"none", "loaded", "open"}])'
        /\ (tampered \subseteq Files)'
        /\ (held \in Contents \cup {"none"})'
        /\ (beside \subseteq Files)'
        /\ (published \subseteq Files)'
        /\ (restored \subseteq Files)'
        /\ (op \in {"none", "apply", "rollback", "list", "remove"})'
        /\ (listed \in {"no", "ready", "reconciling", "unreadable"})'
        /\ (saved \in BOOLEAN)'
        /\ (protect \in BOOLEAN)'
        /\ (cancelled \in BOOLEAN)'
        /\ (startup \in BOOLEAN)'
        /\ (removed \in BOOLEAN)'
    BY DEF IInv, Shape, Classify, Contents, Goto, env, history
  <2>2. (rcpt \in [Files -> Record] \cup {NoReceipt})'
    BY FilesThere DEF IInv, Shape, Classify, Holding, Place, Goto
  <2>3. (mem \in [Files -> Record])'
    BY <1>0
  <2>4. /\ (pc \in Pcs)'
        /\ (at \in 1 .. Count + 1)'
        /\ (edits \in 0 .. MaxEdits)'
        /\ (faults \in 0 .. MaxFaults)'
        /\ (crashes \in 0 .. MaxCrashes)'
        /\ (opens \in 0 .. MaxOpens)'
    BY FilesThere, ReplaceAssumption DEF IInv, Shape, Classify, Pcs, Place, AtFile, Admission,
       Files, Fault, Goto, MayHappen, NoFault, env
  <2> QED
    BY <2>1, <2>2, <2>3, <2>4 DEF Shape
<1>2. Place'
  BY FilesThere DEF IInv, Shape, Place, Classify, AtFile, Holding, Admission, Files, Goto, env,
     history
<1>3. Written'
  BY DEF IInv, Shape, Written, Classify, history
<1>4. OnDisk'
  BY ReceiptStands DEF Classify, env, history, WorldStays, job
<1>5. InMemory'
  BY <1>0, HoldKeeps DEF Classify, WorldStays, env, history
<1>6. Progress'
  <2>0. pc = "classify" /\ pc \in Holding /\ at \in Files /\ Progress
    BY AtWork DEF IInv, Classify, Holding, AtFile, Admission
  <2>1. \A f \in Files : f # at => mem'[f] = mem[f]
    BY <2>0, AtWork DEF Classify, Set
  <2>9. at' = at /\ pc' \in {"record"}
    BY DEF Classify, Goto
  <2>f. ASSUME NEW f \in Files, f > at PROVE Untouched(f)'
    BY <2>0, <2>1, <2>f, FilesThere DEF Classify, Progress, Untouched, Blank, Files, Persist,
       PersistFails
  <2> QED
    BY <2>0, <2>9, <2>f DEF Progress
<1>7. Admitted'
  BY DEF IInv, Shape, Admitted, Classify, Admission, Goto, env
<1>8. AtSave'
  BY DEF IInv, AtSave, Expected, Classify, Admission, Goto, env
<1> QED
  BY <1>1, <1>2, <1>3, <1>4, <1>5, <1>6, <1>7, <1>8 DEF IInv

(* RecordOutcome keeps IInv.                                               *)
LEMMA RecordOutcomeKeeps == ASSUME IInv, RecordOutcome PROVE IInv'
<1>0. mem' \in [Files -> Record] /\ (\A f \in Files : Fits(mem'[f], f)) /\ mem' = mem
  BY AtWork DEF RecordOutcome, Holding, Admission
<1>1. Shape'
  <2>1. /\ (disk \in [Files -> Contents])'
        /\ (bak \in [Files -> {"none", "orig", "partial", "other"}])'
        /\ (docs \in [Files -> {"none", "loaded", "open"}])'
        /\ (tampered \subseteq Files)'
        /\ (held \in Contents \cup {"none"})'
        /\ (beside \subseteq Files)'
        /\ (published \subseteq Files)'
        /\ (restored \subseteq Files)'
        /\ (op \in {"none", "apply", "rollback", "list", "remove"})'
        /\ (listed \in {"no", "ready", "reconciling", "unreadable"})'
        /\ (saved \in BOOLEAN)'
        /\ (protect \in BOOLEAN)'
        /\ (cancelled \in BOOLEAN)'
        /\ (startup \in BOOLEAN)'
        /\ (removed \in BOOLEAN)'
    BY DEF IInv, Shape, RecordOutcome, Contents, Finish, Goto, env, history
  <2>2. (rcpt \in [Files -> Record] \cup {NoReceipt})'
    BY FilesThere DEF IInv, Shape, RecordOutcome, Holding, Place, Finish, Goto, Persist,
       PersistFails
  <2>3. (mem \in [Files -> Record])'
    BY <1>0
  <2>4. /\ (pc \in Pcs)'
        /\ (at \in 1 .. Count + 1)'
        /\ (edits \in 0 .. MaxEdits)'
        /\ (faults \in 0 .. MaxFaults)'
        /\ (crashes \in 0 .. MaxCrashes)'
        /\ (opens \in 0 .. MaxOpens)'
    BY SMTT(40), FilesThere, ReplaceAssumption DEF IInv, Shape, RecordOutcome, Pcs, Place, AtFile,
       Admission, Files, Fault, Finish, Goto, MayHappen, NoFault, Persist, PersistFails, env
  <2> QED
    BY <2>1, <2>2, <2>3, <2>4 DEF Shape
<1>2. Place'
  BY FilesThere, ReceiptThere DEF IInv, Shape, Place, RecordOutcome, AtFile, Holding,
     Admission, Files, Finish, Goto, Persist, PersistFails, env, history
<1>3. Written'
  BY DEF IInv, Shape, Written, RecordOutcome, history
<1>4. OnDisk'
  <2>1. PICK r \in [Files -> Record] : r = mem'
    BY <1>0
  <2>2. rcpt' \in {rcpt, r}
    BY <1>0, <2>1 DEF RecordOutcome, Persist, PersistFails
  <2>3. WorldStays
    BY DEF RecordOutcome, WorldStays, env, history
  <2> QED
    BY <1>0, <2>1, <2>2, <2>3, PersistKeeps DEF IInv
<1>5. InMemory'
  BY MemoryStands DEF RecordOutcome, env, Finish, history, Goto, WorldStays, job, Holding,
     Admission
<1>6. Progress'
  <2>0. pc = "record" /\ pc \in Holding /\ at \in Files /\ Progress
    BY AtWork DEF IInv, RecordOutcome, Holding, AtFile, Admission
  <2>1. CASE pc' = "next"
    <3>1. at' = at + 1 /\ rcpt' = mem /\ mem' = mem
      BY <2>1 DEF RecordOutcome, Goto, Finish, Persist
    <3>2. \A f \in Files : f >= at' => f > at
      BY <2>0, <3>1, FilesThere DEF Files
    <3> QED
      BY <2>0, <2>1, <3>1, <3>2 DEF Progress, Untouched, Blank
  <2>2. pc' \in {"next", "idle"}
    BY DEF RecordOutcome, Goto, Finish
  <2> QED
    BY <2>1, <2>2 DEF Progress
<1>7. Admitted'
  BY DEF IInv, Shape, Admitted, RecordOutcome, Admission, Finish, Goto, env
<1>8. AtSave'
  BY DEF IInv, AtSave, Expected, RecordOutcome, Admission, Finish, Goto, env
<1> QED
  BY <1>1, <1>2, <1>3, <1>4, <1>5, <1>6, <1>7, <1>8 DEF IInv

(* List keeps IInv.                                                        *)
LEMMA ListKeeps == ASSUME IInv, List PROVE IInv'
<1>1. Shape'
  <2>1. /\ (disk \in [Files -> Contents])'
        /\ (bak \in [Files -> {"none", "orig", "partial", "other"}])'
        /\ (docs \in [Files -> {"none", "loaded", "open"}])'
        /\ (tampered \subseteq Files)'
        /\ (held \in Contents \cup {"none"})'
        /\ (beside \subseteq Files)'
        /\ (published \subseteq Files)'
        /\ (restored \subseteq Files)'
        /\ (op \in {"none", "apply", "rollback", "list", "remove"})'
        /\ (listed \in {"no", "ready", "reconciling", "unreadable"})'
        /\ (saved \in BOOLEAN)'
        /\ (protect \in BOOLEAN)'
        /\ (cancelled \in BOOLEAN)'
        /\ (startup \in BOOLEAN)'
        /\ (removed \in BOOLEAN)'
    BY DEF IInv, Shape, List, Contents, Begin, history
  <2>2. (rcpt \in [Files -> Record] \cup {NoReceipt})'
    BY FilesThere DEF IInv, Shape, List, Holding, Place, Begin
  <2>3. (mem \in [Files -> Record])'
    BY DEF IInv, Shape, List, Begin
  <2>4. /\ (pc \in Pcs)'
        /\ (at \in 1 .. Count + 1)'
        /\ (edits \in 0 .. MaxEdits)'
        /\ (faults \in 0 .. MaxFaults)'
        /\ (crashes \in 0 .. MaxCrashes)'
        /\ (opens \in 0 .. MaxOpens)'
    BY FilesThere, ReplaceAssumption DEF IInv, Shape, List, Pcs, Place, AtFile, Admission,
       Files, Begin
  <2> QED
    BY <2>1, <2>2, <2>3, <2>4 DEF Shape
<1>2. Place'
  BY FilesThere DEF IInv, Shape, Place, List, AtFile, Holding, Admission, Files, Begin, history
<1>3. Written'
  BY DEF IInv, Shape, Written, List, history
<1>4. OnDisk'
  BY ReceiptStands DEF List, Begin, history, WorldStays, env, job
<1>5. InMemory'
  <2>1. CASE pc' = "reconcile"
    <3>1. mem' = rcpt /\ rcpt \in [Files -> Record] /\ \A f \in Files : Fits(rcpt[f], f)
      BY <2>1 DEF List, Begin, IInv, Shape, OnDisk
    <3> QED
      BY <3>1, HoldKeeps DEF List, WorldStays, env, history
  <2>2. pc' \in {"idle", "reconcile"}
    BY DEF List, Begin
  <2> QED
    BY <2>1, <2>2 DEF InMemory, Holding, Admission
<1>6. Progress'
  BY FilesThere DEF IInv, Shape, Progress, List, Untouched, Blank, Admission, Files, AtFile,
     Begin
<1>7. Admitted'
  BY DEF IInv, Shape, Admitted, List, Admission, Begin
<1>8. AtSave'
  BY DEF IInv, AtSave, Expected, List, Admission, Begin
<1> QED
  BY <1>1, <1>2, <1>3, <1>4, <1>5, <1>6, <1>7, <1>8 DEF IInv

(* StartRollback keeps IInv.                                               *)
LEMMA StartRollbackKeeps == ASSUME IInv, StartRollback PROVE IInv'
<1>1. Shape'
  <2>1. /\ (disk \in [Files -> Contents])'
        /\ (bak \in [Files -> {"none", "orig", "partial", "other"}])'
        /\ (docs \in [Files -> {"none", "loaded", "open"}])'
        /\ (tampered \subseteq Files)'
        /\ (held \in Contents \cup {"none"})'
        /\ (beside \subseteq Files)'
        /\ (published \subseteq Files)'
        /\ (restored \subseteq Files)'
        /\ (op \in {"none", "apply", "rollback", "list", "remove"})'
        /\ (listed \in {"no", "ready", "reconciling", "unreadable"})'
        /\ (saved \in BOOLEAN)'
        /\ (protect \in BOOLEAN)'
        /\ (cancelled \in BOOLEAN)'
        /\ (startup \in BOOLEAN)'
        /\ (removed \in BOOLEAN)'
    BY DEF IInv, Shape, StartRollback, Contents, Begin, history
  <2>2. (rcpt \in [Files -> Record] \cup {NoReceipt})'
    BY FilesThere DEF IInv, Shape, StartRollback, Holding, Place, Begin
  <2>3. (mem \in [Files -> Record])'
    BY DEF IInv, Shape, StartRollback, Begin
  <2>4. /\ (pc \in Pcs)'
        /\ (at \in 1 .. Count + 1)'
        /\ (edits \in 0 .. MaxEdits)'
        /\ (faults \in 0 .. MaxFaults)'
        /\ (crashes \in 0 .. MaxCrashes)'
        /\ (opens \in 0 .. MaxOpens)'
    BY FilesThere, ReplaceAssumption DEF IInv, Shape, StartRollback, Pcs, Place, AtFile,
       Admission, Files, Begin
  <2> QED
    BY <2>1, <2>2, <2>3, <2>4 DEF Shape
<1>2. Place'
  BY FilesThere DEF IInv, Shape, Place, StartRollback, AtFile, Holding, Admission, Files,
     Begin, history
<1>3. Written'
  BY DEF IInv, Shape, Written, StartRollback, history
<1>4. OnDisk'
  BY ReceiptStands DEF StartRollback, Begin, history, WorldStays, env, job
<1>5. InMemory'
  BY DEF IInv, Shape, InMemory, StartRollback, Fits, Written, Holding, Admission, Begin,
     history, OnDisk, Idle
<1>6. Progress'
  BY FilesThere DEF IInv, Shape, Progress, StartRollback, Untouched, Blank, Admission, Files,
     AtFile, Begin
<1>7. Admitted'
  BY DEF IInv, Shape, Admitted, StartRollback, Admission, Begin
<1>8. AtSave'
  BY DEF IInv, AtSave, Expected, StartRollback, Idle, Admission, Begin
<1> QED
  BY <1>1, <1>2, <1>3, <1>4, <1>5, <1>6, <1>7, <1>8 DEF IInv

(* Reconcile keeps IInv.                                                   *)
LEMMA ReconcileKeeps == ASSUME IInv, Reconcile PROVE IInv'
<1>0. mem' \in [Files -> Record] /\ \A f \in Files : Fits(mem'[f], f)
  <2>0. pc = "reconcile" /\ pc \in Holding /\ at \in Files
    BY DEF IInv, Shape, Reconcile, Holding, Files
  <2>1. CASE mem' = mem
    BY <2>0, <2>1, AtWork
  <2>2. CASE mem[at].state \in Unresolved /\ mem' = Set(ReconciledState(mem[at], disk[at]))
    <3>1. Fits(mem[at], at)
      BY <2>0, AtWork
    <3>2. PICK s \in {"RolledBack", "ReconciledCommitted", "Skipped", "Conflict"} :
            /\ mem' = Set(s)
            /\ s = "RolledBack" => disk[at] = "orig" /\ mem[at].state = "RollbackStaged"
            /\ s = "ReconciledCommitted" => disk[at] = "after"
            /\ s = "Skipped" => disk[at] = "orig" /\ mem[at].state # "RollbackStaged"
            /\ s = "Conflict" => ~(mem[at].hashed /\ disk[at] = "after")
      BY <2>2 DEF ReconciledState
    <3>3. s \in States
      BY DEF States
    <3>4. Fits(Set(s)[at], at)
      BY <2>0, <2>2, <3>1, <3>2, <3>3, AtWork, SetEntry DEF IInv, Written, Fits, Restorable,
         Unresolved
    <3> QED
      BY <2>0, <3>2, <3>3, <3>4, AtWork, SetEntry, SetFits
  <2>3. CASE /\ mem[at].state \in Unresolved /\ mem[at].state # "RollbackStaged"
             /\ mem' = Set("Uncertain")
    <3>1. "Uncertain" \in States
      BY DEF States
    <3>2. Fits(Set("Uncertain")[at], at)
      BY <2>0, <2>3, <3>1, AtWork, SetEntry DEF Fits, Restorable, Unresolved
    <3> QED
      BY <2>0, <2>3, <3>1, <3>2, AtWork, SetEntry, SetFits
  <2> QED
    BY <2>1, <2>2, <2>3 DEF Reconcile
<1>1. Shape'
  <2>1. /\ (disk \in [Files -> Contents])'
        /\ (bak \in [Files -> {"none", "orig", "partial", "other"}])'
        /\ (docs \in [Files -> {"none", "loaded", "open"}])'
        /\ (tampered \subseteq Files)'
        /\ (held \in Contents \cup {"none"})'
        /\ (beside \subseteq Files)'
        /\ (published \subseteq Files)'
        /\ (restored \subseteq Files)'
        /\ (op \in {"none", "apply", "rollback", "list", "remove"})'
        /\ (listed \in {"no", "ready", "reconciling", "unreadable"})'
        /\ (saved \in BOOLEAN)'
        /\ (protect \in BOOLEAN)'
        /\ (cancelled \in BOOLEAN)'
        /\ (startup \in BOOLEAN)'
        /\ (removed \in BOOLEAN)'
    BY DEF IInv, Shape, Reconcile, Contents, Finish, Goto, history
  <2>2. (rcpt \in [Files -> Record] \cup {NoReceipt})'
    BY FilesThere DEF IInv, Shape, Reconcile, Holding, Place, Finish, Goto
  <2>3. (mem \in [Files -> Record])'
    BY <1>0
  <2>4. (pc \in Pcs)' /\ (at \in 1 .. Count + 1)'
    BY SMTT(40), FilesThere, ReplaceAssumption DEF IInv, Shape, Reconcile, Pcs, Place, AtFile, Admission,
       Files, Fault, Finish, Goto, MayHappen, NoFault
  <2>5. /\ (edits \in 0 .. MaxEdits)'
        /\ (faults \in 0 .. MaxFaults)'
        /\ (crashes \in 0 .. MaxCrashes)'
        /\ (opens \in 0 .. MaxOpens)'
    BY ReplaceAssumption DEF IInv, Shape, Reconcile, Fault, Finish, Goto, MayHappen, NoFault
  <2> QED
    BY <2>1, <2>2, <2>3, <2>4, <2>5 DEF Shape
<1>2. Place'
  BY FilesThere DEF IInv, Shape, Place, Reconcile, AtFile, Holding, Admission, Files, Finish,
     Goto, history
<1>3. Written'
  BY DEF IInv, Shape, Written, Reconcile, history
<1>4. OnDisk'
  BY ReceiptStands DEF Reconcile, Finish, history, WorldStays, env, job
<1>5. InMemory'
  BY <1>0, HoldKeeps DEF Reconcile, WorldStays, env, history
<1>6. Progress'
  BY FilesThere DEF IInv, Shape, Progress, Reconcile, Untouched, Blank, Admission, Files,
     AtFile, Finish, Goto
<1>7. Admitted'
  BY DEF IInv, Shape, Admitted, Reconcile, Admission, Finish, Goto
<1>8. AtSave'
  BY DEF IInv, AtSave, Expected, Reconcile, Admission, Finish, Goto
<1> QED
  BY <1>1, <1>2, <1>3, <1>4, <1>5, <1>6, <1>7, <1>8 DEF IInv

(* EndReconcile keeps IInv.                                                *)
LEMMA EndReconcileKeeps == ASSUME IInv, EndReconcile PROVE IInv'
<1>0. mem' \in [Files -> Record] /\ (\A f \in Files : Fits(mem'[f], f)) /\ mem' = mem
  BY AtWork DEF EndReconcile, Holding, Admission
<1>1. Shape'
  <2>1. /\ (disk \in [Files -> Contents])'
        /\ (bak \in [Files -> {"none", "orig", "partial", "other"}])'
        /\ (docs \in [Files -> {"none", "loaded", "open"}])'
        /\ (tampered \subseteq Files)'
        /\ (held \in Contents \cup {"none"})'
        /\ (beside \subseteq Files)'
        /\ (published \subseteq Files)'
        /\ (restored \subseteq Files)'
        /\ (op \in {"none", "apply", "rollback", "list", "remove"})'
        /\ (listed \in {"no", "ready", "reconciling", "unreadable"})'
        /\ (saved \in BOOLEAN)'
        /\ (protect \in BOOLEAN)'
        /\ (cancelled \in BOOLEAN)'
        /\ (startup \in BOOLEAN)'
        /\ (removed \in BOOLEAN)'
    BY DEF IInv, Shape, EndReconcile, Contents, EndListing, Finish, Goto, history
  <2>2. (rcpt \in [Files -> Record] \cup {NoReceipt})'
    BY FilesThere DEF IInv, Shape, EndReconcile, Holding, Place, Finish, Goto, Persist,
       PersistFails
  <2>3. (mem \in [Files -> Record])'
    BY <1>0
  <2>4. /\ (pc \in Pcs)'
        /\ (at \in 1 .. Count + 1)'
        /\ (edits \in 0 .. MaxEdits)'
        /\ (faults \in 0 .. MaxFaults)'
        /\ (crashes \in 0 .. MaxCrashes)'
        /\ (opens \in 0 .. MaxOpens)'
    BY FilesThere, ReplaceAssumption DEF IInv, Shape, EndReconcile, Pcs, Place, AtFile,
       Admission, Files, Fault, Finish, Goto, MayHappen, NoFault, Persist, PersistFails
  <2> QED
    BY <2>1, <2>2, <2>3, <2>4 DEF Shape
<1>2. Place'
  BY FilesThere, ReceiptThere DEF IInv, Shape, Place, EndReconcile, AtFile, Holding, Admission,
     Files, Finish, Goto, Persist, PersistFails, history
<1>3. Written'
  BY DEF IInv, Shape, Written, EndReconcile, history
<1>4. OnDisk'
  <2>1. PICK r \in [Files -> Record] : r = mem'
    BY <1>0
  <2>2. rcpt' \in {rcpt, r}
    BY <1>0, <2>1 DEF EndReconcile, Persist, PersistFails
  <2>3. WorldStays
    BY DEF EndReconcile, WorldStays, env, history
  <2> QED
    BY <1>0, <2>1, <2>2, <2>3, PersistKeeps DEF IInv
<1>5. InMemory'
  BY MemoryStands DEF EndReconcile, Finish, history, Goto, WorldStays, env, job, Holding,
     Admission
<1>6. Progress'
  BY FilesThere DEF IInv, Shape, Progress, EndReconcile, Untouched, Blank, Admission, Files,
     AtFile, Finish, Goto, Persist, PersistFails
<1>7. Admitted'
  BY DEF IInv, Shape, Admitted, EndReconcile, Admission, Finish, Goto
<1>8. AtSave'
  BY DEF IInv, AtSave, Expected, EndReconcile, Admission, Finish, Goto
<1> QED
  BY <1>1, <1>2, <1>3, <1>4, <1>5, <1>6, <1>7, <1>8 DEF IInv

(* Unprotect keeps IInv.                                                   *)
LEMMA UnprotectKeeps == ASSUME IInv, Unprotect PROVE IInv'
<1>0. mem' \in [Files -> Record] /\ \A f \in Files : Fits(mem'[f], f)
  <2>0. pc \in Holding
    BY DEF Unprotect, Holding
  <2>1. ASSUME NEW f \in Files PROVE mem'[f] \in Record /\ Fits(mem'[f], f)
    <3>1. mem[f] \in Record /\ Fits(mem[f], f)
      BY <2>0, AtWork
    <3>2. CASE Unprotected(f)
      <4>1. mem'[f] = [mem[f] EXCEPT !.state = "Kept"]
        BY <3>2 DEF Unprotect
      <4>2. /\ mem'[f] \in Record /\ mem'[f].state = "Kept"
            /\ mem'[f].hashed = mem[f].hashed /\ mem'[f].backup = mem[f].backup
        BY <3>1, <4>1 DEF Record, States
      <4> QED
        BY <3>1, <3>2, <4>2 DEF Fits, Unprotected, Restorable, Unresolved
    <3>3. CASE ~Unprotected(f)
      BY <3>1, <3>3 DEF Unprotect
    <3> QED
      BY <3>2, <3>3
  <2>2. mem' = [f \in Files |-> mem'[f]]
    BY DEF Unprotect
  <2> QED
    BY <2>1, <2>2
<1>1. Shape'
  <2>1. /\ (disk \in [Files -> Contents])'
        /\ (bak \in [Files -> {"none", "orig", "partial", "other"}])'
        /\ (docs \in [Files -> {"none", "loaded", "open"}])'
        /\ (tampered \subseteq Files)'
        /\ (held \in Contents \cup {"none"})'
        /\ (beside \subseteq Files)'
        /\ (published \subseteq Files)'
        /\ (restored \subseteq Files)'
        /\ (op \in {"none", "apply", "rollback", "list", "remove"})'
        /\ (listed \in {"no", "ready", "reconciling", "unreadable"})'
        /\ (saved \in BOOLEAN)'
        /\ (protect \in BOOLEAN)'
        /\ (cancelled \in BOOLEAN)'
        /\ (startup \in BOOLEAN)'
        /\ (removed \in BOOLEAN)'
    BY DEF IInv, Shape, Unprotect, Contents, Finish, Goto, env, history
  <2>2. (rcpt \in [Files -> Record] \cup {NoReceipt})'
    BY <1>0 DEF IInv, Shape, Unprotect, Persist, PersistFails
  <2>3. (mem \in [Files -> Record])'
    BY <1>0
  <2>4. (pc \in Pcs)' /\ (at \in 1 .. Count + 1)'
    BY FilesThere, ReplaceAssumption DEF IInv, Shape, Unprotect, Pcs, Place, AtFile, Admission,
       Files, Fault, Finish, Goto, MayHappen, NoFault, Persist, PersistFails, env, Holding
  <2>5. /\ (edits \in 0 .. MaxEdits)'
        /\ (faults \in 0 .. MaxFaults)'
        /\ (crashes \in 0 .. MaxCrashes)'
        /\ (opens \in 0 .. MaxOpens)'
    BY ReplaceAssumption DEF IInv, Shape, Unprotect, Fault, Finish, Goto, MayHappen, NoFault,
       Persist, PersistFails, env
  <2> QED
    BY <2>1, <2>2, <2>3, <2>4, <2>5 DEF Shape
<1>2. Place'
  <2>1. pc \in Holding
    BY DEF Unprotect, Holding, Admission
  <2>2. rcpt \in [Files -> Record] /\ rcpt' \in [Files -> Record]
    BY <1>0, <2>1, AtWork DEF Unprotect, PassOver, Persist, PersistFails
  <2>3. rcpt # NoReceipt /\ rcpt' # NoReceipt
    BY <2>2, ReceiptThere
  <2> QED
    BY <2>3, FilesThere DEF IInv, Shape, Place, AtFile, Admission, Holding, Files, Unprotect,
       PassOver, Goto, Finish, env, history
<1>3. Written'
  BY DEF IInv, Shape, Written, Unprotect, history
<1>4. OnDisk'
  <2>1. PICK r \in [Files -> Record] : r = mem'
    BY <1>0
  <2>2. rcpt' \in {rcpt, r}
    BY <1>0, <2>1 DEF Unprotect, Persist, PersistFails
  <2>3. WorldStays
    BY DEF Unprotect, WorldStays, env, history
  <2> QED
    BY <1>0, <2>1, <2>2, <2>3, PersistKeeps DEF IInv
<1>5. InMemory'
  BY <1>0, HoldKeeps DEF Unprotect, WorldStays, env, history
<1>6. Progress'
  BY FilesThere DEF IInv, Shape, Progress, Unprotect, Untouched, Blank, Admission, Files,
     AtFile, Finish, Goto, Persist, PersistFails
<1>7. Admitted'
  BY DEF IInv, Shape, Admitted, Unprotect, Admission, Finish, Goto, env
<1>8. AtSave'
  BY DEF IInv, AtSave, Expected, Unprotect, Admission, Finish, Goto, env
<1> QED
  BY <1>1, <1>2, <1>3, <1>4, <1>5, <1>6, <1>7, <1>8 DEF IInv

(* Restore keeps IInv.                                                     *)
LEMMA RestoreKeeps == ASSUME IInv, Restore PROVE IInv'
<1>0. mem' \in [Files -> Record] /\ \A f \in Files : Fits(mem'[f], f)
  <2>0. pc = "restore" /\ pc \in Holding /\ at \in 1 .. Count + 1
    BY DEF IInv, Shape, Restore, Holding
  <2>1. CASE mem' = mem
    BY <2>0, <2>1, AtWork
  <2>2. CASE /\ at <= Count /\ mem[at].state \in Restorable /\ mem[at].backup
             /\ mem' = Set("RollbackFailed") \/ mem' = Set(RestoreState(at))
    <3>1. at \in Files
      BY <2>0, <2>2 DEF Files
    <3>2. Fits(mem[at], at) /\ mem[at].state \in Restorable
      BY <2>0, <2>2, <3>1, AtWork
    <3>3. PICK s \in {"Conflict", "RollbackFailed", "RolledBack", "Kept", "RollbackStaged"} :
            /\ mem' = Set(s)
            /\ s = "RolledBack" => disk[at] = "orig"
            /\ s = "Conflict" => disk[at] # "after" \/ bak[at] # "orig"
            /\ s = "Kept" => bak[at] # "orig"
      BY <2>2 DEF RestoreState
    <3>4. s \in States
      BY DEF States
    <3>5. Fits(Set(s)[at], at)
      BY <3>1, <3>2, <3>3, <3>4, <2>0, AtWork, SetEntry DEF IInv, Written, Fits, Restorable,
         Unresolved
    <3> QED
      BY <2>0, <3>1, <3>3, <3>4, <3>5, AtWork, SetEntry, SetFits
  <2> QED
    BY <2>1, <2>2 DEF Restore
<1>1. Shape'
  <2>1. /\ (disk \in [Files -> Contents])'
        /\ (bak \in [Files -> {"none", "orig", "partial", "other"}])'
        /\ (docs \in [Files -> {"none", "loaded", "open"}])'
        /\ (tampered \subseteq Files)'
        /\ (held \in Contents \cup {"none"})'
        /\ (beside \subseteq Files)'
        /\ (published \subseteq Files)'
        /\ (restored \subseteq Files)'
        /\ (op \in {"none", "apply", "rollback", "list", "remove"})'
        /\ (listed \in {"no", "ready", "reconciling", "unreadable"})'
        /\ (saved \in BOOLEAN)'
        /\ (protect \in BOOLEAN)'
        /\ (cancelled \in BOOLEAN)'
        /\ (startup \in BOOLEAN)'
        /\ (removed \in BOOLEAN)'
    BY DEF IInv, Shape, Restore, Contents, Finish, Goto, env, history
  <2>2. (rcpt \in [Files -> Record] \cup {NoReceipt})'
    BY FilesThere DEF IInv, Shape, Restore, Holding, Place, Finish, Goto
  <2>3. (mem \in [Files -> Record])'
    BY <1>0
  <2>4. /\ (pc \in Pcs)'
        /\ (at \in 1 .. Count + 1)'
        /\ (edits \in 0 .. MaxEdits)'
        /\ (faults \in 0 .. MaxFaults)'
        /\ (crashes \in 0 .. MaxCrashes)'
        /\ (opens \in 0 .. MaxOpens)'
    BY SMTT(40), FilesThere, ReplaceAssumption DEF IInv, Shape, Restore, Pcs, Place, AtFile, Admission,
       Files, Fault, Finish, Goto, MayHappen, NoFault, env
  <2> QED
    BY <2>1, <2>2, <2>3, <2>4 DEF Shape
<1>2. Place'
  BY FilesThere DEF IInv, Shape, Place, Restore, AtFile, Holding, Admission, Files, Finish,
     Goto, env, history
<1>3. Written'
  BY DEF IInv, Shape, Written, Restore, history
<1>4. OnDisk'
  BY ReceiptStands DEF Restore, env, Finish, history, WorldStays, job
<1>5. InMemory'
  BY <1>0, HoldKeeps DEF Restore, WorldStays, env, history
<1>6. Progress'
  <2>1. pc' \in {"restore", "idle", "rstage", "rrecord"}
    BY DEF Restore, Goto, Finish
  <2>2. CASE pc' = "rstage"
    <3>1. mem' = Set("RollbackStaged") /\ at' = at /\ at \in Files /\ mem \in [Files -> Record]
      BY <2>2 DEF Restore, Goto, Finish, IInv, Shape, Files
    <3>2. Set("RollbackStaged")[at].state = "RollbackStaged"
          /\ Set("RollbackStaged")[at].backup = mem[at].backup
      BY <3>1, SetEntry DEF States
    <3>3. mem[at].backup
      BY <2>2 DEF Restore, Goto, Finish
    <3> QED
      BY <2>2, <3>1, <3>2, <3>3 DEF Progress
  <2> QED
    BY <2>1, <2>2 DEF Progress
<1>7. Admitted'
  BY DEF IInv, Shape, Admitted, Restore, Admission, Finish, Goto, env, RestoreState, Place
<1>8. AtSave'
  BY DEF IInv, AtSave, Expected, Restore, Admission, Finish, Goto, env, RestoreState, Place
<1> QED
  BY <1>1, <1>2, <1>3, <1>4, <1>5, <1>6, <1>7, <1>8 DEF IInv

(* RestoreStage keeps IInv.                                                *)
LEMMA RestoreStageKeeps == ASSUME IInv, RestoreStage PROVE IInv'
<1>0. mem' \in [Files -> Record] /\ (\A f \in Files : Fits(mem'[f], f)) /\ mem' = mem
  BY AtWork DEF RestoreStage, Holding, Admission
<1>1. Shape'
  <2>1. /\ (disk \in [Files -> Contents])'
        /\ (bak \in [Files -> {"none", "orig", "partial", "other"}])'
        /\ (docs \in [Files -> {"none", "loaded", "open"}])'
        /\ (tampered \subseteq Files)'
        /\ (held \in Contents \cup {"none"})'
        /\ (beside \subseteq Files)'
        /\ (published \subseteq Files)'
        /\ (restored \subseteq Files)'
        /\ (listed \in {"no", "ready", "reconciling", "unreadable"})'
        /\ (protect \in BOOLEAN)'
        /\ (cancelled \in BOOLEAN)'
        /\ (startup \in BOOLEAN)'
    BY DEF IInv, Shape, RestoreStage, Goto, env, history
  <2>a. (saved \in BOOLEAN)' /\ (removed \in BOOLEAN)'
    BY DEF IInv, Shape, RestoreStage, Goto, env, history
  <2>b. (op \in {"none", "apply", "rollback", "list", "remove"})'
    BY DEF IInv, Shape, RestoreStage, Goto, env, history
  <2>2. (rcpt \in [Files -> Record] \cup {NoReceipt})'
    BY FilesThere DEF IInv, Shape, RestoreStage, Holding, Place, Goto, Persist, PersistFails
  <2>3. (mem \in [Files -> Record])'
    BY <1>0
  <2>4. /\ (pc \in Pcs)'
        /\ (at \in 1 .. Count + 1)'
        /\ (edits \in 0 .. MaxEdits)'
        /\ (faults \in 0 .. MaxFaults)'
        /\ (crashes \in 0 .. MaxCrashes)'
        /\ (opens \in 0 .. MaxOpens)'
    BY SMTT(40), FilesThere, ReplaceAssumption DEF IInv, Shape, RestoreStage, Pcs, Place, AtFile,
       Admission, Files, Fault, Goto, MayHappen, NoFault, Persist, PersistFails, env
  <2> QED
    BY <2>1, <2>2, <2>3, <2>4, <2>a, <2>b DEF Shape
<1>2. Place'
  BY FilesThere, ReceiptThere DEF IInv, Shape, Place, RestoreStage, AtFile, Holding, Admission,
     Files, Goto, Persist, PersistFails, env, history
<1>3. Written'
  BY DEF IInv, Shape, Written, RestoreStage, history
<1>4. OnDisk'
  <2>1. PICK r \in [Files -> Record] : r = mem'
    BY <1>0
  <2>2. rcpt' \in {rcpt, r}
    BY <1>0, <2>1 DEF RestoreStage, Persist, PersistFails
  <2>3. WorldStays
    BY DEF RestoreStage, WorldStays, env, history
  <2> QED
    BY <1>0, <2>1, <2>2, <2>3, PersistKeeps DEF IInv
<1>5. InMemory'
  BY MemoryStands DEF RestoreStage, env, history, Goto, WorldStays, job, Holding, Admission
<1>6. Progress'
  BY FilesThere, AtWork DEF IInv, Shape, Progress, AtSave, Fits,
     Holding, RestoreStage, Untouched, Blank, Admission, Files,
     AtFile, Goto, Persist, PersistFails
<1>7. Admitted'
  BY DEF IInv, Shape, Admitted, RestoreStage, Admission, Goto, env
<1>8. AtSave'
  BY DEF IInv, AtSave, Expected, RestoreStage, Admission, Goto, env
<1> QED
  BY <1>1, <1>2, <1>3, <1>4, <1>5, <1>6, <1>7, <1>8 DEF IInv

(* RestoreClassify keeps IInv.                                             *)
LEMMA RestoreClassifyKeeps == ASSUME IInv, RestoreClassify PROVE IInv'
<1>0. mem' \in [Files -> Record] /\ \A f \in Files : Fits(mem'[f], f)
  <2>0. pc = "rclassify" /\ pc \in Holding /\ at \in Files
    BY AtWork DEF RestoreClassify, Holding, AtFile, Admission
  <2>1. Fits(mem[at], at) /\ mem[at].state = "RollbackStaged"
    BY <2>0, AtWork DEF IInv, Progress
  <2>2. CASE mem' = Set("RolledBack") /\ disk[at] = "orig"
    <3>1. "RolledBack" \in States
      BY DEF States
    <3>2. Fits(Set("RolledBack")[at], at)
      BY <2>0, <2>1, <2>2, <3>1, AtWork, SetEntry DEF IInv, Written, Fits, Restorable,
         Unresolved
    <3> QED
      BY <2>0, <2>2, <3>1, <3>2, AtWork, SetEntry, SetFits
  <2>3. CASE mem' = Set("RollbackFailed") /\ disk[at] = "after"
    <3>1. "RollbackFailed" \in States
      BY DEF States
    <3>2. Fits(Set("RollbackFailed")[at], at)
      BY <2>0, <2>1, <2>3, <3>1, AtWork, SetEntry DEF IInv, Written, Fits, Restorable,
         Unresolved
    <3> QED
      BY <2>0, <2>3, <3>1, <3>2, AtWork, SetEntry, SetFits
  <2>4. CASE mem' = Set("Mismatched") /\ disk[at] \notin {"orig", "after", "gone"}
    <3>1. "Mismatched" \in States
      BY DEF States
    <3>2. Fits(Set("Mismatched")[at], at)
      BY <2>0, <2>1, <2>4, <3>1, AtWork, SetEntry DEF IInv, Written, Fits, Restorable,
         Unresolved
    <3> QED
      BY <2>0, <2>4, <3>1, <3>2, AtWork, SetEntry, SetFits
  <2>5. CASE mem' = Set("Conflict") /\ disk[at] \notin {"orig", "after", "gone"}
    <3>1. "Conflict" \in States
      BY DEF States
    <3>2. Fits(Set("Conflict")[at], at)
      BY <2>0, <2>1, <2>5, <3>1, AtWork, SetEntry DEF IInv, Written, Fits, Restorable,
         Unresolved
    <3> QED
      BY <2>0, <2>5, <3>1, <3>2, AtWork, SetEntry, SetFits
  <2>6. CASE mem' = Set("RollbackStaged")
    <3>1. "RollbackStaged" \in States
      BY DEF States
    <3>2. Fits(Set("RollbackStaged")[at], at)
      BY <2>0, <2>1, <2>6, <3>1, AtWork, SetEntry DEF IInv, Written, Fits, Restorable,
         Unresolved
    <3> QED
      BY <2>0, <2>6, <3>1, <3>2, AtWork, SetEntry, SetFits
  <2> QED
    BY <2>2, <2>3, <2>4, <2>5, <2>6 DEF RestoreClassify
<1>1. Shape'
  <2>1. /\ (disk \in [Files -> Contents])'
        /\ (bak \in [Files -> {"none", "orig", "partial", "other"}])'
        /\ (docs \in [Files -> {"none", "loaded", "open"}])'
        /\ (tampered \subseteq Files)'
        /\ (held \in Contents \cup {"none"})'
        /\ (beside \subseteq Files)'
        /\ (published \subseteq Files)'
        /\ (restored \subseteq Files)'
        /\ (op \in {"none", "apply", "rollback", "list", "remove"})'
        /\ (listed \in {"no", "ready", "reconciling", "unreadable"})'
        /\ (saved \in BOOLEAN)'
        /\ (protect \in BOOLEAN)'
        /\ (cancelled \in BOOLEAN)'
        /\ (startup \in BOOLEAN)'
        /\ (removed \in BOOLEAN)'
    BY DEF IInv, Shape, RestoreClassify, Contents, Goto, env, history
  <2>2. (rcpt \in [Files -> Record] \cup {NoReceipt})'
    BY FilesThere DEF IInv, Shape, RestoreClassify, Holding, Place, Goto
  <2>3. (mem \in [Files -> Record])'
    BY <1>0
  <2>4. /\ (pc \in Pcs)'
        /\ (at \in 1 .. Count + 1)'
        /\ (edits \in 0 .. MaxEdits)'
        /\ (faults \in 0 .. MaxFaults)'
        /\ (crashes \in 0 .. MaxCrashes)'
        /\ (opens \in 0 .. MaxOpens)'
    BY FilesThere, ReplaceAssumption DEF IInv, Shape, RestoreClassify, Pcs, Place, AtFile,
       Admission, Files, Fault, Goto, MayHappen, NoFault, env
  <2> QED
    BY <2>1, <2>2, <2>3, <2>4 DEF Shape
<1>2. Place'
  BY FilesThere DEF IInv, Shape, Place, RestoreClassify, AtFile, Holding, Admission, Files,
     Goto, env, history
<1>3. Written'
  BY DEF IInv, Shape, Written, RestoreClassify, history
<1>4. OnDisk'
  BY ReceiptStands DEF RestoreClassify, env, history, WorldStays, job
<1>5. InMemory'
  BY <1>0, HoldKeeps DEF RestoreClassify, WorldStays, env, history
<1>6. Progress'
  BY FilesThere DEF IInv, Shape, Progress, RestoreClassify, Untouched, Blank, Admission, Files,
     AtFile, Goto
<1>7. Admitted'
  BY DEF IInv, Shape, Admitted, RestoreClassify, Admission, Goto, env
<1>8. AtSave'
  BY DEF IInv, AtSave, Expected, RestoreClassify, Admission, Goto, env
<1> QED
  BY <1>1, <1>2, <1>3, <1>4, <1>5, <1>6, <1>7, <1>8 DEF IInv

(* RestoreRecord keeps IInv.                                               *)
LEMMA RestoreRecordKeeps == ASSUME IInv, RestoreRecord PROVE IInv'
<1>0. mem' \in [Files -> Record] /\ (\A f \in Files : Fits(mem'[f], f)) /\ mem' = mem
  BY AtWork DEF RestoreRecord, Holding, Admission
<1>1. Shape'
  <2>1. /\ (disk \in [Files -> Contents])'
        /\ (bak \in [Files -> {"none", "orig", "partial", "other"}])'
        /\ (docs \in [Files -> {"none", "loaded", "open"}])'
        /\ (tampered \subseteq Files)'
        /\ (held \in Contents \cup {"none"})'
        /\ (beside \subseteq Files)'
        /\ (published \subseteq Files)'
        /\ (restored \subseteq Files)'
        /\ (op \in {"none", "apply", "rollback", "list", "remove"})'
        /\ (listed \in {"no", "ready", "reconciling", "unreadable"})'
        /\ (saved \in BOOLEAN)'
        /\ (protect \in BOOLEAN)'
        /\ (cancelled \in BOOLEAN)'
        /\ (startup \in BOOLEAN)'
        /\ (removed \in BOOLEAN)'
    BY DEF IInv, Shape, RestoreRecord, Contents, Finish, Goto, env, history
  <2>2. (rcpt \in [Files -> Record] \cup {NoReceipt})'
    BY FilesThere DEF IInv, Shape, RestoreRecord, Holding, Place, Finish, Goto, Persist,
       PersistFails
  <2>3. (mem \in [Files -> Record])'
    BY <1>0
  <2>4. /\ (pc \in Pcs)'
        /\ (at \in 1 .. Count + 1)'
        /\ (edits \in 0 .. MaxEdits)'
        /\ (faults \in 0 .. MaxFaults)'
        /\ (crashes \in 0 .. MaxCrashes)'
        /\ (opens \in 0 .. MaxOpens)'
    BY SMTT(40), FilesThere, ReplaceAssumption DEF IInv, Shape, RestoreRecord, Pcs, Place, AtFile,
       Admission, Files, Fault, Finish, Goto, MayHappen, NoFault, Persist, PersistFails, env
  <2> QED
    BY <2>1, <2>2, <2>3, <2>4 DEF Shape
<1>2. Place'
  BY FilesThere, ReceiptThere DEF IInv, Shape, Place, RestoreRecord, AtFile, Holding,
     Admission, Files, Finish, Goto, Persist, PersistFails, env, history
<1>3. Written'
  BY DEF IInv, Shape, Written, RestoreRecord, history
<1>4. OnDisk'
  <2>1. PICK r \in [Files -> Record] : r = mem'
    BY <1>0
  <2>2. rcpt' \in {rcpt, r}
    BY <1>0, <2>1 DEF RestoreRecord, Persist, PersistFails
  <2>3. WorldStays
    BY DEF RestoreRecord, WorldStays, env, history
  <2> QED
    BY <1>0, <2>1, <2>2, <2>3, PersistKeeps DEF IInv
<1>5. InMemory'
  BY MemoryStands DEF RestoreRecord, env, Finish, history, Goto, WorldStays, job, Holding,
     Admission
<1>6. Progress'
  BY FilesThere DEF IInv, Shape, Progress, RestoreRecord, Untouched, Blank, Admission, Files,
     AtFile, Finish, Goto, Persist, PersistFails
<1>7. Admitted'
  BY DEF IInv, Shape, Admitted, RestoreRecord, Admission, Finish, Goto, env
<1>8. AtSave'
  BY DEF IInv, AtSave, Expected, RestoreRecord, Admission, Finish, Goto, env
<1> QED
  BY <1>1, <1>2, <1>3, <1>4, <1>5, <1>6, <1>7, <1>8 DEF IInv

(* Expire keeps IInv.                                                      *)
LEMMA ExpireKeeps == ASSUME IInv, Expire PROVE IInv'
<1>1. Shape'
  BY FilesThere, ReplaceAssumption DEF IInv, Shape, Place, Expire, BeginRemoval, Idle,
     SomeState, Unresolved, history, Files, Admission, AtFile, Holding, States, Record, Blank,
     Restorable, Contents, Pcs
<1>2. Place'
  BY FilesThere DEF IInv, Shape, Place, Expire, AtFile, Holding, Admission, Files,
     BeginRemoval, history
<1>3. Written'
  BY DEF IInv, Shape, Written, Expire, BeginRemoval, history
<1>4. OnDisk'
  BY ReceiptStands DEF Expire, history, BeginRemoval, WorldStays, env, job
<1>5. InMemory'
  BY MemoryStands DEF Expire, history, BeginRemoval, WorldStays, env, job, Holding, Admission
<1>6. Progress'
  BY FilesThere DEF IInv, Shape, Progress, Expire, Untouched, Blank, Admission, Files, AtFile,
     BeginRemoval
<1>7. Admitted'
  BY DEF IInv, Shape, Admitted, Expire, Admission, BeginRemoval
<1>8. AtSave'
  BY DEF IInv, AtSave, Expected, Expire, Idle, BeginRemoval, Admission, BeginRemoval
<1> QED
  BY <1>1, <1>2, <1>3, <1>4, <1>5, <1>6, <1>7, <1>8 DEF IInv

(* Delete keeps IInv.                                                      *)
LEMMA DeleteKeeps == ASSUME IInv, Delete PROVE IInv'
<1>1. Shape'
  <2>1. /\ (disk \in [Files -> Contents])'
        /\ (bak \in [Files -> {"none", "orig", "partial", "other"}])'
        /\ (docs \in [Files -> {"none", "loaded", "open"}])'
        /\ (tampered \subseteq Files)'
        /\ (held \in Contents \cup {"none"})'
        /\ (beside \subseteq Files)'
        /\ (published \subseteq Files)'
        /\ (restored \subseteq Files)'
        /\ (op \in {"none", "apply", "rollback", "list", "remove"})'
        /\ (listed \in {"no", "ready", "reconciling", "unreadable"})'
        /\ (saved \in BOOLEAN)'
        /\ (protect \in BOOLEAN)'
        /\ (cancelled \in BOOLEAN)'
        /\ (startup \in BOOLEAN)'
        /\ (removed \in BOOLEAN)'
    BY DEF IInv, Shape, Delete, Contents, BeginRemoval, history
  <2>2. (rcpt \in [Files -> Record] \cup {NoReceipt})'
    BY FilesThere DEF IInv, Shape, Delete, Holding, Place, BeginRemoval
  <2>3. (mem \in [Files -> Record])'
    BY DEF IInv, Shape, Delete, BeginRemoval
  <2>4. /\ (pc \in Pcs)'
        /\ (at \in 1 .. Count + 1)'
        /\ (edits \in 0 .. MaxEdits)'
        /\ (faults \in 0 .. MaxFaults)'
        /\ (crashes \in 0 .. MaxCrashes)'
        /\ (opens \in 0 .. MaxOpens)'
    BY FilesThere, ReplaceAssumption DEF IInv, Shape, Delete, Pcs, Place, AtFile, Admission,
       Files, BeginRemoval
  <2> QED
    BY <2>1, <2>2, <2>3, <2>4 DEF Shape
<1>2. Place'
  BY FilesThere DEF IInv, Shape, Place, AtFile, Admission, Holding, Files, Delete,
     BeginRemoval, history, Idle
<1>3. Written'
  BY DEF IInv, Shape, Written, Delete, BeginRemoval, history
<1>4. OnDisk'
  BY ReceiptStands DEF Delete, history, BeginRemoval, WorldStays, env, job
<1>5. InMemory'
  BY MemoryStands DEF Delete, history, BeginRemoval, WorldStays, env, job, Holding, Admission
<1>6. Progress'
  BY FilesThere DEF IInv, Shape, Progress, Delete, Untouched, Blank, Admission, Files, AtFile,
     BeginRemoval
<1>7. Admitted'
  BY DEF IInv, Shape, Admitted, Delete, Admission, BeginRemoval
<1>8. AtSave'
  BY DEF IInv, AtSave, Expected, Delete, Idle, Admission, BeginRemoval
<1> QED
  BY <1>1, <1>2, <1>3, <1>4, <1>5, <1>6, <1>7, <1>8 DEF IInv

(* RemoveReceipt keeps IInv.                                               *)
LEMMA RemoveReceiptKeeps == ASSUME IInv, RemoveReceipt PROVE IInv'
<1>1. Shape'
  <2>1. /\ (disk \in [Files -> Contents])'
        /\ (bak \in [Files -> {"none", "orig", "partial", "other"}])'
        /\ (docs \in [Files -> {"none", "loaded", "open"}])'
        /\ (tampered \subseteq Files)'
        /\ (held \in Contents \cup {"none"})'
        /\ (beside \subseteq Files)'
        /\ (published \subseteq Files)'
        /\ (restored \subseteq Files)'
        /\ (listed \in {"no", "ready", "reconciling", "unreadable"})'
        /\ (protect \in BOOLEAN)'
        /\ (cancelled \in BOOLEAN)'
        /\ (startup \in BOOLEAN)'
    BY DEF IInv, Shape, RemoveReceipt, Contents, Finish, env
  <2>a. (saved \in BOOLEAN)' /\ (removed \in BOOLEAN)'
    BY DEF IInv, Shape, RemoveReceipt, Contents, Finish, env
  <2>b. (op \in {"none", "apply", "rollback", "list", "remove"})'
    BY DEF IInv, Shape, RemoveReceipt, Contents, Finish, env
  <2>2. (rcpt \in [Files -> Record] \cup {NoReceipt})'
    BY FilesThere DEF IInv, Shape, RemoveReceipt, Holding, Place, Finish
  <2>3. (mem \in [Files -> Record])'
    BY DEF IInv, Shape, RemoveReceipt, Finish
  <2>4. /\ (pc \in Pcs)'
        /\ (at \in 1 .. Count + 1)'
        /\ (edits \in 0 .. MaxEdits)'
        /\ (faults \in 0 .. MaxFaults)'
        /\ (crashes \in 0 .. MaxCrashes)'
        /\ (opens \in 0 .. MaxOpens)'
    BY SMTT(40), FilesThere, ReplaceAssumption DEF IInv, Shape, RemoveReceipt, Pcs, Place, AtFile,
       Admission, Files, Fault, Finish, MayHappen, NoFault, env
  <2> QED
    BY <2>1, <2>2, <2>3, <2>4, <2>a, <2>b DEF Shape
<1>2. Place'
  BY FilesThere DEF IInv, Shape, Place, RemoveReceipt, AtFile, Holding, Admission, Files,
     Finish, env
<1>3. Written'
  BY DEF IInv, Shape, Written, RemoveReceipt
<1>4. OnDisk'
  BY ReceiptStands DEF RemoveReceipt, env, Finish, WorldStays, history, job
<1>5. InMemory'
  BY MemoryStands DEF RemoveReceipt, env, Finish, WorldStays, history, job, Holding, Admission
<1>6. Progress'
  BY FilesThere DEF IInv, Shape, Progress, RemoveReceipt, Untouched, Blank, Admission, Files,
     AtFile, Finish
<1>7. Admitted'
  BY DEF IInv, Shape, Admitted, RemoveReceipt, Admission, Finish, env
<1>8. AtSave'
  BY DEF IInv, AtSave, Expected, RemoveReceipt, Admission, Finish, env
<1> QED
  BY <1>1, <1>2, <1>3, <1>4, <1>5, <1>6, <1>7, <1>8 DEF IInv

(* SweepBackups keeps IInv.                                                *)
LEMMA SweepBackupsKeeps == ASSUME IInv, SweepBackups PROVE IInv'
<1>1. Shape'
  <2>1. /\ (disk \in [Files -> Contents])'
        /\ (bak \in [Files -> {"none", "orig", "partial", "other"}])'
        /\ (docs \in [Files -> {"none", "loaded", "open"}])'
        /\ (tampered \subseteq Files)'
        /\ (held \in Contents \cup {"none"})'
        /\ (beside \subseteq Files)'
        /\ (published \subseteq Files)'
        /\ (restored \subseteq Files)'
        /\ (op \in {"none", "apply", "rollback", "list", "remove"})'
        /\ (listed \in {"no", "ready", "reconciling", "unreadable"})'
        /\ (saved \in BOOLEAN)'
        /\ (protect \in BOOLEAN)'
        /\ (cancelled \in BOOLEAN)'
        /\ (startup \in BOOLEAN)'
        /\ (removed \in BOOLEAN)'
    BY DEF IInv, Shape, SweepBackups, Contents, Finish, env, history
  <2>2. (rcpt \in [Files -> Record] \cup {NoReceipt})'
    BY FilesThere DEF IInv, Shape, SweepBackups, Holding, Place, Finish
  <2>3. (mem \in [Files -> Record])'
    BY DEF IInv, Shape, SweepBackups, Finish
  <2>4. (pc \in Pcs)' /\ (at \in 1 .. Count + 1)'
    BY FilesThere, ReplaceAssumption DEF IInv, Shape, SweepBackups, Pcs, Place, AtFile,
       Admission, Files, Fault, Finish, MayHappen, NoFault, env
  <2>5. /\ (edits \in 0 .. MaxEdits)'
        /\ (faults \in 0 .. MaxFaults)'
        /\ (crashes \in 0 .. MaxCrashes)'
        /\ (opens \in 0 .. MaxOpens)'
    BY ReplaceAssumption DEF IInv, Shape, SweepBackups, Fault, Finish, MayHappen, NoFault, env
  <2> QED
    BY <2>1, <2>2, <2>3, <2>4, <2>5 DEF Shape
<1>2. Place'
  BY FilesThere DEF IInv, Shape, Place, SweepBackups, AtFile, Holding, Admission, Files,
     Finish, env, history
<1>3. Written'
  BY DEF IInv, Shape, Written, SweepBackups, history
<1>4. OnDisk'
  BY FilesThere DEF IInv, Shape, OnDisk, SweepBackups, Fits, Written, Place, Finish, env,
     history
<1>5. InMemory'
  BY DEF IInv, Shape, InMemory, SweepBackups, Fits, Written, Holding, Admission, Finish, env,
     history
<1>6. Progress'
  BY FilesThere DEF IInv, Shape, Progress, SweepBackups, Untouched, Blank, Admission, Files,
     AtFile, Finish
<1>7. Admitted'
  BY DEF IInv, Shape, Admitted, SweepBackups, Admission, Finish, env
<1>8. AtSave'
  BY DEF IInv, AtSave, Expected, SweepBackups, Admission, Finish, env
<1> QED
  BY <1>1, <1>2, <1>3, <1>4, <1>5, <1>6, <1>7, <1>8 DEF IInv

(* Cancel keeps IInv.                                                      *)
LEMMA CancelKeeps == ASSUME IInv, Cancel PROVE IInv'
<1>1. Shape'
  BY FilesThere, ReplaceAssumption DEF IInv, Shape, Place, Cancel, history, job, Files,
     Admission, AtFile, Holding, States, Record, Blank, Restorable, Unresolved, Contents, Pcs
<1>2. Place'
  BY FilesThere DEF IInv, Shape, Place, Cancel, AtFile, Holding, Admission, Files, history, job
<1>3. Written'
  BY DEF IInv, Shape, Written, Cancel, history, job
<1>4. OnDisk'
  BY ReceiptStands DEF Cancel, job, history, WorldStays, env
<1>5. InMemory'
  BY MemoryStands DEF Cancel, job, history, WorldStays, env, Holding, Admission
<1>6. Progress'
  BY FilesThere DEF IInv, Shape, Progress, Cancel, Untouched, Blank, Admission, Files, AtFile,
     job
<1>7. Admitted'
  BY DEF IInv, Shape, Admitted, Cancel, Admission, job
<1>8. AtSave'
  BY DEF IInv, AtSave, Expected, Cancel, history, Admission, job
<1> QED
  BY <1>1, <1>2, <1>3, <1>4, <1>5, <1>6, <1>7, <1>8 DEF IInv

(* ExternalEdit keeps IInv.                                                *)
LEMMA ExternalEditKeeps == ASSUME IInv, NEW f \in Files, ExternalEdit(f) PROVE IInv'
<1>1. Shape'
  BY SMTT(40), FilesThere, ReplaceAssumption DEF IInv, Shape, Place, ExternalEdit, MayHappen, history,
     Files, Admission, AtFile, Holding, States, Record, Blank, Restorable, Unresolved,
     Contents, Pcs
<1>2. Place'
  BY FilesThere DEF IInv, Shape, Place, ExternalEdit, AtFile, Holding, Admission, Files, history
<1>3. Written'
  BY DEF IInv, Shape, Written, ExternalEdit, history
<1>4. OnDisk'
  BY FilesThere DEF IInv, Shape, OnDisk, ExternalEdit, Fits, Written, Place, history
<1>5. InMemory'
  BY DEF IInv, Shape, InMemory, ExternalEdit, Fits, Written, Holding, Admission, history
<1>6. Progress'
  BY FilesThere DEF IInv, Shape, Progress, ExternalEdit, Untouched, Blank, Admission, Files,
     AtFile
<1>7. Admitted'
  BY DEF IInv, Shape, Admitted, ExternalEdit, Admission
<1>8. AtSave'
  BY DEF IInv, Shape, AtSave, Expected, ExternalEdit, history, Admission
<1> QED
  BY <1>1, <1>2, <1>3, <1>4, <1>5, <1>6, <1>7, <1>8 DEF IInv

(* Tamper keeps IInv.                                                      *)
LEMMA TamperKeeps == ASSUME IInv, NEW f \in Files, Tamper(f) PROVE IInv'
<1>1. Shape'
  BY SMTT(40), FilesThere, ReplaceAssumption DEF IInv, Shape, Place, Tamper, MayHappen, history, Files,
     Admission, AtFile, Holding, States, Record, Blank, Restorable, Unresolved, Contents, Pcs
<1>2. Place'
  BY FilesThere DEF IInv, Shape, Place, Tamper, AtFile, Holding, Admission, Files, history
<1>3. Written'
  BY DEF IInv, Shape, Written, Tamper, history
<1>4. OnDisk'
  BY FilesThere DEF IInv, Shape, OnDisk, Tamper, Fits, Written, Place, history
<1>5. InMemory'
  BY DEF IInv, Shape, InMemory, Tamper, Fits, Written, Holding, Admission, history
<1>6. Progress'
  BY FilesThere DEF IInv, Shape, Progress, Tamper, Untouched, Blank, Admission, Files, AtFile
<1>7. Admitted'
  BY DEF IInv, Shape, Admitted, Tamper, Admission
<1>8. AtSave'
  BY DEF IInv, AtSave, Expected, Tamper, history, Admission
<1> QED
  BY <1>1, <1>2, <1>3, <1>4, <1>5, <1>6, <1>7, <1>8 DEF IInv

(* Load keeps IInv.                                                        *)
LEMMA LoadKeeps == ASSUME IInv, NEW f \in Files, Load(f) PROVE IInv'
<1>1. Shape'
  BY SMTT(40), FilesThere, ReplaceAssumption DEF IInv, Shape, Place, Load, MayHappen, OnlyDocs, SetDoc,
     history, job, Files, Admission, AtFile, Holding, States, Record, Blank, Restorable,
     Unresolved, Contents, Pcs
<1>2. Place'
  BY FilesThere DEF IInv, Shape, Place, Load, AtFile, Holding, Admission, Files, OnlyDocs,
     history, job
<1>3. Written'
  BY DEF IInv, Shape, Written, Load, OnlyDocs, history, job
<1>4. OnDisk'
  BY ReceiptStands DEF Load, job, OnlyDocs, SetDoc, history, WorldStays, env
<1>5. InMemory'
  BY MemoryStands DEF Load, job, OnlyDocs, SetDoc, history, WorldStays, env, Holding, Admission
<1>6. Progress'
  BY FilesThere DEF IInv, Shape, Progress, Load, Untouched, Blank, Admission, Files, AtFile,
     OnlyDocs, job
<1>7. Admitted'
  BY DEF IInv, Shape, Admitted, Load, Admission, OnlyDocs, SetDoc, job
<1>8. AtSave'
  BY DEF IInv, AtSave, Expected, Load, history, Admission, OnlyDocs, SetDoc, job
<1> QED
  BY <1>1, <1>2, <1>3, <1>4, <1>5, <1>6, <1>7, <1>8 DEF IInv

(* Admit keeps IInv.                                                       *)
LEMMA AdmitKeeps == ASSUME IInv, NEW f \in Files, Admit(f) PROVE IInv'
<1>1. Shape'
  BY FilesThere, ReplaceAssumption DEF IInv, Shape, Place, Admit, Admission, OnlyDocs, SetDoc,
     history, job, Files, AtFile, Holding, States, Record, Blank, Restorable, Unresolved,
     Contents, Pcs
<1>2. Place'
  BY FilesThere DEF IInv, Shape, Place, Admit, AtFile, Holding, Admission, Files, OnlyDocs,
     history, job
<1>3. Written'
  BY DEF IInv, Shape, Written, Admit, OnlyDocs, history, job
<1>4. OnDisk'
  BY ReceiptStands DEF Admit, job, OnlyDocs, SetDoc, history, WorldStays, env
<1>5. InMemory'
  BY MemoryStands DEF Admit, job, OnlyDocs, SetDoc, history, WorldStays, env, Holding, Admission
<1>6. Progress'
  BY FilesThere DEF IInv, Shape, Progress, Admit, Untouched, Blank, Admission, Files, AtFile,
     OnlyDocs, job
<1>7. Admitted'
  BY DEF IInv, Shape, Admitted, Admit, Admission, OnlyDocs, SetDoc, job
<1>8. AtSave'
  BY DEF IInv, AtSave, Expected, Admit, history, Admission, OnlyDocs, SetDoc, job
<1> QED
  BY <1>1, <1>2, <1>3, <1>4, <1>5, <1>6, <1>7, <1>8 DEF IInv

(* CloseDocument keeps IInv.                                               *)
LEMMA CloseDocumentKeeps == ASSUME IInv, NEW f \in Files, CloseDocument(f) PROVE IInv'
<1>1. Shape'
  BY FilesThere, ReplaceAssumption DEF IInv, Shape, Place, CloseDocument, OnlyDocs, SetDoc,
     history, job, Files, Admission, AtFile, Holding, States, Record, Blank, Restorable,
     Unresolved, Contents, Pcs
<1>2. Place'
  BY FilesThere DEF IInv, Shape, Place, CloseDocument, AtFile, Holding, Admission, Files,
     OnlyDocs, history, job
<1>3. Written'
  BY DEF IInv, Shape, Written, CloseDocument, OnlyDocs, history, job
<1>4. OnDisk'
  BY ReceiptStands DEF CloseDocument, OnlyDocs, job, SetDoc, history, WorldStays, env
<1>5. InMemory'
  BY MemoryStands DEF CloseDocument, OnlyDocs, job, SetDoc, history, WorldStays, env, Holding,
     Admission
<1>6. Progress'
  BY FilesThere DEF IInv, Shape, Progress, CloseDocument, Untouched, Blank, Admission, Files,
     AtFile, OnlyDocs, job
<1>7. Admitted'
  BY DEF IInv, Shape, Admitted, CloseDocument, Admission, OnlyDocs, SetDoc, job
<1>8. AtSave'
  BY DEF IInv, AtSave, Expected, CloseDocument, history, Admission, OnlyDocs, SetDoc, job
<1> QED
  BY <1>1, <1>2, <1>3, <1>4, <1>5, <1>6, <1>7, <1>8 DEF IInv

(* Crash keeps IInv.                                                       *)
LEMMA CrashKeeps == ASSUME IInv, Crash PROVE IInv'
<1>0. TargetStays \/ (pc \in Saving /\ TargetFits)
  BY TornFits DEF Crash
<1>d. /\ disk' \in [Files -> Contents] /\ published' \subseteq Files /\ restored' \subseteq Files
  BY <1>0 DEF TargetStays, TargetFits, IInv, Shape
<1>b. beside' \subseteq Files
  <2>1. held = "other" => pc \in Saving
    BY DEF IInv, AtSave
  <2> QED
    BY <2>1, KeptBeside DEF Crash, KeepHeld, IInv, Shape
<1>1. Shape'
  <2>1. /\ (disk \in [Files -> Contents])'
        /\ (bak \in [Files -> {"none", "orig", "partial", "other"}])'
        /\ (docs \in [Files -> {"none", "loaded", "open"}])'
        /\ (tampered \subseteq Files)'
        /\ (held \in Contents \cup {"none"})'
        /\ (beside \subseteq Files)'
        /\ (published \subseteq Files)'
        /\ (restored \subseteq Files)'
        /\ (op \in {"none", "apply", "rollback", "list", "remove"})'
        /\ (listed \in {"no", "ready", "reconciling", "unreadable"})'
        /\ (saved \in BOOLEAN)'
        /\ (protect \in BOOLEAN)'
        /\ (cancelled \in BOOLEAN)'
        /\ (startup \in BOOLEAN)'
        /\ (removed \in BOOLEAN)'
    BY <1>d, <1>b DEF IInv, Shape, Crash, Finish
  <2>2. (rcpt \in [Files -> Record] \cup {NoReceipt})'
    BY FilesThere DEF IInv, Shape, Crash, Holding, Place, Finish
  <2>3. (mem \in [Files -> Record])'
    BY BlankRecords DEF IInv, Shape, Crash, Finish
  <2>4. /\ (pc \in Pcs)'
        /\ (at \in 1 .. Count + 1)'
        /\ (edits \in 0 .. MaxEdits)'
        /\ (faults \in 0 .. MaxFaults)'
        /\ (crashes \in 0 .. MaxCrashes)'
        /\ (opens \in 0 .. MaxOpens)'
    BY FilesThere, ReplaceAssumption DEF IInv, Shape, Crash, Pcs, Place, AtFile, Admission,
       Files, Finish, MayHappen
  <2> QED
    BY <2>1, <2>2, <2>3, <2>4 DEF Shape
<1>2. Place'
  <2>1. CASE TargetStays
    BY <2>1, FilesThere DEF IInv, Shape, Place, Crash, TargetStays, AtFile, Holding, Admission, Finish
  <2>2. CASE pc \in Saving
    BY <2>2 DEF IInv, Place, Crash, AtFile, Holding, Admission, Finish
  <2> QED
    BY <1>0, <2>1, <2>2
<1>3. Written'
  <2>1. CASE TargetStays
    BY <2>1 DEF IInv, Written, TargetStays
  <2>2. CASE pc \in Saving /\ TargetFits
    BY <2>2, AtSaveStep DEF IInv, Written, TargetFits
  <2> QED
    BY <1>0, <2>1, <2>2
<1>4. OnDisk'
  <2>1. CASE TargetStays
    BY <2>1, ReceiptStands DEF Crash, TargetStays, WorldStays
  <2>2. CASE pc \in Saving /\ TargetFits
    BY <2>2, RecordsFit DEF Crash, OnDisk
  <2> QED
    BY <1>0, <2>1, <2>2
<1>5. InMemory'
  BY DEF Crash, Finish, InMemory, Holding, Admission
<1>6. Progress'
  BY FilesThere DEF IInv, Shape, Progress, Crash, Untouched, Blank, Admission, Files, AtFile,
     Finish
<1>7. Admitted'
  BY DEF IInv, Shape, Admitted, Crash, Admission, Finish
<1>8. AtSave'
  BY DEF AtSave, Crash, Finish
<1> QED
  BY <1>1, <1>2, <1>3, <1>4, <1>5, <1>6, <1>7, <1>8 DEF IInv

-----------------------------------------------------------------------------
(* Nothing was done yet. *)
LEMMA Starts == Init => IInv
<1> SUFFICES ASSUME Init PROVE IInv
  OBVIOUS
<1>1. Shape
  <2>1. MaxEdits \in Nat /\ MaxFaults \in Nat /\ MaxCrashes \in Nat /\ MaxOpens \in Nat
    BY ReplaceAssumption
  <2>2. protect \in BOOLEAN
    BY ReplaceAssumption DEF Init
  <2>3. at \in 1 .. Count + 1 /\ mem \in [Files -> Record] /\ rcpt = NoReceipt
    BY BlankRecords, FilesThere DEF Init
  <2>4. /\ disk \in [Files -> Contents] /\ docs \in [Files -> {"none", "loaded", "open"}]
        /\ bak \in [Files -> {"none", "orig", "partial", "other"}]
    BY DEF Init, Contents
  <2>5. edits \in 0 .. MaxEdits /\ faults \in 0 .. MaxFaults
    BY <2>1 DEF Init
  <2>6. crashes \in 0 .. MaxCrashes /\ opens \in 0 .. MaxOpens
    BY <2>1 DEF Init
  <2> QED
    BY <2>2, <2>3, <2>4, <2>5, <2>6 DEF Init, Shape, Pcs
<1>2. Place /\ Admitted
  BY DEF Init, Place, Admitted, AtFile, Holding, Admission
<1>3. Written /\ OnDisk
  BY DEF Init, Written, OnDisk
<1>4. InMemory /\ Progress
  BY DEF Init, InMemory, Progress, Holding, Admission
<1>5. AtSave
  BY DEF Init, AtSave
<1> QED
  BY <1>1, <1>2, <1>3, <1>4, <1>5 DEF IInv

(* A stuttering step keeps IInv.                                           *)
LEMMA StutterKeeps == ASSUME IInv, UNCHANGED vars PROVE IInv'
<1>1. UNCHANGED <<disk, held, beside, bak, rcpt, mem, pc, at, op, saved, protect, cancelled, docs, listed,
                  startup, tampered, edits, crashes, opens, published, restored, removed,
                  faults>>
  BY DEF vars, job, env, history
<1>2. Shape' /\ Place' /\ Admitted' /\ AtSave'
  BY <1>1 DEF IInv, Shape, Place, Admitted, AtSave, Expected
<1>3. Written' /\ Progress'
  BY <1>1 DEF IInv, Written, Progress, Untouched, Blank
<1>4. OnDisk' /\ InMemory'
  BY <1>1, ReceiptStands, MemoryStands DEF WorldStays
<1> QED
  BY <1>2, <1>3, <1>4 DEF IInv

(* Every step of the worker, the user, other programs, the documents and a *)
(* crash keeps the inductive invariant.                                    *)
LEMMA NextKeeps == IInv /\ [Next]_vars => IInv'
<1> SUFFICES ASSUME IInv, [Next]_vars PROVE IInv'
  OBVIOUS
<1>1. ASSUME Apply PROVE IInv'
  BY <1>1, NextFileKeeps, ReviewKeeps, BackupKeeps, StageKeeps, ClassifyKeeps,
     RecordOutcomeKeeps DEF Apply
<1>2. ASSUME Rollback PROVE IInv'
  BY <1>2, UnprotectKeeps, RestoreKeeps, RestoreStageKeeps, RestoreClassifyKeeps,
     RestoreRecordKeeps DEF Rollback
<1>r. ASSUME Replacement PROVE IInv'
  BY <1>r, SaveKeeps, CommitKeeps, VerifyKeeps DEF Replacement
<1>3. ASSUME Work PROVE IInv'
  BY <1>1, <1>2, <1>r, <1>3, ReconcileKeeps, EndReconcileKeeps, RemoveReceiptKeeps,
     SweepBackupsKeeps DEF Work
<1>4. ASSUME User PROVE IInv'
  BY <1>4, StartApplyKeeps, ListKeeps, StartRollbackKeeps, ExpireKeeps, DeleteKeeps,
     CancelKeeps DEF User
<1>5. ASSUME Others PROVE IInv'
  BY <1>5, ExternalEditKeeps, TamperKeeps DEF Others
<1>6. ASSUME Documents PROVE IInv'
  BY <1>6, LoadKeeps, AdmitKeeps, CloseDocumentKeeps DEF Documents
<1> QED
  BY <1>3, <1>4, <1>5, <1>6, CrashKeeps, StutterKeeps DEF Next

(* The inductive invariant holds in every state. *)
THEOREM Inductive == Spec => []IInv
<1>1. Init => IInv
  BY Starts
<1>2. IInv /\ [Next]_vars => IInv'
  BY NextKeeps
<1> QED
  BY <1>1, <1>2, PTL DEF Spec

(* The state has its shape and the bounds hold, whatever the files are.     *)
THEOREM TypeCorrect == Spec => []TypeOK
<1>1. IInv => TypeOK
  BY DEF IInv, Shape, Pcs, TypeOK
<1> QED
  BY <1>1, Inductive, PTL

(* A file the job has changed has its original in a backup the receipt      *)
(* names, and its rollback open, whatever failed or crashed between         *)
(* staging, saving and recording it (apply_disk_files_impl,                 *)
(* reconcile_receipt and rollback_receipt_impl).                            *)
THEOREM ChangedFilesRecoverable == Spec => []OutputRecoverable
<1>1. ASSUME IInv PROVE OutputRecoverable
  <2>1. SUFFICES ASSUME NEW f \in Files, disk[f] \in {"after", "mangled", "torn"}, ~removed
                 PROVE  /\ rcpt # NoReceipt
                        /\ disk[f] = "after" /\ protect /\ f \notin tampered =>
                             rcpt[f].state \in (Restorable \cup Unresolved) \ {"Planned"}
                        /\ protect /\ f \notin tampered => rcpt[f].backup /\ bak[f] = "orig"
    BY DEF OutputRecoverable
  <2>2. rcpt # NoReceipt
    BY <1>1, <2>1 DEF IInv, Written, Place
  <2>3. Fits(rcpt[f], f)
    BY <1>1, <2>2 DEF IInv, OnDisk
  <2> QED
    BY <2>1, <2>2, <2>3 DEF Fits
<1> QED
  BY <1>1, Inductive, PTL

(* What the receipt on disk says of a file happened to it: the records that *)
(* apply, reconciliation and rollback persist.                              *)
THEOREM ReceiptTellsTheTruth == Spec => []ReceiptTruthful
<1>1. IInv => ReceiptTruthful
  BY DEF IInv, OnDisk, Fits, ReceiptTruthful
<1> QED
  BY <1>1, Inductive, PTL

(* A rollback the receipt offers finds its backup: remove_receipt_job       *)
(* removes the receipt before the backups.                                  *)
THEOREM OfferedRollbackHasItsBackup == Spec => []OfferedBackupExists
<1>1. IInv => OfferedBackupExists
  BY DEF IInv, OnDisk, Fits, OfferedBackupExists
<1> QED
  BY <1>1, Inductive, PTL

(* Only a running save, its crash included, and other programs change a    *)
(* target, and a save changes the one it works on.                         *)
LEMMA WhoWrites ==
    ASSUME IInv, [Next]_vars, NEW f \in Files, disk'[f] # disk[f], edits' = edits
    PROVE  f = at /\ pc \in Saving
<1>1. edits + 1 # edits
  BY DEF IInv, Shape
<1>2. CASE UNCHANGED vars
  BY <1>2 DEF vars, job
<1>3. ~Apply
  BY DEF Apply, NextFile, Review, Backup, Stage, Classify, RecordOutcome
<1>4. ~Rollback
  BY DEF Rollback, Unprotect, Restore, RestoreStage, RestoreClassify, RestoreRecord
<1>5. ASSUME NEW c PROVE disk' = [disk EXCEPT ![at] = c] => f = at
  BY DEF IInv, Shape
<1>r. ASSUME Replacement PROVE f = at /\ pc \in Saving
  <2>1. pc \in Saving
    BY <1>r DEF Replacement, Save, Commit, Verify, CommitStops, Exchange, MoveAside,
       CopyPrevious, Displace, MoveDisplaced, SwapBack, PublishStage, PutBack, Rewrite,
       RewriteFails
  <2>2. CASE TargetStays
    BY <2>2 DEF TargetStays
  <2>3. TargetStays \/ \E c : disk' = [disk EXCEPT ![at] = c] \/ disk' = disk
    BY <1>r DEF Replacement, Save, Commit, Verify, CommitStops, Exchange, MoveAside,
       CopyPrevious, MoveDisplaced, SwapBack, PublishStage, PutBack, Rewrite, RewriteFails,
       Publish, Tear
  <2> QED
    BY <1>5, <2>1, <2>2, <2>3
<1>6. ASSUME Work PROVE f = at /\ pc \in Saving
  BY <1>3, <1>4, <1>r, <1>6 DEF Work, Reconcile, EndReconcile, RemoveReceipt, SweepBackups
<1>7. ~User
  BY DEF User, StartApply, List, StartRollback, Expire, Delete, BeginRemoval, Cancel, job
<1>8. ~Others
  BY <1>1 DEF Others, ExternalEdit, Tamper
<1>9. ~Documents
  BY DEF Documents, Load, Admit, CloseDocument, OnlyDocs, job
<1>10. ASSUME Crash PROVE f = at /\ pc \in Saving
  BY <1>5, <1>10 DEF Crash, TargetStays, Tear
<1> QED
  BY <1>2, <1>6, <1>7, <1>8, <1>9, <1>10 DEF Next

(* A save hands on what it holds of another program's: a step of it ends    *)
(* with the version back in the target, still in hand, or beside it.        *)
LEMMA HeldIsHandedOn ==
    ASSUME IInv, [Next]_vars, held = "other", held' # "other"
    PROVE  disk'[at] = "other" \/ at \in beside' \/ SweptAsStage
<1>1. pc \in Displacing /\ at \in Files /\ Expected # "other"
  BY AtSaveStep DEF IInv, AtSave, Expected
<1>2. CASE UNCHANGED vars
  BY <1>2 DEF vars, job
<1>3. ~Apply
  BY DEF Apply, NextFile, Review, Backup, Stage, Classify, RecordOutcome
<1>4. ~Rollback
  BY DEF Rollback, Unprotect, Restore, RestoreStage, RestoreClassify, RestoreRecord
<1>5. disk' = [disk EXCEPT ![at] = held] => disk'[at] = "other"
  BY <1>1 DEF IInv, Shape
<1>6. KeepHeld => at \in beside'
  BY DEF KeepHeld
<1>r. ASSUME Replacement PROVE disk'[at] = "other" \/ at \in beside' \/ SweptAsStage
  <2>1. CASE Save \/ CommitStops \/ Exchange \/ MoveAside \/ CopyPrevious
    BY <1>1, <2>1 DEF Save, CommitStops, Exchange, MoveAside, CopyPrevious, Displace
  <2>2. CASE MoveDisplaced \/ PublishStage \/ Rewrite
    BY <2>2 DEF MoveDisplaced, PublishStage, Rewrite
  <2>3. CASE SwapBack
    BY <1>5, <1>6, <2>3 DEF SwapBack, TargetStays, EndSave, Goto, SweptAsStage
  <2>4. CASE Verify
    BY <1>1, <1>6, <2>4 DEF Verify
  <2>5. CASE PutBack \/ RewriteFails
    BY <1>5, <1>6, <2>5 DEF PutBack, RewriteFails
  <2> QED
    BY <1>r, <2>1, <2>2, <2>3, <2>4, <2>5 DEF Replacement, Commit
<1>7. ASSUME Work PROVE disk'[at] = "other" \/ at \in beside' \/ SweptAsStage
  BY <1>3, <1>4, <1>r, <1>7 DEF Work, Reconcile, EndReconcile, RemoveReceipt, SweepBackups
<1>8. ~User
  BY DEF User, StartApply, List, StartRollback, Expire, Delete, BeginRemoval, Cancel, job
<1>9. ~Others
  BY DEF Others, ExternalEdit, Tamper
<1>10. ~Documents
  BY DEF Documents, Load, Admit, CloseDocument, OnlyDocs, job
<1>11. ASSUME Crash PROVE at \in beside' \/ SweptAsStage
  <2>1. pc = "swapped" => TargetStays
    BY <1>11 DEF Crash
  <2> QED
    BY <1>6, <1>11, <2>1 DEF Crash, Finish, TargetStays, SweptAsStage
<1> QED
  BY <1>2, <1>7, <1>8, <1>9, <1>10, <1>11 DEF Next

(* What a save takes out of a target is in its hands or beside the target. *)
LEMMA TakenIsHeld ==
    ASSUME IInv, [Next]_vars, NEW f \in Files, disk[f] = "other", disk'[f] # "other",
           edits' = edits
    PROVE  held' = "other" \/ f \in beside' \/ OverwrittenInPlace(f)
<1>1. f = at /\ pc \in Saving /\ disk[at] = "other"
  BY WhoWrites
<1>2. CASE pc = "copied"
  BY <1>1, <1>2 DEF OverwrittenInPlace
<1>3. ~(UNCHANGED vars) /\ ~Apply /\ ~Rollback
  BY DEF vars, job, Apply, NextFile, Review, Backup, Stage, Classify, RecordOutcome,
     Rollback, Unprotect, Restore, RestoreStage, RestoreClassify, RestoreRecord
<1>4. ASSUME Work PROVE Replacement
  BY <1>3, <1>4 DEF Work, Reconcile, EndReconcile, RemoveReceipt, SweepBackups
<1>5. ~User
  BY DEF User, StartApply, List, StartRollback, Expire, Delete, BeginRemoval, Cancel, job
<1>6. ~Others
  <2>1. edits + 1 # edits
    BY DEF IInv, Shape
  <2> QED
    BY <2>1 DEF Others, ExternalEdit, Tamper
<1>7. ~Documents
  BY DEF Documents, Load, Admit, CloseDocument, OnlyDocs, job
<1>8. Crash => pc = "copied"
  BY DEF Crash, TargetStays
<1>9. ASSUME Replacement, pc # "copied" PROVE held' = "other" \/ at \in beside'
  <2>1. Exchange \/ MoveAside => held' = "other"
    BY <1>1 DEF Exchange, MoveAside, Displace
  <2>2. SwapBack => at \in beside'
    BY <1>1 DEF SwapBack, TargetStays
  <2>3. ~(PublishStage \/ PutBack)
    BY <1>1 DEF PublishStage, PutBack
  <2>4. ~(Save \/ CommitStops \/ CopyPrevious \/ MoveDisplaced \/ Verify)
    BY DEF Save, CommitStops, CopyPrevious, MoveDisplaced, Verify, TargetStays
  <2>5. ~(Rewrite \/ RewriteFails)
    BY <1>9 DEF Rewrite, RewriteFails
  <2> QED
    BY <1>9, <2>1, <2>2, <2>3, <2>4, <2>5 DEF Replacement, Commit
<1> QED
  BY <1>1, <1>2, <1>3, <1>4, <1>5, <1>6, <1>7, <1>8, <1>9 DEF Next

(* What another program wrote to a target is never destroyed by the job,    *)
(* whenever it was written, but for the two windows that are named: what   *)
(* the saves displace, compare and keep.                                   *)
THEOREM OthersTextIsKept == Spec => ForeignContentKept
<1> DEFINE Kept ==
      /\ \A f \in Files : disk[f] = "other" /\ disk'[f] # "other" /\ edits' = edits =>
            held' = "other" \/ f \in beside' \/ OverwrittenInPlace(f)
      /\ held = "other" /\ held' # "other" =>
            disk'[at] = "other" \/ at \in beside' \/ SweptAsStage
<1>1. ASSUME IInv, [Next]_vars PROVE Kept
  BY <1>1, TakenIsHeld, HeldIsHandedOn
<1>2. IInv /\ [Next]_vars => [Kept]_vars
  BY <1>1
<1> QED
  BY <1>2, Inductive, PTL DEF Spec, ForeignContentKept

(* The worker changes no file under an open document: file admission, and   *)
(* the checks for open documents made under it.                             *)
THEOREM OpenFilesAreLeftAlone == Spec => OpenDocumentUntouched
<1>1. ASSUME IInv, [Next]_vars, NEW f \in Files, disk'[f] # disk[f], edits' = edits
      PROVE  docs[f] # "open"
  <2>1. f = at /\ pc \in Admission
    BY <1>1, WhoWrites DEF Admission
  <2> QED
    BY <1>1, <2>1 DEF IInv, Admitted
<1>2. IInv /\ [Next]_vars =>
        [\A f \in Files : disk'[f] # disk[f] /\ edits' = edits => docs[f] # "open"]_vars
  BY <1>1
<1> QED
  BY <1>2, Inductive, PTL DEF Spec, OpenDocumentUntouched
=============================================================================

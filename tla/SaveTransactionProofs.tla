------------------------ MODULE SaveTransactionProofs ------------------------
(***************************************************************************)
(* What is proved of SaveTransaction, for any number of saves in processes  *)
(* of their own, any strategies, any number of writes by other programs,    *)
(* with and without crashes and resumed cleanups.  A call fails any number  *)
(* of times, but only in a save that is alone (MayFail), and no other save  *)
(* starts after it did (MayRace).                                           *)
(*                                                                          *)
(* IInv says who can hold what.  StageInv: nobody but a save reaches its    *)
(* stage before it is published.  DisplacedInv: where in a commit a save    *)
(* has displaced a version.  NodeInv: a file has one name.  RecordInv and   *)
(* CleanupInv: what each transaction folder holds at each step, and that a  *)
(* cleanup takes the versions before the records that list them.            *)
(* FailureInv: a failed call belongs to a save that is alone.  FreshInv and *)
(* HomeInv: a version is found in public only once it was published, and in *)
(* one file.  SpentInv: a version a verified save replaced does not come    *)
(* back.  TornInv: behind a torn target stands a transaction that has both  *)
(* versions.                                                                *)
(*                                                                          *)
(* Most steps are Quiet: they bring no file to a name and write none, and   *)
(* keep every part that is not about the save itself (QuietKeeps).  A step  *)
(* of the commit either spreads files over names (SpreadKeeps) or writes    *)
(* one (WritingKeeps); each has a lemma of its own.  Apart from IInv, Moves  *)
(* says which files a step may let go of, for OnlyApprovedVersionsGo.       *)
(***************************************************************************)
EXTENDS SaveTransaction, FiniteSetTheorems, TLAPS

(* The steps of a save, by what it has done to the names.                    *)
PreStage == {"closed", "open"}
Hiding == {"staging", "mkdir", "manifest", "editor", "precommit", "prepared", "commit",
           "aside", "copied", "rollback", "abort"}
Unpublished == PreStage \cup (Hiding \ {"rollback", "abort"})
Closing == {"authority", "pending", "unlink", "retry"}
InPlace(p) == Replacing(p) /\ save[p].strategy = "inplace"

(* No name leads to p's stage but its own, and nobody rewrites or replaces it. *)
Hidden(p) ==
    /\ names.target # StageNode(p)
    /\ \A q \in Saves : /\ q # p => names.stage[q] # StageNode(p)
                        /\ names.displaced[q] # StageNode(p)
                        /\ At(q, "copied") => save[q].fd # StageNode(p)
                        /\ save[q].approved.node # StageNode(p)

(* A stage is the save's alone until it is published, and complete once it   *)
(* was written.                                                              *)
StageInv(p) ==
    /\ save[p].pc \in PreStage \cup Hiding => Hidden(p)
    /\ save[p].pc \in PreStage => names.stage[p] = NoNode
    /\ save[p].pc \in Hiding => names.stage[p] = StageNode(p)
    /\ save[p].pc \in Hiding \ {"staging"} => content[StageNode(p)] = Edited(p)
    /\ At(p, "swapped") => names.stage[p] \notin {NoNode, StageNode(p)}
    /\ save[p].pc \in {"published", "verify"} \cup Closing =>
          names.stage[p] \in {NoNode, StageNode(p)}
    /\ names.kept[p] # NoNode => save[p].pc \in {"done", "crashed"}

(* Only the steps of the commit displace a version, and only one that was    *)
(* approved for replacement; the copy of an in-place save is its own.        *)
DisplacedInv(p) ==
    /\ save[p].pc \in PreStage \cup (Hiding \ {"aside", "copied"}) \cup {"swapped"} =>
          names.displaced[p] = NoNode
    /\ At(p, "copied") => InPlace(p) /\ save[p].fd # NoNode
    /\ At(p, "copied") \/ (InPlace(p) /\ save[p].pc \in {"published", "verify"}) =>
          names.displaced[p] = CopyNode(p)
    /\ names.displaced[p] = CopyNode(p) => InPlace(p)
    /\ ~ Replacing(p) => names.displaced[p] = NoNode
    /\ save[p].pc \in {"swapped", "aside"} => Replacing(p) /\ save[p].strategy # "inplace"
    /\ At(p, "closed") => ~ Replacing(p)
    /\ ~ Replacing(p) => save[p].approved.version = Torn

(* A node has one name, a copy only the one it was made for, and a file that *)
(* is yet to be made none.                                                   *)
Elsewhere(n) ==
    /\ names.target # n
    /\ \A q \in Saves : /\ names.stage[q] # n
                        /\ At(q, "copied") => save[q].fd # n
                        /\ save[q].approved.node # n
NodeInv ==
    /\ \A p \in Saves : names.target # NoNode =>
          names.target # names.stage[p] /\ names.target # names.displaced[p]
    /\ \A p, q \in Saves : names.stage[p] # NoNode =>
          names.stage[p] # names.displaced[q] /\ (p # q => names.stage[p] # names.stage[q])
    /\ \A p, q \in Saves : names.displaced[p] # NoNode /\ p # q =>
          names.displaced[p] # names.displaced[q]
    /\ \A p \in Saves : Elsewhere(CopyNode(p))
    /\ \A p, q \in Saves : p # q => names.displaced[q] # CopyNode(p)
    /\ \A k \in externals + 1 .. MaxExternal :
          Elsewhere(ForeignNode(k)) /\ \A q \in Saves : names.displaced[q] # ForeignNode(k)

(* What a transaction's folder holds.                                        *)
Prepared(p) ==
    /\ folder[p]
    /\ entry[p]["manifest"] = "whole" /\ entry[p]["editor"] = "whole"
    /\ entry[p]["precommit"] = "whole" /\ entry[p]["conflict"] = "absent"
    /\ entry[p]["cleanup"] = "absent" /\ entry[p]["authority"] = "absent"
Unrecorded(p) == entry[p]["created"] = "absent" /\ entry[p]["replaced"] = "absent"
Recorded(p) ==
    /\ entry[p]["created"] = (IF Replacing(p) THEN "absent" ELSE "whole")
    /\ entry[p]["replaced"] = (IF Replacing(p) THEN "whole" ELSE "absent")
NothingBut(p, es) == \A e \in Entries : entry[p][e] = (IF e \in es THEN "whole" ELSE "absent")

(* The results of a save that keep the edited bytes, and where these are.    *)
Failing == {"commit_failure", "conflict", "conflict_after_create",
            "conflict_after_commit", "verification_after_commit"}
KeepsEdits(p) ==
    \/ /\ StageNode(p) \in {names.kept[p], names.stage[p]}
       /\ Hidden(p) /\ content[StageNode(p)] = Edited(p)
    \/ entry[p]["editor"] = "whole" /\ entry[p]["precommit"] = "whole"

(* Each record is there from the step that wrote it, whole or not at all, and*)
(* an unverified save is never cleaned up.                                   *)
RecordInv(p) ==
    /\ save[p].pc \in PreStage \cup {"staging", "mkdir"} => ~ folder[p] /\ NothingBut(p, {})
    /\ At(p, "manifest") => folder[p] /\ NothingBut(p, {})
    /\ At(p, "editor") => folder[p] /\ NothingBut(p, {"manifest"})
    /\ At(p, "precommit") => folder[p] /\ NothingBut(p, {"manifest", "editor"})
    /\ save[p].pc \in {"prepared", "commit", "swapped", "aside", "copied", "published"} =>
          Prepared(p) /\ Unrecorded(p)
    /\ At(p, "verify") => Prepared(p) /\ Recorded(p)
    /\ save[p].pc \in {"rollback", "abort"} =>
          /\ \A i \in DOMAIN save[p].todo : save[p].todo[i] # "displaced"
          /\ save[p].result \notin Failing \ {"commit_failure"}
    /\ ~ save[p].verified =>
          /\ cleaner[p].pc = "idle"
          /\ entry[p]["authority"] = "absent" /\ entry[p]["cleanup"] = "absent"
          /\ entry[p]["editor"] = "partial" => \A s \in States : entry[p][s] = "absent"
          /\ save[p].pc \notin Closing
          /\ At(p, "done") /\ save[p].result \in Failing => KeepsEdits(p)
    /\ save[p].verified =>
          /\ save[p].pc \in Closing \cup {"done", "crashed"}
          /\ At(p, "done") => save[p].result \notin Failing

(* Cleanup removes the versions first, and everything else only when they    *)
(* are gone.                                                                 *)
Remains(p) == entry[p]["editor"] # "absent" \/ names.displaced[p] # NoNode
Vital == {"editor", "displaced"}
VersionsFirst(t) ==
    \A i \in DOMAIN t : t[i] \in Vital => \A j \in 1 .. i : t[j] \in Vital
Unlinking(p, t) ==
    /\ VersionsFirst(t)
    /\ entry[p]["editor"] # "absent" => \E i \in DOMAIN t : t[i] = "editor"
    /\ names.displaced[p] # NoNode => \E i \in DOMAIN t : t[i] = "displaced"
    /\ Remains(p) => entry[p]["cleanup"] = "whole"
CleanupInv(p) ==
    save[p].verified =>
      /\ entry[p]["conflict"] = "absent" /\ entry[p]["editor"] # "partial"
      /\ Remains(p) =>
           /\ folder[p] /\ Recorded(p)
           /\ entry[p]["manifest"] = "whole" /\ entry[p]["precommit"] = "whole"
           /\ entry[p]["cleanup"] = "absent" => entry[p]["editor"] = "whole"
           /\ entry[p]["cleanup"] # "absent" => entry[p]["authority"] = "whole"
      /\ At(p, "unlink") => Unlinking(p, save[p].todo)
      /\ cleaner[p].pc = "unlink" => Unlinking(p, cleaner[p].todo)

(* A call fails only for a save that is alone, and ends it but for cleanup.  *)
FailureInv ==
    failures # 0 =>
      \E p \in Saves : /\ save[p].pc \in Closing \cup {"rollback", "abort", "done", "crashed"}
                       /\ \A q \in Saves \ {p} : At(q, "closed")

(* The files that are, were or may become the target.                        *)
Public(n) ==
    /\ n # NoNode
    /\ \/ n = names.target
       \/ \E p \in Saves : \/ At(p, "swapped") /\ n = names.stage[p]
                           \/ n = names.displaced[p] /\ n # CopyNode(p)
                           \/ At(p, "copied") /\ n = save[p].fd

(* A version that is yet to appear is nowhere and was approved by nobody.    *)
Unseen(v) == \A q \in Saves : save[q].approved.version # v
Nowhere(v) == \A n \in Nodes : Public(n) => content[n] # v
FreshInv ==
    /\ \A p \in Saves : /\ save[p].approved.version # Edited(p)
                        /\ save[p].pc \in Unpublished => Unseen(Edited(p))
    /\ \A k \in externals + 1 .. MaxExternal : Unseen(Foreign(k))
    /\ failures = 0 =>
         /\ \A p \in Saves : save[p].pc \in Unpublished => Nowhere(Edited(p))
         /\ \A k \in externals + 1 .. MaxExternal : Nowhere(Foreign(k))

(* Until a call fails a version has one home.                                *)
OnlyAt(v, n) == \A m \in Nodes : Public(m) /\ content[m] = v => m = n
HomeInv ==
    failures = 0 =>
      /\ \A m \in Nodes : Public(m) /\ content[m] # Torn => OnlyAt(content[m], m)
      /\ \A p \in Saves :
           LET a == save[p].approved
           IN  a.version # Torn =>
                 /\ OnlyAt(a.version, a.node)
                 /\ At(p, "copied") /\ content[save[p].fd] = a.version =>
                       content[CopyNode(p)] = a.version
                 /\ At(p, "copied") /\ content[CopyNode(p)] = a.version => save[p].fd = a.node
                 /\ /\ InPlace(p) /\ save[p].pc \in {"published", "verify"}
                    /\ content[CopyNode(p)] = a.version
                    => OnlyAt(Edited(p), a.node)

(* What a verified save displaced is what was approved, or became another's  *)
(* failed rewrite; the approved version is not the target's any more.        *)
SpentInv ==
    \A p \in Saves : save[p].verified =>
      LET a == save[p].approved  d == names.displaced[p]
      IN  /\ d = CopyNode(p) => content[d] = a.version
          /\ d # NoNode => content[d] = a.version \/ content[d] \notin Published
          /\ a.version # Torn =>
               IF InPlace(p) THEN content[a.node] # a.version
               ELSE /\ names.target # a.node
                    /\ \A q \in Saves : /\ names.stage[q] # a.node
                                        /\ q # p => names.displaced[q] # a.node

(* The transaction that has the bytes behind a torn target.                  *)
Recoverable(p) ==
    /\ save[p].pc \in {"done", "crashed"} /\ ~ save[p].verified
    /\ Prepared(p) /\ Unrecorded(p)
    /\ names.displaced[p] = CopyNode(p) /\ content[CopyNode(p)] # Torn
TornInv ==
    (\/ \E n \in Nodes : Public(n) /\ content[n] = Torn
     \/ \E p \in Saves : At(p, "copied") /\ content[CopyNode(p)] = Torn)
    => \E p \in Saves : Recoverable(p)

(* The inductive invariant.                                                  *)
IInv ==
    /\ TypeOK /\ NodeInv /\ FailureInv /\ FreshInv /\ HomeInv /\ SpentInv /\ TornInv
    /\ \A p \in Saves : StageInv(p) /\ DisplacedInv(p) /\ RecordInv(p) /\ CleanupInv(p)

(* Every node, version, step, result and order is one of its kind.           *)
LEMMA KindsAre ==
    /\ NoNode \in Places /\ Torn \in Contents /\ <<>> \in Todo /\ Nodes \subseteq Places
    /\ \A p \in Saves : /\ StageNode(p) \in Nodes /\ CopyNode(p) \in Nodes
                        /\ StageNode(p) \in Places /\ CopyNode(p) \in Places
                        /\ Edited(p) \in Contents /\ Edited(p) \in Versions
    /\ \A k \in 1 .. MaxExternal : /\ ForeignNode(k) \in Nodes /\ ForeignNode(k) \in Places
                                   /\ Foreign(k) \in Contents /\ Foreign(k) \in Versions
    /\ CleanupOrder \in Todo /\ ResumedOrder \in Todo /\ AbortOrder \in Todo
    /\ RollbackOrder \in Todo
<1>1. NoNode \in Places /\ Torn \in Contents /\ <<>> \in Todo /\ Nodes \subseteq Places
  BY DEF Places, Contents, Todo
<1>2. \A p \in Saves : /\ StageNode(p) \in Nodes /\ CopyNode(p) \in Nodes
                       /\ StageNode(p) \in Places /\ CopyNode(p) \in Places
                       /\ Edited(p) \in Contents /\ Edited(p) \in Versions
  BY DEF Places, Contents, Nodes, Versions
<1>3. \A k \in 1 .. MaxExternal : /\ ForeignNode(k) \in Nodes /\ ForeignNode(k) \in Places
                                  /\ Foreign(k) \in Contents /\ Foreign(k) \in Versions
  BY DEF Places, Contents, Nodes, Versions
<1>4. CleanupOrder \in Todo /\ ResumedOrder \in Todo
  BY DEF CleanupOrder, ResumedOrder, Todo, Entries, States
<1>5. AbortOrder \in Todo /\ RollbackOrder \in Todo
  BY DEF AbortOrder, RollbackOrder, Todo, Entries, States
<1> QED
  BY <1>1, <1>2, <1>3, <1>4, <1>5

(* What a fingerprint, a kept stage and a mark are.                          *)
LEMMA PartsAre ==
    ASSUME TypeOK, NEW p \in Saves
    PROVE  /\ \A n \in Places : Fingerprint(n) \in Fingerprints
           /\ KeepStage(p) \in Naming /\ DropStage(p) \in Naming /\ Kept(p) \subseteq Naming
           /\ ReportStage(p) => names' \in Naming /\ failures' \in 0 .. MaxFailures
           /\ \A n \in Places : n # NoNode => n \in Nodes /\ content[n] \in Contents
           /\ MarkConflict(p) => entry' \in [Saves -> [Entries -> Extents]]
           /\ Strategies \subseteq {"exchange", "rename", "inplace"}
           /\ MaxFailures \in Nat /\ failures \in Nat
           /\ MayFail => failures' \in 0 .. MaxFailures
           /\ MarkConflict(p) => failures' \in 0 .. MaxFailures
<1>1. \A n \in Places : n # NoNode => n \in Nodes /\ content[n] \in Contents
  BY DEF Places, TypeOK
<1>2. \A n \in Places : Fingerprint(n) \in Fingerprints
  BY <1>1, KindsAre DEF Fingerprint, Fingerprints
<1>3. KeepStage(p) \in Naming /\ DropStage(p) \in Naming
  BY KindsAre DEF KeepStage, DropStage, Naming, TypeOK
<1>4. /\ Strategies \subseteq {"exchange", "rename", "inplace"}
      /\ MaxFailures \in Nat /\ failures \in Nat
  BY ConstantsAssumption DEF ConstantsAssumption, TypeOK
<1>5. MayFail => failures' \in 0 .. MaxFailures
  BY <1>4 DEF MayFail
<1>6. ASSUME MarkConflict(p)
      PROVE  entry' \in [Saves -> [Entries -> Extents]] /\ failures' \in 0 .. MaxFailures
  <2>1. "conflict" \in Entries /\ {"absent", "partial", "whole"} = Extents
    BY DEF Entries, States, Extents
  <2>2. PICK x \in Extents : entry' = [entry EXCEPT ![p]["conflict"] = x]
    BY <1>6, <2>1 DEF MarkConflict
  <2>3. entry' \in [Saves -> [Entries -> Extents]]
    BY <2>1, <2>2 DEF TypeOK
  <2> QED
    BY <1>6, <1>4, <1>5, <2>3 DEF MarkConflict, TypeOK
<1>7. /\ Kept(p) \subseteq Naming
      /\ ReportStage(p) => names' \in Naming /\ failures' \in 0 .. MaxFailures
  BY <1>3, <1>5 DEF Kept, ReportStage, TypeOK
<1> QED
  BY <1>1, <1>2, <1>3, <1>4, <1>5, <1>6, <1>7

(* What keeping a stage does to the names, whether its rename works or not.  *)
LEMMA KeptIs ==
    ASSUME TypeOK, NEW p \in Saves, NEW kept \in Kept(p)
    PROVE  /\ kept \in Naming
           /\ kept.target = names.target /\ kept.displaced = names.displaced
           /\ kept.stage[p] \in {NoNode, names.stage[p]}
           /\ kept.kept[p] \in {names.kept[p], names.stage[p]}
           /\ names.stage[p] \in {kept.kept[p], kept.stage[p]}
           /\ \A q \in Saves \ {p} : /\ kept.stage[q] = names.stage[q]
                                     /\ kept.kept[q] = names.kept[q]
<1>1. CASE kept = names
  BY <1>1 DEF TypeOK
<1>2. CASE kept = KeepStage(p)
  <2>1. names \in Naming /\ kept \in Naming
    BY <1>2, PartsAre DEF TypeOK
  <2>2. kept = [names EXCEPT !.kept[p] = names.stage[p], !.stage[p] = NoNode]
    BY <1>2 DEF KeepStage
  <2>3. kept.stage[p] = NoNode /\ kept.kept[p] = names.stage[p]
    BY <2>1, <2>2 DEF Naming
  <2>4. /\ kept.target = names.target /\ kept.displaced = names.displaced
        /\ \A q \in Saves \ {p} : /\ kept.stage[q] = names.stage[q]
                                  /\ kept.kept[q] = names.kept[q]
    BY <2>1, <2>2 DEF Naming
  <2> QED
    BY <2>1, <2>3, <2>4
<1> QED
  BY <1>1, <1>2 DEF Kept

(* What swapping back does to the names.                                     *)
LEMMA SwappedBackIs ==
    ASSUME TypeOK, NEW p \in Saves, NEW back \in SwappedBack(p)
    PROVE  /\ back.target = names.stage[p] /\ back.displaced = names.displaced
           /\ back.stage[p] \in {NoNode, names.target}
           /\ back.kept[p] \in {names.kept[p], names.target}
           /\ names.target \in {back.kept[p], back.stage[p]}
           /\ \A q \in Saves \ {p} : /\ back.stage[q] = names.stage[q]
                                     /\ back.kept[q] = names.kept[q]
<1>0. names \in Naming
  BY DEF TypeOK
<1>1. CASE back = [names EXCEPT !.target = names.stage[p], !.kept[p] = names.target,
                                !.stage[p] = NoNode]
  <2>1. back.stage[p] = NoNode /\ back.kept[p] = names.target
    BY <1>0, <1>1 DEF Naming
  <2>2. /\ back.target = names.stage[p] /\ back.displaced = names.displaced
        /\ \A q \in Saves \ {p} : /\ back.stage[q] = names.stage[q]
                                  /\ back.kept[q] = names.kept[q]
    BY <1>0, <1>1 DEF Naming
  <2> QED
    BY <2>1, <2>2
<1>2. CASE back = [names EXCEPT !.target = names.stage[p], !.stage[p] = names.target]
  <2>1. back.stage[p] = names.target /\ back.kept = names.kept
    BY <1>0, <1>2 DEF Naming
  <2>2. /\ back.target = names.stage[p] /\ back.displaced = names.displaced
        /\ \A q \in Saves \ {p} : back.stage[q] = names.stage[q]
    BY <1>0, <1>2 DEF Naming
  <2> QED
    BY <2>1, <2>2
<1> QED
  BY <1>1, <1>2 DEF SwappedBack

(* A report of a failed commit keeps the stage, whatever calls fail.         *)
LEMMA ReportIs ==
    ASSUME NEW p \in Saves, ReportStage(p)
    PROVE  names' \in Kept(p) /\ (failures' = failures \/ MayFail)
BY DEF ReportStage, Kept

(* A record is one of a folder's entries, and what is written of it is one   *)
(* of three.                                                                 *)
LEMMA WritingIs ==
    ASSUME TypeOK, NEW p \in Saves
    PROVE  /\ save[p].pc \in WritingSteps => Writing(p) \in Entries /\ AfterWriting(p) \in Steps
           /\ LeftBehind(p) \subseteq [Saves -> [Entries -> Extents]]
<1>1. ASSUME save[p].pc \in WritingSteps
      PROVE  Writing(p) \in Entries /\ AfterWriting(p) \in Steps
  BY <1>1 DEF WritingSteps, Writing, AfterWriting, At, Entries, States, Steps
<1>2. ASSUME NEW f \in LeftBehind(p)
      PROVE  f \in [Saves -> [Entries -> Extents]]
  <2>1. f = entry \/ (/\ save[p].pc \in WritingSteps
                      /\ f = [entry EXCEPT ![p][Writing(p)] = IF @ = "absent" THEN "partial" ELSE @])
    BY <1>2 DEF LeftBehind
  <2>2. CASE f = entry
    BY <2>2 DEF TypeOK
  <2>3. ASSUME save[p].pc \in WritingSteps, NEW w \in Entries,
               f = [entry EXCEPT ![p][w] = IF @ = "absent" THEN "partial" ELSE @]
        PROVE  f \in [Saves -> [Entries -> Extents]]
    BY <2>3 DEF TypeOK, Extents
  <2> QED
    BY <1>1, <2>1, <2>2, <2>3
<1> QED
  BY <1>1, <1>2

(* The rest of an order is an order.                                         *)
LEMMA RestIs ==
    ASSUME NEW t \in Todo, t # <<>>
    PROVE  Tail(t) \in Todo /\ Head(t) \in Entries \cup {"displaced"}
BY DEF Todo

(* The steps of Prepare keep the types.                                  *)
LEMMA PrepareTypes ==
    ASSUME TypeOK, NEW p \in Saves, Prepare(p)
    PROVE  TypeOK'
<1>0. TypeOK /\ save[p] \in Progress
  BY DEF TypeOK
<1>1. CASE Open(p)
  <2>1. UNCHANGED <<names, content, folder, entry, cleaner, externals, failures>>
    BY <1>1 DEF Open, disk, bounds
  <2>2. save' \in [Saves -> Progress]
    BY <1>0, <1>1, KindsAre, PartsAre, ZenonT(30)
    DEF Open, Progress, Steps, At, TypeOK, Naming
  <2> QED
    BY <1>0, <2>1, <2>2 DEF TypeOK
<1>2. CASE RefuseDeleted(p)
  <2>1. UNCHANGED <<names, content, folder, entry, cleaner, externals, failures>>
    BY <1>2 DEF RefuseDeleted, disk, bounds
  <2>2. save' \in [Saves -> Progress]
    BY <1>0, <1>2, KindsAre, ZenonT(30)
    DEF RefuseDeleted, Goto, Return, Progress, Fingerprints, Fingerprint, Steps, Results,
        TypeOK, At
  <2> QED
    BY <1>0, <2>1, <2>2 DEF TypeOK
<1>3. CASE CreateStage(p)
  <2>1. UNCHANGED <<content, folder, entry, cleaner, externals, failures>>
    BY <1>3 DEF CreateStage, disk, bounds
  <2>2. names' \in Naming
    BY <1>0, <1>3, KindsAre
    DEF CreateStage, DropStage, KeepStage, SweptStages, UndisplacedBy, Naming, TypeOK, At
  <2>3. save' \in [Saves -> Progress]
    BY <1>0, <1>3, KindsAre, ZenonT(30)
    DEF CreateStage, Goto, Return, Progress, Fingerprints, Fingerprint, Steps, Results,
        TypeOK, At
  <2> QED
    BY <1>0, <2>1, <2>2, <2>3 DEF TypeOK
<1>4. CASE WriteStage(p)
  <2>1. UNCHANGED <<names, folder, entry, cleaner, externals, failures>>
    BY <1>4 DEF WriteStage, disk, bounds
  <2>2. content' \in [Nodes -> Contents]
    BY <1>0, <1>4, KindsAre DEF WriteStage, TypeOK, At
  <2>3. save' \in [Saves -> Progress]
    BY <1>0, <1>4, KindsAre, ZenonT(30)
    DEF WriteStage, Goto, Return, Progress, Fingerprints, Fingerprint, Steps, Results,
        TypeOK, At
  <2> QED
    BY <1>0, <2>1, <2>2, <2>3 DEF TypeOK
<1>5. CASE CreateTransaction(p)
  <2>1. UNCHANGED <<names, content, entry, cleaner, externals, failures>>
    BY <1>5 DEF CreateTransaction, disk, bounds
  <2>2. folder' \in [Saves -> BOOLEAN]
    BY <1>0, <1>5, KindsAre DEF CreateTransaction, TypeOK, At
  <2>3. save' \in [Saves -> Progress]
    <3>1. PICK s \in Strategies : save' = [save EXCEPT ![p].pc = "manifest", ![p].strategy = s]
      BY <1>5 DEF CreateTransaction
    <3>2. s \in {"exchange", "rename", "inplace"} /\ "manifest" \in Steps
      BY PartsAre DEF Steps
    <3> QED
      BY <1>0, <3>1, <3>2 DEF TypeOK, Progress
  <2> QED
    BY <1>0, <2>1, <2>2, <2>3 DEF TypeOK
<1>6. CASE WriteRecord(p)
  <2>1. UNCHANGED <<names, content, folder, cleaner, externals, failures>>
    BY <1>6 DEF WriteRecord, disk, bounds
  <2>2. entry' \in [Saves -> [Entries -> Extents]]
    BY <1>0, <1>6, KindsAre
    DEF WriteRecord, MarkConflict, LeftBehind, Unlinked, Extents, States, Entries, TypeOK,
        At
  <2>3. save' \in [Saves -> Progress]
    <3>1. /\ AfterWriting(p) \in Steps /\ CleanupOrder \in Todo /\ names.target \in Places
          /\ save[p].fd \in Places /\ save[p].todo \in Todo
      BY <1>0, <1>6, KindsAre, WritingIs DEF WriteRecord, Progress, TypeOK, Naming
    <3>2. PICK a, f, t :
             /\ a = AfterWriting(p)
             /\ f = IF At(p, "published") THEN names.target ELSE save[p].fd
             /\ t = IF At(p, "pending") THEN CleanupOrder ELSE save[p].todo
      OBVIOUS
    <3>3. save' = [save EXCEPT ![p] = [save[p] EXCEPT !.pc = a, !.fd = f, !.todo = t]]
      BY <1>0, <1>6, <3>2 DEF WriteRecord, TypeOK, Progress
    <3>4. [save[p] EXCEPT !.pc = a, !.fd = f, !.todo = t] \in Progress
      BY <1>0, <3>1, <3>2 DEF Progress
    <3> QED
      BY <3>3, <3>4 DEF TypeOK
  <2> QED
    BY <1>0, <2>1, <2>2, <2>3 DEF TypeOK
<1> QED
  BY <1>1, <1>2, <1>3, <1>4, <1>5, <1>6 DEF Prepare

(* The steps of Commit keep the types.                                   *)
LEMMA CommitTypes ==
    ASSUME TypeOK, NEW p \in Saves, Commit(p)
    PROVE  TypeOK'
<1>0. TypeOK /\ save[p] \in Progress
  BY DEF TypeOK
<1>1. CASE CheckUnchanged(p)
  <2>1. UNCHANGED <<names, content, folder, entry, cleaner, externals, failures>>
    BY <1>1 DEF CheckUnchanged, disk, bounds
  <2>2. save' \in [Saves -> Progress]
    BY <1>0, <1>1, KindsAre, ZenonT(30)
    DEF CheckUnchanged, Goto, Return, Progress, Fingerprints, Fingerprint, Steps, Results,
        TypeOK, At
  <2> QED
    BY <1>0, <2>1, <2>2 DEF TypeOK
<1>2. CASE CheckDeleted(p)
  <2>1. UNCHANGED <<names, content, folder, entry, cleaner, externals, failures>>
    BY <1>2 DEF CheckDeleted, disk, bounds
  <2>2. save' \in [Saves -> Progress]
    BY <1>0, <1>2, KindsAre, ZenonT(30)
    DEF CheckDeleted, Goto, Return, Progress, Fingerprints, Fingerprint, Steps, Results,
        TypeOK, At
  <2> QED
    BY <1>0, <2>1, <2>2 DEF TypeOK
<1>3. CASE CheckChanged(p)
  <2>1. UNCHANGED <<content, folder, cleaner, externals>>
    BY <1>3 DEF CheckChanged, disk, bounds
  <2>2. names' \in Naming
    BY <1>0, <1>3, KindsAre
    DEF CheckChanged, DropStage, KeepStage, SweptStages, UndisplacedBy, Naming, TypeOK, At
  <2>3. entry' \in [Saves -> [Entries -> Extents]]
    BY <1>3, PartsAre DEF CheckChanged
  <2>4. save' \in [Saves -> Progress]
    BY <1>0, <1>3, KindsAre, ZenonT(30)
    DEF CheckChanged, Goto, Return, Progress, Fingerprints, Fingerprint, Steps, Results,
        TypeOK, At
  <2>5. failures' \in 0 .. MaxFailures
    BY <1>3, PartsAre DEF CheckChanged
  <2> QED
    BY <1>0, <2>1, <2>2, <2>3, <2>4, <2>5 DEF TypeOK
<1>4. CASE Exchange(p)
  <2>1. UNCHANGED <<content, folder, entry, cleaner, externals, failures>>
    BY <1>4 DEF Exchange, disk, bounds
  <2>2. names' \in Naming
    BY <1>0, <1>4, KindsAre
    DEF Exchange, DropStage, KeepStage, SweptStages, UndisplacedBy, Naming, TypeOK, At
  <2>3. save' \in [Saves -> Progress]
    BY <1>0, <1>4, KindsAre, ZenonT(30)
    DEF Exchange, Goto, Return, Progress, Fingerprints, Fingerprint, Steps, Results, TypeOK,
        At
  <2> QED
    BY <1>0, <2>1, <2>2, <2>3 DEF TypeOK
<1>5. CASE MoveDisplaced(p)
  <2>1. UNCHANGED <<content, folder, entry, cleaner, externals, failures>>
    BY <1>5 DEF MoveDisplaced, disk, bounds
  <2>2. names' \in Naming
    BY <1>0, <1>5, KindsAre
    DEF MoveDisplaced, DropStage, KeepStage, SweptStages, UndisplacedBy, Naming, TypeOK, At
  <2>3. save' \in [Saves -> Progress]
    BY <1>0, <1>5, KindsAre, ZenonT(30)
    DEF MoveDisplaced, Goto, Return, Progress, Fingerprints, Fingerprint, Steps, Results,
        TypeOK, At
  <2> QED
    BY <1>0, <2>1, <2>2, <2>3 DEF TypeOK
<1>6. CASE SwapBack(p)
  <2>1. UNCHANGED <<content, folder, entry, cleaner, externals>>
    BY <1>6 DEF SwapBack, disk, bounds
  <2>2. names' \in Naming
    <3>1. Kept(p) \subseteq Naming
      BY PartsAre
    <3>2. /\ [names EXCEPT !.target = names.stage[p], !.kept[p] = names.target,
                            !.stage[p] = NoNode] \in Naming
          /\ [names EXCEPT !.target = names.stage[p], !.stage[p] = names.target] \in Naming
      BY <1>0, KindsAre DEF Naming, TypeOK
    <3> QED
      BY <1>6, <3>1, <3>2 DEF SwapBack, SwappedBack
  <2>3. save' \in [Saves -> Progress]
    BY <1>0, <1>6, KindsAre, ZenonT(30)
    DEF SwapBack, Goto, Return, Progress, Fingerprints, Fingerprint, Steps, Results, TypeOK,
        At
  <2>4. failures' \in 0 .. MaxFailures
    BY <1>6, PartsAre DEF SwapBack
  <2> QED
    BY <1>0, <2>1, <2>2, <2>3, <2>4 DEF TypeOK
<1>7. CASE MoveAside(p)
  <2>1. UNCHANGED <<content, folder, entry, cleaner, externals, failures>>
    BY <1>7 DEF MoveAside, disk, bounds
  <2>2. names' \in Naming
    BY <1>0, <1>7, KindsAre
    DEF MoveAside, DropStage, KeepStage, SweptStages, UndisplacedBy, Naming, TypeOK, At
  <2>3. save' \in [Saves -> Progress]
    BY <1>0, <1>7, KindsAre, ZenonT(30)
    DEF MoveAside, Goto, Return, Progress, Fingerprints, Fingerprint, Steps, Results,
        TypeOK, At
  <2> QED
    BY <1>0, <2>1, <2>2, <2>3 DEF TypeOK
<1>8. CASE PublishStage(p)
  <2>1. UNCHANGED <<content, folder, entry, cleaner, externals, failures>>
    BY <1>8 DEF PublishStage, disk, bounds
  <2>2. names' \in Naming
    BY <1>0, <1>8, KindsAre
    DEF PublishStage, DropStage, KeepStage, SweptStages, UndisplacedBy, Naming, TypeOK, At
  <2>3. save' \in [Saves -> Progress]
    BY <1>0, <1>8, KindsAre, ZenonT(30)
    DEF PublishStage, Goto, Return, Progress, Fingerprints, Fingerprint, Steps, Results,
        TypeOK, At
  <2> QED
    BY <1>0, <2>1, <2>2, <2>3 DEF TypeOK
<1>9. CASE PutBack(p)
  <2>1. UNCHANGED <<content, folder, entry, cleaner, externals>>
    BY <1>9 DEF PutBack, disk, bounds
  <2>2. names' \in Naming
    <3>1. Kept(p) \subseteq Naming
      BY PartsAre
    <3>2. names.displaced[p] \in Places
      BY DEF TypeOK, Naming
    <3>3. \A kept \in Naming :
             [kept EXCEPT !.target = names.displaced[p], !.displaced[p] = NoNode] \in Naming
      BY <3>2, KindsAre DEF Naming
    <3>4. CASE names.target # NoNode
      BY <1>9, <3>4, PartsAre DEF PutBack
    <3>5. CASE names.target = NoNode
      BY <1>9, <3>1, <3>3, <3>5 DEF PutBack
    <3> QED
      BY <3>4, <3>5
  <2>3. save' \in [Saves -> Progress]
    BY <1>0, <1>9, KindsAre, ZenonT(30)
    DEF PutBack, Goto, Return, Progress, Fingerprints, Fingerprint, Steps, Results, TypeOK,
        At
  <2>4. failures' \in 0 .. MaxFailures
    BY <1>0, <1>9, PartsAre DEF PutBack, TypeOK
  <2> QED
    BY <1>0, <2>1, <2>2, <2>3, <2>4 DEF TypeOK
<1>10. CASE CopyPrevious(p)
  <2>1. UNCHANGED <<folder, entry, cleaner, externals, failures>>
    BY <1>10 DEF CopyPrevious, disk, bounds
  <2>2. names' \in Naming
    BY <1>0, <1>10, KindsAre
    DEF CopyPrevious, DropStage, KeepStage, SweptStages, UndisplacedBy, Naming, TypeOK, At
  <2>3. content' \in [Nodes -> Contents]
    BY <1>0, <1>10, KindsAre, PartsAre DEF CopyPrevious, TypeOK, Naming
  <2>4. save' \in [Saves -> Progress]
    BY <1>0, <1>10, KindsAre, PartsAre, ZenonT(30)
    DEF CopyPrevious, Progress, Steps, TypeOK, Naming
  <2> QED
    BY <1>0, <2>1, <2>2, <2>3, <2>4 DEF TypeOK
<1>11. CASE Rewrite(p)
  <2>1. UNCHANGED <<names, folder, entry, cleaner, externals, failures>>
    BY <1>11 DEF Rewrite, disk, bounds
  <2>2. content' \in [Nodes -> Contents]
    BY <1>0, <1>11, KindsAre DEF Rewrite, TypeOK, At
  <2>3. save' \in [Saves -> Progress]
    BY <1>0, <1>11, KindsAre, ZenonT(30)
    DEF Rewrite, Goto, Return, Progress, Fingerprints, Fingerprint, Steps, Results, TypeOK,
        At
  <2> QED
    BY <1>0, <2>1, <2>2, <2>3 DEF TypeOK
<1>12. CASE RestorePrevious(p)
  <2>1. UNCHANGED <<folder, entry, cleaner, externals>>
    BY <1>12 DEF RestorePrevious, disk, bounds
  <2>2. names' \in Naming
    BY <1>12, PartsAre DEF RestorePrevious
  <2>3. content' \in [Nodes -> Contents]
    <3>1. PICK v \in {content[CopyNode(p)], Torn} : content' = [content EXCEPT ![save[p].fd] = v]
      BY <1>12 DEF RestorePrevious
    <3>2. v \in Contents
      BY <3>1, KindsAre DEF TypeOK
    <3> QED
      BY <3>1, <3>2 DEF TypeOK
  <2>4. save' \in [Saves -> Progress]
    BY <1>0, <1>12, KindsAre, ZenonT(30)
    DEF RestorePrevious, Goto, Return, Progress, Fingerprints, Fingerprint, Steps, Results,
        TypeOK, At
  <2>5. failures' \in 0 .. MaxFailures
    BY <1>12, PartsAre DEF RestorePrevious
  <2> QED
    BY <1>0, <2>1, <2>2, <2>3, <2>4, <2>5 DEF TypeOK
<1>13. CASE CreateNew(p)
  <2>1. UNCHANGED <<content, folder, entry, cleaner, externals, failures>>
    BY <1>13 DEF CreateNew, disk, bounds
  <2>2. names' \in Naming
    BY <1>0, <1>13, KindsAre
    DEF CreateNew, DropStage, KeepStage, SweptStages, UndisplacedBy, Naming, TypeOK, At
  <2>3. save' \in [Saves -> Progress]
    BY <1>0, <1>13, KindsAre, ZenonT(30)
    DEF CreateNew, Goto, Return, Progress, Fingerprints, Fingerprint, Steps, Results,
        TypeOK, At
  <2> QED
    BY <1>0, <2>1, <2>2, <2>3 DEF TypeOK
<1>14. CASE CreateCollides(p)
  <2>1. UNCHANGED <<content, folder, cleaner, externals>>
    BY <1>14 DEF CreateCollides, disk, bounds
  <2>2. names' \in Naming
    BY <1>0, <1>14, KindsAre
    DEF CreateCollides, DropStage, KeepStage, SweptStages, UndisplacedBy, Naming, TypeOK, At
  <2>3. entry' \in [Saves -> [Entries -> Extents]]
    BY <1>14, PartsAre DEF CreateCollides
  <2>4. save' \in [Saves -> Progress]
    BY <1>0, <1>14, KindsAre, ZenonT(30)
    DEF CreateCollides, Goto, Return, Progress, Fingerprints, Fingerprint, Steps, Results,
        TypeOK, At
  <2>5. failures' \in 0 .. MaxFailures
    BY <1>14, PartsAre DEF CreateCollides
  <2> QED
    BY <1>0, <2>1, <2>2, <2>3, <2>4, <2>5 DEF TypeOK
<1>15. CASE CommitFindsNoTarget(p)
  <2>1. UNCHANGED <<content, folder, entry, cleaner, externals>>
    BY <1>15 DEF CommitFindsNoTarget
  <2>2. names' \in Naming /\ failures' \in 0 .. MaxFailures
    BY <1>15, PartsAre DEF CommitFindsNoTarget
  <2>3. save' \in [Saves -> Progress]
    BY <1>0, <1>15, KindsAre, ZenonT(30)
    DEF CommitFindsNoTarget, Goto, Return, Progress, Fingerprints, Fingerprint, Steps,
        Results, TypeOK, At
  <2> QED
    BY <1>0, <2>1, <2>2, <2>3 DEF TypeOK
<1> QED
  BY <1>1, <1>2, <1>3, <1>4, <1>5, <1>6, <1>7, <1>8, <1>9, <1>10, <1>11, <1>12, <1>13,
     <1>14, <1>15
  DEF Commit

(* The steps of Conclude keep the types.                                 *)
LEMMA ConcludeTypes ==
    ASSUME TypeOK, NEW p \in Saves, Conclude(p)
    PROVE  TypeOK'
<1>0. TypeOK /\ save[p] \in Progress
  BY DEF TypeOK
<1>1. CASE VerifyGood(p)
  <2>1. UNCHANGED <<names, content, folder, entry, cleaner, externals, failures>>
    BY <1>1 DEF VerifyGood, disk, bounds
  <2>2. save' \in [Saves -> Progress]
    BY <1>0, <1>1, KindsAre, ZenonT(30)
    DEF VerifyGood, Goto, Return, Progress, Fingerprints, Fingerprint, Steps, Results,
        TypeOK, At
  <2> QED
    BY <1>0, <2>1, <2>2 DEF TypeOK
<1>2. CASE VerifyBad(p)
  <2>1. UNCHANGED <<content, folder, cleaner, externals>>
    BY <1>2 DEF VerifyBad, disk, bounds
  <2>2. names' \in Naming
    BY <1>0, <1>2, KindsAre
    DEF VerifyBad, DropStage, KeepStage, SweptStages, UndisplacedBy, Naming, TypeOK, At
  <2>3. entry' \in [Saves -> [Entries -> Extents]]
    BY <1>2, PartsAre DEF VerifyBad
  <2>4. save' \in [Saves -> Progress]
    BY <1>0, <1>2, KindsAre, ZenonT(30)
    DEF VerifyBad, Goto, Return, Progress, Fingerprints, Fingerprint, Steps, Results,
        TypeOK, At
  <2>5. failures' \in 0 .. MaxFailures
    BY <1>2, PartsAre DEF VerifyBad
  <2> QED
    BY <1>0, <2>1, <2>2, <2>3, <2>4, <2>5 DEF TypeOK
<1>3. CASE VerifyUnreadable(p)
  <2>1. UNCHANGED <<content, folder, cleaner, externals>>
    BY <1>3 DEF VerifyUnreadable, disk, bounds
  <2>2. names' \in Naming
    BY <1>0, <1>3, KindsAre
    DEF VerifyUnreadable, DropStage, KeepStage, SweptStages, UndisplacedBy, Naming, TypeOK,
        At
  <2>3. entry' \in [Saves -> [Entries -> Extents]]
    BY <1>0, <1>3, KindsAre
    DEF VerifyUnreadable, MarkConflict, LeftBehind, Unlinked, Extents, States, Entries,
        TypeOK, At
  <2>4. save' \in [Saves -> Progress]
    BY <1>0, <1>3, KindsAre, ZenonT(30)
    DEF VerifyUnreadable, Goto, Return, Progress, Fingerprints, Fingerprint, Steps, Results,
        TypeOK, At
  <2>5. failures' \in 0 .. MaxFailures
    BY <1>3, PartsAre DEF VerifyUnreadable
  <2> QED
    BY <1>0, <2>1, <2>2, <2>3, <2>4, <2>5 DEF TypeOK
<1>4. CASE Unlink(p)
  <2>1. UNCHANGED <<content, folder, cleaner, externals, failures>>
    BY <1>4 DEF Unlink, disk, bounds
  <2>2. names' \in Naming
    BY <1>0, <1>4, KindsAre
    DEF Unlink, DropStage, KeepStage, SweptStages, UndisplacedBy, Naming, TypeOK, At
  <2>3. entry' \in [Saves -> [Entries -> Extents]]
    BY <1>0, <1>4, KindsAre
    DEF Unlink, MarkConflict, LeftBehind, Unlinked, Extents, States, Entries, TypeOK, At
  <2>4. save' \in [Saves -> Progress]
    BY <1>0, <1>4, RestIs, ZenonT(30) DEF Unlink, Progress, TypeOK
  <2> QED
    BY <1>0, <2>1, <2>2, <2>3, <2>4 DEF TypeOK
<1>5. CASE FinishCleanup(p)
  <2>1. UNCHANGED <<content, entry, cleaner, externals, failures>>
    BY <1>5 DEF FinishCleanup, disk, bounds
  <2>2. names' \in Naming
    BY <1>0, <1>5, KindsAre
    DEF FinishCleanup, DropStage, KeepStage, SweptStages, UndisplacedBy, Naming, TypeOK, At
  <2>3. folder' \in [Saves -> BOOLEAN]
    BY <1>0, <1>5, KindsAre DEF FinishCleanup, TypeOK, At
  <2>4. save' \in [Saves -> Progress]
    BY <1>0, <1>5, KindsAre, ZenonT(30)
    DEF FinishCleanup, Goto, Return, Progress, Fingerprints, Fingerprint, Steps, Results,
        TypeOK, At
  <2> QED
    BY <1>0, <2>1, <2>2, <2>3, <2>4 DEF TypeOK
<1>6. CASE CleanupStops(p)
  <2>1. UNCHANGED <<content, folder, entry, cleaner, externals, failures>>
    BY <1>6 DEF CleanupStops, disk, bounds
  <2>2. names' \in Naming
    BY <1>0, <1>6, KindsAre
    DEF CleanupStops, DropStage, KeepStage, SweptStages, UndisplacedBy, Naming, TypeOK, At
  <2>3. save' \in [Saves -> Progress]
    BY <1>0, <1>6, KindsAre, ZenonT(30)
    DEF CleanupStops, Goto, Return, Progress, Fingerprints, Fingerprint, Steps, Results,
        TypeOK, At
  <2> QED
    BY <1>0, <2>1, <2>2, <2>3 DEF TypeOK
<1>7. CASE RetryCleanup(p)
  <2>1. UNCHANGED <<names, content, folder, entry, cleaner, externals, failures>>
    BY <1>7 DEF RetryCleanup, disk, bounds
  <2>2. save' \in [Saves -> Progress]
    BY <1>0, <1>7, KindsAre, ZenonT(30)
    DEF RetryCleanup, Goto, Return, Progress, Fingerprints, Fingerprint, Steps, Results,
        TypeOK, At
  <2> QED
    BY <1>0, <2>1, <2>2 DEF TypeOK
<1>8. CASE FinishUndo(p)
  <2>1. UNCHANGED <<content, entry, cleaner, externals>>
    BY <1>8 DEF FinishUndo
  <2>2. names' \in Naming /\ failures' \in 0 .. MaxFailures
    BY <1>8, PartsAre DEF FinishUndo, TypeOK
  <2>3. folder' \in [Saves -> BOOLEAN]
    BY <1>0, <1>8, KindsAre DEF FinishUndo, TypeOK, At
  <2>4. save' \in [Saves -> Progress]
    BY <1>0, <1>8, KindsAre, ZenonT(30)
    DEF FinishUndo, Goto, Return, Progress, Fingerprints, Fingerprint, Steps, Results,
        TypeOK, At
  <2> QED
    BY <1>0, <2>1, <2>2, <2>3, <2>4 DEF TypeOK
<1> QED
  BY <1>1, <1>2, <1>3, <1>4, <1>5, <1>6, <1>7, <1>8 DEF Conclude

(* The steps of Disturb keep the types.                                  *)
LEMMA DisturbTypes ==
    ASSUME TypeOK, NEW p \in Saves, Disturb(p)
    PROVE  TypeOK'
<1>0. TypeOK /\ save[p] \in Progress
  BY DEF TypeOK
<1>1. CASE CancelStage(p)
  <2>1. UNCHANGED <<content, folder, entry, cleaner, externals, failures>>
    BY <1>1 DEF CancelStage, disk, bounds
  <2>2. names' \in Naming
    BY <1>0, <1>1, KindsAre
    DEF CancelStage, DropStage, KeepStage, SweptStages, UndisplacedBy, Naming, TypeOK, At
  <2>3. save' \in [Saves -> Progress]
    BY <1>0, <1>1, KindsAre, ZenonT(30)
    DEF CancelStage, Goto, Return, Progress, Fingerprints, Fingerprint, Steps, Results,
        TypeOK, At
  <2> QED
    BY <1>0, <2>1, <2>2, <2>3 DEF TypeOK
<1>2. CASE CancelPrepared(p)
  <2>1. UNCHANGED <<names, content, folder, cleaner, externals, failures>>
    BY <1>2 DEF CancelPrepared, disk, bounds
  <2>2. entry' \in [Saves -> [Entries -> Extents]]
    BY <1>0, <1>2, KindsAre
    DEF CancelPrepared, MarkConflict, LeftBehind, Unlinked, Extents, States, Entries,
        TypeOK, At
  <2>3. save' \in [Saves -> Progress]
    BY <1>0, <1>2, KindsAre, ZenonT(30)
    DEF CancelPrepared, Goto, Return, Progress, Fingerprints, Fingerprint, Steps, Results,
        TypeOK, At
  <2> QED
    BY <1>0, <2>1, <2>2, <2>3 DEF TypeOK
<1>3. CASE FailStage(p)
  <2>1. UNCHANGED <<content, folder, entry, cleaner, externals>>
    BY <1>3 DEF FailStage, disk, bounds
  <2>2. names' \in Naming
    BY <1>0, <1>3, KindsAre
    DEF FailStage, DropStage, KeepStage, SweptStages, UndisplacedBy, Naming, TypeOK, At
  <2>3. save' \in [Saves -> Progress]
    BY <1>0, <1>3, KindsAre, ZenonT(30)
    DEF FailStage, Goto, Return, Progress, Fingerprints, Fingerprint, Steps, Results,
        TypeOK, At
  <2>4. failures' \in 0 .. MaxFailures
    BY <1>3, PartsAre DEF FailStage
  <2> QED
    BY <1>0, <2>1, <2>2, <2>3, <2>4 DEF TypeOK
<1>4. CASE FailPrepare(p)
  <2>1. UNCHANGED <<names, content, folder, cleaner, externals>>
    BY <1>4 DEF FailPrepare, disk, bounds
  <2>2. entry' \in [Saves -> [Entries -> Extents]]
    BY <1>4, WritingIs DEF FailPrepare
  <2>3. save' \in [Saves -> Progress]
    <3>1. PICK r \in Results :
             save' = [save EXCEPT ![p].pc = "rollback", ![p].result = r, ![p].todo = RollbackOrder]
      BY <1>4 DEF FailPrepare, Results
    <3> QED
      BY <1>0, <3>1, KindsAre DEF TypeOK, Progress, Steps
  <2>4. failures' \in 0 .. MaxFailures
    BY <1>4, PartsAre DEF FailPrepare
  <2> QED
    BY <1>0, <2>1, <2>2, <2>3, <2>4 DEF TypeOK
<1>5. CASE CheckUnreadable(p)
  <2>1. UNCHANGED <<content, folder, cleaner, externals>>
    BY <1>5 DEF CheckUnreadable, disk, bounds
  <2>2. names' \in Naming
    BY <1>0, <1>5, KindsAre
    DEF CheckUnreadable, DropStage, KeepStage, SweptStages, UndisplacedBy, Naming, TypeOK,
        At
  <2>3. entry' \in [Saves -> [Entries -> Extents]]
    BY <1>0, <1>5, KindsAre
    DEF CheckUnreadable, MarkConflict, LeftBehind, Unlinked, Extents, States, Entries,
        TypeOK, At
  <2>4. save' \in [Saves -> Progress]
    BY <1>0, <1>5, KindsAre, ZenonT(30)
    DEF CheckUnreadable, Goto, Return, Progress, Fingerprints, Fingerprint, Steps, Results,
        TypeOK, At
  <2>5. failures' \in 0 .. MaxFailures
    BY <1>5, PartsAre DEF CheckUnreadable
  <2> QED
    BY <1>0, <2>1, <2>2, <2>3, <2>4, <2>5 DEF TypeOK
<1>6. CASE FailCommit(p)
  <2>1. UNCHANGED <<content, folder, cleaner, externals>>
    BY <1>6 DEF FailCommit, disk, bounds
  <2>2. names' \in Naming
    <3>1. Kept(p) \subseteq Naming
      BY PartsAre
    <3>2. \A kept \in Naming : [kept EXCEPT !.displaced[p] = CopyNode(p)] \in Naming
      BY KindsAre DEF Naming
    <3> QED
      BY <1>6, <3>1, <3>2 DEF FailCommit
  <2>3. entry' \in [Saves -> [Entries -> Extents]]
    BY <1>6, WritingIs DEF FailCommit
  <2>4. save' \in [Saves -> Progress]
    BY <1>0, <1>6, KindsAre, ZenonT(30)
    DEF FailCommit, Goto, Return, Progress, Fingerprints, Fingerprint, Steps, Results,
        TypeOK, At
  <2>5. failures' \in 0 .. MaxFailures
    BY <1>6, PartsAre DEF FailCommit
  <2> QED
    BY <1>0, <2>1, <2>2, <2>3, <2>4, <2>5 DEF TypeOK
<1>7. CASE FailCleanup(p)
  <2>1. UNCHANGED <<content, folder, cleaner, externals>>
    BY <1>7 DEF FailCleanup, disk, bounds
  <2>2. names' \in Naming
    BY <1>0, <1>7, KindsAre
    DEF FailCleanup, DropStage, KeepStage, SweptStages, UndisplacedBy, Naming, TypeOK, At
  <2>3. entry' \in [Saves -> [Entries -> Extents]]
    BY <1>7, WritingIs DEF FailCleanup
  <2>4. save' \in [Saves -> Progress]
    BY <1>0, <1>7, KindsAre, ZenonT(30)
    DEF FailCleanup, Goto, Return, Progress, Fingerprints, Fingerprint, Steps, Results,
        TypeOK, At
  <2>5. failures' \in 0 .. MaxFailures
    BY <1>7, PartsAre DEF FailCleanup
  <2> QED
    BY <1>0, <2>1, <2>2, <2>3, <2>4, <2>5 DEF TypeOK
<1>8. CASE FailUndo(p)
  <2>1. UNCHANGED <<names, content, folder, entry, cleaner, externals>>
    BY <1>8 DEF FailUndo, disk, bounds
  <2>2. save' \in [Saves -> Progress]
    BY <1>0, <1>8, RestIs, KindsAre, ZenonT(30) DEF FailUndo, Progress, TypeOK
  <2>3. failures' \in 0 .. MaxFailures
    BY <1>8, PartsAre DEF FailUndo
  <2> QED
    BY <1>0, <2>1, <2>2, <2>3 DEF TypeOK
<1>9. CASE Crash(p)
  <2>1. UNCHANGED <<folder, cleaner, externals, failures>>
    BY <1>9 DEF Crash, disk, bounds
  <2>2. names' \in Naming
    <3>1. names' = names \/ names' = [names EXCEPT !.displaced[p] = CopyNode(p)]
      BY <1>9 DEF Crash
    <3>2. names \in Naming
      BY DEF TypeOK
    <3>3. [names EXCEPT !.displaced[p] = CopyNode(p)] \in Naming
      BY <3>2, KindsAre DEF Naming
    <3> QED
      BY <3>1, <3>2, <3>3
  <2>3. content' \in [Nodes -> Contents]
    BY <1>0, <1>9, KindsAre DEF Crash, TypeOK, At
  <2>4. entry' \in [Saves -> [Entries -> Extents]]
    BY <1>9, WritingIs DEF Crash
  <2>5. save' \in [Saves -> Progress]
    BY <1>0, <1>9, KindsAre, ZenonT(30)
    DEF Crash, Goto, Return, Progress, Fingerprints, Fingerprint, Steps, Results, TypeOK, At
  <2> QED
    BY <1>0, <2>1, <2>2, <2>3, <2>4, <2>5 DEF TypeOK
<1>10. CASE Exit(p)
  <2>1. UNCHANGED <<names, content, folder, entry, cleaner, externals, failures>>
    BY <1>10 DEF Exit, disk, bounds
  <2>2. save' \in [Saves -> Progress]
    BY <1>0, <1>10, KindsAre, ZenonT(30)
    DEF Exit, Goto, Return, Progress, Fingerprints, Fingerprint, Steps, Results, TypeOK, At
  <2> QED
    BY <1>0, <2>1, <2>2 DEF TypeOK
<1> QED
  BY <1>1, <1>2, <1>3, <1>4, <1>5, <1>6, <1>7, <1>8, <1>9, <1>10 DEF Disturb

(* The steps of Recover keep the types.                                  *)
LEMMA RecoverTypes ==
    ASSUME TypeOK, NEW p \in Saves, Recover(p)
    PROVE  TypeOK'
<1>0. TypeOK /\ save[p] \in Progress
  BY DEF TypeOK
<1>1. CASE RetryResumed(p)
  <2>1. UNCHANGED <<names, content, folder, save, externals, failures>>
    BY <1>1 DEF RetryResumed, disk, bounds
  <2>2. entry' \in [Saves -> [Entries -> Extents]]
    BY <1>0, <1>1, KindsAre
    DEF RetryResumed, MarkConflict, LeftBehind, Unlinked, Extents, States, Entries, TypeOK,
        At
  <2>3. cleaner' \in [Saves -> [pc : {"idle", "listed", "unlink"}, todo : Todo]]
    BY <1>0, <1>1, KindsAre DEF RetryResumed, TypeOK, At
  <2> QED
    BY <1>0, <2>1, <2>2, <2>3 DEF TypeOK
<1>2. CASE ResumedUnlink(p)
  <2>1. UNCHANGED <<content, folder, save, externals, failures>>
    BY <1>2 DEF ResumedUnlink, disk, bounds
  <2>2. names' \in Naming
    BY <1>0, <1>2, KindsAre
    DEF ResumedUnlink, DropStage, KeepStage, SweptStages, UndisplacedBy, Naming, TypeOK, At
  <2>3. entry' \in [Saves -> [Entries -> Extents]]
    BY <1>0, <1>2, KindsAre
    DEF ResumedUnlink, MarkConflict, LeftBehind, Unlinked, Extents, States, Entries, TypeOK,
        At
  <2>4. cleaner' \in [Saves -> [pc : {"idle", "listed", "unlink"}, todo : Todo]]
    BY <1>0, <1>2, RestIs DEF ResumedUnlink, TypeOK
  <2> QED
    BY <1>0, <2>1, <2>2, <2>3, <2>4 DEF TypeOK
<1>3. CASE ResumedEnds(p)
  <2>1. UNCHANGED <<names, content, entry, save, externals, failures>>
    BY <1>3 DEF ResumedEnds, disk, bounds
  <2>2. folder' \in [Saves -> BOOLEAN]
    BY <1>0, <1>3, KindsAre DEF ResumedEnds, TypeOK, At
  <2>3. cleaner' \in [Saves -> [pc : {"idle", "listed", "unlink"}, todo : Todo]]
    BY <1>0, <1>3, KindsAre DEF ResumedEnds, TypeOK, At
  <2> QED
    BY <1>0, <2>1, <2>2, <2>3 DEF TypeOK
<1> QED
  BY <1>1, <1>2, <1>3 DEF Recover

(* The next start keeps the types.                                           *)
LEMMA InspectTypes ==
    ASSUME TypeOK, Inspect
    PROVE  TypeOK'
<1>1. UNCHANGED <<content, save, externals, failures>>
  BY DEF Inspect, bounds
<1>2. folder' \in [Saves -> BOOLEAN]
  BY DEF Inspect, TypeOK
<1>3. entry' \in [Saves -> [Entries -> Extents]]
  BY DEF Inspect, TypeOK, Extents
<1>4. names' \in Naming
  BY KindsAre DEF Inspect, TypeOK, Naming, SweptStages
<1>5. cleaner' \in [Saves -> [pc : {"idle", "listed", "unlink"}, todo : Todo]]
  BY KindsAre DEF Inspect, TypeOK
<1> QED
  BY <1>1, <1>2, <1>3, <1>4, <1>5 DEF TypeOK

(* So do the other programs.                                                 *)
LEMMA ForeignTypes ==
    ASSUME TypeOK, ForeignStep
    PROVE  TypeOK' /\ externals' = externals + 1 /\ externals' \in 1 .. MaxExternal
<1>1. externals' = externals + 1 /\ externals' \in 1 .. MaxExternal
  BY ConstantsAssumption
  DEF ConstantsAssumption, ForeignStep, ForeignReplace, ForeignWrite, ForeignDelete,
      MayDisturb, TypeOK
<1>2. ForeignNode(externals') \in Nodes /\ ForeignNode(externals') \in Places
      /\ Foreign(externals') \in Contents /\ NoNode \in Places
  BY <1>1, KindsAre
<1>3. names' \in Naming
  BY <1>2 DEF ForeignStep, ForeignReplace, ForeignWrite, ForeignDelete, TypeOK, Naming
<1>4. content' \in [Nodes -> Contents]
  BY <1>2 DEF ForeignStep, ForeignReplace, ForeignWrite, ForeignDelete, TypeOK
<1>5. UNCHANGED <<folder, entry, save, cleaner, failures>>
  BY DEF ForeignStep, ForeignReplace, ForeignWrite, ForeignDelete
<1> QED
  BY <1>1, <1>3, <1>4, <1>5 DEF TypeOK

(* A call that may fail is of the only save that is open.                    *)
LEMMA NotRacing ==
    ASSUME NEW p \in Saves, ~ At(p, "closed"), ~ Racing
    PROVE  \A q \in Saves \ {p} : At(q, "closed")
<1>1. SUFFICES ASSUME NEW q \in Saves, q # p, ~ At(q, "closed")
               PROVE  FALSE
  OBVIOUS
<1>2. DEFINE S == {r \in Saves : ~ At(r, "closed")}
<1>3. IsFiniteSet(S)
  BY ConstantsAssumption, FS_Subset DEF ConstantsAssumption
<1>4. {p, q} \subseteq S
  BY <1>1
<1>5. IsFiniteSet({p, q}) /\ Cardinality({p, q}) = 2
  <2>1. IsFiniteSet({p}) /\ Cardinality({p}) = 1
    BY FS_Singleton
  <2>2. {p, q} = {p} \cup {q} /\ q \notin {p}
    BY <1>1
  <2> QED
    BY <2>1, <2>2, FS_AddElement
<1>6. Cardinality({p, q}) <= Cardinality(S) /\ Cardinality(S) \in Nat
  BY <1>3, <1>4, FS_Subset, FS_CardinalityType
<1> QED
  BY <1>5, <1>6 DEF Racing

Ended == Closing \cup {"rollback", "abort", "done", "crashed"}

(* A step of p leaves what belongs to the other saves alone.                 *)
Same(q) ==
    /\ save'[q] = save[q] /\ entry'[q] = entry[q] /\ folder'[q] = folder[q]
    /\ cleaner'[q] = cleaner[q] /\ names'.stage[q] = names.stage[q]
    /\ names'.kept[q] = names.kept[q] /\ names'.displaced[q] = names.displaced[q]

(* Calls that fail.                                                          *)
Tries(p) ==
    /\ ~ At(p, "closed")
    /\ save[p].pc \in Ended => save'[p].pc \in Ended
    /\ failures' = failures \/ (MayFail /\ save'[p].pc \in Ended)

(* A step of p that gives no node another name and writes none.              *)
Quiet(p) ==
    /\ \A q \in Saves \ {p} : Same(q)
    /\ Tries(p)
    /\ names'.target = names.target
    /\ names'.stage[p] \in {names.stage[p], NoNode}
    /\ names'.displaced[p] \in {names.displaced[p], NoNode}
    /\ content' = content /\ externals' = externals
    /\ save'[p].approved = save[p].approved /\ save'[p].verified = save[p].verified
    /\ save'[p].strategy = save[p].strategy \/ At(p, "mkdir")
    /\ save'[p].pc \in {"published", "verify"} => save[p].pc \in {"published", "verify"}
    /\ save'[p].pc \in Unpublished => save[p].pc \in Unpublished
    /\ save'[p].pc \notin {"copied", "swapped", "closed"}
    /\ save[p].pc \in {"done", "crashed"} => save[p].verified /\ save'[p] = save[p]

(* Steps of Prepare that move nothing.                                   *)
LEMMA PreparingQuietly ==
    ASSUME TypeOK, NEW p \in Saves,
           RefuseDeleted(p) \/ CreateTransaction(p) \/ WriteRecord(p)
    PROVE  Quiet(p)
<1>1. CASE RefuseDeleted(p)
  BY <1>1
  DEF RefuseDeleted, Return, disk, bounds, Quiet, Same, Tries, Ended, Closing, Unpublished,
      PreStage, Hiding, At, TypeOK, Naming, Progress
<1>2. CASE CreateTransaction(p)
  <2>1. PICK s \in Strategies : save' = [save EXCEPT ![p].pc = "manifest", ![p].strategy = s]
    BY <1>2 DEF CreateTransaction
  <2>2. save' = [save EXCEPT ![p] = [save[p] EXCEPT !.pc = "manifest", !.strategy = s]]
    BY <2>1 DEF TypeOK
  <2>3. /\ save'[p].pc = "manifest" /\ save'[p].approved = save[p].approved
        /\ save'[p].verified = save[p].verified
        /\ \A q \in Saves \ {p} : save'[q] = save[q]
    BY <2>2 DEF TypeOK, Progress
  <2> QED
    BY <1>2, <2>3
    DEF CreateTransaction, bounds, Quiet, Same, Tries, Ended, Closing, Unpublished,
        PreStage, Hiding, At, TypeOK, Naming, Progress
<1>3. CASE WriteRecord(p)
  <2>1. /\ save'[p].pc = AfterWriting(p) /\ save'[p].approved = save[p].approved
        /\ save'[p].verified = save[p].verified /\ save'[p].strategy = save[p].strategy
        /\ \A q \in Saves \ {p} : save'[q] = save[q]
    BY <1>3 DEF WriteRecord, TypeOK, Progress
  <2>2. /\ UNCHANGED <<names, content, folder, cleaner, externals, failures>>
        /\ \A q \in Saves \ {p} : entry'[q] = entry[q]
    BY <1>3 DEF WriteRecord, bounds, TypeOK
  <2>3. \/ /\ save[p].pc \in {"manifest", "editor", "precommit"}
           /\ AfterWriting(p) \in {"editor", "precommit", "prepared"}
        \/ save[p].pc = "published" /\ AfterWriting(p) = "verify"
        \/ save[p].pc \in {"authority", "pending"} /\ AfterWriting(p) \in {"pending", "unlink"}
    BY <1>3 DEF WriteRecord, WritingSteps, AfterWriting, At
  <2> QED
    BY <2>1, <2>2, <2>3
    DEF Quiet, Same, Tries, Ended, Closing, Unpublished, PreStage, Hiding, At
<1> QED
  BY <1>1, <1>2, <1>3

(* Steps of Commit that move nothing.                                    *)
LEMMA CommittingQuietly ==
    ASSUME TypeOK, NEW p \in Saves,
           CheckUnchanged(p) \/ CheckDeleted(p) \/ CheckChanged(p) \/ CreateCollides(p)
           \/ CommitFindsNoTarget(p)
    PROVE  Quiet(p)
<1>1. CASE CheckUnchanged(p)
  BY <1>1
  DEF CheckUnchanged, Goto, disk, bounds, Quiet, Same, Tries, Ended, Closing, Unpublished,
      PreStage, Hiding, At, TypeOK, Naming, Progress
<1>2. CASE CheckDeleted(p)
  BY <1>2
  DEF CheckDeleted, disk, bounds, Quiet, Same, Tries, Ended, Closing, Unpublished, PreStage,
      Hiding, At, TypeOK, Naming, Progress
<1>3. CASE CheckChanged(p)
  BY <1>3
  DEF CheckChanged, Return, DropStage, MarkConflict, Quiet, Same, Tries, Ended, Closing,
      Unpublished, PreStage, Hiding, At, TypeOK, Naming, Progress
<1>4. CASE CreateCollides(p)
  BY <1>4
  DEF CreateCollides, Return, DropStage, MarkConflict, Quiet, Same, Tries, Ended, Closing,
      Unpublished, PreStage, Hiding, At, TypeOK, Naming, Progress
<1>5. CASE CommitFindsNoTarget(p)
  <2>1. names' \in Kept(p) /\ (failures' = failures \/ MayFail)
    BY <1>5, ReportIs DEF CommitFindsNoTarget
  <2> QED
    BY <1>5, <2>1, KeptIs
    DEF CommitFindsNoTarget, Return, Quiet, Same, Tries, Ended, Closing, Unpublished,
        PreStage, Hiding, At, TypeOK, Progress
<1> QED
  BY <1>1, <1>2, <1>3, <1>4, <1>5

(* Steps of Conclude that move nothing.                                  *)
LEMMA ConcludingQuietly ==
    ASSUME TypeOK, NEW p \in Saves,
           VerifyBad(p) \/ VerifyUnreadable(p) \/ Unlink(p) \/ FinishCleanup(p)
           \/ CleanupStops(p) \/ RetryCleanup(p) \/ FinishUndo(p)
    PROVE  Quiet(p)
<1>1. CASE VerifyBad(p)
  BY <1>1
  DEF VerifyBad, Return, DropStage, MarkConflict, Quiet, Same, Tries, Ended, Closing,
      Unpublished, PreStage, Hiding, At, TypeOK, Naming, Progress
<1>2. CASE VerifyUnreadable(p)
  BY <1>2
  DEF VerifyUnreadable, Return, DropStage, Quiet, Same, Tries, Ended, Closing, Unpublished,
      PreStage, Hiding, At, TypeOK, Naming, Progress
<1>3. CASE Unlink(p)
  BY <1>3
  DEF Unlink, Unlinked, UndisplacedBy, bounds, Quiet, Same, Tries, Ended, Closing,
      Unpublished, PreStage, Hiding, At, TypeOK, Naming, Progress
<1>4. CASE FinishCleanup(p)
  BY <1>4
  DEF FinishCleanup, Return, DropStage, bounds, Quiet, Same, Tries, Ended, Closing,
      Unpublished, PreStage, Hiding, At, TypeOK, Naming, Progress
<1>5. CASE CleanupStops(p)
  BY <1>5
  DEF CleanupStops, DropStage, bounds, Quiet, Same, Tries, Ended, Closing, Unpublished,
      PreStage, Hiding, At, TypeOK, Naming, Progress
<1>6. CASE RetryCleanup(p)
  BY <1>6
  DEF RetryCleanup, Goto, disk, bounds, Quiet, Same, Tries, Ended, Closing, Unpublished,
      PreStage, Hiding, At, TypeOK, Naming, Progress
<1>7. CASE FinishUndo(p)
  <2>1. CASE save[p].result = "commit_failure"
    <3>1. names' \in Kept(p) /\ (failures' = failures \/ MayFail)
      BY <1>7, <2>1, ReportIs DEF FinishUndo
    <3> QED
      BY <1>7, <3>1, KeptIs
      DEF FinishUndo, Goto, Quiet, Same, Tries, Ended, Closing, Unpublished, PreStage,
          Hiding, At, TypeOK, Progress
  <2>2. CASE save[p].result # "commit_failure"
    <3>1. names' = DropStage(p) /\ failures' = failures
      BY <1>7, <2>2 DEF FinishUndo
    <3>2. /\ names'.target = names.target /\ names'.kept = names.kept
          /\ names'.displaced = names.displaced /\ names'.stage[p] = NoNode
          /\ \A q \in Saves \ {p} : names'.stage[q] = names.stage[q]
      BY <3>1 DEF DropStage, TypeOK, Naming
    <3> QED
      BY <1>7, <3>1, <3>2
      DEF FinishUndo, Goto, Quiet, Same, Tries, Ended, Closing, Unpublished, PreStage,
          Hiding, At, TypeOK, Progress
  <2> QED
    BY <2>1, <2>2
<1> QED
  BY <1>1, <1>2, <1>3, <1>4, <1>5, <1>6, <1>7

(* Steps of Disturb that move nothing.                                   *)
LEMMA DisturbingQuietly ==
    ASSUME TypeOK, NEW p \in Saves,
           CancelStage(p) \/ CancelPrepared(p) \/ FailStage(p) \/ FailPrepare(p)
           \/ CheckUnreadable(p) \/ FailCleanup(p) \/ FailUndo(p)
    PROVE  Quiet(p)
<1>1. CASE CancelStage(p)
  BY <1>1
  DEF CancelStage, Return, DropStage, bounds, Quiet, Same, Tries, Ended, Closing,
      Unpublished, PreStage, Hiding, At, TypeOK, Naming, Progress
<1>2. CASE CancelPrepared(p)
  BY <1>2
  DEF CancelPrepared, bounds, Quiet, Same, Tries, Ended, Closing, Unpublished, PreStage,
      Hiding, At, TypeOK, Naming, Progress
<1>3. CASE FailStage(p)
  BY <1>3
  DEF FailStage, Return, DropStage, Quiet, Same, Tries, Ended, Closing, Unpublished,
      PreStage, Hiding, At, TypeOK, Naming, Progress
<1>4. CASE FailPrepare(p)
  BY <1>4
  DEF FailPrepare, LeftBehind, Quiet, Same, Tries, Ended, Closing, Unpublished, PreStage,
      Hiding, At, TypeOK, Naming, Progress
<1>5. CASE CheckUnreadable(p)
  BY <1>5
  DEF CheckUnreadable, Return, DropStage, Quiet, Same, Tries, Ended, Closing, Unpublished,
      PreStage, Hiding, At, TypeOK, Naming, Progress
<1>6. CASE FailCleanup(p)
  BY <1>6
  DEF FailCleanup, DropStage, LeftBehind, Quiet, Same, Tries, Ended, Closing, Unpublished,
      PreStage, Hiding, At, TypeOK, Naming, Progress
<1>7. CASE FailUndo(p)
  BY <1>7
  DEF FailUndo, disk, Quiet, Same, Tries, Ended, Closing, Unpublished, PreStage, Hiding, At,
      TypeOK, Naming, Progress
<1> QED
  BY <1>1, <1>2, <1>3, <1>4, <1>5, <1>6, <1>7

(* So are the steps of a later process.                                      *)
LEMMA RecoveringQuietly ==
    ASSUME TypeOK, NEW p \in Saves, RecordInv(p), Recover(p)
    PROVE  Quiet(p) /\ save' = save /\ save[p].verified
<1>1. save[p].verified /\ save[p].pc \in Closing \cup {"done", "crashed"}
  BY DEF Recover, RetryResumed, ResumedUnlink, ResumedEnds, RecordInv
<1>2. CASE RetryResumed(p)
  BY <1>1, <1>2
  DEF RetryResumed, bounds, Quiet, Same, Tries, Ended, Closing, Unpublished, PreStage,
      Hiding, At, TypeOK, Naming, Progress
<1>3. CASE ResumedUnlink(p)
  BY <1>1, <1>3
  DEF ResumedUnlink, Unlinked, UndisplacedBy, bounds, Quiet, Same, Tries, Ended, Closing,
      Unpublished, PreStage, Hiding, At, TypeOK, Naming, Progress
<1>4. CASE ResumedEnds(p)
  BY <1>1, <1>4
  DEF ResumedEnds, bounds, Quiet, Same, Tries, Ended, Closing, Unpublished, PreStage,
      Hiding, At, TypeOK, Naming, Progress
<1> QED
  BY <1>1, <1>2, <1>3, <1>4 DEF Recover, RetryResumed, ResumedUnlink, ResumedEnds

(* And a crash, a failure or a rename that did not happen, if nothing moves. *)
LEMMA EndingQuietly ==
    ASSUME TypeOK, NEW p \in Saves,
           \/ Crash(p) /\ UNCHANGED <<names, content>>
           \/ FailCommit(p) /\ names' \in Kept(p)
           \/ SwapBack(p) /\ names' \in Kept(p)
           \/ PutBack(p) /\ names' \in Kept(p)
    PROVE  Quiet(p)
<1>1. CASE Crash(p) /\ UNCHANGED <<names, content>>
  BY <1>1
  DEF Crash, Goto, LeftBehind, bounds, Quiet, Same, Tries, Ended, Closing, Unpublished,
      PreStage, Hiding, At, TypeOK, Naming, Progress
<1>2. CASE FailCommit(p) /\ names' \in Kept(p)
  BY <1>2, KeptIs
  DEF FailCommit, Return, LeftBehind, Quiet, Same, Tries, Ended, Closing, Unpublished,
      PreStage, Hiding, At, TypeOK, Progress
<1>3. CASE SwapBack(p) /\ names' \in Kept(p)
  BY <1>3, KeptIs
  DEF SwapBack, Return, Quiet, Same, Tries, Ended, Closing, Unpublished, PreStage, Hiding,
      At, TypeOK, Progress
<1>4. CASE PutBack(p) /\ names' \in Kept(p)
  <2>1. failures' = failures \/ MayFail
    BY <1>4, ReportIs DEF PutBack
  <2>2. /\ At(p, "aside") /\ Return(p, "commit_failure")
        /\ UNCHANGED <<content, folder, entry, cleaner, externals>>
    BY <1>4 DEF PutBack
  <2> QED
    BY <1>4, <2>1, <2>2, KeptIs
    DEF Return, Quiet, Same, Tries, Ended, Closing, Unpublished, PreStage, Hiding,
        At, TypeOK, Progress
<1> QED
  BY <1>1, <1>2, <1>3, <1>4

(* No two nodes and no two versions are taken for one another.               *)
LEMMA Apart ==
    /\ \A p, q \in Saves : /\ StageNode(p) # NoNode /\ CopyNode(p) # NoNode
                           /\ StageNode(p) # CopyNode(q)
                           /\ p # q => StageNode(p) # StageNode(q) /\ CopyNode(p) # CopyNode(q)
                           /\ Edited(p) # Torn
                           /\ p # q => Edited(p) # Edited(q)
    /\ \A k \in Nat : /\ ForeignNode(k) # NoNode /\ Foreign(k) # Torn
                      /\ \A p \in Saves : /\ ForeignNode(k) # StageNode(p)
                                          /\ ForeignNode(k) # CopyNode(p)
                                          /\ Foreign(k) # Edited(p)
                      /\ \A j \in Nat : j # k => /\ ForeignNode(j) # ForeignNode(k)
                                                 /\ Foreign(j) # Foreign(k)
    /\ Torn \notin Published
    /\ \A p \in Saves : Edited(p) \in Published <=> save[p].verified
BY DEF StageNode, CopyNode, NoNode, ForeignNode, Edited, Foreign, Torn, Original, Published

(* Every file has an identity.                                               *)
LEMMA NodesAre == \A n \in Nodes : n # NoNode
BY DEF Nodes, NoNode, BaseNode, StageNode, CopyNode, ForeignNode

(* What one save leaves behind for another.                                  *)
Own(p) == StageInv(p) /\ DisplacedInv(p) /\ RecordInv(p) /\ CleanupInv(p)

(* A step that leaves a save's own state, names and entries, and keeps its   *)
(* stage hidden, keeps what IInv says of that save.                          *)
LEMMA OthersKeep ==
    ASSUME TypeOK, TypeOK', NEW q \in Saves, Own(q),
           save'[q] = save[q], entry'[q] = entry[q], folder'[q] = folder[q],
           cleaner'[q] = cleaner[q], names'.kept[q] = names.kept[q],
           names'.displaced[q] = names.displaced[q],
           names'.stage[q] = names.stage[q] \/ Dead(q),
           Hidden(q) => Hidden(q)' /\ content'[StageNode(q)] = content[StageNode(q)]
    PROVE  Own(q)'
<1>1. StageInv(q)'
  BY DEF Own, StageInv, At, Dead, PreStage, Hiding, Closing
<1>2. DisplacedInv(q)'
  BY DEF Own, DisplacedInv, InPlace, Replacing, At
<1>3. RecordInv(q)'
  <2>1. At(q, "done") /\ KeepsEdits(q) => KeepsEdits(q)'
    BY DEF KeepsEdits, Dead, At
  <2> QED
    BY <2>1 DEF Own, RecordInv, NothingBut, Prepared, Unrecorded, Recorded, Replacing, At
<1>4. CleanupInv(q)'
  BY DEF Own, CleanupInv, Remains, Recorded, Unlinking, Replacing, At
<1> QED
  BY <1>1, <1>2, <1>3, <1>4 DEF Own

(* A save that tries and fails is alone.                                     *)
LEMMA FailureKeeps ==
    ASSUME TypeOK, FailureInv, NEW p \in Saves, Tries(p),
           \A q \in Saves \ {p} : save'[q] = save[q]
    PROVE  FailureInv'
<1>1. SUFFICES ASSUME failures' # 0
               PROVE  \E r \in Saves : /\ save'[r].pc \in Ended
                                       /\ \A q \in Saves \ {r} : At(q, "closed")'
  BY DEF FailureInv, Ended
<1>2. CASE failures' = failures
  <2>1. PICK r \in Saves : save[r].pc \in Ended /\ \A q \in Saves \ {r} : At(q, "closed")
    BY <1>1, <1>2 DEF FailureInv, Ended
  <2>2. r = p
    BY <2>1 DEF Tries
  <2> QED
    BY <2>1, <2>2 DEF Tries, At
<1>3. CASE MayFail /\ save'[p].pc \in Ended
  BY <1>3, NotRacing DEF MayFail, Tries, At
<1> QED
  BY <1>2, <1>3 DEF Tries

(* While a call has failed, only a save on its way out is open.              *)
LEMMA FailedAlone ==
    ASSUME FailureInv, NEW p \in Saves, failures # 0, ~ At(p, "closed")
    PROVE  save[p].pc \in Ended /\ \A q \in Saves \ {p} : At(q, "closed")
BY DEF FailureInv, Ended, At

(* A step of p that writes no file and gives a public name to no file but,    *)
(* at its commit, p's own stage.                                             *)
Spread(p) ==
    /\ \A q \in Saves \ {p} : /\ save'[q] = save[q] /\ entry'[q] = entry[q]
                              /\ folder'[q] = folder[q]
                              /\ names'.displaced[q] = names.displaced[q]
    /\ Tries(p)
    /\ \A n \in Nodes : Public(n)' =>
          \/ Public(n)
          \/ /\ n = StageNode(p) /\ content[n] = Edited(p)
             /\ save[p].pc \in Unpublished /\ save'[p].pc \notin Unpublished
    /\ content' = content /\ externals' = externals
    /\ save'[p].approved = save[p].approved
    /\ save'[p].pc # "copied"
    /\ save'[p].pc \in Unpublished => save[p].pc \in Unpublished
    /\ InPlace(p)' /\ save'[p].pc \in {"published", "verify"} =>
          InPlace(p) /\ save[p].pc \in {"published", "verify"}
    /\ save[p].pc \in {"done", "crashed"} => save[p].verified /\ save'[p].verified

(* Such a step brings no version to a second home, and none back.            *)
LEMMA SpreadKeeps ==
    ASSUME TypeOK, TypeOK', NEW p \in Saves, Spread(p), FreshInv, HomeInv, TornInv, FailureInv
    PROVE  FreshInv' /\ HomeInv' /\ TornInv' /\ FailureInv'
<1>1. /\ \A q \in Saves : save'[q].approved = save[q].approved
      /\ \A q \in Saves : save'[q].pc \in Unpublished => save[q].pc \in Unpublished
      /\ \A q \in Saves : At(q, "copied")' => q # p /\ At(q, "copied") /\ save'[q].fd = save[q].fd
      /\ \A q \in Saves : InPlace(q)' /\ save'[q].pc \in {"published", "verify"} =>
                              InPlace(q) /\ save[q].pc \in {"published", "verify"}
  BY DEF Spread, At, InPlace, Replacing
<1>2. failures' = 0 => failures = 0
  BY DEF Spread, Tries, MayFail, TypeOK
<1>3. /\ \A n \in Nodes : content'[n] = content[n]
      /\ \A n \in Nodes : Public(n)' =>
            \/ Public(n)
            \/ /\ n = StageNode(p) /\ content[n] = Edited(p)
               /\ save[p].pc \in Unpublished /\ save'[p].pc \notin Unpublished
  BY DEF Spread
<1>4. FreshInv'
  <2>1. \A v : Unseen(v) => Unseen(v)'
    BY <1>1 DEF Unseen
  <2>2. ASSUME failures = 0, NEW v, Nowhere(v), v # Edited(p) \/ save'[p].pc \in Unpublished
        PROVE  Nowhere(v)'
    BY <2>2, <1>3 DEF Nowhere
  <2>3. ASSUME failures' = 0, NEW q \in Saves, save'[q].pc \in Unpublished
        PROVE  Nowhere(Edited(q))'
    BY <2>2, <2>3, <1>1, <1>2, Apart DEF FreshInv
  <2>4. ASSUME failures' = 0, NEW k \in externals + 1 .. MaxExternal
        PROVE  Nowhere(Foreign(k))'
    <3>1. k \in Nat
      BY ConstantsAssumption DEF ConstantsAssumption, TypeOK
    <3> QED
      BY <2>2, <2>4, <3>1, <1>2, Apart DEF FreshInv
  <2> QED
    BY <2>1, <2>3, <2>4, <1>1 DEF FreshInv, Spread
<1>5. HomeInv'
  <2>1. SUFFICES ASSUME failures = 0
                 PROVE  HomeInv'
    BY <1>2 DEF HomeInv
  <2>2. save[p].pc \in Unpublished => Nowhere(Edited(p)) /\ Unseen(Edited(p))
    BY <2>1 DEF FreshInv
  <2>3. ASSUME NEW v, NEW n \in Places, OnlyAt(v, n), v # Edited(p) \/ save[p].pc \notin Unpublished
        PROVE  OnlyAt(v, n)'
    BY <2>3, <1>3 DEF OnlyAt
  <2>4. ASSUME NEW m \in Nodes, Public(m)', content'[m] # Torn
        PROVE  OnlyAt(content[m], m)'
    <3>1. CASE content[m] # Edited(p) \/ save[p].pc \notin Unpublished
      BY <3>1, <2>1, <2>3, <2>4, <1>3, KindsAre DEF HomeInv
    <3>2. CASE content[m] = Edited(p) /\ save[p].pc \in Unpublished
      BY <3>2, <2>2, <2>4, <1>3 DEF OnlyAt, Nowhere
    <3> QED
      BY <3>1, <3>2
  <2>5. ASSUME NEW q \in Saves, NEW a, a = save[q].approved, a.version # Torn
        PROVE  OnlyAt(a.version, a.node)'
    <3>1. a.node \in Places /\ (save[p].pc \in Unpublished => a.version # Edited(p))
      BY <2>2, <2>5 DEF Unseen, TypeOK, Progress, Fingerprints
    <3>2. OnlyAt(a.version, a.node)
      BY <2>1, <2>5 DEF HomeInv
    <3> QED
      BY <3>1, <3>2, <2>3
  <2>6. ASSUME NEW q \in Saves, NEW a, a = save[q].approved, a.version # Torn, InPlace(q)',
               save'[q].pc \in {"published", "verify"}, content'[CopyNode(q)] = a.version
        PROVE  OnlyAt(Edited(q), a.node)'
    <3>1. /\ InPlace(q) /\ save[q].pc \in {"published", "verify"}
          /\ content[CopyNode(q)] = a.version
      BY <2>6, <1>1, <1>3, KindsAre
    <3>2. OnlyAt(Edited(q), a.node) /\ a.node \in Places
      BY <3>1, <2>1, <2>6 DEF HomeInv, TypeOK, Progress, Fingerprints
    <3>3. q = p => save[p].pc \notin Unpublished
      BY <3>1 DEF Unpublished, PreStage, Hiding
    <3> QED
      BY <3>2, <3>3, <2>3, Apart
  <2>7. ASSUME NEW q \in Saves, save[q].approved.version # Torn, At(q, "copied")'
        PROVE  /\ content'[save'[q].fd] = save[q].approved.version =>
                     content'[CopyNode(q)] = save[q].approved.version
               /\ content'[CopyNode(q)] = save[q].approved.version =>
                     save'[q].fd = save[q].approved.node
    BY <2>1, <2>7, <1>1, KindsAre DEF HomeInv, Spread
  <2> QED
    BY <2>4, <2>5, <2>6, <2>7, <1>1, <1>3 DEF HomeInv
<1>6. TornInv'
  <2>1. SUFFICES ASSUME \/ \E n \in Nodes : Public(n)' /\ content'[n] = Torn
                        \/ \E q \in Saves : At(q, "copied")' /\ content'[CopyNode(q)] = Torn
                 PROVE  \E r \in Saves : Recoverable(r)'
    BY DEF TornInv
  <2>2. PICK r \in Saves : Recoverable(r)
    BY <2>1, <1>1, <1>3, Apart, KindsAre DEF TornInv
  <2>3. r # p
    BY <2>2 DEF Recoverable, Spread
  <2>4. Recoverable(r)'
    BY <2>2, <2>3 DEF Spread, Recoverable, Prepared, Unrecorded
  <2> QED
    BY <2>4
<1>7. FailureInv'
  BY FailureKeeps DEF Spread
<1> QED
  BY <1>4, <1>5, <1>6, <1>7

(* A quiet step spreads nothing and disturbs no other save.                  *)
LEMMA QuietIsSpread ==
    ASSUME TypeOK, TypeOK', NEW p \in Saves, Quiet(p)
    PROVE  Spread(p)
<1>1. \A n \in Nodes : Public(n)' => Public(n)
  <2>1. ASSUME NEW n \in Nodes, Public(n)'
        PROVE  Public(n)
    <3>1. CASE n = names'.target
      BY <3>1, <2>1 DEF Quiet, Public
    <3>2. CASE \E q \in Saves : At(q, "swapped")' /\ n = names'.stage[q]
      BY <3>2, <2>1 DEF Quiet, Same, Public, At
    <3>3. CASE \E q \in Saves : n = names'.displaced[q] /\ n # CopyNode(q)
      BY <3>3, <2>1 DEF Quiet, Same, Public, At
    <3>4. CASE \E q \in Saves : At(q, "copied")' /\ n = save'[q].fd
      BY <3>4, <2>1 DEF Quiet, Same, Public, At
    <3> QED
      BY <2>1, <3>1, <3>2, <3>3, <3>4 DEF Public
  <2> QED
    BY <2>1
<1>2. InPlace(p)' /\ save'[p].pc \in {"published", "verify"} =>
          InPlace(p) /\ save[p].pc \in {"published", "verify"}
  BY DEF Quiet, InPlace, Replacing, At
<1> QED
  BY <1>1, <1>2 DEF Quiet, Same, Spread

(* A quiet step keeps all that IInv says of the folder and of other saves.   *)
LEMMA QuietKeeps ==
    ASSUME IInv, TypeOK', NEW p \in Saves, Quiet(p)
    PROVE  /\ NodeInv' /\ FailureInv' /\ FreshInv' /\ HomeInv' /\ SpentInv' /\ TornInv'
           /\ \A q \in Saves \ {p} : Own(q)'
<1>0. TypeOK /\ NodeInv /\ SpentInv /\ Own(p)
  BY DEF IInv, Own
<1>1. FreshInv' /\ HomeInv' /\ TornInv' /\ FailureInv'
  BY SpreadKeeps, QuietIsSpread DEF IInv
<1>2. /\ names'.target = names.target /\ externals' = externals
      /\ \A q \in Saves : /\ names'.stage[q] \in {names.stage[q], NoNode}
                          /\ names'.displaced[q] \in {names.displaced[q], NoNode}
                          /\ save'[q].approved = save[q].approved
                          /\ save'[q].verified = save[q].verified
                          /\ At(q, "copied")' => At(q, "copied") /\ save'[q].fd = save[q].fd
      /\ \A q \in Saves \ {p} : Same(q)
  BY DEF Quiet, Same, At
<1>3. \A n \in Nodes : Elsewhere(n) => Elsewhere(n)'
  BY <1>2, NodesAre DEF Elsewhere
<1>4. NodeInv'
  <2>1. \A k \in externals + 1 .. MaxExternal : ForeignNode(k) \in Nodes /\ ForeignNode(k) # NoNode
    BY <1>0, KindsAre, Apart, ConstantsAssumption DEF ConstantsAssumption, TypeOK
  <2> QED
    BY <2>1, <1>0, <1>2, <1>3, KindsAre, Apart DEF NodeInv
<1>5. SpentInv'
  <2>1. Published' = Published
    BY <1>2 DEF Published
  <2>2. ASSUME NEW q \in Saves, save[q].verified
        PROVE  /\ InPlace(q)' = InPlace(q)
               /\ save[q].approved.version # Torn => save[q].approved.node \in Nodes
    <3>1. save'[q].strategy = save[q].strategy
      BY <2>2, <1>0, <1>2 DEF Same, Quiet, Own, RecordInv, At, Closing
    <3>2. save[q].approved.version # Torn => Replacing(q)
      BY <1>0 DEF Own, IInv, DisplacedInv
    <3> QED
      BY <3>1, <3>2, <1>0, <1>2
      DEF InPlace, Replacing, TypeOK, Progress, Fingerprints, Places
  <2>3. content' = content
    BY DEF Quiet
  <2> QED
    BY <2>1, <2>2, <2>3, NodesAre, <1>0, <1>2, Apart DEF SpentInv
<1>6. ASSUME NEW q \in Saves \ {p}
      PROVE  Own(q)'
  <2>1. Hidden(q) => Hidden(q)'
    BY <1>2, Apart DEF Hidden
  <2>2. content' = content /\ Own(q) /\ Same(q)
    BY <1>2 DEF Quiet, IInv, Own
  <2> QED
    BY <2>1, <2>2, <1>0, OthersKeep DEF Same
<1> QED
  BY <1>1, <1>4, <1>5, <1>6

(* An order taken from its head: what it still has, and what goes first.     *)
LEMMA OrderKeeps ==
    ASSUME NEW t \in Todo, t # <<>>
    PROVE  /\ \A x : (\E i \in DOMAIN t : t[i] = x) =>
                        Head(t) = x \/ \E i \in DOMAIN Tail(t) : Tail(t)[i] = x
           /\ \A x : (\A i \in DOMAIN t : t[i] # x) => \A i \in DOMAIN Tail(t) : Tail(t)[i] # x
           /\ (\A i \in DOMAIN t : t[i] # "displaced") => Head(t) # "displaced"
           /\ VersionsFirst(t) => VersionsFirst(Tail(t))
           /\ VersionsFirst(t) /\ Head(t) \notin Vital => \A i \in DOMAIN t : t[i] \notin Vital
<1> DEFINE u == Tail(t)
<1>1. /\ Len(t) \in Nat /\ Len(t) >= 1 /\ DOMAIN t = 1 .. Len(t)
      /\ DOMAIN u = 1 .. Len(t) - 1 /\ \A i \in 1 .. Len(t) - 1 : u[i] = t[i + 1]
      /\ Head(t) = t[1]
  BY DEF Todo
<1> HIDE DEF u
<1>2. ASSUME NEW x, NEW i \in DOMAIN t, t[i] = x, Head(t) # x
      PROVE  \E j \in DOMAIN u : u[j] = x
  <2>1. i - 1 \in DOMAIN u /\ u[i - 1] = x
    BY <1>1, <1>2
  <2> QED
    BY <2>1
<1>3. ASSUME NEW x, \A i \in DOMAIN t : t[i] # x
      PROVE  \A i \in DOMAIN u : u[i] # x
  BY <1>1, <1>3
<1>4. ASSUME VersionsFirst(t), NEW i \in DOMAIN u, u[i] \in Vital, NEW j \in 1 .. i
      PROVE  u[j] \in Vital
  <2>1. i + 1 \in DOMAIN t /\ t[i + 1] \in Vital /\ j + 1 \in 1 .. i + 1
    BY <1>1, <1>4
  <2>2. t[j + 1] \in Vital
    BY <2>1, <1>4 DEF VersionsFirst
  <2> QED
    BY <2>2, <1>1, <1>4
<1>5. ASSUME VersionsFirst(t), Head(t) \notin Vital, NEW i \in DOMAIN t, t[i] \in Vital
      PROVE  FALSE
  <2>1. 1 \in 1 .. i
    BY <1>1, <1>5
  <2> QED
    BY <2>1, <1>1, <1>5 DEF VersionsFirst
<1>6. (\A i \in DOMAIN t : t[i] # "displaced") => Head(t) # "displaced"
  BY <1>1
<1>7. VersionsFirst(t) => VersionsFirst(u)
  BY <1>4 DEF VersionsFirst
<1> QED
  BY <1>2, <1>3, <1>5, <1>6, <1>7 DEF u

(* The orders: cleanup's take the versions first, an undo's leave what was    *)
(* displaced.                                                                *)
LEMMA OrdersAre ==
    /\ \A t \in {CleanupOrder, ResumedOrder} :
          /\ VersionsFirst(t)
          /\ (\E i \in DOMAIN t : t[i] = "editor") /\ \E i \in DOMAIN t : t[i] = "displaced"
    /\ \A t \in {AbortOrder, RollbackOrder, <<>>} : \A i \in DOMAIN t : t[i] # "displaced"
<1>1. ASSUME NEW t \in {CleanupOrder, ResumedOrder}
      PROVE  /\ VersionsFirst(t)
             /\ (\E i \in DOMAIN t : t[i] = "editor") /\ \E i \in DOMAIN t : t[i] = "displaced"
  <2>1. DOMAIN t = 1 .. 9 /\ t[1] \in Vital /\ t[2] \in Vital /\ \A i \in 3 .. 9 : t[i] \notin Vital
    BY <1>1 DEF CleanupOrder, ResumedOrder, Vital
  <2>2. \/ t[1] = "editor" /\ t[2] = "displaced"
        \/ t[1] = "displaced" /\ t[2] = "editor"
    <3>1. t = CleanupOrder => t[1] = "editor" /\ t[2] = "displaced"
      BY DEF CleanupOrder
    <3>2. t = ResumedOrder => t[1] = "displaced" /\ t[2] = "editor"
      BY DEF ResumedOrder
    <3>3. t = CleanupOrder \/ t = ResumedOrder
      BY <1>1
    <3> QED
      BY <3>1, <3>2, <3>3
  <2>3. VersionsFirst(t)
    BY <2>1 DEF VersionsFirst
  <2>4. 1 \in DOMAIN t /\ 2 \in DOMAIN t
    BY <2>1
  <2> QED
    BY <2>2, <2>3, <2>4
<1>2. ASSUME NEW t \in {AbortOrder, RollbackOrder, <<>>}
      PROVE  \A i \in DOMAIN t : t[i] # "displaced"
  BY <1>2 DEF AbortOrder, RollbackOrder
<1> QED
  BY <1>1, <1>2

(* Removing the next name of a cleanup keeps its order safe, whoever else is  *)
(* removing names of the same folder.                                        *)
LEMMA UnlinkingKeeps ==
    ASSUME TypeOK, NEW p \in Saves, NEW t \in Todo, t # <<>>, Unlinking(p, t),
           CleanupInv(p), save[p].verified, RecordInv(p),
           entry' = Unlinked(p, Head(t)), names' = UndisplacedBy(p, Head(t)),
           folder' = folder, save'[p].verified, save'[p].approved = save[p].approved,
           save'[p].todo \in {save[p].todo, Tail(t)}, cleaner'[p].todo \in {cleaner[p].todo, Tail(t)},
           At(p, "unlink")' => save'[p].todo = Tail(t) \/ At(p, "unlink"),
           cleaner'[p].pc = "unlink" => cleaner'[p].todo = Tail(t) \/ cleaner[p].pc = "unlink"
    PROVE  CleanupInv(p)'
<1>1. /\ VersionsFirst(Tail(t))
      /\ \A x : (\E i \in DOMAIN t : t[i] = x) =>
                   Head(t) = x \/ \E i \in DOMAIN Tail(t) : Tail(t)[i] = x
      /\ Head(t) \notin Vital => \A i \in DOMAIN t : t[i] \notin Vital
  BY OrderKeeps DEF Unlinking
<1>2. /\ \A e \in Entries : entry'[p][e] = (IF e = Head(t) THEN "absent" ELSE entry[p][e])
      /\ names'.displaced[p] = (IF Head(t) = "displaced" THEN NoNode ELSE names.displaced[p])
      /\ "editor" \in Entries /\ "cleanup" \in Entries /\ "manifest" \in Entries
      /\ "precommit" \in Entries /\ "created" \in Entries /\ "replaced" \in Entries
      /\ "authority" \in Entries /\ "conflict" \in Entries
  BY DEF TypeOK, Unlinked, UndisplacedBy, Naming, Entries, States
<1>3. Remains(p)' => /\ Head(t) \in Vital /\ Remains(p)
                     /\ \A e \in Entries \ {"editor"} : entry'[p][e] = entry[p][e]
  <2>1. Remains(p)' => Remains(p)
    BY <1>2 DEF Remains
  <2>2. Remains(p) => \E i \in DOMAIN t : t[i] \in Vital
    BY DEF Remains, Unlinking, Vital
  <2>3. Remains(p) => Head(t) \in {"editor", "displaced"} /\ Head(t) \in Vital
    BY <1>1, <2>2 DEF Vital
  <2>4. "displaced" \notin Entries
    BY DEF Entries, States
  <2> QED
    BY <1>2, <2>1, <2>3, <2>4
<1>4. /\ entry'[p]["editor"] # "absent" => entry[p]["editor"] # "absent" /\ Head(t) # "editor"
      /\ entry'[p]["editor"] # "absent" => entry'[p]["editor"] = entry[p]["editor"]
      /\ names'.displaced[p] # NoNode => names.displaced[p] # NoNode /\ Head(t) # "displaced"
  BY <1>2
<1>5. Unlinking(p, Tail(t))'
  <2>1. VersionsFirst(Tail(t))'
    BY <1>1 DEF VersionsFirst
  <2>2. entry'[p]["editor"] # "absent" => \E i \in DOMAIN Tail(t) : Tail(t)[i] = "editor"
    BY <1>1, <1>4, ZenonT(30) DEF Unlinking
  <2>3. names'.displaced[p] # NoNode => \E i \in DOMAIN Tail(t) : Tail(t)[i] = "displaced"
    BY <1>1, <1>4, ZenonT(30) DEF Unlinking
  <2>4. Remains(p)' => entry'[p]["cleanup"] = "whole"
    BY <1>2, <1>3 DEF Unlinking
  <2> QED
    BY <2>1, <2>2, <2>3, <2>4 DEF Unlinking
<1>6. ASSUME NEW u \in Todo, Unlinking(p, u)
      PROVE  Unlinking(p, u)'
  BY <1>2, <1>3, <1>4, <1>6 DEF Unlinking
<1>7. Remains(p)' =>
           /\ folder'[p] /\ Recorded(p)'
           /\ entry'[p]["manifest"] = "whole" /\ entry'[p]["precommit"] = "whole"
           /\ entry'[p]["cleanup"] # "absent" => entry'[p]["authority"] = "whole"
           /\ entry'[p]["cleanup"] = "whole"
  BY <1>2, <1>3 DEF CleanupInv, Recorded, Replacing, Unlinking
<1> QED
  BY <1>2, <1>4, <1>5, <1>6, <1>7 DEF CleanupInv, TypeOK, Progress, At

(* What a write that did not complete leaves.                                *)
LEMMA LeftBehindIs ==
    ASSUME TypeOK, NEW p \in Saves, NEW f \in LeftBehind(p)
    PROVE  /\ \A q \in Saves \ {p} : f[q] = entry[q]
           /\ \A e \in Entries :
                 \/ f[p][e] = entry[p][e]
                 \/ /\ entry[p][e] = "absent" /\ f[p][e] = "partial"
                    /\ save[p].pc \in WritingSteps /\ MayWrite(p) /\ e = Writing(p)
<1>1. CASE f = entry
  BY <1>1
<1>2. ASSUME save[p].pc \in WritingSteps, MayWrite(p), NEW w, w = Writing(p), w \in Entries,
             f = [entry EXCEPT ![p][w] = IF @ = "absent" THEN "partial" ELSE @]
      PROVE  /\ \A q \in Saves \ {p} : f[q] = entry[q]
             /\ \A e \in Entries :
                   \/ f[p][e] = entry[p][e]
                   \/ entry[p][e] = "absent" /\ f[p][e] = "partial" /\ e = w
  BY <1>2 DEF TypeOK
<1> QED
  BY <1>1, <1>2, WritingIs DEF LeftBehind

(* A quiet step of p gives nobody p's stage.                                 *)
LEMMA QuietHides ==
    ASSUME TypeOK, TypeOK', NEW p \in Saves, Quiet(p)
    PROVE  (Hidden(p) => Hidden(p)') /\ content' = content
<1>1. /\ names'.target = names.target
      /\ \A q \in Saves : /\ names'.stage[q] \in {names.stage[q], NoNode}
                          /\ names'.displaced[q] \in {names.displaced[q], NoNode}
                          /\ save'[q].approved = save[q].approved
                          /\ At(q, "copied")' => At(q, "copied") /\ save'[q].fd = save[q].fd
  BY DEF Quiet, Same, At
<1> QED
  BY <1>1, Apart DEF Hidden, Quiet

(* Such steps of Prepare leave p what it needs.                           *)
LEMMA PreparingKeeps ==
    ASSUME TypeOK, TypeOK', NEW p \in Saves, Own(p), Quiet(p),
           RefuseDeleted(p) \/ CreateTransaction(p) \/ WriteRecord(p)
    PROVE  Own(p)'
<1>0. (Hidden(p) => Hidden(p)') /\ content' = content
  BY QuietHides
<1>1. CASE RefuseDeleted(p)
  <2>1. StageInv(p)'
    BY <1>1, <1>0
    DEF RefuseDeleted, Return, disk, bounds, Own, StageInv, PreStage, Hiding, Closing, At,
        TypeOK, Naming, Progress
  <2>2. DisplacedInv(p)'
    BY <1>1, <1>0
    DEF RefuseDeleted, Return, disk, bounds, Own, DisplacedInv, InPlace, Replacing,
        PreStage, Hiding, At, TypeOK, Naming, Progress
  <2>3. RecordInv(p)'
    BY <1>1, <1>0
    DEF RefuseDeleted, Return, disk, bounds, Own, RecordInv, PreStage, Closing, Failing,
        KeepsEdits, Prepared, Unrecorded, Recorded, NothingBut, Replacing, Entries, States,
        At, TypeOK, Naming, Progress
  <2>4. CleanupInv(p)'
    BY <1>1, <1>0
    DEF RefuseDeleted, Return, disk, bounds, Own, RecordInv, CleanupInv, Remains, Recorded,
        Unlinking, Replacing, Closing, Entries, States, At, TypeOK, Naming, Progress
  <2> QED
    BY <2>1, <2>2, <2>3, <2>4 DEF Own
<1>2. CASE CreateTransaction(p)
  <2>0. /\ save'[p].pc = "manifest" /\ save'[p].approved = save[p].approved
        /\ save'[p].verified = save[p].verified /\ save[p].pc = "mkdir"
        /\ folder'[p] = TRUE /\ UNCHANGED <<names, entry, cleaner>>
    <3>1. PICK s \in Strategies : save' = [save EXCEPT ![p].pc = "manifest", ![p].strategy = s]
      BY <1>2 DEF CreateTransaction
    <3>2. save' = [save EXCEPT ![p] = [save[p] EXCEPT !.pc = "manifest", !.strategy = s]]
      BY <3>1 DEF TypeOK
    <3>3. /\ save'[p].pc = "manifest" /\ save'[p].approved = save[p].approved
          /\ save'[p].verified = save[p].verified
      BY <3>2 DEF TypeOK, Progress
    <3>4. save[p].pc = "mkdir" /\ folder'[p] = TRUE /\ UNCHANGED <<names, entry, cleaner>>
      BY <1>2 DEF CreateTransaction, TypeOK, At
    <3> QED
      BY <3>3, <3>4
  <2>1. StageInv(p)'
    BY <2>0, <1>0 DEF Own, StageInv, PreStage, Hiding, Closing, At, TypeOK, Naming, Progress
  <2>2. DisplacedInv(p)'
    BY <2>0, <1>0, Apart
    DEF Own, DisplacedInv, InPlace, Replacing, PreStage, Hiding, At, TypeOK, Naming,
        Progress
  <2>3. RecordInv(p)'
    BY <2>0, <1>0
    DEF Own, RecordInv, PreStage, Closing, Failing, KeepsEdits, Prepared, Unrecorded,
        Recorded, NothingBut, Replacing, Entries, States, At, TypeOK, Naming, Progress
  <2>4. CleanupInv(p)'
    BY <2>0, <1>0
    DEF Own, RecordInv, CleanupInv, Remains, Recorded, Unlinking, Replacing, Closing,
        Entries, States, At, TypeOK, Naming, Progress
  <2> QED
    BY <2>1, <2>2, <2>3, <2>4 DEF Own
<1>3. CASE WriteRecord(p)
  <2>0. /\ save[p].pc \in WritingSteps /\ save'[p].pc = AfterWriting(p) /\ MayWrite(p)
        /\ save'[p].approved = save[p].approved /\ save'[p].strategy = save[p].strategy
        /\ save'[p].verified = save[p].verified /\ save'[p].result = save[p].result
        /\ save'[p].todo = (IF At(p, "pending") THEN CleanupOrder ELSE save[p].todo)
        /\ \A e \in Entries : entry'[p][e] = (IF e = Writing(p) THEN "whole" ELSE entry[p][e])
        /\ UNCHANGED <<names, folder, cleaner>>
    <3>1. save' = [save EXCEPT ![p] = [save[p] EXCEPT !.pc = AfterWriting(p),
                      !.fd = IF At(p, "published") THEN names.target ELSE @,
                      !.todo = IF At(p, "pending") THEN CleanupOrder ELSE @]]
      BY <1>3 DEF WriteRecord, TypeOK
    <3> QED
      BY <1>3, <3>1 DEF WriteRecord, bounds, At, TypeOK, Naming, Progress
  <2>1. StageInv(p)'
    BY <2>0, <1>0
    DEF WritingSteps, AfterWriting, Own, StageInv, PreStage, Hiding, Closing, At, TypeOK,
        Naming, Progress
  <2>2. DisplacedInv(p)'
    BY <2>0, <1>0
    DEF WritingSteps, AfterWriting, Own, DisplacedInv, InPlace, Replacing, PreStage, Hiding,
        At, TypeOK, Naming, Progress
  <2> DEFINE Wrote(e) == /\ entry'[p][e] = "whole"
                         /\ \A f \in Entries \ {e} : entry'[p][f] = entry[p][f]
  <2>3. RecordInv(p)' /\ CleanupInv(p)'
    <3>1. CASE save[p].pc = "manifest"
      <4>1. save'[p].pc = "editor" /\ save'[p].todo = save[p].todo
        BY <2>0, <3>1 DEF AfterWriting, MayWrite, At
      <4>2. Wrote("manifest")
        BY <2>0, <3>1 DEF Writing, At, Entries, States
      <4>3. RecordInv(p)'
        BY <2>0, <3>1, <4>1, <4>2
        DEF Own, RecordInv, PreStage, Closing, Failing, KeepsEdits, Prepared, Unrecorded,
            Recorded, NothingBut, Replacing, Entries, States, At, TypeOK, Naming, Progress
      <4>4. CleanupInv(p)'
        BY <2>0, <3>1, <4>1, <4>2, OrdersAre
        DEF Own, RecordInv, CleanupInv, Remains, Recorded, Unlinking, Replacing, Closing,
            Entries, States, At, TypeOK, Naming, Progress
      <4> QED
        BY <4>3, <4>4
    <3>2. CASE save[p].pc = "editor"
      <4>1. save'[p].pc = "precommit" /\ save'[p].todo = save[p].todo
        BY <2>0, <3>2 DEF AfterWriting, MayWrite, At
      <4>2. Wrote("editor")
        BY <2>0, <3>2 DEF Writing, At, Entries, States
      <4>3. RecordInv(p)'
        BY <2>0, <3>2, <4>1, <4>2
        DEF Own, RecordInv, PreStage, Closing, Failing, KeepsEdits, Prepared, Unrecorded,
            Recorded, NothingBut, Replacing, Entries, States, At, TypeOK, Naming, Progress
      <4>4. CleanupInv(p)'
        BY <2>0, <3>2, <4>1, <4>2, OrdersAre
        DEF Own, RecordInv, CleanupInv, Remains, Recorded, Unlinking, Replacing, Closing,
            Entries, States, At, TypeOK, Naming, Progress
      <4> QED
        BY <4>3, <4>4
    <3>3. CASE save[p].pc = "precommit"
      <4>1. save'[p].pc = "prepared" /\ save'[p].todo = save[p].todo
        BY <2>0, <3>3 DEF AfterWriting, MayWrite, At
      <4>2. Wrote("precommit")
        BY <2>0, <3>3 DEF Writing, At, Entries, States
      <4>3. RecordInv(p)'
        BY <2>0, <3>3, <4>1, <4>2
        DEF Own, RecordInv, PreStage, Closing, Failing, KeepsEdits, Prepared, Unrecorded,
            Recorded, NothingBut, Replacing, Entries, States, At, TypeOK, Naming, Progress
      <4>4. CleanupInv(p)'
        BY <2>0, <3>3, <4>1, <4>2, OrdersAre
        DEF Own, RecordInv, CleanupInv, Remains, Recorded, Unlinking, Replacing, Closing,
            Entries, States, At, TypeOK, Naming, Progress
      <4> QED
        BY <4>3, <4>4
    <3>4. CASE save[p].pc = "published"
      <4>1. save'[p].pc = "verify" /\ save'[p].todo = save[p].todo
        BY <2>0, <3>4 DEF AfterWriting, MayWrite, At
      <4>2. (IF Replacing(p) THEN Wrote("replaced") ELSE Wrote("created"))
        BY <2>0, <3>4 DEF Writing, At, Entries, States
      <4>3. RecordInv(p)'
        BY <2>0, <3>4, <4>1, <4>2
        DEF Own, RecordInv, PreStage, Closing, Failing, KeepsEdits, Prepared, Unrecorded,
            Recorded, NothingBut, Replacing, Entries, States, At, TypeOK, Naming, Progress
      <4>4. CleanupInv(p)'
        BY <2>0, <3>4, <4>1, <4>2, OrdersAre
        DEF Own, RecordInv, CleanupInv, Remains, Recorded, Unlinking, Replacing, Closing,
            Entries, States, At, TypeOK, Naming, Progress
      <4> QED
        BY <4>3, <4>4
    <3>5. CASE save[p].pc = "authority"
      <4>1. save'[p].pc = "pending" /\ save'[p].todo = save[p].todo
        BY <2>0, <3>5 DEF AfterWriting, MayWrite, At
      <4>2. Wrote("authority")
        BY <2>0, <3>5 DEF Writing, At, Entries, States
      <4>3. RecordInv(p)'
        BY <2>0, <3>5, <4>1, <4>2
        DEF Own, RecordInv, PreStage, Closing, Failing, KeepsEdits, Prepared, Unrecorded,
            Recorded, NothingBut, Replacing, Entries, States, At, TypeOK, Naming, Progress
      <4>4. CleanupInv(p)'
        BY <2>0, <3>5, <4>1, <4>2, OrdersAre
        DEF Own, RecordInv, CleanupInv, Remains, Recorded, Unlinking, Replacing, Closing,
            Entries, States, At, TypeOK, Naming, Progress
      <4> QED
        BY <4>3, <4>4
    <3>6. CASE save[p].pc = "pending"
      <4>1. save'[p].pc = "unlink" /\ save'[p].todo = CleanupOrder /\ entry[p]["authority"] = "whole" /\ folder[p]
        BY <2>0, <3>6 DEF AfterWriting, MayWrite, At
      <4>2. Wrote("cleanup")
        BY <2>0, <3>6 DEF Writing, At, Entries, States
      <4>3. RecordInv(p)'
        BY <2>0, <3>6, <4>1, <4>2
        DEF Own, RecordInv, PreStage, Closing, Failing, KeepsEdits, Prepared, Unrecorded,
            Recorded, NothingBut, Replacing, Entries, States, At, TypeOK, Naming, Progress
      <4>4. CleanupInv(p)'
        BY <2>0, <3>6, <4>1, <4>2, OrdersAre
        DEF Own, RecordInv, CleanupInv, Remains, Recorded, Unlinking, Replacing, Closing,
            Entries, States, At, TypeOK, Naming, Progress
      <4> QED
        BY <4>3, <4>4
    <3> QED
      BY <2>0, <3>1, <3>2, <3>3, <3>4, <3>5, <3>6 DEF WritingSteps
  <2> QED
    BY <2>1, <2>2, <2>3 DEF Own
<1> QED
  BY <1>1, <1>2, <1>3

(* Such steps of Commit leave p what it needs.                            *)
LEMMA CommittingKeeps ==
    ASSUME TypeOK, TypeOK', NEW p \in Saves, Own(p), Quiet(p),
           CheckUnchanged(p) \/ CheckDeleted(p) \/ CheckChanged(p) \/ CreateCollides(p)
           \/ CommitFindsNoTarget(p)
    PROVE  Own(p)'
<1>0. (Hidden(p) => Hidden(p)') /\ content' = content
  BY QuietHides
<1>1. CASE CheckUnchanged(p)
  <2>1. StageInv(p)'
    BY <1>1, <1>0
    DEF CheckUnchanged, Goto, disk, bounds, Own, StageInv, PreStage, Hiding, Closing, At,
        TypeOK, Naming, Progress
  <2>2. DisplacedInv(p)'
    BY <1>1, <1>0
    DEF CheckUnchanged, Goto, disk, bounds, Own, DisplacedInv, InPlace, Replacing, PreStage,
        Hiding, At, TypeOK, Naming, Progress
  <2>3. RecordInv(p)'
    BY <1>1, <1>0
    DEF CheckUnchanged, Goto, disk, bounds, Own, RecordInv, PreStage, Closing, Failing,
        KeepsEdits, Prepared, Unrecorded, Recorded, NothingBut, Replacing, Entries, States,
        At, TypeOK, Naming, Progress
  <2>4. CleanupInv(p)'
    BY <1>1, <1>0
    DEF CheckUnchanged, Goto, disk, bounds, Own, RecordInv, CleanupInv, Remains, Recorded,
        Unlinking, Replacing, Closing, Entries, States, At, TypeOK, Naming, Progress
  <2> QED
    BY <2>1, <2>2, <2>3, <2>4 DEF Own
<1>2. CASE CheckDeleted(p)
  <2>1. StageInv(p)'
    BY <1>2, <1>0
    DEF CheckDeleted, disk, bounds, Own, StageInv, PreStage, Hiding, Closing, At, TypeOK,
        Naming, Progress
  <2>2. DisplacedInv(p)'
    BY <1>2, <1>0
    DEF CheckDeleted, disk, bounds, Own, DisplacedInv, InPlace, Replacing, PreStage, Hiding,
        At, TypeOK, Naming, Progress
  <2>3. RecordInv(p)'
    BY <1>2, <1>0, OrdersAre
    DEF CheckDeleted, disk, bounds, Own, RecordInv, PreStage, Closing, Failing, KeepsEdits,
        Prepared, Unrecorded, Recorded, NothingBut, Replacing, Entries, States, At, TypeOK,
        Naming, Progress
  <2>4. CleanupInv(p)'
    BY <1>2, <1>0
    DEF CheckDeleted, disk, bounds, Own, RecordInv, CleanupInv, Remains, Recorded,
        Unlinking, Replacing, Closing, Entries, States, At, TypeOK, Naming, Progress
  <2> QED
    BY <2>1, <2>2, <2>3, <2>4 DEF Own
<1>3. CASE CheckChanged(p)
  <2>1. StageInv(p)'
    BY <1>3, <1>0
    DEF CheckChanged, Return, DropStage, MarkConflict, Own, StageInv, PreStage, Hiding,
        Closing, At, TypeOK, Naming, Progress
  <2>2. DisplacedInv(p)'
    BY <1>3, <1>0
    DEF CheckChanged, Return, DropStage, MarkConflict, Own, DisplacedInv, InPlace,
        Replacing, PreStage, Hiding, At, TypeOK, Naming, Progress
  <2>3. RecordInv(p)'
    BY <1>3, <1>0
    DEF CheckChanged, Return, DropStage, MarkConflict, Own, RecordInv, PreStage, Closing,
        Failing, KeepsEdits, Prepared, Unrecorded, Recorded, NothingBut, Replacing, Entries,
        States, At, TypeOK, Naming, Progress
  <2>4. CleanupInv(p)'
    BY <1>3, <1>0
    DEF CheckChanged, Return, DropStage, MarkConflict, Own, RecordInv, CleanupInv, Remains,
        Recorded, Unlinking, Replacing, Closing, Entries, States, At, TypeOK, Naming,
        Progress
  <2> QED
    BY <2>1, <2>2, <2>3, <2>4 DEF Own
<1>4. CASE CreateCollides(p)
  <2>1. StageInv(p)'
    BY <1>4, <1>0
    DEF CreateCollides, Return, DropStage, MarkConflict, Own, StageInv, PreStage, Hiding,
        Closing, At, TypeOK, Naming, Progress
  <2>2. DisplacedInv(p)'
    BY <1>4, <1>0
    DEF CreateCollides, Return, DropStage, MarkConflict, Own, DisplacedInv, InPlace,
        Replacing, PreStage, Hiding, At, TypeOK, Naming, Progress
  <2>3. RecordInv(p)'
    BY <1>4, <1>0
    DEF CreateCollides, Return, DropStage, MarkConflict, Own, RecordInv, PreStage, Closing,
        Failing, KeepsEdits, Prepared, Unrecorded, Recorded, NothingBut, Replacing, Entries,
        States, At, TypeOK, Naming, Progress
  <2>4. CleanupInv(p)'
    BY <1>4, <1>0
    DEF CreateCollides, Return, DropStage, MarkConflict, Own, RecordInv, CleanupInv,
        Remains, Recorded, Unlinking, Replacing, Closing, Entries, States, At, TypeOK,
        Naming, Progress
  <2> QED
    BY <2>1, <2>2, <2>3, <2>4 DEF Own
<1>5. CASE CommitFindsNoTarget(p)
  <2>0. names'.displaced = names.displaced
    BY <1>5, ReportIs, KeptIs DEF CommitFindsNoTarget
  <2>1. StageInv(p)'
    BY <1>5, <1>0, <2>0
    DEF CommitFindsNoTarget, Return, Own, StageInv, PreStage, Hiding,
        Closing, At, TypeOK, Naming, Progress
  <2>2. DisplacedInv(p)'
    BY <1>5, <1>0, <2>0
    DEF CommitFindsNoTarget, Return, Own, DisplacedInv, InPlace, Replacing, PreStage,
        Hiding, At, TypeOK, Progress
  <2>3. RecordInv(p)'
    BY <1>5, <1>0, <2>0
    DEF CommitFindsNoTarget, Return, Own, RecordInv, PreStage, Closing,
        Failing, KeepsEdits, Prepared, Unrecorded, Recorded, NothingBut, Replacing, Entries,
        States, At, TypeOK, Naming, Progress
  <2>4. CleanupInv(p)'
    BY <1>5, <1>0, <2>0
    DEF CommitFindsNoTarget, Return, Own, RecordInv, CleanupInv, Remains,
        Recorded, Unlinking, Replacing, Closing, Entries, States, At, TypeOK, Naming,
        Progress
  <2> QED
    BY <2>1, <2>2, <2>3, <2>4 DEF Own
<1> QED
  BY <1>1, <1>2, <1>3, <1>4, <1>5

(* Such steps of Conclude leave p what it needs.                          *)
LEMMA ConcludingKeeps ==
    ASSUME TypeOK, TypeOK', NEW p \in Saves, Own(p), Quiet(p),
           VerifyBad(p) \/ VerifyUnreadable(p) \/ Unlink(p) \/ FinishCleanup(p)
           \/ CleanupStops(p) \/ RetryCleanup(p) \/ FinishUndo(p)
    PROVE  Own(p)'
<1>0. (Hidden(p) => Hidden(p)') /\ content' = content
  BY QuietHides
<1>1. CASE VerifyBad(p)
  <2>1. StageInv(p)'
    BY <1>1, <1>0
    DEF VerifyBad, Return, DropStage, MarkConflict, Own, StageInv, PreStage, Hiding,
        Closing, At, TypeOK, Naming, Progress
  <2>2. DisplacedInv(p)'
    BY <1>1, <1>0
    DEF VerifyBad, Return, DropStage, MarkConflict, Own, DisplacedInv, InPlace, Replacing,
        PreStage, Hiding, At, TypeOK, Naming, Progress
  <2>3. RecordInv(p)'
    BY <1>1, <1>0
    DEF VerifyBad, Return, DropStage, MarkConflict, Own, RecordInv, PreStage, Closing,
        Failing, KeepsEdits, Prepared, Unrecorded, Recorded, NothingBut, Replacing, Entries,
        States, At, TypeOK, Naming, Progress
  <2>4. CleanupInv(p)'
    BY <1>1, <1>0
    DEF VerifyBad, Return, DropStage, MarkConflict, Own, RecordInv, CleanupInv, Remains,
        Recorded, Unlinking, Replacing, Closing, Entries, States, At, TypeOK, Naming,
        Progress
  <2> QED
    BY <2>1, <2>2, <2>3, <2>4 DEF Own
<1>2. CASE VerifyUnreadable(p)
  <2>1. StageInv(p)'
    BY <1>2, <1>0
    DEF VerifyUnreadable, Return, DropStage, Own, StageInv, PreStage, Hiding, Closing, At,
        TypeOK, Naming, Progress
  <2>2. DisplacedInv(p)'
    BY <1>2, <1>0
    DEF VerifyUnreadable, Return, DropStage, Own, DisplacedInv, InPlace, Replacing,
        PreStage, Hiding, At, TypeOK, Naming, Progress
  <2>3. RecordInv(p)'
    BY <1>2, <1>0
    DEF VerifyUnreadable, Return, DropStage, Own, RecordInv, PreStage, Closing, Failing,
        KeepsEdits, Prepared, Unrecorded, Recorded, NothingBut, Replacing, Entries, States,
        At, TypeOK, Naming, Progress
  <2>4. CleanupInv(p)'
    BY <1>2, <1>0
    DEF VerifyUnreadable, Return, DropStage, Own, RecordInv, CleanupInv, Remains, Recorded,
        Unlinking, Replacing, Closing, Entries, States, At, TypeOK, Naming, Progress
  <2> QED
    BY <2>1, <2>2, <2>3, <2>4 DEF Own
<1>3. CASE Unlink(p)
  <2> DEFINE t == save[p].todo
  <2>1. StageInv(p)'
    BY <1>3, <1>0
    DEF Unlink, Unlinked, UndisplacedBy, bounds, Own, StageInv, PreStage, Hiding, Closing,
        At, TypeOK, Naming, Progress
  <2>2. DisplacedInv(p)'
    BY <1>3, <1>0, Apart
    DEF Unlink, Unlinked, UndisplacedBy, bounds, Own, DisplacedInv, InPlace, Replacing,
        PreStage, Hiding, At, TypeOK, Naming, Progress
  <2>3. RecordInv(p)'
    <3>1. /\ \A e \in Entries : entry'[p][e] = entry[p][e] \/ entry'[p][e] = "absent"
          /\ save'[p].pc = save[p].pc /\ save'[p].result = save[p].result
          /\ save'[p].verified = save[p].verified /\ save'[p].todo = Tail(t)
          /\ cleaner' = cleaner /\ folder' = folder /\ t \in Todo /\ t # <<>>
          /\ save[p].pc \in {"unlink", "rollback", "abort"}
      <4>1. \A e \in Entries : entry'[p][e] = (IF e = Head(t) THEN "absent" ELSE entry[p][e])
        BY <1>3 DEF Unlink, Unlinked, TypeOK
      <4>2. /\ save'[p].pc = save[p].pc /\ save'[p].result = save[p].result
            /\ save'[p].verified = save[p].verified /\ save'[p].todo = Tail(t)
            /\ cleaner' = cleaner /\ folder' = folder /\ t \in Todo /\ t # <<>>
            /\ save[p].pc \in {"unlink", "rollback", "abort"}
        BY <1>3 DEF Unlink, bounds, At, TypeOK, Naming, Progress
      <4> QED
        BY <4>1, <4>2
    <3>2. save[p].pc \in {"rollback", "abort"} =>
              \A j \in DOMAIN Tail(t) : Tail(t)[j] # "displaced"
      BY <3>1, OrderKeeps, ZenonT(30) DEF Own, RecordInv
    <3>3. {"editor", "authority", "cleanup"} \cup States \subseteq Entries
      BY DEF Entries, States
    <3> QED
      BY <3>1, <3>2, <3>3 DEF Own, RecordInv, PreStage, Closing, At
  <2>4. CleanupInv(p)'
    <3>1. CASE At(p, "unlink")
      <4>1. save[p].verified
        BY <3>1 DEF Own, RecordInv, Closing, At
      <4>2. /\ entry' = Unlinked(p, Head(t)) /\ names' = UndisplacedBy(p, Head(t))
            /\ folder' = folder /\ cleaner' = cleaner
            /\ save'[p].verified /\ save'[p].approved = save[p].approved
            /\ save'[p].todo = Tail(t) /\ t \in Todo /\ t # <<>>
        BY <1>3, <4>1 DEF Unlink, bounds, At, TypeOK, Naming, Progress
      <4>3. Unlinking(p, t) /\ CleanupInv(p) /\ RecordInv(p)
        BY <3>1, <4>1 DEF Own, CleanupInv
      <4> QED
        BY <4>1, <4>2, <4>3, UnlinkingKeeps
    <3>2. CASE ~ At(p, "unlink")
      <4>1. ~ save[p].verified
        BY <1>3, <3>2 DEF Unlink, Own, RecordInv, Closing, At
      <4>2. save'[p].verified = save[p].verified
        BY <1>3 DEF Unlink, TypeOK, Progress
      <4> QED
        BY <4>1, <4>2 DEF CleanupInv
    <3> QED
      BY <3>1, <3>2
  <2> QED
    BY <2>1, <2>2, <2>3, <2>4 DEF Own
<1>4. CASE FinishCleanup(p)
  <2>1. StageInv(p)'
    BY <1>4, <1>0
    DEF FinishCleanup, Return, DropStage, FolderEmpty, bounds, Own, StageInv, PreStage,
        Hiding, Closing, At, TypeOK, Naming, Progress
  <2>2. DisplacedInv(p)'
    BY <1>4, <1>0
    DEF FinishCleanup, Return, DropStage, FolderEmpty, bounds, Own, DisplacedInv, InPlace,
        Replacing, PreStage, Hiding, At, TypeOK, Naming, Progress
  <2>3. RecordInv(p)'
    BY <1>4, <1>0
    DEF FinishCleanup, Return, DropStage, FolderEmpty, bounds, Own, RecordInv, PreStage,
        Closing, Failing, KeepsEdits, Prepared, Unrecorded, Recorded, NothingBut, Replacing,
        Entries, States, At, TypeOK, Naming, Progress
  <2>4. CleanupInv(p)'
    BY <1>4, <1>0
    DEF FinishCleanup, Return, DropStage, FolderEmpty, bounds, Own, RecordInv, CleanupInv,
        Remains, Recorded, Unlinking, Replacing, Closing, Entries, States, At, TypeOK,
        Naming, Progress
  <2> QED
    BY <2>1, <2>2, <2>3, <2>4 DEF Own
<1>5. CASE CleanupStops(p)
  <2>1. StageInv(p)'
    BY <1>5, <1>0
    DEF CleanupStops, DropStage, bounds, Own, StageInv, PreStage, Hiding, Closing, At,
        TypeOK, Naming, Progress
  <2>2. DisplacedInv(p)'
    BY <1>5, <1>0
    DEF CleanupStops, DropStage, bounds, Own, DisplacedInv, InPlace, Replacing, PreStage,
        Hiding, At, TypeOK, Naming, Progress
  <2>3. RecordInv(p)'
    BY <1>5, <1>0
    DEF CleanupStops, DropStage, bounds, Own, RecordInv, PreStage, Closing, Failing,
        KeepsEdits, Prepared, Unrecorded, Recorded, NothingBut, Replacing, Entries, States,
        At, TypeOK, Naming, Progress
  <2>4. CleanupInv(p)'
    BY <1>5, <1>0
    DEF CleanupStops, DropStage, bounds, Own, RecordInv, CleanupInv, Remains, Recorded,
        Unlinking, Replacing, Closing, Entries, States, At, TypeOK, Naming, Progress
  <2> QED
    BY <2>1, <2>2, <2>3, <2>4 DEF Own
<1>6. CASE RetryCleanup(p)
  <2>1. StageInv(p)'
    BY <1>6, <1>0
    DEF RetryCleanup, Goto, disk, bounds, Own, StageInv, PreStage, Hiding, Closing, At,
        TypeOK, Naming, Progress
  <2>2. DisplacedInv(p)'
    BY <1>6, <1>0
    DEF RetryCleanup, Goto, disk, bounds, Own, DisplacedInv, InPlace, Replacing, PreStage,
        Hiding, At, TypeOK, Naming, Progress
  <2>3. RecordInv(p)'
    BY <1>6, <1>0
    DEF RetryCleanup, Goto, disk, bounds, Own, RecordInv, PreStage, Closing, Failing,
        KeepsEdits, Prepared, Unrecorded, Recorded, NothingBut, Replacing, Entries, States,
        At, TypeOK, Naming, Progress
  <2>4. CleanupInv(p)'
    BY <1>6, <1>0
    DEF RetryCleanup, Goto, disk, bounds, Own, RecordInv, CleanupInv, Remains, Recorded,
        Unlinking, Replacing, Closing, Entries, States, At, TypeOK, Naming, Progress
  <2> QED
    BY <2>1, <2>2, <2>3, <2>4 DEF Own
<1>7. CASE FinishUndo(p)
  <2>0. /\ names'.displaced = names.displaced
        /\ save[p].result = "commit_failure" => names.stage[p] \in {names'.kept[p], names'.stage[p]}
    <3>1. CASE save[p].result = "commit_failure"
      BY <1>7, <3>1, ReportIs, KeptIs DEF FinishUndo
    <3>2. CASE save[p].result # "commit_failure"
      BY <1>7, <3>2 DEF FinishUndo, DropStage, TypeOK, Naming
    <3> QED
      BY <3>1, <3>2
  <2>1. StageInv(p)'
    BY <1>7, <1>0, <2>0
    DEF FinishUndo, Goto, Own, StageInv, PreStage, Hiding,
        Closing, At, TypeOK, Naming, Progress
  <2>2. DisplacedInv(p)'
    BY <1>7, <1>0, <2>0, Apart
    DEF FinishUndo, Goto, Own, DisplacedInv, InPlace,
        Replacing, PreStage, Hiding, At, TypeOK, Naming, Progress
  <2>3. RecordInv(p)'
    <3>1. /\ save[p].pc \in {"rollback", "abort"} /\ save'[p].pc = "done"
          /\ save'[p].verified = save[p].verified /\ save'[p].result = save[p].result
          /\ UNCHANGED <<entry, cleaner>>
      BY <1>7 DEF FinishUndo, Goto, At, TypeOK, Naming, Progress
    <3>2. Hidden(p) /\ content[StageNode(p)] = Edited(p) /\ names.stage[p] = StageNode(p)
      BY <3>1 DEF Own, StageInv, Hiding
    <3>3. save[p].result = "commit_failure" => StageNode(p) \in {names'.kept[p], names'.stage[p]}
      BY <2>0, <3>2
    <3>4. save[p].result \in Failing => KeepsEdits(p)'
      BY <3>1, <3>2, <3>3, <1>0 DEF Own, RecordInv, KeepsEdits
    <3> QED
      BY <3>1, <3>4 DEF Own, RecordInv, PreStage, Closing, At
  <2>4. CleanupInv(p)'
    BY <1>7, <1>0, <2>0
    DEF FinishUndo, Goto, Own, RecordInv, CleanupInv, Remains,
        Recorded, Unlinking, Replacing, Closing, Entries, States, At, TypeOK, Naming,
        Progress
  <2> QED
    BY <2>1, <2>2, <2>3, <2>4 DEF Own
<1> QED
  BY <1>1, <1>2, <1>3, <1>4, <1>5, <1>6, <1>7

(* Such steps of Disturb leave p what it needs.                           *)
LEMMA DisturbingKeeps ==
    ASSUME TypeOK, TypeOK', NEW p \in Saves, Own(p), Quiet(p),
           CancelStage(p) \/ CancelPrepared(p) \/ FailStage(p) \/ FailPrepare(p)
           \/ CheckUnreadable(p) \/ FailCleanup(p) \/ FailUndo(p)
    PROVE  Own(p)'
<1>0. (Hidden(p) => Hidden(p)') /\ content' = content
  BY QuietHides
<1>1. CASE CancelStage(p)
  <2>1. StageInv(p)'
    BY <1>1, <1>0
    DEF CancelStage, Return, DropStage, bounds, Own, StageInv, PreStage, Hiding, Closing,
        At, TypeOK, Naming, Progress
  <2>2. DisplacedInv(p)'
    BY <1>1, <1>0
    DEF CancelStage, Return, DropStage, bounds, Own, DisplacedInv, InPlace, Replacing,
        PreStage, Hiding, At, TypeOK, Naming, Progress
  <2>3. RecordInv(p)'
    BY <1>1, <1>0
    DEF CancelStage, Return, DropStage, bounds, Own, RecordInv, PreStage, Closing, Failing,
        KeepsEdits, Prepared, Unrecorded, Recorded, NothingBut, Replacing, Entries, States,
        At, TypeOK, Naming, Progress
  <2>4. CleanupInv(p)'
    BY <1>1, <1>0
    DEF CancelStage, Return, DropStage, bounds, Own, RecordInv, CleanupInv, Remains,
        Recorded, Unlinking, Replacing, Closing, Entries, States, At, TypeOK, Naming,
        Progress
  <2> QED
    BY <2>1, <2>2, <2>3, <2>4 DEF Own
<1>2. CASE CancelPrepared(p)
  <2>0. /\ \/ save[p].pc = "editor" /\ save'[p].pc = "rollback" /\ save'[p].todo = RollbackOrder
           \/ save[p].pc = "prepared" /\ save'[p].pc = "abort" /\ save'[p].todo = AbortOrder
        /\ save'[p].approved = save[p].approved /\ save'[p].strategy = save[p].strategy
        /\ save'[p].verified = save[p].verified /\ save'[p].result = "cancelled"
        /\ \A e \in Entries : e # "editor" => entry'[p][e] = entry[p][e]
        /\ save[p].pc = "prepared" => entry'[p]["editor"] = entry[p]["editor"]
        /\ UNCHANGED <<names, folder, cleaner>>
    BY <1>2 DEF CancelPrepared, bounds, Entries, States, At, TypeOK, Naming, Progress
  <2>1. StageInv(p)'
    BY <2>0, <1>0 DEF Own, StageInv, PreStage, Hiding, Closing, At, TypeOK, Naming, Progress
  <2>2. DisplacedInv(p)'
    BY <2>0, <1>0
    DEF Own, DisplacedInv, InPlace, Replacing, PreStage, Hiding, At, TypeOK, Naming,
        Progress
  <2>3. RecordInv(p)'
    BY <2>0, <1>0, OrdersAre
    DEF Own, RecordInv, PreStage, Closing, Failing, KeepsEdits, Prepared, Unrecorded,
        Recorded, NothingBut, Replacing, Entries, States, At, TypeOK, Naming, Progress
  <2>4. CleanupInv(p)'
    BY <2>0, <1>0
    DEF Own, RecordInv, CleanupInv, Remains, Recorded, Unlinking, Replacing, Closing,
        Entries, States, At, TypeOK, Naming, Progress
  <2> QED
    BY <2>1, <2>2, <2>3, <2>4 DEF Own
<1>3. CASE FailStage(p)
  <2>1. StageInv(p)'
    BY <1>3, <1>0
    DEF FailStage, Return, DropStage, Own, StageInv, PreStage, Hiding, Closing, At, TypeOK,
        Naming, Progress
  <2>2. DisplacedInv(p)'
    BY <1>3, <1>0
    DEF FailStage, Return, DropStage, Own, DisplacedInv, InPlace, Replacing, PreStage,
        Hiding, At, TypeOK, Naming, Progress
  <2>3. RecordInv(p)'
    BY <1>3, <1>0
    DEF FailStage, Return, DropStage, Own, RecordInv, PreStage, Closing, Failing,
        KeepsEdits, Prepared, Unrecorded, Recorded, NothingBut, Replacing, Entries, States,
        At, TypeOK, Naming, Progress
  <2>4. CleanupInv(p)'
    BY <1>3, <1>0
    DEF FailStage, Return, DropStage, Own, RecordInv, CleanupInv, Remains, Recorded,
        Unlinking, Replacing, Closing, Entries, States, At, TypeOK, Naming, Progress
  <2> QED
    BY <2>1, <2>2, <2>3, <2>4 DEF Own
<1>4. CASE FailPrepare(p)
  <2>0. /\ save[p].pc \in {"mkdir", "manifest", "editor", "precommit"}
        /\ save'[p].pc = "rollback" /\ save'[p].todo = RollbackOrder
        /\ save'[p].approved = save[p].approved /\ save'[p].strategy = save[p].strategy
        /\ save'[p].verified = save[p].verified /\ save'[p].result \in {"failed", "commit_failure"}
        /\ \A e \in Entries : e # Writing(p) => entry'[p][e] = entry[p][e]
        /\ save[p].pc = "mkdir" => \A e \in Entries : entry'[p][e] = entry[p][e]
        /\ UNCHANGED <<names, folder, cleaner>>
    <3>1. PICK r \in {"failed", "commit_failure"} :
             save' = [save EXCEPT ![p].pc = "rollback", ![p].result = r, ![p].todo = RollbackOrder]
      BY <1>4 DEF FailPrepare
    <3>2. save' = [save EXCEPT ![p] = [save[p] EXCEPT !.pc = "rollback", !.result = r,
                                                     !.todo = RollbackOrder]]
      BY <3>1 DEF TypeOK
    <3>3. save' [p] = [save[p] EXCEPT !.pc = "rollback", !.result = r, !.todo = RollbackOrder]
      BY <3>2 DEF TypeOK
    <3>4. /\ save'[p].pc = "rollback" /\ save'[p].todo = RollbackOrder
          /\ save'[p].approved = save[p].approved /\ save'[p].strategy = save[p].strategy
          /\ save'[p].verified = save[p].verified /\ save'[p].result \in {"failed", "commit_failure"}
      BY <3>3 DEF TypeOK, Progress
    <3>5. /\ save[p].pc \in {"mkdir", "manifest", "editor", "precommit"}
          /\ entry' \in LeftBehind(p) /\ UNCHANGED <<names, folder, cleaner>>
      BY <1>4 DEF FailPrepare
    <3>6. /\ \A e \in Entries : e # Writing(p) => entry'[p][e] = entry[p][e]
          /\ save[p].pc = "mkdir" => \A e \in Entries : entry'[p][e] = entry[p][e]
      BY <3>5, LeftBehindIs DEF WritingSteps
    <3> QED
      BY <3>4, <3>5, <3>6
  <2>1. StageInv(p)'
    BY <2>0, <1>0 DEF Own, StageInv, PreStage, Hiding, Closing, At, TypeOK, Naming, Progress
  <2>2. DisplacedInv(p)'
    BY <2>0, <1>0
    DEF Own, DisplacedInv, InPlace, Replacing, PreStage, Hiding, At, TypeOK, Naming,
        Progress
  <2>3. RecordInv(p)'
    BY <2>0, <1>0, OrdersAre
    DEF Writing, Own, RecordInv, PreStage, Closing, Failing, KeepsEdits, Prepared,
        Unrecorded, Recorded, NothingBut, Replacing, Entries, States, At, TypeOK, Naming,
        Progress
  <2>4. CleanupInv(p)'
    BY <2>0, <1>0
    DEF Own, RecordInv, CleanupInv, Remains, Recorded, Unlinking, Replacing, Closing,
        Entries, States, At, TypeOK, Naming, Progress
  <2> QED
    BY <2>1, <2>2, <2>3, <2>4 DEF Own
<1>5. CASE CheckUnreadable(p)
  <2>1. StageInv(p)'
    BY <1>5, <1>0
    DEF CheckUnreadable, Return, DropStage, Own, StageInv, PreStage, Hiding, Closing, At,
        TypeOK, Naming, Progress
  <2>2. DisplacedInv(p)'
    BY <1>5, <1>0
    DEF CheckUnreadable, Return, DropStage, Own, DisplacedInv, InPlace, Replacing, PreStage,
        Hiding, At, TypeOK, Naming, Progress
  <2>3. RecordInv(p)'
    BY <1>5, <1>0
    DEF CheckUnreadable, Return, DropStage, Own, RecordInv, PreStage, Closing, Failing,
        KeepsEdits, Prepared, Unrecorded, Recorded, NothingBut, Replacing, Entries, States,
        At, TypeOK, Naming, Progress
  <2>4. CleanupInv(p)'
    BY <1>5, <1>0
    DEF CheckUnreadable, Return, DropStage, Own, RecordInv, CleanupInv, Remains, Recorded,
        Unlinking, Replacing, Closing, Entries, States, At, TypeOK, Naming, Progress
  <2> QED
    BY <2>1, <2>2, <2>3, <2>4 DEF Own
<1>6. CASE FailCleanup(p)
  <2>0. /\ save[p].pc \in {"authority", "pending", "unlink"}
        /\ save'[p].pc = "retry"
        /\ save'[p].approved = save[p].approved /\ save'[p].strategy = save[p].strategy
        /\ save'[p].verified = save[p].verified
        /\ \A e \in Entries :
              \/ entry'[p][e] = entry[p][e]
              \/ /\ entry[p][e] = "absent" /\ entry'[p][e] = "partial"
                 /\ \/ save[p].pc = "authority" /\ e = "authority"
                    \/ save[p].pc = "pending" /\ e = "cleanup" /\ entry[p]["authority"] = "whole"
        /\ names' = DropStage(p) /\ UNCHANGED <<folder, cleaner>>
    <3>1. /\ save[p].pc \in {"authority", "pending", "unlink"}
          /\ entry' \in LeftBehind(p)
          /\ names' = DropStage(p) /\ UNCHANGED <<folder, cleaner>>
      BY <1>6 DEF FailCleanup
    <3>2. /\ save'[p].pc = "retry"
          /\ save'[p].approved = save[p].approved /\ save'[p].strategy = save[p].strategy
          /\ save'[p].verified = save[p].verified
      BY <1>6 DEF FailCleanup, TypeOK, Progress
    <3>3. \A e \in Entries :
              \/ entry'[p][e] = entry[p][e]
              \/ /\ entry[p][e] = "absent" /\ entry'[p][e] = "partial"
                 /\ save[p].pc \in WritingSteps /\ MayWrite(p) /\ e = Writing(p)
      BY <3>1, LeftBehindIs
    <3>4. \A e \in Entries :
              \/ entry'[p][e] = entry[p][e]
              \/ /\ entry[p][e] = "absent" /\ entry'[p][e] = "partial"
                 /\ \/ save[p].pc = "authority" /\ e = "authority"
                    \/ save[p].pc = "pending" /\ e = "cleanup" /\ entry[p]["authority"] = "whole"
      BY <3>1, <3>3 DEF WritingSteps, MayWrite, Writing, At
    <3> QED
      BY <3>1, <3>2, <3>4
  <2>1. StageInv(p)'
    BY <2>0, <1>0
    DEF DropStage, Own, StageInv, PreStage, Hiding, Closing, At, TypeOK, Naming, Progress
  <2>2. DisplacedInv(p)'
    BY <2>0, <1>0, Apart
    DEF DropStage, Own, DisplacedInv, InPlace, Replacing, PreStage, Hiding, At, TypeOK,
        Naming, Progress
  <2>3. RecordInv(p)'
    BY <2>0, <1>0
    DEF DropStage, Own, RecordInv, PreStage, Closing, Failing, KeepsEdits, Prepared,
        Unrecorded, Recorded, NothingBut, Replacing, Entries, States, At, TypeOK, Naming,
        Progress
  <2>4. CleanupInv(p)'
    BY <2>0, <1>0
    DEF DropStage, Own, RecordInv, CleanupInv, Remains, Recorded, Unlinking, Replacing,
        Closing, Entries, States, At, TypeOK, Naming, Progress
  <2> QED
    BY <2>1, <2>2, <2>3, <2>4 DEF Own
<1>7. CASE FailUndo(p)
  <2> DEFINE t == save[p].todo
  <2>1. StageInv(p)'
    BY <1>7, <1>0
    DEF FailUndo, disk, Own, StageInv, PreStage, Hiding, Closing, At, TypeOK, Naming,
        Progress
  <2>2. DisplacedInv(p)'
    BY <1>7, <1>0
    DEF FailUndo, disk, Own, DisplacedInv, InPlace, Replacing, PreStage, Hiding, At, TypeOK,
        Naming, Progress
  <2>3. RecordInv(p)'
    <3>1. /\ save'[p].todo \in {<<>>, Tail(t)} /\ t \in Todo /\ t # <<>>
          /\ save[p].pc \in {"rollback", "abort"}
          /\ save'[p].pc = save[p].pc /\ save'[p].result = save[p].result
          /\ save'[p].verified = save[p].verified
          /\ UNCHANGED <<entry, folder, cleaner>>
      BY <1>7 DEF FailUndo, disk, At, TypeOK, Naming, Progress
    <3>2. \A j \in DOMAIN t : t[j] # "displaced"
      BY <3>1 DEF Own, RecordInv
    <3>3. \A j \in DOMAIN Tail(t) : Tail(t)[j] # "displaced"
      BY <3>1, <3>2, OrderKeeps
    <3>4. save'[p].todo = <<>> \/ save'[p].todo = Tail(t)
      BY <3>1
    <3>5. \A j \in DOMAIN save'[p].todo : save'[p].todo[j] # "displaced"
      BY <3>3, <3>4, OrdersAre
    <3> QED
      BY <3>1, <3>5 DEF Own, RecordInv, PreStage, Closing, At
  <2>4. CleanupInv(p)'
    BY <1>7, <1>0
    DEF FailUndo, disk, Own, RecordInv, CleanupInv, Remains, Recorded, Unlinking, Replacing,
        Closing, Entries, States, At, TypeOK, Naming, Progress
  <2> QED
    BY <2>1, <2>2, <2>3, <2>4 DEF Own
<1> QED
  BY <1>1, <1>2, <1>3, <1>4, <1>5, <1>6, <1>7

(* A save that a crash ends, wherever it was, leaves what the restart needs.  *)
LEMMA CrashLeaves ==
    ASSUME TypeOK, TypeOK', NEW p \in Saves, Own(p),
           save[p].pc \notin {"closed", "open", "done", "crashed"},
           entry' \in LeftBehind(p), save' = [save EXCEPT ![p].pc = "crashed"],
           folder' = folder, cleaner' = cleaner, names'.stage[p] = names.stage[p],
           names'.kept[p] = names.kept[p],
           \/ names'.displaced[p] = names.displaced[p]
           \/ InPlace(p) /\ names'.displaced[p] = CopyNode(p) /\ At(p, "commit")
    PROVE  Own(p)'
<1>0. /\ save'[p].pc = "crashed" /\ save'[p].verified = save[p].verified
      /\ save'[p].approved = save[p].approved /\ save'[p].strategy = save[p].strategy
      /\ save'[p].result = save[p].result
      /\ \A e \in Entries :
                 \/ entry'[p][e] = entry[p][e]
                 \/ /\ entry[p][e] = "absent" /\ entry'[p][e] = "partial"
                    /\ save[p].pc \in WritingSteps /\ MayWrite(p) /\ e = Writing(p)
  BY LeftBehindIs DEF TypeOK, Progress
<1>1. StageInv(p)'
  BY <1>0 DEF Own, StageInv, PreStage, Hiding, Closing, At, TypeOK, Naming, Progress
<1>2. DisplacedInv(p)'
  BY <1>0
  DEF Own, DisplacedInv, InPlace, Replacing, PreStage, Hiding, At, TypeOK, Naming, Progress
<1>3. ~ save[p].verified =>
          /\ entry'[p]["authority"] = "absent" /\ entry'[p]["cleanup"] = "absent"
          /\ entry'[p]["editor"] = "partial" => \A s \in States : entry'[p][s] = "absent"
  <2>1. SUFFICES ASSUME ~ save[p].verified
                 PROVE  /\ entry'[p]["authority"] = "absent" /\ entry'[p]["cleanup"] = "absent"
                        /\ entry'[p]["editor"] = "partial" => \A s \in States : entry'[p][s] = "absent"
    OBVIOUS
  <2>2. ASSUME NEW e \in Entries, entry'[p][e] # entry[p][e]
        PROVE  /\ save[p].pc \in {"manifest", "editor", "precommit", "published"}
               /\ e \notin {"authority", "cleanup"} /\ (e = "editor" <=> At(p, "editor"))
               /\ e # "manifest" => e = "editor" \/ entry[p]["editor"] = "whole"
    BY <2>1, <2>2, <1>0
    DEF Own, RecordInv, WritingSteps, Writing, Closing, NothingBut, Prepared, Entries,
        States, At
  <2>3. /\ States \subseteq Entries \ {"manifest", "editor"}
        /\ {"authority", "cleanup", "editor"} \subseteq Entries
    BY DEF Entries, States
  <2>4. /\ entry[p]["authority"] = "absent" /\ entry[p]["cleanup"] = "absent"
        /\ entry[p]["editor"] = "partial" => \A s \in States : entry[p][s] = "absent"
        /\ At(p, "editor") => \A s \in States : entry[p][s] = "absent"
    BY <2>1, <2>3 DEF Own, RecordInv, NothingBut
  <2> QED
    BY <2>2, <2>3, <2>4
<1>4. RecordInv(p)'
  BY <1>0, <1>3 DEF Own, RecordInv, PreStage, Closing, At
<1>5. ASSUME save[p].verified, NEW e \in Entries, entry'[p][e] # entry[p][e]
      PROVE  /\ entry[p][e] = "absent" /\ entry'[p][e] = "partial"
             /\ \/ e = "authority" /\ save[p].pc = "authority"
                \/ e = "cleanup" /\ save[p].pc = "pending" /\ entry[p]["authority"] = "whole"
  BY <1>0, <1>5 DEF Own, RecordInv, WritingSteps, Writing, MayWrite, Closing, At
<1>6. CleanupInv(p)'
  BY <1>0, <1>5
  DEF Own, RecordInv, CleanupInv, Remains, Recorded, Unlinking, Replacing, Closing, Entries,
      States, At, TypeOK, Naming, Progress
<1> QED
  BY <1>1, <1>2, <1>4, <1>6 DEF Own

(* A save that a failed call ends during its commit has its copies.          *)
LEMMA FailedCommitLeaves ==
    ASSUME TypeOK, TypeOK', NEW p \in Saves, Own(p),
           save[p].pc \in {"commit", "swapped", "aside", "copied", "published"},
           \A e \in Entries : \/ entry'[p][e] = entry[p][e]
                              \/ /\ e \notin {"manifest", "editor", "precommit"}
                                 /\ e \notin {"authority", "cleanup"},
           save' = [save EXCEPT ![p].pc = "done", ![p].result = "commit_failure"],
           folder' = folder, cleaner' = cleaner,
           \/ names'.displaced[p] \in {names.displaced[p], NoNode}
           \/ InPlace(p) /\ names'.displaced[p] = CopyNode(p) /\ At(p, "commit")
    PROVE  Own(p)'
<1>0. /\ save'[p].pc = "done" /\ save'[p].verified = save[p].verified
      /\ save'[p].approved = save[p].approved /\ save'[p].strategy = save[p].strategy
      /\ ~ save[p].verified /\ Prepared(p)
  BY DEF Own, RecordInv, Closing, TypeOK, Progress
<1>1. StageInv(p)'
  BY <1>0 DEF Own, StageInv, PreStage, Hiding, Closing, At, TypeOK, Naming, Progress
<1>2. DisplacedInv(p)'
  BY <1>0, Apart
  DEF Own, DisplacedInv, InPlace, Replacing, PreStage, Hiding, At, TypeOK, Naming, Progress
<1>3. /\ entry'[p]["authority"] = "absent" /\ entry'[p]["cleanup"] = "absent"
      /\ entry'[p]["editor"] = "whole" /\ entry'[p]["precommit"] = "whole"
  BY <1>0 DEF Prepared, Entries, States
<1>4. RecordInv(p)'
  BY <1>0, <1>3 DEF Own, RecordInv, KeepsEdits, PreStage, Closing, At
<1>5. CleanupInv(p)'
  BY <1>0 DEF CleanupInv
<1> QED
  BY <1>1, <1>2, <1>4, <1>5 DEF Own

(* The later process takes nothing a verified save still needs.              *)
LEMMA RecoveringKeeps ==
    ASSUME TypeOK, TypeOK', NEW p \in Saves, Own(p), Recover(p)
    PROVE  Own(p)'
<1>0. /\ Quiet(p) /\ save' = save /\ save[p].verified
      /\ (Hidden(p) => Hidden(p)') /\ content' = content
      /\ save[p].pc \in Closing \cup {"done", "crashed"}
      /\ At(p, "done") => save[p].result \notin Failing
  BY RecoveringQuietly, QuietHides DEF Own, RecordInv
<1>1. /\ names'.stage = names.stage /\ names'.kept = names.kept
      /\ names'.displaced[p] \in {names.displaced[p], NoNode}
  BY DEF Recover, RetryResumed, ResumedUnlink, UndisplacedBy, ResumedEnds, TypeOK, Naming
<1>2. StageInv(p)'
  BY <1>0, <1>1 DEF Own, StageInv, PreStage, Hiding, Closing, At
<1>3. DisplacedInv(p)'
  BY <1>0, <1>1, Apart
  DEF Own, DisplacedInv, InPlace, Replacing, PreStage, Hiding, Closing, At
<1>4. RecordInv(p)'
  BY <1>0 DEF RecordInv, PreStage, Closing, At
<1>5. CleanupInv(p)'
  <2>1. CASE RetryResumed(p)
    <3>1. /\ \A e \in Entries : entry'[p][e] = (IF e = "cleanup" THEN "whole" ELSE entry[p][e])
          /\ entry[p]["authority"] = "whole"
          /\ names' = names /\ folder' = folder /\ cleaner'[p].todo = ResumedOrder
          /\ {"editor", "cleanup", "authority", "manifest", "precommit", "created",
               "replaced", "conflict"} \subseteq Entries
      BY <2>1 DEF RetryResumed, TypeOK, Entries, States
    <3>2. Unlinking(p, cleaner[p].todo)'
      BY <3>1, OrdersAre DEF Unlinking
    <3>3. At(p, "unlink")' => Unlinking(p, save[p].todo)'
      BY <3>1, <1>0 DEF Own, CleanupInv, Unlinking, Remains, At
    <3>4. /\ Remains(p)' <=> Remains(p)
          /\ Recorded(p)' <=> Recorded(p)
      BY <3>1, <1>0 DEF Remains, Recorded, Replacing
    <3>5. /\ entry'[p]["conflict"] = "absent" /\ entry'[p]["editor"] # "partial"
          /\ Remains(p)' =>
               /\ folder'[p] /\ Recorded(p)'
               /\ entry'[p]["manifest"] = "whole" /\ entry'[p]["precommit"] = "whole"
               /\ entry'[p]["cleanup"] = "absent" => entry'[p]["editor"] = "whole"
               /\ entry'[p]["cleanup"] # "absent" => entry'[p]["authority"] = "whole"
      BY <3>1, <3>4, <1>0 DEF Own, CleanupInv
    <3> QED
      BY <3>2, <3>3, <3>5 DEF CleanupInv
  <2>2. CASE ResumedUnlink(p)
    <3> DEFINE t == cleaner[p].todo
    <3>1. /\ t \in Todo /\ t # <<>> /\ cleaner'[p].todo = Tail(t) /\ folder' = folder
          /\ cleaner'[p].pc = cleaner[p].pc /\ cleaner[p].pc = "unlink"
          /\ entry' = Unlinked(p, Head(t)) /\ names' = UndisplacedBy(p, Head(t))
      BY <2>2 DEF ResumedUnlink, TypeOK
    <3>2. Unlinking(p, t) /\ CleanupInv(p) /\ RecordInv(p)
      BY <3>1, <1>0 DEF Own, CleanupInv
    <3>3. /\ save'[p].verified /\ save'[p].approved = save[p].approved
          /\ save'[p].todo = save[p].todo /\ (At(p, "unlink")' => At(p, "unlink"))
      BY <1>0 DEF At
    <3> QED
      BY <3>1, <3>2, <3>3, <1>0, UnlinkingKeeps
  <2>3. CASE ResumedEnds(p)
    <3>1. /\ UNCHANGED <<names, entry, save>> /\ cleaner'[p].pc = "idle"
          /\ folder'[p] = folder[p] \/ FolderEmpty(p)
      BY <2>3 DEF ResumedEnds, TypeOK
    <3> QED
      BY <3>1, <1>0
      DEF FolderEmpty, Own, RecordInv, CleanupInv, Remains, Recorded, Unlinking, Replacing,
          Closing, Entries, States, At, TypeOK, Naming, Progress
  <2> QED
    BY <2>1, <2>2, <2>3 DEF Recover
<1> QED
  BY <1>2, <1>3, <1>4, <1>5 DEF Own

(* What IInv says of each save.                                              *)
LEMMA OwnIs ==
    ASSUME IInv
    PROVE  \A q \in Saves : Own(q)
BY DEF IInv, Own

(* A quiet step that keeps what IInv says of its own save keeps all of it.   *)
LEMMA QuietStep ==
    ASSUME IInv, TypeOK', NEW p \in Saves, Quiet(p), Own(p)'
    PROVE  IInv'
<1>1. \A q \in Saves : Own(q)'
  BY QuietKeeps
<1> QED
  BY <1>1, QuietKeeps DEF IInv, Own

(* The names through which a step of p can make a file public.               *)
LEMMA PublicFrom ==
    ASSUME NEW p \in Saves,
           \A q \in Saves \ {p} : /\ save'[q] = save[q]
                                  /\ names'.displaced[q] = names.displaced[q]
                                  /\ names'.stage[q] = names.stage[q] \/ Dead(q),
           NEW n \in Nodes, Public(n)'
    PROVE  \/ Public(n)
           \/ n = names'.target
           \/ At(p, "swapped")' /\ n = names'.stage[p]
           \/ n = names'.displaced[p] /\ n # CopyNode(p)
           \/ At(p, "copied")' /\ n = save'[p].fd
<1>1. CASE n = names'.target
  BY <1>1
<1>2. CASE \E q \in Saves : At(q, "swapped")' /\ n = names'.stage[q]
  BY <1>2, NodesAre DEF Public, At, Dead
<1>3. CASE \E q \in Saves : n = names'.displaced[q] /\ n # CopyNode(q)
  BY <1>3, NodesAre DEF Public
<1>4. CASE \E q \in Saves : At(q, "copied")' /\ n = save'[q].fd
  BY <1>4, NodesAre DEF Public, At
<1> QED
  BY <1>1, <1>2, <1>3, <1>4 DEF Public

(* The approved versions that verified saves displaced stay displaced while a *)
(* save that is not verified renames files.                                  *)
LEMMA SpentKeeps ==
    ASSUME TypeOK, TypeOK', NodeInv, SpentInv, \A q \in Saves : Own(q),
           NEW p \in Saves, ~ save[p].verified, ~ save'[p].verified,
           \A q \in Saves \ {p} : /\ save'[q] = save[q]
                                  /\ names'.displaced[q] = names.displaced[q],
           content' = content,
           \A n \in Nodes :
              /\ names.target # n /\ \A q \in Saves : names.stage[q] # n
              /\ n # CopyNode(p) /\ (Hidden(p) => n # StageNode(p))
              => /\ names'.target # n /\ \A q \in Saves : names'.stage[q] # n
                 /\ names'.displaced[p] # n \/ names'.displaced[p] = names.displaced[p]
    PROVE  SpentInv'
<1>1. Published' = Published
  BY DEF Published
<1>2. ASSUME NEW q \in Saves, save'[q].verified
      PROVE  /\ q # p /\ save[q].verified /\ save'[q] = save[q]
             /\ names'.displaced[q] = names.displaced[q] /\ InPlace(q)' = InPlace(q)
             /\ save[q].approved.version # Torn => save[q].approved.node \in Nodes
             /\ save[q].approved.node # CopyNode(p)
             /\ Hidden(p) => save[q].approved.node # StageNode(p)
  <2>1. q # p /\ save[q].verified /\ save'[q] = save[q]
    BY <1>2
  <2>2. save[q].approved.version # Torn => save[q].approved.node \in Nodes
    BY DEF Own, DisplacedInv, Replacing, TypeOK, Progress, Fingerprints, Places
  <2>3. save[q].approved.node # CopyNode(p) /\ (Hidden(p) => save[q].approved.node # StageNode(p))
    BY DEF NodeInv, Elsewhere, Hidden
  <2> QED
    BY <2>1, <2>2, <2>3 DEF InPlace, Replacing
<1>3. ASSUME NEW q \in Saves, save'[q].verified
      PROVE  LET a == save'[q].approved  d == names'.displaced[q]
             IN  /\ d = CopyNode(q) => content'[d] = a.version
                 /\ d # NoNode => content'[d] = a.version \/ content'[d] \notin Published'
                 /\ a.version # Torn /\ InPlace(q)' => content'[a.node] # a.version
  BY <1>1, <1>2, <1>3 DEF SpentInv
<1>4. ASSUME NEW q \in Saves, save'[q].verified, save'[q].approved.version # Torn, ~ InPlace(q)'
      PROVE  LET a == save'[q].approved
             IN  /\ names'.target # a.node
                 /\ \A r \in Saves : /\ names'.stage[r] # a.node
                                     /\ r # q => names'.displaced[r] # a.node
  <2>1. PICK a : a = save[q].approved
    OBVIOUS
  <2>2. /\ a.node \in Nodes /\ names.target # a.node
        /\ \A r \in Saves : /\ names.stage[r] # a.node
                            /\ r # q => names.displaced[r] # a.node
    BY <2>1, <1>2, <1>4 DEF SpentInv
  <2>3. /\ names'.target # a.node /\ \A r \in Saves : names'.stage[r] # a.node
        /\ names'.displaced[p] # a.node \/ names'.displaced[p] = names.displaced[p]
    BY <2>1, <2>2, <1>2, <1>4
  <2> QED
    BY <2>1, <2>2, <2>3, <1>2, <1>4
<1> QED
  BY <1>3, <1>4 DEF SpentInv

(* A step that writes v to one file: nothing public has v yet, or it is torn  *)
(* and a transaction has the bytes.                                          *)
Writes(w, v) ==
    /\ \A n \in Nodes : Public(n)' => \/ Public(n) /\ content'[n] = content[n]
                                      \/ n = w /\ content'[n] = v
    /\ Public(w)' => /\ v = Torn \/ (Unseen(v) /\ (failures = 0 => Nowhere(v)))
                     /\ \A q \in Saves : save'[q].pc \in Unpublished => v # Edited(q)
                     /\ \A k \in externals' + 1 .. MaxExternal : v # Foreign(k)
                     /\ v = Torn => \E r \in Saves : Recoverable(r)'
    /\ externals' \in {externals, externals + 1}
    /\ failures' = 0 => failures = 0
    /\ \A q \in Saves :
          /\ save'[q].approved = save[q].approved
          /\ save'[q].pc \in Unpublished => save[q].pc \in Unpublished
          /\ Recoverable(q) => Recoverable(q)'
    /\ \A q \in Saves : At(q, "copied")' => save'[q].fd # NoNode
    /\ \A q \in Saves : At(q, "copied")' =>
          \/ /\ At(q, "copied") /\ save'[q].fd = save[q].fd
             /\ content'[CopyNode(q)] = content[CopyNode(q)]
          \/ /\ content'[CopyNode(q)] = content[save'[q].fd] /\ save'[q].fd # w
             /\ Public(save'[q].fd)
    /\ \A q \in Saves : InPlace(q)' /\ save'[q].pc \in {"published", "verify"} =>
          /\ content'[CopyNode(q)] = content[CopyNode(q)]
          /\ \/ InPlace(q) /\ save[q].pc \in {"published", "verify"} /\ v # Edited(q)
             \/ At(q, "copied") /\ w = save[q].fd /\ v = Edited(q)

(* It keeps what is said of the versions.                                    *)
LEMMA WritingKeeps ==
    ASSUME TypeOK, TypeOK', FreshInv, HomeInv, TornInv, NEW w \in Nodes, NEW v, Writes(w, v)
    PROVE  FreshInv' /\ HomeInv' /\ TornInv'
<1> USE DEF Writes
<1>1. \A u : Unseen(u) => Unseen(u)'
  BY DEF Unseen
<1>2. ASSUME failures = 0, NEW u, Nowhere(u), Public(w)' => v # u
      PROVE  Nowhere(u)'
  BY <1>2 DEF Nowhere
<1>3. \A k \in externals' + 1 .. MaxExternal : k \in externals + 1 .. MaxExternal
  <2>1. externals \in Nat /\ externals' \in Nat /\ externals' >= externals /\ MaxExternal \in Nat
    BY ConstantsAssumption DEF ConstantsAssumption, TypeOK
  <2>2. ASSUME NEW x \in Nat, NEW y \in Nat, NEW z \in Nat, y >= x, NEW k \in y + 1 .. z
        PROVE  k \in x + 1 .. z
    BY ONLY <2>2
  <2> QED
    BY <2>1, <2>2
<1>4. FreshInv'
  <2>1. ASSUME NEW q \in Saves
        PROVE  /\ save'[q].approved.version # Edited(q)
               /\ save'[q].pc \in Unpublished => Unseen(Edited(q))'
               /\ save'[q].pc \in Unpublished /\ failures' = 0 => Nowhere(Edited(q))'
    BY <1>1, <1>2 DEF FreshInv
  <2>2. ASSUME NEW k \in externals' + 1 .. MaxExternal
        PROVE  Unseen(Foreign(k))' /\ (failures' = 0 => Nowhere(Foreign(k))')
    BY <1>1, <1>2, <1>3 DEF FreshInv
  <2> QED
    BY <2>1, <2>2 DEF FreshInv
<1>5. HomeInv'
  <2>1. SUFFICES ASSUME failures = 0
                 PROVE  HomeInv'
    BY DEF HomeInv
  <2>2. ASSUME NEW m \in Nodes, Public(m)', content'[m] # Torn
        PROVE  OnlyAt(content[m], m)'
    <3>1. SUFFICES ASSUME NEW n \in Nodes, Public(n)', content'[n] = content'[m]
                   PROVE  n = m
      BY DEF OnlyAt
    <3>2. CASE /\ Public(n) /\ content'[n] = content[n]
               /\ Public(m) /\ content'[m] = content[m]
      BY <2>1, <2>2, <3>1, <3>2 DEF HomeInv, OnlyAt
    <3>3. CASE n = w /\ content'[n] = v
      BY <2>1, <2>2, <3>1, <3>3 DEF Nowhere
    <3>4. CASE m = w /\ content'[m] = v
      BY <2>1, <2>2, <3>1, <3>4 DEF Nowhere
    <3> QED
      BY <2>2, <3>1, <3>2, <3>3, <3>4
  <2>3. ASSUME NEW q \in Saves, NEW a, a = save[q].approved, a.version # Torn
        PROVE  /\ OnlyAt(a.version, a.node) /\ OnlyAt(a.version, a.node)'
               /\ Public(w)' => v # a.version
    <3>1. OnlyAt(a.version, a.node)
      BY <2>1, <2>3 DEF HomeInv
    <3>2. Public(w)' => v # a.version
      BY <2>3 DEF Unseen
    <3> QED
      BY <3>1, <3>2 DEF OnlyAt
  <2>4. ASSUME NEW q \in Saves, NEW a, a = save[q].approved, a.version # Torn, At(q, "copied")'
        PROVE  /\ content'[save'[q].fd] = a.version => content'[CopyNode(q)] = a.version
               /\ content'[CopyNode(q)] = a.version => save'[q].fd = a.node
    <3>1. save'[q].fd \in Nodes /\ Public(save[q].fd)'
      BY <2>4 DEF Public, TypeOK, Progress, Places
    <3>2. CASE /\ At(q, "copied") /\ save'[q].fd = save[q].fd
               /\ content'[CopyNode(q)] = content[CopyNode(q)]
      <4>1. /\ content[save[q].fd] = a.version => content[CopyNode(q)] = a.version
            /\ content[CopyNode(q)] = a.version => save[q].fd = a.node
        BY <2>1, <2>4, <3>2 DEF HomeInv
      <4>2. content'[save'[q].fd] = a.version => content[save[q].fd] = a.version
        <5>1. PICK d \in Nodes : d = save'[q].fd
          BY <3>1
        <5>2. Public(d)'
          BY <3>1, <5>1 DEF Public
        <5> QED
          BY <2>3, <2>4, <3>2, <5>1, <5>2
      <4> QED
        BY <3>2, <4>1, <4>2
    <3>3. CASE /\ content'[CopyNode(q)] = content[save'[q].fd] /\ save'[q].fd # w
               /\ Public(save'[q].fd)
      <4>1. PICK d \in Nodes : d = save'[q].fd
        BY <3>1, <3>3 DEF Public
      <4>2. Public(d) /\ Public(d)' /\ content'[d] = content[d]
        BY <2>4, <3>3, <4>1 DEF Public, At
      <4> QED
        BY <2>3, <2>4, <3>3, <4>1, <4>2 DEF OnlyAt
    <3> QED
      BY <2>4, <3>2, <3>3
  <2>5. ASSUME NEW q \in Saves, NEW a, a = save[q].approved, a.version # Torn, InPlace(q)',
               save'[q].pc \in {"published", "verify"}, content'[CopyNode(q)] = a.version
        PROVE  OnlyAt(Edited(q), a.node)'
    <3>1. CASE InPlace(q) /\ save[q].pc \in {"published", "verify"} /\ v # Edited(q)
      <4>1. OnlyAt(Edited(q), a.node)
        BY <2>1, <2>5, <3>1 DEF HomeInv
      <4> QED
        BY <3>1, <4>1 DEF OnlyAt
    <3>2. CASE At(q, "copied") /\ w = save[q].fd /\ v = Edited(q)
      <4>1. w = a.node
        BY <2>1, <2>5, <3>2 DEF HomeInv
      <4>2. Nowhere(Edited(q))
        BY <2>1, <3>2 DEF FreshInv, Unpublished, Hiding, At
      <4> QED
        BY <4>1, <4>2 DEF OnlyAt, Nowhere
    <3> QED
      BY <2>5, <3>1, <3>2
  <2> QED
    BY <2>2, <2>3, <2>4, <2>5 DEF HomeInv
<1>6. TornInv'
  <2>1. SUFFICES ASSUME \/ \E n \in Nodes : Public(n)' /\ content'[n] = Torn
                        \/ \E q \in Saves : At(q, "copied")' /\ content'[CopyNode(q)] = Torn
                 PROVE  \E r \in Saves : Recoverable(r)'
    BY DEF TornInv
  <2>2. CASE Public(w)' /\ v = Torn
    BY <2>2
  <2>3. CASE ~ (Public(w)' /\ v = Torn)
    <3>1. ASSUME NEW n \in Nodes, Public(n)', content'[n] = Torn
          PROVE  \E r \in Saves : Recoverable(r)
      BY <2>3, <3>1 DEF TornInv
    <3>2. ASSUME NEW q \in Saves, At(q, "copied")', content'[CopyNode(q)] = Torn
          PROVE  \E r \in Saves : Recoverable(r)
      <4>1. CASE At(q, "copied") /\ content'[CopyNode(q)] = content[CopyNode(q)]
        BY <3>2, <4>1 DEF TornInv
      <4>2. CASE content'[CopyNode(q)] = content[save'[q].fd] /\ Public(save'[q].fd)
        <5>1. save'[q].fd \in Nodes
          BY <4>2 DEF Public, TypeOK, Progress, Places
        <5> QED
          BY <3>2, <4>2, <5>1 DEF TornInv
      <4> QED
        BY <3>2, <4>1, <4>2
    <3> QED
      BY <2>1, <3>1, <3>2
  <2> QED
    BY <2>2, <2>3
<1> QED
  BY <1>4, <1>5, <1>6

(* What a write changes of the versions that verified saves displaced.       *)
Overwrites(w, v) ==
    /\ content'[w] = v /\ \A n \in Nodes : n # w => content'[n] = content[n]
    /\ \A q \in Saves : /\ save'[q].verified = save[q].verified
                        /\ save'[q].approved = save[q].approved
                        /\ save[q].verified => /\ save'[q].strategy = save[q].strategy
                                               /\ names'.displaced[q] = names.displaced[q]
    /\ names'.target \in {names.target, NoNode, w}
    /\ \A q \in Saves : /\ names'.stage[q] \in {names.stage[q], NoNode}
                        /\ names'.displaced[q] \in {names.displaced[q], w}
    /\ \A q \in Saves : save[q].verified =>
          /\ names.displaced[q] = w => v \notin Published /\ w # CopyNode(q)
          /\ save[q].approved.version # Torn /\ save[q].approved.node = w =>
                v # save[q].approved.version /\ names' = names

(* Writing a file brings back no version that a verified save replaced.      *)
LEMMA SpentWrites ==
    ASSUME TypeOK, TypeOK', SpentInv, \A q \in Saves : Own(q), NEW w \in Nodes, NEW v,
           Overwrites(w, v)
    PROVE  SpentInv'
<1> USE DEF Overwrites
<1>1. Published' = Published
  BY DEF Published
<1>2. ASSUME NEW q \in Saves, save[q].verified, NEW a, a = save[q].approved,
             NEW d, d = names.displaced[q]
      PROVE  /\ InPlace(q)' = InPlace(q) /\ save'[q].approved = a /\ names'.displaced[q] = d
             /\ a.version # Torn => a.node \in Nodes
             /\ d \in Nodes \cup {NoNode}
             /\ d = CopyNode(q) => content[d] = a.version
             /\ d # NoNode => content[d] = a.version \/ content[d] \notin Published
             /\ a.version # Torn =>
                  IF InPlace(q) THEN content[a.node] # a.version
                  ELSE /\ names.target # a.node
                       /\ \A r \in Saves : /\ names.stage[r] # a.node
                                           /\ r # q => names.displaced[r] # a.node
  <2>1. a.version # Torn => a.node \in Nodes
    BY <1>2 DEF Own, DisplacedInv, Replacing, TypeOK, Progress, Fingerprints, Places
  <2>2. d \in Nodes \cup {NoNode}
    BY <1>2 DEF TypeOK, Naming, Places
  <2>3. InPlace(q)' = InPlace(q) /\ save'[q].approved = a /\ names'.displaced[q] = d
    BY <1>2 DEF InPlace, Replacing
  <2> QED
    BY <1>2, <2>1, <2>2, <2>3 DEF SpentInv
<1>3. ASSUME NEW q \in Saves, save[q].verified, NEW a, a = save[q].approved,
             NEW d, d = names.displaced[q]
      PROVE  /\ d = CopyNode(q) => content'[d] = a.version
             /\ d # NoNode => content'[d] = a.version \/ content'[d] \notin Published
             /\ a.version # Torn =>
                  IF InPlace(q) THEN content'[a.node] # a.version
                  ELSE /\ names'.target # a.node
                       /\ \A r \in Saves : /\ names'.stage[r] # a.node
                                           /\ r # q => names'.displaced[r] # a.node
  <2>1. /\ d = CopyNode(q) => content'[d] = a.version
        /\ d # NoNode => content'[d] = a.version \/ content'[d] \notin Published
    <3>1. CASE d = w
      <4>1. v \notin Published /\ w # CopyNode(q) /\ content'[d] = v
        BY <1>3, <3>1
      <4> QED
        BY <3>1, <4>1
    <3>2. CASE d # w
      BY <1>2, <1>3, <3>2, KindsAre, Apart
    <3> QED
      BY <3>1, <3>2
  <2>2. a.version # Torn /\ InPlace(q) => content'[a.node] # a.version
    BY <1>2, <1>3
  <2>3. ASSUME a.version # Torn, ~ InPlace(q)
        PROVE  /\ names'.target # a.node
               /\ \A r \in Saves : /\ names'.stage[r] # a.node
                                   /\ r # q => names'.displaced[r] # a.node
    <3>1. a.node \in Nodes /\ a.node # NoNode
      BY <1>2, <1>3, <2>3, NodesAre
    <3>2. /\ names.target # a.node
          /\ \A r \in Saves : /\ names.stage[r] # a.node
                              /\ r # q => names.displaced[r] # a.node
      BY <1>2, <1>3, <2>3
    <3>3. a.node = w => names' = names
      BY <1>3, <2>3
    <3> QED
      BY <3>1, <3>2, <3>3
  <2> QED
    BY <2>1, <2>2, <2>3
<1>4. ASSUME NEW q \in Saves, save'[q].verified
      PROVE  LET a == save'[q].approved  d == names'.displaced[q]
             IN  /\ d = CopyNode(q) => content'[d] = a.version
                 /\ d # NoNode => content'[d] = a.version \/ content'[d] \notin Published'
                 /\ a.version # Torn =>
                      IF InPlace(q)' THEN content'[a.node] # a.version
                      ELSE /\ names'.target # a.node
                           /\ \A r \in Saves : /\ names'.stage[r] # a.node
                                               /\ r # q => names'.displaced[r] # a.node
  <2>1. PICK a, d : a = save[q].approved /\ d = names.displaced[q]
    OBVIOUS
  <2>2. /\ save[q].verified /\ InPlace(q)' = InPlace(q)
        /\ save'[q].approved = a /\ names'.displaced[q] = d
    BY <1>2, <1>4, <2>1
  <2> QED
    BY <1>1, <1>3, <2>1, <2>2
<1> QED
  BY <1>4 DEF SpentInv

(* Writing a file changes no name's place.                                   *)
LEMMA ElsewhereStays ==
    ASSUME names' = names,
           \A q \in Saves : /\ save'[q].approved = save[q].approved
                            /\ At(q, "copied")' => At(q, "copied") /\ save'[q].fd = save[q].fd
    PROVE  /\ \A n : Elsewhere(n) => Elsewhere(n)'
           /\ \A q \in Saves : Hidden(q) => Hidden(q)'
BY DEF Elsewhere, Hidden, At

(* The exchange publishes the stage and keeps what it displaced.            *)
LEMMA ExchangeKeeps ==
    ASSUME IInv, TypeOK', NEW p \in Saves, Exchange(p)
    PROVE  IInv'
<1>0. TypeOK /\ NodeInv /\ SpentInv /\ \A q \in Saves : Own(q)
  BY OwnIs DEF IInv
<1>1. /\ save[p].pc = "commit" /\ names.target # NoNode /\ names.displaced[p] = NoNode
      /\ names.stage[p] = StageNode(p) /\ Hidden(p) /\ content[StageNode(p)] = Edited(p)
      /\ ~ save[p].verified
  BY <1>0
  DEF Exchange, Goto, Own, StageInv, DisplacedInv, RecordInv, PreStage, Hiding, Closing,
      InPlace, Replacing, At
<1>2. /\ names'.target = StageNode(p) /\ names'.stage[p] = names.target
      /\ names'.displaced[p] = NoNode
      /\ save'[p].pc = "swapped" /\ save'[p].approved = save[p].approved
      /\ ~ save'[p].verified /\ save'[p].strategy = save[p].strategy
      /\ content' = content /\ externals' = externals /\ failures' = failures
      /\ \A q \in Saves \ {p} : Same(q)
  BY <1>0, <1>1, LeftBehindIs DEF Exchange, Goto, Same, bounds, At, TypeOK, Naming, Progress
<1>3. Spread(p)
  <2>1. ASSUME NEW n \in Nodes, Public(n)'
        PROVE  \/ Public(n)
               \/ /\ n = StageNode(p) /\ content[n] = Edited(p)
                  /\ save[p].pc \in Unpublished /\ save'[p].pc \notin Unpublished
    <3>1. \/ Public(n)
          \/ n = names'.target
          \/ n = names'.stage[p] /\ At(p, "swapped")'
          \/ n = names'.displaced[p] /\ n # CopyNode(p)
      BY <1>2, <2>1, PublicFrom DEF Same, At
    <3>2. n = names.target => Public(n)
      BY NodesAre DEF Public
    <3>3. At(p, "swapped") /\ n = names.stage[p] => Public(n)
      BY NodesAre DEF Public
    <3>4. n = names.displaced[p] /\ names.displaced[p] # CopyNode(p) => Public(n)
      BY NodesAre DEF Public
    <3>5. n # NoNode /\ (~ InPlace(p) => names.displaced[p] # CopyNode(p))
      BY <1>0, NodesAre DEF Own, DisplacedInv
    <3> QED
      BY <1>1, <1>2, <3>1, <3>2, <3>3, <3>4, <3>5 DEF Unpublished, PreStage, Hiding, At
  <2>2. Tries(p)
    BY <1>1, <1>2 DEF Tries, Ended, Closing, MayFail, At
  <2>3. InPlace(p)' /\ save'[p].pc \in {"published", "verify"} =>
            InPlace(p) /\ save[p].pc \in {"published", "verify"}
    BY <1>0, <1>1, <1>2 DEF InPlace, Replacing, Own, DisplacedInv, At
  <2> QED
    BY <1>1, <1>2, <2>1, <2>2, <2>3 DEF Spread, Same, Unpublished, PreStage, Hiding, At
<1>4. FreshInv' /\ HomeInv' /\ TornInv' /\ FailureInv'
  BY <1>3, SpreadKeeps DEF IInv
<1>5. NodeInv'
  <2>1. /\ \A q \in Saves : names'.target # NoNode =>
              names'.target # names'.stage[q] /\ names'.target # names'.displaced[q]
        /\ \A q, r \in Saves : names'.stage[q] # NoNode =>
              names'.stage[q] # names'.displaced[r] /\ (q # r => names'.stage[q] # names'.stage[r])
        /\ \A q, r \in Saves : names'.displaced[q] # NoNode /\ q # r =>
              names'.displaced[q] # names'.displaced[r]
    BY <1>0, <1>1, <1>2, Apart DEF NodeInv, Elsewhere, Same, Hidden
  <2>2. ASSUME NEW n \in Nodes, Elsewhere(n), names.displaced[p] # n, n # StageNode(p)
        PROVE  Elsewhere(n)'
    BY <1>0, <1>1, <1>2, <2>2, NodesAre DEF Elsewhere, Same, At
  <2>3. \A q \in Saves : Elsewhere(CopyNode(q))'
    <3>1. ASSUME NEW q \in Saves
          PROVE  Elsewhere(CopyNode(q))'
      <4>1. q = p /\ ~ InPlace(p) => names.displaced[p] # CopyNode(q)
        BY <1>0 DEF Own, DisplacedInv
      <4>2. Elsewhere(CopyNode(q)) /\ CopyNode(q) \in Nodes /\ CopyNode(q) # StageNode(p)
            /\ CopyNode(q) # NoNode
        BY <1>0, Apart, KindsAre DEF NodeInv
      <4>3. q # p => names.displaced[p] # CopyNode(q)
        BY <1>0 DEF NodeInv
      <4> QED
        BY <1>0, <1>1, <1>2, <2>2, <4>1, <4>2, <4>3, Apart DEF Elsewhere, Same, At
    <3> QED
      BY <3>1
  <2>4. \A q, r \in Saves : q # r => names'.displaced[r] # CopyNode(q)
    BY <1>0, <1>1, <1>2, Apart DEF NodeInv, Elsewhere, Same
  <2>5. ASSUME NEW k \in externals + 1 .. MaxExternal
        PROVE  Elsewhere(ForeignNode(k))' /\ \A q \in Saves : names'.displaced[q] # ForeignNode(k)
    <3>1. ForeignNode(k) \in Nodes /\ k \in Nat
      BY <1>0, KindsAre, ConstantsAssumption DEF ConstantsAssumption, TypeOK
    <3>2. Elsewhere(ForeignNode(k)) /\ \A q \in Saves : names.displaced[q] # ForeignNode(k)
      BY <1>0 DEF NodeInv
    <3> QED
      BY <1>1, <1>2, <2>2, <3>1, <3>2, Apart DEF Same, Elsewhere
  <2> QED
    BY <1>2, <2>1, <2>3, <2>4, <2>5 DEF NodeInv
<1>6. SpentInv'
  <2>1. ASSUME NEW n \in Nodes, names.target # n, \A q \in Saves : names.stage[q] # n,
               n # CopyNode(p), Hidden(p) => n # StageNode(p)
        PROVE  /\ names'.target # n /\ \A q \in Saves : names'.stage[q] # n
               /\ names'.displaced[p] # n \/ names'.displaced[p] = names.displaced[p]
    BY <1>1, <1>2, <2>1, NodesAre DEF Same
  <2> QED
    BY <1>0, <1>1, <1>2, <2>1, SpentKeeps DEF Same
<1>7. ASSUME NEW q \in Saves \ {p}
      PROVE  Own(q)'
  <2>1. Hidden(q) => Hidden(q)'
    BY <1>0, <1>1, <1>2, Apart DEF Hidden, Same, At
  <2> QED
    BY <1>0, <1>2, <2>1, OthersKeep DEF Same
<1>8. Own(p)'
  <2>1. StageInv(p)'
    BY <1>0, <1>1, <1>2, Apart
    DEF Exchange, Goto, Hidden, Same, NodeInv, Elsewhere, bounds, Own, StageInv, PreStage,
        Hiding, Closing, At, TypeOK, Naming, Progress
  <2>2. DisplacedInv(p)'
    BY <1>0, <1>1, <1>2, Apart
    DEF Exchange, Goto, NodeInv, Elsewhere, bounds, Own, DisplacedInv, InPlace, Replacing,
        PreStage, Hiding, At, TypeOK, Naming, Progress
  <2>3. RecordInv(p)'
    BY <1>0, <1>1, <1>2
    DEF Exchange, Goto, bounds, Own, RecordInv, PreStage, Closing, Failing, KeepsEdits,
        Prepared, Unrecorded, Recorded, NothingBut, Replacing, Entries, States, At, TypeOK,
        Naming, Progress
  <2>4. CleanupInv(p)'
    BY <1>2 DEF CleanupInv
  <2> QED
    BY <2>1, <2>2, <2>3, <2>4 DEF Own
<1> QED
  BY <1>4, <1>5, <1>6, <1>7, <1>8 DEF IInv, Own

(* The displaced file is moved into the folder.                             *)
LEMMA MoveDisplacedKeeps ==
    ASSUME IInv, TypeOK', NEW p \in Saves, MoveDisplaced(p)
    PROVE  IInv'
<1>0. TypeOK /\ NodeInv /\ SpentInv /\ \A q \in Saves : Own(q)
  BY OwnIs DEF IInv
<1>1. /\ save[p].pc = "swapped" /\ names.stage[p] \notin {NoNode, StageNode(p)}
      /\ names.displaced[p] = NoNode /\ ~ InPlace(p)
      /\ ~ save[p].verified
  BY <1>0
  DEF MoveDisplaced, Goto, Own, StageInv, DisplacedInv, RecordInv, PreStage, Hiding,
      Closing, InPlace, Replacing, At
<1>2. /\ names'.target = names.target /\ names'.stage[p] = NoNode
      /\ names'.displaced[p] = names.stage[p]
      /\ save'[p].pc = "published" /\ save'[p].approved = save[p].approved
      /\ ~ save'[p].verified /\ save'[p].strategy = save[p].strategy
      /\ content' = content /\ externals' = externals /\ failures' = failures
      /\ \A q \in Saves \ {p} : Same(q)
  BY <1>0, <1>1, LeftBehindIs
  DEF MoveDisplaced, Goto, Same, bounds, At, TypeOK, Naming, Progress
<1>3. Spread(p)
  <2>1. ASSUME NEW n \in Nodes, Public(n)'
        PROVE  \/ Public(n)
               \/ /\ n = StageNode(p) /\ content[n] = Edited(p)
                  /\ save[p].pc \in Unpublished /\ save'[p].pc \notin Unpublished
    <3>1. \/ Public(n)
          \/ n = names'.target
          \/ n = names'.stage[p] /\ At(p, "swapped")'
          \/ n = names'.displaced[p] /\ n # CopyNode(p)
      BY <1>2, <2>1, PublicFrom DEF Same, At
    <3>2. n = names.target => Public(n)
      BY NodesAre DEF Public
    <3>3. At(p, "swapped") /\ n = names.stage[p] => Public(n)
      BY NodesAre DEF Public
    <3>4. n = names.displaced[p] /\ names.displaced[p] # CopyNode(p) => Public(n)
      BY NodesAre DEF Public
    <3>5. n # NoNode /\ (~ InPlace(p) => names.displaced[p] # CopyNode(p))
      BY <1>0, NodesAre DEF Own, DisplacedInv
    <3> QED
      BY <1>1, <1>2, <3>1, <3>2, <3>3, <3>4, <3>5 DEF Unpublished, PreStage, Hiding, At
  <2>2. Tries(p)
    BY <1>1, <1>2 DEF Tries, Ended, Closing, MayFail, At
  <2>3. InPlace(p)' /\ save'[p].pc \in {"published", "verify"} =>
            InPlace(p) /\ save[p].pc \in {"published", "verify"}
    BY <1>0, <1>1, <1>2 DEF InPlace, Replacing, Own, DisplacedInv, At
  <2> QED
    BY <1>1, <1>2, <2>1, <2>2, <2>3 DEF Spread, Same, Unpublished, PreStage, Hiding, At
<1>4. FreshInv' /\ HomeInv' /\ TornInv' /\ FailureInv'
  BY <1>3, SpreadKeeps DEF IInv
<1>5. NodeInv'
  <2>1. /\ \A q \in Saves : names'.target # NoNode =>
              names'.target # names'.stage[q] /\ names'.target # names'.displaced[q]
        /\ \A q, r \in Saves : names'.stage[q] # NoNode =>
              names'.stage[q] # names'.displaced[r] /\ (q # r => names'.stage[q] # names'.stage[r])
        /\ \A q, r \in Saves : names'.displaced[q] # NoNode /\ q # r =>
              names'.displaced[q] # names'.displaced[r]
    BY <1>0, <1>1, <1>2, Apart DEF NodeInv, Elsewhere, Same, Hidden
  <2>2. ASSUME NEW n \in Nodes, Elsewhere(n), names.displaced[p] # n, n # StageNode(p)
        PROVE  Elsewhere(n)'
    BY <1>0, <1>1, <1>2, <2>2, NodesAre DEF Elsewhere, Same, At
  <2>3. \A q \in Saves : Elsewhere(CopyNode(q))'
    <3>1. ASSUME NEW q \in Saves
          PROVE  Elsewhere(CopyNode(q))'
      <4>1. q = p /\ ~ InPlace(p) => names.displaced[p] # CopyNode(q)
        BY <1>0 DEF Own, DisplacedInv
      <4>2. Elsewhere(CopyNode(q)) /\ CopyNode(q) \in Nodes /\ CopyNode(q) # StageNode(p)
            /\ CopyNode(q) # NoNode
        BY <1>0, Apart, KindsAre DEF NodeInv
      <4>3. q # p => names.displaced[p] # CopyNode(q)
        BY <1>0 DEF NodeInv
      <4> QED
        BY <1>0, <1>1, <1>2, <2>2, <4>1, <4>2, <4>3, Apart DEF Elsewhere, Same, At
    <3> QED
      BY <3>1
  <2>4. \A q, r \in Saves : q # r => names'.displaced[r] # CopyNode(q)
    BY <1>0, <1>1, <1>2, Apart DEF NodeInv, Elsewhere, Same
  <2>5. ASSUME NEW k \in externals + 1 .. MaxExternal
        PROVE  Elsewhere(ForeignNode(k))' /\ \A q \in Saves : names'.displaced[q] # ForeignNode(k)
    <3>1. ForeignNode(k) \in Nodes /\ k \in Nat
      BY <1>0, KindsAre, ConstantsAssumption DEF ConstantsAssumption, TypeOK
    <3>2. Elsewhere(ForeignNode(k)) /\ \A q \in Saves : names.displaced[q] # ForeignNode(k)
      BY <1>0 DEF NodeInv
    <3> QED
      BY <1>1, <1>2, <2>2, <3>1, <3>2, Apart DEF Same, Elsewhere
  <2> QED
    BY <1>2, <2>1, <2>3, <2>4, <2>5 DEF NodeInv
<1>6. SpentInv'
  <2>1. ASSUME NEW n \in Nodes, names.target # n, \A q \in Saves : names.stage[q] # n,
               n # CopyNode(p), Hidden(p) => n # StageNode(p)
        PROVE  /\ names'.target # n /\ \A q \in Saves : names'.stage[q] # n
               /\ names'.displaced[p] # n \/ names'.displaced[p] = names.displaced[p]
    BY <1>1, <1>2, <2>1, NodesAre DEF Same
  <2> QED
    BY <1>0, <1>1, <1>2, <2>1, SpentKeeps DEF Same
<1>7. ASSUME NEW q \in Saves \ {p}
      PROVE  Own(q)'
  <2>1. Hidden(q) => Hidden(q)'
    BY <1>0, <1>1, <1>2, Apart DEF Hidden, Same, At
  <2> QED
    BY <1>0, <1>2, <2>1, OthersKeep DEF Same
<1>8. Own(p)'
  <2>1. StageInv(p)'
    BY <1>0, <1>1, <1>2, Apart
    DEF MoveDisplaced, Goto, Hidden, Same, NodeInv, Elsewhere, bounds, Own, StageInv,
        PreStage, Hiding, Closing, At, TypeOK, Naming, Progress
  <2>2. DisplacedInv(p)'
    BY <1>0, <1>1, <1>2, Apart
    DEF MoveDisplaced, Goto, NodeInv, Elsewhere, bounds, Own, DisplacedInv, InPlace,
        Replacing, PreStage, Hiding, At, TypeOK, Naming, Progress
  <2>3. RecordInv(p)'
    BY <1>0, <1>1, <1>2
    DEF MoveDisplaced, Goto, bounds, Own, RecordInv, PreStage, Closing, Failing, KeepsEdits,
        Prepared, Unrecorded, Recorded, NothingBut, Replacing, Entries, States, At, TypeOK,
        Naming, Progress
  <2>4. CleanupInv(p)'
    BY <1>2 DEF CleanupInv
  <2> QED
    BY <2>1, <2>2, <2>3, <2>4 DEF Own
<1> QED
  BY <1>4, <1>5, <1>6, <1>7, <1>8 DEF IInv, Own

(* The target is moved into the folder.                                     *)
LEMMA MoveAsideKeeps ==
    ASSUME IInv, TypeOK', NEW p \in Saves, MoveAside(p)
    PROVE  IInv'
<1>0. TypeOK /\ NodeInv /\ SpentInv /\ \A q \in Saves : Own(q)
  BY OwnIs DEF IInv
<1>1. /\ save[p].pc = "commit" /\ names.target # NoNode /\ names.displaced[p] = NoNode
      /\ names.stage[p] = StageNode(p) /\ Hidden(p) /\ content[StageNode(p)] = Edited(p)
      /\ ~ save[p].verified
  BY <1>0
  DEF MoveAside, Own, StageInv, DisplacedInv, RecordInv, PreStage, Hiding, Closing, InPlace,
      Replacing, At
<1>2. /\ names'.target = NoNode /\ names'.stage[p] = StageNode(p)
      /\ names'.displaced[p] = names.target
      /\ save'[p].pc = "aside" /\ save'[p].approved = save[p].approved
      /\ ~ save'[p].verified
      /\ content' = content /\ externals' = externals /\ failures' = failures
      /\ \A q \in Saves \ {p} : Same(q)
  BY <1>0, <1>1, LeftBehindIs DEF MoveAside, Same, bounds, At, TypeOK, Naming, Progress
<1>3. Spread(p)
  <2>1. ASSUME NEW n \in Nodes, Public(n)'
        PROVE  \/ Public(n)
               \/ /\ n = StageNode(p) /\ content[n] = Edited(p)
                  /\ save[p].pc \in Unpublished /\ save'[p].pc \notin Unpublished
    <3>1. \/ Public(n)
          \/ n = names'.target
          \/ n = names'.stage[p] /\ At(p, "swapped")'
          \/ n = names'.displaced[p] /\ n # CopyNode(p)
      BY <1>2, <2>1, PublicFrom DEF Same, At
    <3>2. n = names.target => Public(n)
      BY NodesAre DEF Public
    <3>3. At(p, "swapped") /\ n = names.stage[p] => Public(n)
      BY NodesAre DEF Public
    <3>4. n = names.displaced[p] /\ names.displaced[p] # CopyNode(p) => Public(n)
      BY NodesAre DEF Public
    <3>5. n # NoNode /\ (~ InPlace(p) => names.displaced[p] # CopyNode(p))
      BY <1>0, NodesAre DEF Own, DisplacedInv
    <3> QED
      BY <1>1, <1>2, <3>1, <3>2, <3>3, <3>4, <3>5 DEF Unpublished, PreStage, Hiding, At
  <2>2. Tries(p)
    BY <1>1, <1>2 DEF Tries, Ended, Closing, MayFail, At
  <2>3. InPlace(p)' /\ save'[p].pc \in {"published", "verify"} =>
            InPlace(p) /\ save[p].pc \in {"published", "verify"}
    BY <1>0, <1>1, <1>2 DEF InPlace, Replacing, Own, DisplacedInv, At
  <2> QED
    BY <1>1, <1>2, <2>1, <2>2, <2>3 DEF Spread, Same, Unpublished, PreStage, Hiding, At
<1>4. FreshInv' /\ HomeInv' /\ TornInv' /\ FailureInv'
  BY <1>3, SpreadKeeps DEF IInv
<1>5. NodeInv'
  <2>1. /\ \A q \in Saves : names'.target # NoNode =>
              names'.target # names'.stage[q] /\ names'.target # names'.displaced[q]
        /\ \A q, r \in Saves : names'.stage[q] # NoNode =>
              names'.stage[q] # names'.displaced[r] /\ (q # r => names'.stage[q] # names'.stage[r])
        /\ \A q, r \in Saves : names'.displaced[q] # NoNode /\ q # r =>
              names'.displaced[q] # names'.displaced[r]
    BY <1>0, <1>1, <1>2, Apart DEF NodeInv, Elsewhere, Same, Hidden
  <2>2. ASSUME NEW n \in Nodes, Elsewhere(n), names.displaced[p] # n, n # StageNode(p)
        PROVE  Elsewhere(n)'
    BY <1>0, <1>1, <1>2, <2>2, NodesAre DEF Elsewhere, Same, At
  <2>3. \A q \in Saves : Elsewhere(CopyNode(q))'
    <3>1. ASSUME NEW q \in Saves
          PROVE  Elsewhere(CopyNode(q))'
      <4>1. q = p /\ ~ InPlace(p) => names.displaced[p] # CopyNode(q)
        BY <1>0 DEF Own, DisplacedInv
      <4>2. Elsewhere(CopyNode(q)) /\ CopyNode(q) \in Nodes /\ CopyNode(q) # StageNode(p)
            /\ CopyNode(q) # NoNode
        BY <1>0, Apart, KindsAre DEF NodeInv
      <4>3. q # p => names.displaced[p] # CopyNode(q)
        BY <1>0 DEF NodeInv
      <4> QED
        BY <1>0, <1>1, <1>2, <2>2, <4>1, <4>2, <4>3, Apart DEF Elsewhere, Same, At
    <3> QED
      BY <3>1
  <2>4. \A q, r \in Saves : q # r => names'.displaced[r] # CopyNode(q)
    BY <1>0, <1>1, <1>2, Apart DEF NodeInv, Elsewhere, Same
  <2>5. ASSUME NEW k \in externals + 1 .. MaxExternal
        PROVE  Elsewhere(ForeignNode(k))' /\ \A q \in Saves : names'.displaced[q] # ForeignNode(k)
    <3>1. ForeignNode(k) \in Nodes /\ k \in Nat
      BY <1>0, KindsAre, ConstantsAssumption DEF ConstantsAssumption, TypeOK
    <3>2. Elsewhere(ForeignNode(k)) /\ \A q \in Saves : names.displaced[q] # ForeignNode(k)
      BY <1>0 DEF NodeInv
    <3> QED
      BY <1>1, <1>2, <2>2, <3>1, <3>2, Apart DEF Same, Elsewhere
  <2> QED
    BY <1>2, <2>1, <2>3, <2>4, <2>5 DEF NodeInv
<1>6. SpentInv'
  <2>1. ASSUME NEW n \in Nodes, names.target # n, \A q \in Saves : names.stage[q] # n,
               n # CopyNode(p), Hidden(p) => n # StageNode(p)
        PROVE  /\ names'.target # n /\ \A q \in Saves : names'.stage[q] # n
               /\ names'.displaced[p] # n \/ names'.displaced[p] = names.displaced[p]
    BY <1>1, <1>2, <2>1, NodesAre DEF Same
  <2> QED
    BY <1>0, <1>1, <1>2, <2>1, SpentKeeps DEF Same
<1>7. ASSUME NEW q \in Saves \ {p}
      PROVE  Own(q)'
  <2>1. Hidden(q) => Hidden(q)'
    BY <1>0, <1>1, <1>2, Apart DEF Hidden, Same, At
  <2> QED
    BY <1>0, <1>2, <2>1, OthersKeep DEF Same
<1>8. Own(p)'
  <2>1. StageInv(p)'
    <3>1. Hidden(p)'
      BY <1>0, <1>1, <1>2, Apart DEF Hidden, Same, At
    <3>2. names.kept[p] = NoNode /\ names'.kept = names.kept
      BY <1>0, <1>1 DEF MoveAside, Own, StageInv, At, TypeOK, Naming
    <3> QED
      BY <1>1, <1>2, <3>1, <3>2 DEF StageInv, PreStage, Hiding, Closing, At
  <2>2. DisplacedInv(p)'
    BY <1>0, <1>1, <1>2, Apart
    DEF MoveAside, NodeInv, Elsewhere, bounds, Own, DisplacedInv, InPlace, Replacing,
        PreStage, Hiding, At, TypeOK, Naming, Progress
  <2>3. RecordInv(p)'
    BY <1>0, <1>1, <1>2
    DEF MoveAside, bounds, Own, RecordInv, PreStage, Closing, Failing, KeepsEdits, Prepared,
        Unrecorded, Recorded, NothingBut, Replacing, Entries, States, At, TypeOK, Naming,
        Progress
  <2>4. CleanupInv(p)'
    BY <1>2 DEF CleanupInv
  <2> QED
    BY <2>1, <2>2, <2>3, <2>4 DEF Own
<1> QED
  BY <1>4, <1>5, <1>6, <1>7, <1>8 DEF IInv, Own

(* The stage takes the free name.                                           *)
LEMMA PublishStageKeeps ==
    ASSUME IInv, TypeOK', NEW p \in Saves, PublishStage(p)
    PROVE  IInv'
<1>0. TypeOK /\ NodeInv /\ SpentInv /\ \A q \in Saves : Own(q)
  BY OwnIs DEF IInv
<1>1. /\ save[p].pc = "aside" /\ ~ InPlace(p)
      /\ names.stage[p] = StageNode(p) /\ Hidden(p) /\ content[StageNode(p)] = Edited(p)
      /\ ~ save[p].verified
  BY <1>0
  DEF PublishStage, Goto, Own, StageInv, DisplacedInv, RecordInv, PreStage, Hiding, Closing,
      InPlace, Replacing, At
<1>2. /\ names'.target = StageNode(p) /\ names'.stage[p] = NoNode
      /\ names'.displaced[p] = names.displaced[p]
      /\ save'[p].pc = "published" /\ save'[p].approved = save[p].approved
      /\ ~ save'[p].verified /\ save'[p].strategy = save[p].strategy
      /\ content' = content /\ externals' = externals /\ failures' = failures
      /\ \A q \in Saves \ {p} : Same(q)
  BY <1>0, <1>1, LeftBehindIs
  DEF PublishStage, Goto, Same, bounds, At, TypeOK, Naming, Progress
<1>3. Spread(p)
  <2>1. ASSUME NEW n \in Nodes, Public(n)'
        PROVE  \/ Public(n)
               \/ /\ n = StageNode(p) /\ content[n] = Edited(p)
                  /\ save[p].pc \in Unpublished /\ save'[p].pc \notin Unpublished
    <3>1. \/ Public(n)
          \/ n = names'.target
          \/ n = names'.stage[p] /\ At(p, "swapped")'
          \/ n = names'.displaced[p] /\ n # CopyNode(p)
      BY <1>2, <2>1, PublicFrom DEF Same, At
    <3>2. n = names.target => Public(n)
      BY NodesAre DEF Public
    <3>3. At(p, "swapped") /\ n = names.stage[p] => Public(n)
      BY NodesAre DEF Public
    <3>4. n = names.displaced[p] /\ names.displaced[p] # CopyNode(p) => Public(n)
      BY NodesAre DEF Public
    <3>5. n # NoNode /\ (~ InPlace(p) => names.displaced[p] # CopyNode(p))
      BY <1>0, NodesAre DEF Own, DisplacedInv
    <3> QED
      BY <1>1, <1>2, <3>1, <3>2, <3>3, <3>4, <3>5 DEF Unpublished, PreStage, Hiding, At
  <2>2. Tries(p)
    BY <1>1, <1>2 DEF Tries, Ended, Closing, MayFail, At
  <2>3. InPlace(p)' /\ save'[p].pc \in {"published", "verify"} =>
            InPlace(p) /\ save[p].pc \in {"published", "verify"}
    BY <1>0, <1>1, <1>2 DEF InPlace, Replacing, Own, DisplacedInv, At
  <2> QED
    BY <1>1, <1>2, <2>1, <2>2, <2>3 DEF Spread, Same, Unpublished, PreStage, Hiding, At
<1>4. FreshInv' /\ HomeInv' /\ TornInv' /\ FailureInv'
  BY <1>3, SpreadKeeps DEF IInv
<1>5. NodeInv'
  <2>1. /\ \A q \in Saves : names'.target # NoNode =>
              names'.target # names'.stage[q] /\ names'.target # names'.displaced[q]
        /\ \A q, r \in Saves : names'.stage[q] # NoNode =>
              names'.stage[q] # names'.displaced[r] /\ (q # r => names'.stage[q] # names'.stage[r])
        /\ \A q, r \in Saves : names'.displaced[q] # NoNode /\ q # r =>
              names'.displaced[q] # names'.displaced[r]
    BY <1>0, <1>1, <1>2, Apart DEF NodeInv, Elsewhere, Same, Hidden
  <2>2. ASSUME NEW n \in Nodes, Elsewhere(n), names.displaced[p] # n, n # StageNode(p)
        PROVE  Elsewhere(n)'
    BY <1>0, <1>1, <1>2, <2>2, NodesAre DEF Elsewhere, Same, At
  <2>3. \A q \in Saves : Elsewhere(CopyNode(q))'
    <3>1. ASSUME NEW q \in Saves
          PROVE  Elsewhere(CopyNode(q))'
      <4>1. q = p /\ ~ InPlace(p) => names.displaced[p] # CopyNode(q)
        BY <1>0 DEF Own, DisplacedInv
      <4>2. Elsewhere(CopyNode(q)) /\ CopyNode(q) \in Nodes /\ CopyNode(q) # StageNode(p)
            /\ CopyNode(q) # NoNode
        BY <1>0, Apart, KindsAre DEF NodeInv
      <4>3. q # p => names.displaced[p] # CopyNode(q)
        BY <1>0 DEF NodeInv
      <4> QED
        BY <1>0, <1>1, <1>2, <2>2, <4>1, <4>2, <4>3, Apart DEF Elsewhere, Same, At
    <3> QED
      BY <3>1
  <2>4. \A q, r \in Saves : q # r => names'.displaced[r] # CopyNode(q)
    BY <1>0, <1>1, <1>2, Apart DEF NodeInv, Elsewhere, Same
  <2>5. ASSUME NEW k \in externals + 1 .. MaxExternal
        PROVE  Elsewhere(ForeignNode(k))' /\ \A q \in Saves : names'.displaced[q] # ForeignNode(k)
    <3>1. ForeignNode(k) \in Nodes /\ k \in Nat
      BY <1>0, KindsAre, ConstantsAssumption DEF ConstantsAssumption, TypeOK
    <3>2. Elsewhere(ForeignNode(k)) /\ \A q \in Saves : names.displaced[q] # ForeignNode(k)
      BY <1>0 DEF NodeInv
    <3> QED
      BY <1>1, <1>2, <2>2, <3>1, <3>2, Apart DEF Same, Elsewhere
  <2> QED
    BY <1>2, <2>1, <2>3, <2>4, <2>5 DEF NodeInv
<1>6. SpentInv'
  <2>1. ASSUME NEW n \in Nodes, names.target # n, \A q \in Saves : names.stage[q] # n,
               n # CopyNode(p), Hidden(p) => n # StageNode(p)
        PROVE  /\ names'.target # n /\ \A q \in Saves : names'.stage[q] # n
               /\ names'.displaced[p] # n \/ names'.displaced[p] = names.displaced[p]
    BY <1>1, <1>2, <2>1, NodesAre DEF Same
  <2> QED
    BY <1>0, <1>1, <1>2, <2>1, SpentKeeps DEF Same
<1>7. ASSUME NEW q \in Saves \ {p}
      PROVE  Own(q)'
  <2>1. Hidden(q) => Hidden(q)'
    BY <1>0, <1>1, <1>2, Apart DEF Hidden, Same, At
  <2> QED
    BY <1>0, <1>2, <2>1, OthersKeep DEF Same
<1>8. Own(p)'
  <2>1. StageInv(p)'
    BY <1>0, <1>1, <1>2, Apart
    DEF PublishStage, Goto, Hidden, Same, NodeInv, Elsewhere, bounds, Own, StageInv,
        PreStage, Hiding, Closing, At, TypeOK, Naming, Progress
  <2>2. DisplacedInv(p)'
    BY <1>0, <1>1, <1>2, Apart
    DEF PublishStage, Goto, NodeInv, Elsewhere, bounds, Own, DisplacedInv, InPlace,
        Replacing, PreStage, Hiding, At, TypeOK, Naming, Progress
  <2>3. RecordInv(p)'
    BY <1>0, <1>1, <1>2
    DEF PublishStage, Goto, bounds, Own, RecordInv, PreStage, Closing, Failing, KeepsEdits,
        Prepared, Unrecorded, Recorded, NothingBut, Replacing, Entries, States, At, TypeOK,
        Naming, Progress
  <2>4. CleanupInv(p)'
    BY <1>2 DEF CleanupInv
  <2> QED
    BY <2>1, <2>2, <2>3, <2>4 DEF Own
<1> QED
  BY <1>4, <1>5, <1>6, <1>7, <1>8 DEF IInv, Own

(* So does the stage of a new file.                                         *)
LEMMA CreateNewKeeps ==
    ASSUME IInv, TypeOK', NEW p \in Saves, CreateNew(p)
    PROVE  IInv'
<1>0. TypeOK /\ NodeInv /\ SpentInv /\ \A q \in Saves : Own(q)
  BY OwnIs DEF IInv
<1>1. /\ save[p].pc = "commit" /\ ~ Replacing(p)
      /\ names.stage[p] = StageNode(p) /\ Hidden(p) /\ content[StageNode(p)] = Edited(p)
      /\ ~ save[p].verified
  BY <1>0
  DEF CreateNew, Goto, Own, StageInv, DisplacedInv, RecordInv, PreStage, Hiding, Closing,
      InPlace, Replacing, At
<1>2. /\ names'.target = StageNode(p) /\ names'.stage[p] = NoNode
      /\ names'.displaced[p] = names.displaced[p]
      /\ save'[p].pc = "published" /\ save'[p].approved = save[p].approved
      /\ ~ save'[p].verified /\ save'[p].strategy = save[p].strategy
      /\ content' = content /\ externals' = externals /\ failures' = failures
      /\ \A q \in Saves \ {p} : Same(q)
  BY <1>0, <1>1, LeftBehindIs
  DEF CreateNew, Goto, Same, bounds, At, TypeOK, Naming, Progress
<1>3. Spread(p)
  <2>1. ASSUME NEW n \in Nodes, Public(n)'
        PROVE  \/ Public(n)
               \/ /\ n = StageNode(p) /\ content[n] = Edited(p)
                  /\ save[p].pc \in Unpublished /\ save'[p].pc \notin Unpublished
    <3>1. \/ Public(n)
          \/ n = names'.target
          \/ n = names'.stage[p] /\ At(p, "swapped")'
          \/ n = names'.displaced[p] /\ n # CopyNode(p)
      BY <1>2, <2>1, PublicFrom DEF Same, At
    <3>2. n = names.target => Public(n)
      BY NodesAre DEF Public
    <3>3. At(p, "swapped") /\ n = names.stage[p] => Public(n)
      BY NodesAre DEF Public
    <3>4. n = names.displaced[p] /\ names.displaced[p] # CopyNode(p) => Public(n)
      BY NodesAre DEF Public
    <3>5. n # NoNode /\ (~ InPlace(p) => names.displaced[p] # CopyNode(p))
      BY <1>0, NodesAre DEF Own, DisplacedInv
    <3> QED
      BY <1>1, <1>2, <3>1, <3>2, <3>3, <3>4, <3>5 DEF Unpublished, PreStage, Hiding, At
  <2>2. Tries(p)
    BY <1>1, <1>2 DEF Tries, Ended, Closing, MayFail, At
  <2>3. InPlace(p)' /\ save'[p].pc \in {"published", "verify"} =>
            InPlace(p) /\ save[p].pc \in {"published", "verify"}
    BY <1>0, <1>1, <1>2 DEF InPlace, Replacing, Own, DisplacedInv, At
  <2> QED
    BY <1>1, <1>2, <2>1, <2>2, <2>3 DEF Spread, Same, Unpublished, PreStage, Hiding, At
<1>4. FreshInv' /\ HomeInv' /\ TornInv' /\ FailureInv'
  BY <1>3, SpreadKeeps DEF IInv
<1>5. NodeInv'
  <2>1. /\ \A q \in Saves : names'.target # NoNode =>
              names'.target # names'.stage[q] /\ names'.target # names'.displaced[q]
        /\ \A q, r \in Saves : names'.stage[q] # NoNode =>
              names'.stage[q] # names'.displaced[r] /\ (q # r => names'.stage[q] # names'.stage[r])
        /\ \A q, r \in Saves : names'.displaced[q] # NoNode /\ q # r =>
              names'.displaced[q] # names'.displaced[r]
    BY <1>0, <1>1, <1>2, Apart DEF NodeInv, Elsewhere, Same, Hidden
  <2>2. ASSUME NEW n \in Nodes, Elsewhere(n), names.displaced[p] # n, n # StageNode(p)
        PROVE  Elsewhere(n)'
    BY <1>0, <1>1, <1>2, <2>2, NodesAre DEF Elsewhere, Same, At
  <2>3. \A q \in Saves : Elsewhere(CopyNode(q))'
    <3>1. ASSUME NEW q \in Saves
          PROVE  Elsewhere(CopyNode(q))'
      <4>1. q = p /\ ~ InPlace(p) => names.displaced[p] # CopyNode(q)
        BY <1>0 DEF Own, DisplacedInv
      <4>2. Elsewhere(CopyNode(q)) /\ CopyNode(q) \in Nodes /\ CopyNode(q) # StageNode(p)
            /\ CopyNode(q) # NoNode
        BY <1>0, Apart, KindsAre DEF NodeInv
      <4>3. q # p => names.displaced[p] # CopyNode(q)
        BY <1>0 DEF NodeInv
      <4> QED
        BY <1>0, <1>1, <1>2, <2>2, <4>1, <4>2, <4>3, Apart DEF Elsewhere, Same, At
    <3> QED
      BY <3>1
  <2>4. \A q, r \in Saves : q # r => names'.displaced[r] # CopyNode(q)
    BY <1>0, <1>1, <1>2, Apart DEF NodeInv, Elsewhere, Same
  <2>5. ASSUME NEW k \in externals + 1 .. MaxExternal
        PROVE  Elsewhere(ForeignNode(k))' /\ \A q \in Saves : names'.displaced[q] # ForeignNode(k)
    <3>1. ForeignNode(k) \in Nodes /\ k \in Nat
      BY <1>0, KindsAre, ConstantsAssumption DEF ConstantsAssumption, TypeOK
    <3>2. Elsewhere(ForeignNode(k)) /\ \A q \in Saves : names.displaced[q] # ForeignNode(k)
      BY <1>0 DEF NodeInv
    <3> QED
      BY <1>1, <1>2, <2>2, <3>1, <3>2, Apart DEF Same, Elsewhere
  <2> QED
    BY <1>2, <2>1, <2>3, <2>4, <2>5 DEF NodeInv
<1>6. SpentInv'
  <2>1. ASSUME NEW n \in Nodes, names.target # n, \A q \in Saves : names.stage[q] # n,
               n # CopyNode(p), Hidden(p) => n # StageNode(p)
        PROVE  /\ names'.target # n /\ \A q \in Saves : names'.stage[q] # n
               /\ names'.displaced[p] # n \/ names'.displaced[p] = names.displaced[p]
    BY <1>1, <1>2, <2>1, NodesAre DEF Same
  <2> QED
    BY <1>0, <1>1, <1>2, <2>1, SpentKeeps DEF Same
<1>7. ASSUME NEW q \in Saves \ {p}
      PROVE  Own(q)'
  <2>1. Hidden(q) => Hidden(q)'
    BY <1>0, <1>1, <1>2, Apart DEF Hidden, Same, At
  <2> QED
    BY <1>0, <1>2, <2>1, OthersKeep DEF Same
<1>8. Own(p)'
  <2>1. StageInv(p)'
    BY <1>0, <1>1, <1>2, Apart
    DEF CreateNew, Goto, Hidden, Same, NodeInv, Elsewhere, bounds, Own, StageInv, PreStage,
        Hiding, Closing, At, TypeOK, Naming, Progress
  <2>2. DisplacedInv(p)'
    BY <1>0, <1>1, <1>2, Apart
    DEF CreateNew, Goto, NodeInv, Elsewhere, bounds, Own, DisplacedInv, InPlace, Replacing,
        PreStage, Hiding, At, TypeOK, Naming, Progress
  <2>3. RecordInv(p)'
    BY <1>0, <1>1, <1>2
    DEF CreateNew, Goto, bounds, Own, RecordInv, PreStage, Closing, Failing, KeepsEdits,
        Prepared, Unrecorded, Recorded, NothingBut, Replacing, Entries, States, At, TypeOK,
        Naming, Progress
  <2>4. CleanupInv(p)'
    BY <1>2 DEF CleanupInv
  <2> QED
    BY <2>1, <2>2, <2>3, <2>4 DEF Own
<1> QED
  BY <1>4, <1>5, <1>6, <1>7, <1>8 DEF IInv, Own

(* An exchange is swapped back.                                             *)
LEMMA SwapBackKeeps ==
    ASSUME IInv, TypeOK', NEW p \in Saves, SwapBack(p), names' \notin Kept(p)
    PROVE  IInv'
<1>0. TypeOK /\ NodeInv /\ SpentInv /\ \A q \in Saves : Own(q)
  BY OwnIs DEF IInv
<1>1. /\ save[p].pc = "swapped" /\ names.stage[p] \notin {NoNode, StageNode(p)}
      /\ names.displaced[p] = NoNode /\ ~ InPlace(p)
      /\ ~ save[p].verified
  BY <1>0
  DEF SwapBack, Return, Own, StageInv, DisplacedInv, RecordInv, PreStage, Hiding, Closing,
      InPlace, Replacing, At
<1>2. /\ names.target # NoNode
      /\ names'.target = names.stage[p] /\ names'.stage[p] \in {NoNode, names.target}
      /\ names'.displaced[p] = NoNode
      /\ save'[p].pc = "done" /\ save'[p].approved = save[p].approved
      /\ ~ save'[p].verified /\ save'[p].strategy = save[p].strategy
      /\ content' = content /\ externals' = externals /\ MayFail
      /\ \A q \in Saves \ {p} : Same(q)
  <2>1. names.target # NoNode /\ names' \in SwappedBack(p) /\ MayFail
    BY DEF SwapBack
  <2>2. /\ names'.target = names.stage[p] /\ names'.stage[p] \in {NoNode, names.target}
        /\ names'.displaced = names.displaced
        /\ \A q \in Saves \ {p} : names'.stage[q] = names.stage[q] /\ names'.kept[q] = names.kept[q]
    BY <1>0, <2>1, SwappedBackIs
  <2> QED
    BY <1>0, <1>1, <2>1, <2>2 DEF SwapBack, Return, Same, At, TypeOK, Progress
<1>3. Spread(p)
  <2>1. ASSUME NEW n \in Nodes, Public(n)'
        PROVE  \/ Public(n)
               \/ /\ n = StageNode(p) /\ content[n] = Edited(p)
                  /\ save[p].pc \in Unpublished /\ save'[p].pc \notin Unpublished
    <3>1. \/ Public(n)
          \/ n = names'.target
          \/ n = names'.stage[p] /\ At(p, "swapped")'
          \/ n = names'.displaced[p] /\ n # CopyNode(p)
      BY <1>2, <2>1, PublicFrom DEF Same, At
    <3>2. n = names.target => Public(n)
      BY NodesAre DEF Public
    <3>3. At(p, "swapped") /\ n = names.stage[p] => Public(n)
      BY NodesAre DEF Public
    <3>4. n = names.displaced[p] /\ names.displaced[p] # CopyNode(p) => Public(n)
      BY NodesAre DEF Public
    <3>5. n # NoNode /\ (~ InPlace(p) => names.displaced[p] # CopyNode(p))
      BY <1>0, NodesAre DEF Own, DisplacedInv
    <3> QED
      BY <1>1, <1>2, <3>1, <3>2, <3>3, <3>4, <3>5 DEF Unpublished, PreStage, Hiding, At
  <2>2. Tries(p)
    BY <1>1, <1>2 DEF Tries, Ended, Closing, MayFail, At
  <2>3. InPlace(p)' /\ save'[p].pc \in {"published", "verify"} =>
            InPlace(p) /\ save[p].pc \in {"published", "verify"}
    BY <1>0, <1>1, <1>2 DEF InPlace, Replacing, Own, DisplacedInv, At
  <2> QED
    BY <1>1, <1>2, <2>1, <2>2, <2>3 DEF Spread, Same, Unpublished, PreStage, Hiding, At
<1>4. FreshInv' /\ HomeInv' /\ TornInv' /\ FailureInv'
  BY <1>3, SpreadKeeps DEF IInv
<1>5. NodeInv'
  <2>1. /\ \A q \in Saves : names'.target # NoNode =>
              names'.target # names'.stage[q] /\ names'.target # names'.displaced[q]
        /\ \A q, r \in Saves : names'.stage[q] # NoNode =>
              names'.stage[q] # names'.displaced[r] /\ (q # r => names'.stage[q] # names'.stage[r])
        /\ \A q, r \in Saves : names'.displaced[q] # NoNode /\ q # r =>
              names'.displaced[q] # names'.displaced[r]
    BY <1>0, <1>1, <1>2, Apart DEF NodeInv, Elsewhere, Same, Hidden
  <2>2. ASSUME NEW n \in Nodes, Elsewhere(n), names.displaced[p] # n, n # StageNode(p)
        PROVE  Elsewhere(n)'
    BY <1>0, <1>1, <1>2, <2>2, NodesAre DEF Elsewhere, Same, At
  <2>3. \A q \in Saves : Elsewhere(CopyNode(q))'
    <3>1. ASSUME NEW q \in Saves
          PROVE  Elsewhere(CopyNode(q))'
      <4>1. q = p /\ ~ InPlace(p) => names.displaced[p] # CopyNode(q)
        BY <1>0 DEF Own, DisplacedInv
      <4>2. Elsewhere(CopyNode(q)) /\ CopyNode(q) \in Nodes /\ CopyNode(q) # StageNode(p)
            /\ CopyNode(q) # NoNode
        BY <1>0, Apart, KindsAre DEF NodeInv
      <4>3. q # p => names.displaced[p] # CopyNode(q)
        BY <1>0 DEF NodeInv
      <4> QED
        BY <1>0, <1>1, <1>2, <2>2, <4>1, <4>2, <4>3, Apart DEF Elsewhere, Same, At
    <3> QED
      BY <3>1
  <2>4. \A q, r \in Saves : q # r => names'.displaced[r] # CopyNode(q)
    BY <1>0, <1>1, <1>2, Apart DEF NodeInv, Elsewhere, Same
  <2>5. ASSUME NEW k \in externals + 1 .. MaxExternal
        PROVE  Elsewhere(ForeignNode(k))' /\ \A q \in Saves : names'.displaced[q] # ForeignNode(k)
    <3>1. ForeignNode(k) \in Nodes /\ k \in Nat
      BY <1>0, KindsAre, ConstantsAssumption DEF ConstantsAssumption, TypeOK
    <3>2. Elsewhere(ForeignNode(k)) /\ \A q \in Saves : names.displaced[q] # ForeignNode(k)
      BY <1>0 DEF NodeInv
    <3> QED
      BY <1>1, <1>2, <2>2, <3>1, <3>2, Apart DEF Same, Elsewhere
  <2> QED
    BY <1>2, <2>1, <2>3, <2>4, <2>5 DEF NodeInv
<1>6. SpentInv'
  <2>1. \A q \in Saves \ {p} : At(q, "closed")
    BY <1>0, <1>1, <1>2, NotRacing DEF MayFail, At
  <2>2. \A q \in Saves : ~ save'[q].verified
    BY <1>0, <1>2, <2>1 DEF Same, Own, RecordInv, Closing, At
  <2> QED
    BY <2>2 DEF SpentInv
<1>7. ASSUME NEW q \in Saves \ {p}
      PROVE  Own(q)'
  <2>1. Hidden(q) => Hidden(q)'
    BY <1>0, <1>1, <1>2, Apart DEF Hidden, Same, At
  <2> QED
    BY <1>0, <1>2, <2>1, OthersKeep DEF Same
<1>8. Own(p)'
  BY <1>0, <1>1, <1>2, FailedCommitLeaves DEF SwapBack, Return, At
<1> QED
  BY <1>4, <1>5, <1>6, <1>7, <1>8 DEF IInv, Own

(* What was moved aside is put back.                                        *)
LEMMA PutBackKeeps ==
    ASSUME IInv, TypeOK', NEW p \in Saves, PutBack(p), names' \notin Kept(p)
    PROVE  IInv'
<1>0. TypeOK /\ NodeInv /\ SpentInv /\ \A q \in Saves : Own(q)
  BY OwnIs DEF IInv
<1>1. /\ save[p].pc = "aside" /\ ~ InPlace(p)
      /\ names.stage[p] = StageNode(p) /\ Hidden(p) /\ content[StageNode(p)] = Edited(p)
      /\ ~ save[p].verified
  BY <1>0
  DEF PutBack, Return, KeepStage, Own, StageInv, DisplacedInv, RecordInv, PreStage, Hiding,
      Closing, InPlace, Replacing, At
<1>2. /\ names'.target = names.displaced[p] /\ names'.stage[p] \in {NoNode, names.stage[p]}
      /\ names'.displaced[p] = NoNode
      /\ save'[p].pc = "done" /\ save'[p].approved = save[p].approved
      /\ ~ save'[p].verified /\ save'[p].strategy = save[p].strategy
      /\ content' = content /\ externals' = externals /\ MayFail
      /\ \A q \in Saves \ {p} : Same(q)
  <2>1. PICK kept \in Kept(p) :
           /\ names' = [kept EXCEPT !.target = names.displaced[p], !.displaced[p] = NoNode]
           /\ MayFail
    BY ReportIs DEF PutBack
  <2>2. /\ save' = [save EXCEPT ![p].pc = "done", ![p].result = "commit_failure"]
        /\ \A q \in Saves \ {p} : entry'[q] = entry[q]
        /\ UNCHANGED <<content, folder, cleaner, externals>>
    BY DEF PutBack, Return
  <2>3. /\ names'.target = names.displaced[p] /\ names'.stage[p] \in {NoNode, names.stage[p]}
        /\ names'.displaced[p] = NoNode
        /\ \A q \in Saves \ {p} : /\ names'.stage[q] = names.stage[q]
                                  /\ names'.kept[q] = names.kept[q]
                                  /\ names'.displaced[q] = names.displaced[q]
    BY <1>0, <2>1, KeptIs DEF Naming
  <2>4. \A q \in Saves \ {p} : Same(q)
    BY <1>0, <2>2, <2>3 DEF Same, TypeOK
  <2> QED
    BY <1>0, <1>1, <2>1, <2>2, <2>3, <2>4 DEF At, TypeOK, Progress
<1>3. Spread(p)
  <2>1. ASSUME NEW n \in Nodes, Public(n)'
        PROVE  \/ Public(n)
               \/ /\ n = StageNode(p) /\ content[n] = Edited(p)
                  /\ save[p].pc \in Unpublished /\ save'[p].pc \notin Unpublished
    <3>1. \/ Public(n)
          \/ n = names'.target
          \/ n = names'.stage[p] /\ At(p, "swapped")'
          \/ n = names'.displaced[p] /\ n # CopyNode(p)
      BY <1>2, <2>1, PublicFrom DEF Same, At
    <3>2. n = names.target => Public(n)
      BY NodesAre DEF Public
    <3>3. At(p, "swapped") /\ n = names.stage[p] => Public(n)
      BY NodesAre DEF Public
    <3>4. n = names.displaced[p] /\ names.displaced[p] # CopyNode(p) => Public(n)
      BY NodesAre DEF Public
    <3>5. n # NoNode /\ (~ InPlace(p) => names.displaced[p] # CopyNode(p))
      BY <1>0, NodesAre DEF Own, DisplacedInv
    <3> QED
      BY <1>1, <1>2, <3>1, <3>2, <3>3, <3>4, <3>5 DEF Unpublished, PreStage, Hiding, At
  <2>2. Tries(p)
    BY <1>1, <1>2 DEF Tries, Ended, Closing, MayFail, At
  <2>3. InPlace(p)' /\ save'[p].pc \in {"published", "verify"} =>
            InPlace(p) /\ save[p].pc \in {"published", "verify"}
    BY <1>0, <1>1, <1>2 DEF InPlace, Replacing, Own, DisplacedInv, At
  <2> QED
    BY <1>1, <1>2, <2>1, <2>2, <2>3 DEF Spread, Same, Unpublished, PreStage, Hiding, At
<1>4. FreshInv' /\ HomeInv' /\ TornInv' /\ FailureInv'
  BY <1>3, SpreadKeeps DEF IInv
<1>5. NodeInv'
  <2>1. /\ \A q \in Saves : names'.target # NoNode =>
              names'.target # names'.stage[q] /\ names'.target # names'.displaced[q]
        /\ \A q, r \in Saves : names'.stage[q] # NoNode =>
              names'.stage[q] # names'.displaced[r] /\ (q # r => names'.stage[q] # names'.stage[r])
        /\ \A q, r \in Saves : names'.displaced[q] # NoNode /\ q # r =>
              names'.displaced[q] # names'.displaced[r]
    BY <1>0, <1>1, <1>2, Apart DEF NodeInv, Elsewhere, Same, Hidden
  <2>2. ASSUME NEW n \in Nodes, Elsewhere(n), names.displaced[p] # n, n # StageNode(p)
        PROVE  Elsewhere(n)'
    BY <1>0, <1>1, <1>2, <2>2, NodesAre DEF Elsewhere, Same, At
  <2>3. \A q \in Saves : Elsewhere(CopyNode(q))'
    <3>1. ASSUME NEW q \in Saves
          PROVE  Elsewhere(CopyNode(q))'
      <4>1. q = p /\ ~ InPlace(p) => names.displaced[p] # CopyNode(q)
        BY <1>0 DEF Own, DisplacedInv
      <4>2. Elsewhere(CopyNode(q)) /\ CopyNode(q) \in Nodes /\ CopyNode(q) # StageNode(p)
            /\ CopyNode(q) # NoNode
        BY <1>0, Apart, KindsAre DEF NodeInv
      <4>3. q # p => names.displaced[p] # CopyNode(q)
        BY <1>0 DEF NodeInv
      <4> QED
        BY <1>0, <1>1, <1>2, <2>2, <4>1, <4>2, <4>3, Apart DEF Elsewhere, Same, At
    <3> QED
      BY <3>1
  <2>4. \A q, r \in Saves : q # r => names'.displaced[r] # CopyNode(q)
    BY <1>0, <1>1, <1>2, Apart DEF NodeInv, Elsewhere, Same
  <2>5. ASSUME NEW k \in externals + 1 .. MaxExternal
        PROVE  Elsewhere(ForeignNode(k))' /\ \A q \in Saves : names'.displaced[q] # ForeignNode(k)
    <3>1. ForeignNode(k) \in Nodes /\ k \in Nat
      BY <1>0, KindsAre, ConstantsAssumption DEF ConstantsAssumption, TypeOK
    <3>2. Elsewhere(ForeignNode(k)) /\ \A q \in Saves : names.displaced[q] # ForeignNode(k)
      BY <1>0 DEF NodeInv
    <3> QED
      BY <1>1, <1>2, <2>2, <3>1, <3>2, Apart DEF Same, Elsewhere
  <2> QED
    BY <1>2, <2>1, <2>3, <2>4, <2>5 DEF NodeInv
<1>6. SpentInv'
  <2>1. \A q \in Saves \ {p} : At(q, "closed")
    BY <1>0, <1>1, <1>2, NotRacing DEF MayFail, At
  <2>2. \A q \in Saves : ~ save'[q].verified
    BY <1>0, <1>2, <2>1 DEF Same, Own, RecordInv, Closing, At
  <2> QED
    BY <2>2 DEF SpentInv
<1>7. ASSUME NEW q \in Saves \ {p}
      PROVE  Own(q)'
  <2>1. Hidden(q) => Hidden(q)'
    BY <1>0, <1>1, <1>2, Apart DEF Hidden, Same, At
  <2> QED
    BY <1>0, <1>2, <2>1, OthersKeep DEF Same
<1>8. Own(p)'
  BY <1>0, <1>1, <1>2, FailedCommitLeaves
  DEF PutBack, Return, KeepStage, bounds, At, TypeOK, Naming, Progress
<1> QED
  BY <1>4, <1>5, <1>6, <1>7, <1>8 DEF IInv, Own

(* The copy of the previous bytes fails.                                    *)
LEMMA FailCopyKeeps ==
    ASSUME IInv, TypeOK', NEW p \in Saves, FailCommit(p), names' \notin Kept(p)
    PROVE  IInv'
<1>0. TypeOK /\ NodeInv /\ SpentInv /\ \A q \in Saves : Own(q)
  BY OwnIs DEF IInv
<1>1. /\ save[p].pc = "commit" /\ InPlace(p)
      /\ names.stage[p] = StageNode(p) /\ Hidden(p) /\ content[StageNode(p)] = Edited(p)
      /\ ~ save[p].verified
  BY <1>0
  DEF FailCommit, LeftBehind, WritingSteps, Own, StageInv, DisplacedInv,
      RecordInv, PreStage, Hiding, Closing, InPlace, Replacing, At
<1>2. /\ names'.target = names.target /\ names'.stage[p] \in {NoNode, names.stage[p]}
      /\ names'.displaced[p] = CopyNode(p)
      /\ save'[p].pc = "done" /\ save'[p].approved = save[p].approved
      /\ ~ save'[p].verified /\ save'[p].strategy = save[p].strategy
      /\ content' = content /\ externals' = externals /\ MayFail
      /\ \A q \in Saves \ {p} : Same(q)
  <2>1. PICK kept \in Kept(p) : names' = [kept EXCEPT !.displaced[p] = CopyNode(p)] /\ MayFail
    BY DEF FailCommit
  <2>2. /\ save' = [save EXCEPT ![p].pc = "done", ![p].result = "commit_failure"]
        /\ \A q \in Saves \ {p} : entry'[q] = entry[q]
        /\ UNCHANGED <<content, folder, cleaner, externals>>
    BY <1>0, <1>1, LeftBehindIs DEF FailCommit, Return
  <2>3. /\ names'.target = names.target /\ names'.stage[p] \in {NoNode, names.stage[p]}
        /\ names'.displaced[p] = CopyNode(p)
        /\ \A q \in Saves \ {p} : /\ names'.stage[q] = names.stage[q]
                                  /\ names'.kept[q] = names.kept[q]
                                  /\ names'.displaced[q] = names.displaced[q]
    BY <1>0, <2>1, KeptIs DEF Naming
  <2>4. \A q \in Saves \ {p} : Same(q)
    BY <1>0, <2>2, <2>3 DEF Same, TypeOK
  <2> QED
    BY <1>0, <1>1, <2>1, <2>2, <2>3, <2>4 DEF At, TypeOK, Progress
<1>3. Spread(p)
  <2>1. ASSUME NEW n \in Nodes, Public(n)'
        PROVE  \/ Public(n)
               \/ /\ n = StageNode(p) /\ content[n] = Edited(p)
                  /\ save[p].pc \in Unpublished /\ save'[p].pc \notin Unpublished
    <3>1. \/ Public(n)
          \/ n = names'.target
          \/ n = names'.stage[p] /\ At(p, "swapped")'
          \/ n = names'.displaced[p] /\ n # CopyNode(p)
      BY <1>2, <2>1, PublicFrom DEF Same, At
    <3>2. n = names.target => Public(n)
      BY NodesAre DEF Public
    <3>3. At(p, "swapped") /\ n = names.stage[p] => Public(n)
      BY NodesAre DEF Public
    <3>4. n = names.displaced[p] /\ names.displaced[p] # CopyNode(p) => Public(n)
      BY NodesAre DEF Public
    <3>5. n # NoNode /\ (~ InPlace(p) => names.displaced[p] # CopyNode(p))
      BY <1>0, NodesAre DEF Own, DisplacedInv
    <3> QED
      BY <1>1, <1>2, <3>1, <3>2, <3>3, <3>4, <3>5 DEF Unpublished, PreStage, Hiding, At
  <2>2. Tries(p)
    BY <1>1, <1>2 DEF Tries, Ended, Closing, MayFail, At
  <2>3. InPlace(p)' /\ save'[p].pc \in {"published", "verify"} =>
            InPlace(p) /\ save[p].pc \in {"published", "verify"}
    BY <1>0, <1>1, <1>2 DEF InPlace, Replacing, Own, DisplacedInv, At
  <2> QED
    BY <1>1, <1>2, <2>1, <2>2, <2>3 DEF Spread, Same, Unpublished, PreStage, Hiding, At
<1>4. FreshInv' /\ HomeInv' /\ TornInv' /\ FailureInv'
  BY <1>3, SpreadKeeps DEF IInv
<1>5. NodeInv'
  <2>1. /\ \A q \in Saves : names'.target # NoNode =>
              names'.target # names'.stage[q] /\ names'.target # names'.displaced[q]
        /\ \A q, r \in Saves : names'.stage[q] # NoNode =>
              names'.stage[q] # names'.displaced[r] /\ (q # r => names'.stage[q] # names'.stage[r])
        /\ \A q, r \in Saves : names'.displaced[q] # NoNode /\ q # r =>
              names'.displaced[q] # names'.displaced[r]
    BY <1>0, <1>1, <1>2, Apart DEF NodeInv, Elsewhere, Same, Hidden
  <2>2. ASSUME NEW n \in Nodes, Elsewhere(n), names.displaced[p] # n, n # StageNode(p)
        PROVE  Elsewhere(n)'
    BY <1>0, <1>1, <1>2, <2>2, NodesAre DEF Elsewhere, Same, At
  <2>3. \A q \in Saves : Elsewhere(CopyNode(q))'
    <3>1. ASSUME NEW q \in Saves
          PROVE  Elsewhere(CopyNode(q))'
      <4>1. q = p /\ ~ InPlace(p) => names.displaced[p] # CopyNode(q)
        BY <1>0 DEF Own, DisplacedInv
      <4>2. Elsewhere(CopyNode(q)) /\ CopyNode(q) \in Nodes /\ CopyNode(q) # StageNode(p)
            /\ CopyNode(q) # NoNode
        BY <1>0, Apart, KindsAre DEF NodeInv
      <4>3. q # p => names.displaced[p] # CopyNode(q)
        BY <1>0 DEF NodeInv
      <4> QED
        BY <1>0, <1>1, <1>2, <2>2, <4>1, <4>2, <4>3, Apart DEF Elsewhere, Same, At
    <3> QED
      BY <3>1
  <2>4. \A q, r \in Saves : q # r => names'.displaced[r] # CopyNode(q)
    BY <1>0, <1>1, <1>2, Apart DEF NodeInv, Elsewhere, Same
  <2>5. ASSUME NEW k \in externals + 1 .. MaxExternal
        PROVE  Elsewhere(ForeignNode(k))' /\ \A q \in Saves : names'.displaced[q] # ForeignNode(k)
    <3>1. ForeignNode(k) \in Nodes /\ k \in Nat
      BY <1>0, KindsAre, ConstantsAssumption DEF ConstantsAssumption, TypeOK
    <3>2. Elsewhere(ForeignNode(k)) /\ \A q \in Saves : names.displaced[q] # ForeignNode(k)
      BY <1>0 DEF NodeInv
    <3> QED
      BY <1>1, <1>2, <2>2, <3>1, <3>2, Apart DEF Same, Elsewhere
  <2> QED
    BY <1>2, <2>1, <2>3, <2>4, <2>5 DEF NodeInv
<1>6. SpentInv'
  <2>1. \A q \in Saves \ {p} : At(q, "closed")
    BY <1>0, <1>1, <1>2, NotRacing DEF MayFail, At
  <2>2. \A q \in Saves : ~ save'[q].verified
    BY <1>0, <1>2, <2>1 DEF Same, Own, RecordInv, Closing, At
  <2> QED
    BY <2>2 DEF SpentInv
<1>7. ASSUME NEW q \in Saves \ {p}
      PROVE  Own(q)'
  <2>1. Hidden(q) => Hidden(q)'
    BY <1>0, <1>1, <1>2, Apart DEF Hidden, Same, At
  <2> QED
    BY <1>0, <1>2, <2>1, OthersKeep DEF Same
<1>8. Own(p)'
  BY <1>0, <1>1, <1>2, FailedCommitLeaves
  DEF FailCommit, Return, KeepStage, LeftBehind, WritingSteps, InPlace, Replacing, bounds,
      At, TypeOK, Naming, Progress
<1> QED
  BY <1>4, <1>5, <1>6, <1>7, <1>8 DEF IInv, Own

(* A crash falls into the copy of the previous bytes.                       *)
LEMMA CrashCopyKeeps ==
    ASSUME IInv, TypeOK', NEW p \in Saves, Crash(p), content' = content, names' # names
    PROVE  IInv'
<1>0. TypeOK /\ NodeInv /\ SpentInv /\ \A q \in Saves : Own(q)
  BY OwnIs DEF IInv
<1>1. /\ save[p].pc = "commit" /\ InPlace(p)
      /\ names.stage[p] = StageNode(p) /\ Hidden(p) /\ content[StageNode(p)] = Edited(p)
      /\ ~ save[p].verified
  BY <1>0
  DEF Crash, Goto, Own, StageInv, DisplacedInv, RecordInv, PreStage, Hiding, Closing,
      InPlace, Replacing, At
<1>2. /\ names'.target = names.target /\ names'.stage[p] = StageNode(p)
      /\ names'.displaced[p] = CopyNode(p)
      /\ save'[p].pc = "crashed" /\ save'[p].approved = save[p].approved
      /\ ~ save'[p].verified /\ save'[p].strategy = save[p].strategy
      /\ content' = content /\ externals' = externals /\ failures' = failures
      /\ \A q \in Saves \ {p} : Same(q)
  <2>1. /\ names' = [names EXCEPT !.displaced[p] = CopyNode(p)]
        /\ failures' = failures
    BY DEF Crash, KeepStage, bounds
  <2>2. /\ save' = [save EXCEPT ![p].pc = "crashed"]
        /\ \A q \in Saves \ {p} : entry'[q] = entry[q]
        /\ UNCHANGED <<content, folder, cleaner, externals>>
    BY <1>0, <1>1, LeftBehindIs DEF Crash, Return, Goto, bounds
  <2>3. names' \in Naming /\ \A q \in Saves \ {p} : /\ names'.stage[q] = names.stage[q]
                                                   /\ names'.kept[q] = names.kept[q]
                                                   /\ names'.displaced[q] = names.displaced[q]
    BY <1>0, <2>1 DEF TypeOK, Naming
  <2>4. \A q \in Saves \ {p} : Same(q)
    BY <1>0, <2>2, <2>3 DEF Same, TypeOK
  <2> QED
    BY <1>0, <1>1, <2>1, <2>2, <2>4 DEF At, TypeOK, Naming, Progress
<1>3. Spread(p)
  <2>1. ASSUME NEW n \in Nodes, Public(n)'
        PROVE  \/ Public(n)
               \/ /\ n = StageNode(p) /\ content[n] = Edited(p)
                  /\ save[p].pc \in Unpublished /\ save'[p].pc \notin Unpublished
    <3>1. \/ Public(n)
          \/ n = names'.target
          \/ n = names'.stage[p] /\ At(p, "swapped")'
          \/ n = names'.displaced[p] /\ n # CopyNode(p)
      BY <1>2, <2>1, PublicFrom DEF Same, At
    <3>2. n = names.target => Public(n)
      BY NodesAre DEF Public
    <3>3. At(p, "swapped") /\ n = names.stage[p] => Public(n)
      BY NodesAre DEF Public
    <3>4. n = names.displaced[p] /\ names.displaced[p] # CopyNode(p) => Public(n)
      BY NodesAre DEF Public
    <3>5. n # NoNode /\ (~ InPlace(p) => names.displaced[p] # CopyNode(p))
      BY <1>0, NodesAre DEF Own, DisplacedInv
    <3> QED
      BY <1>1, <1>2, <3>1, <3>2, <3>3, <3>4, <3>5 DEF Unpublished, PreStage, Hiding, At
  <2>2. Tries(p)
    BY <1>1, <1>2 DEF Tries, Ended, Closing, MayFail, At
  <2>3. InPlace(p)' /\ save'[p].pc \in {"published", "verify"} =>
            InPlace(p) /\ save[p].pc \in {"published", "verify"}
    BY <1>0, <1>1, <1>2 DEF InPlace, Replacing, Own, DisplacedInv, At
  <2> QED
    BY <1>1, <1>2, <2>1, <2>2, <2>3 DEF Spread, Same, Unpublished, PreStage, Hiding, At
<1>4. FreshInv' /\ HomeInv' /\ TornInv' /\ FailureInv'
  BY <1>3, SpreadKeeps DEF IInv
<1>5. NodeInv'
  <2>1. /\ \A q \in Saves : names'.target # NoNode =>
              names'.target # names'.stage[q] /\ names'.target # names'.displaced[q]
        /\ \A q, r \in Saves : names'.stage[q] # NoNode =>
              names'.stage[q] # names'.displaced[r] /\ (q # r => names'.stage[q] # names'.stage[r])
        /\ \A q, r \in Saves : names'.displaced[q] # NoNode /\ q # r =>
              names'.displaced[q] # names'.displaced[r]
    BY <1>0, <1>1, <1>2, Apart DEF NodeInv, Elsewhere, Same, Hidden
  <2>2. ASSUME NEW n \in Nodes, Elsewhere(n), names.displaced[p] # n, n # StageNode(p)
        PROVE  Elsewhere(n)'
    BY <1>0, <1>1, <1>2, <2>2, NodesAre DEF Elsewhere, Same, At
  <2>3. \A q \in Saves : Elsewhere(CopyNode(q))'
    <3>1. ASSUME NEW q \in Saves
          PROVE  Elsewhere(CopyNode(q))'
      <4>1. q = p /\ ~ InPlace(p) => names.displaced[p] # CopyNode(q)
        BY <1>0 DEF Own, DisplacedInv
      <4>2. Elsewhere(CopyNode(q)) /\ CopyNode(q) \in Nodes /\ CopyNode(q) # StageNode(p)
            /\ CopyNode(q) # NoNode
        BY <1>0, Apart, KindsAre DEF NodeInv
      <4>3. q # p => names.displaced[p] # CopyNode(q)
        BY <1>0 DEF NodeInv
      <4> QED
        BY <1>0, <1>1, <1>2, <2>2, <4>1, <4>2, <4>3, Apart DEF Elsewhere, Same, At
    <3> QED
      BY <3>1
  <2>4. \A q, r \in Saves : q # r => names'.displaced[r] # CopyNode(q)
    BY <1>0, <1>1, <1>2, Apart DEF NodeInv, Elsewhere, Same
  <2>5. ASSUME NEW k \in externals + 1 .. MaxExternal
        PROVE  Elsewhere(ForeignNode(k))' /\ \A q \in Saves : names'.displaced[q] # ForeignNode(k)
    <3>1. ForeignNode(k) \in Nodes /\ k \in Nat
      BY <1>0, KindsAre, ConstantsAssumption DEF ConstantsAssumption, TypeOK
    <3>2. Elsewhere(ForeignNode(k)) /\ \A q \in Saves : names.displaced[q] # ForeignNode(k)
      BY <1>0 DEF NodeInv
    <3> QED
      BY <1>1, <1>2, <2>2, <3>1, <3>2, Apart DEF Same, Elsewhere
  <2> QED
    BY <1>2, <2>1, <2>3, <2>4, <2>5 DEF NodeInv
<1>6. SpentInv'
  <2>1. ASSUME NEW n \in Nodes, names.target # n, \A q \in Saves : names.stage[q] # n,
               n # CopyNode(p), Hidden(p) => n # StageNode(p)
        PROVE  /\ names'.target # n /\ \A q \in Saves : names'.stage[q] # n
               /\ names'.displaced[p] # n \/ names'.displaced[p] = names.displaced[p]
    BY <1>1, <1>2, <2>1, NodesAre DEF Same
  <2> QED
    BY <1>0, <1>1, <1>2, <2>1, SpentKeeps DEF Same
<1>7. ASSUME NEW q \in Saves \ {p}
      PROVE  Own(q)'
  <2>1. Hidden(q) => Hidden(q)'
    BY <1>0, <1>1, <1>2, Apart DEF Hidden, Same, At
  <2> QED
    BY <1>0, <1>2, <2>1, OthersKeep DEF Same
<1>8. Own(p)'
  BY <1>0, <1>1, <1>2, CrashLeaves
  DEF Crash, Goto, InPlace, Replacing, bounds, At, TypeOK, Naming, Progress
<1> QED
  BY <1>4, <1>5, <1>6, <1>7, <1>8 DEF IInv, Own

(* Creating a stage sweeps the names of dead processes and hides p's own.     *)
LEMMA CreateStageKeeps ==
    ASSUME IInv, TypeOK', NEW p \in Saves, CreateStage(p)
    PROVE  IInv'
<1>0. TypeOK /\ NodeInv /\ SpentInv /\ \A q \in Saves : Own(q)
  BY OwnIs DEF IInv
<1>1. /\ save[p].pc = "open" /\ Hidden(p) /\ names.displaced[p] = NoNode
      /\ ~ save[p].verified
  BY <1>0 DEF CreateStage, Own, StageInv, DisplacedInv, RecordInv, PreStage, Closing, At
<1>2. /\ names'.target = names.target /\ names'.stage[p] = StageNode(p)
      /\ names'.displaced = names.displaced /\ names'.kept = names.kept
      /\ \A q \in Saves \ {p} : names'.stage[q] = names.stage[q] \/ (Dead(q) /\ names'.stage[q] = NoNode)
      /\ save'[p].pc = "staging" /\ save'[p].approved = save[p].approved
      /\ ~ save'[p].verified /\ save'[p].strategy = save[p].strategy
      /\ UNCHANGED <<content, folder, entry, cleaner, externals, failures>>
      /\ \A q \in Saves \ {p} : save'[q] = save[q]
  <2>1. /\ names'.target = names.target /\ names'.stage[p] = StageNode(p)
        /\ names'.displaced = names.displaced /\ names'.kept = names.kept
        /\ \A q \in Saves \ {p} : names'.stage[q] = names.stage[q] \/ (Dead(q) /\ names'.stage[q] = NoNode)
    <3>1. PICK st : st = [SweptStages EXCEPT ![p] = StageNode(p)]
      OBVIOUS
    <3>2. /\ st[p] = StageNode(p)
          /\ \A q \in Saves \ {p} : st[q] = names.stage[q] \/ (Dead(q) /\ st[q] = NoNode)
      BY <3>1 DEF SweptStages, Dead, At
    <3>3. names' = [names EXCEPT !.stage = st]
      BY <3>1 DEF CreateStage
    <3>4. /\ names'.target = names.target /\ names'.stage = st
          /\ names'.displaced = names.displaced /\ names'.kept = names.kept
      BY <1>0, <3>3 DEF TypeOK, Naming
    <3> QED
      BY <3>2, <3>4
  <2>2. /\ save'[p].pc = "staging" /\ save'[p].approved = save[p].approved
        /\ ~ save'[p].verified /\ save'[p].strategy = save[p].strategy
        /\ UNCHANGED <<content, folder, entry, cleaner, externals, failures>>
        /\ \A q \in Saves \ {p} : save'[q] = save[q]
    BY <1>0, <1>1 DEF CreateStage, Goto, bounds, TypeOK, Progress
  <2> QED
    BY <2>1, <2>2
<1>3. Spread(p)
  <2>1. ASSUME NEW n \in Nodes, Public(n)'
        PROVE  Public(n)
    <3>1. \/ Public(n)
          \/ n = names'.target
          \/ n = names'.displaced[p] /\ n # CopyNode(p)
      BY <1>2, <2>1, PublicFrom DEF At
    <3> QED
      BY <1>1, <1>2, <3>1, NodesAre DEF Public
  <2> QED
    BY <1>1, <1>2, <2>1
    DEF Spread, Tries, InPlace, Unpublished, PreStage, Hiding, Ended, Closing, At
<1>4. FreshInv' /\ HomeInv' /\ TornInv' /\ FailureInv'
  BY <1>3, SpreadKeeps DEF IInv
<1>5. NodeInv'
  <2>1. /\ \A q \in Saves : names'.target # NoNode =>
              names'.target # names'.stage[q] /\ names'.target # names'.displaced[q]
        /\ \A q, r \in Saves : names'.stage[q] # NoNode =>
              names'.stage[q] # names'.displaced[r] /\ (q # r => names'.stage[q] # names'.stage[r])
        /\ \A q, r \in Saves : names'.displaced[q] # NoNode /\ q # r =>
              names'.displaced[q] # names'.displaced[r]
    BY <1>0, <1>1, <1>2, Apart DEF NodeInv, Elsewhere, Hidden
  <2>2. ASSUME NEW n \in Nodes, Elsewhere(n), n # StageNode(p)
        PROVE  Elsewhere(n)'
    BY <1>0, <1>1, <1>2, <2>2, NodesAre DEF Elsewhere, At
  <2>3. ASSUME NEW q \in Saves
        PROVE  Elsewhere(CopyNode(q))'
    BY <1>0, <2>2, Apart, KindsAre DEF NodeInv
  <2>4. \A q, r \in Saves : q # r => names'.displaced[r] # CopyNode(q)
    BY <1>0, <1>2, Apart DEF NodeInv
  <2>5. ASSUME NEW k \in externals + 1 .. MaxExternal
        PROVE  Elsewhere(ForeignNode(k))' /\ \A q \in Saves : names'.displaced[q] # ForeignNode(k)
    <3>1. ForeignNode(k) \in Nodes /\ k \in Nat
      BY <1>0, KindsAre, ConstantsAssumption DEF ConstantsAssumption, TypeOK
    <3>2. Elsewhere(ForeignNode(k)) /\ \A q \in Saves : names.displaced[q] # ForeignNode(k)
      BY <1>0 DEF NodeInv
    <3> QED
      BY <1>2, <2>2, <3>1, <3>2, Apart
  <2> QED
    BY <1>2, <2>1, <2>3, <2>4, <2>5 DEF NodeInv
<1>6. SpentInv'
  <2>1. ASSUME NEW n \in Nodes, names.target # n, \A q \in Saves : names.stage[q] # n,
               n # CopyNode(p), Hidden(p) => n # StageNode(p)
        PROVE  /\ names'.target # n /\ \A q \in Saves : names'.stage[q] # n
               /\ names'.displaced[p] # n \/ names'.displaced[p] = names.displaced[p]
    BY <1>1, <1>2, <2>1, NodesAre
  <2> QED
    BY <1>0, <1>1, <1>2, <2>1, SpentKeeps
<1>7. ASSUME NEW q \in Saves \ {p}
      PROVE  Own(q)'
  <2>1. Hidden(q) => Hidden(q)'
    BY <1>0, <1>1, <1>2, Apart DEF Hidden, At
  <2> QED
    BY <1>0, <1>2, <2>1, OthersKeep
<1>8. Own(p)'
  <2>1. StageInv(p)'
    <3>1. Hidden(p)'
      BY <1>0, <1>1, <1>2, Apart DEF Hidden, At
    <3>2. names.kept[p] = NoNode
      BY <1>0, <1>1 DEF Own, StageInv, At
    <3> QED
      BY <1>1, <1>2, <3>1, <3>2 DEF StageInv, PreStage, Hiding, Closing, At
  <2>2. DisplacedInv(p)'
    BY <1>0, <1>1, <1>2, Apart
    DEF At, NodeInv, Elsewhere, Own, DisplacedInv, InPlace, Replacing, PreStage, Hiding, At,
        TypeOK, Naming, Progress
  <2>3. RecordInv(p)'
    BY <1>0, <1>1, <1>2
    DEF At, Own, RecordInv, PreStage, Closing, Failing, KeepsEdits, Prepared, Unrecorded,
        Recorded, NothingBut, Replacing, Entries, States, At, TypeOK, Naming, Progress
  <2>4. CleanupInv(p)'
    BY <1>1, <1>2 DEF CleanupInv
  <2> QED
    BY <2>1, <2>2, <2>3, <2>4 DEF Own
<1> QED
  BY <1>4, <1>5, <1>6, <1>7, <1>8 DEF IInv, Own


(* The stage is written while nobody else can reach it.                      *)
LEMMA WriteStageKeeps ==
    ASSUME IInv, TypeOK', NEW p \in Saves, WriteStage(p)
    PROVE  IInv'
<1>0. TypeOK /\ NodeInv /\ SpentInv /\ \A q \in Saves : Own(q)
  BY OwnIs DEF IInv
<1>1. /\ save[p].pc = "staging" /\ Hidden(p) /\ names.displaced[p] = NoNode
      /\ ~ save[p].verified /\ names.stage[p] = StageNode(p)
  BY <1>0
  DEF WriteStage, Own, StageInv, DisplacedInv, RecordInv, PreStage, Hiding, Closing, At
<1>2. /\ content'[StageNode(p)] = Edited(p)
      /\ \A n \in Nodes : n # StageNode(p) => content'[n] = content[n]
      /\ save'[p].pc = "mkdir" /\ save'[p].approved = save[p].approved
      /\ save'[p].verified = save[p].verified /\ save'[p].strategy = save[p].strategy
      /\ UNCHANGED <<names, folder, entry, cleaner, externals, failures>>
      /\ \A q \in Saves \ {p} : save'[q] = save[q]
  BY <1>0, <1>1, KindsAre DEF WriteStage, Goto, bounds, At, TypeOK, Naming, Progress
<1>3. \A n \in Nodes : Public(n)' => Public(n) /\ content'[n] = content[n]
  <2>1. ASSUME NEW n \in Nodes, Public(n)'
        PROVE  Public(n)
    <3>1. \/ Public(n)
          \/ n = names'.target
          \/ n = names'.displaced[p] /\ n # CopyNode(p)
      BY <1>2, <2>1, PublicFrom DEF At
    <3> QED
      BY <1>1, <1>2, <3>1, NodesAre DEF Public
  <2>2. ~ Public(StageNode(p))
    BY <1>1 DEF Public, Hidden, At
  <2> QED
    BY <1>2, <2>1, <2>2
<1>4. FreshInv' /\ HomeInv' /\ TornInv'
  <2>1. ~ Public(StageNode(p))'
    BY <1>1, <1>2 DEF Public, Hidden, At
  <2>2. \A q \in Saves :
           /\ save'[q].approved = save[q].approved
           /\ save'[q].pc \in Unpublished => save[q].pc \in Unpublished
           /\ At(q, "copied")' => /\ At(q, "copied") /\ save'[q].fd = save[q].fd
                                  /\ save'[q].fd # NoNode
           /\ content'[CopyNode(q)] = content[CopyNode(q)]
    BY <1>0, <1>1, <1>2, Apart, KindsAre
    DEF Own, DisplacedInv, Unpublished, PreStage, Hiding, At
  <2>3. \A q \in Saves : Recoverable(q) => Recoverable(q)'
    BY <1>1, <1>2, <2>2 DEF Recoverable, Prepared, Unrecorded
  <2>4. \A q \in Saves : InPlace(q)' /\ save'[q].pc \in {"published", "verify"} =>
            InPlace(q) /\ save[q].pc \in {"published", "verify"} /\ Edited(p) # Edited(q)
    BY <1>1, <1>2, Apart DEF InPlace, Replacing
  <2>5. PICK w \in Nodes, v \in Versions : w = StageNode(p) /\ v = Edited(p)
    BY KindsAre
  <2>6. /\ FreshInv /\ HomeInv /\ TornInv /\ externals' = externals /\ failures' = failures
        /\ ~ Public(w)'
        /\ \A n \in Nodes : Public(n)' => \/ Public(n) /\ content'[n] = content[n]
                                          \/ n = w /\ content'[n] = v
    BY <1>2, <1>3, <2>1, <2>5 DEF IInv
  <2>7. \A q \in Saves : InPlace(q)' /\ save'[q].pc \in {"published", "verify"} =>
              /\ content'[CopyNode(q)] = content[CopyNode(q)]
              /\ \/ InPlace(q) /\ save[q].pc \in {"published", "verify"} /\ v # Edited(q)
                 \/ At(q, "copied") /\ w = save[q].fd /\ v = Edited(q)
    BY <2>2, <2>4, <2>5
  <2>8. Writes(w, v)
    BY <1>0, <2>2, <2>3, <2>6, <2>7 DEF Writes
  <2> QED
    BY <1>0, <2>6, <2>8, WritingKeeps
<1>5. NodeInv' /\ FailureInv' /\ \A q \in Saves : Hidden(q) => Hidden(q)'
  <2>1. \A q \in Saves : /\ save'[q].approved = save[q].approved
                         /\ At(q, "copied")' => At(q, "copied") /\ save'[q].fd = save[q].fd
    BY <1>1, <1>2 DEF At
  <2>2. /\ \A n : Elsewhere(n) => Elsewhere(n)'
        /\ \A q \in Saves : Hidden(q) => Hidden(q)'
    BY <1>2, <2>1, ElsewhereStays
  <2>3. NodeInv'
    BY <1>0, <1>2, <2>2 DEF NodeInv
  <2>4. FailureInv'
    BY <1>0, <1>1, <1>2, FailureKeeps DEF IInv, Tries, Ended, Closing, At
  <2> QED
    BY <2>2, <2>3, <2>4
<1>6. SpentInv'
  <2>1. \A q \in Saves : /\ save'[q].verified = save[q].verified
                         /\ save'[q].approved = save[q].approved
                         /\ save'[q].strategy = save[q].strategy
                         /\ names.displaced[q] # StageNode(p)
                         /\ save[q].approved.node # StageNode(p)
    BY <1>1, <1>2 DEF Hidden
  <2>2. PICK w \in Nodes : w = StageNode(p)
    BY KindsAre
  <2>3. Overwrites(w, content'[w])
    BY <1>0, <1>2, <2>1, <2>2 DEF Overwrites
  <2> QED
    BY <1>0, <2>3, SpentWrites
<1>7. ASSUME NEW q \in Saves \ {p}
      PROVE  Own(q)'
  <2>1. content'[StageNode(q)] = content[StageNode(q)]
    BY <1>2, Apart, KindsAre
  <2> QED
    BY <1>0, <1>2, <1>5, <2>1, OthersKeep
<1>8. Own(p)'
  <2>1. StageInv(p)'
    <3>1. Hidden(p)'
      BY <1>0, <1>1, <1>2, Apart DEF Hidden, At
    <3>2. names.kept[p] = NoNode
      BY <1>0, <1>1 DEF Own, StageInv, At
    <3> QED
      BY <1>1, <1>2, <3>1, <3>2 DEF StageInv, PreStage, Hiding, Closing, At
  <2>2. DisplacedInv(p)'
    BY <1>0, <1>1, <1>2, Apart
    DEF At, NodeInv, Elsewhere, Own, DisplacedInv, InPlace, Replacing, PreStage, Hiding, At,
        TypeOK, Naming, Progress
  <2>3. RecordInv(p)'
    BY <1>0, <1>1, <1>2
    DEF At, Own, RecordInv, PreStage, Closing, Failing, KeepsEdits, Prepared, Unrecorded,
        Recorded, NothingBut, Replacing, Entries, States, At, TypeOK, Naming, Progress
  <2>4. CleanupInv(p)'
    BY <1>1, <1>2 DEF CleanupInv
  <2> QED
    BY <2>1, <2>2, <2>3, <2>4 DEF Own
<1> QED
  BY <1>4, <1>5, <1>6, <1>7, <1>8 DEF IInv, Own

(* The previous bytes are copied into a file of the transaction's own.       *)
LEMMA CopyPreviousKeeps ==
    ASSUME IInv, TypeOK', NEW p \in Saves, CopyPrevious(p)
    PROVE  IInv'
<1>0. TypeOK /\ NodeInv /\ SpentInv /\ \A q \in Saves : Own(q)
  BY OwnIs DEF IInv
<1>1. /\ save[p].pc = "commit" /\ Hidden(p) /\ names.displaced[p] = NoNode
      /\ ~ save[p].verified /\ names.stage[p] = StageNode(p) /\ names.target # NoNode
      /\ content[StageNode(p)] = Edited(p) /\ InPlace(p)
  BY <1>0
  DEF CopyPrevious, Own, StageInv, DisplacedInv, RecordInv, PreStage, Hiding, Closing, 
              InPlace, At
<1>2. /\ content'[CopyNode(p)] = content[names.target]
      /\ \A n \in Nodes : n # CopyNode(p) => content'[n] = content[n]
      /\ save'[p].pc = "copied" /\ save'[p].approved = save[p].approved
      /\ save'[p].fd = names.target
      /\ save'[p].verified = save[p].verified /\ save'[p].strategy = save[p].strategy
      /\ names'.target = names.target /\ names'.stage = names.stage /\ names'.kept = names.kept
      /\ names'.displaced[p] = CopyNode(p)
      /\ \A q \in Saves \ {p} : names'.displaced[q] = names.displaced[q]
      /\ UNCHANGED <<folder, entry, cleaner, externals, failures>>
      /\ \A q \in Saves \ {p} : save'[q] = save[q]
  BY <1>0, <1>1, KindsAre DEF CopyPrevious, bounds, At, TypeOK, Naming, Progress
<1>3. \A n \in Nodes : Public(n)' => Public(n) /\ content'[n] = content[n]
  <2>1. ASSUME NEW n \in Nodes, Public(n)'
        PROVE  Public(n)
    <3>1. Public(n) \/ n = names.target
      BY <1>2, <2>1, PublicFrom DEF At
    <3> QED
      BY <3>1, NodesAre DEF Public
  <2>2. ~ Public(CopyNode(p))
    BY <1>0 DEF NodeInv, Elsewhere, Public
  <2> QED
    BY <1>2, <2>1, <2>2
<1>4. FreshInv' /\ HomeInv' /\ TornInv'
  <2>1. ~ Public(CopyNode(p))'
    <3>1. ~ Public(CopyNode(p))
      BY <1>0 DEF NodeInv, Elsewhere, Public
    <3> QED
      BY <1>3, <3>1, KindsAre
  <2>2. \A q \in Saves :
           /\ save'[q].approved = save[q].approved
           /\ save'[q].pc \in Unpublished => save[q].pc \in Unpublished
           /\ q # p => content'[CopyNode(q)] = content[CopyNode(q)]
    BY <1>1, <1>2, Apart, KindsAre DEF Unpublished, PreStage, Hiding, At
  <2>3. Public(names.target) /\ names.target # CopyNode(p)
    BY <1>0, <1>1 DEF Public, NodeInv, Elsewhere
  <2>4. \A q \in Saves : At(q, "copied")' => save'[q].fd # NoNode
    BY <1>0, <1>1, <1>2 DEF Own, DisplacedInv, At
  <2>5. \A q \in Saves : At(q, "copied")' =>
              \/ /\ At(q, "copied") /\ save'[q].fd = save[q].fd
                 /\ content'[CopyNode(q)] = content[CopyNode(q)]
              \/ /\ content'[CopyNode(q)] = content[save'[q].fd] /\ save'[q].fd # CopyNode(p)
                 /\ Public(save'[q].fd)
    BY <1>1, <1>2, <2>2, <2>3 DEF At
  <2>6. \A q \in Saves : Recoverable(q) => Recoverable(q)'
    BY <1>1, <1>2, <2>2 DEF Recoverable, Prepared, Unrecorded
  <2>7. \A q \in Saves : InPlace(q)' /\ save'[q].pc \in {"published", "verify"} =>
            /\ content'[CopyNode(q)] = content[CopyNode(q)]
            /\ InPlace(q) /\ save[q].pc \in {"published", "verify"} /\ Edited(p) # Edited(q)
    BY <1>1, <1>2, <2>2, Apart DEF InPlace, Replacing
  <2>8. PICK w \in Nodes, v \in Versions : w = CopyNode(p) /\ v = Edited(p)
    BY KindsAre
  <2>9. /\ FreshInv /\ HomeInv /\ TornInv /\ externals' = externals /\ failures' = failures
        /\ ~ Public(w)'
        /\ \A n \in Nodes : Public(n)' => \/ Public(n) /\ content'[n] = content[n]
                                          \/ n = w /\ content'[n] = v
        /\ \A q \in Saves : At(q, "copied")' =>
              \/ /\ At(q, "copied") /\ save'[q].fd = save[q].fd
                 /\ content'[CopyNode(q)] = content[CopyNode(q)]
              \/ /\ content'[CopyNode(q)] = content[save'[q].fd] /\ save'[q].fd # w
                 /\ Public(save'[q].fd)
    BY <1>2, <1>3, <2>1, <2>5, <2>8 DEF IInv
  <2>10. \A q \in Saves : InPlace(q)' /\ save'[q].pc \in {"published", "verify"} =>
              /\ content'[CopyNode(q)] = content[CopyNode(q)]
              /\ \/ InPlace(q) /\ save[q].pc \in {"published", "verify"} /\ v # Edited(q)
                 \/ At(q, "copied") /\ w = save[q].fd /\ v = Edited(q)
    BY <2>7, <2>8
  <2>11. Writes(w, v)
    BY <1>0, <2>2, <2>4, <2>6, <2>9, <2>10 DEF Writes
  <2> QED
    BY <1>0, <2>9, <2>11, WritingKeeps
<1>5. NodeInv'
  <2>1. /\ \A q \in Saves : names'.target # NoNode =>
              names'.target # names'.stage[q] /\ names'.target # names'.displaced[q]
        /\ \A q, r \in Saves : names'.stage[q] # NoNode =>
              names'.stage[q] # names'.displaced[r] /\ (q # r => names'.stage[q] # names'.stage[r])
        /\ \A q, r \in Saves : names'.displaced[q] # NoNode /\ q # r =>
              names'.displaced[q] # names'.displaced[r]
    BY <1>0, <1>1, <1>2, Apart DEF NodeInv, Elsewhere
  <2>2. \A n : Elsewhere(n) => Elsewhere(n)'
    BY <1>2 DEF Elsewhere, At
  <2>3. \A q, r \in Saves : q # r => names'.displaced[r] # CopyNode(q)
    BY <1>0, <1>2, Apart DEF NodeInv
  <2>4. ASSUME NEW k \in externals + 1 .. MaxExternal
        PROVE  Elsewhere(ForeignNode(k))' /\ \A q \in Saves : names'.displaced[q] # ForeignNode(k)
    <3>1. k \in Nat
      BY <1>0, ConstantsAssumption DEF ConstantsAssumption, TypeOK
    <3> QED
      BY <1>0, <1>2, <2>2, <3>1, Apart DEF NodeInv
  <2> QED
    BY <1>0, <1>2, <2>1, <2>2, <2>3, <2>4 DEF NodeInv
<1>6. SpentInv'
  <2>1. \A q \in Saves : /\ save'[q].verified = save[q].verified
                         /\ save'[q].approved = save[q].approved
                         /\ save'[q].strategy = save[q].strategy
                         /\ save[q].verified => /\ names'.displaced[q] = names.displaced[q]
                                                /\ names.displaced[q] # CopyNode(p)
                         /\ save[q].approved.node # CopyNode(p)
    BY <1>0, <1>1, <1>2 DEF NodeInv, Elsewhere
  <2>2. PICK w \in Nodes : w = CopyNode(p)
    BY KindsAre
  <2>3. Overwrites(w, content'[w])
    BY <1>0, <1>2, <2>1, <2>2 DEF Overwrites
  <2> QED
    BY <1>0, <2>3, SpentWrites
<1>7. ASSUME NEW q \in Saves \ {p}
      PROVE  Own(q)'
  <2>1. Hidden(q) => Hidden(q)'
    BY <1>0, <1>1, <1>2, Apart DEF Hidden, At
  <2>2. content'[StageNode(q)] = content[StageNode(q)]
    BY <1>2, Apart, KindsAre
  <2> QED
    BY <1>0, <1>2, <2>1, <2>2, OthersKeep
<1>8. Own(p)' /\ FailureInv'
  <2>0. FailureInv'
    BY <1>0, <1>1, <1>2, FailureKeeps DEF IInv, Tries, Ended, Closing, At
  <2>1. StageInv(p)'
    <3>1. Hidden(p)'
      BY <1>1, <1>2, Apart DEF Hidden, At
    <3>2. content'[StageNode(p)] = Edited(p)
      BY <1>1, <1>2, Apart, KindsAre
    <3> QED
      BY <1>0, <1>1, <1>2, <3>1, <3>2
      DEF Own, StageInv, PreStage, Hiding, Closing, At, TypeOK, Naming, Progress
  <2>2. DisplacedInv(p)'
    BY <1>0, <1>1, <1>2, Apart
    DEF Own, DisplacedInv, InPlace, Replacing, PreStage, Hiding, At, TypeOK, Naming,
        Progress
  <2>3. RecordInv(p)'
    BY <1>0, <1>1, <1>2
    DEF Own, RecordInv, PreStage, Closing, Failing, KeepsEdits, Prepared, Unrecorded,
        Recorded, NothingBut, Replacing, Entries, States, At, TypeOK, Naming, Progress
  <2>4. CleanupInv(p)'
    BY <1>1, <1>2 DEF CleanupInv
  <2> QED
    BY <2>0, <2>1, <2>2, <2>3, <2>4 DEF Own
<1> QED
  BY <1>4, <1>5, <1>6, <1>7, <1>8 DEF IInv, Own

(* The target is rewritten in place.                                         *)
LEMMA RewriteKeeps ==
    ASSUME IInv, TypeOK', NEW p \in Saves, Rewrite(p)
    PROVE  IInv'
<1>0. TypeOK /\ NodeInv /\ SpentInv /\ \A q \in Saves : Own(q)
  BY OwnIs DEF IInv
<1>1. /\ save[p].pc = "copied" /\ Hidden(p) /\ names.displaced[p] = CopyNode(p)
      /\ ~ save[p].verified /\ names.stage[p] = StageNode(p) /\ save[p].fd # NoNode
      /\ InPlace(p)
  BY <1>0 DEF Rewrite, Own, StageInv, DisplacedInv, RecordInv, PreStage, Hiding, Closing, At
<1>2. PICK w \in Nodes : w = save[p].fd
  BY <1>0, <1>1 DEF TypeOK, Progress, Places
<1>3. /\ content'[w] = Edited(p)
      /\ \A n \in Nodes : n # w => content'[n] = content[n]
      /\ save'[p].pc = "published" /\ save'[p].approved = save[p].approved
      /\ save'[p].verified = save[p].verified /\ save'[p].strategy = save[p].strategy
      /\ UNCHANGED <<names, folder, entry, cleaner, externals, failures>>
      /\ \A q \in Saves \ {p} : save'[q] = save[q]
  BY <1>0, <1>1, <1>2 DEF Rewrite, Goto, bounds, At, TypeOK, Naming, Progress
<1>4. /\ \A q \in Saves : w # CopyNode(q) /\ (Hidden(q) => w # StageNode(q))
      /\ Unseen(Edited(p)) /\ (failures = 0 => Nowhere(Edited(p)))
  BY <1>0, <1>1, <1>2
  DEF NodeInv, Elsewhere, Hidden, IInv, FreshInv, Unpublished, Hiding, At
<1>5. FreshInv' /\ HomeInv' /\ TornInv'
  <2>1. ASSUME NEW n \in Nodes, Public(n)'
        PROVE  Public(n)
    <3>1. \/ Public(n)
          \/ n = names'.target
          \/ n = names'.displaced[p] /\ n # CopyNode(p)
      BY <1>3, <2>1, PublicFrom DEF At
    <3> QED
      BY <1>1, <1>3, <3>1, NodesAre DEF Public
  <2>2. PICK v \in Versions : v = Edited(p)
    BY KindsAre
  <2>3. /\ FreshInv /\ HomeInv /\ TornInv /\ externals' = externals /\ failures' = failures
        /\ \A n \in Nodes : Public(n)' => \/ Public(n) /\ content'[n] = content[n]
                                          \/ n = w /\ content'[n] = v
    BY <1>3, <2>1, <2>2 DEF IInv
  <2>4. \A q \in Saves :
           /\ save'[q].approved = save[q].approved
           /\ save'[q].pc \in Unpublished => save[q].pc \in Unpublished
           /\ At(q, "copied")' => /\ At(q, "copied") /\ save'[q].fd = save[q].fd
                                  /\ save'[q].fd # NoNode
           /\ content'[CopyNode(q)] = content[CopyNode(q)]
    BY <1>0, <1>1, <1>3, <1>4, KindsAre
    DEF Own, DisplacedInv, Unpublished, PreStage, Hiding, At
  <2>5. \A q \in Saves : Recoverable(q) => Recoverable(q)'
    BY <1>1, <1>3, <2>4 DEF Recoverable, Prepared, Unrecorded
  <2>6. \A q \in Saves : InPlace(q)' /\ save'[q].pc \in {"published", "verify"} =>
              /\ content'[CopyNode(q)] = content[CopyNode(q)]
              /\ \/ InPlace(q) /\ save[q].pc \in {"published", "verify"} /\ v # Edited(q)
                 \/ At(q, "copied") /\ w = save[q].fd /\ v = Edited(q)
    BY <1>1, <1>2, <1>3, <2>2, <2>4, Apart DEF InPlace, Replacing, At
  <2>7. /\ v # Torn /\ Unseen(v) /\ (failures = 0 => Nowhere(v))
        /\ \A q \in Saves : save'[q].pc \in Unpublished => v # Edited(q)
        /\ \A k \in externals' + 1 .. MaxExternal : v # Foreign(k)
    <3>1. \A k \in externals' + 1 .. MaxExternal : k \in Nat
      BY <1>0, <1>3, ConstantsAssumption DEF ConstantsAssumption, TypeOK
    <3>2. save'[p].pc \notin Unpublished
      BY <1>3 DEF Unpublished, PreStage, Hiding
    <3> QED
      BY <1>4, <2>2, <3>1, <3>2, Apart
  <2>8. Writes(w, v)
    BY <1>0, <2>3, <2>4, <2>5, <2>6, <2>7 DEF Writes
  <2> QED
    BY <1>0, <2>3, <2>8, WritingKeeps
<1>6. NodeInv' /\ FailureInv' /\ \A q \in Saves : Hidden(q) => Hidden(q)'
  <2>1. \A q \in Saves : /\ save'[q].approved = save[q].approved
                         /\ At(q, "copied")' => At(q, "copied") /\ save'[q].fd = save[q].fd
    BY <1>1, <1>3 DEF At
  <2>2. /\ \A n : Elsewhere(n) => Elsewhere(n)'
        /\ \A q \in Saves : Hidden(q) => Hidden(q)'
    BY <1>3, <2>1, ElsewhereStays
  <2>3. NodeInv'
    BY <1>0, <1>3, <2>2 DEF NodeInv
  <2>4. FailureInv'
    BY <1>0, <1>1, <1>3, FailureKeeps DEF IInv, Tries, Ended, Closing, At
  <2> QED
    BY <2>2, <2>3, <2>4
<1>7. SpentInv'
  <2>1. \A q \in Saves : /\ save'[q].verified = save[q].verified
                         /\ save'[q].approved = save[q].approved
                         /\ save'[q].strategy = save[q].strategy
                         /\ save[q].approved.version # Edited(p)
    BY <1>3, <1>4 DEF Unseen
  <2>2. Edited(p) \notin Published
    BY <1>1, Apart
  <2>3. Overwrites(w, content'[w])
    BY <1>0, <1>3, <1>4, <2>1, <2>2 DEF Overwrites
  <2> QED
    BY <1>0, <2>3, SpentWrites
<1>8. ASSUME NEW q \in Saves \ {p}
      PROVE  Own(q)'
  <2>1. Hidden(q) => content'[StageNode(q)] = content[StageNode(q)]
    BY <1>3, <1>4, KindsAre
  <2> QED
    BY <1>0, <1>3, <1>6, <2>1, OthersKeep
<1>9. Own(p)'
  <2>1. StageInv(p)'
    BY <1>0, <1>1, <1>3
    DEF Own, StageInv, PreStage, Hiding, Closing, At, TypeOK, Naming, Progress
  <2>2. DisplacedInv(p)'
    BY <1>0, <1>1, <1>3
    DEF Own, DisplacedInv, InPlace, Replacing, PreStage, Hiding, At, TypeOK, Naming,
        Progress
  <2>3. RecordInv(p)'
    BY <1>0, <1>1, <1>3
    DEF Own, RecordInv, PreStage, Closing, Failing, KeepsEdits, Prepared, Unrecorded,
        Recorded, NothingBut, Replacing, Entries, States, At, TypeOK, Naming, Progress
  <2>4. CleanupInv(p)'
    BY <1>1, <1>3 DEF CleanupInv
  <2> QED
    BY <2>1, <2>2, <2>3, <2>4 DEF Own
<1> QED
  BY <1>5, <1>6, <1>7, <1>8, <1>9 DEF IInv, Own

(* A crash tears the target that was being rewritten.                        *)
LEMMA TearingKeeps ==
    ASSUME IInv, TypeOK', NEW p \in Saves, Crash(p), content' # content
    PROVE  IInv'
<1>0. TypeOK /\ NodeInv /\ SpentInv /\ \A q \in Saves : Own(q)
  BY OwnIs DEF IInv
<1>1. /\ save[p].pc = "copied" /\ Hidden(p) /\ names.displaced[p] = CopyNode(p)
      /\ ~ save[p].verified /\ names.stage[p] = StageNode(p) /\ save[p].fd # NoNode
      /\ InPlace(p) /\ Prepared(p) /\ Unrecorded(p)
  BY <1>0 DEF Crash, Own, StageInv, DisplacedInv, RecordInv, PreStage, Hiding, Closing, At
<1>2. PICK w \in Nodes : w = save[p].fd
  BY <1>0, <1>1 DEF TypeOK, Progress, Places
<1>3. /\ content'[w] = Torn
      /\ \A n \in Nodes : n # w => content'[n] = content[n]
      /\ save'[p].pc = "crashed" /\ save'[p].approved = save[p].approved
      /\ save'[p].verified = save[p].verified /\ save'[p].strategy = save[p].strategy
      /\ UNCHANGED <<names, folder, cleaner, externals, failures, entry>>
      /\ \A q \in Saves \ {p} : save'[q] = save[q]
  BY <1>0, <1>1, <1>2
  DEF Crash, LeftBehind, WritingSteps, Goto, bounds, At, TypeOK, Naming, Progress
<1>4. \A q \in Saves : w # CopyNode(q) /\ (Hidden(q) => w # StageNode(q))
  BY <1>0, <1>1, <1>2 DEF NodeInv, Elsewhere, Hidden, At
<1>5. FreshInv' /\ HomeInv' /\ TornInv'
  <2>1. ASSUME NEW n \in Nodes, Public(n)'
        PROVE  Public(n)
    <3>1. \/ Public(n)
          \/ n = names'.target
          \/ n = names'.displaced[p] /\ n # CopyNode(p)
      BY <1>3, <2>1, PublicFrom DEF At
    <3> QED
      BY <1>1, <1>3, <3>1, NodesAre DEF Public
  <2>2. PICK v \in Contents : v = Torn
    BY KindsAre
  <2>3. /\ FreshInv /\ HomeInv /\ TornInv /\ externals' = externals /\ failures' = failures
        /\ \A n \in Nodes : Public(n)' => \/ Public(n) /\ content'[n] = content[n]
                                          \/ n = w /\ content'[n] = v
    BY <1>3, <2>1, <2>2 DEF IInv
  <2>4. \A q \in Saves :
           /\ save'[q].approved = save[q].approved
           /\ save'[q].pc \in Unpublished => save[q].pc \in Unpublished
           /\ At(q, "copied")' => /\ At(q, "copied") /\ save'[q].fd = save[q].fd
                                  /\ save'[q].fd # NoNode
           /\ content'[CopyNode(q)] = content[CopyNode(q)]
    BY <1>0, <1>1, <1>3, <1>4, KindsAre
    DEF Own, DisplacedInv, Unpublished, PreStage, Hiding, At
  <2>5. \A q \in Saves : Recoverable(q) => Recoverable(q)'
    BY <1>1, <1>3, <2>4 DEF Recoverable, Prepared, Unrecorded
  <2>6. \A q \in Saves : InPlace(q)' /\ save'[q].pc \in {"published", "verify"} =>
              /\ content'[CopyNode(q)] = content[CopyNode(q)]
              /\ \/ InPlace(q) /\ save[q].pc \in {"published", "verify"} /\ v # Edited(q)
                 \/ At(q, "copied") /\ w = save[q].fd /\ v = Edited(q)
    BY <1>1, <1>3, <2>2, <2>4, Apart DEF InPlace, Replacing
  <2>7. /\ v = Torn /\ \E r \in Saves : Recoverable(r)'
        /\ \A q \in Saves : v # Edited(q)
        /\ \A k \in externals' + 1 .. MaxExternal : v # Foreign(k)
    <3>1. \A k \in externals' + 1 .. MaxExternal : k \in Nat
      BY <1>0, <1>3, ConstantsAssumption DEF ConstantsAssumption, TypeOK
    <3>2. \E r \in Saves : Recoverable(r)'
      <4>1. CASE content[CopyNode(p)] = Torn
        BY <1>1, <2>3, <2>5, <4>1 DEF TornInv, At
      <4>2. CASE content[CopyNode(p)] # Torn
        <5>1. Recoverable(p)'
          BY <1>1, <1>3, <2>4, <4>2 DEF Recoverable, Prepared, Unrecorded
        <5> QED
          BY <5>1
      <4> QED
        BY <4>1, <4>2
    <3> QED
      BY <2>2, <3>1, <3>2, Apart
  <2>8. /\ v = Torn \/ (Unseen(v) /\ (failures = 0 => Nowhere(v)))
        /\ \A q \in Saves : save'[q].pc \in Unpublished => v # Edited(q)
        /\ \A k \in externals' + 1 .. MaxExternal : v # Foreign(k)
        /\ v = Torn => \E r \in Saves : Recoverable(r)'
    BY <2>7
  <2>9. Writes(w, v)
    BY <1>0, <2>3, <2>4, <2>5, <2>6, <2>8 DEF Writes
  <2> QED
    BY <1>0, <2>3, <2>9, WritingKeeps
<1>6. NodeInv' /\ FailureInv' /\ \A q \in Saves : Hidden(q) => Hidden(q)'
  <2>1. \A q \in Saves : /\ save'[q].approved = save[q].approved
                         /\ At(q, "copied")' => At(q, "copied") /\ save'[q].fd = save[q].fd
    BY <1>1, <1>3 DEF At
  <2>2. /\ \A n : Elsewhere(n) => Elsewhere(n)'
        /\ \A q \in Saves : Hidden(q) => Hidden(q)'
    BY <1>3, <2>1, ElsewhereStays
  <2>3. NodeInv'
    BY <1>0, <1>3, <2>2 DEF NodeInv
  <2>4. FailureInv'
    BY <1>0, <1>1, <1>3, FailureKeeps DEF IInv, Tries, Ended, Closing, At
  <2> QED
    BY <2>2, <2>3, <2>4
<1>7. SpentInv'
  <2>1. \A q \in Saves : /\ save'[q].verified = save[q].verified
                         /\ save'[q].approved = save[q].approved
                         /\ save'[q].strategy = save[q].strategy
    BY <1>3
  <2>2. PICK v : v = Torn /\ v \notin Published
    BY Apart
  <2>3. Overwrites(w, content'[w])
    BY <1>0, <1>3, <1>4, <2>1, <2>2 DEF Overwrites
  <2> QED
    BY <1>0, <2>3, SpentWrites
<1>8. ASSUME NEW q \in Saves \ {p}
      PROVE  Own(q)'
  <2>1. Hidden(q) => content'[StageNode(q)] = content[StageNode(q)]
    BY <1>3, <1>4, KindsAre
  <2> QED
    BY <1>0, <1>3, <1>6, <2>1, OthersKeep
<1>9. Own(p)'
  BY <1>0, <1>1, <1>3, CrashLeaves DEF Crash, Goto
<1> QED
  BY <1>5, <1>6, <1>7, <1>8, <1>9 DEF IInv, Own

(* A failed rewrite restores the copy, or fails at that too.                 *)
LEMMA RestorePreviousKeeps ==
    ASSUME IInv, TypeOK', NEW p \in Saves, RestorePrevious(p)
    PROVE  IInv'
<1>0. TypeOK /\ NodeInv /\ SpentInv /\ \A q \in Saves : Own(q)
  BY OwnIs DEF IInv
<1>1. /\ save[p].pc = "copied" /\ Hidden(p) /\ names.displaced[p] = CopyNode(p)
      /\ ~ save[p].verified /\ names.stage[p] = StageNode(p) /\ save[p].fd # NoNode
      /\ Prepared(p) /\ Unrecorded(p) /\ MayFail
  BY <1>0 DEF RestorePrevious, Own, StageInv, DisplacedInv, RecordInv, PreStage, Hiding,
              Closing, At
<1>2. PICK w \in Nodes : w = save[p].fd
  BY <1>0, <1>1 DEF TypeOK, Progress, Places
<1>3. /\ \A n \in Nodes : n # w => content'[n] = content[n]
      /\ names'.target = names.target /\ names'.displaced = names.displaced
      /\ names'.stage[p] \in {NoNode, names.stage[p]}
      /\ \A q \in Saves \ {p} : /\ names'.stage[q] = names.stage[q]
                                /\ names'.kept[q] = names.kept[q]
      /\ Return(p, "commit_failure")
      /\ UNCHANGED <<folder, entry, cleaner, externals>>
  <2>1. PICK v : content' = [content EXCEPT ![save[p].fd] = v]
    BY DEF RestorePrevious
  <2>2. \A n \in Nodes : n # w => content'[n] = content[n]
    BY <1>0, <1>2, <2>1 DEF TypeOK
  <2>3. names' \in Kept(p)
    BY DEF RestorePrevious
  <2>4. /\ names'.target = names.target /\ names'.displaced = names.displaced
        /\ names'.stage[p] \in {NoNode, names.stage[p]}
        /\ \A q \in Saves \ {p} : /\ names'.stage[q] = names.stage[q]
                                  /\ names'.kept[q] = names.kept[q]
    BY <1>0, <2>3, KeptIs
  <2>5. /\ Return(p, "commit_failure")
        /\ UNCHANGED <<folder, entry, cleaner, externals>>
    BY DEF RestorePrevious
  <2> QED
    BY <2>2, <2>4, <2>5
<1>4. /\ save'[p].pc = "done" /\ save'[p].approved = save[p].approved
      /\ save'[p].verified = save[p].verified /\ save'[p].strategy = save[p].strategy
      /\ \A q \in Saves \ {p} : save'[q] = save[q] /\ At(q, "closed") /\ ~ save[q].verified
  <2>1. \A q \in Saves \ {p} : At(q, "closed")
    BY <1>1, NotRacing DEF MayFail, At
  <2>2. \A q \in Saves \ {p} : ~ save[q].verified
    BY <1>0, <2>1 DEF Own, RecordInv, Closing, At
  <2>3. \A q \in Saves \ {p} : save'[q] = save[q]
    BY <1>0, <1>3 DEF Return, TypeOK
  <2>4. /\ save'[p].pc = "done" /\ save'[p].approved = save[p].approved
        /\ save'[p].verified = save[p].verified /\ save'[p].strategy = save[p].strategy
    BY <1>0, <1>3 DEF Return, TypeOK, Progress
  <2> QED
    BY <2>1, <2>2, <2>3, <2>4
<1>5. \A q \in Saves : /\ w # CopyNode(q) /\ (Hidden(q) => w # StageNode(q))
                       /\ save'[q].approved = save[q].approved
                       /\ ~ At(q, "copied")'
                       /\ names'.stage[q] \in {names.stage[q], NoNode}
  BY <1>0, <1>1, <1>2, <1>3, <1>4 DEF NodeInv, Elsewhere, Hidden, At
<1>6. FreshInv' /\ HomeInv' /\ SpentInv' /\ TornInv' /\ FailureInv'
  <2>1. failures' = failures + 1 /\ failures' # 0
    BY <1>0, <1>1 DEF MayFail, TypeOK
  <2>2. HomeInv' /\ SpentInv'
    BY <1>1, <1>4, <2>1 DEF HomeInv, SpentInv
  <2>3. FreshInv'
    <3>1. \A u : Unseen(u) => Unseen(u)'
      BY <1>5 DEF Unseen
    <3>2. \A q \in Saves : save'[q].pc \in Unpublished => save[q].pc \in Unpublished
      BY <1>4 DEF Unpublished, PreStage, Hiding
    <3> QED
      BY <1>3, <1>5, <2>1, <3>1, <3>2 DEF IInv, FreshInv
  <2>4. FailureInv'
    BY <1>4 DEF FailureInv, At
  <2>5. content[CopyNode(p)] # Torn
    <3>1. SUFFICES ASSUME content[CopyNode(p)] = Torn
                   PROVE  FALSE
      OBVIOUS
    <3>2. PICK r \in Saves : Recoverable(r)
      BY <1>1, <3>1 DEF IInv, TornInv, At
    <3> QED
      BY <1>1, <1>4, <3>2 DEF Recoverable, At
  <2>6. Recoverable(p)'
    BY <1>1, <1>3, <1>4, <1>5, <2>5, KindsAre DEF Recoverable, Prepared, Unrecorded
  <2> QED
    BY <2>2, <2>3, <2>4, <2>6 DEF TornInv
<1>7. NodeInv' /\ \A q \in Saves : Hidden(q) => Hidden(q)'
  <2>1. \A n \in Nodes : Elsewhere(n) => Elsewhere(n)'
    BY <1>3, <1>5, NodesAre DEF Elsewhere
  <2>2. \A q \in Saves : Hidden(q) => Hidden(q)'
    BY <1>3, <1>5, Apart DEF Hidden
  <2>3. \A k \in externals + 1 .. MaxExternal : ForeignNode(k) \in Nodes
    BY <1>0, KindsAre, ConstantsAssumption DEF ConstantsAssumption, TypeOK
  <2>4. NodeInv'
    BY <1>0, <1>3, <1>5, <2>1, <2>3, KindsAre, Apart DEF NodeInv
  <2> QED
    BY <2>2, <2>4
<1>8. ASSUME NEW q \in Saves \ {p}
      PROVE  Own(q)'
  <2>1. Hidden(q) => content'[StageNode(q)] = content[StageNode(q)]
    BY <1>3, <1>5, KindsAre
  <2>2. /\ save'[q] = save[q] /\ entry'[q] = entry[q] /\ folder'[q] = folder[q]
        /\ cleaner'[q] = cleaner[q] /\ names'.kept[q] = names.kept[q]
        /\ names'.displaced[q] = names.displaced[q] /\ names'.stage[q] = names.stage[q]
    BY <1>3, <1>4
  <2> QED
    BY <1>0, <1>7, <2>1, <2>2, OthersKeep
<1>9. Own(p)'
  BY <1>0, <1>1, <1>3, FailedCommitLeaves DEF Return
<1> QED
  BY <1>6, <1>7, <1>8, <1>9 DEF IInv, Own

(* Another program writes the file or puts its own in its place.             *)
LEMMA WrittenOutsideKeeps ==
    ASSUME IInv, TypeOK', ForeignReplace \/ ForeignWrite
    PROVE  IInv'
<1>0. TypeOK /\ NodeInv /\ SpentInv /\ FreshInv /\ \A q \in Saves : Own(q)
  BY OwnIs DEF IInv
<1>1. PICK k \in 1 .. MaxExternal : k = externals + 1 /\ externals' = k
  BY <1>0, ForeignTypes DEF ForeignStep
<1>2. PICK w \in Nodes : /\ content' = [content EXCEPT ![w] = Foreign(k)]
                         /\ \/ w = names.target /\ names' = names
                            \/ w = ForeignNode(k) /\ names' = [names EXCEPT !.target = w]
  <2>1. CASE ForeignReplace
    BY <1>1, <2>1, KindsAre DEF ForeignReplace
  <2>2. CASE ForeignWrite
    BY <1>0, <1>1, <2>2 DEF ForeignWrite, TypeOK, Naming, Places
  <2> QED
    BY <2>1, <2>2
<1>3. /\ UNCHANGED <<folder, entry, save, cleaner, failures>>
      /\ content'[w] = Foreign(k) /\ \A n \in Nodes : n # w => content'[n] = content[n]
      /\ names'.target = w /\ names'.stage = names.stage /\ names'.kept = names.kept
      /\ names'.displaced = names.displaced
  BY <1>0, <1>2 DEF ForeignReplace, ForeignWrite, TypeOK, Naming
<1>4. /\ k \in Nat /\ k \in externals + 1 .. MaxExternal
      /\ Elsewhere(ForeignNode(k)) /\ \A q \in Saves : names.displaced[q] # ForeignNode(k)
  <2>1. k \in Nat /\ k \in externals + 1 .. MaxExternal
    BY <1>0, <1>1, ConstantsAssumption DEF ConstantsAssumption, TypeOK
  <2> QED
    BY <1>0, <2>1 DEF NodeInv
<1>5. \A j \in externals' + 1 .. MaxExternal :
         j \in Nat /\ j # k /\ j \in externals + 1 .. MaxExternal /\ j \in 1 .. MaxExternal
  BY <1>0, <1>1, ConstantsAssumption DEF ConstantsAssumption, TypeOK
<1>6. \A q \in Saves : /\ w # CopyNode(q) /\ w # names.stage[q] /\ w # names.displaced[q]
                       /\ Hidden(q) => w # StageNode(q)
  BY <1>0, <1>2, <1>4, Apart, NodesAre DEF NodeInv, Elsewhere, Hidden
<1>7. NodeInv' /\ \A q \in Saves : Hidden(q) => Hidden(q)'
  <2>1. ASSUME NEW n \in Nodes, Elsewhere(n), n # w
        PROVE  Elsewhere(n)'
    BY <1>3, <2>1 DEF Elsewhere, At
  <2>2. \A q \in Saves : Hidden(q) => Hidden(q)'
    BY <1>3, <1>6 DEF Hidden, At
  <2>3. \A q \in Saves : Elsewhere(CopyNode(q))'
    BY <1>0, <1>6, <2>1, KindsAre DEF NodeInv
  <2>4. ASSUME NEW j \in externals' + 1 .. MaxExternal
        PROVE  Elsewhere(ForeignNode(j))' /\ \A q \in Saves : names'.displaced[q] # ForeignNode(j)
    <3>1. /\ Elsewhere(ForeignNode(j)) /\ \A q \in Saves : names.displaced[q] # ForeignNode(j)
          /\ ForeignNode(j) # ForeignNode(k) /\ j \in 1 .. MaxExternal
      BY <1>0, <1>4, <1>5, Apart DEF NodeInv
    <3>2. ForeignNode(j) # w /\ ForeignNode(j) \in Nodes
      BY <1>2, <3>1, KindsAre DEF Elsewhere
    <3> QED
      BY <1>3, <2>1, <3>1, <3>2
  <2>5. /\ \A q \in Saves : names'.target # names'.stage[q] /\ names'.target # names'.displaced[q]
        /\ \A q, r \in Saves : names'.stage[q] # NoNode =>
              names'.stage[q] # names'.displaced[r] /\ (q # r => names'.stage[q] # names'.stage[r])
        /\ \A q, r \in Saves : names'.displaced[q] # NoNode /\ q # r =>
              names'.displaced[q] # names'.displaced[r]
        /\ \A q, r \in Saves : q # r => names'.displaced[r] # CopyNode(q)
    BY <1>0, <1>3, <1>6 DEF NodeInv
  <2> QED
    BY <2>2, <2>3, <2>4, <2>5 DEF NodeInv
<1>8. FreshInv' /\ HomeInv' /\ TornInv'
  <2>1. PICK v \in Versions : v = Foreign(k)
    BY KindsAre
  <2>2. \A n \in Nodes : Public(n)' => \/ Public(n) /\ content'[n] = content[n]
                                       \/ n = w /\ content'[n] = v
    BY <1>3, <2>1 DEF Public, At
  <2>3. /\ v # Torn /\ Unseen(v) /\ (failures = 0 => Nowhere(v))
        /\ \A q \in Saves : v # Edited(q)
        /\ \A j \in externals' + 1 .. MaxExternal : v # Foreign(j)
    BY <1>0, <1>4, <1>5, <2>1, Apart DEF FreshInv
  <2>4. \A q \in Saves : content'[CopyNode(q)] = content[CopyNode(q)]
    BY <1>3, <1>6, KindsAre
  <2>5. \A q \in Saves : /\ save'[q].approved = save[q].approved
                         /\ save'[q].pc \in Unpublished => save[q].pc \in Unpublished
                         /\ Recoverable(q) => Recoverable(q)'
    BY <1>3, <2>4 DEF Recoverable, Prepared, Unrecorded
  <2>6. \A q \in Saves : At(q, "copied")' => /\ At(q, "copied") /\ save'[q].fd = save[q].fd
                                             /\ save'[q].fd # NoNode
    BY <1>0, <1>3 DEF At, Own, DisplacedInv
  <2>7. \A q \in Saves : InPlace(q)' /\ save'[q].pc \in {"published", "verify"} =>
              InPlace(q) /\ save[q].pc \in {"published", "verify"}
    BY <1>3 DEF InPlace, Replacing
  <2>8. /\ FreshInv /\ HomeInv /\ TornInv /\ externals' \in {externals, externals + 1}
        /\ failures' = failures
    BY <1>1, <1>3 DEF IInv
  <2>9. Writes(w, v)
    BY <1>0, <2>2, <2>3, <2>4, <2>5, <2>6, <2>7, <2>8 DEF Writes
  <2> QED
    BY <1>0, <2>8, <2>9, WritingKeeps
<1>9. SpentInv'
  <2>1. PICK v \in Versions : v = Foreign(k)
    BY KindsAre
  <2>2. /\ content'[w] = v /\ \A n \in Nodes : n # w => content'[n] = content[n]
        /\ names'.target \in {names.target, NoNode, w}
        /\ \A q \in Saves : /\ names'.stage[q] \in {names.stage[q], NoNode}
                            /\ names'.displaced[q] \in {names.displaced[q], w}
        /\ \A q \in Saves : /\ save'[q].verified = save[q].verified
                            /\ save'[q].approved = save[q].approved
                            /\ save[q].verified => /\ save'[q].strategy = save[q].strategy
                                                   /\ names'.displaced[q] = names.displaced[q]
    BY <1>3, <2>1
  <2>3. \A q \in Saves : save[q].verified =>
              /\ names.displaced[q] = w => v \notin Published /\ w # CopyNode(q)
              /\ save[q].approved.version # Torn /\ save[q].approved.node = w =>
                    v # save[q].approved.version /\ names' = names
    BY <1>0, <1>2, <1>4, <1>6, <2>1 DEF FreshInv, Unseen, Elsewhere
  <2>4. Overwrites(w, v)
    BY <2>2, <2>3 DEF Overwrites
  <2> QED
    BY <1>0, <2>4, SpentWrites
<1>10. \A q \in Saves : Own(q)'
  <2>1. ASSUME NEW q \in Saves
        PROVE  Own(q)'
    <3>1. Hidden(q) => content'[StageNode(q)] = content[StageNode(q)]
      BY <1>3, <1>6, KindsAre
    <3> QED
      BY <1>0, <1>3, <1>7, <3>1, OthersKeep
  <2> QED
    BY <2>1
<1>11. FailureInv'
  BY <1>3 DEF IInv, FailureInv, At
<1> QED
  BY <1>7, <1>8, <1>9, <1>10, <1>11 DEF IInv, Own

(* Another program deletes the file.                                         *)
LEMMA DeletedOutsideKeeps ==
    ASSUME IInv, TypeOK', ForeignDelete
    PROVE  IInv'
<1>0. TypeOK /\ NodeInv /\ SpentInv /\ FreshInv /\ \A q \in Saves : Own(q)
  BY OwnIs DEF IInv
<1>1. PICK k \in 1 .. MaxExternal : k = externals + 1 /\ externals' = k
  BY <1>0, ForeignTypes DEF ForeignStep
<1>2. /\ UNCHANGED <<content, folder, entry, save, cleaner, failures>>
      /\ names'.target = NoNode /\ names'.stage = names.stage /\ names'.kept = names.kept
      /\ names'.displaced = names.displaced
  BY <1>0 DEF ForeignDelete, TypeOK, Naming
<1>3. /\ k \in Nat /\ ForeignNode(k) \in Nodes
      /\ Elsewhere(ForeignNode(k)) /\ \A q \in Saves : names.displaced[q] # ForeignNode(k)
  <2>1. k \in Nat /\ k \in externals + 1 .. MaxExternal
    BY <1>0, <1>1, ConstantsAssumption DEF ConstantsAssumption, TypeOK
  <2> QED
    BY <1>0, <2>1, KindsAre DEF NodeInv
<1>4. \A j \in externals' + 1 .. MaxExternal :
         j \in externals + 1 .. MaxExternal /\ j \in 1 .. MaxExternal
  BY <1>0, <1>1, ConstantsAssumption DEF ConstantsAssumption, TypeOK
<1>5. NodeInv' /\ \A q \in Saves : Hidden(q) => Hidden(q)'
  <2>1. /\ \A n \in Nodes : Elsewhere(n) => Elsewhere(n)'
        /\ \A q \in Saves : Hidden(q) => Hidden(q)'
    BY <1>2, NodesAre, Apart DEF Elsewhere, Hidden, At
  <2>2. \A j \in externals' + 1 .. MaxExternal : ForeignNode(j) \in Nodes
    BY <1>4, KindsAre
  <2> QED
    BY <1>0, <1>2, <1>4, <2>1, <2>2, KindsAre DEF NodeInv
<1>6. FreshInv' /\ HomeInv' /\ TornInv'
  <2>1. PICK w \in Nodes : w = ForeignNode(k)
    BY <1>3
  <2>2. ~ Public(w)' /\ \A n \in Nodes : Public(n)' => Public(n) /\ content'[n] = content[n]
    BY <1>2, <1>3, <2>1, Apart DEF Public, At, Elsewhere, Own, StageInv
  <2>3. PICK v \in Contents : v = Torn
    BY KindsAre
  <2>4. \A q \in Saves : v # Edited(q) /\ content'[CopyNode(q)] = content[CopyNode(q)]
    BY <1>2, <2>3, Apart
  <2>5. \A q \in Saves : /\ save'[q].approved = save[q].approved
                         /\ save'[q].pc \in Unpublished => save[q].pc \in Unpublished
                         /\ Recoverable(q) => Recoverable(q)'
    BY <1>2 DEF Recoverable, Prepared, Unrecorded
  <2>6. \A q \in Saves : At(q, "copied")' => /\ At(q, "copied") /\ save'[q].fd = save[q].fd
                                             /\ save'[q].fd # NoNode
    BY <1>0, <1>2 DEF At, Own, DisplacedInv
  <2>7. \A q \in Saves : InPlace(q)' /\ save'[q].pc \in {"published", "verify"} =>
              InPlace(q) /\ save[q].pc \in {"published", "verify"}
    BY <1>2 DEF InPlace, Replacing
  <2>8. /\ FreshInv /\ HomeInv /\ TornInv /\ externals' \in {externals, externals + 1}
        /\ failures' = failures
    BY <1>1, <1>2 DEF IInv
  <2>9. Writes(w, v)
    BY <1>0, <2>2, <2>4, <2>5, <2>6, <2>7, <2>8 DEF Writes
  <2> QED
    BY <1>0, <2>8, <2>9, WritingKeeps
<1>7. SpentInv'
  <2>1. Published' = Published
    BY <1>2 DEF Published
  <2>2. ASSUME NEW q \in Saves, save[q].verified, save[q].approved.version # Torn
        PROVE  save[q].approved.node # NoNode
    BY <1>0, <2>2 DEF Own, DisplacedInv, Replacing
  <2> QED
    BY <1>0, <1>2, <2>1, <2>2 DEF SpentInv, InPlace, Replacing
<1>8. \A q \in Saves : Own(q)'
  <2>1. ASSUME NEW q \in Saves
        PROVE  Own(q)'
    BY <1>0, <1>2, <1>5, OthersKeep
  <2> QED
    BY <2>1
<1>9. FailureInv'
  BY <1>2 DEF IInv, FailureInv, At
<1> QED
  BY <1>5, <1>6, <1>7, <1>8, <1>9 DEF IInv, Own

(* What a save displaced, when it is reported a success, is the file that was *)
(* approved, or its copy.                                                    *)
LEMMA ApprovedIsDisplaced ==
    ASSUME IInv, NEW p \in Saves, VerifyGood(p),
           NEW a, a = save[p].approved, NEW d, d = names.displaced[p],
           NEW t, t = names.target
    PROVE  /\ failures = 0 /\ t \in Nodes /\ Public(t) /\ content[t] = Edited(p)
           /\ d # NoNode => d \in Nodes /\ content[d] = a.version
           /\ a.version # Torn => d \in Nodes /\ content[d] = a.version
           /\ a.version # Torn /\ InPlace(p) => t = a.node /\ a.version # Edited(p)
           /\ a.version # Torn /\ ~ InPlace(p) => d = a.node
<1>0. /\ TypeOK /\ FreshInv /\ HomeInv /\ FailureInv /\ Own(p)
      /\ save[p].pc = "verify" /\ ~ At(p, "closed") /\ save[p].pc \notin Ended
  BY OwnIs DEF IInv, VerifyGood, Ended, Closing, At
<1>1. failures = 0
  BY <1>0, FailedAlone
<1>2. t \in Nodes /\ Public(t) /\ content[t] = Edited(p)
  <2>1. t # NoNode /\ content[t] = Edited(p)
    BY Apart DEF VerifyGood, TargetIsOutput, Fingerprint
  <2> QED
    BY <1>0, <2>1 DEF Public, TypeOK, Naming, Places
<1>3. /\ d # NoNode => d \in Nodes /\ content[d] = a.version
      /\ a.version # Torn => d \in Nodes /\ content[d] = a.version
  <2>1. Replacing(p) => Fingerprint(d).version = a.version
    BY DEF VerifyGood, DisplacedIsApproved
  <2>2. /\ d # NoNode => d \in Nodes /\ Replacing(p)
        /\ ~ Replacing(p) => a.version = Torn
    BY <1>0 DEF Own, DisplacedInv, TypeOK, Naming, Places
  <2>3. /\ Replacing(p) /\ d = NoNode => a.version = Torn
        /\ Replacing(p) /\ d # NoNode => content[d] = a.version
    BY <2>1 DEF Fingerprint
  <2> QED
    BY <2>2, <2>3
<1>4. ASSUME a.version # Torn, InPlace(p)
      PROVE  t = a.node /\ a.version # Edited(p)
  <2>1. d = CopyNode(p) /\ content[d] = a.version
    BY <1>0, <1>3, <1>4 DEF Own, DisplacedInv
  <2>2. OnlyAt(Edited(p), a.node)
    BY <1>0, <1>1, <1>4, <2>1 DEF HomeInv
  <2> QED
    BY <1>0, <1>2, <2>2 DEF OnlyAt, FreshInv
<1>5. ASSUME a.version # Torn, ~ InPlace(p)
      PROVE  d = a.node
  <2>1. d \in Nodes /\ content[d] = a.version /\ d # CopyNode(p)
    BY <1>0, <1>3, <1>5 DEF Own, DisplacedInv
  <2>2. Public(d)
    BY <2>1, NodesAre DEF Public
  <2> QED
    BY <1>0, <1>1, <1>5, <2>1, <2>2 DEF HomeInv, OnlyAt
<1> QED
  BY <1>1, <1>2, <1>3, <1>4, <1>5

(* A save is reported a success: what it displaced is what was approved.     *)
LEMMA VerifyGoodKeeps ==
    ASSUME IInv, TypeOK', NEW p \in Saves, VerifyGood(p)
    PROVE  IInv'
<1>0. /\ TypeOK /\ NodeInv /\ SpentInv /\ FreshInv /\ HomeInv /\ FailureInv
      /\ \A q \in Saves : Own(q)
  BY OwnIs DEF IInv
<1>1. /\ save[p].pc = "verify" /\ ~ save[p].verified /\ Prepared(p) /\ Recorded(p)
      /\ names.stage[p] \in {NoNode, StageNode(p)} /\ names.kept[p] = NoNode
      /\ cleaner[p].pc = "idle" /\ ~ At(p, "closed") /\ save[p].pc \notin Ended
  BY <1>0 DEF VerifyGood, Own, StageInv, RecordInv, Closing, Ended, At
<1>2. /\ UNCHANGED <<names, content, folder, entry, cleaner, externals, failures>>
      /\ save'[p].pc = "authority" /\ save'[p].verified
      /\ save'[p].approved = save[p].approved /\ save'[p].strategy = save[p].strategy
      /\ \A q \in Saves \ {p} : save'[q] = save[q]
  BY <1>0 DEF VerifyGood, disk, bounds, TypeOK, Progress
<1>3. FreshInv' /\ HomeInv' /\ TornInv' /\ FailureInv'
  <2>1. Tries(p)
    BY <1>1, <1>2 DEF Tries
  <2>2. ASSUME NEW n \in Nodes, Public(n)'
        PROVE  Public(n)
    <3>1. \/ Public(n)
          \/ n = names'.target
          \/ n = names'.displaced[p] /\ n # CopyNode(p)
      BY <1>2, <2>2, PublicFrom DEF At
    <3> QED
      BY <1>2, <3>1, NodesAre DEF Public
  <2>3. Spread(p)
    BY <1>1, <1>2, <2>1, <2>2 DEF Spread, Unpublished, PreStage, Hiding
  <2> QED
    BY <1>0, <2>3, SpreadKeeps DEF IInv
<1>4. NodeInv' /\ \A q \in Saves : Hidden(q) => Hidden(q)'
  <2>1. \A q \in Saves : /\ save'[q].approved = save[q].approved
                         /\ At(q, "copied")' => At(q, "copied") /\ save'[q].fd = save[q].fd
    BY <1>1, <1>2 DEF At
  <2>2. /\ \A n : Elsewhere(n) => Elsewhere(n)'
        /\ \A q \in Saves : Hidden(q) => Hidden(q)'
    BY <1>2, <2>1, ElsewhereStays
  <2> QED
    BY <1>0, <1>2, <2>2 DEF NodeInv
<1>5. PICK a, d, t : /\ a = save[p].approved /\ d = names.displaced[p] /\ t = names.target
                     /\ failures = 0 /\ t \in Nodes /\ Public(t) /\ content[t] = Edited(p)
                     /\ d # NoNode => d \in Nodes /\ content[d] = a.version
                     /\ a.version # Torn => d \in Nodes /\ content[d] = a.version
                     /\ a.version # Torn /\ InPlace(p) => t = a.node /\ a.version # Edited(p)
                     /\ a.version # Torn /\ ~ InPlace(p) => d = a.node
  BY ApprovedIsDisplaced
<1>6. SpentInv'
  <2>1. \A u : u \in Published' => u \in Published \/ u = Edited(p)
    BY <1>2 DEF Published
  <2>2. \A q \in Saves : InPlace(q)' = InPlace(q) /\ save'[q].approved = save[q].approved
    BY <1>2 DEF InPlace, Replacing
  <2>3. /\ d = CopyNode(p) => content[d] = a.version
        /\ d # NoNode => content[d] = a.version
        /\ a.version # Torn =>
             IF InPlace(p) THEN content[a.node] # a.version
             ELSE /\ t # a.node
                  /\ \A r \in Saves : /\ names.stage[r] # a.node
                                      /\ r # p => names.displaced[r] # a.node
    <3>1. d = CopyNode(p) => content[d] = a.version
      BY <1>5, Apart
    <3>2. a.version # Torn /\ InPlace(p) => content[a.node] # a.version
      BY <1>5
    <3>3. a.version # Torn /\ ~ InPlace(p) =>
             /\ t # a.node
             /\ \A r \in Saves : /\ names.stage[r] # a.node
                                 /\ r # p => names.displaced[r] # a.node
      BY <1>0, <1>5, NodesAre DEF NodeInv
    <3> QED
      BY <1>5, <3>1, <3>2, <3>3
  <2>4. ASSUME NEW q \in Saves, q # p, save[q].verified, NEW e, e = names.displaced[q], e # NoNode
        PROVE  content[e] = save[q].approved.version \/ content[e] \notin Published'
    <3>1. content[e] = save[q].approved.version \/ content[e] \notin Published
      BY <1>0, <2>4 DEF SpentInv
    <3>2. SUFFICES ASSUME content[e] = Edited(p), e # CopyNode(q)
                   PROVE  FALSE
      BY <1>0, <2>1, <2>4, <3>1 DEF SpentInv
    <3>3. e \in Nodes /\ Public(e)
      BY <1>0, <2>4, <3>2 DEF Public, TypeOK, Naming, Places
    <3>4. e = t
      BY <1>0, <1>5, <3>2, <3>3, Apart DEF HomeInv, OnlyAt
    <3> QED
      BY <1>0, <1>5, <2>4, <3>4, NodesAre DEF NodeInv
  <2>5. ASSUME NEW q \in Saves, save'[q].verified
        PROVE  LET b == save'[q].approved  e == names'.displaced[q]
               IN  /\ e = CopyNode(q) => content'[e] = b.version
                   /\ e # NoNode => content'[e] = b.version \/ content'[e] \notin Published'
                   /\ b.version # Torn =>
                        IF InPlace(q)' THEN content'[b.node] # b.version
                        ELSE /\ names'.target # b.node
                             /\ \A r \in Saves : /\ names'.stage[r] # b.node
                                                 /\ r # q => names'.displaced[r] # b.node
    <3>1. CASE q = p
      BY <1>2, <1>5, <2>2, <2>3, <3>1
    <3>2. CASE q # p
      BY <1>0, <1>2, <2>2, <2>4, <2>5, <3>2 DEF SpentInv
    <3> QED
      BY <3>1, <3>2
  <2> QED
    BY <2>5 DEF SpentInv
<1>7. ASSUME NEW q \in Saves \ {p}
      PROVE  Own(q)'
  BY <1>0, <1>2, <1>4, OthersKeep
<1>8. Own(p)'
  <2>1. StageInv(p)'
    BY <1>1, <1>2 DEF Own, StageInv, PreStage, Hiding, Closing, At, TypeOK, Naming, Progress
  <2>2. DisplacedInv(p)'
    BY <1>0, <1>1, <1>2
    DEF Own, DisplacedInv, InPlace, Replacing, PreStage, Hiding, At, TypeOK, Naming,
        Progress
  <2>3. RecordInv(p)'
    BY <1>1, <1>2 DEF RecordInv, Closing, PreStage, At
  <2>4. CleanupInv(p)'
    BY <1>1, <1>2 DEF CleanupInv, Prepared, Recorded, Remains, Replacing, At
  <2> QED
    BY <2>1, <2>2, <2>3, <2>4 DEF Own
<1> QED
  BY <1>3, <1>4, <1>6, <1>7, <1>8 DEF IInv, Own

(* Opening approves what is there, while no call has failed.                 *)
LEMMA OpenKeeps ==
    ASSUME IInv, TypeOK', NEW p \in Saves, Open(p)
    PROVE  IInv'
<1>0. /\ TypeOK /\ NodeInv /\ SpentInv /\ FreshInv /\ HomeInv /\ FailureInv /\ TornInv
      /\ \A q \in Saves : Own(q)
  BY OwnIs DEF IInv
<1>1. /\ save[p].pc = "closed" /\ ~ save[p].verified /\ Hidden(p) /\ names.stage[p] = NoNode
      /\ names.displaced[p] = NoNode /\ names.kept[p] = NoNode
  BY <1>0 DEF Open, Own, StageInv, DisplacedInv, RecordInv, PreStage, Closing, At
<1>2. /\ UNCHANGED <<names, content, folder, entry, cleaner, externals, failures>>
      /\ save'[p].pc = "open" /\ save'[p].verified = save[p].verified
      /\ save'[p].approved = Fingerprint(names.target)
      /\ \A q \in Saves \ {p} : save'[q] = save[q]
  BY <1>0 DEF Open, disk, bounds, TypeOK, Progress
<1>3. failures = 0
  <2>1. SUFFICES ASSUME failures # 0
                 PROVE  FALSE
    OBVIOUS
  <2>2. PICK q \in Saves : ~ At(q, "closed")
    BY <1>0, <2>1 DEF FailureInv, Closing, At
  <2> QED
    BY <2>1, <2>2 DEF Open, MayRace
<1>4. PICK a, t : /\ a = save'[p].approved /\ t = names.target /\ a.node = t
                  /\ t # NoNode => t \in Nodes /\ Public(t) /\ a.version = content[t]
                  /\ t = NoNode => a.version = Torn
  <2>1. names.target # NoNode => names.target \in Nodes /\ Public(names.target)
    BY <1>0 DEF Public, TypeOK, Naming, Places
  <2> QED
    BY <1>2, <2>1 DEF Fingerprint
<1>5. \A n : Public(n)' => Public(n)
  BY <1>1, <1>2 DEF Public, At
<1>6. FreshInv'
  <2>1. ASSUME NEW u, Unseen(u), Nowhere(u), u # Torn
        PROVE  Unseen(u)' /\ Nowhere(u)' /\ a.version # u
    <3>1. a.version # u
      BY <1>4, <2>1 DEF Nowhere
    <3>2. Unseen(u)'
      BY <1>2, <1>4, <2>1, <3>1 DEF Unseen
    <3>3. Nowhere(u)'
      BY <1>2, <1>5, <2>1 DEF Nowhere
    <3> QED
      BY <3>1, <3>2, <3>3
  <2>2. ASSUME NEW q \in Saves, save[q].pc \in Unpublished
        PROVE  Unseen(Edited(q))' /\ Nowhere(Edited(q))' /\ a.version # Edited(q)
    BY <1>0, <1>3, <2>1, <2>2, Apart DEF FreshInv
  <2>3. \A q \in Saves : save'[q].pc \in Unpublished => save[q].pc \in Unpublished
    BY <1>1, <1>2 DEF Unpublished, PreStage
  <2>4. \A q \in Saves : save'[q].approved.version # Edited(q)
    <3>1. a.version # Edited(p)
      BY <1>1, <2>2 DEF Unpublished, PreStage
    <3> QED
      BY <1>0, <1>2, <1>4, <3>1 DEF FreshInv
  <2>5. ASSUME NEW k \in externals + 1 .. MaxExternal
        PROVE  Unseen(Foreign(k))' /\ Nowhere(Foreign(k))'
    <3>1. k \in Nat
      BY <1>0, ConstantsAssumption DEF ConstantsAssumption, TypeOK
    <3> QED
      BY <1>0, <1>3, <2>1, <3>1, Apart DEF FreshInv
  <2> QED
    BY <1>2, <2>2, <2>3, <2>4, <2>5 DEF FreshInv
<1>7. HomeInv'
  <2>1. \A u, n : OnlyAt(u, n) => OnlyAt(u, n)'
    BY <1>2, <1>5 DEF OnlyAt
  <2>2. \A m \in Nodes : Public(m)' /\ content'[m] # Torn => OnlyAt(content[m], m)'
    BY <1>0, <1>2, <1>3, <1>5, <2>1 DEF HomeInv
  <2>3. a.version # Torn => OnlyAt(a.version, a.node)'
    BY <1>0, <1>3, <1>4, <2>1 DEF HomeInv
  <2>4. ASSUME NEW q \in Saves, NEW b, b = save'[q].approved, b.version # Torn
        PROVE  /\ OnlyAt(b.version, b.node)'
               /\ At(q, "copied")' /\ content'[save'[q].fd] = b.version =>
                     content'[CopyNode(q)] = b.version
               /\ At(q, "copied")' /\ content'[CopyNode(q)] = b.version => save'[q].fd = b.node
               /\ /\ InPlace(q)' /\ save'[q].pc \in {"published", "verify"}
                  /\ content'[CopyNode(q)] = b.version
                  => OnlyAt(Edited(q), b.node)'
    <3>1. CASE q = p
      BY <1>2, <1>4, <2>3, <2>4, <3>1 DEF At
    <3>2. CASE q # p
      <4>1. save'[q] = save[q] /\ content' = content /\ b = save[q].approved
        BY <1>2, <2>4, <3>2
      <4>2. /\ OnlyAt(b.version, b.node)
            /\ At(q, "copied") /\ content[save[q].fd] = b.version =>
                  content[CopyNode(q)] = b.version
            /\ At(q, "copied") /\ content[CopyNode(q)] = b.version => save[q].fd = b.node
            /\ /\ InPlace(q) /\ save[q].pc \in {"published", "verify"}
               /\ content[CopyNode(q)] = b.version
               => OnlyAt(Edited(q), b.node)
        BY <1>0, <1>3, <2>4, <4>1 DEF HomeInv
      <4> QED
        BY <2>1, <4>1, <4>2 DEF InPlace, Replacing, At
    <3> QED
      BY <3>1, <3>2
  <2> QED
    BY <1>2, <2>2, <2>4 DEF HomeInv
<1>8. TornInv'
  <2>1. ASSUME NEW q \in Saves
        PROVE  /\ Recoverable(q) => Recoverable(q)'
               /\ At(q, "copied")' => At(q, "copied")
    BY <1>1, <1>2 DEF Recoverable, Prepared, Unrecorded, At
  <2> QED
    BY <1>0, <1>2, <1>5, <2>1 DEF TornInv
<1>9. NodeInv' /\ \A q \in Saves : Hidden(q) => Hidden(q)'
  <2>1. \A n : Elsewhere(n) => Elsewhere(n)'
    BY <1>1, <1>2, <1>4 DEF Elsewhere, At
  <2>2. \A q \in Saves : Hidden(q) => Hidden(q)'
    BY <1>1, <1>2, <1>4 DEF Hidden, At
  <2> QED
    BY <1>0, <1>2, <2>1, <2>2 DEF NodeInv
<1>10. SpentInv'
  BY <1>0, <1>1, <1>2, SpentKeeps
<1>11. FailureInv'
  BY <1>2, <1>3 DEF FailureInv
<1>12. ASSUME NEW q \in Saves \ {p}
      PROVE  Own(q)'
  BY <1>0, <1>2, <1>9, OthersKeep
<1>13. Own(p)'
  <2>1. StageInv(p)'
    BY <1>1, <1>2, <1>9
    DEF Own, StageInv, PreStage, Hiding, Closing, At, TypeOK, Naming, Progress
  <2>2. DisplacedInv(p)'
    BY <1>1, <1>2, <1>4, Apart
    DEF Own, DisplacedInv, InPlace, Replacing, PreStage, Hiding, At, TypeOK, Naming,
        Progress
  <2>3. RecordInv(p)'
    BY <1>0, <1>1, <1>2
    DEF Own, RecordInv, NothingBut, Prepared, Unrecorded, Closing, PreStage, At
  <2>4. CleanupInv(p)'
    BY <1>1, <1>2 DEF CleanupInv
  <2> QED
    BY <2>1, <2>2, <2>3, <2>4 DEF Own
<1> QED
  BY <1>6, <1>7, <1>8, <1>9, <1>10, <1>11, <1>12, <1>13 DEF IInv, Own

(* The next start sweeps the stages of the dead, removes transactions that    *)
(* hold nothing, and takes up the cleanups that have their authority.        *)
LEMMA InspectKeeps ==
    ASSUME IInv, TypeOK', Inspect
    PROVE  IInv'
<1>0. /\ TypeOK /\ NodeInv /\ SpentInv /\ FreshInv /\ HomeInv /\ FailureInv /\ TornInv
      /\ \A q \in Saves : Own(q)
  BY OwnIs DEF IInv
<1>1. /\ UNCHANGED <<content, save, externals, failures>>
      /\ names'.target = names.target /\ names'.kept = names.kept
      /\ names'.displaced = names.displaced
      /\ \A q \in Saves : /\ names'.stage[q] \in {names.stage[q], NoNode}
                          /\ ~ Dead(q) => names'.stage[q] = names.stage[q]
  BY <1>0 DEF Inspect, SweptStages, bounds, TypeOK, Naming
<1>2. ASSUME NEW q \in Saves
      PROVE  /\ ~ Reclaimable(q) => folder'[q] = folder[q] /\ entry'[q] = entry[q]
             /\ Reclaimable(q) => ~ folder'[q] /\ \A e \in Entries : entry'[q][e] = "absent"
             /\ \/ cleaner'[q] = cleaner[q]
                \/ entry[q]["authority"] = "whole" /\ cleaner'[q].pc = "listed"
  BY <1>0 DEF Inspect, Resumable, TypeOK
<1>3. ASSUME NEW q \in Saves, Reclaimable(q)
      PROVE  /\ folder[q] /\ save[q].pc \in {"done", "crashed"} /\ cleaner[q].pc = "idle"
             /\ names.displaced[q] = NoNode
             /\ \A e \in Entries \ {"manifest", "editor"} : entry[q][e] = "absent"
  <2>1. /\ folder[q] /\ ~ Leased(q) /\ names.displaced[q] = NoNode
        /\ \A e \in Entries \ {"manifest", "editor"} : entry[q][e] = "absent"
    BY <1>3 DEF Reclaimable
  <2>2. save[q].pc \in Steps
    BY <1>0 DEF TypeOK, Progress
  <2>3. save[q].pc \notin {"closed", "open", "staging", "mkdir"}
    BY <1>0, <2>1 DEF Own, RecordInv, PreStage
  <2> QED
    BY <2>1, <2>2, <2>3 DEF Leased, Steps
<1>4. \A n : Public(n)' => Public(n)
  BY <1>1 DEF Public, Dead, At
<1>5. FreshInv' /\ HomeInv' /\ FailureInv'
  <2>1. \A u, n : OnlyAt(u, n) => OnlyAt(u, n)'
    BY <1>1, <1>4 DEF OnlyAt
  <2>2. \A u : Unseen(u) => Unseen(u)'
    BY <1>1 DEF Unseen
  <2>3. \A u : Nowhere(u) => Nowhere(u)'
    BY <1>1, <1>4 DEF Nowhere
  <2>4. FreshInv'
    BY <1>0, <1>1, <2>2, <2>3 DEF FreshInv
  <2>5. HomeInv'
    <3>1. \A q \in Saves : (InPlace(q)' <=> InPlace(q)) /\ (At(q, "copied")' <=> At(q, "copied"))
      BY <1>1 DEF InPlace, Replacing, At
    <3> QED
      BY <1>0, <1>1, <1>4, <2>1, <3>1 DEF HomeInv
  <2>6. FailureInv'
    BY <1>0, <1>1 DEF FailureInv, At
  <2> QED
    BY <2>4, <2>5, <2>6
<1>6. TornInv'
  <2>1. ASSUME NEW q \in Saves, Recoverable(q)
        PROVE  Recoverable(q)'
    <3>1. "precommit" \in Entries \ {"manifest", "editor"}
      BY DEF Entries, States
    <3>2. ~ Reclaimable(q)
      BY <1>3, <2>1, <3>1 DEF Recoverable, Prepared
    <3> QED
      BY <1>1, <1>2, <2>1, <3>2 DEF Recoverable, Prepared, Unrecorded
  <2>2. \A q \in Saves : At(q, "copied")' => At(q, "copied")
    BY <1>1 DEF At
  <2> QED
    BY <1>0, <1>1, <1>4, <2>1, <2>2 DEF TornInv
<1>7. NodeInv' /\ \A q \in Saves : Hidden(q) => Hidden(q)'
  <2>1. /\ \A n \in Nodes : Elsewhere(n) => Elsewhere(n)'
        /\ \A q \in Saves : Hidden(q) => Hidden(q)'
    BY <1>1, NodesAre, Apart DEF Elsewhere, Hidden, At
  <2>2. \A k \in externals + 1 .. MaxExternal : ForeignNode(k) \in Nodes
    BY <1>0, KindsAre, ConstantsAssumption DEF ConstantsAssumption, TypeOK
  <2> QED
    BY <1>0, <1>1, <2>1, <2>2, KindsAre DEF NodeInv
<1>8. SpentInv'
  <2>1. Published' = Published
    BY <1>1 DEF Published
  <2>2. ASSUME NEW q \in Saves, save[q].verified, save[q].approved.version # Torn
        PROVE  save[q].approved.node # NoNode
    BY <1>0, <2>2 DEF Own, DisplacedInv, Replacing
  <2> QED
    BY <1>0, <1>1, <2>1, <2>2 DEF SpentInv, InPlace, Replacing
<1>9. ASSUME NEW q \in Saves
      PROVE  Own(q)'
  <2>0. /\ StageInv(q) /\ DisplacedInv(q) /\ RecordInv(q) /\ CleanupInv(q)
        /\ {"conflict", "authority", "cleanup", "precommit"} \subseteq Entries \ {"manifest", "editor"}
        /\ "editor" \in Entries /\ States \subseteq Entries
    BY <1>0 DEF Own, Entries, States
  <2>1. StageInv(q)'
    BY <1>1, <1>7, <2>0 DEF StageInv, PreStage, Hiding, Closing, Dead, At
  <2>2. DisplacedInv(q)'
    BY <1>1, <2>0 DEF DisplacedInv, InPlace, Replacing, At
  <2>3. RecordInv(q)'
    <3>1. CASE Reclaimable(q)
      <4>1. /\ save'[q].pc \in {"done", "crashed"} /\ save[q].pc = save'[q].pc
            /\ \A e \in Entries : entry'[q][e] = "absent"
            /\ cleaner'[q] = cleaner[q] /\ entry[q]["precommit"] = "absent"
        BY <1>1, <1>2, <1>3, <2>0, <3>1
      <4>2. ~ save[q].verified /\ At(q, "done") /\ save[q].result \in Failing => KeepsEdits(q)'
        BY <1>1, <1>7, <2>0, <4>1 DEF RecordInv, KeepsEdits, Dead, At
      <4>3. ~ save'[q].verified => cleaner'[q].pc = "idle"
        BY <1>1, <1>3, <3>1, <4>1
      <4> QED
        BY <1>1, <2>0, <4>1, <4>2, <4>3 DEF RecordInv, PreStage, Closing, At
    <3>2. CASE ~ Reclaimable(q)
      <4>1. /\ folder'[q] = folder[q] /\ entry'[q] = entry[q] /\ save'[q] = save[q]
            /\ ~ save[q].verified => cleaner'[q] = cleaner[q]
        BY <1>1, <1>2, <2>0, <3>2 DEF RecordInv
      <4>2. At(q, "done") /\ KeepsEdits(q) => KeepsEdits(q)'
        BY <1>1, <1>7, <4>1 DEF KeepsEdits, Dead, At
      <4> QED
        BY <2>0, <4>1, <4>2
        DEF RecordInv, NothingBut, Prepared, Unrecorded, Recorded, Replacing, At
    <3> QED
      BY <3>1, <3>2
  <2>4. CleanupInv(q)'
    <3>1. cleaner'[q].pc = "unlink" => cleaner'[q] = cleaner[q]
      BY <1>2
    <3>2. CASE Reclaimable(q)
      <4>1. /\ save'[q].pc \in {"done", "crashed"} /\ cleaner[q].pc = "idle"
            /\ names'.displaced[q] = NoNode
            /\ entry'[q]["editor"] = "absent" /\ entry'[q]["conflict"] = "absent"
        BY <1>1, <1>2, <1>3, <2>0, <3>2
      <4> QED
        BY <3>1, <4>1 DEF CleanupInv, Remains, At
    <3>3. CASE ~ Reclaimable(q)
      BY <1>1, <1>2, <2>0, <3>1, <3>3
      DEF CleanupInv, Remains, Recorded, Unlinking, Replacing, At
    <3> QED
      BY <3>2, <3>3
  <2> QED
    BY <2>1, <2>2, <2>3, <2>4 DEF Own
<1> QED
  BY <1>5, <1>6, <1>7, <1>8, <1>9 DEF IInv, Own

(* Ending without a rename keeps what belongs to the save.                   *)
LEMMA EndingKeeps ==
    ASSUME TypeOK, TypeOK', NEW p \in Saves, Own(p),
           \/ Crash(p) /\ UNCHANGED <<names, content>>
           \/ FailCommit(p) /\ names' \in Kept(p)
           \/ SwapBack(p) /\ names' \in Kept(p)
           \/ PutBack(p) /\ names' \in Kept(p)
    PROVE  Own(p)'
<1>1. CASE Crash(p) /\ UNCHANGED <<names, content>>
  <2>1. /\ save[p].pc \notin {"closed", "open", "done", "crashed"}
        /\ entry' \in LeftBehind(p) /\ save' = [save EXCEPT ![p].pc = "crashed"]
        /\ folder' = folder /\ cleaner' = cleaner /\ names' = names
    BY <1>1 DEF Crash, Goto
  <2> QED
    BY <2>1, CrashLeaves
<1>3. CASE FailCommit(p) /\ names' \in Kept(p)
  <2>1. /\ save[p].pc \in {"commit", "published"} /\ entry' \in LeftBehind(p)
        /\ save' = [save EXCEPT ![p].pc = "done", ![p].result = "commit_failure"]
        /\ folder' = folder /\ cleaner' = cleaner
    BY <1>3 DEF FailCommit, Return
  <2>2. \A e \in Entries : \/ entry'[p][e] = entry[p][e]
                           \/ /\ e \notin {"manifest", "editor", "precommit"}
                              /\ e \notin {"authority", "cleanup"}
    <3>1. save[p].pc \in WritingSteps => Writing(p) \in {"created", "replaced"}
      BY <2>1 DEF WritingSteps, Writing, At
    <3>2. \A e \in Entries : \/ entry'[p][e] = entry[p][e]
                             \/ save[p].pc \in WritingSteps /\ e = Writing(p)
      BY <2>1, LeftBehindIs
    <3> QED
      BY <3>1, <3>2
  <2> QED
    BY <1>3, <2>1, <2>2, KeptIs, FailedCommitLeaves
<1>4. CASE SwapBack(p) /\ names' \in Kept(p)
  <2>1. /\ At(p, "swapped") /\ names' \in Kept(p) /\ entry' = entry
        /\ save' = [save EXCEPT ![p].pc = "done", ![p].result = "commit_failure"]
        /\ folder' = folder /\ cleaner' = cleaner
    BY <1>4 DEF SwapBack, Return
  <2> QED
    BY <2>1, KeptIs, FailedCommitLeaves DEF At
<1>5. CASE PutBack(p) /\ names' \in Kept(p)
  <2>1. /\ At(p, "aside") /\ names' \in Kept(p) /\ entry' = entry
        /\ save' = [save EXCEPT ![p].pc = "done", ![p].result = "commit_failure"]
        /\ folder' = folder /\ cleaner' = cleaner
    BY <1>5 DEF PutBack, Return
  <2> QED
    BY <2>1, KeptIs, FailedCommitLeaves DEF At
<1> QED
  BY <1>1, <1>3, <1>4, <1>5

(* A process that ends after its report changes nothing else.                *)
LEMMA ExitKeeps ==
    ASSUME IInv, TypeOK', NEW p \in Saves, Exit(p)
    PROVE  IInv'
<1>1. UNCHANGED <<names, content, folder, entry, cleaner, externals, failures>>
  BY DEF Exit, disk, bounds
<1>2. /\ save[p].pc = "done" /\ save'[p].pc = "crashed"
      /\ \A q \in Saves \ {p} : save'[q].pc = save[q].pc
      /\ \A q \in Saves :
           /\ save'[q].approved = save[q].approved /\ save'[q].strategy = save[q].strategy
           /\ save'[q].fd = save[q].fd /\ save'[q].todo = save[q].todo
           /\ save'[q].verified = save[q].verified /\ save'[q].result = save[q].result
  BY DEF Exit, Goto, At, IInv, TypeOK, Progress
<1>3. \A q \in Saves : \A s \in Steps \ {"done", "crashed"} :
         save'[q].pc = s <=> save[q].pc = s
  BY <1>2
<1>4. NodeInv'
  BY <1>1, <1>2 DEF IInv, NodeInv, Elsewhere, At
<1>5. FailureInv'
  BY <1>1, <1>2 DEF IInv, FailureInv, Closing, At
<1>6. \A n : Public(n)' <=> Public(n)
  BY <1>1, <1>2 DEF Public, At
<1>7. FreshInv'
  BY <1>1, <1>2, <1>6
  DEF IInv, FreshInv, Unseen, Nowhere, Unpublished, PreStage, Hiding
<1>8. HomeInv'
  BY <1>1, <1>2, <1>6 DEF IInv, HomeInv, OnlyAt, InPlace, Replacing, At
<1>9. Published' = Published
  BY <1>2 DEF Published
<1>10. SpentInv'
  BY <1>1, <1>2, <1>9 DEF IInv, SpentInv, InPlace, Replacing
<1>11. \A q \in Saves : Recoverable(q)' <=> Recoverable(q)
  BY <1>1, <1>2 DEF Recoverable, Prepared, Unrecorded
<1>12. TornInv'
  BY <1>1, <1>2, <1>6, <1>11 DEF IInv, TornInv, At
<1>13. ASSUME NEW q \in Saves
       PROVE  StageInv(q)' /\ DisplacedInv(q)' /\ RecordInv(q)' /\ CleanupInv(q)'
  <2>1. StageInv(q) /\ DisplacedInv(q) /\ RecordInv(q) /\ CleanupInv(q)
    BY DEF IInv
  <2>2. Hidden(q)' <=> Hidden(q)
    BY <1>1, <1>2 DEF Hidden, At
  <2>3. StageInv(q)'
    BY <1>1, <1>2, <2>1, <2>2 DEF StageInv, PreStage, Hiding, Closing, At
  <2>4. DisplacedInv(q)'
    BY <1>1, <1>2, <2>1 DEF DisplacedInv, InPlace, Replacing, PreStage, Hiding, At
  <2>5. RecordInv(q)'
    BY <1>1, <1>2, <2>1, <2>2
    DEF RecordInv, NothingBut, Prepared, Unrecorded, Recorded, KeepsEdits, Replacing,
        PreStage, Closing, At
  <2>6. CleanupInv(q)'
    BY <1>1, <1>2, <2>1 DEF CleanupInv, Remains, Recorded, Unlinking, Replacing, At
  <2> QED
    BY <2>3, <2>4, <2>5, <2>6
<1> QED
  BY <1>4, <1>5, <1>7, <1>8, <1>10, <1>12, <1>13 DEF IInv

(* The steps of one save, or of a later process over it.                     *)
LEMMA SaveStepKeeps ==
    ASSUME IInv, NEW p \in Saves,
           Prepare(p) \/ Commit(p) \/ Conclude(p) \/ Disturb(p) \/ Recover(p)
    PROVE  IInv'
<1>0. TypeOK /\ Own(p) /\ RecordInv(p)
  BY OwnIs DEF IInv
<1>1. TypeOK'
  BY <1>0, PrepareTypes, CommitTypes, ConcludeTypes, DisturbTypes, RecoverTypes
<1>2. ASSUME Quiet(p), Own(p)'
      PROVE  IInv'
  BY <1>1, <1>2, QuietStep
<1>3. ASSUME \/ Crash(p) /\ UNCHANGED <<names, content>>
             \/ FailCommit(p) /\ names' \in Kept(p)
             \/ SwapBack(p) /\ names' \in Kept(p)
             \/ PutBack(p) /\ names' \in Kept(p)
      PROVE  IInv'
  <2>1. Quiet(p)
    BY <1>0, <1>3, EndingQuietly
  <2>2. Own(p)'
    BY <1>0, <1>1, <1>3, EndingKeeps
  <2> QED
    BY <1>2, <2>1, <2>2
<1>4. CASE Prepare(p)
  <2>1. ASSUME RefuseDeleted(p) \/ CreateTransaction(p) \/ WriteRecord(p)
        PROVE  IInv'
    BY <1>0, <1>1, <1>2, <2>1, PreparingQuietly, PreparingKeeps
  <2> QED
    BY <1>1, <1>4, <2>1, OpenKeeps, CreateStageKeeps, WriteStageKeeps DEF Prepare
<1>5. CASE Commit(p)
  <2>1. ASSUME \/ CheckUnchanged(p) \/ CheckDeleted(p) \/ CheckChanged(p)
               \/ CreateCollides(p) \/ CommitFindsNoTarget(p)
        PROVE  IInv'
    BY <1>0, <1>1, <1>2, <2>1, CommittingQuietly, CommittingKeeps
  <2>2. CASE SwapBack(p)
    BY <1>1, <1>3, <2>2, SwapBackKeeps
  <2>3. CASE PutBack(p)
    BY <1>1, <1>3, <2>3, PutBackKeeps
  <2>4. ASSUME \/ Exchange(p) \/ MoveDisplaced(p) \/ MoveAside(p) \/ PublishStage(p)
               \/ CopyPrevious(p) \/ Rewrite(p) \/ RestorePrevious(p) \/ CreateNew(p)
        PROVE  IInv'
    BY <1>1, <2>4, ExchangeKeeps, MoveDisplacedKeeps, MoveAsideKeeps, PublishStageKeeps,
       CopyPreviousKeeps, RewriteKeeps, RestorePreviousKeeps, CreateNewKeeps
  <2> QED
    BY <1>5, <2>1, <2>2, <2>3, <2>4 DEF Commit
<1>6. CASE Conclude(p)
  <2>1. ASSUME \/ VerifyBad(p) \/ VerifyUnreadable(p) \/ Unlink(p) \/ FinishCleanup(p)
               \/ CleanupStops(p) \/ RetryCleanup(p) \/ FinishUndo(p)
        PROVE  IInv'
    BY <1>0, <1>1, <1>2, <2>1, ConcludingQuietly, ConcludingKeeps
  <2> QED
    BY <1>1, <1>6, <2>1, VerifyGoodKeeps DEF Conclude
<1>7. CASE Disturb(p)
  <2>1. ASSUME \/ CancelStage(p) \/ CancelPrepared(p) \/ FailStage(p) \/ FailPrepare(p)
               \/ CheckUnreadable(p) \/ FailCleanup(p) \/ FailUndo(p)
        PROVE  IInv'
    BY <1>0, <1>1, <1>2, <2>1, DisturbingQuietly, DisturbingKeeps
  <2>2. CASE FailCommit(p)
    BY <1>1, <1>3, <2>2, FailCopyKeeps
  <2>3. CASE Crash(p)
    BY <1>1, <1>3, <2>3, CrashCopyKeeps, TearingKeeps
  <2>4. CASE Exit(p)
    BY <1>1, <2>4, ExitKeeps
  <2> QED
    BY <1>7, <2>1, <2>2, <2>3, <2>4 DEF Disturb
<1>8. CASE Recover(p)
  BY <1>0, <1>1, <1>2, <1>8, RecoveringQuietly, RecoveringKeeps
<1> QED
  BY <1>4, <1>5, <1>6, <1>7, <1>8

(* Every step.                                                               *)
LEMMA StepKeeps ==
    ASSUME IInv, [Next]_vars
    PROVE  IInv'
<1>0. TypeOK
  BY DEF IInv
<1>1. ASSUME NEW p \in Saves, Prepare(p) \/ Commit(p) \/ Conclude(p) \/ Disturb(p) \/ Recover(p)
      PROVE  IInv'
  BY <1>1, SaveStepKeeps
<1>2. CASE Inspect
  BY <1>0, <1>2, InspectTypes, InspectKeeps
<1>3. CASE ForeignStep
  <2>1. TypeOK'
    BY <1>0, <1>3, ForeignTypes
  <2> QED
    BY <1>3, <2>1, WrittenOutsideKeeps, DeletedOutsideKeeps DEF ForeignStep
<1>4. CASE UNCHANGED vars
  <2>1. /\ names' = names /\ content' = content /\ folder' = folder /\ entry' = entry
        /\ save' = save /\ cleaner' = cleaner /\ externals' = externals /\ failures' = failures
    BY <1>4 DEF vars
  <2>2. TypeOK' /\ FailureInv' /\ NodeInv'
    BY <2>1 DEF IInv, TypeOK, FailureInv, NodeInv, Elsewhere, At
  <2>3. FreshInv' /\ HomeInv' /\ TornInv'
    BY <2>1
    DEF IInv, FreshInv, HomeInv, TornInv, Public, Unseen, Nowhere, OnlyAt, Recoverable, 
                Prepared, Unrecorded, InPlace, Replacing, At
  <2>4. SpentInv'
    BY <2>1 DEF IInv, SpentInv, Published, InPlace, Replacing
  <2>5. \A q \in Saves : Own(q)'
    <3>1. \A q \in Saves : Hidden(q) => Hidden(q)'
      BY <2>1 DEF Hidden, At
    <3>2. \A q \in Saves : Own(q)
      BY OwnIs
    <3> QED
      BY <1>0, <2>1, <2>2, <3>1, <3>2, OthersKeep
  <2> QED
    BY <2>2, <2>3, <2>4, <2>5 DEF IInv, Own
<1> QED
  BY <1>1, <1>2, <1>3, <1>4 DEF Next

(* It holds at the start.                                                    *)
LEMMA InitKeeps ==
    ASSUME Init
    PROVE  IInv
<1>1. /\ names.target = BaseNode
      /\ \A p \in Saves : /\ names.stage[p] = NoNode /\ names.kept[p] = NoNode
                          /\ names.displaced[p] = NoNode /\ ~ folder[p]
                          /\ \A e \in Entries : entry[p][e] = "absent"
                          /\ save[p].pc = "closed" /\ save[p].approved.node = NoNode
                          /\ save[p].approved.version = Torn /\ save[p].strategy = "exchange"
                          /\ ~ save[p].verified /\ cleaner[p].pc = "idle"
      /\ content[BaseNode] = Original
      /\ externals = 0 /\ failures = 0
  BY DEF Init, Nodes
<1>2. TypeOK
  <2>1. names \in Naming /\ folder \in [Saves -> BOOLEAN]
    BY KindsAre DEF Init, Naming, Places, Nodes
  <2>2. content \in [Nodes -> Contents]
    BY DEF Init, Contents, Versions
  <2>3. entry \in [Saves -> [Entries -> Extents]]
    BY DEF Init, Extents
  <2>4. save \in [Saves -> Progress]
    BY KindsAre DEF Init, Progress, Fingerprints, Steps, Results
  <2>5. cleaner \in [Saves -> [pc : {"idle", "listed", "unlink"}, todo : Todo]]
    BY KindsAre DEF Init
  <2>6. externals \in 0 .. MaxExternal /\ failures \in 0 .. MaxFailures
    BY <1>1, ConstantsAssumption DEF ConstantsAssumption
  <2> QED
    BY <2>1, <2>2, <2>3, <2>4, <2>5, <2>6 DEF TypeOK
<1>3. /\ BaseNode # NoNode /\ Original # Torn
      /\ \A p \in Saves : /\ BaseNode # StageNode(p) /\ BaseNode # CopyNode(p)
                          /\ Original # Edited(p)
      /\ \A k \in Nat : BaseNode # ForeignNode(k) /\ Original # Foreign(k)
  BY DEF BaseNode, NoNode, Original, Torn, StageNode, CopyNode, Edited, ForeignNode, Foreign
<1>4. \A n : Public(n) <=> n = BaseNode
  BY <1>1, <1>3 DEF Public, At
<1>5. \A k \in externals + 1 .. MaxExternal : k \in Nat
  BY <1>1, ConstantsAssumption DEF ConstantsAssumption
<1>6. NodeInv
  <2>1. \A n : n # BaseNode /\ n # NoNode => Elsewhere(n)
    BY <1>1 DEF Elsewhere, At
  <2> QED
    BY <1>1, <1>3, <1>5, <2>1, Apart DEF NodeInv
<1>7. FailureInv /\ SpentInv
  BY <1>1 DEF FailureInv, SpentInv
<1>8. FreshInv
  BY <1>1, <1>3, <1>4, <1>5, Apart DEF FreshInv, Unseen, Nowhere
<1>9. HomeInv
  BY <1>1, <1>4 DEF HomeInv, OnlyAt
<1>10. TornInv
  BY <1>1, <1>3, <1>4 DEF TornInv, At
<1>11. ASSUME NEW p \in Saves
       PROVE  Own(p)
  <2>1. Hidden(p)
    BY <1>1, <1>3, Apart DEF Hidden, At
  <2>2. StageInv(p)
    BY <1>1, <2>1 DEF StageInv, PreStage, Hiding, Closing, At
  <2>3. DisplacedInv(p)
    BY <1>1, Apart DEF DisplacedInv, InPlace, Replacing, PreStage, Hiding, At
  <2>4. RecordInv(p)
    BY <1>1 DEF RecordInv, NothingBut, PreStage, Closing, Entries, States, At
  <2>5. CleanupInv(p)
    BY <1>1 DEF CleanupInv
  <2> QED
    BY <2>2, <2>3, <2>4, <2>5 DEF Own
<1> QED
  BY <1>2, <1>6, <1>7, <1>8, <1>9, <1>10, <1>11 DEF IInv, Own

(* IInv is an invariant of the save transaction.                             *)
THEOREM Inductive == Spec => []IInv
<1>1. Init => IInv
  BY InitKeeps
<1>2. IInv /\ [Next]_vars => IInv'
  BY StepKeeps
<1> QED
  BY <1>1, <1>2, PTL DEF Spec

(* The state is the newest record: no two are newest.                        *)
LEMMA NewestIs ==
    ASSUME NEW p \in Saves, NEW s \in States, NewestValid(p, s)
    PROVE  StateFromRecords(p) = s
<1>1. ASSUME NEW r \in States, NewestValid(p, r), r # s
      PROVE  FALSE
  <2>1. Rank(r) > Rank(s) \/ Rank(s) > Rank(r)
    BY <1>1 DEF Rank, States
  <2>2. /\ entry[p][r] = "whole" /\ entry[p][s] = "whole"
        /\ Rank(r) > Rank(s) => entry[p][r] = "absent"
        /\ Rank(s) > Rank(r) => entry[p][s] = "absent"
    BY <1>1 DEF NewestValid
  <2> QED
    BY <2>1, <2>2
<1> QED
  BY <1>1 DEF StateFromRecords

(* With no later record the precommit record is the state.                   *)
LEMMA PreparedIsListed ==
    ASSUME NEW p \in Saves, Prepared(p), Unrecorded(p)
    PROVE  Verified(p) /\ ListedState(p) = "precommit"
<1>1. "precommit" \in States /\ NewestValid(p, "precommit")
  BY DEF Prepared, Unrecorded, NewestValid, Rank, States
<1>2. StateFromRecords(p) = "precommit"
  BY <1>1, NewestIs
<1> QED
  BY <1>2 DEF ListedState, Verified, Prepared

(* Every value keeps its type through every save, failure and restart.        *)
THEOREM TypeCorrect == Spec => []TypeOK
<1>1. IInv => TypeOK
  BY DEF IInv
<1> QED
  BY <1>1, Inductive, PTL

(* rewrite_in_place copies the previous bytes before it truncates the target: *)
(* whatever interrupts it, the next start lists a transaction that has them   *)
(* and the editor's.                                                         *)
THEOREM TornIsRecoverable == Spec => []TornTargetRecoverable
<1>1. ASSUME IInv
      PROVE  TornTargetRecoverable
  <2>1. SUFFICES ASSUME names.target # NoNode, content[names.target] = Torn
                 PROVE  \E p \in Saves : /\ Verified(p)
                                         /\ entry[p]["editor"] = "whole"
                                         /\ names.displaced[p] # NoNode
                                         /\ content[names.displaced[p]] # Torn
    BY DEF TornTargetRecoverable
  <2>2. names.target \in Nodes /\ Public(names.target)
    BY <1>1, <2>1 DEF IInv, TypeOK, Naming, Places, Public
  <2>3. PICK r \in Saves : Recoverable(r)
    BY <1>1, <2>1, <2>2 DEF IInv, TornInv
  <2>4. Verified(r)
    BY <2>3, PreparedIsListed DEF Recoverable
  <2>5. /\ entry[r]["editor"] = "whole" /\ names.displaced[r] # NoNode
        /\ content[names.displaced[r]] # Torn
    BY <2>3, Apart DEF Recoverable, Prepared
  <2> QED
    BY <2>4, <2>5
<1> QED
  BY <1>1, Inductive, PTL

(* A save that reports a failed commit, a conflict or a failed verification   *)
(* keeps its stage under a reported name, renamed or not, or its            *)
(* transaction's editor copy, for as long as its process runs.  Reports of   *)
(* "failed", "cancelled" and "deleted_outside" promise nothing.              *)
THEOREM FailureKeepsEdits == Spec => []ReportedFailureKeepsEdits
<1>1. ASSUME IInv
      PROVE  ReportedFailureKeepsEdits
  <2>1. SUFFICES ASSUME NEW p \in Saves, At(p, "done"), save[p].result \in Failing
                 PROVE  Reachable(Edited(p))
    BY DEF ReportedFailureKeepsEdits, Failing
  <2>2. KeepsEdits(p)
    BY <1>1, <2>1 DEF IInv, RecordInv
  <2>3. CASE names.kept[p] = StageNode(p) /\ content[StageNode(p)] = Edited(p)
    BY <2>3, Apart DEF Reachable, Named, Held
  <2>4. CASE names.stage[p] = StageNode(p) /\ content[StageNode(p)] = Edited(p)
    BY <2>4, Apart DEF Reachable, Named, Held
  <2>5. CASE entry[p]["editor"] = "whole"
    BY <2>5 DEF Reachable
  <2> QED
    BY <2>2, <2>3, <2>4, <2>5 DEF KeepsEdits
<1> QED
  BY <1>1, Inductive, PTL

(* cleanup() removes versions before the records that list them, under an     *)
(* authority published first: a crash between any two of its unlinks leaves   *)
(* the transaction listed while a version is left.                           *)
THEOREM InterruptedIsListed == Spec => []InterruptedCleanupListed
<1>1. ASSUME IInv
      PROVE  InterruptedCleanupListed
  <2>1. SUFFICES ASSUME NEW p \in Saves, save[p].verified, Remains(p)
                 PROVE  Verified(p) /\ (ListedState(p) = "cleanup" => entry[p]["authority"] = "whole")
    BY DEF InterruptedCleanupListed, Remains
  <2>2. /\ folder[p] /\ Recorded(p)
        /\ entry[p]["manifest"] = "whole" /\ entry[p]["precommit"] = "whole"
        /\ entry[p]["conflict"] = "absent"
        /\ entry[p]["cleanup"] = "absent" => entry[p]["editor"] = "whole"
        /\ entry[p]["cleanup"] # "absent" => entry[p]["authority"] = "whole"
    BY <1>1, <2>1 DEF IInv, CleanupInv
  <2>3. CASE entry[p]["cleanup"] = "absent"
    <3>1. PICK s \in {"created", "replaced"} : NewestValid(p, s)
      BY <2>2, <2>3 DEF Recorded, NewestValid, Rank, States
    <3>2. StateFromRecords(p) = s /\ s \notin {"unverified", "cleanup"}
      BY <3>1, NewestIs DEF States
    <3> QED
      BY <2>2, <2>3, <3>2 DEF Verified, ListedState
  <2>4. CASE entry[p]["cleanup"] # "absent"
    <3>1. \A s \in States : NewestValid(p, s) => s = "cleanup"
      BY <2>4 DEF NewestValid, Rank, States
    <3>2. StateFromRecords(p) \in {"unverified", "cleanup"}
      BY <3>1 DEF StateFromRecords
    <3> QED
      BY <2>2, <2>4, <3>2 DEF Verified, ListedState
  <2> QED
    BY <2>3, <2>4
<1> QED
  BY <1>1, Inductive, PTL

(* prepare makes the editor's copy durable before the precommit record, and   *)
(* cleanup removes it only under its own record: what the next start lists    *)
(* for review has all of the editor's bytes.                                 *)
THEOREM ListedHasEdits == Spec => []ListedEditorWhole
<1>1. ASSUME IInv
      PROVE  ListedEditorWhole
  <2>1. SUFFICES ASSUME NEW p \in Saves, Verified(p), ListedState(p) # "cleanup"
                 PROVE  entry[p]["editor"] = "whole"
    BY DEF ListedEditorWhole
  <2>2. StateFromRecords(p) # "unverified" /\ entry[p]["editor"] # "absent"
    BY <2>1 DEF Verified, ListedState
  <2>3. PICK s \in States : NewestValid(p, s)
    BY <2>2 DEF StateFromRecords
  <2>4. entry[p]["editor"] # "partial"
    BY <1>1, <2>3 DEF IInv, RecordInv, CleanupInv, NewestValid
  <2>5. entry[p]["editor"] \in Extents
    BY <1>1 DEF IInv, TypeOK, Entries
  <2> QED
    BY <2>2, <2>4, <2>5 DEF Extents
<1> QED
  BY <1>1, Inductive, PTL

(* reclaim leaves leased transactions alone: recovery in another process      *)
(* never takes a working save's records away.                                *)
THEOREM WorkingIsIntact == Spec => []WorkingTransactionIntact
<1>1. ASSUME IInv
      PROVE  WorkingTransactionIntact
  <2>1. ASSUME NEW p \in Saves
        PROVE  RecordInv(p) /\ {"manifest", "editor"} \subseteq Entries
    BY <1>1 DEF IInv, Entries
  <2> QED
    BY <2>1 DEF WorkingTransactionIntact, RecordInv, NothingBut, Prepared, At
<1> QED
  BY <1>1, Inductive, PTL

(* What was verified stays verified, against the same version.               *)
Verdicts ==
    \A q \in Saves : /\ save'[q].verified = save[q].verified
                     /\ save[q].verified => /\ save'[q].approved = save[q].approved
                                            /\ save'[q].strategy = save[q].strategy

(* Only VerifyGood verifies.                                                 *)
LEMMA VerdictsStay ==
    ASSUME IInv, NEW p \in Saves,
           Prepare(p) \/ Commit(p) \/ Conclude(p) \/ Disturb(p) \/ Recover(p), ~ VerifyGood(p)
    PROVE  Verdicts
<1>0. /\ TypeOK /\ RecordInv(p) /\ save[p].verified \in BOOLEAN
      /\ save[p].verified => save[p].pc \in Closing \cup {"done", "crashed"}
  BY DEF IInv, TypeOK, Progress, RecordInv
<1>1. ASSUME Quiet(p)
      PROVE  Verdicts
  BY <1>0, <1>1 DEF Quiet, Same, Verdicts, Closing, At
<1>2. ASSUME NEW s, Goto(p, s) \/ Return(p, s)
      PROVE  Verdicts
  <2>1. CASE Goto(p, s)
    BY <1>0, <2>1 DEF Goto, Verdicts, TypeOK, Progress
  <2>2. CASE Return(p, s)
    BY <1>0, <2>2 DEF Return, Verdicts, TypeOK, Progress
  <2> QED
    BY <1>2, <2>1, <2>2
<1>3. CASE Prepare(p)
  <2>1. ASSUME RefuseDeleted(p) \/ CreateTransaction(p) \/ WriteRecord(p)
        PROVE  Verdicts
    BY <1>0, <1>1, <2>1, PreparingQuietly
  <2>2. CASE Open(p)
    BY <1>0, <2>2 DEF Open, At, Closing, Verdicts, TypeOK, Progress
  <2>3. CASE CreateStage(p)
    BY <1>2, <2>3 DEF CreateStage
  <2>4. CASE WriteStage(p)
    BY <1>2, <2>4 DEF WriteStage
  <2> QED
    BY <1>3, <2>1, <2>2, <2>3, <2>4 DEF Prepare
<1>4. CASE Commit(p)
  <2>1. ASSUME \/ CheckUnchanged(p) \/ CheckDeleted(p) \/ CheckChanged(p)
               \/ CreateCollides(p) \/ CommitFindsNoTarget(p)
        PROVE  Verdicts
    BY <1>0, <1>1, <2>1, CommittingQuietly
  <2>2. CASE Exchange(p)
    BY <1>2, <2>2 DEF Exchange
  <2>3. CASE MoveDisplaced(p)
    BY <1>2, <2>3 DEF MoveDisplaced
  <2>4. CASE PublishStage(p)
    BY <1>2, <2>4 DEF PublishStage
  <2>5. CASE Rewrite(p)
    BY <1>2, <2>5 DEF Rewrite
  <2>6. CASE CreateNew(p)
    BY <1>2, <2>6 DEF CreateNew
  <2>7. CASE SwapBack(p)
    BY <1>2, <2>7 DEF SwapBack
  <2>8. CASE PutBack(p)
    BY <1>2, <2>8 DEF PutBack
  <2>9. CASE RestorePrevious(p)
    BY <1>2, <2>9 DEF RestorePrevious
  <2>10. CASE MoveAside(p)
    <3>1. ~ save[p].verified
      BY <1>0, <2>10 DEF MoveAside, At, Closing
    <3>2. save'[p].verified = save[p].verified /\ \A q \in Saves \ {p} : save'[q] = save[q]
      BY <1>0, <2>10 DEF MoveAside, TypeOK, Progress
    <3> QED
      BY <3>1, <3>2 DEF Verdicts
  <2>11. CASE CopyPrevious(p)
    <3>1. ~ save[p].verified
      BY <1>0, <2>11 DEF CopyPrevious, At, Closing
    <3>2. save'[p].verified = save[p].verified /\ \A q \in Saves \ {p} : save'[q] = save[q]
      BY <1>0, <2>11 DEF CopyPrevious, TypeOK, Progress
    <3> QED
      BY <3>1, <3>2 DEF Verdicts
  <2> QED
    BY <1>4, <2>1, <2>2, <2>3, <2>4, <2>5, <2>6, <2>7, <2>8, <2>9, <2>10, <2>11 DEF Commit
<1>5. CASE Conclude(p)
  BY <1>0, <1>1, <1>5, ConcludingQuietly DEF Conclude
<1>6. CASE Disturb(p)
  <2>1. ASSUME \/ CancelStage(p) \/ CancelPrepared(p) \/ FailStage(p) \/ FailPrepare(p)
               \/ CheckUnreadable(p) \/ FailCleanup(p) \/ FailUndo(p)
        PROVE  Verdicts
    BY <1>0, <1>1, <2>1, DisturbingQuietly
  <2>2. CASE FailCommit(p)
    BY <1>2, <2>2 DEF FailCommit
  <2>3. CASE Crash(p)
    BY <1>2, <2>3 DEF Crash
  <2>4. CASE Exit(p)
    BY <1>2, <2>4 DEF Exit
  <2> QED
    BY <1>6, <2>1, <2>2, <2>3, <2>4 DEF Disturb
<1>7. CASE Recover(p)
  BY <1>0, <1>1, <1>7, RecoveringQuietly
<1> QED
  BY <1>3, <1>4, <1>5, <1>6, <1>7

(* A second verdict over the same version finds it displaced already.        *)
LEMMA VerdictsDiffer ==
    ASSUME IInv, NEW p \in Saves, VerifyGood(p), NEW q \in Saves, q # p, save[q].verified,
           save[p].approved.version \in Versions, ~ (InPlace(p) /\ InPlace(q))
    PROVE  save[p].approved # save[q].approved
<1>1. SUFFICES ASSUME NEW a, a = save[p].approved, a = save[q].approved
               PROVE  FALSE
  OBVIOUS
<1>2. a.version # Torn
  BY <1>1 DEF Versions, Torn, Original, Edited, Foreign
<1>3. IF InPlace(q) THEN content[a.node] # a.version
      ELSE names.target # a.node /\ names.displaced[p] # a.node
  BY <1>1, <1>2 DEF IInv, SpentInv
<1>4. PICK d, t : d = names.displaced[p] /\ t = names.target
  OBVIOUS
<1>5. /\ content[d] = a.version
      /\ InPlace(p) => t = a.node
      /\ ~ InPlace(p) => d = a.node
      /\ content[t] = Edited(p) /\ (InPlace(p) => a.version # Edited(p))
  BY ONLY IInv, p \in Saves, VerifyGood(p), <1>1, <1>2, <1>4, ApprovedIsDisplaced,
          ZenonT(30)
<1>6. CASE InPlace(q)
  <2>1. ~ InPlace(p) /\ content[a.node] # a.version
    BY <1>3, <1>6
  <2> QED
    BY <1>5, <2>1
<1>7. CASE ~ InPlace(q)
  <2>1. names.target # a.node /\ names.displaced[p] # a.node
    BY <1>3, <1>7
  <2> QED
    BY <1>4, <1>5, <2>1
<1> QED
  BY <1>6, <1>7

(* Two saves that approved the same version never both succeed: the second    *)
(* finds what it displaced changed and reports a conflict.                   *)
THEOREM NoUpdateIsLost == Spec => []NoLostUpdate
<1>1. Init => NoLostUpdate
  BY DEF Init, NoLostUpdate
<1>2. ASSUME IInv, NoLostUpdate, [Next]_vars
      PROVE  NoLostUpdate'
  <2>1. CASE Verdicts
    BY <1>2, <2>1 DEF Verdicts, NoLostUpdate
  <2>2. ASSUME NEW p \in Saves, VerifyGood(p)
        PROVE  NoLostUpdate'
    <3>1. /\ save'[p].approved = save[p].approved /\ save'[p].strategy = save[p].strategy
          /\ \A q \in Saves \ {p} : save'[q] = save[q]
      BY <1>2, <2>2 DEF VerifyGood, IInv, TypeOK, Progress
    <3>2. ASSUME NEW q \in Saves, q # p, save[q].verified,
                 save[p].approved.version \in Versions,
                 {save[p].strategy, save[q].strategy} # {"inplace"}
          PROVE  save[p].approved # save[q].approved
      <4>1. ~ (InPlace(p) /\ InPlace(q))
        BY <3>2 DEF InPlace
      <4> QED
        BY <1>2, <2>2, <3>2, <4>1, VerdictsDiffer
    <3>3. ASSUME NEW q \in Saves, NEW r \in Saves, q # r, save'[q].verified, save'[r].verified,
                 save'[q].approved.version \in Versions,
                 {save'[q].strategy, save'[r].strategy} # {"inplace"},
                 save'[q].approved = save'[r].approved
          PROVE  FALSE
      <4>1. CASE q = p
        BY <3>1, <3>2, <3>3, <4>1
      <4>2. CASE r = p
        BY <3>1, <3>2, <3>3, <4>2
      <4>3. CASE q # p /\ r # p
        BY <1>2, <3>1, <3>3, <4>3 DEF NoLostUpdate
      <4> QED
        BY <4>1, <4>2, <4>3
    <3> QED
      BY <3>3 DEF NoLostUpdate
  <2>3. ASSUME NEW p \in Saves,
               Prepare(p) \/ Commit(p) \/ Conclude(p) \/ Disturb(p) \/ Recover(p)
        PROVE  NoLostUpdate'
    BY <1>2, <2>1, <2>2, <2>3, VerdictsStay
  <2>4. ASSUME save' = save
        PROVE  NoLostUpdate'
    BY <2>1, <2>4 DEF Verdicts
  <2>5. Inspect \/ ForeignStep \/ UNCHANGED vars => save' = save
    BY DEF Inspect, ForeignStep, ForeignReplace, ForeignWrite, ForeignDelete, vars
  <2> QED
    BY <1>2, <2>3, <2>4, <2>5 DEF Next
<1> QED
  BY <1>1, <1>2, Inductive, PTL DEF Spec

(* Files a step may let go of: a save's own unpublished stage, what a dead    *)
(* process had under its stage's name, and what a verified save displaced.   *)
Loose(n) ==
    \/ \E q \in Saves : names.stage[q] = StageNode(q) /\ n = StageNode(q)
    \/ \E q \in Saves : Dead(q) /\ n = names.stage[q]
    \/ \E q \in Saves : save[q].verified /\ n = names.displaced[q]

(* What a step of p does to the names of the folder: every file but a loose   *)
(* one keeps a name, and only a stage or the target is kept for a report.    *)
Moves(p) ==
    /\ \A q \in Saves \ {p} : /\ names'.stage[q] = names.stage[q] \/ Dead(q)
                              /\ names'.kept[q] = names.kept[q]
                              /\ names'.displaced[q] = names.displaced[q]
    /\ \A n \in {names.target, names.stage[p], names.kept[p], names.displaced[p]} :
          \/ n \in {NoNode, names'.target, names'.stage[p], names'.kept[p], names'.displaced[p]}
          \/ Loose(n)
    /\ names'.kept[p] \in {names.kept[p], names.stage[p], names.target}

(* No copy is kept for a report.                                             *)
KeptInv == \A p, q \in Saves : names.kept[q] # CopyNode(p)

(* A file that p's step may not let go of still has a name.                  *)
LEMMA MovesHold ==
    ASSUME NEW p \in Saves, Moves(p), NEW n \in Held, n # NoNode
    PROVE  n \in Held' \/ Loose(n)
<1>1. CASE n = names.target
  BY <1>1 DEF Moves, Held
<1>2. ASSUME NEW q \in Saves, n = names.stage[q]
      PROVE  n \in Held' \/ Loose(n)
  BY <1>2 DEF Moves, Held, Loose
<1>3. ASSUME NEW q \in Saves, n = names.kept[q]
      PROVE  n \in Held' \/ Loose(n)
  BY <1>3 DEF Moves, Held
<1>4. ASSUME NEW q \in Saves, n = names.displaced[q]
      PROVE  n \in Held' \/ Loose(n)
  BY <1>4 DEF Moves, Held
<1> QED
  BY <1>1, <1>2, <1>3, <1>4 DEF Held

(* A loose file that stood on its own was swept as a stage, or superseded.   *)
LEMMA LooseIs ==
    ASSUME SpentInv, NEW n, n # NoNode, Loose(n), content[n] \in Published,
           \A q \in Saves : names.stage[q] = StageNode(q) => n # StageNode(q)
    PROVE  SweptAsStage(content[n]) \/ Superseded(content[n])
<1>1. ASSUME NEW q \in Saves, Dead(q), n = names.stage[q]
      PROVE  SweptAsStage(content[n])
  BY <1>1 DEF SweptAsStage
<1>2. ASSUME NEW q \in Saves, save[q].verified, n = names.displaced[q]
      PROVE  Superseded(content[n])
  BY <1>2 DEF SpentInv, Superseded
<1> QED
  BY <1>1, <1>2 DEF Loose

(* What a step may do to the versions in the folder.                         *)
Safe == \A v \in Published : LosesNo(v) \/ WrittenUnderRewrite(v) \/ SweptAsStage(v)

(* A step that writes only a loose file, or none, destroys no version.       *)
LEMMA MovesSafely ==
    ASSUME SpentInv, NEW p \in Saves, Moves(p),
           \A n \in Held : n # NoNode => content'[n] = content[n] \/ Loose(n)
    PROVE  Safe
<1>1. SUFFICES ASSUME NEW v \in Published, Standing(v)
               PROVE  Reachable(v)' \/ Superseded(v) \/ SweptAsStage(v)
  BY DEF Safe, LosesNo
<1>2. PICK n \in Held : /\ n # NoNode /\ content[n] = v
                        /\ \A q \in Saves : names.stage[q] = StageNode(q) => n # StageNode(q)
  BY <1>1 DEF Standing
<1>3. CASE Loose(n)
  BY <1>1, <1>2, <1>3, LooseIs
<1>4. CASE ~ Loose(n)
  <2>1. n \in Held' /\ content'[n] = v
    BY <1>2, <1>4, MovesHold
  <2> QED
    BY <1>2, <2>1 DEF Reachable, Named
<1> QED
  BY <1>3, <1>4

(* Rewriting a file in place destroys only what it has a copy of, or what      *)
(* was written into it since the copy was made.                              *)
LEMMA RewritesSafely ==
    ASSUME IInv, NEW p \in Saves, At(p, "copied"), Moves(p),
           names'.displaced[p] = names.displaced[p],
           \A n \in Nodes : n # save[p].fd => content'[n] = content[n]
    PROVE  Safe
<1>0. TypeOK /\ NodeInv /\ SpentInv /\ HomeInv /\ FailureInv /\ Own(p)
  BY OwnIs DEF IInv
<1>1. failures = 0
  BY <1>0, FailedAlone DEF At, Ended, Closing
<1>2. /\ names.displaced[p] = CopyNode(p) /\ CopyNode(p) \in Nodes /\ CopyNode(p) # NoNode
      /\ save[p].fd # CopyNode(p)
  BY <1>0, Apart, KindsAre DEF Own, DisplacedInv, NodeInv, Elsewhere
<1>3. SUFFICES ASSUME NEW v \in Published, Standing(v)
               PROVE  Reachable(v)' \/ Superseded(v) \/ SweptAsStage(v) \/ WrittenUnderRewrite(v)
  BY DEF Safe, LosesNo
<1>4. PICK n \in Held : /\ n # NoNode /\ content[n] = v
                        /\ \A q \in Saves : names.stage[q] = StageNode(q) => n # StageNode(q)
  BY <1>3 DEF Standing
<1>5. n \in Nodes
  BY <1>0, <1>4 DEF Held, TypeOK, Naming, Places
<1>6. CASE Loose(n)
  BY <1>0, <1>3, <1>4, <1>6, LooseIs
<1>7. CASE ~ Loose(n) /\ n # save[p].fd
  <2>1. n \in Held' /\ content'[n] = v
    BY <1>4, <1>5, <1>7, MovesHold
  <2> QED
    BY <1>4, <2>1 DEF Reachable, Named
<1>8. CASE n = save[p].fd /\ v # save[p].approved.version
  BY <1>4, <1>8 DEF WrittenUnderRewrite
<1>9. CASE n = save[p].fd /\ v = save[p].approved.version
  <2>1. v # Torn
    BY <1>3, Apart
  <2>2. content[CopyNode(p)] = v
    BY <1>0, <1>1, <1>4, <1>9, <2>1 DEF HomeInv
  <2>3. CopyNode(p) \in Held' /\ content'[CopyNode(p)] = v
    BY <1>2, <2>2 DEF Held
  <2> QED
    BY <1>2, <2>3 DEF Reachable, Named
<1> QED
  BY <1>6, <1>7, <1>8, <1>9

(* What a save's own names lead to, at each step.                            *)
LEMMA NamesAt ==
    ASSUME IInv, NEW p \in Saves
    PROVE  /\ save[p].pc \notin {"swapped", "done", "crashed"} =>
                 names.stage[p] \in {NoNode, StageNode(p)}
           /\ save[p].pc \notin {"done", "crashed"} => names.kept[p] = NoNode
           /\ save[p].pc \in {"commit", "swapped"} => names.displaced[p] = NoNode
           /\ At(p, "open") => names.stage[p] = NoNode
<1>1. save[p].pc \in Steps /\ StageInv(p) /\ DisplacedInv(p)
  BY DEF IInv, TypeOK, Progress
<1> QED
  BY <1>1 DEF Steps, StageInv, DisplacedInv, PreStage, Hiding, Closing, At

(* A step that leaves the names alone lets go of nothing.                    *)
LEMMA NamesLeft ==
    ASSUME NEW p \in Saves, names' = names
    PROVE  Moves(p)
BY DEF Moves

(* Neither does one that drops a stage of its own,                           *)
LEMMA StageDropped ==
    ASSUME TypeOK, NEW p \in Saves, names' = DropStage(p),
           names.stage[p] \in {NoNode, StageNode(p)}
    PROVE  Moves(p)
<1>1. /\ names'.target = names.target
      /\ names'.kept = names.kept /\ names'.displaced = names.displaced
      /\ \A q \in Saves \ {p} : names'.stage[q] = names.stage[q]
  BY DEF DropStage, TypeOK, Naming
<1>2. names.stage[p] = NoNode \/ Loose(names.stage[p])
  BY DEF Loose
<1> QED
  BY <1>1, <1>2 DEF Moves

(* nor one that keeps it for a report.                                       *)
LEMMA StageKept ==
    ASSUME TypeOK, NEW p \in Saves, names' \in Kept(p), names.kept[p] = NoNode
    PROVE  Moves(p)
BY KeptIs DEF Moves

(* Cleanup lets go only of what a verified save displaced.                   *)
LEMMA VersionUnlinked ==
    ASSUME TypeOK, NEW p \in Saves, NEW e, names' = UndisplacedBy(p, e),
           e = "displaced" => save[p].verified
    PROVE  Moves(p)
<1>1. /\ names'.target = names.target
      /\ names'.kept = names.kept /\ names'.stage = names.stage
      /\ \A q \in Saves \ {p} : names'.displaced[q] = names.displaced[q]
      /\ e # "displaced" => names'.displaced[p] = names.displaced[p]
  BY DEF UndisplacedBy, TypeOK, Naming
<1>2. e = "displaced" => Loose(names.displaced[p])
  BY DEF Loose
<1> QED
  BY <1>1, <1>2 DEF Moves

(* The steps before the commit.                                              *)
LEMMA PrepareMoves ==
    ASSUME IInv, NEW p \in Saves, Prepare(p)
    PROVE  Moves(p)
<1>0. TypeOK
  BY DEF IInv
<1>1. ASSUME Open(p) \/ RefuseDeleted(p) \/ WriteStage(p) \/ CreateTransaction(p) \/ WriteRecord(p)
      PROVE  Moves(p)
  <2>1. names' = names
    BY <1>1 DEF Open, RefuseDeleted, WriteStage, CreateTransaction, WriteRecord, disk
  <2> QED
    BY <2>1, NamesLeft
<1>2. CASE CreateStage(p)
  <2>1. /\ names'.target = names.target
        /\ names'.kept = names.kept /\ names'.displaced = names.displaced
        /\ \A q \in Saves \ {p} : names'.stage[q] = names.stage[q] \/ Dead(q)
    BY <1>0, <1>2 DEF CreateStage, SweptStages, TypeOK, Naming
  <2>2. names.stage[p] = NoNode
    BY <1>2, NamesAt DEF CreateStage
  <2> QED
    BY <2>1, <2>2 DEF Moves
<1> QED
  BY <1>1, <1>2 DEF Prepare

(* The commit and its undo move files between names.                         *)
LEMMA CommitMoves ==
    ASSUME IInv, NEW p \in Saves, Commit(p)
    PROVE  Moves(p)
<1>0. TypeOK
  BY DEF IInv
<1>1. ASSUME CheckUnchanged(p) \/ CheckDeleted(p) \/ Rewrite(p)
      PROVE  Moves(p)
  <2>1. names' = names
    BY <1>1 DEF CheckUnchanged, CheckDeleted, Rewrite, disk
  <2> QED
    BY <2>1, NamesLeft
<1>2. ASSUME CheckChanged(p) \/ CreateCollides(p)
      PROVE  Moves(p)
  <2>1. names' = DropStage(p) /\ save[p].pc \notin {"swapped", "done", "crashed"}
    BY <1>2 DEF CheckChanged, CreateCollides, At
  <2> QED
    BY <1>0, <2>1, NamesAt, StageDropped
<1>3. ASSUME \/ SwapBack(p) /\ names' \in Kept(p)
             \/ PutBack(p) /\ names' \in Kept(p)
             \/ CommitFindsNoTarget(p)
             \/ RestorePrevious(p)
      PROVE  Moves(p)
  <2>1. names' \in Kept(p) /\ save[p].pc \notin {"done", "crashed"}
    BY <1>3, ReportIs DEF SwapBack, CommitFindsNoTarget, PutBack, RestorePrevious, At
  <2> QED
    BY <1>0, <2>1, NamesAt, StageKept
<1>4. ASSUME Exchange(p) \/ MoveDisplaced(p) \/ MoveAside(p) \/ CopyPrevious(p)
      PROVE  Moves(p)
  <2>1. names.displaced[p] = NoNode /\ names.kept[p] = NoNode
    BY <1>4, NamesAt DEF Exchange, MoveDisplaced, MoveAside, CopyPrevious, At
  <2>2. CASE Exchange(p)
    BY <1>0, <2>1, <2>2 DEF Exchange, Moves, TypeOK, Naming
  <2>3. CASE MoveDisplaced(p)
    BY <1>0, <2>1, <2>3 DEF MoveDisplaced, Moves, TypeOK, Naming
  <2>4. CASE MoveAside(p)
    BY <1>0, <2>1, <2>4 DEF MoveAside, Moves, TypeOK, Naming
  <2>5. CASE CopyPrevious(p)
    BY <1>0, <2>1, <2>5 DEF CopyPrevious, Moves, TypeOK, Naming
  <2> QED
    BY <1>4, <2>2, <2>3, <2>4, <2>5
<1>5. ASSUME PublishStage(p) \/ CreateNew(p)
      PROVE  Moves(p)
  <2>1. names.target = NoNode /\ names.kept[p] = NoNode
    BY <1>5, NamesAt DEF PublishStage, CreateNew, At
  <2>2. names' = [names EXCEPT !.target = names.stage[p], !.stage[p] = NoNode]
    BY <1>5 DEF PublishStage, CreateNew
  <2> QED
    BY <1>0, <2>1, <2>2 DEF Moves, TypeOK, Naming
<1>6. ASSUME SwapBack(p), names' \notin Kept(p)
      PROVE  Moves(p)
  <2>1. names.kept[p] = NoNode /\ names' \in SwappedBack(p)
    BY <1>6, NamesAt DEF SwapBack, At
  <2>2. /\ names'.target = names.stage[p] /\ names'.displaced = names.displaced
        /\ names.target \in {names'.kept[p], names'.stage[p]}
        /\ names'.kept[p] \in {names.kept[p], names.target}
        /\ \A q \in Saves \ {p} : /\ names'.stage[q] = names.stage[q]
                                  /\ names'.kept[q] = names.kept[q]
    BY <1>0, <2>1, SwappedBackIs
  <2> QED
    BY <2>1, <2>2 DEF Moves
<1>7. ASSUME PutBack(p), names' \notin Kept(p)
      PROVE  Moves(p)
  <2>1. /\ names.target = NoNode /\ names.kept[p] = NoNode
        /\ \E kept \in Kept(p) :
              names' = [kept EXCEPT !.target = names.displaced[p], !.displaced[p] = NoNode]
    BY <1>7, NamesAt, ReportIs DEF PutBack, At
  <2>2. /\ names'.target = names.displaced[p]
        /\ names'.kept[p] \in {names.kept[p], names.stage[p]}
        /\ names.stage[p] \in {names'.kept[p], names'.stage[p]}
        /\ \A q \in Saves \ {p} : /\ names'.stage[q] = names.stage[q]
                                  /\ names'.kept[q] = names.kept[q]
                                  /\ names'.displaced[q] = names.displaced[q]
    BY <1>0, <2>1, KeptIs DEF Naming
  <2> QED
    BY <2>1, <2>2 DEF Moves
<1> QED
  BY <1>1, <1>2, <1>3, <1>4, <1>5, <1>6, <1>7 DEF Commit

(* The verdict and the cleanup drop stages and superseded versions.          *)
LEMMA ConcludeMoves ==
    ASSUME IInv, NEW p \in Saves, Conclude(p)
    PROVE  Moves(p)
<1>0. TypeOK /\ RecordInv(p)
  BY DEF IInv
<1>1. ASSUME VerifyGood(p) \/ RetryCleanup(p)
      PROVE  Moves(p)
  <2>1. names' = names
    BY <1>1 DEF VerifyGood, RetryCleanup, disk
  <2> QED
    BY <2>1, NamesLeft
<1>2. ASSUME \/ VerifyBad(p)
             \/ VerifyUnreadable(p)
             \/ FinishCleanup(p)
             \/ CleanupStops(p)
             \/ FinishUndo(p) /\ save[p].result # "commit_failure"
      PROVE  Moves(p)
  <2>1. names' = DropStage(p) /\ save[p].pc \notin {"swapped", "done", "crashed"}
    BY <1>2 DEF VerifyBad, VerifyUnreadable, FinishCleanup, CleanupStops, FinishUndo, At
  <2> QED
    BY <1>0, <2>1, NamesAt, StageDropped
<1>3. ASSUME FinishUndo(p), save[p].result = "commit_failure"
      PROVE  Moves(p)
  <2>1. names' \in Kept(p) /\ save[p].pc \notin {"done", "crashed"}
    BY <1>3, ReportIs DEF FinishUndo
  <2> QED
    BY <1>0, <2>1, NamesAt, StageKept
<1>4. CASE Unlink(p)
  <2>1. PICK e : e = Head(save[p].todo)
    OBVIOUS
  <2>2. /\ save[p].pc \in {"unlink", "rollback", "abort"}
        /\ save[p].todo # <<>> /\ names' = UndisplacedBy(p, e)
    BY <1>4, <2>1 DEF Unlink
  <2>3. save[p].todo \in Todo
    BY <1>0 DEF TypeOK, Progress
  <2>4. save[p].pc \in {"rollback", "abort"} => e # "displaced"
    BY <1>0, <2>1, <2>2, <2>3, OrderKeeps DEF RecordInv
  <2>5. save[p].pc = "unlink" => save[p].verified
    BY <1>0 DEF RecordInv, Closing
  <2> QED
    BY <1>0, <2>2, <2>4, <2>5, VersionUnlinked
<1> QED
  BY <1>1, <1>2, <1>3, <1>4 DEF Conclude

(* So do cancellation and failure; a crash drops nothing.                    *)
LEMMA DisturbMoves ==
    ASSUME IInv, NEW p \in Saves, Disturb(p)
    PROVE  Moves(p)
<1>0. TypeOK
  BY DEF IInv
<1>1. ASSUME \/ CancelPrepared(p) \/ FailPrepare(p) \/ FailUndo(p) \/ Exit(p)
             \/ Crash(p) /\ names' = names
      PROVE  Moves(p)
  <2>1. names' = names
    BY <1>1 DEF CancelPrepared, FailPrepare, FailUndo, Exit, disk
  <2> QED
    BY <2>1, NamesLeft
<1>2. ASSUME CancelStage(p) \/ FailStage(p) \/ CheckUnreadable(p) \/ FailCleanup(p)
      PROVE  Moves(p)
  <2>1. names' = DropStage(p) /\ save[p].pc \notin {"swapped", "done", "crashed"}
    BY <1>2 DEF CancelStage, FailStage, CheckUnreadable, FailCleanup, At
  <2> QED
    BY <1>0, <2>1, NamesAt, StageDropped
<1>3. ASSUME FailCommit(p), names' \in Kept(p)
      PROVE  Moves(p)
  <2>1. save[p].pc \notin {"done", "crashed"}
    BY <1>3 DEF FailCommit
  <2> QED
    BY <1>0, <1>3, <2>1, NamesAt, StageKept
<1>4. ASSUME FailCommit(p), names' \notin Kept(p)
      PROVE  Moves(p)
  <2>1. /\ \E kept \in Kept(p) : names' = [kept EXCEPT !.displaced[p] = CopyNode(p)]
        /\ names.displaced[p] = NoNode /\ names.kept[p] = NoNode
    BY <1>4, NamesAt DEF FailCommit, At
  <2>2. /\ names'.target = names.target
        /\ names'.kept[p] \in {names.kept[p], names.stage[p]}
        /\ names.stage[p] \in {names'.kept[p], names'.stage[p]}
        /\ \A q \in Saves \ {p} : /\ names'.stage[q] = names.stage[q]
                                  /\ names'.kept[q] = names.kept[q]
                                  /\ names'.displaced[q] = names.displaced[q]
    BY <1>0, <2>1, KeptIs DEF Naming
  <2> QED
    BY <2>1, <2>2 DEF Moves
<1>5. ASSUME Crash(p), names' # names
      PROVE  Moves(p)
  <2>1. /\ names' = [names EXCEPT !.displaced[p] = CopyNode(p)]
        /\ names.displaced[p] = NoNode
    BY <1>5, NamesAt DEF Crash, At
  <2> QED
    BY <1>0, <2>1 DEF Moves, TypeOK, Naming
<1> QED
  BY <1>1, <1>2, <1>3, <1>4, <1>5 DEF Disturb

(* A resumed cleanup has a verified save's files in its hands.               *)
LEMMA RecoverMoves ==
    ASSUME IInv, NEW p \in Saves, Recover(p)
    PROVE  Moves(p)
<1>0. TypeOK /\ save[p].verified
  BY RecoveringQuietly DEF IInv
<1>1. ASSUME RetryResumed(p) \/ ResumedEnds(p)
      PROVE  Moves(p)
  <2>1. names' = names
    BY <1>1 DEF RetryResumed, ResumedEnds
  <2> QED
    BY <2>1, NamesLeft
<1>2. CASE ResumedUnlink(p)
  <2>1. PICK e : e = Head(cleaner[p].todo)
    OBVIOUS
  <2>2. names' = UndisplacedBy(p, e)
    BY <1>2, <2>1 DEF ResumedUnlink
  <2> QED
    BY <1>0, <2>2, VersionUnlinked
<1> QED
  BY <1>1, <1>2 DEF Recover

(* The steps of a save.                                                      *)
Step(p) == Prepare(p) \/ Commit(p) \/ Conclude(p) \/ Disturb(p) \/ Recover(p)

(* Every step of a save keeps a name for every file that is not loose.       *)
LEMMA StepMoves ==
    ASSUME IInv, NEW p \in Saves, Step(p)
    PROVE  Moves(p)
BY PrepareMoves, CommitMoves, ConcludeMoves, DisturbMoves, RecoverMoves DEF Step

(* A step other than a rewrite writes nothing but a stage or a new copy.     *)
LEMMA StepWrites ==
    ASSUME IInv, KeptInv, NEW p \in Saves, Step(p), ~ Rewrite(p), ~ RestorePrevious(p),
           ~ (Crash(p) /\ At(p, "copied")), NEW n \in Held, n # NoNode
    PROVE  content'[n] = content[n] \/ Loose(n)
<1>0. TypeOK /\ NodeInv /\ Own(p)
  BY OwnIs DEF IInv
<1>1. n \in Nodes
  BY <1>0 DEF Held, TypeOK, Naming, Places
<1>2. CASE WriteStage(p)
  <2>1. names.stage[p] = StageNode(p)
    BY <1>0, <1>2 DEF WriteStage, Own, StageInv, Hiding, At
  <2>2. n # StageNode(p) => content'[n] = content[n]
    BY <1>0, <1>1, <1>2 DEF WriteStage, TypeOK
  <2> QED
    BY <2>1, <2>2 DEF Loose
<1>3. CASE CopyPrevious(p)
  <2>1. names.displaced[p] = NoNode
    BY <1>3, NamesAt DEF CopyPrevious, At
  <2>2. n # CopyNode(p)
    BY <1>0, <2>1, Apart DEF NodeInv, Elsewhere, KeptInv, Held
  <2> QED
    BY <1>0, <1>1, <1>3, <2>2 DEF CopyPrevious, TypeOK
<1>4. ASSUME ~ WriteStage(p), ~ CopyPrevious(p)
      PROVE  content' = content
  <2>1. CASE Prepare(p)
    BY <1>4, <2>1 DEF Prepare, Open, RefuseDeleted, CreateStage, CreateTransaction,
                      WriteRecord, disk
  <2>2. CASE Commit(p)
    BY <1>4, <2>2 DEF Commit, CheckUnchanged, CheckDeleted, CheckChanged, Exchange,
                      MoveDisplaced, SwapBack, MoveAside, PublishStage, PutBack, CreateNew,
                      CreateCollides, CommitFindsNoTarget, disk
  <2>3. CASE Conclude(p)
    BY <2>3 DEF Conclude, VerifyGood, VerifyBad, VerifyUnreadable, Unlink, FinishCleanup,
                CleanupStops, RetryCleanup, FinishUndo, disk
  <2>4. CASE Disturb(p)
    BY <2>4 DEF Disturb, CancelStage, CancelPrepared, FailStage, FailPrepare,
                CheckUnreadable, FailCommit, FailCleanup, FailUndo, Crash, Exit, disk
  <2>5. CASE Recover(p)
    BY <2>5 DEF Recover, RetryResumed, ResumedUnlink, ResumedEnds
  <2> QED
    BY <2>1, <2>2, <2>3, <2>4, <2>5 DEF Step
<1> QED
  BY <1>2, <1>3, <1>4

(* Rewriting the target, restoring it, and dying in between write one file.  *)
LEMMA RewriteWrites ==
    ASSUME IInv, NEW p \in Saves,
           Rewrite(p) \/ RestorePrevious(p) \/ (Crash(p) /\ At(p, "copied"))
    PROVE  /\ At(p, "copied") /\ names'.displaced[p] = names.displaced[p]
           /\ \A n \in Nodes : n # save[p].fd => content'[n] = content[n]
<1>0. TypeOK
  BY DEF IInv
<1>1. CASE Rewrite(p)
  BY <1>0, <1>1 DEF Rewrite, TypeOK
<1>2. CASE RestorePrevious(p)
  BY <1>0, <1>2, KeptIs DEF RestorePrevious, TypeOK
<1>3. CASE Crash(p) /\ At(p, "copied")
  BY <1>0, <1>3 DEF Crash, At, TypeOK
<1> QED
  BY <1>1, <1>2, <1>3

(* The next start sweeps only stages of the dead.                            *)
LEMMA InspectSafely ==
    ASSUME IInv, Inspect
    PROVE  Safe
<1>0. TypeOK /\ SpentInv
  BY DEF IInv
<1>1. /\ names'.target = names.target /\ names'.kept = names.kept
      /\ names'.displaced = names.displaced /\ content' = content
      /\ \A q \in Saves : names'.stage[q] = names.stage[q] \/ Dead(q)
  BY <1>0 DEF Inspect, SweptStages, TypeOK, Naming
<1>2. ASSUME NEW n \in Held, n # NoNode
      PROVE  n \in Held' \/ Loose(n)
  BY <1>1, <1>2 DEF Held, Loose
<1>3. SUFFICES ASSUME NEW v \in Published, Standing(v)
               PROVE  Reachable(v)' \/ Superseded(v) \/ SweptAsStage(v)
  BY DEF Safe, LosesNo
<1>4. PICK n \in Held : /\ n # NoNode /\ content[n] = v
                        /\ \A q \in Saves : names.stage[q] = StageNode(q) => n # StageNode(q)
  BY <1>3 DEF Standing
<1>5. CASE Loose(n)
  BY <1>0, <1>3, <1>4, <1>5, LooseIs
<1>6. CASE ~ Loose(n)
  BY <1>1, <1>2, <1>4, <1>6 DEF Reachable, Named
<1> QED
  BY <1>5, <1>6

(* No copy is ever kept for a report: it is never a stage or the target.     *)
LEMMA NoCopyIsKept == Spec => []KeptInv
<1>1. Init => KeptInv
  BY Apart DEF Init, KeptInv
<1>2. ASSUME IInv, KeptInv, [Next]_vars
      PROVE  KeptInv'
  <2>1. TypeOK /\ NodeInv
    BY <1>2 DEF IInv
  <2>2. ASSUME NEW p \in Saves, Step(p)
        PROVE  KeptInv'
    <3>1. Moves(p)
      BY <1>2, <2>2, StepMoves
    <3>2. \A r \in Saves : names.stage[p] # CopyNode(r) /\ names.target # CopyNode(r)
      BY <2>1 DEF NodeInv, Elsewhere
    <3> QED
      BY <1>2, <3>1, <3>2 DEF KeptInv, Moves
  <2>3. ASSUME Inspect \/ ForeignStep \/ UNCHANGED vars
        PROVE  KeptInv'
    <3>1. names'.kept = names.kept
      BY <2>1, <2>3 DEF Inspect, ForeignStep, ForeignReplace, ForeignWrite, ForeignDelete,
                        vars, TypeOK, Naming
    <3> QED
      BY <1>2, <3>1 DEF KeptInv
  <2> QED
    BY <1>2, <2>2, <2>3 DEF Next, Step
<1> QED
  BY <1>1, <1>2, Inductive, PTL DEF Spec

(* No step of a save, or of the next start, destroys the last copy of a       *)
(* version that nobody approved replacing, but for the two windows the       *)
(* property names.  Commits, cleanups and crashes of any number of saves     *)
(* race; a call fails, and an undo runs, only in a save that is alone, while *)
(* other programs may write.                                                 *)
THEOREM OnlyApprovedGo == Spec => OnlyApprovedVersionsGo
<1>1. ASSUME IInv, KeptInv, [Next]_vars
      PROVE  [ForeignStep \/ Safe]_vars
  <2>1. SpentInv
    BY <1>1 DEF IInv
  <2>2. ASSUME NEW p \in Saves, Step(p)
        PROVE  Safe
    <3>1. Moves(p)
      BY <1>1, <2>2, StepMoves
    <3>2. CASE Rewrite(p) \/ RestorePrevious(p) \/ (Crash(p) /\ At(p, "copied"))
      BY <1>1, <3>1, <3>2, RewriteWrites, RewritesSafely
    <3>3. CASE ~ (Rewrite(p) \/ RestorePrevious(p) \/ (Crash(p) /\ At(p, "copied")))
      <4>1. \A n \in Held : n # NoNode => content'[n] = content[n] \/ Loose(n)
        BY <1>1, <2>2, <3>3, StepWrites
      <4> QED
        BY <2>1, <3>1, <4>1, MovesSafely
    <3> QED
      BY <3>2, <3>3
  <2> QED
    BY <1>1, <2>2, InspectSafely DEF Next, Step
<1>2. OnlyApprovedVersionsGo <=> [][ForeignStep \/ Safe]_vars
  BY PTL DEF OnlyApprovedVersionsGo, Safe
<1> QED
  BY <1>1, <1>2, Inductive, NoCopyIsKept, PTL DEF Spec
=============================================================================

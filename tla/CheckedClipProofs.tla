--------------------------- MODULE CheckedClipProofs ---------------------------
(* For any processes, runs, datasets and changes by others: CheckedClip is type    *)
(* correct, Clip runs at most once for a run, an eligible result is what it says,  *)
(* and the result of a finished run that failed its checks is never a source.      *)
(*                                                                                 *)
(* The argument: the folder of a run is made once, so a run has at most one holder *)
(* in its life, and Clip runs before the content of the run is anywhere; while the *)
(* run is held its result lies where it was made and its report says RUNNING.      *)
EXTENDS CheckedClip, TLAPS

Live == {"made", "stored", "verified", "running", "clipped", "done"}
Early == {"made", "stored", "verified", "running"}

\* A run has one holder, which made its folder.
OneHolder ==
    /\ \A c \in Procs : pc[c] \in Live => run[c] \in folder
    /\ \A c, d \in Procs : pc[c] \in Live /\ pc[d] \in Live /\ run[c] = run[d] => c = d

\* Clip has not run before its turn.
NotClipped ==
    /\ \A c \in Procs : pc[c] \in Early => clips[run[c]] = 0
    /\ \A r \in Runs : r \notin folder => clips[r] = 0 /\ report[r] = NoReport

Once == OneHolder /\ NotClipped /\ RunOnce

\* The result of a run lies at its place or nothing does.
Own == \A r \in Runs : file[r] = Gone \/ file[r].main = r

\* The content r exists only after the Clip of r, and while r is held also at its place.
Exists(r) == clips[r] = 1 /\ (Alive(r) => file[r] # Gone)
Origin ==
    /\ \A p \in Places, r \in Runs : file[p] # Gone /\ file[p].main = r => Exists(r)
    /\ \A c \in Procs, r \in Runs : work[c].version.main = r => Exists(r)
    /\ \A q, r \in Runs : taken[q] # Gone /\ taken[q].main = r => Exists(r)

\* What the report on disk says of a run that is held.
Stored(c) ==
    LET r == run[c]
    IN /\ report[r] # NoReport => report[r].main = Gone /\ report[r].status # "SUCCEEDED"
       /\ pc[c] = "running" \/ clips[r] = 1 => report[r] # NoReport /\ report[r].output
       /\ pc[c] = "clipped" => clips[r] = 1 /\ file[r] # Gone

\* What the holder has in memory.
Memory(c) ==
    LET r == run[c] w == work[c]
    IN /\ w.main = Gone
       /\ pc[c] # "done" => w.print = Gone
       /\ pc[c] \notin {"clipped", "done"} => w.status # "SUCCEEDED"
       /\ pc[c] \in {"verified", "running", "clipped"} => taken[r] = w.version
       /\ pc[c] = "done" /\ w.status = "SUCCEEDED" /\ w.passed =>
            r \in good /\ clips[r] = 1 /\ taken[r] = w.version /\ w.print # Gone /\ w.print.main = r

Held == \A c \in Procs :
    /\ pc[c] \in Live => Stored(c)
    /\ pc[c] # "idle" => Memory(c)

\* What a report says is true of the run, held or not.
Evidence ==
    \A r \in Runs : report[r] # NoReport =>
        /\ report[r].main # Gone => report[r].main = r /\ report[r].output
        /\ report[r].status = "SUCCEEDED" /\ report[r].passed =>
             r \in good /\ clips[r] = 1 /\ taken[r] = report[r].version
        /\ report[r].status = "SUCCEEDED" /\ report[r].passed /\ report[r].print # Gone =>
             report[r].print.main = r

\* A bad result that was taken as a source was left behind by a process that ended.
Abandoned ==
    \A q, r \in Runs : taken[q] # Gone /\ taken[q].main = r /\ r \notin good =>
        ~Alive(r) /\ (report[r] # NoReport => report[r].main = Gone)

Facts == Own /\ Origin /\ Held /\ Evidence /\ Abandoned

-----------------------------------------------------------------------------
(* Types.                                                                         *)

LEMMA BlankType ==
  ASSUME NEW p \in Places, NEW v \in Versions
  PROVE  Blank(p, v) \in Reports
BY DEF Blank, Reports

LEMMA UpdateType ==
  ASSUME NEW w \in Reports, NEW b \in BOOLEAN, NEW v \in Versions \cup {Gone}
  PROVE  /\ [w EXCEPT !.passed = b] \in Reports
         /\ [w EXCEPT !.passed = b, !.print = v] \in Reports
         /\ [w EXCEPT !.output = b] \in Reports
         /\ [w EXCEPT !.status = "RUNNING", !.output = TRUE] \in Reports
         /\ [w EXCEPT !.status = "SUCCEEDED"] \in Reports
<1>1. [w EXCEPT !.output = b] \in Reports /\ [w EXCEPT !.status = "SUCCEEDED"] \in Reports
  BY DEF Reports
<1>2. [w EXCEPT !.passed = b] \in Reports
  BY DEF Reports
<1>3. [w EXCEPT !.passed = b, !.print = v] \in Reports
  BY DEF Reports
<1>4. [w EXCEPT !.status = "RUNNING", !.output = TRUE] \in Reports
  BY DEF Reports
<1>. QED
  BY <1>1, <1>2, <1>3, <1>4

LEMMA FileType ==
  ASSUME TypeOK, NEW p \in Places, file[p] # Gone
  PROVE  file[p] \in Versions
BY DEF TypeOK

LEMMA InitType == Init => TypeOK
<1>. SUFFICES ASSUME Init PROVE TypeOK
  OBVIOUS
<1>1. PICK s \in Sides, m \in Raws :
        file = [p \in Places |-> IF p \in Paths THEN [main |-> m, side |-> s] ELSE Gone]
  BY DEF Init
<1>2. [main |-> m, side |-> s] \in Versions
  BY DEF Versions
<1>3. file \in [Places -> Versions \cup {Gone}]
  BY <1>1, <1>2
<1>4. PICK p \in Paths : work = [c \in Procs |-> Blank(p, file[p])]
  BY DEF Init
<1>5. file[p] \in Versions /\ p \in Places
  BY <1>1, <1>2 DEF Places
<1>6. work \in [Procs -> Reports]
  BY <1>4, <1>5, BlankType
<1>. QED
  BY <1>3, <1>6, CheckedClipAssumption DEF Init, TypeOK

LEMMA RequestType ==
  ASSUME TypeOK, NEW c \in Procs, NEW r \in Runs, NEW p \in Places, Request(c, r, p)
  PROVE  TypeOK'
<1>1. Blank(p, file[p]) \in Reports
  BY FileType, BlankType DEF Request
<1>. QED
  BY <1>1 DEF Request, Goes, TypeOK

LEMMA FailType ==
  ASSUME TypeOK, NEW c \in Procs, Fail(c)
  PROVE  work' \in [Procs -> Reports] /\ pc' \in [Procs -> {"idle", "looked", "made", "stored",
           "verified", "running", "clipped", "done"}]
<1>1. [work[c] EXCEPT !.passed = FALSE, !.status = IF @ = "RUNNING" THEN "FAILED" ELSE @] \in Reports
  BY DEF TypeOK, Reports
<1>. QED
  BY <1>1 DEF Fail, Goes, TypeOK

LEMMA QuietType ==
  ASSUME TypeOK, NEW c \in Procs,
         MakeFolder(c) \/ StoreNotStarted(c) \/ VerifyAsset(c) \/ Crash(c)
  PROVE  TypeOK'
<1>1. CASE MakeFolder(c)
  BY <1>1 DEF MakeFolder, Goes, TypeOK
<1>2. CASE StoreNotStarted(c)
  BY <1>2 DEF StoreNotStarted, Store, Goes, TypeOK
<1>3. CASE VerifyAsset(c)
  <2>1. work[c].version \in Versions
    BY DEF TypeOK, Reports
  <2>. QED
    BY <1>3, <2>1, FailType DEF VerifyAsset, Goes, TypeOK
<1>4. CASE Crash(c)
  BY <1>4 DEF Crash, Goes, TypeOK
<1>. QED
  BY <1>1, <1>2, <1>3, <1>4

LEMMA SnapshotType ==
  ASSUME TypeOK, NEW c \in Procs, SnapshotAndStore(c)
  PROVE  TypeOK'
<1>1. work[c] \in Reports
  BY DEF TypeOK
<1>2. [work[c] EXCEPT !.status = "RUNNING", !.output = TRUE] \in Reports
  BY <1>1, UpdateType
<1>. QED
  BY <1>2, FailType DEF SnapshotAndStore, Store, Goes, TypeOK

LEMMA ClipType ==
  ASSUME TypeOK, NEW c \in Procs, Clip(c)
  PROVE  TypeOK'
<1>1. run[c] \in Runs /\ clips[run[c]] \in Nat
  BY DEF TypeOK
<1>2. \A s \in Sides : [main |-> run[c], side |-> s] \in Versions
  BY <1>1 DEF Versions
<1>3. file' \in [Places -> Versions \cup {Gone}]
  BY <1>1, <1>2 DEF Clip, TypeOK
<1>4. clips' \in [Runs -> Nat] /\ good' \in SUBSET Runs
  BY <1>1 DEF Clip, TypeOK
<1>5. [work[c] EXCEPT !.status = "SUCCEEDED"] \in Reports
  <2>1. work[c] \in Reports
    BY DEF TypeOK
  <2>. QED
    BY <2>1, UpdateType
<1>6. work' \in [Procs -> Reports] /\ pc' \in [Procs -> {"idle", "looked", "made", "stored",
         "verified", "running", "clipped", "done"}]
  BY <1>5, FailType DEF Clip, Goes, TypeOK
<1>. QED
  BY <1>3, <1>4, <1>6 DEF Clip, TypeOK

LEMMA ValidateType ==
  ASSUME TypeOK, NEW c \in Procs, Validate(c)
  PROVE  TypeOK'
<1>1. run[c] \in Places /\ file[run[c]] \in Versions \cup {Gone}
  BY DEF TypeOK, Places
<1>2. CASE Fail(c)
  BY <1>2, FailType DEF Validate, TypeOK
<1>3. CASE ~Fail(c)
  <2>. DEFINE b == run[c] \in good /\ file[work[c].source] = work[c].version
              w == [work[c] EXCEPT !.passed = b, !.print = file[run[c]]]
  <2>1. work[c] \in Reports /\ b \in BOOLEAN
    BY DEF TypeOK
  <2>2. w \in Reports
    BY <1>1, <2>1, UpdateType
  <2>3. work' = [work EXCEPT ![c] = w]
    BY <1>3 DEF Validate
  <2>. HIDE DEF w
  <2>. QED
    BY <1>3, <2>2, <2>3 DEF Validate, Goes, TypeOK
<1>. QED
  BY <1>2, <1>3

LEMMA FinishType ==
  ASSUME TypeOK, NEW c \in Procs, Finish(c)
  PROVE  TypeOK'
<1>1. run[c] \in Runs /\ run[c] \in Places /\ file[run[c]] \in Versions \cup {Gone}
  BY DEF TypeOK, Places
<1>2. file[run[c]] # Gone => [work[c] EXCEPT !.main = file[run[c]].main] \in Reports
  BY <1>1 DEF TypeOK, Reports, Versions
<1>3. work[c] \in Reports
  BY DEF TypeOK
<1>4. PICK w \in Reports : report' = [report EXCEPT ![run[c]] = w] /\ work' = [work EXCEPT ![c] = w]
  BY <1>2, <1>3 DEF Finish, Store
<1>. QED
  BY <1>1, <1>4 DEF Finish, Goes, TypeOK

LEMMA OutsideType ==
  ASSUME TypeOK, Outside
  PROVE  TypeOK'
<1>1. ASSUME NEW f \in [Places -> Versions \cup {Gone}], Changed(f) PROVE TypeOK'
  BY <1>1, CheckedClipAssumption DEF Changed, TypeOK
<1>2. ASSUME NEW p \in Paths, NEW m \in Raws, NEW s \in Sides, EditDataset(p, m, s) PROVE TypeOK'
  <2>1. [main |-> m, side |-> s] \in Versions
    BY DEF Versions
  <2>. QED
    BY <1>1, <1>2, <2>1 DEF EditDataset, TypeOK
<1>3. ASSUME NEW from \in Places, NEW to \in Paths, RenameDataset(from, to) PROVE TypeOK'
  BY <1>1, <1>3 DEF RenameDataset, TypeOK
<1>4. ASSUME NEW from \in Places, NEW to \in Paths, NEW s \in Sides, CopyDataset(from, to, s) PROVE TypeOK'
  <2>1. [main |-> file[from].main, side |-> s] \in Versions
    BY <1>4, FileType DEF CopyDataset, Versions
  <2>. QED
    BY <1>1, <1>4, <2>1 DEF CopyDataset, TypeOK
<1>5. ASSUME NEW r \in Runs, NEW s \in Sides, TouchSidecar(r, s) PROVE TypeOK'
  <2>1. file[r] \in Versions /\ r \in Places
    BY <1>5, FileType DEF TouchSidecar, Places
  <2>2. [file[r] EXCEPT !.side = s] \in Versions
    BY <2>1 DEF Versions
  <2>3. [file EXCEPT ![r].side = s] = [file EXCEPT ![r] = [file[r] EXCEPT !.side = s]]
    BY <2>1 DEF TypeOK
  <2>. QED
    BY <1>1, <1>5, <2>1, <2>2, <2>3 DEF TouchSidecar, TypeOK
<1>6. ASSUME NEW r \in Runs, LoseReport(r) PROVE TypeOK'
  BY <1>6, CheckedClipAssumption DEF LoseReport, TypeOK
<1>. QED
  BY <1>2, <1>3, <1>4, <1>5, <1>6 DEF Outside

LEMMA NextType == TypeOK /\ [Next]_vars => TypeOK'
<1>. SUFFICES ASSUME TypeOK, [Next]_vars PROVE TypeOK'
  OBVIOUS
<1>1. CASE UNCHANGED vars
  BY <1>1 DEF vars, TypeOK
<1>2. CASE Outside
  BY <1>2, OutsideType
<1>3. ASSUME NEW c \in Procs, Step(c) PROVE TypeOK'
  BY <1>3, RequestType, QuietType, SnapshotType, ClipType, ValidateType, FinishType DEF Step
<1>. QED
  BY <1>1, <1>2, <1>3 DEF Next

\* Every reachable state is well typed.
THEOREM TypeCorrect == Spec => []TypeOK
BY InitType, NextType, PTL DEF Spec

-----------------------------------------------------------------------------
(* One holder, one Clip.                                                          *)

LEMMA InitOnce == Init => Once
BY DEF Init, Once, OneHolder, NotClipped, RunOnce, Live, Early

LEMMA MakeFolderOnce ==
  ASSUME TypeOK, Once, NEW c \in Procs, MakeFolder(c)
  PROVE  Once'
<1>1. CASE run[c] \in folder
  BY <1>1 DEF MakeFolder, FolderTaken, Goes, TypeOK, Once, OneHolder, NotClipped, RunOnce, Live, Early
<1>2. CASE run[c] \notin folder
  <2>1. run[c] \in Runs
    BY DEF TypeOK
  <2>2. /\ folder' = folder \cup {run[c]} /\ pc' = [pc EXCEPT ![c] = "made"]
        /\ UNCHANGED <<report, run, clips>>
    BY <1>2 DEF MakeFolder, FolderTaken, Goes
  <2>3. OneHolder'
    BY <1>2, <2>1, <2>2 DEF TypeOK, Once, OneHolder, Live
  <2>4. NotClipped' /\ RunOnce'
    BY <1>2, <2>1, <2>2 DEF TypeOK, Once, NotClipped, RunOnce, Early
  <2>. QED
    BY <2>3, <2>4 DEF Once
<1>. QED
  BY <1>1, <1>2

\* A step of the holder that is not Clip, and one that ends its hold.
LEMMA HolderOnce ==
  ASSUME TypeOK, Once, NEW c \in Procs, NEW to \in {"idle"} \cup Live,
         pc[c] \in Live, pc' = [pc EXCEPT ![c] = to], to \in Early => pc[c] \in Early,
         UNCHANGED <<folder, run, clips>>, \A r \in Runs : r # run[c] => report'[r] = report[r]
  PROVE  Once'
<1>1. run[c] \in folder
  BY DEF Once, OneHolder
<1>2. OneHolder'
  BY DEF TypeOK, Once, OneHolder, Live
<1>3. NotClipped'
  BY <1>1 DEF TypeOK, Once, NotClipped, Live, Early
<1>. QED
  BY <1>2, <1>3 DEF Once, RunOnce

LEMMA ClipOnce ==
  ASSUME TypeOK, Once, NEW c \in Procs, Clip(c)
  PROVE  Once'
<1>1. PICK to \in {"clipped", "done"} : pc' = [pc EXCEPT ![c] = to]
  BY DEF Clip, Fail, Goes
<1>2. /\ pc[c] = "running" /\ clips' = [clips EXCEPT ![run[c]] = clips[run[c]] + 1]
      /\ UNCHANGED <<folder, run, report>> /\ run[c] \in Runs
  BY DEF Clip, TypeOK
<1>3. clips[run[c]] = 0 /\ run[c] \in folder
  BY <1>2 DEF Once, NotClipped, OneHolder, Live, Early
<1>4. OneHolder'
  BY <1>1, <1>2 DEF TypeOK, Once, OneHolder, Live
<1>5. ASSUME NEW d \in Procs, pc'[d] \in Early PROVE clips'[run'[d]] = 0
  <2>1. d # c /\ pc[d] \in Early
    BY <1>1, <1>5 DEF TypeOK, Early
  <2>2. run[d] # run[c] /\ run[d] \in Runs
    BY <1>2, <2>1 DEF TypeOK, Once, OneHolder, Live, Early
  <2>. QED
    BY <1>2, <2>1, <2>2 DEF TypeOK, Once, NotClipped
<1>6. NotClipped'
  BY <1>2, <1>3, <1>5 DEF TypeOK, Once, NotClipped
<1>7. RunOnce'
  BY <1>2, <1>3 DEF TypeOK, Once, RunOnce
<1>. QED
  BY <1>4, <1>6, <1>7 DEF Once

LEMMA NextOnce == TypeOK /\ Once /\ [Next]_vars => Once'
<1>. SUFFICES ASSUME TypeOK, Once, [Next]_vars PROVE Once'
  OBVIOUS
<1>1. CASE UNCHANGED <<folder, report, pc, run, clips>>
  BY <1>1 DEF Once, OneHolder, NotClipped, RunOnce
<1>2. ASSUME NEW c \in Procs, NEW r \in Runs, NEW p \in Places, Request(c, r, p) PROVE Once'
  BY <1>2 DEF Request, Goes, TypeOK, Once, OneHolder, NotClipped, RunOnce, Live, Early
<1>3. ASSUME NEW c \in Procs, StoreNotStarted(c) \/ VerifyAsset(c) \/ SnapshotAndStore(c) PROVE Once'
  <2>1. PICK to \in {"stored", "verified", "running", "done"} : pc' = [pc EXCEPT ![c] = to]
    BY <1>3 DEF StoreNotStarted, VerifyAsset, SnapshotAndStore, Fail, Goes
  <2>2. \A r \in Runs : r # run[c] => report'[r] = report[r]
    BY <1>3 DEF StoreNotStarted, VerifyAsset, SnapshotAndStore, Store, TypeOK
  <2>3. pc[c] \in Early /\ UNCHANGED <<folder, run, clips>>
    BY <1>3 DEF StoreNotStarted, VerifyAsset, SnapshotAndStore, Early
  <2>. QED
    BY <2>1, <2>2, <2>3, HolderOnce DEF Live, Early
<1>4. ASSUME NEW c \in Procs, Validate(c) \/ Finish(c) PROVE Once'
  <2>1. PICK to \in {"done", "idle"} : pc' = [pc EXCEPT ![c] = to]
    BY <1>4 DEF Validate, Finish, Fail, Goes
  <2>2. \A r \in Runs : r # run[c] => report'[r] = report[r]
    BY <1>4 DEF Validate, Finish, Store, TypeOK
  <2>3. pc[c] \in Live /\ UNCHANGED <<folder, run, clips>>
    BY <1>4 DEF Validate, Finish, Live
  <2>. QED
    BY <2>1, <2>2, <2>3, HolderOnce DEF Live, Early
<1>5. ASSUME NEW c \in Procs, Crash(c) PROVE Once'
  BY <1>5 DEF Crash, Goes, TypeOK, Once, OneHolder, NotClipped, RunOnce, Live, Early
<1>6. Outside /\ report' = report => UNCHANGED <<folder, report, pc, run, clips>>
  BY DEF Outside, EditDataset, RenameDataset, CopyDataset, TouchSidecar, LoseReport, Changed
<1>8. ASSUME NEW r \in Runs, LoseReport(r) PROVE Once'
  BY <1>8 DEF LoseReport, TypeOK, Once, OneHolder, NotClipped, RunOnce
<1>9. Outside => report' = report \/ \E r \in Runs : LoseReport(r)
  BY DEF Outside, EditDataset, RenameDataset, CopyDataset, TouchSidecar, Changed
<1>7. UNCHANGED vars => UNCHANGED <<folder, report, pc, run, clips>>
  BY DEF vars
<1>. QED
  BY <1>1, <1>2, <1>3, <1>4, <1>5, <1>6, <1>7, <1>8, <1>9, MakeFolderOnce, ClipOnce DEF Next, Step

\* A reused run_id never repeats the write, whatever processes and crashes there are.
THEOREM WritesOnce == Spec => []RunOnce
<1>1. Init => TypeOK /\ Once
  BY InitType, InitOnce
<1>2. TypeOK /\ Once /\ [Next]_vars => (TypeOK /\ Once)'
  BY NextType, NextOnce
<1>3. Once => RunOnce
  BY DEF Once
<1>. QED
  BY <1>1, <1>2, <1>3, PTL DEF Spec

-----------------------------------------------------------------------------
(* What is on disk and in memory.                                                 *)

LEMMA AliveLive ==
  ASSUME TypeOK, NEW r \in Runs
  PROVE  Alive(r) <=> \E c \in Procs : run[c] = r /\ pc[c] \in Live
BY DEF Alive, TypeOK, Live

\* What is known of the run of a holder.
LEMMA HolderFacts ==
  ASSUME TypeOK, Once, Facts, NEW c \in Procs, pc[c] \in Live
  PROVE  /\ run[c] \in Runs /\ run[c] \in Places /\ run[c] \in folder /\ Alive(run[c])
         /\ \A d \in Procs : d # c /\ pc[d] \in Live => run[d] # run[c]
         /\ Stored(c) /\ Memory(c)
<1>1. run[c] \in Runs /\ run[c] \in Places
  BY DEF TypeOK, Places
<1>. QED
  BY <1>1, AliveLive DEF Once, OneHolder, Facts, Held, Live

LEMMA InitFacts == Init => Facts
<1>. SUFFICES ASSUME Init PROVE Facts
  OBVIOUS
<1>1. PICK s \in Sides, m \in Raws :
        file = [p \in Places |-> IF p \in Paths THEN [main |-> m, side |-> s] ELSE Gone]
  BY DEF Init
<1>2. \A p \in Places, r \in Runs : file[p] # Gone => file[p].main # r
  BY <1>1, CheckedClipAssumption
<1>3. Own
  BY <1>1, CheckedClipAssumption DEF Own, Places
<1>4. PICK p \in Paths : work = [c \in Procs |-> Blank(p, file[p])]
  BY DEF Init
<1>5. \A c \in Procs : work[c].version = [main |-> m, side |-> s]
  BY <1>1, <1>4 DEF Blank, Places
<1>6. \A c \in Procs, r \in Runs : work[c].version.main # r
  BY <1>5, CheckedClipAssumption
<1>7. Origin
  BY <1>2, <1>6 DEF Init, Origin
<1>8. Held /\ Evidence /\ Abandoned
  BY DEF Init, Held, Evidence, Abandoned, Live
<1>. QED
  BY <1>3, <1>7, <1>8 DEF Facts

LEMMA RequestFacts ==
  ASSUME TypeOK, Once, Facts, NEW c \in Procs, NEW r \in Runs, NEW p \in Places, Request(c, r, p)
  PROVE  Facts'
<1>1. \A q \in Runs : Alive(q)' <=> Alive(q)
  BY DEF Request, Goes, Alive, TypeOK
<1>2. /\ work' = [work EXCEPT ![c] = Blank(p, file[p])] /\ file[p] # Gone
      /\ pc' = [pc EXCEPT ![c] = "looked"] /\ run' = [run EXCEPT ![c] = r]
      /\ UNCHANGED <<file, report, good, clips, taken>>
  BY DEF Request, Goes
<1>3. Own' /\ Evidence' /\ Abandoned'
  BY <1>1, <1>2 DEF Facts, Own, Evidence, Abandoned
<1>4. \A d \in Procs, q \in Runs : work'[d].version.main = q => Exists(q)
  BY <1>2 DEF TypeOK, Facts, Origin, Blank
<1>5. Origin'
  BY <1>1, <1>2, <1>4 DEF Facts, Origin, Exists
<1>6. Memory(c)'
  BY <1>2 DEF TypeOK, Memory, Blank
<1>7. \A d \in Procs : d # c => (Stored(d) => Stored(d)') /\ (Memory(d) => Memory(d)')
  BY <1>2 DEF TypeOK, Stored, Memory
<1>8. Held'
  BY <1>2, <1>6, <1>7 DEF TypeOK, Facts, Held, Live
<1>. QED
  BY <1>3, <1>5, <1>8 DEF Facts

LEMMA MakeFolderFacts ==
  ASSUME TypeOK, Once, Facts, NEW c \in Procs, MakeFolder(c)
  PROVE  Facts'
<1>1. CASE run[c] \in folder
  <2>1. \A q \in Runs : Alive(q)' <=> Alive(q)
    BY <1>1 DEF MakeFolder, FolderTaken, Goes, Alive, TypeOK
  <2>2. pc' = [pc EXCEPT ![c] = "idle"] /\ UNCHANGED <<file, report, run, work, good, clips, taken>>
    BY <1>1 DEF MakeFolder, FolderTaken, Goes
  <2>3. Held'
    BY <2>2 DEF TypeOK, Facts, Held, Stored, Memory, Live
  <2>. QED
    BY <2>1, <2>2, <2>3 DEF Facts, Own, Origin, Exists, Evidence, Abandoned
<1>2. CASE run[c] \notin folder
  <2>1. /\ pc[c] = "looked" /\ pc' = [pc EXCEPT ![c] = "made"] /\ run[c] \in Runs
        /\ UNCHANGED <<file, report, run, work, good, clips, taken>>
    BY <1>2 DEF MakeFolder, FolderTaken, Goes, TypeOK
  <2>2. \A q \in Runs : q # run[c] => (Alive(q)' <=> Alive(q))
    BY <2>1 DEF Alive, TypeOK
  <2>3. clips[run[c]] = 0 /\ report[run[c]] = NoReport /\ ~Exists(run[c])
    BY <1>2, <2>1 DEF Once, NotClipped, Exists
  <2>4. Origin'
    BY <2>1, <2>2, <2>3 DEF Facts, Origin, Exists
  <2>5. Stored(c)' /\ Memory(c)'
    BY <2>1, <2>3 DEF TypeOK, Facts, Held, Stored, Memory
  <2>6. Held'
    BY <2>1, <2>5 DEF TypeOK, Facts, Held, Stored, Memory, Live
  <2>7. Abandoned'
    BY <2>1, <2>2, <2>3 DEF Facts, Origin, Abandoned
  <2>. QED
    BY <2>1, <2>4, <2>6, <2>7 DEF Facts, Own, Evidence
<1>. QED
  BY <1>1, <1>2

\* A step of the holder c that leaves what is on disk, but for the report of its run.
LEMMA HolderFactsKept ==
  ASSUME TypeOK, TypeOK', Once, Facts, NEW c \in Procs, NEW to \in Live, pc[c] \in Live,
         pc' = [pc EXCEPT ![c] = to], UNCHANGED <<file, run, good, clips>>,
         \A d \in Procs : d # c => work'[d] = work[d],
         \A q \in Runs : q # run[c] => report'[q] = report[q] /\ taken'[q] = taken[q],
         work'[c].version = work[c].version,
         taken'[run[c]] \in {taken[run[c]], work[c].version},
         Stored(c)', Memory(c)',
         report'[run[c]] # NoReport => report'[run[c]].main = Gone /\ report'[run[c]].status # "SUCCEEDED"
  PROVE  /\ \A q \in Runs : Alive(q)' <=> Alive(q)
         /\ Own' /\ Origin' /\ Held' /\ Evidence'
<1>1. \A q \in Runs : Alive(q)' <=> Alive(q)
  BY DEF Alive, Live, TypeOK
<1>2. run[c] \in Runs /\ Stored(c) /\ Memory(c)
      /\ \A d \in Procs : d # c /\ pc[d] \in Live => run[d] # run[c]
  BY HolderFacts
<1>3. Origin'
  BY <1>1, <1>2 DEF TypeOK, Facts, Origin, Exists
<1>4. ASSUME NEW d \in Procs, d # c
      PROVE  /\ pc'[d] \in Live => Stored(d)'
             /\ pc'[d] # "idle" => Memory(d)'
  <2>1. pc'[d] = pc[d] /\ run'[d] = run[d] /\ work'[d] = work[d] /\ run[d] \in Runs
    BY <1>4 DEF TypeOK
  <2>2. CASE pc[d] \in Live
    BY <1>2, <1>4, <2>1, <2>2 DEF Facts, Held, Stored, Memory, Live
  <2>3. CASE pc[d] = "looked"
    BY <2>1, <2>3 DEF Facts, Held, Memory, Live
  <2>. QED
    BY <2>1, <2>2, <2>3 DEF TypeOK, Live
<1>5. Held'
  BY <1>4 DEF Held, TypeOK
<1>6. Evidence'
  BY <1>2 DEF Facts, Evidence, Stored
<1>. QED
  BY <1>1, <1>3, <1>5, <1>6 DEF Facts, Own

LEMMA StoreNotStartedFacts ==
  ASSUME TypeOK, TypeOK', Once, Facts, NEW c \in Procs, StoreNotStarted(c)
  PROVE  Facts'
<1>1. /\ pc[c] \in Live /\ pc[c] = "made" /\ pc' = [pc EXCEPT ![c] = "stored"] /\ "stored" \in Live
      /\ report' = [report EXCEPT ![run[c]] = work[c]] /\ work' = [work EXCEPT ![c] = work[c]]
      /\ UNCHANGED <<file, run, good, clips, taken>>
  BY DEF StoreNotStarted, Store, Goes, Live
<1>2. run[c] \in Runs /\ Memory(c) /\ clips[run[c]] = 0
  BY <1>1, HolderFacts DEF Once, NotClipped, Early
<1>3. work' = work /\ report'[run[c]] = work[c] /\ work[c] # NoReport
      /\ work[c].main = Gone /\ work[c].status # "SUCCEEDED"
  BY <1>1, <1>2, NoReportAssumption DEF TypeOK, Memory
<1>4. Stored(c)' /\ Memory(c)'
  BY <1>1, <1>2, <1>3 DEF TypeOK, Stored, Memory
<1>5. /\ \A q \in Runs : Alive(q)' <=> Alive(q)
      /\ Own' /\ Origin' /\ Held' /\ Evidence'
  BY <1>1, <1>2, <1>3, <1>4, HolderFactsKept DEF TypeOK
<1>6. Abandoned'
  BY <1>1, <1>2, <1>3, <1>5 DEF TypeOK, Facts, Abandoned
<1>. QED
  BY <1>5, <1>6 DEF Facts

LEMMA FailFacts ==
  ASSUME TypeOK, TypeOK', Once, Facts, NEW c \in Procs, Fail(c), pc[c] \in Live,
         UNCHANGED <<file, run, report, good, clips, taken>>
  PROVE  Facts'
<1>1. /\ pc' = [pc EXCEPT ![c] = "done"] /\ "done" \in Live
      /\ \A d \in Procs : d # c => work'[d] = work[d]
      /\ work'[c].version = work[c].version /\ work'[c].main = work[c].main
      /\ work'[c].passed = FALSE
  BY DEF Fail, Goes, Live, TypeOK, Reports
<1>2. run[c] \in Runs /\ Memory(c) /\ Stored(c)
  BY HolderFacts
<1>3. Stored(c)' /\ Memory(c)'
  BY <1>1, <1>2 DEF TypeOK, Stored, Memory
<1>4. /\ \A q \in Runs : Alive(q)' <=> Alive(q)
      /\ Own' /\ Origin' /\ Held' /\ Evidence'
  BY <1>1, <1>2, <1>3, HolderFactsKept DEF Stored
<1>. QED
  BY <1>4 DEF Facts, Abandoned

\* The guard of the source: the content of a run that is bad and was not left behind
\* is known, and its run is not eligible.
LEMMA KnownIsGood ==
  ASSUME TypeOK, Once, Facts, NEW c \in Procs, KnownOutputEligible(work[c].version),
         NEW r \in Runs, work[c].version.main = r, r \notin good
  PROVE  ~Alive(r) /\ (report[r] # NoReport => report[r].main = Gone)
<1>1. clips[r] = 1 /\ (Alive(r) => file[r] # Gone)
  BY DEF Facts, Origin, Exists
<1>2. ~(Eligible(r))
  BY DEF Eligible, Facts, Evidence
<1>3. ASSUME Alive(r) PROVE FALSE
  <2>1. PICK d \in Procs : run[d] = r /\ pc[d] \in Live
    BY <1>3, AliveLive
  <2>2. report[r] # NoReport /\ report[r].output /\ report[r].main = Gone
    BY <1>1, <2>1 DEF Facts, Held, Stored
  <2>3. file[r] # Gone /\ file[r].main = r
    BY <1>1, <1>3 DEF Facts, Own
  <2>. QED
    BY <1>2, <2>2, <2>3 DEF KnownOutputEligible, KnownOutput, KnownAs, KnownMain
<1>4. ASSUME report[r] # NoReport, report[r].main # Gone PROVE FALSE
  <2>1. report[r].main = r /\ report[r].output
    BY <1>4 DEF Facts, Evidence
  <2>. QED
    BY <1>2, <1>4, <2>1 DEF KnownOutputEligible, KnownOutput, KnownAs, KnownMain
<1>. QED
  BY <1>3, <1>4

LEMMA VerifyAssetFacts ==
  ASSUME TypeOK, TypeOK', Once, Facts, NEW c \in Procs, VerifyAsset(c)
  PROVE  Facts'
<1>1. pc[c] \in Live /\ pc[c] = "stored"
  BY DEF VerifyAsset, Live
<1>2. run[c] \in Runs /\ Memory(c) /\ Stored(c)
  BY <1>1, HolderFacts
<1>3. CASE Fail(c) /\ UNCHANGED taken
  BY <1>1, <1>3, FailFacts DEF VerifyAsset
<1>4. CASE ~(Fail(c) /\ UNCHANGED taken)
  <2>1. /\ KnownOutputEligible(work[c].version)
        /\ pc' = [pc EXCEPT ![c] = "verified"] /\ "verified" \in Live
        /\ taken' = [taken EXCEPT ![run[c]] = work[c].version]
        /\ UNCHANGED <<file, run, report, work, good, clips>>
    BY <1>4 DEF VerifyAsset, Goes, Live
  <2>2. Stored(c)' /\ Memory(c)'
    BY <1>1, <1>2, <2>1 DEF TypeOK, Stored, Memory
  <2>3. /\ \A q \in Runs : Alive(q)' <=> Alive(q)
        /\ Own' /\ Origin' /\ Held' /\ Evidence'
    BY <1>1, <1>2, <2>1, <2>2, HolderFactsKept DEF TypeOK, Stored
  <2>4. Abandoned'
    BY <1>2, <2>1, <2>3, KnownIsGood DEF TypeOK, Facts, Abandoned
  <2>. QED
    BY <2>3, <2>4 DEF Facts
<1>. QED
  BY <1>3, <1>4

LEMMA SnapshotFacts ==
  ASSUME TypeOK, TypeOK', Once, Facts, NEW c \in Procs, SnapshotAndStore(c)
  PROVE  Facts'
<1>1. pc[c] \in Live /\ pc[c] = "verified"
  BY DEF SnapshotAndStore, Live
<1>2. run[c] \in Runs /\ Memory(c) /\ Stored(c) /\ clips[run[c]] = 0
  BY <1>1, HolderFacts DEF Once, NotClipped, Early
<1>3. CASE Fail(c) /\ UNCHANGED report
  BY <1>1, <1>3, FailFacts DEF SnapshotAndStore
<1>4. CASE ~(Fail(c) /\ UNCHANGED report)
  <2>. DEFINE w == [work[c] EXCEPT !.status = "RUNNING", !.output = TRUE]
  <2>1. /\ pc' = [pc EXCEPT ![c] = "running"] /\ "running" \in Live
        /\ report' = [report EXCEPT ![run[c]] = w] /\ work' = [work EXCEPT ![c] = w]
        /\ UNCHANGED <<file, run, good, clips, taken>>
    BY <1>4 DEF SnapshotAndStore, Store, Goes, Live
  <2>2. w.main = Gone /\ w.print = Gone /\ w.status = "RUNNING" /\ w.output
        /\ w.version = work[c].version /\ w \in Reports
    <3>1. work[c] \in Reports
      BY DEF TypeOK
    <3>2. w \in Reports
      BY <3>1, UpdateType
    <3>. QED
      BY <1>1, <1>2, <3>1, <3>2 DEF Memory, Reports
  <2>. HIDE DEF w
  <2>3. work'[c] = w /\ report'[run[c]] = w /\ w # NoReport
    BY <1>2, <2>1, <2>2, NoReportAssumption DEF TypeOK
  <2>4. Stored(c)' /\ Memory(c)'
    BY <1>1, <1>2, <2>1, <2>2, <2>3 DEF TypeOK, Stored, Memory
  <2>5. /\ \A q \in Runs : Alive(q)' <=> Alive(q)
        /\ Own' /\ Origin' /\ Held' /\ Evidence'
    BY <1>1, <1>2, <2>1, <2>2, <2>3, <2>4, HolderFactsKept DEF TypeOK
  <2>6. Abandoned'
    BY <1>1, <1>2, <2>1, <2>2, <2>3, <2>5 DEF TypeOK, Facts, Abandoned
  <2>. QED
    BY <2>5, <2>6 DEF Facts
<1>. QED
  BY <1>3, <1>4

LEMMA ValidateFacts ==
  ASSUME TypeOK, TypeOK', Once, Facts, NEW c \in Procs, Validate(c)
  PROVE  Facts'
<1>1. pc[c] \in Live /\ pc[c] = "clipped"
  BY DEF Validate, Live
<1>2. run[c] \in Runs /\ Memory(c) /\ Stored(c)
  BY <1>1, HolderFacts
<1>3. CASE Fail(c)
  BY <1>1, <1>3, FailFacts DEF Validate
<1>4. CASE ~Fail(c)
  <2>. DEFINE b == run[c] \in good /\ file[work[c].source] = work[c].version
              w == [work[c] EXCEPT !.passed = b, !.print = file[run[c]]]
  <2>1. /\ pc' = [pc EXCEPT ![c] = "done"] /\ "done" \in Live
        /\ work' = [work EXCEPT ![c] = w]
        /\ UNCHANGED <<file, run, report, good, clips, taken>>
    BY <1>4 DEF Validate, Goes, Live
  <2>2. /\ w.main = Gone /\ w.print = file[run[c]] /\ w.version = work[c].version
        /\ w.passed => run[c] \in good
    <3>1. work[c] \in Reports
      BY DEF TypeOK
    <3>2. w.main = work[c].main /\ w.print = file[run[c]] /\ w.version = work[c].version
      BY <3>1 DEF Reports
    <3>3. w.passed = b
      <4>. HIDE DEF b
      <4>. QED
        BY <3>1 DEF Reports
    <3>. QED
      BY <1>1, <1>2, <3>2, <3>3 DEF Memory
  <2>. HIDE DEF w
  <2>3. work'[c] = w
    BY <2>1 DEF TypeOK
  <2>4. file[run[c]] # Gone /\ file[run[c]].main = run[c] /\ clips[run[c]] = 1 /\ taken[run[c]] = w.version
    BY <1>1, <1>2, <2>2 DEF Facts, Own, Stored, Memory
  <2>5. Stored(c)' /\ Memory(c)'
    BY <1>1, <1>2, <2>1, <2>2, <2>3, <2>4 DEF TypeOK, Stored, Memory
  <2>6. /\ \A q \in Runs : Alive(q)' <=> Alive(q)
        /\ Own' /\ Origin' /\ Held' /\ Evidence'
    BY <1>1, <1>2, <2>1, <2>2, <2>3, <2>5, HolderFactsKept DEF TypeOK, Stored
  <2>. QED
    BY <2>1, <2>6 DEF Facts, Abandoned
<1>. QED
  BY <1>3, <1>4

LEMMA ClipFacts ==
  ASSUME TypeOK, TypeOK', Once, Once', Facts, NEW c \in Procs, Clip(c)
  PROVE  Facts'
<1>. DEFINE r == run[c]
<1>1. /\ pc[c] \in Live /\ pc[c] = "running" /\ clips' = [clips EXCEPT ![r] = clips[r] + 1]
      /\ UNCHANGED <<folder, report, run, taken>>
  BY DEF Clip, Live
<1>2. /\ r \in Runs /\ r \in Places /\ Memory(c) /\ Stored(c) /\ Alive(r) /\ clips[r] = 0
      /\ \A d \in Procs : d # c /\ pc[d] \in Live => run[d] # r
  BY <1>1, HolderFacts DEF Once, NotClipped, Early
<1>3. /\ clips'[r] = 1 /\ \A q \in Runs : q # r => clips'[q] = clips[q]
  BY <1>1, <1>2 DEF TypeOK
<1>4. /\ \A p \in Places : p # r => file'[p] = file[p]
      /\ file'[r] = file[r] \/ (file'[r] # Gone /\ file'[r].main = r)
      /\ good \subseteq good'
  <2>1. \A s \in Sides : [main |-> r, side |-> s] \in Versions /\ [main |-> r, side |-> s] # Gone
    BY <1>2, GoneAssumption DEF Versions
  <2>. QED
    BY <1>2, <2>1 DEF Clip, TypeOK
<1>5. PICK to \in {"clipped", "done"} : pc' = [pc EXCEPT ![c] = to]
  BY DEF Clip, Fail, Goes
<1>6. /\ \A d \in Procs : d # c => work'[d] = work[d]
      /\ work'[c].version = work[c].version /\ work'[c].main = work[c].main
      /\ work'[c].print = work[c].print
      /\ to = "done" => work'[c].passed = FALSE
      /\ to = "clipped" => file'[r] # Gone
  <2>1. work[c] \in Reports /\ pc[c] # "done" /\ pc[c] # "clipped"
    BY <1>1 DEF TypeOK
  <2>2. CASE Fail(c)
    BY <1>5, <2>1, <2>2 DEF Fail, Goes, TypeOK, Reports
  <2>3. CASE ~Fail(c)
    <3>1. \A s \in Sides : [main |-> r, side |-> s] # Gone
      BY <1>2, GoneAssumption DEF Versions
    <3>2. PICK s \in Sides : file' = [file EXCEPT ![r] = [main |-> r, side |-> s]]
      BY <2>3 DEF Clip
    <3>3. work' = [work EXCEPT ![c].status = "SUCCEEDED"] /\ pc' = [pc EXCEPT ![c] = "clipped"]
      BY <2>3 DEF Clip, Goes
    <3>. QED
      BY <1>2, <1>5, <2>1, <3>1, <3>2, <3>3 DEF TypeOK, Reports
  <2>. QED
    BY <2>2, <2>3
<1>. HIDE DEF r
<1>7. r = run[c] /\ r = run'[c] /\ run' = run
  BY <1>1 DEF r
<1>8. \A q \in Runs : Alive(q)' <=> Alive(q)
  BY <1>1, <1>5, <1>7 DEF Alive, TypeOK, Live
<1>9. Own'
  BY <1>2, <1>4 DEF Facts, Own, Places
<1>10. \A q \in Runs : Exists(q) => q # r /\ Exists(q)'
  BY <1>2, <1>3, <1>4, <1>8 DEF Exists, Places
<1>11. Origin'
  <2>1. ASSUME NEW p \in Places, NEW q \in Runs, file'[p] # Gone, file'[p].main = q PROVE Exists(q)'
    <3>1. CASE file'[p] = file[p]
      BY <1>10, <2>1, <3>1 DEF Facts, Origin
    <3>2. CASE file'[p] # file[p]
      BY <1>2, <1>3, <1>4, <2>1, <3>2 DEF Exists
    <3>. QED
      BY <3>1, <3>2
  <2>2. \A d \in Procs : work'[d].version = work[d].version
    BY <1>6
  <2>. QED
    BY <1>1, <1>10, <2>1, <2>2 DEF Facts, Origin
<1>12. Stored(c)' /\ Memory(c)'
  BY <1>1, <1>2, <1>3, <1>5, <1>6, <1>7 DEF TypeOK, Stored, Memory
<1>13. ASSUME NEW d \in Procs, d # c
       PROVE  /\ pc'[d] \in Live => Stored(d)'
              /\ pc'[d] # "idle" => Memory(d)'
  <2>1. pc'[d] = pc[d] /\ work'[d] = work[d] /\ run[d] \in Runs
    BY <1>5, <1>6, <1>13 DEF TypeOK
  <2>2. CASE pc[d] \in Live
    <3>1. run[d] # r /\ run[d] \in Places
      BY <1>2, <1>13, <2>1, <2>2 DEF Places
    <3>2. /\ file'[run[d]] = file[run[d]] /\ clips'[run[d]] = clips[run[d]]
          /\ report' = report /\ taken' = taken
      BY <1>1, <1>3, <1>4, <2>1, <3>1
    <3>. QED
      BY <1>4, <1>7, <2>1, <2>2, <3>2 DEF Facts, Held, Stored, Memory, Live
  <2>3. CASE pc[d] = "looked"
    BY <1>7, <2>1, <2>3 DEF Facts, Held, Memory, Live
  <2>. QED
    BY <2>1, <2>2, <2>3 DEF TypeOK, Live
<1>14. Held'
  BY <1>12, <1>13 DEF Held
<1>15. Evidence'
  <2>1. \A q \in Runs : clips[q] = 1 => clips'[q] = 1
    BY <1>2, <1>3
  <2>. QED
    BY <1>1, <1>4, <2>1 DEF Facts, Evidence
<1>16. Abandoned'
  BY <1>1, <1>4, <1>8 DEF Facts, Abandoned
<1>. QED
  BY <1>9, <1>11, <1>14, <1>15, <1>16 DEF Facts

LEMMA FinishFacts ==
  ASSUME TypeOK, TypeOK', Once, Facts, NEW c \in Procs, Finish(c)
  PROVE  Facts'
<1>1. pc[c] \in Live /\ pc[c] = "done"
  BY DEF Finish, Live
<1>2. /\ run[c] \in Runs /\ run[c] \in Places /\ Memory(c) /\ Stored(c) /\ Alive(run[c])
      /\ \A d \in Procs : d # c /\ pc[d] \in Live => run[d] # run[c]
  BY <1>1, HolderFacts
<1>3. PICK w \in Reports :
        /\ report' = [report EXCEPT ![run[c]] = w] /\ work' = [work EXCEPT ![c] = w]
        /\ w.main # Gone => w.main = run[c] /\ w.output
        /\ w.status = work[c].status /\ w.passed = work[c].passed /\ w.print = work[c].print
        /\ w.version = work[c].version
  <2>1. work[c] \in Reports /\ file[run[c]] \in Versions \cup {Gone}
    BY <1>2 DEF TypeOK
  <2>2. CASE work[c].output /\ file[run[c]] # Gone
    <3>. DEFINE w == [work[c] EXCEPT !.main = file[run[c]].main]
    <3>1. file[run[c]].main = run[c]
      BY <1>2, <2>2 DEF Facts, Own
    <3>2. w \in Reports /\ w.main = run[c] /\ w.output = work[c].output
          /\ w.status = work[c].status /\ w.passed = work[c].passed /\ w.print = work[c].print
          /\ w.version = work[c].version
      BY <1>2, <2>1, <3>1 DEF Reports
    <3>3. report' = [report EXCEPT ![run[c]] = w] /\ work' = [work EXCEPT ![c] = w]
      BY <2>2 DEF Finish, Store
    <3>. QED
      BY <2>2, <3>2, <3>3
  <2>3. CASE ~(work[c].output /\ file[run[c]] # Gone)
    <3>1. report' = [report EXCEPT ![run[c]] = work[c]] /\ work' = [work EXCEPT ![c] = work[c]]
      BY <2>3 DEF Finish, Store
    <3>. QED
      BY <1>2, <2>1, <3>1 DEF Memory
  <2>. QED
    BY <2>2, <2>3
<1>4. pc' = [pc EXCEPT ![c] = "idle"] /\ UNCHANGED <<file, run, good, clips, taken>>
  BY DEF Finish, Goes
<1>5. ~Alive(run[c])' /\ \A q \in Runs : q # run[c] => (Alive(q)' <=> Alive(q))
  BY <1>1, <1>2, <1>4 DEF Alive, TypeOK, Live
<1>6. Origin'
  BY <1>3, <1>4, <1>5 DEF TypeOK, Facts, Origin, Exists
<1>7. ASSUME NEW d \in Procs
      PROVE  /\ pc'[d] \in Live => Stored(d)'
             /\ pc'[d] # "idle" => Memory(d)'
  <2>1. CASE d = c
    BY <1>4, <2>1 DEF TypeOK, Live
  <2>2. CASE d # c /\ pc[d] \in Live
    <3>1. run[d] # run[c] /\ run[d] \in Runs
      BY <1>2, <2>2 DEF TypeOK
    <3>. QED
      BY <1>3, <1>4, <2>2, <3>1 DEF TypeOK, Facts, Held, Stored, Memory, Live
  <2>3. CASE d # c /\ pc[d] = "looked"
    BY <1>3, <1>4, <2>3 DEF TypeOK, Facts, Held, Memory, Live
  <2>4. CASE d # c /\ pc[d] = "idle"
    BY <1>4, <2>4 DEF TypeOK, Live
  <2>. QED
    BY <2>1, <2>2, <2>3, <2>4 DEF TypeOK, Live
<1>8. Held'
  BY <1>7 DEF Held
<1>9. ASSUME NEW q \in Runs, report'[q] # NoReport
      PROVE  /\ report'[q].main # Gone => report'[q].main = q /\ report'[q].output
             /\ report'[q].status = "SUCCEEDED" /\ report'[q].passed =>
                  q \in good /\ clips[q] = 1 /\ taken[q] = report'[q].version
             /\ report'[q].status = "SUCCEEDED" /\ report'[q].passed /\ report'[q].print # Gone =>
                  report'[q].print.main = q
  <2>1. CASE q # run[c]
    BY <1>3, <1>9, <2>1 DEF TypeOK, Facts, Evidence
  <2>2. CASE q = run[c]
    <3>1. report'[q] = w
      BY <1>2, <1>3, <2>2 DEF TypeOK
    <3>. QED
      BY <1>1, <1>2, <1>3, <2>2, <3>1 DEF Memory
  <2>. QED
    BY <2>1, <2>2
<1>10. Evidence'
  BY <1>4, <1>9 DEF Evidence
<1>11. Abandoned'
  BY <1>2, <1>3, <1>4, <1>5 DEF TypeOK, Facts, Abandoned
<1>. QED
  BY <1>4, <1>6, <1>8, <1>10, <1>11 DEF Facts, Own

LEMMA CrashFacts ==
  ASSUME TypeOK, TypeOK', Once, Facts, NEW c \in Procs, Crash(c)
  PROVE  Facts'
<1>1. pc' = [pc EXCEPT ![c] = "idle"] /\ UNCHANGED <<file, report, run, work, good, clips, taken>>
  BY DEF Crash, Goes
<1>2. \A q \in Runs : Alive(q)' => Alive(q)
  BY <1>1 DEF Alive, TypeOK
<1>3. Origin' /\ Abandoned'
  BY <1>1, <1>2 DEF Facts, Origin, Exists, Abandoned
<1>4. Held'
  BY <1>1 DEF TypeOK, Facts, Held, Stored, Memory, Live
<1>. QED
  BY <1>1, <1>3, <1>4 DEF Facts, Own, Evidence

\* A run that nobody is at may lose its evidence: less is said of it then.
LEMMA LoseReportFacts ==
  ASSUME TypeOK, TypeOK', Once, Facts, NEW r \in Runs, LoseReport(r)
  PROVE  Facts'
<1>1. /\ report' = [report EXCEPT ![r] = NoReport] /\ ~Alive(r)
      /\ UNCHANGED <<file, pc, run, work, good, clips, taken>>
  BY DEF LoseReport
<1>2. \A q \in Runs : report'[q] = NoReport \/ report'[q] = report[q]
  BY <1>1 DEF TypeOK
<1>3. \A q \in Runs : Alive(q)' <=> Alive(q)
  BY <1>1 DEF Alive
<1>4. Own' /\ Origin' /\ Evidence' /\ Abandoned'
  BY <1>1, <1>2, <1>3 DEF Facts, Own, Origin, Exists, Evidence, Abandoned
<1>5. ASSUME NEW c \in Procs, pc[c] \in Live
      PROVE  Stored(c)'
  <2>1. Alive(run[c]) /\ run[c] \in Runs /\ Stored(c)
    BY <1>5, HolderFacts
  <2>2. report'[run[c]] = report[run[c]]
    BY <1>1, <2>1 DEF TypeOK
  <2>. QED
    BY <1>1, <2>1, <2>2 DEF Stored
<1>6. Held'
  BY <1>1, <1>5 DEF Facts, Held, Memory
<1>. QED
  BY <1>4, <1>6 DEF Facts

\* Others move the content of a run only from where it exists, and never take away
\* what is at the place of a run that is held.
LEMMA OutsideFacts ==
  ASSUME TypeOK, TypeOK', Once, Facts, Outside, \A r \in Runs : ~LoseReport(r)
  PROVE  Facts'
<1>1. UNCHANGED <<folder, report, pc, run, work, good, clips, taken>>
  BY DEF Outside, EditDataset, RenameDataset, CopyDataset, TouchSidecar, Changed
<1>2. Paths \cap Runs = {} /\ Raws \cap Runs = {} /\ Gone \notin Versions
  BY CheckedClipAssumption, GoneAssumption
<1>3. \A q \in Runs : (file'[q] = Gone \/ file'[q].main = q) /\ (Alive(q) /\ file[q] # Gone => file'[q] # Gone)
  <2>1. ASSUME NEW p \in Paths, NEW m \in Raws, NEW s \in Sides, EditDataset(p, m, s)
        PROVE  \A q \in Runs : file'[q] = file[q]
    BY <1>2, <2>1 DEF EditDataset, Changed, TypeOK, Places
  <2>2. ASSUME NEW from \in Places, NEW to \in Paths, from \in Runs => ~Alive(from), RenameDataset(from, to)
        PROVE  \A q \in Runs : file'[q] = file[q] \/ (q = from /\ file'[q] = Gone)
    BY <1>2, <2>2 DEF RenameDataset, Changed, TypeOK, Places
  <2>3. ASSUME NEW from \in Places, NEW to \in Paths, NEW s \in Sides, CopyDataset(from, to, s)
        PROVE  \A q \in Runs : file'[q] = file[q]
    BY <1>2, <2>3 DEF CopyDataset, Changed, TypeOK, Places
  <2>4. ASSUME NEW r \in Runs, NEW s \in Sides, ~Alive(r), TouchSidecar(r, s)
        PROVE  \A q \in Runs : file'[q] = file[q] \/ (q = r /\ file'[q].main = file[q].main /\ file[q] # Gone)
    <3>1. file[r] \in Versions
      BY <2>4, FileType DEF TouchSidecar, Places
    <3>. QED
      BY <2>4, <3>1 DEF TouchSidecar, Changed, TypeOK, Places, Versions
  <2>. QED
    BY <2>1, <2>2, <2>3, <2>4 DEF Outside, Facts, Own
<1>4. \A p \in Places : file'[p] # Gone =>
        file'[p].main \in Raws \/ \E o \in Places : file[o] # Gone /\ file[o].main = file'[p].main
  <2>1. ASSUME NEW p \in Paths, NEW m \in Raws, NEW s \in Sides, EditDataset(p, m, s)
        PROVE  \A o \in Places : file'[o] = file[o] \/ file'[o].main \in Raws
    BY <2>1 DEF EditDataset, Changed, TypeOK, Places
  <2>2. ASSUME NEW from \in Places, NEW to \in Paths, RenameDataset(from, to)
        PROVE  /\ file[from] # Gone
               /\ \A o \in Places : file'[o] \in {file[o], Gone, file[from]}
    BY <2>2 DEF RenameDataset, Changed, TypeOK, Places
  <2>3. ASSUME NEW from \in Places, NEW to \in Paths, NEW s \in Sides, CopyDataset(from, to, s)
        PROVE  /\ file[from] # Gone
               /\ \A o \in Places : file'[o] = file[o] \/ file'[o].main = file[from].main
    BY <2>3 DEF CopyDataset, Changed, TypeOK, Places
  <2>4. ASSUME NEW r \in Runs, NEW s \in Sides, TouchSidecar(r, s)
        PROVE  /\ file[r] # Gone /\ r \in Places
               /\ \A o \in Places : file'[o] = file[o] \/ file'[o].main = file[r].main
    <3>1. file[r] \in Versions /\ r \in Places
      BY <2>4, FileType DEF TouchSidecar, Places
    <3>. QED
      BY <2>4, <3>1 DEF TouchSidecar, Changed, TypeOK, Versions
  <2>. QED
    BY <2>1, <2>2, <2>3, <2>4 DEF Outside, Places
<1>5. \A q \in Runs : Alive(q)' <=> Alive(q)
  BY <1>1 DEF Alive
<1>6. Own'
  BY <1>3 DEF Own
<1>7. \A q \in Runs : Exists(q) => Exists(q)'
  BY <1>1, <1>3, <1>5 DEF Exists
<1>8. Origin'
  BY <1>1, <1>2, <1>4, <1>7 DEF Facts, Origin
<1>9. ASSUME NEW c \in Procs, pc[c] \in Live
      PROVE  Stored(c)'
  <2>1. Alive(run[c]) /\ run[c] \in Runs /\ Stored(c)
    BY <1>9, HolderFacts
  <2>. QED
    BY <1>1, <1>3, <2>1 DEF Stored
<1>10. Held'
  BY <1>1, <1>9 DEF Facts, Held, Memory, Live
<1>11. Evidence' /\ Abandoned'
  BY <1>1, <1>5 DEF Facts, Evidence, Abandoned
<1>. QED
  BY <1>6, <1>8, <1>10, <1>11 DEF Facts

LEMMA NextFacts == TypeOK /\ TypeOK' /\ Once /\ Once' /\ Facts /\ [Next]_vars => Facts'
<1>. SUFFICES ASSUME TypeOK, TypeOK', Once, Once', Facts, [Next]_vars PROVE Facts'
  OBVIOUS
<1>1. CASE UNCHANGED vars
  BY <1>1 DEF vars, Facts, Own, Origin, Exists, Alive, Held, Stored, Memory, Evidence, Abandoned
<1>2. CASE Outside
  BY <1>2, OutsideFacts, LoseReportFacts
<1>3. ASSUME NEW c \in Procs, Step(c) PROVE Facts'
  BY <1>3, RequestFacts, MakeFolderFacts, StoreNotStartedFacts, VerifyAssetFacts, SnapshotFacts,
     ClipFacts, ValidateFacts, FinishFacts, CrashFacts DEF Step
<1>. QED
  BY <1>1, <1>2, <1>3 DEF Next

\* The inductive invariant.
THEOREM Invariance == Spec => [](TypeOK /\ Once /\ Facts)
<1>1. Init => TypeOK /\ Once /\ Facts
  BY InitType, InitOnce, InitFacts
<1>2. TypeOK /\ Once /\ Facts /\ [Next]_vars => (TypeOK /\ Once /\ Facts)'
  BY NextType, NextOnce, NextFacts
<1>. QED
  BY <1>1, <1>2, PTL DEF Spec

\* A result that result_status calls eligible has what the checks ask for and was made
\* from what is at its source now.
THEOREM Eligibility == Spec => []EligibleIsTrue
<1>1. TypeOK /\ Once /\ Facts => EligibleIsTrue
  <2>. SUFFICES ASSUME TypeOK, Once, Facts, NEW r \in Runs, Eligible(r)
       PROVE  /\ r \in good /\ clips[r] = 1
              /\ file[r] # Gone /\ file[r].main = r
              /\ taken[r] = file[report[r].source]
    BY DEF EligibleIsTrue
  <2>. QED
    BY DEF Facts, Evidence, Own, Eligible, SameVersions
<1>. QED
  BY <1>1, Invariance, PTL

\* The result of a finished run that does not have what its checks ask for is never
\* the source of a run.
THEOREM Quarantine == Spec => []FinishedQuarantineHolds
<1>1. TypeOK /\ Once /\ Facts => FinishedQuarantineHolds
  BY DEF FinishedQuarantineHolds, Facts, Abandoned
<1>. QED
  BY <1>1, Invariance, PTL
=============================================================================

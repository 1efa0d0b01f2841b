------------------------------ MODULE CheckedClip ------------------------------
(* The checked raster clip of file mode (raster_checked.py): a run id names one    *)
(* clip, its plan and its evidence on disk; a result may be the input of another   *)
(* run only while its evidence makes it eligible.                                  *)
(*                                                                                 *)
(* Several server processes may share the output root; _LOCK orders the runs of    *)
(* one process only.  A process may end at any step.  Other programs change, copy, *)
(* rename and remove datasets and their sidecar files.                             *)
EXTENDS Naturals

CONSTANTS
    Procs,          \* server processes
    Runs,           \* run ids; also the path and the content of a run's result.tif
    Paths,          \* paths of the users' own datasets
    Raws,           \* contents that no run has made
    Sides,          \* contents of the sidecar files of a dataset
    Gone,           \* no dataset, no hash
    NoReport,       \* no report.json
    MaxChanges      \* bound: changes by other programs

ASSUME CheckedClipAssumption ==
    /\ Runs \cap (Raws \cup Paths) = {} /\ MaxChanges \in Nat
    /\ Gone \notin Raws \cup Runs /\ Sides # {} /\ Raws # {}

\* The main file of a dataset and its sidecars; the fingerprint covers both.
Versions == [main : Raws \cup Runs, side : Sides]
ASSUME GoneAssumption == Gone \notin Versions
Places == Paths \cup Runs

\* output: output_raster is set; passed: every check of the report passed;
\* print, main: output_fingerprint and output_main_sha256.
Reports == [source : Places, version : Versions,
            status : {"NOT_STARTED", "RUNNING", "FAILED", "SUCCEEDED"},
            output : BOOLEAN, passed : BOOLEAN,
            print : Versions \cup {Gone}, main : Raws \cup Runs \cup {Gone}]
ASSUME NoReportAssumption == NoReport \notin Reports

VARIABLES
    file,       \* what is at each path
    folder,     \* the runs whose directory exists
    report,     \* the report.json of each run
    pc,         \* what each process does
    run,        \* the run it is at,
    work,       \* and the report it holds in memory
    good,       \* history: the runs whose Clip made what the checks ask for
    clips,      \* history: how often Clip ran for each run
    taken,      \* history: the dataset that each run has accepted as its source
    changes     \* counter of the bound

vars == <<file, folder, report, pc, run, work, good, clips, taken, changes>>

TypeOK ==
    /\ file \in [Places -> Versions \cup {Gone}]
    /\ folder \subseteq Runs
    /\ report \in [Runs -> Reports \cup {NoReport}]
    /\ pc \in [Procs -> {"idle", "looked", "made", "stored", "verified", "running", "clipped", "done"}]
    /\ run \in [Procs -> Runs]
    /\ work \in [Procs -> Reports]
    /\ good \subseteq Runs
    /\ clips \in [Runs -> Nat]
    /\ taken \in [Runs -> Versions \cup {Gone}]
    /\ changes \in 0..MaxChanges

\* A plan, not run yet: the source by path and version (mutant: by its main file).
BlankOfMain(p, v) == [source |-> p, version |-> v.main, status |-> "NOT_STARTED", output |-> FALSE,
                      passed |-> TRUE, print |-> Gone, main |-> Gone]
Blank(p, v) == [source |-> p, version |-> v, status |-> "NOT_STARTED", output |-> FALSE,
                passed |-> TRUE, print |-> Gone, main |-> Gone]

Init ==
    /\ \E s \in Sides, m \in Raws :
         file = [p \in Places |-> IF p \in Paths THEN [main |-> m, side |-> s] ELSE Gone]
    /\ folder = {} /\ report = [r \in Runs |-> NoReport]
    /\ pc = [c \in Procs |-> "idle"]
    /\ run \in [Procs -> Runs]
    /\ \E p \in Paths : work = [c \in Procs |-> Blank(p, file[p])]
    /\ good = {} /\ clips = [r \in Runs |-> 0] /\ taken = [r \in Runs |-> Gone]
    /\ changes = 0

-----------------------------------------------------------------------------
(* Evidence.                                                                      *)

\* result_status: the output and every asset are as they were (mutant: the assets are
\* not looked at again).
SameOutput(r) == file[r] = report[r].print
SameVersions(r) == file[r] = report[r].print /\ file[report[r].source] = report[r].version

\* eligible_for_downstream: executed, all checks passed, nothing changed.
Eligible(r) ==
    /\ report[r] # NoReport
    /\ report[r].status = "SUCCEEDED" /\ report[r].passed
    /\ report[r].print # Gone /\ SameVersions(r)

\* The main file by which a result is known again (mutant: its fingerprint, which
\* another sidecar changes).
KnownMain(r) ==
    IF report[r].main # Gone THEN report[r].main
    ELSE IF file[r] # Gone THEN file[r].main ELSE Gone
KnownAs(r, v) == KnownMain(r) = v.main
KnownByPrint(r, v) == report[r].print = v
KnownOutput(r, v) == KnownAs(r, v)

\* _require_known_output_eligible: a dataset that is known as a result must be an
\* eligible one, wherever it lies now.  A report that cannot be read is passed over,
\* and its run quarantines nothing.
KnownOutputEligible(v) ==
    \A r \in Runs : report[r] # NoReport /\ report[r].output /\ KnownOutput(r, v) => Eligible(r)

-----------------------------------------------------------------------------
(* run_clip_checked.                                                              *)

Goes(c, to) == pc' = [pc EXCEPT ![c] = to]

\* A report of the run answers the call: a conflict of plans, or the status.
FindsReport(c, r) == report[r] # NoReport

\* The plan names the source by path and version, as asset_info has shown it.
Request(c, r, p) ==
    /\ pc[c] = "idle" /\ file[p] # Gone
    /\ ~FindsReport(c, r)
    /\ Goes(c, "looked")
    /\ run' = [run EXCEPT ![c] = r]
    /\ work' = [work EXCEPT ![c] = Blank(p, file[p])]
    /\ UNCHANGED <<file, folder, report, good, clips, taken, changes>>

\* mkdir with exist_ok=False is what decides between two processes (mutant: a folder
\* that exists is taken).
FolderIgnored(r) == FALSE
FolderTaken(r) == r \in folder

MakeFolder(c) ==
    /\ pc[c] = "looked"
    /\ IF FolderTaken(run[c]) THEN Goes(c, "idle") /\ UNCHANGED folder
                              ELSE Goes(c, "made") /\ folder' = folder \cup {run[c]}
    /\ UNCHANGED <<file, report, run, work, good, clips, taken, changes>>

Store(c, w) == report' = [report EXCEPT ![run[c]] = w] /\ work' = [work EXCEPT ![c] = w]

StoreNotStarted(c) ==
    /\ pc[c] = "made"
    /\ Store(c, work[c])
    /\ Goes(c, "stored")
    /\ UNCHANGED <<file, folder, run, good, clips, taken, changes>>

\* The except branch: the report is kept, with a failed check.
Fail(c) ==
    /\ work' = [work EXCEPT ![c].passed = FALSE,
                            ![c].status = IF @ = "RUNNING" THEN "FAILED" ELSE @]
    /\ Goes(c, "done")

\* The source is as the plan says, and no ineligible result; CRS, grid, window and disk
\* space may still refuse it.
VerifyAsset(c) ==
    /\ pc[c] = "stored"
    /\ \/ /\ file[work[c].source] = work[c].version
          /\ KnownOutputEligible(work[c].version)
          /\ Goes(c, "verified")
          /\ taken' = [taken EXCEPT ![run[c]] = work[c].version]
          /\ UNCHANGED work
       \/ Fail(c) /\ UNCHANGED taken
    /\ UNCHANGED <<file, folder, report, run, good, clips, changes>>

\* The snapshot has the version of the plan, or the run fails; then RUNNING is stored.
SnapshotAndStore(c) ==
    /\ pc[c] = "verified"
    /\ \/ /\ file[work[c].source] = work[c].version /\ file[run[c]] = Gone
          /\ Store(c, [work[c] EXCEPT !.status = "RUNNING", !.output = TRUE])
          /\ Goes(c, "running")
       \/ Fail(c) /\ UNCHANGED report
    /\ UNCHANGED <<file, folder, run, good, clips, taken, changes>>

\* The tool works on the snapshot.  It may raise, with or without a result.
Clip(c) ==
    LET r == run[c]
    IN /\ pc[c] = "running"
       /\ clips' = [clips EXCEPT ![r] = @ + 1]
       /\ \/ /\ \E s \in Sides : file' = [file EXCEPT ![r] = [main |-> r, side |-> s]]
             /\ good' \in {good, good \cup {r}}
             /\ work' = [work EXCEPT ![c].status = "SUCCEEDED"]
             /\ Goes(c, "clipped")
          \/ /\ \/ UNCHANGED file
                \/ \E s \in Sides : file' = [file EXCEPT ![r] = [main |-> r, side |-> s]]
             /\ UNCHANGED good
             /\ Fail(c)
       /\ UNCHANGED <<folder, report, run, taken, changes>>

\* _validate_output compares the result with the snapshot, cell by cell; the versions
\* of the inputs are looked at once more, and the result is fingerprinted.
Validate(c) ==
    LET r == run[c]
    IN /\ pc[c] = "clipped"
       /\ \/ /\ work' = [work EXCEPT ![c].passed = r \in good /\ file[work[c].source] = work[c].version,
                                     ![c].print = file[r]]
             /\ Goes(c, "done")
          \/ Fail(c)
       /\ UNCHANGED <<file, folder, report, run, good, clips, taken, changes>>

\* The main file is hashed, whatever the run came to, and the report is stored.
Finish(c) ==
    LET w == work[c]
    IN /\ pc[c] = "done"
       /\ Store(c, IF w.output /\ file[run[c]] # Gone THEN [w EXCEPT !.main = file[run[c]].main] ELSE w)
       /\ Goes(c, "idle")
       /\ UNCHANGED <<file, folder, run, good, clips, taken, changes>>

-----------------------------------------------------------------------------
(* The world outside.                                                             *)

\* The process ends: what it holds in memory is lost, a new one starts.
Crash(c) ==
    /\ pc[c] # "idle"
    /\ Goes(c, "idle")
    /\ UNCHANGED <<file, folder, report, run, work, good, clips, taken, changes>>

\* Nobody else writes into the folder of a run while a process is at it.
Alive(r) == \E c \in Procs : run[c] = r /\ pc[c] \notin {"idle", "looked"}

Changed(f) == file' = f /\ changes < MaxChanges /\ changes' = changes + 1
              /\ UNCHANGED <<folder, report, pc, run, work, good, clips, taken>>

EditDataset(p, m, s) == Changed([file EXCEPT ![p] = [main |-> m, side |-> s]])

\* A copy may leave the sidecars behind or find others; the primary may be renamed.
CopyDataset(from, to, s) ==
    /\ file[from] # Gone
    /\ Changed([file EXCEPT ![to] = [main |-> file[from].main, side |-> s]])

RenameDataset(from, to) ==
    /\ file[from] # Gone
    /\ Changed([file EXCEPT ![to] = file[from], ![from] = Gone])

TouchSidecar(r, s) == file[r] # Gone /\ Changed([file EXCEPT ![r].side = s])

\* The report of a run that nobody is at is removed, or changed so that it is not
\* trusted or not read (private_state); to this code it is then no report at all.
LoseReport(r) ==
    /\ report[r] # NoReport /\ ~Alive(r)
    /\ changes < MaxChanges /\ changes' = changes + 1
    /\ report' = [report EXCEPT ![r] = NoReport]
    /\ UNCHANGED <<file, folder, pc, run, work, good, clips, taken>>

Outside ==
    \/ \E p \in Paths, m \in Raws, s \in Sides : EditDataset(p, m, s)
    \/ \E from \in Places, to \in Paths : (from \in Runs => ~Alive(from)) /\ RenameDataset(from, to)
    \/ \E from \in Places, to \in Paths, s \in Sides : CopyDataset(from, to, s)
    \/ \E r \in Runs, s \in Sides : ~Alive(r) /\ TouchSidecar(r, s)
    \/ \E r \in Runs : LoseReport(r)

Step(c) ==
    \/ \E r \in Runs, p \in Places : Request(c, r, p)
    \/ MakeFolder(c) \/ StoreNotStarted(c) \/ VerifyAsset(c) \/ SnapshotAndStore(c)
    \/ Clip(c) \/ Validate(c) \/ Finish(c) \/ Crash(c)

Next == (\E c \in Procs : Step(c)) \/ Outside

Spec == Init /\ [][Next]_vars

-----------------------------------------------------------------------------
(* Properties.                                                                    *)

\* A reused run_id never repeats the write: over all processes, crashes and retries
\* Clip runs at most once for a run.
RunOnce == \A r \in Runs : clips[r] <= 1

\* A result of a finished run whose report can be read, and that does not have what
\* its checks ask for, never becomes the source of another run, however it is copied,
\* renamed or given other sidecars, and whatever other processes do meanwhile.
FinishedQuarantineHolds ==
    \A q \in Runs : \A r \in Runs :
        /\ taken[q] # Gone /\ taken[q].main = r
        /\ report[r] # NoReport /\ report[r].main # Gone
        => r \in good

\* What result_status calls eligible is the result that Clip made for this run, has
\* what the checks ask for, and was made from the dataset that is at its source now.
EligibleIsTrue ==
    \A r \in Runs : Eligible(r) =>
        /\ r \in good /\ clips[r] = 1
        /\ file[r] # Gone /\ file[r].main = r
        /\ taken[r] = file[report[r].source]

\* The docstring of _require_known_output_eligible: "Renaming/copying a known
\* quarantined output cannot turn it into a raw input."
QuarantineHolds ==
    \A q \in Runs : \A r \in Runs : taken[q] # Gone /\ taken[q].main = r => r \in good
=============================================================================

----------------------------- MODULE SdkBridge -----------------------------
(***************************************************************************)
(* The SDK add-in bridge: project leases (Bridge/ProjectLeaseManager.cs),  *)
(* the routes that need them (Bridge/AuthenticatedLoopbackBridge.cs), GP   *)
(* jobs (Jobs/GpJobController.cs) and the project-changed callback         *)
(* (BridgeRuntime.cs).                                                     *)
(*                                                                         *)
(* A client is one connection at a time: a task that runs until its next   *)
(* await or lock.  Every action is one critical section or the code        *)
(* between two awaits.  A lease is named by the generation it was created  *)
(* in, which is unique, as its random identifier is.                       *)
(***************************************************************************)
EXTENDS Naturals, Sequences, FiniteSets, SequencesExt

CONSTANTS
  Clients,        \* the connections the bridge serves at the same time
  Projects,       \* the projects that can be open
  NoProject,      \* no saved project is open
  Jobs,           \* the GP job identifiers, reused once trimmed
  Routes,         \* the routes the clients call
  NoClient,       \* the mutation gate is free
  NoJob,          \* the client is not starting a job
  MaxRetained,    \* MaximumRetainedJobs
  MaxLapsed,      \* bound: the leases whose expiry passes
  MaxGeneration   \* bound: no acquisition from this generation on, no switch after it

AllRoutes == {"acquire", "renew", "release", "read", "plain", "make", "use", "cancel",
              "feature", "command", "view"}

ASSUME SdkBridgeAssumption ==
  /\ Routes \subseteq AllRoutes
  /\ NoProject \notin Projects /\ NoClient \notin Clients /\ NoJob \notin Jobs
  /\ MaxRetained \in Nat \ {0} /\ MaxGeneration \in Nat /\ MaxLapsed \in Nat

VARIABLES
  project,     \* the project that is open
  upc,         \* the UI thread: where OnProjectChanged is
  closed,      \* history: the generation the last Invalidate left
  generation,  \* _generation
  lease,       \* _lease: its generation, 0 for null
  leased,      \* the project of _lease
  lapsed,      \* the leases whose expiry has passed
  issued,      \* the leases some client was given
  gate,        \* the holder of _mutationGate
  pc,          \* where each client's request is
  route,       \* its route
  header,      \* the lease it presents, 0 for none
  seen,        \* the generation or lease it has observed
  uri,         \* the project URI it has captured
  job,         \* the job it starts
  editedIn,    \* the project its edit or command was executed in
  retained,    \* _jobs, in the order of creation
  status,      \* the status of every job
  jpc,         \* where RunAsync is
  owner,       \* the lease of every job
  makes,       \* the jobs that make a network analysis layer
  asked,       \* the jobs whose cancellation was requested
  analysis     \* _networkAnalyses: the lease of the registered analysis, 0 for none

leaseVars  == <<generation, lease, leased, issued>>
clientVars == <<pc, route, header, seen, uri, job, editedIn>>
jobVars    == <<retained, status, jpc, owner, makes, asked>>
vars == <<project, upc, closed, leaseVars, lapsed, gate, clientVars, jobVars, analysis>>

Resting  == {"idle", "ok"}
ClientPc == Resting \cup
  {"gate", "observe", "capture", "install", "lookup", "uri", "recheck", "jobcheck", "release",
   "start", "add", "confirm", "launch", "cancel", "precheck", "edit", "post", "clear", "cancelAll"}
Terminal == {"succeeded", "failed", "canceled", "canceledBeforeStart",
             "succeededAfterCancellationRequest", "succeededAfterLeaseInvalidation"}
Statuses == Terminal \cup {"none", "queued", "running", "cancelRequested"}
JobPc    == {"none", "tool", "judge", "register", "reportCurrent", "reportStale"}

TypeOK ==
  /\ project \in Projects \cup {NoProject}
  /\ upc \in {"idle", "event", "clear", "cancelAll"}
  /\ closed \in Nat /\ generation \in Nat /\ lease \in Nat
  /\ leased \in Projects \cup {NoProject}
  /\ lapsed \subseteq Nat /\ issued \subseteq Nat
  /\ gate \in Clients \cup {NoClient}
  /\ pc \in [Clients -> ClientPc]
  /\ route \in [Clients -> AllRoutes]
  /\ header \in [Clients -> Nat] /\ seen \in [Clients -> Nat]
  /\ uri \in [Clients -> Projects \cup {NoProject}]
  /\ job \in [Clients -> Jobs \cup {NoJob}]
  /\ editedIn \in [Clients -> Projects \cup {NoProject}]
  /\ retained \in Seq(Jobs)
  /\ status \in [Jobs -> Statuses]
  /\ jpc \in [Jobs -> JobPc]
  /\ owner \in [Jobs -> Nat]
  /\ makes \subseteq Jobs /\ asked \subseteq Jobs
  /\ analysis \in Nat

Init ==
  /\ project \in Projects \cup {NoProject}
  /\ upc = "idle" /\ closed = 0
  /\ generation = 0 /\ lease = 0 /\ leased = NoProject /\ lapsed = {} /\ issued = {}
  /\ gate = NoClient
  /\ pc = [c \in Clients |-> "idle"]
  /\ route = [c \in Clients |-> "read"]
  /\ header = [c \in Clients |-> 0] /\ seen = [c \in Clients |-> 0]
  /\ uri = [c \in Clients |-> NoProject]
  /\ job = [c \in Clients |-> NoJob]
  /\ editedIn = [c \in Clients |-> NoProject]
  /\ retained = <<>>
  /\ status = [j \in Jobs |-> "none"]
  /\ jpc = [j \in Jobs |-> "none"]
  /\ owner = [j \in Jobs |-> 0]
  /\ makes = {} /\ asked = {}
  /\ analysis = 0

-----------------------------------------------------------------------------
(* ProjectLeaseManager.                                                    *)

\* IsCurrent, for the lease of generation g.
IsCurrent(g) == g # 0 /\ lease = g /\ g \notin lapsed

\* The lease ends: _generation++ and _lease = null.
EndLease ==
  /\ generation' = generation + 1
  /\ lease' = 0
  /\ leased' = NoProject
  /\ UNCHANGED issued

-----------------------------------------------------------------------------
(* GpJobController: the state of the jobs.                                 *)

Live(j) == j \in ToSet(retained) /\ status[j] \notin Terminal
OnlyRunningJobs == \E j \in Jobs : status[j] = "running"       \* mutant of HasRunningJob

HasRunningJob == \E j \in Jobs : Live(j)

\* Mutants of RequestCancel: any retained job, and a misspelt status.
CancelFinished(S) ==
  LET open == S \cap ToSet(retained)
  IN  /\ status' = [j \in Jobs |-> IF j \in open THEN "cancelRequested" ELSE status[j]]
      /\ asked' = asked \cup open

CancelMisspelt(S) ==
  LET open == {j \in S : Live(j)}
  IN  /\ status' = [j \in Jobs |-> IF j \in open THEN "cancelling" ELSE status[j]]
      /\ asked' = asked \cup open

\* RequestCancel for every job of S; a terminal job refuses.  The token is
\* cancelled right after the state lock is left.
RequestCancel(S) ==
  LET open == {j \in S : Live(j)}
  IN  /\ status' = [j \in Jobs |-> IF j \in open THEN "cancelRequested" ELSE status[j]]
      /\ asked' = asked \cup open

\* TrimCompletedJobs, then the new job: the oldest jobs go first.  HasRunningJob
\* was false, so that all of them are terminal.
Trimmed == SubSeq(retained, Len(retained) - MaxRetained + 2, Len(retained))
Retained == IF Len(retained) < MaxRetained THEN retained ELSE Trimmed

-----------------------------------------------------------------------------
(* A request of client c.                                                  *)

Goto(c, where) == pc' = [pc EXCEPT ![c] = where]

\* The request moves on and leaves everything else alone.
Move(c, where) ==
  /\ Goto(c, where)
  /\ UNCHANGED <<project, upc, closed, leaseVars, lapsed, gate, route, header, seen, uri, job,
                 editedIn, jobVars, analysis>>

\* The answer: the finally clause frees the gate, the locals are gone.
Answer(c, what) ==
  /\ Goto(c, what)
  /\ gate' = IF gate = c THEN NoClient ELSE gate
  /\ route' = [route EXCEPT ![c] = "read"]
  /\ header' = [header EXCEPT ![c] = 0]
  /\ seen' = [seen EXCEPT ![c] = 0]
  /\ uri' = [uri EXCEPT ![c] = NoProject]
  /\ job' = [job EXCEPT ![c] = NoJob]
  /\ editedIn' = [editedIn EXCEPT ![c] = NoProject]

\* An answer that changes nothing else.
Refuse(c, what) ==
  Answer(c, what) /\ UNCHANGED <<project, upc, closed, leaseVars, lapsed, jobVars, analysis>>

WindowFrame == UNCHANGED <<project, upc, closed, lapsed>>

\* A request arrives on a free connection.
Begin(c) ==
  /\ pc[c] \in Resting
  /\ \E r \in Routes, g \in issued \cup {0} :
       /\ (g = 0) <=> (r = "acquire")
       /\ r = "acquire" => generation < MaxGeneration
       /\ route' = [route EXCEPT ![c] = r]
       /\ header' = [header EXCEPT ![c] = g]
       /\ Goto(c, IF r \in {"acquire", "renew", "release"} THEN "gate" ELSE "lookup")
  /\ WindowFrame
  /\ UNCHANGED <<leaseVars, gate, seen, uri, job, editedIn, jobVars, analysis>>

\* WithMutationGateAsync: enter, or give up after two seconds.
EnterGate(c) ==
  /\ pc[c] = "gate"
  /\ gate = NoClient
  /\ gate' = c
  /\ Goto(c, CASE route[c] = "acquire" -> "observe"
               [] route[c] = "release" -> "release"
               [] OTHER -> "lookup")
  /\ WindowFrame
  /\ UNCHANGED <<leaseVars, route, header, seen, uri, job, editedIn, jobVars, analysis>>

GateBusy(c) ==
  /\ pc[c] = "gate"
  /\ gate # NoClient
  /\ Refuse(c, "idle")

\* AcquireAsync: ReadGeneration, the project on the main CIM thread, the lock.
Observe(c) ==
  /\ pc[c] = "observe"
  /\ Goto(c, "capture")
  /\ seen' = [seen EXCEPT ![c] = generation]
  /\ WindowFrame
  /\ UNCHANGED <<leaseVars, gate, route, header, uri, job, editedIn, jobVars, analysis>>

\* The client expects the project that was open a moment ago, or it is refused.
Capture(c) ==
  /\ pc[c] = "capture"
  /\ \/ /\ project # NoProject
        /\ uri' = [uri EXCEPT ![c] = project]
        /\ Goto(c, "install")
        /\ WindowFrame
        /\ UNCHANGED <<leaseVars, gate, route, header, seen, job, editedIn, jobVars, analysis>>
     \/ Refuse(c, "idle")

\* Mutant of Install: the generation observed before the capture is not compared.
InstallUnseen(c) ==
  /\ pc[c] = "install"
  /\ IF lease # 0 /\ lease \notin lapsed
     THEN Refuse(c, "idle")
     ELSE /\ generation' = generation + 1
          /\ lease' = generation + 1
          /\ leased' = uri[c]
          /\ seen' = [seen EXCEPT ![c] = generation + 1]
          /\ Goto(c, "clear")
          /\ WindowFrame
          /\ UNCHANGED <<issued, gate, route, header, uri, job, editedIn, jobVars, analysis>>

Install(c) ==
  /\ pc[c] = "install"
  /\ IF generation # seen[c] \/ (lease # 0 /\ lease \notin lapsed)
     THEN Refuse(c, "idle")
     ELSE /\ generation' = generation + 1
          /\ lease' = generation + 1
          /\ leased' = uri[c]
          /\ seen' = [seen EXCEPT ![c] = generation + 1]
          /\ Goto(c, "clear")
          /\ WindowFrame
          /\ UNCHANGED <<issued, gate, route, header, uri, job, editedIn, jobVars, analysis>>

\* Mutant of Release: the jobs are left alone.
ReleaseOnly(c) ==
  /\ pc[c] = "release"
  /\ IF lease # header[c]
     THEN Refuse(c, "idle")
     ELSE /\ EndLease
          /\ Answer(c, "ok")
          /\ WindowFrame
          /\ UNCHANGED <<jobVars, analysis>>

\* The release route: Release checks the lease under the lock.  Its lease_expired
\* is not caught there: nothing is cancelled.
Release(c) ==
  /\ pc[c] = "release"
  /\ IF lease # header[c]
     THEN Refuse(c, "idle")
     ELSE /\ EndLease
          /\ WindowFrame
          /\ IF lease \in lapsed
             THEN /\ Answer(c, "idle")
                  /\ UNCHANGED <<jobVars, analysis>>
             ELSE /\ Goto(c, "clear")
                  /\ UNCHANGED <<gate, route, header, seen, uri, job, editedIn, jobVars, analysis>>

\* RequireLeaseAsync: the first lock of ValidateAsync.
Lookup(c) ==
  /\ pc[c] = "lookup"
  /\ \/ /\ lease # header[c]
        /\ Refuse(c, "idle")
     \/ /\ lease = header[c] /\ lease \in lapsed
        /\ EndLease
        /\ Goto(c, "clear")
        /\ WindowFrame
        /\ UNCHANGED <<gate, route, header, seen, uri, job, editedIn, jobVars, analysis>>
     \/ /\ lease = header[c] /\ lease \notin lapsed
        /\ seen' = [seen EXCEPT ![c] = lease]
        /\ Goto(c, "uri")
        /\ WindowFrame
        /\ UNCHANGED <<leaseVars, gate, route, header, uri, job, editedIn, jobVars, analysis>>

CaptureUri(c) ==
  /\ pc[c] = "uri"
  /\ uri' = [uri EXCEPT ![c] = project]
  /\ Goto(c, "recheck")
  /\ WindowFrame
  /\ UNCHANGED <<leaseVars, gate, route, header, seen, job, editedIn, jobVars, analysis>>

\* Where a route continues once its lease is valid, outside and inside the gate.
BeforeGate(r) ==
  CASE r = "read" -> "ok"
    [] r \in {"feature", "command"} -> "jobcheck"
    [] OTHER -> "gate"

InGate(r) ==
  CASE r \in {"plain", "make", "use"} -> "start"
    [] r = "cancel" -> "cancel"
    [] r = "command" -> "precheck"
    [] r \in {"feature", "view"} -> "edit"
    [] OTHER -> "ok"

\* The second lock of ValidateAsync.  A renewal only extends the expiry.
Recheck(c) ==
  /\ pc[c] = "recheck"
  /\ \/ /\ lease # header[c]
        /\ Refuse(c, "idle")
     \/ /\ lease = header[c] /\ (lease \in lapsed \/ leased # uri[c])
        /\ EndLease
        /\ Goto(c, "clear")
        /\ WindowFrame
        /\ UNCHANGED <<gate, route, header, seen, uri, job, editedIn, jobVars, analysis>>
     \/ /\ lease = header[c] /\ lease \notin lapsed /\ leased = uri[c]
        /\ LET next == IF gate = c THEN InGate(route[c]) ELSE BeforeGate(route[c])
           IN  IF next = "ok" THEN Refuse(c, "ok")
               ELSE /\ Goto(c, next)
                    /\ uri' = [uri EXCEPT ![c] = NoProject]
                    /\ WindowFrame
                    /\ UNCHANGED <<leaseVars, gate, route, header, seen, job, editedIn, jobVars,
                                   analysis>>

\* HasRunningJob, tested before the gate is entered.
JobCheck(c) ==
  /\ pc[c] = "jobcheck"
  /\ IF HasRunningJob THEN Refuse(c, "idle") ELSE Move(c, "gate")

\* Start: the registered analysis and the running job are tested ...
Start(c) ==
  /\ pc[c] = "start"
  /\ IF (route[c] = "use" /\ analysis # seen[c]) \/ HasRunningJob
     THEN Refuse(c, "idle")
     ELSE Move(c, "add")

\* ... and then the dictionary is trimmed and takes the new job.
AddJob(c) ==
  /\ pc[c] = "add"
  /\ \E j \in Jobs \ ToSet(Retained) :
       /\ retained' = Append(Retained, j)
       /\ status' = [i \in Jobs |-> IF i = j THEN "queued"
                                    ELSE IF i \in ToSet(Retained) THEN status[i] ELSE "none"]
       /\ owner' = [i \in Jobs |-> IF i = j THEN seen[c]
                                   ELSE IF i \in ToSet(Retained) THEN owner[i] ELSE 0]
       /\ makes' = (makes \cap ToSet(Retained)) \cup (IF route[c] = "make" THEN {j} ELSE {})
       /\ asked' = asked \cap ToSet(Retained)
       /\ job' = [job EXCEPT ![c] = j]
       /\ Goto(c, "confirm")
  /\ WindowFrame
  /\ UNCHANGED <<leaseVars, gate, route, header, seen, uri, editedIn, jpc, analysis>>

\* Mutant of Confirm: the lease is not tested again.
ConfirmAlways(c) == pc[c] = "confirm" /\ Move(c, "launch")

\* leaseIsCurrent, once the job is in the dictionary that CancelAll walks.
Confirm(c) ==
  /\ pc[c] = "confirm"
  /\ IF IsCurrent(seen[c])
     THEN Move(c, "launch")
     ELSE /\ status' = [status EXCEPT ![job[c]] = "canceledBeforeStart"]
          /\ Answer(c, "ok")
          /\ WindowFrame
          /\ UNCHANGED <<leaseVars, retained, jpc, owner, makes, asked, analysis>>

\* RunAsync up to its first await: SetRunning, the tool is handed to the GP thread.
Launch(c) ==
  /\ pc[c] = "launch"
  /\ status' = [status EXCEPT ![job[c]] = IF @ = "queued" THEN "running" ELSE @]
  /\ jpc' = [jpc EXCEPT ![job[c]] = "tool"]
  /\ Answer(c, "ok")
  /\ WindowFrame
  /\ UNCHANGED <<leaseVars, retained, owner, makes, asked, analysis>>

\* Cancel of one job, found or not, finished or not.
CancelJob(c) ==
  /\ pc[c] = "cancel"
  /\ \E j \in Jobs : RequestCancel({j})
  /\ Answer(c, "ok")
  /\ WindowFrame
  /\ UNCHANGED <<leaseVars, retained, jpc, owner, makes, analysis>>

\* The editing routes test the lease once more before they start.
Precheck(c) ==
  /\ pc[c] = "precheck"
  /\ IF IsCurrent(seen[c]) THEN Move(c, "edit") ELSE Refuse(c, "idle")

\* The edit or view command on the main CIM thread; its own compare-and-set may refuse it.
Edit(c) ==
  /\ pc[c] = "edit"
  /\ \/ Refuse(c, "idle")
     \/ /\ project # NoProject
        /\ editedIn' = [editedIn EXCEPT ![c] = project]
        /\ Goto(c, "post")
        /\ WindowFrame
        /\ UNCHANGED <<leaseVars, gate, route, header, seen, uri, job, jobVars, analysis>>

PostUnchecked(c) == pc[c] = "post" /\ Refuse(c, "ok")      \* mutant of Post

\* "May have completed, but its project lease changed", or success.
Post(c) ==
  /\ pc[c] = "post"
  /\ Refuse(c, IF IsCurrent(seen[c]) THEN "ok" ELSE "idle")

\* CancelAll: the registry, then the jobs.
ClearAnalyses(c) ==
  /\ pc[c] = "clear"
  /\ analysis' = 0
  /\ Goto(c, "cancelAll")
  /\ WindowFrame
  /\ UNCHANGED <<leaseVars, gate, route, header, seen, uri, job, editedIn, jobVars>>

CancelAll(c) ==
  /\ pc[c] = "cancelAll"
  /\ RequestCancel(Jobs)
  /\ issued' = IF route[c] = "acquire" THEN issued \cup {seen[c]} ELSE issued
  /\ Answer(c, IF route[c] \in {"acquire", "release"} THEN "ok" ELSE "idle")
  /\ WindowFrame
  /\ UNCHANGED <<generation, lease, leased, retained, jpc, owner, makes, analysis>>

-----------------------------------------------------------------------------
(* RunAsync of job j, after its first await.                               *)

JobFrame ==
  /\ WindowFrame
  /\ UNCHANGED <<leaseVars, gate, clientVars, retained, owner, makes, asked>>

\* The tool returns: canceled (by the token or in the window), failed or done.
ToolReturns(j) ==
  /\ jpc[j] = "tool"
  /\ \/ /\ jpc' = [jpc EXCEPT ![j] = "judge"]
        /\ UNCHANGED status
     \/ /\ jpc' = [jpc EXCEPT ![j] = "none"]
        /\ \E s \in {"canceled", "failed"} : status' = [status EXCEPT ![j] = s]
  /\ UNCHANGED analysis /\ JobFrame

\* leaseIsCurrent is read once, for the registration and for the status.
Judge(j) ==
  /\ jpc[j] = "judge"
  /\ jpc' = [jpc EXCEPT ![j] = IF ~IsCurrent(owner[j]) THEN "reportStale"
                               ELSE IF j \in makes THEN "register" ELSE "reportCurrent"]
  /\ UNCHANGED <<status, analysis>> /\ JobFrame

Register(j) ==
  /\ jpc[j] = "register"
  /\ analysis' = IF j \in asked THEN analysis ELSE owner[j]
  /\ jpc' = [jpc EXCEPT ![j] = "reportCurrent"]
  /\ UNCHANGED status /\ JobFrame

\* SetSucceeded.
Report(j) ==
  /\ jpc[j] \in {"reportCurrent", "reportStale"}
  /\ status' = [status EXCEPT ![j] =
       IF j \in asked THEN "succeededAfterCancellationRequest"
       ELSE IF jpc[j] = "reportCurrent" THEN "succeeded" ELSE "succeededAfterLeaseInvalidation"]
  /\ jpc' = [jpc EXCEPT ![j] = "none"]
  /\ UNCHANGED analysis /\ JobFrame

-----------------------------------------------------------------------------
(* The window: another project, and OnProjectChanged on the UI thread.     *)

\* The project changes; its event is still to come.
SwitchProject ==
  /\ upc = "idle"
  /\ generation <= MaxGeneration
  /\ \E p \in (Projects \cup {NoProject}) \ {project} : project' = p
  /\ upc' = "event"
  /\ UNCHANGED <<closed, leaseVars, lapsed, gate, clientVars, jobVars, analysis>>

Invalidate ==
  /\ upc = "event"
  /\ EndLease
  /\ closed' = generation + 1
  /\ upc' = "clear"
  /\ UNCHANGED <<project, lapsed, gate, clientVars, jobVars, analysis>>

OnProjectChangedClear ==
  /\ upc = "clear"
  /\ analysis' = 0
  /\ upc' = "cancelAll"
  /\ UNCHANGED <<project, closed, leaseVars, lapsed, gate, clientVars, jobVars>>

OnProjectChangedCancel ==
  /\ upc = "cancelAll"
  /\ RequestCancel(Jobs)
  /\ upc' = "idle"
  /\ UNCHANGED <<project, closed, leaseVars, lapsed, gate, clientVars, retained, jpc, owner,
                 makes, analysis>>

\* The expiry of the current lease passes; nobody is told.
Lapse ==
  /\ lease # 0 /\ lease \notin lapsed
  /\ Cardinality(lapsed) < MaxLapsed
  /\ lapsed' = lapsed \cup {lease}
  /\ UNCHANGED <<project, upc, closed, leaseVars, gate, clientVars, jobVars, analysis>>

-----------------------------------------------------------------------------
ClientStep(c) ==
  \/ EnterGate(c) \/ GateBusy(c) \/ Observe(c) \/ Capture(c) \/ Install(c) \/ Release(c)
  \/ Lookup(c) \/ CaptureUri(c) \/ Recheck(c) \/ JobCheck(c)
  \/ Start(c) \/ AddJob(c) \/ Confirm(c) \/ Launch(c) \/ CancelJob(c)
  \/ Precheck(c) \/ Edit(c) \/ Post(c) \/ ClearAnalyses(c) \/ CancelAll(c)

JobStep(j) == ToolReturns(j) \/ Judge(j) \/ Register(j) \/ Report(j)

EventStep == Invalidate \/ OnProjectChangedClear \/ OnProjectChangedCancel

Next ==
  \/ \E c \in Clients : Begin(c) \/ ClientStep(c)
  \/ \E j \in Jobs : JobStep(j)
  \/ EventStep
  \/ SwitchProject
  \/ Lapse

Spec == Init /\ [][Next]_vars

-----------------------------------------------------------------------------
(* Properties.                                                             *)

\* The job is past the lease test of Start: the tool was, or will be, started.
Committed(j) ==
  Live(j) /\ \A c \in Clients : pc[c] = "confirm" => job[c] # j

\* At most one job is not finished, however submissions, cancels and answers
\* interleave, and no unfinished job was trimmed: its RunAsync still finds itself.
OneRunningJob ==
  /\ \A i, j \in Jobs : Live(i) /\ Live(j) => i = j
  /\ \A j \in Jobs : jpc[j] # "none" => Live(j)

\* No job blocks the bridge for ever: of a job that is not finished, for which every
\* other submission and edit is refused, the RunAsync is under way, or the request that
\* added it is about to start it or to give it up, and holds the gate.
LiveJobHasRunner ==
  \A j \in Jobs : Live(j) =>
    \/ jpc[j] # "none"
    \/ \E c \in Clients : pc[c] \in {"confirm", "launch"} /\ job[c] = j /\ gate = c

\* Once the project-changed callback is through, no job of an earlier lease runs
\* uncancelled: a submission that raced it has seen the lease gone, or its job
\* was in the dictionary in time to be cancelled.
ProjectChangeCancels ==
  upc \in {"idle", "event"} =>
    \A j \in Jobs : Committed(j) /\ owner[j] <= closed => j \in asked

Cancelling == upc \in {"clear", "cancelAll"} \/ \E c \in Clients : pc[c] \in {"clear", "cancelAll"}

\* No job outlives its lease uncancelled, unless that lease had expired: a release,
\* a replacement and a project mismatch all end in CancelAll.
WorkEndsWithLease ==
  ~Cancelling =>
    \A j \in Jobs : Committed(j) /\ owner[j] # lease => j \in asked \/ owner[j] \in lapsed

\* A finished job keeps its status until it is trimmed: a cancel that comes late is refused.
TerminalIsFinal ==
  [][\A j \in Jobs : status[j] \in Terminal => status'[j] \in {status[j], "none", "queued"}]_vars

\* "ok" is only answered to an edit made in the project of a lease that is still
\* current, unless the event of a project switch has not arrived yet.
EditInLeasedProject ==
  [][\A c \in Clients :
       pc[c] = "post" /\ pc'[c] = "ok" => editedIn[c] = leased \/ upc = "event"]_vars

\* A lease names the project that is open, once the event of a switch is handled:
\* an acquisition or a check that raced the switch is refused or undone.
LeaseNamesOpenProject == lease # 0 /\ upc # "event" => leased = project

\* README: releasing a lease, replacing an expired one or detecting an invalidation
\* requests cancellation of the registered work.
LeaseEndCancels ==
  ~Cancelling => \A j \in Jobs : Committed(j) /\ owner[j] # lease => j \in asked

\* The error text of the route: edits are disabled while a GP job is running.
NoEditDuringJob ==
  [][\A c \in Clients :
       pc[c] = "edit" /\ pc'[c] = "post" /\ route[c] = "feature" => ~HasRunningJob]_vars
=============================================================================

-------------------------- MODULE SdkBridgeProofs --------------------------
(* For any number of connections, jobs, projects and leases: SdkBridge is  *)
(* type correct, runs one job at a time, asks the jobs of a lease that     *)
(* ended or of a project that was left to stop, reports edits only for the *)
(* leased project, and keeps the outcome of a finished job; EventRing, the *)
(* other half of the add-in, passes no event over silently (at the end).   *)
(*                                                                         *)
(* The argument: the gate lets one request at a time test for a running    *)
(* job, add one, test the lease again and start it; the lease is always    *)
(* the last generation, and later than the last project event; so a job    *)
(* that passed its lease test belongs to the current lease, or a           *)
(* cancellation came after it was live.                                    *)
EXTENDS SdkBridge, EventRing, FiniteSetTheorems, TLAPS

\* The routes between the entry of the gate and the answer hold it.
Inside == {"observe", "capture", "install", "release", "start", "add", "confirm", "launch",
           "cancel", "precheck", "edit", "post"}
Outside == Resting \cup {"gate", "jobcheck"}

GateHeld ==
  \A c \in Clients : /\ pc[c] \in Inside => gate = c
                     /\ pc[c] \in Outside => gate # c

-----------------------------------------------------------------------------
(* Types.                                                                  *)

ClientTypes ==
  /\ gate \in Clients \cup {NoClient}
  /\ pc \in [Clients -> ClientPc]
  /\ route \in [Clients -> AllRoutes]
  /\ header \in [Clients -> Nat] /\ seen \in [Clients -> Nat]
  /\ uri \in [Clients -> Projects \cup {NoProject}]
  /\ job \in [Clients -> Jobs \cup {NoJob}]
  /\ editedIn \in [Clients -> Projects \cup {NoProject}]

WindowTypes ==
  /\ project \in Projects \cup {NoProject}
  /\ upc \in {"idle", "event", "clear", "cancelAll"}
  /\ closed \in Nat /\ lapsed \subseteq Nat

LeaseTypes ==
  /\ generation \in Nat /\ lease \in Nat
  /\ leased \in Projects \cup {NoProject}
  /\ issued \subseteq Nat
  /\ analysis \in Nat

JobTypes ==
  /\ retained \in Seq(Jobs)
  /\ status \in [Jobs -> Statuses]
  /\ jpc \in [Jobs -> JobPc]
  /\ owner \in [Jobs -> Nat]
  /\ makes \subseteq Jobs /\ asked \subseteq Jobs

\* TypeOK by the kinds of its variables, before and after a step.
LEMMA TypeParts == TypeOK <=> ClientTypes /\ WindowTypes /\ LeaseTypes /\ JobTypes
BY DEF TypeOK, ClientTypes, WindowTypes, LeaseTypes, JobTypes

LEMMA TypesNext == ClientTypes' /\ WindowTypes' /\ LeaseTypes' /\ JobTypes' => TypeOK'
BY DEF TypeOK, ClientTypes, WindowTypes, LeaseTypes, JobTypes

\* The end of a lease counts the generation up.
LEMMA EndLeaseTypes ==
  ASSUME TypeOK, EndLease, UNCHANGED analysis
  PROVE  LeaseTypes'
<1>1. generation + 1 \in Nat
  BY DEF TypeOK
<1>. QED BY <1>1 DEF TypeOK, LeaseTypes, EndLease

\* An answer returns the gate and forgets the request's captures.
LEMMA AnswerTypes ==
  ASSUME ClientTypes, NEW c \in Clients, NEW what \in ClientPc, Answer(c, what)
  PROVE  ClientTypes'
<1>1. "read" \in AllRoutes /\ 0 \in Nat
  BY DEF AllRoutes
<1>. QED BY <1>1 DEF ClientTypes, Answer, Goto

\* A cancellation puts a status on jobs that has the right kind.
LEMMA CancelTypes ==
  ASSUME JobTypes, NEW S, RequestCancel(S), UNCHANGED <<retained, jpc, owner, makes>>
  PROVE  JobTypes'
<1>. DEFINE open == {j \in S : Live(j)}
<1>1. open \subseteq Jobs
  BY DEF JobTypes, Live, ToSet
<1>2. "cancelRequested" \in Statuses
  BY DEF Statuses
<1>3. status' = [j \in Jobs |-> IF j \in open THEN "cancelRequested" ELSE status[j]]
  BY DEF RequestCancel
<1>4. asked' = asked \cup open
  BY DEF RequestCancel
<1>5. status' \in [Jobs -> Statuses]
  BY <1>2, <1>3 DEF JobTypes
<1>. QED BY <1>1, <1>4, <1>5 DEF JobTypes

\* The dictionary after the trimming is part of what it was.
LEMMA TrimKeeps ==
  ASSUME retained \in Seq(Jobs)
  PROVE  Retained \in Seq(Jobs) /\ ToSet(Retained) \subseteq ToSet(retained)
<1>. USE SdkBridgeAssumption
<1>1. CASE Len(retained) < MaxRetained
  BY <1>1 DEF Retained
<1>2. CASE ~(Len(retained) < MaxRetained)
  <2>. DEFINE m == Len(retained) - MaxRetained + 2
  <2>1. Retained = SubSeq(retained, m, Len(retained))
    BY <1>2 DEF Retained, Trimmed
  <2>2. m \in Nat /\ m >= 2 /\ Len(retained) \in Nat
    BY <1>2
  <2>. HIDE DEF m
  <2>3. \A i \in m .. Len(retained) : retained[i] \in Jobs
    BY <2>2
  <2>4. /\ Retained \in Seq(Jobs)
        /\ DOMAIN Retained = 1 .. (IF m <= Len(retained) THEN Len(retained) - m + 1 ELSE 0)
        /\ \A i \in DOMAIN Retained : Retained[i] = retained[m + i - 1]
    BY <2>1, <2>2, <2>3
  <2>5. \A i \in DOMAIN Retained : m + i - 1 \in DOMAIN retained
    BY <2>2, <2>4
  <2>. QED BY <2>4, <2>5 DEF ToSet
<1>. QED BY <1>1, <1>2

\* Refusals and moves of a request change its place only.
LEMMA RefuseTypes ==
  ASSUME TypeOK, NEW c \in Clients, NEW what \in ClientPc, Refuse(c, what)
  PROVE  TypeOK'
<1>1. ClientTypes'
  BY AnswerTypes, TypeParts DEF Refuse
<1>2. WindowTypes' /\ LeaseTypes' /\ JobTypes'
  BY TypeParts DEF Refuse, WindowTypes, LeaseTypes, JobTypes, leaseVars, jobVars
<1>. QED BY <1>1, <1>2, TypesNext

LEMMA MoveTypes ==
  ASSUME TypeOK, NEW c \in Clients, NEW where \in ClientPc, Move(c, where)
  PROVE  TypeOK'
BY DEF TypeOK, Move, Goto, leaseVars, jobVars

\* A request begins with one of the routes and a lease it was given.
LEMMA BeginTypes ==
  ASSUME TypeOK, NEW c \in Clients, Begin(c)
  PROVE  TypeOK'
<1>1. PICK r \in Routes, g \in issued \cup {0} :
        /\ route' = [route EXCEPT ![c] = r]
        /\ header' = [header EXCEPT ![c] = g]
        /\ pc' = [pc EXCEPT ![c] = IF r \in {"acquire", "renew", "release"} THEN "gate" ELSE "lookup"]
  BY DEF Begin, Goto
<1>2. r \in AllRoutes /\ g \in Nat
  BY SdkBridgeAssumption DEF TypeOK
<1>3. {"gate", "lookup"} \subseteq ClientPc
  BY DEF ClientPc
<1>4. pc' \in [Clients -> ClientPc] /\ route' \in [Clients -> AllRoutes] /\ header' \in [Clients -> Nat]
  BY <1>1, <1>2, <1>3 DEF TypeOK
<1>. QED BY <1>4 DEF TypeOK, Begin, WindowFrame, leaseVars, jobVars

\* A step of a client before its lease is valid.
LEMMA LeaseStepTypes ==
  ASSUME TypeOK, NEW c \in Clients,
         EnterGate(c) \/ GateBusy(c) \/ Observe(c) \/ Capture(c) \/ Install(c) \/ Release(c)
           \/ Lookup(c) \/ CaptureUri(c)
  PROVE  TypeOK'
<1>. DEFINE steps == {"lookup", "capture", "install", "clear", "uri", "recheck", "observe", "release", "idle"}
<1>1. \A w \in steps : w \in ClientPc
  BY DEF ClientPc, Resting
<1>2. CASE Refuse(c, "idle")
  BY <1>1, <1>2, RefuseTypes
<1>. HIDE DEF steps
<1>3. CASE EnterGate(c)
  BY <1>1, <1>3 DEF steps, EnterGate, Goto, TypeOK, WindowFrame, leaseVars, jobVars
<1>4. CASE GateBusy(c)
  BY <1>2, <1>4 DEF GateBusy
<1>5. CASE Observe(c)
  BY <1>1, <1>5 DEF steps, Observe, Goto, TypeOK, WindowFrame, leaseVars, jobVars
<1>6. CASE Capture(c) /\ ~Refuse(c, "idle")
  BY <1>1, <1>6 DEF steps, Capture, Goto, TypeOK, WindowFrame, leaseVars, jobVars
<1>7. CASE Install(c) /\ ~Refuse(c, "idle")
  <2>1. generation + 1 \in Nat /\ uri[c] \in Projects \cup {NoProject}
    BY DEF TypeOK
  <2>2. /\ generation' = generation + 1 /\ lease' = generation + 1 /\ leased' = uri[c]
        /\ seen' = [seen EXCEPT ![c] = generation + 1] /\ pc' = [pc EXCEPT ![c] = "clear"]
        /\ UNCHANGED <<project, upc, closed, lapsed, issued, gate, route, header, uri, job, editedIn,
                       jobVars, analysis>>
    BY <1>7 DEF Install, Goto, WindowFrame
  <2>3. seen' \in [Clients -> Nat] /\ pc' \in [Clients -> ClientPc]
    BY <1>1, <2>1, <2>2 DEF steps, TypeOK
  <2>. QED BY <2>1, <2>2, <2>3 DEF TypeOK, jobVars
<1>8. CASE Release(c) /\ ~Refuse(c, "idle")
  <2>1. CASE Answer(c, "idle")
    <3>1. ClientTypes'
      BY <1>1, <2>1, AnswerTypes, TypeParts DEF steps
    <3>2. WindowTypes' /\ JobTypes'
      BY <1>8, TypeParts DEF Release, WindowFrame, WindowTypes, JobTypes, jobVars
    <3>3. LeaseTypes'
      BY <1>8, EndLeaseTypes DEF Release
    <3>. QED BY <3>1, <3>2, <3>3, TypesNext
  <2>2. CASE ~Answer(c, "idle")
    <3>1. ClientTypes' /\ WindowTypes' /\ JobTypes'
      BY <1>1, <1>8, <2>2, TypeParts DEF steps, Release, Goto, ClientTypes, WindowTypes, JobTypes,
         WindowFrame, jobVars
    <3>2. LeaseTypes'
      BY <1>8, <2>2, EndLeaseTypes DEF Release
    <3>. QED BY <3>1, <3>2, TypesNext
  <2>. QED BY <2>1, <2>2
<1>9. CASE Lookup(c) /\ ~Refuse(c, "idle")
  <2>1. CASE EndLease
    <3>1. pc' \in [Clients -> ClientPc] /\ seen' \in [Clients -> Nat]
      BY <1>1, <1>9 DEF steps, Lookup, Goto, TypeOK
    <3>2. ClientTypes' /\ WindowTypes' /\ JobTypes'
      BY <1>9, <3>1, TypeParts DEF Lookup, ClientTypes, WindowTypes, JobTypes, WindowFrame, jobVars
    <3>3. LeaseTypes'
      BY <1>9, <2>1, EndLeaseTypes DEF Lookup
    <3>. QED BY <3>2, <3>3, TypesNext
  <2>2. CASE ~EndLease
    BY <1>1, <1>9, <2>2 DEF steps, Lookup, Goto, TypeOK, WindowFrame, leaseVars, jobVars
  <2>. QED BY <2>1, <2>2
<1>10. CASE CaptureUri(c)
  BY <1>1, <1>10 DEF steps, CaptureUri, Goto, TypeOK, WindowFrame, leaseVars, jobVars
<1>. QED BY <1>2, <1>3, <1>4, <1>5, <1>6, <1>7, <1>8, <1>9, <1>10

\* Where a route goes on once its lease is valid, outside the gate and inside.
LEMMA RoutesGo ==
  ASSUME NEW r \in AllRoutes
  PROVE  /\ BeforeGate(r) \in {"ok", "jobcheck", "gate"}
         /\ InGate(r) \in {"start", "cancel", "precheck", "edit", "ok"}
BY DEF AllRoutes, BeforeGate, InGate

\* A step of a client under its lease.
LEMMA WorkStepTypes ==
  ASSUME TypeOK, NEW c \in Clients,
         Recheck(c) \/ JobCheck(c) \/ Start(c) \/ Precheck(c) \/ Edit(c) \/ Post(c) \/ CancelJob(c)
           \/ ClearAnalyses(c) \/ CancelAll(c)
  PROVE  TypeOK'
<1>. DEFINE steps == {"ok", "idle", "clear", "gate", "add", "edit", "post", "jobcheck", "start",
                      "cancel", "precheck", "cancelAll"}
<1>1. \A w \in steps : w \in ClientPc
  BY DEF ClientPc, Resting
<1>2. ASSUME NEW w \in steps, Refuse(c, w) \/ Move(c, w)  PROVE TypeOK'
  BY <1>1, <1>2, RefuseTypes, MoveTypes
<1>3. "ok" \in steps /\ "idle" \in steps /\ "gate" \in steps /\ "add" \in steps /\ "edit" \in steps
      /\ "clear" \in steps /\ "post" \in steps /\ "cancelAll" \in steps
  OBVIOUS
<1>4. CASE Recheck(c)
  <2>1. CASE lease = header[c] /\ (lease \in lapsed \/ leased # uri[c])
    <3>1. /\ EndLease /\ pc' = [pc EXCEPT ![c] = "clear"]
          /\ UNCHANGED <<project, upc, closed, lapsed, gate, route, header, seen, uri, job, editedIn,
                         jobVars, analysis>>
      BY <1>4, <2>1 DEF Recheck, Goto, WindowFrame
    <3>2. ClientTypes' /\ WindowTypes' /\ JobTypes'
      BY <1>1, <1>3, <3>1, TypeParts DEF ClientTypes, WindowTypes, JobTypes, jobVars
    <3>3. LeaseTypes'
      BY <3>1, EndLeaseTypes
    <3>. QED BY <3>2, <3>3, TypesNext
  <2>2. CASE /\ ~(lease = header[c] /\ (lease \in lapsed \/ leased # uri[c]))
            /\ ~Refuse(c, "idle") /\ ~Refuse(c, "ok")
    <3>. DEFINE next == IF gate = c THEN InGate(route[c]) ELSE BeforeGate(route[c])
    <3>1. next \in ClientPc
      BY <1>1, RoutesGo DEF TypeOK
    <3>2. /\ pc' = [pc EXCEPT ![c] = next]
          /\ uri' = [uri EXCEPT ![c] = NoProject]
          /\ UNCHANGED <<project, upc, closed, lapsed, leaseVars, gate, route, header, seen, job,
                         editedIn, jobVars, analysis>>
      BY <1>4, <2>2 DEF Recheck, Goto, WindowFrame
    <3>. QED BY <3>1, <3>2 DEF TypeOK, leaseVars, jobVars
  <2>. QED BY <1>2, <1>3, <2>1, <2>2
<1>5. CASE JobCheck(c) \/ Start(c) \/ Precheck(c) \/ Post(c)
  BY <1>2, <1>3, <1>5 DEF JobCheck, Start, Precheck, Post
<1>6. CASE Edit(c)
  <2>1. CASE Refuse(c, "idle")
    BY <1>2, <1>3, <2>1
  <2>2. CASE ~Refuse(c, "idle")
    BY <1>1, <1>3, <1>6, <2>2 DEF Edit, Goto, TypeOK, WindowFrame, leaseVars, jobVars
  <2>. QED BY <2>1, <2>2
<1>7. CASE CancelJob(c)
  <2>1. ClientTypes'
    BY <1>1, <1>3, <1>7, AnswerTypes, TypeParts DEF CancelJob
  <2>2. JobTypes'
    BY <1>7, CancelTypes, TypeParts DEF CancelJob
  <2>3. WindowTypes' /\ LeaseTypes'
    BY <1>7, TypeParts DEF CancelJob, WindowFrame, WindowTypes, LeaseTypes, leaseVars
  <2>. QED BY <2>1, <2>2, <2>3, TypesNext
<1>8. CASE ClearAnalyses(c)
  BY <1>1, <1>3, <1>8 DEF ClearAnalyses, Goto, TypeOK, WindowFrame, leaseVars, jobVars
<1>9. CASE CancelAll(c)
  <2>1. ClientTypes'
    BY <1>1, <1>3, <1>9, AnswerTypes, TypeParts DEF CancelAll
  <2>2. JobTypes'
    BY <1>9, CancelTypes, TypeParts DEF CancelAll
  <2>3. issued' \subseteq Nat
    BY <1>9 DEF CancelAll, TypeOK
  <2>4. WindowTypes' /\ LeaseTypes'
    BY <1>9, <2>3, TypeParts DEF CancelAll, WindowFrame, WindowTypes, LeaseTypes
  <2>. QED BY <2>1, <2>2, <2>4, TypesNext
<1>. QED BY <1>4, <1>5, <1>6, <1>7, <1>8, <1>9

\* The submission of a job.
LEMMA SubmitTypes ==
  ASSUME TypeOK, NEW c \in Clients, AddJob(c) \/ Confirm(c) \/ Launch(c)
  PROVE  TypeOK'
<1>1. {"ok", "confirm", "launch"} \subseteq ClientPc
  BY DEF ClientPc, Resting
<1>2. {"queued", "none", "running", "canceledBeforeStart"} \subseteq Statuses
  BY DEF Statuses, Terminal
<1>3. "tool" \in JobPc
  BY DEF JobPc
<1>4. CASE AddJob(c)
  <2>1. PICK j \in Jobs :
       /\ retained' = Append(Retained, j)
       /\ status' = [i \in Jobs |-> IF i = j THEN "queued"
                                    ELSE IF i \in ToSet(Retained) THEN status[i] ELSE "none"]
       /\ owner' = [i \in Jobs |-> IF i = j THEN seen[c]
                                   ELSE IF i \in ToSet(Retained) THEN owner[i] ELSE 0]
       /\ makes' = (makes \cap ToSet(Retained)) \cup (IF route[c] = "make" THEN {j} ELSE {})
       /\ asked' = asked \cap ToSet(Retained)
       /\ job' = [job EXCEPT ![c] = j]
       /\ pc' = [pc EXCEPT ![c] = "confirm"]
    BY <1>4 DEF AddJob, Goto
  <2>2. Retained \in Seq(Jobs)
    BY TrimKeeps DEF TypeOK
  <2>3. retained' \in Seq(Jobs)
    BY <2>1, <2>2
  <2>4. seen[c] \in Nat
    BY DEF TypeOK
  <2>5. status' \in [Jobs -> Statuses] /\ owner' \in [Jobs -> Nat]
    BY <1>2, <2>1, <2>4 DEF TypeOK
  <2>6. makes' \subseteq Jobs /\ asked' \subseteq Jobs
    BY <2>1 DEF TypeOK
  <2>7. job' \in [Clients -> Jobs \cup {NoJob}] /\ pc' \in [Clients -> ClientPc]
    BY <1>1, <2>1 DEF TypeOK
  <2>. QED BY <1>4, <2>3, <2>5, <2>6, <2>7 DEF AddJob, TypeOK, WindowFrame, leaseVars
<1>5. CASE Confirm(c)
  <2>1. CASE Move(c, "launch")
    BY <1>1, <2>1, MoveTypes
  <2>2. CASE ~Move(c, "launch")
    <3>1. ClientTypes'
      BY <1>1, <1>5, <2>2, AnswerTypes, TypeParts DEF Confirm
    <3>2. status' \in [Jobs -> Statuses]
      BY <1>2, <1>5, <2>2 DEF Confirm, TypeOK
    <3>3. WindowTypes' /\ LeaseTypes' /\ JobTypes'
      BY <1>5, <2>2, <3>2, TypeParts DEF Confirm, WindowFrame, leaseVars, WindowTypes, LeaseTypes, JobTypes
    <3>. QED BY <3>1, <3>3, TypesNext
  <2>. QED BY <2>1, <2>2
<1>6. CASE Launch(c)
  <2>1. ClientTypes'
    BY <1>1, <1>6, AnswerTypes, TypeParts DEF Launch
  <2>2. status' \in [Jobs -> Statuses] /\ jpc' \in [Jobs -> JobPc]
    BY <1>2, <1>3, <1>6 DEF Launch, TypeOK
  <2>3. WindowTypes' /\ LeaseTypes' /\ JobTypes'
    BY <1>6, <2>2, TypeParts DEF Launch, WindowFrame, leaseVars, WindowTypes, LeaseTypes, JobTypes
  <2>. QED BY <2>1, <2>3, TypesNext
<1>. QED BY <1>4, <1>5, <1>6

\* A step of a job.
LEMMA JobStepTypes ==
  ASSUME TypeOK, NEW j \in Jobs, JobStep(j)
  PROVE  TypeOK'
<1>1. /\ {"judge", "none", "reportStale", "register", "reportCurrent"} \subseteq JobPc
      /\ Terminal \subseteq Statuses
  BY DEF JobPc, Statuses
<1>2. ClientTypes' /\ WindowTypes'
  BY TypeParts DEF JobStep, ToolReturns, Judge, Register, Report, JobFrame, WindowFrame, clientVars,
     ClientTypes, WindowTypes
<1>3. status' \in [Jobs -> Statuses]
  BY <1>1 DEF TypeOK, JobStep, ToolReturns, Judge, Register, Report, Terminal
<1>4. jpc' \in [Jobs -> JobPc]
  BY <1>1 DEF TypeOK, JobStep, ToolReturns, Judge, Register, Report
<1>5. JobTypes'
  BY <1>3, <1>4, TypeParts DEF JobStep, ToolReturns, Judge, Register, Report, JobFrame, JobTypes
<1>6. analysis' \in Nat
  BY DEF TypeOK, JobStep, ToolReturns, Judge, Register, Report
<1>7. LeaseTypes'
  BY <1>6, TypeParts DEF JobStep, ToolReturns, Judge, Register, Report, JobFrame, leaseVars, LeaseTypes
<1>. QED BY <1>2, <1>5, <1>7, TypesNext

\* The window and the passing of time.
LEMMA WindowStepTypes ==
  ASSUME TypeOK, EventStep \/ SwitchProject \/ Lapse
  PROVE  TypeOK'
<1>1. CASE Invalidate \/ OnProjectChangedClear \/ SwitchProject \/ Lapse
  <2>1. ClientTypes' /\ JobTypes'
    BY <1>1, TypeParts DEF Invalidate, OnProjectChangedClear, SwitchProject, Lapse, clientVars, jobVars,
       ClientTypes, JobTypes
  <2>2. WindowTypes'
    <3>1. generation + 1 \in Nat
      BY DEF TypeOK
    <3>. USE DEF TypeOK, WindowTypes
    <3>2. CASE Invalidate
      BY <3>1, <3>2 DEF Invalidate
    <3>3. CASE OnProjectChangedClear
      BY <3>3 DEF OnProjectChangedClear
    <3>4. CASE SwitchProject
      BY <3>4 DEF SwitchProject
    <3>5. CASE Lapse
      <4>1. lapsed \cup {lease} \subseteq Nat
        BY DEF TypeOK
      <4>. QED BY <3>5, <4>1 DEF Lapse
    <3>. QED BY <1>1, <3>2, <3>3, <3>4, <3>5
  <2>3. LeaseTypes'
    <3>1. CASE Invalidate
      BY <3>1, EndLeaseTypes DEF Invalidate
    <3>2. CASE OnProjectChangedClear
      BY <3>2 DEF TypeOK, LeaseTypes, OnProjectChangedClear, leaseVars
    <3>3. CASE UNCHANGED <<leaseVars, analysis>>
      BY <3>3 DEF TypeOK, LeaseTypes, leaseVars
    <3>. QED BY <1>1, <3>1, <3>2, <3>3 DEF SwitchProject, Lapse
  <2>. QED BY <2>1, <2>2, <2>3, TypesNext
<1>2. CASE OnProjectChangedCancel
  <2>1. JobTypes'
    BY <1>2, CancelTypes, TypeParts DEF OnProjectChangedCancel
  <2>2. ClientTypes' /\ WindowTypes' /\ LeaseTypes'
    BY <1>2, TypeParts DEF OnProjectChangedCancel, ClientTypes, WindowTypes, LeaseTypes, clientVars,
       leaseVars
  <2>. QED BY <2>1, <2>2, TypesNext
<1>. QED BY <1>1, <1>2 DEF EventStep

\* No step breaks the types.
LEMMA TypeStep == TypeOK /\ [Next]_vars => TypeOK'
<1>. SUFFICES ASSUME TypeOK, [Next]_vars  PROVE TypeOK'
  OBVIOUS
<1>1. CASE UNCHANGED vars
  BY <1>1 DEF TypeOK, vars, leaseVars, clientVars, jobVars
<1>2. ASSUME NEW c \in Clients, ClientStep(c)  PROVE TypeOK'
  BY <1>2, LeaseStepTypes, WorkStepTypes, SubmitTypes DEF ClientStep
<1>. QED BY <1>1, <1>2, BeginTypes, JobStepTypes, WindowStepTypes DEF Next

-----------------------------------------------------------------------------
(* The gate.                                                               *)

\* The gate has the one holder that is inside: WaitAsync takes it, the answer releases it.
LEMMA GateStep ==
  ASSUME TypeOK, GateHeld, [Next]_vars
  PROVE  GateHeld'
<1>1. /\ pc \in [Clients -> ClientPc] /\ gate \in Clients \cup {NoClient}
      /\ route \in [Clients -> AllRoutes]
  BY DEF TypeOK
<1>. USE SdkBridgeAssumption, <1>1 DEF GateHeld, Inside, Outside, Resting
<1>2. ASSUME NEW c \in Clients, NEW what \in Resting, Answer(c, what)  PROVE GateHeld'
  BY <1>2 DEF Answer, Goto
\* A move within the gate, or from one lease test to the next.
<1>3. ASSUME NEW c \in Clients, NEW where, pc' = [pc EXCEPT ![c] = where], gate' = gate,
             \/ pc[c] \in Inside /\ where \in Inside
             \/ gate = c /\ where \in Inside
             \/ where \in {"lookup", "uri", "recheck", "clear", "cancelAll"}
             \/ pc[c] \in Outside /\ where \in Outside
             \/ gate # c /\ where \in Outside
      PROVE  GateHeld'
  BY <1>3
<1>4. CASE UNCHANGED <<pc, gate>>
  BY <1>4
<1>5. ASSUME NEW c \in Clients, NEW what \in Resting, Refuse(c, what)  PROVE GateHeld'
  BY <1>2, <1>5 DEF Refuse
<1>6. ASSUME NEW c \in Clients, Begin(c)  PROVE GateHeld'
  BY <1>6 DEF Begin, Goto
<1>7. ASSUME NEW c \in Clients, EnterGate(c)  PROVE GateHeld'
  BY <1>7 DEF EnterGate, Goto
<1>8. ASSUME NEW c \in Clients,
             Observe(c) \/ CaptureUri(c) \/ AddJob(c) \/ ClearAnalyses(c)
      PROVE  GateHeld'
  BY <1>3, <1>8 DEF Observe, CaptureUri, AddJob, ClearAnalyses, Goto
<1>9. ASSUME NEW c \in Clients, Capture(c) \/ Install(c) \/ Lookup(c) \/ Edit(c)  PROVE GateHeld'
  <2>1. CASE Refuse(c, "idle")
    BY <1>5, <2>1
  <2>2. CASE ~Refuse(c, "idle")
    BY <1>3, <1>9, <2>2 DEF Capture, Install, Lookup, Edit, Goto
  <2>. QED BY <2>1, <2>2
<1>10. ASSUME NEW c \in Clients, GateBusy(c) \/ Post(c) \/ Launch(c) \/ CancelJob(c) \/ CancelAll(c)
       PROVE  GateHeld'
  BY <1>2, <1>10 DEF GateBusy, Post, Launch, CancelJob, CancelAll, Refuse
<1>11. ASSUME NEW c \in Clients, JobCheck(c) \/ Start(c) \/ Precheck(c) \/ Confirm(c)  PROVE GateHeld'
  BY <1>2, <1>3, <1>11 DEF JobCheck, Start, Precheck, Confirm, Refuse, Move, Goto
<1>12. ASSUME NEW c \in Clients, Release(c)  PROVE GateHeld'
  BY <1>2, <1>3, <1>12 DEF Release, Refuse, Goto
<1>13. ASSUME NEW c \in Clients, Recheck(c)  PROVE GateHeld'
  <2>1. CASE \E what \in Resting : Refuse(c, what)
    BY <1>5, <2>1
  <2>2. CASE pc' = [pc EXCEPT ![c] = "clear"] /\ gate' = gate
    BY <1>3, <2>2
  <2>3. CASE ~(\E what \in Resting : Refuse(c, what)) /\ ~(pc' = [pc EXCEPT ![c] = "clear"] /\ gate' = gate)
    <3>. DEFINE next == IF gate = c THEN InGate(route[c]) ELSE BeforeGate(route[c])
    <3>1. pc' = [pc EXCEPT ![c] = next] /\ gate' = gate /\ next # "ok"
      BY <1>13, <2>3 DEF Recheck, Goto
    <3>2. IF gate = c THEN next \in Inside ELSE next \in Outside
      BY <3>1, RoutesGo
    <3>. HIDE DEF next
    <3>. QED BY <1>3, <3>1, <3>2
  <2>. QED BY <2>1, <2>2, <2>3
<1>14. ASSUME NEW j \in Jobs, JobStep(j)  PROVE GateHeld'
  BY <1>4, <1>14 DEF JobStep, ToolReturns, Judge, Register, Report, JobFrame, clientVars
<1>15. CASE EventStep \/ SwitchProject \/ Lapse \/ UNCHANGED vars
  BY <1>4, <1>15 DEF EventStep, Invalidate, OnProjectChangedClear, OnProjectChangedCancel, SwitchProject,
     Lapse, vars, clientVars
<1>. QED BY <1>6, <1>7, <1>8, <1>9, <1>10, <1>11, <1>12, <1>13, <1>14, <1>15 DEF Next, ClientStep

-----------------------------------------------------------------------------
(* The jobs.                                                               *)

Submitting == {"add", "confirm", "launch"}

\* The test for a running job holds until the job is added, the gate being held; the
\* job of a submission is live, of its lease, and not started.
Submissions ==
  \A c \in Clients :
    /\ pc[c] = "add" => ~HasRunningJob
    /\ pc[c] \in {"confirm", "launch"} =>
         job[c] \in Jobs /\ Live(job[c]) /\ jpc[job[c]] = "none"
    /\ pc[c] = "confirm" => owner[job[c]] = seen[c]

JobsAgree == OneRunningJob /\ Submissions

\* A request leaves the others alone.
LEMMA Others ==
  ASSUME TypeOK, NEW c \in Clients, Begin(c) \/ ClientStep(c), NEW d \in Clients, d # c
  PROVE  /\ pc'[d] = pc[d] /\ seen'[d] = seen[d] /\ uri'[d] = uri[d]
         /\ job'[d] = job[d] /\ editedIn'[d] = editedIn[d]
<1>. DEFINE Keeps == /\ pc'[d] = pc[d] /\ seen'[d] = seen[d] /\ uri'[d] = uri[d]
                     /\ job'[d] = job[d] /\ editedIn'[d] = editedIn[d]
<1>0. /\ pc \in [Clients -> ClientPc] /\ seen \in [Clients -> Nat]
      /\ uri \in [Clients -> Projects \cup {NoProject}]
      /\ job \in [Clients -> Jobs \cup {NoJob}]
      /\ editedIn \in [Clients -> Projects \cup {NoProject}]
  BY DEF TypeOK
<1>1. CASE Begin(c)
  BY <1>0, <1>1 DEF Begin, Goto
<1>2. CASE EnterGate(c)
  BY <1>0, <1>2 DEF EnterGate, Goto
<1>3. CASE GateBusy(c)
  BY <1>0, <1>3 DEF GateBusy, Refuse, Answer, Goto
<1>4. CASE Observe(c)
  BY <1>0, <1>4 DEF Observe, Goto
<1>5. CASE Capture(c)
  BY <1>0, <1>5 DEF Capture, Refuse, Answer, Goto
<1>6. CASE Install(c)
  BY <1>0, <1>6 DEF Install, Refuse, Answer, Goto
<1>7. CASE Release(c)
  BY <1>0, <1>7 DEF Release, Refuse, Answer, Goto
<1>8. CASE Lookup(c)
  BY <1>0, <1>8 DEF Lookup, Refuse, Answer, Goto
<1>9. CASE CaptureUri(c)
  BY <1>0, <1>9 DEF CaptureUri, Goto
<1>10. CASE Recheck(c)
  BY <1>0, <1>10 DEF Recheck, Refuse, Answer, Goto
<1>11. CASE JobCheck(c)
  BY <1>0, <1>11 DEF JobCheck, Refuse, Answer, Move, Goto
<1>12. CASE Start(c)
  BY <1>0, <1>12 DEF Start, Refuse, Answer, Move, Goto
<1>13. CASE AddJob(c)
  BY <1>0, <1>13 DEF AddJob, Goto
<1>14. CASE Confirm(c)
  BY <1>0, <1>14 DEF Confirm, Refuse, Answer, Move, Goto
<1>15. CASE Launch(c)
  BY <1>0, <1>15 DEF Launch, Answer, Goto
<1>16. CASE CancelJob(c)
  BY <1>0, <1>16 DEF CancelJob, Answer, Goto
<1>17. CASE Precheck(c)
  BY <1>0, <1>17 DEF Precheck, Refuse, Answer, Move, Goto
<1>18. CASE Edit(c)
  BY <1>0, <1>18 DEF Edit, Refuse, Answer, Goto
<1>19. CASE Post(c)
  BY <1>0, <1>19 DEF Post, Refuse, Answer, Goto
<1>20. CASE ClearAnalyses(c)
  BY <1>0, <1>20 DEF ClearAnalyses, Goto
<1>21. CASE CancelAll(c)
  BY <1>0, <1>21 DEF CancelAll, Answer, Goto
<1>. QED BY <1>1, <1>2, <1>3, <1>4, <1>5, <1>6, <1>7, <1>8, <1>9, <1>10, <1>11, <1>12, <1>13, <1>14, <1>15, <1>16, <1>17, <1>18, <1>19, <1>20, <1>21 DEF ClientStep

\* A cancellation leaves a live job live.
LEMMA CancelKeepsLive ==
  ASSUME TypeOK, NEW S, RequestCancel(S), UNCHANGED retained, NEW j \in Jobs
  PROVE  /\ Live(j)' <=> Live(j)
         /\ status[j] \in Terminal => status'[j] = status[j]
         /\ j \in S /\ Live(j) => j \in asked'
         /\ asked \subseteq asked'
<1>1. "cancelRequested" \notin Terminal
  BY DEF Terminal
<1>2. status'[j] = IF j \in S /\ Live(j) THEN "cancelRequested" ELSE status[j]
  BY DEF RequestCancel, Live, ToSet, TypeOK
<1>3. asked' = asked \cup {i \in S : Live(i)}
  BY DEF RequestCancel
<1>. QED BY <1>1, <1>2, <1>3 DEF Live

\* The steps of a client that neither test for, add nor start a job.
Quiet(c) ==
  \/ Begin(c) \/ EnterGate(c) \/ GateBusy(c) \/ Observe(c) \/ Capture(c) \/ Install(c) \/ Release(c)
  \/ Lookup(c) \/ CaptureUri(c) \/ Recheck(c) \/ JobCheck(c) \/ CancelJob(c)
  \/ Precheck(c) \/ Edit(c) \/ Post(c) \/ ClearAnalyses(c) \/ CancelAll(c)

LEMMA QuietSteps ==
  ASSUME TypeOK, NEW c \in Clients, Quiet(c)
  PROVE  /\ pc[c] \notin Submitting /\ pc'[c] \notin Submitting
         /\ UNCHANGED <<retained, jpc, owner>>
         /\ UNCHANGED <<status, asked>> \/ \E S \in SUBSET Jobs : RequestCancel(S)
<1>. DEFINE Calm == /\ pc[c] \notin Submitting /\ pc'[c] \notin Submitting
                    /\ UNCHANGED <<retained, jpc, owner>>
                    /\ UNCHANGED <<status, asked>> \/ \E S \in SUBSET Jobs : RequestCancel(S)
<1>0. pc \in [Clients -> ClientPc] /\ route \in [Clients -> AllRoutes]
  BY DEF TypeOK
<1>. USE DEF Submitting, Resting, leaseVars, jobVars
<1>1. CASE Begin(c)
  BY <1>0, <1>1 DEF Begin, Goto
<1>2. CASE EnterGate(c)
  BY <1>0, <1>2 DEF EnterGate, Goto
<1>3. CASE GateBusy(c)
  BY <1>0, <1>3 DEF GateBusy, Refuse, Answer, Goto
<1>4. CASE Observe(c)
  BY <1>0, <1>4 DEF Observe, Goto
<1>5. CASE Capture(c)
  BY <1>0, <1>5 DEF Capture, Refuse, Answer, Goto
<1>6. CASE Install(c)
  BY <1>0, <1>6 DEF Install, Refuse, Answer, Goto
<1>7. CASE Release(c)
  BY <1>0, <1>7 DEF Release, Refuse, Answer, Goto
<1>8. CASE Lookup(c)
  BY <1>0, <1>8 DEF Lookup, Refuse, Answer, Goto
<1>9. CASE CaptureUri(c)
  BY <1>0, <1>9 DEF CaptureUri, Goto
<1>10. CASE Recheck(c)
  <2>1. BeforeGate(route[c]) \notin Submitting /\ InGate(route[c]) \notin Submitting
    BY <1>0, RoutesGo
  <2>. QED BY <1>0, <1>10, <2>1 DEF Recheck, Refuse, Answer, Goto
<1>11. CASE JobCheck(c)
  BY <1>0, <1>11 DEF JobCheck, Refuse, Answer, Move, Goto
<1>12. CASE CancelJob(c)
  <2>1. pc[c] \notin Submitting /\ pc'[c] \notin Submitting
    BY <1>0, <1>12 DEF CancelJob, Answer, Goto
  <2>2. \E S \in SUBSET Jobs : RequestCancel(S)
    BY <1>12 DEF CancelJob
  <2>. QED BY <1>12, <2>1, <2>2 DEF CancelJob
<1>13. CASE Precheck(c)
  BY <1>0, <1>13 DEF Precheck, Refuse, Answer, Move, Goto
<1>14. CASE Edit(c)
  BY <1>0, <1>14 DEF Edit, Refuse, Answer, Goto
<1>15. CASE Post(c)
  BY <1>0, <1>15 DEF Post, Refuse, Answer, Goto
<1>16. CASE ClearAnalyses(c)
  BY <1>0, <1>16 DEF ClearAnalyses, Goto
<1>17. CASE CancelAll(c)
  <2>1. pc[c] \notin Submitting /\ pc'[c] \notin Submitting
    BY <1>0, <1>17 DEF CancelAll, Answer, Goto
  <2>2. \E S \in SUBSET Jobs : RequestCancel(S)
    BY <1>17 DEF CancelAll
  <2>. QED BY <1>17, <2>1, <2>2 DEF CancelAll
<1>. QED BY <1>1, <1>2, <1>3, <1>4, <1>5, <1>6, <1>7, <1>8, <1>9, <1>10, <1>11, <1>12, <1>13, <1>14, <1>15, <1>16, <1>17 DEF Quiet

\* No job becomes live, is started or changes its lease, and no request begins to submit.
CalmStep ==
  /\ \A j \in Jobs : Live(j)' <=> Live(j)
  /\ jpc' = jpc /\ owner' = owner
  /\ \A c \in Clients : pc'[c] \in Submitting =>
       /\ pc'[c] = pc[c] \/ (pc[c] = "confirm" /\ pc'[c] = "launch")
       /\ job'[c] = job[c] /\ seen'[c] = seen[c]

\* A calm step keeps one running job and the submissions in order.
LEMMA CalmJobs ==
  ASSUME JobsAgree, CalmStep
  PROVE  JobsAgree'
<1>. USE DEF CalmStep
<1>1. OneRunningJob'
  BY DEF JobsAgree, OneRunningJob
<1>2. Submissions'
  BY DEF JobsAgree, Submissions, Submitting, HasRunningJob
<1>. QED BY <1>1, <1>2 DEF JobsAgree

\* One running job: only the holder of the gate that has found none adds one.
LEMMA JobsStep ==
  ASSUME TypeOK, GateHeld, JobsAgree, [Next]_vars
  PROVE  JobsAgree'
<1>0. /\ pc \in [Clients -> ClientPc] /\ seen \in [Clients -> Nat]
      /\ job \in [Clients -> Jobs \cup {NoJob}]
      /\ status \in [Jobs -> Statuses] /\ jpc \in [Jobs -> JobPc] /\ owner \in [Jobs -> Nat]
      /\ retained \in Seq(Jobs)
  BY DEF TypeOK
<1>1. ASSUME UNCHANGED <<retained, status, jpc, owner, pc, job, seen>>  PROVE JobsAgree'
  <2>1. \A j \in Jobs : Live(j)' <=> Live(j)
    BY <1>1 DEF Live
  <2>20. CalmStep
    BY <1>1, <2>1 DEF CalmStep
  <2>. QED BY <2>20, CalmJobs
<1>2. ASSUME NEW c \in Clients, Quiet(c)  PROVE JobsAgree'
  <2>1. /\ UNCHANGED <<retained, jpc, owner>> /\ pc'[c] \notin Submitting
        /\ UNCHANGED <<status, asked>> \/ \E S \in SUBSET Jobs : RequestCancel(S)
    BY <1>2, QuietSteps
  <2>2. \A j \in Jobs : Live(j)' <=> Live(j)
    <3>1. CASE UNCHANGED status
      BY <2>1, <3>1 DEF Live
    <3>2. CASE \E S \in SUBSET Jobs : RequestCancel(S)
      BY <2>1, <3>2, CancelKeepsLive
    <3>. QED BY <2>1, <3>1, <3>2
  <2>3. Begin(c) \/ ClientStep(c)
    BY <1>2 DEF Quiet, ClientStep
  <2>4. \A d \in Clients : d # c => pc'[d] = pc[d] /\ job'[d] = job[d] /\ seen'[d] = seen[d]
    BY <2>3, Others
  <2>20. CalmStep
    BY <2>1, <2>2, <2>4 DEF CalmStep
  <2>. QED BY <2>20, CalmJobs
\* The gate: only one request is between the test and the start of its job.
<1>3. \A c, d \in Clients : pc[c] \in Submitting \cup {"start"} /\ pc[d] \in Submitting => c = d
  BY DEF GateHeld, Inside, Submitting
<1>4. ASSUME NEW c \in Clients, Start(c)  PROVE JobsAgree'
  <2>1. CASE Refuse(c, "idle")
    <3>1. UNCHANGED <<retained, status, jpc, owner>> /\ pc'[c] \notin Submitting
      BY <1>0, <2>1 DEF Refuse, Answer, Goto, Submitting, jobVars
    <3>2. \A d \in Clients : d # c => pc'[d] = pc[d] /\ job'[d] = job[d] /\ seen'[d] = seen[d]
      BY <1>4, Others DEF ClientStep
    <3>3. \A j \in Jobs : Live(j)' <=> Live(j)
      BY <3>1 DEF Live
    <3>20. CalmStep
      BY <3>1, <3>2, <3>3 DEF CalmStep
    <3>. QED BY <3>20, CalmJobs
  <2>2. CASE Move(c, "add") /\ ~HasRunningJob
    <3>1. UNCHANGED <<retained, status, jpc, owner, job, seen>> /\ pc' = [pc EXCEPT ![c] = "add"]
      BY <2>2 DEF Move, Goto, jobVars
    <3>2. \A j \in Jobs : Live(j)' <=> Live(j)
      BY <3>1 DEF Live
    <3>3. Submissions'
      BY <1>0, <2>2, <3>1, <3>2 DEF JobsAgree, Submissions, HasRunningJob
    <3>4. OneRunningJob'
      BY <3>1, <3>2 DEF JobsAgree, OneRunningJob
    <3>. QED BY <3>3, <3>4 DEF JobsAgree
  <2>. QED BY <1>4, <2>1, <2>2 DEF Start
<1>5. ASSUME NEW c \in Clients, AddJob(c)  PROVE JobsAgree'
  <2>1. PICK j \in Jobs \ ToSet(Retained) :
       /\ retained' = Append(Retained, j)
       /\ status' = [i \in Jobs |-> IF i = j THEN "queued"
                                    ELSE IF i \in ToSet(Retained) THEN status[i] ELSE "none"]
       /\ owner' = [i \in Jobs |-> IF i = j THEN seen[c]
                                   ELSE IF i \in ToSet(Retained) THEN owner[i] ELSE 0]
       /\ job' = [job EXCEPT ![c] = j]
       /\ pc' = [pc EXCEPT ![c] = "confirm"]
    BY <1>5 DEF AddJob, Goto
  <2>2. UNCHANGED <<jpc, seen>> /\ pc[c] = "add"
    BY <1>5 DEF AddJob
  <2>3. \A i \in Jobs : ~Live(i)
    BY <2>2 DEF JobsAgree, Submissions, HasRunningJob
  <2>4. \A i \in Jobs : jpc[i] = "none"
    BY <2>3 DEF JobsAgree, OneRunningJob
  <2>5. Retained \in Seq(Jobs) /\ ToSet(Retained) \subseteq ToSet(retained)
    BY <1>0, TrimKeeps
  <2>6. ToSet(retained') = ToSet(Retained) \cup {j}
    <3>1. /\ DOMAIN retained' = 1 .. Len(Retained) + 1 /\ Len(Retained) \in Nat
          /\ DOMAIN Retained = 1 .. Len(Retained)
          /\ \A i \in DOMAIN Retained : retained'[i] = Retained[i]
          /\ retained'[Len(Retained) + 1] = j
      BY <2>1, <2>5
    <3>. QED BY <3>1 DEF ToSet
  <2>7. \A i \in Jobs : Live(i)' <=> i = j
    BY <2>1, <2>3, <2>5, <2>6 DEF Live, Terminal
  <2>8. OneRunningJob'
    BY <2>2, <2>4, <2>7 DEF OneRunningJob
  <2>9. \A d \in Clients : pc'[d] \in Submitting => d = c
    BY <1>0, <1>3, <2>1, <2>2 DEF Submitting
  <2>10. Submissions'
    BY <1>0, <2>1, <2>2, <2>4, <2>7, <2>9 DEF Submissions, Submitting
  <2>. QED BY <2>8, <2>10 DEF JobsAgree
<1>6. ASSUME NEW c \in Clients, Confirm(c)  PROVE JobsAgree'
  <2>1. \A d \in Clients : d # c => pc'[d] = pc[d] /\ job'[d] = job[d] /\ seen'[d] = seen[d]
    BY <1>6, Others DEF ClientStep
  <2>2. CASE Move(c, "launch")
    <3>1. UNCHANGED <<retained, status, jpc, owner, job, seen>> /\ pc'[c] = "launch" /\ pc[c] = "confirm"
      BY <1>0, <1>6, <2>2 DEF Confirm, Move, Goto, jobVars
    <3>2. \A j \in Jobs : Live(j)' <=> Live(j)
      BY <3>1 DEF Live
    <3>20. CalmStep
      BY <2>1, <3>1, <3>2 DEF CalmStep
    <3>. QED BY <3>20, CalmJobs
  <2>3. CASE ~Move(c, "launch")
    <3>1. /\ pc[c] = "confirm" /\ pc'[c] = "ok" /\ UNCHANGED <<retained, jpc, owner>>
          /\ status' = [status EXCEPT ![job[c]] = "canceledBeforeStart"]
      BY <1>0, <1>6, <2>3 DEF Confirm, Answer, Goto
    <3>2. /\ job[c] \in Jobs /\ Live(job[c]) /\ jpc[job[c]] = "none"
          /\ \A i \in Jobs : Live(i) => i = job[c]
      BY <3>1 DEF JobsAgree, Submissions, OneRunningJob
    <3>3. \A i \in Jobs : ~Live(i)'
      BY <1>0, <3>1, <3>2 DEF Live, Terminal
    <3>4. \A i \in Jobs : jpc'[i] = "none"
      BY <3>1, <3>2 DEF JobsAgree, OneRunningJob
    <3>5. \A d \in Clients : pc'[d] \notin Submitting
      BY <1>3, <2>1, <3>1 DEF Submitting
    <3>. QED BY <3>3, <3>4, <3>5 DEF JobsAgree, OneRunningJob, Submissions, Submitting
  <2>. QED BY <2>2, <2>3
<1>7. ASSUME NEW c \in Clients, Launch(c)  PROVE JobsAgree'
  <2>1. /\ pc[c] = "launch" /\ pc'[c] = "ok" /\ UNCHANGED <<retained, owner>>
        /\ status' = [status EXCEPT ![job[c]] = IF @ = "queued" THEN "running" ELSE @]
        /\ jpc' = [jpc EXCEPT ![job[c]] = "tool"]
    BY <1>0, <1>7 DEF Launch, Answer, Goto
  <2>2. /\ job[c] \in Jobs /\ Live(job[c])
        /\ \A i \in Jobs : Live(i) => i = job[c]
    BY <2>1 DEF JobsAgree, Submissions, OneRunningJob
  <2>3. \A i \in Jobs : Live(i)' <=> Live(i)
    BY <1>0, <2>1, <2>2 DEF Live, Terminal
  <2>4. \A i \in Jobs : jpc'[i] # "none" => Live(i)'
    BY <1>0, <2>1, <2>2, <2>3 DEF JobsAgree, OneRunningJob
  <2>5. \A d \in Clients : d # c => pc'[d] = pc[d]
    BY <1>7, Others DEF ClientStep
  <2>6. \A d \in Clients : pc'[d] \notin Submitting
    BY <1>3, <2>1, <2>5 DEF Submitting
  <2>. QED BY <2>2, <2>3, <2>4, <2>6 DEF JobsAgree, OneRunningJob, Submissions, Submitting
<1>8. ASSUME NEW j \in Jobs, JobStep(j)  PROVE JobsAgree'
  <2>1. UNCHANGED <<retained, owner, pc, job, seen>>
    BY <1>8 DEF JobStep, ToolReturns, Judge, Register, Report, JobFrame, clientVars
  <2>2. jpc[j] # "none" /\ Live(j) /\ \A i \in Jobs : Live(i) => i = j
    BY <1>8 DEF JobStep, ToolReturns, Judge, Register, Report, JobsAgree, OneRunningJob
  <2>3. \A i \in Jobs : i # j => status'[i] = status[i] /\ jpc'[i] = jpc[i]
    BY <1>0, <1>8 DEF JobStep, ToolReturns, Judge, Register, Report
  <2>4. status'[j] = status[j] \/ jpc'[j] = "none"
    BY <1>0, <1>8 DEF JobStep, ToolReturns, Judge, Register, Report
  <2>5. OneRunningJob'
    BY <2>1, <2>2, <2>3, <2>4 DEF JobsAgree, OneRunningJob, Live
  <2>6. \A d \in Clients : pc[d] \notin {"confirm", "launch"}
    BY <2>2 DEF JobsAgree, Submissions
  <2>7. \A i \in Jobs : Live(i)' => Live(i)
    BY <2>1, <2>2, <2>3 DEF Live
  <2>8. Submissions'
    BY <2>1, <2>6, <2>7 DEF JobsAgree, Submissions, HasRunningJob
  <2>. QED BY <2>5, <2>8 DEF JobsAgree
<1>9. CASE OnProjectChangedCancel
  <2>1. RequestCancel(Jobs) /\ UNCHANGED <<retained, jpc, owner, pc, job, seen>>
    BY <1>9 DEF OnProjectChangedCancel, clientVars
  <2>2. \A j \in Jobs : Live(j)' <=> Live(j)
    BY <2>1, CancelKeepsLive
  <2>20. CalmStep
    BY <2>1, <2>2 DEF CalmStep
  <2>. QED BY <2>20, CalmJobs
<1>10. CASE Invalidate \/ OnProjectChangedClear \/ SwitchProject \/ Lapse \/ UNCHANGED vars
  BY <1>1, <1>10 DEF Invalidate, OnProjectChangedClear, SwitchProject, Lapse, vars, clientVars, jobVars
<1>. QED BY <1>2, <1>4, <1>5, <1>6, <1>7, <1>8, <1>9, <1>10 DEF Next, ClientStep, EventStep, Quiet

-----------------------------------------------------------------------------
(* The runner of a job.                                                    *)

\* A live job is run, or the request that added it is before its launch.
RunnerAgree ==
  \A j \in Jobs : Live(j) =>
    jpc[j] # "none" \/ \E c \in Clients : pc[c] \in {"confirm", "launch"} /\ job[c] = j

\* A job is live from its request to its launch, and run from there until it is final.
LEMMA RunnerStep ==
  ASSUME TypeOK, GateHeld, JobsAgree, RunnerAgree, JobsAgree', [Next]_vars
  PROVE  RunnerAgree'
<1>0. /\ pc \in [Clients -> ClientPc] /\ job \in [Clients -> Jobs \cup {NoJob}]
      /\ status \in [Jobs -> Statuses] /\ jpc \in [Jobs -> JobPc]
  BY DEF TypeOK
\* A request before its launch stays there, and no job becomes live.
<1>1. ASSUME UNCHANGED jpc, \A j \in Jobs : Live(j)' => Live(j),
             \A d \in Clients : pc[d] \in {"confirm", "launch"} =>
               pc'[d] \in {"confirm", "launch"} /\ job'[d] = job[d]
      PROVE  RunnerAgree'
  BY <1>1 DEF RunnerAgree
<1>2. ASSUME NEW c \in Clients, Quiet(c)  PROVE RunnerAgree'
  <2>1. /\ UNCHANGED <<retained, jpc>> /\ pc[c] \notin {"confirm", "launch"}
        /\ UNCHANGED <<status, asked>> \/ \E S \in SUBSET Jobs : RequestCancel(S)
    BY <1>2, QuietSteps DEF Submitting
  <2>2. \A j \in Jobs : Live(j)' => Live(j)
    <3>1. CASE UNCHANGED status
      BY <2>1, <3>1 DEF Live
    <3>2. CASE \E S \in SUBSET Jobs : RequestCancel(S)
      BY <2>1, <3>2, CancelKeepsLive
    <3>. QED BY <2>1, <3>1, <3>2
  <2>3. \A d \in Clients : d # c => pc'[d] = pc[d] /\ job'[d] = job[d]
    BY <1>2, Others DEF Quiet, ClientStep
  <2>. QED BY <1>1, <2>1, <2>2, <2>3
<1>3. ASSUME NEW c \in Clients, Start(c)  PROVE RunnerAgree'
  <2>1. UNCHANGED <<retained, status, jpc>> /\ pc[c] = "start"
    BY <1>3 DEF Start, Refuse, Move, jobVars
  <2>2. \A d \in Clients : d # c => pc'[d] = pc[d] /\ job'[d] = job[d]
    BY <1>3, Others DEF ClientStep
  <2>3. \A j \in Jobs : Live(j)' => Live(j)
    BY <2>1 DEF Live
  <2>. QED BY <1>1, <2>1, <2>2, <2>3
\* The new job is the only live one.
<1>4. ASSUME NEW c \in Clients, AddJob(c)  PROVE RunnerAgree'
  <2>1. pc'[c] = "confirm"
    BY <1>0, <1>4 DEF AddJob, Goto
  <2>2. \A i \in Jobs : Live(i)' => i = job'[c]
    BY <2>1 DEF JobsAgree, OneRunningJob, Submissions
  <2>. QED BY <2>1, <2>2 DEF RunnerAgree
<1>5. ASSUME NEW c \in Clients, Confirm(c)  PROVE RunnerAgree'
  <2>1. \A d \in Clients : d # c => pc'[d] = pc[d] /\ job'[d] = job[d]
    BY <1>5, Others DEF ClientStep
  <2>2. CASE Move(c, "launch")
    <3>1. UNCHANGED <<retained, status, jpc, job>> /\ pc'[c] = "launch"
      BY <1>0, <2>2 DEF Move, Goto, jobVars
    <3>2. \A j \in Jobs : Live(j)' => Live(j)
      BY <3>1 DEF Live
    <3>. QED BY <1>1, <2>1, <3>1, <3>2
  <2>3. CASE ~Move(c, "launch")
    <3>1. /\ pc[c] = "confirm" /\ UNCHANGED retained
          /\ status' = [status EXCEPT ![job[c]] = "canceledBeforeStart"]
      BY <1>5, <2>3 DEF Confirm
    <3>2. job[c] \in Jobs /\ \A i \in Jobs : Live(i) => i = job[c]
      BY <3>1 DEF JobsAgree, Submissions, OneRunningJob
    <3>3. \A i \in Jobs : ~Live(i)'
      BY <1>0, <3>1, <3>2 DEF Live, Terminal
    <3>. QED BY <3>3 DEF RunnerAgree
  <2>. QED BY <2>2, <2>3
<1>6. ASSUME NEW c \in Clients, Launch(c)  PROVE RunnerAgree'
  <2>1. /\ pc[c] = "launch" /\ UNCHANGED retained
        /\ status' = [status EXCEPT ![job[c]] = IF @ = "queued" THEN "running" ELSE @]
        /\ jpc' = [jpc EXCEPT ![job[c]] = "tool"]
    BY <1>6 DEF Launch
  <2>2. job[c] \in Jobs /\ \A i \in Jobs : Live(i) => i = job[c]
    BY <2>1 DEF JobsAgree, Submissions, OneRunningJob
  <2>3. \A i \in Jobs : Live(i)' => i = job[c]
    BY <1>0, <2>1, <2>2 DEF Live
  <2>. QED BY <1>0, <2>1, <2>2, <2>3 DEF RunnerAgree
<1>7. ASSUME NEW j \in Jobs, JobStep(j)  PROVE RunnerAgree'
  <2>1. UNCHANGED <<retained, pc, job>>
    BY <1>7 DEF JobStep, ToolReturns, Judge, Register, Report, JobFrame, clientVars
  <2>2. jpc[j] # "none" /\ \A i \in Jobs : Live(i) => i = j
    BY <1>7 DEF JobStep, ToolReturns, Judge, Register, Report, JobsAgree, OneRunningJob
  <2>3. \A i \in Jobs : i # j => status'[i] = status[i]
    BY <1>0, <1>7 DEF JobStep, ToolReturns, Judge, Register, Report
  <2>4. jpc'[j] # "none" \/ status'[j] \in Terminal
    BY <1>0, <1>7 DEF JobStep, ToolReturns, Judge, Register, Report, Terminal
  <2>5. \A i \in Jobs : Live(i)' => i = j /\ jpc'[j] # "none"
    BY <2>1, <2>2, <2>3, <2>4 DEF Live
  <2>. QED BY <2>5 DEF RunnerAgree
<1>8. CASE OnProjectChangedCancel
  <2>1. RequestCancel(Jobs) /\ UNCHANGED <<retained, jpc, pc, job>>
    BY <1>8 DEF OnProjectChangedCancel, clientVars
  <2>2. \A j \in Jobs : Live(j)' => Live(j)
    BY <2>1, CancelKeepsLive
  <2>. QED BY <1>1, <2>1, <2>2
<1>9. CASE Invalidate \/ OnProjectChangedClear \/ SwitchProject \/ Lapse \/ UNCHANGED vars
  <2>1. UNCHANGED <<retained, status, jpc, pc, job>>
    BY <1>9 DEF Invalidate, OnProjectChangedClear, SwitchProject, Lapse, vars, clientVars, jobVars
  <2>2. \A j \in Jobs : Live(j)' => Live(j)
    BY <2>1 DEF Live
  <2>. QED BY <1>1, <2>1, <2>2
<1>. QED BY <1>2, <1>3, <1>4, <1>5, <1>6, <1>7, <1>8, <1>9 DEF Next, ClientStep, EventStep, Quiet

-----------------------------------------------------------------------------
(* The lease and the open project.                                         *)

\* The current lease is the last generation, and younger than the last invalidation;
\* what a request has captured, or edited in, under it is the open project, until the
\* event of a switch is due.
LeaseAgree ==
  /\ lease = 0 \/ lease = generation
  /\ closed <= generation
  /\ lease # 0 => closed < lease
  /\ LeaseNamesOpenProject
  /\ \A c \in Clients :
       /\ seen[c] <= generation
       /\ pc[c] = "install" /\ seen[c] = generation /\ upc # "event" => uri[c] = project
       /\ pc[c] = "post" /\ lease # 0 /\ seen[c] = lease /\ upc # "event" => editedIn[c] = leased

\* What a request's own step does to the lease and to what it has captured.
LEMMA LeaseOfStep ==
  ASSUME TypeOK, NEW c \in Clients, Begin(c) \/ ClientStep(c)
  PROVE  /\ UNCHANGED <<project, upc, closed, lapsed>>
         /\ \/ /\ UNCHANGED <<generation, lease, leased>>
               /\ seen'[c] \in {seen[c], 0, generation, lease}
               /\ pc'[c] = "install" => uri'[c] = project
               /\ pc'[c] = "post" => editedIn'[c] = project
            \/ /\ EndLease /\ seen'[c] \in {seen[c], 0}
               /\ pc'[c] = "clear" \/ (lease \in lapsed /\ pc'[c] = "idle" /\ pc[c] = "release")
            \/ /\ pc[c] = "install" /\ pc'[c] = "clear" /\ generation = seen[c]
               /\ generation' = generation + 1 /\ lease' = generation + 1 /\ leased' = uri[c]
               /\ seen'[c] = generation + 1
<1>0. /\ pc \in [Clients -> ClientPc] /\ route \in [Clients -> AllRoutes]
      /\ seen \in [Clients -> Nat] /\ uri \in [Clients -> Projects \cup {NoProject}]
      /\ editedIn \in [Clients -> Projects \cup {NoProject}]
  BY DEF TypeOK
<1>. USE DEF WindowFrame, leaseVars
<1>1. CASE Begin(c)
  BY <1>0, <1>1 DEF Begin, Goto
<1>2. CASE EnterGate(c)
  BY <1>0, <1>2 DEF EnterGate, Goto
<1>3. CASE GateBusy(c)
  BY <1>0, <1>3 DEF GateBusy, Refuse, Answer, Goto
<1>4. CASE Observe(c)
  BY <1>0, <1>4 DEF Observe, Goto
<1>5. CASE Capture(c)
  BY <1>0, <1>5 DEF Capture, Refuse, Answer, Goto
<1>6. CASE CaptureUri(c)
  BY <1>0, <1>6 DEF CaptureUri, Goto
<1>7. CASE JobCheck(c)
  BY <1>0, <1>7 DEF JobCheck, Refuse, Answer, Move, Goto
<1>8. CASE Start(c)
  BY <1>0, <1>8 DEF Start, Refuse, Answer, Move, Goto
<1>9. CASE AddJob(c)
  BY <1>0, <1>9 DEF AddJob, Goto
<1>10. CASE Confirm(c)
  BY <1>0, <1>10 DEF Confirm, Refuse, Answer, Move, Goto
<1>11. CASE Launch(c)
  BY <1>0, <1>11 DEF Launch, Answer, Goto
<1>12. CASE CancelJob(c)
  BY <1>0, <1>12 DEF CancelJob, Answer, Goto
<1>13. CASE Precheck(c)
  BY <1>0, <1>13 DEF Precheck, Refuse, Answer, Move, Goto
<1>14. CASE Edit(c)
  BY <1>0, <1>14 DEF Edit, Refuse, Answer, Goto
<1>15. CASE Post(c)
  BY <1>0, <1>15 DEF Post, Refuse, Answer, Goto
<1>16. CASE ClearAnalyses(c)
  BY <1>0, <1>16 DEF ClearAnalyses, Goto
<1>17. CASE CancelAll(c)
  BY <1>0, <1>17 DEF CancelAll, Answer, Goto
<1>18. CASE Lookup(c)
  BY <1>0, <1>18 DEF Lookup, Refuse, Answer, Goto
<1>19. CASE Recheck(c)
  <2>1. BeforeGate(route[c]) \notin {"install", "post"} /\ InGate(route[c]) \notin {"install", "post"}
    BY <1>0, RoutesGo
  <2>. QED BY <1>0, <1>19, <2>1 DEF Recheck, Refuse, Answer, Goto
<1>20. CASE Install(c)
  BY <1>0, <1>20 DEF Install, Refuse, Answer, Goto
<1>21. CASE Release(c)
  BY <1>0, <1>21 DEF Release, Refuse, Answer, Goto
<1>. QED BY <1>1, <1>2, <1>3, <1>4, <1>5, <1>6, <1>7, <1>8, <1>9, <1>10, <1>11, <1>12, <1>13, <1>14, <1>15, <1>16, <1>17, <1>18, <1>19, <1>20, <1>21 DEF ClientStep

\* The lease stays the last generation, and an event between capture and use is seen.
LEMMA LeaseStep ==
  ASSUME TypeOK, LeaseAgree, [Next]_vars
  PROVE  LeaseAgree'
<1>0. /\ generation \in Nat /\ lease \in Nat /\ closed \in Nat /\ seen \in [Clients -> Nat]
  BY DEF TypeOK
<1>. USE DEF LeaseAgree, LeaseNamesOpenProject
<1>1. ASSUME NEW c \in Clients, Begin(c) \/ ClientStep(c)  PROVE LeaseAgree'
  <2>1. UNCHANGED <<project, upc, closed>>
    BY <1>1, LeaseOfStep
  <2>2. \A d \in Clients : d # c =>
          /\ pc'[d] = pc[d] /\ seen'[d] = seen[d] /\ uri'[d] = uri[d] /\ editedIn'[d] = editedIn[d]
    BY <1>1, Others
  <2>3. CASE /\ UNCHANGED <<generation, lease, leased>>
             /\ seen'[c] \in {seen[c], 0, generation, lease}
             /\ pc'[c] = "install" => uri'[c] = project
             /\ pc'[c] = "post" => editedIn'[c] = project
    <3>1. seen'[c] <= generation
      BY <1>0, <2>3
    <3>. QED BY <2>1, <2>2, <2>3, <3>1
  <2>4. CASE EndLease /\ seen'[c] \in {seen[c], 0}
    <3>1. generation' = generation + 1 /\ lease' = 0
      BY <2>4 DEF EndLease
    <3>2. \A d \in Clients : seen'[d] <= generation /\ seen'[d] \in Nat
      BY <1>0, <2>2, <2>4
    <3>3. \A d \in Clients : seen'[d] <= generation' /\ seen'[d] # generation'
      BY <1>0, <3>1, <3>2
    <3>4. closed' <= generation'
      BY <1>0, <2>1, <3>1
    <3>. QED BY <3>1, <3>3, <3>4
  <2>5. CASE /\ pc[c] = "install" /\ pc'[c] = "clear" /\ generation = seen[c]
             /\ generation' = generation + 1 /\ lease' = generation + 1 /\ leased' = uri[c]
             /\ seen'[c] = generation + 1
    <3>1. \A d \in Clients : d # c => seen'[d] <= generation' /\ seen'[d] # generation'
      BY <1>0, <2>2, <2>5
    <3>2. closed' <= generation' /\ closed' < lease'
      BY <1>0, <2>1, <2>5
    <3>3. upc # "event" => leased' = project
      BY <2>5
    <3>4. seen'[c] <= generation' /\ lease' = generation'
      BY <1>0, <2>5
    <3>. QED BY <2>1, <2>5, <3>1, <3>2, <3>3, <3>4
  <2>. QED BY <1>1, <2>3, <2>4, <2>5, LeaseOfStep
<1>2. CASE UNCHANGED <<generation, lease, leased, closed, pc, seen, uri, editedIn, project, upc>>
  BY <1>2
<1>3. ASSUME NEW j \in Jobs, JobStep(j)  PROVE LeaseAgree'
  BY <1>2, <1>3 DEF JobStep, ToolReturns, Judge, Register, Report, JobFrame, WindowFrame, clientVars,
     leaseVars
<1>4. CASE SwitchProject
  BY <1>4 DEF SwitchProject, leaseVars, clientVars
<1>5. CASE Invalidate
  <2>1. generation' = generation + 1 /\ lease' = 0 /\ closed' = generation + 1 /\ UNCHANGED <<pc, seen>>
    BY <1>5 DEF Invalidate, EndLease, clientVars
  <2>2. \A d \in Clients : seen'[d] <= generation' /\ seen'[d] # generation'
    BY <1>0, <2>1
  <2>3. closed' <= generation'
    BY <1>0, <2>1
  <2>. QED BY <2>1, <2>2, <2>3
<1>6. CASE OnProjectChangedClear \/ OnProjectChangedCancel
  BY <1>6 DEF OnProjectChangedClear, OnProjectChangedCancel, leaseVars, clientVars
<1>7. CASE Lapse \/ UNCHANGED vars
  BY <1>2, <1>7 DEF Lapse, vars, leaseVars, clientVars
<1>. QED BY <1>1, <1>3, <1>4, <1>5, <1>6, <1>7 DEF Next, EventStep

-----------------------------------------------------------------------------
(* The work of a lease that has ended.                                     *)

WorkAgree == ProjectChangeCancels /\ WorkEndsWithLease

\* The jobs past the lease test, their leases and the requests to cancel them: nothing
\* is added but a job of the lease that is current.
WorkCalm ==
  /\ \A j \in Jobs : Committed(j)' =>
       /\ owner'[j] = owner[j] /\ (j \in asked => j \in asked')
       /\ Committed(j) \/ (lease # 0 /\ owner[j] = lease)
  /\ lapsed \subseteq lapsed' /\ UNCHANGED closed

\* A calm step that ends no lease without being about to cancel keeps the work in hand.
LEMMA CalmWork ==
  ASSUME TypeOK, LeaseAgree, WorkAgree, WorkCalm,
         upc' \in {"idle", "event"} => upc \in {"idle", "event"},
         ~Cancelling' => ~Cancelling,
         lease' = lease \/ (lease \in lapsed /\ lease' = 0) \/ Cancelling'
  PROVE  WorkAgree'
<1>0. owner \in [Jobs -> Nat] /\ lease \in Nat /\ closed \in Nat
  BY DEF TypeOK
<1>1. ProjectChangeCancels'
  <2>1. ASSUME NEW j \in Jobs, Committed(j)', owner'[j] <= closed', upc' \in {"idle", "event"}
        PROVE  j \in asked'
    <3>1. /\ owner'[j] = owner[j] /\ (j \in asked => j \in asked')
          /\ Committed(j) \/ (lease # 0 /\ owner[j] = lease)
      BY <2>1 DEF WorkCalm
    <3>2. Committed(j)
      BY <1>0, <2>1, <3>1 DEF LeaseAgree, WorkCalm
    <3>. QED BY <2>1, <3>1, <3>2 DEF WorkAgree, ProjectChangeCancels, WorkCalm
  <2>. QED BY <2>1 DEF ProjectChangeCancels
<1>2. WorkEndsWithLease'
  <2>1. ASSUME NEW j \in Jobs, Committed(j)', ~Cancelling', owner'[j] # lease'
        PROVE  j \in asked' \/ owner'[j] \in lapsed'
    <3>1. /\ owner'[j] = owner[j] /\ (j \in asked => j \in asked')
          /\ Committed(j) \/ (lease # 0 /\ owner[j] = lease)
          /\ lapsed \subseteq lapsed'
      BY <2>1 DEF WorkCalm
    <3>2. CASE owner[j] = lease
      BY <2>1, <3>1, <3>2
    <3>3. CASE owner[j] # lease
      BY <2>1, <3>1, <3>3 DEF WorkAgree, WorkEndsWithLease
    <3>. QED BY <3>2, <3>3
  <2>. QED BY <2>1 DEF WorkEndsWithLease
<1>. QED BY <1>1, <1>2 DEF WorkAgree

\* Once everything that is live was asked to stop, nothing of an older lease goes on.
LEMMA AllAsked ==
  ASSUME \A j \in Jobs : Live(j)' => j \in asked'
  PROVE  WorkAgree'
BY DEF WorkAgree, ProjectChangeCancels, WorkEndsWithLease, Committed

\* The phases of CancelAll.
LEMMA CancelPhases ==
  ASSUME TypeOK, NEW c \in Clients, Begin(c) \/ ClientStep(c)
  PROVE  /\ pc[c] = "clear" => pc'[c] = "cancelAll"
         /\ pc[c] = "cancelAll" => CancelAll(c)
<1>0. pc \in [Clients -> ClientPc]
  BY DEF TypeOK
<1>1. CASE ClearAnalyses(c)
  BY <1>0, <1>1 DEF ClearAnalyses, Goto
<1>2. CASE CancelAll(c)
  BY <1>2 DEF CancelAll
<1>3. CASE ~ClearAnalyses(c) /\ ~CancelAll(c)
  BY <1>3 DEF ClientStep, Resting, Begin, EnterGate, GateBusy, Observe, Capture, Install, Release, Lookup,
     CaptureUri, Recheck, JobCheck, Start, AddJob, Confirm, Launch, CancelJob, Precheck, Edit, Post
<1>. QED BY <1>1, <1>2, <1>3

\* No step leaves a job of an ended lease unasked.
LEMMA WorkStep ==
  ASSUME TypeOK, GateHeld, JobsAgree, LeaseAgree, WorkAgree, [Next]_vars
  PROVE  WorkAgree'
<1>0. /\ pc \in [Clients -> ClientPc] /\ job \in [Clients -> Jobs \cup {NoJob}]
      /\ status \in [Jobs -> Statuses] /\ owner \in [Jobs -> Nat]
  BY DEF TypeOK
\* A request: once the committed jobs are known, CalmWork applies.
<1>1. ASSUME NEW c \in Clients, Begin(c) \/ ClientStep(c), WorkCalm, pc[c] # "cancelAll"
      PROVE  WorkAgree'
  <2>1. /\ UNCHANGED <<upc, lapsed>>
        /\ lease' = lease \/ (lease \in lapsed /\ lease' = 0) \/ pc'[c] = "clear"
    BY <1>1, LeaseOfStep DEF EndLease
  <2>2. \A d \in Clients : d # c => pc'[d] = pc[d]
    BY <1>1, Others
  <2>3. pc[c] = "clear" => pc'[c] = "cancelAll"
    BY <1>1, CancelPhases
  <2>4. ~Cancelling' => ~Cancelling
    BY <1>1, <2>1, <2>2, <2>3 DEF Cancelling
  <2>5. lease' = lease \/ (lease \in lapsed /\ lease' = 0) \/ Cancelling'
    BY <2>1 DEF Cancelling
  <2>. QED BY <1>1, <2>1, <2>4, <2>5, CalmWork
<1>2. ASSUME NEW c \in Clients, CancelAll(c)  PROVE WorkAgree'
  <2>1. RequestCancel(Jobs) /\ UNCHANGED retained
    BY <1>2 DEF CancelAll
  <2>. QED BY <2>1, CancelKeepsLive, AllAsked
<1>3. ASSUME NEW c \in Clients, Quiet(c), ~CancelAll(c)  PROVE WorkAgree'
  <2>1. Begin(c) \/ ClientStep(c)
    BY <1>3 DEF Quiet, ClientStep
  <2>2. /\ pc[c] \notin Submitting /\ pc'[c] \notin Submitting
        /\ UNCHANGED <<retained, jpc, owner>>
        /\ UNCHANGED <<status, asked>> \/ \E S \in SUBSET Jobs : RequestCancel(S)
    BY <1>3, QuietSteps
  <2>3. \A j \in Jobs : (Live(j)' <=> Live(j)) /\ (j \in asked => j \in asked')
    <3>1. CASE UNCHANGED <<status, asked>>
      BY <2>2, <3>1 DEF Live
    <3>2. CASE \E S \in SUBSET Jobs : RequestCancel(S)
      BY <2>2, <3>2, CancelKeepsLive
    <3>. QED BY <2>2, <3>1, <3>2
  <2>4. \A d \in Clients : d # c => pc'[d] = pc[d] /\ job'[d] = job[d]
    BY <2>1, Others
  <2>5. \A j \in Jobs : Committed(j)' => Committed(j)
    BY <2>2, <2>3, <2>4 DEF Committed, Submitting
  <2>6. UNCHANGED <<closed, lapsed>>
    BY <2>1, LeaseOfStep
  <2>7. WorkCalm
    BY <2>2, <2>3, <2>5, <2>6 DEF WorkCalm
  <2>8. pc[c] # "cancelAll"
    BY <1>3, <2>1, CancelPhases
  <2>. QED BY <1>1, <2>1, <2>7, <2>8
\* The submission of a job: committed by the lease test, and not before.
<1>4. ASSUME NEW c \in Clients, Start(c) \/ Confirm(c) \/ Launch(c)  PROVE WorkAgree'
  <2>1. ClientStep(c)
    BY <1>4 DEF ClientStep
  <2>2. \A d \in Clients : d # c => pc'[d] = pc[d] /\ job'[d] = job[d]
    BY <2>1, Others
  <2>3. UNCHANGED <<closed, lapsed>>
    BY <2>1, LeaseOfStep
  <2>4. UNCHANGED <<owner, asked, retained>>
    BY <1>4 DEF Start, Confirm, Launch, Refuse, Move, jobVars
  <2>5. \A j \in Jobs : Live(j)' => Live(j)
    <3>1. CASE UNCHANGED status
      BY <2>4, <3>1 DEF Live
    <3>2. CASE Launch(c)
      BY <1>0, <2>4, <3>2 DEF Launch, Live, Terminal
    <3>3. CASE Confirm(c) /\ ~Move(c, "launch")
      BY <1>0, <2>4, <3>3 DEF Confirm, Live, Terminal
    <3>. QED BY <1>4, <3>1, <3>2, <3>3 DEF Start, Refuse, Move, jobVars
  <2>6. ASSUME NEW j \in Jobs, Committed(j)', ~Committed(j)
        PROVE  lease # 0 /\ owner[j] = lease
    <3>1. Live(j)' /\ Live(j)
      BY <2>5, <2>6 DEF Committed
    <3>2. pc[c] = "confirm" /\ job[c] = j
      BY <2>2, <2>6, <3>1 DEF Committed
    <3>3. owner[j] = seen[c]
      BY <3>2 DEF JobsAgree, Submissions
    <3>4. Confirm(c)
      BY <1>4, <3>2 DEF Start, Launch
    <3>5. CASE IsCurrent(seen[c])
      BY <3>3, <3>5 DEF IsCurrent
    <3>6. CASE ~IsCurrent(seen[c])
      <4>1. status'[j] = "canceledBeforeStart"
        BY <1>0, <3>2, <3>4, <3>6 DEF Confirm
      <4>. QED BY <3>1, <4>1 DEF Live, Terminal
    <3>. QED BY <3>5, <3>6
  <2>7. WorkCalm
    BY <2>3, <2>4, <2>6 DEF WorkCalm
  <2>8. pc[c] # "cancelAll"
    BY <1>4 DEF Start, Confirm, Launch
  <2>. QED BY <1>1, <2>1, <2>7, <2>8
<1>5. ASSUME NEW c \in Clients, AddJob(c)  PROVE WorkAgree'
  <2>1. JobsAgree' /\ pc[c] = "add" /\ pc'[c] = "confirm" /\ ClientStep(c)
    BY <1>0, <1>5, JobsStep DEF AddJob, Goto, ClientStep
  <2>2. \A j \in Jobs : ~Committed(j)'
    BY <2>1 DEF JobsAgree, OneRunningJob, Submissions, Committed
  <2>3. UNCHANGED <<closed, lapsed>>
    BY <2>1, LeaseOfStep
  <2>4. WorkCalm
    BY <2>2, <2>3 DEF WorkCalm
  <2>. QED BY <1>1, <2>1, <2>4
<1>6. ASSUME UNCHANGED <<owner, asked, retained, pc, job, closed, lease>>, lapsed \subseteq lapsed',
             \A j \in Jobs : Live(j)' => Live(j),
             upc' = upc \/ (upc = "idle" /\ upc' = "event")
      PROVE  WorkAgree'
  <2>1. \A j \in Jobs : Committed(j)' => Committed(j)
    BY <1>6 DEF Committed
  <2>2. WorkCalm
    BY <1>6, <2>1 DEF WorkCalm
  <2>3. ~Cancelling' => ~Cancelling
    BY <1>6 DEF Cancelling
  <2>. QED BY <1>6, <2>2, <2>3, CalmWork
<1>7. ASSUME NEW j \in Jobs, JobStep(j)  PROVE WorkAgree'
  <2>1. UNCHANGED <<owner, asked, retained, pc, job, closed, lease, lapsed, upc>>
    BY <1>7 DEF JobStep, ToolReturns, Judge, Register, Report, JobFrame, WindowFrame, clientVars, leaseVars
  <2>2. Live(j)
    BY <1>7 DEF JobStep, ToolReturns, Judge, Register, Report, JobsAgree, OneRunningJob
  <2>3. \A i \in Jobs : i # j => status'[i] = status[i]
    BY <1>0, <1>7 DEF JobStep, ToolReturns, Judge, Register, Report
  <2>4. \A i \in Jobs : Live(i)' => Live(i)
    BY <2>1, <2>2, <2>3 DEF Live
  <2>. QED BY <1>6, <2>1, <2>4
<1>8. CASE SwitchProject \/ Lapse \/ UNCHANGED vars
  <2>1. UNCHANGED <<owner, asked, retained, status, pc, job, closed, lease>>
    BY <1>8 DEF SwitchProject, Lapse, vars, clientVars, leaseVars, jobVars
  <2>2. lapsed \subseteq lapsed'
    BY <1>8 DEF SwitchProject, Lapse, vars
  <2>3. upc' = upc \/ (upc = "idle" /\ upc' = "event")
    BY <1>8 DEF SwitchProject, Lapse, vars
  <2>4. \A i \in Jobs : Live(i)' => Live(i)
    BY <2>1 DEF Live
  <2>. QED BY <1>6, <2>1, <2>2, <2>3, <2>4
<1>9. CASE Invalidate \/ OnProjectChangedClear
  <2>1. upc' \in {"clear", "cancelAll"}
    BY <1>9 DEF Invalidate, OnProjectChangedClear
  <2>. QED BY <2>1 DEF WorkAgree, ProjectChangeCancels, WorkEndsWithLease, Cancelling
<1>10. CASE OnProjectChangedCancel
  <2>1. RequestCancel(Jobs) /\ UNCHANGED retained
    BY <1>10 DEF OnProjectChangedCancel
  <2>. QED BY <2>1, CancelKeepsLive, AllAsked
<1>. QED BY <1>2, <1>3, <1>4, <1>5, <1>7, <1>8, <1>9, <1>10 DEF Next, ClientStep, EventStep, Quiet

-----------------------------------------------------------------------------
(* The theorems.                                                           *)

IInv == TypeOK /\ GateHeld /\ JobsAgree /\ LeaseAgree /\ WorkAgree

\* The bridge starts without a lease and without jobs.
LEMMA InitAgrees == Init => IInv
<1>. SUFFICES ASSUME Init  PROVE IInv
  OBVIOUS
<1>. USE SdkBridgeAssumption DEF Init
<1>1. TypeOK
  <2>1. "idle" \in ClientPc /\ "read" \in AllRoutes /\ "none" \in Statuses /\ "none" \in JobPc
    BY DEF ClientPc, Resting, AllRoutes, Statuses, JobPc
  <2>. QED BY <2>1 DEF TypeOK
<1>2. GateHeld
  BY DEF GateHeld, Inside
<1>3. \A j \in Jobs : ~Live(j)
  BY DEF Live, ToSet
<1>4. JobsAgree
  BY <1>3 DEF JobsAgree, OneRunningJob, Submissions
<1>5. LeaseAgree
  BY DEF LeaseAgree, LeaseNamesOpenProject
<1>6. WorkAgree
  BY <1>3 DEF WorkAgree, ProjectChangeCancels, WorkEndsWithLease, Committed
<1>. QED BY <1>1, <1>2, <1>4, <1>5, <1>6 DEF IInv

\* The inductive invariant: the gate is held by one request, the jobs of submissions are
\* live and not started, the lease is the last generation and names the open project, and
\* the jobs past their lease test belong to it or were asked to stop.
THEOREM Invariance == Spec => []IInv
<1>1. IInv /\ [Next]_vars => IInv'
  BY TypeStep, GateStep, JobsStep, LeaseStep, WorkStep DEF IInv
<1>. QED BY <1>1, InitAgrees, PTL DEF Spec

\* The type invariant of the bridge: leases, requests and jobs are of their kinds.
THEOREM TypeCorrect == Spec => []TypeOK
<1>1. IInv => TypeOK
  BY DEF IInv
<1>. QED BY <1>1, Invariance, PTL

\* At most one job of GpJobController is not finished, and a job whose RunAsync goes on is
\* in the dictionary, for any number of connections and jobs.
THEOREM OneJob == Spec => []OneRunningJob
<1>1. IInv => OneRunningJob
  BY DEF IInv, JobsAgree
<1>. QED BY <1>1, Invariance, PTL

\* No job blocks the bridge for ever: behind every live job is a RunAsync under way, or the
\* request that added it and that holds the gate until it launches it or gives it up.
THEOREM JobsHaveRunners == Spec => []LiveJobHasRunner
<1>1. Init => RunnerAgree
  BY DEF Init, RunnerAgree, Live, ToSet
<1>2. IInv /\ IInv' /\ RunnerAgree /\ [Next]_vars => RunnerAgree'
  BY RunnerStep DEF IInv
<1>3. IInv /\ RunnerAgree => LiveJobHasRunner
  BY DEF IInv, RunnerAgree, GateHeld, Inside, LiveJobHasRunner
<1>. QED BY <1>1, <1>2, <1>3, Invariance, PTL DEF Spec

\* No job of a project that was left runs on without having been asked to stop, once
\* OnProjectChanged is through.
THEOREM SwitchCancels == Spec => []ProjectChangeCancels
<1>1. IInv => ProjectChangeCancels
  BY DEF IInv, WorkAgree
<1>. QED BY <1>1, Invariance, PTL

\* However a lease ends, its job was asked to stop, unless the lease had expired.
THEOREM LeaseEnds == Spec => []WorkEndsWithLease
<1>1. IInv => WorkEndsWithLease
  BY DEF IInv, WorkAgree
<1>. QED BY <1>1, Invariance, PTL

\* The lease names the open project, until the event of a switch is due.
THEOREM LeaseNames == Spec => []LeaseNamesOpenProject
<1>1. IInv => LeaseNamesOpenProject
  BY DEF IInv, LeaseAgree
<1>. QED BY <1>1, Invariance, PTL

\* "ok" answers an edit in the project of the lease, which is still current.
THEOREM EditsInProject == Spec => EditInLeasedProject
<1>1. IInv /\ [Next]_vars =>
        [\A c \in Clients : pc[c] = "post" /\ pc'[c] = "ok" => editedIn[c] = leased \/ upc = "event"]_vars
  <2>. SUFFICES ASSUME IInv, [Next]_vars, NEW c \in Clients, pc[c] = "post", pc'[c] = "ok"
                PROVE  editedIn[c] = leased \/ upc = "event"
    OBVIOUS
  <2>0. pc \in [Clients -> ClientPc]
    BY DEF IInv, TypeOK
  <2>1. PICK d \in Clients : Begin(d) \/ ClientStep(d)
    <3>1. pc' # pc
      OBVIOUS
    <3>. QED BY <3>1 DEF Next, JobStep, ToolReturns, Judge, Register, Report, JobFrame, EventStep, Invalidate,
            OnProjectChangedClear, OnProjectChangedCancel, SwitchProject, Lapse, vars, clientVars
  <2>2. d = c
    BY <2>1, Others DEF IInv
  <2>3. Post(c)
    BY <2>1, <2>2 DEF ClientStep, Resting, Begin, EnterGate, GateBusy, Observe, Capture, Install, Release,
       Lookup, CaptureUri, Recheck, JobCheck, Start, AddJob, Confirm, Launch, CancelJob, Precheck, Edit,
       ClearAnalyses, CancelAll
  <2>4. IsCurrent(seen[c])
    BY <2>0, <2>3 DEF Post, Refuse, Answer, Goto
  <2>. QED BY <2>4 DEF IsCurrent, IInv, LeaseAgree
<1>. QED BY <1>1, Invariance, PTL DEF Spec, EditInLeasedProject

\* A finished job keeps its status until it is trimmed: no cancel or report overwrites it.
THEOREM FinalStays == Spec => TerminalIsFinal
<1>1. IInv /\ [Next]_vars =>
        [\A j \in Jobs : status[j] \in Terminal => status'[j] \in {status[j], "none", "queued"}]_vars
  <2>. SUFFICES ASSUME IInv, [Next]_vars, NEW j \in Jobs, status[j] \in Terminal
                PROVE  status'[j] \in {status[j], "none", "queued"}
    OBVIOUS
  <2>0. status \in [Jobs -> Statuses]
    BY DEF IInv, TypeOK
  <2>1. ~Live(j)
    BY DEF Live
  <2>2. ASSUME NEW S, RequestCancel(S), UNCHANGED retained  PROVE status'[j] = status[j]
    BY <2>2, CancelKeepsLive DEF IInv
  <2>3. ASSUME NEW c \in Clients, Quiet(c)  PROVE status'[j] = status[j]
    BY <2>2, <2>3, QuietSteps DEF IInv
  <2>4. ASSUME NEW c \in Clients, AddJob(c)  PROVE status'[j] \in {status[j], "none", "queued"}
    BY <2>0, <2>4 DEF AddJob
  <2>5. ASSUME NEW c \in Clients, Start(c) \/ Confirm(c) \/ Launch(c)  PROVE status'[j] = status[j]
    <3>1. pc[c] \in {"confirm", "launch"} => job[c] # j
      BY <2>1 DEF IInv, JobsAgree, Submissions
    <3>. QED BY <2>0, <2>5, <3>1 DEF Start, Confirm, Launch, Refuse, Move, jobVars
  <2>6. ASSUME NEW i \in Jobs, JobStep(i)  PROVE status'[j] = status[j]
    <3>1. i # j
      BY <2>1, <2>6 DEF IInv, JobsAgree, OneRunningJob, JobStep, ToolReturns, Judge, Register, Report
    <3>. QED BY <2>0, <2>6, <3>1 DEF JobStep, ToolReturns, Judge, Register, Report
  <2>7. CASE EventStep \/ SwitchProject \/ Lapse \/ UNCHANGED vars
    BY <2>2, <2>7 DEF EventStep, Invalidate, OnProjectChangedClear, OnProjectChangedCancel, SwitchProject,
       Lapse, vars, jobVars
  <2>. QED BY <2>3, <2>4, <2>5, <2>6, <2>7 DEF Next, ClientStep, Quiet
<1>. QED BY <1>1, Invariance, PTL DEF Spec, TerminalIsFinal

-----------------------------------------------------------------------------
(***************************************************************************)
(* The event ring of the add-in: for any number of threads, readers,       *)
(* waiters and maps and any capacity, EventRing is type correct, a cursor  *)
(* passes no event silently, and "drawn" means the map that was asked for. *)
(*                                                                         *)
(* The argument: the ring always holds the last events without a gap, so   *)
(* that an event after the cursor and no longer in the ring makes the      *)
(* cursor predate it; and a draw generation above the one a refresh began  *)
(* with was written for its map since.                                     *)
(***************************************************************************)

\* The ring holds the last Len(ring) events in order, and the cursors are behind.
NoGap ==
  /\ Len(ring) <= Capacity /\ Len(ring) <= sequence
  /\ \A i \in 1 .. Len(ring) : ring[i] = sequence - Len(ring) + i
  /\ sequence > 0 => Len(ring) > 0

CursorsBehind == \A r \in Readers : cursor[r] <= sequence

\* A map's draw generation is one that was given out, and one that came after a
\* refresh began is the draw the refresh waits for.
DrawsGiven == \A m \in Maps : lastDraw[m] <= drawGen
DrawsSeen ==
  \A w \in Waiters : wpc[w] # "idle" /\ lastDraw[wmap[w]] > after[w] => drawn[w]

RingInv == EventsTypeOK /\ NoGap /\ CursorsBehind /\ NoSilentLoss
DrawInv == EventsTypeOK /\ DrawsGiven /\ DrawsSeen /\ DrawnMeansDrawn
EventsInv == RingInv /\ DrawInv

-----------------------------------------------------------------------------
(* The batch of a read.                                                    *)

LEMMA RingIsInterval ==
  ASSUME EventsTypeOK, NoGap
  PROVE  ToSet(ring) = First .. sequence
<1>. USE EventRingAssumption DEF EventsTypeOK, NoGap
<1>1. CASE ring = <<>>
  BY <1>1 DEF ToSet, First
<1>2. CASE ring # <<>>
  <2>1. Len(ring) \in Nat /\ Len(ring) > 0 /\ DOMAIN ring = 1 .. Len(ring)
    BY <1>2
  <2>2. First = sequence - Len(ring) + 1
    BY <1>2, <2>1 DEF First
  <2>3. ToSet(ring) \subseteq First .. sequence
    BY <2>1, <2>2 DEF ToSet
  <2>4. ASSUME NEW e \in First .. sequence  PROVE e \in ToSet(ring)
    <3>. DEFINE i == e - (sequence - Len(ring))
    <3>1. i \in 1 .. Len(ring)
      BY <2>1, <2>2
    <3>2. ring[i] = e
      BY <3>1, <2>1
    <3>. QED BY <3>1, <3>2, <2>1 DEF ToSet
  <2>. QED BY <2>3, <2>4
<1>. QED BY <1>1, <1>2

LEMMA FirstOfRing ==
  ASSUME EventsTypeOK, NoGap
  PROVE  First \in Nat /\ First > 0 /\ First <= sequence + 1
<1>. USE EventRingAssumption DEF EventsTypeOK, NoGap
<1>1. CASE ring = <<>>
  BY <1>1 DEF First
<1>2. CASE ring # <<>>
  <2>1. Len(ring) \in Nat /\ Len(ring) > 0
    BY <1>2
  <2>2. First = sequence - Len(ring) + 1
    BY <1>2, <2>1 DEF First
  <2>. QED BY <2>1, <2>2
<1>. QED BY <1>1, <1>2

\* The batch leaves out no event of the ring between the cursor and its last one.
LEMMA BatchIsInterval ==
  ASSUME EventsTypeOK, NoGap, CursorsBehind, NEW r \in Readers
  PROVE  /\ Batch(r) \subseteq Nat
         /\ LastOf(r) \in Nat /\ cursor[r] <= LastOf(r) /\ LastOf(r) <= sequence
         /\ \A e \in Nat : cursor[r] < e /\ First <= e /\ e <= LastOf(r) => e \in Batch(r)
<1>1. /\ sequence \in Nat /\ cursor[r] \in Nat /\ cursor[r] <= sequence
      /\ Limit \in Nat /\ Limit > 0
  BY EventRingAssumption DEF EventsTypeOK, CursorsBehind
<1>. DEFINE lo == IF cursor[r] + 1 > First THEN cursor[r] + 1 ELSE First
            hi == IF sequence < lo + Limit - 1 THEN sequence ELSE lo + Limit - 1
<1>2. First \in Nat /\ First > 0 /\ First <= sequence + 1
  BY FirstOfRing
<1>3. /\ lo \in Nat /\ lo > cursor[r] /\ lo >= First
      /\ \A e \in Nat : e > cursor[r] /\ e >= First <=> e >= lo
  BY <1>1, <1>2
<1>4. Newer(r) = lo .. sequence
  <2>1. ToSet(ring) = First .. sequence
    BY RingIsInterval
  <2>. QED BY <2>1, <1>1, <1>2, <1>3 DEF Newer
<1>. HIDE DEF lo
<1>5. ASSUME NEW e \in lo .. sequence
      PROVE  Cardinality({f \in Newer(r) : f < e}) = e - lo
  <2>1. {f \in Newer(r) : f < e} = lo .. (e - 1)
    BY <1>1, <1>3, <1>4
  <2>2. lo \in Int /\ e - 1 \in Int /\ e \in Int /\ lo <= e
    BY <1>1, <1>3
  <2>3. Cardinality(lo .. (e - 1)) = IF lo > e - 1 THEN 0 ELSE (e - 1) - lo + 1
    BY <2>2, FS_Interval
  <2>4. (IF lo > e - 1 THEN 0 ELSE (e - 1) - lo + 1) = e - lo
    BY <2>2
  <2>. QED BY <2>1, <2>3, <2>4
<1>6. hi \in Int /\ hi <= sequence /\ (lo <= hi => hi \in Nat)
  BY <1>1, <1>3
<1>7. Batch(r) = lo .. hi
  <2>1. Batch(r) = {e \in lo .. sequence : e - lo < Limit}
    BY <1>4, <1>5 DEF Batch
  <2>. QED BY <2>1, <1>1, <1>3
<1>. HIDE DEF hi
<1>8. CASE lo > hi
  <2>1. Batch(r) = {}
    BY <1>8, <1>7, <1>6, <1>3
  <2>2. LastOf(r) = cursor[r]
    BY <2>1 DEF LastOf
  <2>3. ASSUME NEW e \in Nat, cursor[r] < e, e <= LastOf(r)  PROVE FALSE
    BY <2>2, <2>3, <1>1
  <2>4. /\ LastOf(r) \in Nat /\ cursor[r] <= LastOf(r) /\ LastOf(r) <= sequence
    BY <1>1, <2>2
  <2>5. Batch(r) \subseteq Nat
    BY <2>1
  <2>. QED BY <2>3, <2>4, <2>5
<1>9. CASE lo <= hi
  <2>1. Batch(r) # {}
    <3>1. lo \in lo .. hi
      BY <1>9, <1>6, <1>3
    <3>. QED BY <3>1, <1>7
  <2>2. Max(lo .. hi) = hi
    BY <1>9, <1>3, <1>6 DEF Max
  <2>3. LastOf(r) = hi
    BY <2>1, <1>7, <2>2 DEF LastOf
  <2>. QED BY <1>1, <1>3, <1>6, <1>7, <1>9, <2>3
<1>. QED BY <1>8, <1>9, <1>3, <1>6

\* Publishing keeps the ring without a gap.
LEMMA KeptNoGap ==
  ASSUME EventsTypeOK, NoGap
  PROVE  /\ Kept(sequence + 1) \in Seq(Nat)
         /\ Len(Kept(sequence + 1)) \in 1 .. Capacity
         /\ Len(Kept(sequence + 1)) <= sequence + 1
         /\ \A i \in 1 .. Len(Kept(sequence + 1)) :
              Kept(sequence + 1)[i] = sequence + 1 - Len(Kept(sequence + 1)) + i
<1>. DEFINE k == Kept(sequence + 1)
<1>1. /\ sequence \in Nat /\ ring \in Seq(Nat) /\ Len(ring) \in Nat
      /\ Capacity \in Nat /\ Capacity > 0
      /\ Len(ring) <= Capacity /\ Len(ring) <= sequence
      /\ \A i \in 1 .. Len(ring) : ring[i] = sequence - Len(ring) + i
  BY EventRingAssumption DEF EventsTypeOK, NoGap
<1>2. CASE Len(ring) < Capacity
  <2>1. k = Append(ring, sequence + 1)
    BY <1>2 DEF Kept
  <2>2. /\ Append(ring, sequence + 1) \in Seq(Nat)
        /\ Len(Append(ring, sequence + 1)) = Len(ring) + 1
        /\ \A i \in 1 .. Len(ring) : Append(ring, sequence + 1)[i] = ring[i]
        /\ Append(ring, sequence + 1)[Len(ring) + 1] = sequence + 1
    BY <1>1
  <2>3. ASSUME NEW i \in 1 .. Len(ring) + 1
        PROVE  Append(ring, sequence + 1)[i] = sequence + 1 - (Len(ring) + 1) + i
    BY <1>1, <2>2
  <2>. HIDE DEF k
  <2>4. k \in Seq(Nat) /\ Len(k) = Len(ring) + 1
    BY <2>1, <2>2
  <2>5. \A i \in 1 .. Len(k) : k[i] = sequence + 1 - Len(k) + i
    BY <2>1, <2>3, <2>4
  <2>. QED BY <1>1, <1>2, <2>4, <2>5 DEF k
<1>3. CASE ~(Len(ring) < Capacity)
  <2>1. k = Append(Tail(ring), sequence + 1)
    BY <1>3 DEF Kept
  <2>2. Len(ring) = Capacity /\ ring # <<>>
    BY <1>1, <1>3
  <2>3. /\ Tail(ring) \in Seq(Nat) /\ Len(Tail(ring)) = Len(ring) - 1
        /\ \A i \in 1 .. Len(ring) - 1 : Tail(ring)[i] = ring[i + 1]
    BY <1>1, <2>2
  <2>. HIDE DEF k
  <2>4. /\ k \in Seq(Nat) /\ Len(k) = Len(ring)
        /\ \A i \in 1 .. Len(ring) - 1 : k[i] = Tail(ring)[i]
        /\ k[Len(ring)] = sequence + 1
    BY <1>1, <2>1, <2>3
  <2>5. ASSUME NEW i \in 1 .. Len(ring)
        PROVE  k[i] = sequence + 1 - Len(ring) + i
    <3>1. CASE i = Len(ring)
      BY <3>1, <1>1, <2>4
    <3>2. CASE i # Len(ring)
      <4>1. i \in 1 .. Len(ring) - 1 /\ i + 1 \in 1 .. Len(ring)
        BY <3>2, <1>1
      <4>. QED BY <4>1, <1>1, <2>3, <2>4
    <3>. QED BY <3>1, <3>2
  <2>6. \A i \in 1 .. Len(k) : k[i] = sequence + 1 - Len(k) + i
    BY <2>4, <2>5
  <2>. QED BY <1>1, <2>2, <2>4, <2>6 DEF k
<1>. QED BY <1>2, <1>3

-----------------------------------------------------------------------------
(* The ring.                                                               *)

\* A reader that takes its batch leaves no event behind that it was not told about.
LEMMA RespondTells ==
  ASSUME RingInv, NEW r \in Readers, Respond(r)
  PROVE  RingInv'
<1>. USE DEF RingInv
<1>1. /\ Batch(r) \subseteq Nat
      /\ LastOf(r) \in Nat /\ cursor[r] <= LastOf(r) /\ LastOf(r) <= sequence
      /\ \A e \in Nat : cursor[r] < e /\ First <= e /\ e <= LastOf(r) => e \in Batch(r)
  BY BatchIsInterval
<1>2. First \in Nat /\ First > 0
  BY FirstOfRing
<1>3. /\ sequence \in Nat /\ cursor \in [Readers -> Nat]
      /\ delivered \in [Readers -> SUBSET Nat] /\ excused \in [Readers -> SUBSET Nat]
  BY DEF EventsTypeOK
<1>4. /\ cursor' = [cursor EXCEPT ![r] = LastOf(r)]
      /\ delivered' = [delivered EXCEPT ![r] = @ \cup Batch(r)]
      /\ excused' = IF Truncated(r) \/ cursor[r] = 0
                    THEN [excused EXCEPT ![r] = @ \cup (cursor[r] + 1) .. (First - 1)]
                    ELSE excused
  BY DEF Respond
<1>5. EventsTypeOK'
  <2>1. (cursor[r] + 1) .. (First - 1) \subseteq Nat
    BY <1>2, <1>3
  <2>2. excused' \in [Readers -> SUBSET Nat]
    BY <1>3, <1>4, <2>1
  <2>3. /\ cursor' \in [Readers -> Nat] /\ delivered' \in [Readers -> SUBSET Nat]
    BY <1>1, <1>3, <1>4
  <2>. QED BY <2>2, <2>3 DEF EventsTypeOK, Respond, ringVars, drawVars, waitVars
<1>6. NoGap' /\ CursorsBehind'
  BY <1>1, <1>3, <1>4 DEF NoGap, CursorsBehind, Respond, ringVars
<1>7. ASSUME NEW q \in Readers  PROVE 1 .. cursor'[q] \subseteq delivered'[q] \cup excused'[q]
  <2>1. 1 .. cursor[q] \subseteq delivered[q] \cup excused[q]
    BY DEF NoSilentLoss
  <2>2. CASE q # r
    BY <2>1, <2>2, <1>3, <1>4
  <2>3. CASE q = r
    <3>1. delivered'[r] = delivered[r] \cup Batch(r) /\ cursor'[r] = LastOf(r)
      BY <1>3, <1>4
    <3>2. excused[r] \subseteq excused'[r]
      BY <1>3, <1>4
    <3>3. ASSUME NEW e \in 1 .. LastOf(r), e > cursor[r], e < First  PROVE e \in excused'[r]
      <4>1. Truncated(r) \/ cursor[r] = 0
        BY <3>3, <1>1, <1>2, <1>3 DEF Truncated
      <4>2. excused'[r] = excused[r] \cup (cursor[r] + 1) .. (First - 1)
        BY <4>1, <1>3, <1>4
      <4>. QED BY <4>2, <3>3, <1>1, <1>2, <1>3
    <3>4. ASSUME NEW e \in 1 .. LastOf(r), e > cursor[r], ~(e < First)  PROVE e \in Batch(r)
      BY <3>4, <1>1, <1>2, <1>3
    <3>5. ASSUME NEW e \in 1 .. LastOf(r), ~(e > cursor[r])  PROVE e \in 1 .. cursor[r]
      BY <3>5, <1>1, <1>3
    <3>. QED BY <2>1, <2>3, <3>1, <3>2, <3>3, <3>4, <3>5
  <2>. QED BY <2>2, <2>3
<1>. QED BY <1>5, <1>6, <1>7 DEF NoSilentLoss

LEMMA RingInit == EventsInit => RingInv
<1>. SUFFICES ASSUME EventsInit  PROVE RingInv
  OBVIOUS
<1>. USE EventRingAssumption DEF EventsInit
<1>1. EventsTypeOK
  BY DEF EventsTypeOK
<1>2. NoGap /\ CursorsBehind /\ NoSilentLoss
  BY DEF NoGap, CursorsBehind, NoSilentLoss
<1>. QED BY <1>1, <1>2 DEF RingInv

\* Every other step leaves the cursors and their histories alone.
LEMMA RingStep == RingInv /\ [EventsNext]_eventsVars => RingInv'
<1>. SUFFICES ASSUME RingInv, [EventsNext]_eventsVars  PROVE RingInv'
  OBVIOUS
<1>. USE EventRingAssumption DEF RingInv
<1>1. ASSUME NEW t \in Threads, Publish(t)  PROVE RingInv'
  <2>. USE <1>1 DEF Publish
  <2>1. EventsTypeOK'
    <3>1. Kept(sequence + 1) \in Seq(Nat)
      BY KeptNoGap
    <3>. HIDE DEF RingInv
    <3>2. EventsTypeOK
      BY DEF RingInv
    <3>3. sequence' \in Nat /\ ring' \in Seq(Nat)
      BY <3>1, <3>2 DEF EventsTypeOK
    <3>4. /\ tpc' \in [Threads -> {"idle", "fire", "fireDraw", "publish"}]
          /\ held' \in [Threads -> Nat]
      BY <3>2 DEF EventsTypeOK
    <3>. QED BY <3>2, <3>3, <3>4 DEF EventsTypeOK, drawVars, readVars, waitVars
  <2>2. NoGap'
    <3>1. sequence \in Nat
      BY DEF EventsTypeOK
    <3>2. /\ Len(Kept(sequence + 1)) \in 1 .. Capacity
          /\ Len(Kept(sequence + 1)) <= sequence + 1
          /\ \A i \in 1 .. Len(Kept(sequence + 1)) :
               Kept(sequence + 1)[i] = sequence + 1 - Len(Kept(sequence + 1)) + i
      BY KeptNoGap
    <3>. QED BY <3>1, <3>2 DEF NoGap
  <2>3. CursorsBehind' /\ NoSilentLoss'
    BY DEF EventsTypeOK, CursorsBehind, NoSilentLoss, readVars
  <2>. QED BY <2>1, <2>2, <2>3
<1>2. ASSUME NEW r \in Readers, Read(r) \/ ReadAgain(r)  PROVE RingInv'
  BY <1>2, RespondTells DEF Read, ReadAgain
<1>3. ASSUME UNCHANGED <<sequence, ring, cursor, delivered, excused>>, EventsTypeOK'  PROVE RingInv'
  BY <1>3 DEF NoGap, CursorsBehind, NoSilentLoss
<1>4. ASSUME NEW t \in Threads, Fire(t)  PROVE RingInv'
  <2>1. EventsTypeOK'
    BY <1>4 DEF Fire, EventsTypeOK, drawVars, readVars, waitVars
  <2>. QED BY <1>3, <1>4, <2>1 DEF Fire, readVars
<1>5. ASSUME NEW m \in Maps, DrawComplete(m)  PROVE RingInv'
  <2>1. EventsTypeOK'
    BY <1>5 DEF DrawComplete, EventsTypeOK, readVars
  <2>. QED BY <1>3, <1>5, <2>1 DEF DrawComplete, readVars
<1>10. ASSUME DrawWithoutMap  PROVE RingInv'
  <2>1. EventsTypeOK'
    BY <1>10 DEF DrawWithoutMap, EventsTypeOK, readVars, waitVars
  <2>. QED BY <1>3, <1>10, <2>1 DEF DrawWithoutMap, readVars
<1>6. ASSUME FireDraw  PROVE RingInv'
  <2>1. EventsTypeOK'
    BY <1>6 DEF FireDraw, EventsTypeOK, readVars, waitVars
  <2>. QED BY <1>3, <1>6, <2>1 DEF FireDraw, readVars
<1>7. ASSUME NEW r \in Readers, LongPoll(r) \/ Wake(r) \/ PollTimeout(r)  PROVE RingInv'
  <2>1. EventsTypeOK'
    <3>. USE DEF EventsTypeOK, ringVars, drawVars, waitVars
    <3>1. CASE LongPoll(r)
      BY <3>1 DEF LongPoll
    <3>2. CASE Wake(r)
      BY <3>2 DEF Wake
    <3>3. CASE PollTimeout(r)
      BY <3>3 DEF PollTimeout
    <3>. HIDE DEF EventsTypeOK
    <3>. QED
      BY <1>7, <3>1, <3>2, <3>3
  <2>. QED BY <1>3, <1>7, <2>1 DEF LongPoll, Wake, PollTimeout, ringVars
<1>8. ASSUME NEW w \in Waiters, Refresh(w) \/ Check(w) \/ WakeDraw(w) \/ DrawTimeout(w)
      PROVE  RingInv'
  <2>1. EventsTypeOK'
    <3>. USE DEF EventsTypeOK, ringVars, drawVars, readVars
    <3>1. CASE Refresh(w)
      BY <3>1 DEF Refresh
    <3>2. CASE Check(w)
      BY <3>2 DEF Check
    <3>3. CASE WakeDraw(w) \/ DrawTimeout(w)
      BY <3>3 DEF WakeDraw, DrawTimeout
    <3>. QED BY <1>8, <3>1, <3>2, <3>3
  <2>. QED BY <1>3, <1>8, <2>1 DEF Refresh, Check, WakeDraw, DrawTimeout, ringVars, readVars
<1>9. CASE UNCHANGED eventsVars
  <2>1. EventsTypeOK'
    BY <1>9 DEF EventsTypeOK, eventsVars, ringVars, drawVars, readVars, waitVars
  <2>. QED BY <1>3, <1>9, <2>1 DEF eventsVars, ringVars, readVars
<1>. QED BY <1>1, <1>2, <1>4, <1>5, <1>6, <1>7, <1>8, <1>9, <1>10 DEF EventsNext

-----------------------------------------------------------------------------
(* The draws.                                                              *)

LEMMA DrawInit == EventsInit => DrawsGiven /\ DrawsSeen /\ DrawnMeansDrawn
<1>1. EventsInit => DrawsGiven
  BY DEF EventsInit, DrawsGiven
<1>2. EventsInit => DrawsSeen
  BY DEF EventsInit, DrawsSeen
<1>3. EventsInit => DrawnMeansDrawn
  BY DEF EventsInit, DrawnMeansDrawn
<1>. QED BY <1>1, <1>2, <1>3

LEMMA DrawStep ==
  ASSUME EventsTypeOK, DrawsGiven, DrawsSeen, DrawnMeansDrawn, [EventsNext]_eventsVars
  PROVE  DrawsGiven' /\ DrawsSeen' /\ DrawnMeansDrawn'
<1>. USE DEF EventsTypeOK, DrawsGiven, DrawsSeen, DrawnMeansDrawn
<1>1. ASSUME NEW m \in Maps, DrawComplete(m)  PROVE DrawsGiven' /\ DrawsSeen' /\ DrawnMeansDrawn'
  <2>1. \A w \in Waiters : drawn[w] \/ wmap[w] = m => drawn'[w]
    BY <1>1 DEF DrawComplete
  <2>2. /\ lastDraw' = [lastDraw EXCEPT ![m] = drawGen + 1] /\ drawGen' = drawGen + 1
        /\ UNCHANGED <<wpc, wmap, after>>
    BY <1>1 DEF DrawComplete
  <2>3. DrawsGiven'
    BY <2>2
  <2>4. ASSUME NEW w \in Waiters, wpc[w] # "idle", lastDraw'[wmap[w]] > after[w], wmap[w] # m
        PROVE  drawn[w]
    BY <2>2, <2>4
  <2>. HIDE DEF EventsTypeOK
  <2>5. DrawsSeen' /\ DrawnMeansDrawn'
    BY <2>1, <2>2, <2>4
  <2>. QED BY <2>3, <2>5
<1>2. ASSUME NEW w \in Waiters, Refresh(w)  PROVE DrawsGiven' /\ DrawsSeen' /\ DrawnMeansDrawn'
  <2>1. lastDraw[wmap[w]] <= after'[w]
    BY <1>2 DEF Refresh
  <2>. QED BY <1>2, <2>1 DEF Refresh, drawVars, ringVars
<1>3. ASSUME NEW w \in Waiters, Check(w) \/ WakeDraw(w) \/ DrawTimeout(w)
      PROVE  DrawsGiven' /\ DrawsSeen' /\ DrawnMeansDrawn'
  BY <1>3 DEF Check, WakeDraw, DrawTimeout, drawVars
<1>4. ASSUME UNCHANGED <<drawGen, lastDraw, wpc, wmap, after, drawn>>
      PROVE  DrawsGiven' /\ DrawsSeen' /\ DrawnMeansDrawn'
  BY <1>4
<1>5. ASSUME NEW t \in Threads, Publish(t) \/ Fire(t)
      PROVE  DrawsGiven' /\ DrawsSeen' /\ DrawnMeansDrawn'
  BY <1>4, <1>5 DEF Publish, Fire, drawVars, waitVars
<1>6. CASE FireDraw
  BY <1>4, <1>6 DEF FireDraw, waitVars
<1>9. CASE DrawWithoutMap
  BY <1>9 DEF DrawWithoutMap, waitVars
<1>7. ASSUME NEW r \in Readers,
             Read(r) \/ ReadAgain(r) \/ LongPoll(r) \/ Wake(r) \/ PollTimeout(r)
      PROVE  DrawsGiven' /\ DrawsSeen' /\ DrawnMeansDrawn'
  BY <1>4, <1>7 DEF Read, ReadAgain, Respond, LongPoll, Wake, PollTimeout, drawVars, waitVars
<1>8. CASE UNCHANGED eventsVars
  BY <1>4, <1>8 DEF eventsVars, drawVars, waitVars
<1>. QED BY <1>1, <1>2, <1>3, <1>5, <1>6, <1>7, <1>8, <1>9 DEF EventsNext

-----------------------------------------------------------------------------
(* The signals.                                                            *)

\* A signal that was replaced is completed, or about to be by the thread that replaced it.
EventSignals ==
  \A n \in Nat : n < sequence =>
    n \in fired \/ \E t \in Threads : tpc[t] = "fire" /\ held[t] = n
DrawSignals ==
  \A n \in Nat : n < drawGen =>
    n \in drawFired \/ (tpc[UiThread] = "fireDraw" /\ held[UiThread] = n)

\* A reader waits for the signal after its cursor, and a refresh that waits while its map
\* was drawn waits for a signal that was replaced.
ReaderWaits == \A r \in Readers : rpc[r] = "waiting" => awaits[r] = cursor[r]
DrawWaits ==
  \A w \in Waiters :
    /\ after[w] <= drawGen
    /\ drawn[w] => lastDraw[wmap[w]] > after[w]
    /\ wpc[w] = "waiting" /\ drawn[w] => drawAwaits[w] < drawGen
    /\ wpc[w] = "waiting" => drawAwaits[w] <= drawGen

SignalInv == EventSignals /\ DrawSignals /\ ReaderWaits /\ DrawWaits

\* A batch is only empty at the end of the ring.
LEMMA EmptyBatch ==
  ASSUME EventsTypeOK, NoGap, CursorsBehind, NEW r \in Readers, Batch(r) = {}
  PROVE  cursor[r] = sequence
<1>1. /\ sequence \in Nat /\ cursor[r] \in Nat /\ cursor[r] <= sequence
      /\ Limit \in Nat /\ Limit > 0
  BY EventRingAssumption DEF EventsTypeOK, CursorsBehind
<1>2. First \in Nat /\ First > 0
  BY FirstOfRing
<1>3. ToSet(ring) = First .. sequence
  BY RingIsInterval
<1>4. SUFFICES ASSUME cursor[r] < sequence  PROVE FALSE
  BY <1>1
<1>5. First <= sequence
  <2>1. Len(ring) > 0 /\ ring \in Seq(Nat) /\ Len(ring) <= sequence
    BY <1>1, <1>4 DEF NoGap, EventsTypeOK
  <2>2. ring # <<>> /\ First = sequence - Len(ring) + 1
    BY <1>1, <2>1 DEF First, NoGap
  <2>. QED BY <1>1, <2>1, <2>2
<1>. DEFINE lo == IF cursor[r] + 1 > First THEN cursor[r] + 1 ELSE First
<1>6. lo \in Newer(r) /\ {f \in Newer(r) : f < lo} = {}
  BY <1>1, <1>2, <1>3, <1>4, <1>5 DEF Newer
<1>. HIDE DEF lo
<1>7. Cardinality({f \in Newer(r) : f < lo}) = 0
  BY <1>6, FS_EmptySet
<1>8. lo \in Batch(r)
  BY <1>1, <1>6, <1>7 DEF Batch
<1>. QED BY <1>8

LEMMA SignalInit == EventsInit => SignalInv
<1>. SUFFICES ASSUME EventsInit  PROVE SignalInv
  OBVIOUS
<1>. USE DEF EventsInit
<1>1. EventSignals /\ DrawSignals
  BY DEF EventSignals, DrawSignals
<1>2. ReaderWaits /\ DrawWaits
  BY DEF ReaderWaits, DrawWaits
<1>. QED BY <1>1, <1>2 DEF SignalInv

\* Only a publisher and the UI thread replace a signal, and each completes it next.
LEMMA SignalStep ==
  ASSUME EventsInv, SignalInv, [EventsNext]_eventsVars
  PROVE  SignalInv'
<1>0. /\ EventsTypeOK /\ UiThread \in Threads
      /\ EventSignals /\ DrawSignals /\ ReaderWaits /\ DrawWaits
  BY EventRingAssumption DEF EventsInv, RingInv, SignalInv
<1>. USE DEF EventsTypeOK
<1>1. ASSUME NEW t \in Threads, Publish(t)  PROVE SignalInv'
  <2>1. /\ sequence' = sequence + 1 /\ held' = [held EXCEPT ![t] = sequence]
        /\ tpc[t] \in {"idle", "publish"} /\ tpc' = [tpc EXCEPT ![t] = "fire"]
        /\ UNCHANGED <<fired, drawGen, lastDraw, drawFired, rpc, cursor, awaits, waitVars>>
    BY <1>1 DEF Publish, drawVars, readVars
  <2>2. ASSUME NEW n \in Nat, n < sequence'
        PROVE  n \in fired' \/ \E u \in Threads : tpc'[u] = "fire" /\ held'[u] = n
    <3>1. CASE n = sequence
      BY <1>0, <2>1, <3>1
    <3>2. CASE n < sequence
      <4>1. n \in fired \/ \E u \in Threads : tpc[u] = "fire" /\ held[u] = n
        BY <1>0, <3>2 DEF EventSignals
      <4>. QED BY <1>0, <2>1, <4>1
    <3>. QED BY <1>0, <2>1, <2>2, <3>1, <3>2
  <2>3. EventSignals'
    BY <2>2 DEF EventSignals
  <2>4. DrawSignals'
    BY <1>0, <2>1 DEF DrawSignals
  <2>. QED BY <1>0, <2>1, <2>3, <2>4 DEF SignalInv, ReaderWaits, DrawWaits, waitVars
<1>2. ASSUME NEW t \in Threads, Fire(t)  PROVE SignalInv'
  <2>1. /\ fired' = fired \cup {held[t]}
        /\ tpc[t] = "fire" /\ tpc' = [tpc EXCEPT ![t] = "idle"]
        /\ UNCHANGED <<sequence, held, drawGen, lastDraw, drawFired, rpc, cursor, awaits, waitVars>>
    BY <1>2 DEF Fire, drawVars, readVars
  <2>2. EventSignals'
    BY <1>0, <2>1 DEF EventSignals
  <2>3. DrawSignals'
    BY <1>0, <2>1 DEF DrawSignals
  <2>. QED BY <1>0, <2>1, <2>2, <2>3 DEF SignalInv, ReaderWaits, DrawWaits, waitVars
<1>3. ASSUME NEW m \in Maps, DrawComplete(m)  PROVE SignalInv'
  <2>1. /\ drawGen' = drawGen + 1 /\ lastDraw' = [lastDraw EXCEPT ![m] = drawGen + 1]
        /\ held' = [held EXCEPT ![UiThread] = drawGen]
        /\ tpc[UiThread] = "idle" /\ tpc' = [tpc EXCEPT ![UiThread] = "fireDraw"]
        /\ UNCHANGED <<sequence, fired, drawFired, rpc, cursor, awaits, wpc, wmap, after, drawAwaits>>
    BY <1>3 DEF DrawComplete, readVars
  <2>2. \A w \in Waiters : drawn'[w] <=> drawn[w] \/ wmap[w] = m
    BY <1>3 DEF DrawComplete
  <2>3. EventSignals'
    BY <1>0, <2>1 DEF EventSignals
  <2>4. DrawSignals'
    <3>1. ASSUME NEW n \in Nat, n < drawGen'
          PROVE  n \in drawFired' \/ (tpc'[UiThread] = "fireDraw" /\ held'[UiThread] = n)
      <4>1. n < drawGen => n \in drawFired
        BY <1>0, <2>1 DEF DrawSignals
      <4>2. n = drawGen \/ n < drawGen
        BY <1>0, <2>1, <3>1
      <4>. QED BY <1>0, <2>1, <4>1, <4>2
    <3>. QED BY <3>1 DEF DrawSignals
  <2>5. ASSUME NEW w \in Waiters
        PROVE  /\ after'[w] <= drawGen'
               /\ drawn'[w] => lastDraw'[wmap'[w]] > after'[w]
               /\ wpc'[w] = "waiting" => drawAwaits'[w] < drawGen'
    <3>1. /\ after[w] \in Nat /\ drawGen \in Nat /\ after[w] <= drawGen
          /\ drawAwaits[w] \in Nat /\ wmap[w] \in Maps
          /\ wpc[w] = "waiting" => drawAwaits[w] <= drawGen
          /\ drawn[w] => lastDraw[wmap[w]] > after[w]
      BY <1>0 DEF DrawWaits
    <3>2. lastDraw'[wmap[w]] = IF wmap[w] = m THEN drawGen + 1 ELSE lastDraw[wmap[w]]
      BY <1>0, <2>1, <3>1
    <3>3. UNCHANGED <<after[w], wmap[w], wpc[w], drawAwaits[w]>> /\ drawGen' = drawGen + 1
      BY <2>1
    <3>. HIDE DEF EventsTypeOK
    <3>4. drawn'[w] => lastDraw'[wmap[w]] > after[w]
      BY <2>2, <3>1, <3>2
    <3>. QED BY <3>1, <3>3, <3>4
  <2>6. DrawWaits'
    <3>1. drawGen' \in Nat /\ \A w \in Waiters : drawAwaits'[w] \in Nat
      BY <1>0, <2>1
    <3>. QED BY <2>5, <3>1 DEF DrawWaits
  <2>. QED BY <1>0, <2>1, <2>3, <2>4, <2>6 DEF SignalInv, ReaderWaits
<1>9. CASE DrawWithoutMap
  <2>1. /\ drawGen' = drawGen + 1 /\ held' = [held EXCEPT ![UiThread] = drawGen]
        /\ tpc[UiThread] = "idle" /\ tpc' = [tpc EXCEPT ![UiThread] = "fireDraw"]
        /\ UNCHANGED <<sequence, fired, lastDraw, drawFired, rpc, cursor, awaits, waitVars>>
    BY <1>9 DEF DrawWithoutMap, readVars
  <2>2. EventSignals'
    BY <1>0, <2>1 DEF EventSignals
  <2>3. DrawSignals'
    <3>1. ASSUME NEW n \in Nat, n < drawGen'
          PROVE  n \in drawFired' \/ (tpc'[UiThread] = "fireDraw" /\ held'[UiThread] = n)
      <4>1. n < drawGen => n \in drawFired
        BY <1>0, <2>1 DEF DrawSignals
      <4>2. n = drawGen \/ n < drawGen
        BY <1>0, <2>1, <3>1
      <4>. QED BY <1>0, <2>1, <4>1, <4>2
    <3>. QED BY <3>1 DEF DrawSignals
  <2>4. DrawWaits'
    <3>1. drawGen \in Nat /\ drawGen' = drawGen + 1
      BY <1>0, <2>1
    <3>2. \A w \in Waiters : after[w] \in Nat /\ drawAwaits[w] \in Nat
      BY <1>0
    <3>. HIDE DEF EventsTypeOK
    <3>. QED BY <1>0, <2>1, <3>1, <3>2 DEF DrawWaits, waitVars
  <2>. QED BY <1>0, <2>1, <2>2, <2>3, <2>4 DEF SignalInv, ReaderWaits
<1>4. CASE FireDraw
  <2>1. /\ drawFired' = drawFired \cup {held[UiThread]}
        /\ tpc[UiThread] = "fireDraw" /\ tpc' = [tpc EXCEPT ![UiThread] = "publish"]
        /\ UNCHANGED <<sequence, held, fired, drawGen, lastDraw, rpc, cursor, awaits, waitVars>>
    BY <1>4 DEF FireDraw, readVars
  <2>2. EventSignals'
    BY <1>0, <2>1 DEF EventSignals
  <2>3. DrawSignals'
    BY <1>0, <2>1 DEF DrawSignals
  <2>. QED BY <1>0, <2>1, <2>2, <2>3 DEF SignalInv, ReaderWaits, DrawWaits, waitVars
\* The readers and the waiters replace no signal.
<1>5. ASSUME UNCHANGED <<ringVars, drawVars>>  PROVE EventSignals' /\ DrawSignals'
  BY <1>0, <1>5 DEF ringVars, drawVars, EventSignals, DrawSignals
<1>6. ASSUME NEW r \in Readers,
             Read(r) \/ ReadAgain(r) \/ LongPoll(r) \/ Wake(r) \/ PollTimeout(r)
      PROVE  SignalInv'
  <2>1. UNCHANGED <<ringVars, drawVars, waitVars>>
    BY <1>6 DEF Read, ReadAgain, Respond, LongPoll, Wake, PollTimeout
  <2>2. ASSUME NEW q \in Readers, rpc'[q] = "waiting"  PROVE awaits'[q] = cursor'[q]
    <3>1. CASE LongPoll(r)
      <4>1. cursor[r] = sequence
        BY <3>1, EmptyBatch DEF LongPoll, EventsInv, RingInv
      <4>. QED BY <1>0, <2>2, <3>1, <4>1 DEF LongPoll, ReaderWaits
    <3>2. CASE Read(r) \/ ReadAgain(r)
      BY <1>0, <2>2, <3>2 DEF Read, ReadAgain, Respond, ReaderWaits
    <3>3. CASE Wake(r) \/ PollTimeout(r)
      BY <1>0, <2>2, <3>3 DEF Wake, PollTimeout, ReaderWaits
    <3>. QED BY <1>6, <3>1, <3>2, <3>3
  <2>3. ReaderWaits'
    BY <2>2 DEF ReaderWaits
  <2>. QED BY <1>0, <1>5, <2>1, <2>3 DEF SignalInv, DrawWaits, drawVars, waitVars
<1>7. ASSUME NEW w \in Waiters, Refresh(w) \/ Check(w) \/ WakeDraw(w) \/ DrawTimeout(w)
      PROVE  SignalInv'
  <2>1. UNCHANGED <<ringVars, drawVars, readVars, wmap>>
    BY <1>7 DEF Refresh, Check, WakeDraw, DrawTimeout
  <2>2. DrawWaits'
    <3>. USE <1>0, <2>1 DEF DrawWaits, drawVars
    <3>1. CASE Refresh(w)
      BY <3>1 DEF Refresh
    <3>2. CASE Check(w)
      BY <3>2 DEF Check
    <3>3. CASE WakeDraw(w) \/ DrawTimeout(w)
      BY <3>3 DEF WakeDraw, DrawTimeout
    <3>. QED BY <1>7, <3>1, <3>2, <3>3
  <2>. QED BY <1>0, <1>5, <2>1, <2>2 DEF SignalInv, ReaderWaits, readVars
<1>8. CASE UNCHANGED eventsVars
  BY <1>0, <1>8 DEF SignalInv, EventSignals, DrawSignals, ReaderWaits, DrawWaits,
     eventsVars, ringVars, drawVars, readVars, waitVars
<1>. QED BY <1>1, <1>2, <1>3, <1>4, <1>6, <1>7, <1>8, <1>9 DEF EventsNext

-----------------------------------------------------------------------------
(* The theorems.                                                           *)

\* The inductive invariant: the ring has no gap and the cursors are behind its end;
\* a map whose draw generation is above the one a refresh began with was drawn since.
THEOREM EventsInvariance == EventsSpec => []EventsInv
<1>1. EventsInit => EventsInv
  BY RingInit, DrawInit DEF EventsInv, RingInv, DrawInv
<1>2. EventsInv /\ [EventsNext]_eventsVars => EventsInv'
  BY RingStep, DrawStep DEF EventsInv, RingInv, DrawInv
<1>. QED BY <1>1, <1>2, PTL DEF EventsSpec

\* The type invariant: positions, cursors, signals and histories of ProEventController
\* and LiveWindowService are of their kinds.
THEOREM EventsTypeCorrect == EventsSpec => []EventsTypeOK
<1>1. EventsInv => EventsTypeOK
  BY DEF EventsInv, RingInv
<1>. QED BY <1>1, EventsInvariance, PTL

\* A cursor passes no event silently, for any capacity, limit and number of threads.
THEOREM NothingLostSilently == EventsSpec => []NoSilentLoss
<1>1. EventsInv => NoSilentLoss
  BY DEF EventsInv, RingInv
<1>. QED BY <1>1, EventsInvariance, PTL

\* drawCompleted is only answered for the map that was asked for.
THEOREM DrawnTruthful == EventsSpec => []DrawnMeansDrawn
<1>1. EventsInv => DrawnMeansDrawn
  BY DEF EventsInv, DrawInv
<1>. QED BY <1>1, EventsInvariance, PTL

\* No wakeup is lost: the signal that WaitForDrawAsync or the long poll of ReadAsync waits
\* for is completed, or about to be, as soon as there is something for it.
THEOREM WakeupsAreKept == EventsSpec => []NoWakeupLost
<1>1. EventsInv /\ SignalInv => NoWakeupLost
  <2>. SUFFICES ASSUME EventsInv, SignalInv  PROVE NoWakeupLost
    OBVIOUS
  <2>0. EventsTypeOK /\ EventSignals /\ DrawSignals /\ ReaderWaits /\ DrawWaits
    BY DEF EventsInv, RingInv, SignalInv
  <2>1. ASSUME NEW r \in Readers, rpc[r] = "waiting", sequence > cursor[r]
        PROVE  awaits[r] \in Nat /\ awaits[r] < sequence
    BY <2>0, <2>1 DEF EventsTypeOK, ReaderWaits
  <2>2. ASSUME NEW w \in Waiters, wpc[w] = "waiting", drawn[w]
        PROVE  drawAwaits[w] \in Nat /\ drawAwaits[w] < drawGen
    BY <2>0, <2>2 DEF EventsTypeOK, DrawWaits
  <2>. QED BY <2>0, <2>1, <2>2 DEF NoWakeupLost, EventSignals, DrawSignals
<1>2. EventsInv /\ SignalInv /\ [EventsNext]_eventsVars => SignalInv'
  BY SignalStep
<1>. QED BY <1>1, <1>2, SignalInit, EventsInvariance, PTL DEF EventsSpec
=============================================================================

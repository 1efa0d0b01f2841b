-------------------------- MODULE HostAttachProofs --------------------------
(***************************************************************************)
(* The router and the hosts, for any number of processes, projects, calls, *)
(* starts and switches: type correctness, the inductive invariant IInv and *)
(* the three safety properties that follow from it.                        *)
(***************************************************************************)
EXTENDS HostAttach, TLAPS

-----------------------------------------------------------------------------
(* Type correctness.                                                       *)

\* What the calls are, for the steps that let some of them return or go on.
CallTypeOK ==
  /\ cpc \in [Callers -> CallPc]
  /\ op \in [Callers -> {"status", "call", "detach"}]
  /\ token \in [Callers -> Nat]
  /\ snap \in [Callers -> Target]
  /\ misses \in [Callers -> Nat]

LEMMA NoTargetType == NoTarget \in Target
BY DEF NoTarget, Target

\* Calls that return leave well-typed locals behind.
LEMMA ReturnType ==
  ASSUME CallTypeOK, NEW S \in SUBSET Callers, ReturnAll(S)
  PROVE  CallTypeOK'
<1>1. "idle" \in CallPc
  BY DEF CallPc
<1>2. cpc' \in [Callers -> CallPc] /\ op' \in [Callers -> {"status", "call", "detach"}]
  BY <1>1 DEF CallTypeOK, ReturnAll
<1>3. token' \in [Callers -> Nat] /\ misses' \in [Callers -> Nat]
  BY DEF CallTypeOK, ReturnAll
<1>4. snap' \in [Callers -> Target]
  BY NoTargetType DEF CallTypeOK, ReturnAll
<1>5. QED
  BY <1>2, <1>3, <1>4 DEF CallTypeOK

LEMMA GotoType ==
  ASSUME CallTypeOK, NEW c \in Callers, NEW s \in CallPc, Goto(c, s)
  PROVE  CallTypeOK'
BY DEF CallTypeOK, Goto

LEMMA HostTypeStep ==
  ASSUME TypeOK, NEW p \in Processes, HostStep(p)
  PROVE  TypeOK'
<1>1. CallTypeOK
  BY DEF TypeOK, CallTypeOK
<1>2. QueuedAt(p) \in SUBSET Callers
  BY DEF QueuedAt
<1>3. CallTypeOK'
  <2>1. CASE StartFails(p) \/ Shutdown(p) \/ Crash(p)
    BY <1>1, <1>2, <2>1, ReturnType DEF StartFails, Shutdown, Crash
  <2>2. CASE ~(StartFails(p) \/ Shutdown(p) \/ Crash(p))
    <3>1. UNCHANGED callVars
      BY <2>2 DEF HostStep, Launch, Bind, ReplaceState, EnterLoop, Refresh, UserStops,
        CompareState, UnlinkState, Close, SwitchProject, RouterFrame
    <3>2. QED
      BY <1>1, <3>1 DEF CallTypeOK, callVars
  <2>3. QED
    BY <2>1, <2>2
<1>4. UNCHANGED <<latch, confirmed>>
  BY DEF HostStep, Launch, Bind, ReplaceState, EnterLoop, StartFails, Refresh, UserStops,
    Shutdown, CompareState, UnlinkState, Close, Crash, SwitchProject, RouterFrame
<1> DEFINE WindowType ==
      /\ open \in [Processes -> Projects \cup {NoProject}]
      /\ switches \in Nat /\ sessions \in Nat /\ file \in Nat
      /\ hpc \in [Processes -> HostPc]
      /\ sid \in [Processes -> Nat]
      /\ live \in [Processes -> Projects \cup {NoProject}]
      /\ port \in Processes \cup {NoProcess}
<1>5. WindowType
  BY DEF TypeOK
<1>6. fresh' \in BOOLEAN
  BY DEF TypeOK, HostStep, Launch, Bind, ReplaceState, EnterLoop, StartFails, Refresh,
    UserStops, Shutdown, CompareState, UnlinkState, Close, Crash, SwitchProject, RouterFrame
<1>7. CASE Launch(p)
  <2>1. WindowType'
    BY <1>5, <1>7 DEF Launch, HostGoto, HostPc
  <2>2. QED
    BY <1>3, <1>4, <1>6, <2>1 DEF TypeOK, CallTypeOK
<1>8. CASE Bind(p)
  <2>1. WindowType'
    BY <1>5, <1>8 DEF Bind, HostGoto, HostPc
  <2>2. QED
    BY <1>3, <1>4, <1>6, <2>1 DEF TypeOK, CallTypeOK
<1>9. CASE ReplaceState(p)
  <2>1. WindowType'
    BY <1>5, <1>9 DEF ReplaceState, HostGoto, HostPc
  <2>2. QED
    BY <1>3, <1>4, <1>6, <2>1 DEF TypeOK, CallTypeOK
<1>10. CASE EnterLoop(p)
  <2>1. WindowType'
    BY <1>5, <1>10 DEF EnterLoop, HostGoto, HostPc
  <2>2. QED
    BY <1>3, <1>4, <1>6, <2>1 DEF TypeOK, CallTypeOK
<1>11. CASE StartFails(p)
  <2>1. WindowType'
    BY <1>5, <1>11 DEF StartFails, HostGoto, HostPc
  <2>2. QED
    BY <1>3, <1>4, <1>6, <2>1 DEF TypeOK, CallTypeOK
<1>12. CASE Refresh(p)
  <2>1. WindowType'
    BY <1>5, <1>12 DEF Refresh, HostGoto, HostPc
  <2>2. QED
    BY <1>3, <1>4, <1>6, <2>1 DEF TypeOK, CallTypeOK
<1>13. CASE UserStops(p)
  <2>1. WindowType'
    BY <1>5, <1>13 DEF UserStops, HostGoto, HostPc
  <2>2. QED
    BY <1>3, <1>4, <1>6, <2>1 DEF TypeOK, CallTypeOK
<1>14. CASE Shutdown(p)
  <2>1. WindowType'
    BY <1>5, <1>14 DEF Shutdown, HostGoto, HostPc
  <2>2. QED
    BY <1>3, <1>4, <1>6, <2>1 DEF TypeOK, CallTypeOK
<1>15. CASE CompareState(p)
  <2>1. WindowType'
    BY <1>5, <1>15 DEF CompareState, HostGoto, HostPc
  <2>2. QED
    BY <1>3, <1>4, <1>6, <2>1 DEF TypeOK, CallTypeOK
<1>16. CASE UnlinkState(p)
  <2>1. WindowType'
    BY <1>5, <1>16 DEF UnlinkState, HostGoto, HostPc
  <2>2. QED
    BY <1>3, <1>4, <1>6, <2>1 DEF TypeOK, CallTypeOK
<1>17. CASE Close(p)
  <2>1. WindowType'
    BY <1>5, <1>17 DEF Close, HostGoto, HostPc
  <2>2. QED
    BY <1>3, <1>4, <1>6, <2>1 DEF TypeOK, CallTypeOK
<1>18. CASE Crash(p)
  <2>1. WindowType'
    BY <1>5, <1>18 DEF Crash, HostGoto, HostPc
  <2>2. QED
    BY <1>3, <1>4, <1>6, <2>1 DEF TypeOK, CallTypeOK
<1>19. CASE SwitchProject(p)
  <2>1. WindowType'
    BY <1>5, <1>19 DEF SwitchProject, HostGoto, HostPc, hostVars
  <2>2. QED
    BY <1>3, <1>4, <1>6, <2>1 DEF TypeOK, CallTypeOK
<1>20. QED
  BY <1>7, <1>8, <1>9, <1>10, <1>11, <1>12, <1>13, <1>14, <1>15, <1>16, <1>17, <1>18, <1>19 DEF
    HostStep

LEMMA CallTypeStep ==
  ASSUME TypeOK, NEW c \in Callers, CallStep(c)
  PROVE  TypeOK'
<1>1. CallTypeOK
  BY DEF TypeOK, CallTypeOK
<1>2. {c} \in SUBSET Callers
  OBVIOUS
<1>3. {"post", "queued", "ran", "poll", "detached"} \subseteq CallPc
  BY DEF CallPc
<1>4. UNCHANGED <<open, switches, sid, live, port, file, sessions>>
  BY DEF CallStep, Begin, Health, NoHealth, Confirm, Require, Post, Execute, Answer, PostStop,
    Poll, WindowFrame, hostVars
<1>5. ASSUME CallTypeOK', hpc' \in [Processes -> HostPc], latch' \in Target,
             confirmed' \subseteq Target, fresh' \in BOOLEAN
      PROVE  TypeOK'
  BY <1>4, <1>5 DEF TypeOK, CallTypeOK
<1>6. CASE Begin(c)
  <2>1. CallTypeOK'
    BY <1>6 DEF Begin, TypeOK, CallTypeOK, CallPc
  <2>2. QED
    BY <1>5, <1>6, <2>1 DEF Begin, TypeOK, WindowFrame, hostVars
<1>7. CASE Health(c)
  <2>1. snap' \in [Callers -> Target]
    <3>1. PICK p \in Processes :
            snap' = [snap EXCEPT ![c] = [session |-> sid[p],
                       project |-> IF hpc[p] = "stopping" THEN NoProject ELSE live[p]]]
      BY <1>7 DEF Health, Answering
    <3>2. [session |-> sid[p], project |-> IF hpc[p] = "stopping" THEN NoProject ELSE live[p]]
            \in Target
      BY DEF TypeOK, Target
    <3>3. QED
      BY <3>1, <3>2 DEF TypeOK
  <2>2. cpc' \in [Callers -> CallPc]
    BY <1>7 DEF Health, TypeOK, CallPc
  <2>3. QED
    BY <1>5, <1>7, <2>1, <2>2 DEF Health, TypeOK, CallTypeOK, WindowFrame, hostVars
<1>8. CASE NoHealth(c)
  <2>1. CallTypeOK'
    BY <1>1, <1>2, <1>8, ReturnType DEF NoHealth, Return
  <2>2. QED
    BY <1>5, <1>8, <2>1, NoTargetType DEF NoHealth, TypeOK, WindowFrame, hostVars
<1>9. CASE Confirm(c)
  <2>1. CallTypeOK'
    BY <1>1, <1>2, <1>9, ReturnType DEF Confirm, Return
  <2>2. snap[c] \in Target
    BY DEF TypeOK
  <2>3. QED
    BY <1>5, <1>9, <2>1, <2>2, NoTargetType DEF Confirm, TypeOK, WindowFrame, hostVars
<1>10. CASE Require(c)
  <2>1. CallTypeOK'
    BY <1>1, <1>2, <1>3, <1>10, ReturnType, GotoType DEF Require, Return
  <2>2. QED
    BY <1>5, <1>10, <2>1 DEF Require, TypeOK, WindowFrame, hostVars
<1>11. CASE Post(c)
  <2>1. CallTypeOK'
    BY <1>1, <1>2, <1>3, <1>11, ReturnType, GotoType DEF Post, Return
  <2>2. QED
    BY <1>5, <1>11, <2>1 DEF Post, TypeOK, WindowFrame, hostVars
<1>12. CASE Execute(c)
  <2>1. CallTypeOK'
    BY <1>1, <1>2, <1>3, <1>12, ReturnType, GotoType DEF Execute, Return
  <2>2. QED
    BY <1>5, <1>12, <2>1 DEF Execute, TypeOK, WindowFrame, hostVars
<1>13. CASE Answer(c)
  <2>1. CallTypeOK'
    BY <1>1, <1>2, <1>13, ReturnType DEF Answer, Return
  <2>2. QED
    BY <1>5, <1>13, <2>1 DEF Answer, TypeOK, WindowFrame, hostVars
<1>14. CASE PostStop(c)
  <2>1. CallTypeOK'
    BY <1>1, <1>2, <1>3, <1>14, ReturnType, GotoType DEF PostStop, Return
  <2>2. hpc' \in [Processes -> HostPc]
    BY <1>14 DEF PostStop, TypeOK, HostPc
  <2>3. QED
    BY <1>5, <1>14, <2>1, <2>2 DEF PostStop, TypeOK
<1>15. CASE Poll(c)
  <2>1. CASE Goto(c, "detached") \/ Return(c)
    BY <1>1, <1>2, <1>3, <1>5, <1>15, <2>1, ReturnType, GotoType
    DEF Poll, Return, TypeOK, WindowFrame, hostVars
  <2>2. CASE \E m \in {0, 1} : misses' = [misses EXCEPT ![c] = m]
                             /\ UNCHANGED <<cpc, op, token, snap>>
    <3>1. CallTypeOK'
      BY <1>1, <2>2 DEF CallTypeOK
    <3>2. QED
      BY <1>5, <1>15, <3>1 DEF Poll, TypeOK, WindowFrame, hostVars
  <2>3. QED
    BY <1>15, <2>1, <2>2 DEF Poll
<1>16. QED
  BY <1>6, <1>7, <1>8, <1>9, <1>10, <1>11, <1>12, <1>13, <1>14, <1>15 DEF CallStep

LEMMA TypeInit == Init => TypeOK
<1> SUFFICES ASSUME Init PROVE TypeOK
  OBVIOUS
<1>1. fresh \in BOOLEAN
  BY DEF Init
<1>2. latch \in Target /\ snap \in [Callers -> Target]
  BY NoTargetType DEF Init
<1>3. QED
  BY <1>1, <1>2 DEF Init, TypeOK, HostPc, CallPc

LEMMA TypeStep == TypeOK /\ [Next]_vars => TypeOK'
<1> SUFFICES ASSUME TypeOK, [Next]_vars PROVE TypeOK'
  OBVIOUS
<1>1. CASE UNCHANGED vars
  BY <1>1 DEF TypeOK, vars, hostVars, callVars
<1>2. QED
  BY <1>1, HostTypeStep, CallTypeStep DEF Next

\* Every variable keeps its type, in every instance.
THEOREM TypeCorrect == Spec => []TypeOK
BY TypeInit, TypeStep, PTL DEF Spec

-----------------------------------------------------------------------------
(* The inductive invariant.                                                *)

\* A call either keeps its place and locals, or has returned.
Kept(c) ==
  \/ cpc'[c] = cpc[c] /\ token'[c] = token[c] /\ snap'[c] = snap[c]
  \/ cpc'[c] = "idle" /\ token'[c] = 0 /\ snap'[c] = NoTarget /\ snap'[c].session = 0

LEMMA ReturnKeeps ==
  ASSUME TypeOK, NEW S \in SUBSET Callers, ReturnAll(S)
  PROVE  \A c \in Callers : Kept(c)
<1>1. NoTarget.session = 0
  BY DEF NoTarget
<1>2. QED
  BY <1>1 DEF ReturnAll, Kept

LEMMA HostKeeps ==
  ASSUME TypeOK, NEW p \in Processes, HostStep(p)
  PROVE  \A c \in Callers : Kept(c)
<1>1. QueuedAt(p) \in SUBSET Callers
  BY DEF QueuedAt
<1>2. CASE StartFails(p) \/ Shutdown(p) \/ Crash(p)
  BY <1>1, <1>2, ReturnKeeps DEF StartFails, Shutdown, Crash
<1>3. CASE ~(StartFails(p) \/ Shutdown(p) \/ Crash(p))
  <2>1. UNCHANGED callVars
    BY <1>3 DEF HostStep, Launch, Bind, ReplaceState, EnterLoop, Refresh, UserStops,
      CompareState, UnlinkState, Close, SwitchProject, RouterFrame
  <2>2. QED
    BY <2>1 DEF Kept, callVars
<1>4. QED
  BY <1>2, <1>3

LEMMA InvInit == Init => IInv
<1> SUFFICES ASSUME Init PROVE IInv
  OBVIOUS
<1>1. TypeOK
  BY TypeInit
<1>2. NoTarget.session = 0
  BY DEF NoTarget
<1>3. SessionInv
  BY <1>2 DEF Init, SessionInv
<1>4. PortInv /\ FileInv /\ TargetInv /\ DetachInv
  BY DEF Init, PortInv, Bound, FileInv, TargetInv, DetachInv
<1>5. QED
  BY <1>1, <1>3, <1>4 DEF IInv

\* Host steps: a session begins above all that are known, and only the holder of the
\* port writes or removes the file.
LEMMA HostKeepsInv ==
  ASSUME IInv, TypeOK', NEW h \in Processes, HostStep(h)
  PROVE  IInv'
<1>1. TypeOK /\ SessionInv /\ PortInv /\ FileInv /\ TargetInv /\ DetachInv
  BY DEF IInv
<1>2. \A c \in Callers : Kept(c)
  BY <1>1, HostKeeps
<1>3. UNCHANGED <<latch, confirmed>>
  BY DEF HostStep, Launch, Bind, ReplaceState, EnterLoop, StartFails, Refresh, UserStops,
    Shutdown, CompareState, UnlinkState, Close, Crash, SwitchProject, RouterFrame
<1>4. TargetInv'
  BY <1>1, <1>2, <1>3 DEF TargetInv, Kept
<1>5. SUFFICES SessionInv' /\ PortInv' /\ FileInv' /\ DetachInv'
  BY <1>4 DEF IInv
<1>6. CASE Launch(h)
  <2>1. SessionInv'
    <3>1. /\ sessions \in Nat /\ sessions' = sessions + 1 /\ file' = file
          /\ sid'[h] = sessions + 1 /\ hpc'[h] = "started"
          /\ \A p \in Processes \ {h} : sid'[p] = sid[p] /\ hpc'[p] = hpc[p]
          /\ UNCHANGED <<token, snap>>
      BY <1>1, <1>6 DEF Launch, HostGoto, TypeOK, RouterFrame, callVars
    <3>2. /\ file \in Nat /\ \A p \in Processes : sid[p] \in Nat
          /\ \A c \in Callers : token[c] \in Nat /\ snap[c].session \in Nat
      BY <1>1 DEF TypeOK, Target
    <3>3. QED
      BY <1>1, <3>1, <3>2 DEF SessionInv
  <2>2. PortInv'
    BY <1>1, <1>6, HostAttachAssumption DEF Launch, HostGoto, TypeOK, PortInv, Bound
  <2>3. FileInv'
    BY <1>1, <1>2, <1>6 DEF Launch, HostGoto, TypeOK, SessionInv, PortInv, Bound, FileInv, Kept
  <2>4. DetachInv'
    BY <1>1, <1>2, <1>6 DEF Launch, HostGoto, TypeOK, SessionInv, FileInv, DetachInv, Kept
  <2>5. QED
    BY <2>1, <2>2, <2>3, <2>4
<1>7. CASE Bind(h)
  <2>1. SessionInv'
    BY <1>1, <1>2, <1>7 DEF Bind, HostGoto, TypeOK, SessionInv, Kept
  <2>2. PortInv'
    BY <1>1, <1>7, HostAttachAssumption DEF Bind, HostGoto, TypeOK, PortInv, Bound
  <2>3. FileInv'
    BY <1>1, <1>2, <1>7 DEF Bind, HostGoto, TypeOK, SessionInv, PortInv, Bound, FileInv, Kept
  <2>4. DetachInv'
    BY <1>1, <1>2, <1>7 DEF Bind, HostGoto, TypeOK, SessionInv, FileInv, DetachInv, Kept
  <2>5. QED
    BY <2>1, <2>2, <2>3, <2>4
<1>8. CASE ReplaceState(h)
  <2>1. SessionInv'
    BY <1>1, <1>2, <1>8 DEF ReplaceState, HostGoto, TypeOK, SessionInv, Kept
  <2>2. PortInv'
    BY <1>1, <1>8, HostAttachAssumption DEF ReplaceState, HostGoto, TypeOK, PortInv, Bound
  <2>3. FileInv'
    BY <1>1, <1>2, <1>8 DEF ReplaceState, HostGoto, TypeOK, SessionInv, PortInv, Bound, FileInv,
      Kept
  <2>4. DetachInv'
    BY <1>1, <1>2, <1>8 DEF ReplaceState, HostGoto, TypeOK, SessionInv, FileInv, DetachInv, Kept
  <2>5. QED
    BY <2>1, <2>2, <2>3, <2>4
<1>9. CASE EnterLoop(h)
  <2>1. SessionInv'
    BY <1>1, <1>2, <1>9 DEF EnterLoop, HostGoto, TypeOK, SessionInv, Kept
  <2>2. PortInv'
    BY <1>1, <1>9, HostAttachAssumption DEF EnterLoop, HostGoto, TypeOK, PortInv, Bound
  <2>3. FileInv'
    BY <1>1, <1>2, <1>9 DEF EnterLoop, HostGoto, TypeOK, SessionInv, PortInv, Bound, FileInv,
      Kept
  <2>4. DetachInv'
    BY <1>1, <1>2, <1>9 DEF EnterLoop, HostGoto, TypeOK, SessionInv, FileInv, DetachInv, Kept
  <2>5. QED
    BY <2>1, <2>2, <2>3, <2>4
<1>10. CASE StartFails(h)
  <2>1. SessionInv'
    BY <1>1, <1>2, <1>10 DEF StartFails, HostGoto, TypeOK, SessionInv, Kept
  <2>2. PortInv'
    BY <1>1, <1>10, HostAttachAssumption DEF StartFails, HostGoto, TypeOK, PortInv, Bound
  <2>3. FileInv'
    BY <1>1, <1>2, <1>10 DEF StartFails, HostGoto, TypeOK, SessionInv, PortInv, Bound, FileInv,
      Kept
  <2>4. DetachInv'
    BY <1>1, <1>2, <1>10 DEF StartFails, HostGoto, TypeOK, SessionInv, FileInv, DetachInv, Kept
  <2>5. QED
    BY <2>1, <2>2, <2>3, <2>4
<1>11. CASE Refresh(h)
  <2>1. SessionInv'
    BY <1>1, <1>2, <1>11 DEF Refresh, HostGoto, TypeOK, SessionInv, Kept
  <2>2. PortInv'
    BY <1>1, <1>11, HostAttachAssumption DEF Refresh, HostGoto, TypeOK, PortInv, Bound
  <2>3. FileInv'
    BY <1>1, <1>2, <1>11 DEF Refresh, HostGoto, TypeOK, SessionInv, PortInv, Bound, FileInv,
      Kept
  <2>4. DetachInv'
    BY <1>1, <1>2, <1>11 DEF Refresh, HostGoto, TypeOK, SessionInv, FileInv, DetachInv, Kept
  <2>5. QED
    BY <2>1, <2>2, <2>3, <2>4
<1>12. CASE UserStops(h)
  <2>1. SessionInv'
    BY <1>1, <1>2, <1>12 DEF UserStops, HostGoto, TypeOK, SessionInv, Kept
  <2>2. PortInv'
    BY <1>1, <1>12, HostAttachAssumption DEF UserStops, HostGoto, TypeOK, PortInv, Bound
  <2>3. FileInv'
    BY <1>1, <1>2, <1>12 DEF UserStops, HostGoto, TypeOK, SessionInv, PortInv, Bound, FileInv,
      Kept
  <2>4. DetachInv'
    BY <1>1, <1>2, <1>12 DEF UserStops, HostGoto, TypeOK, SessionInv, FileInv, DetachInv, Kept
  <2>5. QED
    BY <2>1, <2>2, <2>3, <2>4
<1>13. CASE Shutdown(h)
  <2>1. SessionInv'
    BY <1>1, <1>2, <1>13 DEF Shutdown, HostGoto, TypeOK, SessionInv, Kept
  <2>2. PortInv'
    BY <1>1, <1>13, HostAttachAssumption DEF Shutdown, HostGoto, TypeOK, PortInv, Bound
  <2>3. FileInv'
    BY <1>1, <1>2, <1>13 DEF Shutdown, HostGoto, TypeOK, SessionInv, PortInv, Bound, FileInv,
      Kept
  <2>4. DetachInv'
    BY <1>1, <1>2, <1>13 DEF Shutdown, HostGoto, TypeOK, SessionInv, FileInv, DetachInv, Kept
  <2>5. QED
    BY <2>1, <2>2, <2>3, <2>4
<1>14. CASE CompareState(h)
  <2>1. SessionInv'
    BY <1>1, <1>2, <1>14 DEF CompareState, HostGoto, TypeOK, SessionInv, Kept
  <2>2. PortInv'
    BY <1>1, <1>14, HostAttachAssumption DEF CompareState, HostGoto, TypeOK, PortInv, Bound
  <2>3. FileInv'
    BY <1>1, <1>2, <1>14 DEF CompareState, HostGoto, TypeOK, SessionInv, PortInv, Bound,
      FileInv, Kept
  <2>4. DetachInv'
    BY <1>1, <1>2, <1>14 DEF CompareState, HostGoto, TypeOK, SessionInv, FileInv, DetachInv,
      Kept
  <2>5. QED
    BY <2>1, <2>2, <2>3, <2>4
<1>15. CASE UnlinkState(h)
  <2>1. SessionInv'
    BY <1>1, <1>2, <1>15 DEF UnlinkState, HostGoto, TypeOK, SessionInv, Kept
  <2>2. PortInv'
    BY <1>1, <1>15, HostAttachAssumption DEF UnlinkState, HostGoto, TypeOK, PortInv, Bound
  <2>3. FileInv'
    BY <1>1, <1>2, <1>15 DEF UnlinkState, HostGoto, TypeOK, SessionInv, PortInv, Bound, FileInv,
      Kept
  <2>4. DetachInv'
    BY <1>1, <1>2, <1>15 DEF UnlinkState, HostGoto, TypeOK, SessionInv, FileInv, DetachInv, Kept
  <2>5. QED
    BY <2>1, <2>2, <2>3, <2>4
<1>16. CASE Close(h)
  <2>1. SessionInv'
    BY <1>1, <1>2, <1>16 DEF Close, HostGoto, TypeOK, SessionInv, Kept
  <2>2. PortInv'
    BY <1>1, <1>16, HostAttachAssumption DEF Close, HostGoto, TypeOK, PortInv, Bound
  <2>3. FileInv'
    BY <1>1, <1>2, <1>16 DEF Close, HostGoto, TypeOK, SessionInv, PortInv, Bound, FileInv, Kept
  <2>4. DetachInv'
    BY <1>1, <1>2, <1>16 DEF Close, HostGoto, TypeOK, SessionInv, FileInv, DetachInv, Kept
  <2>5. QED
    BY <2>1, <2>2, <2>3, <2>4
<1>17. CASE Crash(h)
  <2>1. SessionInv'
    BY <1>1, <1>2, <1>17 DEF Crash, HostGoto, TypeOK, SessionInv, Kept
  <2>2. PortInv'
    BY <1>1, <1>17, HostAttachAssumption DEF Crash, HostGoto, TypeOK, PortInv, Bound
  <2>3. FileInv'
    BY <1>1, <1>2, <1>17 DEF Crash, HostGoto, TypeOK, SessionInv, PortInv, Bound, FileInv, Kept
  <2>4. DetachInv'
    BY <1>1, <1>2, <1>17 DEF Crash, HostGoto, TypeOK, SessionInv, FileInv, DetachInv, Kept
  <2>5. QED
    BY <2>1, <2>2, <2>3, <2>4
<1>18. CASE SwitchProject(h)
  <2>1. SessionInv'
    BY <1>1, <1>2, <1>18 DEF SwitchProject, HostGoto, TypeOK, SessionInv, Kept, hostVars
  <2>2. PortInv'
    BY <1>1, <1>18, HostAttachAssumption DEF SwitchProject, HostGoto, TypeOK, PortInv, Bound,
      hostVars
  <2>3. FileInv'
    BY <1>1, <1>2, <1>18 DEF SwitchProject, HostGoto, TypeOK, SessionInv, PortInv, Bound,
      FileInv, Kept, hostVars
  <2>4. DetachInv'
    BY <1>1, <1>2, <1>18 DEF SwitchProject, HostGoto, TypeOK, SessionInv, FileInv, DetachInv,
      Kept, hostVars
  <2>5. QED
    BY <2>1, <2>2, <2>3, <2>4
<1>19. QED
  BY <1>6, <1>7, <1>8, <1>9, <1>10, <1>11, <1>12, <1>13, <1>14, <1>15, <1>16, <1>17, <1>18 DEF
    HostStep

\* Steps of a call: a token or a target is only learned from a host that has it.
LEMMA CallKeepsInv ==
  ASSUME IInv, TypeOK', NEW c \in Callers, CallStep(c)
  PROVE  IInv'
<1>1. TypeOK /\ SessionInv /\ PortInv /\ FileInv /\ TargetInv /\ DetachInv
  BY DEF IInv
<1>2. UNCHANGED <<sid, port, file, sessions>>
  BY DEF CallStep, Begin, Health, NoHealth, Confirm, Require, Post, Execute, Answer, PostStop,
    Poll, WindowFrame, hostVars
<1>3. ASSUME UNCHANGED hpc, \A d \in Callers : Kept(d)
      PROVE  SessionInv' /\ PortInv' /\ FileInv' /\ DetachInv'
  <2>1. SessionInv' /\ PortInv'
    BY <1>1, <1>2, <1>3 DEF SessionInv, PortInv, TypeOK, Kept
  <2>2. FileInv' /\ DetachInv'
    BY <1>1, <1>2, <1>3 DEF SessionInv, FileInv, DetachInv, TypeOK, Kept
  <2>3. QED
    BY <2>1, <2>2
<1>4. {c} \in SUBSET Callers
  OBVIOUS
<1>5. ASSUME NEW where, Goto(c, where)
      PROVE  /\ UNCHANGED <<token, snap>> /\ cpc'[c] = where
             /\ \A d \in Callers \ {c} : cpc'[d] = cpc[d]
  BY <1>1, <1>5 DEF Goto, TypeOK
<1>6. CASE Begin(c)
  <2>1. UNCHANGED <<hpc, snap, latch, confirmed>>
    BY <1>6 DEF Begin, WindowFrame, hostVars
  <2>2. /\ cpc'[c] = "get" /\ token'[c] = file
        /\ \A d \in Callers \ {c} : cpc'[d] = cpc[d] /\ token'[d] = token[d]
    BY <1>1, <1>6 DEF Begin, TypeOK
  <2>3. SessionInv' /\ PortInv' /\ TargetInv'
    BY <1>1, <1>2, <2>1, <2>2 DEF SessionInv, PortInv, TargetInv
  <2>4. FileInv' /\ DetachInv'
    BY <1>1, <1>2, <2>1, <2>2 DEF FileInv, DetachInv
  <2>5. QED
    BY <2>3, <2>4 DEF IInv
<1>7. CASE Health(c)
  <2>1. UNCHANGED <<hpc, token, latch, confirmed>>
    BY <1>7 DEF Health, WindowFrame, hostVars
  <2>2. /\ cpc'[c] \in {"confirm", "require", "stop"} /\ snap'[c].session = token[c]
        /\ \A d \in Callers \ {c} : cpc'[d] = cpc[d] /\ snap'[d] = snap[d]
    BY <1>1, <1>7 DEF Health, Answering, TypeOK
  <2>3. SessionInv' /\ PortInv' /\ FileInv' /\ TargetInv'
    BY <1>1, <1>2, <2>1, <2>2 DEF SessionInv, PortInv, FileInv, TargetInv
  <2>4. DetachInv'
    BY <1>1, <1>2, <2>1, <2>2 DEF DetachInv
  <2>5. QED
    BY <2>3, <2>4 DEF IInv
<1>8. CASE NoHealth(c)
  <2>1. \A d \in Callers : Kept(d)
    BY <1>1, <1>4, <1>8, ReturnKeeps DEF NoHealth, Return
  <2>2. UNCHANGED <<hpc, confirmed>> /\ latch' \in {latch, NoTarget}
    BY <1>8 DEF NoHealth, WindowFrame, hostVars
  <2>3. TargetInv'
    BY <1>1, <2>1, <2>2 DEF TargetInv, Kept
  <2>4. QED
    BY <1>3, <2>1, <2>2, <2>3 DEF IInv
<1>9. CASE Confirm(c)
  <2>1. \A d \in Callers : Kept(d)
    BY <1>1, <1>4, <1>9, ReturnKeeps DEF Confirm, Return
  <2>2. UNCHANGED hpc /\ confirmed \subseteq confirmed'
        /\ (latch' = NoTarget \/ latch' \in confirmed')
    BY <1>9 DEF Confirm, WindowFrame, hostVars
  <2>3. TargetInv'
    BY <1>1, <2>1, <2>2 DEF TargetInv, Kept
  <2>4. QED
    BY <1>3, <2>1, <2>2, <2>3 DEF IInv
<1>10. CASE Require(c)
  <2>1. UNCHANGED <<hpc, latch, confirmed>>
    BY <1>10 DEF Require, WindowFrame, hostVars
  <2>2. CASE Return(c)
    <3>1. \A d \in Callers : Kept(d)
      BY <1>1, <1>4, <2>2, ReturnKeeps DEF Return
    <3>2. QED
      BY <1>1, <1>3, <2>1, <3>1 DEF TargetInv, Kept, IInv
  <2>3. CASE Goto(c, "post") /\ snap[c].project # NoProject /\ latch = snap[c]
    <3>1. snap[c] \in confirmed
      BY <1>1, <2>3 DEF TargetInv, NoTarget
    <3>2. TargetInv'
      BY <1>1, <1>5, <2>1, <2>3, <3>1 DEF TargetInv
    <3>3. SessionInv' /\ PortInv' /\ FileInv' /\ DetachInv'
      BY <1>1, <1>2, <1>5, <2>1, <2>3 DEF SessionInv, PortInv, FileInv, DetachInv
    <3>4. QED
      BY <3>2, <3>3 DEF IInv
  <2>4. QED
    BY <1>10, <2>2, <2>3 DEF Require
<1>11. CASE Post(c)
  <2>1. UNCHANGED <<hpc, latch, confirmed>>
    BY <1>11 DEF Post, WindowFrame, hostVars
  <2>2. CASE Return(c)
    <3>1. \A d \in Callers : Kept(d)
      BY <1>1, <1>4, <2>2, ReturnKeeps DEF Return
    <3>2. QED
      BY <1>1, <1>3, <2>1, <3>1 DEF TargetInv, Kept, IInv
  <2>3. CASE Goto(c, "queued")
    <3>1. cpc[c] = "post"
      BY <1>11 DEF Post
    <3>2. TargetInv'
      BY <1>1, <1>5, <2>1, <2>3, <3>1 DEF TargetInv
    <3>3. SessionInv' /\ PortInv' /\ FileInv' /\ DetachInv'
      BY <1>1, <1>2, <1>5, <2>1, <2>3 DEF SessionInv, PortInv, FileInv, DetachInv
    <3>4. QED
      BY <3>2, <3>3 DEF IInv
  <2>4. QED
    BY <1>11, <2>2, <2>3 DEF Post
<1>12. CASE Execute(c)
  <2>1. UNCHANGED <<hpc, latch, confirmed>>
    BY <1>12 DEF Execute, WindowFrame, hostVars
  <2>2. CASE Return(c)
    <3>1. \A d \in Callers : Kept(d)
      BY <1>1, <1>4, <2>2, ReturnKeeps DEF Return
    <3>2. QED
      BY <1>1, <1>3, <2>1, <3>1 DEF TargetInv, Kept, IInv
  <2>3. CASE Goto(c, "ran")
    <3>1. cpc[c] = "queued"
      BY <1>12 DEF Execute
    <3>2. TargetInv'
      BY <1>1, <1>5, <2>1, <2>3, <3>1 DEF TargetInv
    <3>3. SessionInv' /\ PortInv' /\ FileInv' /\ DetachInv'
      BY <1>1, <1>2, <1>5, <2>1, <2>3 DEF SessionInv, PortInv, FileInv, DetachInv
    <3>4. QED
      BY <3>2, <3>3 DEF IInv
  <2>4. QED
    BY <1>12, <2>2, <2>3 DEF Execute
<1>13. CASE Answer(c)
  <2>1. UNCHANGED <<hpc, latch, confirmed>>
    BY <1>13 DEF Answer, WindowFrame, hostVars
  <2>2. CASE Return(c)
    <3>1. \A d \in Callers : Kept(d)
      BY <1>1, <1>4, <2>2, ReturnKeeps DEF Return
    <3>2. QED
      BY <1>1, <1>3, <2>1, <3>1 DEF TargetInv, Kept, IInv
  <2>3. QED
    BY <1>13, <2>2 DEF Answer
<1>14. CASE PostStop(c)
  <2>1. UNCHANGED <<latch, confirmed>>
    BY <1>14 DEF PostStop
  <2>2. CASE Answering(token[c]) = {}
    <3>1. UNCHANGED hpc /\ \A d \in Callers : Kept(d)
      BY <1>1, <1>4, <1>14, <2>2, ReturnKeeps DEF PostStop, Return
    <3>2. QED
      BY <1>1, <1>3, <2>1, <3>1 DEF TargetInv, Kept, IInv
  <2>3. CASE Answering(token[c]) # {}
    <3>1. PICK p \in Processes : port = p /\ sid[p] = token[c]
                                /\ hpc[p] \in {"serving", "ready", "stopping"}
      BY <2>3 DEF Answering
    <3>2. /\ Goto(c, "poll")
          /\ hpc' = [q \in Processes |->
                       IF q \in Answering(token[c]) THEN "stopping" ELSE hpc[q]]
      BY <1>14, <2>3 DEF PostStop
    <3>3. sid[p] # 0 /\ \A q \in Processes \ {p} : sid[q] # token[c]
      BY <1>1, <3>1 DEF SessionInv
    <3>4. Answering(token[c]) = {p}
      BY <3>1, <3>3 DEF Answering
    <3>5. hpc'[p] = "stopping" /\ \A q \in Processes \ {p} : hpc'[q] = hpc[q]
      BY <3>2, <3>4
    <3>6. file = sid[p]
      BY <1>1, <3>1 DEF FileInv
    <3>7. SessionInv' /\ PortInv' /\ TargetInv'
      BY <1>1, <1>2, <1>5, <2>1, <3>1, <3>2, <3>3, <3>5
      DEF SessionInv, PortInv, Bound, TargetInv
    <3>8. FileInv'
      BY <1>1, <1>2, <1>5, <3>2, <3>5, <3>6 DEF FileInv
    <3>9. snap[c].session = token[c]
      BY <1>1, <1>14 DEF PostStop, DetachInv
    <3>10. DetachInv'
      BY <1>1, <1>2, <1>5, <3>1, <3>2, <3>3, <3>5, <3>9 DEF DetachInv
    <3>11. QED
      BY <3>7, <3>8, <3>10 DEF IInv
  <2>4. QED
    BY <2>2, <2>3
<1>15. CASE Poll(c)
  <2>1. UNCHANGED <<hpc, latch, confirmed>>
    BY <1>15 DEF Poll, WindowFrame, hostVars
  <2>2. CASE Return(c)
    <3>1. \A d \in Callers : Kept(d)
      BY <1>1, <1>4, <2>2, ReturnKeeps DEF Return
    <3>2. QED
      BY <1>1, <1>3, <2>1, <3>1 DEF TargetInv, Kept, IInv
  <2>3. CASE UNCHANGED <<cpc, op, token, snap>>
    BY <1>1, <1>3, <2>1, <2>3 DEF TargetInv, Kept, IInv
  <2>4. CASE Goto(c, "detached") /\ file # snap[c].session
    <3>1. cpc[c] = "poll"
      BY <1>15 DEF Poll
    <3>2. SessionInv' /\ PortInv' /\ FileInv' /\ TargetInv'
      BY <1>1, <1>2, <1>5, <2>1, <2>4 DEF SessionInv, PortInv, FileInv, TargetInv
    <3>3. \A p \in Processes : sid[p] = snap[c].session => hpc[p] # "stopping"
      BY <1>1, <2>4 DEF FileInv
    <3>4. DetachInv'
      BY <1>1, <1>2, <1>5, <2>1, <2>4, <3>1, <3>3 DEF DetachInv
    <3>5. QED
      BY <3>2, <3>4 DEF IInv
  <2>5. CASE Goto(c, "detached") /\ file = 0
    <3>1. cpc[c] = "poll"
      BY <1>15 DEF Poll
    <3>2. SessionInv' /\ PortInv' /\ FileInv' /\ TargetInv'
      BY <1>1, <1>2, <1>5, <2>1, <2>5 DEF SessionInv, PortInv, FileInv, TargetInv
    <3>3. \A p \in Processes : hpc[p] # "stopping"
      BY <1>1, <2>5 DEF FileInv, SessionInv
    <3>4. DetachInv'
      BY <1>1, <1>2, <1>5, <2>1, <2>5, <3>1, <3>3 DEF DetachInv
    <3>5. QED
      BY <3>2, <3>4 DEF IInv
  <2>6. QED
    BY <1>15, <2>2, <2>3, <2>4, <2>5 DEF Poll
<1>16. QED
  BY <1>6, <1>7, <1>8, <1>9, <1>10, <1>11, <1>12, <1>13, <1>14, <1>15 DEF CallStep

LEMMA InvStep == IInv /\ [Next]_vars => IInv'
<1> SUFFICES ASSUME IInv, [Next]_vars PROVE IInv'
  OBVIOUS
<1>1. TypeOK'
  BY TypeStep DEF IInv
<1>2. CASE UNCHANGED vars
  BY <1>1, <1>2 DEF IInv, SessionInv, PortInv, FileInv, TargetInv, DetachInv, vars, hostVars,
     callVars
<1>3. QED
  BY <1>1, <1>2, HostKeepsInv, CallKeepsInv DEF Next

\* The inductive invariant holds in every reachable state of every instance.
THEOREM Invariance == Spec => []IInv
BY InvInit, InvStep, PTL DEF Spec

\* A ready host is the one the discovery file names, for any number of processes that
\* start, fail to start, stop and crash around it.
THEOREM Discoverable == Spec => []LiveHostDiscoverable
<1>1. IInv => LiveHostDiscoverable
  BY DEF IInv, FileInv, PortInv, Bound, LiveHostDiscoverable
<1>2. QED
  BY <1>1, Invariance, PTL

\* A detach that is answered "detached" has stopped the host it was sent to.
THEOREM DetachTruthful == Spec => []DetachedMeansStopped
<1>1. IInv => DetachedMeansStopped
  BY DEF IInv, DetachInv, DetachedMeansStopped
<1>2. QED
  BY <1>1, Invariance, PTL

\* Only Execute lets a tool run, and only where its caller's snapshot says.
LEMMA ExecuteRuns ==
  ASSUME IInv, [Next]_vars, NEW c \in Callers, NEW p \in Processes,
         cpc[c] = "queued", cpc'[c] = "ran", c \in QueuedAt(p)
  PROVE  [session |-> sid[p], project |-> open[p]] \in confirmed
<1>1. TypeOK /\ SessionInv /\ TargetInv
  BY DEF IInv
<1>2. cpc'[c] # cpc[c]
  OBVIOUS
<1>3. ~UNCHANGED vars
  BY <1>2 DEF vars, callVars
<1>4. \A h \in Processes : ~HostStep(h)
  BY <1>1, <1>2, HostKeeps DEF Kept
<1>5. PICK d \in Callers : CallStep(d)
  BY <1>3, <1>4 DEF Next
<1>6. ASSUME NEW S \in SUBSET Callers, ReturnAll(S)
      PROVE  FALSE
  BY <1>1, <1>2, <1>6, ReturnKeeps DEF Kept
<1>7. {d} \in SUBSET Callers
  OBVIOUS
<1>8. ~Return(d)
  BY <1>6, <1>7 DEF Return
<1>9. Execute(d) /\ d = c
  BY <1>1, <1>2, <1>5, <1>8 DEF CallStep, Begin, Health, NoHealth, Confirm, Require, Post,
    Answer, PostStop, Poll,
     Execute, Goto, TypeOK
<1>10. PICK q \in Processes : hpc[q] = "ready" /\ c \in QueuedAt(q) /\ open[q] = snap[c].project
  BY <1>8, <1>9 DEF Execute
<1>11. p = q
  BY <1>1, <1>10 DEF QueuedAt, SessionInv
<1>12. snap[c] = [session |-> sid[p], project |-> open[p]]
  BY <1>1, <1>10, <1>11 DEF QueuedAt, TypeOK, Target
<1>13. QED
  BY <1>1, <1>12 DEF TargetInv

\* A CURRENT call runs only in a session and project that was confirmed, for any
\* interleaving of starts, stops, crashes, switches and other calls.
THEOREM RunsConfirmed == Spec => RunsWhereConfirmed
<1>1. IInv /\ [Next]_vars =>
        [\A c \in Callers, p \in Processes :
           cpc[c] = "queued" /\ cpc'[c] = "ran" /\ c \in QueuedAt(p) =>
             [session |-> sid[p], project |-> open[p]] \in confirmed]_vars
  BY ExecuteRuns
<1>2. QED
  BY <1>1, Invariance, PTL DEF Spec, RunsWhereConfirmed
=============================================================================

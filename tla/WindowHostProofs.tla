-------------------------- MODULE WindowHostProofs --------------------------
(***************************************************************************)
(* The window host, for every set of requests, queue size and store size:  *)
(* type correctness, the inductive invariant IInv, the job store above it  *)
(* (what stays registered, what is final), the clients that wait, and the  *)
(* refinement of CallService that follows from IInv.                       *)
(***************************************************************************)
EXTENDS WindowHost, TLAPS

-----------------------------------------------------------------------------
(* Sequences as queues.                                                    *)

\* Appending an element that is not in the queue keeps it duplicate-free.
LEMMA AppendToQueue ==
  ASSUME NEW S, NEW s \in Seq(S), NEW e \in S
  PROVE  /\ Append(s, e) \in Seq(S)
         /\ ToSet(Append(s, e)) = ToSet(s) \cup {e}
         /\ IsInjective(s) /\ e \notin ToSet(s) => IsInjective(Append(s, e))
<1>1. /\ Append(s, e) \in Seq(S)
      /\ DOMAIN Append(s, e) = 1..(Len(s) + 1)
      /\ \A i \in 1..Len(s) : Append(s, e)[i] = s[i]
      /\ Append(s, e)[Len(s) + 1] = e
  OBVIOUS
<1>2. DOMAIN s = 1..Len(s) /\ Len(s) \in Nat
  OBVIOUS
<1>3. 1..(Len(s) + 1) = 1..Len(s) \cup {Len(s) + 1}
  BY <1>2
<1>4. ToSet(Append(s, e)) = ToSet(s) \cup {e}
  BY <1>1, <1>2, <1>3 DEF ToSet
<1>5. ASSUME IsInjective(s), e \notin ToSet(s)
      PROVE  IsInjective(Append(s, e))
  BY <1>1, <1>2, <1>3, <1>5 DEF ToSet, IsInjective
<1>6. QED
  BY <1>1, <1>4, <1>5

\* Taking the head of a duplicate-free queue removes exactly that element.
LEMMA TailOfQueue ==
  ASSUME NEW S, NEW s \in Seq(S), s # <<>>
  PROVE  /\ Head(s) \in ToSet(s) /\ Head(s) \in S
         /\ Tail(s) \in Seq(S)
         /\ ToSet(Tail(s)) \subseteq ToSet(s)
         /\ IsInjective(s) => IsInjective(Tail(s)) /\ Head(s) \notin ToSet(Tail(s))
<1>1. /\ Tail(s) \in Seq(S)
      /\ Len(s) \in Nat \ {0}
      /\ DOMAIN s = 1..Len(s)
      /\ DOMAIN Tail(s) = 1..(Len(s) - 1)
      /\ \A i \in 1..(Len(s) - 1) : Tail(s)[i] = s[i + 1]
      /\ Head(s) = s[1]
  OBVIOUS
<1>2. \A i \in 1..(Len(s) - 1) : i + 1 \in 1..Len(s) /\ i + 1 # 1
  BY <1>1
<1>3. 1 \in 1..Len(s) /\ \A i \in 1..Len(s) : s[i] \in S
  BY <1>1
<1>4. Head(s) \in ToSet(s) /\ Head(s) \in S
  BY <1>1, <1>3 DEF ToSet
<1>5. ToSet(Tail(s)) \subseteq ToSet(s)
  BY <1>1, <1>2 DEF ToSet
<1>6. ASSUME IsInjective(s)
      PROVE  IsInjective(Tail(s)) /\ Head(s) \notin ToSet(Tail(s))
  BY <1>1, <1>2, <1>3, <1>6 DEF ToSet, IsInjective
<1>7. QED
  BY <1>1, <1>4, <1>5, <1>6

-----------------------------------------------------------------------------
(* Type correctness.                                                       *)

\* Finishing a job keeps the types of the three variables it writes.
LEMMA FinishType ==
  ASSUME TypeOK, NEW j, NEW s \in JobStates, Finish(j, s)
  PROVE  /\ state' \in [Requests -> JobStates]
         /\ finishedAt' \in [Requests -> Nat]
         /\ now' \in Nat
<1>1. now \in Nat /\ now + 1 \in Nat
  BY DEF TypeOK
<1>2. state' = [state EXCEPT ![j] = s] /\ state \in [Requests -> JobStates]
  BY DEF TypeOK, Finish
<1>3. /\ finishedAt' = [finishedAt EXCEPT ![j] = now + 1]
      /\ finishedAt \in [Requests -> Nat] /\ now' = now + 1
  BY DEF TypeOK, Finish
<1>4. QED
  BY <1>1, <1>2, <1>3

\* So does cancelling it if it is still queued.
LEMMA CancelType ==
  ASSUME TypeOK, NEW j, CancelIfQueued(j)
  PROVE  /\ state' \in [Requests -> JobStates]
         /\ finishedAt' \in [Requests -> Nat]
         /\ now' \in Nat
<1>1. "CANCELLED" \in JobStates
  BY DEF JobStates
<1>2. CASE state[j] = "QUEUED"
  BY <1>1, <1>2, FinishType DEF CancelIfQueued
<1>3. CASE state[j] # "QUEUED"
  BY <1>3 DEF CancelIfQueued, TypeOK
<1>4. QED
  BY <1>2, <1>3

\* A reply slot takes one reply.
LEMMA ReplyType ==
  ASSUME TypeOK, NEW j, NEW what \in Replies, PutReply(j, what)
  PROVE  reply' \in [Requests -> Replies]
BY DEF TypeOK, PutReply

\* A handler's answer, or its move, is well typed.
LEMMA AnswerType ==
  ASSUME TypeOK, NEW r \in Requests,
         \/ \E what \in Responses : Answer(r, what)
         \/ \E where \in HandlerPc : Goto(r, where)
  PROVE  hpc' \in [Requests -> HandlerPc] /\ resp' \in [Requests -> Responses]
BY DEF TypeOK, Answer, Goto, HandlerPc

\* The host thread takes the head of the queue.
LEMMA TakeType ==
  ASSUME TypeOK, queue # <<>>
  PROVE  Head(queue) \in Requests /\ Tail(queue) \in Seq(Requests)
BY TailOfQueue DEF TypeOK

\* Every step of a handler thread keeps the declared types.
LEMMA HandlerType ==
  ASSUME TypeOK, NEW r \in Requests, HandlerStep(r) PROVE TypeOK'
<1> USE DEF handlerVars, storeVars, jobVars, hostVars
<1> DEFINE HandlerOK == hpc' \in [Requests -> HandlerPc] /\ resp' \in [Requests -> Responses]
<1>1. CASE Arrive(r)
  <2>1. HandlerOK
    BY <1>1, AnswerType DEF Arrive, Responses, HandlerPc
  <2>2. QED
    BY <1>1, <2>1 DEF Arrive, TypeOK
<1>2. CASE Prune(r)
  <2>1. HandlerOK
    BY <1>2, AnswerType DEF Prune, HandlerPc
  <2>2. /\ registry' \in [RequestIds -> Requests \cup {NoJob}]
        /\ idem' \in [Keys -> Requests \cup {NoJob}]
        /\ evicted' \in BOOLEAN
    <3>1. PICK cutoff \in 0..(now + 1) :
            LET P == PrunedAt(cutoff)
            IN  /\ registry' = [i \in RequestIds |->
                                  IF registry[i] \in P THEN NoJob ELSE registry[i]]
                /\ idem' = [k \in Keys |-> IF PrunedKey(k, P) THEN NoJob ELSE idem[k]]
                /\ evicted' = (evicted \/ \E j \in P : hpc[j] \in {"admit", "drop"})
      BY <1>2 DEF Prune
    <3>2. QED
      BY <3>1 DEF TypeOK
  <2>3. QED
    BY <1>2, <2>1, <2>2 DEF Prune, TypeOK
<1>3. CASE RegisterRefused(r)
  <2>1. HandlerOK
    BY <1>3, AnswerType DEF RegisterRefused, Responses
  <2>2. QED
    BY <1>3, <2>1 DEF RegisterRefused, TypeOK
<1>4. CASE RegisterReplay(r)
  <2>1. HandlerOK
    BY <1>4, AnswerType DEF RegisterReplay, Responses
  <2>2. KeyJob(r) \in Requests \cup {NoJob}
    BY WindowHostAssumption DEF KeyJob, KeyEntry, TypeOK
  <2>3. QED
    BY <1>4, <2>1, <2>2 DEF RegisterReplay, TypeOK
<1>5. CASE RegisterNew(r)
  <2>1. HandlerOK
    BY <1>5, AnswerType DEF RegisterNew, HandlerPc
  <2>2. /\ registry' \in [RequestIds -> Requests \cup {NoJob}]
        /\ idem' \in [Keys -> Requests \cup {NoJob}]
        /\ state' \in [Requests -> JobStates]
    BY <1>5, WindowHostAssumption DEF RegisterNew, TypeOK, JobStates
  <2>3. QED
    BY <1>5, <2>1, <2>2 DEF RegisterNew, TypeOK
<1>6. CASE Admit(r)
  <2>1. HandlerOK
    BY <1>6, AnswerType DEF Admit, Responses, HandlerPc
  <2>2. queue' \in Seq(Requests)
    <3>1. queue \in Seq(Requests) /\ Append(queue, r) \in Seq(Requests)
      BY AppendToQueue DEF TypeOK
    <3>2. queue' = queue \/ queue' = Append(queue, r)
      BY <1>6 DEF Admit
    <3>3. QED
      BY <3>1, <3>2
  <2>3. QED
    BY <1>6, <2>1, <2>2 DEF Admit, TypeOK
<1>7. CASE DropFull(r)
  <2>1. HandlerOK
    BY <1>7, AnswerType DEF DropFull, Responses
  <2>2. /\ registry' \in [RequestIds -> Requests \cup {NoJob}]
        /\ idem' \in [Keys -> Requests \cup {NoJob}]
    BY <1>7 DEF DropFull, TypeOK
  <2>3. QED
    BY <1>7, <2>1, <2>2 DEF DropFull, TypeOK
<1>8. CASE AwaitReply(r)
  <2>1. HandlerOK
    BY <1>8, AnswerType DEF AwaitReply, TypeOK, Responses, Replies
  <2>2. reply' \in [Requests -> Replies]
    BY <1>8 DEF AwaitReply, TypeOK, Replies
  <2>3. QED
    BY <1>8, <2>1, <2>2 DEF AwaitReply, TypeOK
<1>9. CASE AwaitTimeout(r)
  <2>1. HandlerOK
    BY <1>9, AnswerType DEF AwaitTimeout, HandlerPc
  <2>2. QED
    BY <1>9, <2>1 DEF AwaitTimeout, TypeOK
<1>10. CASE AnswerTimeout(r)
  <2>1. HandlerOK
    BY <1>10, AnswerType DEF AnswerTimeout, Responses
  <2>2. /\ state' \in [Requests -> JobStates]
        /\ finishedAt' \in [Requests -> Nat] /\ now' \in Nat
    BY <1>10, CancelType DEF AnswerTimeout
  <2>3. QED
    BY <1>10, <2>1, <2>2 DEF AnswerTimeout, TypeOK
<1>11. QED
  BY <1>1, <1>2, <1>3, <1>4, <1>5, <1>6, <1>7, <1>8, <1>9, <1>10 DEF HandlerStep

\* Every step of the host thread keeps the declared types.
LEMMA HostType == ASSUME TypeOK, HostStep \/ Interrupt PROVE TypeOK'
<1> USE DEF handlerVars, storeVars, jobVars, hostVars, HostFrame
<1> DEFINE JobOK == /\ state' \in [Requests -> JobStates]
                    /\ finishedAt' \in [Requests -> Nat]
                    /\ now' \in Nat
           ReplyOK == reply' \in [Requests -> Replies]
<1>1. ASSUME NEW j, NEW s \in {"CANCELLED", "SUCCEEDED", "FAILED"},
             Finish(j, s) \/ CancelIfQueued(j)
      PROVE  JobOK
  BY <1>1, FinishType, CancelType DEF JobStates
<1>2. ASSUME NEW j, NEW what \in {"ok", "failed", "notrun", "unknown"},
             PutReply(j, what)
      PROVE  ReplyOK
  BY <1>2, ReplyType DEF Replies
<1>3. CASE HostCheck
  BY <1>3 DEF HostCheck, TypeOK, HostPc
<1>4. CASE HostGet
  <2>1. /\ queue' \in Seq(Requests) /\ active' \in Requests \cup {NoJob}
        /\ mpc' \in HostPc
    BY <1>4, TakeType DEF HostGet, TypeOK, HostPc
  <2>2. QED
    BY <1>4, <2>1 DEF HostGet, TypeOK
<1>5. CASE HostClaim
  <2>1. JobOK
    <3>1. CASE ~stop /\ state' = [state EXCEPT ![active] = "RUNNING"]
               /\ UNCHANGED <<finishedAt, now>>
      BY <3>1 DEF TypeOK, JobStates
    <3>2. CASE UNCHANGED <<state, finishedAt, now>>
      BY <3>2 DEF TypeOK
    <3>3. QED
      BY <1>1, <1>5, <3>1, <3>2, CancelType DEF HostClaim
  <2>2. QED
    BY <1>5, <2>1 DEF HostClaim, TypeOK, HostPc
<1>6. CASE HostRefuse
  <2>1. JobOK /\ ReplyOK
    BY <1>2, <1>6, CancelType DEF HostRefuse
  <2>2. QED
    BY <1>6, <2>1 DEF HostRefuse, Accounted, TypeOK, HostPc
<1>7. CASE HostReject
  <2>1. ReplyOK
    BY <1>2, <1>7 DEF HostReject
  <2>2. QED
    BY <1>7, <2>1 DEF HostReject, Accounted, TypeOK, HostPc
<1>8. CASE HostInvoke
  <2>1. \A r \in Requests : runs[r] \in Nat /\ runs[r] + 1 \in Nat
    BY DEF TypeOK
  <2>2. runs' \in [Requests -> Nat]
    BY <1>8, <2>1 DEF HostInvoke, TypeOK
  <2>3. QED
    BY <1>8, <2>2 DEF HostInvoke, TypeOK, HostPc
<1>9. CASE HostFail
  <2>1. JobOK /\ ReplyOK
    BY <1>1, <1>2, <1>9 DEF HostFail
  <2>2. QED
    BY <1>9, <2>1 DEF HostFail, Accounted, TypeOK, HostPc
<1>10. CASE HostSucceed
  <2>1. JobOK
    BY <1>1, <1>10 DEF HostSucceed
  <2>2. QED
    BY <1>10, <2>1 DEF HostSucceed, TypeOK, HostPc
<1>11. CASE HostReply
  <2>1. ReplyOK
    BY <1>2, <1>11 DEF HostReply
  <2>2. QED
    BY <1>11, <2>1 DEF HostReply, TypeOK, HostPc
<1>12. CASE HostEnd
  BY <1>12 DEF HostEnd, Accounted, TypeOK, HostPc
<1>13. CASE HostShutdown
  <2>1. JobOK /\ ReplyOK
    <3>1. CASE active = NoJob
      BY <1>13, <3>1 DEF HostShutdown, TypeOK
    <3>2. CASE active # NoJob
      BY <1>1, <1>2, <1>13, <3>2 DEF HostShutdown
    <3>3. QED
      BY <3>1, <3>2
  <2>2. QED
    BY <1>13, <2>1 DEF HostShutdown, TypeOK, HostPc
<1>14. CASE HostDrain
  <2>1. ReplyOK /\ queue' \in Seq(Requests)
    <3>1. CASE queue = <<>>
      BY <1>14, <3>1 DEF HostDrain, TypeOK
    <3>2. CASE queue # <<>>
      BY <1>2, <1>14, <3>2, TakeType DEF HostDrain
    <3>3. QED
      BY <3>1, <3>2
  <2>2. QED
    BY <1>14, <2>1 DEF HostDrain, TypeOK, HostPc
<1>15. CASE InterruptLoop
  <2>1. queue' \in Seq(Requests) /\ lost' \in Requests \cup {NoJob}
    BY <1>15, TakeType DEF InterruptLoop, TypeOK
  <2>2. QED
    BY <1>15, <2>1 DEF InterruptLoop, TypeOK, HostPc
<1>16. CASE InterruptCall
  <2>1. JobOK /\ ReplyOK
    BY <1>1, <1>2, <1>16 DEF InterruptCall
  <2>2. QED
    BY <1>16, <2>1 DEF InterruptCall, TypeOK, HostPc
<1>17. QED
  BY <1>3, <1>4, <1>5, <1>6, <1>7, <1>8, <1>9, <1>10, <1>11, <1>12, <1>13, <1>14,
     <1>15, <1>16 DEF HostStep, Interrupt

\* Every step of the window host keeps the declared types.
LEMMA TypeStep == TypeOK /\ [Next]_vars => TypeOK'
<1> SUFFICES ASSUME TypeOK, [Next]_vars PROVE TypeOK'
  OBVIOUS
<1>1. ASSUME NEW r \in Requests, Cancel(r) PROVE TypeOK'
  <2>1. /\ state' \in [Requests -> JobStates]
        /\ finishedAt' \in [Requests -> Nat] /\ now' \in Nat
    BY <1>1, CancelType DEF Cancel
  <2>2. QED
    BY <1>1, <2>1 DEF Cancel, TypeOK, handlerVars, storeVars, hostVars
<1>2. ASSUME NEW r \in Requests, Expire(r) PROVE TypeOK'
  BY <1>2 DEF Expire, TypeOK, handlerVars, storeVars, hostVars
<1>3. CASE Stop
  BY <1>3 DEF Stop, TypeOK, handlerVars, storeVars, jobVars, hostVars
<1>4. CASE UNCHANGED vars
  BY <1>4 DEF vars, TypeOK, handlerVars, storeVars, jobVars, hostVars
<1>5. QED
  BY <1>1, <1>2, <1>3, <1>4, HandlerType, HostType DEF Next

LEMMA TypeInit == Init => TypeOK
<1> SUFFICES ASSUME Init PROVE TypeOK
  OBVIOUS
<1>1. queue \in Seq(Requests) /\ now \in Nat
  BY DEF Init
<1>2. QED
  BY <1>1 DEF Init, TypeOK, HandlerPc, Responses, JobStates, Replies, HostPc

\* Every reachable state of the window host has the declared types.
THEOREM TypeCorrect == Spec => []TypeOK
BY TypeInit, TypeStep, PTL DEF Spec

-----------------------------------------------------------------------------
(* The inductive invariant.                                                *)

LEMMA InvInit == Init => IInv
<1> SUFFICES ASSUME Init PROVE IInv
  OBVIOUS
<1>1. QueuedJobs = {} /\ IsInjective(queue)
  BY DEF Init, QueuedJobs, ToSet, IsInjective
<1>2. HostInv
  BY DEF Init, HostInv
<1>3. ASSUME NEW r \in Requests PROVE RequestInv(r)
  BY <1>1, WindowHostAssumption
     DEF Init, RequestInv, HandlerInv, JobInv, AnswerInv, Held, NotRunAnswers
<1>4. QED
  BY <1>1, <1>2, <1>3, TypeInit DEF IInv

\* A step that leaves the queue alone leaves what it holds alone.
LEMMA SameQueue == ASSUME queue' = queue PROVE QueuedJobs' = QueuedJobs
BY DEF QueuedJobs

\* A handler queues its own job, once, or leaves the queue alone.
LEMMA HandlerQueue ==
  ASSUME IInv, NEW r \in Requests, HandlerStep(r)
  PROVE  /\ IsInjective(queue')
         /\ QueuedJobs' = IF queue' = queue THEN QueuedJobs ELSE QueuedJobs \cup {r}
         /\ queue' # queue => Admit(r)
<1>1. queue \in Seq(Requests) /\ IsInjective(queue) /\ HandlerInv(r)
  BY DEF IInv, TypeOK, RequestInv
<1>2. CASE Admit(r) /\ queue' # queue
  <2>1. queue' = Append(queue, r) /\ hpc[r] = "admit"
    BY <1>2 DEF Admit
  <2>2. r \notin ToSet(queue)
    BY <1>1, <2>1 DEF HandlerInv, Held, QueuedJobs
  <2>3. IsInjective(queue') /\ ToSet(queue') = ToSet(queue) \cup {r}
    BY <1>1, <2>1, <2>2, AppendToQueue
  <2>4. QED
    BY <1>2, <2>3 DEF QueuedJobs
<1>3. CASE queue' = queue
  BY <1>1, <1>3, SameQueue
<1>4. queue' = queue \/ Admit(r)
  BY DEF HandlerStep, Arrive, Prune, RegisterRefused, RegisterReplay, RegisterNew,
         DropFull, AwaitReply, AwaitTimeout, AnswerTimeout
<1>5. QED
  BY <1>2, <1>3, <1>4

\* No handler disturbs what the host thread holds.
LEMMA HandlerKeepsHostInv ==
  ASSUME IInv, NEW r \in Requests, HandlerStep(r) PROVE HostInv'
<1> USE DEF handlerVars, storeVars, jobVars, hostVars
<1>1. HostInv /\ HandlerInv(r) /\ JobInv(r) /\ TypeOK
  BY DEF IInv, RequestInv
<1>2. CASE Arrive(r)
  BY <1>1, <1>2 DEF Arrive, HostInv
<1>3. CASE Prune(r)
  BY <1>1, <1>3 DEF Prune, HostInv
<1>4. CASE RegisterRefused(r)
  BY <1>1, <1>4 DEF RegisterRefused, HostInv
<1>5. CASE RegisterReplay(r)
  BY <1>1, <1>5 DEF RegisterReplay, HostInv
<1>6. CASE RegisterNew(r)
  BY <1>1, <1>6 DEF RegisterNew, HostInv, HandlerInv, Held, TypeOK
<1>7. CASE Admit(r)
  BY <1>1, <1>7 DEF Admit, HostInv
<1>8. CASE DropFull(r)
  BY <1>1, <1>8 DEF DropFull, HostInv
<1>9. CASE AwaitReply(r)
  BY <1>1, <1>9 DEF AwaitReply, HostInv, HandlerInv, JobInv, TypeOK
<1>10. CASE AwaitTimeout(r)
  BY <1>1, <1>10 DEF AwaitTimeout, HostInv
<1>11. CASE AnswerTimeout(r)
  BY <1>1, <1>11 DEF AnswerTimeout, HostInv, CancelIfQueued, Finish, TypeOK
<1>12. QED
  BY <1>2, <1>3, <1>4, <1>5, <1>6, <1>7, <1>8, <1>9, <1>10, <1>11 DEF HandlerStep

\* Every handler keeps the invariant of its own request and of the others.
LEMMA HandlerKeepsRequestInv ==
  ASSUME IInv, NEW r \in Requests, HandlerStep(r), NEW q \in Requests
  PROVE  RequestInv(q)'
<1> USE DEF handlerVars, storeVars, jobVars, hostVars, RequestInv, HandlerInv, JobInv,
            AnswerInv, Held, NeverRuns, Closed, NotRunAnswers
<1>1. TypeOK /\ RequestInv(q) /\ RequestInv(r) /\ HostInv
  BY DEF IInv
<1>2. /\ QueuedJobs' = IF queue' = queue THEN QueuedJobs ELSE QueuedJobs \cup {r}
      /\ queue' # queue => Admit(r)
  BY HandlerQueue
<1>3. CASE Arrive(r)
  BY <1>1, <1>2, <1>3 DEF Arrive, Answer, Goto, TypeOK
<1>4. CASE Prune(r)
  BY <1>1, <1>2, <1>4 DEF Prune, Answer, Goto, TypeOK
<1>5. CASE RegisterRefused(r)
  BY <1>1, <1>2, <1>5 DEF RegisterRefused, Answer, Goto, TypeOK
<1>6. CASE RegisterReplay(r)
  BY <1>1, <1>2, <1>6 DEF RegisterReplay, Answer, Goto, TypeOK
<1>7. CASE RegisterNew(r)
  BY <1>1, <1>2, <1>7 DEF RegisterNew, Answer, Goto, TypeOK
<1>8. CASE Admit(r)
  BY <1>1, <1>2, <1>8 DEF Admit, Answer, Goto, TypeOK
<1>9. CASE DropFull(r)
  BY <1>1, <1>2, <1>9 DEF DropFull, Answer, Goto, TypeOK
<1>10. CASE AwaitReply(r)
  BY <1>1, <1>2, <1>10 DEF AwaitReply, Answer, Goto, TypeOK, Replies
<1>11. CASE AwaitTimeout(r)
  BY <1>1, <1>2, <1>11 DEF AwaitTimeout, Answer, Goto, TypeOK
<1>12. CASE AnswerTimeout(r)
  BY <1>1, <1>2, <1>12 DEF AnswerTimeout, Answer, Goto, TypeOK, CancelIfQueued, Finish
<1>13. QED
  BY <1>3, <1>4, <1>5, <1>6, <1>7, <1>8, <1>9, <1>10, <1>11, <1>12 DEF HandlerStep

\* The host thread only shortens the queue, from its head.
LEMMA HostQueue ==
  ASSUME IInv, HostStep \/ Interrupt
  PROVE  /\ IsInjective(queue')
         /\ QueuedJobs' \subseteq QueuedJobs
         /\ queue' # queue =>
              /\ queue # <<>> /\ Head(queue) \in QueuedJobs /\ Head(queue) \in Requests
              /\ Head(queue) \notin QueuedJobs'
<1>1. queue \in Seq(Requests) /\ IsInjective(queue)
  BY DEF IInv, TypeOK
<1>2. queue' = queue \/ (queue # <<>> /\ queue' = Tail(queue))
  BY DEF HostStep, Interrupt, HostCheck, HostGet, HostClaim, HostRefuse, HostReject,
         HostInvoke, HostFail, HostSucceed, HostReply, HostEnd, HostShutdown, HostDrain,
         InterruptLoop, InterruptCall
<1>3. CASE queue' = queue
  BY <1>1, <1>3, SameQueue
<1>4. CASE queue # <<>> /\ queue' = Tail(queue)
  BY <1>1, <1>4, TailOfQueue DEF QueuedJobs
<1>5. QED
  BY <1>2, <1>3, <1>4

\* The writes to a job, request by request.
LEMMA JobWrites ==
  ASSUME TypeOK, NEW j \in Requests, NEW q \in Requests
  PROVE  /\ \A s : Finish(j, s) => state'[q] = IF q = j THEN s ELSE state[q]
         /\ CancelIfQueued(j) =>
              state'[q] = IF q = j /\ state[q] = "QUEUED" THEN "CANCELLED" ELSE state[q]
         /\ \A w : PutReply(j, w) =>
              reply'[q] = IF q = j /\ reply[q] = "none" THEN w ELSE reply[q]
BY DEF TypeOK, Finish, CancelIfQueued, PutReply

\* Between any two steps the host thread holds what its place in the loop says.
LEMMA HostKeepsHostInv ==
  ASSUME IInv, HostStep \/ Interrupt PROVE HostInv'
<1> USE DEF jobVars, hostVars, HostFrame
<1>1. HostInv /\ TypeOK
  BY DEF IInv
<1>2. \A r \in QueuedJobs : r \in Requests => JobInv(r)
  BY DEF IInv, RequestInv
<1>3. CASE HostCheck
  BY <1>1, <1>3 DEF HostCheck, HostInv, TypeOK
<1>4. CASE HostGet
  BY <1>1, <1>2, HostQueue, <1>4 DEF HostGet, HostInv, TypeOK, JobInv
<1>5. CASE HostClaim
  <2>1. /\ active \in Requests /\ mpc = "claim" /\ state[active] \in {"QUEUED", "CANCELLED"}
        /\ reply[active] = "none"
    BY <1>1, <1>5 DEF HostClaim, HostInv, TypeOK
  <2>2. runs[active] = 0
    BY <2>1 DEF IInv, RequestInv, JobInv
  <2>3. UNCHANGED <<active, reply, runs>>
    BY <1>5 DEF HostClaim
  <2>4. \/ mpc' = "refuse" /\ state' = state
        \/ mpc' = "bind" /\ state'[active] = "RUNNING"
        \/ mpc' = "reject" /\ state'[active] = "CANCELLED"
    BY <1>1, <1>5, <2>1, JobWrites DEF HostClaim, TypeOK
  <2>5. QED
    BY <1>1, <2>1, <2>2, <2>3, <2>4 DEF HostInv
<1>6. CASE HostRefuse
  BY <1>1, <1>6 DEF HostRefuse, HostInv, TypeOK, CancelIfQueued, Finish, PutReply, Accounted
<1>7. CASE HostReject
  BY <1>1, <1>7 DEF HostReject, HostInv, TypeOK, PutReply, Accounted
<1>8. CASE HostInvoke
  BY <1>1, <1>8 DEF HostInvoke, HostInv, TypeOK
<1>9. CASE HostFail
  BY <1>1, <1>9 DEF HostFail, HostInv, TypeOK, Finish, PutReply, Accounted
<1>10. CASE HostSucceed
  BY <1>1, <1>10 DEF HostSucceed, HostInv, TypeOK, Finish
<1>11. CASE HostReply
  BY <1>1, <1>11 DEF HostReply, HostInv, TypeOK, PutReply
<1>12. CASE HostEnd
  BY <1>1, <1>12 DEF HostEnd, HostInv, TypeOK, Accounted
<1>13. CASE HostShutdown
  BY <1>1, <1>13 DEF HostShutdown, HostInv, TypeOK, Finish, PutReply
<1>14. CASE HostDrain
  BY <1>1, <1>14 DEF HostDrain, HostInv, TypeOK, PutReply
<1>15. CASE InterruptLoop
  BY <1>1, <1>15 DEF InterruptLoop, HostInv, TypeOK
<1>16. CASE InterruptCall
  BY <1>1, <1>16 DEF InterruptCall, HostInv, TypeOK, Finish, PutReply
<1>17. QED
  BY <1>3, <1>4, <1>5, <1>6, <1>7, <1>8, <1>9, <1>10, <1>11, <1>12, <1>13,
     <1>14, <1>15, <1>16 DEF HostStep, Interrupt

\* Every step of the host thread keeps the invariant of every request.
LEMMA HostKeepsRequestInv ==
  ASSUME IInv, HostStep \/ Interrupt, NEW q \in Requests PROVE RequestInv(q)'
<1> USE DEF handlerVars, storeVars, jobVars, hostVars, HostFrame, RequestInv, HandlerInv,
            JobInv, AnswerInv, Held, NeverRuns, Closed, NotRunAnswers
<1>1. TypeOK /\ RequestInv(q) /\ HostInv /\ q # NoJob
  BY WindowHostAssumption DEF IInv
<1>2. /\ QueuedJobs' \subseteq QueuedJobs
      /\ queue' # queue => /\ Head(queue) \in QueuedJobs /\ Head(queue) \in Requests
                           /\ Head(queue) \notin QueuedJobs'
      /\ queue' = queue => QueuedJobs' = QueuedJobs
  BY HostQueue, SameQueue
<1>3. CASE HostCheck
  BY <1>1, <1>2, <1>3 DEF HostCheck, HostInv, TypeOK
<1>4. CASE HostGet
  BY <1>1, <1>2, <1>4 DEF HostGet, HostInv, TypeOK
<1>5. CASE HostClaim
  BY <1>1, <1>2, <1>5 DEF HostClaim, HostInv, TypeOK, CancelIfQueued, Finish
<1>6. CASE HostRefuse
  <2>1. active \in Requests /\ mpc = "refuse"
    BY <1>1, <1>6 DEF HostRefuse, HostInv, TypeOK
  <2>2. /\ state'[q] = IF q = active /\ state[q] = "QUEUED" THEN "CANCELLED" ELSE state[q]
        /\ reply'[q] = IF q = active /\ reply[q] = "none" THEN "notrun" ELSE reply[q]
        /\ UNCHANGED <<hpc, resp, queue, runs, toldCancelled>>
    BY <1>1, <1>6, <2>1, JobWrites DEF HostRefuse
  <2>3. active' = NoJob /\ mpc' = "loop"
    BY <1>6, <2>1 DEF HostRefuse, Accounted
  <2>4. CASE q = active
    BY <1>1, <1>2, <2>1, <2>2, <2>3, <2>4 DEF HostInv
  <2>5. CASE q # active
    BY <1>1, <1>2, <2>1, <2>2, <2>3, <2>5 DEF HostInv
  <2>6. QED
    BY <2>4, <2>5
<1>7. CASE HostReject
  <2>1. active \in Requests /\ mpc = "reject"
    BY <1>1, <1>7 DEF HostReject, HostInv, TypeOK
  <2>2. /\ state'[q] = state[q]
        /\ reply'[q] = IF q = active /\ reply[q] = "none" THEN "notrun" ELSE reply[q]
        /\ UNCHANGED <<hpc, resp, queue, runs, toldCancelled>>
    BY <1>1, <1>7, <2>1, JobWrites DEF HostReject
  <2>3. active' = NoJob /\ mpc' = "loop"
    BY <1>7, <2>1 DEF HostReject, Accounted
  <2>4. CASE q = active
    BY <1>1, <1>2, <2>1, <2>2, <2>3, <2>4 DEF HostInv
  <2>5. CASE q # active
    BY <1>1, <1>2, <2>1, <2>2, <2>3, <2>5 DEF HostInv
  <2>6. QED
    BY <2>4, <2>5
<1>8. CASE HostInvoke
  BY <1>1, <1>2, <1>8 DEF HostInvoke, HostInv, TypeOK
<1>9. CASE HostFail
  <2>1. active \in Requests /\ mpc \in {"bind", "running"}
    BY <1>1, <1>9 DEF HostFail, HostInv, TypeOK
  <2>2. /\ state'[q] = IF q = active THEN "FAILED" ELSE state[q]
        /\ reply'[q] = IF q = active /\ reply[q] = "none" THEN "failed" ELSE reply[q]
        /\ UNCHANGED <<hpc, resp, queue, runs, toldCancelled>>
    BY <1>1, <1>9, <2>1, JobWrites DEF HostFail
  <2>3. active' = NoJob /\ mpc' = "loop"
    BY <1>9, <2>1 DEF HostFail, Accounted
  <2>4. CASE q = active
    BY <1>1, <1>2, <2>1, <2>2, <2>3, <2>4 DEF HostInv
  <2>5. CASE q # active
    BY <1>1, <1>2, <2>1, <2>2, <2>3, <2>5 DEF HostInv
  <2>6. QED
    BY <2>4, <2>5
<1>10. CASE HostSucceed
  BY <1>1, <1>2, <1>10 DEF HostSucceed, HostInv, TypeOK, Finish
<1>11. CASE HostReply
  BY <1>1, <1>2, <1>11 DEF HostReply, HostInv, TypeOK, PutReply
<1>12. CASE HostEnd
  <2>1. active \in Requests /\ mpc = "replied"
    BY <1>1, <1>12 DEF HostEnd, HostInv, TypeOK
  <2>2. /\ state'[q] = state[q]
        /\ reply'[q] = reply[q]
        /\ UNCHANGED <<hpc, resp, queue, runs, toldCancelled>>
    BY <1>1, <1>12, <2>1, JobWrites DEF HostEnd
  <2>3. active' = NoJob /\ mpc' = "loop"
    BY <1>12, <2>1 DEF HostEnd, Accounted
  <2>4. CASE q = active
    BY <1>1, <1>2, <2>1, <2>2, <2>3, <2>4 DEF HostInv
  <2>5. CASE q # active
    BY <1>1, <1>2, <2>1, <2>2, <2>3, <2>5 DEF HostInv
  <2>6. QED
    BY <2>4, <2>5
<1>13. CASE HostShutdown /\ active # NoJob
  <2>1. active \in Requests /\ mpc = "shutdown"
    BY <1>1, <1>13 DEF HostShutdown, HostInv, TypeOK
  <2>2. /\ state'[q] = IF q = active THEN "FAILED" ELSE state[q]
        /\ reply'[q] = IF q = active /\ reply[q] = "none" THEN "unknown" ELSE reply[q]
        /\ UNCHANGED <<hpc, resp, queue, runs, toldCancelled>>
    BY <1>1, <1>13, <2>1, JobWrites DEF HostShutdown
  <2>3. active' = NoJob /\ mpc' = "drain"
    BY <1>13, <2>1 DEF HostShutdown, Accounted
  <2>4. CASE q = active
    BY <1>1, <1>2, <2>1, <2>2, <2>3, <2>4 DEF HostInv
  <2>5. CASE q # active
    BY <1>1, <1>2, <2>1, <2>2, <2>3, <2>5 DEF HostInv
  <2>6. QED
    BY <2>4, <2>5
<1>14. CASE HostDrain
  BY <1>1, <1>2, <1>14 DEF HostDrain, HostInv, TypeOK, PutReply
<1>15. CASE InterruptLoop
  BY <1>1, <1>2, <1>15 DEF InterruptLoop, HostInv, TypeOK
<1>16. CASE InterruptCall
  <2>1. active \in Requests /\ mpc \in {"bind", "running", "succeeded", "replied"}
    BY <1>1, <1>16 DEF InterruptCall, HostInv, TypeOK
  <2>2. /\ state'[q] = IF q = active THEN "FAILED" ELSE state[q]
        /\ reply'[q] = IF q = active /\ reply[q] = "none" THEN "unknown" ELSE reply[q]
        /\ UNCHANGED <<hpc, resp, queue, runs, toldCancelled>>
    BY <1>1, <1>16, <2>1, JobWrites DEF InterruptCall
  <2>3. active' = NoJob /\ mpc' = "shutdown"
    BY <1>16, <2>1 DEF InterruptCall, Accounted
  <2>4. CASE q = active
    BY <1>1, <1>2, <2>1, <2>2, <2>3, <2>4 DEF HostInv
  <2>5. CASE q # active
    BY <1>1, <1>2, <2>1, <2>2, <2>3, <2>5 DEF HostInv
  <2>6. QED
    BY <2>4, <2>5
<1>17. CASE HostShutdown /\ active = NoJob
  BY <1>1, <1>2, <1>17 DEF HostShutdown, TypeOK
<1>18. QED
  BY <1>17, <1>3, <1>4, <1>5, <1>6, <1>7, <1>8, <1>9, <1>10, <1>11, <1>12, <1>13,
     <1>14, <1>15, <1>16 DEF HostStep, Interrupt

\* Cancels, expiries and the stop request keep the invariant too.
LEMMA ClientKeepsInv ==
  ASSUME IInv, Stop \/ \E r \in Requests : Cancel(r) \/ Expire(r)
  PROVE  HostInv' /\ IsInjective(queue') /\ \A q \in Requests : RequestInv(q)'
<1> USE DEF handlerVars, storeVars, jobVars, hostVars
<1>1. /\ TypeOK /\ HostInv /\ IsInjective(queue)
      /\ \A q \in Requests : RequestInv(q)
  BY DEF IInv
<1>2. queue' = queue /\ QueuedJobs' = QueuedJobs
  BY SameQueue DEF Stop, Cancel, Expire
<1>3. HostInv'
  BY <1>1 DEF HostInv, Stop, Cancel, Expire, CancelIfQueued, Finish, TypeOK
<1>4. ASSUME NEW q \in Requests PROVE RequestInv(q)'
  BY <1>1, <1>2
     DEF Stop, Cancel, Expire, CancelIfQueued, Finish, TypeOK, RequestInv, HandlerInv,
         JobInv, AnswerInv, Held, NeverRuns, Closed, NotRunAnswers
<1>5. QED
  BY <1>1, <1>2, <1>3, <1>4

LEMMA InvStep == IInv /\ [Next]_vars => IInv'
<1> SUFFICES ASSUME IInv, [Next]_vars PROVE IInv'
  OBVIOUS
<1>1. TypeOK'
  BY TypeStep DEF IInv
<1>2. CASE \E r \in Requests : HandlerStep(r)
  BY <1>1, <1>2, HandlerQueue, HandlerKeepsHostInv, HandlerKeepsRequestInv DEF IInv
<1>3. CASE HostStep \/ Interrupt
  BY <1>1, <1>3, HostQueue, HostKeepsHostInv, HostKeepsRequestInv DEF IInv
<1>4. CASE Stop \/ \E r \in Requests : Cancel(r) \/ Expire(r)
  BY <1>1, <1>4, ClientKeepsInv DEF IInv
<1>5. CASE UNCHANGED vars
  <2>1. QueuedJobs' = QueuedJobs /\ IsInjective(queue)'
    BY <1>5, SameQueue DEF vars, IInv
  <2>2. HostInv'
    BY <1>5 DEF vars, jobVars, hostVars, IInv, HostInv
  <2>3. ASSUME NEW q \in Requests PROVE RequestInv(q)'
    BY <1>5, <2>1 DEF vars, handlerVars, jobVars, hostVars, IInv, RequestInv, HandlerInv,
      JobInv, AnswerInv, Held, NeverRuns, Closed
  <2>4. QED
    BY <1>1, <2>1, <2>2, <2>3 DEF IInv
<1>6. QED
  BY <1>2, <1>3, <1>4, <1>5 DEF Next

\* Who holds a job, its state word, its reply and the answers given about it
\* always agree: the inductive invariant holds in every reachable state.
THEOREM Invariance == Spec => []IInv
BY InvInit, InvStep, PTL DEF Spec

-----------------------------------------------------------------------------
(* The job store: registry, idempotency keys and finished_at.              *)

\* The writes to finished_at: it is set once a job enters a terminal state.
LEMMA FinishWrites ==
  ASSUME TypeOK, NEW j \in Requests, NEW q \in Requests
  PROVE  /\ \A s : Finish(j, s) =>
              /\ state'[q] = IF q = j THEN s ELSE state[q]
              /\ IF q = j THEN finishedAt'[q] > 0 ELSE finishedAt'[q] = finishedAt[q]
         /\ CancelIfQueued(j) =>
              IF q = j /\ state[q] = "QUEUED"
              THEN state'[q] = "CANCELLED" /\ finishedAt'[q] > 0
              ELSE state'[q] = state[q] /\ finishedAt'[q] = finishedAt[q]
<1>1. now + 1 > 0 /\ finishedAt \in [Requests -> Nat] /\ state \in [Requests -> JobStates]
  BY DEF TypeOK
<1>2. ASSUME NEW s, Finish(j, s)
      PROVE  /\ state'[q] = IF q = j THEN s ELSE state[q]
             /\ IF q = j THEN finishedAt'[q] > 0 ELSE finishedAt'[q] = finishedAt[q]
  BY <1>1, <1>2 DEF Finish
<1>3. QED
  BY <1>2 DEF CancelIfQueued

\* What one step may do to the outcome of job q: nothing, start it, or finish it;
\* only an interrupt finishes it a second time.
Untouched(q) == state'[q] = state[q] /\ finishedAt'[q] = finishedAt[q]
Started(q)   == /\ finishedAt[q] = 0 /\ finishedAt'[q] = 0
                /\ state[q] \in {"NEW", "QUEUED"} /\ state'[q] \in {"QUEUED", "RUNNING"}
Finished(q)  == /\ finishedAt[q] = 0 \/ interrupted'
                /\ finishedAt'[q] > 0
                /\ state'[q] \in {"CANCELLED", "SUCCEEDED", "FAILED"}
OutcomeStep(q) == Untouched(q) \/ Started(q) \/ Finished(q)

\* A job that is not in a terminal state has no finished_at.
LEMMA Unfinished ==
  ASSUME StoreInv, NEW q \in Requests, state[q] \in {"NEW", "QUEUED", "RUNNING"}
  PROVE  finishedAt[q] = 0
<1>1. finishedAt[q] \in Nat
  BY DEF StoreInv, IInv, TypeOK
<1>2. ~(finishedAt[q] > 0)
  BY DEF StoreInv, FinishInv
<1>3. QED
  BY <1>1, <1>2

\* Handlers and clients: a registration starts a job, a cancel or a timeout
\* finishes one that is still queued.
LEMMA HandlerOutcome ==
  ASSUME StoreInv, NEW q \in Requests, NEW r \in Requests,
         HandlerStep(r) \/ Cancel(r) \/ Expire(r)
  PROVE  OutcomeStep(q)
<1> USE DEF jobVars
<1>1. TypeOK /\ HandlerInv(r)
  BY DEF StoreInv, IInv, RequestInv
<1>2. CASE AnswerTimeout(r) \/ Cancel(r)
  <2>1. CancelIfQueued(r)
    BY <1>2 DEF AnswerTimeout, Cancel
  <2>2. state[q] = "QUEUED" => finishedAt[q] = 0
    BY Unfinished
  <2>3. QED
    BY <1>1, <2>1, <2>2, FinishWrites DEF OutcomeStep, Untouched, Finished
<1>3. CASE RegisterNew(r)
  <2>1. state' = [state EXCEPT ![r] = "QUEUED"] /\ finishedAt' = finishedAt
    BY <1>3 DEF RegisterNew
  <2>2. state[r] = "NEW"
    BY <1>1, <1>3 DEF RegisterNew, HandlerInv
  <2>3. state[q] = "NEW" => finishedAt[q] = 0
    BY Unfinished
  <2>4. QED
    BY <1>1, <2>1, <2>2, <2>3 DEF OutcomeStep, Untouched, Started, TypeOK
<1>4. CASE UNCHANGED <<state, finishedAt>>
  BY <1>4 DEF OutcomeStep, Untouched
<1>5. QED
  BY <1>2, <1>3, <1>4
     DEF HandlerStep, Arrive, Prune, RegisterRefused, RegisterReplay, Admit, DropFull,
         AwaitReply, AwaitTimeout, Expire

\* The host thread: a claim starts a queued job; only the job it runs is finished,
\* except by an interrupt and the shutdown that follows it.
LEMMA HostOutcome ==
  ASSUME StoreInv, NEW q \in Requests, HostStep \/ Interrupt
  PROVE  OutcomeStep(q)
<1> USE DEF jobVars, hostVars, HostFrame
<1>1. TypeOK /\ HostInv /\ FinishInv
  BY DEF StoreInv, IInv
<1>2. state[q] \in {"NEW", "QUEUED", "RUNNING"} => finishedAt[q] = 0
  BY Unfinished
<1>3. CASE UNCHANGED <<state, finishedAt>>
  BY <1>3 DEF OutcomeStep, Untouched
<1>4. CASE HostClaim
  <2>1. active \in Requests
    BY <1>1, <1>4 DEF HostClaim, HostInv, TypeOK
  <2>2. CASE CancelIfQueued(active)
    BY <1>1, <1>2, <2>1, <2>2, FinishWrites DEF OutcomeStep, Untouched, Finished
  <2>3. CASE /\ state[active] = "QUEUED" /\ state' = [state EXCEPT ![active] = "RUNNING"]
             /\ finishedAt' = finishedAt
    BY <1>1, <1>2, <2>1, <2>3 DEF OutcomeStep, Untouched, Started, TypeOK
  <2>4. QED
    BY <1>3, <1>4, <2>2, <2>3 DEF HostClaim
<1>5. CASE HostRefuse
  <2>1. active \in Requests /\ CancelIfQueued(active)
    BY <1>1, <1>5 DEF HostRefuse, HostInv, TypeOK
  <2>2. QED
    BY <1>1, <1>2, <2>1, FinishWrites DEF OutcomeStep, Untouched, Finished
<1>6. CASE HostFail \/ HostSucceed
  <2>1. active \in Requests /\ state[active] = "RUNNING"
    BY <1>1, <1>6 DEF HostFail, HostSucceed, HostInv, TypeOK
  <2>2. Finish(active, "FAILED") \/ Finish(active, "SUCCEEDED")
    BY <1>6 DEF HostFail, HostSucceed
  <2>3. QED
    BY <1>1, <1>2, <2>1, <2>2, FinishWrites DEF OutcomeStep, Untouched, Finished
<1>7. CASE (HostShutdown /\ active # NoJob) \/ InterruptCall
  <2>1. active \in Requests /\ Finish(active, "FAILED")
    BY <1>1, <1>7 DEF HostShutdown, InterruptCall, HostInv, TypeOK
  <2>2. interrupted'
    BY <1>1, <1>7 DEF HostShutdown, InterruptCall, FinishInv
  <2>3. QED
    BY <1>1, <2>1, <2>2, FinishWrites DEF OutcomeStep, Untouched, Finished
<1>8. QED
  BY <1>3, <1>4, <1>5, <1>6, <1>7
     DEF HostStep, Interrupt, HostCheck, HostGet, HostReject, HostInvoke, HostReply,
         HostEnd, HostShutdown, HostDrain, InterruptLoop

LEMMA EveryOutcome ==
  ASSUME StoreInv, [Next]_vars, NEW q \in Requests PROVE OutcomeStep(q)
<1>1. CASE Stop \/ UNCHANGED vars
  BY <1>1 DEF Stop, vars, jobVars, OutcomeStep, Untouched
<1>2. QED
  BY <1>1, HandlerOutcome, HostOutcome DEF Next

\* finished_at stays in step with the state word.
LEMMA FinishStep == ASSUME StoreInv, [Next]_vars PROVE FinishInv'
<1>1. TypeOK /\ TypeOK' /\ FinishInv /\ HostInv
  BY InvStep DEF StoreInv, IInv
<1>2. ASSUME NEW q \in Requests
      PROVE  finishedAt'[q] > 0 <=> state'[q] \in {"CANCELLED", "SUCCEEDED", "FAILED"}
  BY <1>1, EveryOutcome DEF OutcomeStep, Untouched, Started, Finished, FinishInv
<1>3. mpc' = "shutdown" /\ active' # NoJob => interrupted'
  <2>1. CASE HostStep \/ Interrupt
    BY <1>1, <2>1
       DEF HostStep, Interrupt, HostCheck, HostGet, HostClaim, HostRefuse, HostReject,
           HostInvoke, HostFail, HostSucceed, HostReply, HostEnd, HostShutdown, HostDrain,
           InterruptLoop, InterruptCall, Accounted, HostInv
  <2>2. CASE UNCHANGED <<mpc, active, interrupted>>
    BY <1>1, <2>2 DEF FinishInv
  <2>3. QED
    BY <2>1, <2>2
       DEF Next, vars, hostVars, HandlerStep, Arrive, Prune, RegisterRefused, RegisterReplay,
           RegisterNew, Admit, DropFull, AwaitReply, AwaitTimeout, AnswerTimeout, Cancel,
           Expire, Stop
<1>4. QED
  BY <1>2, <1>3 DEF FinishInv

\* A job becomes pending only by its registration.
LEMMA PendingStep ==
  ASSUME StoreInv, [Next]_vars, NEW q \in Requests, Pending(q)', ~Pending(q)
  PROVE  RegisterNew(q)
<1>1. TypeOK /\ TypeOK' /\ IInv
  BY InvStep DEF StoreInv, IInv
<1>2. finishedAt'[q] = 0 => finishedAt[q] = 0
  BY EveryOutcome DEF OutcomeStep, Untouched, Started, Finished
<1>3. ASSUME NEW r \in Requests, HandlerStep(r) PROVE RegisterNew(q)
  <2>1. QueuedJobs' = QueuedJobs \/ (QueuedJobs' = QueuedJobs \cup {r} /\ hpc[r] = "admit")
    BY <1>1, <1>3, HandlerQueue DEF Admit
  <2>2. active' = active
    BY <1>3 DEF HandlerStep, Arrive, Prune, RegisterRefused, RegisterReplay, RegisterNew,
      Admit, DropFull, AwaitReply, AwaitTimeout, AnswerTimeout, hostVars
  <2>3. Held(q)' => Held(q) \/ hpc[q] = "admit"
    BY <2>1, <2>2 DEF Held
  <2>4. hpc'[q] \in {"admit", "drop"}
    BY <1>2, <2>3 DEF Pending
  <2>5. hpc[q] \notin {"admit", "drop"}
    BY DEF Pending
  <2>6. QED
    BY <1>1, <1>3, <2>4, <2>5 DEF HandlerStep, Arrive, Prune, RegisterRefused,
      RegisterReplay, RegisterNew, Admit, DropFull, AwaitReply, AwaitTimeout,
      AnswerTimeout, Answer, Goto, TypeOK
<1>4. ASSUME HostStep \/ Interrupt PROVE FALSE
  <2>1. hpc' = hpc
    BY <1>4 DEF HostStep, Interrupt, HostCheck, HostGet, HostClaim, HostRefuse, HostReject,
      HostInvoke, HostFail, HostSucceed, HostReply, HostEnd, HostShutdown, HostDrain,
      InterruptLoop, InterruptCall, HostFrame, handlerVars
  <2>2. QueuedJobs' \subseteq QueuedJobs
    BY <1>1, <1>4, HostQueue
  <2>3. active' \in {active, NoJob} \cup QueuedJobs
    <3>1. CASE HostGet
      <4>1. queue # <<>> => Head(queue) \in QueuedJobs
        BY <1>1, TailOfQueue DEF QueuedJobs, TypeOK
      <4>2. QED
        BY <3>1, <4>1 DEF HostGet
    <3>2. QED
      BY <1>4, <3>1 DEF HostStep, Interrupt, HostCheck, HostClaim, HostRefuse, HostReject,
        HostInvoke, HostFail, HostSucceed, HostReply, HostEnd, HostShutdown, HostDrain,
        InterruptLoop, InterruptCall, Accounted
  <2>4. Held(q)' => Held(q)
    BY <2>2, <2>3, WindowHostAssumption DEF Held
  <2>5. QED
    BY <1>2, <2>1, <2>4 DEF Pending
<1>5. ASSUME Stop \/ UNCHANGED vars \/ \E r \in Requests : Cancel(r) \/ Expire(r) PROVE FALSE
  <2>1. UNCHANGED <<hpc, queue, active>>
    BY <1>5 DEF Stop, vars, Cancel, Expire, handlerVars, hostVars
  <2>2. Held(q)' = Held(q)
    BY <2>1, SameQueue DEF Held
  <2>3. QED
    BY <1>2, <2>1, <2>2 DEF Pending
<1>6. QED
  BY <1>3, <1>4, <1>5 DEF Next

\* Pruning takes the entries of finished jobs alone.
LEMMA PruneKeepsFiling ==
  ASSUME StoreInv, NEW r \in Requests, Prune(r) PROVE FilingInv'
<1>1. TypeOK /\ FilingInv /\ [Next]_vars
  BY DEF StoreInv, IInv, Next, HandlerStep
<1>2. PICK cutoff \in 0..(now + 1) :
        LET P == PrunedAt(cutoff)
        IN  /\ registry' = [i \in RequestIds |->
                              IF registry[i] \in P THEN NoJob ELSE registry[i]]
            /\ idem' = [k \in Keys |-> IF PrunedKey(k, P) THEN NoJob ELSE idem[k]]
            /\ evicted' = (evicted \/ \E j \in P : hpc[j] \in {"admit", "drop"})
  BY DEF Prune
<1> DEFINE P == PrunedAt(cutoff)
<1>3. P \subseteq FinishedJobs
  BY DEF PrunedAt, Oldest
<1> HIDE DEF P
<1>4. /\ \A i \in RequestIds : registry'[i] = IF registry[i] \in P THEN NoJob ELSE registry[i]
      /\ \A k \in Keys : idem'[k] = IF PrunedKey(k, P) THEN NoJob ELSE idem[k]
      /\ evicted' = (evicted \/ \E j \in P : hpc[j] \in {"admit", "drop"})
  BY <1>2 DEF P
<1>5. \A j \in P : registry[RidOf[j]] = j /\ finishedAt[j] > 0
  BY <1>1, <1>3, WindowHostAssumption DEF FinishedJobs, Registered, FilingInv
<1>6. ASSUME NEW i \in RequestIds, registry'[i] # NoJob PROVE RidOf[registry'[i]] = i
  BY <1>1, <1>4, <1>6 DEF FilingInv
<1>7. ASSUME ~evicted', NEW q \in Requests, Pending(q)' PROVE Filed(q)'
  <2>1. ~evicted /\ \A j \in P : hpc[j] \notin {"admit", "drop"}
    BY <1>4, <1>7 DEF TypeOK
  <2>2. Pending(q)
    <3>1. ~RegisterNew(q)
      BY <1>1 DEF Prune, RegisterNew, Goto, TypeOK
    <3>2. QED
      BY <1>1, <1>7, <3>1, PendingStep
  <2>3. Filed(q)
    BY <1>1, <2>1, <2>2 DEF FilingInv
  <2>4. q \notin P
    BY <1>5, <2>1, <2>2 DEF Pending
  <2>5. registry'[RidOf[q]] = q
    BY <1>4, <2>3, <2>4, WindowHostAssumption DEF Filed
  <2>6. ASSUME KeyOf[q] # NoKey PROVE idem'[KeyOf[q]] = q
    <3>1. idem[KeyOf[q]] = q /\ registry[RidOf[q]] = q /\ KeyOf[q] \in Keys
      BY <2>3, <2>6, WindowHostAssumption DEF Filed
    <3>2. ~PrunedKey(KeyOf[q], P)
      BY <1>5, <2>4, <3>1 DEF PrunedKey
    <3>3. QED
      BY <1>4, <3>1, <3>2
  <2>7. QED
    BY <2>5, <2>6 DEF Filed
<1>8. QED
  BY <1>6, <1>7 DEF FilingInv

\* A registration writes entries no pending job uses.
LEMMA RegisterKeepsFiling ==
  ASSUME StoreInv, NEW r \in Requests, RegisterNew(r) PROVE FilingInv'
<1>1. TypeOK /\ FilingInv /\ [Next]_vars
  BY DEF StoreInv, IInv, Next, HandlerStep
<1>2. /\ registry' = [registry EXCEPT ![RidOf[r]] = r]
      /\ idem' = IF KeyOf[r] = NoKey THEN idem ELSE [idem EXCEPT ![KeyOf[r]] = r]
      /\ registry[RidOf[r]] = NoJob /\ KeyJob(r) = NoJob /\ evicted' = evicted
      /\ hpc[r] = "register" /\ hpc' = [hpc EXCEPT ![r] = "admit"]
  BY DEF RegisterNew, Goto
<1>3. ASSUME NEW i \in RequestIds, registry'[i] # NoJob PROVE RidOf[registry'[i]] = i
  BY <1>1, <1>2, <1>3, WindowHostAssumption DEF FilingInv, TypeOK
<1>4. Filed(r)'
  BY <1>1, <1>2, WindowHostAssumption DEF Filed, TypeOK
<1>5. ASSUME ~evicted', NEW q \in Requests, Pending(q)', q # r PROVE Filed(q)'
  <2>1. Pending(q)
    <3>1. ~RegisterNew(q)
      BY <1>1, <1>2, <1>5 DEF RegisterNew, Goto, TypeOK
    <3>2. QED
      BY <1>1, <1>5, <3>1, PendingStep
  <2>2. registry[RidOf[q]] = q /\ (KeyOf[q] # NoKey => idem[KeyOf[q]] = q)
    BY <1>1, <1>2, <1>5, <2>1 DEF FilingInv, Filed
  <2>3. RidOf[q] # RidOf[r]
    BY <1>2, <2>2, WindowHostAssumption
  <2>4. KeyOf[q] # NoKey => KeyOf[q] # KeyOf[r]
    BY <1>2, <2>2, WindowHostAssumption DEF KeyJob, KeyEntry
  <2>5. QED
    BY <1>1, <1>2, <2>2, <2>3, <2>4, WindowHostAssumption DEF Filed, TypeOK
<1>6. QED
  BY <1>3, <1>4, <1>5 DEF FilingInv

\* The drop of a refused job pops entries that are its own.
LEMMA DropKeepsFiling ==
  ASSUME StoreInv, NEW r \in Requests, DropFull(r) PROVE FilingInv'
<1>1. TypeOK /\ FilingInv /\ [Next]_vars
  BY DEF StoreInv, IInv, Next, HandlerStep
<1>2. /\ registry' = [registry EXCEPT ![RidOf[r]] = NoJob]
      /\ idem' = IF KeyOf[r] = NoKey THEN idem ELSE [idem EXCEPT ![KeyOf[r]] = NoJob]
      /\ evicted' = evicted /\ hpc[r] = "drop" /\ hpc' = [hpc EXCEPT ![r] = "done"]
  BY DEF DropFull, Answer
<1>3. ASSUME NEW i \in RequestIds, registry'[i] # NoJob PROVE RidOf[registry'[i]] = i
  BY <1>1, <1>2, <1>3, WindowHostAssumption DEF FilingInv, TypeOK
<1>4. ASSUME ~evicted', NEW q \in Requests, Pending(q)' PROVE Filed(q)'
  <2>1. Pending(q)
    <3>1. ~RegisterNew(q)
      BY <1>1, <1>2 DEF RegisterNew, Goto, TypeOK
    <3>2. QED
      BY <1>1, <1>4, <3>1, PendingStep
  <2>2. Filed(q) /\ Filed(r)
    BY <1>1, <1>2, <1>4, <2>1 DEF FilingInv, Pending
  <2>3. q # r
    <3>1. ~Held(r) /\ Held(r)' = Held(r)
      <4>1. queue' = queue /\ active' = active
        BY DEF DropFull, hostVars
      <4>2. HandlerInv(r)
        BY DEF StoreInv, IInv, RequestInv
      <4>3. QED
        BY <1>2, <4>1, <4>2, SameQueue DEF Held, HandlerInv
    <3>2. ~Pending(r)'
      BY <1>1, <1>2, <3>1 DEF Pending, TypeOK
    <3>3. QED
      BY <1>4, <3>2
  <2>4. RidOf[q] # RidOf[r] /\ (KeyOf[q] # NoKey => KeyOf[q] # KeyOf[r])
    BY <2>2, <2>3 DEF Filed
  <2>5. QED
    BY <1>1, <1>2, <2>2, <2>4, WindowHostAssumption DEF Filed, TypeOK
<1>5. QED
  BY <1>3, <1>4 DEF FilingInv

LEMMA StoreInit == Init => StoreInv
<1> SUFFICES ASSUME Init PROVE StoreInv
  OBVIOUS
<1>1. QueuedJobs = {}
  BY DEF Init, QueuedJobs, ToSet
<1>2. FilingInv
  BY <1>1, WindowHostAssumption DEF Init, FilingInv, Pending, Held
<1>3. FinishInv
  BY DEF Init, FinishInv
<1>4. QED
  BY <1>2, <1>3, InvInit DEF StoreInv

LEMMA StoreStep == StoreInv /\ [Next]_vars => StoreInv'
<1> SUFFICES ASSUME StoreInv, [Next]_vars PROVE StoreInv'
  OBVIOUS
<1>1. IInv' /\ FinishInv'
  BY InvStep, FinishStep DEF StoreInv
<1>2. ASSUME \E r \in Requests : Prune(r) \/ RegisterNew(r) \/ DropFull(r)
      PROVE  FilingInv'
  BY <1>2, PruneKeepsFiling, RegisterKeepsFiling, DropKeepsFiling
<1>3. ASSUME ~ \E r \in Requests : Prune(r) \/ RegisterNew(r) \/ DropFull(r)
      PROVE  FilingInv'
  <2>1. UNCHANGED <<registry, idem, evicted>>
    BY <1>3 DEF Next, vars, storeVars, HandlerStep, HostStep, Interrupt, Arrive,
      RegisterRefused, RegisterReplay, Admit, AwaitReply, AwaitTimeout, AnswerTimeout,
      Cancel, Expire, Stop, HostCheck, HostGet, HostClaim, HostRefuse, HostReject,
      HostInvoke, HostFail, HostSucceed, HostReply, HostEnd, HostShutdown, HostDrain,
      InterruptLoop, InterruptCall, HostFrame
  <2>2. FilingInv
    BY DEF StoreInv
  <2>3. \A q \in Requests : Pending(q)' => Pending(q)
    BY <1>3, PendingStep
  <2>4. QED
    BY <2>1, <2>2, <2>3 DEF FilingInv, Filed
<1>4. QED
  BY <1>1, <1>2, <1>3 DEF StoreInv

\* The entries of a job on its way to the host thread are its own, and finished_at
\* follows the state word, in every reachable state.
THEOREM StoreInvariance == Spec => []StoreInv
BY StoreInit, StoreStep, PTL DEF Spec

\* Neither pruning, nor a registration, nor the drop of another request takes the
\* registry entry or the idempotency entry of a job that is queued or running and
\* not finished, whatever the capacities (evictions before the queueing apart).
THEOREM LiveJobsAreRetained == Spec => []LiveJobRetained
<1>1. StoreInv => LiveJobRetained
  BY DEF StoreInv, FilingInv, Pending, Held, Filed, LiveJobRetained
<1>2. QED
  BY <1>1, StoreInvariance, PTL

\* Two jobs of one idempotency key are never both on their way to the host thread:
\* each would own the one entry of the key.
THEOREM OneLiveJobForEachKey == Spec => []OneLiveJobPerKey
<1>1. StoreInv => OneLiveJobPerKey
  <2> SUFFICES ASSUME StoreInv, ~evicted, NEW r \in Requests, NEW q \in Requests,
                      r # q, KeyOf[r] = KeyOf[q], KeyOf[r] # NoKey,
                      r \in QueuedJobs \cup {active}, finishedAt[r] = 0,
                      q \in QueuedJobs \cup {active}, finishedAt[q] = 0
               PROVE  FALSE
    BY DEF OneLiveJobPerKey
  <2>1. Filed(r) /\ Filed(q)
    BY DEF StoreInv, FilingInv, Pending, Held
  <2>2. QED
    BY <2>1 DEF Filed
<1>2. QED
  BY <1>1, StoreInvariance, PTL

\* A finished job is never claimed, cancelled, failed or registered again: without
\* an interrupt its state word and its finished_at are final.
THEOREM OutcomesAreFinal == Spec => OutcomeIsFinal
<1>1. StoreInv /\ [Next]_vars =>
        [~interrupted' =>
           \A r \in Requests : finishedAt[r] > 0 =>
             state'[r] = state[r] /\ finishedAt'[r] = finishedAt[r]]_vars
  BY EveryOutcome DEF OutcomeStep, Untouched, Started, Finished
<1>2. QED
  BY <1>1, StoreInvariance, PTL DEF Spec, OutcomeIsFinal

-----------------------------------------------------------------------------
(* The clients that wait.                                                  *)

\* Taking the head leaves every other job in the queue.
LEMMA TailKeepsOthers ==
  ASSUME NEW S, NEW s \in Seq(S), s # <<>>
  PROVE  ToSet(s) \subseteq ToSet(Tail(s)) \cup {Head(s)}
<1>1. /\ Len(s) \in Nat \ {0} /\ DOMAIN s = 1..Len(s) /\ Head(s) = s[1]
      /\ DOMAIN Tail(s) = 1..(Len(s) - 1)
      /\ \A i \in 1..(Len(s) - 1) : Tail(s)[i] = s[i + 1]
  OBVIOUS
<1>2. ASSUME NEW i \in 1..Len(s), i # 1 PROVE s[i] \in ToSet(Tail(s))
  <2>1. i - 1 \in 1..(Len(s) - 1) /\ (i - 1) + 1 = i
    BY <1>1, <1>2
  <2>2. Tail(s)[i - 1] = s[i]
    BY <1>1, <2>1
  <2>3. QED
    BY <1>1, <2>1, <2>2 DEF ToSet
<1>3. QED
  BY <1>1, <1>2 DEF ToSet

\* A reply put into a slot leaves it full, and no other slot empty that was full.
LEMMA PutFills ==
  ASSUME TypeOK, NEW j \in Requests, NEW what \in Replies, what # "none", PutReply(j, what),
         NEW q \in Requests
  PROVE  /\ reply'[j] # "none"
         /\ reply[q] # "none" => reply'[q] # "none"
BY DEF TypeOK, PutReply

\* A handler starts to wait when it has queued its job, and a reply it takes is the end
\* of its wait.
LEMMA HandlerKeepsWaitInv ==
  ASSUME IInv, WaitInv, NEW r \in Requests, HandlerStep(r) PROVE WaitInv'
<1> USE DEF handlerVars, storeVars, jobVars, hostVars
<1>1. TypeOK /\ HandlerInv(r) /\ HostInv
  BY DEF IInv, RequestInv
<1>2. UNCHANGED <<mpc, active, interrupted, lost, stop>>
  BY DEF HandlerStep, Arrive, Prune, RegisterRefused, RegisterReplay, RegisterNew,
         Admit, DropFull, AwaitReply, AwaitTimeout, AnswerTimeout
<1>3. ASSUME NEW q \in Requests PROVE Held(q) => Held(q)'
  BY <1>2, HandlerQueue DEF Held
<1>4. ASSUME NEW q \in Requests, q # r PROVE hpc'[q] = hpc[q] /\ reply'[q] = reply[q]
  BY <1>1, <1>4
     DEF TypeOK, HandlerStep, Arrive, Prune, RegisterRefused, RegisterReplay, RegisterNew,
         Admit, DropFull, AwaitReply, AwaitTimeout, AnswerTimeout, Answer, Goto
<1>5. ASSUME hpc'[r] = "await"
      PROVE  Held(r)' /\ hpc[r] = "admit" /\ ~stop
  <2>1. Admit(r) /\ hpc[r] = "admit" /\ ~stop /\ queue' = Append(queue, r)
    BY <1>1, <1>5
       DEF TypeOK, HandlerStep, Arrive, Prune, RegisterRefused, RegisterReplay, RegisterNew,
           Admit, DropFull, AwaitReply, AwaitTimeout, AnswerTimeout, Answer, Goto
  <2>2. r \in ToSet(Append(queue, r))
    BY <1>1, AppendToQueue DEF TypeOK
  <2>3. QED
    BY <2>1, <2>2 DEF Held, QueuedJobs
<1>6. \A q \in Requests : hpc'[q] = "await" /\ reply'[q] = "none" => Held(q)' \/ q = lost'
  BY <1>2, <1>3, <1>4, <1>5 DEF WaitInv
<1>7. mpc' = "replied" /\ hpc'[active'] = "await" => reply'[active'] # "none"
  <2> SUFFICES ASSUME mpc = "replied", hpc'[active] = "await" PROVE reply'[active] # "none"
    BY <1>2
  <2>1. active \in Requests
    BY <1>1 DEF HostInv, TypeOK
  <2>2. active # r
    BY <1>1, <1>5, <2>1 DEF HandlerInv, Held
  <2>3. QED
    BY <1>4, <2>1, <2>2 DEF WaitInv
<1>8. mpc' = "stopped" => queue' = <<>>
  <2>1. mpc = "stopped" => stop /\ queue = <<>>
    BY DEF WaitInv
  <2>2. queue' # queue => ~stop
    BY HandlerQueue DEF Admit
  <2>3. QED
    BY <1>2, <2>1, <2>2
<1>9. QED
  BY <1>2, <1>6, <1>7, <1>8 DEF WaitInv

\* The host thread gives every job it lets go a reply; only the interrupt between
\* jobs.get and the assignment of active_job loses one, and there is one interrupt.
LEMMA HostKeepsWaitInv ==
  ASSUME IInv, WaitInv, HostStep \/ Interrupt PROVE WaitInv'
<1> USE DEF handlerVars, storeVars, jobVars, hostVars, HostFrame
<1>1. TypeOK /\ HostInv /\ active \in Requests \cup {NoJob}
  BY DEF IInv, TypeOK
<1>2. hpc' = hpc
  BY DEF HostStep, Interrupt, HostCheck, HostGet, HostClaim, HostRefuse, HostReject,
         HostInvoke, HostFail, HostSucceed, HostReply, HostEnd, HostShutdown, HostDrain,
         InterruptLoop, InterruptCall
<1>3. /\ ~interrupted => lost = NoJob
      /\ \A q \in Requests : hpc[q] = "await" /\ reply[q] = "none" => Held(q) \/ q = lost
      /\ mpc = "replied" /\ hpc[active] = "await" => reply[active] # "none"
      /\ mpc \in {"drain", "stopped"} => stop
      /\ mpc = "stopped" => queue = <<>>
  BY DEF WaitInv
<1>4. {"notrun", "failed", "ok", "unknown"} \subseteq Replies
  BY DEF Replies
\* The steps that let no job go.
<1>5. CASE HostCheck \/ HostClaim \/ HostInvoke \/ HostSucceed
  BY <1>2, <1>3, <1>5, SameQueue
     DEF HostCheck, HostClaim, HostInvoke, HostSucceed, WaitInv, Held
\* Those that give the active job a reply.
<1>6. CASE HostRefuse \/ HostReject \/ HostFail \/ InterruptCall \/ HostReply
           \/ (HostShutdown /\ active # NoJob)
  <2>1. active \in Requests /\ mpc \notin {"drain", "stopped"}
    BY <1>1, <1>6 DEF HostRefuse, HostReject, HostFail, InterruptCall, HostReply, HostShutdown, HostInv
  <2>2. \E what \in Replies \ {"none"} : PutReply(active, what)
    BY <1>4, <1>6 DEF HostRefuse, HostReject, HostFail, InterruptCall, HostReply, HostShutdown
  <2>3. reply'[active] # "none" /\ \A q \in Requests : reply[q] # "none" => reply'[q] # "none"
    BY <1>1, <2>1, <2>2, PutFills
  <2>4. queue' = queue /\ lost' = lost /\ (interrupted' \/ interrupted' = interrupted)
    BY <1>6 DEF HostRefuse, HostReject, HostFail, InterruptCall, HostReply, HostShutdown
  <2>5. /\ mpc' = "replied" => active' = active
        /\ mpc' \in {"drain", "stopped"} => mpc' = "drain" /\ stop'
    BY <1>6 DEF HostRefuse, HostReject, HostFail, InterruptCall, HostReply, HostShutdown, Accounted
  <2>6. \A q \in Requests : hpc[q] = "await" /\ reply'[q] = "none" => Held(q)' \/ q = lost
    BY <1>3, <2>3, <2>4, SameQueue DEF Held
  <2>7. QED
    BY <1>2, <1>3, <2>3, <2>4, <2>5, <2>6 DEF WaitInv
\* The reply of the active job has been put already.
<1>7. CASE HostEnd \/ (HostShutdown /\ active = NoJob)
  <2>1. /\ queue' = queue /\ reply' = reply /\ UNCHANGED <<lost, interrupted>> /\ active' = NoJob
        /\ mpc' = "loop" \/ (mpc' = "drain" /\ stop')
    BY <1>7 DEF HostEnd, HostShutdown, Accounted
  <2>2. active = NoJob \/ (hpc[active] = "await" => reply[active] # "none")
    BY <1>3, <1>7 DEF HostEnd
  <2>3. \A q \in Requests : hpc[q] = "await" /\ reply[q] = "none" => Held(q)' \/ q = lost
    BY <1>3, <2>1, <2>2, SameQueue, WindowHostAssumption DEF Held
  <2>4. QED
    BY <1>2, <1>3, <2>1, <2>3 DEF WaitInv
\* The head leaves the queue: it becomes the active job, is given a reply, or is lost.
<1>8. CASE HostGet
  <2>1. CASE queue = <<>>
    BY <1>2, <1>3, <1>8, <2>1, SameQueue DEF HostGet, WaitInv, Held
  <2>2. CASE queue # <<>>
    <3>1. /\ mpc' = "claim" /\ active' = Head(queue) /\ queue' = Tail(queue) /\ reply' = reply
          /\ UNCHANGED <<lost, interrupted>> /\ active = NoJob
      BY <1>1, <1>8, <2>2 DEF HostGet, HostInv
    <3>2. QueuedJobs \subseteq QueuedJobs' \cup {active'}
      BY <1>1, <2>2, <3>1, TailKeepsOthers DEF TypeOK, QueuedJobs
    <3>3. \A q \in Requests : Held(q) => Held(q)'
      BY <3>1, <3>2, WindowHostAssumption DEF Held
    <3>4. QED
      BY <1>2, <1>3, <3>1, <3>3 DEF WaitInv
  <2>3. QED
    BY <2>1, <2>2
<1>9. CASE HostDrain
  <2>1. CASE queue = <<>>
    <3>1. /\ mpc' = "stopped" /\ queue' = <<>> /\ stop' /\ reply' = reply
          /\ UNCHANGED <<lost, interrupted, active>>
      BY <1>3, <1>9, <2>1 DEF HostDrain
    <3>2. QED
      BY <1>2, <1>3, <2>1, <3>1, SameQueue DEF WaitInv, Held
  <2>2. CASE queue # <<>>
    <3>1. /\ mpc' = "drain" /\ stop' /\ queue' = Tail(queue) /\ PutReply(Head(queue), "notrun")
          /\ UNCHANGED <<lost, interrupted, active>>
      BY <1>3, <1>9, <2>2 DEF HostDrain
    <3>2. QueuedJobs \subseteq QueuedJobs' \cup {Head(queue)} /\ Head(queue) \in Requests
      BY <1>1, <2>2, <3>1, TailKeepsOthers, TakeType DEF TypeOK, QueuedJobs
    <3>3. /\ reply'[Head(queue)] # "none"
          /\ \A q \in Requests : reply[q] # "none" => reply'[q] # "none"
      BY <1>1, <1>4, <3>1, <3>2, PutFills
    <3>4. \A q \in Requests : hpc[q] = "await" /\ reply'[q] = "none" => Held(q)' \/ q = lost
      BY <1>3, <3>1, <3>2, <3>3 DEF Held
    <3>5. QED
      BY <1>2, <1>3, <3>1, <3>4 DEF WaitInv
  <2>3. QED
    BY <2>1, <2>2
<1>10. CASE InterruptLoop
  <2>1. /\ mpc' = "shutdown" /\ interrupted' /\ active' = active /\ reply' = reply
        /\ ~interrupted
    BY <1>10 DEF InterruptLoop
  <2>2. CASE UNCHANGED <<queue, lost>>
    BY <1>2, <1>3, <2>1, <2>2, SameQueue DEF WaitInv, Held
  <2>3. CASE queue # <<>> /\ lost' = Head(queue) /\ queue' = Tail(queue)
    <3>1. QueuedJobs \subseteq QueuedJobs' \cup {lost'}
      BY <1>1, <2>3, TailKeepsOthers DEF TypeOK, QueuedJobs
    <3>2. \A q \in Requests : hpc[q] = "await" /\ reply[q] = "none" => Held(q)' \/ q = lost'
      BY <1>3, <2>1, <3>1, WindowHostAssumption DEF Held
    <3>3. QED
      BY <1>2, <2>1, <3>2 DEF WaitInv
  <2>4. QED
    BY <1>10, <2>2, <2>3 DEF InterruptLoop
<1>11. QED
  BY <1>5, <1>6, <1>7, <1>8, <1>9, <1>10 DEF HostStep, Interrupt

LEMMA WaitInit == Init => WaitInv
BY DEF Init, WaitInv

LEMMA WaitStep == IInv /\ WaitInv /\ [Next]_vars => WaitInv'
<1> SUFFICES ASSUME IInv, WaitInv, [Next]_vars PROVE WaitInv'
  OBVIOUS
<1>1. CASE Stop \/ UNCHANGED vars \/ \E r \in Requests : Cancel(r) \/ Expire(r)
  <2>1. UNCHANGED <<hpc, reply, queue, mpc, active, interrupted, lost>> /\ (stop => stop')
    BY <1>1 DEF Stop, vars, Cancel, Expire, handlerVars, jobVars, hostVars
  <2>2. QED
    BY <2>1, SameQueue DEF WaitInv, Held
<1>2. QED
  BY <1>1, HandlerKeepsWaitInv, HostKeepsWaitInv DEF Next

\* A waiting client without a reply has its job in the queue or in the hands of a host
\* thread that has not stopped, for any number of requests and any order of timeouts,
\* cancels, stops and drains; an interrupt loses at most one job.
THEOREM WaitersAreServed == Spec => []NobodyWaitsInVain
<1>1. Init => IInv /\ WaitInv
  BY InvInit, WaitInit
<1>2. IInv /\ WaitInv /\ [Next]_vars => (IInv /\ WaitInv)'
  BY InvStep, WaitStep
<1>3. IInv /\ WaitInv => NobodyWaitsInVain
  <2>1. IInv /\ WaitInv /\ mpc = "stopped" => QueuedJobs = {} /\ active = NoJob
    BY DEF IInv, HostInv, WaitInv, QueuedJobs, ToSet
  <2>2. QED
    BY <2>1, WindowHostAssumption DEF WaitInv, NobodyWaitsInVain, Held
<1>4. QED
  BY <1>1, <1>2, <1>3, PTL DEF Spec

-----------------------------------------------------------------------------
(* The refinement.                                                         *)

\* What each answer of the host means to the service.
LEMMA VerdictCases ==
  ASSUME NEW a \in Responses
  PROVE  /\ VerdictOf(a) \in Service!Answers
         /\ VerdictOf(a) = "pending" <=> a = "none"
         /\ VerdictOf(a) = "ok" <=> a = "ok"
         /\ VerdictOf(a) = "notrun" <=> a \in NotRunAnswers
         /\ VerdictOf(a) = "failed" <=> a = "failed"
         /\ VerdictOf(a) = "replay" <=> a = "replay"
BY DEF VerdictOf, Responses, NotRunAnswers, Service!Answers

LEMMA RefineInit == Init => Service!SInit
<1> SUFFICES ASSUME Init PROVE Service!SInit
  OBVIOUS
<1>1. "none" \in Responses
  BY DEF Responses
<1>2. Verdict = [r \in Requests |-> "pending"]
  BY <1>1, VerdictCases DEF Init, Verdict
<1>3. QED
  BY <1>2 DEF Init, Service!SInit

\* The only answers a step gives are to the request whose handler takes it, and
\* the invariant after the step says they are true.
LEMMA RefineHandler ==
  ASSUME IInv, IInv', NEW r \in Requests, HandlerStep(r)
  PROVE  [Service!SNext]_(Service!svars)
<1> USE DEF handlerVars, storeVars, jobVars, hostVars
<1>1. UNCHANGED <<runs, toldCancelled>>
  BY DEF HandlerStep, Arrive, Prune, RegisterRefused, RegisterReplay, RegisterNew, Admit,
         DropFull, AwaitReply, AwaitTimeout, AnswerTimeout
<1>2. \/ resp' = resp
      \/ hpc[r] # "done" /\ \E a : resp' = [resp EXCEPT ![r] = a]
  BY DEF HandlerStep, Arrive, Prune, RegisterRefused, RegisterReplay, RegisterNew, Admit,
         DropFull, AwaitReply, AwaitTimeout, AnswerTimeout, Answer, Goto
<1>3. CASE resp' = resp
  BY <1>1, <1>3 DEF Verdict, Service!svars
<1>4. ASSUME hpc[r] # "done", NEW a, resp' = [resp EXCEPT ![r] = a], resp' # resp
      PROVE  Service!Reply(r)
  <2>1. resp \in [Requests -> Responses] /\ resp' \in [Requests -> Responses]
    BY DEF IInv, TypeOK
  <2>2. resp[r] = "none" /\ a \in Responses /\ a # "none"
    BY <1>4, <2>1 DEF IInv, RequestInv, HandlerInv
  <2>3. Verdict' = [Verdict EXCEPT ![r] = VerdictOf(a)] /\ Verdict[r] = "pending"
    BY <1>4, <2>1, <2>2, VerdictCases DEF Verdict
  <2>4. AnswerInv(r)' /\ HandlerInv(r)' /\ resp'[r] = a
    BY <1>4, <2>1 DEF IInv, RequestInv
  <2>5. /\ a = "ok" => runs[r] = 1
        /\ a \in NotRunAnswers \cup {"replay"} => runs[r] = 0
    BY <1>1, <2>4 DEF AnswerInv, HandlerInv, NeverRuns, Closed
  <2>6. QED
    BY <1>1, <2>2, <2>3, <2>5, VerdictCases DEF Service!Reply
<1>5. QED
  BY <1>2, <1>3, <1>4 DEF Service!SNext

\* The tool is invoked only for a request that is open: its answer does not close
\* it and nobody was told it is cancelled.
LEMMA RefineInvoke ==
  ASSUME IInv, HostInvoke PROVE Service!SNext
<1>1. /\ active \in Requests /\ mpc = "bind" /\ state[active] = "RUNNING"
      /\ runs[active] = 0 /\ runs' = [runs EXCEPT ![active] = 1]
      /\ UNCHANGED <<resp, toldCancelled>>
  <2>1. /\ active \in Requests /\ mpc = "bind" /\ state[active] = "RUNNING"
        /\ runs[active] = 0
    BY DEF IInv, TypeOK, HostInv, HostInvoke
  <2>2. runs' = [runs EXCEPT ![active] = runs[active] + 1]
    BY DEF HostInvoke
  <2>3. runs' = [runs EXCEPT ![active] = 1]
    BY <2>1, <2>2
  <2>4. UNCHANGED <<resp, toldCancelled>>
    BY DEF HostInvoke, HostFrame, handlerVars
  <2>5. QED
    BY <2>1, <2>3, <2>4
<1>2. AnswerInv(active) /\ ~NeverRuns(active)
  BY <1>1 DEF IInv, RequestInv, NeverRuns, Closed, Held
<1>3. resp[active] \in Responses \ (NotRunAnswers \cup {"ok", "failed", "replay"})
  BY <1>1, <1>2 DEF IInv, TypeOK, AnswerInv, Held
<1>4. VerdictOf(resp[active]) \in Service!Open
  BY <1>3 DEF VerdictOf, Responses, NotRunAnswers, Service!Open
<1>5. active \notin toldCancelled
  BY <1>2 DEF AnswerInv
<1>6. Verdict' = Verdict /\ Verdict[active] = VerdictOf(resp[active])
  BY <1>1 DEF Verdict
<1>7. Service!Run(active)
  BY <1>1, <1>4, <1>5, <1>6 DEF Service!Run
<1>8. QED
  BY <1>1, <1>7 DEF Service!SNext

\* No other step of the host thread is visible to the service.
LEMMA RefineHost ==
  ASSUME IInv, HostStep \/ Interrupt PROVE [Service!SNext]_(Service!svars)
<1>1. CASE HostInvoke
  BY <1>1, RefineInvoke
<1>2. CASE ~HostInvoke
  <2>1. UNCHANGED <<runs, resp, toldCancelled>>
    BY <1>2 DEF HostStep, Interrupt, HostCheck, HostGet, HostClaim, HostRefuse, HostReject,
      HostFail, HostSucceed, HostReply, HostEnd, HostShutdown, HostDrain, InterruptLoop,
      InterruptCall, HostFrame, handlerVars, storeVars, jobVars, hostVars
  <2>2. QED
    BY <2>1 DEF Verdict, Service!svars
<1>3. QED
  BY <1>1, <1>2

\* A cancel that is answered "cancelled" is one of a request that has not run.
LEMMA RefineCancel ==
  ASSUME IInv, IInv', NEW r \in Requests, Cancel(r)
  PROVE  [Service!SNext]_(Service!svars)
<1>1. UNCHANGED <<runs, resp>>
  BY DEF Cancel, handlerVars, hostVars
<1>2. Verdict' = Verdict
  BY <1>1 DEF Verdict
<1>3. CASE toldCancelled' = toldCancelled
  BY <1>1, <1>2, <1>3 DEF Service!svars
<1>4. CASE toldCancelled' = toldCancelled \cup {r}
  <2>1. NeverRuns(r)'
    BY <1>4 DEF IInv, RequestInv, AnswerInv
  <2>2. runs[r] = 0
    BY <1>1, <2>1 DEF NeverRuns, Closed
  <2>3. Service!CancelCall(r)
    BY <1>1, <1>2, <1>4, <2>2 DEF Service!CancelCall
  <2>4. QED
    BY <2>3 DEF Service!SNext
<1>5. QED
  BY <1>3, <1>4 DEF Cancel

LEMMA RefineStep ==
  IInv /\ IInv' /\ [Next]_vars => [Service!SNext]_(Service!svars)
<1> SUFFICES ASSUME IInv, IInv', [Next]_vars PROVE [Service!SNext]_(Service!svars)
  OBVIOUS
<1>1. CASE Stop \/ (\E r \in Requests : Expire(r)) \/ UNCHANGED vars
  <2>1. UNCHANGED <<runs, resp, toldCancelled>>
    BY <1>1 DEF Stop, Expire, vars, handlerVars, hostVars
  <2>2. QED
    BY <2>1 DEF Verdict, Service!svars
<1>2. QED
  BY <1>1, RefineHandler, RefineHost, RefineCancel DEF Next

\* The window host implements the service, for any number of requests, keys and
\* store sizes, interrupts included: a refused, cancelled, timed-out-in-the-queue
\* or drained call never runs, and no call runs twice.
THEOREM Refinement == Spec => ImplementsService
<1>1. IInv /\ [Next]_vars => IInv'
  BY InvStep
<1>2. QED
  BY <1>1, InvInit, RefineInit, RefineStep, PTL DEF Spec, ImplementsService, Service!SSpec
=============================================================================

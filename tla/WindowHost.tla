----------------------------- MODULE WindowHost -----------------------------
(***************************************************************************)
(* The Python window host (arcgis_pro_mcp/pro_host.py): one host thread    *)
(* inside ArcGIS Pro executes tool calls one at a time, and a threading    *)
(* HTTP server runs one handler thread per request.  They share a bounded  *)
(* queue, a job registry with idempotency keys, a stop flag and, per job,  *)
(* a state word and a one-slot reply queue.                                *)
(*                                                                         *)
(* A request r of the model is one POST /call or POST /jobs/submit, served *)
(* by its own handler thread.  A handler constructs at most one job, so    *)
(* the job is named by its request.  The code takes three locks; each      *)
(* action below is one critical section (or one atomic queue operation).   *)
(***************************************************************************)
EXTENDS Naturals, Sequences, FiniteSets, SequencesExt

CONSTANTS
  Requests,     \* the POST requests, each with its handler thread and its job
  RequestIds,   \* the values of the request_id field
  Keys,         \* the values of the idempotency_key field
  NoKey,        \* a request without idempotency_key
  NoJob,        \* an absent registry entry, no active job
  RidOf,        \* the request_id of every request
  KeyOf,        \* its idempotency_key, or NoKey
  DigestOf,     \* the digest of its payload without these two fields
  Async,        \* the requests sent to /jobs/submit; the others go to /call
  MaxQueue,     \* MAX_QUEUE_SIZE
  MaxRetained,  \* MAX_RETAINED_JOBS
  MaxInterrupts \* bound: the KeyboardInterrupts that reach the host thread, 0 or 1

ASSUME WindowHostAssumption ==
  /\ RidOf \in [Requests -> RequestIds]
  /\ KeyOf \in [Requests -> Keys \cup {NoKey}]
  /\ NoKey \notin Keys
  /\ NoJob \notin Requests
  /\ Async \subseteq Requests
  /\ MaxQueue \in Nat \ {0}
  /\ MaxRetained \in Nat
  /\ MaxInterrupts \in {0, 1}

VARIABLES
  hpc,          \* where each handler thread is
  resp,         \* the HTTP answer it gave
  replayed,     \* the job an idempotent replay answered with
  registry,     \* job_registry: request_id -> job
  idem,         \* idempotency_registry: key -> the job that wrote the entry
  evicted,      \* history: a job was pruned before its handler had queued it
  queue,        \* jobs, the bounded queue.Queue
  stop,         \* the stop Event
  state,        \* _Job.state, "NEW" before construction
  finishedAt,   \* the rank of _Job.finished_at, 0 for None
  now,          \* the rank of the latest finished_at
  expired,      \* the jobs whose deadline has passed
  reply,        \* _Job.reply, the one-slot queue
  mpc,          \* where the host thread is
  active,       \* active_job
  runs,         \* how often the tool of each job was invoked
  toldCancelled,\* the jobs /jobs/cancel answered "cancelled" for
  interrupted,  \* a KeyboardInterrupt reached the host thread
  lost          \* the job an interrupt dropped between jobs.get and active_job

handlerVars == <<hpc, resp, replayed>>
storeVars   == <<registry, idem, evicted>>
jobVars     == <<state, finishedAt, now, expired, reply>>
hostVars    == <<mpc, active, runs, interrupted, lost>>
vars == <<handlerVars, storeVars, queue, stop, jobVars, hostVars, toldCancelled>>

HandlerPc == {"idle", "prune", "register", "admit", "drop", "await", "timedout", "done"}
Responses == {"none", "stopping503", "conflict409", "replay", "full429", "accepted202",
              "ok", "failed", "notrun", "unknown", "cancelled504", "running504"}
JobStates == {"NEW", "QUEUED", "RUNNING", "CANCELLED", "SUCCEEDED", "FAILED"}
Replies   == {"none", "ok", "failed", "notrun", "unknown"}
HostPc    == {"loop", "get", "claim", "refuse", "reject", "bind", "running",
              "succeeded", "replied", "shutdown", "drain", "stopped"}

TypeOK ==
  /\ hpc \in [Requests -> HandlerPc]
  /\ resp \in [Requests -> Responses]
  /\ replayed \in [Requests -> Requests \cup {NoJob}]
  /\ registry \in [RequestIds -> Requests \cup {NoJob}]
  /\ idem \in [Keys -> Requests \cup {NoJob}]
  /\ evicted \in BOOLEAN
  /\ queue \in Seq(Requests)
  /\ stop \in BOOLEAN
  /\ state \in [Requests -> JobStates]
  /\ finishedAt \in [Requests -> Nat]
  /\ now \in Nat
  /\ expired \subseteq Requests
  /\ reply \in [Requests -> Replies]
  /\ mpc \in HostPc
  /\ active \in Requests \cup {NoJob}
  /\ runs \in [Requests -> Nat]
  /\ toldCancelled \subseteq Requests
  /\ interrupted \in BOOLEAN
  /\ lost \in Requests \cup {NoJob}

Init ==
  /\ hpc = [r \in Requests |-> "idle"]
  /\ resp = [r \in Requests |-> "none"]
  /\ replayed = [r \in Requests |-> NoJob]
  /\ registry = [i \in RequestIds |-> NoJob]
  /\ idem = [k \in Keys |-> NoJob]
  /\ evicted = FALSE
  /\ queue = <<>>
  /\ stop = FALSE
  /\ state = [r \in Requests |-> "NEW"]
  /\ finishedAt = [r \in Requests |-> 0]
  /\ now = 0
  /\ expired = {}
  /\ reply = [r \in Requests |-> "none"]
  /\ mpc = "loop"
  /\ active = NoJob
  /\ runs = [r \in Requests |-> 0]
  /\ toldCancelled = {}
  /\ interrupted = FALSE
  /\ lost = NoJob

-----------------------------------------------------------------------------
(* _Job: every method runs under the state lock of the job.                *)

\* Job j enters the terminal state s; finished_at is the current time.
Finish(j, s) ==
  /\ state' = [state EXCEPT ![j] = s]
  /\ finishedAt' = [finishedAt EXCEPT ![j] = now + 1]
  /\ now' = now + 1

\* Mutants: a cancel that does not look at the state, or misspells the new one.
CancelAlways(j) == Finish(j, "CANCELLED")
CancelMisspelt(j) ==
  IF state[j] = "QUEUED" THEN Finish(j, "CANCELED") ELSE UNCHANGED <<state, finishedAt, now>>

\* cancel_if_queued, and the queued branch of request_cancel.
CancelIfQueued(j) ==
  IF state[j] = "QUEUED" THEN Finish(j, "CANCELLED")
                         ELSE UNCHANGED <<state, finishedAt, now>>

\* reply.put_nowait with queue.Full swallowed.
PutReply(j, what) ==
  reply' = IF reply[j] = "none" THEN [reply EXCEPT ![j] = what] ELSE reply

-----------------------------------------------------------------------------
(* The handler thread of request r.                                        *)

Answer(r, what) ==
  /\ hpc' = [hpc EXCEPT ![r] = "done"]
  /\ resp' = [resp EXCEPT ![r] = what]

Goto(r, where) ==
  /\ hpc' = [hpc EXCEPT ![r] = where]
  /\ UNCHANGED resp

\* The request arrives; the early stop test is made outside admission_lock.
Arrive(r) ==
  /\ hpc[r] = "idle"
  /\ IF stop THEN Answer(r, "stopping503") ELSE Goto(r, "prune")
  /\ UNCHANGED <<replayed, storeVars, queue, stop, jobVars, hostVars, toldCancelled>>

Registered == {j \in Requests : \E i \in RequestIds : registry[i] = j}
\* Mutant: pruning without the test of the terminal state.
EveryRegisteredJob == Registered
FinishedJobs == {j \in Registered : finishedAt[j] > 0}

\* The n jobs of S that finished first.
Oldest(S, n) ==
  {j \in S : Cardinality({i \in S : finishedAt[i] < finishedAt[j]}) < n}

\* Mutant: the capacity is kept by whatever is registered, finished or not.
PrunedToCapacity(cutoff) ==
  LET aged   == {j \in FinishedJobs : finishedAt[j] < cutoff /\ hpc[j] = "done"}
      kept   == Registered \ aged
  IN  aged \cup Oldest(kept, IF Cardinality(kept) > MaxRetained THEN Cardinality(kept) - MaxRetained ELSE 0)

\* prune_jobs: first the jobs that finished before the cutoff, then, above the
\* capacity, the oldest terminal ones.  JOB_RETENTION_SECONDS is an hour and a
\* handler lives at most HOST_JOB_TIMEOUT, so an aged job has no live handler.
PrunedAt(cutoff) ==
  LET aged   == {j \in FinishedJobs : finishedAt[j] < cutoff /\ hpc[j] = "done"}
      kept   == Registered \ aged
      excess == IF Cardinality(kept) > MaxRetained
                THEN Oldest(FinishedJobs \ aged, Cardinality(kept) - MaxRetained)
                ELSE {}
  IN  aged \cup excess

\* A pruned job takes its idempotency entry along if that still names its id.
PrunedKey(k, P) ==
  \E j \in P : KeyOf[j] = k /\ idem[k] # NoJob /\ RidOf[idem[k]] = RidOf[j]

Prune(r) ==
  /\ hpc[r] = "prune"
  /\ \E cutoff \in 0..(now + 1) :
       LET P == PrunedAt(cutoff)
       IN  /\ registry' = [i \in RequestIds |->
                             IF registry[i] \in P THEN NoJob ELSE registry[i]]
           /\ idem' = [k \in Keys |-> IF PrunedKey(k, P) THEN NoJob ELSE idem[k]]
           /\ evicted' = (evicted \/ \E j \in P : hpc[j] \in {"admit", "drop"})
  /\ Goto(r, "register")
  /\ UNCHANGED <<replayed, queue, stop, jobVars, hostVars, toldCancelled>>

\* The entry of r's idempotency key, and the registered job it leads to.
KeyEntry(r) == IF KeyOf[r] = NoKey THEN NoJob ELSE idem[KeyOf[r]]
KeyJob(r)   == IF KeyEntry(r) = NoJob THEN NoJob ELSE registry[RidOf[KeyEntry(r)]]
KeyConflict(r) == KeyEntry(r) # NoJob /\ DigestOf[KeyEntry(r)] # DigestOf[r]
StoreFull == Cardinality(Registered) >= MaxRetained /\ FinishedJobs = {}

\* register_job, the part under job_registry_lock.
RegisterRefused(r) ==
  /\ hpc[r] = "register"
  /\ \/ KeyConflict(r)
     \/ KeyJob(r) = NoJob /\ (registry[RidOf[r]] # NoJob \/ StoreFull)
  /\ Answer(r, "conflict409")
  /\ UNCHANGED <<replayed, storeVars, queue, stop, jobVars, hostVars, toldCancelled>>

RegisterReplay(r) ==
  /\ hpc[r] = "register"
  /\ ~KeyConflict(r)
  /\ KeyJob(r) # NoJob
  /\ Answer(r, "replay")
  /\ replayed' = [replayed EXCEPT ![r] = KeyJob(r)]
  /\ UNCHANGED <<storeVars, queue, stop, jobVars, hostVars, toldCancelled>>

RegisterNew(r) ==
  /\ hpc[r] = "register"
  /\ ~KeyConflict(r)
  /\ KeyJob(r) = NoJob
  /\ registry[RidOf[r]] = NoJob
  /\ ~StoreFull
  /\ state' = [state EXCEPT ![r] = "QUEUED"]
  /\ registry' = [registry EXCEPT ![RidOf[r]] = r]
  /\ idem' = IF KeyOf[r] = NoKey THEN idem ELSE [idem EXCEPT ![KeyOf[r]] = r]
  /\ Goto(r, "admit")
  /\ UNCHANGED <<evicted, replayed, queue, stop, finishedAt, now, expired, reply, hostVars,
                 toldCancelled>>

\* The critical section under admission_lock, and the answers that follow it.
Admit(r) ==
  /\ hpc[r] = "admit"
  /\ \/ /\ stop
        /\ Answer(r, "stopping503")
        /\ UNCHANGED queue
     \/ /\ ~stop
        /\ Len(queue) < MaxQueue
        /\ queue' = Append(queue, r)
        /\ IF r \in Async THEN Answer(r, "accepted202") ELSE Goto(r, "await")
     \/ /\ ~stop
        /\ Len(queue) >= MaxQueue
        /\ Goto(r, "drop")
        /\ UNCHANGED queue
  /\ UNCHANGED <<replayed, storeVars, stop, jobVars, hostVars, toldCancelled>>

\* The queue was full: both registry entries are popped, whoever wrote them.
DropFull(r) ==
  /\ hpc[r] = "drop"
  /\ registry' = [registry EXCEPT ![RidOf[r]] = NoJob]
  /\ idem' = IF KeyOf[r] = NoKey THEN idem ELSE [idem EXCEPT ![KeyOf[r]] = NoJob]
  /\ Answer(r, "full429")
  /\ UNCHANGED <<evicted, replayed, queue, stop, jobVars, hostVars, toldCancelled>>

\* reply.get returns in time.
AwaitReply(r) ==
  /\ hpc[r] = "await"
  /\ reply[r] # "none"
  /\ Answer(r, reply[r])
  /\ reply' = [reply EXCEPT ![r] = "none"]
  /\ UNCHANGED <<replayed, storeVars, queue, stop, state, finishedAt, now, expired,
                 hostVars, toldCancelled>>

\* Mutant: only a call that has started times out.
TimeoutOnceStarted(r) ==
  /\ hpc[r] = "await" /\ reply[r] = "none" /\ r \in expired /\ state[r] # "QUEUED"
  /\ Goto(r, "timedout")
  /\ UNCHANGED <<replayed, storeVars, queue, stop, jobVars, hostVars, toldCancelled>>

\* reply.get raises Empty.  Its timeout equals the deadline's and starts later.
AwaitTimeout(r) ==
  /\ hpc[r] = "await"
  /\ reply[r] = "none"
  /\ r \in expired
  /\ Goto(r, "timedout")
  /\ UNCHANGED <<replayed, storeVars, queue, stop, jobVars, hostVars, toldCancelled>>

\* The 504 answer: cancelled before it started, or "started, may still run".
AnswerTimeout(r) ==
  /\ hpc[r] = "timedout"
  /\ Answer(r, IF state[r] = "QUEUED" THEN "cancelled504" ELSE "running504")
  /\ CancelIfQueued(r)
  /\ UNCHANGED <<replayed, storeVars, queue, stop, expired, reply, hostVars, toldCancelled>>

\* POST /jobs/cancel for job j.  The job object was looked up while registered;
\* it may have left the registry since, which request_cancel does not notice.
Cancel(j) ==
  /\ state[j] # "NEW"
  /\ CancelIfQueued(j)
  /\ toldCancelled' = IF state[j] \in {"QUEUED", "CANCELLED"}
                      THEN toldCancelled \cup {j} ELSE toldCancelled
  /\ UNCHANGED <<handlerVars, storeVars, queue, stop, expired, reply, hostVars>>

\* POST /stop, under admission_lock.
Stop ==
  /\ ~stop
  /\ stop' = TRUE
  /\ UNCHANGED <<handlerVars, storeVars, queue, jobVars, hostVars, toldCancelled>>

\* HOST_JOB_TIMEOUT elapses for job j; only a queued job and an awaiting handler
\* look at the clock.
Expire(j) ==
  /\ state[j] = "QUEUED" \/ hpc[j] = "await"
  /\ j \notin expired
  /\ expired' = expired \cup {j}
  /\ UNCHANGED <<handlerVars, storeVars, queue, stop, state, finishedAt, now, reply,
                 hostVars, toldCancelled>>

-----------------------------------------------------------------------------
(* The host thread: the loop of _run_host_main.                            *)

\* A host step leaves the handlers, the registries and these alone.
HostFrame == UNCHANGED <<handlerVars, storeVars, expired, toldCancelled, interrupted, lost>>

\* Mutant: the loop looks at arcpy.env.isCancelled only.
LoopIgnoresStop ==
  /\ mpc = "loop"
  /\ mpc' \in {"get", "shutdown"}
  /\ UNCHANGED <<queue, stop, state, finishedAt, now, reply, active, runs>> /\ HostFrame

\* The loop condition: arcpy.env.isCancelled may be set at any time.
HostCheck ==
  /\ mpc = "loop"
  /\ \/ ~stop /\ mpc' = "get"
     \/ mpc' = "shutdown"
  /\ UNCHANGED <<queue, stop, state, finishedAt, now, reply, active, runs>> /\ HostFrame

HostGet ==
  /\ mpc = "get"
  /\ IF queue = <<>>
     THEN mpc' = "loop" /\ UNCHANGED <<queue, active>>
     ELSE mpc' = "claim" /\ active' = Head(queue) /\ queue' = Tail(queue)
  /\ UNCHANGED <<stop, state, finishedAt, now, reply, runs>> /\ HostFrame

\* Mutant: the claim does not look at the state.
ClaimUnchecked ==
  /\ mpc = "claim"
  /\ IF stop THEN mpc' = "refuse" /\ UNCHANGED state
             ELSE mpc' = "bind" /\ state' = [state EXCEPT ![active] = "RUNNING"]
  /\ UNCHANGED <<queue, stop, finishedAt, now, reply, active, runs>> /\ HostFrame

\* Under admission_lock: stopping, or _Job.claim.
HostClaim ==
  /\ mpc = "claim"
  /\ \/ /\ stop
        /\ mpc' = "refuse"
        /\ UNCHANGED <<state, finishedAt, now>>
     \/ /\ ~stop
        /\ state[active] = "QUEUED" /\ active \notin expired
        /\ state' = [state EXCEPT ![active] = "RUNNING"]
        /\ mpc' = "bind"
        /\ UNCHANGED <<finishedAt, now>>
     \/ /\ ~stop
        /\ state[active] # "QUEUED" \/ active \in expired
        /\ CancelIfQueued(active)
        /\ mpc' = "reject"
  /\ UNCHANGED <<queue, stop, reply, active, runs>> /\ HostFrame

\* The end of a loop iteration: the active job is accounted for.
Accounted == active' = NoJob /\ mpc' = "loop"

\* The host is stopping: cancel_if_queued, then the reply.
HostRefuse ==
  /\ mpc = "refuse"
  /\ CancelIfQueued(active)
  /\ PutReply(active, "notrun")
  /\ Accounted
  /\ UNCHANGED <<queue, stop, runs>> /\ HostFrame

\* The job was cancelled or had expired before the claim.
HostReject ==
  /\ mpc = "reject"
  /\ PutReply(active, "notrun")
  /\ Accounted
  /\ UNCHANGED <<queue, stop, state, finishedAt, now, runs>> /\ HostFrame

\* The expected project is the current one: the tool is invoked.
HostInvoke ==
  /\ mpc = "bind"
  /\ runs' = [runs EXCEPT ![active] = @ + 1]
  /\ mpc' = "running"
  /\ UNCHANGED <<queue, stop, state, finishedAt, now, reply, active>> /\ HostFrame

\* An exception before the tool (another project is open, a bad payload) or in it.
HostFail ==
  /\ mpc \in {"bind", "running"}
  /\ Finish(active, "FAILED")
  /\ PutReply(active, "failed")
  /\ Accounted
  /\ UNCHANGED <<queue, stop, runs>> /\ HostFrame

HostSucceed ==
  /\ mpc = "running"
  /\ Finish(active, "SUCCEEDED")
  /\ mpc' = "succeeded"
  /\ UNCHANGED <<queue, stop, reply, active, runs>> /\ HostFrame

HostReply ==
  /\ mpc = "succeeded"
  /\ PutReply(active, "ok")
  /\ mpc' = "replied"
  /\ UNCHANGED <<queue, stop, state, finishedAt, now, active, runs>> /\ HostFrame

HostEnd ==
  /\ mpc = "replied"
  /\ Accounted
  /\ UNCHANGED <<queue, stop, state, finishedAt, now, reply, runs>> /\ HostFrame

\* KeyboardInterrupt outside the inner try: active_job is left for the shutdown.
\* Between jobs.get and the assignment of active_job it loses the job it took.
InterruptLoop ==
  /\ mpc \in {"loop", "get", "claim", "refuse", "reject"}
  /\ ~interrupted /\ MaxInterrupts = 1
  /\ interrupted' = TRUE
  /\ mpc' = "shutdown"
  /\ \/ UNCHANGED <<queue, lost>>
     \/ /\ mpc = "get" /\ queue # <<>>
        /\ lost' = Head(queue) /\ queue' = Tail(queue)
  /\ UNCHANGED <<handlerVars, storeVars, stop, jobVars, active, runs, toldCancelled>>

\* KeyboardInterrupt inside it: the except clause overwrites the outcome.
InterruptCall ==
  /\ mpc \in {"bind", "running", "succeeded", "replied"}
  /\ ~interrupted /\ MaxInterrupts = 1
  /\ interrupted' = TRUE
  /\ Finish(active, "FAILED")
  /\ PutReply(active, "unknown")
  /\ active' = NoJob
  /\ mpc' = "shutdown"
  /\ UNCHANGED <<handlerVars, storeVars, queue, stop, expired, runs, toldCancelled, lost>>

\* Mutant: the queue is not drained.
ShutdownWithoutDrain ==
  /\ mpc = "shutdown"
  /\ stop' = TRUE
  /\ mpc' = "stopped"
  /\ active' = NoJob
  /\ IF active = NoJob
     THEN UNCHANGED <<state, finishedAt, now, reply>>
     ELSE Finish(active, "FAILED") /\ PutReply(active, "unknown")
  /\ UNCHANGED <<queue, runs>> /\ HostFrame

\* The outer finally: stop is set, an unaccounted active job fails.
HostShutdown ==
  /\ mpc = "shutdown"
  /\ stop' = TRUE
  /\ mpc' = "drain"
  /\ active' = NoJob
  /\ IF active = NoJob
     THEN UNCHANGED <<state, finishedAt, now, reply>>
     ELSE Finish(active, "FAILED") /\ PutReply(active, "unknown")
  /\ UNCHANGED <<queue, runs>> /\ HostFrame

\* Each drained job gets a reply; its state word is not touched.
HostDrain ==
  /\ mpc = "drain"
  /\ IF queue = <<>>
     THEN mpc' = "stopped" /\ UNCHANGED <<queue, reply>>
     ELSE queue' = Tail(queue) /\ PutReply(Head(queue), "notrun") /\ UNCHANGED mpc
  /\ UNCHANGED <<stop, state, finishedAt, now, active, runs>> /\ HostFrame

-----------------------------------------------------------------------------
HandlerStep(r) ==
  \/ Arrive(r) \/ Prune(r)
  \/ RegisterRefused(r) \/ RegisterReplay(r) \/ RegisterNew(r)
  \/ Admit(r) \/ DropFull(r)
  \/ AwaitReply(r) \/ AwaitTimeout(r) \/ AnswerTimeout(r)

HostStep ==
  \/ HostCheck \/ HostGet \/ HostClaim \/ HostRefuse \/ HostReject
  \/ HostInvoke \/ HostFail \/ HostSucceed \/ HostReply \/ HostEnd
  \/ HostShutdown \/ HostDrain

Interrupt == InterruptLoop \/ InterruptCall

Next ==
  \/ \E r \in Requests : HandlerStep(r) \/ Cancel(r) \/ Expire(r)
  \/ HostStep
  \/ Interrupt
  \/ Stop

Spec == Init /\ [][Next]_vars

\* A request may never come, nobody need cancel, stop or interrupt; the threads
\* run, a tool returns, and time passes.
Fairness ==
  /\ \A r \in Requests : WF_vars(hpc[r] # "idle" /\ HandlerStep(r)) /\ WF_vars(Expire(r))
  /\ WF_vars(HostStep)

FairSpec == Spec /\ Fairness

-----------------------------------------------------------------------------
(* Properties.                                                             *)

QueuedJobs == ToSet(queue)

\* The answers that say the tool was not and will not be invoked.
NotRunAnswers == {"stopping503", "conflict409", "full429", "notrun", "cancelled504"}

\* What an answer tells the client about the tool of the request.
VerdictOf(a) ==
  CASE a = "none" -> "pending"
    [] a \in NotRunAnswers -> "notrun"
    [] a = "accepted202" -> "accepted"
    [] a \in {"unknown", "running504"} -> "unknown"
    [] OTHER -> a

Verdict == [r \in Requests |-> VerdictOf(resp[r])]

Service == INSTANCE CallService WITH effect <- runs, answer <- Verdict,
                                     cancelled <- toldCancelled

\* The host implements the service: whatever the order of timeouts, cancels,
\* stops and interrupts, a refused, cancelled or drained call never runs, no call
\* runs twice, and "ok" is only said of a call that ran.
ImplementsService == Service!SSpec

\* A job the host will run, or is running, can still be found through its
\* request id and its idempotency key (GET /jobs, a replay): neither pruning nor
\* the drop of another request takes the entries of a live job.  The hypothesis:
\* the store never evicted a job its handler had not queued yet, which takes more
\* than MAX_RETAINED_JOBS requests in flight; the drop of such a job pops the
\* entries another request has written since.
LiveJobRetained ==
  ~evicted => \A r \in Requests :
    (r \in QueuedJobs \/ r = active) /\ finishedAt[r] = 0 =>
      /\ registry[RidOf[r]] = r
      /\ KeyOf[r] # NoKey => idem[KeyOf[r]] = r

\* Two jobs of one idempotency key are never both on their way to the host
\* thread: the retry of a submission does not run it again (same hypothesis).
OneLiveJobPerKey ==
  ~evicted => \A r, q \in Requests :
    r # q /\ KeyOf[r] = KeyOf[q] /\ KeyOf[r] # NoKey =>
      ~ /\ r \in QueuedJobs \cup {active} /\ finishedAt[r] = 0
        /\ q \in QueuedJobs \cup {active} /\ finishedAt[q] = 0

\* An interrupt apart, the outcome of a job is written once: a finished job is
\* never claimed, cancelled or overwritten (by a late cancel, a timeout, a drain).
OutcomeIsFinal ==
  [][~interrupted' =>
       \A r \in Requests : finishedAt[r] > 0 =>
         state'[r] = state[r] /\ finishedAt'[r] = finishedAt[r]]_vars

\* Every request that arrives is answered, whatever happens to the host.
EveryCallAnswered ==
  \A r \in Requests : hpc[r] \notin {"idle", "done"} ~> hpc[r] = "done"

\* The safe part of EveryCallAnswered: a client that still waits without a reply has
\* its job in the queue or in the hands of the host thread, which has not stopped;
\* the time limit is needed by one call at most, the one an interrupt took off the queue.
NobodyWaitsInVain ==
  \A r \in Requests :
    hpc[r] = "await" /\ reply[r] = "none" =>
      r = lost \/ (r \in QueuedJobs \cup {active} /\ mpc # "stopped")

\* A job that was queued does not stay in the queue, even when its client has gone.
QueueDrains == \A r \in Requests : r \in QueuedJobs ~> r \notin QueuedJobs

\* A stop request stops the host once the call in hand is done.
StopStops == stop ~> mpc = "stopped"

\* The request id a replay answers with can be queried until its job finishes.
ReplayedIdQueryable ==
  \A r \in Requests :
    resp[r] = "replay" /\ finishedAt[replayed[r]] = 0 =>
      registry[RidOf[replayed[r]]] # NoJob

-----------------------------------------------------------------------------
(* The inductive invariant behind ImplementsService.                       *)

\* The job is in the queue or in the host thread's hands.
Held(r) == r \in QueuedJobs \/ r = active

\* The job has not run and cannot: it is cancelled, or its handler is past the
\* admission and neither the queue nor the host thread holds it.
Closed(r) ==
  /\ runs[r] = 0
  /\ state[r] = "CANCELLED" \/ (state[r] # "NEW" /\ hpc[r] # "admit" /\ ~Held(r))

NeverRuns(r) == Closed(r) \/ (runs[r] = 0 /\ state[r] = "NEW" /\ hpc[r] = "done")

\* A handler and its job before and after the construction of the job.
HandlerInv(r) ==
  /\ hpc[r] # "done" => resp[r] = "none"
  /\ hpc[r] \in {"idle", "prune", "register"} => state[r] = "NEW"
  /\ state[r] = "NEW" =>
       /\ hpc[r] \in {"idle", "prune", "register", "done"}
       /\ runs[r] = 0 /\ reply[r] = "none" /\ ~Held(r) /\ r \notin toldCancelled
  /\ hpc[r] \in {"admit", "drop"} =>
       state[r] \in {"QUEUED", "CANCELLED"} /\ reply[r] = "none" /\ ~Held(r)

\* The state word, the invocation and the holder of a job agree.
JobInv(r) ==
  /\ runs[r] \in {0, 1}
  /\ state[r] \in {"NEW", "QUEUED", "CANCELLED"} => runs[r] = 0
  /\ state[r] = "RUNNING" => r = active /\ mpc \in {"bind", "running"}
  /\ r \in QueuedJobs =>
       state[r] \in {"QUEUED", "CANCELLED"} /\ reply[r] = "none" /\ r # active

\* What was said about a job is true and stays so.
AnswerInv(r) ==
  /\ reply[r] = "notrun" \/ resp[r] \in NotRunAnswers \/ r \in toldCancelled => NeverRuns(r)
  /\ reply[r] = "ok" \/ resp[r] = "ok" => runs[r] = 1
  /\ reply[r] = "failed" \/ resp[r] = "failed" => ~Held(r)
  /\ resp[r] = "replay" => state[r] = "NEW"

\* What the host thread holds at each point of its loop.
HostInv ==
  /\ mpc \in {"loop", "get", "drain", "stopped"} => active = NoJob
  /\ mpc \in {"claim", "refuse", "reject", "bind", "running", "succeeded", "replied"} =>
       active # NoJob
  /\ active # NoJob /\ mpc \in {"claim", "refuse", "reject", "shutdown"} =>
       state[active] \in {"QUEUED", "CANCELLED"}
  /\ active # NoJob /\ mpc # "replied" => reply[active] = "none"
  /\ mpc = "bind" => state[active] = "RUNNING" /\ runs[active] = 0
  /\ mpc = "running" => state[active] = "RUNNING" /\ runs[active] = 1
  /\ mpc \in {"succeeded", "replied"} => state[active] = "SUCCEEDED" /\ runs[active] = 1

RequestInv(r) == HandlerInv(r) /\ JobInv(r) /\ AnswerInv(r)

IInv ==
  /\ TypeOK
  /\ IsInjective(queue)
  /\ HostInv
  /\ \A r \in Requests : RequestInv(r)
-----------------------------------------------------------------------------
(* The inductive invariant behind LiveJobRetained, OneLiveJobPerKey and    *)
(* OutcomeIsFinal; it stands on IInv.                                      *)

\* Both registries lead to job r.
Filed(r) ==
  /\ registry[RidOf[r]] = r
  /\ KeyOf[r] # NoKey => idem[KeyOf[r]] = r

\* A job on its way to the host thread: constructed and not yet queued (cancelled
\* or not, for the drop pops its entries anyway), or held and unfinished.
Pending(r) == hpc[r] \in {"admit", "drop"} \/ (Held(r) /\ finishedAt[r] = 0)

\* An entry of the registry stands under the request id of its job, and unless a
\* job was evicted before it was queued, both entries of a pending job are its own.
FilingInv ==
  /\ \A i \in RequestIds : registry[i] # NoJob => RidOf[registry[i]] = i
  /\ ~evicted => \A r \in Requests : Pending(r) => Filed(r)

\* finished_at is set exactly in the terminal states, and only an interrupt leaves
\* the shutdown an active job to fail.
FinishInv ==
  /\ \A r \in Requests : finishedAt[r] > 0 <=> state[r] \in {"CANCELLED", "SUCCEEDED", "FAILED"}
  /\ mpc = "shutdown" /\ active # NoJob => interrupted

StoreInv == IInv /\ FilingInv /\ FinishInv

-----------------------------------------------------------------------------
(* The inductive invariant behind NobodyWaitsInVain; it stands on IInv.    *)

\* A job leaves the queue and the host thread with a reply, or is the one that the
\* interrupt lost; when the queue has been drained, admissions are over.
WaitInv ==
  /\ \A r \in Requests : hpc[r] = "await" /\ reply[r] = "none" => Held(r) \/ r = lost
  /\ mpc = "replied" /\ hpc[active] = "await" => reply[active] # "none"
  /\ mpc \in {"drain", "stopped"} => stop
  /\ mpc = "stopped" => queue = <<>>
  /\ ~interrupted => lost = NoJob
=============================================================================

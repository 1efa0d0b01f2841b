# Formal model of arcgis-mcp-service

TLA+ modules, TLC configurations and TLAPS proofs for the parts of
[arcgis-mcp-service](../src/README.md) in which several threads, processes, programs or clients
act on shared state, or in which a sequence of calls works on state that stays. The reference is
the code, at the lines that `PROJECT.json` names for every definition; the documents are used only
to find out what is promised.

## 1. The system

The service lets an MCP client work with ArcGIS Pro. It has three execution planes.

| Plane | Code | Actors | Shared state |
|---|---|---|---|
| File mode | `arcgis_pro_mcp/server.py` and its tool modules | the stdio server, one call at a time; other server processes; other programs on the same data | `_PROJECT_CACHE`, signed preflight tokens, run folders and reports, datasets and their schemas |
| Python CURRENT window host | `pro_host.py` (in ArcGIS Pro), `pro_attach.py` (router in the stdio server), `private_state.py` (discovery file) | a host thread, HTTP handler threads, the router, other Pro processes, the user | a bounded queue, the job registry, a stop event, the discovery file, the port, the confirmed target |
| SDK add-in bridge | `sdk/ArcGISProMcp.AddIn/` (C#), `sdk_bridge.py` (client) | request tasks, GP tasks, the UI thread, the main CIM thread, clients | the project lease, the mutation gate, the GP jobs, the event ring |

Inventory of the components:

| Component | State | Operations | Hard behaviour | What makes it correct |
|---|---|---|---|---|
| Window host, `pro_host.py` | queue, `job_registry`, `idempotency_registry`, stop, job words, reply slots | `/call`, `/jobs/submit`, `/jobs/cancel`, `/stop`, host loop, shutdown | timeout, cancel and claim race; retries; full queue; stop, `KeyboardInterrupt` and drain | at most one run per call, truthful answers, nobody waits for ever |
| Host life cycle and router, `pro_attach.py`, `private_state.py`, `server.py` | port, discovery file, session, `_LIVE`, `_CONFIRMED_TARGET` | start, fail, stop, crash; status, confirm, CURRENT call, detach | two hosts on a port, crash leftovers, project switches between check and use | the file names the live host, a call runs where it was confirmed, "detached" is true |
| Leases, routes and GP jobs, `ProjectLeaseManager.cs`, `AuthenticatedLoopbackBridge.cs`, `GpJobController.cs`, `BridgeRuntime.cs` | `_lease`, `_generation`, `_mutationGate`, `_jobs`, `_networkAnalyses` | acquire, renew, release, jobs, edits, views; project events | checks before awaits, expiry, switches, cancels that race the end of a job | one job, no work beyond its lease, edits in the leased project |
| Event ring, `ProEventController.cs`, `LiveWindowService.cs` (refresh) | ring, signals, draw generations | publish, read, long poll, refresh | lost wakeups, slow readers, draws of other maps | nothing lost silently, waits end, "drawn" means this map |
| File-mode edits, `editing.py`, cursors of `da_write.py` | tokens (signed, kept by the client), the data, an Editor session | preflight, apply, for a dataset or a workspace | data changed between preflight, plan and session; operations that change what later ones select; failure and crash in the middle | a batch is atomic and changes what the preflight counted |
| File-mode project, `server.py`, `project_io.py`, `project_catalog.py`, `cartography.py`, `symbology.py`, `charts.py` | `_PROJECT_CACHE`, repair tokens, the `.aprx` | open, edit, save, release, reload, two-step repair of connections | unsaved edits over many calls; other programs saving; a list of repairs that stops in the middle | acknowledged edits stay; a repair does what it reports |
| Checked changes of schemas, `data_integrity.py`, `schema_maintenance.py`, `dataset_management.py` | the schema of a dataset, locks | rules, groups, contingent values, indexes, editor tracking, GlobalIDs, domains, attachments, relationships, topologies | the lock is tested, not held; tools that do a part; retries; names that differ in case only | "verified" means that only what was asked has changed |
| Checked raster clip, `raster_checked.py`, `analysis_quality.py` | run folders, `report.json`, fingerprints | plan, run, status | several processes on one output root, crashes, results copied and used again | a run writes once; a bad result is never an input |
| Geoprocessing outputs and exports, `gp_*.py`, `raster_*.py`, `spatial_modeling.py`, `network_analysis.py`, `publishing.py` and others | output paths, `overwriteOutput` of the session | some sixty groups of handlers | check and tool are separate steps; one solver with several exports | nothing is destroyed that was not given up; what is answered is there |
| View commands, feature edits, edit commands (C#) | context, selection and edit generations | compare-and-set on the main CIM thread | events on the UI thread after the check | not modelled |
| SDK client `sdk_bridge.py` | session references | acquire, renew, release, calls | a renewal or an error that drops a session | not modelled |
| Bootstrap `arcgis_pro_mcp_bootstrap.py` | module generation, process lock | load, run, restore | failure half way | not modelled |
| Options, discovery file, paths, redaction of the add-in | none that changes | configuration and I/O | none between actors | not modelled |
| Enterprise geodatabase versions, `enterprise_gdb.py` | kept by the geodatabase | one call into ArcPy each | inside the geodatabase | not modelled |
| Registry and policies, session references, other wrappers | none, or one locked table | classification, single calls | none between actors | not modelled |

How they interact: the router reads the discovery file that the host writes, asks `/health`,
compares the answer with the confirmed target and posts the call with session and project;
the host's handler queues it and the host thread checks the project again when it binds the
tool. The SDK client works under a lease: every leased request validates it before and inside
the mutation gate; project events on the UI thread invalidate it and cancel its jobs; every
change is published to the event ring. In file mode the tools share the cached project, the
session's environment settings and the data on disk: a cached project may hold the schema lock
that a schema change needs, and a checked clip may read what another one has written.

The behaviours that a test would hardly reach are listed, with their lines and the properties
about them, under `hazards` in `PROJECT.json`.

## 2. Modules

| Module | Models | State and actions |
|---|---|---|
| `CallService` | the abstract promise of the window host: a call runs at most once, the answer and a cancellation are true | `effect`, `answer`, `cancelled`; `Run`, `Reply`, `CancelCall` |
| `WindowHost` | `pro_host.py` from the arrival of a POST to its answer | handler pc, registry, idempotency entries, queue, stop, job word and reply slot; one action per critical section of a handler, per step of the host loop, per client request |
| `HostAttach` | host start and end, discovery file, router calls | host pc, session, port, file, `_LIVE["project"]`, latch; router calls with their snapshot |
| `SdkBridge` | leases, gate, routes, GP jobs, project-changed callback | lease by its generation, gate holder, a pc and locals per request, `_jobs` as a sequence, status and `RunAsync` pc per job |
| `EventRing` | the event ring with long polls, the draw wait | the ring as a sequence of sequence numbers, signals named by the count at which they were made |
| `EditData` | what an operation of an edit batch selects and does to the rows | operators only: a row is an ObjectID with a content, a where clause the set of contents it matches |
| `AtomicEdit` | the abstract promise of an apply: the whole batch in one step, or nothing | `rows`, `batch`, `answer`, `writes`; `Commit` |
| `EditTransaction` | `editing.py`: preflight, apply, Editor session | committed rows and the session's view of them, plan, presented token, good tokens; one action per planned and per executed operation |
| `ProjectSession` | one project file in file mode: cache, edits, save, release, repair | the file, the cached copy, the good repair tokens, and a history of acknowledged edits; one action per tool, saves of other programs, restarts |
| `SchemaMutation` | the changes of a dataset's schema | the inventory as a set of items, the call with its snapshot; guards and snapshot, tool, second reading are three steps, with other programs between |
| `GpOutputs` | what handlers do to their output paths | what is at each path, the call by its style (what it asks before, whether the tool replaces, what it looks at afterwards); one definition per group of handlers |
| `CheckedClip` | `clip_checked`: run folder, report, verification, snapshot, Clip, validation, eligibility | datasets as main file and sidecars, reports, a pc and a report in memory per process |
| `*Proofs` | theorems about the module they are named after; `SdkBridgeProofs` is about `SdkBridge` and `EventRing`, the two halves of the add-in | |
| `MC*` | the small instances for TLC | |

Correspondence of granularity: where threads run concurrently, a lock section, an operation of a
thread-safe queue, a signal or the code between two awaits is one action. The stdio server runs
one tool at a time, so that in file mode a call is one action where nobody else looks at its
state in the middle (`ProjectSession`), and a few where other programs or processes do
(`EditTransaction`, `SchemaMutation`, `GpOutputs`, `CheckedClip`). Data that no decision looks at
(payloads, messages, labels, progress) is left out.

`HostAttach` treats what happens to a queued call in one step (`Execute`, or a return); the
detail between is `WindowHost`. In turn `WindowHost` has the project comparison as one of the
causes of `HostFail`. `SchemaMutation` has the cached project of `ProjectSession` as `pinned`.

Histories (variables the code does not have, used by properties only) are marked in the
declarations: `evicted`, `closed`, `confirmed`, `fresh`, `delivered`, `excused`,
`drawn`, `disturbed`, `clashes`, `acked`, `touched`, `good`, `clips`, `taken`.

Operators marked as mutants are plausible mistakes in the definition that follows them. Replacing
the definition by the mutant breaks the property named in `PROJECT.json`; they show that every
property can fail.

## 3. What is checked

All passing runs check their properties over the complete state space of the instance.

| Run | Instance | Shows |
|---|---|---|
| `window_host` | 3 requests: a submission, its retry under the same key, and a stranger without a key; queue 1, store 1 | full queue, full store, replay, pruning by age and by capacity, drop, timeout, cancel and stop in any order implement `CallService`; entries of live jobs are kept; one live job per key; outcomes are final |
| `window_host_live` | 2 requests with one id, one asynchronous; a `KeyboardInterrupt` anywhere; fairness | every call is answered, the queue drains, a stop stops |
| `host_attach` | 2 processes, 2 projects, 2 router calls, 2 starts, 1 switch | the file names the ready host, "detached" is true, a call runs only in a confirmed session and project |
| `sdk_jobs` | 2 connections, 1 acquisition in flight at the bound, 2 jobs, 1 expiry; routes acquire, release, start, cancel | one running job, jobs are asked to stop when their lease ends or the project is left, a final status stays |
| `sdk_work` | 2 connections, 2 projects, 1 job; routes acquire, renew, read, network analyses, edits, edit and view commands | a lease names the open project, a reported edit was made in it |
| `event_ring` | ring of 2, batches of 1, 2 publishing threads, 1 reader, 1 refresh, draws of 2 maps or of none; fairness | no silent loss, draws of the right map, a waiting reader is woken |
| `edit_transaction` | 2 datasets of 2 ObjectIDs with any of 3 contents, 3 batches (one refused by the destructive gate), 2 good tokens, 1 write of another program, crashes and failures anywhere | applies implement `AtomicEdit`; a commit changes the numbers of rows the preflight showed, and the very rows where that can be said |
| `schema_mutation` | 2 calls of any operation, 3 names of which two differ in case only, 3 manifests, 2 inventories, 1 write or lock of another program | whatever part of its work a tool does: no case twins except those an import names, and "verified" is said only when the rest is as it was and nothing is left that was to go |
| `project_session` | 3 calls of any tool, 2 data sources, 2 settings, 2 folder connections, 3 lists of repairs (one not validated), 1 save of another program, restarts | acknowledged edits stay until they are saved or dropped, a repair does what it reports |
| `gp_outputs` | 2 calls of any handler with up to 2 outputs at 3 paths, `overwriteOutput` on or off, 2 changes by other programs | nothing of others is destroyed beyond what the style allows, what is answered is there |
| `checked_clip` | 2 processes, 2 runs that may use each other's result, 1 dataset, 2 changes by other programs (a lost report is one), crashes anywhere | Clip runs once per run, eligible results are what they say, a bad result of a finished run is never a source |
| `edit_locked_oids` | as `edit_transaction`, no other program | a divergence, see section 6 |

The bounds, and why they are enough:

* `MaxQueue = 1` and `MaxRetained = 1` make a full queue and a full store ordinary states. The
  three requests are a submission, its retry, which may replay it or register anew, and a stranger
  that has no key and takes the slot of the queue or the place in the store. Two jobs are filed at once
  when the second one finds the first finished; the next pruning is then above the capacity and evicts.
  The evicted job may be one that was cancelled before its handler queued it (`evicted`), and the drop
  of that handler then pops the key that the retry has written. A conflict of payloads (`KeyConflict`) does not occur here,
  as the two requests of the key are equal; it is refused before anything is registered, and the
  theorems hold for any payloads. `window_host_live` has two calls with one request id. The rank
  `now` of finishing times grows with the number of jobs only.
* `MaxSessions = 2` has a predecessor and a successor on the port; a third start meets the same
  situation as the second. `MaxSwitches = 1` separates check and use.
* `MaxGeneration = 1` stops acquisitions when the generation counter has moved, but requests that
  have begun by then still complete and ends of leases still count: a lease, its end and the
  lease that replaces it all occur. `MaxRetained = 1` makes trimming happen at the second job.
* A ring of two with three events and two draws wraps; batches of one make a reader fall behind.
  `MaxEvents` limits a thread's own events; the `draw_complete` events come on top.
* The batches of `edit_transaction` are one of three operations on one dataset, where the second
  selects what the third is about, and one over two datasets that inserts and moves geometry. One
  write of another program may replace every row of a dataset, so it stands for any number of
  writes between two steps; `MaxTokens = 2` keeps tokens of an older plan, or of another batch, good.
* Two calls of `schema_mutation` are a call and its retry, or a call on what another one has half
  done. A tool may remove and add any part of what was asked (`Parted`), or do all of it and lose or
  change one item besides (`Damaged`). The inventories are one with a rule, a group and its value,
  and one with an index and editor tracking; a manifest names the group of the first in
  another case.
* Three calls of `project_session` are an edit, what may take it away, and a save or repair
  after it. The repairs are a list whose second item may fail and be stranded, a list whose first item is
  left broken because it is not validated, and one item twice. Settings are interchangeable (symmetry),
  and so are paths, processes, runs and sidecars in the other instances; connections, which the repairs
  name, are not.
* Two calls of `gp_outputs` make the outputs of the first what the second meets. Two outputs may
  be at one path.
* Two runs of `checked_clip` are one whose result is bad and one that may take it as its source;
  two changes are a copy or rename and another one or a lost report, or a touched sidecar and its return.

Deadlock checking is off, the two edit runs excepted: a bounded instance ends when every request
has been served or every call been made, and the real system is then idle.

Fairness. `WindowHost`: handler threads that have begun and the host thread run on, a tool
returns, and the time limit of a call passes; requests, cancels, stops and interrupts are never
assumed. `EventRing`: code behind a lock runs on and a completed signal wakes its awaiter; events,
draws and timeouts are not assumed. The other modules state no liveness: whether a tool, a cursor
or a user ever returns is not in their hands.

## 4. What is proved

The proofs hold for every value of the constants that satisfies the named assumptions of the
module: any number of requests, processes, connections, jobs, names, paths, runs, and any bounds.
Every proof module has an `Invariance` theorem, or the like, for an inductive invariant that is
stronger than the properties; TLC checks the properties themselves on the small instance.

* `WindowHostProofs!TypeCorrect`, `Invariance`, `Refinement` (from `WindowHostAssumption`). The
  refinement needs the inductive invariant `IInv`, because neither the reply slot nor the state
  word alone says whether a job may still run. `IInv` combines `HandlerInv` (handler position and
  job), `JobInv` (the word `RUNNING` is only worn by the active job; a queued job has no reply and
  is not active), `AnswerInv` (what was said is true and stays so, through `Closed`: the job is
  cancelled, or past admission and in nobody's hands) and `HostInv` (what the host thread
  holds at each point). A queue without repetition carries the argument over `jobs.get`. Steps other
  than `HostInvoke`, answers and cancellations stutter in `CallService`.
* `WindowHostProofs!StoreInvariance`, `LiveJobsAreRetained`, `OneLiveJobForEachKey`, `OutcomesAreFinal`.
  The job store needs `FilingInv` above `IInv`: between registration and admission a job is filed
  under its id and under its key by its own handler (`Pending`), unless a job was pruned in between
  (`evicted`, see section 5); what the prune and the pop of a full queue take away else belongs to
  finished jobs or to the handler itself. `FinishInv` ties the finishing
  times to the final words, which is what makes a late cancel, timeout or shutdown find the job closed.
* `WindowHostProofs!WaitersAreServed`: no client waits in vain. `WaitInv` says where a call without
  a reply is: in the queue, with the host thread, or taken by an interrupt between `get` and the
  bookkeeping, which one call at most can be; and that the host stops with an empty queue.
* `HostAttachProofs!TypeCorrect`, `Invariance`, `Discoverable`, `DetachTruthful`, `RunsConfirmed`
  (from `HostAttachAssumption`). The compare-and-unlink of the discovery file is not atomic; what
  saves it is the order in the shutdown, captured by `PortInv` (from bind to `server_close` a host
  owns the port) and `FileInv` (from the write to the unlink the file is its own; before the write
  no call can hold its token). `DetachInv` says a host told to stop does not come back under the
  same session.
* `SdkBridgeProofs!TypeCorrect`, `Invariance`, `OneJob`, `SwitchCancels`, `LeaseEnds`, `LeaseNames`,
  `EditsInProject`, `FinalStays` (from `SdkBridgeAssumption`). `GateHeld` ties the program counters
  to `_mutationGate`, so that the test for a running job, the entry in `_jobs`, the second test of the
  lease and the start are not interleaved with those of another request (`JobsAgree`). `LeaseAgree`
  says that the lease is the last generation and younger than the last project event, which is why
  a capture made before an event cannot pass the comparison after it. `WorkAgree` is inductive
  because a job that passes its lease test belongs to the lease that is current at that moment,
  and every end of a lease, an expiry excepted, comes with the phases of `CancelAll`.
* `SdkBridgeProofs!JobsHaveRunners` adds that a job that is not finished is run, or is with the request
  that added it (`RunnerAgree`); the gate part follows from `GateHeld`. Since an unfinished job
  makes the bridge refuse every other submission and edit, one without a runner would block it for ever.
* `SdkBridgeProofs!EventsTypeCorrect`, `EventsInvariance`, `NothingLostSilently`, `DrawnTruthful`,
  `WakeupsAreKept` (about `EventRing`, from `EventRingAssumption`). `NoGap` says that the ring is the
  interval of the last events; a batch, taken as the first events after the cursor, is then an
  interval too, and what lies between the cursor and the ring is what `truncated` is about. `DrawsSeen`:
  a draw generation above the one a refresh began with was written by a draw of its own map.
  `SignalInv` is about the completion of signals after the lock: a signal that was replaced is
  completed, or the thread that replaced it has just that to do next; a reader waits for the signal that
  belongs to its cursor, because a batch is empty only at the end of the ring (`EmptyBatch`).
* `EditTransactionProofs!TypeCorrect`, `Invariance`, `CountsHold`, `RowsHold` (from
  `EditDataAssumption` and `EditTransactionAssumption`). The invariant `Parts` says that the plan
  describes the data as long as no other program wrote (`PlanDescribesRows`), that a geometry
  operation is only planned when all its targets exist (`GeometryPlanned`), and that each executed
  operation changed what its item says (`DoneAsPlanned`). A geometry update that changes as many
  of its targets as there are has changed them all, by the cardinality of finite sets.
* `EditTransactionProofs!SessionInvariance`, `AtomicityHolds`: `EditTransaction` implements `AtomicEdit`
  for batches of any length. Within a session the rows are those of a run of the executed part of the batch on
  the data as it was when the session began (`SessionInv`, with the recursive function `After`); so
  the one step that commits maps to `Commit`, and every other step to a stutter.
* `ProjectSessionProofs!TypeCorrect`, `AckedEditsStay`, `SavesReachTheFile`, `RepairsAreHonest` (from
  `ProjectSessionAssumption`). The invariant is type correctness with `AckedStays`: a call
  changes only parts that it acknowledges or withdraws (`LeavesKeeps`), the way back of a failed
  repair included. What an apply may have done when its n-th repair fails is the recursive function
  `Done`, a set of projects, as ArcPy may decline a broken connection silently. With tokens that name
  each item once, the first n - 1 repairs are `Settled` in each of them (`DoneRightly`), and the n-th is
  `GivenUp`: its item has its connection again, or the answer says that the way back failed too.
* `SchemaMutationProofs!Invariance`, `TypeCorrect`, `Twinless`, `VerifiedRest` (from
  `SchemaMutationAssumption`). A call in progress is `Proper`: what it adds and removes fits its
  operation and its snapshot, and it asks for new names without twins. Only an import may ask for a
  group that is there, and when it is there in another case, its name is in `clashes`. Until the answer
  the dataset has no name that was neither in the snapshot nor asked for (`From`), whatever part the tool
  did, so that names that differ in case only are those of groups in `clashes` (`Tidy`). The comparisons
  are then followed one by one; they alone, and not the tool, give `VerifiedRest`.
* `GpOutputsProofs!TypeCorrect`, `Invariance`, `OthersKept`, `Delivers` (from `GpOutputsAssumption`).
  `WasFree`: a path that a fresh handler is about to write was free when it looked last;
  `OwnOrNone` and `Exports`: at the path of an output is that output or nothing, and what was
  exported and looked for is there, unless others have been at the path.
* `CheckedClipProofs!TypeCorrect`, `WritesOnce`, `Invariance`, `Eligibility`, `Quarantine` (from
  `CheckedClipAssumption`, `GoneAssumption` and `NoReportAssumption`). The folder of a run is made by
  one process once, so a run has one holder in its life (`OneHolder`); what the holder has in
  memory and what the report says of it tell how far it came (`Held`, `Evidence`); the content of a
  result is nowhere before its Clip (`Origin`).

Induction over a batch or a list of repairs is done without the library's induction theorems, which
take an operator: `IntervalInduction` in the two modules concludes from a set that has 0 and is closed
under successors up to n, as otherwise there is a smallest interval (strict inclusion of finite sets is
well-founded) that ends outside it. The functions `After` and `Done` are
defined by recursion over an interval; that such a function exists is proved first.

Model-checked only: liveness (`EveryCallAnswered`, `QueueDrains`, `StopStops`, `EventWakesReader`), because
fairness and ENABLED are out of the prover's reach. The safe parts of these, `NobodyWaitsInVain` and
`NoWakeupLost`, are theorems, and so are `LiveJobHasRunner` and `SaveWritesAcked`. No cfg lists
these four; each holds in the complete state space of its module's cfg when it is added there (the first
three under INVARIANT, the last one under PROPERTY). Every invariant and action property
and both refinements that the runs check are theorems as well.

## 5. Modelling decisions

* `WindowHost`: an aged job (an hour) has no live handler (300 s), the two limits being far apart;
  the handler's own wait begins after the job's deadline was set and has the same length. The
  two lock sections of `register_job` (pruning, registration) are two actions. A
  `KeyboardInterrupt` may reach the host thread once, at any point of the loop, but not during the
  shutdown itself.
* `WindowHost`: `LiveJobRetained` and `OneLiveJobPerKey` assume that no job was pruned between its
  registration and its admission, which takes more than `MAX_RETAINED_JOBS` (256) requests in
  flight at once; without it the unconditional pop of `DropFull` can hit entries another
  request has written. In the instance, whose store has one entry, this happens.
* `HostAttach`: all hosts use one port and so one file. A transient failure to read the file, the
  reason for the two misses of the detach poll, is not modelled, nor is the mixed use of several
  configured ports. `/health` is answered by handler threads also while the host starts.
* `SdkBridge`: the token of a job is cancelled with its status although the code cancels it just
  after the state lock; the registration of an analysis in that gap is harmless, as the binding is
  refused under any other lease. A renewal only extends an expiry. One name of a network analysis
  is tracked. The compare-and-set of an edit or view command is a choice between doing and
  refusing.
* `EventRing`: the reader uses the last sequence number of a batch as its next cursor, as the
  documentation of the endpoint says. What a reader that starts with cursor 0 has missed before
  it came is not counted as lost. A batch is a set of sequence numbers, which are in order anyway.
  A draw of a view whose map has no URI counts a draw that no map has (`DrawWithoutMap`).
* `EditTransaction`: arguments are validated already, also against the fields; a call that fails
  validation is like one whose token is refused. A token is what it signs, so a forged one is
  simply not among `tokens`. Calls of one process do not overlap. Other programs do not write while
  the Editor session is open: the edit lock of a file geodatabase and the isolation of a
  versioned one are taken from ArcGIS, not from this code. An inserted row gets any ObjectID
  not in use.
* `ProjectSession`: what the tools edit is a setting with a value; the model tells apart whether a
  tool assigns once, after everything was checked (`Assign`), or one thing after the other, so that
  some may be done when it fails (`AssignEach`). A data source, which repairs compare and exchange,
  and a folder connection with its mark are modelled by what the code does to them. One project.
  A repair with `validate=False` is answered with ok although its item may be broken (`BrokenAfter` asks
  nothing); one that is validated and found broken is taken back, and the way back may itself raise:
  the item stays on the new connection, and the code says so in its error, which the model has as the
  answer "stranded". `RepairHonest` is about what these answers say, not about every item being repaired.
* `SchemaMutation`: an item is its kind, its name and a body; the case-folded form of a name is a
  function, as the code compares names folded before the tool and in other ways afterwards.
  Domains, subtypes, attachments, relationship classes and topologies are `plain`: their changes are
  read back little or not at all. The tool may remove and add any part of what was asked, or do all
  of it and damage one other item, and return or raise (`Outcomes`): some names of several, as the `rule_type`
  of a deletion may have it, which goes to the tool and not to the comparison; a group without
  its values; a REPLACE that cleared and added nothing, or added without clearing. Other programs change
  and remove items, but do not add one under a name that this server is just adding.
* `SchemaMutation`: `import_contingent_values` has no guard about groups that are there in another case,
  and whether the tool then makes a second group is not this code's doing; the model lets it. The
  comparison reads the groups into dictionaries by folded name (`ByName`) and sees one of two that differ
  in case only: a UNION does not miss a change of the other one, and a REPLACE may leave one.
  `NoCaseTwins` and `VerifiedLeavesRest` except exactly these groups.
* `GpOutputs`: which of the styles a handler has is read off its code; that the tools replace an
  existing output exactly when `overwriteOutput` says so is the documented behaviour of ArcPy and
  marked external. The session setting `overwriteOutput` is set by
  no handler; it is what the user or the host made it. A split or a conversion into a folder has several
  outputs below the one path it was given. A repair of geometry or Near changes its input, and whether that
  is there is asked by the tool alone (`Changed`); the raster and mosaic maintenance asks itself (`InPlace`).
* `CheckedClip`: one source asset stands for raster, boundary and grid, and `passed` for the checks
  of grid, mask, cells and coverage. Nobody else writes into the folder of a run while a process is
  at it. Contents are what hashes tell apart: the main file by the run that made it, the sidecars
  by one value. The report of a run that no process is at may be removed or become unreadable
  (`LoseReport`); the code then skips it, so that it quarantines nothing, which is why
  `FinishedQuarantineHolds` is about runs whose report can be read.

## 6. Divergences found

`edit_locked_oids` is a run with `expect: violation` that TLC refutes: the tool description says that
a preflight locks ObjectIDs and counts. The batch delete A, update B to A, delete A is planned on the
initial data; its third operation deletes the row that was B, the count being right.
`ChangesShownRows` says what does hold.

The following promises of documents, descriptions or error texts are stated in the modules and are
false too. Each can be seen with the cfg named, its properties replaced by this one (`ReplayedIdQueryable`, `LeaseEndCancels`
and `QuarantineHolds` under INVARIANT, the others under PROPERTY).

| Property | Cfg | What happens |
|---|---|---|
| `WindowHost!ReplayedIdQueryable` | `MCWindowHost`, `MaxRetained = 3` | A retry finds the registered job of a first submission; the first handler then meets a full queue, pops the job and answers 429. The retry was told 200 with an id that `/jobs` does not know. |
| `HostAttach!SwitchNeedsConfirmation` | `MCHostAttach`, `MaxSwitches = 2` | The documentation says that a project switch clears the confirmed target; the router only compares it. After A, B, A the old confirmation is good again. The call still runs in a project that was confirmed (`RunsWhereConfirmed`). |
| `SdkBridge!LeaseEndCancels` | `MCSdkBridge` | Releasing an expired lease ends it but answers `lease_expired` before `CancelAll`. Its job runs on until the next acquisition, a validation that fails with another code, or a project event. `WorkEndsWithLease` excepts expired leases. |
| `SdkBridge!NoEditDuringJob` | `MCSdkBridgeWork`, `Routes <- EditRoutes` | The test for a running job is made before the gate is waited for, so an edit that waited behind the start of a job is executed while the job runs. |
| `SchemaMutation!ManifestImported` | `MCSchemaMutation` | The import of contingent values says that the manifest is strictly verified. A UNION is compared in one direction: new values have to be in the manifest, and a value of the manifest that the tool left out is not missed. |
| `ProjectSession!UnsavedGivenUpOnPurpose` | `MCProjectSession` | Altering a field alias drops the cached project, with the unsaved edits of earlier calls, under the write gate alone. |
| `ProjectSession!RollbackRestores` | `MCProjectSession` | When the client names another current connection than the item has, and the item is broken, the way back does not restore: it exchanges the two connections that were named, and an item that already had the new one ends with the one that was named. |
| `CheckedClip!QuarantineHolds` | `MCCheckedClip` | Of a run whose process died after its Clip, the report has no hash of the result, and a report may be lost. When the result is renamed or changed, its copy is not known again and may become a source. `FinishedQuarantineHolds` says what holds. |

## 7. Not modelled, and why

* Compare-and-set of view commands, feature edits and edit commands (`LiveWindowService.cs`,
  `FeatureEditService.cs`, `EditCommandService.cs`): whether an event of the UI thread can come between
  the check and the change on the main CIM thread is decided by ArcGIS Pro, of which the repository
  shows too little. `SdkBridge` leaves the outcome open.
* `sdk_bridge.py`: one request per call; the lease it keeps is the header that a request of `SdkBridge`
  presents, which may be any lease ever issued.
* Bootstrap of the host: runs once, before any host, under a process lock.
* Enterprise geodatabase versions: versions, reconcile and post are single calls whose effect is in
  the geodatabase.
* Registry, policies, redaction, allow lists; session references and stream redirection; read-only
  queries: no state that two actors share, or one critical section each.
* HTTP framing and authentication headers, ACL handling of the discovery directory, JSON and text
  formatting, parameters and environment settings of the geoprocessing tools.

Of the modelled components the notes in `PROJECT.json` say what is left out. Of the hazards, those
without a property have a note that says why.

## 8. Running it

`tlc -config MCWindowHost.cfg MCWindowHost` (and likewise for the other configurations; each takes
at most a few minutes with two workers), and `tlapm` with each of the eight modules `*Proofs.tla`
(half a minute to a few minutes each).

----------------------------- MODULE HostAttach -----------------------------
(***************************************************************************)
(* How the stdio router finds a window host and decides that a CURRENT     *)
(* call may go there: the discovery file (private_state.py), the start and *)
(* the end of a host (_run_host_main in pro_host.py), the confirmed target *)
(* and the calls of the router (pro_attach.py, server.py).                 *)
(*                                                                         *)
(* All processes use one port, and so one discovery file.  A session is    *)
(* the number of its start; its bearer token is as unique, and is not told *)
(* apart from it.  What happens to a call once the host has queued it is   *)
(* the subject of WindowHost.                                              *)
(***************************************************************************)
EXTENDS Naturals, FiniteSets

CONSTANTS
  Processes,     \* the ArcGIS Pro processes that may run a host
  Projects,      \* the saved projects
  NoProject,     \* no saved project is open
  NoProcess,     \* the port is free
  Callers,       \* the tool calls the router serves at the same time
  MaxSessions,   \* bound: the host starts
  MaxSwitches    \* bound: the project switches

ASSUME HostAttachAssumption ==
  /\ NoProject \notin Projects
  /\ NoProcess \notin Processes
  /\ MaxSessions \in Nat /\ MaxSwitches \in Nat

VARIABLES
  open,       \* the project open in each process
  switches,   \* how many projects were switched, counted for the bound
  hpc,        \* where the host of each process is
  sid,        \* its session_id
  live,       \* _LIVE["project"], NoProject when not ready
  port,       \* the process that listens on the port
  file,       \* the session the discovery file names, 0 for no file
  sessions,   \* the sessions started so far
  latch,      \* _CONFIRMED_TARGET
  cpc,        \* where each call is
  op,         \* what it is
  token,      \* the session whose token it sends, 0 for none
  snap,       \* the health snapshot it works with
  misses,     \* missing_state_reads
  confirmed,  \* history: the targets that window_status ever confirmed
  fresh       \* history: a target was confirmed since the last switch or start

hostVars == <<hpc, sid, live, port, file, sessions>>
callVars == <<cpc, op, token, snap, misses>>
vars == <<open, switches, hostVars, latch, callVars, confirmed, fresh>>

Target == [session : Nat, project : Projects \cup {NoProject}]
NullTarget == [session |-> 0, project |-> 0]       \* mutant of NoTarget
NoTarget == [session |-> 0, project |-> NoProject]

HostPc == {"off", "started", "serving", "ready", "stopping", "clear", "unlink", "close"}
CallPc == {"idle", "get", "confirm", "require", "post", "queued", "ran", "stop", "poll",
           "detached"}

TypeOK ==
  /\ open \in [Processes -> Projects \cup {NoProject}]
  /\ switches \in Nat /\ sessions \in Nat /\ file \in Nat
  /\ hpc \in [Processes -> HostPc]
  /\ sid \in [Processes -> Nat]
  /\ live \in [Processes -> Projects \cup {NoProject}]
  /\ port \in Processes \cup {NoProcess}
  /\ latch \in Target
  /\ cpc \in [Callers -> CallPc]
  /\ op \in [Callers -> {"status", "call", "detach"}]
  /\ token \in [Callers -> Nat]
  /\ snap \in [Callers -> Target]
  /\ misses \in [Callers -> Nat]
  /\ confirmed \subseteq Target
  /\ fresh \in BOOLEAN

Init ==
  /\ open \in [Processes -> Projects \cup {NoProject}]
  /\ switches = 0 /\ sessions = 0 /\ file = 0
  /\ hpc = [p \in Processes |-> "off"]
  /\ sid = [p \in Processes |-> 0]
  /\ live = [p \in Processes |-> NoProject]
  /\ port = NoProcess
  /\ latch = NoTarget
  /\ cpc = [c \in Callers |-> "idle"]
  /\ op = [c \in Callers |-> "status"]
  /\ token = [c \in Callers |-> 0]
  /\ snap = [c \in Callers |-> NoTarget]
  /\ misses = [c \in Callers |-> 0]
  /\ confirmed = {} /\ fresh = FALSE

-----------------------------------------------------------------------------
(* The host of process p.                                                  *)

HostGoto(p, where) == hpc' = [hpc EXCEPT ![p] = where]
RouterFrame == UNCHANGED <<latch, callVars, confirmed>>

\* The calls the host of p has queued or runs.
QueuedAt(p) == {c \in Callers : cpc[c] = "queued" /\ snap[c].session = sid[p]}

\* The calls of S return: their locals are gone.
ReturnAll(S) ==
  /\ cpc' = [c \in Callers |-> IF c \in S THEN "idle" ELSE cpc[c]]
  /\ op' = [c \in Callers |-> IF c \in S THEN "status" ELSE op[c]]
  /\ token' = [c \in Callers |-> IF c \in S THEN 0 ELSE token[c]]
  /\ snap' = [c \in Callers |-> IF c \in S THEN NoTarget ELSE snap[c]]
  /\ misses' = [c \in Callers |-> IF c \in S THEN 0 ELSE misses[c]]

\* The first part of _run_host_main: a project must be open; a new session.
Launch(p) ==
  /\ hpc[p] = "off" /\ open[p] # NoProject
  /\ sessions < MaxSessions
  /\ sessions' = sessions + 1
  /\ sid' = [sid EXCEPT ![p] = sessions + 1]
  /\ live' = [live EXCEPT ![p] = open[p]]
  /\ HostGoto(p, "started")
  /\ fresh' = FALSE
  /\ UNCHANGED <<open, switches, port, file>> /\ RouterFrame

\* The exclusive server socket: the only candidate port is free, or the start fails.
Bind(p) ==
  /\ hpc[p] = "started"
  /\ IF port = NoProcess THEN port' = p /\ HostGoto(p, "serving")
                         ELSE HostGoto(p, "off") /\ UNCHANGED port
  /\ UNCHANGED <<open, switches, sid, live, file, sessions, fresh>> /\ RouterFrame

\* write_private_json replaces the file at once, while the HTTP server runs already ...
ReplaceState(p) ==
  /\ hpc[p] = "serving" /\ file # sid[p]
  /\ file' = sid[p]
  /\ UNCHANGED <<open, switches, hpc, sid, live, port, sessions, fresh>> /\ RouterFrame

EnterLoop(p) ==
  /\ hpc[p] = "serving" /\ file = sid[p]
  /\ HostGoto(p, "ready")
  /\ UNCHANGED <<open, switches, sid, live, port, file, sessions, fresh>> /\ RouterFrame

\* ... or the start fails, before the replacement or after it, and clears up.
StartFails(p) ==
  /\ hpc[p] = "serving"
  /\ HostGoto(p, "clear")
  /\ ReturnAll(QueuedAt(p))
  /\ UNCHANGED <<open, switches, sid, live, port, file, sessions, latch, confirmed, fresh>>

\* _refresh_live_context in the host loop.
Refresh(p) ==
  /\ hpc[p] = "ready"
  /\ live' = [live EXCEPT ![p] = open[p]]
  /\ UNCHANGED <<open, switches, hpc, sid, port, file, sessions, fresh>> /\ RouterFrame

\* The user cancels the host.
UserStops(p) ==
  /\ hpc[p] = "ready"
  /\ HostGoto(p, "stopping")
  /\ UNCHANGED <<open, switches, sid, live, port, file, sessions, fresh>> /\ RouterFrame

\* Mutant of Shutdown: the socket is closed before the file is removed.
ShutdownReleasesPort(p) ==
  /\ hpc[p] = "stopping"
  /\ HostGoto(p, "clear")
  /\ port' = NoProcess
  /\ ReturnAll(QueuedAt(p))
  /\ UNCHANGED <<open, switches, sid, live, file, sessions, latch, confirmed, fresh>>

\* The end of the host loop: the HTTP server is shut down and the queue drained.
Shutdown(p) ==
  /\ hpc[p] = "stopping"
  /\ HostGoto(p, "clear")
  /\ ReturnAll(QueuedAt(p))
  /\ UNCHANGED <<open, switches, sid, live, port, file, sessions, latch, confirmed, fresh>>

\* remove_private_json_if compares first ...
CompareState(p) ==
  /\ hpc[p] = "clear"
  /\ HostGoto(p, IF file = sid[p] THEN "unlink" ELSE "close")
  /\ UNCHANGED <<open, switches, sid, live, port, file, sessions, fresh>> /\ RouterFrame

\* ... and removes whatever file is there then.
UnlinkState(p) ==
  /\ hpc[p] = "unlink"
  /\ file' = 0
  /\ HostGoto(p, "close")
  /\ UNCHANGED <<open, switches, sid, live, port, sessions, fresh>> /\ RouterFrame

\* server_close.
Close(p) ==
  /\ hpc[p] = "close"
  /\ port' = IF port = p THEN NoProcess ELSE port
  /\ HostGoto(p, "off")
  /\ UNCHANGED <<open, switches, sid, live, file, sessions, fresh>> /\ RouterFrame

\* The process dies: the system closes its socket, the file stays.
Crash(p) ==
  /\ hpc[p] # "off"
  /\ port' = IF port = p THEN NoProcess ELSE port
  /\ HostGoto(p, "off")
  /\ ReturnAll(QueuedAt(p))
  /\ UNCHANGED <<open, switches, sid, live, file, sessions, latch, confirmed, fresh>>

\* The user opens another project, or closes it.
SwitchProject(p) ==
  /\ switches < MaxSwitches
  /\ switches' = switches + 1
  /\ \E q \in (Projects \cup {NoProject}) \ {open[p]} : open' = [open EXCEPT ![p] = q]
  /\ fresh' = FALSE
  /\ UNCHANGED hostVars /\ RouterFrame

-----------------------------------------------------------------------------
(* A call c of the router.                                                 *)

\* The call goes on, or returns to the client.
Goto(c, where) == cpc' = [cpc EXCEPT ![c] = where] /\ UNCHANGED <<op, token, snap, misses>>
Return(c) == ReturnAll({c})
WindowFrame == UNCHANGED <<open, switches, hostVars>>

\* The process whose HTTP server accepts the token of session s.
Answering(s) ==
  {p \in Processes : port = p /\ sid[p] = s /\ hpc[p] \in {"serving", "ready", "stopping"}}

\* _endpoint_snapshot: the token in the discovery file.
Begin(c) ==
  /\ cpc[c] = "idle"
  /\ \E o \in {"status", "call", "detach"} : op' = [op EXCEPT ![c] = o]
  /\ token' = [token EXCEPT ![c] = file]
  /\ cpc' = [cpc EXCEPT ![c] = "get"]
  /\ WindowFrame /\ UNCHANGED <<snap, misses, latch, confirmed, fresh>>

\* host_health: GET /health.
Health(c) ==
  /\ cpc[c] = "get"
  /\ \E p \in Answering(token[c]) :
       snap' = [snap EXCEPT ![c] = [session |-> sid[p],
                  project |-> IF hpc[p] = "stopping" THEN NoProject ELSE live[p]]]
  /\ cpc' = [cpc EXCEPT ![c] = CASE op[c] = "status" -> "confirm" [] op[c] = "call" -> "require"
                                  [] op[c] = "detach" -> "stop"]
  /\ WindowFrame
  /\ UNCHANGED <<op, token, misses, latch, confirmed, fresh>>

\* Nobody answers, or with an error: a status call forgets the target.
NoHealth(c) ==
  /\ cpc[c] = "get"
  /\ Answering(token[c]) = {}
  /\ latch' = IF op[c] = "status" THEN NoTarget ELSE latch
  /\ Return(c)
  /\ WindowFrame /\ UNCHANGED <<confirmed, fresh>>

\* host_status: confirm_host_target, or clear_confirmed_target when it is not ready.
Confirm(c) ==
  /\ cpc[c] = "confirm"
  /\ IF snap[c].project = NoProject
     THEN latch' = NoTarget /\ UNCHANGED <<confirmed, fresh>>
     ELSE latch' = snap[c] /\ confirmed' = confirmed \cup {snap[c]} /\ fresh' = TRUE
  /\ Return(c)
  /\ WindowFrame

\* The proxy wants a ready host, _require_confirmed_target the confirmed target.
Require(c) ==
  /\ cpc[c] = "require"
  /\ IF snap[c].project # NoProject /\ latch = snap[c] THEN Goto(c, "post") ELSE Return(c)
  /\ WindowFrame /\ UNCHANGED <<latch, confirmed, fresh>>

\* POST /call with the token, session and project of the snapshot.
Post(c) ==
  /\ cpc[c] = "post"
  /\ IF \E p \in Answering(token[c]) : hpc[p] # "stopping" THEN Goto(c, "queued") ELSE Return(c)
  /\ WindowFrame /\ UNCHANGED <<latch, confirmed, fresh>>

\* Mutant of Execute: the project that is open is taken.
ExecuteAnywhere(c) ==
  /\ cpc[c] = "queued"
  /\ \E p \in Processes : hpc[p] = "ready" /\ c \in QueuedAt(p)
  /\ Goto(c, "ran")
  /\ WindowFrame /\ UNCHANGED <<latch, confirmed, fresh>>

\* The host thread compares expected_project with the project it binds the tool to.
Execute(c) ==
  /\ cpc[c] = "queued"
  /\ \E p \in Processes :
       /\ hpc[p] = "ready" /\ c \in QueuedAt(p)
       /\ IF open[p] = snap[c].project THEN Goto(c, "ran") ELSE Return(c)
  /\ WindowFrame /\ UNCHANGED <<latch, confirmed, fresh>>

\* The answer, or the result of a detach, reaches the client.
Answer(c) ==
  /\ cpc[c] \in {"ran", "detached"}
  /\ Return(c)
  /\ WindowFrame /\ UNCHANGED <<latch, confirmed, fresh>>

\* Mutant of PostStop: the host removes its file when it is told to stop.
PostStopUnlinks(c) ==
  /\ cpc[c] = "stop"
  /\ IF Answering(token[c]) = {}
     THEN Return(c) /\ UNCHANGED <<hpc, file>>
     ELSE /\ Goto(c, "poll")
          /\ file' = 0
          /\ hpc' = [p \in Processes |->
                       IF p \in Answering(token[c]) THEN "stopping" ELSE hpc[p]]
  /\ UNCHANGED <<open, switches, sid, live, port, sessions, latch, confirmed, fresh>>

\* stop_host: POST /stop, with the endpoint of the snapshot.
PostStop(c) ==
  /\ cpc[c] = "stop"
  /\ IF Answering(token[c]) = {}
     THEN Return(c) /\ UNCHANGED hpc
     ELSE /\ Goto(c, "poll")
          /\ hpc' = [p \in Processes |->
                       IF p \in Answering(token[c]) THEN "stopping" ELSE hpc[p]]
  /\ UNCHANGED <<open, switches, sid, live, port, file, sessions, latch, confirmed, fresh>>

\* arcgis_pro_detach_window: another session, or no file twice in a row, means
\* detached; after three seconds it gives up.
Poll(c) ==
  /\ cpc[c] = "poll"
  /\ \/ file \notin {0, snap[c].session} /\ Goto(c, "detached")
     \/ file = 0 /\ misses[c] >= 1 /\ Goto(c, "detached")
     \/ /\ file = 0 /\ misses[c] = 0
        /\ misses' = [misses EXCEPT ![c] = 1]
        /\ UNCHANGED <<cpc, op, token, snap>>
     \/ /\ file = snap[c].session
        /\ misses' = [misses EXCEPT ![c] = 0]
        /\ UNCHANGED <<cpc, op, token, snap>>
     \/ Return(c)
  /\ WindowFrame /\ UNCHANGED <<latch, confirmed, fresh>>

-----------------------------------------------------------------------------
HostStep(p) ==
  \/ Launch(p) \/ Bind(p) \/ ReplaceState(p) \/ EnterLoop(p) \/ StartFails(p)
  \/ Refresh(p) \/ UserStops(p) \/ Shutdown(p)
  \/ CompareState(p) \/ UnlinkState(p) \/ Close(p) \/ Crash(p) \/ SwitchProject(p)

CallStep(c) ==
  \/ Begin(c) \/ Health(c) \/ NoHealth(c) \/ Confirm(c) \/ Require(c) \/ Post(c)
  \/ Execute(c) \/ Answer(c) \/ PostStop(c) \/ Poll(c)

Next == (\E p \in Processes : HostStep(p)) \/ (\E c \in Callers : CallStep(c))

Spec == Init /\ [][Next]_vars

-----------------------------------------------------------------------------
(* Properties.                                                             *)

\* A host that is ready is the one its discovery file names, and the file stays: no
\* host that ends, fails to start or crashed earlier removes or replaces the file of
\* another, although the removal does not happen in one step with the comparison.
LiveHostDiscoverable ==
  \A p \in Processes : hpc[p] \in {"ready", "stopping"} => file = sid[p] /\ port = p

\* A CURRENT call runs only in a session and project that window_status confirmed,
\* whatever restarts, replacements and switches happen on its way.
RunsWhereConfirmed ==
  [][\A c \in Callers, p \in Processes :
       cpc[c] = "queued" /\ cpc'[c] = "ran" /\ c \in QueuedAt(p) =>
         [session |-> sid[p], project |-> open[p]] \in confirmed]_vars

\* "detached": true is only answered when the host that was asked to stop has ended
\* its queue: it starts no other call.
DetachedMeansStopped ==
  \A c \in Callers, p \in Processes :
    cpc[c] = "detached" /\ sid[p] = snap[c].session => hpc[p] \notin {"ready", "stopping"}

\* docs/WINDOW_CONTROL.md: after a restart or a project switch the router clears the
\* target; the status has to be read and the target confirmed again.
SwitchNeedsConfirmation ==
  [][\A c \in Callers : cpc[c] = "queued" /\ cpc'[c] = "ran" => fresh]_vars

-----------------------------------------------------------------------------
(* The inductive invariant.                                                *)

\* The places from the bound socket to its end.
Bound == {"serving", "ready", "stopping", "clear", "unlink", "close"}

\* Sessions are never reused, and nobody knows one that has not started.
SessionInv ==
  /\ file <= sessions
  /\ \A p \in Processes : sid[p] <= sessions /\ (hpc[p] # "off" => sid[p] # 0)
  /\ \A p, q \in Processes : p # q /\ sid[p] # 0 => sid[p] # sid[q]
  /\ \A c \in Callers : token[c] <= sessions /\ snap[c].session <= sessions

PortInv == \A p \in Processes : hpc[p] \in Bound => port = p

\* Only the file tells a session: before it is written no call can send its token.
FileInv ==
  \A p \in Processes :
    /\ hpc[p] = "started" => file # sid[p] /\ \A c \in Callers : token[c] # sid[p]
    /\ hpc[p] = "serving" => \A c \in Callers : token[c] = sid[p] => file = sid[p]
    /\ hpc[p] \in {"ready", "stopping", "unlink"} => file = sid[p]

TargetInv ==
  /\ latch = NoTarget \/ latch \in confirmed
  /\ \A c \in Callers : cpc[c] \in {"post", "queued"} => snap[c] \in confirmed

\* A host told to stop does not come back under the same session.
DetachInv ==
  \A c \in Callers :
    /\ cpc[c] \in {"stop", "poll"} => token[c] = snap[c].session
    /\ \A p \in Processes : sid[p] = snap[c].session =>
         /\ cpc[c] \in {"poll", "detached"} => hpc[p] \notin {"started", "serving", "ready"}
         /\ cpc[c] = "detached" => hpc[p] # "stopping"

IInv == TypeOK /\ SessionInv /\ PortInv /\ FileInv /\ TargetInv /\ DetachInv
=============================================================================

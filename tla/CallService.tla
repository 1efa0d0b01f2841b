---------------------------- MODULE CallService ----------------------------
(***************************************************************************)
(* What the window host promises for each request, without queues, locks   *)
(* or threads: the tool of a request runs at most once; the answer says    *)
(* truthfully whether it ran; an answer "not run" closes the request, so a *)
(* client may retry; an answer "unknown" keeps it open, so it may not      *)
(* (docs/WINDOW_CONTROL.md, protocol constraints 7 and 8).                 *)
(***************************************************************************)
CONSTANT Requests

VARIABLES
  effect,    \* how often the tool of each request ran
  answer,    \* what the client was told
  cancelled  \* the requests some client was told are cancelled

svars == <<effect, answer, cancelled>>

Answers == {"pending", "ok", "failed", "notrun", "accepted", "unknown", "replay"}

SInit ==
  /\ effect = [r \in Requests |-> 0]
  /\ answer = [r \in Requests |-> "pending"]
  /\ cancelled = {}

\* Answers after which the tool may still run.
Open == {"pending", "accepted", "unknown"}

Run(r) ==
  /\ effect[r] = 0
  /\ answer[r] \in Open
  /\ r \notin cancelled
  /\ effect' = [effect EXCEPT ![r] = 1]
  /\ UNCHANGED <<answer, cancelled>>

Reply(r) ==
  /\ answer[r] = "pending"
  /\ \E a \in Answers \ {"pending"} :
       /\ a = "ok" => effect[r] = 1
       /\ a \in {"notrun", "replay"} => effect[r] = 0
       /\ answer' = [answer EXCEPT ![r] = a]
  /\ UNCHANGED <<effect, cancelled>>

\* A cancelled request never runs.
CancelCall(r) ==
  /\ effect[r] = 0
  /\ cancelled' = cancelled \cup {r}
  /\ UNCHANGED <<effect, answer>>

SNext == \E r \in Requests : Run(r) \/ Reply(r) \/ CancelCall(r)

SSpec == SInit /\ [][SNext]_svars
=============================================================================

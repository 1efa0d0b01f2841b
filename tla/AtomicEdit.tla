----------------------------- MODULE AtomicEdit -----------------------------
(***************************************************************************)
(* What edit_apply promises of the data (server.py:7850 and 7913): a batch *)
(* takes effect as a whole, in one step, when the caller is told that it   *)
(* was committed; in any other case it leaves the data alone.              *)
(***************************************************************************)
EXTENDS EditData

VARIABLES
  rows,    \* the committed data
  batch,   \* the batch of the call that is served
  answer,  \* what its caller was told
  writes   \* how often another program wrote the data

avars == <<rows, batch, answer, writes>>

\* The data that one operation can make of the data in S.
Makes(op, S) == UNION {{Written(op, t, O) : O \in Targets(op, t)} : t \in S}

\* The data that the first k operations of b can make of s, for every k.
After(b, s) ==
  LET after[k \in 0..Len(b)] == IF k = 0 THEN {s} ELSE Makes(b[k], after[k - 1])
  IN  after

\* The data that batch b can make of s.
Outcomes(b, s) == After(b, s)[Len(b)]

AInit == rows \in Rows /\ batch = <<>> /\ answer = "none" /\ writes = 0

NewCall ==
  /\ batch' \in Batches
  /\ answer' = "none"
  /\ UNCHANGED <<rows, writes>>

Commit ==
  /\ answer = "none"
  /\ rows' \in Outcomes(batch, rows)
  /\ answer' = "committed"
  /\ UNCHANGED <<batch, writes>>

OtherProgram ==
  /\ rows' \in Rows
  /\ writes' = writes + 1
  /\ UNCHANGED <<batch, answer>>

ANext == NewCall \/ Commit \/ OtherProgram

ASpec == AInit /\ [][ANext]_avars
=============================================================================

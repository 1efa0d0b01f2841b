-------------------------- MODULE EditTransaction --------------------------
(***************************************************************************)
(* edit_preflight and edit_apply, and their workspace variants             *)
(* (arcgis_pro_mcp/editing.py, the cursors of da_write.py): a preflight    *)
(* signs the number and the ObjectIDs of the rows each operation selects;  *)
(* an apply plans again, compares, and runs the batch in one Editor        *)
(* session, where only the number of rows is compared.                     *)
(*                                                                         *)
(* The calls of a process are served one by one.  The other programs write *)
(* between any two steps, but not while the session of an apply, with the  *)
(* edit lock of its workspace, is open.  A token is what it signs: its     *)
(* scope, dataset or workspace and operations digest are the batch.        *)
(***************************************************************************)
EXTENDS EditData

CONSTANTS
  Permitted,  \* the batches the write and destructive gates let through
  MaxTokens,  \* bound: the preflights whose token is still good
  MaxWrites   \* bound: the writes of other programs

ASSUME EditTransactionAssumption ==
  /\ Permitted \subseteq Batches
  /\ MaxTokens \in Nat /\ MaxWrites \in Nat

VARIABLES
  rows,      \* the committed data
  work,      \* the data as the Editor session sees it
  phase,     \* what the call being served does
  mode,      \* "preflight" or "apply"
  batch,     \* its operations
  plan,      \* _operation_plan as far as it has come
  shown,     \* the plan in the token that was presented
  done,      \* the rows each executed operation changed
  tokens,    \* the tokens that verify: of this process, not expired
  writes,    \* the writes of other programs
  disturbed  \* history: one of them came since this call began

dataVars == <<rows, work, writes, disturbed>>
vars == <<dataVars, phase, mode, batch, plan, shown, done, tokens>>

Item  == [affected_count : Nat, oid_digest : SUBSET Oids]
Token == [batch : Batches, plan : Seq(Item)]

TypeOK ==
  /\ rows \in Rows /\ work \in Rows
  /\ phase \in {"idle", "scan", "edit", "ok", "error"}
  /\ mode \in {"preflight", "apply"}
  /\ batch \in Batches \cup {<<>>} /\ (phase = "idle" \/ batch \in Batches)
  /\ plan \in Seq(Item) /\ shown \in Seq(Item)
  /\ done \in Seq(SUBSET Oids)
  /\ tokens \subseteq Token
  /\ writes \in Nat /\ disturbed \in BOOLEAN

Init ==
  /\ rows \in Rows /\ work = rows
  /\ phase = "idle" /\ mode = "preflight" /\ batch = <<>>
  /\ plan = <<>> /\ shown = <<>> /\ done = <<>>
  /\ tokens = {}
  /\ writes = 0 /\ disturbed = FALSE

Served == phase \in {"idle", "ok", "error"}

\* A call begins on b; its caller presented a token with plan p, or none.
Begin(m, b, p) ==
  /\ Served
  /\ phase' = "scan" /\ mode' = m /\ batch' = b
  /\ plan' = <<>> /\ shown' = p /\ done' = <<>>
  /\ disturbed' = FALSE
  /\ UNCHANGED <<rows, work, tokens, writes>>

\* The call ends with an exception: nothing of the session is kept.
Fail ==
  /\ phase' = "error"
  /\ plan' = <<>> /\ done' = <<>>
  /\ work' = rows
  /\ UNCHANGED <<rows, mode, batch, shown, tokens, writes, disturbed>>

Preflight(b) ==
  /\ Cardinality(tokens) < MaxTokens
  /\ Begin("preflight", b, <<>>)

\* The gates, then _verify_token and the comparison of what it signs with the
\* arguments: scope, dataset and digest.
Matching(b) == {t \in tokens : t.batch = b}

Apply(b) ==
  /\ b \in Permitted
  /\ \E t \in Matching(b) : Begin("apply", b, t.plan)

\* A closed gate, or a token that is not one of these: the caller may present any.
ApplyRefused(b) ==
  /\ Served
  /\ phase' = "error" /\ mode' = "apply" /\ batch' = b
  /\ plan' = <<>> /\ shown' = <<>> /\ done' = <<>>
  /\ UNCHANGED <<dataVars, tokens>>

\* _operation_plan, one operation: every one is planned on the data of now.
Following(seq) == batch[Len(seq) + 1]
Refuses(op, s) ==
  \/ Affected(op, s) \notin op.counts
  \/ op.kind = "update_geometry" /\ Selected(op, s) # op.oids

\* Mutant: an item without the digest.
CountOnly(op, s) == [affected_count |-> Affected(op, s)]
PlanItem(op, s)  == [affected_count |-> Affected(op, s), oid_digest |-> Selected(op, s)]

Scan ==
  /\ phase = "scan"
  /\ Len(plan) < Len(batch)
  /\ ~Refuses(Following(plan), rows)
  /\ plan' = Append(plan, PlanItem(Following(plan), rows))
  /\ UNCHANGED <<dataVars, phase, mode, batch, shown, done, tokens>>

ScanRefused ==
  /\ phase = "scan"
  /\ Len(plan) < Len(batch)
  /\ Refuses(Following(plan), rows)
  /\ Fail

Planned == phase = "scan" /\ Len(plan) = Len(batch)

Issue ==
  /\ Planned /\ mode = "preflight"
  /\ tokens' = tokens \cup {[batch |-> batch, plan |-> plan]}
  /\ phase' = "ok" /\ plan' = <<>>
  /\ UNCHANGED <<dataVars, mode, batch, shown, done>>

\* The plan of the apply against the plan in the token (_plan_state).
\* Mutant: only the numbers of rows are compared.
SameCounts(p, q) ==
  /\ DOMAIN p = DOMAIN q
  /\ \A i \in DOMAIN p : p[i].affected_count = q[i].affected_count
SamePlan(p, q) == p = q

\* startEditing and startOperation.
OpenSession ==
  /\ Planned /\ mode = "apply"
  /\ SamePlan(plan, shown)
  /\ phase' = "edit"
  /\ UNCHANGED <<dataVars, mode, batch, plan, shown, done, tokens>>

PlanChanged ==
  /\ Planned /\ mode = "apply"
  /\ ~SamePlan(plan, shown)
  /\ Fail

\* _execute_operation and the comparison of changed with expected.  The cursor
\* stops at max(expected, 1) rows, so a larger selection is a different number.
Expected == plan[Len(done) + 1].affected_count
\* Mutant: fewer rows than planned are accepted.
AtMostExpected(op) == Affected(op, work) <= Expected
AsExpected(op) == Affected(op, work) = Expected

Execute ==
  /\ phase = "edit"
  /\ Len(done) < Len(batch)
  /\ LET op == Following(done)
     IN  /\ AsExpected(op)
         /\ op.kind = "insert" => op.rows > 0
         /\ \E O \in Targets(op, work) :
              /\ work' = Written(op, work, O)
              /\ done' = Append(done, O)
  /\ UNCHANGED <<rows, writes, disturbed, phase, mode, batch, plan, shown, tokens>>

\* abortOperation and stopEditing(False), after any exception: another number
\* of rows, a value or a geometry that does not convert, an interrupt, a save
\* that fails.
\* Mutant: the session is saved by the handler of the exception.
RollbackSaves ==
  /\ phase = "edit"
  /\ phase' = "error" /\ rows' = work
  /\ plan' = <<>> /\ done' = <<>>
  /\ UNCHANGED <<work, mode, batch, shown, tokens, writes, disturbed>>
Rollback == phase = "edit" /\ Fail

\* stopOperation, stopEditing(True).
Save ==
  /\ phase = "edit"
  /\ Len(done) = Len(batch)
  /\ rows' = work
  /\ phase' = "ok"
  /\ UNCHANGED <<work, writes, disturbed, mode, batch, plan, shown, done, tokens>>

\* expires_at passes.  The token of an applied plan stays good until then.
Expire(t) ==
  /\ tokens' = tokens \ {t}
  /\ UNCHANGED <<dataVars, phase, mode, batch, plan, shown, done>>

\* The process dies: its session is never saved, and its _TOKEN_SECRET is gone.
Crash ==
  /\ phase' = "idle" /\ tokens' = {}
  /\ plan' = <<>> /\ shown' = <<>> /\ done' = <<>>
  /\ work' = rows
  /\ UNCHANGED <<rows, writes, disturbed, mode, batch>>

OtherWrites(d) ==
  /\ writes < MaxWrites
  /\ phase # "edit"
  /\ \E content \in [Oids -> Contents \cup {NoRow}] : rows' = [rows EXCEPT ![d] = content]
  /\ work' = rows'
  /\ writes' = writes + 1 /\ disturbed' = TRUE
  /\ UNCHANGED <<phase, mode, batch, plan, shown, done, tokens>>

Next ==
  \/ \E b \in Batches : Preflight(b) \/ Apply(b) \/ ApplyRefused(b)
  \/ Scan \/ ScanRefused \/ Issue
  \/ OpenSession \/ PlanChanged \/ Execute \/ Rollback \/ Save
  \/ \E t \in tokens : Expire(t)
  \/ Crash
  \/ \E d \in Datasets : OtherWrites(d)

Spec == Init /\ [][Next]_vars

----------------------------------------------------------------------------

Committed == mode = "apply" /\ phase = "ok"

\* A committed batch changed, operation by operation, as many rows as its
\* preflight showed, whatever was written in between and whatever the earlier
\* operations of the batch did to the selection of the later ones.
ChangesShownCounts ==
  Committed =>
    /\ Len(done) = Len(batch) /\ Len(shown) = Len(batch)
    /\ \A i \in 1..Len(batch) : Cardinality(done[i]) = shown[i].affected_count

\* A committed geometry update changed exactly the ObjectIDs it was shown for;
\* so did the first operation of any batch, if no other program wrote between
\* the planning of the apply and its session.
ChangesShownRows ==
  Committed =>
    \A i \in 1..Len(batch) :
      (batch[i].kind = "update_geometry" \/ (i = 1 /\ batch[i].kind # "insert" /\ ~disturbed))
        => done[i] = shown[i].oid_digest

\* The tool description says that a preflight "locks the matched OIDs and
\* counts" (server.py:7839): a committed batch changed the rows it showed.
LockedOids ==
  Committed =>
    \A i \in 1..Len(batch) : batch[i].kind # "insert" => done[i] = shown[i].oid_digest

Verdict == IF Committed THEN "committed" ELSE "none"
Atomic == INSTANCE AtomicEdit WITH answer <- Verdict

\* The apply is atomic: no failed operation, rollback or crash leaves a part of
\* a batch in the data, and "committed" is said of a whole batch only.
ImplementsAtomicEdit == Atomic!ASpec
=============================================================================

----------------------- MODULE EditTransactionProofs -----------------------
(***************************************************************************)
(* For any datasets, batches and bounds: EditTransaction is type correct,  *)
(* a committed batch changed as many rows as its preflight showed, and the *)
(* very rows where ChangesShownRows says so, and it took effect as a whole *)
(* (the refinement of AtomicEdit).                                         *)
(*                                                                         *)
(* The invariant says what the executed operations have changed so far,    *)
(* and, while no other program wrote, that the plan still describes rows.  *)
(* The refinement adds that the session holds what the executed operations *)
(* make of the committed data.                                             *)
(***************************************************************************)
EXTENDS EditTransaction, FiniteSetTheorems, WellFoundedInduction, TLAPS

\* While the data is as the apply found it, each planned operation selects the
\* rows of its item.
PlanDescribesRows ==
  phase \in {"scan", "edit"} /\ ~disturbed =>
    \A i \in 1..Len(plan) : plan[i].oid_digest = Selected(batch[i], rows)

\* A geometry operation is planned only when all its targets exist.
GeometryPlanned ==
  \A i \in 1..Len(plan) :
    batch[i].kind = "update_geometry" =>
      /\ plan[i].oid_digest = batch[i].oids
      /\ plan[i].affected_count = Cardinality(batch[i].oids)

\* Where the call is in its batch.
Progress ==
  /\ phase = "scan" => Len(plan) <= Len(batch) /\ done = <<>>
  /\ phase = "edit" => mode = "apply"
  /\ phase = "edit" \/ Committed =>
       Len(plan) = Len(batch) /\ plan = shown /\ Len(done) <= Len(batch)
  /\ phase # "edit" \/ done = <<>> => work = rows
  /\ Committed => Len(done) = Len(batch)
  /\ phase \in {"idle", "error"} \/ (mode = "preflight" /\ phase = "ok") =>
       plan = <<>> /\ done = <<>>

\* What the executed operations have changed.
DoneAsPlanned ==
  \A i \in 1..Len(done) :
    /\ i <= Len(plan)
    /\ Cardinality(done[i]) = plan[i].affected_count
    /\ batch[i].kind = "update_geometry" => done[i] = plan[i].oid_digest
    /\ i = 1 /\ batch[i].kind # "insert" /\ ~disturbed => done[i] = plan[i].oid_digest

Parts == PlanDescribesRows /\ GeometryPlanned /\ Progress /\ DoneAsPlanned

----------------------------------------------------------------------------

(* What an operation selects and changes. *)

LEMMA SelectedType ==
  ASSUME NEW op \in Operations, NEW s \in Rows
  PROVE  /\ Selected(op, s) \in SUBSET Oids
         /\ Affected(op, s) \in Nat
         /\ op.kind # "insert" => Affected(op, s) = Cardinality(Selected(op, s))
<1>1. Selected(op, s) \in SUBSET Oids
  BY DEF Selected, Present, Operations
<1>2. Cardinality(Selected(op, s)) \in Nat
  BY <1>1, EditDataAssumption, FS_Subset, FS_CardinalityType
<1>3. op.rows \in Nat
  BY DEF Operations
<1>. QED
  BY <1>1, <1>2, <1>3 DEF Affected

LEMMA TargetsType ==
  ASSUME NEW op \in Operations, NEW s \in Rows, NEW O \in Targets(op, s)
  PROVE  /\ O \in SUBSET Oids
         /\ Cardinality(O) = Affected(op, s)
         /\ op.kind # "insert" => O = Selected(op, s)
BY SelectedType DEF Targets, Affected

LEMMA WrittenType ==
  ASSUME NEW op \in Operations, NEW s \in Rows, NEW O \in SUBSET Oids,
         op.kind \in {"update", "update_geometry"} => O \subseteq Present(s, op.dataset)
  PROVE  Written(op, s, O) \in Rows
<1>. DEFINE content(o) ==
       IF o \notin O THEN s[op.dataset][o]
       ELSE CASE op.kind = "insert" -> op.content
              [] op.kind = "delete" -> NoRow
              [] OTHER -> op.write[s[op.dataset][o]]
<1>1. /\ op.kind \in {"update", "update_geometry", "insert", "delete"}
      /\ op.dataset \in Datasets /\ op.content \in Contents
      /\ op.write \in [Contents -> Contents]
  BY DEF Operations
<1>2. ASSUME NEW o \in Oids PROVE content(o) \in Contents \cup {NoRow}
  <2>1. s[op.dataset][o] \in Contents \cup {NoRow}
    BY <1>1 DEF Rows
  <2>2. CASE o \notin O
    BY <2>1, <2>2
  <2>3. CASE o \in O /\ op.kind \in {"insert", "delete"}
    BY <1>1, <2>3
  <2>4. CASE o \in O /\ op.kind \in {"update", "update_geometry"}
    <3>1. s[op.dataset][o] \in Contents
      BY <2>1, <2>4 DEF Present
    <3>. QED
      BY <1>1, <2>4, <3>1
  <2>. QED
    BY <1>1, <2>2, <2>3, <2>4
<1>3. [o \in Oids |-> content(o)] \in [Oids -> Contents \cup {NoRow}]
  BY <1>2
<1>4. Written(op, s, O) = [s EXCEPT ![op.dataset] = [o \in Oids |-> content(o)]]
  BY DEF Written
<1>. HIDE DEF content
<1>. QED
  BY <1>1, <1>3, <1>4 DEF Rows

LEMMA BatchType ==
  ASSUME TypeOK
  PROVE  batch \in Seq(Operations)
<1>1. CASE batch = <<>>
  BY <1>1
<1>2. CASE batch \in Batches
  BY <1>2, EditDataAssumption
<1>. QED
  BY <1>1, <1>2 DEF TypeOK

LEMMA FollowingType ==
  ASSUME TypeOK, NEW T, NEW seq \in Seq(T), Len(seq) < Len(batch)
  PROVE  /\ Following(seq) \in Operations
         /\ Following(seq) = batch[Len(seq) + 1]
BY BatchType DEF Following

LEMMA ItemType ==
  ASSUME NEW op \in Operations, NEW s \in Rows
  PROVE  PlanItem(op, s) \in Item
BY SelectedType DEF PlanItem, Item

----------------------------------------------------------------------------

(* Type correctness. *)

LEMMA EmptySeq == <<>> \in Seq(Item) /\ <<>> \in Seq(SUBSET Oids)
OBVIOUS

LEMMA AppendType ==
  ASSUME NEW S, NEW seq \in Seq(S), NEW e \in S
  PROVE  /\ Append(seq, e) \in Seq(S)
         /\ Len(Append(seq, e)) = Len(seq) + 1
         /\ \A i \in 1..Len(seq) : Append(seq, e)[i] = seq[i]
         /\ Append(seq, e)[Len(seq) + 1] = e
OBVIOUS

LEMMA InitType == Init => TypeOK
<1>. SUFFICES ASSUME Init PROVE TypeOK
  OBVIOUS
<1>1. rows \in Rows /\ work \in Rows
  BY DEF Init
<1>2. batch \in Batches \cup {<<>>} /\ phase = "idle" /\ mode = "preflight"
  BY DEF Init
<1>3. plan \in Seq(Item) /\ shown \in Seq(Item) /\ done \in Seq(SUBSET Oids)
  BY EmptySeq DEF Init
<1>4. tokens \subseteq Token /\ writes \in Nat /\ disturbed \in BOOLEAN
  BY DEF Init
<1>. QED
  BY <1>1, <1>2, <1>3, <1>4 DEF TypeOK

LEMMA NextType == TypeOK /\ [Next]_vars => TypeOK'
<1>. SUFFICES ASSUME TypeOK, [Next]_vars PROVE TypeOK'
  OBVIOUS
<1>. USE DEF TypeOK
<1>1. ASSUME NEW b \in Batches, Preflight(b) PROVE TypeOK'
  BY <1>1, EmptySeq DEF Preflight, Begin
<1>2. ASSUME NEW b \in Batches, Apply(b) PROVE TypeOK'
  <2>1. PICK t \in Matching(b) : Begin("apply", b, t.plan)
    BY <1>2 DEF Apply
  <2>2. t.plan \in Seq(Item)
    BY DEF Matching, Token
  <2>. QED
    BY <2>1, <2>2, EmptySeq DEF Begin
<1>3. ASSUME NEW b \in Batches, ApplyRefused(b) PROVE TypeOK'
  BY <1>3, EmptySeq DEF ApplyRefused, dataVars
<1>4. ASSUME Fail, phase # "idle" PROVE TypeOK'
  BY <1>4, EmptySeq DEF Fail
<1>5. CASE Scan
  <2>1. PlanItem(Following(plan), rows) \in Item
    BY <1>5, FollowingType, ItemType DEF Scan
  <2>2. plan' \in Seq(Item)
    BY <1>5, <2>1, AppendType DEF Scan
  <2>. QED
    BY <1>5, <2>2 DEF Scan, dataVars
<1>6. CASE Issue
  <2>1. [batch |-> batch, plan |-> plan] \in Token
    BY <1>6 DEF Issue, Planned, Token
  <2>. QED
    BY <1>6, <2>1, EmptySeq DEF Issue, Planned, dataVars
<1>7. CASE OpenSession
  BY <1>7 DEF OpenSession, Planned, dataVars
<1>8. CASE Execute
  <2>. DEFINE op == Following(done)
  <2>1. op \in Operations
    BY <1>8, FollowingType DEF Execute
  <2>2. PICK O \in Targets(op, work) : work' = Written(op, work, O) /\ done' = Append(done, O)
    BY <1>8 DEF Execute
  <2>3. O \in SUBSET Oids /\ (op.kind # "insert" => O = Selected(op, work))
    BY <2>1, TargetsType
  <2>4. op.kind # "insert" => O \subseteq Present(work, op.dataset)
    BY <2>3 DEF Selected
  <2>. HIDE DEF op
  <2>5. work' \in Rows
    BY <2>1, <2>2, <2>3, <2>4, WrittenType
  <2>6. done' \in Seq(SUBSET Oids)
    BY <2>2, <2>3, AppendType
  <2>. QED
    BY <1>8, <2>5, <2>6 DEF Execute
<1>9. CASE Save
  BY <1>9 DEF Save
<1>10. ASSUME NEW t \in tokens, Expire(t) PROVE TypeOK'
  BY <1>10 DEF Expire, dataVars
<1>11. CASE Crash
  BY <1>11, EmptySeq DEF Crash
<1>12. ASSUME NEW d \in Datasets, OtherWrites(d) PROVE TypeOK'
  BY <1>12 DEF OtherWrites, Rows
<1>13. CASE UNCHANGED vars
  BY <1>13 DEF vars, dataVars
<1>14. CASE ScanRefused \/ PlanChanged \/ Rollback
  BY <1>4, <1>14 DEF ScanRefused, PlanChanged, Planned, Rollback
<1>. HIDE DEF TypeOK
<1>. QED
  BY <1>1, <1>2, <1>3, <1>5, <1>6, <1>7, <1>8, <1>9, <1>10, <1>11, <1>12, <1>13, <1>14 DEF Next

\* Every variable has its type, in the sequences of any batch.
THEOREM TypeCorrect == Spec => []TypeOK
BY InitType, NextType, PTL DEF Spec

----------------------------------------------------------------------------

(* The invariant. *)

LEMMA InitParts == Init => Parts
BY DEF Init, Parts, PlanDescribesRows, GeometryPlanned, Progress, DoneAsPlanned, Committed

LEMMA ScanParts == TypeOK /\ TypeOK' /\ Parts /\ Scan => Parts'
<1>. SUFFICES ASSUME TypeOK, TypeOK', Parts, Scan PROVE Parts'
  OBVIOUS
<1>. DEFINE op == Following(plan)
            k == Len(plan) + 1
<1>1. op \in Operations /\ op = batch[k] /\ k <= Len(batch) /\ Len(batch) \in Nat /\ k \in Nat
  BY FollowingType, BatchType DEF Scan, TypeOK
<1>2. /\ Len(plan') = k
      /\ \A i \in 1..Len(plan) : plan'[i] = plan[i]
      /\ plan'[k] = PlanItem(op, rows)
  BY <1>1, ItemType, AppendType DEF Scan, TypeOK
<1>3. UNCHANGED <<rows, work, disturbed, phase, mode, batch, shown, done>>
  BY DEF Scan, dataVars
<1>4. phase = "scan" /\ done = <<>> /\ work = rows /\ ~Refuses(op, rows)
  BY DEF Scan, Parts, Progress
<1>5. Len(plan) \in Nat /\ \A i \in 1..k : i \in 1..Len(plan) \/ i = k
  BY DEF TypeOK
<1>. HIDE DEF op
<1>6. PlanDescribesRows'
  BY <1>1, <1>2, <1>3, <1>4, <1>5 DEF Parts, PlanDescribesRows, PlanItem
<1>7. GeometryPlanned'
  <2>1. op.kind = "update_geometry" =>
          /\ plan'[k].oid_digest = op.oids
          /\ plan'[k].affected_count = Cardinality(op.oids)
    BY <1>2, <1>4 DEF PlanItem, Refuses, Affected
  <2>. QED
    BY <1>1, <1>2, <1>3, <1>5, <2>1 DEF Parts, GeometryPlanned
<1>8. Progress'
  BY <1>1, <1>2, <1>3, <1>4 DEF Progress, Committed
<1>9. DoneAsPlanned'
  BY <1>3, <1>4 DEF DoneAsPlanned
<1>. QED
  BY <1>6, <1>7, <1>8, <1>9 DEF Parts

LEMMA ExecuteParts == TypeOK /\ TypeOK' /\ Parts /\ Execute => Parts'
<1>. SUFFICES ASSUME TypeOK, TypeOK', Parts, Execute PROVE Parts'
  OBVIOUS
<1>. DEFINE op == Following(done)
            k == Len(done) + 1
<1>1. op \in Operations /\ op = batch[k] /\ k <= Len(batch) /\ Len(batch) \in Nat /\ k \in Nat
  BY FollowingType, BatchType DEF Execute, TypeOK
<1>2. PICK O \in Targets(op, work) : done' = Append(done, O)
  BY DEF Execute
<1>3. O \in SUBSET Oids /\ Cardinality(O) = Affected(op, work)
        /\ (op.kind # "insert" => O = Selected(op, work))
  BY <1>1, TargetsType DEF TypeOK
<1>4. /\ Len(done') = k
      /\ \A i \in 1..Len(done) : done'[i] = done[i]
      /\ done'[k] = O
  BY <1>2, <1>3, AppendType DEF TypeOK
<1>5. UNCHANGED <<rows, disturbed, phase, mode, batch, shown, plan>>
  BY DEF Execute
<1>6. /\ phase = "edit" /\ mode = "apply" /\ plan = shown
      /\ Len(plan) = Len(batch) /\ Affected(op, work) = plan[k].affected_count
  BY DEF Execute, Parts, Progress, AsExpected, Expected
<1>7. Len(done) \in Nat /\ \A i \in 1..k : i \in 1..Len(done) \/ i = k
  BY DEF TypeOK
<1>8. op.kind = "update_geometry" => O = plan[k].oid_digest
  <2>. SUFFICES ASSUME op.kind = "update_geometry" PROVE O = plan[k].oid_digest
    OBVIOUS
  <2>1. /\ plan[k].oid_digest = op.oids
        /\ plan[k].affected_count = Cardinality(op.oids)
    BY <1>1, <1>6, <1>7 DEF Parts, GeometryPlanned
  <2>2. op.oids \in SUBSET Oids
    BY <1>1 DEF Operations
  <2>3. IsFiniteSet(op.oids)
    BY <2>2, EditDataAssumption, FS_Subset
  <2>4. O \in SUBSET op.oids
    BY <1>3 DEF Selected
  <2>5. Cardinality(op.oids) = Cardinality(O)
    BY <1>3, <1>6, <2>1
  <2>. QED
    BY <2>1, <2>3, <2>4, <2>5, FS_Subset
<1>9. k = 1 /\ op.kind # "insert" /\ ~disturbed => O = plan[k].oid_digest
  <2>. SUFFICES ASSUME k = 1, op.kind # "insert", ~disturbed PROVE O = plan[k].oid_digest
    OBVIOUS
  <2>1. done = <<>>
    <3>1. Len(done) = 0
      BY <1>7
    <3>. QED
      BY <3>1 DEF TypeOK
  <2>2. work = rows
    BY <2>1 DEF Parts, Progress
  <2>3. plan[k].oid_digest = Selected(batch[k], rows)
    BY <1>1, <1>6 DEF Parts, PlanDescribesRows
  <2>. QED
    BY <1>1, <1>3, <2>2, <2>3
<1>. HIDE DEF op
<1>10. PlanDescribesRows' /\ GeometryPlanned'
  BY <1>5 DEF Parts, PlanDescribesRows, GeometryPlanned
<1>11. Progress'
  <2>1. done' # <<>>
    BY <1>4, <1>7
  <2>. QED
    BY <1>1, <1>4, <1>5, <1>6, <2>1 DEF Progress, Committed
<1>12. DoneAsPlanned'
  <2>. SUFFICES ASSUME NEW i \in 1..Len(done')
                PROVE  /\ i <= Len(plan)
                       /\ Cardinality(done'[i]) = plan[i].affected_count
                       /\ batch[i].kind = "update_geometry" => done'[i] = plan[i].oid_digest
                       /\ i = 1 /\ batch[i].kind # "insert" /\ ~disturbed
                            => done'[i] = plan[i].oid_digest
    BY <1>5 DEF DoneAsPlanned
  <2>1. CASE i \in 1..Len(done)
    BY <1>4, <2>1 DEF Parts, DoneAsPlanned
  <2>2. CASE i = k
    BY <1>1, <1>3, <1>4, <1>6, <1>8, <1>9, <2>2
  <2>. QED
    BY <1>4, <1>7, <2>1, <2>2
<1>. QED
  BY <1>10, <1>11, <1>12 DEF Parts

LEMMA NextParts == TypeOK /\ TypeOK' /\ Parts /\ [Next]_vars => Parts'
<1>. SUFFICES ASSUME TypeOK, TypeOK', Parts, [Next]_vars PROVE Parts'
  OBVIOUS
<1>1. ASSUME NEW m, NEW b \in Batches, NEW p, Begin(m, b, p) PROVE Parts'
  <2>1. b \in Seq(Operations)
    BY EditDataAssumption
  <2>2. work = rows
    BY <1>1 DEF Begin, Served, Parts, Progress
  <2>. QED
    BY <1>1, <2>1, <2>2 DEF Begin, Parts, PlanDescribesRows, GeometryPlanned, Progress,
       DoneAsPlanned, Committed
<1>2. ASSUME NEW b \in Batches, ApplyRefused(b) PROVE Parts'
  BY <1>2 DEF ApplyRefused, Served, dataVars, Parts, PlanDescribesRows, GeometryPlanned,
     Progress, DoneAsPlanned, Committed
<1>3. ASSUME Fail \/ Crash PROVE Parts'
  BY <1>3 DEF Fail, Crash, Parts, PlanDescribesRows, GeometryPlanned, Progress,
     DoneAsPlanned, Committed
<1>4. CASE Issue
  BY <1>4 DEF Issue, Planned, dataVars, Parts, PlanDescribesRows, GeometryPlanned, Progress,
     DoneAsPlanned, Committed
<1>5. CASE OpenSession
  BY <1>5 DEF OpenSession, Planned, SamePlan, dataVars, Parts, PlanDescribesRows,
     GeometryPlanned, Progress, DoneAsPlanned, Committed, TypeOK
<1>6. CASE Save
  BY <1>6 DEF Save, Parts, PlanDescribesRows, GeometryPlanned, Progress, DoneAsPlanned,
     Committed
<1>7. ASSUME NEW t \in tokens, Expire(t) PROVE Parts'
  BY <1>7 DEF Expire, dataVars, Parts, PlanDescribesRows, GeometryPlanned, Progress,
     DoneAsPlanned, Committed
<1>8. ASSUME NEW d \in Datasets, OtherWrites(d) PROVE Parts'
  BY <1>8 DEF OtherWrites, Parts, PlanDescribesRows, GeometryPlanned, Progress,
     DoneAsPlanned, Committed
<1>9. CASE UNCHANGED vars
  BY <1>9 DEF vars, dataVars, Parts, PlanDescribesRows, GeometryPlanned, Progress,
     DoneAsPlanned, Committed
<1>. QED
  BY <1>1, <1>2, <1>3, <1>4, <1>5, <1>6, <1>7, <1>8, <1>9, ScanParts, ExecuteParts
  DEF Next, Preflight, Apply, ScanRefused, PlanChanged, Rollback

THEOREM Invariance == Spec => [](TypeOK /\ Parts)
<1>1. Init => TypeOK /\ Parts
  BY InitType, InitParts
<1>2. TypeOK /\ Parts /\ [Next]_vars => (TypeOK /\ Parts)'
  BY NextType, NextParts
<1>. QED
  BY <1>1, <1>2, PTL DEF Spec

\* A committed batch changed as many rows as its preflight showed, operation by
\* operation: edit_apply compares its own plan with the token's, and each number of
\* changed rows with that plan.
THEOREM CountsHold == Spec => []ChangesShownCounts
<1>1. TypeOK /\ Parts => ChangesShownCounts
  BY BatchType DEF Parts, Progress, DoneAsPlanned, ChangesShownCounts, Committed, TypeOK
<1>. QED
  BY <1>1, Invariance, PTL

\* A committed geometry update, and the first operation of a batch whose data no
\* other program wrote, changed exactly the ObjectIDs the preflight showed.
THEOREM RowsHold == Spec => []ChangesShownRows
<1>1. TypeOK /\ Parts => ChangesShownRows
  BY BatchType DEF Parts, Progress, DoneAsPlanned, ChangesShownRows, Committed, TypeOK
<1>. QED
  BY <1>1, Invariance, PTL
----------------------------------------------------------------------------

(* The data after each operation of a batch: a recursive function. *)

\* Induction over an interval, with the property given as a set: the induction
\* theorems of the library take it as an operator.  The intervals 0..n where it
\* fails have a least one by inclusion.
LEMMA IntervalInduction ==
  ASSUME NEW N \in Nat, NEW S, 0 \in S, \A k \in 0..(N - 1) : k \in S => k + 1 \in S
  PROVE  \A n \in 0..N : n \in S
<1>. DEFINE T == {n \in 0..N : n \notin S}
            U == {0..n : n \in T}
<1>1. SUFFICES ASSUME T # {} PROVE FALSE
  OBVIOUS
<1>2. IsWellFoundedOn(StrictSubsetOrdering(0..N), SUBSET (0..N))
  <2>1. IsFiniteSet(0..N)
    BY FS_Interval
  <2>. QED
    BY <2>1, FS_StrictSubsetOrderingWellFounded, FS_FiniteSubsetsOfFinite
<1>3. U \subseteq SUBSET (0..N) /\ U # {}
  BY <1>1
<1>4. PICK u \in U : \A v \in U : <<v, u>> \notin StrictSubsetOrdering(0..N)
  <2>. HIDE DEF U
  <2>. QED
    BY <1>2, <1>3, WFMin
<1>5. PICK n \in T : u = 0..n
  BY <1>4
<1>6. n \in 0..N /\ n \notin S /\ n # 0 /\ n - 1 \in 0..(N - 1)
  BY <1>5
<1>7. n - 1 \in T
  BY <1>6
<1>8. 0..(n - 1) \in U /\ 0..(n - 1) \in SUBSET (0..N) /\ 0..n \in SUBSET (0..N)
  BY <1>6, <1>7
<1>9. 0..(n - 1) \subseteq 0..n /\ n \in 0..n /\ n \notin 0..(n - 1)
  BY <1>6
<1>10. <<0..(n - 1), 0..n>> \in StrictSubsetOrdering(0..N)
  BY <1>8, <1>9 DEF StrictSubsetOrdering
<1>. QED
  BY <1>4, <1>5, <1>8, <1>10

\* f is the data after each of the first n operations of b.
IsAfter(f, b, s, n) ==
  f = [k \in 0..n |-> IF k = 0 THEN {s} ELSE Atomic!Makes(b[k], f[k - 1])]

\* Such a function exists for every batch, and After is one.
LEMMA AfterExists ==
  ASSUME NEW b, NEW s, Len(b) \in Nat
  PROVE  IsAfter(Atomic!After(b, s), b, s, Len(b))
<1>. DEFINE S == {n \in 0..Len(b) : \E f : IsAfter(f, b, s, n)}
<1>1. 0 \in S
  <2>. DEFINE f == [k \in 0..0 |-> {s}]
  <2>1. IsAfter(f, b, s, 0)
    BY DEF IsAfter
  <2>. QED
    BY <2>1
<1>2. ASSUME NEW k \in 0..(Len(b) - 1), k \in S PROVE k + 1 \in S
  <2>1. PICK f : IsAfter(f, b, s, k)
    BY <1>2
  <2>. DEFINE g == [i \in 0..(k + 1) |-> IF i = 0 THEN {s} ELSE Atomic!Makes(b[i], f[i - 1])]
  <2>2. \A i \in 0..k : f[i] = IF i = 0 THEN {s} ELSE Atomic!Makes(b[i], f[i - 1])
    BY <2>1 DEF IsAfter
  <2>3. \A i \in 0..k : i \in 0..(k + 1)
    OBVIOUS
  <2>4. \A i \in 0..k : g[i] = f[i]
    BY <2>2, <2>3
  <2>5. \A i \in 0..(k + 1) : i # 0 => i - 1 \in 0..k
    OBVIOUS
  <2>6. IsAfter(g, b, s, k + 1)
    BY <2>4, <2>5 DEF IsAfter
  <2>. HIDE DEF g
  <2>. QED
    BY <2>6
<1>. HIDE DEF S
<1>3. Len(b) \in S
  <2>1. \A n \in 0..Len(b) : n \in S
    BY <1>1, <1>2, IntervalInduction
  <2>. QED
    BY <2>1
<1>4. \E f : IsAfter(f, b, s, Len(b))
  BY <1>3 DEF S
<1>. QED
  BY <1>4 DEF Atomic!After, IsAfter

\* The abstract specification reads and writes the data as the code does.
LEMMA SameData ==
  ASSUME NEW op, NEW s
  PROVE  /\ Atomic!Targets(op, s) = Targets(op, s)
         /\ \A O : Atomic!Written(op, s, O) = Written(op, s, O)
<1>1. Atomic!Present(s, op.dataset) = Present(s, op.dataset)
  BY DEF Atomic!Present, Present
<1>2. Atomic!Selected(op, s) = Selected(op, s)
  BY <1>1 DEF Atomic!Selected, Selected
<1>3. Atomic!Targets(op, s) = Targets(op, s)
  <2>1. \A O : Atomic!Cardinality(O) = Cardinality(O)
    BY DEF Atomic!Cardinality, Cardinality
  <2>. QED
    BY <1>1, <1>2, <2>1 DEF Atomic!Targets, Targets
<1>4. ASSUME NEW O PROVE Atomic!Written(op, s, O) = Written(op, s, O)
  BY DEF Atomic!Written, Written
<1>. QED
  BY <1>3, <1>4

\* No operation makes {s} of the data s; one operation more makes of the data what
\* it writes.
LEMMA AfterStep ==
  ASSUME NEW b, NEW s, Len(b) \in Nat
  PROVE  /\ Atomic!After(b, s)[0] = {s}
         /\ \A k \in 0..(Len(b) - 1) : \A t \in Atomic!After(b, s)[k] :
              \A O \in Targets(b[k + 1], t) :
                Written(b[k + 1], t, O) \in Atomic!After(b, s)[k + 1]
<1>. DEFINE after == Atomic!After(b, s)
<1>1. \A k \in 0..Len(b) :
        after[k] = IF k = 0 THEN {s} ELSE Atomic!Makes(b[k], after[k - 1])
  <2>1. after = [k \in 0..Len(b) |-> IF k = 0 THEN {s} ELSE Atomic!Makes(b[k], after[k - 1])]
    BY AfterExists DEF IsAfter
  <2>. HIDE DEF after
  <2>. QED
    BY <2>1
<1>. HIDE DEF after
<1>2. ASSUME NEW k \in 0..(Len(b) - 1), NEW t \in after[k], NEW O \in Targets(b[k + 1], t)
      PROVE  Written(b[k + 1], t, O) \in after[k + 1]
  <2>1. k + 1 \in 0..Len(b) /\ k + 1 # 0 /\ (k + 1) - 1 = k
    OBVIOUS
  <2>2. after[k + 1] = Atomic!Makes(b[k + 1], after[k])
    BY <1>1, <2>1
  <2>3. Written(b[k + 1], t, O) \in Atomic!Makes(b[k + 1], after[k])
    BY SameData DEF Atomic!Makes
  <2>. QED
    BY <2>2, <2>3
<1>3. after[0] = {s}
  BY <1>1
<1>4. \A k \in 0..(Len(b) - 1) : \A t \in after[k] :
        \A O \in Targets(b[k + 1], t) : Written(b[k + 1], t, O) \in after[k + 1]
  BY <1>2
<1>. QED
  BY <1>3, <1>4 DEF after

----------------------------------------------------------------------------

(* The refinement of AtomicEdit. *)

\* An open session holds what the executed operations make of the committed data.
SessionInv == phase = "edit" => work \in Atomic!After(batch, rows)[Len(done)]

RInv == TypeOK /\ Parts /\ SessionInv

LEMMA SessionStep == RInv /\ [Next]_vars => SessionInv'
<1>. SUFFICES ASSUME RInv, [Next]_vars, phase' = "edit"
              PROVE  work' \in Atomic!After(batch', rows')[Len(done')]
  BY DEF SessionInv
<1>1. Len(batch) \in Nat /\ Len(done) \in Nat /\ TypeOK /\ Parts
  BY BatchType DEF RInv, TypeOK
<1>2. CASE OpenSession
  <2>1. done = <<>> /\ work = rows /\ UNCHANGED <<work, rows, batch, done>>
    BY <1>1, <1>2 DEF OpenSession, Planned, dataVars, Parts, Progress
  <2>2. Len(done) = 0
    BY <2>1
  <2>. QED
    BY <1>1, <2>1, <2>2, AfterStep
<1>3. CASE Execute
  <2>1. PICK O \in Targets(Following(done), work) :
          work' = Written(Following(done), work, O) /\ done' = Append(done, O)
    BY <1>3 DEF Execute
  <2>2. Following(done) \in Operations /\ Following(done) = batch[Len(done) + 1]
    BY <1>1, <1>3, FollowingType DEF Execute, TypeOK
  <2>3. O \in SUBSET Oids
    BY <1>1, <2>2, TargetsType DEF TypeOK
  <2>4. Len(done') = Len(done) + 1
    BY <1>1, <2>1, <2>3, AppendType DEF TypeOK
  <2>5. Len(done) \in 0..(Len(batch) - 1) /\ work \in Atomic!After(batch, rows)[Len(done)]
    BY <1>1, <1>3 DEF Execute, RInv, SessionInv
  <2>6. Written(batch[Len(done) + 1], work, O) \in Atomic!After(batch, rows)[Len(done) + 1]
    BY <1>1, <2>1, <2>2, <2>5, AfterStep
  <2>7. UNCHANGED <<batch, rows>>
    BY <1>3 DEF Execute
  <2>. QED
    BY <2>1, <2>2, <2>4, <2>6, <2>7
<1>4. CASE UNCHANGED <<work, batch, rows, done, phase>>
  BY <1>4 DEF RInv, SessionInv
<1>. QED
  BY <1>2, <1>3, <1>4
     DEF Next, vars, dataVars, Preflight, Apply, ApplyRefused, Begin, Fail, Scan, ScanRefused,
         Issue, PlanChanged, Rollback, Save, Expire, Crash, OtherWrites, Planned

\* The session invariant holds with the others.
THEOREM SessionInvariance == Spec => []RInv
<1>1. Init => RInv
  BY InitType, InitParts DEF RInv, SessionInv, Init
<1>2. RInv /\ [Next]_vars => RInv'
  BY NextType, NextParts, SessionStep DEF RInv
<1>. QED
  BY <1>1, <1>2, PTL DEF Spec

LEMMA AtomicInit == Init => Atomic!AInit
BY DEF Init, Atomic!AInit, Verdict, Committed, Rows, Atomic!Rows

\* The save of the session is the commit of the whole batch.
LEMMA SaveCommits == ASSUME RInv, Save PROVE Atomic!Commit
<1>1. Verdict = "none" /\ Verdict' = "committed"
  BY DEF RInv, Parts, Progress, Save, Verdict, Committed
<1>2. rows' \in Atomic!Outcomes(batch, rows)
  BY DEF RInv, SessionInv, Save, Atomic!Outcomes
<1>. QED
  BY <1>1, <1>2 DEF Save, Atomic!Commit

\* Every other step is a new call, a write of another program, or invisible.
LEMMA AtomicStep == ASSUME RInv, RInv', [Next]_vars PROVE [Atomic!ANext]_(Atomic!avars)
<1>. USE DEF Verdict, Committed
<1>1. ASSUME NEW m, NEW b \in Batches, NEW p, Begin(m, b, p) PROVE Atomic!NewCall
  BY <1>1 DEF Begin, Atomic!NewCall
<1>2. ASSUME NEW b \in Batches, ApplyRefused(b) PROVE Atomic!NewCall
  BY <1>2 DEF ApplyRefused, dataVars, Atomic!NewCall
<1>3. CASE Crash
  <2>1. phase # "idle" => batch \in Batches
    BY DEF RInv, TypeOK
  <2>. QED
    BY <1>3, <2>1 DEF Crash, Atomic!NewCall, Atomic!ANext, Atomic!avars
<1>4. ASSUME NEW d \in Datasets, OtherWrites(d) PROVE Atomic!OtherProgram
  <2>1. rows' \in Rows
    BY DEF RInv, TypeOK
  <2>. QED
    BY <1>4, <2>1 DEF OtherWrites, Atomic!OtherProgram, Rows, Atomic!Rows
<1>5. ASSUME Fail, phase \in {"scan", "edit"} PROVE UNCHANGED Atomic!avars
  BY <1>5 DEF Fail, Atomic!avars
<1>6. CASE Scan \/ Issue \/ OpenSession \/ Execute \/ UNCHANGED vars
           \/ \E t \in tokens : Expire(t)
  BY <1>6 DEF Scan, Issue, OpenSession, Planned, Execute, vars, dataVars, Expire,
     Atomic!avars
<1>. QED
  BY <1>1, <1>2, <1>3, <1>4, <1>5, <1>6, SaveCommits
     DEF Next, Preflight, Apply, ScanRefused, PlanChanged, Planned, Rollback, Atomic!ANext

\* edit_apply is atomic, for any batches, data and writes of other programs: the
\* save makes the whole batch visible in one step, and no refusal, rollback or
\* crash leaves a part of it in the data.
THEOREM AtomicityHolds == Spec => ImplementsAtomicEdit
<1>1. RInv /\ [Next]_vars => RInv'
  BY NextType, NextParts, SessionStep DEF RInv
<1>2. Init => RInv
  BY InitType, InitParts DEF RInv, SessionInv, Init
<1>. QED
  BY <1>1, <1>2, AtomicInit, AtomicStep, PTL DEF Spec, ImplementsAtomicEdit, Atomic!ASpec
=============================================================================

------------------------ MODULE ProjectSessionProofs ------------------------
(***************************************************************************)
(* For any project, repairs and bounds: ProjectSession is type correct,    *)
(* what was acknowledged and not saved stays in the cached copy, and the   *)
(* apply of an honest token reports what it did: a beginning of the list   *)
(* is settled, the next repair given up, and the others are to come.       *)
(*                                                                         *)
(* The argument: every call leaves the parts it was not asked to edit as   *)
(* it found them, for repairs of lists of any length; and as an honest     *)
(* token names each item once, a repair finds the connection the token     *)
(* says, and the way back of the one that fails, if it does not fail too,  *)
(* gives it back.                                                          *)
(***************************************************************************)
EXTENDS ProjectSession, FiniteSetTheorems, WellFoundedInduction, TLAPS

-----------------------------------------------------------------------------
(* Numbers.                                                                *)

\* A set of numbers that has one has a least one: the intervals below its members
\* have a smallest by inclusion.
LEMMA LeastNumber ==
  ASSUME NEW N \in Nat, NEW T \in SUBSET (0..N), T # {}
  PROVE  \E n \in T : \A m \in T : n <= m
<1>. DEFINE U == {0..n : n \in T}
<1>1. IsWellFoundedOn(StrictSubsetOrdering(0..N), SUBSET (0..N))
  <2>1. IsFiniteSet(0..N)
    BY FS_Interval
  <2>. QED
    BY <2>1, FS_StrictSubsetOrderingWellFounded, FS_FiniteSubsetsOfFinite
<1>2. U \subseteq SUBSET (0..N) /\ U # {}
  <2>1. ASSUME NEW n \in T PROVE 0..n \in SUBSET (0..N)
    OBVIOUS
  <2>. QED
    BY <2>1
<1>3. PICK u \in U : \A v \in U : <<v, u>> \notin StrictSubsetOrdering(0..N)
  <2>. HIDE DEF U
  <2>. QED
    BY <1>1, <1>2, WFMin
<1>4. PICK n \in T : u = 0..n
  BY <1>3
<1>5. ASSUME NEW m \in T PROVE n <= m
  <2>. SUFFICES ASSUME m < n PROVE FALSE
    OBVIOUS
  <2>1. 0..m \subseteq 0..n /\ n \in 0..n /\ n \notin 0..m
    OBVIOUS
  <2>2. 0..m \in U /\ 0..m \in SUBSET (0..N) /\ 0..n \in SUBSET (0..N)
    OBVIOUS
  <2>3. <<0..m, 0..n>> \in StrictSubsetOrdering(0..N)
    BY <2>1, <2>2 DEF StrictSubsetOrdering
  <2>. QED
    BY <1>3, <1>4, <2>2, <2>3
<1>. QED
  BY <1>5

\* Induction over an interval, with the property given as a set.
LEMMA IntervalInduction ==
  ASSUME NEW N \in Nat, NEW S, 0 \in S, \A k \in 0..(N - 1) : k \in S => k + 1 \in S
  PROVE  \A n \in 0..N : n \in S
<1>. DEFINE T == {n \in 0..N : n \notin S}
<1>. SUFFICES ASSUME T # {} PROVE FALSE
  OBVIOUS
<1>1. PICK n \in T : \A m \in T : n <= m
  <2>1. T \in SUBSET (0..N)
    OBVIOUS
  <2>. HIDE DEF T
  <2>. QED
    BY <2>1, LeastNumber
<1>2. n # 0 /\ n - 1 \in 0..(N - 1) /\ n \notin S
  OBVIOUS
<1>3. n - 1 \notin T
  BY <1>1
<1>4. n - 1 \in S /\ (n - 1) + 1 = n
  BY <1>2, <1>3
<1>. QED
  BY <1>2, <1>4

-----------------------------------------------------------------------------
(* Contents of a project.                                                  *)

LEMMA ContentsType ==
  ASSUME NEW f \in Contents
  PROVE  /\ f \in [Parts -> Values]
         /\ \A i \in Items : f[i] \in Connections
         /\ \A s \in Settings : f[s] \in Looks
         /\ \A e \in Entries : f[e] \in Marks
BY DEF Contents

\* Setting a part to a value of its kind makes contents, and changes this part only.
LEMMA SetPart ==
  ASSUME NEW f \in Contents, NEW p, NEW v,
         \/ p \in Items /\ v \in Connections
         \/ p \in Settings /\ v \in Looks
         \/ p \in Entries /\ v \in Marks
  PROVE  /\ [f EXCEPT ![p] = v] \in Contents
         /\ p \in Parts /\ [f EXCEPT ![p] = v][p] = v
         /\ \A q \in Parts \ {p} : [f EXCEPT ![p] = v][q] = f[q]
<1>. DEFINE g == [f EXCEPT ![p] = v]
<1>1. p \in Parts /\ v \in Values
  BY DEF Parts, Values
<1>2. g \in [Parts -> Values] /\ g[p] = v /\ \A q \in Parts \ {p} : g[q] = f[q]
  BY <1>1, ContentsType
<1>3. /\ \A i \in Items : g[i] \in Connections
      /\ \A s \in Settings : g[s] \in Looks
      /\ \A e \in Entries : g[e] \in Marks
  <2>1. Items \cap Entries = {} /\ Settings \cap (Items \cup Entries) = {}
    BY ProjectSessionAssumption
  <2>. HIDE DEF g
  <2>. QED
    BY <1>2, <2>1, ContentsType DEF Parts
<1>. HIDE DEF g
<1>4. g \in Contents
  BY <1>2, <1>3 DEF Contents
<1>. QED
  BY <1>1, <1>2, <1>4 DEF g

\* Taking the mark away changes entries only.
LEMMA UnmarkedType ==
  ASSUME NEW f \in Contents
  PROVE  /\ Unmarked(f) \in Contents
         /\ \A q \in Parts \ Entries : Unmarked(f)[q] = f[q]
<1>. DEFINE g == Unmarked(f)
<1>1. f \in [Parts -> Values] /\ \A q \in Entries : "listed" \in Marks /\ f[q] \in Marks
  BY ContentsType DEF Marks
<1>2. g = [q \in Parts |-> IF q \in Entries /\ f[q] = "home" THEN "listed" ELSE f[q]]
  BY DEF Unmarked
<1>3. \A q \in Parts : g[q] = IF q \in Entries /\ f[q] = "home" THEN "listed" ELSE f[q]
  BY <1>2
<1>4. g \in [Parts -> Values]
  BY <1>1, <1>2 DEF Values, Marks
<1>. HIDE DEF g
<1>5. /\ \A i \in Items : g[i] \in Connections
      /\ \A s \in Settings : g[s] \in Looks
      /\ \A e \in Entries : g[e] \in Marks
  <2>1. Items \cap Entries = {} /\ Settings \cap (Items \cup Entries) = {}
    BY ProjectSessionAssumption
  <2>. QED
    BY <1>1, <1>3, <2>1, ContentsType DEF Parts
<1>6. g \in Contents
  BY <1>4, <1>5 DEF Contents
<1>. QED
  BY <1>3, <1>6 DEF g

\* The project a call finds.
LEMMA OpenedType == ASSUME TypeOK PROVE Opened \in Contents
BY DEF TypeOK, Opened

\* What an update, a repair and the way back of one item write.
Touches(g, f, i) == g \in Contents /\ \A q \in Parts \ {i} : g[q] = f[q]

LEMMA UpdateType ==
  ASSUME NEW f \in Contents, NEW i \in Items, NEW c \in Connections, NEW d \in Connections
  PROVE  /\ Touches(Update(f, i, c, d), f, i)
         /\ Update(f, i, c, d)[i] = IF f[i] = c THEN d ELSE f[i]
<1>1. [f EXCEPT ![i] = d] \in Contents /\ [f EXCEPT ![i] = d][i] = d
      /\ \A q \in Parts \ {i} : [f EXCEPT ![i] = d][q] = f[q]
  BY SetPart
<1>. QED
  BY <1>1 DEF Update, Touches

\* A repair touches its item only; of an item that has the connection it is said to
\* have, it settles the item or gives it up.
LEMMA RepairType ==
  ASSUME NEW f \in Contents, NEW op \in Operations
  PROVE  /\ op.item \in Items /\ op.item \in Parts
         /\ \A g \in Repaired(f, op) :
              /\ Touches(g, f, op.item)
              /\ f[op.item] = op.current => Settled(g, op)
         /\ \A u \in Unrepaired(f, op) :
              /\ Touches(u.project, f, op.item) /\ u.answer \in {"failed", "stranded"}
              /\ f[op.item] = op.current => GivenUp(u.project, op, u.answer)
<1>1. op.item \in Items /\ op.current \in Connections /\ op.new \in Connections
  BY DEF Operations
<1>. DEFINE i == op.item
            there == Update(f, i, op.current, op.new)
<1>2. /\ Touches(f, f, i) /\ Touches(there, f, i)
      /\ f[i] = op.current => there[i] = op.new
  BY <1>1, UpdateType DEF Touches
<1>3. ASSUME NEW g \in Updated(f, op)
      PROVE  /\ Touches(g, f, i)
             /\ f[i] = op.current =>
                  g[i] = op.new \/ (g[i] = op.current /\ op.validate /\ op.new \in Broken)
  <2>. HIDE DEF there
  <2>1. g = there \/ (g = f /\ op.validate /\ op.new \in Broken)
    BY DEF Updated, there
  <2>. QED
    BY <1>2, <2>1
<1>4. ASSUME NEW g \in Updated(f, op)
      PROVE  /\ Touches(Back(g, op), f, i)
             /\ g[i] \in {op.current, op.new} => Back(g, op)[i] = op.current
  <2>1. g \in Contents /\ \A q \in Parts \ {i} : g[q] = f[q]
    BY <1>3 DEF Touches
  <2>2. /\ Touches(Back(g, op), g, i)
        /\ Back(g, op)[i] = IF g[i] = op.new THEN op.current ELSE g[i]
    BY <1>1, <2>1, UpdateType DEF Back
  <2>. QED
    BY <2>1, <2>2 DEF Touches
<1>5. ASSUME NEW g \in Repaired(f, op)
      PROVE  Touches(g, f, i) /\ (f[i] = op.current => Settled(g, op))
  <2>1. g \in Updated(f, op) /\ (op.validate => g[i] \notin Broken)
    BY DEF Repaired, BrokenAfter
  <2>. HIDE DEF there
  <2>. QED
    BY <1>3, <2>1 DEF Settled
<1>6. ASSUME NEW u \in Unrepaired(f, op)
      PROVE  /\ Touches(u.project, f, i) /\ u.answer \in {"failed", "stranded"}
             /\ f[i] = op.current => GivenUp(u.project, op, u.answer)
  <2>. HIDE DEF there
  <2>1. CASE u = [project |-> f, answer |-> "failed"]
    BY <1>2, <2>1 DEF GivenUp
  <2>2. ASSUME NEW g \in Updated(f, op), BrokenAfter(g, op),
               u = [project |-> Back(g, op), answer |-> "failed"]
        PROVE  /\ Touches(u.project, f, i) /\ u.answer \in {"failed", "stranded"}
               /\ f[i] = op.current => GivenUp(u.project, op, u.answer)
    BY <1>3, <1>4, <2>2 DEF GivenUp
  <2>3. ASSUME NEW g \in Updated(f, op), BrokenAfter(g, op),
               u = [project |-> g, answer |-> "stranded"]
        PROVE  /\ Touches(u.project, f, i) /\ u.answer \in {"failed", "stranded"}
               /\ f[i] = op.current => GivenUp(u.project, op, u.answer)
    BY <1>3, <2>3 DEF GivenUp, BrokenAfter
  <2>. QED
    BY <2>1, <2>2, <2>3 DEF Unrepaired
<1>. QED
  BY <1>1, <1>5, <1>6 DEF Parts

-----------------------------------------------------------------------------
(* A list of repairs: a recursive function.                                *)

\* f is what the project o may be after each of the first n repairs.
IsDone(f, o, repairs, n) ==
  f = [k \in 0..n |-> IF k = 0 THEN {o} ELSE UNION {Repaired(p, repairs[k]) : p \in f[k - 1]}]

LEMMA DoneExists ==
  ASSUME NEW repairs, Len(repairs) \in Nat
  PROVE  IsDone(Done(repairs), Opened, repairs, Len(repairs))
<1>. DEFINE o == Opened
            S == {n \in 0..Len(repairs) : \E f : IsDone(f, o, repairs, n)}
<1>1. 0 \in S
  <2>. DEFINE f == [k \in 0..0 |-> {o}]
  <2>1. IsDone(f, o, repairs, 0)
    BY DEF IsDone
  <2>. QED
    BY <2>1
<1>2. ASSUME NEW k \in 0..(Len(repairs) - 1), k \in S PROVE k + 1 \in S
  <2>1. PICK f : IsDone(f, o, repairs, k)
    BY <1>2
  <2>. DEFINE After(s, i) == UNION {Repaired(p, repairs[i]) : p \in s}
              g == [i \in 0..(k + 1) |-> IF i = 0 THEN {o} ELSE After(f[i - 1], i)]
  <2>2. f = [i \in 0..k |-> IF i = 0 THEN {o} ELSE After(f[i - 1], i)]
    BY <2>1 DEF IsDone
  <2>. HIDE DEF o, After
  <2>3. \A i \in 0..k : f[i] = IF i = 0 THEN {o} ELSE After(f[i - 1], i)
    BY <2>2
  <2>4. \A i \in 0..k : i \in 0..(k + 1)
    OBVIOUS
  <2>5. \A i \in 0..k : g[i] = f[i]
    BY <2>3, <2>4
  <2>6. \A i \in 0..(k + 1) : i # 0 => i - 1 \in 0..k
    OBVIOUS
  <2>7. g = [i \in 0..(k + 1) |-> IF i = 0 THEN {o} ELSE After(g[i - 1], i)]
    BY <2>5, <2>6
  <2>. HIDE DEF g
  <2>8. IsDone(g, o, repairs, k + 1)
    BY <2>7 DEF IsDone, After
  <2>. QED
    BY <2>8
<1>. HIDE DEF S
<1>3. Len(repairs) \in S
  <2>1. \A n \in 0..Len(repairs) : n \in S
    BY <1>1, <1>2, IntervalInduction
  <2>. QED
    BY <2>1
<1>4. \E f : IsDone(f, o, repairs, Len(repairs))
  BY <1>3 DEF S
<1>. QED
  BY <1>4 DEF Done, IsDone

\* What Done is: the project, and then each repair on top of those before it.
LEMMA DoneStep ==
  ASSUME NEW repairs, Len(repairs) \in Nat
  PROVE  /\ Done(repairs)[0] = {Opened}
         /\ \A n \in 0..(Len(repairs) - 1) : \A g \in Done(repairs)[n + 1] :
              \E f \in Done(repairs)[n] : g \in Repaired(f, repairs[n + 1])
<1>. DEFINE done == Done(repairs)
            o == Opened
            After(s, i) == UNION {Repaired(p, repairs[i]) : p \in s}
<1>1. done = [k \in 0..Len(repairs) |-> IF k = 0 THEN {o} ELSE After(done[k - 1], k)]
  BY DoneExists DEF IsDone
<1>. HIDE DEF done, o, After
<1>2. \A k \in 0..Len(repairs) : done[k] = IF k = 0 THEN {o} ELSE After(done[k - 1], k)
  BY <1>1
<1>3. ASSUME NEW n \in 0..(Len(repairs) - 1) PROVE done[n + 1] = After(done[n], n + 1)
  <2>1. n + 1 \in 0..Len(repairs) /\ n + 1 # 0 /\ (n + 1) - 1 = n
    OBVIOUS
  <2>. QED
    BY <1>2, <2>1
<1>4. done[0] = {o}
  BY <1>2
<1>5. ASSUME NEW n \in 0..(Len(repairs) - 1), NEW g \in done[n + 1]
      PROVE  \E f \in done[n] : g \in Repaired(f, repairs[n + 1])
  <2>1. g \in After(done[n], n + 1)
    BY <1>3
  <2>. QED
    BY <2>1 DEF After
<1>. QED
  BY <1>4, <1>5 DEF done, o

\* Repairs of any list touch the items of the list only.
LEMMA DoneContents ==
  ASSUME TypeOK, NEW repairs \in Seq(Operations)
  PROVE  \A n \in 0..Len(repairs) : \A g \in Done(repairs)[n] :
           g \in Contents /\ \A q \in Parts \ ItemsOf(repairs) : g[q] = Opened[q]
<1>. DEFINE done == Done(repairs)
            o == Opened
            Good(g) == g \in Contents /\ \A q \in Parts \ ItemsOf(repairs) : g[q] = o[q]
            S == {n \in 0..Len(repairs) : \A g \in done[n] : Good(g)}
<1>1. Len(repairs) \in Nat /\ \A k \in 1..Len(repairs) : repairs[k] \in Operations
  OBVIOUS
<1>2. /\ done[0] = {o}
      /\ \A n \in 0..(Len(repairs) - 1) : \A g \in done[n + 1] :
           \E f \in done[n] : g \in Repaired(f, repairs[n + 1])
  BY <1>1, DoneStep
<1>3. o \in Contents
  BY OpenedType
<1>. HIDE DEF done, o
<1>4. 0 \in S
  BY <1>1, <1>2, <1>3
<1>5. ASSUME NEW k \in 0..(Len(repairs) - 1), k \in S PROVE k + 1 \in S
  <2>1. k + 1 \in 1..Len(repairs) /\ k + 1 \in 0..Len(repairs)
    BY <1>1
  <2>. DEFINE op == repairs[k + 1]
  <2>2. op \in Operations /\ op.item \in ItemsOf(repairs)
    BY <1>1, <2>1 DEF ItemsOf
  <2>3. ASSUME NEW g \in done[k + 1] PROVE Good(g)
    <3>1. PICK f \in done[k] : g \in Repaired(f, op)
      BY <1>2
    <3>2. Good(f)
      BY <1>5
    <3>. HIDE DEF op
    <3>3. Touches(g, f, op.item)
      BY <2>2, <3>1, <3>2, RepairType
    <3>. QED
      BY <2>2, <3>2, <3>3 DEF Touches
  <2>. HIDE DEF Good, op
  <2>. QED
    BY <2>1, <2>3
<1>. HIDE DEF S
<1>6. \A n \in 0..Len(repairs) : n \in S
  BY <1>1, <1>4, <1>5, IntervalInduction
<1>. QED
  BY <1>6 DEF S, done, o

\* When the list names each item once, and the connection it has, the first n repairs
\* have settled the first n items and left the others theirs.
Rightly(repairs) ==
  /\ \A m, n \in DOMAIN repairs : repairs[m].item = repairs[n].item => m = n
  /\ \A n \in DOMAIN repairs : Opened[repairs[n].item] = repairs[n].current

SettledUpTo(g, repairs, n) ==
  \A m \in 1..Len(repairs) : IF m <= n THEN Settled(g, repairs[m])
                                       ELSE g[repairs[m].item] = repairs[m].current

LEMMA DoneRightly ==
  ASSUME TypeOK, NEW repairs \in Seq(Operations), Rightly(repairs)
  PROVE  \A n \in 0..Len(repairs) : \A g \in Done(repairs)[n] : SettledUpTo(g, repairs, n)
<1>. DEFINE done == Done(repairs)
            o == Opened
            S == {n \in 0..Len(repairs) : \A g \in done[n] : SettledUpTo(g, repairs, n)}
<1>1. /\ Len(repairs) \in Nat /\ DOMAIN repairs = 1..Len(repairs)
      /\ \A k \in 1..Len(repairs) : repairs[k] \in Operations
  OBVIOUS
<1>2. /\ done[0] = {o}
      /\ \A n \in 0..(Len(repairs) - 1) : \A g \in done[n + 1] :
           \E f \in done[n] : g \in Repaired(f, repairs[n + 1])
      /\ \A n \in 0..Len(repairs) : \A g \in done[n] : g \in Contents
  BY <1>1, DoneStep, DoneContents
<1>3. /\ \A m, n \in 1..Len(repairs) : repairs[m].item = repairs[n].item => m = n
      /\ \A n \in 1..Len(repairs) : o[repairs[n].item] = repairs[n].current
  BY <1>1 DEF Rightly
<1>. HIDE DEF done, o
<1>4. 0 \in S
  <2>1. \A m \in 1..Len(repairs) : ~(m <= 0)
    OBVIOUS
  <2>. QED
    BY <1>1, <1>2, <1>3, <2>1 DEF SettledUpTo
<1>5. ASSUME NEW k \in 0..(Len(repairs) - 1), k \in S PROVE k + 1 \in S
  <2>1. k + 1 \in 1..Len(repairs) /\ k + 1 \in 0..Len(repairs) /\ k \in 0..Len(repairs)
    BY <1>1
  <2>. DEFINE op == repairs[k + 1]
  <2>2. op \in Operations
    BY <1>1, <2>1
  <2>3. ASSUME NEW g \in done[k + 1] PROVE SettledUpTo(g, repairs, k + 1)
    <3>1. PICK f \in done[k] : g \in Repaired(f, op)
      BY <1>2
    <3>2. f \in Contents /\ SettledUpTo(f, repairs, k)
      BY <1>2, <1>5, <2>1
    <3>3. f[op.item] = op.current
      <4>1. ~(k + 1 <= k)
        BY <2>1
      <4>. QED
        BY <2>1, <3>2, <4>1 DEF SettledUpTo
    <3>4. Settled(g, op) /\ \A q \in Parts \ {op.item} : g[q] = f[q]
      <4>. HIDE DEF op
      <4>. QED
        BY <2>2, <3>1, <3>2, <3>3, RepairType DEF Touches
    <3>5. ASSUME NEW m \in 1..Len(repairs)
          PROVE  IF m <= k + 1 THEN Settled(g, repairs[m])
                               ELSE g[repairs[m].item] = repairs[m].current
      <4>1. CASE m = k + 1
        <5>1. m <= k + 1 /\ repairs[m] = op
          BY <2>1, <4>1
        <5>. QED
          BY <3>4, <5>1
      <4>2. CASE m # k + 1
        <5>1. repairs[m].item # op.item
          BY <1>3, <2>1, <4>2
        <5>2. repairs[m].item \in Parts
          BY <1>1 DEF Operations, Parts
        <5>3. g[repairs[m].item] = f[repairs[m].item]
          BY <3>4, <5>1, <5>2
        <5>4. m <= k + 1 <=> m <= k
          BY <2>1, <4>2
        <5>5. IF m <= k THEN Settled(f, repairs[m]) ELSE f[repairs[m].item] = repairs[m].current
          BY <3>2 DEF SettledUpTo
        <5>. QED
          BY <5>3, <5>4, <5>5 DEF Settled
      <4>. QED
        BY <4>1, <4>2
    <3>. QED
      BY <3>5 DEF SettledUpTo
  <2>. QED
    BY <2>1, <2>3
<1>. HIDE DEF S
<1>6. \A n \in 0..Len(repairs) : n \in S
  BY <1>1, <1>4, <1>5, IntervalInduction
<1>. QED
  BY <1>6 DEF S, done

-----------------------------------------------------------------------------
(* Types and acknowledged edits.                                           *)

SInv == TypeOK /\ AckedStays

TokenType(t) ==
  t.repairs \in Repairs /\ t.targets \in [Items -> Connections \cup {Unset}]

\* A call that leaves what it was not asked to edit as it found it keeps both.
LEMMA LeavesKeeps ==
  ASSUME SInv, \A t \in tokens' : TokenType(t),
         NEW p \in Contents, NEW asked, NEW result \in {"ok", "refused", "failed", "stranded"},
         \A q \in Parts \ asked : p[q] = Opened[q],
         Leaves(p, asked, result)
  PROVE  SInv'
<1>1. /\ project' = p /\ answer' = result /\ UNCHANGED <<file, saves>>
      /\ calls < MaxCalls /\ calls' = calls + 1 /\ readOnly' \in BOOLEAN
  BY DEF Leaves, Counted, Opening, SInv, TypeOK
<1>2. calls' \in 0..MaxCalls
  BY <1>1, ProjectSessionAssumption DEF SInv, TypeOK
<1>3. \A q \in Parts : acked'[q] = IF q \notin asked THEN acked[q]
                                   ELSE IF result = "ok" THEN p[q] ELSE Unset
  BY DEF Leaves
<1>4. p \in [Parts -> Values] /\ p # NoProject /\ Unset \notin Values
  BY ContentsType, ProjectSessionAssumption
<1>5. acked' \in [Parts -> Values \cup {Unset}]
  BY <1>4 DEF Leaves, SInv, TypeOK
<1>6. TypeOK'
  BY <1>1, <1>2, <1>5 DEF SInv, TypeOK, TokenType
<1>7. ASSUME NEW q \in Parts, acked'[q] # Unset PROVE project' # NoProject /\ project'[q] = acked'[q]
  <2>1. CASE q \in asked
    BY <1>1, <1>3, <1>4, <1>7, <2>1
  <2>2. CASE q \notin asked
    <3>1. project # NoProject /\ project[q] = acked[q] /\ acked'[q] = acked[q]
      BY <1>3, <1>7, <2>2 DEF SInv, AckedStays
    <3>. QED
      BY <1>1, <1>4, <2>2, <3>1 DEF Opened
  <2>. QED
    BY <2>1, <2>2
<1>. QED
  BY <1>6, <1>7 DEF SInv, AckedStays

LEMMA SameTokens == ASSUME SInv, UNCHANGED tokens PROVE \A t \in tokens' : TokenType(t)
BY DEF SInv, TypeOK, TokenType

\* One assignment.
LEMMA AssignKeeps ==
  ASSUME SInv, NEW p, NEW v,
         (p \in Items /\ v \in Connections) \/ (p \in Settings /\ v \in Looks),
         Assign(p, v)
  PROVE  SInv'
<1>1. Opened \in Contents /\ \A t \in tokens' : TokenType(t)
  BY OpenedType, SameTokens DEF SInv, Assign
<1>2. /\ [Opened EXCEPT ![p] = v] \in Contents
      /\ \A q \in Parts \ {p} : [Opened EXCEPT ![p] = v][q] = Opened[q]
  BY <1>1, SetPart
<1>3. CASE Leaves([Opened EXCEPT ![p] = v], {p}, "ok")
  BY <1>1, <1>2, <1>3, LeavesKeeps
<1>4. CASE Leaves(Opened, {}, "refused")
  BY <1>1, <1>4, LeavesKeeps
<1>. QED
  BY <1>3, <1>4 DEF Assign

\* Two assignments, the second of which may fail.
LEMMA AssignEachKeeps ==
  ASSUME SInv, NEW s \in Settings, NEW v \in Looks, NEW t \in Settings, NEW w \in Looks,
         AssignEach(s, v, t, w)
  PROVE  SInv'
<1>. DEFINE first == [Opened EXCEPT ![s] = v]
<1>1. Opened \in Contents /\ \A u \in tokens' : TokenType(u)
  BY OpenedType, SameTokens DEF SInv, AssignEach
<1>2. first \in Contents /\ \A q \in Parts \ {s} : first[q] = Opened[q]
  BY <1>1, SetPart
<1>3. \/ Leaves([first EXCEPT ![t] = w], {s, t}, "ok")
      \/ Leaves(first, {s, t}, "failed")
      \/ Leaves(Opened, {}, "refused")
  BY DEF AssignEach
<1>. HIDE DEF first
<1>4. /\ [first EXCEPT ![t] = w] \in Contents
      /\ \A q \in Parts \ {t} : [first EXCEPT ![t] = w][q] = first[q]
  BY <1>2, SetPart
<1>5. \A q \in Parts \ {s, t} : [first EXCEPT ![t] = w][q] = Opened[q] /\ first[q] = Opened[q]
  BY <1>2, <1>4
<1>6. CASE Leaves([first EXCEPT ![t] = w], {s, t}, "ok")
  BY <1>1, <1>4, <1>5, <1>6, LeavesKeeps
<1>7. CASE Leaves(first, {s, t}, "failed")
  BY <1>1, <1>2, <1>5, <1>7, LeavesKeeps
<1>8. CASE Leaves(Opened, {}, "refused")
  BY <1>1, <1>8, LeavesKeeps
<1>. QED
  BY <1>3, <1>6, <1>7, <1>8

\* The connections of folders, databases and toolboxes.
LEMMA EntryKeeps ==
  ASSUME SInv, NEW e \in Entries,
         RemoveConnection(e) \/ \E mark \in {"listed", "home"} : AddConnection(e, mark)
  PROVE  SInv'
<1>1. Opened \in Contents /\ \A u \in tokens' : TokenType(u)
  BY OpenedType, SameTokens DEF SInv, RemoveConnection, AddConnection
<1>2. CASE Leaves(Opened, {}, "refused")
  BY <1>1, <1>2, LeavesKeeps
<1>3. CASE Leaves([Opened EXCEPT ![e] = "absent"], {e}, "ok")
  <2>1. "absent" \in Marks
    BY DEF Marks
  <2>2. /\ [Opened EXCEPT ![e] = "absent"] \in Contents
        /\ \A q \in Parts \ {e} : [Opened EXCEPT ![e] = "absent"][q] = Opened[q]
    BY <1>1, <2>1, SetPart
  <2>. QED
    BY <1>1, <1>3, <2>2, LeavesKeeps
<1>4. ASSUME NEW mark \in {"listed", "home"}, NEW base,
             base = (IF mark = "home" THEN Unmarked(Opened) ELSE Opened),
             Leaves(Listed(base, e, mark), Entries, "ok") \/ Leaves(base, Entries, "failed")
      PROVE  SInv'
  <2>1. base \in Contents /\ \A q \in Parts \ Entries : base[q] = Opened[q]
    BY <1>1, <1>4, UnmarkedType
  <2>2. mark \in Marks
    BY DEF Marks
  <2>3. /\ Listed(base, e, mark) \in Contents
        /\ \A q \in Parts \ {e} : Listed(base, e, mark)[q] = base[q]
    BY <2>1, <2>2, SetPart DEF Listed
  <2>4. \A q \in Parts \ Entries : Listed(base, e, mark)[q] = Opened[q]
    BY <2>1, <2>3
  <2>5. CASE Leaves(Listed(base, e, mark), Entries, "ok")
    BY <1>1, <2>3, <2>4, <2>5, LeavesKeeps
  <2>6. CASE Leaves(base, Entries, "failed")
    BY <1>1, <2>1, <2>6, LeavesKeeps
  <2>. QED
    BY <1>4, <2>5, <2>6
<1>. QED
  BY <1>2, <1>3, <1>4 DEF RemoveConnection, AddConnection

LEMMA EditKeeps == ASSUME SInv, Edit PROVE SInv'
<1>1. ASSUME NEW s \in Settings, NEW v \in Looks, EditOne(s, v) PROVE SInv'
  <2>1. Assign(s, v)
    BY <1>1 DEF EditOne, SetLayerProperty, AddLayers, ChangeMembers, ArrangeLayers, EditJoins,
       SetTextAndExtent, ApplySymbology, ToggleLabels, ZoomMapFrame, UpdateLayerCim,
       AddBasemap, RemoveMap, RenameMap, PanToExtent, EnableTime, SetElementVisible,
       ChangeLayouts, SetDefinitionQueries, PasteLayerProperties, SetRenderer, SetColorizer,
       SetLabelFont, UpsertChart
  <2>. QED
    BY <2>1, AssignKeeps
<1>2. ASSUME NEW s \in Settings, NEW v \in Looks, NEW t \in Settings, NEW w \in Looks,
             EditEach(s, v, t, w)
      PROVE  SInv'
  <2>1. AssignEach(s, v, t, w)
    BY <1>2 DEF EditEach, SetDefaultCamera, SetScaleRange, CreateMap, DuplicateMap,
       SetMapFrameTime, SetElementPosition, UpdateLegendItems, CreateLayout,
       SetProjectDefaults, UpdateReportSection, UpdateBookmark, CreateLayoutFromTemplate,
       UpsertLayoutElement, UpsertLabelClass, UpdateTableProperties, UpdateLabelExpression
  <2>. QED
    BY <2>1, AssignEachKeeps
<1>3. ASSUME NEW i \in Items, NEW c \in Connections, ReplaceDataSource(i, c) \/ RepairLayerSource(i, c)
      PROVE  SInv'
  BY <1>3, AssignKeeps DEF ReplaceDataSource, RepairLayerSource
<1>. QED
  BY <1>1, <1>2, <1>3, EntryKeeps DEF Edit

\* The repair of one item.
LEMMA ReplaceKeeps ==
  ASSUME SInv, NEW op \in Operations, ReplaceItemConnection(op) PROVE SInv'
<1>. DEFINE o == Opened
<1>1. o \in Contents /\ \A u \in tokens' : TokenType(u)
  BY OpenedType, SameTokens DEF SInv, ReplaceItemConnection
<1>2. CASE \E q \in Repaired(o, op) : Leaves(q, {op.item}, "ok")
  <2>1. PICK q \in Repaired(o, op) : Leaves(q, {op.item}, "ok")
    BY <1>2
  <2>2. q \in Contents /\ \A r \in Parts \ {op.item} : q[r] = o[r]
    <3>. HIDE DEF o
    <3>. QED
      BY <1>1, <2>1, RepairType DEF Touches
  <2>. QED
    BY <1>1, <2>1, <2>2, LeavesKeeps
<1>3. CASE \E f \in Unrepaired(o, op) : Leaves(f.project, {op.item}, f.answer)
  <2>1. PICK f \in Unrepaired(o, op) : Leaves(f.project, {op.item}, f.answer)
    BY <1>3
  <2>2. /\ f.project \in Contents /\ \A r \in Parts \ {op.item} : f.project[r] = o[r]
        /\ f.answer \in {"failed", "stranded"}
    <3>. HIDE DEF o
    <3>. QED
      BY <1>1, <2>1, RepairType DEF Touches
  <2>. QED
    BY <1>1, <2>1, <2>2, LeavesKeeps
<1>. QED
  BY <1>2, <1>3 DEF ReplaceItemConnection

\* The preflight of a list of repairs signs a well-typed token.
LEMMA PreflightKeeps ==
  ASSUME SInv, NEW repairs \in Repairs, ConnectionRepairPreflight(repairs) PROVE SInv'
<1>1. Opened \in Contents
  BY OpenedType DEF SInv
<1>2. TargetsOf(repairs) \in [Items -> Connections \cup {Unset}]
  <2>1. \A i \in Items : Opened[i] \in Connections
    BY <1>1, ContentsType
  <2>. QED
    BY <2>1 DEF TargetsOf
<1>3. \A t \in tokens' : TokenType(t)
  BY <1>2 DEF ConnectionRepairPreflight, SInv, TypeOK, TokenType
<1>4. Leaves(Opened, {}, "ok")
  BY DEF ConnectionRepairPreflight
<1>. QED
  BY <1>1, <1>3, <1>4, LeavesKeeps

\* The repair that ends an apply, and the projects it may leave.
LEMMA StopCase ==
  ASSUME TypeOK, NEW repairs \in Seq(Operations), Stops(repairs)
  PROVE  \E n \in 1..Len(repairs) : \E p \in Done(repairs)[n - 1] : \E f \in Unrepaired(p, repairs[n]) :
           /\ Leaves(f.project, ItemsOf(repairs), f.answer)
           /\ n - 1 \in 0..Len(repairs) /\ p \in Contents /\ repairs[n] \in Operations
<1>1. PICK n \in 1..Len(repairs) : \E p \in Done(repairs)[n - 1] : \E f \in Unrepaired(p, repairs[n]) :
        Leaves(f.project, ItemsOf(repairs), f.answer)
  BY DEF Stops
<1>2. PICK p \in Done(repairs)[n - 1] : \E f \in Unrepaired(p, repairs[n]) :
        Leaves(f.project, ItemsOf(repairs), f.answer)
  BY <1>1
<1>3. n - 1 \in 0..Len(repairs) /\ repairs[n] \in Operations
  OBVIOUS
<1>4. p \in Contents
  BY <1>2, <1>3, DoneContents
<1>. QED
  BY <1>2, <1>3, <1>4

\* The apply of a list of repairs.
LEMMA ApplyKeeps == ASSUME SInv, NEW t \in tokens, ConnectionRepairApply(t) PROVE SInv'
<1>. DEFINE repairs == t.repairs
            done == Done(repairs)
            o == Opened
<1>1. TypeOK /\ o \in Contents /\ \A u \in tokens' : TokenType(u)
  BY OpenedType, SameTokens DEF SInv, ConnectionRepairApply
<1>2. repairs \in Seq(Operations) /\ Len(repairs) \in Nat
  BY <1>1, ProjectSessionAssumption DEF TypeOK
<1>3. \A n \in 0..Len(repairs) : \A g \in done[n] :
        g \in Contents /\ \A q \in Parts \ ItemsOf(repairs) : g[q] = o[q]
  BY <1>1, <1>2, DoneContents
<1>4. CASE Leaves(o, {}, "refused")
  BY <1>1, <1>4, LeavesKeeps
<1>5. CASE \E p \in done[Len(repairs)] : Leaves(p, ItemsOf(repairs), "ok")
  <2>1. PICK p \in done[Len(repairs)] : Leaves(p, ItemsOf(repairs), "ok")
    BY <1>5
  <2>2. p \in Contents /\ \A q \in Parts \ ItemsOf(repairs) : p[q] = o[q]
    <3>1. Len(repairs) \in 0..Len(repairs)
      BY <1>2
    <3>. HIDE DEF done, o, repairs
    <3>. QED
      BY <1>3, <2>1, <3>1
  <2>. QED
    BY <1>1, <2>1, <2>2, LeavesKeeps
<1>6. CASE Stops(repairs)
  <2>. HIDE DEF repairs
  <2>. DEFINE Stop(n, p, f) ==
                /\ Leaves(f.project, ItemsOf(repairs), f.answer)
                /\ n - 1 \in 0..Len(repairs) /\ p \in Contents /\ repairs[n] \in Operations
  <2>a. PICK n \in 1..Len(repairs) : \E p \in done[n - 1] : \E f \in Unrepaired(p, repairs[n]) : Stop(n, p, f)
    BY <1>1, <1>2, <1>6, StopCase
  <2>b. PICK p \in done[n - 1] : \E f \in Unrepaired(p, repairs[n]) : Stop(n, p, f)
    BY <2>a
  <2>1. PICK f \in Unrepaired(p, repairs[n]) : Stop(n, p, f)
    BY <2>b
  <2>2. repairs[n].item \in ItemsOf(repairs)
    BY <1>2 DEF ItemsOf
  <2>3. \A q \in Parts \ ItemsOf(repairs) : p[q] = o[q]
    BY <1>3, <2>1
  <2>4. /\ f.project \in Contents /\ f.answer \in {"failed", "stranded"}
        /\ \A q \in Parts \ {repairs[n].item} : f.project[q] = p[q]
    BY <2>1, RepairType DEF Touches
  <2>5. \A q \in Parts \ ItemsOf(repairs) : f.project[q] = o[q]
    BY <2>2, <2>3, <2>4
  <2>. QED
    BY <1>1, <2>1, <2>4, <2>5, LeavesKeeps
<1>. QED
  BY <1>4, <1>5, <1>6 DEF ConnectionRepairApply

\* Opening, saving and dropping the project.
LEMMA KeepKeeps == ASSUME SInv, Keep PROVE SInv'
<1>1. Opened \in Contents /\ file \in Contents /\ NoProject \notin Contents
  BY OpenedType, ProjectSessionAssumption DEF SInv, TypeOK
<1>2. NoneAcked \in [Parts -> Values \cup {Unset}] /\ \A q \in Parts : NoneAcked[q] = Unset
  BY DEF NoneAcked
<1>3. Counted => calls' \in 0..MaxCalls
  BY ProjectSessionAssumption DEF Counted, SInv, TypeOK
<1>4. Opening => readOnly' \in BOOLEAN
  BY DEF Opening, SInv, TypeOK
<1>5. ASSUME Look \/ SaveProject PROVE SInv'
  <2>1. project' = Opened /\ (project # NoProject => project' = project)
    BY <1>5 DEF Look, SaveProject, Opened
  <2>2. acked' = acked \/ acked' = NoneAcked
    BY <1>5 DEF Look, SaveProject
  <2>3. TypeOK'
    BY <1>1, <1>2, <1>3, <1>4, <1>5, <2>1, <2>2 DEF Look, SaveProject, SInv, TypeOK
  <2>4. AckedStays'
    BY <1>1, <1>2, <2>1, <2>2 DEF SInv, AckedStays
  <2>. QED
    BY <2>3, <2>4 DEF SInv
<1>6. CASE SaveProjectCopy
  <2>1. \A u \in tokens' : TokenType(u)
    BY <1>6, SameTokens DEF SaveProjectCopy
  <2>. QED
    BY <1>1, <1>6, <2>1, LeavesKeeps DEF SaveProjectCopy
<1>7. ASSUME ReleaseProject \/ ReloadProject \/ AddFieldAlias PROVE SInv'
  <2>1. acked' = NoneAcked /\ project' \in {file, NoProject} /\ file' = file
    BY <1>7 DEF ReleaseProject, ReloadProject, AddFieldAlias
  <2>2. TypeOK'
    BY <1>1, <1>2, <1>3, <1>7, <2>1 DEF ReleaseProject, ReloadProject, AddFieldAlias, SInv, TypeOK
  <2>3. AckedStays'
    BY <1>2, <2>1 DEF AckedStays
  <2>. QED
    BY <2>2, <2>3 DEF SInv
<1>. QED
  BY <1>5, <1>6, <1>7 DEF Keep

\* The world outside.
LEMMA WorldKeeps == ASSUME SInv, TokenExpires \/ ForeignSave \/ Restart PROVE SInv'
<1>1. CASE TokenExpires
  BY <1>1 DEF TokenExpires, SInv, TypeOK, AckedStays
<1>2. CASE ForeignSave
  <2>1. file' \in Contents
    BY <1>2, SetPart DEF ForeignSave, SInv, TypeOK
  <2>2. saves' \in 0..MaxForeign
    BY <1>2, ProjectSessionAssumption DEF ForeignSave, SInv, TypeOK
  <2>. QED
    BY <1>2, <2>1, <2>2 DEF ForeignSave, SInv, TypeOK, AckedStays
<1>3. CASE Restart
  <2>1. NoneAcked \in [Parts -> Values \cup {Unset}] /\ \A q \in Parts : NoneAcked[q] = Unset
    BY DEF NoneAcked
  <2>. QED
    BY <1>3, <2>1 DEF Restart, SInv, TypeOK, AckedStays
<1>. QED
  BY <1>1, <1>2, <1>3

LEMMA SInit == Init => SInv
<1>. SUFFICES ASSUME Init PROVE SInv
  OBVIOUS
<1>1. NoneAcked \in [Parts -> Values \cup {Unset}] /\ \A q \in Parts : NoneAcked[q] = Unset
  BY DEF NoneAcked
<1>2. file \in Contents /\ 0 \in 0..MaxCalls /\ 0 \in 0..MaxForeign
  BY ProjectSessionAssumption DEF Init
<1>3. TypeOK
  BY <1>1, <1>2 DEF Init, TypeOK
<1>4. AckedStays
  BY <1>1 DEF Init, AckedStays
<1>. QED
  BY <1>3, <1>4 DEF SInv

LEMMA SStep == SInv /\ [Next]_vars => SInv'
<1>. SUFFICES ASSUME SInv, [Next]_vars PROVE SInv'
  OBVIOUS
<1>1. CASE Repair
  BY <1>1, ReplaceKeeps, PreflightKeeps, ApplyKeeps DEF Repair
<1>2. CASE UNCHANGED vars
  BY <1>2 DEF vars, SInv, TypeOK, AckedStays
<1>. QED
  BY <1>1, <1>2, EditKeeps, KeepKeeps, WorldKeeps DEF Next

\* Every reachable state of file, cached copy, tokens and history is well typed.
THEOREM TypeCorrect == Spec => []TypeOK
<1>1. SInv => TypeOK
  BY DEF SInv
<1>. QED
  BY <1>1, SInit, SStep, PTL DEF Spec

\* An acknowledged edit stays in the cached copy until the project is saved or
\* dropped or the same part is edited again, for repairs of any length, failing or
\* not, and whatever other programs save.
THEOREM AckedEditsStay == Spec => []AckedStays
<1>1. SInv => AckedStays
  BY DEF SInv
<1>. QED
  BY <1>1, SInit, SStep, PTL DEF Spec

-----------------------------------------------------------------------------
(* What the apply of repairs reports.                                      *)

\* The apply of an honest token settled the first n repairs and gave up the next.
LEMMA HonestApply ==
  ASSUME TypeOK, NEW t \in tokens, ConnectionRepairApply(t), Honest(t), answer' # "refused"
  PROVE  Reported(t)
<1>. DEFINE repairs == t.repairs
            done == Done(repairs)
<1>1. /\ repairs \in Seq(Operations) /\ Len(repairs) \in Nat /\ DOMAIN repairs = 1..Len(repairs)
      /\ \A m \in 1..Len(repairs) : repairs[m] \in Operations
  BY ProjectSessionAssumption DEF TypeOK
<1>2. t.targets = TargetsOf(repairs)
  BY DEF ConnectionRepairApply, Leaves
<1>3. Rightly(repairs)
  <2>1. ASSUME NEW n \in DOMAIN repairs PROVE Opened[repairs[n].item] = repairs[n].current
    <3>1. repairs[n].item \in Items /\ repairs[n].item \in ItemsOf(repairs)
      BY <1>1 DEF Operations, ItemsOf
    <3>2. TargetsOf(repairs)[repairs[n].item] = Opened[repairs[n].item]
      BY <3>1 DEF TargetsOf
    <3>. QED
      BY <1>2, <3>2 DEF Honest
  <2>. QED
    BY <2>1 DEF Rightly, Honest
<1>4. \A n \in 0..Len(repairs) : \A g \in done[n] : SettledUpTo(g, repairs, n)
  BY <1>1, <1>3, DoneRightly
<1>5. CASE \E p \in done[Len(repairs)] : Leaves(p, ItemsOf(repairs), "ok")
  <2>1. project' \in done[Len(repairs)] /\ answer' = "ok"
    BY <1>5 DEF Leaves
  <2>2. Len(repairs) \in 0..Len(repairs)
    BY <1>1
  <2>. HIDE DEF done, repairs
  <2>3. \A m \in DOMAIN repairs : m <= Len(repairs) /\ Settled(project', repairs[m])
    BY <1>1, <1>4, <2>1, <2>2 DEF SettledUpTo
  <2>4. \A m \in DOMAIN repairs : ~(m = Len(repairs) + 1) /\ ~(m > Len(repairs) + 1)
    BY <1>1, <2>3
  <2>. QED
    BY <2>1, <2>2, <2>3, <2>4 DEF Reported, repairs
<1>6. CASE Stops(repairs)
  <2>. DEFINE Stop(n, p, f) ==
                /\ Leaves(f.project, ItemsOf(repairs), f.answer)
                /\ n - 1 \in 0..Len(repairs) /\ p \in Contents /\ repairs[n] \in Operations
  <2>a. PICK n \in 1..Len(repairs) : \E p \in done[n - 1] : \E f \in Unrepaired(p, repairs[n]) : Stop(n, p, f)
    BY <1>1, <1>6, StopCase
  <2>b. PICK p \in done[n - 1] : \E f \in Unrepaired(p, repairs[n]) : Stop(n, p, f)
    BY <2>a
  <2>1. PICK f \in Unrepaired(p, repairs[n]) : Stop(n, p, f)
    BY <2>b
  <2>2. project' = f.project /\ answer' = f.answer
    BY <2>1 DEF Leaves
  <2>. DEFINE op == repairs[n]
  <2>3. n - 1 # Len(repairs) /\ ~(n <= n - 1) /\ (n - 1) + 1 = n
    BY <1>1
  <2>. HIDE DEF done
  <2>4. SettledUpTo(p, repairs, n - 1)
    BY <1>4, <2>1
  <2>5. p[op.item] = op.current
    <3>. HIDE DEF repairs
    <3>. QED
      BY <2>3, <2>4 DEF SettledUpTo
  <2>6. /\ GivenUp(project', op, answer') /\ answer' \in {"failed", "stranded"}
        /\ \A q \in Parts \ {op.item} : project'[q] = p[q]
    <3>. HIDE DEF op
    <3>1. f \in Unrepaired(p, op) /\ p \in Contents /\ op \in Operations
      BY <2>1 DEF op
    <3>. QED
      BY <2>2, <2>5, <3>1, RepairType DEF Touches
  <2>7. ASSUME NEW m \in DOMAIN repairs
        PROVE  /\ m <= n - 1 => Settled(project', repairs[m])
               /\ m = (n - 1) + 1 => GivenUp(project', repairs[m], answer')
               /\ m > (n - 1) + 1 => project'[repairs[m].item] = repairs[m].current
    <3>. HIDE DEF repairs
    <3>1. CASE m = n
      BY <2>3, <2>6, <3>1
    <3>2. CASE m # n
      <4>1. repairs[m].item # op.item /\ repairs[m].item \in Parts
        BY <1>1, <1>3, <3>2 DEF Rightly, Operations, Parts
      <4>2. project'[repairs[m].item] = p[repairs[m].item]
        BY <2>6, <4>1
      <4>3. IF m <= n - 1 THEN Settled(p, repairs[m]) ELSE p[repairs[m].item] = repairs[m].current
        BY <1>1, <2>4 DEF SettledUpTo
      <4>4. m > (n - 1) + 1 => ~(m <= n - 1)
        BY <1>1
      <4>5. m # (n - 1) + 1
        BY <2>3, <3>2
      <4>. QED
        BY <4>2, <4>3, <4>4, <4>5 DEF Settled
    <3>. QED
      BY <3>1, <3>2
  <2>. HIDE DEF op, repairs
  <2>. QED
    BY <2>1, <2>3, <2>6, <2>7 DEF Reported, repairs
<1>. QED
  BY <1>2, <1>5, <1>6 DEF ConnectionRepairApply, Leaves

\* The apply of an honest token, of any length and with any of its repairs validated or
\* not, settles a beginning of the list; the repair that ended it was taken back, or,
\* when the error says so, stranded; the later items were not touched.
THEOREM RepairsAreHonest == Spec => RepairHonest
<1>1. TypeOK /\ [Next]_vars =>
        [\A t \in tokens :
           ConnectionRepairApply(t) /\ Honest(t) /\ answer' # "refused" => Reported(t)]_vars
  BY HonestApply
<1>. QED
  BY <1>1, TypeCorrect, PTL DEF Spec, RepairHonest

\* save_project writes every acknowledged edit: the copy in the cache has them all, and
\* without a copy there are none.
THEOREM SavesReachTheFile == Spec => SaveWritesAcked
<1>1. AckedStays /\ [Next]_vars =>
        [SaveProject /\ answer' = "ok" =>
           \A p \in Parts : acked[p] # Unset => file'[p] = acked[p]]_vars
  <2>. SUFFICES ASSUME AckedStays, SaveProject, answer' = "ok",
                       NEW p \in Parts, acked[p] # Unset
                PROVE  file'[p] = acked[p]
    OBVIOUS
  <2>1. project # NoProject /\ project[p] = acked[p]
    BY DEF AckedStays
  <2>2. file' = Opened
    BY DEF SaveProject
  <2>. QED
    BY <2>1, <2>2 DEF Opened
<1>. QED
  BY <1>1, AckedEditsStay, PTL DEF Spec, SaveWritesAcked
=============================================================================

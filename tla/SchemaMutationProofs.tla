------------------------- MODULE SchemaMutationProofs -------------------------
(* For any names, bodies, manifests and bounds, and whatever part of its work a     *)
(* tool does: SchemaMutation is type correct, two rules or indexes never come to    *)
(* differ only in case, nor two groups but by an import that named one in another   *)
(* case, and what is answered as verified has left the rest as it was.              *)
(*                                                                                  *)
(* The argument: a call in progress is a proper one, that is, what it adds and      *)
(* removes fits its operation and its snapshot, and until it has answered the       *)
(* dataset has no name that was neither in the snapshot nor asked for.              *)
EXTENDS SchemaMutation, TLAPS

Named == {"rule", "group", "index"}

\* What each operation adds and removes.
Adds(c, kind) ==
    /\ c.kinds = {kind} /\ c.minus = {}
    /\ \A i \in c.plus : i.kind = kind
AddsOne(c, kind) == Adds(c, kind) /\ \E i : c.plus = {i}
Removes(c, kinds) == c.kinds = kinds /\ c.plus = {} /\ c.minus \subseteq Of(kinds, c.before)

Fits(c) ==
    /\ c.op = "add_rule" => AddsOne(c, "rule")
    /\ c.op = "import_rules" => Adds(c, "rule")
    /\ c.op = "create_group" => AddsOne(c, "group")
    /\ c.op = "add_value" => AddsOne(c, "value")
    /\ c.op = "delete_rules" => Removes(c, {"rule"})
    /\ c.op = "delete_group" => Removes(c, {"group", "value"})
    /\ c.op = "remove_value" => Removes(c, {"value"})
    /\ c.op \in Imports => c.kinds = {"group", "value"} /\ \A i \in c.plus : i.kind \in {"group", "value"}
    /\ c.op = "union" => c.minus = {}
    /\ c.op = "replace" => c.minus = Of({"group", "value"}, c.before) \ c.plus

\* Only the imports may ask for a name that is there already; when it is there in
\* another case, it is in C.
AsksNewNames(c, C) ==
    \A i \in Of(Named, c.plus), j \in c.before :
        i.kind = j.kind /\ Fold[i.name] = Fold[j.name] =>
            c.op \in Imports /\ i.kind = "group" /\ (i.name = j.name \/ Fold[i.name] \in C)

Proper(c, C) == Fits(c) /\ AsksNewNames(c, C) /\ NoTwins(c.plus)

\* Names of one kind that differ only in case are those of groups and in C, and no two
\* items of a kind have the same name.
Tidy(s, C) ==
    \A i, j \in Of(Named, s) :
        i.kind = j.kind /\ Fold[i.name] = Fold[j.name] =>
            i = j \/ (i.name # j.name /\ i.kind = "group" /\ Fold[i.name] \in C)

\* The same item, but for the body of one that is no value.
Changed(i, j) == i.kind = j.kind /\ i.name = j.name /\ (j.kind = "value" => i = j)
From(s, t) == \A i \in s : \E j \in t : Changed(i, j)

Parts ==
    /\ Tidy(db, clashes)
    /\ phase # "idle" => Proper(call, clashes) /\ answer = "none"
    /\ phase = "checked" => From(db, call.before)
    /\ phase = "ran" => From(db, call.before \cup call.plus)

IInv == TypeOK /\ Parts

-----------------------------------------------------------------------------
(* Sets of items.                                                                 *)

LEMMA ItemKinds ==
  ASSUME NEW i \in Item
  PROVE  i.kind \in Kinds /\ i.name \in Names
BY DEF Item, Kinds

LEMMA NewItem ==
  /\ \A k \in Kinds \ {"value"}, n \in Names, b \in Bodies : New(k, n, b) \in Item
  /\ \A n, g \in Names : New("value", n, g) \in Item
  /\ \A k, n, b : New(k, n, b).kind = k /\ New(k, n, b).name = n /\ New(k, n, b).body = b
BY DEF New, Item

\* What has no twins is tidy, and a part of what is tidy.
LEMMA PartIsTidy ==
  ASSUME NEW C
  PROVE  /\ \A s : NoTwins(s) => Tidy(s, C)
         /\ \A s, t : Tidy(s, C) /\ t \subseteq s => Tidy(t, C)
BY DEF NoTwins, Tidy, Of, Named

Loses(s, d) == \E i \in s : d = s \ {i}
Alters(s, d) ==
    \E i \in Of(Kinds \ {"value"}, s), b \in Bodies : d = (s \ {i}) \cup {[i EXCEPT !.body = b]}

\* An item is gone, or it has another body.
LEMMA DamageCases ==
  ASSUME NEW s, NEW d \in Damaged(s)
  PROVE  Loses(s, d) \/ Alters(s, d)
<1>1. CASE d \in {s \ {i} : i \in s}
  BY <1>1 DEF Loses
<1>2. CASE d \in {(s \ {i}) \cup {[i EXCEPT !.body = b]} : i \in Of(Kinds \ {"value"}, s), b \in Bodies}
  BY <1>2 DEF Alters
<1>. QED
  BY <1>1, <1>2, d \in Damaged(s) DEF Damaged

\* Damage gives nothing a new name.
LEMMA DamageKeepsNames ==
  ASSUME NEW s, s \subseteq Item, NEW d \in Damaged(s)
  PROVE  d \subseteq Item /\ From(d, s)
<1>1. CASE Loses(s, d)
  BY <1>1 DEF From, Changed, Loses
<1>2. CASE Alters(s, d)
  <2>1. PICK i \in s, b \in Bodies : i.kind # "value" /\ d = (s \ {i}) \cup {[i EXCEPT !.body = b]}
    BY <1>2 DEF Of, Alters
  <2>2. i \in [kind : Kinds \ {"value"}, name : Names, body : Bodies]
    BY <2>1 DEF Item
  <2>. DEFINE x == [i EXCEPT !.body = b]
  <2>3. x \in Item /\ x.kind = i.kind /\ x.name = i.name
    BY <2>1, <2>2 DEF Item
  <2>4. Changed(x, i)
    BY <2>1, <2>3 DEF Changed
  <2>5. \A j \in s : Changed(j, j)
    BY DEF Changed
  <2>. QED
    BY <2>1, <2>3, <2>4, <2>5 DEF From
<1>. QED
  BY <1>1, <1>2, DamageCases

\* Damage makes no twins.
LEMMA DamageIsTidy ==
  ASSUME NEW s, s \subseteq Item, NEW C, Tidy(s, C), NEW d \in Damaged(s)
  PROVE  Tidy(d, C)
<1>1. CASE Loses(s, d)
  BY <1>1, PartIsTidy DEF Loses
<1>2. CASE Alters(s, d)
  <2>1. PICK i \in s, b \in Bodies : i.kind # "value" /\ d = (s \ {i}) \cup {[i EXCEPT !.body = b]}
    BY <1>2 DEF Of, Alters
  <2>2. i \in [kind : Kinds \ {"value"}, name : Names, body : Bodies]
    BY <2>1 DEF Item
  <2>. DEFINE x == [i EXCEPT !.body = b]
  <2>3. x.kind = i.kind /\ x.name = i.name
    BY <2>1, <2>2
  <2>. HIDE DEF x
  <2>4. ASSUME NEW j \in s \ {i}, x.kind \in Named, j.kind = x.kind, Fold[j.name] = Fold[x.name]
        PROVE  j.name # x.name /\ x.kind = "group" /\ Fold[x.name] \in C
    BY <2>1, <2>3, <2>4 DEF Tidy, Of
  <2>5. d = (s \ {i}) \cup {x}
    BY <2>1 DEF x
  <2>6. Tidy(s \ {i}, C)
    BY PartIsTidy
  <2>. QED
    BY <2>4, <2>5, <2>6 DEF Tidy, Of
<1>. QED
  BY <1>1, <1>2, DamageCases

LEMMA FromItself ==
  ASSUME NEW s
  PROVE  From(s, s)
BY DEF From, Changed

LEMMA FromIsTransitive ==
  ASSUME NEW r, NEW s, NEW t, From(r, s), From(s, t)
  PROVE  From(r, t)
BY DEF From, Changed

LEMMA FromMore ==
  ASSUME NEW r, NEW s, NEW t, From(r, s), s \subseteq t
  PROVE  From(r, t)
BY DEF From

-----------------------------------------------------------------------------
(* The beginning of a call.                                                       *)

LEMMA InitHolds == Init => IInv
<1>. SUFFICES ASSUME Init PROVE IInv
  OBVIOUS
<1>1. db \subseteq Item /\ Tidy(db, clashes)
  BY SchemaMutationAssumption, PartIsTidy DEF Init
<1>2. 0 \in 0..MaxCalls /\ 0 \in 0..MaxForeign
  BY SchemaMutationAssumption
<1>3. call.kinds = {} /\ call.plus = {} /\ call.minus = {} /\ call.before = {}
  BY DEF Init, NoCall
<1>4. TypeOK
  BY <1>1, <1>2, <1>3 DEF Init, TypeOK
<1>. QED
  BY <1>1, <1>4 DEF Init, IInv, Parts

\* The clashes after a call with op and plus has begun.
After(op, plus) == clashes \cup (IF op \in Imports THEN Clashing(plus) ELSE {})

LEMMA Begins ==
  ASSUME IInv, NEW op, NEW kinds \in SUBSET Kinds, NEW plus \in SUBSET Item, NEW minus \in SUBSET Item,
         NEW accepted \in BOOLEAN, Begin(op, kinds, plus, minus, accepted),
         accepted => Proper([op |-> op, kinds |-> kinds, plus |-> plus, minus |-> minus, before |-> db],
                            After(op, plus))
  PROVE  IInv'
<1>1. calls' \in 0..MaxCalls
  BY SchemaMutationAssumption DEF Begin, IInv, TypeOK
<1>2. CASE accepted
  <2>. DEFINE c == [op |-> op, kinds |-> kinds, plus |-> plus, minus |-> minus, before |-> db]
              C == After(op, plus)
  <2>1. /\ call' = c /\ phase' = "checked" /\ answer' = "none" /\ clashes' = C
        /\ UNCHANGED <<db, foreign, pinned, writes>>
    BY <1>2 DEF Begin, After
  <2>2. C \subseteq Names /\ clashes \subseteq C
    BY SchemaMutationAssumption, ItemKinds DEF After, Clashing, Of, IInv, TypeOK
  <2>3. Proper(c, C)
    BY <1>2
  <2>4. From(db, c.before)
    BY FromItself
  <2>5. Tidy(db, C)
    BY <2>2 DEF Tidy, IInv, Parts
  <2>6. c.kinds \subseteq Kinds /\ c.plus \subseteq Item /\ c.minus \subseteq Item /\ c.before \subseteq Item
    BY DEF IInv, TypeOK
  <2>. HIDE DEF c, C
  <2>7. TypeOK'
    BY <1>1, <2>1, <2>2, <2>6 DEF IInv, TypeOK
  <2>8. Proper(call', clashes') /\ From(db', call'.before) /\ Tidy(db', clashes')
    BY <2>1, <2>3, <2>4, <2>5
  <2>. QED
    BY <2>1, <2>7, <2>8 DEF IInv, Parts
<1>3. CASE ~accepted
  <2>1. answer' = "refused" /\ phase = "idle" /\ UNCHANGED <<db, clashes, foreign, pinned, call, phase, writes>>
    BY <1>3 DEF Begin
  <2>2. TypeOK'
    BY <1>1, <2>1 DEF IInv, TypeOK
  <2>. QED
    BY <2>1, <2>2 DEF IInv, Parts
<1>. QED
  BY <1>2, <1>3

LEMMA AddsNew ==
  ASSUME NEW op \in {"add_rule", "create_group", "add_index"}, NEW kind \in Named,
         op = "add_rule" => kind = "rule", op = "create_group" => kind = "group",
         NEW n \in Names, NEW b \in Asked, IInv,
         Begin(op, {kind}, {New(kind, n, b)}, {}, Accepted(TRUE, ~Taken(kind, n)))
  PROVE  IInv'
<1>. DEFINE c == [op |-> op, kinds |-> {kind}, plus |-> {New(kind, n, b)}, minus |-> {}, before |-> db]
<1>1. New(kind, n, b) \in Item /\ New(kind, n, b).kind = kind /\ New(kind, n, b).name = n
  BY NewItem, SchemaMutationAssumption DEF Kinds, Named
<1>2. Accepted(TRUE, ~Taken(kind, n)) \in BOOLEAN /\ {kind} \in SUBSET Kinds
  BY DEF Accepted, SchemaLockFree, Taken, Kinds, Named
<1>3. ASSUME Accepted(TRUE, ~Taken(kind, n)) PROVE Proper(c, After(op, {New(kind, n, b)}))
  <2>1. \A j \in db : j.kind = kind => Fold[j.name] # Fold[n]
    BY <1>3 DEF Accepted, Taken, Of
  <2>2. Fits(c)
    BY <1>1 DEF Fits, AddsOne, Adds, Imports
  <2>3. AsksNewNames(c, After(op, {New(kind, n, b)}))
    BY <1>1, <2>1 DEF AsksNewNames, Of
  <2>4. NoTwins(c.plus)
    BY DEF NoTwins, Of
  <2>. QED
    BY <2>2, <2>3, <2>4 DEF Proper
<1>. QED
  BY <1>1, <1>2, <1>3, Begins

LEMMA ImportsRules ==
  ASSUME NEW N \in SUBSET Names, NEW b \in Asked, IInv, ImportAttributeRules(N, b)
  PROVE  IInv'
<1>. DEFINE plus == {New("rule", n, b) : n \in N}
            accepted == Accepted(TRUE, DistinctNames(N) /\ \A n \in N : ~Taken("rule", n))
            c == [op |-> "import_rules", kinds |-> {"rule"}, plus |-> plus, minus |-> {}, before |-> db]
<1>1. plus \subseteq Item /\ \A i \in plus : i.kind = "rule" /\ i.name \in N /\ i = New("rule", i.name, b)
  BY NewItem, SchemaMutationAssumption DEF Kinds
<1>2. accepted \in BOOLEAN /\ {"rule"} \in SUBSET Kinds
  BY DEF Accepted, SchemaLockFree, Taken, Kinds, DistinctNames
<1>. HIDE DEF plus
<1>3. ASSUME accepted PROVE Proper(c, After("import_rules", plus))
  <2>1. \A j \in db, n \in N : j.kind = "rule" => Fold[j.name] # Fold[n]
    BY <1>3 DEF Accepted, Taken, Of
  <2>2. \A m, n \in N : Fold[m] = Fold[n] => m = n
    BY <1>3 DEF Accepted, DistinctNames
  <2>3. Fits(c)
    BY <1>1 DEF Fits, Adds, Imports
  <2>4. AsksNewNames(c, After("import_rules", plus))
    BY <1>1, <2>1 DEF AsksNewNames, Of
  <2>5. NoTwins(plus)
    BY <1>1, <2>2 DEF NoTwins, Of
  <2>. QED
    BY <2>3, <2>4, <2>5 DEF Proper
<1>4. Begin("import_rules", {"rule"}, plus, {}, accepted)
  BY DEF ImportAttributeRules, plus
<1>. QED
  BY <1>1, <1>2, <1>3, <1>4, Begins

\* A call that asks for no new rule, group or index.
LEMMA NothingNamed ==
  ASSUME NEW c, NEW C, Of(Named, c.plus) = {}
  PROVE  AsksNewNames(c, C) /\ NoTwins(c.plus)
BY DEF AsksNewNames, NoTwins, Of, Named

\* The calls whose comparison is not among those of data_integrity.py, and that name
\* no rule, group or index.
LEMMA BeginsOther ==
  ASSUME IInv, NEW op, NEW kinds \in SUBSET Kinds, NEW plus \in SUBSET Item, NEW minus \in SUBSET Item,
         NEW accepted \in BOOLEAN, Begin(op, kinds, plus, minus, accepted),
         op \notin IntegrityOps, Of(Named, plus) = {}
  PROVE  IInv'
<1>. DEFINE c == [op |-> op, kinds |-> kinds, plus |-> plus, minus |-> minus, before |-> db]
<1>1. Fits(c)
  BY DEF Fits, IntegrityOps, Imports
<1>2. Proper(c, After(op, plus))
  BY <1>1, NothingNamed DEF Proper
<1>. QED
  BY <1>2, Begins

\* What goes is of the kinds that are compared.
LEMMA BeginsRemoval ==
  ASSUME IInv, NEW op \in {"delete_rules", "delete_group", "remove_value"}, NEW kinds \in SUBSET Kinds,
         op = "delete_rules" => kinds = {"rule"},
         op = "delete_group" => kinds = {"group", "value"},
         op = "remove_value" => kinds = {"value"},
         NEW minus \in SUBSET Of(kinds, db),
         NEW accepted \in BOOLEAN, Begin(op, kinds, {}, minus, accepted)
  PROVE  IInv'
<1>. DEFINE c == [op |-> op, kinds |-> kinds, plus |-> {}, minus |-> minus, before |-> db]
<1>1. Fits(c)
  BY DEF Fits, Removes, Imports
<1>2. Proper(c, After(op, {}))
  BY <1>1, NothingNamed DEF Proper, Of
<1>3. minus \in SUBSET Item
  BY DEF IInv, TypeOK, Of
<1>. QED
  BY <1>2, <1>3, Begins

LEMMA AddsValue ==
  ASSUME NEW group \in Names, NEW id \in Names, IInv, AddContingentValue(group, id)
  PROVE  IInv'
<1>. DEFINE v == New("value", id, group)
            c == [op |-> "add_value", kinds |-> {"value"}, plus |-> {v}, minus |-> {}, before |-> db]
<1>1. v \in Item /\ v.kind = "value"
  BY NewItem
<1>2. Accepted(TRUE, TakenExact("group", group)) \in BOOLEAN /\ {"value"} \in SUBSET Kinds
  BY DEF Accepted, SchemaLockFree, TakenExact, Kinds
<1>3. Begin("add_value", {"value"}, {v}, {}, Accepted(TRUE, TakenExact("group", group)))
  BY DEF AddContingentValue
<1>. HIDE DEF v
<1>4. Fits(c)
  BY <1>1 DEF Fits, AddsOne, Adds, Imports
<1>5. Of(Named, c.plus) = {}
  BY <1>1 DEF Of, Named
<1>6. Proper(c, After("add_value", {v}))
  BY <1>4, <1>5, NothingNamed DEF Proper
<1>. QED
  BY <1>1, <1>2, <1>3, <1>6, Begins

LEMMA ImportsValues ==
  ASSUME NEW m \in Manifests, NEW mode \in Imports, IInv, ImportContingentValues(m, mode)
  PROVE  IInv'
<1>. DEFINE minus == IF mode = "union" THEN {} ELSE Of({"group", "value"}, db) \ m
            c == [op |-> mode, kinds |-> {"group", "value"}, plus |-> m, minus |-> minus, before |-> db]
<1>1. m \in SUBSET Item /\ NoTwins(m) /\ \A i \in m : i.kind \in {"group", "value"}
  BY SchemaMutationAssumption
<1>2. Accepted(TRUE, TRUE) \in BOOLEAN /\ {"group", "value"} \in SUBSET Kinds
  BY DEF Accepted, SchemaLockFree, Kinds
<1>3. minus \in SUBSET Item
  BY DEF IInv, TypeOK, Of
<1>4. Fits(c)
  BY <1>1 DEF Fits, Imports
<1>5. AsksNewNames(c, After(mode, m))
  <2>. SUFFICES ASSUME NEW i \in Of(Named, m), NEW j \in db, i.kind = j.kind, Fold[i.name] = Fold[j.name]
                PROVE  i.kind = "group" /\ (i.name = j.name \/ Fold[i.name] \in After(mode, m))
    BY DEF AsksNewNames
  <2>1. i \in m /\ i.kind = "group" /\ j \in Of({"group"}, db)
    BY <1>1 DEF Of, Named
  <2>2. i.name # j.name => Fold[i.name] \in Clashing(m)
    BY <2>1 DEF Clashing, Of
  <2>. QED
    BY <2>1, <2>2 DEF After
<1>6. Proper(c, After(mode, m))
  BY <1>1, <1>4, <1>5 DEF Proper
<1>7. Begin(mode, {"group", "value"}, m, minus, Accepted(TRUE, TRUE))
  BY DEF ImportContingentValues
<1>. HIDE DEF minus
<1>. QED
  BY <1>1, <1>2, <1>3, <1>6, <1>7, Begins

LEMMA IntegrityCallHolds ==
  ASSUME IInv, IntegrityCall
  PROVE  IInv'
<1>1. ASSUME NEW n \in Names, NEW b \in Asked, AddAttributeRule(n, b) PROVE IInv'
  BY <1>1, AddsNew DEF AddAttributeRule, Named
<1>2. ASSUME NEW n \in Names, NEW b \in Asked, CreateFieldGroup(n, b) PROVE IInv'
  BY <1>2, AddsNew DEF CreateFieldGroup, Named
<1>3. ASSUME NEW N \in SUBSET Names, DeleteAttributeRules(N) PROVE IInv'
  <2>. DEFINE accepted == Accepted(TRUE, DistinctNames(N) /\ N \subseteq NamesOf(Of({"rule"}, db)))
              minus == {i \in Of({"rule"}, db) : i.name \in N}
  <2>1. minus \in SUBSET Of({"rule"}, db) /\ accepted \in BOOLEAN /\ {"rule"} \in SUBSET Kinds
    BY DEF Accepted, SchemaLockFree, DistinctNames, Kinds
  <2>2. Begin("delete_rules", {"rule"}, {}, minus, accepted)
    BY <1>3 DEF DeleteAttributeRules
  <2>. HIDE DEF accepted, minus
  <2>. QED
    BY <2>1, <2>2, BeginsRemoval
<1>4. ASSUME NEW n \in Names, DeleteFieldGroup(n) PROVE IInv'
  <2>. DEFINE minus == Called("group", n, db) \cup ValuesOf(n, db)
  <2>1. minus \in SUBSET Of({"group", "value"}, db) /\ {"group", "value"} \in SUBSET Kinds
    BY DEF Called, ValuesOf, Of, Kinds
  <2>2. Accepted(TRUE, TakenExact("group", n)) \in BOOLEAN
    BY DEF Accepted, SchemaLockFree, TakenExact
  <2>3. Begin("delete_group", {"group", "value"}, {}, minus, Accepted(TRUE, TakenExact("group", n)))
    BY <1>4 DEF DeleteFieldGroup
  <2>. HIDE DEF minus
  <2>. QED
    BY <2>1, <2>2, <2>3, BeginsRemoval
<1>5. ASSUME NEW n \in Names, RemoveContingentValue(n) PROVE IInv'
  <2>. DEFINE minus == Called("value", n, db)
  <2>1. minus \in SUBSET Of({"value"}, db) /\ {"value"} \in SUBSET Kinds
    BY DEF Called, Of, Kinds
  <2>2. Accepted(TRUE, TakenExact("value", n)) \in BOOLEAN
    BY DEF Accepted, SchemaLockFree, TakenExact
  <2>3. Begin("remove_value", {"value"}, {}, minus, Accepted(TRUE, TakenExact("value", n)))
    BY <1>5 DEF RemoveContingentValue
  <2>. HIDE DEF minus
  <2>. QED
    BY <2>1, <2>2, <2>3, BeginsRemoval
<1>. QED
  BY <1>1, <1>2, <1>3, <1>4, <1>5, ImportsRules, AddsValue, ImportsValues DEF IntegrityCall, Imports

LEMMA MaintenanceCallHolds ==
  ASSUME IInv, MaintenanceCall
  PROVE  IInv'
<1>1. ASSUME NEW n \in Names, NEW b \in Asked, AddIndex(n, b) PROVE IInv'
  BY <1>1, AddsNew DEF AddIndex, Named
<1>2. ASSUME NEW n \in Names, NEW b \in Asked, EnableEditorTracking(n, b) PROVE IInv'
  <2>. DEFINE t == New("tracking", n, b)
  <2>1. t \in Item /\ t.kind = "tracking"
    BY NewItem, SchemaMutationAssumption DEF Kinds
  <2>2. Begin("enable_tracking", {"tracking"}, {t}, Of({"tracking"}, db), Accepted(TRUE, TRUE))
    BY <1>2 DEF EnableEditorTracking
  <2>3. Accepted(TRUE, TRUE) \in BOOLEAN /\ {"tracking"} \in SUBSET Kinds
    BY DEF Accepted, SchemaLockFree, Kinds
  <2>4. Of({"tracking"}, db) \in SUBSET Item /\ "enable_tracking" \notin IntegrityOps
    BY DEF Of, IInv, TypeOK, IntegrityOps
  <2>. HIDE DEF t
  <2>5. Of(Named, {t}) = {} /\ {t} \in SUBSET Item
    BY <2>1 DEF Of, Named
  <2>. QED
    BY <2>2, <2>3, <2>4, <2>5, BeginsOther
<1>3. ASSUME NEW n \in Names, RemoveIndex(n) PROVE IInv'
  <2>1. Begin("remove_index", {"index"}, {}, Called("index", n, db), Accepted(TRUE, TakenExact("index", n)))
    BY <1>3 DEF RemoveIndex
  <2>2. Accepted(TRUE, TakenExact("index", n)) \in BOOLEAN /\ {"index"} \in SUBSET Kinds
    BY DEF Accepted, SchemaLockFree, TakenExact, Kinds
  <2>3. Called("index", n, db) \in SUBSET Item /\ "remove_index" \notin IntegrityOps
    BY DEF Called, IInv, TypeOK, IntegrityOps
  <2>4. Of(Named, {}) = {} /\ {} \in SUBSET Item
    BY DEF Of
  <2>. QED
    BY <2>1, <2>2, <2>3, <2>4, BeginsOther
<1>4. ASSUME NEW all \in BOOLEAN, DisableEditorTracking(all) PROVE IInv'
  <2>. DEFINE on == Of({"tracking"}, db)
              op == IF all THEN "disable_tracking" ELSE "reduce_tracking"
              minus == IF all THEN on ELSE {}
  <2>1. Begin(op, {"tracking"}, {}, minus, Accepted(TRUE, on # {}))
    BY <1>4 DEF DisableEditorTracking
  <2>2. Accepted(TRUE, on # {}) \in BOOLEAN /\ {"tracking"} \in SUBSET Kinds
    BY DEF Accepted, SchemaLockFree, Kinds
  <2>3. minus \in SUBSET Item /\ op \notin IntegrityOps
    BY DEF Of, IInv, TypeOK, IntegrityOps
  <2>4. Of(Named, {}) = {} /\ {} \in SUBSET Item
    BY DEF Of
  <2>. HIDE DEF on, op, minus
  <2>. QED
    BY <2>1, <2>2, <2>3, <2>4, BeginsOther
<1>5. ASSUME NEW N \in SUBSET Names, NEW b \in Asked, AddGlobalIds(N, b) PROVE IInv'
  <2>. DEFINE plus == {New("globalid", n, b) : n \in {m \in N : ~TakenExact("globalid", m)}}
  <2>1. Begin("add_globalids", {"globalid"}, plus, {}, Accepted(TRUE, N # {}))
    BY <1>5 DEF AddGlobalIds
  <2>2. Accepted(TRUE, N # {}) \in BOOLEAN /\ {"globalid"} \in SUBSET Kinds
    BY DEF Accepted, SchemaLockFree, Kinds
  <2>3. plus \in SUBSET Item /\ \A i \in plus : i.kind = "globalid"
    BY NewItem, SchemaMutationAssumption DEF Kinds
  <2>. HIDE DEF plus
  <2>4. Of(Named, plus) = {} /\ "add_globalids" \notin IntegrityOps
    BY <2>3 DEF Of, Named, IntegrityOps
  <2>. QED
    BY <2>1, <2>2, <2>3, <2>4, BeginsOther
<1>6. ASSUME RebuildOrAnalyze PROVE IInv'
  <2>1. Accepted(FALSE, TRUE) \in BOOLEAN /\ {} \in SUBSET Kinds /\ {} \in SUBSET Item
    BY DEF Accepted, SchemaLockFree
  <2>2. Of(Named, {}) = {} /\ "maintain" \notin IntegrityOps
    BY DEF Of, IntegrityOps
  <2>3. Begin("maintain", {}, {}, {}, Accepted(FALSE, TRUE))
    BY <1>6 DEF RebuildOrAnalyze
  <2>. QED
    BY <2>1, <2>2, <2>3, BeginsOther
<1>. QED
  BY <1>1, <1>2, <1>3, <1>4, <1>5, <1>6 DEF MaintenanceCall

LEMMA PlainCallHolds ==
  ASSUME IInv, PlainCall
  PROVE  IInv'
<1>. PICK n \in Names, b \in Asked :
        \/ EditDomain(n, b) \/ EditFieldOrSubtype(n, b) \/ SwitchAttachments(n, b) \/ EditAttachments(n, b)
        \/ CreateRelationshipClass(n, b) \/ CreateTopology(n, b) \/ EditTopology(n, b)
  BY DEF PlainCall
<1>. DEFINE i == New("plain", n, b)
<1>1. {i} \in SUBSET Item /\ i.kind = "plain"
  BY NewItem, SchemaMutationAssumption DEF Kinds
<1>2. \A locks \in BOOLEAN : Accepted(locks, TRUE) \in BOOLEAN
  BY DEF Accepted, SchemaLockFree
<1>3. {"plain"} \in SUBSET Kinds /\ Called("plain", n, db) \in SUBSET Item /\ {} \in SUBSET Item
  BY DEF Kinds, Called, IInv, TypeOK
<1>4. "plain" \notin IntegrityOps /\ "create_plain" \notin IntegrityOps
  BY DEF IntegrityOps
<1>5. \/ \E locks \in BOOLEAN :
          \/ Begin("plain", {"plain"}, {i}, Called("plain", n, db), Accepted(locks, TRUE))
          \/ Begin("plain", {"plain"}, {}, Called("plain", n, db), Accepted(locks, TRUE))
      \/ \E locks \in BOOLEAN : Begin("create_plain", {"plain"}, {i}, {}, Accepted(locks, TRUE))
  BY DEF EditDomain, EditFieldOrSubtype, SwitchAttachments, EditAttachments, CreateRelationshipClass,
     CreateTopology, EditTopology, Plain
<1>. HIDE DEF i
<1>6. Of(Named, {i}) = {} /\ Of(Named, {}) = {}
  BY <1>1 DEF Of, Named
<1>7. ASSUME NEW locks \in BOOLEAN, NEW op \in {"plain", "create_plain"},
              NEW plus \in {{i}, {}}, NEW minus \in SUBSET Item,
              Begin(op, {"plain"}, plus, minus, Accepted(locks, TRUE))
      PROVE  IInv'
  <2>1. plus \in SUBSET Item /\ Of(Named, plus) = {} /\ op \notin IntegrityOps
    BY <1>1, <1>4, <1>6, <1>7
  <2>. QED
    BY <1>2, <1>3, <1>7, <2>1, BeginsOther
<1>. QED
  BY <1>3, <1>5, <1>7

-----------------------------------------------------------------------------
(* The tool, and other programs.                                                  *)

\* Whatever goes and comes of what was asked, nothing has a name that was neither in
\* the snapshot nor asked for, and what names alike are there is known.
LEMMA PartedIsProper ==
  ASSUME IInv, phase = "checked", NEW gone, NEW come \in SUBSET call.plus
  PROVE  /\ Put(db \ gone, come) \subseteq Item
         /\ Tidy(Put(db \ gone, come), clashes)
         /\ From(Put(db \ gone, come), call.before \cup call.plus)
<1>. DEFINE kept == {i \in db \ gone : \A j \in come : ~SameKey(i, j)}
<1>1. Put(db \ gone, come) = kept \cup come
  BY DEF Put
<1>2. Proper(call, clashes) /\ From(db, call.before) /\ Tidy(db, clashes)
  BY DEF IInv, Parts
<1>3. kept \subseteq db /\ \A i \in kept, j \in come : ~SameKey(i, j)
  OBVIOUS
<1>4. ASSUME NEW i \in Of(Named, come), NEW j \in Of(Named, kept), i.kind = j.kind, Fold[i.name] = Fold[j.name]
      PROVE  i.name # j.name /\ i.kind = "group" /\ Fold[i.name] \in clashes
  <2>1. i \in come /\ j \in kept /\ i \in Of(Named, call.plus) /\ j \in db
    BY <1>4 DEF Of
  <2>2. PICK k \in call.before : k.kind = j.kind /\ k.name = j.name
    BY <1>2, <2>1 DEF From, Changed
  <2>3. i.kind = "group" /\ (i.name = j.name \/ Fold[i.name] \in clashes)
    BY <1>2, <1>4, <2>1, <2>2 DEF Proper, AsksNewNames
  <2>4. i.name # j.name
    BY <1>4, <2>1 DEF SameKey
  <2>. QED
    BY <2>3, <2>4
<1>. HIDE DEF kept
<1>5. Tidy(kept, clashes) /\ Tidy(come, clashes)
  <2>1. Tidy(call.plus, clashes)
    BY <1>2, PartIsTidy DEF Proper
  <2>. QED
    BY <1>2, <1>3, <2>1, PartIsTidy
<1>6. Tidy(kept \cup come, clashes)
  BY <1>4, <1>5 DEF Tidy, Of
<1>7. From(kept \cup come, call.before \cup call.plus)
  BY <1>2, <1>3 DEF From, Changed
<1>8. kept \cup come \subseteq Item
  BY <1>3 DEF IInv, TypeOK
<1>. QED
  BY <1>1, <1>6, <1>7, <1>8

LEMMA OutcomesAreProper ==
  ASSUME IInv, phase = "checked", NEW d \in Outcomes
  PROVE  d \subseteq Item /\ Tidy(d, clashes) /\ From(d, call.before \cup call.plus)
<1>1. CASE d \in Parted
  <2>1. PICK gone \in SUBSET Going : d \in {Put(db \ gone, come) : come \in SUBSET call.plus}
    BY <1>1 DEF Parted
  <2>2. PICK come \in SUBSET call.plus : d = Put(db \ gone, come)
    BY <2>1
  <2>. QED
    BY <2>2, PartedIsProper
<1>2. CASE d \in Damaged(Put(db \ Going, call.plus))
  <2>. DEFINE full == Put(db \ Going, call.plus)
  <2>1. full \subseteq Item /\ Tidy(full, clashes) /\ From(full, call.before \cup call.plus)
    BY PartedIsProper
  <2>. HIDE DEF full
  <2>2. d \in Damaged(full)
    BY <1>2 DEF full
  <2>3. d \subseteq Item /\ Tidy(d, clashes) /\ From(d, full)
    BY <2>1, <2>2, DamageKeepsNames, DamageIsTidy
  <2>. QED
    BY <2>1, <2>3, FromIsTransitive
<1>. QED
  BY <1>1, <1>2 DEF Outcomes

LEMMA ToolReturnsHolds ==
  ASSUME IInv, ToolReturns
  PROVE  IInv'
<1>1. /\ phase = "checked" /\ phase' = "ran" /\ UNCHANGED <<clashes, foreign, pinned, call, answer, calls, writes>>
  BY DEF ToolReturns
<1>2. db' \subseteq Item /\ Tidy(db', clashes) /\ From(db', call.before \cup call.plus)
  BY OutcomesAreProper DEF ToolReturns
<1>. QED
  BY <1>1, <1>2 DEF IInv, TypeOK, Parts

\* When no call is in progress nothing but the dataset is asked.
LEMMA CallEnds ==
  ASSUME TypeOK, phase' = "idle", call' = NoCall, db' \subseteq Item, Tidy(db', clashes),
         answer' \in {"ok", "verified", "uncertain", "failed"}, UNCHANGED <<clashes, foreign, pinned, calls, writes>>
  PROVE  IInv'
<1>1. call'.kinds = {} /\ call'.plus = {} /\ call'.minus = {} /\ call'.before = {}
  BY DEF NoCall
<1>2. TypeOK'
  BY <1>1 DEF TypeOK
<1>. QED
  BY <1>2 DEF IInv, Parts

LEMMA ToolRaisesHolds ==
  ASSUME IInv, ToolRaises
  PROVE  IInv'
<1>1. db' \subseteq Item /\ Tidy(db', clashes)
  BY OutcomesAreProper DEF ToolRaises
<1>. QED
  BY <1>1, CallEnds DEF ToolRaises, IInv

LEMMA ReadBackHolds ==
  ASSUME IInv, ReadBack
  PROVE  IInv'
<1>1. db' \subseteq Item /\ Tidy(db', clashes)
  BY DEF ReadBack, IInv, TypeOK, Parts
<1>2. answer' \in {"ok", "verified", "uncertain"}
  BY DEF ReadBack
<1>. QED
  BY <1>1, <1>2, CallEnds DEF ReadBack, IInv

LEMMA ForeignWriteHolds ==
  ASSUME IInv, ForeignWrite
  PROVE  IInv'
<1>1. db \subseteq Item /\ Tidy(db, clashes)
  BY DEF IInv, TypeOK, Parts
<1>2. db' \in Damaged(db) /\ UNCHANGED <<clashes, foreign, pinned, call, phase, answer, calls>>
  BY DEF ForeignWrite
<1>3. db' \subseteq Item /\ Tidy(db', clashes) /\ From(db', db)
  BY <1>1, <1>2, DamageKeepsNames, DamageIsTidy
<1>4. writes' \in 0..MaxForeign
  BY SchemaMutationAssumption DEF ForeignWrite, IInv, TypeOK
<1>5. /\ phase = "checked" => From(db', call.before)
      /\ phase = "ran" => From(db', call.before \cup call.plus)
  BY <1>3, FromIsTransitive DEF IInv, Parts
<1>. QED
  BY <1>2, <1>3, <1>4, <1>5 DEF IInv, TypeOK, Parts

LEMMA ForeignLockHolds ==
  ASSUME IInv, ForeignLock
  PROVE  IInv'
<1>1. writes' \in 0..MaxForeign
  BY SchemaMutationAssumption DEF ForeignLock, IInv, TypeOK
<1>. QED
  BY <1>1 DEF ForeignLock, IInv, TypeOK, Parts

LEMMA NextHolds == IInv /\ [Next]_vars => IInv'
<1>. SUFFICES ASSUME IInv, [Next]_vars PROVE IInv'
  OBVIOUS
<1>1. CASE PinOrUnpin
  BY <1>1 DEF PinOrUnpin, IInv, TypeOK, Parts
<1>2. CASE UNCHANGED vars
  BY <1>2 DEF vars, IInv, TypeOK, Parts
<1>. QED
  BY <1>1, <1>2, IntegrityCallHolds, MaintenanceCallHolds, PlainCallHolds, ToolReturnsHolds,
     ToolRaisesHolds, ReadBackHolds, ForeignWriteHolds, ForeignLockHolds DEF Next, Step

\* A call in progress is always a proper one: what it asks fits its snapshot.
THEOREM Invariance == Spec => []IInv
<1>. QED
  BY InitHolds, NextHolds, PTL DEF Spec

\* The state of the dataset, the call and the answer always have their types.
THEOREM TypeCorrect == Spec => []TypeOK
<1>1. IInv => TypeOK
  BY DEF IInv
<1>. QED
  BY <1>1, Invariance, PTL

\* No two rules or indexes ever differ only in the case of their names, whatever part
\* of its work a tool did (data_integrity.py and schema_maintenance.py); two groups do
\* only if an import of contingent values named one that was there in another case.
THEOREM Twinless == Spec => []NoCaseTwins
<1>1. IInv => NoCaseTwins
  BY DEF IInv, Parts, Tidy, NoCaseTwins, Named
<1>. QED
  BY <1>1, Invariance, PTL

-----------------------------------------------------------------------------
(* What is verified.                                                              *)

\* What VerifiedLeavesRest says of a call that is answered as verified.
RestLeft ==
    LET rest == Inspected(call.before) \ call.minus
        missed(i) == call.op = "union" /\ Twinned(i, call.before)
    IN /\ IF call.op = "replace" THEN \A i \in rest \cap call.plus : \E j \in db : Alike(i, j)
                                 ELSE \A i \in rest : i \in db \/ missed(i)
       /\ \A i \in Inspected(db) \ call.before :
            \/ missed(i)
            \/ \E j \in call.plus : i.kind = j.kind /\ (i.kind = "value" \/ Fold[i.name] = Fold[j.name])
       /\ \A i \in db \cap call.minus :
            \/ call.op = "replace" /\ Twinned(i, db)
            \/ \E j \in call.plus : Alike(i, j)

\* A removal: the kinds compared are what they were but for what was to go.
LEMMA RemovalLeavesRest ==
  ASSUME NEW kinds, Removes(call, kinds), call.op \notin {"replace", "add_value"},
         Of(kinds, db) = Of(kinds, call.before) \ call.minus
  PROVE  RestLeft
BY DEF RestLeft, Removes, Inspected, Of

LEMMA AddRuleLeavesRest ==
  ASSUME Proper(call, clashes), call.op = "add_rule", RuleAdded
  PROVE  RestLeft
<1>1. PICK r : call.plus = {r}
  BY DEF Proper, Fits, AddsOne
<1>2. r.kind = "rule" /\ call.kinds = {"rule"} /\ call.minus = {}
  BY <1>1 DEF Proper, Fits, AddsOne, Adds
<1>3. Of({"rule"}, db) \ Called("rule", r.name, db) = Of({"rule"}, call.before)
  BY <1>1 DEF RuleAdded
<1>. QED
  BY <1>1, <1>2, <1>3 DEF RestLeft, Inspected, Of, Called

LEMMA ImportRulesLeavesRest ==
  ASSUME Proper(call, clashes), call.op = "import_rules", RulesImported
  PROVE  RestLeft
<1>1. call.kinds = {"rule"} /\ call.minus = {} /\ \A i \in call.plus : i.kind = "rule"
  BY DEF Proper, Fits, Adds
<1>2. {i \in Of({"rule"}, db) : Fold[i.name] \notin FoldsOf(call.plus)} = Of({"rule"}, call.before)
  BY DEF RulesImported
<1>3. \A i \in Of({"rule"}, db) \ call.before : \E j \in call.plus : Fold[i.name] = Fold[j.name]
  BY <1>2 DEF FoldsOf, NamesOf, Of
<1>. QED
  BY <1>1, <1>2, <1>3 DEF RestLeft, Inspected, Of

LEMMA CreateGroupLeavesRest ==
  ASSUME Proper(call, clashes), call.op = "create_group", GroupCreated
  PROVE  RestLeft
<1>1. call.kinds = {"group"} /\ call.minus = {} /\ \A i \in call.plus : i.kind = "group"
  BY DEF Proper, Fits, AddsOne, Adds
<1>. QED
  BY <1>1 DEF RestLeft, Inspected, Of, GroupCreated

LEMMA AddValueLeavesRest ==
  ASSUME Proper(call, clashes), call.op = "add_value", ValueAdded
  PROVE  RestLeft
<1>1. PICK v : call.plus = {v}
  BY DEF Proper, Fits, AddsOne
<1>2. v.kind = "value" /\ call.minus = {}
  BY <1>1 DEF Proper, Fits, AddsOne, Adds
<1>3. ValuesOf(v.body, call.before) \subseteq ValuesOf(v.body, db)
  BY <1>1 DEF ValueAdded
<1>4. \A s : Inspected(s) = ValuesOf(v.body, s)
  BY <1>1 DEF Inspected
<1>. QED
  BY <1>1, <1>2, <1>3, <1>4 DEF RestLeft, ValuesOf, Of

\* Of the groups of s the dictionary has the one with the name, or another one.
LEMMA InDictionary ==
  ASSUME NEW s, NEW k \in ByName(s), NEW i \in Of({"group"}, s)
  PROVE  i \in k \/ Twinned(i, s)
<1>1. k \subseteq Of({"group"}, s) /\ FoldsOf(k) = FoldsOf(Of({"group"}, s))
  BY DEF ByName
<1>2. Fold[i.name] \in FoldsOf(Of({"group"}, s))
  BY DEF FoldsOf, NamesOf
<1>3. Fold[i.name] \in FoldsOf(k)
  BY <1>1, <1>2
<1>4. PICK j \in k : Fold[j.name] = Fold[i.name]
  BY <1>3 DEF FoldsOf, NamesOf
<1>. QED
  BY <1>1, <1>4 DEF Twinned, Of

LEMMA UnionLeavesRest ==
  ASSUME Proper(call, clashes), call.op = "union", Tidy(db, clashes), From(db, call.before \cup call.plus),
         NEW known \in ByName(call.before), NEW now \in ByName(db), UnionImported(known, now)
  PROVE  RestLeft
<1>1. call.kinds = {"group", "value"} /\ call.minus = {}
  BY DEF Proper, Fits, Imports
<1>2. known \subseteq db /\ Of({"value"}, call.before) \subseteq db
  BY DEF UnionImported, ByName, Of
<1>3. ASSUME NEW i \in Of({"group", "value"}, call.before) PROVE i \in db \/ Twinned(i, call.before)
  BY <1>2, InDictionary DEF Of
<1>4. ASSUME NEW i \in Of({"group", "value"}, db) \ call.before
      PROVE  \/ Twinned(i, call.before)
             \/ \E j \in call.plus : i.kind = j.kind /\ (i.kind = "value" \/ Fold[i.name] = Fold[j.name])
  <2>1. i \in db /\ i.kind \in {"group", "value"}
    BY DEF Of
  <2>2. PICK k \in call.before \cup call.plus : Changed(i, k)
    BY <2>1 DEF From
  <2>3. CASE k \in call.plus
    BY <2>2, <2>3 DEF Changed
  <2>4. CASE k \in call.before
    <3>1. i.kind = "group" /\ k \in Of({"group"}, call.before) /\ i.name = k.name
      BY <2>1, <2>2, <2>4 DEF Changed, Of
    <3>2. CASE k \in known
      <4>1. k \in db /\ i \in Of(Named, db) /\ k \in Of(Named, db)
        BY <1>2, <2>1, <3>1, <3>2 DEF Of, Named
      <4>2. i = k
        BY <3>1, <4>1 DEF Tidy, Of
      <4>. QED
        BY <2>4, <4>2
    <3>3. CASE k \notin known
      <4>1. Twinned(k, call.before)
        BY <3>1, <3>3, InDictionary
      <4>. QED
        BY <3>1, <4>1 DEF Twinned
    <3>. QED
      BY <3>2, <3>3
  <2>. QED
    BY <2>2, <2>3, <2>4
<1>5. Inspected(call.before) = Of({"group", "value"}, call.before) /\ Inspected(db) = Of({"group", "value"}, db)
  BY <1>1 DEF Inspected
<1>. QED
  BY <1>1, <1>3, <1>4, <1>5 DEF RestLeft

LEMMA ReplaceLeavesRest ==
  ASSUME Proper(call, clashes), call.op = "replace", NEW now \in ByName(db), ReplaceImported(now)
  PROVE  RestLeft
<1>1. /\ call.kinds = {"group", "value"} /\ \A i \in call.plus : i.kind \in {"group", "value"}
      /\ call.minus = Of({"group", "value"}, call.before) \ call.plus
  BY DEF Proper, Fits, Imports
<1>2. /\ \A i \in Of({"group"}, call.plus) : \E j \in now : Fold[j.name] = Fold[i.name] /\ j.body = i.body
      /\ FoldsOf(now) = FoldsOf(Of({"group"}, call.plus))
      /\ Signatures(db) = Signatures(call.plus)
  BY DEF ReplaceImported, GroupsImported
<1>3. /\ now \subseteq Of({"group"}, db) /\ NoTwins(now)
      /\ FoldsOf(Of({"group"}, db)) = FoldsOf(Of({"group"}, call.plus))
  BY <1>2 DEF ByName
<1>4. \A i \in Of({"group"}, db) : \E j \in Of({"group"}, call.plus) : Fold[j.name] = Fold[i.name]
  BY <1>3 DEF FoldsOf, NamesOf
<1>5. \A i \in Of({"value"}, db) : \E j \in Of({"value"}, call.plus) : i.name = j.name /\ Fold[i.body] = Fold[j.body]
  <2>. SUFFICES ASSUME NEW i \in Of({"value"}, db)
                PROVE  \E j \in Of({"value"}, call.plus) : i.name = j.name /\ Fold[i.body] = Fold[j.body]
    OBVIOUS
  <2>1. <<i.name, Fold[i.body]>> \in Signatures(call.plus)
    BY <1>2 DEF Signatures
  <2>. QED
    BY <2>1 DEF Signatures
<1>6. \A i \in Of({"value"}, call.plus) : \E j \in Of({"value"}, db) : i.name = j.name /\ Fold[i.body] = Fold[j.body]
  <2>. SUFFICES ASSUME NEW i \in Of({"value"}, call.plus)
                PROVE  \E j \in Of({"value"}, db) : i.name = j.name /\ Fold[i.body] = Fold[j.body]
    OBVIOUS
  <2>1. <<i.name, Fold[i.body]>> \in Signatures(db)
    BY <1>2 DEF Signatures
  <2>. QED
    BY <2>1 DEF Signatures
\* What the manifest has is there.
<1>7. \A i \in call.plus : \E j \in db : Alike(i, j)
  <2>. SUFFICES ASSUME NEW i \in call.plus PROVE \E j \in db : Alike(i, j)
    OBVIOUS
  <2>1. CASE i.kind = "group"
    BY <1>2, <1>3, <2>1 DEF Of, Alike
  <2>2. CASE i.kind = "value"
    BY <1>6, <2>2 DEF Of, Alike
  <2>. QED
    BY <1>1, <2>1, <2>2
\* What is there of both kinds is in the manifest.
<1>8. \A i \in Of({"group", "value"}, db) : Twinned(i, db) \/ \E j \in call.plus : Alike(i, j)
  <2>. SUFFICES ASSUME NEW i \in Of({"group", "value"}, db), ~Twinned(i, db) PROVE \E j \in call.plus : Alike(i, j)
    OBVIOUS
  <2>1. CASE i.kind = "group"
    <3>1. i \in now
      BY <2>1, InDictionary DEF Of
    <3>2. PICK j \in Of({"group"}, call.plus) : Fold[j.name] = Fold[i.name]
      BY <1>4, <2>1 DEF Of
    <3>3. PICK g \in now : Fold[g.name] = Fold[j.name] /\ g.body = j.body
      BY <1>2
    <3>4. g = i
      BY <1>3, <3>1, <3>2, <3>3 DEF NoTwins, Of
    <3>. QED
      BY <2>1, <3>2, <3>3, <3>4 DEF Of, Alike
  <2>2. CASE i.kind = "value"
    BY <1>5, <2>2 DEF Of, Alike
  <2>. QED
    BY <2>1, <2>2 DEF Of
<1>9. \A i \in Of({"group", "value"}, db) :
        \E j \in call.plus : i.kind = j.kind /\ (i.kind = "value" \/ Fold[i.name] = Fold[j.name])
  <2>. SUFFICES ASSUME NEW i \in Of({"group", "value"}, db)
                PROVE  \E j \in call.plus : i.kind = j.kind /\ (i.kind = "value" \/ Fold[i.name] = Fold[j.name])
    OBVIOUS
  <2>1. CASE i.kind = "group"
    BY <1>4, <2>1 DEF Of
  <2>2. CASE i.kind = "value"
    BY <1>5, <2>2 DEF Of
  <2>. QED
    BY <2>1, <2>2 DEF Of
<1>10. \A i \in db \cap call.minus : Twinned(i, db) \/ \E j \in call.plus : Alike(i, j)
  BY <1>1, <1>8 DEF Of
<1>. QED
  BY <1>1, <1>7, <1>9, <1>10 DEF RestLeft, Inspected

LEMMA VerifiedRestLeft ==
  ASSUME IInv, phase = "ran", call.op \in IntegrityOps,
         NEW known \in ByName(call.before), NEW now \in ByName(db), Compared(known, now)
  PROVE  RestLeft
<1>1. Proper(call, clashes) /\ Tidy(db, clashes) /\ From(db, call.before \cup call.plus)
  BY DEF IInv, Parts
<1>2. /\ call.op = "add_rule" => RuleAdded
      /\ call.op = "import_rules" => RulesImported
      /\ call.op = "create_group" => GroupCreated
      /\ call.op = "add_value" => ValueAdded
      /\ call.op = "union" => UnionImported(known, now)
      /\ call.op = "replace" => ReplaceImported(now)
      /\ call.op = "delete_rules" => RulesDeleted
      /\ call.op = "delete_group" => GroupDeleted
      /\ call.op = "remove_value" => ValueRemoved
  BY DEF Compared
<1>3. CASE call.op \in {"delete_rules", "delete_group", "remove_value"}
  BY <1>1, <1>2, <1>3, RemovalLeavesRest DEF Proper, Fits, RulesDeleted, GroupDeleted, ValueRemoved
<1>4. CASE call.op \in Imports
  BY <1>1, <1>2, <1>4, UnionLeavesRest, ReplaceLeavesRest DEF Imports
<1>. QED
  BY <1>1, <1>2, <1>3, <1>4, AddRuleLeavesRest, ImportRulesLeavesRest, CreateGroupLeavesRest,
     AddValueLeavesRest DEF IntegrityOps, Imports

\* Only the reading back answers a call that is in progress.
LEMMA AnsweredByReadBack ==
  ASSUME IInv, Next, phase = "ran", answer' = "verified", call.op \in IntegrityOps
  PROVE  \E known \in ByName(call.before), now \in ByName(db) : Compared(known, now)
<1>1. answer = "none"
  BY DEF IInv, Parts
<1>2. ~IntegrityCall /\ ~MaintenanceCall /\ ~PlainCall
  BY DEF IntegrityCall, MaintenanceCall, PlainCall, AddAttributeRule, CreateFieldGroup, DeleteAttributeRules,
     ImportAttributeRules, DeleteFieldGroup, RemoveContingentValue, AddContingentValue,
     ImportContingentValues, AddIndex, EnableEditorTracking, RemoveIndex, DisableEditorTracking,
     AddGlobalIds, RebuildOrAnalyze, EditDomain, EditFieldOrSubtype, SwitchAttachments, EditAttachments,
     CreateRelationshipClass, CreateTopology, EditTopology, Plain, Begin
<1>3. ReadBack
  BY <1>1, <1>2 DEF Next, Step, ToolReturns, ToolRaises, ForeignWrite, ForeignLock, PinOrUnpin
<1>. QED
  BY <1>3 DEF ReadBack

\* What is answered as verified has left the rest of what it inspects as it was in
\* the snapshot, and what was to go is gone (data_integrity.py), whatever part of its
\* work the tool did and whatever else it or other programs lost or changed; but for
\* groups whose names differ only in case, which the imports do not tell apart.
THEOREM VerifiedRest == Spec => VerifiedLeavesRest
<1>1. IInv /\ [Next]_vars =>
        [phase = "ran" /\ answer' = "verified" /\ call.op \in IntegrityOps => RestLeft]_vars
  BY AnsweredByReadBack, VerifiedRestLeft
<1>2. Spec => [][phase = "ran" /\ answer' = "verified" /\ call.op \in IntegrityOps => RestLeft]_vars
  BY <1>1, Invariance, PTL DEF Spec
<1>. QED
  BY <1>2 DEF VerifiedLeavesRest, RestLeft
=============================================================================

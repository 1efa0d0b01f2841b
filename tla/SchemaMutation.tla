---------------------------- MODULE SchemaMutation ----------------------------
(* Changes of a dataset's schema in file mode: attribute rules, field groups and   *)
(* contingent values (data_integrity.py), indexes, editor tracking and GlobalIDs   *)
(* (schema_maintenance.py), domains, subtypes, attachments, relationship classes   *)
(* and topologies (dataset_management.py).                                         *)
(*                                                                                 *)
(* A call checks its guards and takes a snapshot of the inventory, runs one ArcGIS *)
(* tool, reads the inventory again and compares.  The tool is not this code: it    *)
(* may remove and add any part of what it was asked to, besides lose or change an  *)
(* item it was not asked about, and return or raise.  The schema lock is tested,   *)
(* never held, so another program may write between the snapshot and the tool, and *)
(* between the tool and the second reading.                                        *)
EXTENDS Naturals, FiniteSets

CONSTANTS
    Names,          \* names of rules, groups and indexes, and ids of contingent values
    Fold,           \* the case-folded form of each name
    Bodies,         \* what an item says besides its name
    Asked,          \* the bodies a client asks for
    Manifests,      \* what pairs of CSV files of an import list: groups and their values
    Inventories,    \* the inventories the dataset may have at first
    MaxCalls,       \* bound: calls of the client
    MaxForeign      \* bound: writes and locks of other programs

\* "plain" stands for domains, subtypes, attachments, relationship classes and
\* topologies, whose changes are not read back.
Kinds == {"rule", "group", "value", "index", "tracking", "globalid", "plain"}

\* A contingent value has its id as its name and its field group as its body.
Item == [kind : Kinds \ {"value"}, name : Names, body : Bodies] \cup [kind : {"value"}, name : Names, body : Names]

Of(kinds, s) == {i \in s : i.kind \in kinds}

\* No two rules, groups or indexes whose names differ only in case.
NoTwins(s) ==
    \A i, j \in Of({"rule", "group", "index"}, s) :
        i.kind = j.kind /\ Fold[i.name] = Fold[j.name] => i = j

\* Names are compared case-folded when they are to be new, and exactly when they
\* are to be there already.
ASSUME SchemaMutationAssumption ==
    /\ Fold \in [Names -> Names] /\ Asked \subseteq Bodies
    /\ \A m \in Inventories \cup Manifests : m \subseteq Item /\ NoTwins(m)
    /\ \A m \in Manifests : \A i \in m : i.kind \in {"group", "value"}
    /\ MaxCalls \in Nat /\ MaxForeign \in Nat

NoCall == [op |-> "none", kinds |-> {}, plus |-> {}, minus |-> {}, before |-> {}]

VARIABLES
    db,       \* the inventory of the dataset
    clashes,  \* history: the folded names of groups that an import was to bring though
              \* the snapshot had them in another case
    foreign,  \* another program holds a lock on the dataset
    pinned,   \* an ArcGISProject cached by this process holds a reference to it
    call,     \* the call in progress, its snapshot, and what it asks to add and remove
    phase,    \* "idle", "checked" (before the tool), "ran" (the tool has returned)
    answer,   \* what the last call answered
    calls, writes   \* counters of the bounds

vars == <<db, clashes, foreign, pinned, call, phase, answer, calls, writes>>

Called(kind, n, s) == {i \in s : i.kind = kind /\ i.name = n}
NamesOf(s) == {i.name : i \in s}
FoldsOf(s) == {Fold[n] : n \in NamesOf(s)}

TypeOK ==
    /\ db \subseteq Item /\ clashes \subseteq Names
    /\ foreign \in BOOLEAN /\ pinned \in BOOLEAN
    /\ call.kinds \subseteq Kinds
    /\ call.plus \subseteq Item /\ call.minus \subseteq Item /\ call.before \subseteq Item
    /\ phase \in {"idle", "checked", "ran"}
    /\ answer \in {"none", "refused", "ok", "verified", "uncertain", "failed"}
    /\ calls \in 0..MaxCalls /\ writes \in 0..MaxForeign

Init ==
    /\ db \in Inventories
    /\ clashes = {} /\ foreign = FALSE /\ pinned = FALSE
    /\ call = NoCall /\ phase = "idle" /\ answer = "none"
    /\ calls = 0 /\ writes = 0

-----------------------------------------------------------------------------
(* Guards.                                                                        *)

\* The lock can be had now.  TestSchemaLock returns at once and holds nothing.
SchemaLockFree == ~foreign /\ ~pinned

\* A name is taken if an item of the kind has it in any case (mutant: the exact name).
TakenExact(kind, n) == Called(kind, n, db) # {}
Taken(kind, n) == \E i \in Of({kind}, db) : Fold[i.name] = Fold[n]

\* No name twice in one request, whatever its case.
DistinctNames(N) == \A m, n \in N : Fold[m] = Fold[n] => m = n

\* The gates, the exact echo of the dataset and the confirmation, the dataset and
\* its lock; and then the guard of the operation.
Accepted(locks, guard) == (locks => SchemaLockFree) /\ guard

Imports == {"union", "replace"}

\* What a manifest names in another case than the dataset.
Clashing(m) ==
    {Fold[i.name] : i \in {g \in Of({"group"}, m) :
                             \E j \in Of({"group"}, db) : j.name # g.name /\ Fold[j.name] = Fold[g.name]}}

\* A call either passes its guards and takes its snapshot, or is refused.
Begin(op, kinds, plus, minus, accepted) ==
    /\ phase = "idle" /\ calls < MaxCalls
    /\ calls' = calls + 1
    /\ IF accepted
       THEN /\ call' = [op |-> op, kinds |-> kinds, plus |-> plus, minus |-> minus, before |-> db]
            /\ phase' = "checked" /\ answer' = "none"
            /\ clashes' = clashes \cup (IF op \in Imports THEN Clashing(plus) ELSE {})
       ELSE /\ answer' = "refused"
            /\ UNCHANGED <<clashes, call, phase>>
    /\ UNCHANGED <<db, foreign, pinned, writes>>

-----------------------------------------------------------------------------
(* The operations.                                                                *)

New(kind, n, b) == [kind |-> kind, name |-> n, body |-> b]

AddAttributeRule(n, b) ==
    Begin("add_rule", {"rule"}, {New("rule", n, b)}, {}, Accepted(TRUE, ~Taken("rule", n)))

\* The NAME set of the CSV files must be the expected one; all bodies come from them.
ImportAttributeRules(N, b) ==
    Begin("import_rules", {"rule"}, {New("rule", n, b) : n \in N}, {},
          Accepted(TRUE, DistinctNames(N) /\ \A n \in N : ~Taken("rule", n)))

\* The exact names.  The rule_type goes to the tool, which may then leave rules of
\* another type; the comparison wants every name gone.
DeleteAttributeRules(N) ==
    Begin("delete_rules", {"rule"}, {}, {i \in Of({"rule"}, db) : i.name \in N},
          Accepted(TRUE, DistinctNames(N) /\ N \subseteq NamesOf(Of({"rule"}, db))))

CreateFieldGroup(n, b) ==
    Begin("create_group", {"group"}, {New("group", n, b)}, {}, Accepted(TRUE, ~Taken("group", n)))

ValuesOf(group, s) == {i \in Of({"value"}, s) : i.body = group}

DeleteFieldGroup(n) ==
    Begin("delete_group", {"group", "value"}, {}, Called("group", n, db) \cup ValuesOf(n, db),
          Accepted(TRUE, TakenExact("group", n)))

\* The geodatabase chooses the id of the new value.  (Mutant: the value is put under
\* what the group holds, not under its name.)
AddContingentValueAstray(group, id) ==
    \E g \in Called("group", group, db) :
        Begin("add_value", {"value"}, {New("value", id, g.body)}, {}, Accepted(TRUE, TRUE))
AddContingentValue(group, id) ==
    /\ Begin("add_value", {"value"}, {New("value", id, group)}, {},
             Accepted(TRUE, TakenExact("group", group)))
    /\ Called("value", id, db) = {}

RemoveContingentValue(id) ==
    Begin("remove_value", {"value"}, {}, Called("value", id, db),
          Accepted(TRUE, TakenExact("value", id)))

\* UNION is to add what is not there, REPLACE to remove everything else.  No guard
\* asks for groups that are there in another case.  The id in the manifest stands for
\* the values of the row: another row has another one.
ImportContingentValues(m, mode) ==
    /\ Begin(mode, {"group", "value"}, m,
             IF mode = "union" THEN {} ELSE Of({"group", "value"}, db) \ m, Accepted(TRUE, TRUE))
    /\ \A v \in Of({"value"}, m) : Called("value", v.name, db) \subseteq {v}

AddIndex(n, b) ==
    Begin("add_index", {"index"}, {New("index", n, b)}, {}, Accepted(TRUE, ~Taken("index", n)))

RemoveIndex(n) ==
    Begin("remove_index", {"index"}, {}, Called("index", n, db), Accepted(TRUE, TakenExact("index", n)))

\* Enabling does not ask whether tracking is on already.
EnableEditorTracking(n, b) ==
    Begin("enable_tracking", {"tracking"}, {New("tracking", n, b)}, Of({"tracking"}, db), Accepted(TRUE, TRUE))

\* Either all four fields are disabled and tracking ends, or it goes on without some.
DisableEditorTracking(all) ==
    LET on == Of({"tracking"}, db)
    IN Begin(IF all THEN "disable_tracking" ELSE "reduce_tracking", {"tracking"}, {},
             IF all THEN on ELSE {}, Accepted(TRUE, on # {}))

\* Datasets that have a GlobalID field already are left out; none may be left.
AddGlobalIds(N, b) ==
    Begin("add_globalids", {"globalid"},
          {New("globalid", n, b) : n \in {m \in N : ~TakenExact("globalid", m)}}, {},
          Accepted(TRUE, N # {}))

\* Rebuilding indexes and analysing datasets change no item of the inventory.
RebuildOrAnalyze == Begin("maintain", {}, {}, {}, Accepted(FALSE, TRUE))

\* A plain tool sets or clears one item.
Plain(op, locks, n, b) ==
    \/ Begin(op, {"plain"}, {New("plain", n, b)}, Called("plain", n, db), Accepted(locks, TRUE))
    \/ Begin(op, {"plain"}, {}, Called("plain", n, db), Accepted(locks, TRUE))

\* Domains belong to the workspace, whose lock cannot be tested.
EditDomain(n, b) == Plain("plain", FALSE, n, b)
EditFieldOrSubtype(n, b) == Plain("plain", TRUE, n, b)
SwitchAttachments(n, b) == Plain("plain", TRUE, n, b)
EditAttachments(n, b) == Plain("plain", FALSE, n, b)

\* A relationship class or a topology is looked for when the tool has returned.
CreateRelationshipClass(n, b) ==
    Begin("create_plain", {"plain"}, {New("plain", n, b)}, {}, Accepted(TRUE, TRUE))
CreateTopology(n, b) ==
    Begin("create_plain", {"plain"}, {New("plain", n, b)}, {}, Accepted(FALSE, TRUE))
EditTopology(n, b) == Plain("plain", TRUE, n, b)

-----------------------------------------------------------------------------
(* The tool, and the comparison afterwards.                                       *)

\* A dataset has one tracking, and otherwise one item of a kind under one exact name.
SameKey(i, j) == i.kind = j.kind /\ (i.kind = "tracking" \/ i.name = j.name)
Put(s, come) == {i \in s : \A j \in come : ~SameKey(i, j)} \cup come

\* REPLACE may clear both kinds before it adds.
Going == IF call.op = "replace" THEN Of(call.kinds, db) ELSE call.minus

\* All, nothing or any part of what was asked: some names of several, a group without
\* its values, a manifest half read.  What is there in another case may stay beside
\* what comes.
Parted == UNION {{Put(db \ gone, come) : come \in SUBSET call.plus} : gone \in SUBSET Going}

\* One item gone or changed.
Damaged(s) == {s \ {i} : i \in s}
    \cup {(s \ {i}) \cup {[i EXCEPT !.body = b]} : i \in Of(Kinds \ {"value"}, s), b \in Bodies}

\* Any part of what was asked, or all of it and one item gone or changed (one that is
\* gone or changed besides a part is what another program may add).
Outcomes == Parted \cup Damaged(Put(db \ Going, call.plus))

ToolReturns ==
    /\ phase = "checked"
    /\ db' \in Outcomes
    /\ phase' = "ran"
    /\ UNCHANGED <<clashes, foreign, pinned, call, answer, calls, writes>>

\* A tool that cannot get the lock it needs raises; it may also fail half way.
ToolRaises ==
    /\ phase = "checked"
    /\ db' \in Outcomes
    /\ SchemaLockFree \/ db' = db
    /\ phase' = "idle" /\ call' = NoCall /\ answer' = "failed"
    /\ UNCHANGED <<clashes, foreign, pinned, calls, writes>>

\* (Mutant: the other rules are not compared.)
RuleAddedCareless == \A i \in call.plus : Cardinality(Called("rule", i.name, db)) = 1
RuleAdded ==
    \A i \in call.plus :
        /\ Cardinality(Called("rule", i.name, db)) = 1
        /\ Of({"rule"}, db) \ Called("rule", i.name, db) = Of({"rule"}, call.before)

RulesImported ==
    LET after == Of({"rule"}, db)
        before == Of({"rule"}, call.before)
        asked == FoldsOf(call.plus)
    IN /\ FoldsOf(after) \ FoldsOf(before) = asked
       /\ {i \in after : Fold[i.name] \notin asked} = before

RulesDeleted == Of({"rule"}, db) = Of({"rule"}, call.before) \ call.minus

GroupCreated ==
    /\ call.plus \subseteq db
    /\ Of({"group"}, db) \ call.plus = Of({"group"}, call.before)

GroupDeleted == Of({"group", "value"}, db) = Of({"group", "value"}, call.before) \ call.minus

\* Only the values of the group are listed; one new id must have come.
ValueAdded ==
    \A i \in call.plus :
        LET after == ValuesOf(i.body, db)
            before == ValuesOf(i.body, call.before)
            fresh == {v \in after : v.name \notin NamesOf(before)}
        IN Cardinality(fresh) = 1 /\ after \ fresh = before

ValueRemoved == Of({"value"}, db) = Of({"value"}, call.before) \ call.minus

\* The dictionaries of groups by folded name: of two names that differ only in case
\* the one that Describe lists last.
ByName(s) ==
    {k \in SUBSET Of({"group"}, s) : NoTwins(k) /\ FoldsOf(k) = FoldsOf(Of({"group"}, s))}

\* The groups of the manifest are there with their fields, and values only of groups
\* that are there (that a value has the fields of its group is left out).
GroupsImported(now) ==
    /\ \A i \in Of({"group"}, call.plus) : \E j \in now : Fold[j.name] = Fold[i.name] /\ j.body = i.body
    /\ \A v \in Of({"value"}, db) : \E j \in now : Fold[j.name] = Fold[v.body]

\* The signature of a value: its id and its group.
Signatures(s) == {<<v.name, Fold[v.body]>> : v \in Of({"value"}, s)}

\* The groups and values that were known are unchanged, and new values are in the
\* manifest.  That all its values are there is not asked.
UnionImported(known, now) ==
    LET ids == NamesOf(Of({"value"}, call.before))
    IN /\ GroupsImported(now)
       /\ known \subseteq now /\ Of({"value"}, call.before) \subseteq db
       /\ Signatures({v \in Of({"value"}, db) : v.name \notin ids}) \subseteq Signatures(call.plus)

ReplaceImported(now) ==
    /\ GroupsImported(now)
    /\ FoldsOf(now) = FoldsOf(Of({"group"}, call.plus))
    /\ Signatures(db) = Signatures(call.plus)

\* The other indexes are not compared.
IndexAdded == \A i \in call.plus : {j \in Of({"index"}, db) : Fold[j.name] = Fold[i.name]} = {i}
IndexRemoved == \A i \in call.minus : Called("index", i.name, db) = {}

TrackingOn == \E i \in Of({"tracking"}, db) : i \in call.plus
TrackingOff == Of({"tracking"}, db) = {}

GlobalIdsAdded == \A i \in call.plus : Called("globalid", i.name, db) # {}

PlainCreated == \A i \in call.plus : Called("plain", i.name, db) # {}

Compared(known, now) ==
    \/ call.op = "add_rule" /\ RuleAdded
    \/ call.op = "import_rules" /\ RulesImported
    \/ call.op = "delete_rules" /\ RulesDeleted
    \/ call.op = "create_group" /\ GroupCreated
    \/ call.op = "delete_group" /\ GroupDeleted
    \/ call.op = "add_value" /\ ValueAdded
    \/ call.op = "remove_value" /\ ValueRemoved
    \/ call.op = "union" /\ UnionImported(known, now)
    \/ call.op = "replace" /\ ReplaceImported(now)
    \/ call.op = "add_index" /\ IndexAdded
    \/ call.op = "remove_index" /\ IndexRemoved
    \/ call.op = "enable_tracking" /\ TrackingOn
    \/ call.op = "disable_tracking" /\ TrackingOff
    \/ call.op = "add_globalids" /\ GlobalIdsAdded
    \/ call.op = "create_plain" /\ PlainCreated

Unchecked == call.op \in {"plain", "maintain", "reduce_tracking"}

ReadBack ==
    /\ phase = "ran"
    /\ \E known \in ByName(call.before), now \in ByName(db) :
         answer' = IF Unchecked THEN "ok" ELSE IF Compared(known, now) THEN "verified" ELSE "uncertain"
    /\ phase' = "idle" /\ call' = NoCall
    /\ UNCHANGED <<db, clashes, foreign, pinned, calls, writes>>

-----------------------------------------------------------------------------
(* Other programs, and the project cache of this process.                         *)

\* They change or remove an item; they do not choose a name this server is adding.
ForeignWrite ==
    /\ writes < MaxForeign /\ ~pinned
    /\ db' \in Damaged(db)
    /\ writes' = writes + 1
    /\ UNCHANGED <<clashes, foreign, pinned, call, phase, answer, calls>>

ForeignLock ==
    /\ writes < MaxForeign
    /\ foreign' = ~foreign
    /\ writes' = writes + 1
    /\ UNCHANGED <<db, clashes, pinned, call, phase, answer, calls>>

\* A project is opened or given up between two calls.
PinOrUnpin ==
    /\ phase = "idle"
    /\ pinned' = ~pinned
    /\ UNCHANGED <<db, clashes, foreign, call, phase, answer, calls, writes>>

IntegrityCall ==
    \/ \E n \in Names, b \in Asked : AddAttributeRule(n, b) \/ CreateFieldGroup(n, b)
    \/ \E N \in (SUBSET Names) \ {{}} : DeleteAttributeRules(N) \/ \E b \in Asked : ImportAttributeRules(N, b)
    \/ \E n \in Names : DeleteFieldGroup(n) \/ RemoveContingentValue(n) \/ \E id \in Names : AddContingentValue(n, id)
    \/ \E m \in Manifests, mode \in {"union", "replace"} : ImportContingentValues(m, mode)

MaintenanceCall ==
    \/ \E n \in Names, b \in Asked : AddIndex(n, b) \/ EnableEditorTracking(n, b)
    \/ \E n \in Names : RemoveIndex(n)
    \/ \E all \in BOOLEAN : DisableEditorTracking(all)
    \/ \E N \in SUBSET Names, b \in Asked : AddGlobalIds(N, b)
    \/ RebuildOrAnalyze

PlainCall ==
    \E n \in Names, b \in Asked :
        \/ EditDomain(n, b) \/ EditFieldOrSubtype(n, b)
        \/ SwitchAttachments(n, b) \/ EditAttachments(n, b)
        \/ CreateRelationshipClass(n, b) \/ CreateTopology(n, b) \/ EditTopology(n, b)

Step ==
    \/ phase = "idle" /\ (IntegrityCall \/ MaintenanceCall \/ PlainCall)
    \/ ToolReturns \/ ToolRaises \/ ReadBack

Next == Step \/ ForeignWrite \/ ForeignLock \/ PinOrUnpin

Spec == Init /\ [][Next]_vars

-----------------------------------------------------------------------------
(* Properties.                                                                    *)

\* What the comparison of an operation looks at.
Inspected(s) == IF call.op = "add_value" THEN UNION {ValuesOf(i.body, s) : i \in call.plus}
                                         ELSE Of(call.kinds, s)

\* The operations that answer "verified": true (data_integrity.py).
IntegrityOps == {"add_rule", "import_rules", "delete_rules", "create_group", "delete_group",
                 "add_value", "remove_value", "union", "replace"}

\* The same item but for the case of names.
Alike(i, j) ==
    /\ i.kind = j.kind /\ Fold[i.name] = Fold[j.name]
    /\ IF i.kind = "value" THEN Fold[i.body] = Fold[j.body] ELSE i.body = j.body

\* Two groups of s have the name of i, but for its case.
Twinned(i, s) ==
    /\ i.kind = "group"
    /\ \E j, k \in Of({"group"}, s) : j # k /\ Fold[j.name] = Fold[i.name] /\ Fold[k.name] = Fold[i.name]

\* "verified" is never said of a call after which anything it inspects, other than
\* what it asked for, differs from its snapshot or is new under another name, or
\* after which something that was to go is still there: not when the tool did a part
\* of it only, nor when another program wrote in between.  The seven comparisons of
\* data_integrity.py are each written out by hand, by folded name, by id, or by
\* equality of the lists.  Only of groups whose names differ in case alone the imports
\* see one: a UNION misses what became of the other, and a REPLACE that it was left.
VerifiedLeavesRest ==
    [][phase = "ran" /\ answer' = "verified" /\ call.op \in IntegrityOps =>
         LET rest == Inspected(call.before) \ call.minus
             missed(i) == call.op = "union" /\ Twinned(i, call.before)
         IN /\ IF call.op = "replace" THEN \A i \in rest \cap call.plus : \E j \in db : Alike(i, j)
                                      ELSE \A i \in rest : i \in db \/ missed(i)
            /\ \A i \in Inspected(db) \ call.before :
                 \/ missed(i)
                 \/ \E j \in call.plus : i.kind = j.kind /\ (i.kind = "value" \/ Fold[i.name] = Fold[j.name])
            /\ \A i \in db \cap call.minus :
                 \/ call.op = "replace" /\ Twinned(i, db)
                 \/ \E j \in call.plus : Alike(i, j)]_vars

\* Two rules or indexes whose names differ only in case never come to be by calls of
\* this server, whatever part of its work a tool does and however often the client
\* retries: the names are compared folded before.  Two groups do only if an import of
\* contingent values, which has no such guard, named one that was there in another case.
NoCaseTwins ==
    \A i, j \in Of({"rule", "group", "index"}, db) :
        i.kind = j.kind /\ Fold[i.name] = Fold[j.name] =>
            i = j \/ (i.kind = "group" /\ Fold[i.name] \in clashes)

\* What the description of the import (server.py) says, "the manifest is strictly
\* verified": a verified UNION has all of the manifest that was not there.
ManifestImported ==
    [][phase = "ran" /\ answer' = "verified" /\ call.op = "union" => call.plus \subseteq db]_vars
=============================================================================

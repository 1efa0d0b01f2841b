------------------------------ MODULE EditData ------------------------------
(***************************************************************************)
(* The rows that arcgis_pro_mcp/editing.py edits, and what one operation   *)
(* of a batch selects and does.  A row is an ObjectID with a content; a    *)
(* where clause is the set of contents it matches, and the new values of   *)
(* an update, or the new geometries, are a function on contents.           *)
(***************************************************************************)
EXTENDS Naturals, Sequences, FiniteSets

CONSTANTS
  Datasets,
  Oids,
  Contents,
  NoRow,      \* no row has this ObjectID
  Batches     \* the argument lists "operations" of the clients

Rows == [Datasets -> [Oids -> Contents \cup {NoRow}]]

\* A validated operation.  counts are the numbers of affected rows it accepts:
\* what expected_count, max_rows and _MAX_PREFLIGHT_ROWS leave.
Operations ==
  [kind : {"update", "update_geometry", "insert", "delete"}, dataset : Datasets,
   where : SUBSET Contents, oids : SUBSET Oids, write : [Contents -> Contents],
   rows : Nat, content : Contents, counts : SUBSET Nat]

ASSUME EditDataAssumption ==
  /\ IsFiniteSet(Oids)
  /\ NoRow \notin Contents
  /\ Batches \subseteq Seq(Operations) \ {<<>>}

Present(s, d) == {o \in Oids : s[d][o] # NoRow}

\* The rows a cursor over the where clause, or over the ObjectIDs, returns.
Selected(op, s) ==
  CASE op.kind = "insert"          -> {}
    [] op.kind = "update_geometry" -> op.oids \cap Present(s, op.dataset)
    [] OTHER -> {o \in Present(s, op.dataset) : s[op.dataset][o] \in op.where}

\* How many rows the operation changes.
Affected(op, s) == IF op.kind = "insert" THEN op.rows ELSE Cardinality(Selected(op, s))

\* Its effect on the rows O: those it selects, or new ObjectIDs for an insert.
Written(op, s, O) ==
  [s EXCEPT ![op.dataset] = [o \in Oids |->
     IF o \notin O THEN s[op.dataset][o]
     ELSE CASE op.kind = "insert" -> op.content
            [] op.kind = "delete" -> NoRow
            [] OTHER -> op.write[s[op.dataset][o]]]]

Targets(op, s) ==
  IF op.kind = "insert"
  THEN {O \in SUBSET (Oids \ Present(s, op.dataset)) : Cardinality(O) = op.rows}
  ELSE {Selected(op, s)}
=============================================================================

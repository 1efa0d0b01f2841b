------------------------- MODULE MCEditTransaction -------------------------
(* Two datasets of two ObjectIDs; "c" is a row of "a" with a new geometry.   *)
EXTENDS EditTransaction

CONSTANTS p, q, a, b, c

MCDatasets == {p, q}
MCOids == 1..2
MCContents == {a, b, c}

Keep == [x \in MCContents |-> x]
All  == 0..5

Update(d, where, to) ==
  [kind |-> "update", dataset |-> d, where |-> where, oids |-> {},
   write |-> [x \in MCContents |-> to], rows |-> 0, content |-> a, counts |-> All]
Delete(d, where, counts) ==
  [kind |-> "delete", dataset |-> d, where |-> where, oids |-> {},
   write |-> Keep, rows |-> 0, content |-> a, counts |-> counts]
Reshape(d, oids) ==
  [kind |-> "update_geometry", dataset |-> d, where |-> {}, oids |-> oids,
   write |-> [x \in MCContents |-> IF x = a THEN c ELSE x],
   rows |-> 0, content |-> a, counts |-> All]
Insert(d, n) ==
  [kind |-> "insert", dataset |-> d, where |-> {}, oids |-> {},
   write |-> Keep, rows |-> n, content |-> b, counts |-> All]

\* One dataset, where a later operation selects what an earlier one wrote; two
\* datasets; a batch that the destructive gate refuses.
Shift  == <<Delete(p, {a, c}, {1}), Update(p, {b}, a), Delete(p, {a, c}, All)>>
Across == <<Reshape(p, {1}), Insert(q, 1)>>
Purge  == <<Delete(p, {a}, All)>>

MCBatches == {Shift, Across, Purge}
MCPermitted == {Shift, Across}
=============================================================================

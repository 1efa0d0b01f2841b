--------------------------- MODULE MCSchemaMutation ---------------------------
(* A small instance of SchemaMutation: two names that differ only in case, and a *)
(* third one.                                                                    *)
EXTENDS SchemaMutation

CONSTANTS a, A, b, x, y

MCNames == {a, A, b}
MCFold == [n \in MCNames |-> IF n = A THEN a ELSE n]
MCBodies == {x, y}
MCAsked == {x}
\* The first names the group of the dataset in another case, with a value; the
\* second another group.
MCManifests ==
    {{New("group", A, x), New("value", b, A)},
     {New("group", b, x), New("value", b, b)}}
MCInventories ==
    {{New("rule", a, x), New("group", a, x), New("value", a, a)},
     {New("index", A, x), New("tracking", a, x)}}
=============================================================================

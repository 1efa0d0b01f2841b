--------------------------- MODULE MCProjectSession ---------------------------
(* A small instance of ProjectSession: two layers, two settings, two folder     *)
(* connections.                                                                  *)
EXTENDS ProjectSession, TLC

CONSTANTS l1, l2, s1, s2, e1, e2, w1, w2, w3, u, v

MCItems == {l1, l2}
MCSettings == {s1, s2}
MCLooks == {u, v}
MCEntries == {e1, e2}
MCConnections == {w1, w2, w3}
MCBroken == {w3}
MCFiles == {[p \in {l1, l2, s1, s2, e1, e2} |->
              CASE p = l1 -> c [] p = l2 -> w1 [] p \in {s1, s2} -> u [] p = e1 -> "home" [] p = e2 -> "absent"] : c \in {w1, w3}}

MCSymmetry == Permutations(MCSettings)

Op(i, c, d, validate) == [item |-> i, current |-> c, new |-> d, validate |-> validate]
\* Two repairs of which the second is of a broken connection, the same two without
\* validation of the first one, and two of one item under two names.
MCRepairs == {<<Op(l1, w1, w2, TRUE), Op(l2, w1, w3, TRUE)>>,
              <<Op(l1, w1, w3, FALSE), Op(l2, w1, w2, TRUE)>>,
              <<Op(l1, w3, w2, TRUE), Op(l1, w2, w1, TRUE)>>}
=============================================================================

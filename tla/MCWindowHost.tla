---------------------------- MODULE MCWindowHost ----------------------------
(* Small instances of WindowHost: request ids are the requests themselves,  *)
(* as uuid4 makes them, except where two requests share one on purpose.     *)
EXTENDS WindowHost, TLC

CONSTANTS r1, r2, r3, k1, d1, d2

MCRequests == {r1, r2, r3}
MCKeys == {k1}

\* r1 is a submission and r2 its retry under the same key; r3 is a stranger without
\* a key, which fills the queue and the store, prunes and is pruned.
MCRid == [r \in MCRequests |-> r]
MCKey == (r1 :> k1) @@ (r2 :> k1) @@ (r3 :> NoKey)
MCDigest == (r1 :> d1) @@ (r2 :> d1) @@ (r3 :> d2)

\* Two calls that share a request id and have no key.
PairRequests == {r1, r2}
PairRid == [r \in PairRequests |-> r1]
PairKey == [r \in PairRequests |-> NoKey]
PairDigest == (r1 :> d1) @@ (r2 :> d2)
=============================================================================

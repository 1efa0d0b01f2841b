----------------------------- MODULE MCCheckedClip -----------------------------
(* A small instance of CheckedClip: two processes, two runs, one dataset.        *)
EXTENDS CheckedClip, TLC

CONSTANTS c1, c2, r1, r2, p1, m1, s1, s2

MCProcs == {c1, c2}
MCRuns == {r1, r2}
MCPaths == {p1}
MCRaws == {m1}
MCSides == {s1, s2}
MCSymmetry == Permutations(MCProcs) \cup Permutations(MCRuns) \cup Permutations(MCSides)
=============================================================================

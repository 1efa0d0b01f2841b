---------------------------- MODULE MCHostAttach ----------------------------
(* Small instances of HostAttach: two processes that compete for the port.  *)
EXTENDS HostAttach, TLC

CONSTANTS h1, h2, p1, p2, c1, c2

MCProcesses == {h1, h2}
MCProjects == {p1, p2}
MCCallers == {c1, c2}
OneProcess == {h1}
OneCaller == {c1}
Symmetric == Permutations(Processes) \cup Permutations(MCProjects) \cup Permutations(Callers)
=============================================================================

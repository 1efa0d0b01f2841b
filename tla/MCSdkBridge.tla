---------------------------- MODULE MCSdkBridge ----------------------------
(* Small instances of SdkBridge: two connections, one or two projects.      *)
EXTENDS SdkBridge, TLC

CONSTANTS c1, c2, p1, p2, j1, j2

MCClients == {c1, c2}
MCProjects == {p1, p2}
MCJobs == {j1, j2}
Symmetric == Permutations(MCClients) \cup Permutations(MCProjects) \cup Permutations(Jobs)

\* The routes that begin and end leases, with one that starts a job.
JobRoutes == {"acquire", "release", "plain", "cancel"}
\* The routes that work under a lease.
WorkRoutes == {"acquire", "renew", "read", "make", "use", "feature", "command", "view"}
EditRoutes == {"acquire", "plain", "feature"}
OneJob == {j1}
=============================================================================

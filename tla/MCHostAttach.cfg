\* Two processes that start, stop and crash, and two calls of the router.
SPECIFICATION Spec
CONSTANTS
  h1 = h1
  h2 = h2
  p1 = p1
  p2 = p2
  c1 = c1
  c2 = c2
  NoProject = NoProject
  NoProcess = NoProcess
  Processes <- MCProcesses
  Projects <- MCProjects
  Callers <- MCCallers
  MaxSessions = 2
  MaxSwitches = 1
SYMMETRY Symmetric
INVARIANTS
  TypeOK
  LiveHostDiscoverable
  DetachedMeansStopped
PROPERTIES
  RunsWhereConfirmed
CHECK_DEADLOCK FALSE

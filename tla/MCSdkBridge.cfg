\* Leases that are acquired, released, replaced and that expire, with jobs started and
\* cancelled under them, in a dictionary of one finished job.
SPECIFICATION Spec
CONSTANTS
  c1 = c1
  c2 = c2
  p1 = p1
  p2 = p2
  j1 = j1
  j2 = j2
  NoProject = NoProject
  NoClient = NoClient
  NoJob = NoJob
  Clients <- MCClients
  Projects <- MCProjects
  Jobs <- MCJobs
  Routes <- JobRoutes
  MaxRetained = 1
  MaxLapsed = 1
  MaxGeneration = 1
SYMMETRY Symmetric
INVARIANTS
  TypeOK
  OneRunningJob
  ProjectChangeCancels
  WorkEndsWithLease
PROPERTIES
  TerminalIsFinal
CHECK_DEADLOCK FALSE

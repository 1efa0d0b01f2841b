\* Edits, edit commands, view commands and network analyses under leases, with the project
\* switched at any time.
SPECIFICATION Spec
CONSTANTS
  c1 = c1
  c2 = c2
  p1 = p1
  p2 = p2
  j1 = j1
  j2 = j2
  NoProject = NoProject
  NoClient = NoClient
  NoJob = NoJob
  Clients <- MCClients
  Projects <- MCProjects
  Jobs <- OneJob
  Routes <- WorkRoutes
  MaxRetained = 1
  MaxLapsed = 0
  MaxGeneration = 1
SYMMETRY Symmetric
INVARIANTS
  LeaseNamesOpenProject
PROPERTIES
  EditInLeasedProject
CHECK_DEADLOCK FALSE

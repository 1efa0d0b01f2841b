\* Two processes, two runs that may use each other's results, two changes by others.
SPECIFICATION Spec
CONSTANTS
  c1 = c1
  c2 = c2
  r1 = r1
  r2 = r2
  p1 = p1
  m1 = m1
  s1 = s1
  s2 = s2
  Gone = Gone
  NoReport = NoReport
  Procs <- MCProcs
  Runs <- MCRuns
  Paths <- MCPaths
  Raws <- MCRaws
  Sides <- MCSides
  MaxChanges = 2
SYMMETRY MCSymmetry
INVARIANTS
  TypeOK
  RunOnce
  FinishedQuarantineHolds
  EligibleIsTrue
CHECK_DEADLOCK FALSE

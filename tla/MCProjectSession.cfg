\* Three calls on a project with two layers and two settings, and one save of another program.
SPECIFICATION Spec
CONSTANTS
  l1 = l1
  l2 = l2
  s1 = s1
  s2 = s2
  u = u
  v = v
  e1 = e1
  e2 = e2
  w1 = w1
  w2 = w2
  w3 = w3
  NoProject = NoProject
  Unset = Unset
  Items <- MCItems
  Settings <- MCSettings
  Looks <- MCLooks
  Entries <- MCEntries
  Connections <- MCConnections
  Broken <- MCBroken
  Files <- MCFiles
  Repairs <- MCRepairs
  MaxCalls = 3
  MaxForeign = 1
SYMMETRY MCSymmetry
INVARIANTS
  TypeOK
  AckedStays
PROPERTIES
  RepairHonest
CHECK_DEADLOCK FALSE

\* Two calls with up to two outputs at three paths, two changes by other programs.
SPECIFICATION Spec
CONSTANTS
  p1 = p1
  p2 = p2
  p3 = p3
  None = None
  Other = Other
  Paths <- MCPaths
  MaxOutputs = 2
  MaxCalls = 2
  MaxForeign = 2
SYMMETRY MCSymmetry
INVARIANTS
  TypeOK
PROPERTIES
  NothingLost
  Delivered
CHECK_DEADLOCK FALSE

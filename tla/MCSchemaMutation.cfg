\* Two calls of any kind and one foreign write or lock, on a dataset with a rule, a
\* group and its value, or with an index and editor tracking.
SPECIFICATION Spec
CONSTANTS
  a = a
  A = A
  b = b
  x = x
  y = y
  Names <- MCNames
  Fold <- MCFold
  Bodies <- MCBodies
  Asked <- MCAsked
  Manifests <- MCManifests
  Inventories <- MCInventories
  MaxCalls = 2
  MaxForeign = 1
INVARIANTS
  TypeOK
  NoCaseTwins
PROPERTIES
  VerifiedLeavesRest
CHECK_DEADLOCK FALSE

\* The same batches, and no other program.
SPECIFICATION Spec
CONSTANTS
  p = p
  q = q
  a = a
  b = b
  c = c
  NoRow = NoRow
  Datasets <- MCDatasets
  Oids <- MCOids
  Contents <- MCContents
  Batches <- MCBatches
  Permitted <- MCPermitted
  MaxTokens = 1
  MaxWrites = 0
INVARIANT
  LockedOids

\* Three batches, two of them permitted, two good tokens at a time and one write of
\* another program, which may replace every row of a dataset.
SPECIFICATION Spec
CONSTANTS
  p = p
  q = q
  a = a
  b = b
  c = c
  NoRow = NoRow
  Datasets <- MCDatasets
  Oids <- MCOids
  Contents <- MCContents
  Batches <- MCBatches
  Permitted <- MCPermitted
  MaxTokens = 2
  MaxWrites = 1
INVARIANTS
  TypeOK
  ChangesShownCounts
  ChangesShownRows
PROPERTIES
  ImplementsAtomicEdit

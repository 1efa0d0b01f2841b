\* A ring of two events read one at a time, and a refresh that waits while two maps are drawn.
SPECIFICATION FairSpec
CONSTANTS
  ui = ui
  t1 = t1
  r1 = r1
  w1 = w1
  m1 = m1
  m2 = m2
  Threads <- MCThreads
  UiThread = ui
  Readers <- MCReaders
  Waiters <- MCWaiters
  Maps <- MCMaps
  Capacity = 2
  Limit = 1
  MaxEvents = 3
  MaxDraws = 2
INVARIANTS
  EventsTypeOK
  NoSilentLoss
  DrawnMeansDrawn
PROPERTIES
  EventWakesReader
CHECK_DEADLOCK FALSE

\* A submission r1, its retry r2 and a stranger r3; a queue of one slot and a store
\* of one entry, so that submissions find the queue or the store full, finished jobs
\* are evicted, one of them before its handler queued it, and its drop pops the key
\* that the retry has written meanwhile.
SPECIFICATION Spec
CONSTANTS
  r1 = r1
  r2 = r2
  r3 = r3
  k1 = k1
  d1 = d1
  d2 = d2
  NoKey = NoKey
  NoJob = NoJob
  Requests <- MCRequests
  RequestIds <- MCRequests
  Keys <- MCKeys
  RidOf <- MCRid
  KeyOf <- MCKey
  DigestOf <- MCDigest
  Async = {r1, r3}
  MaxQueue = 1
  MaxRetained = 1
  MaxInterrupts = 0
INVARIANTS
  TypeOK
  LiveJobRetained
  OneLiveJobPerKey
PROPERTIES
  ImplementsService
  OutcomeIsFinal
CHECK_DEADLOCK FALSE

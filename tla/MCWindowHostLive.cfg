\* Two calls sharing a request id, one of them asynchronous, with fairness and a
\* KeyboardInterrupt at any point of the host thread.
SPECIFICATION FairSpec
CONSTANTS
  r1 = r1
  r2 = r2
  r3 = r3
  k1 = k1
  d1 = d1
  d2 = d2
  NoKey = NoKey
  NoJob = NoJob
  Requests <- PairRequests
  RequestIds <- PairRequests
  Keys <- MCKeys
  RidOf <- PairRid
  KeyOf <- PairKey
  DigestOf <- PairDigest
  Async = {r1}
  MaxQueue = 1
  MaxRetained = 2
  MaxInterrupts = 1
PROPERTIES
  EveryCallAnswered
  QueueDrains
  StopStops
CHECK_DEADLOCK FALSE

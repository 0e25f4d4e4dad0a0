SPECIFICATION FairSpec
CONSTANTS
  c1 = c1
  c2 = c2
  Clients = {c1, c2}
  Threads = {t1, t2}
  Rates = {2, 3}
  Offered <- MCOffered
  Depth = 1
  NSEC_PER_SEC = 4
  WORD = 8
  Observed = c1
  Horizon = 2
  MaxQueue = 2
  MaxBuckets = 2
INVARIANTS TypeOK
  RateBound
  ThrottleHasOwner
  HeapMatchesQueues
PROPERTIES
  ImplementsRateLimiter
  QueuesDrain
CHECK_DEADLOCK FALSE

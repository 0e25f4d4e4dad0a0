CONSTANTS
  n1 = n1
  n2 = n2
  h1 = h1
  Requests = {n1, n2, h1}
  Threads = {t1, t2, t3}
  None = None
  HighPriority = {h1}
  rq_xid <- XidResent
  Resent = {n2}
  Bulk = {n1, n2}
  Throttles = {"high", "normal"}
  HasHp = TRUE
  srv_hpreq_ratio = 1
  Flood = 0
SPECIFICATION FairSpec
INVARIANTS
  HpThreadKept
  NoDanglingRequest
  PurgedClean
PROPERTY
  EveryRequestEnds
CHECK_DEADLOCK FALSE

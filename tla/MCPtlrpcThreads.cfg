CONSTANTS
  Threads = {t1, t2, t3, t4}
  Starter = Starter
  None = None
  Conf <- SmallConf
SPECIFICATION FairSpec
INVARIANTS
  StartSerialised
  WithinLimit
  ThreadsGoneWhenStopped
PROPERTY
  UnregisterStops
CHECK_DEADLOCK FALSE

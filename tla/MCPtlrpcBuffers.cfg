SPECIFICATION FairSpec
CONSTANTS
  Buffers = {b1, b2}
  Threads = {t1, t2}
  Unregister = u
  None = None
  srv_nbuf_per_group = 1
  HistMaxes = {0, 1}
  MaxMessages = 2
INVARIANTS
  BuffersAccounted
  BufferHeld
  NoDangling
  CursorSafe
  PurgeFrees
PROPERTY
  PostedAgain
CHECK_DEADLOCK FALSE

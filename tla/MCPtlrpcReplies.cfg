SPECIFICATION FairSpec
CONSTANTS
  rs1 = rs1
  rs2 = rs2
  Replies = {rs1, rs2}
  Hrts = {h1, h2}
  None = None
  MAX_SCHEDULED = 1
  MaxTransno = 2
  rs_transno <- MCTransno
INVARIANTS
  OneOwner
  FreedIsClean
  LocksKeptUntilSafe
PROPERTY
  UnregisterEnds
CHECK_DEADLOCK FALSE

SPECIFICATION SscdtSpec
CONSTANTS
  r1 = r1
  r2 = r2
  r3 = r3
  r4 = r4
  r5 = r5
  Reqs = {r1, r2, r3, r4, r5}
  rq_sent <- MCSent
  nid <- MCNid
  pid <- MCPid
  rq_hp <- MCHp
  Movable = {r3}
  Widths = {3000, 5000}
  U32 = 3000
  Default = 1000
INVARIANTS
  SscdtTypeOK
  HeapHoldsQueued
  StopFindsEmpty
PROPERTY
  ServedInOrder
  StopEnds

SPECIFICATION Spec
CONSTANTS
  Clis = {c1, c2}
  Rules = {r0, r1, r2}
  DefaultRule = r0
  None = None
  Names = {n1}
  Rates = {1}
  MaxSequence = 3
  MaxGeneration = 1
SYMMETRY Symmetry
INVARIANTS
  RefcountExact
  StopTakesEffect
CHECK_DEADLOCK FALSE

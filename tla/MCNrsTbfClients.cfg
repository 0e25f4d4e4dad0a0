SPECIFICATION Spec
CONSTANTS
  Keys = {k1, k2, k3}
  Clis = {c1, c2, c3, c4, c5}
  Threads = {t1, t2, t3}
  None = None
  HighWater = 1
SYMMETRY Symmetry
INVARIANTS
  OneBucketPerKey
  RefcountExact
  LruExact

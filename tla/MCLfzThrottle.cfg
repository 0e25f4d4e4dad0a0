SPECIFICATION Spec
CONSTANTS
  Threads = {t1, t2}
  Rate = 5
  Sizes = {2, 3}
  Width = 4
  Seconds = 2
INVARIANT
  UpperLimit

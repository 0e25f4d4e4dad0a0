SPECIFICATION Spec
CONSTANTS
  Threads = {t1, t2}
  Admin = Admin
  RuleChoices <- MCRuleChoices
  BadCounts <- MCBadCounts
  Second = 1
  PerSec <- MCPerSec
  Null = Null
  Limits = {1, 4}
  RifMax = 4
  MrifUpper = 3
  PoolMax = 3
  IntLimit = 32768
  Horizon = 2
SYMMETRY Symmetry
INVARIANTS
  TypeOK
  RulesAllocated
  PoolOvershootBounded
  TrackedLimitInForce

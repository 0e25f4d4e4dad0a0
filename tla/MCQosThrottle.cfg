SPECIFICATION ThrottleSpec
CONSTANTS
  Senders = {t1, t2}
  Gaps = {0, 1, 5}
  UdelayMax = 2
  UsleepMax = 4
  Msec = 2
  Slack = 1
  Steps <- MCSteps
  Duration = 6
SYMMETRY Symmetry
INVARIANTS
  BoundedDelay
  GapFromPreviousCall

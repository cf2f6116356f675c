SPECIFICATION Spec
CONSTANTS
  TLimit = 6
  OneDay = 8
  Start = 10
  MaxHandling = 2
  MaxTime = 20
INVARIANTS TypeOK UptimeIsEarned UptimeIsCredited
CHECK_DEADLOCK FALSE

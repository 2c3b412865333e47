SPECIFICATION Spec
CONSTANTS
  Timeout = 4
  MaxTime = 16
INVARIANTS
  TimerKept
  NeverOutlives
CHECK_DEADLOCK FALSE

SPECIFICATION Spec
CONSTANTS
  Timeout = 3
  MaxTime = 12
INVARIANTS
  LastsWhenIdle
CHECK_DEADLOCK FALSE

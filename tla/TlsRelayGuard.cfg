SPECIFICATION Spec
CONSTANTS
  MaxUp = 2
  MaxDown = 2
  LineMax = 2
INVARIANTS GuardHeld
CHECK_DEADLOCK FALSE

SPECIFICATION FairSpec
CONSTANTS
  MaxUp = 2
  MaxDown = 2
  LineMax = 2
INVARIANTS Intact OnlyAuthenticated NoClash ClosedWhole Recorded
PROPERTIES Spreads
CHECK_DEADLOCK FALSE

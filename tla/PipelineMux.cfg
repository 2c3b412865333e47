SPECIFICATION Spec
CONSTANTS
  N = 3
  MaxSessions = 4
  MaxData = 1
INVARIANTS
  UniqueIds
  OnePerId
  NoCrossUp
  FirstLapClean
  NoOrphan
CHECK_DEADLOCK FALSE

SPECIFICATION FairSpec
CONSTANTS
  Window = 2
  Volume <- MCVolume
INVARIANTS
  NoOverlap
  InOrder
  CreditConservation
  BoundedBacklog
  CloseLosesNothing
PROPERTIES
  FullTransfer
  CloseSpreads
CHECK_DEADLOCK FALSE

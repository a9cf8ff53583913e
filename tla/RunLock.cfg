SPECIFICATION FairSpec
CONSTANTS
  p1 = p1
  p2 = p2
  p3 = p3
  Proc <- MCProc
  MaxCrashes = 2
INVARIANTS
  MutualExclusionUntilCrash
PROPERTIES
  EveryContenderSettles
CHECK_DEADLOCK FALSE

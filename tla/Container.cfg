SPECIFICATION FairSpec
CONSTANTS
  k1 = k1
  r1 = r1
  Files <- AllFiles
  Calls = {k1}
  MaxFaults = 1
  Runs = {r1}
  Requests <- HereAndAway
  PoolSize = 2
INVARIANTS
  ContextsNest
  LoopLeavesNothing
  CloseReleasesAll
PROPERTIES
  StartEnds
  CloseEnds
  CancelArrives
CHECK_DEADLOCK FALSE

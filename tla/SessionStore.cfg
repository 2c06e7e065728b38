SPECIFICATION MCSpec
CONSTRAINT Planned
CONSTANTS
  m1 = m1
  k1 = k1
  c1 = c1
  t1 = t1
  None = None
  Masters <- OneMaster
  ChildRuns <- OneCall
  Children <- OneChild
  Results <- OneResult
  MaxDeletions = 2
INVARIANTS
  OrphansAreLate
  NothingOutlivesSession
  PreviewsResolve
PROPERTIES
  LastingRecordsAreRemains
CHECK_DEADLOCK FALSE

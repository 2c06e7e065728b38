SPECIFICATION Spec
CONSTANTS
  s1 = s1
  NoRun = NoRun
  Runs = {r1, r2}
  Sessions = {s1}
  SessionOf <- OneSession
  TtlSeconds = 4
  Second = 2
  MaxLate = 1
  Faults <- StoreAndCancel
SYMMETRY Symmetry
INVARIANTS
  LeaseKept
  MutualExclusion
PROPERTIES
  LeaseSpec
CHECK_DEADLOCK FALSE

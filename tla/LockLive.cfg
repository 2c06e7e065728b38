SPECIFICATION FairSpec
CONSTANTS
  s1 = s1
  NoRun = NoRun
  Runs = {r1}
  Sessions = {s1}
  SessionOf <- OneSession
  TtlSeconds = 2
  Second = 2
  MaxLate = 2
  Faults <- AllFaults
INVARIANTS
  TypeOK
  HeartbeatEndsFirst
PROPERTIES
  LossIsNoticed
  ExitEnds
CHECK_DEADLOCK FALSE

SPECIFICATION FairSpec
CONSTANTS
  s1 = s1
  NoRun = NoRun
  Runs = {r1}
  Sessions = {s1}
  SessionOf <- OneSession
  MaxSteps = 3
  Faults <- AllFaults
INVARIANTS
  CompletedHasAllSteps
PROPERTIES
  EveryRequestEnds
CHECK_DEADLOCK FALSE

SPECIFICATION Spec
CONSTANTS
  s1 = s1
  NoRun = NoRun
  Runs = {r1}
  Sessions = {s1}
  SessionOf <- OneSession
  MaxSteps = 1
  Faults <- BeatOnly
INVARIANTS
  FailedHasNoAnswer
CHECK_DEADLOCK FALSE

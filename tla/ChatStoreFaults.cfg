SPECIFICATION Spec
CONSTANTS
  s1 = s1
  NoRun = NoRun
  Runs = {r1, r2}
  Sessions = {s1}
  SessionOf <- OneSession
  MaxSteps = 1
  Faults <- StorePrepareKill
SYMMETRY Symmetry
CONSTRAINT OneCut
INVARIANTS
  LogSerial
  DoneIsTerminal
  EmittedIsSettled
PROPERTIES
  TerminalIsFinal
  WritesUnderLease
CHECK_DEADLOCK FALSE

SPECIFICATION FairSpec
CONSTANTS
  c1 = c1
  c2 = c2
  old = old
  NoCall = NoCall
  OldType = "Plan"
  Calls <- TwoCalls
  Old = old
  Types <- TwoTypes
  MaxSteps = 1
  MaxFaults = 1
INVARIANTS
  ChildSerial
  ListedIsResumable
  ResultIsStored
  DoneIsClosed
PROPERTIES
  CallsReturn
CHECK_DEADLOCK FALSE

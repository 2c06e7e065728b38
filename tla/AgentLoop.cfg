SPECIFICATION FairSpec
CONSTANTS
  MaxTurns = 2
  Attempts = 2
  MaxSaid = 2
  ToolTurns <- ThreeTurns
INVARIANTS
  HistoryIsTalk
  CallsAnswered
PROPERTIES
  NoWorkAfterCancel
  RunEnds
  KeepsContract
CHECK_DEADLOCK FALSE

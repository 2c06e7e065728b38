SPECIFICATION Spec
CONSTANTS
  Seeds <- ThreeRounds
  MaxRuns = 2
  MaxLog = 17
  Turns <- SkillTurn
INVARIANTS
  RangedIsExact
  NothingForgotten
  RecentRoundsKept
  RequestsWellFormed
CHECK_DEADLOCK FALSE

SPECIFICATION Spec
CONSTANTS
  c1 = c1
  c2 = c2
  Callers = {c1, c2}
  MaxTasks = 2
  MaxEdges = 1
PROPERTY DeletedStaysDeleted
CHECK_DEADLOCK FALSE

SPECIFICATION FairSpec
CONSTANTS
  Roots = {d, x}
  Dir = d
  Members = {a, b}
  DstOld = {}
  Kinds = {"move"}
  Faults = {}
  MaxRequests = 2
  MaxTasks = 6
  MaxRetry = 1
  MaxRestarts = 0
CHECK_DEADLOCK FALSE
PROPERTY MoveEmptiesSource

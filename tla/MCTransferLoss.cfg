SPECIFICATION Spec
CONSTANTS
  Roots = {d, x}
  Dir = d
  Members = {a, b}
  DstOld = {}
  Kinds = {"move"}
  Faults = {"put"}
  MaxRequests = 1
  MaxTasks = 3
  MaxRetry = 0
  MaxRestarts = 0
CHECK_DEADLOCK FALSE
INVARIANT NoLoss

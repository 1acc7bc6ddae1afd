SPECIFICATION Spec
CONSTANTS
  Roots = {d, x}
  Dir = d
  Members = {a, b}
  DstOld = {a}
  Kinds = {"copy", "move", "merge"}
  Faults = {"list", "put", "remove", "restart"}
  MaxRequests = 2
  MaxTasks = 3
  MaxRetry = 0
  MaxRestarts = 1
CHECK_DEADLOCK FALSE
INVARIANT PendingCounts
INVARIANT LossNeedsFailure
INVARIANT CopyKeepsSource

SPECIFICATION Spec
CONSTANTS
  Roots = {d, x}
  Dir = d
  Members = {a, b}
  DstOld = {}
  Kinds = {"copy", "move", "merge"}
  Faults = {"list", "put", "remove", "restart"}
  MaxRequests = 2
  MaxTasks = 3
  MaxRetry = 1
  MaxRestarts = 1
CHECK_DEADLOCK FALSE
SYMMETRY Symmetry
INVARIANT PayloadHasGroup
INVARIANT TypeOK
INVARIANT LossNeedsFailure

SPECIFICATION FairSpec
CONSTANTS
  Length = 5
  PartSize = 2
  Concurrency = 2
  Limit = 2
  PartBodyMaxRetries = 0
  Answers = {"ok", "short", "mismatch", "error"}
CHECK_DEADLOCK FALSE
PROPERTY ReadReturns
PROPERTY ClosedWorkersEnd

SPECIFICATION Spec
CONSTANTS
  Length = 5
  PartSize = 2
  Concurrency = 2
  Limit = 2
  PartBodyMaxRetries = 0
  Answers = {"ok", "status"}
CHECK_DEADLOCK FALSE
INVARIANT CloseIsClean

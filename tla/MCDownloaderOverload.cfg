SPECIFICATION FairSpec
CONSTANTS
  Length = 4
  PartSize = 2
  Concurrency = 2
  Limit = 2
  PartBodyMaxRetries = 0
  Answers = {"ok", "status"}
CHECK_DEADLOCK FALSE
PROPERTY ReadReturns

SPECIFICATION Spec
CONSTANTS
  Length = 9
  PartSize = 4
  Concurrency = 3
  Limit = 2
  PartBodyMaxRetries = 1
  Answers = {"ok", "short", "mismatch", "error", "status"}
CHECK_DEADLOCK FALSE
INVARIANT InOrder
INVARIANT ChunksTile
INVARIANT SendsNeverBlock
INVARIANT WorkersHoldSlots

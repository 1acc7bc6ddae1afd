SPECIFICATION FairSpec
CONSTANTS
  Size = 6
  Starts <- MCStarts
  Lengths <- MCLengths
  PartSizes = {2, 4}
  Windows = {0, 2}
  BufSizes = {3}
  NSrc = 2
  Concurrency = 2
  None = None
CHECK_DEADLOCK FALSE
INVARIANT Contiguous
INVARIANT ErrorHasCause
PROPERTY ReadReturns
PROPERTY CloseReturns

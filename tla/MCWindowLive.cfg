SPECIFICATION FairSpec
CONSTANTS
  Writers = {w1, w2}
  Bodies = {a}
  ChunkSize = 1
  TotalSize = 3
  Slots = 2
  None = None
  NoCRC = NoCRC
  NoByte = NoByte
PROPERTY WaitBounded
PROPERTY FrontierConsumed
PROPERTY RingFileRemoved

SPECIFICATION Spec
CONSTANTS
  Writers = {w1, w2}
  Bodies = {a, b}
  ChunkSize = 2
  TotalSize = 5
  Slots = 2
  None = None
  NoCRC = NoCRC
  NoByte = NoByte
SYMMETRY Symmetry
INVARIANT TypeOK
INVARIANT StreamIntact
INVARIANT NoLostWakeup
INVARIANT SnapshotExact
PROPERTY ImplementsStream

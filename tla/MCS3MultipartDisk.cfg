SPECIFICATION Spec
CONSTANTS
  PartNumbers = {1, 2}
  Bodies = {x, y}
  BodyLen = 1
  Reqs = {r1, r2}
  Reaper = Reaper
  MaxSends = 2
  None = None
CHECK_DEADLOCK FALSE
INVARIANT PartsOnDisk

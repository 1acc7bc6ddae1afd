SPECIFICATION Spec
CONSTANTS
  a = a
  b = b
  Elems = {a, b}
  Names <- MCNames
  Durations <- MCDurations
  Base <- RootBase
  Reqs = {r1, r2}
  MaxGen = 3
  MaxClock = 1
  None = None
SYMMETRY Symmetry
CHECK_DEADLOCK FALSE
INVARIANT ExclusiveAccess
INVARIANT RefCounts
INVARIANT HeldStays
INVARIANT NoLeakedLock

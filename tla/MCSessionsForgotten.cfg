SPECIFICATION Spec
CONSTANTS
  Sids = {1}
  Clients = {c1, c2}
  c1 = c1
  c2 = c2
  f1 = f1
  f2 = f2
  h1 = h1
  File <- MCFile
  Hash <- MCHash
  Reqs = {r1, r2}
  Gc = Gc
  Total = 1
  MaxAttempt = 1
  MaxRequests = 4
  NoHash = NoHash
  Null = Null
SYMMETRY Symmetry
CHECK_DEADLOCK FALSE
INVARIANT ForgottenIsStopped

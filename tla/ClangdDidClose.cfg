SPECIFICATION Spec
CONSTANTS
  Sessions = {s1, s2, s3}
  Nobody = Nobody
  f1 = f1  f2 = f2  f3 = f3  c1 = c1  c2 = c2
  Files = {f1, f2, f3}
  Contents = {c1, c2}
  Requests <- AllRequests
  Workloads <- Mixed
  MaxMessages = 14
  Faults = {}
SYMMETRY SessionSymmetry
INVARIANT DeletedIsClosed
CHECK_DEADLOCK FALSE

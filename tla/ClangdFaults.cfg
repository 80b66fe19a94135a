SPECIFICATION FairSpec
CONSTANTS
  Sessions = {s1, s2}
  Nobody = Nobody
  f1 = f1  f2 = f2  f3 = f3  c1 = c1  c2 = c2
  Files = {f1, f2, f3}
  Contents = {c1, c2}
  Requests <- AllRequests
  Workloads <- Mixed
  MaxMessages = 14
  Faults = {"notFound", "spawnFails", "dies", "error", "malformed"}
PROPERTY Answered
CHECK_DEADLOCK FALSE

SPECIFICATION FairSpec
CONSTANTS
  c1 = c1
  c2 = c2
  c3 = c3
  s1 = s1
  s2 = s2
  s3 = s3
  p1 = p1
  p2 = p2
  Callers = {c1, c2, c3}
  Sessions = {s1, s2, s3}
  Pools = {p1, p2}
  PoolOf <- TwoProcesses
  MaxConns = 1
  None = None
  N = 1
  Faults <- AllButCancelRelease
  MaxXid = 3
INVARIANTS TypeOK AtMostN Fenced PoolClean
PROPERTIES ImplementsContract GrantedIsFreed AcquireReturns
CHECK_DEADLOCK FALSE

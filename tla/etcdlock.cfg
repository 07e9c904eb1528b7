SPECIFICATION FairSpec
CONSTANTS
  c1 = c1
  c2 = c2
  l1 = l1
  l2 = l2
  l3 = l3
  Callers = {c1, c2}
  Leases = {l1, l2, l3}
  None = None
  N = 2
  Faults <- Connected
  MaxRev = 2
  MaxLate = 1
INVARIANTS TypeOK MutualExclusion Fenced KeptWhileContextLives
PROPERTIES KeyFreed
CHECK_DEADLOCK FALSE

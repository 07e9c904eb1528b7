SPECIFICATION Spec
CONSTANTS
  c1 = c1
  c2 = c2
  l1 = l1
  l2 = l2
  l3 = l3
  Callers = {c1, c2}
  Leases = {l1, l2, l3}
  None = None
  N = 1
  Faults <- OnlyContext
  MaxRev = 3
  MaxLate = 1
INVARIANTS HealthyHolderKeepsLock
CHECK_DEADLOCK FALSE

SPECIFICATION Spec
CONSTANTS
  c1 = c1
  c2 = c2
  c3 = c3
  i1 = i1
  i2 = i2
  i3 = i3
  i4 = i4
  Callers = {c1, c2}
  Inodes = {i1, i2, i3, i4}
  None = None
  N = 1
  UnlinkOpen = TRUE
  Ends <- OnlyRelease
  Faults <- NoFaults
  MaxFence = 2
INVARIANTS AtMostN
CHECK_DEADLOCK FALSE

SPECIFICATION Spec
CONSTANTS
  c1 = c1
  c2 = c2
  c3 = c3
  i1 = i1
  i2 = i2
  i3 = i3
  i4 = i4
  Callers = {c1, c2, c3}
  Inodes = {i1, i2, i3, i4}
  None = None
  N = 2
  UnlinkOpen = FALSE
  Ends <- BothEnds
  Faults <- AllButRead
  MaxFence = 3
SYMMETRY Symmetry3
INVARIANTS TypeOK OpenFileIsLinked AtMostN
PROPERTIES ImplementsContract
CHECK_DEADLOCK FALSE

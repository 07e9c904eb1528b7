SPECIFICATION FairJobSpec
CONSTANTS
  c1 = c1
  c2 = c2
  v1 = v1
  v2 = v2
  v3 = v3
  p1 = p1
  Callers = {c1, c2}
  Processes = {p1}
  ProcOf <- OneProcess
  Values = {v1, v2, v3}
  NoKey = NoKey
  N = 2
  TTL = 2
  Overrun <- OnlyHeld
  Faults <- AllFaults
  MaxFence = 1
  MaxLate = 1
INVARIANTS TypeOK Fenced JobTypeOK GaugeExact
PROPERTIES LostOnlyByExpiry NeverRegained OneNil OrphanFreed
CHECK_DEADLOCK FALSE

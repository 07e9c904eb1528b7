SPECIFICATION Spec
CONSTANTS
  a1 = a1
  a2 = a2
  b1 = b1
  c1 = c1
  s1 = s1
  Callers <- ABCS
  Sweepers <- OnlyS
  Processes <- ABCS
  ProcOf <- Self
  UpAtStart <- ABCS
  PidOf <- Pids
  StartOf <- Starts
  MachineOf <- OneMachine
  HostOf <- OneHost
  UidOf <- OneUser
  BootView <- OneBoot
  HasStartTime = TRUE
  Strategy = "PIDFirst"
  StaleAfter = 0
  N = 2
  FenceMod = 100
  CrashAt <- NoLabel
  Faults <- AllFaults
  Absent = Absent
  MaxFence = 1
  MaxTime = 1
SYMMETRY Lockers3
INVARIANTS TypeOK MutualExclusion HolderKeepsMarker AtMostN

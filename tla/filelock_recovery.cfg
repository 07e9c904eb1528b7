SPECIFICATION FairSpec
CONSTANTS
  a1 = a1
  a2 = a2
  b1 = b1
  c1 = c1
  s1 = s1
  Callers <- ABCS
  Sweepers <- OnlyS
  Processes <- ABCS
  ProcOf <- Self
  UpAtStart <- ABS
  PidOf <- ReusedPids
  StartOf <- Starts
  MachineOf <- TwoMachines
  HostOf <- TwoHosts
  UidOf <- OneUser
  BootView <- OneBoot
  HasStartTime = TRUE
  Strategy = "PIDFirst"
  StaleAfter = 0
  N = 2
  FenceMod = 2
  CrashAt <- CrashPoints
  Faults <- SweepFails
  Absent = Absent
  MaxFence = 2
  MaxTime = 1
INVARIANTS JudgedDead
PROPERTIES DeadMarkerReclaimed AcquireReturns
CHECK_DEADLOCK FALSE

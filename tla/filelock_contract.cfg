SPECIFICATION Spec
CONSTANTS
  a1 = a1
  a2 = a2
  b1 = b1
  c1 = c1
  s1 = s1
  Callers <- Four
  Sweepers <- OnlyS
  Processes <- ABS
  ProcOf <- FourProc
  UpAtStart <- ABS
  PidOf <- Pids
  StartOf <- Starts
  MachineOf <- OneMachine
  HostOf <- OneHost
  UidOf <- OneUser
  BootView <- OneBoot
  HasStartTime = TRUE
  Strategy = "PIDFirst"
  StaleAfter = 1
  N = 1
  FenceMod = 100
  CrashAt <- NoLabel
  Faults <- Nobody
  Absent = Absent
  MaxFence = 3
  MaxTime = 3
PROPERTIES FenceStrict ImplementsContract

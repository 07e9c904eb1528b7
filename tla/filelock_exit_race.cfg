SPECIFICATION Spec
CONSTANTS
  a1 = a1
  a2 = a2
  b1 = b1
  c1 = c1
  s1 = s1
  Callers <- ABC
  Sweepers <- Nobody
  Processes <- ABC
  ProcOf <- Self
  UpAtStart <- ABC
  PidOf <- Pids
  StartOf <- Starts
  MachineOf <- OneMachine
  HostOf <- OneHost
  UidOf <- OneUser
  BootView <- OneBoot
  HasStartTime = TRUE
  Strategy = "PIDFirst"
  StaleAfter = 0
  N = 1
  FenceMod = 100
  CrashAt <- OnlyIdle
  Faults <- Nobody
  Absent = Absent
  MaxFence = 3
  MaxTime = 1
INVARIANTS MutualExclusion
CHECK_DEADLOCK FALSE

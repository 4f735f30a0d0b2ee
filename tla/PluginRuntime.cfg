SPECIFICATION FairSpec
CONSTANTS
  w1 = w1
  w2 = w2
  Main = main
  Supervisor = supervisor
  None = none
  Partial = partial
  Workers <- MCWorkers
  Pids <- MCPids
  Pythons <- MCPythons
  CrashMax = 2
  Window = 1
  CgroupKill = TRUE
  MaxOps = 2
  MaxExits = 2
  MaxBoots = 2
INVARIANTS Owned StopHolds CrashBound ReadyToRun
PROPERTIES ImplementsSwap OperationsEnd ExitNoticed
CHECK_DEADLOCK FALSE

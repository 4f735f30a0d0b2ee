SPECIFICATION Spec
CONSTANTS
  w1 = w1
  w2 = w2
  Main = main
  Supervisor = supervisor
  None = none
  Partial = partial
  Workers <- MCWorkers
  Pids <- MCPids
  Pythons <- MCPythons
  CrashMax = 2
  Window = 1
  CgroupKill = FALSE
  MaxOps = 2
  MaxExits = 2
  MaxBoots = 2
INVARIANT RunsOnce
CHECK_DEADLOCK FALSE

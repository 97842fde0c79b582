SPECIFICATION Spec
CONSTANTS
  c1 = c1
  c2 = c2
  c3 = c3
  Conns <- ThreeConns
  Cmds <- EveryCmd
  Monitor = monitor
  Shutdown = shutdown
  NoTask = noTask
  Windows = TRUE
  OsMayFail = FALSE
  CheckEvery = 1
  Timeout = 0
  SleepGap = 1
  SuspendLengths <- NoSuspends
  MaxSuspends = 0
  MaxCrashes = 1
  MaxBoots = 2
SYMMETRY ConnSymmetry
INVARIANTS RunnerTypeOK OneCore NoCoreWithoutService StatusConsistent StartReplacesAll

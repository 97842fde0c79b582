SPECIFICATION FairSpec
CONSTANTS
  c1 = c1
  c2 = c2
  c3 = c3
  Conns <- TwoConns
  Cmds <- EveryCmd
  Monitor = monitor
  Shutdown = shutdown
  NoTask = noTask
  Windows = FALSE
  OsMayFail = FALSE
  CheckEvery = 1
  Timeout = 2
  SleepGap = 2
  SuspendLengths <- ShortAndLong
  MaxSuspends = 1
  MaxCrashes = 0
  MaxBoots = 1
INVARIANTS NoCoreWithoutService
PROPERTIES NoAlarmAfterSuspend OrphanStopped CommandsAnswered ShutdownCompletes

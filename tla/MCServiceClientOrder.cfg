SPECIFICATION ClientSpec
CONSTANTS
  a = a
  b = b
  Clients <- TwoCalls
  Conns <- OneRetry
  MaxRetries = 1
  Cmds <- Switches
  Monitor = monitor
  Shutdown = shutdown
  NoTask = noTask
  Windows = FALSE
  OsMayFail = TRUE
  CheckEvery = 1
  Timeout = 0
  SleepGap = 1
  SuspendLengths <- NoSuspends
  MaxSuspends = 0
  MaxCrashes = 0
  MaxBoots = 1
ACTION_CONSTRAINT TimeStandsStill
INVARIANTS AnswerIsFinal
PROPERTIES ImplementsCoreSlot

SPECIFICATION FairSpec
CONSTANTS
  a = a
  Conns = {a}
  ThreadCount = 2
  QueueSize = 1
  Batch = 2
  MaxConns = 1
  SleepSuffices = TRUE
  Faults = {"spawn"}
PROPERTY FailedStartExits
CHECK_DEADLOCK FALSE

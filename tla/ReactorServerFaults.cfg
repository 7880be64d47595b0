SPECIFICATION FairSpec
CONSTANTS
  a = a
  b = b
  d = d
  Conns = {a, b, d}
  ThreadCount = 2
  QueueSize = 1
  Batch = 2
  MaxConns = 1
  SleepSuffices = FALSE
  Faults = {"epoll_create", "spawn", "stale_id", "spawn_accept", "listen", "accept", "add", "wait"}
INVARIANT TypeOK
INVARIANT NoUseAfterFree
INVARIANT OneOwner
INVARIANT ClosedUnlessQueued
PROPERTY ImplementsLifecycle
PROPERTY ShutdownCompletes
PROPERTY AcceptedServed
CHECK_DEADLOCK FALSE

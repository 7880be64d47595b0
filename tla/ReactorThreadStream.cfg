SPECIFICATION FairSpec
CONSTANTS
  a = a
  Conns = {a}
  MaxConns = 1
  BufSize = 3
  Batch = 2
  MaxEvents = 2
  TimerEvery = 2
  SendSpace = 2
  Faults = {"cas", "eintr", "idle", "fin", "reset"}
  MaxBytes = 5
  Window = 5
INVARIANT StreamIntact
PROPERTY OutputSent
PROPERTY EchoedUnlessParked
PROPERTY IdleClosed

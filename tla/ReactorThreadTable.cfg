SPECIFICATION Spec
CONSTANTS
  a = a
  b = b
  d = d
  Conns = {a, b, d}
  MaxConns = 2
  BufSize = 2
  Batch = 2
  MaxEvents = 2
  TimerEvery = 2
  SendSpace = 1
  Faults = {"add", "cas", "eintr", "wait", "idle", "fin", "reset", "stop"}
  MaxBytes = 1
  Window = 1
SYMMETRY ConnSymmetry
INVARIANT TypeOK
INVARIANT NoDanglingUse
INVARIANT OwnedOnce
PROPERTY ImplementsLifecycle
CHECK_DEADLOCK FALSE

SPECIFICATION Spec
CONSTANTS
  Clients = {c1, c2}
  Workers = {w1, w2}
  MaxConnections = 2
  BufSize = 4
  Prefix = 1
  MaxEvents = 2
  SendSpace = 1
  MaxBytes = 1
  Faults = {"watch", "nomem", "fin", "reset"}
INVARIANTS TypeOK OneOperation EchoInOrder
SYMMETRY WorkerSymmetry
CHECK_DEADLOCK FALSE

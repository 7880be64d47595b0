SPECIFICATION FairSpec
CONSTANTS
  Clients = {c1}
  Workers = {w1}
  MaxConnections = 1
  BufSize = 4
  Prefix = 1
  MaxEvents = 2
  SendSpace = 1
  MaxBytes = 4
  Faults = {"create", "refuse", "watch", "nomem", "full", "fin", "reset", "signal"}
INVARIANTS EchoInOrder
PROPERTIES EndsClosed InputConsumed Ends
CHECK_DEADLOCK FALSE

SPECIFICATION Spec
CONSTANTS
  Clients = {c1, c2}
  Workers = {w1}
  MaxConnections = 1
  BufSize = 4
  Prefix = 1
  MaxEvents = 2
  SendSpace = 1
  MaxBytes = 1
  Faults = {"reset"}
INVARIANT ReplyToSender
CHECK_DEADLOCK FALSE

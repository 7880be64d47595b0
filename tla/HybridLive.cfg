SPECIFICATION FairSpec
CONSTANTS
  NumClients = 2
  NumBlocks = 1
  NumWorkers = 1
  BufSize = 2
  Prefix = 0
  MaxBytes = 2
  MaxOpen = 1
  Active = {1}
  SendSpace = 1
  Faults = {"start", "accept", "refuse", "add", "wait", "full", "fin", "reset", "signal"}
INVARIANTS TypeOK RemovalSafe OwnedOnce EchoInOrder
PROPERTIES OutputSent InputRead EndedClosed Ends
CHECK_DEADLOCK FALSE

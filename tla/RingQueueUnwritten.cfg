SPECIFICATION Spec
CONSTANTS
  p1 = p1
  c1 = c1
  Producers = {p1}
  Consumers = {c1}
  Observers = {}
  PushOps = {"push"}
  PopOps = {"pop_batch"}
  Size = 2
  Modulus = 8
  Start = 6
  Batch = 2
  MaxItems = 4
  MaxFails = 1
INVARIANT PopReturnsPushed

SPECIFICATION Spec
CONSTANTS
  p1 = p1
  p2 = p2
  c1 = c1
  c2 = c2
  Producers = {p1, p2}
  Consumers = {c1, c2}
  Observers = {}
  PushOps = {"push_batch"}
  PopOps = {"pop", "pop_batch"}
  Size = 2
  Modulus = 8
  Start = 6
  Batch = 2
  MaxItems = 3
  MaxFails = 0
SYMMETRY ThreadSymmetry
INVARIANT OccupancyBounded
INVARIANT TicketsOwnedOnce
INVARIANT DeliveredExactly
PROPERTY OnlyBatchLapped
PROPERTY ImplementsTickets

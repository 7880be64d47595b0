SPECIFICATION FairSpec
CONSTANTS
  p1 = p1
  c1 = c1
  o1 = o1
  Producers = {p1}
  Consumers = {c1}
  Observers = {o1}
  PushOps = {"push", "push_batch"}
  PopOps = {"pop", "pop_batch"}
  Size = 2
  Modulus = 8
  Start = 6
  Batch = 2
  MaxItems = 5
  MaxFails = 1
INVARIANT TypeOK
INVARIANT PublishedIntact
PROPERTY FailOnlyWhenFull
PROPERTY ProbesErrOneWay
PROPERTY EveryTicketTaken

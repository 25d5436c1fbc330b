CONSTANTS
  q1 = q1
  s1 = s1
  s2 = s2
  NULL = NULL
  Queues = {q1}
  JobIds = {1, 2}
  Sessions = {s1, s2}
  QueueOptions <- RetryQueues
  SendOptions <- MixedSends
  BatchSizes = {1, 2}
  MaxClock = 2
SPECIFICATION Spec
SYMMETRY SessionSymmetry
INVARIANTS
  TypeOK
  RowLocksExclusive
  NoOrphans
  DeliveryAccounting
  DeliveriesBounded
  StampsMatchState
  NotStartedEarly
PROPERTIES
  TerminalIsFinal
  RemovedOnlyWhenDue
  NotifyOnArrival
  ImplementsLifecycle

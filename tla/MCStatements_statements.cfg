CONSTANTS
  q1 = q1
  s1 = s1
  s2 = s2
  NULL = NULL
  Queues = {q1}
  JobIds = {1, 2}
  Sessions = {s1, s2}
  NewRows <- RetriedOnce
  BatchSizes = {1, 2}
  MaxClock = 1
  MaxCalls = 4
SPECIFICATION Spec
INVARIANTS
  TypeOK
  OneEndPerDelivery
  QueueOutlivesJobs
  BestFirst
  
PROPERTIES
  CallsImplementLifecycle
CHECK_DEADLOCK FALSE

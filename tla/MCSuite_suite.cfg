CONSTANTS
  q1 = q1
  main = main
  t1 = t1
  t2 = t2
  v1 = v1
  v2 = v2
  NULL = NULL
  Unbound = Unbound
  Empty = Empty
  Broken = Broken
  Queues = {q1}
  Main = main
  Threads = {t1}
  Sessions = {main, t1}
  Vars = {v1, v2}
  Withins <- SomeWait
  JobIds = {1}
  QueueOptions <- RetryingQueues
  SendOptions <- PlainSends
  BatchSizes = {1}
  MaxClock = 1
  MaxSteps = 4
  MaxFiles = 2
  Respawn = FALSE
SPECIFICATION SuiteSpec
INVARIANTS
  SuiteTypeOK
  OneDeliveryOneVariable
  AllJoined
  LeavesNothing
  OwnJobsOnly
  ExitTellsAll
PROPERTIES
  SuiteEnds
  PollersTakeReadyJobs
CHECK_DEADLOCK FALSE

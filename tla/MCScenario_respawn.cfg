CONSTANTS
  q1 = q1
  main = main
  t1 = t1
  t2 = t2
  v1 = v1
  v2 = v2
  NULL = NULL
  Unbound = Unbound
  Empty = Empty
  Broken = Broken
  Queues = {q1}
  Main = main
  Threads = {t1, t2}
  Sessions = {main, t1, t2}
  Vars = {v1, v2}
  Withins <- NoWait
  JobIds = {1}
  QueueOptions <- RetryingQueues
  SendOptions <- PlainSends
  BatchSizes = {1}
  MaxClock = 0
  MaxSteps = 2
  Respawn = TRUE
SPECIFICATION ScenarioSpec
INVARIANTS
  AllJoined
CHECK_DEADLOCK FALSE

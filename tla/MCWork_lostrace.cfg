CONSTANTS
  q1 = q1
  w1 = w1
  w2 = w2
  p1 = p1
  m1 = m1
  NULL = NULL
  Queues = {q1}
  Target = q1
  Workers = {w1, w2}
  Producers = {p1}
  Janitors = {}
  Sessions = {w1, w2, p1}
  JobIds = {1}
  QueueOptions <- PromptQueues
  SendOptions <- PlainSends
  BatchSizes = {1}
  MaxClock = 0
  MaxStops = 1
SPECIFICATION NoRestartSpec
INVARIANTS
  NoSleepingOnWork
CHECK_DEADLOCK FALSE

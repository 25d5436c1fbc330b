CONSTANTS
  NULL = NULL
  Settings <- SomeSettings
  Slowest = 3
  MaxClock = 20
  MaxEvents = 3
SPECIFICATION Spec
INVARIANTS
  TypeOK
  SweptInTime
  NoCrashLoop
CHECK_DEADLOCK FALSE

SPECIFICATION AClintSpec
CONSTANTS
  Closures <- MCClosures
  Delays = {0}
  MaxTasks = 2
  MaxTime = 2
  NoTask = NoTask
  CoreCount = 1
  SCmps = {1, 2, 15}
  MCmps = {1, 15}
  SwiValues = {TRUE}
  Scale = 1
  Width = 4
  MaxOps = 2
  MaxRuns = 2
INVARIANTS
  AClintTypeOK
  NeverBeforeEveryDeadline
PROPERTIES
  SupervisorTimerIsServed
CHECK_DEADLOCK FALSE

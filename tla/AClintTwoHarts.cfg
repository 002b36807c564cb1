SPECIFICATION AClintSpec
CONSTANTS
  Closures <- MCClosures
  Delays = {0}
  MaxTasks = 1
  MaxTime = 1
  NoTask = NoTask
  CoreCount = 2
  SCmps = {0}
  MCmps = {}
  SwiValues = {}
  Scale = 1
  Width = 4
  MaxOps = 1
  MaxRuns = 1
PROPERTIES
  SupervisorTimerIsServed
CHECK_DEADLOCK FALSE

SPECIFICATION AClintSpec
CONSTANTS
  Closures <- MCClosures
  Delays = {0}
  MaxTasks = 2
  MaxTime = 2
  NoTask = NoTask
  CoreCount = 1
  SCmps = {2}
  MCmps = {1}
  SwiValues = {}
  Scale = 1
  Width = 4
  MaxOps = 2
  MaxRuns = 1
PROPERTIES
  MachineTimerIsServed
CHECK_DEADLOCK FALSE

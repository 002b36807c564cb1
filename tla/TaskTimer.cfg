SPECIFICATION Spec
CONSTANTS
  Closures = {c}
  Delays = {0, 1, 2}
  MaxTasks = 3
  MaxTime = 3
  NoTask = NoTask
INVARIANTS
  TypeOK
  PopsTheTaskItRan
  NoTaskRunsTwice
  NoTaskIsLost
PROPERTIES
  EveryTaskIsServed
  StopReturns

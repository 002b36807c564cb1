SPECIFICATION Spec
CONSTANTS
  BusOrder <- MCBusOrder
  CoreCount = 2
  Modes = {"M", "S"}
  Uart = Uart
  Blk = Blk
  None = None
  Priorities = {1}
  Thresholds = {0,2}
  Triggers = {1, 2}
  BufferSize = 2
  MaxBytes = 3
  MaxRequests = 1
  MaxWrites = 2
  MaxResets = 1
INVARIANTS
  ExtTypeOK
  ClaimsAreAnnounced
PROPERTIES
  LoweredFlagsAreClaimed
  InterruptsAreServed
CHECK_DEADLOCK FALSE

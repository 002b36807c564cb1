SPECIFICATION Spec
CONSTANTS
  NUM = 2
  INDEX_BITS = 2
  SECTORS = 2
  WRAP_BITS = 2
  Values = {0, 1}
  Requests <- MCRequests
INVARIANTS
  VirtIOTypeOK
  StatusWasWritten
PROPERTIES
  ImplementsBlockQueue
  EveryAnswerIsCollected

CONSTANTS
  CoreCount = 2
  Guest <- GuestCode
  Addresses = {0, 1, 2, 3}
  TrapVector = 3
  Entry = 0
  Commands <- CommandLines
  InterruptFreq = 1
  MaxLines = 5
SPECIFICATION Spec
INVARIANTS MachineAtRest StatusWasReported
PROPERTIES BreakpointsStop RunReturns
CHECK_DEADLOCK FALSE

SPECIFICATION Spec
CONSTANTS
  Harts = {h1, h2}
  Words = {a1}
  Devices = {d1}
  DeviceValues = {{}}
  WIDTH = 2
  Fault = Fault
INVARIANTS
  LrScTypeOK
PROPERTIES
  ImplementsAtomicMemory

SPECIFICATION Spec
CONSTANTS
  Main = {0, 1}
  Entry = 1
  MHandler = 8
  SHandler = 9
  Breakpoints = {0}
  Causes = {"ECALL"}
  HaltingCauses = {}
  Lines = {"TIMER_M", "SOFTWARE_S"}
  MieValues = {{"TIMER_M", "SOFTWARE_S"}}
  MidelegValues = {{"SOFTWARE_S"}}
  MedelegValues = {{"ECALL"}}
  InterruptFreq = 2
  SafeGuest = TRUE
  StepsIntoInterrupts = FALSE
INVARIANTS
  TrapTypeOK
  ResumesWhereItWas
  HandlersLeadBack
PROPERTIES
  InterruptIsTaken

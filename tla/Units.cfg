CONSTANTS
  Byte = 1
  LoadByte <- MCLoadByte
  RegisterValues <- MCRegisterValues
  Immediates <- MCImmediates
  CsrSteps = 2
SPECIFICATION Spec
INVARIANTS
  PartsMakeTheWhole
  CompressedAsExpanded
  TwoCoresAgree
  EveryBitDecodedOnce
  FloatsLeaveTheHostAlone
  ConversionsKeepOrder
  MostSpecificLine
  DependenciesKeepMeaning
PROPERTIES
  CsrsKeepApart
  
CHECK_DEADLOCK FALSE

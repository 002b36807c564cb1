SPECIFICATION Spec
CONSTANTS
  Harts = {h1}
  LEVELS = 2
  VPNBITS = 1
  TLB_SET_BITS = 1
  ICACHE_SET_BITS = 0
  Bare = Bare
  PAGE_FAULT = PAGE_FAULT
  ACCESS_FAULT = ACCESS_FAULT
  Tables <- MCTables
  Vpns <- MCVpns
  Roots <- MCRoots
  InitMem <- MCInitMem
  GuestPtes <- MCGuestPtes
  CodePages <- MCCodePages
  MaxWrites = 1
  MaxStores = 1
  MaxResets = 1
INVARIANTS
  TranslationTypeOK
  CachedCodeIsFresh
PROPERTIES
  ImplementsVirtualMemory
CHECK_DEADLOCK FALSE

CONSTANTS
  PerSector = 4
  PerCluster = 2
  CarryEntries = 6
  MaxFiles = 3
  MaxDepth = 3
  MaxPath = 24
  MaxCalls = 8
  MaxErrors = 1
  Machines <- MCMachines
  MENU_PAGE_SIZE = 2
  Digits = {0, 2}
  MaxKeys = 2
SPECIFICATION Spec
INVARIANTS
  ScanExact
  StackBounded
  StickIdentified
  PageInRange
PROPERTY
  StagesEnd
CHECK_DEADLOCK FALSE

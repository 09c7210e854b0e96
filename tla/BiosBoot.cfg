CONSTANTS
  PerSector = 4
  CarryEntries = 6
  MaxFiles = 5
  MENU_PAGE_SIZE = 2
  Digits = {0, 1}
  MaxKeys = 3
  MaxErrors = 1
  CatalogEntries = 3
  Drives <- MCDrives
  Strangers <- MCStrangers
SPECIFICATION Spec
INVARIANTS
  ScanExact
  PageInRange
  LoadersAgree
  BootsBiosImage
PROPERTY
  StagesEnd
CHECK_DEADLOCK FALSE

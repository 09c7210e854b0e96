CONSTANTS
  U64 <- MCU64
  U32 <- MCU32
  Disks <- SpareSlot
  MaxRuns = 3
  MaxKills = 1
SPECIFICATION Spec
INVARIANTS
  DataKept
  OthersKept
  TableDisjoint
  SuccessMeansBootable
  ShrunkAtMostOnce
CHECK_DEADLOCK FALSE

CONSTANTS
  U64 <- MCU64
  U32 <- MCU32
  Disks <- TakenSlot
  MaxRuns = 1
  MaxKills = 0
SPECIFICATION Spec
INVARIANT
  OthersKept
CHECK_DEADLOCK FALSE

CONSTANTS
  U64 <- MCU64
  Sizes <- SizesSafe
  Styles = {"mbr", "gpt"}
  Reserves = {0, 1}
  Foreign = {"foreign", "prot"}
  MaxRuns = 2
  MaxCrashes = 1
  Automounter = FALSE
SPECIFICATION Spec
INVARIANTS
  SuccessMeansBootable
  TableWellFormed
  ReserveHonoured
PROPERTY
  ImagesLostOnlyByForce
CHECK_DEADLOCK FALSE

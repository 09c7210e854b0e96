CONSTANTS
  U64 <- MCU64
  Sizes <- SizesOne
  Styles = {"gpt"}
  Reserves = {0}
  Foreign = {"blank"}
  MaxRuns = 2
  MaxCrashes = 1
  Automounter = FALSE
SPECIFICATION Spec
INVARIANT
  DetectNeverFails
CHECK_DEADLOCK FALSE

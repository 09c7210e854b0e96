CONSTANTS
  U64 <- MCU64
  Sizes <- SizesOne
  Styles = {"mbr", "gpt"}
  Reserves = {0, 1}
  Foreign = {"blank", "foreign"}
  MaxRuns = 2
  MaxCrashes = 2
  Automounter = TRUE
SPECIFICATION FairSpec
PROPERTY
  UdevComesBack
CHECK_DEADLOCK FALSE

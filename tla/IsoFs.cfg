CONSTANTS
  Images <- MCImages
  Slots = 3
  BundleSectors = 2
  MaxCandidates = 2
  MaxFailures = 1
  MaxEntries = 2
SPECIFICATION FsSpec
INVARIANTS
  ImageIntact
  PoolSafe
  LengthsAgree
  NothingSkipped
  FsAgrees
CHECK_DEADLOCK FALSE

CONSTANTS
  Paths <- MCPaths
  MaxClicks = 4
  MaxReplugs = 1
SPECIFICATION GuiFairSpec
INVARIANTS
  IndexInRange
  OneAtATime
  TargetWasShown
PROPERTY
  LoadingEnds
CHECK_DEADLOCK FALSE

CONSTANTS
  Devices <- MCDevices
  Stick = "stick1"
  Loops <- MCLoops
  NoDevice = "nodevice"
  Retries = 3
  MaxFailures = 1
SPECIFICATION FairSpec
INVARIANTS
  LoopsReleased
  NothingMissed
  GuidDecides
PROPERTY
  InitRuns
CHECK_DEADLOCK FALSE

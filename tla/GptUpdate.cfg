CONSTANTS
  Styles = {"mbr", "gpt"}
  MaxRuns = 3
  MaxStops = 2
  MaxLosses = 1
SPECIFICATION Spec
INVARIANTS
  TableReadable
  ActiveAlways
  OkMeansUpdated
PROPERTY
  TableSwitches
CHECK_DEADLOCK FALSE

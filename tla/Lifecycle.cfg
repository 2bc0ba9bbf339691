CONSTANTS
  Faults = {"Open", "Stop", "Settings", "Marker"}
  MaxLaunches = 3
SPECIFICATION FairSpec
INVARIANTS
  MarkerMeansDurable
  ClosesOnlyWhenComplete
PROPERTIES
  CloseIsAnswered
CHECK_DEADLOCK FALSE

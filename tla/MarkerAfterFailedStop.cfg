CONSTANTS
  Faults = {"Stop"}
  MaxLaunches = 1
SPECIFICATION Spec
INVARIANTS
  MarkerAfterEveryStep
CHECK_DEADLOCK FALSE

CONSTANTS
  Faults = {}
  MaxLaunches = 3
SPECIFICATION Spec
INVARIANTS
  UncheckedLedgerStaysClosed
CHECK_DEADLOCK FALSE

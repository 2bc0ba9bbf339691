CONSTANTS
  a1 = a1
  t1 = t1
  t2 = t2
  n1 = n1
  AccountIds = {a1}
  TransactionIds = {t1, t2}
  TransferIds = {}
  CategoryIds = {c1}
  Names = {n1}
  Cents <- MCCents
  Start <- MCStart
  HistoryCapacity = 2
  Picked = {"Uncleared", "Cleared"}
  MaxSelected = 1
  MaxCommands = 2
  MaxReports = 3
SPECIFICATION ReportSpec
PROPERTIES
  ReportsAreCurrent
CHECK_DEADLOCK FALSE

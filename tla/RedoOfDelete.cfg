CONSTANTS
  a1 = a1
  a2 = a2
  a3 = a3
  t1 = t1
  t2 = t2
  t3 = t3
  t4 = t4
  t5 = t5
  x1 = x1
  x2 = x2
  n1 = n1
  n2 = n2
  n3 = n3
  AccountIds = {a1, a2, a3}
  TransactionIds = {t1, t2, t3, t4, t5}
  TransferIds = {x1, x2}
  CategoryIds = {c1}
  Names = {n1, n2, n3}
  Cents <- MCCents
  Start <- MCStart
  HistoryCapacity = 2
  Picked = {"Uncleared", "Cleared"}
  MaxSelected = 2
  MaxCommands = 3
SPECIFICATION Spec
PROPERTIES
  RedoRepeats
CHECK_DEADLOCK FALSE

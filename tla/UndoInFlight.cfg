CONSTANTS
  Entities = {e1}
  Values = {v0, v1}
  Initial = v0
  MayPanic = FALSE
  HistoryCapacity = 3
  Destructive = {}
  Accounts = {a1}
  StartupAccount = a1
  NoAccount = NoAccount
  TerminalCapacity = 2
  MaxCommands = 3
  Patient = FALSE
SPECIFICATION Spec
PROPERTIES
  UndoMovesItsOwnEntry
CHECK_DEADLOCK FALSE

CONSTANTS
  Entities = {e1}
  Values = {v0, v1}
  Initial = v0
  MayPanic = TRUE
  HistoryCapacity = 2
  Destructive = {v1}
  Accounts = {a1}
  StartupAccount = a1
  NoAccount = NoAccount
  TerminalCapacity = 1
  MaxCommands = 3
  Patient = FALSE
SPECIFICATION Spec
INVARIANTS
  StatusMatchesLedger
  RunsOnce
  HistoryInCommitOrder
PROPERTIES
  EditorClosesAfterCommit
CHECK_DEADLOCK FALSE

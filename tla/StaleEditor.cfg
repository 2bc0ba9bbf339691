CONSTANTS
  Entities = {e1}
  Values = {v0, v1}
  Initial = v0
  MayPanic = FALSE
  HistoryCapacity = 2
  Destructive = {}
  Accounts = {a1, a2}
  StartupAccount = a1
  NoAccount = NoAccount
  TerminalCapacity = 2
  MaxCommands = 2
  Patient = FALSE
SPECIFICATION FairSpec
PROPERTIES
  SubmittedEditorReleased
CHECK_DEADLOCK FALSE

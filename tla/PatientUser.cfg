CONSTANTS
  Entities = {e1}
  Values = {v0, v1}
  Initial = v0
  MayPanic = FALSE
  HistoryCapacity = 4
  Destructive = {}
  Accounts = {a1, a2}
  StartupAccount = a1
  NoAccount = NoAccount
  TerminalCapacity = 1
  MaxCommands = 3
  Patient = TRUE
SPECIFICATION FairSpec
INVARIANTS
  HistoryRoundTrips
PROPERTIES
  RunningSettles
  SubmittedEditorReleased
CHECK_DEADLOCK FALSE

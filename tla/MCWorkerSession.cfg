CONSTANTS
  Entities = {e1}
  Values = {v0, v1}
  Initial = v0
  MayPanic = TRUE
  MaxRequests = 3
SPECIFICATION FairSpec
INVARIANTS
  TypeOK
  RepliesMatchStore
  ExecutedOnce
  CleanStopAnswersEverything
PROPERTIES
  ImplementsService
  StopIsPrompt
  StopReturns
  EveryRequestAnswered
CHECK_DEADLOCK FALSE

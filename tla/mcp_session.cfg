SPECIFICATION FairSpec
CONSTANTS
  tok = tok
  NoToken = NoToken
  NoMessage = NoMessage
  Script <- MCScript
  Requests <- MCRequests
  Retained <- MCRetained
  MaxInFlight = 2
  MaxRetained = 1
  ModernEnabled = TRUE
  TasksEnabled = TRUE
  CloseRuntime = TRUE
CHECK_DEADLOCK FALSE
INVARIANTS
  IdsAndTokensOwned
  NoAnswerLost
  FailureSurfaces
  QuietAfterReturn
PROPERTIES
  ServingEnds

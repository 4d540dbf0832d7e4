CONSTANTS
  Urls <- MCUrls
  NoPort = noport
  Sockets <- MCSockets
  MaxCalls = 4
\* After MaxCalls calls nobody calls again.
CHECK_DEADLOCK FALSE
SPECIFICATION Spec
INVARIANTS TypeOK AnswersItsRequest ReachesTheUrl LoopLeavesNothing
PROPERTIES ResultStands PostReturns

CONSTANTS
  Urls <- HttpsUrls
  NoPort = noport
  Sockets <- MCSockets
  MaxCalls = 2
\* After MaxCalls calls nobody calls again.
CHECK_DEADLOCK FALSE
SPECIFICATION Spec
INVARIANTS ReachesTheUrl

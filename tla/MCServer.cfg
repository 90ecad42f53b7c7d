SPECIFICATION FairSpec
CHECK_DEADLOCK FALSE
CONSTANTS
  Requests = {r1}
  MaxAttempts = 2
  MaxReads = 1
  Exits = {"quit"}
  MaxLives = 2
INVARIANTS
  StoppedIsSilent
  EnabledIsLive
  SocketIsKnown
  HeaderTimerSparesBody
  ChunksArrive
PROPERTIES
  OwnTimerOnly
  RequestsEnd

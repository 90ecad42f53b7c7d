SPECIFICATION FairSpec
CHECK_DEADLOCK FALSE
CONSTANTS
  Sessions = {s1}
  MaxRetries = 2
  MaxChanges = 3
  Models = {m1}
  Observations <- MCObservations
  Settings <- MCSettings
  MaxObservations = 2
INVARIANTS
  EvidenceKept
  RoomLeft
  SessionsCatchUp
PROPERTIES
  QueuesDrain

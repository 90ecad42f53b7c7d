SPECIFICATION Spec
CHECK_DEADLOCK FALSE
CONSTANTS
  s1 = s1
  s2 = s2
  a = a
  b = b
  n1 = n1
  n2 = n2
  Slots = {s1, s2}
  NoSlot = NoSlot
  Ids <- MCIds
  NoId = NoId
  Fresh <- MCFresh
  Frames <- MCFrames
  MaxHold = 2
  MaxFrames = 3
  MaxAttempts = 2
INVARIANTS
  IdsApart
  SearchesReported
PROPERTIES
  ClientSeesOneStream

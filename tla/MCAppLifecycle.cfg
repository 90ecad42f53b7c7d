SPECIFICATION FairSpec
CHECK_DEADLOCK FALSE
CONSTANTS
  Source = {"click", "exit", "signal"}
  MaxGen = 4
INVARIANTS
  ProjectedIsAnswered
  WorkersInReach
PROPERTIES
  OperationsEnd

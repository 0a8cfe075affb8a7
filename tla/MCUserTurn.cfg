SPECIFICATION FairSpec
CONSTANTS
  Suppression = 2
  Batches = 3
  Operators = 2
  Starts = 1
INVARIANTS
  AtMostOneLateAnswer
PROPERTIES
  OnlyTheTurnInFlight
  EveryBatchReported
CHECK_DEADLOCK FALSE

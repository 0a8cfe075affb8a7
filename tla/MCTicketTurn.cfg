SPECIFICATION Spec
CONSTANTS
  Suppression = 1
  Kinds = {"text", "file"}
  MaxInputs = 3
  MaxReplies = 2
  MaxFailures = 1
INVARIANTS
  TypeOK
  WatermarksJustified
PROPERTIES
  PendingUntilDelivered
  NoSecondAnswer
  OperatorWindowRespected
CHECK_DEADLOCK FALSE

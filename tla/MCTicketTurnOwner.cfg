SPECIFICATION Spec
CONSTANTS
  Suppression = 1
  Kinds = {"text"}
  MaxInputs = 3
  MaxReplies = 2
  MaxFailures = 1
PROPERTIES
  RecordedOwnerRespected
CHECK_DEADLOCK FALSE

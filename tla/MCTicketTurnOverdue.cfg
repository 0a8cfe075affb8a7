SPECIFICATION CalmSpec
CONSTANTS
  Suppression = 1
  Kinds = {"text"}
  MaxInputs = 2
  MaxReplies = 2
  MaxFailures = 1
PROPERTIES
  OverdueServed
CHECK_DEADLOCK FALSE

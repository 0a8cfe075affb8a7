SPECIFICATION FairSpec
CONSTANTS
  Suppression = 1
  Kinds = {"shot", "huge"}
  MaxInputs = 2
  MaxReplies = 2
  MaxFailures = 1
PROPERTIES
  MediaDelivered
  CustomerServed
CHECK_DEADLOCK FALSE

SPECIFICATION IntakeSpec
CONSTANTS
  User = {u1}
  Kind = {"text", "image", "pdf"}
  Limit = 3
  MaxMessages = 4
  MaxUpdates = 4
  Scenarios <- MCScenarios
INVARIANTS
  NothingLostOrRepeated
  NoAttachmentDropped
  DrainedMeansIdle
  UpdatesAccounted
PROPERTIES
  QuietBeforeTimer
  BatchLeaves
CHECK_DEADLOCK FALSE

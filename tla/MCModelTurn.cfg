SPECIFICATION Spec
CONSTANTS
  a = a
  b = b
  Caller = {a, b}
  MaxSessions = 2
  MaxHistory = 4
  Providers = 2
  MaxIterations = 2
  Identified = {"delete"}
  Spellings = {1, 2}
  Scenarios <- MCScenarios
INVARIANTS
  TypeOK
  DeletedOnce
  SnapshotFresh
  SessionsAccounted
  ResetHolds
  HistoryMatches
PROPERTIES
  OwnSessionReplaced
  TurnEnds
CHECK_DEADLOCK FALSE

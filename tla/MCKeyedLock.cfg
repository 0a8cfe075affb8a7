SPECIFICATION FairSpec
CONSTANTS
  Caller = {c1, c2, c3}
  Id = {u1, u2}
  Entry = {e1, e2, e3}
  NoEntry = NoEntry
INVARIANTS
  EntriesAccounted
  TokenAccounted
PROPERTIES
  EveryWaiterAnswered
  ImplementsMutex

SPECIFICATION Spec
CONSTANTS
  tg = tg
  cab = cab
  k1 = k1
  k2 = k2
  k3 = k3
  NoTicket = NoTicket
  w1 = w1
  w2 = w2
  User = {tg, cab}
  Cabinet = {cab}
  Ticket = {k1, k2, k3}
  Owner <- MCOwner
  Worker = {w1, w2}
  MaxCalls = 4
  MaxTopics = 3
  MaxDeletions = 1
  MaxFaults = 1
SYMMETRY Workers
INVARIANTS
  TopicsAccounted
  RouteSettles
  DeletionLosesNoReport
CHECK_DEADLOCK FALSE

SPECIFICATION FairSpec
CONSTANTS
  Ticket = {t1, t2}
  Worker = {w1, w2, w3}
  MaxSlots = 1
INVARIANTS
  OneWorkerPerTicket
  NoLostWakeup
  SlotsCountTurns
  DrainedMeansIdle
PROPERTIES
  RequestServed
  CancelledWorkersEnd

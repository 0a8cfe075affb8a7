------------------------- MODULE MCTicketScheduler -------------------------
(* Two tickets compete for one slot, so a turn of one delays the other;    *)
(* three goroutines, because one that has left its loop may still have to  *)
(* run wg.Done while its ticket has a new one.                             *)
EXTENDS TicketScheduler
=============================================================================

---------------------------- MODULE MCTicketTurn ----------------------------
(* Three inputs: a question, an operator and what follows; or two          *)
(* attachments around a failure.  Two replies to a message, so that a      *)
(* second one is possible; a window and a cap of one tick, so that both    *)
(* are inside and over within a few steps.                                 *)
EXTENDS TicketTurn
=============================================================================

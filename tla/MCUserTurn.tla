----------------------------- MODULE MCUserTurn -----------------------------
(* Three batches: one sending, one in line behind it and one that arrives  *)
(* later; two operators, so that a second message renews the window.       *)
EXTENDS UserTurn
=============================================================================

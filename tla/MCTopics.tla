------------------------------ MODULE MCTopics ------------------------------
(* A customer of Telegram with a ticket and one of the cabinet with two;   *)
(* two goroutines, which may be of one customer and in one topic.          *)
EXTENDS Topics, TLC

CONSTANTS tg, cab, k1, k2, k3, w1, w2

Workers == Permutations({w1, w2})

MCOwner == k1 :> tg @@ k2 :> cab @@ k3 :> cab
=============================================================================

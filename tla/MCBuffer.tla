------------------------------ MODULE MCBuffer ------------------------------
(* One user, four messages of three kinds: a full batch and the beginning  *)
(* of the next, or a batch cut by an attachment while the callback of its  *)
(* timer waits.  Users share only b.mu, the closing and the wait group.    *)
EXTENDS Intake

(* A burst; one of text and one with /start, and a process that ends; three*)
(* updates over three processes, with a failed request.                    *)
MCScenarios ==
  {[waiting |-> 4, more |-> 0, kinds |-> Kind,
    failures |-> 0, stops |-> FALSE, starts |-> 0],
   [waiting |-> 4, more |-> 0, kinds |-> {"text"},
    failures |-> 0, stops |-> TRUE, starts |-> 0],
   [waiting |-> 3, more |-> 0, kinds |-> Kind \cup {"/start"},
    failures |-> 0, stops |-> TRUE, starts |-> 0],
   [waiting |-> 1, more |-> 2, kinds |-> {"text"},
    failures |-> 1, stops |-> TRUE, starts |-> 2]}
=============================================================================

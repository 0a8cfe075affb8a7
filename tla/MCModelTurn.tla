---------------------------- MODULE MCModelTurn ----------------------------
EXTENDS ModelTurn

CONSTANTS a, b

Quiet == [turns |-> {a, b}, candidates |-> 2, past |-> FALSE, tools |-> {}, calls |-> 0,
          clears |-> 0, faults |-> 0, evicts |-> FALSE, breaks |-> FALSE, stops |-> FALSE]

Calls == Tool \X {1}

(* One turn with everything; one with a deletion spelled in two ways; two  *)
(* with tools; two with lost sessions; two with /start; two with days      *)
(* between them; a picture that one provider takes, and one that none does.*)
MCScenarios ==
  {[Quiet EXCEPT !.turns = {a}, !.past = TRUE, !.tools = Calls, !.calls = 2,
                 !.faults = 1, !.breaks = TRUE, !.stops = TRUE],
   [Quiet EXCEPT !.turns = {a}, !.tools = {"delete"} \X {1, 2}, !.calls = 2,
                 !.breaks = TRUE],
   [Quiet EXCEPT !.past = TRUE, !.tools = Calls, !.calls = 2],
   [Quiet EXCEPT !.tools = {<<"list", 1>>}, !.calls = 2, !.breaks = TRUE],
   [Quiet EXCEPT !.past = TRUE, !.clears = 1, !.faults = 1],
   [Quiet EXCEPT !.past = TRUE, !.faults = 1, !.evicts = TRUE],
   [Quiet EXCEPT !.candidates = 1, !.tools = {<<"delete", 1>>}, !.calls = 1,
                 !.breaks = TRUE],
   [Quiet EXCEPT !.turns = {a}, !.candidates = 0]}
=============================================================================

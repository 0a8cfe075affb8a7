---------------------------- MODULE MCFaqIndex ----------------------------
EXTENDS FaqIndex

CONSTANTS f1, f2, small, smaller, large, c1, c2

MCSettings == {[faq |-> f1, model |-> small], [faq |-> f2, model |-> small],
               [faq |-> f1, model |-> smaller], [faq |-> f1, model |-> large]}
MCDimension == [m \in Model |-> IF m = large THEN 2 ELSE 1]
Symmetry == Permutations(Caller) \cup Permutations(Text)
=============================================================================

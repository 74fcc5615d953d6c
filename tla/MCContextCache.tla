--------------------------- MODULE MCContextCache ---------------------------
(* TLC instances of ContextCache: parameter sets that differ in one field. *)
EXTENDS ContextCache, TLC

Base   == [degree |-> 16384, bits |-> <<60, 30, 30, 60>>, scale |-> 30]
Scaled == [Base EXCEPT !.scale = 40]
Short  == [Base EXCEPT !.bits = <<60, 40, 60>>]

Odd    == [Base EXCEPT !.degree = 1]

TwoParams  == {Base, Scaled}
FourParams == {Base, Scaled, Short, Odd}

(* A power of two to semantic_validation.py, no ring degree to contextGen. *)
Refused == {Odd}

ThreadSymmetry == Permutations(Threads)
=============================================================================

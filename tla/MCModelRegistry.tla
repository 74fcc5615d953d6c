-------------------------- MODULE MCModelRegistry --------------------------
(* TLC instances of ModelRegistry.                                         *)
EXTENDS ModelRegistry, TLC

CONSTANTS logistic, v1, v2

Good == [parses |-> TRUE, shape |-> TRUE, id |-> logistic, version |-> v1,
         degree |-> 4, scale |-> 1, chain |-> 4, depth |-> 2,
         dimension |-> 2, outputs |-> 1, batch |-> 2, weights |-> 2,
         coefficients |-> <<1, 2, 0>>, floats |-> {}]

(* A chain of two for a polynomial of degree two: one too few, whatever    *)
(* depth it declares.                                                      *)
Shallow == [Good EXCEPT !.chain = 2, !.depth = 2, !.coefficients = <<1, 2, 3>>]

(* A second version, a namesake of the first, and a failure of each kind:  *)
(* of the parser, of the schema, and of one test after the other.          *)
Directory ==
    {Good,
     [Good EXCEPT !.version = v2],
     [Good EXCEPT !.batch = 1],
     [Good EXCEPT !.parses = FALSE],
     [Good EXCEPT !.shape = FALSE],
     Shallow,
     [Shallow EXCEPT !.depth = 1]}

(* What the integer tests of schema and route disagree about.              *)
FloatLimit == {Good, [Good EXCEPT !.floats = {"batch"}]}

PathSymmetry == Permutations(Files)
============================================================================

---------------------------- MODULE MCEvaluation ----------------------------
(* TLC instances of Evaluation: models of one and two features, with every *)
(* pattern of zero, one and other coefficients and every depth the         *)
(* registry lets them declare, and batches of one sample to one too many.  *)
EXTENDS Evaluation

CONSTANT MaxDepth

Model(weights, bias, coefficients, depth, literal) ==
    [dimension |-> 2, weights |-> weights, bias |-> bias, literal |-> literal,
     coefficients |-> coefficients, depth |-> depth, scale |-> 2]

Coefficients == {0, 1, -2}

(* The last ones are constant, around the two ends of a byte.              *)
Candidates ==
    {Model(<<3, -1>>, 2, <<a, b, c>>, d, TRUE) :
        a \in {0, 5}, b \in Coefficients, c \in Coefficients, d \in 0 .. MaxDepth}
    \cup {Model(<<3, -1>>, 2, <<a, 0, 0>>, 1, literal) :
            a \in {-1, 0, 1, 255, 256}, literal \in BOOLEAN}
    \cup {Model(NoBlock, 0, <<0, 1, 0>>, 1, TRUE), Model(<<3, -1>>, 2, NoBlock, 0, TRUE)}
    \cup {[Model(<<4>>, -1, <<1, 2, 1>>, 2, FALSE) EXCEPT !.dimension = 1]}

MCModels == {m \in Candidates : Registered(m)}

(* No two numbers alike, so that none can stand for another.               *)
Batches ==
    {<< <<2, 7>> >>, << <<2, 7>>, <<-3, 1>> >>, << <<5>> >>, << <<5>>, <<4>> >>,
     << <<2, 7>>, <<-3, 1>>, <<4, -4>> >>}

(* 8 is the largest scale that is let through.                             *)
MCRequests ==
    {r \in [model : MCModels, batch : Batches, scale : {0, 2, 8, 9}] :
        Len(r.batch[1]) \in {1, r.model.dimension}}
=============================================================================

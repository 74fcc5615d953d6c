------------------------------ MODULE MCClient ------------------------------
(* TLC instances of Client: two versions of one model, with parameters,    *)
(* dimension and limit of their own.                                       *)
EXTENDS Client

CONSTANTS logistic, other, small, large

First  == [id |-> logistic, version |-> 1, dimension |-> 2, limit |-> 2,
           params |-> small, floats |-> {}, parameters |-> TRUE,
           activation |-> "ciphertext"]
Second == [First EXCEPT !.version = 2, !.dimension = 3, !.limit = 1,
                        !.params = large]
Blank  == [First EXCEPT !.version = 0]       \* its version is ""
Float  == [First EXCEPT !.floats = {"dimension"}]
Loose  == [First EXCEPT !.version = 2, !.limit = 1, !.floats = {"batch"}]
Partly == [Second EXCEPT !.parameters = FALSE]

MCModels == {First, Second, Blank, Float, Loose, Partly}
MCRegistries ==
    {{First}, {Second}, {First, Second}, {Blank, First}, {Float}, {First, Loose},
     {First, Partly}}
TwoVersions == {{First, Second}}

(* No row, an empty one, one too many, and rows of each version's length.  *)
Rows == {<<>>, <<0>>, <<2>>, <<3>>, <<2, 2>>, <<2, 3>>, <<3, 2>>, <<3, 3>>, <<2, 2, 2>>}

Call(i, v, r) == [id |-> i, version |-> v, rows |-> r, numeric |-> TRUE]

(* Every list of rows and every version; one call that is no list of       *)
(* numbers and one for a model nobody serves.                              *)
AllCalls ==
    {Call(logistic, v, r) : v \in {Unspecified, 0, 1, 2}, r \in Rows}
    \cup {[Call(logistic, 1, <<2>>) EXCEPT !.numeric = FALSE],
          Call(other, Unspecified, <<2>>)}

TwoCalls == {Call(logistic, v, <<2>>) : v \in {Unspecified, 2}}
=============================================================================

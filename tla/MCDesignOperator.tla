--------------------------- MODULE MCDesignOperator ---------------------------
EXTENDS DesignOperator, TLC

(* No two subsets of the rows, nor of the coefficients, have the same sum. *)
Ys == {<<1, 10, 100, 1000>>}
Powers(d) == 2^d
Slope == <<3, -1, 2, 5>>
Slope2 == <<1, 0, -2, 7>>
Slope3 == <<2, 2, -3, 1>>

Input(levels, structure, weights, sort) ==
  [frame |-> [levels |-> levels, loadings |-> <<Slope, Slope2, Slope3>>],
   structure |-> structure, weights |-> weights, localitySort |-> sort]

(* Every pair of small factors, with gaps in the codes, intercepts only or *)
(* with a slope, weighted or not; also inputs that are rejected.           *)
Small ==
  {Input(<<a, b>>, s, w, TRUE) : a \in [1..4 -> 0..2], b \in [1..4 -> {0, 2}],
     s \in {<<<<0>>, <<0>>>>, <<<<0>>, <<0, 1>>>>}, w \in {None, <<0, 1, 4, 9>>}}
Large ==
  {Input(<<a, <<0, 1, 1, 0>>>>, <<<<1>>, <<0>>>>, w, sort) :
     a \in [1..4 -> {0, 1, 6, 7}], w \in {None, <<1, 4, 9>>, <<1, -1, 1, 1>>, <<9, 0, 1, 4>>},
     sort \in BOOLEAN}
NoRows ==
  {[frame |-> [levels |-> <<<<>>, <<>>>>, loadings |-> <<<<>>>>],
    structure |-> <<<<0>>, <<0, 1>>>>, weights |-> None, localitySort |-> TRUE]}
AllInputs == Small \cup Large \cup NoRows

(* Terms that take every strategy, fused and column by column, and runs of *)
(* one level that straddle a chunk.                                        *)
Strategic ==
  {Input(<<<<0, 1, 1, 2>>, <<1, 0, 1, 0>>>>, <<<<0>>, <<0>>>>, None, TRUE),
   Input(<<<<2, 0, 1, 0>>, <<0, 0, 1, 1>>>>, <<<<0>>, <<0>>>>, <<0, 1, 4, 9>>, TRUE),
   Input(<<<<1, 0, 0, 2>>, <<2, 0, 1, 0>>>>, <<<<0>>, <<1, 2>>>>, <<4, 1, 1, 9>>, TRUE),
   Input(<<<<1, 0, 0, 1>>, <<1, 0, 1, 0>>>>, <<<<0, 1, 2>>, <<1, 2, 3>>>>, None, TRUE),
   Input(<<<<3, 0, 3, 1>>>>, <<<<1>>>>, None, FALSE)}
=============================================================================

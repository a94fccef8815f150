---------------------------- MODULE MCFactorPairs ----------------------------
EXTENDS FactorPairs

In(levels, loadings, structure, weights, config, onFailure) ==
  [frame |-> [levels |-> levels, loadings |-> loadings], structure |-> structure,
   weights |-> weights, localitySort |-> TRUE, config |-> config, onFailure |-> onFailure]

Intercepts(n) == [q \in 1..n |-> <<Constant>>]

(* Two and three factors without slopes: gaps in the codes, weights that   *)
(* cut components apart or leave a level without any.                      *)
Plain ==
  {In(<<a, b>>, <<>>, Intercepts(2), w, "Additive", "Warn") :
     a \in [1..4 -> 0..2], b \in {<<0, 0, 1, 2>>, <<0, 2, 0, 2>>, <<1, 1, 1, 1>>, <<2, 0, 3, 0>>},
     w \in {None, <<0, 1, 2, 3>>}}
Three ==
  {In(<<<<0, 0, 1, 1>>, b, <<1, 0, 0, 1>>>>, <<>>, Intercepts(3), w, "Additive", "Error") :
     b \in {<<0, 1, 0, 1>>, <<0, 0, 0, 0>>, <<1, 1, 0, 0>>}, w \in {None, <<1, 0, 0, 2>>}}

(* Whitened slopes: within a level the loadings have squares that sum to   *)
(* one with the weights, and sum to zero next to an intercept.             *)
Signs == {-1, 1}
Columns == [1..4 -> Signs]
Balanced == {z \in Columns : z[1] = -z[2] /\ z[3] = -z[4]}
Twos == <<2, 2, 2, 2>>
Halves == <<0, 0, 1, 1>>
Slopes ==
  {In(<<Halves, b>>, <<z>>, <<<<1>>, <<Constant>>>>, Twos, "Additive", f) :
     b \in {<<0, 1, 0, 1>>, <<0, 0, 1, 0>>, <<0, 1, 1, 2>>}, z \in Columns, f \in {"Warn", "Error"}}
  \cup
  {In(<<Halves, <<0, 1, 0, 1>>>>, <<y, z>>, <<<<1>>, <<2>>>>, Twos, "Additive", "Error") :
     y \in Columns, z \in {<<1, 1, 1, 1>>, <<1, 1, -1, 1>>, <<0, 1, 0, -1>>}}
  \cup
  {In(<<Halves, <<0, 1, 0, 1>>>>, <<z>>, <<<<Constant, 1>>, <<Constant>>>>, Twos, c, "Warn") :
     z \in Balanced, c \in {"Additive", "Diagonal", "Off"}}
  \cup
  {In(<<<<0, 0, 0, 0>>, b>>, <<z>>, <<<<1>>, <<Constant>>>>, <<1, 1, 1, 1>>, "Additive", "Error") :
     b \in {<<0, 0, 1, 1>>, <<0, 0, 0, 1>>}, z \in Columns}

(* A cell that cancels on the way, through the sparse accumulation.        *)
Cancelling ==
  {In(<<a, <<0, 0, 0, 1, 2>>>>, <<<<1, -1, 1, 1, -1>>>>, <<<<1>>, <<Constant>>>>,
      <<1, 1, 2, 4, 4>>, "Additive", "Warn") :
     a \in {<<0, 0, 0, 1, 2>>, <<2, 2, 2, 0, 1>>}}

MCInputs == Plain \cup Three \cup Slopes \cup Cancelling
=============================================================================

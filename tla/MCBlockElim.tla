----------------------------- MODULE MCBlockElim -----------------------------
EXTENDS BlockElim

R(n) == <<n, 1>>
RowOf(dense) ==
  LET at == SetToSortSeq({j \in DOMAIN dense : dense[j] # 0}, <)
  IN [e \in DOMAIN at |-> [at |-> at[e], value |-> R(dense[at[e]])]]
MagnitudeSum(dense, i) ==
  IF i <= Len(dense) THEN SumInt([j \in DOMAIN dense[i] |-> Abs(dense[i][j])])
  ELSE SumInt([k \in DOMAIN dense |-> Abs(dense[k][i - Len(dense)])])

(* A component with the couplings dense and the surplus ground.            *)
Component(dense, nKept, ground, form, coordinates) ==
  [c |-> [i \in DOMAIN dense |-> RowOf(dense[i])], nKept |-> nKept,
   diagonal |-> [i \in DOMAIN ground |-> R(MagnitudeSum(dense, i) + ground[i])],
   ground |-> [i \in DOMAIN ground |-> R(ground[i])],
   grounding |-> IF \A i \in DOMAIN ground : ground[i] = 0 THEN "Floating" ELSE "Grounded",
   form |-> form, coordinates |-> coordinates]

Scales == <<<<1, 1>>, <<-1, 2>>, <<3, 1>>, <<-2, 1>>, <<1, 1>>>>

Singletons == {Component(<<<<>>>>, 0, <<2>>, "Laplacian", <<<<1, 1>>>>)}
Narrow ==
  {Component(<<<<1>>, <<2>>>>, 1, g, "Laplacian", None) : g \in {<<0, 0, 0>>, <<1, 0, 0>>, <<0, 0, 1>>}}
Laplacians ==
  {Component(d, 2, g, "Laplacian", None) :
     d \in {<<<<1, 1>>, <<2, 1>>>>, <<<<0, 1>>, <<1, 2>>>>},
     g \in {<<0, 0, 0, 0>>, <<1, 0, 0, 2>>, <<0, 0, 1, 0>>}}
Wide ==
  {Component(<<<<1, 0>>, <<1, 1>>, <<1, 2>>>>, 2, g, "Laplacian", s) :
     g \in {<<0, 0, 0, 0, 0>>, <<1, 0, 1, 0, 0>>}, s \in {None, Scales}}
Stars ==
  {Component(<<<<1, 2, 1>>, <<1, 1, 0>>, <<0, 1, 1>>>>, 3, g, "Laplacian", None) :
     g \in {<<0, 0, 0, 0, 0, 0>>, <<0, 0, 1, 0, 1, 0>>}}
Frustrated ==
  {Component(d, 2, g, "SignedPendingCover", s) :
     d \in {<<<<1, 1>>, <<1, -1>>>>, <<<<1, 2>>, <<-1, 1>>>>},
     g \in {<<0, 0, 0, 0>>, <<1, 0, 0, 1>>}, s \in {None, SubSeq(Scales, 1, 4)}}

MCComponents == Singletons \cup Narrow \cup Laplacians \cup Wide \cup Stars \cup Frustrated
MCConfigs == [denseThreshold : {0, 4}, schur : {"Exact", "Approximate"}]
MCLeftovers == {<<7, 1>>}
MCGauges == {<<0, 1>>, <<3, 1>>}
=============================================================================

------------------------------- MODULE MCSolver -------------------------------
EXTENDS Solver

CONSTANT Dense  (* prebuilt preconditioners that reach every coefficient *)

(* Five observations of a term with one to three levels (level 1 may have  *)
(* none), out of order, and a second term without slopes.  Columns are     *)
(* varied, constant, constant within a level, 0, and multiples of another. *)
LevelColumns == {<<2, 0, 2, 0, 2>>, <<0, 1, 0, 1, 1>>, <<0, 0, 0, 0, 0>>}
Varied == <<0, 1, 3, 2, 1>>
Covariates3 ==
  {<<Varied, <<0, 2, 6, 4, 2>>, <<1, 1, 0, 0, 2>>>>,
   <<<<1, 1, 1, 1, 1>>, Varied, <<3, 0, 1, 0, 1>>>>,
   <<<<0, 0, 0, 0, 0>>, <<2, 0, 2, 1, 2>>, Varied>>}
WeightColumns == {None, <<1, 2, 1, 0, 1>>, <<0, 1, 0, 3, 0>>}

(* Which covariates the two effects have as slopes, after an intercept or  *)
(* not; in the last one both have the first.                               *)
SlopeChoices ==
  {<<[intercept |-> TRUE, slopes |-> <<1>>], [intercept |-> TRUE, slopes |-> <<>>]>>,
   <<[intercept |-> FALSE, slopes |-> <<1, 2>>], [intercept |-> TRUE, slopes |-> <<>>]>>,
   <<[intercept |-> TRUE, slopes |-> <<>>], [intercept |-> TRUE, slopes |-> <<1, 2, 3>>]>>,
   <<[intercept |-> TRUE, slopes |-> <<1, 2>>], [intercept |-> FALSE, slopes |-> <<3>>]>>,
   <<[intercept |-> TRUE, slopes |-> <<1, 3>>], [intercept |-> TRUE, slopes |-> <<1>>]>>}

Given(levels, intercept, slopes) == [levels |-> levels, intercept |-> intercept, slopes |-> slopes]
Chosen(levels, choice, zs) ==
  Given(levels, choice.intercept, [j \in DOMAIN choice.slopes |-> zs[choice.slopes[j]]])

Pairs ==
  {<<Chosen(l, s[1], zs), Chosen(<<1, 0, 0, 0, 1>>, s[2], zs)>> :
     l \in LevelColumns, s \in SlopeChoices, zs \in Covariates3}

(* Effects that are rejected, some with more than one thing wrong.         *)
Codes == <<1, 0, 1>>
Slope == <<2, 0, 1>>
WrongEffects ==
  {<<>>,
   <<Given(<<>>, TRUE, <<>>)>>,
   <<Given(Codes, FALSE, <<>>)>>,
   <<Given(Codes, TRUE, <<Slope, <<1, 2>>>>)>>,
   <<Given(Codes, TRUE, <<<<1, NotFinite, 2>>, <<1>>>>), Given(<<1>>, FALSE, <<>>)>>,
   <<Given(Codes, TRUE, <<>>), Given(<<0, 1>>, FALSE, <<<<3, 5>>>>)>>}
WrongWeights == {<<1, 1>>, <<1, -1, 1>>}

MCInputs ==
  [effects : Pairs, weights : WeightColumns]
    \cup [effects : WrongEffects, weights : {None}]
    \cup [effects : {<<Given(Codes, TRUE, <<>>)>>}, weights : WrongWeights]

Prebuilt(n) == [kind |-> "prebuilt", nDofs |-> n, reach |-> IF Dense THEN 0..n - 1 ELSE {}]
MCPreconditioners == {[kind |-> "off"], [kind |-> "config"]} \cup {Prebuilt(n) : n \in {8, 11}}

MCBatches ==
  {<<<<5, 1, 2, 7, 3>>>>,
   <<<<5, 1, 2, 7, 3>>, <<0, 4, 1, 1, 9>>>>,
   <<<<5, 1, 2, 7, 3>>, <<1, 1>>, <<5, 1, NotFinite, 7, 3>>>>}
MCAmplitudes == {1, -2}
MCRankTol == <<1, 1000000>>
=============================================================================

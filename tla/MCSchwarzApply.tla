---------------------------- MODULE MCSchwarzApply ----------------------------
EXTENDS SchwarzApply, TLC

CONSTANTS s1, s2, s3, d1, d2

(* s1 and s2 overlap in d2; s3 covers nothing. *)
Overlapping ==
  [s \in Subdomains |-> CASE s = s1 -> {d1, d2} [] s = s2 -> {d2} [] s = s3 -> {}]
OneDof == [s \in Subdomains |-> {d2}]

AllPlans == [strategy : Strategies, inner : BOOLEAN]
FlatPlans == [strategy : Strategies, inner : {FALSE}]
NestedReduction == {[strategy |-> "ParallelReduction", inner |-> TRUE]}

Sym == Permutations(Callers) \cup Permutations(Workers)
=============================================================================

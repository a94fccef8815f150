-------------------------------- MODULE MCLsmr --------------------------------
EXTENDS Lsmr

Policy(window, threshold) == [window |-> window, threshold |-> threshold]
Impatient == Policy(1, Nil)

(* Two columns: full rank, rank-deficient and one-hot operators; the       *)
(* right-hand sides are consistent, zero or orthogonal to the columns.  To *)
(* <<1, 1, 0>> the start vector is so near that the norm of b and that of  *)
(* the start's residual stop a run at different iterations.                *)
Plane ==
  [op : {<<<<1, 0>>, <<0, 2>>, <<0, 0>>>>, <<<<1, 1>>, <<1, 0>>, <<0, 1>>>>,
         <<<<1, 1>>, <<1, 1>>, <<1, 1>>>>},
   rhs : {<<0, 0, 0>>, <<1, 0, 0>>, <<0, 0, 1>>, <<1, 0, 1>>, <<1, 1, 0>>},
   localSize : {0},
   policies : {{Impatient}}]

(* Three columns, where a run needs three iterations and can be handed off *)
(* after two.                                                              *)
Space ==
  [op : {<<<<1, 1, 0>>, <<0, 1, 0>>, <<0, 0, 1>>>>},
   rhs : {<<1, 0, 1>>, <<1, 1, 0>>},
   localSize : {0, 1, 2},
   policies : {{Impatient}}]

(* Lower bidiagonal with b = e1: the basis vectors are unit vectors, and a *)
(* run takes as many iterations as there are columns.  A window wraps      *)
(* round, or is longer than a run.  In the second the residual contracts   *)
(* slowly, fast and slowly again.                                          *)
Bidiagonal(d, e) ==
  [i \in 1..Len(d) + 1 |-> [j \in 1..Len(d) |-> IF i = j THEN d[j] ELSE IF i = j + 1 THEN e[j] ELSE 0]]
Patience == {Policy(w, t) : w \in {1, 2}, t \in {Nil, <<1, 3>>}}
Chains ==
  [op : {Bidiagonal(<<1, 1, 1, 1>>, <<1, 1, 1, 1>>)}, rhs : {<<1, 0, 0, 0, 0>>},
   localSize : {0, 2, 3, 9}, policies : {Patience}]
    \cup
  [op : {Bidiagonal(<<1, 2, 2, 1, 2>>, <<1, 2, 1, 2, 1>>)}, rhs : {<<1, 0, 0, 0, 0, 0>>},
   localSize : {0, 2}, policies : {Patience}]

Systems == Plane \cup Space \cup Chains

Identity2 == <<<<1, 0>>, <<0, 1>>>>
Coupled2 == <<<<2, 1>>, <<1, 1>>>>
Identity3 == <<<<1, 0, 0>>, <<0, 1, 0>>, <<0, 0, 1>>>>
Jacobi3 == <<<<2, 0, 0>>, <<0, 1, 0>>, <<0, 0, 1>>>>
Identity(n) == [i \in 1..n |-> [j \in 1..n |-> IF i = j THEN 1 ELSE 0]]
MCPreconditioners == {Identity2, Coupled2, Identity3, Jacobi3, Identity(4), Identity(5)}
MCIndefinite == {<<<<1, 0>>, <<0, -1>>>>}

MCStartVectors == {<<One, Nil>>}
MCTolerances == {Nil, <<1, 9>>}
MCDrifts == {<<1, 4>>}
=============================================================================

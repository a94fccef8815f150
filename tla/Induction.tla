------------------------------ MODULE Induction ------------------------------
(***************************************************************************)
(* Induction over sets, and solutions of recursive definitions: the value  *)
(* of a fold, or of a recursive function, is the one its equation says.    *)
(***************************************************************************)
EXTENDS Integers, Functions, FiniteSetsExt, FiniteSetTheorems, WellFoundedInduction, TLAPS

(* Induction over the naturals, for a set of them. *)
LEMMA SetOfNaturals ==
  ASSUME NEW T \in SUBSET Nat, 0 \in T, \A n \in T : n + 1 \in T
  PROVE  T = Nat
  <1> DEFINE U == Nat \ T
  <1> SUFFICES ASSUME U # {} PROVE FALSE
    OBVIOUS
  <1>1. PICK n \in U : \A m \in U : <<m, n>> \notin OpToRel(<, Nat)
    BY NatLessThanWellFounded, WFMin
  <1>2. n \in Nat \ {0}
    OBVIOUS
  <1>3. n - 1 \in Nat /\ n - 1 < n
    BY <1>2
  <1>4. n - 1 \notin U
    BY <1>1, <1>2, <1>3 DEF OpToRel
  <1>5. n - 1 \in T /\ (n - 1) + 1 = n
    BY <1>2, <1>3, <1>4
  <1> QED
    BY <1>5

(* A set that holds a subset of D whenever it holds all those with one     *)
(* element less holds all of them.                                         *)
LEMMA SubsetInduction ==
  ASSUME NEW D, IsFiniteSet(D), NEW C,
         \A s \in SUBSET D : (\A x \in s : s \ {x} \in C) => s \in C
  PROVE  \A s \in SUBSET D : s \in C
  <1> DEFINE T == {n \in Nat : \A s \in SUBSET D : Cardinality(s) = n => s \in C}
  <1>1. \A s \in SUBSET D : IsFiniteSet(s) /\ Cardinality(s) \in Nat
    BY FS_Subset, FS_CardinalityType
  <1>2. 0 \in T
    BY <1>1, FS_EmptySet
  <1>3. ASSUME NEW n \in T PROVE n + 1 \in T
    <2> SUFFICES ASSUME NEW s \in SUBSET D, Cardinality(s) = n + 1 PROVE s \in C
      OBVIOUS
    <2>1. ASSUME NEW x \in s PROVE s \ {x} \in C
      <3>1. Cardinality(s \ {x}) = n
        BY <1>1, FS_RemoveElement
      <3> QED
        BY <3>1
    <2> QED
      BY <2>1
  <1>4. T = Nat
    <2> HIDE DEF T
    <2>1. T \in SUBSET Nat
      BY DEF T
    <2> QED
      BY <1>2, <1>3, <2>1, SetOfNaturals
  <1> QED
    BY <1>1, <1>4

Picks(Pick, D) == \A s \in SUBSET D : s # {} => Pick[s] \in s
Folds(g, D, base, Step, Pick) ==
  \A s \in SUBSET D : g[s] = IF s = {} THEN base ELSE Step[<<g[s \ {Pick[s]}], Pick[s]>>]

(* The recursion of a fold over a finite set has a solution, in whatever   *)
(* order Pick takes the elements.                                          *)
LEMMA FoldExists ==
  ASSUME NEW D, IsFiniteSet(D), NEW X, NEW base \in X, NEW Step \in [X \X D -> X],
         NEW Pick, Picks(Pick, D)
  PROVE  \E g \in [SUBSET D -> X] : Folds(g, D, base, Step, Pick)
  <1> DEFINE Upto(n) == {s \in SUBSET D : Cardinality(s) <= n}
             Solves(g, n) == \A s \in Upto(n) :
               g[s] = IF s = {} THEN base ELSE Step[<<g[s \ {Pick[s]}], Pick[s]>>]
             T == {n \in Nat : \E g \in [Upto(n) -> X] : Solves(g, n)}
  <1>1. \A s \in SUBSET D : IsFiniteSet(s) /\ Cardinality(s) \in Nat
    BY FS_Subset, FS_CardinalityType
  <1>2. \A s \in SUBSET D : s # {} =>
          /\ s \ {Pick[s]} \in SUBSET D
          /\ Cardinality(s \ {Pick[s]}) = Cardinality(s) - 1
    BY <1>1, FS_RemoveElement DEF Picks
  <1> USE DEF Picks
  <1>3. 0 \in T
    <2>1. \A s \in Upto(0) : s = {}
      BY <1>1, FS_EmptySet
    <2>2. [s \in Upto(0) |-> base] \in [Upto(0) -> X] /\ Solves([s \in Upto(0) |-> base], 0)
      BY <2>1
    <2> QED
      BY <2>2
  <1>4. ASSUME NEW n \in T PROVE n + 1 \in T
    <2>1. n \in Nat
      OBVIOUS
    <2>2. PICK g \in [Upto(n) -> X] : Solves(g, n)
      OBVIOUS
    <2> DEFINE h == [s \in Upto(n + 1) |->
                       IF s = {} THEN base ELSE Step[<<g[s \ {Pick[s]}], Pick[s]>>]]
    <2>3. \A s \in Upto(n + 1) : s # {} => s \ {Pick[s]} \in Upto(n) /\ Pick[s] \in D
      BY <1>1, <1>2, <2>1
    <2>4. h \in [Upto(n + 1) -> X]
      <3> SUFFICES ASSUME NEW s \in Upto(n + 1), s # {}
                   PROVE  Step[<<g[s \ {Pick[s]}], Pick[s]>>] \in X
        OBVIOUS
      <3>1. g[s \ {Pick[s]}] \in X /\ Pick[s] \in D
        BY <2>3
      <3> QED
        BY <3>1
    <2>5. Upto(n) \subseteq Upto(n + 1)
      BY <1>1, <2>1
    <2>6. \A s \in Upto(n) : h[s] = g[s]
      BY <2>2, <2>5
    <2>7. Solves(h, n + 1)
      BY <2>3, <2>6
    <2> HIDE DEF h, Solves, Upto
    <2>8. \E f \in [Upto(n + 1) -> X] : Solves(f, n + 1)
      BY <2>4, <2>7
    <2> QED
      BY <2>1, <2>8
  <1>5. T = Nat
    <2> HIDE DEF T
    <2>1. T \in SUBSET Nat
      BY DEF T
    <2> QED
      BY <1>3, <1>4, <2>1, SetOfNaturals
  <1>6. Cardinality(D) \in Nat /\ Upto(Cardinality(D)) = SUBSET D
    BY <1>1, FS_Subset, FS_CardinalityType
  <1>7. Cardinality(D) \in T
    BY <1>5, <1>6
  <1> QED
    BY <1>6, <1>7 DEF Folds

(* The value at x takes those of lower rank only. *)
Descends(F, rank, D, V) ==
  \A x \in D : \A f, g \in [D -> V] :
    (\A y \in D : rank[y] < rank[x] => f[y] = g[y]) => F[<<x, f>>] = F[<<x, g>>]

Recurs(f, F, D) == \A x \in D : f[x] = F[<<x, f>>]

(* A definition that recurs only on arguments of a lower rank has a        *)
(* solution.                                                               *)
LEMMA RecursionExists ==
  ASSUME NEW D, NEW V, V # {}, NEW rank \in [D -> Nat], NEW F \in [D \X [D -> V] -> V],
         Descends(F, rank, D, V)
  PROVE  \E f \in [D -> V] : Recurs(f, F, D)
  <1> USE DEF Descends, Recurs
  <1> DEFINE Upto(f, n) == \A x \in D : rank[x] < n => f[x] = F[<<x, f>>]
             T == {n \in Nat : \E f \in [D -> V] : Upto(f, n)}
             U == {n \in Nat : \A f, g \in [D -> V] :
                     Upto(f, n) /\ Upto(g, n) => \A x \in D : rank[x] < n => f[x] = g[x]}
  <1>1. T = Nat
    <2>1. 0 \in T
      <3>1. PICK v \in V : TRUE
        OBVIOUS
      <3> DEFINE g == [x \in D |-> v]
      <3>2. g \in [D -> V] /\ Upto(g, 0)
        OBVIOUS
      <3> HIDE DEF g, Upto
      <3> QED
        BY <3>2
    <2>2. ASSUME NEW n \in T PROVE n + 1 \in T
      <3>1. PICK f \in [D -> V] : Upto(f, n)
        OBVIOUS
      <3> DEFINE g == [x \in D |-> F[<<x, f>>]]
      <3>2. g \in [D -> V]
        OBVIOUS
      <3>3. ASSUME NEW x \in D, rank[x] < n + 1 PROVE g[x] = F[<<x, g>>]
        <4>1. \A y \in D : rank[y] < rank[x] => f[y] = g[y]
          BY <3>1, <3>3
        <4>2. F[<<x, f>>] = F[<<x, g>>]
          <5> HIDE DEF g
          <5> QED
            BY <3>2, <4>1
        <4> QED
          BY <4>2
      <3>4. n + 1 \in Nat /\ Upto(g, n + 1)
        BY <3>3
      <3> HIDE DEF g, Upto
      <3> QED
        BY <3>2, <3>4
    <2> HIDE DEF T
    <2>3. T \in SUBSET Nat
      BY DEF T
    <2> QED
      BY <2>1, <2>2, <2>3, SetOfNaturals
  <1>2. U = Nat
    <2>1. 0 \in U
      OBVIOUS
    <2>2. ASSUME NEW n \in U PROVE n + 1 \in U
      <3> SUFFICES ASSUME NEW f \in [D -> V], NEW g \in [D -> V], Upto(f, n + 1), Upto(g, n + 1),
                          NEW x \in D, rank[x] < n + 1
                   PROVE  f[x] = g[x]
        <4>1. n + 1 \in Nat
          OBVIOUS
        <4> QED
          BY <4>1
      <3>1. \A y \in D : rank[y] < n => f[y] = g[y]
        <4>1. Upto(f, n) /\ Upto(g, n)
          OBVIOUS
        <4> QED
          BY <4>1
      <3>2. \A y \in D : rank[y] < rank[x] => f[y] = g[y]
        BY <3>1
      <3>3. F[<<x, f>>] = F[<<x, g>>]
        BY <3>2
      <3> QED
        BY <3>3
    <2> HIDE DEF U
    <2>3. U \in SUBSET Nat
      BY DEF U
    <2> QED
      BY <2>1, <2>2, <2>3, SetOfNaturals
  <1> DEFINE h(n) == CHOOSE f \in [D -> V] : Upto(f, n)
             r == [x \in D |-> h(rank[x] + 1)[x]]
  <1>3. ASSUME NEW n \in Nat PROVE h(n) \in [D -> V] /\ Upto(h(n), n)
    <2>1. \E f \in [D -> V] : Upto(f, n)
      BY <1>1
    <2> HIDE DEF Upto
    <2> QED
      BY <2>1
  <1>4. r \in [D -> V]
    <2>1. \A x \in D : rank[x] + 1 \in Nat /\ h(rank[x] + 1)[x] \in V
      <3> HIDE DEF h
      <3> QED
        BY <1>3
    <2> QED
      BY <2>1
  <1>5. ASSUME NEW x \in D PROVE r[x] = F[<<x, r>>]
    <2>1. ASSUME NEW y \in D, rank[y] < rank[x] PROVE r[y] = h(rank[x] + 1)[y]
      <3> DEFINE m == rank[y] + 1
                 n == rank[x] + 1
      <3>1. m \in Nat /\ n \in Nat /\ m <= n /\ rank[y] < m
        BY <2>1
      <3>2. Upto(h(m), m) /\ Upto(h(n), n) /\ h(m) \in [D -> V] /\ h(n) \in [D -> V]
        <4> HIDE DEF h, Upto, m, n
        <4> QED
          BY <1>3, <3>1
      <3>3. Upto(h(n), m)
        <4> HIDE DEF h, m, n
        <4> QED
          BY <3>1, <3>2
      <3>4. h(m)[y] = h(n)[y]
        <4> HIDE DEF h, m, n, Upto
        <4>1. m \in U
          BY <1>2, <3>1
        <4> QED
          BY <3>1, <3>2, <3>3, <4>1
      <3> QED
        BY <3>4
    <2>2. rank[x] + 1 \in Nat /\ rank[x] < rank[x] + 1
      OBVIOUS
    <2>3. h(rank[x] + 1) \in [D -> V] /\ Upto(h(rank[x] + 1), rank[x] + 1)
      BY <1>3, <2>2
    <2>4. F[<<x, r>>] = F[<<x, h(rank[x] + 1)>>]
      <3> HIDE DEF r, h, Upto
      <3> QED
        BY <1>4, <2>1, <2>3
    <2>5. h(rank[x] + 1)[x] = F[<<x, h(rank[x] + 1)>>]
      <3> HIDE DEF r, h
      <3> QED
        BY <2>2, <2>3
    <2> QED
      BY <2>4, <2>5
  <1> HIDE DEF r
  <1> QED
    BY <1>4, <1>5

-----------------------------------------------------------------------------
(* Sums. *)

Picked(s) == CHOOSE x \in s : TRUE

LEMMA PickedIn == \A s : s # {} => Picked(s) \in s
  BY DEF Picked

Accumulates(it, f, S) ==
  it = [s \in SUBSET S |-> IF s = {} THEN 0 ELSE f[Picked(s)] + it[s \ {Picked(s)}]]

(* A sum takes its terms one after the other. *)
LEMMA SumSolves ==
  ASSUME NEW S, IsFiniteSet(S), NEW f, \A x \in S : f[x] \in Int
  PROVE  \E it : Accumulates(it, f, S) /\ SumFunctionOnSet(f, S) = it[S]
  <1> DEFINE Pick == [s \in SUBSET S |-> Picked(s)]
             Step == [p \in Int \X S |-> f[p[2]] + p[1]]
  <1>1. Picks(Pick, S)
    BY PickedIn DEF Picks
  <1>2. Step \in [Int \X S -> Int]
    OBVIOUS
  <1>3. PICK g \in [SUBSET S -> Int] : Folds(g, S, 0, Step, Pick)
    <2>1. 0 \in Int
      OBVIOUS
    <2> HIDE DEF Pick, Step
    <2> QED
      BY <1>1, <1>2, <2>1, FoldExists, Zenon
  <1>4. Accumulates(g, f, S)
    <2>1. ASSUME NEW s \in SUBSET S
          PROVE  g[s] = IF s = {} THEN 0 ELSE f[Picked(s)] + g[s \ {Picked(s)}]
      <3>1. CASE s = {}
        BY <1>3, <3>1 DEF Folds
      <3>2. CASE s # {}
        <4>1. g[s \ {Pick[s]}] \in Int /\ Pick[s] \in S /\ Pick[s] = Picked(s)
          BY <1>1, <3>2 DEF Picks
        <4> QED
          BY <1>3, <3>2, <4>1 DEF Folds
      <3> QED
        BY <3>1, <3>2
    <2> QED
      BY <2>1 DEF Accumulates
  <1> DEFINE it == CHOOSE h : Accumulates(h, f, S)
  <1>5. Accumulates(it, f, S)
    BY <1>4
  <1>6. SumFunctionOnSet(f, S) = it[S]
    BY DEF SumFunctionOnSet, FoldFunctionOnSet, MapThenFoldSet, Accumulates, Picked
  <1> QED
    BY <1>5, <1>6

LEMMA AccumulatesInt ==
  ASSUME NEW S, IsFiniteSet(S), NEW f, \A x \in S : f[x] \in Int,
         NEW it, Accumulates(it, f, S)
  PROVE  \A s \in SUBSET S : it[s] \in Int
  <1> DEFINE C == {s \in SUBSET S : it[s] \in Int}
  <1>1. ASSUME NEW s \in SUBSET S, \A x \in s : s \ {x} \in C PROVE s \in C
    <2>1. it[s] = IF s = {} THEN 0 ELSE f[Picked(s)] + it[s \ {Picked(s)}]
      BY DEF Accumulates
    <2>2. CASE s # {}
      BY <1>1, <2>1, <2>2, PickedIn
    <2> QED
      BY <2>1, <2>2
  <1>2. \A s \in SUBSET S : s \in C
    <2> HIDE DEF C
    <2> QED
      BY <1>1, SubsetInduction
  <1> QED
    BY <1>2

(* The recursion over S and that over a subset agree. *)
LEMMA AccumulatesSame ==
  ASSUME NEW S, IsFiniteSet(S), NEW f, NEW g, NEW R \in SUBSET S, \A x \in R : f[x] = g[x],
         NEW it, Accumulates(it, f, S), NEW jt, Accumulates(jt, g, R)
  PROVE  \A s \in SUBSET R : it[s] = jt[s]
  <1> DEFINE C == {s \in SUBSET R : it[s] = jt[s]}
  <1>1. ASSUME NEW s \in SUBSET R, \A x \in s : s \ {x} \in C PROVE s \in C
    <2>1. it[s] = IF s = {} THEN 0 ELSE f[Picked(s)] + it[s \ {Picked(s)}]
      BY DEF Accumulates
    <2>2. jt[s] = IF s = {} THEN 0 ELSE g[Picked(s)] + jt[s \ {Picked(s)}]
      BY DEF Accumulates
    <2>3. CASE s # {}
      <3>1. Picked(s) \in s /\ Picked(s) \in R
        BY <2>3, PickedIn
      <3>2. it[s \ {Picked(s)}] = jt[s \ {Picked(s)}] /\ f[Picked(s)] = g[Picked(s)]
        BY <1>1, <3>1
      <3> QED
        BY <2>1, <2>2, <2>3, <3>2
    <2> QED
      BY <2>1, <2>2, <2>3
  <1>2. IsFiniteSet(R)
    BY FS_Subset
  <1>3. \A s \in SUBSET R : s \in C
    <2> HIDE DEF C
    <2> QED
      BY <1>1, <1>2, SubsetInduction
  <1> QED
    BY <1>3

LEMMA SumType ==
  ASSUME NEW S, IsFiniteSet(S), NEW f, \A x \in S : f[x] \in Int
  PROVE  SumFunctionOnSet(f, S) \in Int
  BY SumSolves, AccumulatesInt

LEMMA SumSame ==
  ASSUME NEW S, IsFiniteSet(S), NEW f, NEW g, \A x \in S : f[x] \in Int,
         \A x \in S : f[x] = g[x]
  PROVE  SumFunctionOnSet(f, S) = SumFunctionOnSet(g, S)
  <1>1. PICK it : Accumulates(it, f, S) /\ SumFunctionOnSet(f, S) = it[S]
    BY SumSolves
  <1>2. PICK jt : Accumulates(jt, g, S) /\ SumFunctionOnSet(g, S) = jt[S]
    BY SumSolves
  <1> QED
    BY <1>1, <1>2, AccumulatesSame

LEMMA SumEmpty == ASSUME NEW f PROVE SumFunctionOnSet(f, {}) = 0
  <1>1. PICK it : Accumulates(it, f, {}) /\ SumFunctionOnSet(f, {}) = it[{}]
    BY SumSolves, FS_EmptySet
  <1> QED
    BY <1>1 DEF Accumulates

(* A sum is any of its terms and the sum of the others. *)
LEMMA SumRemove ==
  ASSUME NEW S, IsFiniteSet(S), NEW f, \A x \in S : f[x] \in Int, NEW x \in S
  PROVE  SumFunctionOnSet(f, S) = f[x] + SumFunctionOnSet(f, S \ {x})
  <1>1. PICK it : Accumulates(it, f, S) /\ SumFunctionOnSet(f, S) = it[S]
    BY SumSolves
  <1> DEFINE C == {s \in SUBSET S : \A y \in s : it[s] = f[y] + it[s \ {y}]}
  <1>2. \A s \in SUBSET S : it[s] \in Int
    BY <1>1, AccumulatesInt
  <1>3. ASSUME NEW s \in SUBSET S, \A y \in s : s \ {y} \in C PROVE s \in C
    <2> SUFFICES ASSUME NEW y \in s PROVE it[s] = f[y] + it[s \ {y}]
      OBVIOUS
    <2> DEFINE p == Picked(s)
    <2>1. p \in s
      BY PickedIn
    <2>2. it[s] = f[p] + it[s \ {p}]
      BY <1>1, <2>1 DEF Accumulates
    <2> HIDE DEF p
    <2>3. CASE p # y
      <3>1. it[s \ {p}] = f[y] + it[(s \ {p}) \ {y}]
        BY <1>3, <2>1, <2>3
      <3>2. it[s \ {y}] = f[p] + it[(s \ {y}) \ {p}]
        BY <1>3, <2>1, <2>3
      <3>3. (s \ {p}) \ {y} = (s \ {y}) \ {p}
        OBVIOUS
      <3>4. /\ f[y] \in Int /\ f[p] \in Int /\ it[(s \ {y}) \ {p}] \in Int
            /\ (s \ {y}) \ {p} \in SUBSET S
        BY <1>2, <2>1
      <3>5. \A a, b, c \in Int : a + (b + c) = b + (a + c)
        OBVIOUS
      <3>6. it[s] = f[p] + (f[y] + it[(s \ {y}) \ {p}])
        BY <2>2, <3>1, <3>3
      <3>7. it[s] = f[y] + (f[p] + it[(s \ {y}) \ {p}])
        BY <3>4, <3>5, <3>6
      <3> QED
        BY <3>2, <3>7
    <2> QED
      BY <2>2, <2>3
  <1>4. \A s \in SUBSET S : s \in C
    <2> HIDE DEF C
    <2> QED
      BY <1>3, SubsetInduction
  <1>5. it[S] = f[x] + it[S \ {x}]
    BY <1>4
  <1>6. it[S \ {x}] = SumFunctionOnSet(f, S \ {x})
    <2>1. IsFiniteSet(S \ {x}) /\ S \ {x} \in SUBSET S
      BY FS_Subset
    <2>2. PICK jt : Accumulates(jt, f, S \ {x}) /\ SumFunctionOnSet(f, S \ {x}) = jt[S \ {x}]
      BY <2>1, SumSolves
    <2> QED
      BY <1>1, <2>1, <2>2, AccumulatesSame
  <1> QED
    BY <1>1, <1>5, <1>6

-----------------------------------------------------------------------------
(* Folds from the lowest index up. *)

LEMMA ExceptIn ==
  ASSUME NEW A, NEW B, NEW f \in [A -> B], NEW a, NEW b \in B
  PROVE  [f EXCEPT ![a] = b] \in [A -> B]
  OBVIOUS

LEMMA MaxIn ==
  ASSUME NEW S \in SUBSET Nat, IsFiniteSet(S), S # {}
  PROVE  Max(S) \in S /\ \A y \in S : Max(S) >= y
  <1> DEFINE C == {s \in SUBSET S : s = {} \/ \E x \in s : \A y \in s : x >= y}
  <1>1. ASSUME NEW s \in SUBSET S, \A x \in s : s \ {x} \in C PROVE s \in C
    <2> SUFFICES ASSUME s # {} PROVE \E x \in s : \A y \in s : x >= y
      OBVIOUS
    <2>1. PICK x \in s : TRUE
      OBVIOUS
    <2>2. CASE s \ {x} = {}
      BY <2>1, <2>2
    <2>3. CASE s \ {x} # {}
      <3>1. PICK z \in s \ {x} : \A y \in s \ {x} : z >= y
        BY <1>1, <2>1, <2>3
      <3>2. CASE x >= z
        BY <2>1, <3>1, <3>2
      <3>3. CASE z >= x
        BY <2>1, <3>1, <3>3
      <3>4. x \in Nat /\ z \in Nat
        BY <2>1, <3>1
      <3> QED
        BY <3>2, <3>3, <3>4
    <2> QED
      BY <2>2, <2>3
  <1>2. \A s \in SUBSET S : s \in C
    <2> HIDE DEF C
    <2> QED
      BY <1>1, SubsetInduction
  <1>3. \E x \in S : \A y \in S : x >= y
    BY <1>2
  <1> QED
    BY <1>3 DEF Max

LEMMA MaxUpTo ==
  ASSUME NEW m \in Nat \ {0}
  PROVE  Max(1..m) = m /\ (1..m) \ {m} = 1..m - 1
  <1>1. IsFiniteSet(1..m) /\ 1..m \in SUBSET Nat /\ m \in 1..m
    BY FS_Interval
  <1>2. Max(1..m) \in 1..m /\ Max(1..m) >= m
    BY <1>1, MaxIn
  <1> QED
    BY <1>2

(* A fold over the indices of a sequence, the lowest first. *)
Folding(it, n, base, Step) ==
  it = [s \in SUBSET (1..n) |->
          IF s = {} THEN base ELSE Step[<<it[s \ {Max(s)}], Max(s)>>]]

LEMMA FoldUp ==
  ASSUME NEW n \in Nat, NEW V, NEW base \in V, NEW Step \in [V \X (1..n) -> V]
  PROVE  \E it \in [SUBSET (1..n) -> V] : Folding(it, n, base, Step)
  <1> DEFINE D == 1..n
             Pick == [s \in SUBSET D |-> Max(s)]
  <1>1. IsFiniteSet(D) /\ D \in SUBSET Nat
    BY FS_Interval
  <1>2. Picks(Pick, D)
    <2> SUFFICES ASSUME NEW s \in SUBSET D, s # {} PROVE Max(s) \in s
      BY DEF Picks
    <2>1. IsFiniteSet(s)
      BY <1>1, FS_Subset
    <2>2. s \in SUBSET Nat
      BY <1>1
    <2> QED
      BY <2>1, <2>2, MaxIn
  <1>3. PICK g \in [SUBSET D -> V] : Folds(g, D, base, Step, Pick)
    <2> HIDE DEF Pick, D
    <2>1. Step \in [V \X D -> V]
      BY DEF D
    <2> QED
      BY <1>1, <1>2, <2>1, FoldExists, Zenon
  <1>4. ASSUME NEW s \in SUBSET D
        PROVE  g[s] = IF s = {} THEN base ELSE Step[<<g[s \ {Max(s)}], Max(s)>>]
    BY <1>3 DEF Folds
  <1>5. Folding(g, n, base, Step)
    BY <1>3, <1>4 DEF Folding
  <1> QED
    BY <1>5
=============================================================================

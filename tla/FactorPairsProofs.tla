------------------------- MODULE FactorPairsProofs --------------------------
(***************************************************************************)
(* What the construction of the subdomains promises, for every design: the *)
(* signs that fold a component, the Laplacian it becomes, which components *)
(* float, the local matrices, and the partition of unity.                  *)
(***************************************************************************)
EXTENDS FactorPairsTables

-----------------------------------------------------------------------------
(* The walk that looks for the signs.                                      *)

(* At the nodes of P the signs t make every entry nonpositive.             *)
Opposed(nb, t, P) == \A i \in P : \A j \in ColumnsIn(nb[i]) : t[j] = -t[i] * Signum(ValueAt(nb[i], j))
Foldings(nb, n) == {t \in [1..n -> {-1, 1}] : Opposed(nb, t, 1..n)}

SignStates(n) == [signs : [1..n -> {-1, 0, 1}], stack : Seq(1..n), folds : BOOLEAN]
Signed(n, s) == {i \in 1..n : s.signs[i] # 0}
Done(n, s) == Signed(n, s) \ ToSet(s.stack)

LEMMA SignumIs == \A v : Signum(v) \in {-1, 1}
  BY DEF Signum

LEMMA SignProduct ==
  /\ \A a \in {-1, 1}, b \in {-1, 1} : -a * b \in {-1, 1} /\ a * b \in {-1, 1}
  /\ \A c \in {-1, 1}, a \in {-1, 1}, b \in {-1, 1} : -(c * a) * b = c * (-a * b)
  <1>1. \A a \in {-1, 1}, b \in {-1, 1} : -a * b \in {-1, 1} /\ a * b \in {-1, 1}
    <2> SUFFICES ASSUME NEW a \in {-1, 1}, NEW b \in {-1, 1}
                 PROVE  -a * b \in {-1, 1} /\ a * b \in {-1, 1}
      OBVIOUS
    <2>1. CASE a = 1
      <3>1. a * b = b /\ -a * b = -b
        BY <2>1
      <3> QED
        BY <3>1
    <2>2. CASE a = -1
      <3>1. a * b = -b /\ -a * b = b
        BY <2>2
      <3> QED
        BY <3>1
    <2> QED
      BY <2>1, <2>2
  <1>2. ASSUME NEW c \in {-1, 1}, NEW a \in {-1, 1}, NEW b \in {-1, 1}
        PROVE  -(c * a) * b = c * (-a * b)
    <2>1. CASE c = 1 /\ a = 1
      BY <2>1
    <2>2. CASE c = 1 /\ a = -1
      BY <2>2
    <2>3. CASE c = -1 /\ a = 1
      BY <2>3
    <2>4. CASE c = -1 /\ a = -1
      BY <2>4
    <2> QED
      BY <2>1, <2>2, <2>3, <2>4
  <1> QED
    BY <1>1, <1>2

LEMMA SignNextIs ==
  ASSUME NEW n, NEW nb, IsGraph(nb, n), NEW s \in SignStates(n), s.stack # <<>>, Distinct(s.stack),
         ToSet(s.stack) \in SUBSET Signed(n, s)
  PROVE  LET x   == Last(s.stack)
             new == {j \in ColumnsIn(nb[x]) : s.signs[j] = 0}
             t   == SignNext(nb, s)
         IN /\ x \in 1..n /\ x \in ToSet(s.stack) /\ new \in SUBSET (1..n)
            /\ t \in SignStates(n) /\ Signed(n, t) = Signed(n, s) \cup new
            /\ ToSet(t.stack) = (ToSet(s.stack) \ {x}) \cup new /\ Distinct(t.stack)
            /\ t.folds = (s.folds /\ ~Contradicts(nb, s, x))
            /\ \A j \in 1..n : t.signs[j] = IF j \in new THEN Expected(nb, s, x, j) ELSE s.signs[j]
            /\ \A j \in new : Expected(nb, s, x, j) \in {-1, 1}
  <1> DEFINE x   == Last(s.stack)
             new == {j \in ColumnsIn(nb[x]) : s.signs[j] = 0}
             a   == Ascending(new)
             f   == Front(s.stack)
             t   == SignNext(nb, s)
             g   == [j \in DOMAIN nb |-> IF j \in new THEN Expected(nb, s, x, j) ELSE s.signs[j]]
             b   == s.folds /\ ~Contradicts(nb, s, x)
  <1>1. s.stack \in Seq(1..n) /\ n \in Nat /\ DOMAIN nb = 1..n /\ s.signs \in [1..n -> {-1, 0, 1}]
        /\ s.folds \in BOOLEAN
    BY DEF SignStates, IsGraph
  <1>2. /\ x \in 1..n /\ x \in ToSet(s.stack) /\ f \in Seq(1..n) /\ Distinct(f)
        /\ ToSet(f) = ToSet(s.stack) \ {x}
    BY <1>1, PopIs
  <1>3. new \in SUBSET (1..n)
    BY <1>2 DEF IsGraph
  <1>4. s.signs[x] \in {-1, 1}
    BY <1>1, <1>2 DEF Signed
  <1>5. t = [signs |-> g, stack |-> f \o a, folds |-> b]
    BY DEF SignNext, SignNeighbors
  <1>6. \A j \in new : Expected(nb, s, x, j) \in {-1, 1}
    <2> SUFFICES ASSUME NEW j \in new PROVE Expected(nb, s, x, j) \in {-1, 1}
      OBVIOUS
    <2>1. Signum(ValueAt(nb[x], j)) \in {-1, 1}
      BY SignumIs
    <2> QED
      BY <1>4, <2>1, SignProduct DEF Expected
  <1>12. \A j \in new : s.signs[j] = 0
    OBVIOUS
  <1> HIDE DEF new, x, f, t
  <1>7. a \in Seq(1..n) /\ Distinct(a) /\ ToSet(a) = new
    BY <1>1, <1>3, AscendingStack
  <1>8. g \in [1..n -> {-1, 0, 1}] /\ \A j \in 1..n : g[j] = IF j \in new THEN Expected(nb, s, x, j) ELSE s.signs[j]
    BY <1>1, <1>6
  <1>9. b \in BOOLEAN
    OBVIOUS
  <1> HIDE DEF a, g, b
  <1>10. f \o a \in Seq(1..n) /\ ToSet(f \o a) = ToSet(f) \cup ToSet(a)
    BY <1>2, <1>7, ConcatSets
  <1>11. ToSet(f) \cap ToSet(a) = {}
    BY <1>2, <1>7, <1>12 DEF Signed
  <1>13. Distinct(f \o a)
    BY <1>2, <1>7, <1>11, ConcatSets
  <1>14. t \in SignStates(n) /\ t.signs = g /\ t.stack = f \o a /\ t.folds = b
    BY ONLY <1>5, <1>8, <1>9, <1>10 DEF SignStates
  <1>15. Signed(n, t) = Signed(n, s) \cup new
    <2>1. ASSUME NEW j \in 1..n PROVE t.signs[j] # 0 <=> s.signs[j] # 0 \/ j \in new
      <3>1. CASE j \in new
        BY <1>6, <1>8, <1>14, <3>1
      <3>2. CASE j \notin new
        BY <1>8, <1>14, <3>2
      <3> QED
        BY <3>1, <3>2
    <2> QED
      BY <1>3, <2>1 DEF Signed
  <1>16. t.folds = (s.folds /\ ~Contradicts(nb, s, x))
    BY <1>14 DEF b
  <1> QED
    BY <1>2, <1>3, <1>6, <1>7, <1>8, <1>10, <1>13, <1>14, <1>15, <1>16 DEF x, new, t

SignInv(nb, n, B, root, k, s) ==
  /\ s \in SignStates(n) /\ Distinct(s.stack) /\ ToSet(s.stack) \in SUBSET Signed(n, s)
  /\ B \in SUBSET Signed(n, s) /\ ToSet(s.stack) \cap B = {} /\ root \in Signed(n, s)
  /\ \A i \in Done(n, s) : ColumnsIn(nb[i]) \in SUBSET Signed(n, s)
  /\ s.folds => Opposed(nb, s.signs, Done(n, s))
  /\ \A t \in Foldings(nb, n) :
       /\ s.folds
       /\ \E c \in {-1, 1} : \A i \in Signed(n, s) \ B : s.signs[i] = c * t[i]
  /\ s.stack = <<>> \/ Cardinality(Done(n, s)) >= k

LEMMA SignStep ==
  ASSUME NEW n, NEW nb, IsGraph(nb, n), NEW B \in SUBSET (1..n), Shut(nb, B), NEW root,
         NEW k \in 1..n, NEW s, SignInv(nb, n, B, root, k - 1, s)
  PROVE  SignInv(nb, n, B, root, k, SignNext(nb, s))
  <1>1. CASE s.stack = <<>>
    BY <1>1 DEF SignNext, SignInv
  <1>2. CASE s.stack # <<>>
    <2> DEFINE x   == Last(s.stack)
               new == {j \in ColumnsIn(nb[x]) : s.signs[j] = 0}
               t   == SignNext(nb, s)
               K   == ToSet(s.stack)
               S   == Signed(n, s)
               P   == Done(n, s)
    <2>1. /\ x \in 1..n /\ x \in K /\ new \in SUBSET (1..n)
          /\ t \in SignStates(n) /\ Signed(n, t) = S \cup new
          /\ ToSet(t.stack) = (K \ {x}) \cup new /\ Distinct(t.stack)
          /\ t.folds = (s.folds /\ ~Contradicts(nb, s, x))
          /\ \A j \in 1..n : t.signs[j] = IF j \in new THEN Expected(nb, s, x, j) ELSE s.signs[j]
      BY <1>2, SignNextIs DEF SignInv
    <2>2. /\ K \in SUBSET S /\ B \in SUBSET S /\ K \cap B = {} /\ root \in S
          /\ \A i \in P : ColumnsIn(nb[i]) \in SUBSET S
          /\ s.folds => Opposed(nb, s.signs, P)
          /\ Cardinality(P) >= k - 1 /\ P = S \ K /\ S \in SUBSET (1..n)
          /\ s.folds \in BOOLEAN /\ s.signs \in [1..n -> {-1, 0, 1}]
      BY <1>2 DEF SignInv, Done, Signed, SignStates
    <2>3. /\ new \in SUBSET ColumnsIn(nb[x]) /\ new \cap S = {} /\ ColumnsIn(nb[x]) \in SUBSET (1..n)
          /\ ColumnsIn(nb[x]) \in SUBSET (S \cup new)
      <3>1. ColumnsIn(nb[x]) \in SUBSET (1..n)
        BY <2>1 DEF IsGraph
      <3> QED
        BY <3>1 DEF Signed
    <2>4. \A j \in S : s.signs[j] \in {-1, 1} /\ s.signs[j] # 0
      BY <2>2 DEF Signed
    <2>5. \A j \in ColumnsIn(nb[x]) : j \in S <=> j \notin new
      BY <2>3
    <2>6. \A t2 \in Foldings(nb, n) :
            /\ s.folds
            /\ \E c \in {-1, 1} : \A i \in S \ B : s.signs[i] = c * t2[i]
      BY DEF SignInv
    <2> HIDE DEF x, new, t, K, S, P
    <2>7. Done(n, t) = P \cup {x} /\ x \notin P /\ x \in S
        <3>1. x \in K /\ K \in SUBSET S /\ P = S \ K /\ new \cap S = {}
        BY ONLY <2>1, <2>2, <2>3
      <3>2. Done(n, t) = (S \cup new) \ ((K \ {x}) \cup new)
        BY ONLY <2>1 DEF Done
      <3> QED
        BY ONLY <3>1, <3>2
    <2>8. ColumnsIn(nb[x]) \cap B = {}
      <3> SUFFICES ASSUME NEW j \in B, j \in ColumnsIn(nb[x]) PROVE FALSE
        OBVIOUS
      <3>1. x \in ColumnsIn(nb[j])
        BY <2>1 DEF IsGraph
      <3>2. x \in B
        BY <3>1 DEF Shut
      <3> QED
        BY <2>1, <2>2, <3>2
    <2>9. \A i \in Done(n, t) : ColumnsIn(nb[i]) \in SUBSET Signed(n, t)
      BY <2>1, <2>2, <2>3, <2>7
    <2>10. ASSUME t.folds PROVE Opposed(nb, t.signs, Done(n, t))
      <3>1. s.folds /\ ~Contradicts(nb, s, x) /\ Opposed(nb, s.signs, P)
        BY <2>1, <2>2, <2>10
      <3>2. \A j \in S : t.signs[j] = s.signs[j]
        BY <2>1, <2>2, <2>3
      <3>3. ASSUME NEW i \in P, NEW j \in ColumnsIn(nb[i])
            PROVE  t.signs[j] = -t.signs[i] * Signum(ValueAt(nb[i], j))
        <4>1. i \in S /\ j \in S
          BY <2>2
        <4> QED
          BY <3>1, <3>2, <4>1 DEF Opposed
      <3>4. ASSUME NEW j \in ColumnsIn(nb[x])
            PROVE  t.signs[j] = -t.signs[x] * Signum(ValueAt(nb[x], j))
        <4>1. t.signs[x] = s.signs[x]
          BY <2>7, <3>2
        <4>2. t.signs[j] = Expected(nb, s, x, j)
          <5>1. CASE j \in new
            BY <2>1, <2>3, <5>1
          <5>2. CASE j \in S
            BY <2>4, <3>1, <3>2, <5>2 DEF Contradicts
          <5> QED
            BY <2>5, <5>1, <5>2
        <4> QED
          BY <4>1, <4>2 DEF Expected
      <3> QED
        BY <2>7, <3>3, <3>4 DEF Opposed
    <2>11. ASSUME NEW u \in Foldings(nb, n)
           PROVE  t.folds /\ \E c \in {-1, 1} : \A i \in Signed(n, t) \ B : t.signs[i] = c * u[i]
      <3>1. PICK c \in {-1, 1} : \A i \in S \ B : s.signs[i] = c * u[i]
        BY <2>6
      <3>2. /\ u \in [1..n -> {-1, 1}]
            /\ \A j \in ColumnsIn(nb[x]) : u[j] = -u[x] * Signum(ValueAt(nb[x], j))
        BY <2>1 DEF Foldings, Opposed
      <3>3. x \in S \ B
        BY <2>1, <2>2
      <3>4. ASSUME NEW j \in ColumnsIn(nb[x]) PROVE Expected(nb, s, x, j) = c * u[j]
        <4>1. Signum(ValueAt(nb[x], j)) \in {-1, 1} /\ u[x] \in {-1, 1} /\ c \in {-1, 1}
          BY <2>1, <3>2, SignumIs
        <4>2. Expected(nb, s, x, j) = -(c * u[x]) * Signum(ValueAt(nb[x], j))
          BY <3>1, <3>3 DEF Expected
        <4>3. -(c * u[x]) * Signum(ValueAt(nb[x], j)) = c * (-u[x] * Signum(ValueAt(nb[x], j)))
          BY <4>1, SignProduct
        <4> QED
          BY <3>2, <4>2, <4>3
      <3>5. ~Contradicts(nb, s, x)
        <4> SUFFICES ASSUME NEW j \in ColumnsIn(nb[x]), s.signs[j] # 0
                     PROVE  s.signs[j] = Expected(nb, s, x, j)
          BY DEF Contradicts
        <4>1. j \in S \ B
          BY <2>3, <2>8 DEF S, Signed
        <4> QED
          BY <3>1, <3>4, <4>1
      <3>6. ASSUME NEW i \in Signed(n, t) \ B PROVE t.signs[i] = c * u[i]
        <4>1. CASE i \in new
          BY <2>1, <2>3, <3>4, <4>1
        <4>2. CASE i \in S
          BY <2>1, <2>2, <2>3, <3>1, <3>6, <4>2
        <4> QED
          BY <2>1, <3>6, <4>1, <4>2
      <3> QED
        BY <2>1, <2>6, <3>5, <3>6
    <2>12. Cardinality(Done(n, t)) >= k
      <3>1. IsFiniteSet(P)
        BY <2>2, Within DEF IsGraph
      <3>2. Cardinality(P) \in Nat /\ Cardinality(Done(n, t)) = Cardinality(P) + 1
        BY <2>7, <3>1, FS_AddElement, FS_CardinalityType
      <3> QED
        BY <2>2, <3>2
    <2>13. /\ ToSet(t.stack) \in SUBSET Signed(n, t) /\ B \in SUBSET Signed(n, t)
           /\ ToSet(t.stack) \cap B = {} /\ root \in Signed(n, t)
      BY <2>1, <2>2, <2>3
    <2>14. SignInv(nb, n, B, root, k, t)
      BY <2>1, <2>9, <2>10, <2>11, <2>12, <2>13 DEF SignInv
    <2> QED
      BY <2>14 DEF t
  <1> QED
    BY <1>1, <1>2

SignStacked(n) == {s \in SignStates(n) : Distinct(s.stack) /\ ToSet(s.stack) \in SUBSET Signed(n, s)}
SignWalks(nb, n) ==
  {s \in SignStates(n) : /\ s.stack = <<>> /\ Shut(nb, Signed(n, s))
                         /\ s.folds => Opposed(nb, s.signs, Signed(n, s))
                         /\ Foldings(nb, n) # {} => s.folds}

LEMMA SignNextIn ==
  ASSUME NEW n, NEW nb, IsGraph(nb, n), NEW s \in SignStacked(n)
  PROVE  SignNext(nb, s) \in SignStacked(n)
  <1>1. CASE s.stack = <<>>
    BY <1>1 DEF SignNext
  <1>2. CASE s.stack # <<>>
    <2> DEFINE x   == Last(s.stack)
               new == {j \in ColumnsIn(nb[x]) : s.signs[j] = 0}
               t   == SignNext(nb, s)
    <2>1. s \in SignStates(n) /\ Distinct(s.stack) /\ ToSet(s.stack) \in SUBSET Signed(n, s)
      BY DEF SignStacked
    <2>2. /\ t \in SignStates(n) /\ Signed(n, t) = Signed(n, s) \cup new
          /\ ToSet(t.stack) = (ToSet(s.stack) \ {x}) \cup new /\ Distinct(t.stack)
      BY <1>2, <2>1, SignNextIs
    <2> HIDE DEF t, new, x
    <2>3. t \in SignStacked(n)
      BY <2>1, <2>2 DEF SignStacked
    <2> QED
      BY <2>3 DEF t
  <1> QED
    BY <1>1, <1>2

LEMMA SignWalkedIs ==
  ASSUME NEW n, NEW nb, IsGraph(nb, n), NEW s \in SignWalks(nb, n),
         NEW root \in (1..n) \ Signed(n, s)
  PROVE  LET t == SignWalked(nb, [s EXCEPT !.signs[root] = 1, !.stack = <<root>>])
         IN t \in SignWalks(nb, n) /\ root \in Signed(n, t) /\ Signed(n, s) \in SUBSET Signed(n, t)
  <1> DEFINE base == [s EXCEPT !.signs[root] = 1, !.stack = <<root>>]
             V    == SignStacked(n)
             Step == [z \in V \X (1..n) |-> SignNext(nb, z[1])]
             B    == Signed(n, s)
             g    == [s.signs EXCEPT ![root] = 1]
             run  == CHOOSE run : run = [k \in 0..Len(nb) |->
                                           IF k = 0 THEN base ELSE SignNext(nb, run[k - 1])]
  <1>1. n \in Nat /\ Len(nb) = n /\ n \in 0..n
    BY DEF IsGraph
  <1>2. /\ s.signs \in [1..n -> {-1, 0, 1}] /\ s.folds \in BOOLEAN /\ s.stack = <<>>
        /\ Shut(nb, B) /\ (s.folds => Opposed(nb, s.signs, B)) /\ (Foldings(nb, n) # {} => s.folds)
        /\ B = {i \in 1..n : s.signs[i] # 0} /\ B \in SUBSET (1..n) /\ root \in 1..n /\ root \notin B
    BY DEF SignWalks, SignStates, Signed
  <1>3. base = [signs |-> g, stack |-> <<root>>, folds |-> s.folds]
    <2>1. s = [signs |-> s.signs, stack |-> s.stack, folds |-> s.folds]
      BY DEF SignWalks, SignStates
    <2> HIDE DEF g
    <2>2. base = [s EXCEPT !.signs = g, !.stack = <<root>>]
      BY DEF g
    <2> HIDE DEF base
    <2>3. base = [signs |-> g, stack |-> <<root>>, folds |-> s.folds]
      BY ONLY <2>1, <2>2
    <2> QED
      BY <2>3
  <1>4. g \in [1..n -> {-1, 0, 1}] /\ g[root] = 1 /\ \A i \in 1..n : i # root => g[i] = s.signs[i]
    <2>1. 1 \in {-1, 0, 1}
      OBVIOUS
    <2>2. g \in [1..n -> {-1, 0, 1}]
      BY <1>2, <2>1, ExceptIn
    <2> QED
      BY <1>2, <2>2
  <1> HIDE DEF base, g, B
  <1>5. /\ base \in SignStates(n) /\ base.signs = g /\ base.stack = <<root>> /\ base.folds = s.folds
        /\ Distinct(base.stack) /\ ToSet(base.stack) = {root}
    BY <1>2, <1>3, <1>4 DEF SignStates, Distinct, ToSet
  <1>6. Signed(n, base) = B \cup {root}
    <2>1. \A i \in 1..n : g[i] # 0 <=> i = root \/ s.signs[i] # 0
      BY <1>4
    <2> QED
      BY <1>2, <1>5, <2>1 DEF Signed
  <1>7. base \in V
    BY <1>5, <1>6 DEF SignStacked
  <1>8. /\ Step \in [V \X (1..n) -> V]
        /\ \A z \in V : \A k \in 1..n : Step[<<z, k>>] = SignNext(nb, z) /\ SignNext(nb, z) \in V
    BY SignNextIn
  <1> HIDE DEF Step
  <1>9. run = [k \in 0..n |-> IF k = 0 THEN base ELSE SignNext(nb, run[k - 1])]
    <2>1. PICK r : r = [k \in 0..n |-> IF k = 0 THEN base ELSE Step[<<r[k - 1], k>>]]
      <3> HIDE DEF V
      <3>1. \E r : Runs(r, n, base, Step)
        BY ONLY <1>1, <1>7, <1>8, RunExists
      <3> QED
        BY ONLY <3>1 DEF Runs
    <2>2. \A k \in 0..n : k = 0 \/ (k \in 1..n /\ k - 1 \in 0..n)
      BY <1>1
    <2>3. \A k \in 1..n : k \in 0..n /\ k # 0 /\ k - 1 \in 0..n
      BY <1>1
    <2> HIDE DEF V
    <2> DEFINE T == {k \in 0..n : r[k] \in V}
    <2>4. \A k \in 0..n : k \in T
      <3>1. 0 \in T
        BY <1>1, <1>7, <2>1
      <3>2. ASSUME NEW k \in 1..n, k - 1 \in T PROVE k \in T
        <4>1. r[k] = Step[<<r[k - 1], k>>] /\ r[k - 1] \in V
          BY <2>1, <2>3, <3>2
        <4> QED
          BY <1>8, <2>3, <4>1
      <3> HIDE DEF T
      <3> QED
        BY <1>1, <3>1, <3>2, CountedUp
    <2>5. ASSUME NEW k \in 0..n
          PROVE  (IF k = 0 THEN base ELSE Step[<<r[k - 1], k>>])
                   = IF k = 0 THEN base ELSE SignNext(nb, r[k - 1])
      BY <1>8, <2>2, <2>4
    <2>6. r = [k \in 0..n |-> IF k = 0 THEN base ELSE SignNext(nb, r[k - 1])]
      BY <2>1, <2>5
    <2>7. r = [k \in 0..Len(nb) |-> IF k = 0 THEN base ELSE SignNext(nb, r[k - 1])]
      BY <1>1, <2>6
    <2>8. run = [k \in 0..Len(nb) |-> IF k = 0 THEN base ELSE SignNext(nb, run[k - 1])]
      BY ONLY <2>7
    <2> QED
      BY <1>1, <2>8
  <1>10. SignWalked(nb, base) = run[n]
    BY <1>1 DEF SignWalked
  <1> HIDE DEF run, V
  <1> DEFINE T == {k \in 0..n : SignInv(nb, n, B, root, k, run[k])}
  <1>11. 0 \in T
    <2>1. run[0] = base
      BY <1>1, <1>9
    <2>2. Done(n, base) = B
      BY <1>2, <1>5, <1>6 DEF Done
    <2>3. \A i \in B : base.signs[i] = s.signs[i] /\ ColumnsIn(nb[i]) \in SUBSET B
      BY <1>2, <1>4, <1>5 DEF Shut
    <2>4. base.folds => Opposed(nb, base.signs, B)
      <3> SUFFICES ASSUME base.folds, NEW i \in B, NEW j \in ColumnsIn(nb[i])
                   PROVE  base.signs[j] = -base.signs[i] * Signum(ValueAt(nb[i], j))
        BY DEF Opposed
      <3>1. j \in B /\ base.signs[i] = s.signs[i] /\ base.signs[j] = s.signs[j]
        BY <2>3
      <3>2. s.signs[j] = -s.signs[i] * Signum(ValueAt(nb[i], j))
        BY <1>2, <1>5 DEF Opposed
      <3> QED
        BY <3>1, <3>2
    <2>5. \A u \in Foldings(nb, n) :
            /\ base.folds
            /\ \E c \in {-1, 1} : \A i \in Signed(n, base) \ B : base.signs[i] = c * u[i]
      <3> SUFFICES ASSUME NEW u \in Foldings(nb, n)
                   PROVE  /\ base.folds
                          /\ \E c \in {-1, 1} : \A i \in Signed(n, base) \ B : base.signs[i] = c * u[i]
        OBVIOUS
      <3>1. u[root] \in {-1, 1} /\ u[root] * u[root] = 1
        <4>1. u[root] \in {-1, 1}
          BY <1>2 DEF Foldings
        <4>2. CASE u[root] = 1
          BY <4>2
        <4>3. CASE u[root] = -1
          BY <4>3
        <4> QED
          BY <4>1, <4>2, <4>3
      <3>2. \A i \in Signed(n, base) \ B : i = root
        BY <1>6
      <3>3. base.signs[root] = u[root] * u[root]
        BY <1>4, <1>5, <3>1
      <3> QED
        BY <1>2, <1>5, <3>1, <3>2, <3>3
    <2>6. Cardinality(Done(n, base)) >= 0
      BY <1>1, <1>2, <2>2, Within
    <2>7. /\ ToSet(base.stack) \in SUBSET Signed(n, base) /\ B \in SUBSET Signed(n, base)
          /\ ToSet(base.stack) \cap B = {} /\ root \in Signed(n, base)
      BY <1>2, <1>5, <1>6
    <2>8. \A i \in Done(n, base) : ColumnsIn(nb[i]) \in SUBSET Signed(n, base)
      BY <1>6, <2>2, <2>3
    <2>9. SignInv(nb, n, B, root, 0, base)
      BY <1>5, <2>2, <2>4, <2>5, <2>6, <2>7, <2>8 DEF SignInv
    <2> QED
      BY <1>1, <2>1, <2>9
  <1>12. ASSUME NEW k \in 1..n, k - 1 \in T PROVE k \in T
    <2>1. k \in 0..n /\ k # 0
      BY <1>1
    <2>2. run[k] = SignNext(nb, run[k - 1])
      BY <1>9, <2>1
    <2>3. SignInv(nb, n, B, root, k - 1, run[k - 1])
      BY <1>12
    <2>4. SignInv(nb, n, B, root, k, SignNext(nb, run[k - 1]))
      BY <1>2, <2>3, SignStep
    <2> QED
      BY <2>1, <2>2, <2>4
  <1>13. n \in T
    <2> HIDE DEF T
    <2> QED
      BY <1>1, <1>11, <1>12, CountedUp
  <1> DEFINE t == run[n]
  <1>14. SignInv(nb, n, B, root, n, t)
    BY <1>13
  <1> HIDE DEF t, T
  <1>15. t.stack = <<>>
    <2> SUFFICES ASSUME t.stack # <<>> PROVE FALSE
      OBVIOUS
    <2> DEFINE x == Last(t.stack)
    <2>1. Cardinality(Done(n, t)) >= n /\ Done(n, t) \in SUBSET (1..n)
          /\ ToSet(t.stack) \cap Done(n, t) = {} /\ t.stack \in Seq(1..n) /\ Distinct(t.stack)
      BY <1>14 DEF SignInv, SignStates, Done, Signed
    <2>2. x \in ToSet(t.stack) /\ x \in 1..n
      BY <2>1, PopIs
    <2> HIDE DEF x
    <2>3. x \notin Done(n, t)
      BY <2>1, <2>2
    <2>4. IsFiniteSet(Done(n, t)) /\ Cardinality(Done(n, t)) \in Nat
      BY <1>1, <2>1, Within
    <2>5. Cardinality(Done(n, t) \cup {x}) = Cardinality(Done(n, t)) + 1
      BY <2>3, <2>4, FS_AddElement
    <2>6. Done(n, t) \cup {x} \in SUBSET (1..n)
      BY <2>1, <2>2
    <2>7. Cardinality(Done(n, t) \cup {x}) <= n
      BY <1>1, <2>6, Within
    <2> QED
      BY <1>1, <2>1, <2>4, <2>5, <2>7
  <1>16. Done(n, t) = Signed(n, t)
    BY <1>15 DEF Done, ToSet
  <1>17. /\ t \in SignStates(n) /\ Shut(nb, Signed(n, t)) /\ B \in SUBSET Signed(n, t)
         /\ root \in Signed(n, t) /\ (t.folds => Opposed(nb, t.signs, Signed(n, t)))
         /\ (Foldings(nb, n) # {} => t.folds)
    BY <1>14, <1>16 DEF SignInv, Shut
  <1>18. t \in SignWalks(nb, n)
    BY <1>15, <1>17 DEF SignWalks
  <1> QED
    BY <1>10, <1>17, <1>18 DEF base, t, B

LEMMA SignFromIs ==
  ASSUME NEW n, NEW nb, IsGraph(nb, n), NEW s \in SignWalks(nb, n), NEW root \in 1..n
  PROVE  /\ SignFrom(nb, s, root) \in SignWalks(nb, n) /\ root \in Signed(n, SignFrom(nb, s, root))
         /\ Signed(n, s) \in SUBSET Signed(n, SignFrom(nb, s, root))
  <1>1. CASE s.signs[root] # 0
    BY <1>1 DEF SignFrom, Signed
  <1>2. CASE s.signs[root] = 0
    <2>1. root \in (1..n) \ Signed(n, s)
      BY <1>2 DEF Signed
    <2>2. SignFrom(nb, s, root) = SignWalked(nb, [s EXCEPT !.signs[root] = 1, !.stack = <<root>>])
      BY <1>2 DEF SignFrom
    <2> DEFINE t == SignWalked(nb, [s EXCEPT !.signs[root] = 1, !.stack = <<root>>])
    <2>3. t \in SignWalks(nb, n) /\ root \in Signed(n, t) /\ Signed(n, s) \in SUBSET Signed(n, t)
      BY <2>1, SignWalkedIs
    <2> HIDE DEF t
    <2>4. SignFrom(nb, s, root) = t
      BY <2>2 DEF t
    <2> QED
      BY <2>3, <2>4
  <1> QED
    BY <1>1, <1>2

(* FoldingSigns signs every node, and folds exactly when some choice of    *)
(* signs makes every entry nonpositive: then its own does.                 *)
LEMMA FoldingSignsAre ==
  ASSUME NEW n, NEW nb, IsGraph(nb, n)
  PROVE  LET s == FoldingSigns(nb)
         IN /\ s.signs \in [1..n -> {-1, 1}] /\ s.folds \in BOOLEAN
            /\ s.folds <=> Foldings(nb, n) # {}
            /\ s.folds => s.signs \in Foldings(nb, n)
  <1> DEFINE base == [signs |-> [i \in DOMAIN nb |-> 0], stack |-> <<>>, folds |-> TRUE]
             V    == SignWalks(nb, n)
             Step == [z \in V \X (1..n) |-> SignFrom(nb, z[1], z[2])]
             run  == CHOOSE run : run = [k \in 0..Len(nb) |->
                                           IF k = 0 THEN base ELSE SignFrom(nb, run[k - 1], k)]
  <1>1. n \in Nat /\ Len(nb) = n /\ n \in 0..n /\ 0 \in 0..n /\ DOMAIN nb = 1..n
    BY DEF IsGraph
  <1>2. FoldingSigns(nb) = run[n]
    BY <1>1 DEF FoldingSigns
  <1>3. base \in V
    <2>1. /\ base.signs = [i \in 1..n |-> 0] /\ base.stack = <<>> /\ base.folds
          /\ base \in SignStates(n)
      BY <1>1 DEF SignStates
    <2> HIDE DEF base
    <2>2. Signed(n, base) = {}
      BY <2>1 DEF Signed
    <2> QED
      BY <2>1, <2>2 DEF SignWalks, Shut, Opposed
  <1>4. /\ Step \in [V \X (1..n) -> V]
        /\ \A z \in V : \A k \in 1..n : Step[<<z, k>>] = SignFrom(nb, z, k) /\ SignFrom(nb, z, k) \in V
    BY SignFromIs
  <1> HIDE DEF base, Step
  <1>5. run = [k \in 0..n |-> IF k = 0 THEN base ELSE SignFrom(nb, run[k - 1], k)]
        /\ \A k \in 0..n : run[k] \in V
    <2>1. PICK r : r = [k \in 0..n |-> IF k = 0 THEN base ELSE Step[<<r[k - 1], k>>]]
      <3> HIDE DEF V
      <3>1. \E r : Runs(r, n, base, Step)
        BY ONLY <1>1, <1>3, <1>4, RunExists
      <3> QED
        BY ONLY <3>1 DEF Runs
    <2>2. \A k \in 0..n : k = 0 \/ (k \in 1..n /\ k - 1 \in 0..n)
      BY <1>1
    <2>3. \A k \in 1..n : k \in 0..n /\ k # 0 /\ k - 1 \in 0..n
      BY <1>1
    <2> HIDE DEF V
    <2> DEFINE T == {k \in 0..n : r[k] \in V}
    <2>4. \A k \in 0..n : k \in T
      <3>1. 0 \in T
        BY <1>1, <1>3, <2>1
      <3>2. ASSUME NEW k \in 1..n, k - 1 \in T PROVE k \in T
        <4>1. r[k] = Step[<<r[k - 1], k>>] /\ r[k - 1] \in V
          BY <2>1, <2>3, <3>2
        <4> QED
          BY <1>4, <2>3, <4>1
      <3> HIDE DEF T
      <3> QED
        BY <1>1, <3>1, <3>2, CountedUp
    <2>5. ASSUME NEW k \in 0..n
          PROVE  (IF k = 0 THEN base ELSE Step[<<r[k - 1], k>>])
                   = IF k = 0 THEN base ELSE SignFrom(nb, r[k - 1], k)
      BY <1>4, <2>2, <2>4
    <2>6. r = [k \in 0..n |-> IF k = 0 THEN base ELSE SignFrom(nb, r[k - 1], k)]
      BY <2>1, <2>5
    <2>7. r = [k \in 0..Len(nb) |-> IF k = 0 THEN base ELSE SignFrom(nb, r[k - 1], k)]
      BY <1>1, <2>6
    <2>8. run = [k \in 0..Len(nb) |-> IF k = 0 THEN base ELSE SignFrom(nb, run[k - 1], k)]
      BY ONLY <2>7
    <2> HIDE DEF run
    <2>9. run = [k \in 0..n |-> IF k = 0 THEN base ELSE SignFrom(nb, run[k - 1], k)]
      BY <1>1, <2>8
    <2> DEFINE U == {k \in 0..n : run[k] \in V}
    <2>10. \A k \in 0..n : k \in U
      <3>1. 0 \in U
        BY <1>1, <1>3, <2>9
      <3>2. ASSUME NEW k \in 1..n, k - 1 \in U PROVE k \in U
        <4>1. run[k] = SignFrom(nb, run[k - 1], k) /\ run[k - 1] \in V
          BY <2>3, <2>9, <3>2
        <4> QED
          BY <1>4, <2>3, <4>1
      <3> HIDE DEF U
      <3> QED
        BY <1>1, <3>1, <3>2, CountedUp
    <2> QED
      BY <2>9, <2>10
  <1> HIDE DEF run
  <1> DEFINE T == {k \in 0..n : 1..k \in SUBSET Signed(n, run[k])}
  <1>6. \A k \in 0..n : k \in T
    <2>1. 0 \in T
      BY <1>1
    <2>2. ASSUME NEW k \in 1..n, k - 1 \in T PROVE k \in T
      <3>1. k \in 0..n /\ k # 0 /\ k - 1 \in 0..n /\ \A i \in 1..k : i = k \/ i \in 1..k - 1
        BY <1>1
      <3>2. run[k] = SignFrom(nb, run[k - 1], k) /\ run[k - 1] \in V
            /\ 1..k - 1 \in SUBSET Signed(n, run[k - 1])
        BY <1>5, <2>2, <3>1
      <3>3. k \in Signed(n, run[k]) /\ Signed(n, run[k - 1]) \in SUBSET Signed(n, run[k])
        BY <3>2, SignFromIs DEF V
      <3> QED
        BY <3>1, <3>2, <3>3
    <2> HIDE DEF T
    <2> QED
      BY <1>1, <2>1, <2>2, CountedUp
  <1> DEFINE s == run[n]
  <1>7. s \in V /\ 1..n \in SUBSET Signed(n, s)
    BY <1>1, <1>5, <1>6
  <1> HIDE DEF s, T
  <1>8. Signed(n, s) = 1..n
    BY <1>7 DEF Signed
  <1>9. /\ s \in SignStates(n) /\ (s.folds => Opposed(nb, s.signs, 1..n))
        /\ (Foldings(nb, n) # {} => s.folds)
    BY <1>7, <1>8 DEF V, SignWalks
  <1>10. s.signs \in [1..n -> {-1, 1}]
    <2>1. s.signs \in [1..n -> {-1, 0, 1}] /\ \A i \in 1..n : s.signs[i] # 0
      BY <1>8, <1>9 DEF SignStates, Signed
    <2>2. \A i \in 1..n : s.signs[i] \in {-1, 1}
      BY <2>1
    <2> QED
      BY <2>1, <2>2
  <1>11. s.folds => s.signs \in Foldings(nb, n)
    BY <1>9, <1>10 DEF Foldings
  <1> QED
    BY <1>2, <1>9, <1>10, <1>11 DEF s, SignStates

-----------------------------------------------------------------------------
(* y is a conversion of x: x with signs folded in.                         *)
ConvertedFrom(y, x) ==
  /\ y.globals = x.globals /\ y.diagonal = x.diagonal
  /\ y.factors \in [1..Len(x.globals) -> {-1, 1}]
  /\ Len(y.c) = Len(x.c) /\ DOMAIN y.c = 1..Len(x.c)
  /\ \A j \in 1..Len(x.c) :
       /\ Len(y.c[j]) = Len(x.c[j]) /\ DOMAIN y.c[j] = 1..Len(x.c[j])
       /\ \A e \in 1..Len(x.c[j]) :
            /\ y.c[j][e].at = x.c[j][e].at
            /\ y.c[j][e].value = -y.factors[j] * y.factors[Len(x.c) + x.c[j][e].at] * x.c[j][e].value

IsEntry(z) == z = [at |-> z.at, value |-> z.value]

LEMMA EntryFacts ==
  ASSUME DesignIs, NEW x, Tabulates(x), NEW j \in 1..Len(x.c)
  PROVE  /\ Len(x.c[j]) \in Nat /\ DOMAIN x.c[j] = 1..Len(x.c[j])
         /\ \A e \in 1..Len(x.c[j]) :
              /\ IsEntry(x.c[j][e])
              /\ x.c[j][e].at \in 1..Columns(x) /\ Len(x.c) + x.c[j][e].at \in 1..Len(x.globals)
              /\ x.c[j][e].value = Gram(x.globals[j], x.globals[Len(x.c) + x.c[j][e].at])
              /\ x.c[j][e].value \in Int /\ x.c[j][e].value # 0
         /\ \A e, f \in 1..Len(x.c[j]) : e < f => x.c[j][e].at < x.c[j][f].at
         /\ \A k \in 1..Columns(x) : Gram(x.globals[j], x.globals[Len(x.c) + k]) # 0
                                       => \E e \in 1..Len(x.c[j]) : x.c[j][e].at = k
  <1> DEFINE n == Len(x.c)
             l == Columns(x)
             N == Len(x.globals)
             row == x.c[j]
             v == Across(x, j)
  <1>1. /\ n \in Nat /\ l \in Nat /\ N = n + l
        /\ \A i, k \in 1..N : Gram(x.globals[i], x.globals[k]) \in Int
    BY TableFacts
  <1>2. RowIs(row, 1..l, v)
    BY DEF Tabulates
  <1>3. \A k \in 1..l : v[k] = Gram(x.globals[j], x.globals[n + k])
    BY DEF Across
  <1> HIDE DEF n, l, N, v
  <1>4. \A k \in 1..l : n + k \in 1..N
    BY ONLY <1>1
  <1>5. j \in 1..N
    BY <1>1 DEF n
  <1>6. \A k \in 1..l : v[k] \in Int
    BY <1>1, <1>3, <1>4, <1>5
  <1> HIDE DEF row
  <1>7. /\ Len(row) \in Nat /\ DOMAIN row = 1..Len(row)
        /\ \A e \in 1..Len(row) :
              /\ IsEntry(row[e])
              /\ row[e].at \in 1..l /\ n + row[e].at \in 1..N
              /\ row[e].value = Gram(x.globals[j], x.globals[n + row[e].at])
              /\ row[e].value \in Int /\ row[e].value # 0
        /\ \A e, f \in 1..Len(row) : e < f => row[e].at < row[f].at
        /\ \A k \in 1..l : Gram(x.globals[j], x.globals[n + k]) # 0
                             => \E e \in 1..Len(row) : row[e].at = k
    BY <1>2, <1>3, <1>4, <1>6 DEF RowIs, IsEntry
  <1> QED
    BY <1>7 DEF row, n, l, N

LEMMA FoldedIs ==
  ASSUME DesignIs, NEW x, Tabulates(x), NEW f \in [1..Len(x.globals) -> {-1, 1}]
  PROVE  LET c == Folded(x.c, f)
         IN /\ Len(c) = Len(x.c) /\ DOMAIN c = 1..Len(x.c)
            /\ \A j \in 1..Len(x.c) :
                 /\ Len(c[j]) = Len(x.c[j]) /\ DOMAIN c[j] = 1..Len(x.c[j])
                 /\ \A e \in 1..Len(x.c[j]) :
                      /\ c[j][e].at = x.c[j][e].at
                      /\ c[j][e].value = -f[j] * f[Len(x.c) + x.c[j][e].at] * x.c[j][e].value
  <1> DEFINE n == Len(x.c)
             c == Folded(x.c, f)
  <1>1. n \in Nat /\ DOMAIN x.c = 1..n
    BY DEF Tabulates
  <1>2. c = [j \in 1..n |-> [e \in DOMAIN x.c[j] |->
              [x.c[j][e] EXCEPT !.value = -f[j] * f[n + x.c[j][e].at] * x.c[j][e].value]]]
    BY <1>1 DEF Folded
  <1> HIDE DEF n, c
  <1>3. DOMAIN c = 1..n /\ c = [j \in 1..n |-> c[j]]
    BY <1>2
  <1>4. Len(c) = n
    BY <1>1, <1>3, LenOfFunction
  <1>5. ASSUME NEW j \in 1..n
        PROVE  /\ Len(c[j]) = Len(x.c[j]) /\ DOMAIN c[j] = 1..Len(x.c[j])
               /\ \A e \in 1..Len(x.c[j]) :
                      /\ c[j][e].at = x.c[j][e].at
                      /\ c[j][e].value = -f[j] * f[n + x.c[j][e].at] * x.c[j][e].value
    <2> DEFINE row == x.c[j]
               w == [e \in DOMAIN row |-> -f[j] * f[n + row[e].at] * row[e].value]
               d == c[j]
    <2>1. /\ Len(row) \in Nat /\ DOMAIN row = 1..Len(row)
          /\ \A e \in 1..Len(row) : IsEntry(row[e])
      <3>1. j \in 1..Len(x.c)
        BY DEF n
      <3> QED
        BY <3>1, EntryFacts
    <2>2. d = [e \in DOMAIN row |-> [row[e] EXCEPT !.value = w[e]]]
      BY <1>2
    <2>3. \A e \in DOMAIN row : w[e] = -f[j] * f[n + row[e].at] * row[e].value
      OBVIOUS
    <2> HIDE DEF row, w, d
    <2>4. d = [e \in 1..Len(row) |-> d[e]]
      BY <2>1, <2>2
    <2>5. Len(d) = Len(row) /\ DOMAIN d = 1..Len(row)
      BY <2>1, <2>4, LenOfFunction
    <2>6. ASSUME NEW e \in 1..Len(row)
          PROVE  d[e].at = row[e].at /\ d[e].value = w[e]
      <3> DEFINE z == row[e]
                 u == w[e]
      <3>1. z = [at |-> z.at, value |-> z.value] /\ d[e] = [z EXCEPT !.value = u]
        BY <2>1, <2>2 DEF IsEntry
      <3> HIDE DEF z, u
      <3>2. d[e].at = z.at /\ d[e].value = u
        BY ONLY <3>1
      <3> QED
        BY <3>2 DEF z, u
    <2> QED
      BY <2>1, <2>3, <2>5, <2>6 DEF row, d
  <1> QED
    BY <1>3, <1>4, <1>5 DEF c, n

LEMMA SignCases ==
  ASSUME NEW a \in {-1, 1}, NEW b \in {-1, 1}, NEW v \in Int
  PROVE  /\ a * b \in {-1, 1} /\ a * b = b * a
         /\ a * b * v = IF a = b THEN v ELSE -v
         /\ -a * b * v = IF a = b THEN -v ELSE v
         /\ -a * Signum(v) = IF v < 0 THEN a ELSE -a
  <1>1. CASE a = 1
    <2>1. a * b = b /\ b * a = b /\ -a * Signum(v) = IF v < 0 THEN a ELSE -a
      BY <1>1 DEF Signum
    <2>2. CASE b = 1
      BY <1>1, <2>1, <2>2
    <2>3. CASE b = -1
      <3>1. a * b * v = -v /\ -a * b * v = v
        BY <2>1, <2>3
      <3> QED
        BY <1>1, <2>1, <2>3, <3>1
    <2> QED
      BY <2>2, <2>3
  <1>2. CASE a = -1
    <2>1. a * b = -b /\ b * a = -b /\ -a * Signum(v) = IF v < 0 THEN a ELSE -a
      BY <1>2 DEF Signum
    <2>2. CASE b = 1
      <3>1. a * b * v = -v /\ -a * b * v = v
        BY <2>1, <2>2
      <3> QED
        BY <1>2, <2>1, <2>2, <3>1
    <2>3. CASE b = -1
      <3>1. a * b * v = v /\ -a * b * v = -v
        BY <2>1, <2>3
      <3> QED
        BY <1>2, <2>1, <2>3, <3>1
    <2> QED
      BY <2>2, <2>3
  <1> QED
    BY <1>1, <1>2

SignGraphOf(x) == Neighbors(x.c, Len(x.diagonal) - Len(x.c))

LEMMA SignGraphIs ==
  ASSUME DesignIs, NEW x, Tabulates(x)
  PROVE  LET nb == SignGraphOf(x)
         IN /\ Adjoins(nb, x) /\ IsGraph(nb, Len(x.globals))
            /\ \A i \in 1..Len(x.globals) : \A j \in ColumnsIn(nb[i]) :
                 /\ j \in 1..Len(x.globals)
                 /\ ValueAt(nb[i], j) = Gram(x.globals[i], x.globals[j])
                 /\ Gram(x.globals[i], x.globals[j]) # 0
                 /\ i <= Len(x.c) <=> ~(j <= Len(x.c))
            /\ \A i, j \in 1..Len(x.globals) :
                 Gram(x.globals[i], x.globals[j]) # 0 /\ (i <= Len(x.c) <=> ~(j <= Len(x.c)))
                   => j \in ColumnsIn(nb[i])
  <1> DEFINE nb == SignGraphOf(x)
             N == Len(x.globals)
  <1>1. nb = Neighbors(x.c, Columns(x))
    BY DEF Tabulates, Columns, SignGraphOf
  <1>2. Adjoins(nb, x)
    BY <1>1, NeighborsAre
  <1> HIDE DEF nb
  <1>3. /\ IsGraph(nb, N)
        /\ \A i, j \in 1..N :
              j \in ColumnsIn(nb[i]) <=> /\ Gram(x.globals[i], x.globals[j]) # 0
                                         /\ i <= Len(x.c) <=> ~(j <= Len(x.c))
    BY <1>2, TableGraph
  <1>4. ASSUME NEW i \in 1..N, NEW j \in ColumnsIn(nb[i])
        PROVE  j \in 1..N /\ ValueAt(nb[i], j) = Gram(x.globals[i], x.globals[j])
    <2>1. j \in 1..N
      BY <1>3 DEF IsGraph
    <2>2. RowIs(nb[i], Opposite(x, i), GramRow(x, i))
      BY <1>2 DEF Adjoins
    <2>3. Opposite(x, i) \in SUBSET Int
      BY TableFacts DEF Opposite
    <2>4. ValueAt(nb[i], j) = GramRow(x, i)[j]
      BY <2>2, <2>3, RowFacts
    <2> QED
      BY <2>1, <2>4 DEF GramRow
  <1> QED
    BY <1>2, <1>3, <1>4 DEF nb

(* The choices of signs that fold x: the words of FoldsUnlessFrustrated.   *)
Folders(x) ==
  {s \in [DOMAIN x.globals -> {-1, 1}] :
     \A i \in 1..Len(x.c) : \A j \in Len(x.c) + 1..Len(x.globals) :
       s[i] * s[j] * Gram(x.globals[i], x.globals[j]) <= 0}

LEMMA FoldersAre ==
  ASSUME DesignIs, NEW x, Tabulates(x)
  PROVE  Folders(x) = Foldings(SignGraphOf(x), Len(x.globals))
  <1> DEFINE nb == SignGraphOf(x)
             N == Len(x.globals)
             n == Len(x.c)
             G(i, j) == Gram(x.globals[i], x.globals[j])
  <1>1. /\ N \in Nat /\ n \in Nat /\ n <= N /\ DOMAIN x.globals = 1..N
        /\ \A i, j \in 1..N : G(i, j) = G(j, i) /\ G(i, j) \in Int
    BY TableFacts DEF Tabulates
  <1>2. /\ \A i \in 1..N : \A j \in ColumnsIn(nb[i]) :
             j \in 1..N /\ ValueAt(nb[i], j) = G(i, j) /\ G(i, j) # 0 /\ (i <= n <=> ~(j <= n))
        /\ \A i, j \in 1..N : G(i, j) # 0 /\ (i <= n <=> ~(j <= n)) => j \in ColumnsIn(nb[i])
    BY SignGraphIs
  <1> HIDE DEF nb, N, n, G
  <1>3. /\ \A i \in 1..n : i \in 1..N /\ i <= n
        /\ \A j \in n + 1..N : j \in 1..N /\ ~(j <= n)
        /\ \A i \in 1..N : IF i <= n THEN i \in 1..n ELSE i \in n + 1..N
    BY <1>1
  <1>4. ASSUME NEW s \in [1..N -> {-1, 1}]
        PROVE  (\A i \in 1..n : \A j \in n + 1..N : s[i] * s[j] * G(i, j) <= 0)
                 <=> Opposed(nb, s, 1..N)
    <2>1. ASSUME NEW i \in 1..N, NEW j \in 1..N, G(i, j) # 0
          PROVE  s[j] = -s[i] * Signum(G(i, j)) <=> s[i] * s[j] * G(i, j) <= 0
      <3>1. s[i] \in {-1, 1} /\ s[j] \in {-1, 1} /\ G(i, j) \in Int
        BY <1>1
      <3>2. /\ s[i] * s[j] * G(i, j) = IF s[i] = s[j] THEN G(i, j) ELSE -G(i, j)
            /\ -s[i] * Signum(G(i, j)) = IF G(i, j) < 0 THEN s[i] ELSE -s[i]
        BY ONLY <3>1, SignCases
      <3> QED
        BY <2>1, <3>1, <3>2
    <2>2. ASSUME \A i \in 1..n : \A j \in n + 1..N : s[i] * s[j] * G(i, j) <= 0,
                 NEW i \in 1..N, NEW j \in ColumnsIn(nb[i])
          PROVE  s[j] = -s[i] * Signum(ValueAt(nb[i], j))
      <3>1. j \in 1..N /\ ValueAt(nb[i], j) = G(i, j) /\ G(i, j) # 0 /\ (i <= n <=> ~(j <= n))
        BY <1>2
      <3>2. s[i] \in {-1, 1} /\ s[j] \in {-1, 1} /\ G(i, j) = G(j, i) /\ G(i, j) \in Int
        BY <1>1, <3>1
      <3>3. s[i] * s[j] * G(i, j) <= 0
        <4>1. CASE i <= n
          BY <1>3, <2>2, <3>1, <4>1
        <4>2. CASE ~(i <= n)
          <5>1. s[j] * s[i] * G(j, i) <= 0
            BY <1>3, <2>2, <3>1, <4>2
          <5>2. s[i] * s[j] = s[j] * s[i]
            BY ONLY <3>2, SignCases
          <5> QED
            BY <3>2, <5>1, <5>2
        <4> QED
          BY <4>1, <4>2
      <3> QED
        BY <2>1, <3>1, <3>3
    <2>3. ASSUME Opposed(nb, s, 1..N), NEW i \in 1..n, NEW j \in n + 1..N
          PROVE  s[i] * s[j] * G(i, j) <= 0
      <3>1. i \in 1..N /\ j \in 1..N /\ (i <= n <=> ~(j <= n))
        BY <1>3
      <3>2. CASE G(i, j) = 0
        <4>1. s[i] \in {-1, 1} /\ s[j] \in {-1, 1} /\ G(i, j) \in Int
          BY <1>1, <3>1
        <4>2. s[i] * s[j] * G(i, j) = IF s[i] = s[j] THEN G(i, j) ELSE -G(i, j)
          BY ONLY <4>1, SignCases
        <4> QED
          BY <3>2, <4>2
      <3>3. CASE G(i, j) # 0
        <4>1. j \in ColumnsIn(nb[i]) /\ ValueAt(nb[i], j) = G(i, j)
          BY <1>2, <3>1, <3>3
        <4>2. s[j] = -s[i] * Signum(G(i, j))
          BY <2>3, <3>1, <4>1 DEF Opposed
        <4> QED
          BY <2>1, <3>1, <3>3, <4>2
      <3> QED
        BY <3>2, <3>3
    <2>4. (\A i \in 1..n : \A j \in n + 1..N : s[i] * s[j] * G(i, j) <= 0)
            => Opposed(nb, s, 1..N)
      BY <2>2 DEF Opposed
    <2> QED
      BY <2>3, <2>4
  <1>5. Folders(x) = {s \in [1..N -> {-1, 1}] :
                        \A i \in 1..n : \A j \in n + 1..N : s[i] * s[j] * G(i, j) <= 0}
    BY <1>1 DEF Folders, N, n, G
  <1>6. Foldings(nb, N) = {s \in [1..N -> {-1, 1}] : Opposed(nb, s, 1..N)}
    BY DEF Foldings
  <1>7. Folders(x) = Foldings(nb, N)
    BY ONLY <1>4, <1>5, <1>6
  <1> QED
    BY <1>7 DEF nb, N

IsComponent(y) ==
  y = [globals |-> y.globals, c |-> y.c, diagonal |-> y.diagonal, factors |-> y.factors,
       ground |-> y.ground, grounding |-> y.grounding, form |-> y.form, scaled |-> y.scaled,
       warned |-> y.warned]

LEMMA NotRejected == ASSUME NEW y, IsComponent(y) PROVE ~IsRejected(y)
  <1>1. DOMAIN y = {"globals", "c", "diagonal", "factors", "ground", "grounding", "form", "scaled",
                    "warned"}
    BY DEF IsComponent
  <1> QED
    BY <1>1 DEF IsRejected

(* Signs that fold x leave no positive off-diagonal.                       *)
LEMMA EntryIs ==
  ASSUME DesignIs, NEW x, Tabulates(x), NEW j \in 1..Len(x.c), NEW e \in 1..Len(x.c[j]), NEW v, v = x.c[j][e]
  PROVE  v.at \in 1..Columns(x) /\ v.value \in Int
         /\ v.value = Gram(x.globals[j], x.globals[Len(x.c) + v.at])
  <1>1. v.at \in 1..Columns(x) /\ v.value \in Int
    BY EntryFacts
  <1>2. v.value = Gram(x.globals[j], x.globals[Len(x.c) + v.at])
    BY EntryFacts
  <1> QED
    BY <1>1, <1>2

LEMMA FoldedNonnegative ==
  ASSUME DesignIs, NEW x, Tabulates(x), NEW f \in Folders(x)
  PROVE  IsZ(Folded(x.c, f))
  <1> DEFINE n == Len(x.c)
             N == Len(x.globals)
             c == Folded(x.c, f)
             G(i, j) == Gram(x.globals[i], x.globals[j])
  <1>1. /\ N \in Nat /\ n \in Nat /\ n <= N /\ DOMAIN x.globals = 1..N /\ N = n + Columns(x)
        /\ Columns(x) \in Nat
    BY TableFacts DEF Tabulates
  <1>2. f \in [1..N -> {-1, 1}] /\ \A i \in 1..n : \A j \in n + 1..N : f[i] * f[j] * G(i, j) <= 0
    BY <1>1 DEF Folders
  <1>3. /\ DOMAIN c = 1..n
        /\ \A j \in 1..n :
             /\ DOMAIN c[j] = 1..Len(x.c[j])
             /\ \A e \in 1..Len(x.c[j]) :
                  c[j][e].value = -f[j] * f[n + x.c[j][e].at] * x.c[j][e].value
    <2>1. DOMAIN c = 1..n
      BY <1>2, FoldedIs
    <2>2. ASSUME NEW j \in 1..n, NEW e \in 1..Len(x.c[j])
          PROVE  c[j][e].value = -f[j] * f[n + x.c[j][e].at] * x.c[j][e].value
      BY ONLY DesignIs, Tabulates(x), <1>2, j \in 1..n, e \in 1..Len(x.c[j]), FoldedIs
    <2>3. \A j \in 1..n : DOMAIN c[j] = 1..Len(x.c[j])
      BY <1>2, FoldedIs
    <2> HIDE DEF c
    <2> QED
      BY <2>1, <2>2, <2>3
  <1> SUFFICES ASSUME NEW j \in 1..n, NEW e \in 1..Len(x.c[j]) PROVE c[j][e].value >= 0
    BY <1>3 DEF IsZ
  <1> DEFINE k == n + x.c[j][e].at
             v == x.c[j][e].value
  <1>4. x.c[j][e].at \in 1..Columns(x) /\ v = G(j, k) /\ v \in Int
    <2>1. /\ x.c[j][e].at \in 1..Columns(x) /\ x.c[j][e].value \in Int
          /\ x.c[j][e].value = Gram(x.globals[j], x.globals[Len(x.c) + x.c[j][e].at])
      BY ONLY DesignIs, Tabulates(x), j \in 1..Len(x.c), e \in 1..Len(x.c[j]), EntryIs
    <2> QED
      BY <2>1
  <1>5. c[j][e].value = -f[j] * f[k] * v
    BY <1>3
  <1> HIDE DEF c, v, n, N
  <1>6. k \in n + 1..N /\ k \in 1..N /\ j \in 1..N
    <2> DEFINE t == x.c[j][e].at
               l == Columns(x)
    <2>1. t \in 1..l /\ l \in Nat /\ N = n + l /\ n \in Nat /\ k = n + t
      BY <1>1, <1>4
    <2> HIDE DEF t, l, k
    <2>2. k \in n + 1..N /\ k \in 1..N /\ n <= N
      BY ONLY <2>1
    <2>3. j \in 1..N
      BY ONLY <2>1, j \in 1..n
    <2> QED
      BY <2>2, <2>3
  <1> HIDE DEF k, G
  <1>7. f[j] * f[k] * v <= 0
    BY <1>2, <1>4, <1>6
  <1>8. f[j] \in {-1, 1} /\ f[k] \in {-1, 1}
    BY <1>2, <1>6
  <1>9. /\ f[j] * f[k] * v = IF f[j] = f[k] THEN v ELSE -v
        /\ -f[j] * f[k] * v = IF f[j] = f[k] THEN -v ELSE v
    BY ONLY <1>4, <1>8, SignCases
  <1> QED
    BY <1>4, <1>5, <1>7, <1>9

(* assemble never rejects.                                                 *)
LEMMA AssembleIs ==
  ASSUME DesignIs, NEW x, Tabulates(x), NEW scaled, NEW warned
  PROVE  LET s == FoldingSigns(SignGraphOf(x))
             y == Assemble(x, s, scaled, warned)
         IN /\ IsComponent(y) /\ ConvertedFrom(y, x) /\ y.scaled = scaled /\ y.warned = warned
            /\ y.form = IF Folders(x) # {} THEN "Laplacian" ELSE "SignedPendingCover"
            /\ Folders(x) # {} => y.factors \in Folders(x) /\ IsZ(y.c)
  <1> DEFINE n == Len(x.c)
             N == Len(x.globals)
             s == FoldingSigns(SignGraphOf(x))
             y == Assemble(x, s, scaled, warned)
             h == [i \in DOMAIN s.signs |-> IF i <= Len(x.c) THEN 1 ELSE -1]
  <1>1. /\ s.signs \in [1..N -> {-1, 1}] /\ s.folds \in BOOLEAN
        /\ s.folds <=> Folders(x) # {}
        /\ s.folds => s.signs \in Folders(x)
    BY SignGraphIs, FoldersAre, FoldingSignsAre
  <1> HIDE DEF s
  <1>2. h \in [1..N -> {-1, 1}]
    BY <1>1
  <1> HIDE DEF h
  <1>3. ASSUME NEW f \in [1..N -> {-1, 1}], NEW form, form = "Laplacian" => f \in Folders(x),
               NEW z, z = Assembled(x, Folded(x.c, f), f, form, scaled, warned)
        PROVE  /\ IsComponent(z) /\ ConvertedFrom(z, x) /\ z.scaled = scaled /\ z.warned = warned
               /\ z.form = form /\ z.factors = f /\ (form = "Laplacian" => IsZ(z.c))
    <2> DEFINE c == Folded(x.c, f)
    <2>1. form = "Laplacian" => IsZ(c)
      BY <1>3, FoldedNonnegative
    <2>2. /\ Len(c) = n /\ DOMAIN c = 1..n
          /\ \A j \in 1..n :
               /\ Len(c[j]) = Len(x.c[j]) /\ DOMAIN c[j] = 1..Len(x.c[j])
               /\ \A e \in 1..Len(x.c[j]) :
                    /\ c[j][e].at = x.c[j][e].at
                    /\ c[j][e].value = -f[j] * f[n + x.c[j][e].at] * x.c[j][e].value
      BY FoldedIs
    <2> HIDE DEF c
    <2>3. z = [globals |-> x.globals, c |-> c, diagonal |-> x.diagonal, factors |-> f,
               ground |-> None, grounding |-> None, form |-> form, scaled |-> scaled,
               warned |-> warned]
      BY <1>3, <2>1 DEF Assembled, c
    <2>4. /\ z.globals = x.globals /\ z.c = c /\ z.diagonal = x.diagonal /\ z.factors = f
          /\ z.form = form /\ z.scaled = scaled /\ z.warned = warned /\ IsComponent(z)
      BY ONLY <2>3 DEF IsComponent
    <2>5. ConvertedFrom(z, x)
      BY <2>2, <2>4 DEF ConvertedFrom
    <2> QED
      BY <2>1, <2>4, <2>5
  <1>4. CASE s.folds
    <2>1. y = Assembled(x, Folded(x.c, s.signs), s.signs, "Laplacian", scaled, warned)
      BY <1>4 DEF Assemble
    <2> HIDE DEF y
    <2>2. s.signs \in Folders(x)
      BY <1>1, <1>4
    <2>3. /\ IsComponent(y) /\ ConvertedFrom(y, x) /\ y.scaled = scaled /\ y.warned = warned
          /\ y.form = "Laplacian" /\ y.factors = s.signs /\ IsZ(y.c)
      BY <1>1, <1>3, <2>1, <2>2
    <2> QED
      BY <1>1, <1>4, <2>3 DEF y, s
  <1>5. CASE ~s.folds
    <2>1. y = Assembled(x, Folded(x.c, h), h, "SignedPendingCover", scaled, warned)
      BY <1>5 DEF Assemble, h
    <2> HIDE DEF y
    <2>2. /\ IsComponent(y) /\ ConvertedFrom(y, x) /\ y.scaled = scaled /\ y.warned = warned
          /\ y.form = "SignedPendingCover"
      BY <1>2, <1>3, <2>1
    <2> QED
      BY <1>1, <1>5, <2>2 DEF y, s
  <1> QED
    BY <1>1, <1>4, <1>5

-----------------------------------------------------------------------------
(* finalize changes the ground alone.                                      *)
LEMMA GroundedIs ==
  ASSUME NEW z, IsComponent(z), NEW sums, NEW y, y = Grounded(z, sums)
  PROVE  /\ IsComponent(y) /\ y.globals = z.globals /\ y.c = z.c /\ y.diagonal = z.diagonal
         /\ y.factors = z.factors /\ y.form = z.form /\ y.scaled = z.scaled
         /\ y.warned = z.warned
         /\ y.grounding = "Floating" <=> \A i \in DOMAIN sums : z.diagonal[i] - sums[i] = 0
  <1> DEFINE a == [i \in DOMAIN sums |-> z.diagonal[i] - sums[i]]
             b == IF \A i \in DOMAIN sums : a[i] = 0 THEN "Floating" ELSE "Grounded"
  <1>1. y = [z EXCEPT !.ground = a, !.grounding = b]
    BY DEF Grounded
  <1>2. b = "Floating" <=> \A i \in DOMAIN sums : z.diagonal[i] - sums[i] = 0
    OBVIOUS
  <1> HIDE DEF a, b
  <1>4. z = [globals |-> z.globals, c |-> z.c, diagonal |-> z.diagonal, factors |-> z.factors,
             ground |-> z.ground, grounding |-> z.grounding, form |-> z.form,
             scaled |-> z.scaled, warned |-> z.warned]
    BY DEF IsComponent
  <1>5. y = [globals |-> z.globals, c |-> z.c, diagonal |-> z.diagonal, factors |-> z.factors,
             ground |-> a, grounding |-> b, form |-> z.form,
             scaled |-> z.scaled, warned |-> z.warned]
    BY ONLY <1>1, <1>4
  <1>6. /\ y.globals = z.globals /\ y.c = z.c /\ y.diagonal = z.diagonal /\ y.factors = z.factors
        /\ y.ground = a /\ y.grounding = b /\ y.form = z.form /\ y.scaled = z.scaled
        /\ y.warned = z.warned
    BY ONLY <1>5
  <1>7. IsComponent(y)
    BY ONLY <1>5, <1>6 DEF IsComponent
  <1> QED
    BY <1>2, <1>6, <1>7

(* Between intercepts every coupling is nonnegative.                       *)
LEMMA PlainNonnegative ==
  ASSUME DesignIs, NEW p, IsPair(p), IsPlain(p),
         NEW d \in ChannelDofs(p.rows), NEW e \in ChannelDofs(p.cols)
  PROVE  Gram(d, e) \in Nat
  <1>1. PICK l \in Levels(p.rows) : d = DofAt(p.rows, l)
    BY ChannelDofsAre DEF IsPair
  <1>2. PICK m \in Levels(p.cols) : e = DofAt(p.cols, m)
    BY ChannelDofsAre DEF IsPair
  <1> DEFINE f == Products(p.rows, l, p.cols, m)
  <1>3. Gram(d, e) = SumFunctionOnSet(f, Observations)
    BY <1>1, <1>2, GramIs DEF IsPair
  <1>4. \A i \in Observations : f[i] \in Nat
    <2> SUFFICES ASSUME NEW i \in Observations PROVE f[i] \in Nat
      OBVIOUS
    <2> DEFINE w == Weight(i)
               a == Entry(p.rows, l, i)
               b == Entry(p.cols, m, i)
    <2>1. a \in Nat /\ b \in Nat
      BY FactorPairsAssumption DEF Entry, Load, IsPlain
    <2>2. w \in Nat /\ f[i] = w * a * b
      BY ObservationFacts DEF Products
    <2> HIDE DEF w, a, b, f
    <2> QED
      BY <2>1, <2>2
  <1> HIDE DEF f
  <1> QED
    BY <1>3, <1>4, ObservationFacts, SumPositive

(* What Convert makes of the component x of the pair p.                    *)
Converted(p, x, y) ==
  /\ IsComponent(y) /\ ConvertedFrom(y, x)
  /\ y.form = "Laplacian" <=> Folders(x) # {}
  /\ y.form = "Laplacian" => IsZ(y.c)

LEMMA PlainIs ==
  ASSUME DesignIs, NEW p, IsPair(p), IsPlain(p), NEW x, SoundLocal(p, x), NEW sums,
         NEW y, y = ConvertKnownLaplacian(x, sums), ~IsRejected(y)
  PROVE  Converted(p, x, y)
  <1> DEFINE n == Len(x.c)
             N == Len(x.globals)
             h == [i \in 1..N |-> IF i <= n THEN 1 ELSE -1]
             z0 == [i \in 1..N |-> 0]
  <1>1. Tabulates(x) /\ n \in Nat /\ N \in Nat /\ n <= N
        /\ DOMAIN x.diagonal = 1..N /\ DOMAIN x.globals = 1..N
    BY TableFacts DEF SoundLocal, Tabulates
  <1>2. sums = x.diagonal
    BY DEF ConvertKnownLaplacian, Rejected, IsRejected
  <1>3. y = [globals |-> x.globals, c |-> x.c, diagonal |-> x.diagonal, factors |-> h,
             ground |-> z0, grounding |-> "Floating", form |-> "Laplacian", scaled |-> FALSE,
             warned |-> FALSE]
    BY <1>1, <1>2 DEF ConvertKnownLaplacian
  <1>4. /\ h \in [1..N -> {-1, 1}]
        /\ \A i \in 1..N : h[i] = IF i <= n THEN 1 ELSE -1
    OBVIOUS
  <1> HIDE DEF n, N, h, z0
  <1>5. /\ y.globals = x.globals /\ y.c = x.c /\ y.diagonal = x.diagonal /\ y.factors = h
        /\ y.form = "Laplacian" /\ IsComponent(y)
    BY ONLY <1>3 DEF IsComponent
  <1>6. \A i \in 1..n : \A j \in n + 1..N : i \in 1..N /\ j \in 1..N /\ h[i] = 1 /\ h[j] = -1
    BY <1>1, <1>4
  <1>7. \A i \in 1..n : \A j \in n + 1..N : Gram(x.globals[i], x.globals[j]) \in Nat
    <2> SUFFICES ASSUME NEW i \in 1..n, NEW j \in n + 1..N
                 PROVE  Gram(x.globals[i], x.globals[j]) \in Nat
      OBVIOUS
    <2> DEFINE d == x.globals[i]
               e == x.globals[j]
    <2>1. i \in 1..N /\ j \in 1..N /\ i <= n /\ ~(j <= n)
      BY <1>1
    <2>2. Gram(d, e) = Gram(e, d)
      BY <1>1, <2>1, TableFacts DEF N
    <2>3. \/ d \in ChannelDofs(p.rows) /\ e \in ChannelDofs(p.cols)
          \/ d \in ChannelDofs(p.cols) /\ e \in ChannelDofs(p.rows)
      BY <2>1 DEF SoundLocal, Splits, n, N
    <2> QED
      BY <2>2, <2>3, PlainNonnegative
  <1>8. h \in Folders(x)
    <2>1. \A i \in 1..n : \A j \in n + 1..N : h[i] * h[j] * Gram(x.globals[i], x.globals[j]) <= 0
      <3> SUFFICES ASSUME NEW i \in 1..n, NEW j \in n + 1..N
                   PROVE  h[i] * h[j] * Gram(x.globals[i], x.globals[j]) <= 0
        OBVIOUS
      <3> DEFINE g == Gram(x.globals[i], x.globals[j])
      <3>1. g \in Nat /\ h[i] = 1 /\ h[j] = -1
        BY <1>6, <1>7
      <3> HIDE DEF g
      <3>2. h[i] * h[j] = -1
        BY <3>1
      <3>3. h[i] * h[j] * g = -g
        BY <3>1, <3>2
      <3> QED
        BY <3>1, <3>3 DEF g
    <2> QED
      BY <1>1, <1>4, <2>1 DEF Folders, n, N
  <1>9. ASSUME NEW j \in 1..n
        PROVE  /\ Len(x.c[j]) \in Nat /\ DOMAIN x.c[j] = 1..Len(x.c[j])
               /\ \A e \in 1..Len(x.c[j]) :
                    /\ x.c[j][e].value \in Nat
                    /\ x.c[j][e].value = -h[j] * h[n + x.c[j][e].at] * x.c[j][e].value
    <2>1. j \in 1..Len(x.c)
      BY DEF n
    <2>2. /\ Len(x.c[j]) \in Nat /\ DOMAIN x.c[j] = 1..Len(x.c[j])
          /\ \A e \in 1..Len(x.c[j]) :
               /\ x.c[j][e].at \in 1..Columns(x)
               /\ x.c[j][e].value = Gram(x.globals[j], x.globals[n + x.c[j][e].at])
      <3>1. Len(x.c[j]) \in Nat /\ DOMAIN x.c[j] = 1..Len(x.c[j])
        BY <1>1, <2>1, EntryFacts
      <3>2. ASSUME NEW e \in 1..Len(x.c[j])
            PROVE  /\ x.c[j][e].at \in 1..Columns(x)
                   /\ x.c[j][e].value = Gram(x.globals[j], x.globals[n + x.c[j][e].at])
        BY ONLY DesignIs, <1>1, <2>1, e \in 1..Len(x.c[j]), EntryIs DEF n
      <3> QED
        BY <3>1, <3>2
    <2>3. ASSUME NEW e \in 1..Len(x.c[j])
          PROVE  /\ x.c[j][e].value \in Nat
                 /\ x.c[j][e].value = -h[j] * h[n + x.c[j][e].at] * x.c[j][e].value
      <3> DEFINE t == x.c[j][e].at
                 v == x.c[j][e].value
      <3>1. t \in 1..Columns(x) /\ v = Gram(x.globals[j], x.globals[n + t])
        BY <2>2
      <3>2. Columns(x) = N - n
        BY DEF Columns, N, n
      <3> HIDE DEF t, v
      <3>3. n + t \in n + 1..N
        BY <1>1, <3>1, <3>2
      <3>4. v \in Nat /\ h[j] = 1 /\ h[n + t] = -1
        BY <1>6, <1>7, <3>1, <3>3
      <3>5. h[j] \in {-1, 1} /\ h[n + t] \in {-1, 1} /\ v \in Int /\ h[j] # h[n + t]
        BY <3>4
      <3>6. -h[j] * h[n + t] * v = v
        BY ONLY <3>5, SignCases
      <3> QED
        BY <3>4, <3>6 DEF t, v
    <2> QED
      BY <2>2, <2>3
  <1>10. IsZ(y.c)
    <2>1. DOMAIN x.c = 1..n /\ y.c = x.c
      BY <1>1, <1>5 DEF Tabulates, n
    <2>2. \A j \in 1..n : \A e \in DOMAIN x.c[j] : x.c[j][e].value >= 0
      BY <1>9
    <2> QED
      BY <2>1, <2>2 DEF IsZ
  <1>11. ConvertedFrom(y, x)
    BY <1>1, <1>4, <1>5, <1>9 DEF ConvertedFrom, Tabulates, n, N
  <1> QED
    BY <1>5, <1>8, <1>10, <1>11 DEF Converted

LEMMA GeneralIs ==
  ASSUME DesignIs, NEW p, NEW x, Tabulates(x), NEW sums,
         NEW y \in ConvertGeneral(x, sums, FoldingSigns(SignGraphOf(x))), ~IsRejected(y)
  PROVE  Converted(p, x, y)
  <1> DEFINE s == FoldingSigns(SignGraphOf(x))
             A(b, w) == Assemble(x, s, b, w)
  <1>1. ASSUME NEW b, NEW w PROVE Converted(p, x, A(b, w))
    <2>1. IsComponent(A(b, w)) /\ ConvertedFrom(A(b, w), x)
      BY AssembleIs
    <2>2. /\ A(b, w).form = IF Folders(x) # {} THEN "Laplacian" ELSE "SignedPendingCover"
          /\ Folders(x) # {} => IsZ(A(b, w).c)
      BY AssembleIs
    <2> HIDE DEF A
    <2> QED
      BY <2>1, <2>2 DEF Converted
  <1>2. ASSUME NEW z, Converted(p, x, z) PROVE Converted(p, x, Finalized(z, sums))
    <2> DEFINE g == Grounded(z, sums)
    <2>1. IsComponent(z) /\ ~IsRejected(z)
      BY <1>2, NotRejected DEF Converted
    <2>2. Finalized(z, sums) = g
      BY <2>1 DEF Finalized
    <2>3. /\ IsComponent(g) /\ g.globals = z.globals /\ g.c = z.c /\ g.diagonal = z.diagonal
          /\ g.factors = z.factors /\ g.form = z.form
      BY <2>1, GroundedIs
    <2> HIDE DEF g
    <2> QED
      BY <1>2, <2>2, <2>3 DEF Converted, ConvertedFrom
  <1>3. y \in {Rejected("UnscalableComponent"), Finalized(A(FALSE, FALSE), sums), A(TRUE, FALSE),
               A(TRUE, TRUE)}
    BY DEF ConvertGeneral
  <1>4. IsRejected(Rejected("UnscalableComponent"))
    BY DEF Rejected, IsRejected
  <1> HIDE DEF A
  <1> QED
    BY <1>1, <1>2, <1>3, <1>4

LEMMA ConvertIs ==
  ASSUME DesignIs, NEW p, IsPair(p), NEW x, SoundLocal(p, x), NEW y \in Convert(IsPlain(p), x),
         ~IsRejected(y)
  PROVE  Converted(p, x, y)
  <1>1. Tabulates(x)
    BY DEF SoundLocal
  <1>2. y \in ConvertWith(IsPlain(p), x, SignGraphOf(x))
    BY DEF Convert, SignGraphOf
  <1>3. CASE IsPlain(p)
    BY <1>2, <1>3, PlainIs DEF ConvertWith
  <1>4. CASE ~IsPlain(p)
    BY <1>1, <1>2, <1>4, GeneralIs DEF ConvertWith
  <1> QED
    BY <1>3, <1>4

-----------------------------------------------------------------------------
(* Where each member of the joined sequences comes from. *)

Locates(part, pos, F, s, m) ==
  /\ part \in [1..Len(F) -> 1..m] /\ pos \in [1..Len(F) -> Nat]
  /\ \A i \in 1..Len(F) : pos[i] \in 1..Len(s[part[i]]) /\ F[i] = s[part[i]][pos[i]]
  /\ \A i, j \in 1..Len(F) : part[i] = part[j] /\ pos[i] = pos[j] => i = j
  /\ \A r \in 1..m : \A k \in 1..Len(s[r]) : \E i \in 1..Len(F) : part[i] = r /\ pos[i] = k

LEMMA LocatesStep ==
  ASSUME NEW U, NEW s, NEW m \in Nat \ {0}, NEW F \in Seq(U), NEW part, NEW pos,
         Locates(part, pos, F, s, m - 1), s[m] \in Seq(U)
  PROVE  \E q, t : Locates(q, t, F \o s[m], s, m)
  <1> DEFINE l == Len(F)
             w == Len(s[m])
             G == F \o s[m]
             q == [i \in 1..l + w |-> IF i <= l THEN part[i] ELSE m]
             t == [i \in 1..l + w |-> IF i <= l THEN pos[i] ELSE i - l]
  <1>1. /\ l \in Nat /\ w \in Nat /\ Len(G) = l + w
        /\ \A j \in 1..l : G[j] = F[j]
        /\ \A j \in 1..w : G[l + j] = s[m][j]
    BY Concat
  <1>2. /\ \A i \in 1..l + w : IF i <= l THEN i \in 1..l /\ q[i] = part[i] /\ t[i] = pos[i]
                               ELSE i - l \in 1..w /\ q[i] = m /\ t[i] = i - l /\ l + (i - l) = i
        /\ \A i \in 1..l : i \in 1..l + w /\ i <= l
        /\ \A k \in 1..w : l + k \in 1..l + w /\ ~(l + k <= l) /\ (l + k) - l = k
    BY <1>1
  <1>3. /\ q \in [1..l + w -> {q[i] : i \in 1..l + w}] /\ t \in [1..l + w -> {t[i] : i \in 1..l + w}]
    OBVIOUS
  <1>4. /\ part \in [1..l -> 1..m - 1] /\ pos \in [1..l -> Nat]
        /\ \A i \in 1..l : pos[i] \in 1..Len(s[part[i]]) /\ F[i] = s[part[i]][pos[i]]
        /\ \A i, j \in 1..l : part[i] = part[j] /\ pos[i] = pos[j] => i = j
        /\ \A r \in 1..m - 1 : \A k \in 1..Len(s[r]) : \E i \in 1..l : part[i] = r /\ pos[i] = k
    BY DEF Locates
  <1>5. /\ \A r \in 1..m - 1 : r \in 1..m /\ r # m
        /\ m \in 1..m /\ \A r \in 1..m : r = m \/ r \in 1..m - 1
    OBVIOUS
  <1> HIDE DEF G, q, t, w, l
  <1>6. ASSUME NEW i \in 1..l + w
        PROVE  /\ q[i] \in 1..m /\ t[i] \in Nat
               /\ t[i] \in 1..Len(s[q[i]]) /\ G[i] = s[q[i]][t[i]]
    <2>1. CASE i <= l
      BY <1>1, <1>2, <1>4, <1>5, <2>1
    <2>2. CASE ~(i <= l)
      <3>1. i - l \in 1..w /\ q[i] = m /\ t[i] = i - l /\ l + (i - l) = i
        BY <1>2, <2>2
      <3> HIDE DEF w
      <3>2. G[i] = s[m][i - l]
        BY <1>1, <3>1
      <3> QED
        BY <1>1, <1>5, <3>1, <3>2 DEF w
    <2> QED
      BY <2>1, <2>2
  <1>7. ASSUME NEW i \in 1..l + w, NEW j \in 1..l + w, q[i] = q[j], t[i] = t[j]
        PROVE  i = j
    <2>1. CASE i <= l /\ j <= l
      BY <1>2, <1>4, <1>7, <2>1
    <2>2. CASE ~(i <= l) /\ ~(j <= l)
      BY <1>2, <1>7, <2>2
    <2>3. CASE i <= l /\ ~(j <= l)
      BY <1>2, <1>4, <1>5, <1>7, <2>3
    <2>4. CASE ~(i <= l) /\ j <= l
      BY <1>2, <1>4, <1>5, <1>7, <2>4
    <2> QED
      BY <2>1, <2>2, <2>3, <2>4
  <1>8. ASSUME NEW r \in 1..m, NEW k \in 1..Len(s[r])
        PROVE  \E i \in 1..l + w : q[i] = r /\ t[i] = k
    <2>1. CASE r = m
      <3>1. k \in 1..w
        BY <2>1 DEF w
      <3>2. l + k \in 1..l + w /\ q[l + k] = m /\ t[l + k] = k
        BY <1>2, <3>1
      <3> QED
        BY <2>1, <3>2
    <2>2. CASE r # m
      <3>1. PICK i \in 1..l : part[i] = r /\ pos[i] = k
        BY <1>4, <1>5, <2>2
      <3> QED
        BY <1>2, <3>1
    <2> QED
      BY <2>1, <2>2
  <1>9. q \in [1..l + w -> 1..m] /\ t \in [1..l + w -> Nat]
    BY <1>3, <1>6
  <1>10. Locates(q, t, G, s, m)
    BY <1>1, <1>6, <1>7, <1>8, <1>9 DEF Locates
  <1> QED
    BY <1>10 DEF G

LEMMA FlattenLocates ==
  ASSUME NEW n \in Nat, NEW U, NEW s, s = [m \in 1..n |-> s[m]], \A m \in 1..n : s[m] \in Seq(U)
  PROVE  FlattenSeq(s) \in Seq(U) /\ \E part, pos : Locates(part, pos, FlattenSeq(s), s, n)
  <1>1. PICK h : JoinsUpTo(h, s, U, n)
    BY FlattenUpTo
  <1> DEFINE L(m) == \E part, pos : Locates(part, pos, h[m], s, m)
             T == {m \in 0..n : L(m)}
  <1>2. 0 \in T
    <2> DEFINE f == [i \in 1..0 |-> 0]
    <2>1. h[0] = <<>> /\ Len(h[0]) = 0
      BY <1>1 DEF JoinsUpTo
    <2>2. f \in [1..0 -> 1..0] /\ f \in [1..0 -> Nat]
      OBVIOUS
    <2> HIDE DEF f
    <2>3. Locates(f, f, h[0], s, 0)
      BY <2>1, <2>2 DEF Locates
    <2>4. L(0)
      BY <2>3
    <2> HIDE DEF L
    <2> QED
      BY <2>4
  <1>3. ASSUME NEW m \in 1..n, m - 1 \in T PROVE m \in T
    <2>1. PICK part, pos : Locates(part, pos, h[m - 1], s, m - 1)
      BY <1>3
    <2>2. m \in Nat \ {0} /\ m - 1 \in 0..n /\ m \in 0..n
      OBVIOUS
    <2>3. s[m] \in Seq(U) /\ h[m] = h[m - 1] \o s[m] /\ h[m - 1] \in Seq(U)
      BY <1>1, <2>2 DEF JoinsUpTo
    <2>4. L(m)
      BY <2>1, <2>2, <2>3, LocatesStep
    <2> HIDE DEF L
    <2> QED
      BY <2>2, <2>4
  <1>4. n \in T
    <2>1. T = T /\ n \in 0..n
      OBVIOUS
    <2> HIDE DEF T
    <2> QED
      BY <1>2, <1>3, <2>1, CountedUp
  <1>5. FlattenSeq(s) = h[n] /\ h[n] \in Seq(U)
    BY <1>1 DEF JoinsUpTo
  <1> QED
    BY <1>4, <1>5

-----------------------------------------------------------------------------
(* Channels and their pairs. *)

LEMMA ChannelsAre ==
  ASSUME DesignIs
  PROVE  /\ Len(Channels) \in Nat /\ DOMAIN Channels = 1..Len(Channels)
         /\ \A a \in 1..Len(Channels) : IsChannel(Channels[a])
         /\ \A q \in DOMAIN design.terms : \A c \in DOMAIN design.terms[q].columns :
              \E a \in 1..Len(Channels) : Channels[a].term = q /\ Channels[a].column = c
         /\ \A a, b \in 1..Len(Channels) : Channels[a].term = Channels[b].term
              /\ Channels[a].column = Channels[b].column => a = b
  <1> DEFINE n == Len(design.terms)
             w(q) == Len(design.terms[q].columns)
             s == [q \in DOMAIN design.terms |->
                     [c \in DOMAIN design.terms[q].columns |-> [term |-> q, column |-> c]]]
             U == [term : Nat, column : Nat]
  <1>1. /\ n \in Nat /\ DOMAIN design.terms = 1..n
        /\ \A q \in 1..n : w(q) \in Nat /\ DOMAIN design.terms[q].columns = 1..w(q)
    BY ObservationFacts DEF Contiguous
  <1>2. s = [q \in 1..n |-> s[q]]
        /\ \A q \in 1..n : s[q] = [c \in 1..w(q) |-> [term |-> q, column |-> c]]
    BY <1>1
  <1>3. Channels = FlattenSeq(s)
    BY DEF Channels
  <1> HIDE DEF n, w, s
  <1>4. \A q \in 1..n : s[q] \in Seq(U) /\ Len(s[q]) = w(q)
    <2> SUFFICES ASSUME NEW q \in 1..n PROVE s[q] \in Seq(U) /\ Len(s[q]) = w(q)
      OBVIOUS
    <2> DEFINE l == w(q)
               r == s[q]
    <2>1. l \in Nat /\ r \in [1..l -> U] /\ q \in Nat
      <3>1. \A c \in 1..l : [term |-> q, column |-> c] \in U
        OBVIOUS
      <3> QED
        BY <1>1, <1>2, <3>1
    <2> HIDE DEF l, r, U
    <2>2. r \in Seq(U) /\ Len(r) = l
      BY <2>1
    <2> QED
      BY <2>2 DEF l, r
  <1>5. PICK part, pos : Locates(part, pos, Channels, s, n)
    <2> HIDE DEF U
    <2> QED
      BY <1>1, <1>2, <1>3, <1>4, FlattenLocates
  <1>6. Channels \in Seq(U)
    <2> HIDE DEF U
    <2> QED
      BY <1>1, <1>2, <1>3, <1>4, FlattenLocates
  <1> DEFINE m == Len(Channels)
  <1>7. m \in Nat /\ DOMAIN Channels = 1..m
    <2> HIDE DEF U
    <2> QED
      BY <1>6
  <1>8. /\ part \in [1..m -> 1..n]
        /\ \A a \in 1..m : pos[a] \in 1..w(part[a]) /\ Channels[a] = s[part[a]][pos[a]]
        /\ \A a, b \in 1..m : part[a] = part[b] /\ pos[a] = pos[b] => a = b
        /\ \A q \in 1..n : \A c \in 1..w(q) : \E a \in 1..m : part[a] = q /\ pos[a] = c
    <2>1. \A q \in 1..n : Len(s[q]) = w(q)
      BY <1>4
    <2> HIDE DEF U
    <2>2. /\ part \in [1..m -> 1..n]
          /\ \A a \in 1..m : pos[a] \in 1..Len(s[part[a]]) /\ Channels[a] = s[part[a]][pos[a]]
          /\ \A a, b \in 1..m : part[a] = part[b] /\ pos[a] = pos[b] => a = b
          /\ \A q \in 1..n : \A c \in 1..Len(s[q]) : \E a \in 1..m : part[a] = q /\ pos[a] = c
      BY ONLY <1>5 DEF Locates
    <2> HIDE DEF m
    <2> QED
      BY ONLY <2>1, <2>2
  <1> HIDE DEF m
  <1>10. \A a \in 1..m : Channels[a].term = part[a] /\ Channels[a].column = pos[a]
    <2> SUFFICES ASSUME NEW a \in 1..m
                 PROVE  Channels[a].term = part[a] /\ Channels[a].column = pos[a]
      OBVIOUS
    <2> DEFINE q == part[a]
               c == pos[a]
               z == Channels[a]
    <2>1. q \in 1..n /\ c \in 1..w(q) /\ z = s[q][c]
      BY <1>8
    <2> HIDE DEF q, c, z
    <2>2. s[q] = [k \in 1..w(q) |-> [term |-> q, column |-> k]]
      BY <1>2, <2>1
    <2>3. z = [term |-> q, column |-> c]
      BY <2>1, <2>2
    <2>4. z.term = q /\ z.column = c
      BY ONLY <2>3
    <2> QED
      BY <2>4 DEF z, q, c
  <1>11. ASSUME NEW a \in 1..m PROVE IsChannel(Channels[a])
    <2>1. part[a] \in 1..n /\ pos[a] \in 1..w(part[a])
      BY <1>8
    <2>2. Channels[a].term = part[a] /\ Channels[a].column = pos[a]
      BY <1>10
    <2> QED
      BY <1>1, <2>1, <2>2 DEF IsChannel
  <1>12. \A q \in 1..n : \A c \in 1..w(q) :
           \E a \in 1..m : Channels[a].term = q /\ Channels[a].column = c
    BY <1>8, <1>10
  <1>13. \A a, b \in 1..m : Channels[a].term = Channels[b].term
              /\ Channels[a].column = Channels[b].column => a = b
    BY <1>8, <1>10
  <1>14. \A q \in DOMAIN design.terms : \A c \in DOMAIN design.terms[q].columns :
              \E a \in 1..m : Channels[a].term = q /\ Channels[a].column = c
    <2> SUFFICES ASSUME NEW q \in DOMAIN design.terms, NEW c \in DOMAIN design.terms[q].columns
                 PROVE  \E a \in 1..m : Channels[a].term = q /\ Channels[a].column = c
      OBVIOUS
    <2>1. q \in 1..n
      BY <1>1
    <2>2. c \in 1..w(q)
      BY <1>1, <2>1
    <2> QED
      BY <1>12, <2>1, <2>2
  <1> QED
    BY <1>7, <1>11, <1>13, <1>14 DEF m

LEMMA PairsAre ==
  ASSUME DesignIs
  PROVE  /\ Len(Pairs) \in Nat /\ DOMAIN Pairs = 1..Len(Pairs)
         /\ \A p \in 1..Len(Pairs) : IsPair(Pairs[p])
         /\ \A a, b \in 1..Len(Channels) : a < b /\ Channels[a].term # Channels[b].term =>
              \E p \in 1..Len(Pairs) : Pairs[p].rows = Channels[a] /\ Pairs[p].cols = Channels[b]
  <1> DEFINE ch == Channels
             n == Len(ch)
             S(a) == {b \in a + 1..n : ch[b].term # ch[a].term}
             pair(a, b) == [rows |-> ch[a], cols |-> ch[b]]
             row(a) == [k \in DOMAIN Ascending(S(a)) |-> pair(a, Ascending(S(a))[k])]
             s == [a \in DOMAIN ch |-> row(a)]
             U == {pair(a, b) : a \in 1..n, b \in 1..n}
  <1>1. /\ n \in Nat /\ DOMAIN ch = 1..n /\ \A a \in 1..n : IsChannel(ch[a])
    BY ChannelsAre
  <1>2. Pairs = FlattenSeq(s)
    BY DEF Pairs, PairsOf
  <1> HIDE DEF ch, n
  <1>3. ASSUME NEW a \in 1..n
        PROVE  LET A == Ascending(S(a))
               IN /\ Len(A) \in Nat /\ DOMAIN A = 1..Len(A)
                  /\ \A k \in 1..Len(A) : A[k] \in S(a)
                  /\ \A b \in S(a) : \E k \in 1..Len(A) : A[k] = b
    <2>1. S(a) \in SUBSET (1..n)
      BY <1>1
    <2> DEFINE T == S(a)
    <2>2. T \in SUBSET Int /\ IsFiniteSet(T)
      <3> HIDE DEF S
      <3> QED
        BY <1>1, <2>1, Within
    <2> HIDE DEF T
    <2>3. LET A == Ascending(T)
          IN /\ Len(A) \in Nat /\ DOMAIN A = 1..Len(A)
             /\ \A k \in 1..Len(A) : A[k] \in T
             /\ \A b \in T : \E k \in 1..Len(A) : A[k] = b
      BY <2>2, AscendingIs
    <2> QED
      BY <2>3 DEF T
  <1>4. ASSUME NEW a \in 1..n
        PROVE  /\ row(a) \in Seq(U) /\ Len(row(a)) \in Nat
               /\ \A k \in 1..Len(row(a)) : \E b \in S(a) : row(a)[k] = pair(a, b)
               /\ \A b \in S(a) : \E k \in 1..Len(row(a)) : row(a)[k] = pair(a, b)
    <2> DEFINE A == Ascending(S(a))
               T == S(a)
               l == Len(A)
               r == row(a)
    <2>1. /\ l \in Nat /\ DOMAIN A = 1..l
          /\ \A k \in 1..l : A[k] \in T
          /\ \A b \in T : \E k \in 1..l : A[k] = b
      BY <1>3
    <2>2. r = [k \in 1..l |-> pair(a, A[k])]
      BY <2>1
    <2>3. \A b \in T : b \in 1..n
      BY <1>1
    <2> HIDE DEF A, T, l, r
    <2>4. \A k \in 1..l : pair(a, A[k]) \in U
      BY <2>1, <2>3
    <2> HIDE DEF pair, U
    <2>5. r \in [1..l -> U]
      BY <2>2, <2>4
    <2>6. r \in Seq(U) /\ Len(r) = l
      BY <2>1, <2>5
    <2>7. /\ \A k \in 1..l : \E b \in T : r[k] = pair(a, b)
          /\ \A b \in T : \E k \in 1..l : r[k] = pair(a, b)
      BY <2>1, <2>2
    <2> QED
      BY <2>1, <2>6, <2>7 DEF r, T
  <1>5. /\ s = [a \in 1..n |-> s[a]] /\ \A a \in 1..n : s[a] = row(a)
    BY <1>1
  <1> HIDE DEF s, row, U, S, pair
  <1>6. \A a \in 1..n : s[a] \in Seq(U)
    BY <1>4, <1>5
  <1>7. PICK part, pos : Locates(part, pos, Pairs, s, n)
    BY <1>1, <1>2, <1>5, <1>6, FlattenLocates
  <1>8. Pairs \in Seq(U)
    BY <1>1, <1>2, <1>5, <1>6, FlattenLocates
  <1>9. Len(Pairs) \in Nat /\ DOMAIN Pairs = 1..Len(Pairs)
    BY <1>8
  <1>10. \A p \in 1..Len(Pairs) : \E a \in 1..n : \E b \in S(a) : Pairs[p] = pair(a, b)
    <2> SUFFICES ASSUME NEW p \in 1..Len(Pairs)
                 PROVE  \E a \in 1..n : \E b \in S(a) : Pairs[p] = pair(a, b)
      OBVIOUS
    <2>1. part[p] \in 1..n /\ pos[p] \in 1..Len(row(part[p])) /\ Pairs[p] = row(part[p])[pos[p]]
      BY <1>5, <1>7 DEF Locates
    <2>2. \E b \in S(part[p]) : row(part[p])[pos[p]] = pair(part[p], b)
      BY <1>4, <2>1
    <2> QED
      BY <2>1, <2>2
  <1>11. \A a \in 1..n : \A b \in S(a) : \E p \in 1..Len(Pairs) : Pairs[p] = pair(a, b)
    <2> SUFFICES ASSUME NEW a \in 1..n, NEW b \in S(a)
                 PROVE  \E p \in 1..Len(Pairs) : Pairs[p] = pair(a, b)
      OBVIOUS
    <2>1. PICK k \in 1..Len(row(a)) : row(a)[k] = pair(a, b)
      BY <1>4
    <2>2. PICK p \in 1..Len(Pairs) : part[p] = a /\ pos[p] = k
      BY <1>5, <1>7, <2>1 DEF Locates
    <2>3. Pairs[p] = row(part[p])[pos[p]]
      BY <1>5, <1>7 DEF Locates
    <2> QED
      BY <2>1, <2>2, <2>3
  <1>12. \A a, b : pair(a, b).rows = ch[a] /\ pair(a, b).cols = ch[b]
    BY DEF pair
  <1>13. \A a \in 1..n : \A b \in S(a) : IsPair(pair(a, b))
    BY <1>1, <1>12 DEF S, IsPair
  <1>14. \A a, b \in 1..n : a < b /\ ch[a].term # ch[b].term => b \in S(a)
    BY <1>1 DEF S
  <1>15. \A p \in 1..Len(Pairs) : IsPair(Pairs[p])
    BY <1>10, <1>13
  <1>16. \A a, b \in 1..n : a < b /\ ch[a].term # ch[b].term =>
           \E p \in 1..Len(Pairs) : Pairs[p].rows = ch[a] /\ Pairs[p].cols = ch[b]
    BY <1>11, <1>12, <1>14
  <1> QED
    BY <1>9, <1>15, <1>16 DEF ch, n

-----------------------------------------------------------------------------
(* The sums that tell whether a component is dominant. *)

LEMMA MagnitudeIs ==
  ASSUME NEW v \in Int
  PROVE  /\ Magnitude(v) \in Nat /\ (Magnitude(v) = 0 <=> v = 0)
         /\ v <= Magnitude(v) /\ -v <= Magnitude(v)
         /\ v \in Nat => Magnitude(v) = v
         /\ v <= 0 => Magnitude(v) = -v
  BY DEF Magnitude

(* h carries the values of f on E to different places of S, and F is zero  *)
(* elsewhere.                                                              *)
Carries(h, f, E, F, S) ==
  /\ \A e \in E : f[e] \in Int /\ h[e] \in S /\ F[h[e]] = f[e]
  /\ \A e, k \in E : h[e] = h[k] => e = k
  /\ \A k \in S : F[k] \in Int /\ (F[k] # 0 => \E e \in E : h[e] = k)

(* A sum over what an injection reaches, where the rest contributes none.  *)
LEMMA SumThrough ==
  ASSUME NEW E, IsFiniteSet(E), NEW S, IsFiniteSet(S), NEW f, NEW F, NEW h, Carries(h, f, E, F, S)
  PROVE  SumFunctionOnSet(F, S) = SumFunctionOnSet(f, E)
  <1> DEFINE A == {h[e] : e \in E}
             B == S \ A
  <1> USE DEF Carries
  <1>1. /\ A \in SUBSET S /\ B \in SUBSET S /\ A \cup B = S /\ A \cap B = {}
        /\ \A e \in E : h[e] \in A
        /\ \A k \in A : \E e \in E : h[e] = k
        /\ \A k \in B : F[k] = 0
    OBVIOUS
  <1> HIDE DEF A, B
  <1>2. IsFiniteSet(A) /\ IsFiniteSet(B)
    BY <1>1, FS_Subset
  <1>3. \A k \in A \cup B : F[k] \in Int
    BY <1>1
  <1>4. /\ \A e \in E : F[h[e]] = f[e]
        /\ \A e \in E : f[e] \in Int
        /\ \A e, k \in E : h[e] = h[k] => e = k
    OBVIOUS
  <1>5. SumFunctionOnSet(F, A) = SumFunctionOnSet(f, E)
    BY ONLY <1>1, <1>2, <1>4, IsFiniteSet(E), SumRename
  <1>6. SumFunctionOnSet(F, A \cup B) = SumFunctionOnSet(F, A) + SumFunctionOnSet(F, B)
    BY ONLY <1>1, <1>2, <1>3, SumDisjoint
  <1>7. SumFunctionOnSet(F, B) = 0
    BY ONLY <1>1, <1>2, SumZero
  <1>8. SumFunctionOnSet(F, A) \in Int
    BY ONLY <1>2, <1>3, SumType
  <1> QED
    BY ONLY <1>1, <1>5, <1>6, <1>7, <1>8

(* A row's entries sum to what the values it stands for sum to.            *)
LEMMA RowSum ==
  ASSUME NEW row, NEW S \in SUBSET Int, IsFiniteSet(S), NEW val, RowIs(row, S, val),
         NEW F, \A k \in S : F[k] \in Int /\ (val[k] = 0 => F[k] = 0),
         NEW f, DOMAIN f = 1..Len(row), \A e \in 1..Len(row) : f[e] = F[row[e].at]
  PROVE  SumFunction(f) = SumFunctionOnSet(F, S)
  <1> DEFINE E == 1..Len(row)
             h == [e \in E |-> row[e].at]
  <1>1. /\ Len(row) \in Nat /\ \A e \in E : row[e].at \in S
        /\ \A k \in S : val[k] # 0 => \E e \in E : row[e].at = k
        /\ \A e, k \in E : row[e].at = row[k].at => e = k
    <2>1. \A e, k \in E : row[e].at = row[k].at => e = k
      BY RowFacts
    <2> QED
      BY ONLY <2>1, RowIs(row, S, val) DEF RowIs
  <1>2. IsFiniteSet(E)
    BY <1>1, FS_Interval
  <1>3. \A e \in E : h[e] = row[e].at
    OBVIOUS
  <1>4. DOMAIN f = E /\ \A e \in E : f[e] = F[row[e].at]
    OBVIOUS
  <1> HIDE DEF h, E
  <1>5. \A k \in S : F[k] \in Int /\ (val[k] = 0 => F[k] = 0)
    OBVIOUS
  <1>6. /\ \A e \in E : h[e] \in S /\ F[h[e]] = f[e]
        /\ \A e \in E : f[e] \in Int
        /\ \A e, k \in E : h[e] = h[k] => e = k
        /\ \A k \in S : F[k] # 0 => \E e \in E : h[e] = k
    <2>1. \A e \in E : h[e] \in S /\ f[e] = F[h[e]] /\ f[e] \in Int
      <3> SUFFICES ASSUME NEW e \in E PROVE h[e] \in S /\ f[e] = F[h[e]] /\ f[e] \in Int
        OBVIOUS
      <3>1. h[e] = row[e].at /\ h[e] \in S
        BY ONLY <1>1, <1>3, e \in E
      <3>2. f[e] = F[h[e]]
        BY ONLY <1>4, <3>1, e \in E
      <3> QED
        BY ONLY <1>5, <3>1, <3>2
    <2>2. \A e, k \in E : h[e] = h[k] => e = k
      BY ONLY <1>1, <1>3
    <2>3. ASSUME NEW k \in S, F[k] # 0 PROVE \E e \in E : h[e] = k
      <3>1. val[k] # 0
        BY ONLY <1>5, <2>3
      <3>2. PICK e \in E : row[e].at = k
        BY ONLY <1>1, <3>1
      <3>3. h[e] = k
        BY ONLY <1>3, <3>2
      <3> QED
        BY ONLY <3>3
    <2> QED
      BY ONLY <2>1, <2>2, <2>3
  <1>7. \A k \in S : F[k] \in Int
    BY ONLY <1>5
  <1>8. SumFunctionOnSet(F, S) = SumFunctionOnSet(f, E)
    <2>1. Carries(h, f, E, F, S)
      BY ONLY <1>6, <1>7 DEF Carries
    <2> QED
      BY ONLY <1>2, <2>1, IsFiniteSet(S), SumThrough
  <1> QED
    BY <1>4, <1>8 DEF SumFunction

Extents(x, i) == [k \in 1..Len(x.globals) |-> Magnitude(Gram(x.globals[i], x.globals[k]))]
Beside(x, i) == SumFunctionOnSet(Extents(x, i), Opposite(x, i))

LEMMA OppositeIs ==
  ASSUME DesignIs, NEW x, Tabulates(x), NEW i \in 1..Len(x.globals)
  PROVE  /\ Opposite(x, i) \in SUBSET (1..Len(x.globals)) /\ Opposite(x, i) \in SUBSET Int
         /\ IsFiniteSet(Opposite(x, i)) /\ i \notin Opposite(x, i)
         /\ \A k \in 1..Len(x.globals) : k \in Opposite(x, i) <=> (i <= Len(x.c) <=> ~(k <= Len(x.c)))
         /\ \A k \in 1..Len(x.globals) :
              /\ Gram(x.globals[i], x.globals[k]) \in Int
              /\ Extents(x, i)[k] = Magnitude(Gram(x.globals[i], x.globals[k])) /\ Extents(x, i)[k] \in Nat
         /\ Beside(x, i) \in Nat
  <1> DEFINE n == Len(x.c)
             N == Len(x.globals)
             S == Opposite(x, i)
             f == Extents(x, i)
  <1>1. n \in Nat /\ N \in Nat /\ n <= N
    BY TableFacts DEF Tabulates
  <1>2. \A k \in 1..N : Gram(x.globals[i], x.globals[k]) \in Int
    BY TableFacts
  <1>3. \A k \in 1..N : f[k] = Magnitude(Gram(x.globals[i], x.globals[k])) /\ f[k] \in Nat
    BY <1>2, MagnitudeIs DEF Extents
  <1>4. S = IF i <= n THEN n + 1..N ELSE 1..n
    BY DEF Opposite
  <1> HIDE DEF n, N, S, f
  <1>5. S \in SUBSET (1..N) /\ \A k \in 1..N : k \in S <=> (i <= n <=> ~(k <= n))
    <2>1. i \in 1..N
      BY DEF N
    <2> QED
      BY ONLY <1>1, <1>4, <2>1
  <1>6. IsFiniteSet(1..N)
    BY <1>1, FS_Interval
  <1>7. IsFiniteSet(S)
    BY <1>5, <1>6, FS_Subset
  <1>8. SumFunctionOnSet(f, S) \in Nat
    BY <1>3, <1>5, <1>7, SumPositive
  <1>9. i \notin S
    BY <1>5 DEF N
  <1> QED
    BY <1>2, <1>3, <1>5, <1>7, <1>8, <1>9 DEF n, N, S, f, Beside

LEMMA SumsAre ==
  ASSUME DesignIs, NEW x, Tabulates(x)
  PROVE  LET nb == SignGraphOf(x)
         IN /\ MagnitudeSums(nb) = [i \in 1..Len(x.globals) |-> Beside(x, i)]
            /\ (\A i, k \in 1..Len(x.globals) : k \in Opposite(x, i) =>
                   Gram(x.globals[i], x.globals[k]) \in Nat) =>
                 RowSums(nb) = [i \in 1..Len(x.globals) |-> Beside(x, i)]
  <1> DEFINE nb == SignGraphOf(x)
             N == Len(x.globals)
  <1>1. DOMAIN nb = 1..N /\ \A i \in 1..N : RowIs(nb[i], Opposite(x, i), GramRow(x, i))
    BY SignGraphIs DEF Adjoins
  <1> HIDE DEF nb
  <1>2. ASSUME NEW i \in 1..N
        PROVE  /\ SumFunction([e \in DOMAIN nb[i] |-> Magnitude(nb[i][e].value)]) = Beside(x, i)
               /\ (\A k \in Opposite(x, i) : Gram(x.globals[i], x.globals[k]) \in Nat) =>
                    SumFunction([e \in DOMAIN nb[i] |-> nb[i][e].value]) = Beside(x, i)
    <2> DEFINE row == nb[i]
               S == Opposite(x, i)
               val == GramRow(x, i)
               F == Extents(x, i)
               f == [e \in DOMAIN row |-> Magnitude(row[e].value)]
               g == [e \in DOMAIN row |-> row[e].value]
    <2>1. S \in SUBSET (1..N) /\ S \in SUBSET Int /\ IsFiniteSet(S)
      BY OppositeIs
    <2>2. \A k \in S : val[k] = Gram(x.globals[i], x.globals[k]) /\ val[k] \in Int
                       /\ F[k] = Magnitude(val[k]) /\ F[k] \in Int /\ (val[k] = 0 => F[k] = 0)
                       /\ (val[k] \in Nat => F[k] = val[k])
      <3> SUFFICES ASSUME NEW k \in S
                   PROVE  /\ val[k] = Gram(x.globals[i], x.globals[k]) /\ val[k] \in Int
                          /\ F[k] = Magnitude(val[k]) /\ F[k] \in Int /\ (val[k] = 0 => F[k] = 0)
                          /\ (val[k] \in Nat => F[k] = val[k])
        OBVIOUS
      <3> DEFINE v == Gram(x.globals[i], x.globals[k])
      <3>1. k \in 1..N
        BY <2>1
      <3>2. val[k] = v /\ v \in Int /\ F[k] = Magnitude(v)
        BY <3>1, OppositeIs DEF GramRow
      <3> HIDE DEF v, S, val, F
      <3>3. Magnitude(v) \in Nat /\ (v = 0 => Magnitude(v) = 0) /\ (v \in Nat => Magnitude(v) = v)
        BY ONLY <3>2, MagnitudeIs
      <3> QED
        BY <3>2, <3>3 DEF v
    <2>3. RowIs(row, S, val)
      BY <1>1
    <2> HIDE DEF S, val, F, row
    <2>4. DOMAIN row = 1..Len(row) /\ \A e \in 1..Len(row) : row[e].at \in S /\ row[e].value = val[row[e].at]
      BY <2>3 DEF RowIs
    <2>5. SumFunction(f) = SumFunctionOnSet(F, S)
      <3>1. DOMAIN f = 1..Len(row) /\ \A e \in 1..Len(row) : f[e] = F[row[e].at]
        BY <2>2, <2>4
      <3> HIDE DEF f
      <3> QED
        BY <2>1, <2>2, <2>3, <3>1, RowSum
    <2>6. ASSUME \A k \in S : val[k] \in Nat PROVE SumFunction(g) = SumFunctionOnSet(F, S)
      <3>1. DOMAIN g = 1..Len(row) /\ \A e \in 1..Len(row) : g[e] = F[row[e].at]
        BY <2>2, <2>4, <2>6
      <3> HIDE DEF g
      <3> QED
        BY <2>1, <2>2, <2>3, <3>1, RowSum
    <2>7. (\A k \in S : Gram(x.globals[i], x.globals[k]) \in Nat) => \A k \in S : val[k] \in Nat
      BY <2>2
    <2> QED
      BY <2>5, <2>6, <2>7 DEF F, S, row, Beside
  <1>3. MagnitudeSums(nb) = [i \in 1..N |-> Beside(x, i)]
    BY <1>1, <1>2 DEF MagnitudeSums
  <1>4. ASSUME \A i, k \in 1..N : k \in Opposite(x, i) => Gram(x.globals[i], x.globals[k]) \in Nat
        PROVE  RowSums(nb) = [i \in 1..N |-> Beside(x, i)]
    <2>1. ASSUME NEW i \in 1..N
          PROVE  SumFunction([e \in DOMAIN nb[i] |-> nb[i][e].value]) = Beside(x, i)
      <3>1. \A k \in Opposite(x, i) : Gram(x.globals[i], x.globals[k]) \in Nat
        BY <1>4, OppositeIs
      <3> QED
        BY <1>2, <3>1
    <2> QED
      BY <1>1, <2>1 DEF RowSums
  <1> QED
    BY <1>3, <1>4 DEF nb
Exceeds(x) == \E i \in 1..Len(x.globals) : Gram(x.globals[i], x.globals[i]) < Beside(x, i)

(* What a conversion says of its component's dominance.                    *)
Settled(x, y) ==
  /\ y.warned => input.onFailure = "Warn" /\ Exceeds(x)
  /\ ~y.scaled =>
       /\ \A i \in 1..Len(x.globals) : Beside(x, i) <= Gram(x.globals[i], x.globals[i])
       /\ y.grounding = "Floating" <=>
            \A i \in 1..Len(x.globals) : Beside(x, i) = Gram(x.globals[i], x.globals[i])

LEMMA PlainBeside ==
  ASSUME DesignIs, NEW p, IsPair(p), IsPlain(p), NEW x, SoundLocal(p, x),
         NEW i \in 1..Len(x.globals), NEW k \in 1..Len(x.globals), k \in Opposite(x, i)
  PROVE  Gram(x.globals[i], x.globals[k]) \in Nat
  <1> DEFINE d == x.globals[i]
             e == x.globals[k]
  <1>1. Tabulates(x)
    BY DEF SoundLocal
  <1>2. i <= Len(x.c) <=> ~(k <= Len(x.c))
    BY <1>1, OppositeIs
  <1>3. \/ d \in ChannelDofs(p.rows) /\ e \in ChannelDofs(p.cols)
        \/ d \in ChannelDofs(p.cols) /\ e \in ChannelDofs(p.rows)
    BY <1>2 DEF SoundLocal, Splits
  <1>4. Gram(d, e) = Gram(e, d)
    BY <1>1, TableFacts
  <1> QED
    BY <1>3, <1>4, PlainNonnegative

LEMMA PlainSettled ==
  ASSUME DesignIs, NEW p, IsPair(p), IsPlain(p), NEW x, SoundLocal(p, x),
         NEW y, y = ConvertKnownLaplacian(x, RowSums(SignGraphOf(x))), ~IsRejected(y)
  PROVE  Settled(x, y)
  <1> DEFINE N == Len(x.globals)
             sums == RowSums(SignGraphOf(x))
  <1>1. Tabulates(x)
    BY DEF SoundLocal
  <1>2. sums = [i \in 1..N |-> Beside(x, i)]
    BY <1>1, PlainBeside, SumsAre
  <1> HIDE DEF sums
  <1>3. sums = x.diagonal /\ y.warned = FALSE /\ y.grounding = "Floating"
    BY DEF ConvertKnownLaplacian, Rejected, IsRejected, sums
  <1>4. \A i \in 1..N : x.diagonal[i] = Gram(x.globals[i], x.globals[i]) /\ Beside(x, i) \in Nat
    BY <1>1, OppositeIs DEF Tabulates
  <1>5. \A i \in 1..N : Beside(x, i) = Gram(x.globals[i], x.globals[i]) /\ Beside(x, i) \in Nat
    BY <1>2, <1>3, <1>4
  <1>6. \A i \in 1..N : Beside(x, i) <= Gram(x.globals[i], x.globals[i])
    BY <1>5
  <1> QED
    BY <1>3, <1>5, <1>6 DEF Settled

LEMMA GeneralSettled ==
  ASSUME DesignIs, NEW x, Tabulates(x),
         NEW y \in ConvertGeneral(x, MagnitudeSums(SignGraphOf(x)), FoldingSigns(SignGraphOf(x))),
         ~IsRejected(y)
  PROVE  Settled(x, y)
  <1> DEFINE N == Len(x.globals)
             s == FoldingSigns(SignGraphOf(x))
             sums == MagnitudeSums(SignGraphOf(x))
             A(b, w) == Assemble(x, s, b, w)
             D(i) == Gram(x.globals[i], x.globals[i])
  <1>1. DOMAIN sums = 1..N /\ \A i \in 1..N : sums[i] = Beside(x, i)
    BY SumsAre
  <1>2. \A i \in 1..N : x.diagonal[i] = D(i) /\ Beside(x, i) \in Nat /\ D(i) \in Int
    BY OppositeIs, TableFacts DEF Tabulates
  <1>3. \A b, w : /\ IsComponent(A(b, w)) /\ A(b, w).scaled = b /\ A(b, w).warned = w
                  /\ A(b, w).diagonal = x.diagonal
    BY AssembleIs DEF ConvertedFrom
  <1> HIDE DEF sums, A, N, D, s
  <1>5. CASE AlreadyDominant(x, sums) /\ y = Finalized(A(FALSE, FALSE), sums)
    <2> DEFINE z == A(FALSE, FALSE)
               g == Grounded(z, sums)
    <2>1. IsComponent(z) /\ z.diagonal = x.diagonal /\ z.scaled = FALSE /\ z.warned = FALSE
      BY <1>3
    <2> HIDE DEF z
    <2>2. y = g
      BY <1>5, <2>1, NotRejected DEF Finalized, z
    <2>3. /\ g.scaled = z.scaled /\ g.warned = z.warned
          /\ g.grounding = "Floating" <=> \A i \in DOMAIN sums : z.diagonal[i] - sums[i] = 0
      BY ONLY <2>1, GroundedIs
    <2> HIDE DEF g
    <2>4. \A i \in 1..N : Beside(x, i) <= D(i)
      BY <1>1, <1>2, <1>5 DEF AlreadyDominant
    <2>5. (\A i \in DOMAIN sums : z.diagonal[i] - sums[i] = 0) <=> \A i \in 1..N : Beside(x, i) = D(i)
      <3>1. \A i \in 1..N : z.diagonal[i] - sums[i] = 0 <=> Beside(x, i) = D(i)
        BY <1>1, <1>2, <2>1
      <3> QED
        BY <1>1, <3>1
    <2>6. y.grounding = "Floating" <=> \A i \in 1..N : Beside(x, i) = D(i)
      BY <2>2, <2>3, <2>5
    <2>7. y.warned = FALSE
      BY <2>1, <2>2, <2>3
    <2> QED
      BY <2>4, <2>6, <2>7 DEF Settled, N, D
  <1>6. CASE y = A(TRUE, FALSE)
    <2>1. y.scaled = TRUE /\ y.warned = FALSE
      BY <1>3, <1>6
    <2> QED
      BY <2>1 DEF Settled
  <1>7. CASE ~AlreadyDominant(x, sums) /\ y = A(TRUE, TRUE) /\ input.onFailure # "Error"
    <2>1. y.scaled = TRUE
      BY <1>3, <1>7
    <2>2. Exceeds(x)
      <3>1. PICK i \in 1..N : ~(sums[i] <= x.diagonal[i])
        BY <1>1, <1>7 DEF AlreadyDominant
      <3>2. D(i) < Beside(x, i)
        BY <1>1, <1>2, <3>1
      <3> QED
        BY <3>2 DEF Exceeds, D, N
    <2>3. input.onFailure = "Warn"
      BY <1>7, FactorPairsAssumption DEF DesignIs
    <2> QED
      BY <2>1, <2>2, <2>3 DEF Settled
  <1>8. y \in ConvertGeneral(x, sums, s)
    BY DEF sums, s
  <1>9. IsRejected(Rejected("UnscalableComponent"))
    BY DEF IsRejected, Rejected
  <1> QED
    BY <1>5, <1>6, <1>7, <1>8, <1>9 DEF ConvertGeneral, A

LEMMA SettledIs ==
  ASSUME DesignIs, NEW p, IsPair(p), NEW x, SoundLocal(p, x), NEW y \in Convert(IsPlain(p), x),
         ~IsRejected(y)
  PROVE  Settled(x, y)
  <1>1. Tabulates(x)
    BY DEF SoundLocal
  <1>2. y \in ConvertWith(IsPlain(p), x, SignGraphOf(x))
    BY DEF Convert, SignGraphOf
  <1>3. CASE IsPlain(p)
    BY <1>2, <1>3, PlainSettled DEF ConvertWith
  <1>4. CASE ~IsPlain(p)
    BY <1>1, <1>2, <1>4, GeneralSettled DEF ConvertWith
  <1> QED
    BY <1>3, <1>4

-----------------------------------------------------------------------------
(* A component has all that couples to it, so that its sums are the pair's. *)

Other(p, d) == IF d \in ChannelDofs(p.rows) THEN ChannelDofs(p.cols) ELSE ChannelDofs(p.rows)
Whole(p, x) ==
  \A i \in 1..Len(x.globals) :
    /\ x.globals[i] \in LiveDofs(p)
    /\ \A e \in Other(p, x.globals[i]) : Gram(x.globals[i], e) # 0 => e \in ToSet(x.globals)

LEMMA WholeIs ==
  ASSUME DesignIs, NEW p, IsPair(p), NEW n \in Nat, NEW L, \A k \in 1..n : SoundLocal(p, L[k]),
         AreComponents(p, n, [k \in 1..n |-> ToSet(L[k].globals)]), NEW k \in 1..n
  PROVE  Whole(p, L[k])
  <1> DEFINE x == L[k]
             R == ChannelDofs(p.rows)
             C == ChannelDofs(p.cols)
             S(j) == ToSet(L[j].globals)
  <1>1. /\ UNION {S(j) : j \in 1..n} = LiveDofs(p)
        /\ \A j \in 1..n : j # k => S(j) \cap S(k) = {} /\ ~Crosses(Coupled(p), S(j), S(k))
    BY DEF AreComponents
  <1>2. Tabulates(x)
    BY DEF SoundLocal
  <1>3. \A i \in 1..Len(x.globals) : x.globals[i] \in S(k)
    BY <1>2, TableFacts DEF ToSet
  <1>4. R \in SUBSET Dofs /\ C \in SUBSET Dofs
    BY ChannelDofsAre DEF IsPair
  <1>5. LiveDofs(p) = {d \in R \cup C : Gram(d, d) # 0}
    BY DEF LiveDofs
  <1>6. \A d, e : <<d, e>> \in Coupled(p) <=> d \in R /\ e \in C /\ Gram(d, e) # 0
    BY DEF Coupled
  <1>7. \A d : Other(p, d) = IF d \in R THEN C ELSE R
    BY DEF Other
  <1> HIDE DEF R, C, S
  <1>8. ASSUME NEW i \in 1..Len(x.globals), NEW e \in Other(p, x.globals[i]),
               Gram(x.globals[i], e) # 0
        PROVE  e \in S(k)
    <2> DEFINE d == x.globals[i]
    <2>1. d \in S(k) /\ d \in LiveDofs(p)
      BY <1>1, <1>3
    <2>2. e \in IF d \in R THEN C ELSE R
      BY <1>7
    <2>3. d \in R \cup C /\ d \in Dofs /\ e \in Dofs
      BY <1>4, <1>5, <2>1, <2>2
    <2>4. Gram(d, e) = Gram(e, d) /\ Gram(d, e) # 0
      BY <1>8, <2>3, GramSymmetric
    <2>5. Gram(e, e) # 0
      BY <2>3, <2>4, GramDiagonal
    <2>6. e \in LiveDofs(p)
      BY <1>5, <2>2, <2>5
    <2>7. PICK j \in 1..n : e \in S(j)
      BY <1>1, <2>6
    <2>8. <<d, e>> \in Coupled(p) \/ <<e, d>> \in Coupled(p)
      BY <1>6, <2>2, <2>3, <2>4
    <2> HIDE DEF d
    <2>9. Crosses(Coupled(p), S(j), S(k))
      <3>1. CASE <<d, e>> \in Coupled(p)
        <4>1. <<d, e>>[1] \in S(k) /\ <<d, e>>[2] \in S(j)
          BY <2>1, <2>7
        <4> QED
          BY <3>1, <4>1 DEF Crosses
      <3>2. CASE <<e, d>> \in Coupled(p)
        <4>1. <<e, d>>[1] \in S(j) /\ <<e, d>>[2] \in S(k)
          BY <2>1, <2>7
        <4> QED
          BY <3>2, <4>1 DEF Crosses
      <3> QED
        BY <2>8, <3>1, <3>2
    <2>10. j = k
      BY <1>1, <2>9
    <2> QED
      BY <2>7, <2>10
  <1>9. \A i \in 1..Len(x.globals) : x.globals[i] \in LiveDofs(p)
    BY <1>1, <1>3
  <1> QED
    BY <1>8, <1>9 DEF Whole, S

LEMMA ChannelFinite ==
  ASSUME DesignIs, NEW ch, IsChannel(ch)
  PROVE  /\ IsFiniteSet(ChannelDofs(ch))
         /\ \A l, m \in Levels(ch) : DofAt(ch, l) = DofAt(ch, m) => l = m
  <1>1. IsFiniteSet(Levels(ch))
    BY ChannelFacts
  <1> DEFINE f == [l \in Levels(ch) |-> DofAt(ch, l)]
  <1>2. ChannelDofs(ch) = {f[l] : l \in Levels(ch)}
    BY DEF ChannelDofs, Levels, DofAt
  <1>3. f \in [Levels(ch) -> ChannelDofs(ch)] /\ \A d \in ChannelDofs(ch) : \E l \in Levels(ch) : f[l] = d
    BY <1>2
  <1> HIDE DEF f
  <1>4. f \in Surjection(Levels(ch), ChannelDofs(ch))
    BY <1>3 DEF Surjection
  <1>5. IsFiniteSet(ChannelDofs(ch))
    BY <1>1, <1>4, FS_Surjection
  <1> QED
    BY <1>5, DofsApart

SizesTo(p, d) == [e \in Other(p, d) |-> Magnitude(Gram(d, e))]

LEMMA ChannelSum ==
  ASSUME DesignIs, NEW p, IsPair(p), NEW x, SoundLocal(p, x), Whole(p, x),
         NEW i \in 1..Len(x.globals)
  PROVE  SumFunction(SizesTo(p, x.globals[i])) = Beside(x, i)
  <1> DEFINE N == Len(x.globals)
             d == x.globals[i]
             R == ChannelDofs(p.rows)
             C == ChannelDofs(p.cols)
             S == Other(p, d)
             E == Opposite(x, i)
             f == Extents(x, i)
             F == SizesTo(p, d)
             h == x.globals
             low(k) == k <= Len(x.c)
  <1>1. Tabulates(x)
    BY DEF SoundLocal
  <1>2. /\ E \in SUBSET (1..N) /\ IsFiniteSet(E)
        /\ \A k \in 1..N : k \in E <=> (low(i) <=> ~low(k))
        /\ \A k \in 1..N : f[k] = Magnitude(Gram(d, h[k])) /\ f[k] \in Nat
    BY <1>1, OppositeIs
  <1>3. R \cap C = {} /\ R \in SUBSET Dofs /\ C \in SUBSET Dofs
    BY ChannelsApart, ChannelDofsAre DEF IsPair
  <1>4. \/ \A k \in 1..N : h[k] \in IF low(k) THEN R ELSE C
        \/ \A k \in 1..N : h[k] \in IF low(k) THEN C ELSE R
    BY DEF SoundLocal, Splits
  <1>5. S = IF d \in R THEN C ELSE R
    BY DEF Other
  <1>6. i \in 1..N /\ d = h[i]
    OBVIOUS
  <1>7. \A k, j \in 1..N : h[k] = h[j] => k = j
    BY <1>1 DEF Tabulates
  <1>8. DOMAIN F = S /\ \A e \in S : F[e] = Magnitude(Gram(d, e))
    BY DEF SizesTo
  <1>9. \A e \in S : Gram(d, e) # 0 => \E k \in 1..N : h[k] = e
    <2>1. \A e \in S : Gram(d, e) # 0 => e \in ToSet(h)
      BY DEF Whole
    <2>2. DOMAIN h = 1..N
      BY <1>1, TableFacts
    <2> QED
      BY <2>1, <2>2 DEF ToSet
  <1>10. IsFiniteSet(S)
    <2>1. IsFiniteSet(R) /\ IsFiniteSet(C)
      BY ChannelFinite DEF IsPair
    <2> QED
      BY <1>5, <2>1
  <1>11. \A e \in S : Gram(d, e) \in Int
    <2>1. d \in Dofs
      BY <1>1, TableFacts
    <2>2. S \in SUBSET Dofs
      BY <1>3, <1>5
    <2> QED
      BY <2>1, <2>2, GramSymmetric
  <1> HIDE DEF N, d, R, C, S, E, f, F, h, low
  <1>12. \A k \in 1..N : h[k] \in S <=> k \in E
    <2> SUFFICES ASSUME NEW k \in 1..N PROVE h[k] \in S <=> k \in E
      OBVIOUS
    <2> QED
      BY ONLY <1>2, <1>3, <1>4, <1>5, <1>6, k \in 1..N
  <1>13. ASSUME NEW e \in S PROVE F[e] \in Int /\ (F[e] = 0 <=> Gram(d, e) = 0)
    <2> DEFINE v == Gram(d, e)
    <2>1. F[e] = Magnitude(v) /\ v \in Int
      BY <1>8, <1>11
    <2> HIDE DEF v
    <2>2. Magnitude(v) \in Nat /\ (Magnitude(v) = 0 <=> v = 0)
      BY ONLY <2>1, MagnitudeIs
    <2> QED
      BY ONLY <2>1, <2>2 DEF v
  <1>14. Carries(h, f, E, F, S)
    <2>1. \A k \in E : f[k] \in Int /\ h[k] \in S /\ F[h[k]] = f[k]
      BY ONLY <1>2, <1>8, <1>12
    <2>2. \A e, k \in E : h[e] = h[k] => e = k
      BY ONLY <1>2, <1>7
    <2>3. ASSUME NEW e \in S, F[e] # 0 PROVE \E k \in E : h[k] = e
      <3>1. PICK k \in 1..N : h[k] = e
        BY ONLY <1>9, <1>13, <2>3
      <3> QED
        BY ONLY <1>12, <3>1, e \in S
    <2> QED
      BY ONLY <1>13, <2>1, <2>2, <2>3 DEF Carries
  <1>15. SumFunctionOnSet(F, S) = SumFunctionOnSet(f, E)
    BY ONLY <1>2, <1>10, <1>14, SumThrough
  <1> QED
    BY <1>8, <1>15 DEF SumFunction, Beside, F, d, E, f

LEMMA ExceedsIs ==
  ASSUME DesignIs, NEW p, IsPair(p), NEW x, SoundLocal(p, x), Whole(p, x), Exceeds(x)
  PROVE  Undominated(p)
  <1>1. PICK i \in 1..Len(x.globals) : Gram(x.globals[i], x.globals[i]) < Beside(x, i)
    BY DEF Exceeds
  <1>2. x.globals[i] \in LiveDofs(p)
    BY DEF Whole
  <1>3. SumFunction(SizesTo(p, x.globals[i])) = Beside(x, i)
    BY ChannelSum
  <1>4. Gram(x.globals[i], x.globals[i]) < SumFunction(SizesTo(p, x.globals[i]))
    BY <1>1, <1>3
  <1> QED
    BY <1>2, <1>4 DEF Undominated, SizesTo, Other

(* Of two intercept channels each row of the Gram matrix sums to its       *)
(* diagonal entry: every observation is in one level of the other channel. *)
LEMMA PlainSum ==
  ASSUME DesignIs, NEW ch, IsChannel(ch), ColumnOf(ch) = Constant,
         NEW di, IsChannel(di), ColumnOf(di) = Constant, NEW l \in Levels(ch),
         NEW F, \A e \in ChannelDofs(di) : F[e] = Magnitude(Gram(DofAt(ch, l), e))
  PROVE  SumFunctionOnSet(F, ChannelDofs(di)) = Gram(DofAt(ch, l), DofAt(ch, l))
  <1> DEFINE d == DofAt(ch, l)
             O == Observations
             K == Levels(di)
             S == ChannelDofs(di)
             f == Products(ch, l, ch, l)
             P(m) == Products(ch, l, di, m)
             at == LevelsOf(di)
             h == [m \in K |-> DofAt(di, m)]
             g == [m \in K |-> F[h[m]]]
             B(m) == {i \in O : at[i] = m}
  <1>1. IsFiniteSet(O) /\ IsFiniteSet(K) /\ IsFiniteSet(S) /\ \A i \in O : at[i] \in K
    BY ObservationFacts, ChannelFacts, ChannelFinite
  <1>2. ASSUME NEW i \in O, NEW m \in K
        PROVE  f[i] \in Nat /\ P(m)[i] = IF at[i] = m THEN f[i] ELSE 0
    <2> DEFINE w == Weight(i)
               a == Entry(ch, l, i)
               b == Entry(di, m, i)
    <2>1. w \in Nat /\ Unit \in Nat /\ f[i] = w * a * a /\ P(m)[i] = w * a * b
      BY ObservationFacts, FactorPairsAssumption DEF Products
    <2>2. a \in {0, Unit} /\ b = IF at[i] = m THEN Unit ELSE 0
      BY DEF Entry, Load
    <2> HIDE DEF w, a, b, f, P, at
    <2>3. a \in Nat /\ b \in Nat
      BY <2>1, <2>2
    <2>4. f[i] \in Nat
      BY ONLY <2>1, <2>3
    <2>5. CASE a = 0
      BY ONLY <2>1, <2>2, <2>3, <2>5
    <2>6. CASE a = Unit /\ at[i] = m
      BY <2>1, <2>2, <2>4, <2>6
    <2>7. CASE a = Unit /\ at[i] # m
      <3>1. b = 0 /\ w * a \in Nat
        BY ONLY <2>1, <2>2, <2>3, <2>7
      <3> QED
        BY ONLY <2>1, <2>4, <2>7, <3>1
    <2> QED
      BY <2>2, <2>4, <2>5, <2>6, <2>7
  <1>3. Gram(d, d) = SumFunctionOnSet(f, O)
    BY GramIs
  <1>4. \A m \in K : Gram(d, DofAt(di, m)) = SumFunctionOnSet(P(m), O)
    BY GramIs
  <1>5. \A m \in K : DofAt(di, m) \in S
    BY ChannelDofsAre
  <1>6. \A e \in S : \E m \in K : DofAt(di, m) = e
    BY ChannelDofsAre
  <1>7. \A m, k \in K : DofAt(di, m) = DofAt(di, k) => m = k
    BY ChannelFinite
  <1>8. \A e \in S : F[e] = Magnitude(Gram(d, e))
    OBVIOUS
  <1>9. \A m \in K : h[m] = DofAt(di, m) /\ g[m] = F[h[m]]
    OBVIOUS
  <1> HIDE DEF d, O, K, S, f, P, at, h, g
  <1>10. ASSUME NEW m \in K
         PROVE  g[m] = SumFunctionOnSet(f, B(m)) /\ g[m] \in Nat
    <2> DEFINE Pm == P(m)
               Bm == B(m)
    <2>1. Bm \in SUBSET O /\ IsFiniteSet(Bm)
      BY <1>1, FS_Subset
    <2>2. /\ \A i \in Bm : f[i] \in Int /\ Pm[i] = f[i] /\ f[i] \in Nat
          /\ \A i \in O \ Bm : Pm[i] = 0
      BY <1>2
    <2> HIDE DEF Pm, Bm
    <2>3. SumFunctionOnSet(Pm, O) = SumFunctionOnSet(f, Bm)
      BY ONLY <1>1, <2>1, <2>2, SumSupport
    <2>4. SumFunctionOnSet(f, Bm) \in Nat
      BY ONLY <2>1, <2>2, SumPositive
    <2>5. Gram(d, DofAt(di, m)) = SumFunctionOnSet(f, Bm)
      BY <1>4, <2>3 DEF Pm
    <2>6. g[m] = Magnitude(Gram(d, DofAt(di, m)))
      BY <1>5, <1>8, <1>9
    <2>7. \A v \in Nat : Magnitude(v) = v
      BY MagnitudeIs
    <2> QED
      BY <2>4, <2>5, <2>6, <2>7 DEF Bm
  <1> HIDE DEF B
  <1>11. \A m \in K : B(m) = {i \in O : at[i] = m}
    BY DEF B
  <1>12. SumFunctionOnSet(g, K) = SumFunctionOnSet(f, O)
    <2>1. \A i \in O : f[i] \in Int
      BY <1>1, <1>2
    <2>2. \A m \in K : g[m] = SumFunctionOnSet(f, {i \in O : at[i] = m})
      BY <1>10, <1>11
    <2>3. \A i \in O : at[i] \in K
      BY <1>1
    <2>4. IsFiniteSet(O) /\ IsFiniteSet(K)
      BY <1>1
    <2>5. Groups(at, f, O, g, K)
      BY ONLY <2>1, <2>2, <2>3 DEF Groups
    <2> QED
      BY ONLY <2>4, <2>5, SumGroups
  <1>13. Carries(h, g, K, F, S)
    <2>1. \A m \in K : g[m] \in Int /\ h[m] \in S /\ F[h[m]] = g[m]
      BY <1>5, <1>9, <1>10
    <2>2. \A m, k \in K : h[m] = h[k] => m = k
      BY <1>7, <1>9
    <2>3. \A e \in S : \E m \in K : h[m] = e
      BY <1>6, <1>9
    <2>4. \A e \in S : F[e] \in Int
      BY ONLY <2>1, <2>3
    <2> QED
      BY ONLY <2>1, <2>2, <2>3, <2>4 DEF Carries
  <1>14. SumFunctionOnSet(F, S) = SumFunctionOnSet(g, K)
    BY ONLY <1>1, <1>13, SumThrough
  <1> QED
    BY <1>3, <1>12, <1>14 DEF S, d

LEMMA PlainRowSum ==
  ASSUME DesignIs, NEW p, IsPair(p), IsPlain(p), NEW x, SoundLocal(p, x), Whole(p, x),
         NEW i \in 1..Len(x.globals)
  PROVE  Beside(x, i) = Gram(x.globals[i], x.globals[i])
  <1> DEFINE d == x.globals[i]
             F == SizesTo(p, d)
  <1>1. d \in ChannelDofs(p.rows) \cup ChannelDofs(p.cols)
    BY DEF Whole, LiveDofs
  <1>2. \A e \in Other(p, d) : F[e] = Magnitude(Gram(d, e))
    BY DEF SizesTo
  <1>3. SumFunction(F) = SumFunctionOnSet(F, Other(p, d))
    BY DEF SumFunction, SizesTo
  <1>4. SumFunction(F) = Beside(x, i)
    BY ChannelSum
  <1> HIDE DEF d, F
  <1>5. ASSUME NEW ch, IsChannel(ch), ColumnOf(ch) = Constant, NEW di, IsChannel(di),
               ColumnOf(di) = Constant, d \in ChannelDofs(ch), Other(p, d) = ChannelDofs(di)
        PROVE  SumFunction(F) = Gram(d, d)
    <2>1. PICK l \in Levels(ch) : d = DofAt(ch, l)
      BY <1>5, ChannelDofsAre
    <2>2. \A e \in ChannelDofs(di) : F[e] = Magnitude(Gram(DofAt(ch, l), e))
      BY <1>2, <1>5, <2>1
    <2>3. SumFunctionOnSet(F, ChannelDofs(di)) = Gram(DofAt(ch, l), DofAt(ch, l))
      BY <1>5, <2>2, PlainSum
    <2> QED
      BY <1>3, <1>5, <2>1, <2>3
  <1>6. CASE d \in ChannelDofs(p.rows)
    <2>1. Other(p, d) = ChannelDofs(p.cols)
      BY <1>6 DEF Other
    <2>2. SumFunction(F) = Gram(d, d)
      BY <1>5, <1>6, <2>1 DEF IsPair, IsPlain
    <2> QED
      BY <1>4, <2>2 DEF d
  <1>7. CASE d \notin ChannelDofs(p.rows)
    <2>1. Other(p, d) = ChannelDofs(p.rows)
      BY <1>7 DEF Other
    <2>2. SumFunction(F) = Gram(d, d)
      BY <1>1, <1>5, <1>7, <2>1 DEF IsPair, IsPlain
    <2> QED
      BY <1>4, <2>2 DEF d
  <1> QED
    BY <1>6, <1>7

(* A component is only rejected if dominance scaling was tried on it.      *)
LEMMA RejectedIs ==
  ASSUME DesignIs, NEW p, IsPair(p), NEW x, SoundLocal(p, x), Whole(p, x),
         NEW y \in Convert(IsPlain(p), x), IsRejected(y)
  PROVE  ~IsPlain(p) /\ input.onFailure = "Error" /\ Undominated(p)
  <1> DEFINE N == Len(x.globals)
             nb == SignGraphOf(x)
             s == FoldingSigns(nb)
             sums == MagnitudeSums(nb)
             A(b, w) == Assemble(x, s, b, w)
             D(i) == Gram(x.globals[i], x.globals[i])
  <1>1. Tabulates(x)
    BY DEF SoundLocal
  <1>2. y \in ConvertWith(IsPlain(p), x, nb)
    BY DEF Convert, SignGraphOf
  <1>3. DOMAIN x.diagonal = 1..N /\ \A i \in 1..N : x.diagonal[i] = D(i) /\ D(i) \in Nat \ {0}
    <2>1. \A i \in 1..N : x.globals[i] \in Dofs /\ D(i) # 0
      BY <1>1, TableFacts DEF Whole, LiveDofs
    <2> QED
      BY <1>1, <2>1, TableFacts, GramDiagonal DEF Tabulates
  <1>4. \A z : IsComponent(z) => ~IsRejected(z)
    BY NotRejected
  <1>5. CASE IsPlain(p)
    <2>1. RowSums(nb) = [i \in 1..N |-> Beside(x, i)]
      BY <1>1, <1>5, PlainBeside, SumsAre
    <2>2. \A i \in 1..N : Beside(x, i) = x.diagonal[i]
      BY <1>3, <1>5, PlainRowSum
    <2>3. x.diagonal = [i \in 1..N |-> x.diagonal[i]]
      BY <1>1, <1>3 DEF Tabulates
    <2>4. RowSums(nb) = x.diagonal
      BY <2>1, <2>2, <2>3
    <2>5. y = ConvertKnownLaplacian(x, RowSums(nb))
      BY <1>2, <1>5 DEF ConvertWith
    <2>6. IsComponent(y)
      BY <2>4, <2>5 DEF ConvertKnownLaplacian, IsComponent
    <2> QED
      BY <1>4, <2>6
  <1>6. CASE ~IsPlain(p)
    <2>1. y \in ConvertGeneral(x, sums, s)
      BY <1>2, <1>6 DEF ConvertWith
    <2>2. DOMAIN sums = 1..N /\ \A i \in 1..N : sums[i] = Beside(x, i)
      BY <1>1, SumsAre
    <2>3. \A i \in DOMAIN sums : ~(x.diagonal[i] <= 0)
      BY <1>3, <2>2
    <2>4. \A b, w : IsComponent(A(b, w)) /\ ~IsRejected(A(b, w))
      BY <1>1, <1>4, AssembleIs
    <2>5. \A b, w : ~IsRejected(Finalized(A(b, w), sums))
      BY <1>4, <2>4, GroundedIs DEF Finalized
    <2> HIDE DEF A, N, D, sums, s
    <2>6. ~AlreadyDominant(x, sums) /\ input.onFailure = "Error"
      BY <2>1, <2>3, <2>4, <2>5 DEF ConvertGeneral, A
    <2>7. PICK i \in 1..N : ~(sums[i] <= x.diagonal[i])
      BY <2>2, <2>6 DEF AlreadyDominant
    <2>8. D(i) < Beside(x, i)
      <3>1. Beside(x, i) \in Nat
        BY <1>1, OppositeIs DEF N
      <3> QED
        BY <1>3, <2>2, <2>7, <3>1
    <2>9. Exceeds(x)
      BY <2>8 DEF Exceeds, D, N
    <2> QED
      BY <1>6, <2>6, <2>9, ExceedsIs
  <1> QED
    BY <1>5, <1>6
-----------------------------------------------------------------------------
(* When a dominant component is singular. *)

LEMMA SumSupported ==
  ASSUME NEW S, IsFiniteSet(S), NEW A \in SUBSET S, NEW f, \A x \in S : f[x] \in Int,
         \A x \in S \ A : f[x] = 0
  PROVE  SumFunctionOnSet(f, S) = SumFunctionOnSet(f, A)
  <1> DEFINE B == S \ A
  <1>1. A \cup B = S /\ A \cap B = {} /\ \A x \in B : f[x] = 0
    OBVIOUS
  <1>2. IsFiniteSet(A) /\ IsFiniteSet(B)
    BY FS_Subset
  <1>3. (\A x \in A \cup B : f[x] \in Int) /\ \A x \in A : f[x] \in Int
    OBVIOUS
  <1> HIDE DEF B
  <1>4. SumFunctionOnSet(f, A \cup B) = SumFunctionOnSet(f, A) + SumFunctionOnSet(f, B)
    BY ONLY <1>1, <1>2, <1>3, SumDisjoint
  <1>5. SumFunctionOnSet(f, B) = 0
    BY ONLY <1>1, <1>2, SumZero
  <1>6. SumFunctionOnSet(f, A) \in Int
    BY ONLY <1>2, <1>3, SumType
  <1>7. A \cup B = S
    BY ONLY <1>1
  <1>8. SumFunctionOnSet(f, S) = SumFunctionOnSet(f, A) + SumFunctionOnSet(f, B)
    BY ONLY <1>4, <1>7
  <1> QED
    BY ONLY <1>5, <1>6, <1>8

(* A sum is as large as its terms allow, and changes sign with them.       *)
LEMMA SumWithin ==
  ASSUME NEW S, IsFiniteSet(S), NEW f, NEW g,
         \A x \in S : f[x] \in Int /\ g[x] \in Int /\ f[x] <= g[x] /\ -f[x] <= g[x]
  PROVE  /\ SumFunctionOnSet(f, S) <= SumFunctionOnSet(g, S)
         /\ -SumFunctionOnSet(f, S) <= SumFunctionOnSet(g, S)
         /\ (\A x \in S : g[x] = -f[x]) => SumFunctionOnSet(g, S) = -SumFunctionOnSet(f, S)
  <1> DEFINE F(s) == SumFunctionOnSet(f, s)
             G(s) == SumFunctionOnSet(g, s)
             C == {s \in SUBSET S : /\ F(s) <= G(s) /\ -F(s) <= G(s)
                                    /\ (\A x \in S : g[x] = -f[x]) => G(s) = -F(s)}
  <1>1. \A s \in SUBSET S : F(s) \in Int /\ G(s) \in Int
    <2> SUFFICES ASSUME NEW s \in SUBSET S PROVE F(s) \in Int /\ G(s) \in Int
      OBVIOUS
    <2>1. IsFiniteSet(s) /\ (\A x \in s : f[x] \in Int) /\ \A x \in s : g[x] \in Int
      BY FS_Subset
    <2> QED
      BY <2>1, SumType
  <1>2. ASSUME NEW s \in SUBSET S, NEW x \in s
        PROVE  F(s) = f[x] + F(s \ {x}) /\ G(s) = g[x] + G(s \ {x})
    <2>1. IsFiniteSet(s) /\ (\A y \in s : f[y] \in Int) /\ \A y \in s : g[y] \in Int
      BY FS_Subset
    <2> QED
      BY <2>1, SumRemove
  <1>3. F({}) = 0 /\ G({}) = 0
    BY SumEmpty
  <1> HIDE DEF F, G
  <1>4. ASSUME NEW s \in SUBSET S, \A x \in s : s \ {x} \in C PROVE s \in C
    <2>1. CASE s = {}
      BY <1>3, <2>1
    <2>2. CASE s # {}
      <3>1. PICK x \in s : TRUE
        BY <2>2
      <3> DEFINE r == s \ {x}
      <3>2. r \in C
        BY <1>4
      <3>3. F(s) = f[x] + F(r) /\ G(s) = g[x] + G(r)
        BY <1>2
      <3>4. F(r) \in Int /\ G(r) \in Int
        BY <1>1
      <3>5. f[x] \in Int /\ g[x] \in Int /\ f[x] <= g[x] /\ -f[x] <= g[x]
        OBVIOUS
      <3>6. F(r) <= G(r) /\ -F(r) <= G(r)
        BY <3>2
      <3> HIDE DEF r
      <3>7. F(s) <= G(s) /\ -F(s) <= G(s)
        BY ONLY <3>3, <3>4, <3>5, <3>6
      <3>8. (\A y \in S : g[y] = -f[y]) => G(s) = -F(s)
        <4> SUFFICES ASSUME \A y \in S : g[y] = -f[y] PROVE G(s) = -F(s)
          OBVIOUS
        <4>1. G(r) = -F(r) /\ g[x] = -f[x]
          BY <3>2
        <4> QED
          BY ONLY <3>3, <3>4, <3>5, <4>1
      <3> QED
        BY <3>7, <3>8
    <2> QED
      BY <2>1, <2>2
  <1> HIDE DEF C
  <1>6. \A s \in SUBSET S : s \in C
    BY ONLY <1>4, IsFiniteSet(S), SubsetInduction
  <1>5. S \in C
    BY <1>6
  <1> QED
    BY <1>5 DEF C, F, G

LEMMA WithinZero ==
  ASSUME DesignIs, NEW ch, IsChannel(ch), NEW d \in ChannelDofs(ch), NEW e \in ChannelDofs(ch),
         d # e
  PROVE  Gram(d, e) = 0
  <1>1. PICK l \in Levels(ch) : d = DofAt(ch, l)
    BY ChannelDofsAre
  <1>2. PICK m \in Levels(ch) : e = DofAt(ch, m)
    BY ChannelDofsAre
  <1>3. l # m
    BY <1>1, <1>2
  <1>4. ASSUME NEW i \in Observations PROVE Products(ch, l, ch, m)[i] = 0
    <2>1. Weight(i) \in Nat /\ Entry(ch, l, i) \in Int /\ Entry(ch, m, i) \in Int
      BY ObservationFacts, ProductsInt
    <2>2. Entry(ch, l, i) = 0 \/ Entry(ch, m, i) = 0
      BY <1>3 DEF Entry
    <2>3. Products(ch, l, ch, m)[i] = Weight(i) * Entry(ch, l, i) * Entry(ch, m, i)
      BY DEF Products
    <2> QED
      BY <2>1, <2>2, <2>3
  <1>5. Gram(d, e) = SumFunctionOnSet(Products(ch, l, ch, m), Observations)
    BY <1>1, <1>2, GramIs
  <1> QED
    BY <1>4, <1>5, ObservationFacts, SumZero

AcrossTerms(x, s, i) == [k \in 1..Len(x.globals) |-> Gram(x.globals[i], x.globals[k]) * s[k]]
AcrossSum(x, s, i) == SumFunctionOnSet(AcrossTerms(x, s, i), Opposite(x, i))

LEMMA MatrixRowIs ==
  ASSUME DesignIs, NEW p, IsPair(p), NEW x, SoundLocal(p, x),
         NEW s \in [1..Len(x.globals) -> {-1, 1}], NEW i \in 1..Len(x.globals)
  PROVE  /\ MatrixRow(x, s, i) = Gram(x.globals[i], x.globals[i]) * s[i] + AcrossSum(x, s, i)
         /\ AcrossSum(x, s, i) \in Int
         /\ \A k \in 1..Len(x.globals) : /\ AcrossTerms(x, s, i)[k] = Gram(x.globals[i], x.globals[k]) * s[k]
                                         /\ AcrossTerms(x, s, i)[k] \in Int
  <1> DEFINE N == Len(x.globals)
             I == 1..N
             g == x.globals
             E == Opposite(x, i)
             f == AcrossTerms(x, s, i)
  <1>1. Tabulates(x)
    BY DEF SoundLocal
  <1>2. E \in SUBSET I /\ IsFiniteSet(E) /\ i \notin E
    BY <1>1, OppositeIs
  <1>3. IsFiniteSet(I) /\ DOMAIN g = I
    BY <1>1, TableFacts, FS_Interval
  <1>4. \A k \in I : f[k] = Gram(g[i], g[k]) * s[k] /\ f[k] \in Int
    <2>1. \A k \in I : Gram(g[i], g[k]) \in Int /\ s[k] \in Int
      BY <1>1, TableFacts
    <2> QED
      BY <2>1 DEF AcrossTerms
  <1>5. ASSUME NEW k \in I, k \notin E, k # i PROVE f[k] = 0
    <2>1. g[k] # g[i]
      BY <1>1, <1>5 DEF Tabulates
    <2>2. i <= Len(x.c) <=> k <= Len(x.c)
      BY <1>1, <1>5, OppositeIs
    <2>3. \/ g[i] \in ChannelDofs(p.rows) /\ g[k] \in ChannelDofs(p.rows)
          \/ g[i] \in ChannelDofs(p.cols) /\ g[k] \in ChannelDofs(p.cols)
      BY <2>2 DEF SoundLocal, Splits
    <2>4. Gram(g[i], g[k]) = 0
      BY <2>1, <2>3, WithinZero DEF IsPair
    <2>5. s[k] \in Int
      OBVIOUS
    <2> QED
      BY <1>4, <2>4, <2>5
  <1>6. MatrixRow(x, s, i) = SumFunctionOnSet(f, I)
    <2> DEFINE t == [j \in DOMAIN g |-> Gram(g[i], g[j]) * s[j]]
    <2>1. t = f /\ DOMAIN t = I
      BY <1>3 DEF AcrossTerms
    <2>2. MatrixRow(x, s, i) = SumFunction(t)
      BY DEF MatrixRow
    <2> HIDE DEF t
    <2> QED
      BY <2>1, <2>2 DEF SumFunction
  <1>7. i \in I
    OBVIOUS
  <1> HIDE DEF I, E, f
  <1> DEFINE A == {i} \cup E
  <1>8. A \in SUBSET I /\ {i} \cap E = {} /\ IsFiniteSet({i})
    BY <1>2, <1>7, FS_Singleton
  <1>9. SumFunctionOnSet(f, I) = SumFunctionOnSet(f, A)
    <2>1. (\A k \in I : f[k] \in Int) /\ \A k \in I \ A : f[k] = 0
      BY <1>4, <1>5
    <2> HIDE DEF A
    <2> QED
      BY ONLY <1>3, <1>8, <2>1, SumSupported
  <1>10. SumFunctionOnSet(f, A) = SumFunctionOnSet(f, {i}) + SumFunctionOnSet(f, E)
    <2>1. \A k \in {i} \cup E : f[k] \in Int
      BY <1>4, <1>8
    <2> QED
      BY <1>2, <1>8, <2>1, SumDisjoint
  <1>11. SumFunctionOnSet(f, {i}) = f[i]
    BY <1>4, <1>7, SumSingle
  <1>12. SumFunctionOnSet(f, E) \in Int
    BY <1>2, <1>4, SumType
  <1>13. MatrixRow(x, s, i) = f[i] + SumFunctionOnSet(f, E)
    BY <1>6, <1>9, <1>10, <1>11
  <1> QED
    BY <1>4, <1>7, <1>12, <1>13 DEF AcrossSum, f, E, I

LEMMA SignedProduct ==
  ASSUME NEW a \in {-1, 1}, NEW b \in {-1, 1}, NEW v \in Int
  PROVE  /\ v * b <= Magnitude(v) /\ -(v * b) <= Magnitude(v)
         /\ a * b * v <= 0 => v * b = IF a = 1 THEN -Magnitude(v) ELSE Magnitude(v)
  BY DEF Magnitude

LEMMA SingularIs ==
  ASSUME DesignIs, NEW p, IsPair(p), NEW x, SoundLocal(p, x), Folders(x) # {},
         \A i \in 1..Len(x.globals) : Beside(x, i) <= Gram(x.globals[i], x.globals[i])
  PROVE  (\A i \in 1..Len(x.globals) : Beside(x, i) = Gram(x.globals[i], x.globals[i]))
           <=> \E s \in [1..Len(x.globals) -> {-1, 1}] :
                 \A i \in 1..Len(x.globals) : MatrixRow(x, s, i) = 0
  <1> DEFINE N == Len(x.globals)
             g == x.globals
             D(i) == Gram(g[i], g[i])
             f(s, i) == AcrossTerms(x, s, i)
             T(s, i) == AcrossSum(x, s, i)
  <1>1. Tabulates(x)
    BY DEF SoundLocal
  <1>2. ASSUME NEW i \in 1..N
        PROVE  /\ Opposite(x, i) \in SUBSET (1..N) /\ IsFiniteSet(Opposite(x, i))
               /\ \A k \in 1..N : k \in Opposite(x, i) <=> (i <= Len(x.c) <=> ~(k <= Len(x.c)))
               /\ \A k \in 1..N : /\ Gram(g[i], g[k]) \in Int
                                  /\ Extents(x, i)[k] = Magnitude(Gram(g[i], g[k]))
                                  /\ Extents(x, i)[k] \in Nat
               /\ Beside(x, i) \in Nat /\ D(i) \in Int
    BY <1>1, OppositeIs
  <1>3. ASSUME NEW s \in [1..N -> {-1, 1}], NEW i \in 1..N
        PROVE  /\ MatrixRow(x, s, i) = D(i) * s[i] + T(s, i) /\ T(s, i) \in Int
               /\ \A k \in 1..N : f(s, i)[k] = Gram(g[i], g[k]) * s[k] /\ f(s, i)[k] \in Int
               /\ T(s, i) = SumFunctionOnSet(f(s, i), Opposite(x, i))
    BY MatrixRowIs DEF AcrossSum
  <1> HIDE DEF f, T, D
  <1>4. ASSUME NEW s \in [1..N -> {-1, 1}], NEW i \in 1..N, MatrixRow(x, s, i) = 0
        PROVE  Beside(x, i) = D(i)
    <2> DEFINE E == Opposite(x, i)
               h == f(s, i)
               z == Extents(x, i)
    <2>1. \A k \in E : h[k] \in Int /\ z[k] \in Int /\ h[k] <= z[k] /\ -h[k] <= z[k]
      <3> SUFFICES ASSUME NEW k \in E PROVE h[k] \in Int /\ z[k] \in Int /\ h[k] <= z[k] /\ -h[k] <= z[k]
        OBVIOUS
      <3>1. k \in 1..N /\ s[k] \in {-1, 1} /\ s[i] \in {-1, 1}
        BY <1>2
      <3> DEFINE v == Gram(g[i], g[k])
      <3>2. v \in Int /\ z[k] = Magnitude(v) /\ z[k] \in Nat /\ h[k] = v * s[k] /\ h[k] \in Int
        BY <1>2, <1>3, <3>1
      <3> HIDE DEF v, h, z
      <3>3. v * s[k] <= Magnitude(v) /\ -(v * s[k]) <= Magnitude(v)
        BY ONLY <3>1, <3>2, SignedProduct
      <3> QED
        BY ONLY <3>2, <3>3
    <2>2. IsFiniteSet(E)
      BY <1>2
    <2>3. T(s, i) = SumFunctionOnSet(h, E) /\ Beside(x, i) = SumFunctionOnSet(z, E)
      BY <1>3 DEF Beside
    <2> HIDE DEF E, h, z
    <2>4. T(s, i) <= Beside(x, i) /\ -T(s, i) <= Beside(x, i)
      BY ONLY <2>1, <2>2, <2>3, SumWithin
    <2>5. D(i) * s[i] + T(s, i) = 0 /\ T(s, i) \in Int /\ D(i) \in Int /\ Beside(x, i) \in Nat
      BY <1>2, <1>3, <1>4
    <2>6. s[i] \in {-1, 1}
      OBVIOUS
    <2>7. Beside(x, i) <= D(i)
      BY DEF D
    <2> QED
      BY ONLY <2>4, <2>5, <2>6, <2>7
  <1>5. ASSUME \A i \in 1..N : Beside(x, i) = D(i)
        PROVE  \E s \in [1..N -> {-1, 1}] : \A i \in 1..N : MatrixRow(x, s, i) = 0
    <2>1. PICK s \in Folders(x) : TRUE
      OBVIOUS
    <2>2. DOMAIN g = 1..N
      BY <1>1, TableFacts
    <2>3. /\ s \in [1..N -> {-1, 1}]
          /\ \A i \in 1..Len(x.c) : \A j \in Len(x.c) + 1..N : s[i] * s[j] * Gram(g[i], g[j]) <= 0
      BY <2>1, <2>2 DEF Folders
    <2>4. ASSUME NEW i \in 1..N PROVE MatrixRow(x, s, i) = 0
      <3> DEFINE E == Opposite(x, i)
                 h == f(s, i)
                 z == Extents(x, i)
      <3>1. IsFiniteSet(E) /\ s[i] \in {-1, 1}
        BY <1>2, <2>3
      <3>2. ASSUME NEW k \in E
            PROVE  h[k] \in Int /\ z[k] \in Int /\ h[k] = (IF s[i] = 1 THEN -z[k] ELSE z[k])
                   /\ h[k] <= z[k] /\ -h[k] <= z[k]
        <4> DEFINE v == Gram(g[i], g[k])
                   a == s[i]
                   b == s[k]
        <4>1. k \in 1..N /\ (i <= Len(x.c) <=> ~(k <= Len(x.c)))
          BY <1>2
        <4>2. v \in Int /\ z[k] = Magnitude(v) /\ z[k] \in Nat /\ h[k] = v * b /\ h[k] \in Int
          BY <1>2, <1>3, <2>3, <4>1
        <4>3. a \in {-1, 1} /\ b \in {-1, 1}
          BY <2>3, <4>1
        <4>4. a * b * v <= 0
          <5>0. Len(x.c) \in Nat /\ N \in Nat
            BY <1>1, TableFacts
          <5>1. CASE i <= Len(x.c)
            <6>1. i \in 1..Len(x.c) /\ k \in Len(x.c) + 1..N
              BY <4>1, <5>0, <5>1
            <6> QED
              BY <2>3, <6>1
          <5>2. CASE ~(i <= Len(x.c))
            <6>1. k \in 1..Len(x.c) /\ i \in Len(x.c) + 1..N
              BY <4>1, <5>0, <5>2
            <6>2. s[k] * s[i] * Gram(g[k], g[i]) <= 0
              BY <2>3, <6>1
            <6>3. Gram(g[k], g[i]) = v
              BY <1>1, <4>1, TableFacts
            <6>4. b * a * v <= 0
              BY <6>2, <6>3
            <6> HIDE DEF a, b, v
            <6> QED
              BY ONLY <4>2, <4>3, <6>4
          <5> QED
            BY <5>1, <5>2
        <4> HIDE DEF v, b, h, z, a
        <4>5. v * b = IF a = 1 THEN -Magnitude(v) ELSE Magnitude(v)
          BY ONLY <4>2, <4>3, <4>4, SignedProduct
        <4>6. v * b <= Magnitude(v) /\ -(v * b) <= Magnitude(v)
          BY ONLY <4>2, <4>3, SignedProduct
        <4>7. h[k] \in Int /\ z[k] \in Int /\ h[k] = (IF a = 1 THEN -z[k] ELSE z[k])
              /\ h[k] <= z[k] /\ -h[k] <= z[k]
          BY ONLY <4>2, <4>5, <4>6
        <4> QED
          BY ONLY <4>7 DEF a
      <3>3. T(s, i) = SumFunctionOnSet(h, E) /\ Beside(x, i) = SumFunctionOnSet(z, E)
        BY <1>3, <2>3 DEF Beside
      <3>4. /\ MatrixRow(x, s, i) = D(i) * s[i] + T(s, i) /\ T(s, i) \in Int
            /\ D(i) \in Int /\ Beside(x, i) = D(i)
        BY <1>2, <1>3, <1>5, <2>3
      <3> HIDE DEF E, h, z
      <3>5. CASE s[i] = 1
        <4>1. \A k \in E : z[k] = -h[k]
          BY ONLY <3>2, <3>5
        <4>2. \A k \in E : h[k] \in Int /\ z[k] \in Int /\ h[k] <= z[k] /\ -h[k] <= z[k]
          BY ONLY <3>2
        <4>3. SumFunctionOnSet(z, E) = -SumFunctionOnSet(h, E)
          BY ONLY <3>1, <4>1, <4>2, SumWithin
        <4>4. Beside(x, i) = -T(s, i)
          BY ONLY <3>3, <4>3
        <4>5. MatrixRow(x, s, i) = D(i) + T(s, i)
          BY ONLY <3>4, <3>5
        <4> QED
          BY ONLY <3>4, <4>4, <4>5
      <3>6. CASE s[i] = -1
        <4>1. (\A k \in E : h[k] \in Int) /\ \A k \in E : h[k] = z[k]
          BY ONLY <3>2, <3>6
        <4>2. SumFunctionOnSet(h, E) = SumFunctionOnSet(z, E)
          BY ONLY <3>1, <4>1, SumSame
        <4>4. T(s, i) = Beside(x, i)
          BY ONLY <3>3, <4>2
        <4>5. MatrixRow(x, s, i) = T(s, i) - D(i)
          BY ONLY <3>4, <3>6
        <4> QED
          BY ONLY <3>4, <4>4, <4>5
      <3> QED
        BY ONLY <3>1, <3>5, <3>6
    <2> QED
      BY <2>3, <2>4
  <1> QED
    BY <1>4, <1>5 DEF D

-----------------------------------------------------------------------------
(* Nothing said of the design changes while design and input stay.         *)
LEMMA Kept ==
  ASSUME input' = input, design' = design
  PROVE  /\ (DesignIs <=> DesignIs') /\ Dofs' = Dofs /\ Pairs' = Pairs /\ Channels' = Channels
         /\ (HasSlopes <=> HasSlopes')
         /\ \A p : IsPlain(p)' <=> IsPlain(p)
         /\ \A d, e : Gram(d, e)' = Gram(d, e)
         /\ \A p : LiveDofs(p)' = LiveDofs(p) /\ Coupled(p)' = Coupled(p)
         /\ \A p, x : SoundLocal(p, x)' <=> SoundLocal(p, x)
         /\ \A p, x, y : Converted(p, x, y)' <=> Converted(p, x, y)
         /\ \A x : Exceeds(x)' <=> Exceeds(x)
         /\ \A x, y : Settled(x, y)' <=> Settled(x, y)
         /\ \A p : Undominated(p)' <=> Undominated(p)
         /\ input.onFailure' = input.onFailure
  <1>1. (DesignIs <=> DesignIs') /\ Dofs' = Dofs
    BY DEF DesignIs, Dofs
  <1>2. Channels' = Channels /\ Pairs' = Pairs
    BY DEF Channels, Pairs
  <1>3. \A ch : ColumnOf(ch)' = ColumnOf(ch)
    BY DEF ColumnOf
  <1>4. HasSlopes <=> HasSlopes'
    BY <1>2, <1>3 DEF HasSlopes
  <1>5. \A p : IsPlain(p)' <=> IsPlain(p)
    BY <1>3 DEF IsPlain
  <1>6. \A d, e : Gram(d, e)' = Gram(d, e)
    BY ONLY input' = input, design' = design
    DEF Gram, GramAt, CallerRows, CallerWeight, CallerEntry
  <1>7. \A ch : ChannelDofs(ch)' = ChannelDofs(ch)
    BY DEF ChannelDofs
  <1>8. \A p : LiveDofs(p)' = LiveDofs(p) /\ Coupled(p)' = Coupled(p)
    BY ONLY <1>6, <1>7 DEF LiveDofs, Coupled
  <1>9. \A x, j : Across(x, j)' = Across(x, j)
    BY ONLY <1>6 DEF Across
  <1>10. \A x : Tabulates(x)' <=> Tabulates(x)
    BY ONLY <1>1, <1>6, <1>9 DEF Tabulates
  <1>11. \A p, x : SoundLocal(p, x)' <=> SoundLocal(p, x)
    BY ONLY <1>7, <1>10 DEF SoundLocal
  <1>12. \A x : Folders(x)' = Folders(x)
    BY ONLY <1>6 DEF Folders
  <1>13. \A p, x, y : Converted(p, x, y)' <=> Converted(p, x, y)
    BY ONLY <1>12 DEF Converted
  <1>14. \A x, i : Beside(x, i)' = Beside(x, i)
    <2>1. \A x, i : Extents(x, i)' = Extents(x, i)
      BY ONLY <1>6 DEF Extents
    <2>2. \A x, i : Opposite(x, i)' = Opposite(x, i)
      BY DEF Opposite
    <2> QED
      BY ONLY <2>1, <2>2 DEF Beside
  <1>15. \A x : Exceeds(x)' <=> Exceeds(x)
    BY ONLY <1>6, <1>14 DEF Exceeds
  <1>16. \A x, y : Settled(x, y)' <=> Settled(x, y)
    BY ONLY <1>6, <1>14, <1>15, input' = input DEF Settled
  <1>17. \A p : Undominated(p)' <=> Undominated(p)
    BY ONLY <1>6, <1>7, <1>8 DEF Undominated
  <1> QED
    BY <1>1, <1>2, <1>4, <1>5, <1>6, <1>8, <1>11, <1>13, <1>15, <1>16, <1>17

(* A component is right, and so is a pair's failure.                       *)
Sound(p, y) ==
  \E x : /\ SoundLocal(p, x) /\ Converted(p, x, y) /\ Settled(x, y)
         /\ Exceeds(x) => Undominated(p)

BuiltSound(p, b) ==
  /\ b = [pair |-> b.pair, components |-> b.components] /\ b.pair = p
  /\ Len(b.components) \in Nat /\ DOMAIN b.components = 1..Len(b.components)
  /\ \A i \in 1..Len(b.components) : Sound(Pairs[p], b.components[i])
  /\ AreComponents(Pairs[p], Len(b.components),
                   [i \in 1..Len(b.components) |-> ToSet(b.components[i].globals)])
BuiltError(p, b) ==
  /\ b = [error |-> "UnscalableComponent", pair |-> p]
  /\ input.onFailure = "Error" /\ ~IsPlain(Pairs[p]) /\ Undominated(Pairs[p])

LEMMA SplitIs ==
  ASSUME DesignIs, NEW p \in 1..Len(Pairs), NEW tab, tab = CrossTab(Pairs[p]),
         NEW nodes, nodes = Components(Neighbors(tab.c, tab.nCols)),
         NEW f \in Outcomes(IsPlain(Pairs[p]), LocalsOf(tab, LocalToGlobal(Pairs[p]), nodes))
  PROVE  BuiltSound(p, SplitInto(p, f)) \/ BuiltError(p, SplitInto(p, f))
  <1> DEFINE P == Pairs[p]
             L == LocalsOf(tab, LocalToGlobal(P), nodes)
             n == Len(L)
             b == SplitInto(p, f)
  <1>1. IsPair(P)
    BY PairsAre
  <1> HIDE DEF P
  <1>2. /\ n \in Nat /\ DOMAIN L = 1..n
        /\ \A k \in 1..n : SoundLocal(P, L[k])
        /\ AreComponents(P, n, [k \in 1..n |-> ToSet(L[k].globals)])
    BY <1>1, LocalsAre DEF P
  <1>3. f \in Outcomes(IsPlain(P), L)
    BY DEF P
  <1> HIDE DEF L, n
  <1>4. f = [k \in 1..n |-> f[k]] /\ \A k \in 1..n : f[k] \in Convert(IsPlain(P), L[k])
    BY <1>2, <1>3 DEF Outcomes
  <1>9. \A k \in 1..n : Whole(P, L[k])
    BY <1>1, <1>2, WholeIs
  <1>5. CASE \E i \in DOMAIN f : IsRejected(f[i])
    <2>1. PICK i \in 1..n : IsRejected(f[i])
      BY <1>4, <1>5
    <2>2. ~IsPlain(P) /\ input.onFailure = "Error" /\ Undominated(P)
      BY <1>1, <1>2, <1>4, <1>9, <2>1, RejectedIs
    <2> QED
      BY <1>5, <2>2 DEF BuiltError, SplitInto, P
  <1>6. CASE \A i \in DOMAIN f : ~IsRejected(f[i])
    <2>1. b = [pair |-> p, components |-> f]
      BY <1>6 DEF SplitInto
    <2> HIDE DEF b
    <2>2. b.pair = p /\ b.components = f /\ b = [pair |-> b.pair, components |-> b.components]
      BY ONLY <2>1
    <2>3. DOMAIN f = 1..n /\ Len(f) = n
      BY <1>2, <1>4, LenOfFunction
    <2>4. \A k \in 1..n : Converted(P, L[k], f[k])
      BY <1>1, <1>2, <1>4, <1>6, <2>3, ConvertIs
    <2>5. \A k \in 1..n : Sound(P, f[k])
      <3>1. \A k \in 1..n : Settled(L[k], f[k])
        BY <1>1, <1>2, <1>4, <1>6, <2>3, SettledIs
      <3>2. \A k \in 1..n : Exceeds(L[k]) => Undominated(P)
        BY <1>1, <1>2, <1>9, ExceedsIs
      <3> QED
        BY <1>2, <2>4, <3>1, <3>2 DEF Sound
    <2>6. \A k \in 1..n : f[k].globals = L[k].globals
      BY <2>4 DEF Converted, ConvertedFrom
    <2>7. AreComponents(P, n, [k \in 1..n |-> ToSet(f[k].globals)])
      <3>1. [k \in 1..n |-> ToSet(f[k].globals)] = [k \in 1..n |-> ToSet(L[k].globals)]
        BY <2>6
      <3> QED
        BY <1>2, <3>1
    <2>8. BuiltSound(p, b)
      BY <1>2, <2>2, <2>3, <2>5, <2>7 DEF BuiltSound, P
    <2> QED
      BY <2>8 DEF b
  <1> QED
    BY <1>5, <1>6

-----------------------------------------------------------------------------
(* The subdomains of all pairs. *)

Coefficients(D, k) == ToSet(D[k].component.globals)
PartsOf(p, D) ==
  \E edges \in {Coupled(Pairs[p])}, mine \in {{k \in 1..Len(D) : D[k].pair = p}} :
    /\ UNION {Coefficients(D, k) : k \in mine} = LiveDofs(Pairs[p])
    /\ \A k \in mine : Connected(edges, Coefficients(D, k))
    /\ \A j, k \in mine : j # k => /\ Coefficients(D, j) \cap Coefficients(D, k) = {}
                                   /\ ~Crosses(edges, Coefficients(D, j), Coefficients(D, k))
DomainsAre(D) ==
  /\ Len(D) \in Nat /\ DOMAIN D = 1..Len(D)
  /\ \A k \in 1..Len(D) : /\ D[k] = [pair |-> D[k].pair, component |-> D[k].component,
                                     weights |-> D[k].weights]
                          /\ D[k].pair \in 1..Len(Pairs)
                          /\ Sound(Pairs[D[k].pair], D[k].component)
  /\ \A p \in 1..Len(Pairs) : PartsOf(p, D)

LEMMA CollectIs ==
  ASSUME DesignIs, NEW B, DOMAIN B = 1..Len(Pairs), \A p \in 1..Len(Pairs) : BuiltSound(p, B[p]),
         NEW D, D = FlattenSeq([k \in DOMAIN B |-> SubdomainsOf(B[k])])
  PROVE  DomainsAre(D) /\ \A k \in 1..Len(D) : D[k].weights = None
  <1> DEFINE n == Len(Pairs)
             w(p) == Len(B[p].components)
             C(p, i) == B[p].components[i]
             rec(p, i) == [pair |-> p, component |-> C(p, i), weights |-> None]
             s == [k \in DOMAIN B |-> SubdomainsOf(B[k])]
             U == {rec(p, i) : p \in 1..n, i \in UNION {1..w(p) : p \in 1..n}}
  <1>1. n \in Nat
    BY PairsAre
  <1>2. ASSUME NEW p \in 1..n
        PROVE  /\ w(p) \in Nat /\ B[p].pair = p /\ DOMAIN B[p].components = 1..w(p)
               /\ \A i \in 1..w(p) : Sound(Pairs[p], C(p, i))
               /\ AreComponents(Pairs[p], w(p), [i \in 1..w(p) |-> ToSet(C(p, i).globals)])
    BY DEF BuiltSound
  <1>3. /\ s = [p \in 1..n |-> s[p]]
        /\ \A p \in 1..n : s[p] = [i \in 1..w(p) |-> rec(p, i)]
    BY <1>2 DEF SubdomainsOf
  <1>4. \A p, i : rec(p, i).pair = p /\ rec(p, i).component = C(p, i) /\ rec(p, i).weights = None
                  /\ rec(p, i) = [pair |-> rec(p, i).pair, component |-> rec(p, i).component,
                                  weights |-> rec(p, i).weights]
    OBVIOUS
  <1>5. \A p \in 1..n : \A i \in 1..w(p) : rec(p, i) \in U
    OBVIOUS
  <1>6. D = FlattenSeq(s)
    OBVIOUS
  <1> HIDE DEF n, w, C, rec, s, U
  <1>7. \A p \in 1..n : s[p] \in Seq(U) /\ Len(s[p]) = w(p)
    <2> SUFFICES ASSUME NEW p \in 1..n PROVE s[p] \in Seq(U) /\ Len(s[p]) = w(p)
      OBVIOUS
    <2> DEFINE l == w(p)
               r == s[p]
    <2>1. l \in Nat
      BY ONLY <1>2, p \in 1..n
    <2>3. r = [i \in 1..l |-> rec(p, i)]
      BY ONLY <1>3, p \in 1..n
    <2>4. \A i \in 1..l : rec(p, i) \in U
      BY ONLY <1>5, p \in 1..n
    <2> HIDE DEF l, r
    <2>5. r \in [1..l -> U]
      BY ONLY <2>3, <2>4
    <2>2. r \in Seq(U) /\ Len(r) = l
      BY ONLY <2>1, <2>5
    <2> QED
      BY <2>2 DEF l, r
  <1>8. PICK part, pos : Locates(part, pos, D, s, n)
    BY <1>1, <1>3, <1>6, <1>7, FlattenLocates
  <1>9. D \in Seq(U)
    BY <1>1, <1>3, <1>6, <1>7, FlattenLocates
  <1> DEFINE m == Len(D)
  <1>10. m \in Nat /\ DOMAIN D = 1..m
    BY <1>9
  <1> HIDE DEF m
  <1>11. ASSUME NEW k \in 1..m
         PROVE  part[k] \in 1..n /\ pos[k] \in 1..w(part[k]) /\ D[k] = rec(part[k], pos[k])
    <2>1. part[k] \in 1..n /\ pos[k] \in 1..w(part[k]) /\ D[k] = s[part[k]][pos[k]]
      BY <1>7, <1>8 DEF Locates, m
    <2> QED
      BY <1>3, <2>1
  <1>12. /\ \A j, k \in 1..m : part[j] = part[k] /\ pos[j] = pos[k] => j = k
         /\ \A p \in 1..n : \A i \in 1..w(p) : \E k \in 1..m : part[k] = p /\ pos[k] = i
    <2>1. \A j, k \in 1..m : part[j] = part[k] /\ pos[j] = pos[k] => j = k
      BY <1>8 DEF Locates, m
    <2>2. ASSUME NEW p \in 1..n, NEW i \in 1..w(p)
          PROVE  \E k \in 1..m : part[k] = p /\ pos[k] = i
      <3>1. i \in 1..Len(s[p])
        BY <1>7
      <3>2. \A r \in 1..n : \A h \in 1..Len(s[r]) : \E k \in 1..m : part[k] = r /\ pos[k] = h
        BY <1>8 DEF Locates, m
      <3> QED
        BY ONLY <3>1, <3>2
    <2> QED
      BY <2>1, <2>2
  <1>13. \A k \in 1..m : /\ D[k].pair = part[k] /\ D[k].component = C(part[k], pos[k])
                         /\ D[k].weights = None
                         /\ D[k] = [pair |-> D[k].pair, component |-> D[k].component,
                                     weights |-> D[k].weights]
    BY <1>4, <1>11
  <1>14. \A k \in 1..m : D[k].pair \in 1..n /\ Sound(Pairs[D[k].pair], D[k].component)
    BY <1>2, <1>11, <1>13
  <1>15. ASSUME NEW p \in 1..n PROVE PartsOf(p, D)
    <2> DEFINE edges == Coupled(Pairs[p])
               mine == {k \in 1..m : D[k].pair = p}
               E == [i \in 1..w(p) |-> ToSet(C(p, i).globals)]
               T(k) == Coefficients(D, k)
    <2>1. /\ UNION {E[i] : i \in 1..w(p)} = LiveDofs(Pairs[p])
          /\ \A i \in 1..w(p) : Connected(edges, E[i])
          /\ \A i, j \in 1..w(p) : i # j => E[i] \cap E[j] = {} /\ ~Crosses(edges, E[i], E[j])
      BY <1>2 DEF AreComponents
    <2>2. \A k \in mine : pos[k] \in 1..w(p) /\ T(k) = E[pos[k]] /\ part[k] = p /\ k \in 1..m
      BY <1>11, <1>13 DEF Coefficients
    <2>3. ASSUME NEW i \in 1..w(p) PROVE \E k \in mine : pos[k] = i
      <3>1. PICK k \in 1..m : part[k] = p /\ pos[k] = i
        BY <1>12
      <3>2. k \in mine
        BY <1>13, <3>1
      <3> QED
        BY <3>1, <3>2
    <2> HIDE DEF mine, E, T, edges
    <2>4. \A j, k \in mine : j # k => pos[j] # pos[k]
      BY <1>12, <2>2
    <2>5. UNION {T(k) : k \in mine} = LiveDofs(Pairs[p])
      <3>1. UNION {T(k) : k \in mine} = UNION {E[i] : i \in 1..w(p)}
        BY <2>2, <2>3
      <3> QED
        BY <2>1, <3>1
    <2>6. \A k \in mine : Connected(edges, T(k))
      BY <2>1, <2>2
    <2>7. \A j, k \in mine : j # k => T(j) \cap T(k) = {} /\ ~Crosses(edges, T(j), T(k))
      BY <2>1, <2>2, <2>4
    <2> QED
      BY <2>5, <2>6, <2>7 DEF PartsOf, T, mine, edges, m
  <1> QED
    BY <1>10, <1>13, <1>14, <1>15 DEF DomainsAre, m, n

(* All that matters of a subdomain is its pair and its component.          *)
LEMMA DomainsSame ==
  ASSUME NEW D, DomainsAre(D), NEW F, Len(F) = Len(D), DOMAIN F = 1..Len(D),
         \A k \in 1..Len(D) : F[k].pair = D[k].pair /\ F[k].component = D[k].component
                              /\ F[k] = [pair |-> F[k].pair, component |-> F[k].component,
                                         weights |-> F[k].weights]
  PROVE  DomainsAre(F)
  <1>1. ASSUME NEW p \in 1..Len(Pairs) PROVE PartsOf(p, F)
    <2>1. \A k \in 1..Len(D) : Coefficients(F, k) = Coefficients(D, k)
      BY DEF Coefficients
    <2>2. {k \in 1..Len(D) : F[k].pair = p} = {k \in 1..Len(D) : D[k].pair = p}
      OBVIOUS
    <2>3. PartsOf(p, D)
      BY DEF DomainsAre
    <2> DEFINE mine == {k \in 1..Len(D) : D[k].pair = p}
               T(k) == Coefficients(D, k)
               S(k) == Coefficients(F, k)
               edges == Coupled(Pairs[p])
    <2>4. /\ UNION {T(k) : k \in mine} = LiveDofs(Pairs[p])
          /\ \A k \in mine : Connected(edges, T(k)) /\ S(k) = T(k)
          /\ \A j, k \in mine : j # k => T(j) \cap T(k) = {} /\ ~Crosses(edges, T(j), T(k))
      <3>1. \A k \in mine : S(k) = T(k)
        BY <2>1
      <3>2. /\ UNION {T(k) : k \in mine} = LiveDofs(Pairs[p])
            /\ \A k \in mine : Connected(edges, T(k))
            /\ \A j, k \in mine : j # k => T(j) \cap T(k) = {} /\ ~Crosses(edges, T(j), T(k))
        BY ONLY <2>3 DEF PartsOf
      <3> HIDE DEF mine, T, S, edges
      <3> QED
        BY ONLY <3>1, <3>2
    <2> HIDE DEF mine, T, S, edges
    <2>5. /\ UNION {S(k) : k \in mine} = LiveDofs(Pairs[p])
          /\ \A k \in mine : Connected(edges, S(k))
          /\ \A j, k \in mine : j # k => S(j) \cap S(k) = {} /\ ~Crosses(edges, S(j), S(k))
      <3>1. {S(k) : k \in mine} = {T(k) : k \in mine}
        BY <2>4
      <3> QED
        BY <2>4, <3>1
    <2> QED
      BY <2>2, <2>5 DEF PartsOf, mine, S, edges
  <1> QED
    BY <1>1 DEF DomainsAre

LEMMA WeightsSet ==
  ASSUME NEW D, DomainsAre(D), NEW k \in DOMAIN D, NEW w
  PROVE  DomainsAre([D EXCEPT ![k].weights = w])
  <1> DEFINE F == [D EXCEPT ![k].weights = w]
             n == Len(D)
  <1>1. /\ n \in Nat /\ DOMAIN D = 1..n /\ k \in 1..n
        /\ \A i \in 1..n : D[i] = [pair |-> D[i].pair, component |-> D[i].component,
                                    weights |-> D[i].weights]
    BY DEF DomainsAre
  <1>2. F = [i \in 1..n |-> F[i]] /\ \A i \in 1..n : F[i] = IF i = k THEN [D[k] EXCEPT !.weights = w]
                                                         ELSE D[i]
    BY <1>1
  <1>3. Len(F) = n
    BY <1>1, <1>2, LenOfFunction
  <1> HIDE DEF F
  <1> DEFINE z == [D[k] EXCEPT !.weights = w]
             y == D[k]
  <1>4. z = [pair |-> y.pair, component |-> y.component, weights |-> w]
    <2>1. y = [pair |-> y.pair, component |-> y.component, weights |-> y.weights]
          /\ z = [y EXCEPT !.weights = w]
      BY <1>1
    <2> HIDE DEF y, z
    <2> QED
      BY ONLY <2>1
  <1>5. z.pair = y.pair /\ z.component = y.component
        /\ z = [pair |-> z.pair, component |-> z.component, weights |-> z.weights]
    <2> HIDE DEF y, z
    <2> QED
      BY ONLY <1>4
  <1>6. ASSUME NEW i \in 1..n
        PROVE  /\ F[i].pair = D[i].pair /\ F[i].component = D[i].component
               /\ F[i] = [pair |-> F[i].pair, component |-> F[i].component,
                          weights |-> F[i].weights]
    <2>1. CASE i = k
      <3>1. F[i] = z /\ D[i] = y
        BY <1>2, <2>1
      <3> HIDE DEF z, y
      <3> QED
        BY <1>5, <3>1
    <2>2. CASE i # k
      BY <1>1, <1>2, <2>2
    <2> QED
      BY <2>1, <2>2
  <1>7. DOMAIN F = 1..n
    BY <1>2
  <1>8. DomainsAre(F)
    BY <1>3, <1>6, <1>7, DomainsSame
  <1> QED
    BY <1>8 DEF F

LEMMA BuiltKept ==
  ASSUME input' = input, design' = design
  PROVE  /\ \A p, b : BuiltSound(p, b)' <=> BuiltSound(p, b)
         /\ \A p, b : BuiltError(p, b)' <=> BuiltError(p, b)
         /\ \A D : DomainsAre(D)' <=> DomainsAre(D)
  <1>1. /\ Pairs' = Pairs
        /\ \A p : LiveDofs(p)' = LiveDofs(p) /\ Coupled(p)' = Coupled(p)
        /\ \A p, x : SoundLocal(p, x)' <=> SoundLocal(p, x)
        /\ \A p, x, y : Converted(p, x, y)' <=> Converted(p, x, y)
        /\ \A x, y : Settled(x, y)' <=> Settled(x, y)
        /\ \A x : Exceeds(x)' <=> Exceeds(x)
        /\ \A p : (Undominated(p)' <=> Undominated(p)) /\ (IsPlain(p)' <=> IsPlain(p))
        /\ input.onFailure' = input.onFailure
    BY Kept
  <1>2. \A p, y : Sound(p, y)' <=> Sound(p, y)
    BY ONLY <1>1 DEF Sound
  <1>3. \A p, n, D : AreComponents(p, n, D)' <=> AreComponents(p, n, D)
    BY ONLY <1>1 DEF AreComponents
  <1>4. \A p, b : BuiltSound(p, b)' <=> BuiltSound(p, b)
    BY ONLY <1>1, <1>2, <1>3 DEF BuiltSound
  <1>5. \A p, D : PartsOf(p, D)' <=> PartsOf(p, D)
    BY ONLY <1>1 DEF PartsOf
  <1>6. \A D : DomainsAre(D)' <=> DomainsAre(D)
    BY ONLY <1>1, <1>2, <1>5 DEF DomainsAre
  <1>7. \A p, b : BuiltError(p, b)' <=> BuiltError(p, b)
    BY ONLY <1>1 DEF BuiltError
  <1> QED
    BY <1>4, <1>6, <1>7

BuiltInv ==
  /\ DesignIs
  /\ pc \in {"start", "pairs", "weights", "done"}
  /\ pc \in {"pairs", "weights"} => input.config = "Additive" /\ result = None
  /\ pc = "start" => result = None
  /\ pc = "pairs" => /\ DOMAIN built = 1..Len(Pairs)
                     /\ \A p \in 1..Len(Pairs) : \/ built[p] = None
                                                 \/ BuiltSound(p, built[p])
                                                 \/ BuiltError(p, built[p])
  /\ pc = "weights" \/ AdditiveBuilt => DomainsAre(domains)
  /\ result # None /\ "error" \in DOMAIN result =>
       \E p \in 1..Len(Pairs) : BuiltError(p, result)

LEMMA BuiltStart == Init => BuiltInv
  <1> SUFFICES ASSUME Init PROVE BuiltInv
    OBVIOUS
  <1>1. DesignIs
    BY DiagonalStart DEF DiagonalInv
  <1> QED
    BY <1>1 DEF Init, BuiltInv, AdditiveBuilt

LEMMA ErrorIs ==
  ASSUME DesignIs, NEW p \in 1..Len(Pairs), NEW b, BuiltError(p, b)
  PROVE  IsRejected(b) /\ b # None
  <1>1. b = [error |-> "UnscalableComponent", pair |-> p]
    BY DEF BuiltError
  <1>2. p \in Nat
    BY PairsAre
  <1> QED
    BY <1>1, <1>2, FactorPairsAssumption DEF IsRejected

LEMMA SoundNotError == ASSUME NEW p, NEW b, BuiltSound(p, b) PROVE ~IsRejected(b)
  BY DEF BuiltSound, IsRejected

LEMMA BuiltStep == BuiltInv /\ [Next]_vars => BuiltInv'
  <1> SUFFICES ASSUME BuiltInv, [Next]_vars PROVE BuiltInv'
    OBVIOUS
  <1>1. UNCHANGED <<input, design>>
    BY DEF Next, Start, CollectError, Collect, Weighted, BuildPair, Count, SetWeights, vars
  <1>2. /\ DesignIs /\ DesignIs' /\ Pairs' = Pairs
        /\ \A p, b : BuiltSound(p, b)' <=> BuiltSound(p, b)
        /\ \A p, b : BuiltError(p, b)' <=> BuiltError(p, b)
        /\ \A D : DomainsAre(D)' <=> DomainsAre(D)
    BY <1>1, Kept, BuiltKept DEF BuiltInv
  <1>3. /\ Len(Pairs) \in Nat /\ DOMAIN Pairs = 1..Len(Pairs)
    BY <1>2, PairsAre
  <1>4. CASE Start
    <2>1. input.config \in {"Off", "Diagonal", "Additive"}
      BY <1>2, FactorPairsAssumption DEF DesignIs
    <2>2. pc = "start" /\ result = None
      BY <1>4 DEF Start, BuiltInv
    <2>3. CASE input.config = "Off"
      BY <1>1, <1>2, <1>4, <2>2, <2>3 DEF Start, BuiltInv, AdditiveBuilt
    <2>4. CASE input.config = "Diagonal"
      <3>1. pc' = "done" /\ result' = [diagonal |-> [d \in 0..design.nDofs - 1 |-> DiagonalAt(d)]]
        BY <1>4, <2>4 DEF Start
      <3>2. ~("error" \in DOMAIN result')
        BY <3>1
      <3> QED
        BY <1>1, <1>2, <2>4, <3>1, <3>2 DEF BuiltInv, AdditiveBuilt
    <2>5. CASE input.config = "Additive"
      <3>1. built' = [k \in DOMAIN Pairs |-> None] /\ pc' = "pairs" /\ result' = None
        BY <1>4, <2>2, <2>5 DEF Start
      <3> QED
        BY <1>1, <1>2, <1>3, <2>5, <3>1 DEF BuiltInv, AdditiveBuilt
    <2> QED
      BY <2>1, <2>3, <2>4, <2>5
  <1>5. CASE \E k \in DOMAIN built : BuildPair(k)
    <2>1. PICK k \in DOMAIN built : BuildPair(k)
      BY <1>5
    <2>2. pc = "pairs" /\ UNCHANGED <<pc, domains, result>> /\ DOMAIN built = 1..Len(Pairs)
      BY <2>1 DEF BuildPair, BuiltInv
    <2>3. PICK f, tab, nodes :
             /\ tab = CrossTab(Pairs[k]) /\ nodes = Components(Neighbors(tab.c, tab.nCols))
             /\ f \in Outcomes(IsPlain(Pairs[k]), LocalsOf(tab, LocalToGlobal(Pairs[k]), nodes))
             /\ built' = [built EXCEPT ![k] = SplitInto(k, f)]
      BY <2>1 DEF BuildPair
    <2>4. BuiltSound(k, SplitInto(k, f)) \/ BuiltError(k, SplitInto(k, f))
      BY <1>2, <2>2, <2>3, SplitIs
    <2> DEFINE b == SplitInto(k, f)
    <2> HIDE DEF b
    <2>5. built' = [built EXCEPT ![k] = b] /\ (BuiltSound(k, b) \/ BuiltError(k, b))
      BY <2>3, <2>4 DEF b
    <2>6. \A p \in 1..Len(Pairs) : built[p] = None \/ BuiltSound(p, built[p]) \/ BuiltError(p, built[p])
      BY <2>2 DEF BuiltInv
    <2>7. /\ DOMAIN built' = 1..Len(Pairs)
          /\ \A p \in 1..Len(Pairs) :
               built'[p] = None \/ BuiltSound(p, built'[p]) \/ BuiltError(p, built'[p])
      BY <2>2, <2>5, <2>6
    <2>8. input.config = "Additive" /\ result = None
      BY <2>2 DEF BuiltInv
    <2> QED
      BY <1>1, <1>2, <2>2, <2>7, <2>8 DEF BuiltInv, AdditiveBuilt
  <1>6. CASE CollectError
    <2>1. PICK k \in DOMAIN built : built[k] # None /\ IsRejected(built[k]) /\ result' = built[k]
      BY <1>6 DEF CollectError
    <2>2. pc = "pairs" /\ pc' = "done"
      BY <1>6 DEF CollectError
    <2>3. k \in 1..Len(Pairs) /\ BuiltError(k, result')
      BY <2>1, <2>2, SoundNotError DEF BuiltInv
    <2>4. result' # None
      BY <2>1
    <2> QED
      BY <1>1, <1>2, <2>2, <2>3, <2>4 DEF BuiltInv, AdditiveBuilt
  <1>7. CASE Collect
    <2>1. /\ pc = "pairs" /\ pc' \in {"done", "weights"} /\ result' = result
          /\ \A k \in DOMAIN built : built[k] # None /\ ~IsRejected(built[k])
          /\ domains' = FlattenSeq([k \in DOMAIN built |-> SubdomainsOf(built[k])])
      BY <1>7 DEF Collect
    <2>2. DOMAIN built = 1..Len(Pairs) /\ \A p \in 1..Len(Pairs) : BuiltSound(p, built[p])
      BY <1>2, <2>1, ErrorIs DEF BuiltInv
    <2>3. DomainsAre(domains')
      BY <1>2, <2>1, <2>2, CollectIs
    <2>4. input.config = "Additive" /\ result = None
      BY <2>1 DEF BuiltInv
    <2> QED
      BY <1>1, <1>2, <2>1, <2>3, <2>4 DEF BuiltInv, AdditiveBuilt
  <1>8. CASE \E k \in DOMAIN domains : Count(k)
    <2>1. pc = "weights" /\ UNCHANGED <<pc, domains, result>>
      BY <1>8 DEF Count
    <2> QED
      BY <1>1, <1>2, <2>1 DEF BuiltInv, AdditiveBuilt
  <1>9. CASE \E k \in DOMAIN domains : SetWeights(k)
    <2>1. PICK k \in DOMAIN domains : SetWeights(k)
      BY <1>9
    <2>2. pc = "weights" /\ UNCHANGED <<pc, result>>
      BY <2>1 DEF SetWeights
    <2>3. DomainsAre(domains) /\ input.config = "Additive" /\ result = None
      BY <2>2 DEF BuiltInv
    <2> DEFINE w == Gathered(counts, domains[k].component.globals)
    <2>4. domains' = [domains EXCEPT ![k].weights = w]
      BY <2>1 DEF SetWeights
    <2> HIDE DEF w
    <2>5. DomainsAre(domains')
      BY <2>1, <2>3, <2>4, WeightsSet
    <2> QED
      BY <1>1, <1>2, <2>2, <2>3, <2>5 DEF BuiltInv, AdditiveBuilt
  <1>10. CASE Weighted
    <2>1. pc = "weights" /\ pc' = "done" /\ UNCHANGED <<domains, result>>
      BY <1>10 DEF Weighted
    <2> QED
      BY <1>1, <1>2, <2>1 DEF BuiltInv, AdditiveBuilt
  <1>11. CASE UNCHANGED vars
    <2>1. UNCHANGED <<pc, built, domains, result>>
      BY <1>11 DEF vars
    <2> QED
      BY <1>1, <1>2, <2>1 DEF BuiltInv, AdditiveBuilt
  <1> QED
    BY <1>4, <1>5, <1>6, <1>7, <1>8, <1>9, <1>10, <1>11 DEF Next

LEMMA BuiltAlways == Spec => []BuiltInv
  BY BuiltStart, BuiltStep, PTL DEF Spec

-----------------------------------------------------------------------------
(* What is built is right. *)

LEMMA SoundFacts ==
  ASSUME DesignIs, NEW p, NEW y, Sound(p, y)
  PROVE  /\ Len(y.c) \in Nat /\ Len(y.globals) \in Nat /\ Len(y.c) <= Len(y.globals)
         /\ DOMAIN y.globals = 1..Len(y.globals) /\ Len(y.globals) <= 2 * Len(y.c)
         /\ \A i \in 1..Len(y.globals) : y.globals[i] \in Dofs
         /\ \A i, k \in 1..Len(y.globals) : y.globals[i] = y.globals[k] => i = k
  <1>1. PICK x : SoundLocal(p, x) /\ Converted(p, x, y)
    BY DEF Sound
  <1>2. Tabulates(x) /\ Columns(x) <= Len(x.c)
    BY <1>1 DEF SoundLocal
  <1>3. y.globals = x.globals /\ Len(y.c) = Len(x.c)
    BY <1>1 DEF Converted, ConvertedFrom
  <1>4. /\ Len(x.c) \in Nat /\ Len(x.globals) \in Nat /\ DOMAIN x.globals = 1..Len(x.globals)
        /\ Len(x.globals) = Len(x.c) + Columns(x) /\ Columns(x) \in Nat
        /\ \A i \in 1..Len(x.globals) : x.globals[i] \in Dofs
        /\ \A i, k \in 1..Len(x.globals) : x.globals[i] = x.globals[k] => i = k
    BY <1>2, TableFacts DEF Tabulates
  <1>5. Len(x.globals) <= 2 * Len(x.c) /\ Len(x.c) <= Len(x.globals)
    <2> DEFINE n == Len(x.c)
               N == Len(x.globals)
               l == Columns(x)
    <2>1. n \in Nat /\ l \in Nat /\ N = n + l /\ l <= n
      BY <1>2, <1>4
    <2> HIDE DEF n, N, l
    <2>2. N <= 2 * n /\ n <= N
      BY ONLY <2>1
    <2> QED
      BY <2>2 DEF n, N
  <1> QED
    BY ONLY <1>3, <1>4, <1>5

LEMMA DistinctCardinality ==
  ASSUME NEW n \in Nat, NEW s, DOMAIN s = 1..n, Len(s) = n, Distinct(s)
  PROVE  Cardinality(ToSet(s)) = n /\ IsFiniteSet(ToSet(s))
  <1> DEFINE S == ToSet(s)
             f == [i \in 1..n |-> s[i]]
  <1>1. IsFiniteSet(1..n) /\ Cardinality(1..n) = n
    BY FS_Interval
  <1>2. f \in Bijection(1..n, S)
    <2>1. S = {f[i] : i \in 1..n}
      BY DEF ToSet
    <2>2. \A i, k \in 1..n : f[i] = f[k] => i = k
      BY DEF Distinct
    <2> HIDE DEF S
    <2> QED
      BY <2>1, <2>2 DEF Bijection, Injection, Surjection, IsInjective
  <1> HIDE DEF f, S
  <1>3. ExistsBijection(1..n, S)
    BY <1>2 DEF ExistsBijection
  <1>4. IsFiniteSet(S) /\ Cardinality(S) = Cardinality(1..n)
    BY <1>1, <1>3, FS_Bijection
  <1> QED
    BY <1>1, <1>4 DEF S

(* A subdomain for each connected component of a pair, for every design.   *)
THEOREM SubdomainsCorrect == Spec => []SubdomainsAreComponents
  <1>1. BuiltInv => SubdomainsAreComponents
    <2> SUFFICES ASSUME BuiltInv, AdditiveBuilt, NEW p \in DOMAIN Pairs
                 PROVE  \E edges \in {Coupled(Pairs[p])},
                           mine \in {{k \in DOMAIN domains : domains[k].pair = p}} :
                      /\ UNION {Globals(k) : k \in mine} = LiveDofs(Pairs[p])
                      /\ \A k \in mine : /\ Connected(edges, Globals(k))
                                         /\ Cardinality(Globals(k)) = Len(domains[k].component.globals)
                      /\ \A j, k \in mine : j # k => /\ Globals(j) \cap Globals(k) = {}
                                                     /\ ~Crosses(edges, Globals(j), Globals(k))
      BY DEF SubdomainsAreComponents
    <2>1. DesignIs /\ DomainsAre(domains) /\ p \in 1..Len(Pairs)
      BY PairsAre DEF BuiltInv
    <2>2. /\ PartsOf(p, domains) /\ DOMAIN domains = 1..Len(domains)
          /\ \A k \in 1..Len(domains) : Sound(Pairs[domains[k].pair], domains[k].component)
      BY <2>1 DEF DomainsAre
    <2>3. \A k : Globals(k) = Coefficients(domains, k)
      BY DEF Globals, Coefficients
    <2>4. ASSUME NEW k \in DOMAIN domains
          PROVE  Cardinality(Globals(k)) = Len(domains[k].component.globals)
      <3> DEFINE y == domains[k].component
      <3>1. Sound(Pairs[domains[k].pair], y)
        BY <2>2
      <3> HIDE DEF y
      <3>2. /\ Len(y.globals) \in Nat /\ DOMAIN y.globals = 1..Len(y.globals)
            /\ Distinct(y.globals)
        BY <2>1, <3>1, SoundFacts DEF Distinct
      <3>3. Cardinality(ToSet(y.globals)) = Len(y.globals)
        BY <3>2, DistinctCardinality
      <3> QED
        BY <3>3 DEF Globals, y
    <2> QED
      BY <2>2, <2>3, <2>4 DEF PartsOf
  <1> QED
    BY <1>1, BuiltAlways, PTL

(* The entry of a column is all there is of it in a row.                   *)
LEMMA EntryUndone ==
  ASSUME DesignIs, NEW x, Tabulates(x), NEW y, ConvertedFrom(y, x),
         NEW i \in 1..Len(x.c), NEW j \in 1..Columns(x)
  PROVE  Gram(x.globals[i], x.globals[Len(x.c) + j]) =
           SumFunction([e \in {e \in DOMAIN y.c[i] : y.c[i][e].at = j}
                          |-> -y.factors[i] * y.factors[Len(x.c) + j] * y.c[i][e].value])
  <1> DEFINE n == Len(x.c)
             N == Len(x.globals)
             l == Len(x.c[i])
             at == {e \in DOMAIN y.c[i] : y.c[i][e].at = j}
             f == [e \in at |-> -y.factors[i] * y.factors[n + j] * y.c[i][e].value]
             g == Gram(x.globals[i], x.globals[n + j])
  <1>1. n \in Nat /\ N = n + Columns(x) /\ Columns(x) \in Nat
    BY TableFacts
  <1>2. /\ l \in Nat /\ DOMAIN x.c[i] = 1..l
        /\ \A e \in 1..l : x.c[i][e].at \in 1..Columns(x)
        /\ \A e \in 1..l : x.c[i][e].at = j => x.c[i][e].value = g
        /\ \A e \in 1..l : x.c[i][e].value \in Int
        /\ \A e, k \in 1..l : e < k => x.c[i][e].at < x.c[i][k].at
        /\ g # 0 => \E e \in 1..l : x.c[i][e].at = j
    <2> DEFINE v == Across(x, i)
               row == x.c[i]
    <2>1. RowIs(row, 1..Columns(x), v)
      BY DEF Tabulates
    <2>2. v[j] = g
      BY DEF Across
    <2>3. \A e \in 1..l : x.c[i][e].value \in Int
      BY EntryFacts
    <2> HIDE DEF v, g
    <2>4. row = x.c[i] /\ l = Len(row)
      OBVIOUS
    <2> HIDE DEF row, l
    <2>5. /\ l \in Nat /\ DOMAIN row = 1..l
          /\ \A e \in 1..l : row[e].at \in 1..Columns(x)
          /\ \A e \in 1..l : row[e].at = j => row[e].value = g
          /\ \A e, k \in 1..l : e < k => row[e].at < row[k].at
          /\ g # 0 => \E e \in 1..l : row[e].at = j
      BY <2>1, <2>2, <2>4 DEF RowIs
    <2> QED
      BY <2>3, <2>4, <2>5
  <1>3. /\ DOMAIN y.c[i] = 1..l
        /\ \A e \in 1..l : /\ y.c[i][e].at = x.c[i][e].at
                           /\ y.c[i][e].value =
                                -y.factors[i] * y.factors[n + x.c[i][e].at] * x.c[i][e].value
    BY DEF ConvertedFrom
  <1>4. y.factors[i] \in {-1, 1} /\ y.factors[n + j] \in {-1, 1}
    <2>1. i \in 1..N /\ n + j \in 1..N
      <3> DEFINE w == Columns(x)
      <3>1. n \in Nat /\ w \in Nat /\ N = n + w /\ i \in 1..n /\ j \in 1..w
        BY <1>1
      <3> HIDE DEF n, N, w
      <3> QED
        BY ONLY <3>1
    <2>2. y.factors \in [1..N -> {-1, 1}]
      BY DEF ConvertedFrom
    <2> HIDE DEF n, N
    <2> QED
      BY <2>1, <2>2
  <1> HIDE DEF l, N
  <1>5. at = {e \in 1..l : x.c[i][e].at = j} /\ DOMAIN f = at
    BY <1>3
  <1>6. ASSUME NEW e \in at PROVE f[e] = g /\ g \in Int
    <2> DEFINE a == y.factors[i]
               b == y.factors[n + j]
               v == x.c[i][e].value
    <2>1. e \in 1..l /\ x.c[i][e].at = j
      BY <1>5
    <2>2. v = g /\ v \in Int /\ y.c[i][e].value = -a * b * v
      BY <1>2, <1>3, <2>1
    <2>3. f[e] = -a * b * y.c[i][e].value
      OBVIOUS
    <2>4. a \in {-1, 1} /\ b \in {-1, 1}
      BY <1>4
    <2> HIDE DEF a, b, v, f, g, at
    <2>5. -a * b * v = IF a = b THEN -v ELSE v
      BY ONLY <2>2, <2>4, SignCases
    <2> DEFINE u == -a * b * v
    <2>6. u \in Int /\ u = IF a = b THEN -v ELSE v
      BY ONLY <2>2, <2>5
    <2> HIDE DEF u
    <2>7. -a * b * u = IF a = b THEN -u ELSE u
      BY ONLY <2>4, <2>6, SignCases
    <2>8. -a * b * u = v
      BY ONLY <2>2, <2>6, <2>7
    <2> QED
      BY <2>2, <2>3, <2>8 DEF u
  <1>7. ASSUME NEW e \in at, NEW k \in at PROVE e = k
    <2>1. e \in 1..l /\ k \in 1..l /\ x.c[i][e].at = j /\ x.c[i][k].at = j /\ j \in Int
      BY <1>5
    <2>2. ~(e < k) /\ ~(k < e)
      BY <1>2, <2>1
    <2> QED
      BY <1>2, <2>1, <2>2
  <1>8. \A k : SumFunction(f) = SumFunctionOnSet(f, at)
    BY <1>5 DEF SumFunction
  <1>9. CASE at = {}
    <2>1. g = 0
      BY <1>2, <1>5, <1>9
    <2> HIDE DEF f, at, g
    <2>2. SumFunctionOnSet(f, {}) = 0
      BY SumEmpty
    <2> QED
      BY <1>8, <1>9, <2>1, <2>2 DEF f, at, g, n
  <1>10. CASE at # {}
    <2>1. PICK e \in at : TRUE
      BY <1>10
    <2>2. at = {e}
      BY <1>7, <2>1
    <2> HIDE DEF f, at, g
    <2>3. f[e] = g /\ g \in Int
      BY <1>6, <2>1
    <2>4. SumFunctionOnSet(f, {e}) = f[e]
      BY <2>3, SumSingle
    <2> QED
      BY <1>8, <2>2, <2>3, <2>4 DEF f, at, g, n
  <1> QED
    BY <1>9, <1>10

(* Every local matrix is the caller's Gram matrix, for every design.       *)
THEOREM LocalMatricesCorrect == Spec => []LocalMatricesAreGram
  <1>1. BuiltInv => LocalMatricesAreGram
    <2> SUFFICES ASSUME BuiltInv, AdditiveBuilt, NEW k \in DOMAIN domains,
                        NEW m \in {domains[k].component}, NEW n \in {Len(m.c)}
                 PROVE
      /\ \A i \in DOMAIN m.globals : m.diagonal[i] = Gram(m.globals[i], m.globals[i])
      /\ \A i \in 1..n : \A j \in 1..Len(m.globals) - n :
           Gram(m.globals[i], m.globals[n + j]) =
             SumFunction([e \in {e \in DOMAIN m.c[i] : m.c[i][e].at = j}
                            |-> -m.factors[i] * m.factors[n + j] * m.c[i][e].value])
      /\ \A i \in 1..n : \A e, f \in DOMAIN m.c[i] : e < f => m.c[i][e].at < m.c[i][f].at
      /\ Len(m.globals) <= 2 * n
      BY DEF LocalMatricesAreGram
    <2>1. DesignIs /\ DomainsAre(domains)
      BY DEF BuiltInv
    <2> DEFINE p == Pairs[domains[k].pair]
    <2>a. Sound(p, m)
      BY <2>1 DEF DomainsAre
    <2> HIDE DEF p
    <2>2. PICK x : SoundLocal(p, x) /\ Converted(p, x, m)
      BY <2>a DEF Sound
    <2>3. /\ Tabulates(x) /\ ConvertedFrom(m, x) /\ Sound(p, m)
      BY <2>2, <2>a DEF SoundLocal, Converted
    <2>4. /\ m.globals = x.globals /\ m.diagonal = x.diagonal /\ Len(x.c) = n
      BY <2>3 DEF ConvertedFrom
    <2>5. \A i \in DOMAIN m.globals : m.diagonal[i] = Gram(m.globals[i], m.globals[i])
      BY <2>1, <2>3, <2>4, TableFacts DEF Tabulates
    <2>6. Len(m.globals) <= 2 * n
      BY <2>1, <2>3, SoundFacts
    <2>7. \A i \in 1..n : \A j \in 1..Len(m.globals) - n :
           Gram(m.globals[i], m.globals[n + j]) =
             SumFunction([e \in {e \in DOMAIN m.c[i] : m.c[i][e].at = j}
                            |-> -m.factors[i] * m.factors[n + j] * m.c[i][e].value])
      <3>1. Columns(x) = Len(m.globals) - n
        BY <2>4 DEF Columns
      <3>2. \A i \in 1..Len(x.c) : \A j \in 1..Columns(x) :
             Gram(x.globals[i], x.globals[Len(x.c) + j]) =
               SumFunction([e \in {e \in DOMAIN m.c[i] : m.c[i][e].at = j}
                              |-> -m.factors[i] * m.factors[Len(x.c) + j] * m.c[i][e].value])
        <4> TAKE i \in 1..Len(x.c)
        <4> TAKE j \in 1..Columns(x)
        <4> QED
          BY ONLY <2>1, <2>3, i \in 1..Len(x.c), j \in 1..Columns(x), EntryUndone
      <3>3. Len(x.c) = n /\ x.globals = m.globals /\ Columns(x) = Len(m.globals) - n
        BY <2>4, <3>1
      <3> HIDE <3>1
      <3> QED
        BY ONLY <3>2, <3>3
    <2>8. \A i \in 1..n : \A e, f \in DOMAIN m.c[i] : e < f => m.c[i][e].at < m.c[i][f].at
      <3>1. ASSUME NEW i \in 1..n
            PROVE  \A e, f \in DOMAIN m.c[i] : e < f => m.c[i][e].at < m.c[i][f].at
        <4>1. i \in 1..Len(x.c)
          BY <2>4
        <4>2. \A e, f \in 1..Len(x.c[i]) : e < f => x.c[i][e].at < x.c[i][f].at
          BY <2>1, <2>3, <4>1, EntryFacts
        <4>3. DOMAIN m.c[i] = 1..Len(x.c[i])
              /\ \A e \in 1..Len(x.c[i]) : m.c[i][e].at = x.c[i][e].at
          BY <2>3, <4>1 DEF ConvertedFrom
        <4> QED
          BY <4>2, <4>3
      <3> QED
        BY <3>1
    <2> QED
      BY <2>5, <2>6, <2>7, <2>8
  <1> QED
    BY <1>1, BuiltAlways, PTL

(* A component is folded if any choice of signs folds it, for every        *)
(* design.                                                                 *)
THEOREM FoldsCorrect == Spec => []FoldsUnlessFrustrated
  <1>1. BuiltInv => FoldsUnlessFrustrated
    <2> SUFFICES ASSUME BuiltInv, AdditiveBuilt, NEW k \in DOMAIN domains,
                        NEW m, m = domains[k].component
                 PROVE
      /\ m.form = "Laplacian" <=>
           \E s \in [DOMAIN m.globals -> {-1, 1}] :
             \A i \in 1..Len(m.c) : \A j \in Len(m.c) + 1..Len(m.globals) :
               s[i] * s[j] * Gram(m.globals[i], m.globals[j]) <= 0
      /\ m.form = "Laplacian" => IsZ(m.c)
      BY DEF FoldsUnlessFrustrated
    <2>1. PICK x, p : SoundLocal(p, x) /\ Converted(p, x, m)
      BY DEF BuiltInv, DomainsAre, Sound
    <2>2. m.globals = x.globals /\ Len(m.c) = Len(x.c)
      BY <2>1 DEF Converted, ConvertedFrom
    <2>3. Folders(x) = {s \in [DOMAIN m.globals -> {-1, 1}] :
             \A i \in 1..Len(m.c) : \A j \in Len(m.c) + 1..Len(m.globals) :
               s[i] * s[j] * Gram(m.globals[i], m.globals[j]) <= 0}
      BY <2>2 DEF Folders
    <2>4. m.form = "Laplacian" <=> Folders(x) # {}
      BY <2>1 DEF Converted
    <2>5. m.form = "Laplacian" => IsZ(m.c)
      BY <2>1 DEF Converted
    <2> QED
      BY <2>3, <2>4, <2>5
  <1> QED
    BY <1>1, BuiltAlways, PTL

(* A component that needed no scaling is anchored exactly if it is         *)
(* singular, for every design and weights.                                 *)
THEOREM FloatsCorrect == Spec => []FloatsIffSingular
  <1>1. BuiltInv => FloatsIffSingular
    <2> SUFFICES ASSUME BuiltInv, AdditiveBuilt, NEW k \in DOMAIN domains,
                        NEW m, m = domains[k].component, m.form = "Laplacian", ~m.scaled
                 PROVE  m.grounding = "Floating" <=>
                          \E s \in [DOMAIN m.globals -> {-1, 1}] :
                            \A i \in DOMAIN m.globals : MatrixRow(m, s, i) = 0
      BY DEF FloatsIffSingular
    <2> DEFINE p == Pairs[domains[k].pair]
    <2>1. DesignIs /\ DomainsAre(domains)
      BY DEF BuiltInv
    <2>2. Sound(p, m) /\ IsPair(p)
      BY <2>1, PairsAre DEF DomainsAre
    <2> HIDE DEF p
    <2>3. PICK x : SoundLocal(p, x) /\ Converted(p, x, m) /\ Settled(x, m)
      BY <2>2 DEF Sound
    <2> DEFINE N == Len(x.globals)
    <2>4. m.globals = x.globals /\ DOMAIN x.globals = 1..N
      BY <2>1, <2>3, TableFacts DEF Converted, ConvertedFrom, SoundLocal
    <2>5. Folders(x) # {}
      BY <2>3 DEF Converted
    <2>6. /\ \A i \in 1..N : Beside(x, i) <= Gram(x.globals[i], x.globals[i])
          /\ m.grounding = "Floating" <=>
               \A i \in 1..N : Beside(x, i) = Gram(x.globals[i], x.globals[i])
      BY <2>3 DEF Settled
    <2>7. m.grounding = "Floating" <=>
            \E s \in [1..N -> {-1, 1}] : \A i \in 1..N : MatrixRow(x, s, i) = 0
      BY <2>1, <2>2, <2>3, <2>5, <2>6, SingularIs
    <2>8. \A s, i : MatrixRow(x, s, i) = MatrixRow(m, s, i)
      BY <2>4 DEF MatrixRow
    <2> QED
      BY <2>4, <2>7, <2>8
  <1> QED
    BY <1>1, BuiltAlways, PTL

(* Construction fails or warns only where a pair with slopes is not        *)
(* dominant, and fails only if told to, for every design and weights.      *)
THEOREM FailsCorrect == Spec => []FailsOnlyUnscaled
  <1>1. BuiltInv => FailsOnlyUnscaled
    <2> SUFFICES ASSUME BuiltInv PROVE FailsOnlyUnscaled
      OBVIOUS
    <2>1. DesignIs
      BY DEF BuiltInv
    <2>2. ASSUME result # None, "error" \in DOMAIN result
          PROVE  /\ input.onFailure = "Error" /\ ~IsPlain(Pairs[result.pair])
                 /\ Undominated(Pairs[result.pair])
      <3>1. PICK p \in 1..Len(Pairs) : BuiltError(p, result)
        BY <2>2 DEF BuiltInv
      <3>2. result.pair = p
        BY <3>1 DEF BuiltError
      <3> QED
        BY <3>1, <3>2 DEF BuiltError
    <2>3. ASSUME AdditiveBuilt, NEW k \in DOMAIN domains, domains[k].component.warned
          PROVE  input.onFailure = "Warn" /\ Undominated(Pairs[domains[k].pair])
      <3> DEFINE y == domains[k].component
                 p == Pairs[domains[k].pair]
      <3>1. DomainsAre(domains)
        BY <2>3 DEF BuiltInv
      <3>2. Sound(p, y)
        BY <3>1 DEF DomainsAre
      <3>3. y.warned
        BY <2>3
      <3> HIDE DEF p, y
      <3>4. PICK x : Settled(x, y) /\ (Exceeds(x) => Undominated(p))
        BY <3>2 DEF Sound
      <3>5. input.onFailure = "Warn" /\ Undominated(p)
        BY <3>3, <3>4 DEF Settled
      <3> QED
        BY <3>5 DEF p
    <2> QED
      BY <2>2, <2>3 DEF FailsOnlyUnscaled
  <1> QED
    BY <1>1, BuiltAlways, PTL

-----------------------------------------------------------------------------
(* The partition weights. *)

LEMMA TailIs ==
  ASSUME NEW T, NEW s \in Seq(T), s # <<>>, Distinct(s)
  PROVE  /\ Head(s) \in T /\ Head(s) \in ToSet(s) /\ Tail(s) \in Seq(T) /\ Distinct(Tail(s))
         /\ ToSet(Tail(s)) = ToSet(s) \ {Head(s)}
  <1> DEFINE n == Len(s)
             m == n - 1
             t == Tail(s)
  <1>1. /\ n \in Nat \ {0} /\ DOMAIN s = 1..n /\ Head(s) = s[1] /\ \A i \in 1..n : s[i] \in T
    OBVIOUS
  <1>2. /\ t \in Seq(T) /\ Len(t) = m /\ DOMAIN t = 1..m /\ \A i \in 1..m : t[i] = s[i + 1]
    BY <1>1
  <1> HIDE DEF n, t
  <1>3. /\ 1 \in 1..n /\ \A i \in 1..m : i + 1 \in 1..n /\ i + 1 # 1
        /\ \A i \in 1..n : i = 1 \/ (i - 1 \in 1..m /\ (i - 1) + 1 = i)
        /\ \A i, k \in 1..m : i + 1 = k + 1 => i = k
    BY ONLY <1>1
  <1>4. \A i, k \in 1..n : s[i] = s[k] => i = k
    BY DEF Distinct, n
  <1>5. ToSet(s) = {s[i] : i \in 1..n} /\ ToSet(t) = {t[i] : i \in 1..m}
    BY <1>1, <1>2 DEF ToSet
  <1> HIDE DEF m
  <1>6. Distinct(t)
    BY <1>2, <1>3, <1>4 DEF Distinct
  <1>7. ASSUME NEW x \in ToSet(t) PROVE x \in ToSet(s) \ {Head(s)}
    <2>1. PICK i \in 1..m : x = s[i + 1]
      BY <1>2, <1>5
    <2>2. i + 1 \in 1..n /\ i + 1 # 1
      BY <1>3
    <2> QED
      BY <1>1, <1>3, <1>4, <1>5, <2>1, <2>2
  <1>8. ASSUME NEW x \in ToSet(s) \ {Head(s)} PROVE x \in ToSet(t)
    <2>1. PICK i \in 1..n : x = s[i]
      BY <1>5
    <2>2. i - 1 \in 1..m /\ (i - 1) + 1 = i
      BY <1>1, <1>3, <2>1
    <2> QED
      BY <1>2, <1>5, <2>1, <2>2
  <1> QED
    BY <1>1, <1>2, <1>3, <1>5, <1>6, <1>7, <1>8 DEF t

(* The subdomains that have counted themselves at d.                       *)
CountedBy(D, U, d) == {k \in 1..Len(D) : d \in Coefficients(D, k) \ ToSet(U[k])}

WeightsOf(D, U, c) ==
  /\ DOMAIN U = 1..Len(D)
  /\ \A k \in 1..Len(D) : U[k] \in Seq(Dofs) /\ Distinct(U[k]) /\ ToSet(U[k]) \in SUBSET Coefficients(D, k)
  /\ DOMAIN c = Dofs
  /\ \A d \in Dofs : c[d] = Cardinality(CountedBy(D, U, d))
  /\ \A k \in 1..Len(D) : D[k].weights # None => /\ \A j \in 1..Len(D) : U[j] = <<>>
                                                 /\ D[k].weights = Gathered(c, D[k].component.globals)

WeightInv ==
  pc = "weights" \/ (AdditiveBuilt /\ ~HasSlopes) =>
    /\ WeightsOf(domains, uncounted, counts)
    /\ pc = "done" => \A k \in 1..Len(domains) : domains[k].weights # None

LEMMA NothingCounted ==
  ASSUME DesignIs, NEW D, DomainsAre(D), \A k \in 1..Len(D) : D[k].weights = None
  PROVE  WeightsOf(D, [k \in DOMAIN D |-> D[k].component.globals], [d \in 0..design.nDofs - 1 |-> 0])
  <1> DEFINE U == [k \in DOMAIN D |-> D[k].component.globals]
             n == Len(D)
  <1>1. n \in Nat /\ DOMAIN D = 1..n /\ \A k \in 1..n : Sound(Pairs[D[k].pair], D[k].component)
    BY DEF DomainsAre
  <1>2. ASSUME NEW k \in 1..n
        PROVE  U[k] \in Seq(Dofs) /\ Distinct(U[k]) /\ ToSet(U[k]) = Coefficients(D, k)
    <2> DEFINE g == D[k].component.globals
               l == Len(g)
    <2>1. /\ l \in Nat /\ DOMAIN g = 1..l /\ \A i \in 1..l : g[i] \in Dofs
          /\ \A i, j \in 1..l : g[i] = g[j] => i = j
      BY <1>1, SoundFacts
    <2>2. g \in Seq(Dofs)
      BY <1>1 DEF Sound, SoundLocal, Tabulates, Converted, ConvertedFrom
    <2>3. U[k] = g /\ Coefficients(D, k) = ToSet(g)
      BY <1>1 DEF Coefficients
    <2> HIDE DEF g
    <2>5. Distinct(g)
      BY <2>1 DEF Distinct
    <2> QED
      BY <2>2, <2>3, <2>5
  <1>3. ASSUME NEW d \in Dofs PROVE Cardinality(CountedBy(D, U, d)) = 0
    <2>1. CountedBy(D, U, d) = {}
      BY <1>2 DEF CountedBy
    <2> QED
      BY <2>1, FS_EmptySet
  <1>4. DOMAIN U = 1..n
    BY <1>1
  <1> QED
    BY <1>2, <1>3, <1>4 DEF WeightsOf, Dofs

LEMMA CountIs ==
  ASSUME DesignIs, NEW D, DomainsAre(D), NEW U, NEW c, WeightsOf(D, U, c), NEW k \in 1..Len(D),
         U[k] # <<>>
  PROVE  WeightsOf(D, [U EXCEPT ![k] = Tail(@)], [c EXCEPT ![Head(U[k])] = @ + 1])
  <1> DEFINE n == Len(D)
             V == [U EXCEPT ![k] = Tail(@)]
             e == [c EXCEPT ![Head(U[k])] = @ + 1]
             x == Head(U[k])
             t == Tail(U[k])
  <1>1. /\ DOMAIN U = 1..n /\ DOMAIN c = Dofs /\ n \in Nat
        /\ \A j \in 1..n : U[j] \in Seq(Dofs) /\ Distinct(U[j]) /\ ToSet(U[j]) \in SUBSET Coefficients(D, j)
        /\ \A d \in Dofs : c[d] = Cardinality(CountedBy(D, U, d))
        /\ \A j \in 1..n : D[j].weights = None
    BY DEF WeightsOf, DomainsAre
  <1>2. /\ x \in Dofs /\ x \in ToSet(U[k]) /\ t \in Seq(Dofs) /\ Distinct(t)
        /\ ToSet(t) = ToSet(U[k]) \ {x}
    BY <1>1, TailIs
  <1>3. DOMAIN V = 1..n /\ V[k] = t /\ \A j \in 1..n : j # k => V[j] = U[j]
    BY <1>1
  <1>4. DOMAIN e = Dofs /\ e[x] = c[x] + 1 /\ \A d \in Dofs : d # x => e[d] = c[d]
    BY <1>1, <1>2
  <1> HIDE DEF V, e, x, t
  <1>5. \A j \in 1..n : V[j] \in Seq(Dofs) /\ Distinct(V[j]) /\ ToSet(V[j]) \in SUBSET Coefficients(D, j)
    BY <1>1, <1>2, <1>3
  <1>6. ASSUME NEW d \in Dofs PROVE e[d] = Cardinality(CountedBy(D, V, d))
    <2> DEFINE A == CountedBy(D, U, d)
               B == CountedBy(D, V, d)
    <2>1. CASE d = x
      <3>1. B = A \cup {k} /\ k \notin A
        BY <1>1, <1>2, <1>3, <2>1 DEF CountedBy
      <3>2. IsFiniteSet(1..n) /\ A \in SUBSET (1..n)
        BY <1>1, FS_Interval DEF CountedBy
      <3>3. IsFiniteSet(A)
        BY <3>2, FS_Subset
      <3> HIDE DEF A, B
      <3>4. Cardinality(B) = Cardinality(A) + 1
        BY <3>1, <3>3, FS_AddElement
      <3> QED
        BY <1>1, <1>4, <2>1, <3>4 DEF A, B
    <2>2. CASE d # x
      <3>1. \A j \in 1..n : d \in ToSet(V[j]) <=> d \in ToSet(U[j])
        BY <1>2, <1>3, <2>2
      <3>2. A = B
        BY <3>1 DEF CountedBy
      <3> QED
        BY <1>1, <1>4, <2>2, <3>2
    <2> QED
      BY <2>1, <2>2
  <1>7. WeightsOf(D, V, e)
    BY <1>1, <1>3, <1>4, <1>5, <1>6 DEF WeightsOf
  <1> QED
    BY <1>7 DEF V, e
LEMMA SetIs ==
  ASSUME NEW D, DomainsAre(D), NEW U, NEW c, WeightsOf(D, U, c), NEW k \in 1..Len(D),
         \A j \in DOMAIN U : U[j] = <<>>
  PROVE  WeightsOf([D EXCEPT ![k].weights = Gathered(c, D[k].component.globals)], U, c)
  <1> DEFINE w == Gathered(c, D[k].component.globals)
             F == [D EXCEPT ![k].weights = w]
             n == Len(D)
             y == D[k]
             z == [D[k] EXCEPT !.weights = w]
  <1>1. /\ DOMAIN D = 1..n /\ n \in Nat
        /\ \A i \in 1..n : D[i] = [pair |-> D[i].pair, component |-> D[i].component,
                                   weights |-> D[i].weights]
    BY DEF DomainsAre
  <1>2. F = [i \in 1..n |-> F[i]] /\ \A i \in 1..n : F[i] = IF i = k THEN z ELSE D[i]
    BY <1>1
  <1>3. Len(F) = n /\ DOMAIN F = 1..n
    BY <1>1, <1>2, LenOfFunction
  <1>4. z.component = y.component /\ z.weights = w
    <2>1. y = [pair |-> y.pair, component |-> y.component, weights |-> y.weights]
          /\ z = [y EXCEPT !.weights = w]
      BY <1>1
    <2> HIDE DEF y, z, w
    <2> QED
      BY ONLY <2>1
  <1> HIDE DEF F
  <1>5. \A i \in 1..n : F[i].component = D[i].component
    BY <1>2, <1>4
  <1>6. ASSUME NEW i \in 1..n, F[i].weights # None
        PROVE  F[i].weights = Gathered(c, F[i].component.globals)
    <2>1. CASE i = k
      BY <1>2, <1>4, <1>5, <2>1
    <2>2. CASE i # k
      BY <1>2, <1>5, <1>6, <2>2 DEF WeightsOf
    <2> QED
      BY <2>1, <2>2
  <1>7. \A d : CountedBy(F, U, d) = CountedBy(D, U, d)
    BY <1>3, <1>5 DEF CountedBy, Coefficients
  <1>8. \A i \in 1..n : Coefficients(F, i) = Coefficients(D, i)
    BY <1>5 DEF Coefficients
  <1>9. \A j \in 1..n : U[j] = <<>>
    BY DEF WeightsOf
  <1>10. /\ DOMAIN U = 1..n /\ DOMAIN c = Dofs
         /\ \A j \in 1..n : U[j] \in Seq(Dofs) /\ Distinct(U[j]) /\ ToSet(U[j]) \in SUBSET Coefficients(D, j)
         /\ \A d \in Dofs : c[d] = Cardinality(CountedBy(D, U, d))
    BY DEF WeightsOf
  <1>11. WeightsOf(F, U, c)
    BY <1>3, <1>6, <1>7, <1>8, <1>9, <1>10 DEF WeightsOf
  <1> QED
    BY <1>11 DEF F

LEMMA WeightsKept ==
  ASSUME input' = input, design' = design
  PROVE  \A D, U, c : WeightsOf(D, U, c)' <=> WeightsOf(D, U, c)
  <1>1. Dofs' = Dofs
    BY Kept
  <1> QED
    BY <1>1 DEF WeightsOf, CountedBy, Coefficients

LEMMA CollectedIs ==
  ASSUME BuiltInv, Collect
  PROVE  DomainsAre(domains') /\ \A k \in 1..Len(domains') : domains'[k].weights = None
  <1>1. /\ DesignIs /\ pc = "pairs" /\ \A k \in DOMAIN built : built[k] # None /\ ~IsRejected(built[k])
        /\ domains' = FlattenSeq([k \in DOMAIN built |-> SubdomainsOf(built[k])])
    BY DEF Collect, BuiltInv
  <1>2. DOMAIN built = 1..Len(Pairs) /\ \A p \in 1..Len(Pairs) : BuiltSound(p, built[p])
    BY <1>1, ErrorIs DEF BuiltInv
  <1> QED
    BY <1>1, <1>2, CollectIs

LEMMA WeightStep == BuiltInv /\ WeightInv /\ [Next]_vars => WeightInv'
  <1> SUFFICES ASSUME BuiltInv, WeightInv, [Next]_vars,
                      pc' = "weights" \/ (AdditiveBuilt /\ ~HasSlopes)'
               PROVE  /\ WeightsOf(domains, uncounted, counts)'
                      /\ pc' = "done" => \A k \in 1..Len(domains') : domains'[k].weights # None
    BY DEF WeightInv
  <1>1. UNCHANGED <<input, design>>
    BY DEF Next, Start, CollectError, Collect, Weighted, BuildPair, Count, SetWeights, vars
  <1>2. /\ DesignIs /\ (HasSlopes' <=> HasSlopes)
        /\ \A D, U, c : WeightsOf(D, U, c)' <=> WeightsOf(D, U, c)
    BY <1>1, Kept, WeightsKept DEF BuiltInv
  <1>3. /\ pc' \in {"weights", "done"} /\ (pc' = "done" => ~HasSlopes /\ result' = None)
        /\ input.config = "Additive" \/ pc' = "weights"
    BY <1>1, <1>2 DEF AdditiveBuilt
  <1>4. SUFFICES /\ WeightsOf(domains', uncounted', counts')
                 /\ pc' = "done" => \A k \in 1..Len(domains') : domains'[k].weights # None
    BY <1>2
  <1>5. CASE Start
    <2>1. input.config \in {"Off", "Diagonal", "Additive"}
      BY <1>2, FactorPairsAssumption DEF DesignIs
    <2>2. CASE input.config = "Additive"
      <3>1. pc' = "pairs"
        BY <1>5, <2>2 DEF Start
      <3> QED
        BY <1>3, <3>1
    <2>3. CASE input.config # "Additive"
      <3>1. pc' = "done"
        BY <1>5, <2>1, <2>3 DEF Start
      <3> QED
        BY <1>3, <2>3, <3>1
    <2> QED
      BY <2>2, <2>3
  <1>6. CASE \E k \in DOMAIN built : BuildPair(k)
    BY <1>3, <1>6 DEF BuildPair
  <1>7. CASE CollectError
    <2>1. \E k \in DOMAIN built : built[k] # None /\ result' = built[k]
      BY <1>7 DEF CollectError
    <2>2. pc' = "done"
      BY <1>7 DEF CollectError
    <2> QED
      BY <1>3, <2>1, <2>2
  <1>8. CASE Collect
    <2>1. DomainsAre(domains') /\ \A k \in 1..Len(domains') : domains'[k].weights = None
      BY <1>8, CollectedIs
    <2>2. /\ counts' = [d \in 0..design.nDofs - 1 |-> 0]
          /\ uncounted' = [k \in DOMAIN domains' |-> domains'[k].component.globals]
          /\ pc' = IF HasSlopes THEN "done" ELSE "weights"
      BY <1>8 DEF Collect
    <2>3. pc' = "weights"
      BY <1>3, <2>2
    <2>4. WeightsOf(domains', uncounted', counts')
      BY <1>2, <2>1, <2>2, NothingCounted
    <2> QED
      BY <2>3, <2>4
  <1>9. CASE \E k \in DOMAIN domains : Count(k)
    <2>1. PICK k \in DOMAIN domains : Count(k)
      BY <1>9
    <2>2. pc = "weights" /\ pc' = "weights" /\ domains' = domains /\ uncounted[k] # <<>>
          /\ uncounted' = [uncounted EXCEPT ![k] = Tail(@)]
          /\ counts' = [counts EXCEPT ![Head(uncounted[k])] = @ + 1]
      BY <2>1 DEF Count
    <2>3. DomainsAre(domains) /\ WeightsOf(domains, uncounted, counts)
      BY <2>2 DEF BuiltInv, WeightInv
    <2>4. k \in 1..Len(domains)
      BY <2>1, <2>3 DEF DomainsAre
    <2>5. WeightsOf(domains', uncounted', counts')
      BY <1>2, <2>2, <2>3, <2>4, CountIs
    <2> QED
      BY <2>2, <2>5
  <1>10. CASE \E k \in DOMAIN domains : SetWeights(k)
    <2>1. PICK k \in DOMAIN domains : SetWeights(k)
      BY <1>10
    <2>2. /\ pc = "weights" /\ pc' = "weights" /\ UNCHANGED <<uncounted, counts>>
          /\ \A j \in DOMAIN uncounted : uncounted[j] = <<>>
          /\ domains' = [domains EXCEPT ![k].weights = Gathered(counts, domains[k].component.globals)]
      BY <2>1 DEF SetWeights, Counted
    <2>3. DomainsAre(domains) /\ WeightsOf(domains, uncounted, counts)
      BY <2>2 DEF BuiltInv, WeightInv
    <2>4. k \in 1..Len(domains)
      BY <2>1, <2>3 DEF DomainsAre
    <2>5. WeightsOf([domains EXCEPT ![k].weights = Gathered(counts, domains[k].component.globals)],
                    uncounted, counts)
      BY <2>2, <2>3, <2>4, SetIs
    <2> QED
      BY <2>2, <2>5
  <1>11. CASE Weighted
    <2>1. /\ pc = "weights" /\ UNCHANGED <<domains, uncounted, counts>>
          /\ \A k \in DOMAIN domains : domains[k].weights # None
      BY <1>11 DEF Weighted
    <2>2. DomainsAre(domains) /\ WeightsOf(domains, uncounted, counts)
      BY <2>1 DEF BuiltInv, WeightInv
    <2> QED
      BY <2>1, <2>2 DEF DomainsAre
  <1>12. CASE UNCHANGED vars
    <2>1. UNCHANGED <<pc, input, domains, uncounted, counts, result>>
      BY <1>12 DEF vars
    <2>2. pc = "weights" \/ (AdditiveBuilt /\ ~HasSlopes)
      BY <1>2, <1>3, <2>1 DEF AdditiveBuilt, BuiltInv
    <2> QED
      BY <2>1, <2>2 DEF WeightInv
  <1> QED
    BY <1>5, <1>6, <1>7, <1>8, <1>9, <1>10, <1>11, <1>12 DEF Next

LEMMA WeightStart == Init => WeightInv
  BY DEF Init, WeightInv, AdditiveBuilt

LEMMA WeightAlways == Spec => [](BuiltInv /\ WeightInv)
  BY BuiltStart, BuiltStep, WeightStart, WeightStep, PTL DEF Spec

LEMMA OwnersExist ==
  ASSUME DesignIs, DomainsAre(domains), NEW d \in Dofs
  PROVE  (\E k \in 1..Len(domains) : d \in Globals(k)) <=> Gram(d, d) # 0 /\ Len(design.terms) > 1
  <1>0. \A k : Globals(k) = Coefficients(domains, k)
    BY DEF Globals, Coefficients
  <1>1. /\ Len(design.terms) \in Nat /\ DOMAIN design.terms = 1..Len(design.terms)
        /\ \A q \in DOMAIN design.terms : Len(design.terms[q].columns) \in Nat \ {0}
             /\ DOMAIN design.terms[q].columns = 1..Len(design.terms[q].columns)
    BY ObservationFacts DEF Contiguous
  <1>2. \A k \in 1..Len(domains) : domains[k].pair \in 1..Len(Pairs)
    BY DEF DomainsAre
  <1>3. \A p \in 1..Len(Pairs) :
          UNION {Coefficients(domains, k) : k \in {k \in 1..Len(domains) : domains[k].pair = p}}
            = LiveDofs(Pairs[p])
    BY DEF DomainsAre, PartsOf
  <1>4. ASSUME NEW k \in 1..Len(domains), d \in Globals(k)
        PROVE  Gram(d, d) # 0 /\ Len(design.terms) > 1
    <2> DEFINE p == Pairs[domains[k].pair]
    <2>1. d \in LiveDofs(p)
      BY <1>0, <1>2, <1>3, <1>4
    <2>2. IsPair(p)
      BY <1>2, PairsAre
    <2> HIDE DEF p
    <2>3. /\ p.rows.term \in 1..Len(design.terms) /\ p.cols.term \in 1..Len(design.terms)
          /\ p.rows.term # p.cols.term
      BY <1>1, <2>2 DEF IsPair, IsChannel
    <2> QED
      BY <1>1, <2>1, <2>3 DEF LiveDofs
  <1>5. ASSUME Gram(d, d) # 0, Len(design.terms) > 1
        PROVE  \E k \in 1..Len(domains) : d \in Globals(k)
    <2> DEFINE a == Address(design.terms, d)
    <2>1. IsChannel(a) /\ a.level \in Levels(a) /\ DofAt(a, a.level) = d
      BY DofOfChannel
    <2> HIDE DEF a
    <2>2. PICK q \in 1..Len(design.terms) : q # a.term
      <3>1. 1 \in 1..Len(design.terms) /\ 2 \in 1..Len(design.terms)
        BY <1>1, <1>5
      <3> QED
        BY <3>1
    <2>3. PICK i \in 1..Len(Channels) : Channels[i].term = a.term /\ Channels[i].column = a.column
      BY <2>1, ChannelsAre DEF IsChannel
    <2>4. PICK j \in 1..Len(Channels) : Channels[j].term = q
      <3>1. q \in DOMAIN design.terms /\ 1 \in DOMAIN design.terms[q].columns
        BY <1>1
      <3> QED
        BY <3>1, ChannelsAre
    <2>5. i < j \/ j < i
      <3>1. i \in Nat /\ j \in Nat /\ i # j
        BY <2>2, <2>3, <2>4
      <3> QED
        BY ONLY <3>1
    <2>6. PICK p \in 1..Len(Pairs) : Pairs[p].rows = Channels[i] \/ Pairs[p].cols = Channels[i]
      <3>1. Channels[i].term # Channels[j].term
        BY <2>2, <2>3, <2>4
      <3> QED
        BY <2>5, <3>1, PairsAre
    <2>7. d \in ChannelDofs(Channels[i])
      BY <2>1, <2>3 DEF ChannelDofs, Levels, DofAt
    <2>8. d \in LiveDofs(Pairs[p])
      BY <1>5, <2>6, <2>7 DEF LiveDofs
    <2> QED
      BY <1>0, <1>3, <2>8
  <1> QED
    BY <1>4, <1>5

(* Without slopes the partition weights are a partition of unity: a        *)
(* coefficient is weighted by the number of subdomains that have it, for   *)
(* every design and every order of the counting tasks.                     *)
THEOREM WeightsCorrect == Spec => []PartitionOfUnity
  <1>1. BuiltInv /\ WeightInv => PartitionOfUnity
    <2> SUFFICES ASSUME BuiltInv, WeightInv, AdditiveBuilt, ~HasSlopes, NEW d \in Dofs,
                        NEW owners, owners = {k \in DOMAIN domains : d \in Globals(k)}
                 PROVE
      /\ \A k \in owners :
           domains[k].weights[Position(domains[k].component.globals, d)] = Cardinality(owners)
      /\ owners # {} <=> Gram(d, d) # 0 /\ Len(design.terms) > 1
      BY DEF PartitionOfUnity
    <2>1. /\ DesignIs /\ DomainsAre(domains) /\ WeightsOf(domains, uncounted, counts)
          /\ \A k \in 1..Len(domains) : domains[k].weights # None
      BY DEF BuiltInv, WeightInv, AdditiveBuilt
    <2>2. DOMAIN domains = 1..Len(domains)
      BY <2>1 DEF DomainsAre
    <2>3. ASSUME NEW k \in owners
          PROVE  domains[k].weights[Position(domains[k].component.globals, d)] = Cardinality(owners)
      <3> DEFINE g == domains[k].component.globals
      <3>1. k \in 1..Len(domains) /\ d \in ToSet(g)
        BY <2>2 DEF Globals
      <3>2. domains[k].weights = [i \in DOMAIN g |-> counts[g[i]]]
            /\ \A j \in 1..Len(domains) : uncounted[j] = <<>>
        BY <2>1, <3>1 DEF WeightsOf, Gathered
      <3>3. Position(g, d) \in DOMAIN g /\ g[Position(g, d)] = d
        <4>1. g \in Seq(Dofs)
          BY <2>1, <3>1 DEF DomainsAre, Sound, SoundLocal, Tabulates, Converted, ConvertedFrom
        <4> HIDE DEF g
        <4>2. \E i \in DOMAIN g : g[i] = d
          BY <3>1, <4>1 DEF ToSet
        <4> QED
          BY <4>2 DEF Position
      <3>4. owners = CountedBy(domains, uncounted, d)
        <4>1. \A j \in 1..Len(domains) : d \notin ToSet(uncounted[j])
          BY <3>2 DEF ToSet
        <4> QED
          BY <2>2, <4>1 DEF CountedBy, Coefficients, Globals
      <3>5. counts[d] = Cardinality(owners)
        BY <2>1, <3>4 DEF WeightsOf
      <3> HIDE DEF g
      <3> QED
        BY <3>2, <3>3, <3>5 DEF g
    <2>4. owners # {} <=> Gram(d, d) # 0 /\ Len(design.terms) > 1
      <3>1. owners # {} <=> \E k \in 1..Len(domains) : d \in Globals(k)
        BY <2>2
      <3> QED
        BY <2>1, <3>1, OwnersExist
    <2> QED
      BY <2>3, <2>4
  <1> QED
    BY <1>1, WeightAlways, PTL

=============================================================================

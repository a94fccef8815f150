------------------------------ MODULE LsmrProofs ------------------------------
(***************************************************************************)
(* The invariant of an LSMR solve (crates/schwarz-precond/src/lsmr.rs):    *)
(* its window ring holds the last basis vectors of the run, in order, and  *)
(* the policy hands a run off when, and as soon as, it has stalled.        *)
(*                                                                         *)
(* Both rest on the types of the numbers: that a gcd is a positive natural *)
(* and Square ends with one, that what the operators of ExactArith return  *)
(* are rationals in the form the comparisons expect, and vectors of the    *)
(* length of their arguments.                                              *)
(***************************************************************************)
EXTENDS Lsmr, Induction, SequenceTheorems

-----------------------------------------------------------------------------
(* Greatest common divisors. *)

LEMMA EuclidIs ==
  /\ Euclid \in [Nat \X Nat -> Nat]
  /\ \A a, b \in Nat : Gcd(a, b) = IF b = 0 THEN a ELSE Gcd(b, a % b)
  <1> DEFINE D == Nat \X Nat
             F == [p \in D \X [D -> Nat] |->
                     IF p[1][2] = 0 THEN p[1][1] ELSE p[2][<<p[1][2], p[1][1] % p[1][2]>>]]
             rank == [p \in D |-> p[2]]
             Solves(f) == f = [p \in D |-> IF p[2] = 0 THEN p[1] ELSE f[<<p[2], p[1] % p[2]>>]]
  <1>1. ASSUME NEW p \in D, p[2] # 0
        PROVE  <<p[2], p[1] % p[2]>> \in D /\ rank[<<p[2], p[1] % p[2]>>] < rank[p]
    <2>1. p[1] \in Nat /\ p[2] \in Nat \ {0}
      BY <1>1
    <2>2. p[1] % p[2] \in Nat /\ p[1] % p[2] < p[2]
      BY <2>1
    <2> QED
      BY <2>1, <2>2
  <1>2. F \in [D \X [D -> Nat] -> Nat]
    <2>1. ASSUME NEW p \in D, NEW f \in [D -> Nat] PROVE F[<<p, f>>] \in Nat
      BY <1>1
    <2> QED
      BY <2>1
  <1>3. ASSUME NEW p \in D, NEW f \in [D -> Nat], NEW g \in [D -> Nat],
               \A y \in D : rank[y] < rank[p] => f[y] = g[y]
        PROVE  F[<<p, f>>] = F[<<p, g>>]
    BY <1>1, <1>3
  <1>4. Nat # {} /\ rank \in [D -> Nat]
    OBVIOUS
  <1>5. PICK f \in [D -> Nat] : Recurs(f, F, D)
    <2>1. Descends(F, rank, D, Nat)
      BY <1>3 DEF Descends
    <2> HIDE DEF D, F, rank
    <2> QED
      BY <1>2, <1>4, <2>1, RecursionExists, Zenon
  <1>6. Solves(f)
    <2>1. ASSUME NEW p \in D
          PROVE  F[<<p, f>>] = IF p[2] = 0 THEN p[1] ELSE f[<<p[2], p[1] % p[2]>>]
      OBVIOUS
    <2> HIDE DEF F
    <2> QED
      BY <1>5, <2>1 DEF Recurs
  <1>7. Euclid = CHOOSE e : Solves(e)
    BY DEF Euclid
  <1>8. Solves(Euclid)
    <2> HIDE DEF Solves
    <2> QED
      BY <1>6, <1>7
  <1> DEFINE T == {n \in Nat : \A b \in Nat : b < n => \A a \in Nat : Euclid[<<a, b>>] \in Nat}
  <1>9. \A a, b \in Nat : Euclid[<<a, b>>] = IF b = 0 THEN a ELSE Euclid[<<b, a % b>>]
    <2> SUFFICES ASSUME NEW a \in Nat, NEW b \in Nat
                 PROVE  Euclid[<<a, b>>] = IF b = 0 THEN a ELSE Euclid[<<b, a % b>>]
      OBVIOUS
    <2>1. <<a, b>> \in D /\ <<a, b>>[1] = a /\ <<a, b>>[2] = b
      OBVIOUS
    <2> QED
      BY ONLY <1>8, <2>1
  <1>10. T = Nat
    <2>1. 0 \in T
      OBVIOUS
    <2>2. ASSUME NEW n \in T PROVE n + 1 \in T
      <3> SUFFICES ASSUME NEW b \in Nat, b < n + 1, NEW a \in Nat PROVE Euclid[<<a, b>>] \in Nat
        OBVIOUS
      <3>1. CASE b = 0
        BY <1>9, <3>1
      <3>2. CASE b # 0
        <4>1. a % b \in Nat /\ a % b < b
          BY <3>2
        <4>2. a % b < n
          BY <4>1
        <4> QED
          BY <1>9, <3>2, <4>1, <4>2
      <3> QED
        BY <3>1, <3>2
    <2> HIDE DEF T
    <2>3. T \in SUBSET Nat
      BY DEF T
    <2> QED
      BY <2>1, <2>2, <2>3, SetOfNaturals
  <1>11. \A a, b \in Nat : Euclid[<<a, b>>] \in Nat
    <2> SUFFICES ASSUME NEW a \in Nat, NEW b \in Nat PROVE Euclid[<<a, b>>] \in Nat
      OBVIOUS
    <2>1. b + 1 \in T /\ b < b + 1
      BY <1>10
    <2> QED
      BY <2>1
  <1>12. Euclid \in [D -> Nat]
    <2>1. Euclid = [p \in D |-> Euclid[p]]
      BY ONLY <1>8
    <2>2. \A p \in D : Euclid[p] \in Nat
      <3> SUFFICES ASSUME NEW p \in D PROVE Euclid[p] \in Nat
        OBVIOUS
      <3>1. p = <<p[1], p[2]>> /\ p[1] \in Nat /\ p[2] \in Nat
        OBVIOUS
      <3> QED
        BY <1>11, <3>1
    <2> QED
      BY <2>1, <2>2
  <1> QED
    BY <1>9, <1>12 DEF Gcd

(* g is a divisor of n. *)
Divides(g, n) == \E k \in Int : n = k * g

LEMMA DividesSum ==
  ASSUME NEW g \in Int, NEW m \in Int, NEW n \in Int, NEW q \in Int, Divides(g, m), Divides(g, n)
  PROVE  Divides(g, q * m + n)
  <1>1. PICK k \in Int : m = k * g
    BY DEF Divides
  <1>2. PICK l \in Int : n = l * g
    BY DEF Divides
  <1>3. q * m + n = (q * k + l) * g
    BY <1>1, <1>2
  <1>4. q * k + l \in Int
    OBVIOUS
  <1> QED
    BY <1>3, <1>4 DEF Divides

(* What a quotient by a divisor is. *)
LEMMA DividesExact ==
  ASSUME NEW g \in Nat \ {0}, NEW n \in Int, Divides(g, n)
  PROVE  n \div g \in Int /\ (n \div g) * g = n
  <1>1. PICK k \in Int : n = k * g
    BY DEF Divides
  <1>2. n \div g = k
    <2>1. (k * g) \div g = k
      OBVIOUS
    <2> QED
      BY <1>1, <2>1
  <1> QED
    BY <1>1, <1>2

LEMMA GcdIs ==
  ASSUME NEW a \in Nat, NEW b \in Nat
  PROVE  /\ Gcd(a, b) \in Nat
         /\ (a # 0 \/ b # 0) => Gcd(a, b) # 0
         /\ b # 0 => Gcd(a, b) <= b
         /\ a # 0 => Gcd(a, b) <= a
         /\ Divides(Gcd(a, b), a) /\ Divides(Gcd(a, b), b)
  <1> DEFINE Good(x, y) == /\ Gcd(x, y) \in Nat
                           /\ (x # 0 \/ y # 0) => Gcd(x, y) # 0
                           /\ y # 0 => Gcd(x, y) <= y
                           /\ x # 0 => Gcd(x, y) <= x
                           /\ Divides(Gcd(x, y), x) /\ Divides(Gcd(x, y), y)
             T == {n \in Nat : \A y \in Nat : y < n => \A x \in Nat : Good(x, y)}
  <1>1. 0 \in T
    OBVIOUS
  <1>2. ASSUME NEW n \in T PROVE n + 1 \in T
    <2> SUFFICES ASSUME NEW y \in Nat, y < n + 1, NEW x \in Nat PROVE Good(x, y)
      OBVIOUS
    <2> HIDE DEF T
    <2>1. CASE y = 0
      <3>1. Gcd(x, y) = x
        BY <2>1, EuclidIs
      <3>2. x = 1 * x /\ y = 0 * x /\ 0 \in Int /\ 1 \in Int
        BY <2>1
      <3>3. Divides(x, x) /\ Divides(x, y)
        BY <3>2 DEF Divides
      <3> QED
        BY <2>1, <3>1, <3>3
    <2>2. CASE y # 0
      <3> DEFINE r == x % y
                 q == x \div y
                 g == Gcd(y, r)
      <3>1. r \in Nat /\ r < y /\ q \in Nat /\ x = q * y + r
        BY <2>2
      <3>2. Gcd(x, y) = g
        BY <2>2, EuclidIs
      <3>3. r < n
        <4>1. n \in Nat
          BY DEF T
        <4> QED
          BY <3>1, <4>1
      <3>4. Good(y, r)
        <4> HIDE DEF Good, r
        <4> QED
          BY <3>1, <3>3 DEF T
      <3> HIDE DEF r, q, g
      <3>5. g \in Nat /\ g # 0 /\ g <= y /\ (r # 0 => g <= r) /\ Divides(g, y) /\ Divides(g, r)
        BY <2>2, <3>4 DEF g
      <3>6. Divides(g, x)
        <4>1. g \in Int /\ y \in Int /\ r \in Int /\ q \in Int
          BY <3>1, <3>5
        <4> QED
          BY <3>1, <3>5, <4>1, DividesSum
      <3>7. x # 0 => g <= x
        <4> HIDE DEF Good
        <4>1. CASE r # 0
          <5>1. q * y \in Nat
            BY <3>1
          <5>2. r <= x
            BY <3>1, <5>1
          <5> QED
            BY <3>1, <3>5, <4>1, <5>2
        <4>2. CASE r = 0 /\ x # 0
          <5>1. q # 0 /\ x = q * y
            BY <3>1, <4>2
          <5>2. q * y >= y
            BY <3>1, <5>1
          <5> QED
            BY <3>1, <3>5, <5>1, <5>2
        <4> QED
          BY <4>1, <4>2
      <3> QED
        BY <2>2, <3>2, <3>5, <3>6, <3>7
    <2> QED
      BY <2>1, <2>2
  <1>3. T = Nat
    <2> HIDE DEF T
    <2>1. T \in SUBSET Nat
      BY DEF T
    <2> QED
      BY <1>1, <1>2, <2>1, SetOfNaturals
  <1>4. b + 1 \in T /\ b < b + 1
    <2>1. b + 1 \in Nat
      OBVIOUS
    <2> HIDE DEF T
    <2> QED
      BY <1>3, <2>1
  <1> HIDE DEF Good
  <1>5. Good(a, b)
    BY <1>4
  <1> QED
    BY <1>5 DEF Good

-----------------------------------------------------------------------------
(* Rationals. *)

PosRat == {a \in Rat : a[1] > 0}

(* A rational is 0 as Nil only. *)
LEMMA RatIs ==
  ASSUME NEW a \in Rat
  PROVE  /\ a = <<a[1], a[2]>> /\ a[1] \in Int /\ a[2] \in Nat \ {0}
         /\ a[1] = 0 <=> a = Nil
  BY DEF Rat, Positives, Nil

LEMMA AbsIs == \A n \in Int : Abs(n) \in Nat /\ (n # 0 => Abs(n) # 0) /\ (Abs(n) = n \/ Abs(n) = -n)
  BY DEF Abs

LEMMA IsRat ==
  ASSUME NEW n \in Int, NEW d \in Nat \ {0}, n = 0 => d = 1
  PROVE  <<n, d>> \in Rat
  BY DEF Rat, Positives

LEMMA CancelRight == \A a, b \in Int : \A g \in Nat \ {0} : a * g = b * g => a = b
  OBVIOUS

(* The sign of a quotient. *)
LEMMA SignOf ==
  ASSUME NEW p \in Int, NEW g \in Nat \ {0}
  PROVE  /\ p * g \in Int
         /\ p * g = 0 <=> p = 0
         /\ p * g > 0 <=> p > 0
  <1>1. CASE p = 0
    BY <1>1
  <1>2. CASE p > 0
    <2>1. p * g > 0
      BY <1>2
    <2> QED
      BY <1>2, <2>1
  <1>3. CASE p < 0
    <2>1. p * g < 0
      BY <1>3
    <2> QED
      BY <1>3, <2>1
  <1> QED
    BY <1>1, <1>2, <1>3

LEMMA RatioIs ==
  ASSUME NEW n \in Int, NEW d \in Nat \ {0}
  PROVE  /\ Ratio(n, d) \in Rat
         /\ Ratio(n, d)[1] * d = n * Ratio(n, d)[2]
         /\ Ratio(n, d)[1] > 0 <=> n > 0
         /\ Ratio(n, d)[1] = 0 <=> n = 0
         /\ d = 1 => Ratio(n, d)[2] = 1
  <1> DEFINE g == Gcd(Abs(n), d)
             p == n \div g
             q == d \div g
  <1>1. g \in Nat \ {0} /\ g <= d /\ Divides(g, Abs(n)) /\ Divides(g, d)
    BY AbsIs, GcdIs
  <1>2. n = 0 => g = d
    <2> SUFFICES ASSUME n = 0 PROVE g = d
      OBVIOUS
    <2>1. Gcd(0, d) = Gcd(d, 0 % d)
      BY EuclidIs
    <2>2. 0 % d = 0
      OBVIOUS
    <2>3. Gcd(d, 0) = d
      BY EuclidIs
    <2> QED
      BY <2>1, <2>2, <2>3 DEF Abs
  <1>3. Ratio(n, d) = <<p, q>>
    BY DEF Ratio, ReducedBy
  <1>4. Divides(g, n)
    <2>1. PICK k \in Int : Abs(n) = k * g
      BY <1>1 DEF Divides
    <2>2. n = k * g \/ n = (-k) * g
      <3> HIDE DEF g
      <3>1. (-k) * g = -(k * g)
        BY <1>1
      <3>2. k * g \in Int
        BY <1>1
      <3> QED
        BY <2>1, <3>1, <3>2, AbsIs
    <2> QED
      BY <2>2 DEF Divides
  <1> HIDE DEF g
  <1>5. p \in Int /\ p * g = n /\ q \in Int /\ q * g = d
    BY <1>1, <1>4, DividesExact
  <1> HIDE DEF p, q
  <1>6. q \in Nat \ {0}
    BY <1>1, <1>5, SignOf
  <1>7. n = 0 => q = 1
    <2> SUFFICES ASSUME n = 0 PROVE q = 1
      OBVIOUS
    <2>1. q * g = 1 * g
      BY <1>2, <1>5
    <2> QED
      BY <1>1, <1>5, <2>1, CancelRight
  <1>8. d = 1 => q = 1
    <2> SUFFICES ASSUME d = 1 PROVE q = 1
      OBVIOUS
    <2>1. g = 1
      BY <1>1
    <2> QED
      BY <1>5, <2>1
  <1>9. (p > 0 <=> n > 0) /\ (p = 0 <=> n = 0)
    BY <1>1, <1>5, SignOf
  <1>10. p * d = n * q
    <2>1. p * (q * g) = (p * g) * q
      BY <1>1, <1>5
    <2> QED
      BY <1>5, <2>1
  <1>11. <<p, q>> \in Rat
    BY <1>5, <1>6, <1>7, <1>9, IsRat
  <1> QED
    BY <1>3, <1>8, <1>9, <1>10, <1>11

(* The sign of a product. *)
LEMMA SignOfProduct ==
  ASSUME NEW p \in Int, NEW r \in Int
  PROVE  /\ p * r \in Int
         /\ p * r = 0 <=> p = 0 \/ r = 0
         /\ p >= 0 /\ r >= 0 => p * r >= 0
         /\ p > 0 /\ r > 0 => p * r > 0
  <1>1. CASE p = 0 \/ r = 0
    BY <1>1
  <1>2. CASE p > 0 /\ r > 0
    <2>1. p * r > 0
      BY <1>2
    <2> QED
      BY <1>2, <2>1
  <1>3. CASE p < 0 /\ r > 0
    <2>1. p * r < 0
      BY <1>3
    <2> QED
      BY <1>3, <2>1
  <1>4. CASE p > 0 /\ r < 0
    <2>1. p * r < 0
      BY <1>4
    <2> QED
      BY <1>4, <2>1
  <1>5. CASE p < 0 /\ r < 0
    <2>1. (-p) * (-r) = p * r /\ (-p) * (-r) > 0
      BY <1>5
    <2> QED
      BY <1>5, <2>1
  <1> QED
    BY <1>1, <1>2, <1>3, <1>4, <1>5

LEMMA MulIs ==
  ASSUME NEW a \in Rat, NEW b \in Rat
  PROVE  /\ Mul(a, b) \in Rat
         /\ Mul(a, b)[1] * (a[2] * b[2]) = (a[1] * b[1]) * Mul(a, b)[2]
         /\ a[1] >= 0 /\ b[1] >= 0 => Mul(a, b)[1] >= 0
         /\ a[1] > 0 /\ b[1] > 0 => Mul(a, b)[1] > 0
         /\ Mul(a, b)[1] = 0 <=> a[1] = 0 \/ b[1] = 0
         /\ a[1] = 0 \/ b[1] = 0 => Mul(a, b) = Nil
  <1> DEFINE R == Ratio(a[1], b[2])
             S == Ratio(b[1], a[2])
             p == R[1]
             q == R[2]
             r == S[1]
             s == S[2]
  <1>1. a[1] \in Int /\ a[2] \in Nat \ {0} /\ b[1] \in Int /\ b[2] \in Nat \ {0}
        /\ (a[1] = 0 => a[2] = 1) /\ (b[1] = 0 => b[2] = 1)
    BY DEF Rat, Positives
  <1>2. /\ R \in Rat /\ p * b[2] = a[1] * q /\ (p > 0 <=> a[1] > 0) /\ (p = 0 <=> a[1] = 0)
        /\ (b[2] = 1 => q = 1)
    BY <1>1, RatioIs
  <1>3. /\ S \in Rat /\ r * a[2] = b[1] * s /\ (r > 0 <=> b[1] > 0) /\ (r = 0 <=> b[1] = 0)
        /\ (a[2] = 1 => s = 1)
    BY <1>1, RatioIs
  <1>4. Mul(a, b) = <<p * r, q * s>>
    BY DEF Mul, MulCrossed
  <1> HIDE DEF R, S
  <1>5. /\ p \in Int /\ q \in Nat \ {0} /\ r \in Int /\ s \in Nat \ {0}
        /\ (p = 0 => q = 1) /\ (r = 0 => s = 1)
    BY <1>2, <1>3 DEF Rat, Positives
  <1> HIDE DEF p, q, r, s
  <1> DEFINE w == a[1]
             x == a[2]
             y == b[1]
             z == b[2]
  <1>6. p * z = w * q /\ r * x = y * s
    BY <1>2, <1>3
  <1>7. w \in Int /\ x \in Nat \ {0} /\ y \in Int /\ z \in Nat \ {0}
    BY <1>1
  <1> HIDE DEF w, x, y, z
  <1>8. (p * r) * (x * z) = (w * y) * (q * s)
    <2>1. (p * r) * (x * z) = (p * z) * (r * x)
      BY <1>5, <1>7
    <2>2. (w * q) * (y * s) = (w * y) * (q * s)
      BY <1>5, <1>7
    <2> QED
      BY <1>6, <2>1, <2>2
  <1>9. p * r \in Int /\ q * s \in Nat \ {0}
    <2>1. q * s \in Int /\ q * s > 0
      BY <1>5, SignOfProduct
    <2> QED
      BY <1>5, <2>1, SignOfProduct
  <1>10. p * r = 0 => q * s = 1
    <2>1. CASE p = 0
      <3>1. q = 1 /\ w = 0
        BY <1>2, <1>5, <2>1 DEF w
      <3>2. x = 1
        BY <1>1, <3>1 DEF w, x
      <3>3. s = 1
        BY <1>3, <3>2 DEF x
      <3> QED
        BY <3>1, <3>3
    <2>2. CASE r = 0
      <3>1. s = 1 /\ y = 0
        BY <1>3, <1>5, <2>2 DEF y
      <3>2. z = 1
        BY <1>1, <3>1 DEF y, z
      <3>3. q = 1
        BY <1>2, <3>2 DEF z
      <3> QED
        BY <3>1, <3>3
    <2> QED
      BY <1>5, <2>1, <2>2, SignOfProduct
  <1>11. <<p * r, q * s>> \in Rat
    BY <1>9, <1>10, IsRat
  <1>12. (p > 0 <=> w > 0) /\ (p = 0 <=> w = 0) /\ (r > 0 <=> y > 0) /\ (r = 0 <=> y = 0)
    BY <1>2, <1>3 DEF w, y
  <1>13. /\ w >= 0 /\ y >= 0 => p * r >= 0
         /\ w > 0 /\ y > 0 => p * r > 0
         /\ p * r = 0 <=> w = 0 \/ y = 0
    BY <1>5, <1>7, <1>12, SignOfProduct
  <1>14. w = 0 \/ y = 0 => <<p * r, q * s>> = Nil
    BY <1>10, <1>13 DEF Nil
  <1> QED
    BY <1>4, <1>8, <1>11, <1>13, <1>14 DEF w, x, y, z

(* Sums and their signs. *)
LEMMA AddIs ==
  ASSUME NEW a \in Rat, NEW b \in Rat
  PROVE  /\ Add(a, b) \in Rat
         /\ a[1] >= 0 /\ b[1] >= 0 => Add(a, b)[1] >= 0
  <1> DEFINE g == Gcd(a[2], b[2])
             u == b[2] \div g
             v == a[2] \div g
             n == a[1] * u + b[1] * v
             d == a[2] * u
  <1>1. a[1] \in Int /\ a[2] \in Nat \ {0} /\ b[1] \in Int /\ b[2] \in Nat \ {0}
    BY RatIs
  <1>2. g \in Nat \ {0} /\ Divides(g, a[2]) /\ Divides(g, b[2])
    BY <1>1, GcdIs
  <1> HIDE DEF g
  <1>3. u \in Int /\ u * g = b[2] /\ v \in Int /\ v * g = a[2]
    <2>1. a[2] \in Int /\ b[2] \in Int
      BY <1>1
    <2> QED
      BY <1>2, <2>1, DividesExact
  <1> HIDE DEF u, v
  <1>4. u \in Nat \ {0} /\ v \in Nat \ {0}
    BY <1>1, <1>2, <1>3, SignOf
  <1>5. d \in Nat \ {0}
    <2>1. d \in Int /\ d > 0
      BY <1>1, <1>4, SignOfProduct
    <2> QED
      BY <2>1
  <1>6. n \in Int /\ (a[1] >= 0 /\ b[1] >= 0 => n >= 0)
    <2>1. a[1] * u \in Int /\ (a[1] >= 0 => a[1] * u >= 0)
      BY <1>1, <1>4, SignOfProduct
    <2>2. b[1] * v \in Int /\ (b[1] >= 0 => b[1] * v >= 0)
      BY <1>1, <1>4, SignOfProduct
    <2> QED
      BY <2>1, <2>2
  <1>7. Add(a, b) = Ratio(n, d)
    BY DEF Add, AddOver, g, u, v
  <1> HIDE DEF n, d
  <1>8. Ratio(n, d) \in Rat /\ (Ratio(n, d)[1] > 0 <=> n > 0) /\ (Ratio(n, d)[1] = 0 <=> n = 0)
    BY <1>5, <1>6, RatioIs
  <1>9. n >= 0 => Ratio(n, d)[1] >= 0
    <2>1. Ratio(n, d)[1] \in Int
      BY <1>8, RatIs
    <2> QED
      BY <1>6, <1>8, <2>1
  <1> QED
    BY <1>6, <1>7, <1>8, <1>9

LEMMA NegIs ==
  ASSUME NEW a \in Rat
  PROVE  /\ Neg(a) \in Rat /\ Neg(a)[1] = -a[1]
         /\ Magnitude(a) \in Rat /\ Magnitude(a)[1] >= 0 /\ (Magnitude(a)[1] = 0 <=> a[1] = 0)
         /\ Neg(Nil) = Nil /\ Magnitude(Nil) = Nil
  <1>1. a[1] \in Int /\ a[2] \in Nat \ {0} /\ (a[1] = 0 => a[2] = 1)
    BY DEF Rat, Positives
  <1>2. Abs(a[1]) \in Nat /\ (Abs(a[1]) = 0 <=> a[1] = 0)
    BY <1>1 DEF Abs
  <1>3. -a[1] \in Int /\ (-a[1] = 0 <=> a[1] = 0)
    BY <1>1
  <1>4. <<-a[1], a[2]>> \in Rat /\ <<Abs(a[1]), a[2]>> \in Rat
    BY <1>1, <1>2, <1>3, IsRat
  <1>5. Neg(Nil) = Nil /\ Magnitude(Nil) = Nil
    <2>1. ASSUME NEW x \in Int PROVE (-x = 0 <=> x = 0) /\ (Abs(x) = 0 <=> x = 0)
      BY DEF Abs
    <2>2. Nil[1] \in Int /\ Nil[1] = 0 /\ Nil = <<Nil[1], Nil[2]>>
      BY DEF Nil
    <2>3. -Nil[1] = Nil[1] /\ Abs(Nil[1]) = Nil[1]
      BY <2>1, <2>2
    <2> QED
      BY <2>2, <2>3 DEF Neg, Magnitude
  <1> QED
    BY <1>2, <1>4, <1>5 DEF Neg, Magnitude

LEMMA InvIs ==
  ASSUME NEW a \in Rat, a[1] # 0
  PROVE  /\ Inv(a) \in Rat /\ Inv(a)[1] # 0
         /\ a[1] > 0 => Inv(a) = <<a[2], a[1]>> /\ Inv(a)[1] > 0
  <1>1. a[1] \in Int /\ a[2] \in Nat \ {0}
    BY RatIs
  <1>2. CASE a[1] < 0
    <2>1. -a[2] \in Int /\ -a[2] # 0 /\ -a[1] \in Nat \ {0}
      BY <1>1, <1>2
    <2>2. <<-a[2], -a[1]>> \in Rat
      BY <2>1, IsRat
    <2>3. Inv(a) = <<-a[2], -a[1]>>
      BY <1>2 DEF Inv
    <2> QED
      BY <1>1, <1>2, <2>1, <2>2, <2>3
  <1>3. CASE a[1] > 0
    <2>1. a[2] \in Int /\ a[2] # 0 /\ a[1] \in Nat \ {0} /\ ~(a[1] < 0)
      BY <1>1, <1>3
    <2>2. <<a[2], a[1]>> \in Rat
      BY <2>1, IsRat
    <2>3. Inv(a) = <<a[2], a[1]>>
      BY <2>1 DEF Inv
    <2> QED
      BY <1>1, <2>1, <2>2, <2>3
  <1> QED
    BY <1>1, <1>2, <1>3

LEMMA DivIs ==
  ASSUME NEW a \in Rat, NEW b \in Rat, b[1] # 0
  PROVE  /\ Div(a, b) \in Rat
         /\ a[1] = 0 => Div(a, b) = Nil
         /\ a[1] # 0 => Div(a, b)[1] # 0
         /\ a[1] >= 0 /\ b[1] > 0 => Div(a, b)[1] >= 0
         /\ a[1] > 0 /\ b[1] > 0 => Div(a, b)[1] > 0
  <1>1. Inv(b) \in Rat /\ Inv(b)[1] # 0 /\ (b[1] > 0 => Inv(b)[1] > 0)
    BY InvIs
  <1>2. Inv(b)[1] \in Int
    BY <1>1, RatIs
  <1>3. Inv(b)[1] > 0 => Inv(b)[1] >= 0
    BY <1>2
  <1> QED
    BY <1>1, <1>3, MulIs DEF Div

LEMMA HypotIs ==
  ASSUME NEW a \in Rat, NEW b \in Rat
  PROVE  Hypot(a, b) \in Rat /\ Hypot(a, b)[1] >= 0
  BY NegIs, AddIs DEF Hypot

-----------------------------------------------------------------------------
(* Comparison. *)

LEMMA FractionIs ==
  ASSUME NEW a \in Fractions
  PROVE  /\ a[1] \in Int /\ a[2] \in Nat \ {0} /\ a = <<a[1], a[2]>>
         /\ Whole(a) \in Int /\ Rest(a) \in Nat /\ Rest(a) < a[2]
         /\ a[1] = Whole(a) * a[2] + Rest(a)
         /\ Rest(a) # 0 => UpsideDown(a) \in Fractions
  <1>1. a[1] \in Int /\ a[2] \in Nat \ {0} /\ a = <<a[1], a[2]>>
    BY DEF Fractions, Positives
  <1>2. /\ a[1] \div a[2] \in Int /\ a[1] % a[2] \in Nat /\ a[1] % a[2] < a[2]
        /\ a[1] = (a[1] \div a[2]) * a[2] + (a[1] % a[2])
    BY <1>1
  <1>3. Rest(a) # 0 => UpsideDown(a) \in Fractions
    BY <1>1, <1>2 DEF Rest, UpsideDown, Fractions, Positives
  <1> QED
    BY <1>1, <1>2, <1>3 DEF Whole, Rest

LEMMA OrderedIs ==
  \A a, b \in Fractions :
    Leq(a, b) <=> \/ Whole(a) < Whole(b)
                  \/ Whole(a) = Whole(b) /\ Rest(a) = 0
                  \/ /\ Whole(a) = Whole(b) /\ Rest(a) # 0 /\ Rest(b) # 0
                     /\ Leq(UpsideDown(b), UpsideDown(a))
  <1> DEFINE D == Fractions \X Fractions
             Body(p, f) == \/ Whole(p[1]) < Whole(p[2])
                           \/ Whole(p[1]) = Whole(p[2]) /\ Rest(p[1]) = 0
                           \/ /\ Whole(p[1]) = Whole(p[2])
                              /\ Rest(p[1]) # 0 /\ Rest(p[2]) # 0
                              /\ f[<<UpsideDown(p[2]), UpsideDown(p[1])>>]
             F == [p \in D \X [D -> BOOLEAN] |-> Body(p[1], p[2])]
             rank == [p \in D |-> p[1][2] + p[2][2]]
             Solves(f) == f = [p \in D |-> Body(p, f)]
  <1>1. ASSUME NEW p \in D, Rest(p[1]) # 0, Rest(p[2]) # 0
        PROVE  /\ <<UpsideDown(p[2]), UpsideDown(p[1])>> \in D
               /\ rank[<<UpsideDown(p[2]), UpsideDown(p[1])>>] < rank[p]
    <2>1. p[1] \in Fractions /\ p[2] \in Fractions
      OBVIOUS
    <2>2. /\ UpsideDown(p[1]) \in Fractions /\ UpsideDown(p[2]) \in Fractions
          /\ Rest(p[1]) \in Nat /\ Rest(p[1]) < p[1][2] /\ p[1][2] \in Nat
          /\ Rest(p[2]) \in Nat /\ Rest(p[2]) < p[2][2] /\ p[2][2] \in Nat
      BY <1>1, <2>1, FractionIs
    <2>3. UpsideDown(p[1])[2] = Rest(p[1]) /\ UpsideDown(p[2])[2] = Rest(p[2])
      BY DEF UpsideDown
    <2> QED
      BY <2>2, <2>3
  <1>2. F \in [D \X [D -> BOOLEAN] -> BOOLEAN]
    OBVIOUS
  <1>3. ASSUME NEW p \in D, NEW f \in [D -> BOOLEAN], NEW g \in [D -> BOOLEAN],
               \A y \in D : rank[y] < rank[p] => f[y] = g[y]
        PROVE  F[<<p, f>>] = F[<<p, g>>]
    <2> DEFINE y == <<UpsideDown(p[2]), UpsideDown(p[1])>>
    <2>1. Rest(p[1]) # 0 /\ Rest(p[2]) # 0 => f[y] = g[y]
      BY <1>1, <1>3
    <2>2. F[<<p, f>>] = Body(p, f) /\ F[<<p, g>>] = Body(p, g)
      OBVIOUS
    <2> HIDE DEF F, D, rank
    <2> QED
      BY <2>1, <2>2
  <1>4. BOOLEAN # {} /\ rank \in [D -> Nat]
    <2>1. ASSUME NEW p \in D PROVE p[1][2] + p[2][2] \in Nat
      <3>1. p[1] \in Fractions /\ p[2] \in Fractions
        OBVIOUS
      <3>2. p[1][2] \in Nat /\ p[2][2] \in Nat
        BY <3>1, FractionIs
      <3> QED
        BY <3>2
    <2> QED
      BY <2>1
  <1>5. PICK f \in [D -> BOOLEAN] : Recurs(f, F, D)
    <2>1. Descends(F, rank, D, BOOLEAN)
      BY <1>3 DEF Descends
    <2> HIDE DEF D, F, rank
    <2> QED
      BY <1>2, <1>4, <2>1, RecursionExists, Zenon
  <1>6. Solves(f)
    <2>1. \A p \in D : F[<<p, f>>] = Body(p, f)
      OBVIOUS
    <2> HIDE DEF F, Body, D
    <2> QED
      BY <1>5, <2>1 DEF Recurs
  <1>7. Ordered = CHOOSE e : Solves(e)
    BY DEF Ordered
  <1>8. Solves(Ordered)
    <2> HIDE DEF Solves
    <2> QED
      BY <1>6, <1>7
  <1> TAKE a, b \in Fractions
  <1>9. <<a, b>> \in D /\ <<a, b>>[1] = a /\ <<a, b>>[2] = b
    OBVIOUS
  <1>10. Ordered[<<a, b>>] = Body(<<a, b>>, Ordered)
    <2> HIDE DEF Body
    <2> QED
      BY ONLY <1>8, <1>9
  <1> QED
    BY <1>10 DEF Leq

(* Quotients with remainders compare by their quotients first. *)
LEMMA CrossBelow ==
  ASSUME NEW p \in Int, NEW q \in Int, NEW m \in Nat \ {0}, NEW n \in Nat \ {0},
         NEW r \in Nat, NEW s \in Nat, r < m, p < q
  PROVE  (p * m + r) * n < (q * n + s) * m
  <1>1. p + 1 <= q /\ r + 1 <= m
    OBVIOUS
  <1> DEFINE w == m * n
  <1>2. w \in Nat \ {0}
    BY SignOfProduct
  <1>3. r * n < w
    <2>1. (m - r) \in Nat \ {0}
      OBVIOUS
    <2>2. (m - r) * n > 0
      BY <2>1, SignOfProduct
    <2>3. (m - r) * n = m * n - r * n
      OBVIOUS
    <2>4. m * n \in Int /\ r * n \in Int
      OBVIOUS
    <2> QED
      BY <2>2, <2>3, <2>4
  <1>4. s * m \in Nat
    BY SignOfProduct
  <1>5. p * w + w <= q * w
    <2>1. (q - p - 1) * w >= 0
      BY <1>1, <1>2, SignOfProduct
    <2>2. (q - p - 1) * w = q * w - p * w - w
      <3> HIDE DEF w
      <3> QED
        BY <1>2
    <2> HIDE DEF w
    <2>3. q * w \in Int /\ p * w \in Int
      BY <1>2
    <2> QED
      BY <1>2, <2>1, <2>2, <2>3
  <1>6. (p * m + r) * n = p * w + r * n /\ (q * n + s) * m = q * w + s * m
    OBVIOUS
  <1>7. r * n \in Int
    OBVIOUS
  <1> HIDE DEF w
  <1>8. p * w \in Int /\ q * w \in Int
    BY <1>2
  <1> QED
    BY <1>2, <1>3, <1>4, <1>5, <1>6, <1>7, <1>8

(* Leq is the order of the rationals. *)
LEMMA LeqIs ==
  \A a, b \in Fractions : Leq(a, b) <=> a[1] * b[2] <= b[1] * a[2]
  <1> DEFINE Good(a, b) == Leq(a, b) <=> a[1] * b[2] <= b[1] * a[2]
             T == {n \in Nat : \A a, b \in Fractions : a[2] + b[2] < n => Good(a, b)}
  <1>1. 0 \in T
    <2>1. ASSUME NEW a \in Fractions, NEW b \in Fractions PROVE ~(a[2] + b[2] < 0)
      <3>1. a[2] \in Nat /\ b[2] \in Nat
        BY FractionIs
      <3> QED
        BY <3>1
    <2> QED
      BY <2>1
  <1>2. ASSUME NEW n \in T PROVE n + 1 \in T
    <2>1. n \in Nat /\ n + 1 \in Nat
      OBVIOUS
    <2> SUFFICES ASSUME NEW a \in Fractions, NEW b \in Fractions, a[2] + b[2] < n + 1 PROVE Good(a, b)
      BY <2>1
    <2> DEFINE c == UpsideDown(b)
               d == UpsideDown(a)
               m == a[2]
               k == b[2]
               p == Whole(a)
               q == Whole(b)
               r == Rest(a)
               s == Rest(b)
    <2>2. /\ m \in Nat \ {0} /\ p \in Int /\ r \in Nat /\ r < m /\ a[1] = p * m + r
          /\ k \in Nat \ {0} /\ q \in Int /\ s \in Nat /\ s < k /\ b[1] = q * k + s
      BY FractionIs
    <2>3. Leq(a, b) <=> p < q \/ (p = q /\ r = 0) \/ (p = q /\ r # 0 /\ s # 0 /\ Leq(c, d))
      BY OrderedIs
    <2>4. ASSUME r # 0, s # 0 PROVE Leq(c, d) <=> k * r <= m * s
      <3>1. c \in Fractions /\ d \in Fractions
        BY <2>4, FractionIs
      <3>2. c[1] = k /\ c[2] = s /\ d[1] = m /\ d[2] = r
        BY DEF UpsideDown
      <3>3. c[2] + d[2] < n
        <4> HIDE DEF c, d, k, s, m, r
        <4>1. m + k < n + 1
          BY DEF m, k
        <4> QED
          BY <2>1, <2>2, <3>2, <4>1
      <3>4. Good(c, d)
        <4> HIDE DEF Good, c, d
        <4> QED
          BY <3>1, <3>3
      <3> HIDE DEF c, d, k, s, m, r
      <3> QED
        BY <3>2, <3>4
    <2>5. Leq(a, b) <=> (p * m + r) * k <= (q * k + s) * m
      <3> HIDE DEF c, d, k, s, m, r, p, q, T, Good
      <3>1. (p * m + r) * k \in Int /\ (q * k + s) * m \in Int
        BY <2>2
      <3>2. CASE p < q
        BY <2>2, <2>3, <3>1, <3>2, CrossBelow
      <3>3. CASE q < p
        <4>1. (q * k + s) * m < (p * m + r) * k
          BY <2>2, <3>3, CrossBelow
        <4>2. ~(p < q) /\ p # q
          BY <2>2, <3>3
        <4> QED
          BY <2>3, <3>1, <4>1, <4>2
      <3>4. CASE p = q
        <4>1. (p * m + r) * k = p * (m * k) + r * k /\ (q * k + s) * m = p * (m * k) + s * m
          BY <2>2, <3>4
        <4>2. r * k \in Nat /\ s * m \in Nat /\ p * (m * k) \in Int
          BY <2>2, SignOfProduct
        <4>3. (p * m + r) * k <= (q * k + s) * m <=> r * k <= s * m
          BY <4>1, <4>2
        <4>4. (r * k = 0 <=> r = 0) /\ (s * m = 0 <=> s = 0)
          BY <2>2, SignOfProduct
        <4>5. r * k = k * r /\ s * m = m * s
          BY <2>2
        <4>6. ~(p < q)
          BY <2>2, <3>4
        <4>7. CASE r = 0
          BY <2>3, <3>4, <4>2, <4>3, <4>4, <4>7
        <4>8. CASE r # 0 /\ s = 0
          BY <2>3, <3>4, <4>2, <4>3, <4>4, <4>6, <4>8
        <4>9. CASE r # 0 /\ s # 0
          BY <2>3, <2>4, <3>4, <4>3, <4>5, <4>6, <4>9
        <4> QED
          BY <4>7, <4>8, <4>9
      <3> QED
        BY <2>2, <3>2, <3>3, <3>4
    <2> QED
      BY <2>2, <2>5
  <1>3. T = Nat
    <2> HIDE DEF T
    <2>1. T \in SUBSET Nat
      BY DEF T
    <2> QED
      BY <1>1, <1>2, <2>1, SetOfNaturals
  <1> SUFFICES ASSUME NEW a \in Fractions, NEW b \in Fractions PROVE Good(a, b)
    OBVIOUS
  <1>4. a[2] + b[2] + 1 \in Nat /\ a[2] + b[2] < a[2] + b[2] + 1
    <2>1. a[2] \in Nat /\ b[2] \in Nat
      BY FractionIs
    <2> QED
      BY <2>1
  <1>5. a[2] + b[2] + 1 \in T
    BY <1>3, <1>4
  <1> HIDE DEF Good
  <1> QED
    BY <1>4, <1>5

-----------------------------------------------------------------------------
(* Square roots. *)

LEMMA DescentIs == \A n, k \in Positives : Descent[<<n, k>>] \in Positives
  <1> DEFINE D == Positives \X Positives
             Body(p, f) == IF Newton(p[1], p[2]) >= p[2] THEN p[2]
                           ELSE f[<<p[1], Newton(p[1], p[2])>>]
             F == [p \in D \X [D -> Positives] |-> Body(p[1], p[2])]
             rank == [p \in D |-> p[2]]
             Solves(f) == f = [p \in D |-> Body(p, f)]
  <1>1. ASSUME NEW n \in Positives, NEW k \in Positives, ~(Newton(n, k) >= k)
        PROVE  Newton(n, k) \in Positives /\ Newton(n, k) < k
    <2>1. n \in Nat /\ n # 0 /\ k \in Nat /\ k # 0
      BY DEF Positives
    <2>2. n \div k \in Nat /\ (k = 1 => n \div k = n)
      BY <2>1
    <2>3. (k + n \div k) \div 2 \in Nat /\ (k + n \div k >= 2 => (k + n \div k) \div 2 # 0)
      BY <2>1, <2>2
    <2>4. k + n \div k >= 2
      BY <2>1, <2>2
    <2> QED
      BY <1>1, <2>1, <2>3, <2>4 DEF Newton, Positives
  <1>2. ASSUME NEW p \in D
        PROVE  /\ p = <<p[1], p[2]>> /\ p[1] \in Positives /\ p[2] \in Positives
               /\ ~(Newton(p[1], p[2]) >= p[2]) =>
                    /\ <<p[1], Newton(p[1], p[2])>> \in D
                    /\ rank[<<p[1], Newton(p[1], p[2])>>] < rank[p]
    BY <1>1
  <1>3. ASSUME NEW p \in D, NEW f \in [D -> Positives] PROVE F[<<p, f>>] \in Positives
    <2>1. F[<<p, f>>] = Body(p, f)
      OBVIOUS
    <2> HIDE DEF F, D, rank
    <2> QED
      BY <1>2, <2>1
  <1>4. F \in [D \X [D -> Positives] -> Positives]
    <2>1. F = [p \in D \X [D -> Positives] |-> F[p]]
      OBVIOUS
    <2> HIDE DEF F
    <2>2. \A q \in D \X [D -> Positives] : F[q] \in Positives
      <3> SUFFICES ASSUME NEW q \in D \X [D -> Positives] PROVE F[q] \in Positives
        OBVIOUS
      <3> HIDE DEF D
      <3>1. q = <<q[1], q[2]>> /\ q[1] \in D /\ q[2] \in [D -> Positives]
        OBVIOUS
      <3> QED
        BY <1>3, <3>1
    <2> QED
      BY <2>1, <2>2
  <1>5. Descends(F, rank, D, Positives)
    <2> SUFFICES ASSUME NEW p \in D, NEW f \in [D -> Positives], NEW g \in [D -> Positives],
                        \A y \in D : rank[y] < rank[p] => f[y] = g[y]
                 PROVE  F[<<p, f>>] = F[<<p, g>>]
      BY DEF Descends
    <2>1. F[<<p, f>>] = Body(p, f) /\ F[<<p, g>>] = Body(p, g)
      OBVIOUS
    <2> HIDE DEF F, D, rank
    <2> QED
      BY <1>2, <2>1
  <1>6. Positives # {} /\ rank \in [D -> Nat]
    BY DEF Positives
  <1>7. PICK f \in [D -> Positives] : Recurs(f, F, D)
    <2> HIDE DEF D, F, rank
    <2> QED
      BY <1>4, <1>5, <1>6, RecursionExists, Zenon
  <1>8. Solves(f)
    <2>1. \A p \in D : F[<<p, f>>] = Body(p, f)
      OBVIOUS
    <2> HIDE DEF F, Body, D
    <2> QED
      BY <1>7, <2>1 DEF Recurs
  <1>9. Descent = CHOOSE e : Solves(e)
    BY DEF Descent
  <1>10. Solves(Descent)
    <2> HIDE DEF Solves
    <2> QED
      BY <1>8, <1>9
  <1>11. \A p \in D : Descent[p] = Body(p, Descent)
    <2> HIDE DEF Body, D
    <2> QED
      BY ONLY <1>10
  <1> DEFINE T == {m \in Nat : \A p \in D : rank[p] < m => Descent[p] \in Positives}
  <1>12. T = Nat
    <2>1. 0 \in T
      <3>1. \A p \in D : ~(rank[p] < 0)
        <4> HIDE DEF rank, D
        <4> QED
          BY <1>6
      <3> QED
        BY <3>1
    <2>2. ASSUME NEW m \in T PROVE m + 1 \in T
      <3>1. m \in Nat /\ m + 1 \in Nat
        OBVIOUS
      <3>2. ASSUME NEW p \in D, rank[p] < m + 1 PROVE Descent[p] \in Positives
        <4> DEFINE y == <<p[1], Newton(p[1], p[2])>>
        <4> HIDE DEF rank, D
        <4>1. rank[p] \in Nat
          BY <1>6
        <4>2. CASE Newton(p[1], p[2]) >= p[2]
          BY <1>2, <1>11, <4>2
        <4>3. CASE ~(Newton(p[1], p[2]) >= p[2])
          <5>1. y \in D /\ rank[y] < rank[p] /\ Descent[p] = Descent[y]
            BY <1>2, <1>11, <4>3
          <5>2. rank[y] \in Nat
            BY <1>6, <5>1
          <5>3. rank[y] < m
            BY <3>1, <3>2, <4>1, <5>1, <5>2
          <5> HIDE DEF y
          <5> QED
            BY <5>1, <5>3
        <4> QED
          BY <4>2, <4>3
      <3> QED
        BY <3>1, <3>2
    <2> HIDE DEF T
    <2>3. T \in SUBSET Nat
      BY DEF T
    <2> QED
      BY <2>1, <2>2, <2>3, SetOfNaturals
  <1> TAKE n, k \in Positives
  <1>13. <<n, k>> \in D /\ rank[<<n, k>>] = k /\ k \in Nat /\ k + 1 \in Nat
    BY DEF Positives
  <1>14. k + 1 \in T /\ k < k + 1
    <2> HIDE DEF T
    <2> QED
      BY <1>12, <1>13
  <1> HIDE DEF rank, D
  <1> QED
    BY <1>13, <1>14

LEMMA RootOrOneIs ==
  ASSUME NEW n \in Positives
  PROVE  RootOrOne(Isqrt(n), n) \in Positives /\ RootOrOne(Isqrt(n), n) * RootOrOne(Isqrt(n), n) <= n
  <1>1. Isqrt(n) \in Positives
    BY DescentIs DEF Isqrt
  <1>2. CASE Isqrt(n) * Isqrt(n) = n
    BY <1>1, <1>2 DEF RootOrOne, Positives
  <1>3. CASE Isqrt(n) * Isqrt(n) # n
    BY <1>3 DEF RootOrOne, Positives
  <1> QED
    BY <1>2, <1>3

LEMMA DivOf ==
  ASSUME NEW n \in Nat, NEW k \in Nat \ {0}
  PROVE  n \div k \in Nat /\ n % k \in Nat /\ n % k < k /\ n = (n \div k) * k + (n % k)
  OBVIOUS

(* Where SquareFrom goes on. *)
LEMMA SquareGoesOn ==
  ASSUME NEW n \in Nat \ {0}, NEW k \in Nat \ {0}, k # 1, ~(k * k > n \div k)
  PROVE  /\ k < n
         /\ n % (k * k) = 0 => /\ n \div (k * k) \in Nat \ {0} /\ n \div (k * k) < n
                               /\ n = (n \div (k * k)) * (k * k)
         /\ n % k = 0 => n \div k \in Nat \ {0}
         /\ n \div k <= n
  <1> DEFINE w == k * k
             q == n \div k
  <1>1. k >= 2
    OBVIOUS
  <1>2. w \in Nat \ {0} /\ k < w
    <2>1. (k - 1) * k > 0 /\ (k - 1) * k = k * k - k
      BY <1>1, SignOfProduct
    <2>2. k * k \in Int
      OBVIOUS
    <2> QED
      BY <2>1, <2>2
  <1>3. q \in Nat /\ n % k \in Nat /\ n = q * k + (n % k)
    BY DivOf
  <1>4. w <= q
    BY <1>2, <1>3
  <1> HIDE DEF w, q
  <1>5. q <= q * k
    <2>1. q * (k - 1) >= 0 /\ q * (k - 1) = q * k - q
      BY <1>1, <1>3, SignOfProduct
    <2>2. q * k \in Int
      BY <1>3
    <2> QED
      BY <1>3, <2>1, <2>2
  <1>6. q <= n /\ k < n
    <2>1. q * k \in Nat
      BY <1>3
    <2> QED
      BY <1>2, <1>3, <1>4, <1>5, <2>1
  <1>7. ASSUME n % k = 0 PROVE q # 0
    BY <1>3, <1>7
  <1>8. ASSUME n % w = 0
        PROVE  n \div w \in Nat \ {0} /\ n \div w < n /\ n = (n \div w) * w
    <2> DEFINE t == n \div w
    <2>1. t \in Nat /\ n = t * w + (n % w)
      BY <1>2, DivOf
    <2> HIDE DEF t
    <2>2. n = t * w
      BY <1>2, <1>8, <2>1
    <2>3. t # 0
      BY <1>2, <2>2
    <2>4. t * (w - 1) > 0 /\ t * (w - 1) = t * w - t
      BY <1>1, <1>2, <2>1, <2>3, SignOfProduct
    <2>5. t < n
      BY <2>1, <2>2, <2>4
    <2> QED
      BY <2>1, <2>2, <2>3, <2>5 DEF t
  <1> QED
    BY <1>3, <1>6, <1>7, <1>8 DEF w, q

(* Square(n) is positive, and its square is no larger than n. *)
LEMMA SquareIs == \A n \in Positives : Square(n) \in Positives /\ Square(n) * Square(n) <= n
  <1> DEFINE D == Positives \X Positives
             Body(p, f) == IF p[2] * p[2] > p[1] \div p[2] THEN RootOrOne(Isqrt(p[1]), p[1])
                           ELSE IF p[1] % (p[2] * p[2]) = 0
                                THEN p[2] * f[<<p[1] \div (p[2] * p[2]), p[2]>>]
                           ELSE f[<<IF p[1] % p[2] = 0 THEN p[1] \div p[2] ELSE p[1], p[2] + 1>>]
             F == [p \in D \X [D -> Positives] |-> IF p[1][2] = 1 THEN 1 ELSE Body(p[1], p[2])]
             rank == [p \in D |-> IF p[1] > p[2] THEN p[1] - p[2] ELSE 0]
             Ends(p) == p[2] * p[2] > p[1] \div p[2]
             Squared(p) == p[1] % (p[2] * p[2]) = 0
             Next1(p) == <<p[1] \div (p[2] * p[2]), p[2]>>
             Next2(p) == <<IF p[1] % p[2] = 0 THEN p[1] \div p[2] ELSE p[1], p[2] + 1>>
             Solves(f) == f = [p \in D |-> Body(p, f)]
  <1>1. ASSUME NEW p \in D
        PROVE  p = <<p[1], p[2]>> /\ p[1] \in Nat \ {0} /\ p[2] \in Nat \ {0} /\ rank[p] \in Nat
    BY DEF Positives
  <1>2. ASSUME NEW p \in D, p[2] # 1, ~Ends(p)
        PROVE  /\ Squared(p) => Next1(p) \in D /\ rank[Next1(p)] < rank[p]
               /\ Next2(p) \in D /\ rank[Next2(p)] < rank[p]
    <2> DEFINE n == p[1]
               k == p[2]
    <2>1. n \in Nat \ {0} /\ k \in Nat \ {0}
      BY <1>1
    <2>2. /\ k < n
          /\ Squared(p) => n \div (k * k) \in Nat \ {0} /\ n \div (k * k) < n
          /\ n % k = 0 => n \div k \in Nat \ {0}
          /\ n \div k <= n
      BY <1>2, <2>1, SquareGoesOn
    <2>3. rank[p] = n - k
      BY <2>1, <2>2
    <2>4. ASSUME NEW x \in Nat \ {0}, NEW y \in Nat \ {0}, y >= k, x <= n, x < n \/ y > k
          PROVE  <<x, y>> \in D /\ rank[<<x, y>>] < n - k
      <3>1. <<x, y>> \in D
        BY DEF Positives
      <3>2. rank[<<x, y>>] = IF x > y THEN x - y ELSE 0
        BY <3>1
      <3> HIDE DEF rank, D, n, k
      <3> QED
        BY <2>1, <2>2, <2>4, <3>1, <3>2
    <2>5. ASSUME Squared(p) PROVE Next1(p) \in D /\ rank[Next1(p)] < n - k
      <3> DEFINE x == n \div (k * k)
      <3>1. x \in Nat \ {0} /\ x < n /\ x <= n /\ k >= k
        BY <2>1, <2>2, <2>5
      <3>2. Next1(p) = <<x, k>>
        OBVIOUS
      <3> HIDE DEF x, rank, D, n, k, Next1
      <3> QED
        BY <2>1, <2>4, <3>1, <3>2
    <2>6. Next2(p) \in D /\ rank[Next2(p)] < n - k
      <3> DEFINE x == IF n % k = 0 THEN n \div k ELSE n
      <3>1. x \in Nat \ {0} /\ x <= n /\ k + 1 \in Nat \ {0} /\ k + 1 >= k /\ k + 1 > k
        BY <2>1, <2>2
      <3>2. Next2(p) = <<x, k + 1>>
        OBVIOUS
      <3> HIDE DEF x, rank, D, n, k, Next2
      <3> QED
        BY <2>1, <2>4, <3>1, <3>2
    <2> HIDE DEF rank, D, n, k, Next1, Next2, Squared
    <2> QED
      BY <2>3, <2>5, <2>6
  <1>3. \A p, f : Body(p, f) = IF Ends(p) THEN RootOrOne(Isqrt(p[1]), p[1])
                               ELSE IF Squared(p) THEN p[2] * f[Next1(p)]
                               ELSE f[Next2(p)]
    OBVIOUS
  <1>4. ASSUME NEW p \in D, NEW f \in [D -> Positives]
        PROVE  F[<<p, f>>] = (IF p[2] = 1 THEN 1 ELSE Body(p, f)) /\ F[<<p, f>>] \in Positives
    <2>1. F[<<p, f>>] = IF p[2] = 1 THEN 1 ELSE Body(p, f)
      OBVIOUS
    <2>2. p[1] \in Positives /\ 1 \in Positives /\ p[2] \in Positives
      BY DEF Positives
    <2>3. \A x, y \in Positives : x * y \in Positives
      <3> SUFFICES ASSUME NEW x \in Positives, NEW y \in Positives PROVE x * y \in Positives
        OBVIOUS
      <3>1. x \in Int /\ x > 0 /\ y \in Int /\ y > 0
        BY DEF Positives
      <3>2. x * y \in Int /\ x * y > 0
        BY <3>1, SignOfProduct
      <3> QED
        BY <3>2 DEF Positives
    <2> HIDE DEF F, D, rank, Body, Ends, Squared, Next1, Next2
    <2>4. RootOrOne(Isqrt(p[1]), p[1]) \in Positives
      BY <2>2, RootOrOneIs
    <2> QED
      BY <1>2, <1>3, <2>1, <2>2, <2>3, <2>4
  <1>5. F \in [D \X [D -> Positives] -> Positives]
    <2>1. F = [p \in D \X [D -> Positives] |-> F[p]]
      OBVIOUS
    <2> HIDE DEF F
    <2>2. \A q \in D \X [D -> Positives] : F[q] \in Positives
      <3> SUFFICES ASSUME NEW q \in D \X [D -> Positives] PROVE F[q] \in Positives
        OBVIOUS
      <3> HIDE DEF D
      <3>1. q = <<q[1], q[2]>> /\ q[1] \in D /\ q[2] \in [D -> Positives]
        OBVIOUS
      <3> QED
        BY <1>4, <3>1
    <2> QED
      BY <2>1, <2>2
  <1>6. Descends(F, rank, D, Positives)
    <2> SUFFICES ASSUME NEW p \in D, NEW f \in [D -> Positives], NEW g \in [D -> Positives],
                        \A y \in D : rank[y] < rank[p] => f[y] = g[y]
                 PROVE  F[<<p, f>>] = F[<<p, g>>]
      BY DEF Descends
    <2> HIDE DEF F, D, rank, Body, Ends, Squared, Next1, Next2
    <2>1. CASE p[2] = 1
      BY <1>4, <2>1
    <2>2. CASE p[2] # 1
      <3>1. ~Ends(p) => (Squared(p) => f[Next1(p)] = g[Next1(p)]) /\ f[Next2(p)] = g[Next2(p)]
        BY <1>2, <2>2
      <3>2. Body(p, f) = Body(p, g)
        BY <1>3, <3>1
      <3> QED
        BY <1>4, <3>2
    <2> QED
      BY <2>1, <2>2
  <1>7. Positives # {} /\ rank \in [D -> Nat]
    <2>1. Positives # {}
      BY DEF Positives
    <2>2. rank = [p \in D |-> rank[p]]
      OBVIOUS
    <2> HIDE DEF rank, D
    <2> QED
      BY <1>1, <2>1, <2>2
  <1>8. PICK f \in [D -> Positives] : Recurs(f, F, D)
    <2> HIDE DEF D, F, rank
    <2> QED
      BY <1>5, <1>6, <1>7, RecursionExists, Zenon
  <1>9. ASSUME NEW p \in D PROVE f[p] = Body(p, f)
    <2>1. f[p] = IF p[2] = 1 THEN 1 ELSE Body(p, f)
      <3> HIDE DEF D, F, Body
      <3> QED
        BY <1>4, <1>8 DEF Recurs
    <2>2. CASE p[2] = 1
      <3>1. p[1] \in Nat \ {0} /\ p = <<p[1], 1>>
        BY <1>1, <2>2
      <3>2. 1 * 1 = 1 /\ p[1] \div 1 = p[1] /\ p[1] % 1 = 0 /\ ~(1 > p[1])
        BY <3>1
      <3>3. ~Ends(p) /\ Squared(p) /\ Next1(p) = p
        BY <2>2, <3>1, <3>2
      <3> HIDE DEF D, F, Body, Ends, Squared, Next1, Next2
      <3>4. Body(p, f) = 1 * f[p]
        BY <1>3, <2>2, <3>3
      <3>5. f[p] = 1
        BY <2>1, <2>2
      <3> QED
        BY <3>4, <3>5
    <2> HIDE DEF Body
    <2> QED
      BY <2>1, <2>2
  <1>10. Solves(f)
    <2> HIDE DEF Body, D
    <2>1. f = [p \in D |-> f[p]]
      BY <1>8
    <2> QED
      BY <1>9, <2>1
  <1>11. SquareFrom = CHOOSE e : Solves(e)
    BY DEF SquareFrom
  <1>12. Solves(SquareFrom)
    <2> HIDE DEF Solves
    <2> QED
      BY <1>10, <1>11
  <1>13. \A p \in D : SquareFrom[p] = Body(p, SquareFrom)
    <2> HIDE DEF Body, D
    <2> QED
      BY ONLY <1>12
  <1> DEFINE Good(p) == SquareFrom[p] \in Positives /\ SquareFrom[p] * SquareFrom[p] <= p[1]
             T == {m \in Nat : \A p \in D : p[2] # 1 /\ rank[p] < m => Good(p)}
  <1>14. ASSUME NEW p \in D, p[2] # 1,
                \A y \in D : y[2] # 1 /\ rank[y] < rank[p] => Good(y)
         PROVE  Good(p)
    <2> DEFINE n == p[1]
               k == p[2]
    <2>1. n \in Nat \ {0} /\ k \in Nat \ {0} /\ n \in Positives
      BY <1>1 DEF Positives
    <2>2. CASE Ends(p)
      <3>1. SquareFrom[p] = RootOrOne(Isqrt(n), n)
        <4> HIDE DEF D, Body, Ends, Squared, Next1, Next2
        <4> QED
          BY <1>3, <1>13, <2>2
      <3> QED
        BY <2>1, <3>1, RootOrOneIs
    <2>3. CASE ~Ends(p) /\ Squared(p)
      <3> DEFINE s == SquareFrom[Next1(p)]
      <3>1. Next1(p) \in D /\ rank[Next1(p)] < rank[p] /\ SquareFrom[p] = k * s
        <4> HIDE DEF D, Body, Ends, Squared, Next1, Next2, rank
        <4> QED
          BY <1>2, <1>3, <1>13, <1>14, <2>3
      <3>2. Next1(p)[2] # 1 /\ Next1(p)[1] = n \div (k * k)
        BY <1>14
      <3>3. Good(Next1(p))
        <4> HIDE DEF D, Next1, rank, Good
        <4> QED
          BY <1>14, <3>1, <3>2
      <3>4. n = (n \div (k * k)) * (k * k) /\ n \div (k * k) \in Nat
        BY <1>14, <2>1, <2>3, SquareGoesOn
      <3>5. s \in Nat \ {0} /\ s * s <= n \div (k * k)
        <4> HIDE DEF Next1
        <4> QED
          BY <3>2, <3>3 DEF Positives
      <3> HIDE DEF s, n, k
      <3> DEFINE t == n \div (k * k)
                 w == k * k
                 ss == s * s
      <3>6. w \in Nat \ {0} /\ ss \in Int
        <4>1. w \in Int /\ w > 0 /\ ss \in Int
          BY <2>1, <3>5, SignOfProduct
        <4> QED
          BY <4>1
      <3>7. (k * s) * (k * s) = ss * w
        BY <2>1, <3>5
      <3>8. t \in Nat /\ ss <= t /\ n = t * w
        BY <3>4, <3>5
      <3> HIDE DEF t, w, ss
      <3>9. ss * w <= t * w
        <4>1. (t - ss) * w >= 0 /\ (t - ss) * w = t * w - ss * w
          BY <3>6, <3>8, SignOfProduct
        <4>2. t * w \in Int /\ ss * w \in Int
          BY <3>6, <3>8
        <4> QED
          BY <4>1, <4>2
      <3>10. k * s \in Int /\ k * s > 0
        BY <2>1, <3>5, SignOfProduct
      <3>11. k * s \in Positives /\ (k * s) * (k * s) <= n
        BY <3>7, <3>8, <3>9, <3>10 DEF Positives
      <3>12. SquareFrom[p] = k * s
        BY <3>1 DEF s, k
      <3> QED
        BY <3>11, <3>12 DEF n
    <2>4. CASE ~Ends(p) /\ ~Squared(p)
      <3>1. Next2(p) \in D /\ rank[Next2(p)] < rank[p] /\ SquareFrom[p] = SquareFrom[Next2(p)]
        <4> HIDE DEF D, Body, Ends, Squared, Next1, Next2, rank
        <4> QED
          BY <1>2, <1>3, <1>13, <1>14, <2>4
      <3>2. Next2(p)[2] # 1 /\ Next2(p)[1] \in Nat /\ Next2(p)[1] <= n
        <4>1. n \div k <= n /\ (n % k = 0 => n \div k \in Nat \ {0})
          BY <1>14, <2>1, <2>4, SquareGoesOn
        <4> QED
          BY <2>1, <4>1
      <3>3. Good(Next2(p))
        <4> HIDE DEF D, Next2, rank, Good
        <4> QED
          BY <1>14, <3>1, <3>2
      <3> HIDE DEF Next2
      <3>4. SquareFrom[Next2(p)] * SquareFrom[Next2(p)] \in Int
        BY <3>3 DEF Positives
      <3> QED
        BY <2>1, <3>1, <3>2, <3>3, <3>4
    <2> QED
      BY <2>2, <2>3, <2>4
  <1> HIDE DEF D, rank, Good
  <1>15. T = Nat
    <2>1. 0 \in T
      <3>1. \A p \in D : ~(rank[p] < 0)
        BY <1>7
      <3> QED
        BY <3>1
    <2>2. ASSUME NEW m \in T PROVE m + 1 \in T
      <3>1. m \in Nat /\ m + 1 \in Nat
        OBVIOUS
      <3>2. ASSUME NEW p \in D, p[2] # 1, rank[p] < m + 1 PROVE Good(p)
        <4>1. ASSUME NEW y \in D, y[2] # 1, rank[y] < rank[p] PROVE Good(y)
          <5>1. rank[y] \in Nat /\ rank[p] \in Nat
            BY <1>7
          <5>2. rank[y] < m
            BY <3>1, <3>2, <4>1, <5>1
          <5> QED
            BY <4>1, <5>2
        <4> QED
          BY <1>14, <3>2, <4>1
      <3> QED
        BY <3>1, <3>2
    <2> HIDE DEF T
    <2>3. T \in SUBSET Nat
      BY DEF T
    <2> QED
      BY <2>1, <2>2, <2>3, SetOfNaturals
  <1> TAKE n \in Positives
  <1>16. <<n, 2>> \in D /\ 2 # 1
    BY DEF D, Positives
  <1>17. rank[<<n, 2>>] \in Nat
    BY <1>7, <1>16
  <1>18. rank[<<n, 2>>] + 1 \in T /\ rank[<<n, 2>>] < rank[<<n, 2>>] + 1
    BY <1>15, <1>17
  <1>19. Good(<<n, 2>>)
    BY <1>16, <1>18
  <1> QED
    BY <1>19 DEF Good, Square

-----------------------------------------------------------------------------
(* Folds of a vector. *)

LEMMA SumIntIs ==
  ASSUME NEW D, IsFiniteSet(D), NEW f \in [D -> Int]
  PROVE  /\ SumInt(f) \in Int
         /\ (\A i \in D : f[i] >= 0) => /\ SumInt(f) >= 0
                                        /\ (\E i \in D : f[i] > 0) => SumInt(f) > 0
  <1>1. SumInt(f) = SumFunctionOnSet(f, D)
    BY DEF SumInt, FoldFunction, SumFunctionOnSet
  <1>2. \A x \in D : f[x] \in Int
    OBVIOUS
  <1>3. PICK it : Accumulates(it, f, D) /\ SumFunctionOnSet(f, D) = it[D]
    BY <1>2, SumSolves
  <1>4. \A s \in SUBSET D : it[s] \in Int
    BY <1>2, <1>3, AccumulatesInt
  <1>5. ASSUME \A i \in D : f[i] >= 0
        PROVE  it[D] >= 0 /\ ((\E i \in D : f[i] > 0) => it[D] > 0)
    <2> DEFINE C == {s \in SUBSET D : it[s] >= 0 /\ ((\E i \in s : f[i] > 0) => it[s] > 0)}
    <2>1. ASSUME NEW s \in SUBSET D, \A x \in s : s \ {x} \in C PROVE s \in C
      <3>1. it[s] = IF s = {} THEN 0 ELSE f[Picked(s)] + it[s \ {Picked(s)}]
        BY <1>3 DEF Accumulates
      <3>2. CASE s = {}
        BY <3>1, <3>2
      <3>3. CASE s # {}
        <4> DEFINE p == Picked(s)
                   t == s \ {p}
        <4>1. p \in s
          BY <3>3, PickedIn
        <4>2. t \in C /\ it[s] = f[p] + it[t]
          BY <2>1, <3>1, <3>3, <4>1
        <4>3. it[t] \in Int /\ it[t] >= 0 /\ f[p] \in Int /\ f[p] >= 0
          BY <1>4, <1>5, <4>1, <4>2
        <4>4. it[s] >= 0
          BY <4>2, <4>3
        <4>5. ASSUME NEW i \in s, f[i] > 0 PROVE it[s] > 0
          <5>1. CASE i = p
            BY <4>2, <4>3, <4>5, <5>1
          <5>2. CASE i # p
            BY <4>2, <4>3, <4>5, <5>2
          <5> QED
            BY <5>1, <5>2
        <4> QED
          BY <4>4, <4>5
      <3> QED
        BY <3>2, <3>3
    <2>2. \A s \in SUBSET D : s \in C
      <3> HIDE DEF C
      <3> QED
        BY <2>1, SubsetInduction
    <2> QED
      BY <2>2
  <1> QED
    BY <1>1, <1>3, <1>4, <1>5

Divisors(it, f, D) ==
  it = [s \in SUBSET D |->
          IF s = {} THEN 0 ELSE Gcd(Abs(f[Picked(s)]), Abs(it[s \ {Picked(s)}]))]

LEMMA AllGcdIs ==
  ASSUME NEW D, IsFiniteSet(D), NEW f \in [D -> Int]
  PROVE  FoldFunction(LAMBDA x, y : Gcd(Abs(x), Abs(y)), 0, f) \in Nat
  <1> DEFINE Pick == [s \in SUBSET D |-> Picked(s)]
             Step == [p \in Int \X D |-> Gcd(Abs(f[p[2]]), Abs(p[1]))]
  <1>1. Picks(Pick, D)
    BY PickedIn DEF Picks
  <1>2. \A x, y \in Int : Gcd(Abs(x), Abs(y)) \in Nat
    BY AbsIs, GcdIs
  <1>3. Step \in [Int \X D -> Int]
    BY <1>2
  <1>4. PICK g \in [SUBSET D -> Int] : Folds(g, D, 0, Step, Pick)
    <2>1. 0 \in Int
      OBVIOUS
    <2> HIDE DEF Pick, Step
    <2> QED
      BY <1>1, <1>3, <2>1, FoldExists, Zenon
  <1>5. Divisors(g, f, D)
    <2>1. ASSUME NEW s \in SUBSET D
          PROVE  g[s] = IF s = {} THEN 0 ELSE Gcd(Abs(f[Picked(s)]), Abs(g[s \ {Picked(s)}]))
      <3>1. CASE s = {}
        BY <1>4, <3>1 DEF Folds
      <3>2. CASE s # {}
        <4>1. g[s \ {Pick[s]}] \in Int /\ Pick[s] \in D /\ Pick[s] = Picked(s)
          BY <1>1, <3>2 DEF Picks
        <4> QED
          BY <1>4, <3>2, <4>1 DEF Folds
      <3> QED
        BY <3>1, <3>2
    <2> QED
      BY <2>1 DEF Divisors
  <1> DEFINE it == CHOOSE h : Divisors(h, f, D)
  <1>6. Divisors(it, f, D)
    BY <1>5
  <1>7. FoldFunction(LAMBDA x, y : Gcd(Abs(x), Abs(y)), 0, f) = it[D]
    BY DEF FoldFunction, FoldFunctionOnSet, MapThenFoldSet, Divisors, Picked
  <1> DEFINE C == {s \in SUBSET D : it[s] \in Nat}
  <1>8. ASSUME NEW s \in SUBSET D, \A x \in s : s \ {x} \in C PROVE s \in C
    <2>1. it[s] = IF s = {} THEN 0 ELSE Gcd(Abs(f[Picked(s)]), Abs(it[s \ {Picked(s)}]))
      BY <1>6 DEF Divisors
    <2> HIDE DEF it
    <2>2. CASE s # {}
      <3>1. Picked(s) \in s
        BY <2>2, PickedIn
      <3>2. f[Picked(s)] \in Int
        BY <3>1
      <3>3. it[s \ {Picked(s)}] \in Int
        BY <1>8, <3>1
      <3>4. Gcd(Abs(f[Picked(s)]), Abs(it[s \ {Picked(s)}])) \in Nat
        BY <1>2, <3>2, <3>3
      <3> QED
        BY <2>1, <2>2, <3>4
    <2> QED
      BY <2>1, <2>2
  <1>9. \A s \in SUBSET D : s \in C
    <2> HIDE DEF C
    <2> QED
      BY <1>8, SubsetInduction
  <1> QED
    BY <1>7, <1>9

Multiples(it, f, D) ==
  it = [s \in SUBSET D |->
          IF s = {} THEN 1
          ELSE (f[Picked(s)][2] \div Gcd(f[Picked(s)][2], it[s \ {Picked(s)}])) * it[s \ {Picked(s)}]]

LEMMA AllLcmIs ==
  ASSUME NEW D, IsFiniteSet(D), NEW f \in [D -> Rat]
  PROVE  FoldFunction(LAMBDA x, y : (x[2] \div Gcd(x[2], y)) * y, 1, f) \in Nat \ {0}
  <1> DEFINE P == Nat \ {0}
             Pick == [s \in SUBSET D |-> Picked(s)]
             Step == [p \in P \X D |-> (f[p[2]][2] \div Gcd(f[p[2]][2], p[1])) * p[1]]
  <1>1. Picks(Pick, D)
    BY PickedIn DEF Picks
  <1>2. \A m, n \in P : (m \div Gcd(m, n)) * n \in P
    <2> SUFFICES ASSUME NEW m \in P, NEW n \in P PROVE (m \div Gcd(m, n)) * n \in P
      OBVIOUS
    <2>1. Gcd(m, n) \in P /\ Divides(Gcd(m, n), m)
      BY GcdIs
    <2> DEFINE k == m \div Gcd(m, n)
    <2>2. k \in Int /\ k * Gcd(m, n) = m
      BY <2>1, DividesExact
    <2> HIDE DEF k
    <2>3. k \in P
      <3>1. \A g \in P : k * g > 0 => k > 0
        BY <2>2
      <3> QED
        BY <2>1, <2>2, <3>1
    <2>4. \A a, b \in P : a * b \in P
      OBVIOUS
    <2> QED
      BY <2>3, <2>4 DEF k
  <1>3. \A i \in D : f[i][2] \in P
    BY DEF Rat, Positives
  <1>4. Step \in [P \X D -> P]
    BY <1>2, <1>3
  <1>5. PICK g \in [SUBSET D -> P] : Folds(g, D, 1, Step, Pick)
    <2>1. 1 \in P
      OBVIOUS
    <2> HIDE DEF Pick, Step, P
    <2> QED
      BY <1>1, <1>4, <2>1, FoldExists, Zenon
  <1>6. Multiples(g, f, D)
    <2>1. ASSUME NEW s \in SUBSET D
          PROVE  g[s] = IF s = {} THEN 1
                        ELSE (f[Picked(s)][2] \div Gcd(f[Picked(s)][2], g[s \ {Picked(s)}]))
                             * g[s \ {Picked(s)}]
      <3>1. CASE s = {}
        BY <1>5, <3>1 DEF Folds
      <3>2. CASE s # {}
        <4>1. g[s \ {Pick[s]}] \in P /\ Pick[s] \in D /\ Pick[s] = Picked(s)
          BY <1>1, <3>2 DEF Picks
        <4>2. g[s] = Step[<<g[s \ {Pick[s]}], Pick[s]>>]
          BY <1>5, <3>2 DEF Folds
        <4> HIDE DEF P
        <4> QED
          BY <3>2, <4>1, <4>2
      <3> QED
        BY <3>1, <3>2
    <2> QED
      BY <2>1 DEF Multiples
  <1> DEFINE it == CHOOSE h : Multiples(h, f, D)
  <1>7. Multiples(it, f, D)
    BY <1>6
  <1>8. FoldFunction(LAMBDA x, y : (x[2] \div Gcd(x[2], y)) * y, 1, f) = it[D]
    BY DEF FoldFunction, FoldFunctionOnSet, MapThenFoldSet, Multiples, Picked
  <1> DEFINE C == {s \in SUBSET D : it[s] \in P}
  <1>9. ASSUME NEW s \in SUBSET D, \A x \in s : s \ {x} \in C PROVE s \in C
    <2>1. it[s] = IF s = {} THEN 1
                  ELSE (f[Picked(s)][2] \div Gcd(f[Picked(s)][2], it[s \ {Picked(s)}]))
                       * it[s \ {Picked(s)}]
      BY <1>7 DEF Multiples
    <2> HIDE DEF it
    <2>2. CASE s # {}
      <3>1. Picked(s) \in s
        BY <2>2, PickedIn
      <3>2. f[Picked(s)][2] \in P /\ it[s \ {Picked(s)}] \in P
        BY <1>3, <1>9, <3>1
      <3> HIDE DEF P
      <3> QED
        BY <1>2, <2>1, <2>2, <3>2
    <2> QED
      BY <2>1, <2>2
  <1>10. \A s \in SUBSET D : s \in C
    <2> HIDE DEF C
    <2> QED
      BY <1>9, SubsetInduction
  <1> QED
    BY <1>8, <1>10

-----------------------------------------------------------------------------
(* Vectors. *)

Vectors(D) == [c : PosRat, q : PosRat, dir : [D -> Int]]

LEMMA PosRatIs ==
  /\ One \in PosRat /\ Nil \in Rat /\ PosRat \subseteq Rat
  /\ \A n \in Int : <<n, 1>> \in Rat
  /\ \A m, n \in Nat \ {0} : <<m, n>> \in PosRat
  /\ \A a \in PosRat : a[1] \in Nat \ {0} /\ a[2] \in Nat \ {0} /\ a[1] # 0 /\ a = <<a[1], a[2]>>
  BY DEF PosRat, Rat, One, Nil, Positives

LEMMA PosRatOps ==
  ASSUME NEW a \in PosRat, NEW b \in PosRat
  PROVE  Mul(a, b) \in PosRat /\ Div(a, b) \in PosRat /\ Inv(a) \in PosRat
  <1>1. a \in Rat /\ b \in Rat /\ a[1] > 0 /\ b[1] > 0 /\ a[1] # 0 /\ b[1] # 0
    BY DEF PosRat, Rat, Positives
  <1>2. Mul(a, b) \in Rat /\ Mul(a, b)[1] > 0
    BY <1>1, MulIs
  <1>3. Div(a, b) \in Rat /\ Div(a, b)[1] > 0
    BY <1>1, DivIs
  <1>4. Inv(a) \in Rat /\ Inv(a)[1] > 0
    BY <1>1, InvIs
  <1> QED
    BY <1>2, <1>3, <1>4 DEF PosRat

(* The root of a vector. *)
LEMMA VectorIs ==
  ASSUME NEW D, NEW v \in Vectors(D)
  PROVE  v.c \in PosRat /\ v.q \in PosRat /\ v.dir \in [D -> Int] /\ DOMAIN v.dir = D
  BY DEF Vectors

LEMMA NilsIs == ASSUME NEW D PROVE Nils(D) \in Vectors(D)
  BY PosRatIs DEF Nils, Vectors

(* Integers without common divisor. *)
LEMMA PrimitiveIs ==
  ASSUME NEW D, IsFiniteSet(D), NEW c \in PosRat, NEW q \in PosRat, NEW dir \in [D -> Int]
  PROVE  Primitive(c, q, dir) \in Vectors(D)
  <1>1. ASSUME NEW g \in Nat PROVE PrimitiveBy(g, c, q, dir) \in Vectors(D)
    <2>1. CASE g = 0
      BY <2>1, NilsIs DEF PrimitiveBy
    <2>2. CASE g # 0
      <3>1. Mul(c, <<g, 1>>) \in PosRat
        BY <2>2, PosRatIs, PosRatOps
      <3>2. [i \in DOMAIN dir |-> dir[i] \div g] \in [D -> Int]
        <4>1. \A i \in D : dir[i] \div g \in Int
          BY <2>2
        <4> QED
          BY <4>1
      <3> QED
        BY <2>2, <3>1, <3>2 DEF PrimitiveBy, Vectors
    <2> QED
      BY <2>1, <2>2
  <1>2. FoldFunction(LAMBDA x, y : Gcd(Abs(x), Abs(y)), 0, dir) \in Nat
    BY AllGcdIs
  <1> QED
    BY <1>1, <1>2 DEF Primitive

(* The squares in a vector of roots. *)
LEMMA SquaresIs ==
  ASSUME NEW a \in Rat, a[1] # 0
  PROVE  /\ Squares(a) = <<Squares(a)[1], Squares(a)[2]>>
         /\ Squares(a)[1] \in Nat \ {0} /\ Squares(a)[2] \in Nat \ {0}
         /\ Squares(a) \in PosRat
         /\ Abs(a[1]) \div (Squares(a)[1] * Squares(a)[1]) \in Nat \ {0}
         /\ a[2] \div (Squares(a)[2] * Squares(a)[2]) \in Nat \ {0}
  <1>1. a[1] \in Int /\ a[2] \in Nat \ {0}
    BY RatIs
  <1>2. Abs(a[1]) \in Nat \ {0}
    BY <1>1, AbsIs
  <1>3. \A n \in Nat \ {0} : Square(n) \in Nat \ {0} /\ Square(n) * Square(n) <= n
    BY SquareIs DEF Positives
  <1>4. \A n \in Nat \ {0} : \A m \in Nat \ {0} : m * m <= n => n \div (m * m) \in Nat \ {0}
    <2> SUFFICES ASSUME NEW n \in Nat \ {0}, NEW m \in Nat \ {0}, m * m <= n
                 PROVE  n \div (m * m) \in Nat \ {0}
      OBVIOUS
    <2> DEFINE k == m * m
    <2>1. k \in Nat \ {0}
      OBVIOUS
    <2>2. k <= n
      OBVIOUS
    <2> HIDE DEF k
    <2>3. n \div k \in Nat /\ n % k \in Nat /\ n % k < k /\ n = (n \div k) * k + (n % k)
      BY <2>1, DivOf
    <2>4. n \div k # 0
      BY <2>1, <2>2, <2>3
    <2> QED
      BY <2>3, <2>4 DEF k
  <1> DEFINE m1 == Square(Abs(a[1]))
             m2 == Square(a[2])
  <1>5. /\ m1 \in Nat \ {0} /\ Abs(a[1]) \div (m1 * m1) \in Nat \ {0}
        /\ m2 \in Nat \ {0} /\ a[2] \div (m2 * m2) \in Nat \ {0}
    <2>1. m1 \in Nat \ {0} /\ m1 * m1 <= Abs(a[1])
      BY <1>2, <1>3
    <2>2. m2 \in Nat \ {0} /\ m2 * m2 <= a[2]
      BY <1>1, <1>3
    <2> HIDE DEF m1, m2
    <2>3. Abs(a[1]) \div (m1 * m1) \in Nat \ {0}
      BY <1>2, <1>4, <2>1
    <2>4. a[2] \div (m2 * m2) \in Nat \ {0}
      BY <1>1, <1>4, <2>2
    <2> QED
      BY <2>1, <2>2, <2>3, <2>4
  <1>6. Squares(a) = <<m1, m2>>
    BY DEF Squares
  <1> HIDE DEF m1, m2
  <1>7. Squares(a)[1] = m1 /\ Squares(a)[2] = m2
    BY <1>6
  <1>8. Squares(a) \in PosRat
    BY <1>5, <1>6, PosRatIs
  <1> QED
    BY <1>5, <1>6, <1>7, <1>8

LEMMA RootIs ==
  ASSUME NEW a \in PosRat
  PROVE  Root(a) \in PosRat
  <1>1. a \in Rat /\ a[1] # 0
    BY PosRatIs
  <1>2. Squares(a) \in PosRat
    BY <1>1, SquaresIs
  <1> QED
    BY <1>2, PosRatIs DEF Root, CheckedRoot

LEMMA ExactQuotient ==
  ASSUME NEW m \in Nat \ {0}, NEW n \in Nat \ {0}
  PROVE  Gcd(m, n) \in Nat \ {0} /\ m \div Gcd(m, n) \in Nat \ {0} /\ n \div Gcd(m, n) \in Nat \ {0}
  <1>1. Gcd(m, n) \in Nat \ {0} /\ Divides(Gcd(m, n), m) /\ Divides(Gcd(m, n), n)
    BY GcdIs
  <1>2. ASSUME NEW g \in Nat \ {0}, NEW x \in Nat \ {0}, Divides(g, x)
        PROVE  x \div g \in Nat \ {0}
    <2> DEFINE k == x \div g
    <2>1. k \in Int /\ k * g = x
      BY <1>2, DividesExact
    <2> HIDE DEF k
    <2>2. k > 0
      BY <2>1
    <2> QED
      BY <2>1, <2>2 DEF k
  <1> QED
    BY <1>1, <1>2

(* Products with a root and sums are vectors of the same length. *)
LEMMA ScaleIs ==
  ASSUME NEW D, NEW s \in Rat, NEW v \in Vectors(D)
  PROVE  Scale(s, v) \in Vectors(D)
  <1>1. CASE s = Nil
    BY <1>1, NilsIs, VectorIs DEF Scale
  <1>2. CASE s # Nil
    <2>1. s[1] # 0
      BY <1>2, RatIs
    <2> DEFINE m == Squares(s)
               f1 == Abs(s[1]) \div (m[1] * m[1])
               f2 == s[2] \div (m[2] * m[2])
               f == <<f1, f2>>
               g1 == Gcd(f1, v.q[1])
               g2 == Gcd(f2, v.q[2])
    <2>2. m \in PosRat /\ f1 \in Nat \ {0} /\ f2 \in Nat \ {0}
      BY <2>1, SquaresIs
    <2>3. v.c \in PosRat /\ v.q[1] \in Nat \ {0} /\ v.q[2] \in Nat \ {0} /\ v.dir \in [D -> Int]
      BY VectorIs, PosRatIs
    <2> HIDE DEF m, f1, f2
    <2>4. /\ g1 \in Nat \ {0} /\ f1 \div g1 \in Nat \ {0} /\ v.q[1] \div g1 \in Nat \ {0}
          /\ g2 \in Nat \ {0} /\ f2 \div g2 \in Nat \ {0} /\ v.q[2] \div g2 \in Nat \ {0}
      BY <2>2, <2>3, ExactQuotient
    <2>5. Scale(s, v) = ScaleShared(<<g1, g2>>, f, m, Positive(s), v)
      BY <1>2 DEF Scale, ScaleSquares, ScaleSquareFree, m, f1, f2
    <2> HIDE DEF g1, g2
    <2>6. Ratio(g1, g2) \in PosRat
      <3>1. g1 \in Int /\ g1 > 0 /\ g2 \in Nat \ {0}
        BY <2>4
      <3>2. Ratio(g1, g2) \in Rat /\ Ratio(g1, g2)[1] > 0
        BY <3>1, RatioIs
      <3> QED
        BY <3>2 DEF PosRat
    <2>7. Mul(Mul(v.c, m), Ratio(g1, g2)) \in PosRat
      BY <2>2, <2>3, <2>6, PosRatOps
    <2>8. <<f1 \div g1, f2 \div g2>> \in PosRat /\ <<v.q[1] \div g1, v.q[2] \div g2>> \in PosRat
      BY <2>4, PosRatIs
    <2>9. Mul(<<f1 \div g1, f2 \div g2>>, <<v.q[1] \div g1, v.q[2] \div g2>>) \in PosRat
      BY <2>8, PosRatOps
    <2>10. (IF Positive(s) THEN v.dir ELSE [i \in DOMAIN v.dir |-> -v.dir[i]]) \in [D -> Int]
      BY <2>3
    <2>11. ScaleShared(<<g1, g2>>, f, m, Positive(s), v)
             = [c |-> Mul(Mul(v.c, m), Ratio(g1, g2)),
                q |-> Mul(<<f1 \div g1, f2 \div g2>>, <<v.q[1] \div g1, v.q[2] \div g2>>),
                dir |-> IF Positive(s) THEN v.dir ELSE [i \in DOMAIN v.dir |-> -v.dir[i]]]
      BY DEF ScaleShared
    <2> QED
      BY <2>5, <2>7, <2>9, <2>10, <2>11 DEF Vectors
  <1> QED
    BY <1>1, <1>2

LEMMA PlusIs ==
  ASSUME NEW D, IsFiniteSet(D), NEW v \in Vectors(D), NEW w \in Vectors(D)
  PROVE  Plus(v, w) \in Vectors(D)
  <1>1. /\ v.c \in PosRat /\ v.q \in PosRat /\ v.dir \in [D -> Int] /\ DOMAIN v.dir = D
        /\ w.c \in PosRat /\ w.q \in PosRat /\ w.dir \in [D -> Int] /\ DOMAIN w.dir = D
    BY VectorIs
  <1>2. ASSUME NEW t \in PosRat PROVE PlusBy(t, v, w) \in Vectors(D)
    <2>1. t[1] \in Int /\ t[2] \in Int /\ <<t[2], 1>> \in PosRat
      BY PosRatIs
    <2>2. Div(v.c, <<t[2], 1>>) \in PosRat
      BY <1>1, <2>1, PosRatOps
    <2>3. [i \in DOMAIN v.dir |-> t[2] * v.dir[i] + t[1] * w.dir[i]] \in [D -> Int]
      BY <1>1, <2>1
    <2> QED
      BY <1>1, <2>2, <2>3, PrimitiveIs DEF PlusBy
  <1>3. Mul(Div(w.c, v.c), Root(Div(w.q, v.q))) \in PosRat
    BY <1>1, PosRatOps, RootIs
  <1> QED
    BY <1>2, <1>3 DEF Plus

LEMMA MinusIs ==
  ASSUME NEW D, IsFiniteSet(D), NEW v \in Vectors(D), NEW w \in Vectors(D)
  PROVE  Minus(v, w) \in Vectors(D)
  <1>1. <<-1, 1>> \in Rat
    BY PosRatIs
  <1> QED
    BY <1>1, ScaleIs, PlusIs DEF Minus

LEMMA DotDirIs ==
  ASSUME NEW D, IsFiniteSet(D), NEW a \in [D -> Int], NEW b \in [D -> Int]
  PROVE  /\ DotDir(a, b) \in Int
         /\ a = b => /\ DotDir(a, b) >= 0
                     /\ (\E i \in D : a[i] # 0) => DotDir(a, b) > 0
  <1> DEFINE f == [i \in D |-> a[i] * b[i]]
  <1>1. f \in [D -> Int] /\ DotDir(a, b) = SumInt(f)
    BY DEF DotDir
  <1>2. \A n \in Int : n * n >= 0 /\ (n # 0 => n * n > 0)
    BY SignOfProduct
  <1>3. a = b => (\A i \in D : f[i] >= 0) /\ ((\E i \in D : a[i] # 0) => \E i \in D : f[i] > 0)
    BY <1>2
  <1> HIDE DEF f
  <1> QED
    BY <1>1, <1>3, SumIntIs

(* Inner products are rationals; of a vector with itself, positive or 0. *)
LEMMA DotIs ==
  ASSUME NEW D, IsFiniteSet(D), NEW v \in Vectors(D), NEW w \in Vectors(D)
  PROVE  /\ Dot(v, w) \in Rat /\ DotRoot(v, w) \in Rat
         /\ NormSq(v) \in Rat /\ NormSq(v)[1] >= 0
         /\ ~IsNil(v) => NormSq(v)[1] > 0
  <1>1. /\ v.c \in PosRat /\ v.q \in PosRat /\ v.dir \in [D -> Int] /\ DOMAIN v.dir = D
        /\ w.c \in PosRat /\ w.q \in PosRat /\ w.dir \in [D -> Int] /\ DOMAIN w.dir = D
    BY VectorIs
  <1>2. ASSUME NEW x \in Vectors(D)
        PROVE  Mul(Mul(v.c, x.c), Mul(v.q, Root(Div(x.q, v.q)))) \in PosRat
    <2>1. x.c \in PosRat /\ x.q \in PosRat
      BY VectorIs
    <2> QED
      BY <1>1, <2>1, PosRatOps, RootIs
  <1>3. DotDir(v.dir, w.dir) \in Int /\ DotDir(v.dir, v.dir) \in Int
    BY <1>1, DotDirIs
  <1>4. <<DotDir(v.dir, w.dir), 1>> \in Rat /\ <<DotDir(v.dir, v.dir), 1>> \in Rat
    BY <1>3, PosRatIs
  <1>5. Dot(v, w) \in Rat
    <2>1. Mul(Mul(v.c, w.c), Mul(v.q, Root(Div(w.q, v.q)))) \in Rat
      BY <1>2, PosRatIs
    <2> QED
      BY <1>4, <2>1, MulIs DEF Dot
  <1>6. NormSq(v) \in Rat /\ NormSq(v)[1] >= 0 /\ (~IsNil(v) => NormSq(v)[1] > 0)
    <2> DEFINE a == Mul(Mul(v.c, v.c), Mul(v.q, Root(Div(v.q, v.q))))
               n == DotDir(v.dir, v.dir)
               b == <<n, 1>>
    <2>1. a \in Rat /\ a[1] > 0 /\ a[1] >= 0
      BY <1>2 DEF PosRat, Rat
    <2>2. n >= 0 /\ (~IsNil(v) => n > 0)
      BY <1>1, DotDirIs DEF IsNil
    <2>3. NormSq(v) = Mul(a, b)
      BY DEF NormSq, Dot
    <2>4. b \in Rat /\ b[1] = n
      BY <1>4
    <2> HIDE DEF a, n, b
    <2> QED
      BY <2>1, <2>2, <2>3, <2>4, MulIs
  <1>7. DotRoot(v, w) \in Rat
    <2> DEFINE r == Mul(Mul(v.c, w.c), <<DotDir(v.dir, w.dir), 1>>)
    <2>1. Mul(v.c, w.c) \in Rat /\ Mul(v.q, w.q) \in Rat
      BY <1>1, PosRatOps, PosRatIs
    <2>2. r \in Rat
      BY <1>4, <2>1, MulIs
    <2>3. DotRoot(v, w) = Mul(r, Mul(Magnitude(r), Mul(v.q, w.q)))
      BY DEF DotRoot, DotRootBy
    <2> HIDE DEF r
    <2> QED
      BY <2>1, <2>2, <2>3, MulIs, NegIs
  <1> QED
    BY <1>5, <1>6, <1>7

LEMMA VecIs ==
  ASSUME NEW D, IsFiniteSet(D), NEW xs \in [D -> Rat]
  PROVE  Vec(xs) \in Vectors(D)
  <1>1. ASSUME NEW d \in Nat \ {0} PROVE VecOver(d, xs) \in Vectors(D)
    <2>1. <<1, d>> \in PosRat /\ One \in PosRat
      BY PosRatIs
    <2>2. [i \in DOMAIN xs |-> xs[i][1] * (d \div xs[i][2])] \in [D -> Int]
      <3> SUFFICES ASSUME NEW i \in D PROVE xs[i][1] * (d \div xs[i][2]) \in Int
        OBVIOUS
      <3>1. xs[i][1] \in Int /\ xs[i][2] \in Nat \ {0}
        BY RatIs
      <3>2. d \div xs[i][2] \in Nat
        BY <3>1, DivOf
      <3> QED
        BY <3>1, <3>2
    <2> QED
      BY <2>1, <2>2, PrimitiveIs DEF VecOver
  <1>2. FoldFunction(LAMBDA x, y : (x[2] \div Gcd(x[2], y)) * y, 1, xs) \in Nat \ {0}
    BY AllLcmIs
  <1> QED
    BY <1>1, <1>2 DEF Vec

(* A solution handed back is a vector of rationals. *)
LEMMA RationalsIs ==
  ASSUME NEW D, NEW v \in Vectors(D)
  PROVE  Rationals(v) \in [D -> Rat]
  <1>1. v.c \in PosRat /\ v.q \in PosRat /\ v.dir \in [D -> Int] /\ DOMAIN v.dir = D
    BY VectorIs
  <1> DEFINE r == Mul(v.c, Root(v.q))
  <1>2. r \in Rat
    BY <1>1, PosRatIs, PosRatOps, RootIs
  <1>3. Rationals(v) = [i \in D |-> Mul(r, <<v.dir[i], 1>>)]
    BY <1>1 DEF Rationals, RationalsBy
  <1> HIDE DEF r
  <1>4. \A i \in D : <<v.dir[i], 1>> \in Rat
    BY <1>1, PosRatIs
  <1>5. \A i \in D : Mul(r, <<v.dir[i], 1>>) \in Rat
    BY <1>2, <1>4, MulIs
  <1> QED
    BY <1>3, <1>5

-----------------------------------------------------------------------------
(* Matrices with r rows and c columns. *)

LEMMA ApplyIs ==
  ASSUME NEW r \in Nat \ {0}, NEW c \in Nat \ {0}, NEW m \in Matrices(r, c)
  PROVE  /\ Rows(m) = 1..r /\ Cols(m) = 1..c
         /\ \A v \in Vectors(1..c) : Apply(m, v) \in Vectors(1..r)
         /\ \A u \in Vectors(1..r) : ApplyAdjoint(m, u) \in Vectors(1..c)
  <1>1. Rows(m) = 1..r /\ Cols(m) = 1..c
    BY DEF Rows, Cols, Matrices
  <1>2. IsFiniteSet(1..r) /\ IsFiniteSet(1..c)
    BY FS_Interval
  <1>3. ASSUME NEW v \in Vectors(1..c) PROVE Apply(m, v) \in Vectors(1..r)
    <2>1. v.c \in PosRat /\ v.q \in PosRat /\ v.dir \in [1..c -> Int]
      BY VectorIs
    <2>2. ASSUME NEW i \in 1..r PROVE SumInt([j \in 1..c |-> m[i][j] * v.dir[j]]) \in Int
      <3>1. \A j \in 1..c : m[i][j] \in Int /\ v.dir[j] \in Int
        BY <2>1 DEF Matrices
      <3>2. [j \in 1..c |-> m[i][j] * v.dir[j]] \in [1..c -> Int]
        BY <3>1
      <3> QED
        BY <1>2, <3>2, SumIntIs
    <2> DEFINE d == [i \in 1..r |-> SumInt([j \in 1..c |-> m[i][j] * v.dir[j]])]
    <2>3. d \in [1..r -> Int]
      BY <2>2
    <2>4. Apply(m, v) = Primitive(v.c, v.q, d)
      BY <1>1 DEF Apply
    <2> HIDE DEF d
    <2> QED
      BY <1>2, <2>1, <2>3, <2>4, PrimitiveIs
  <1>4. ASSUME NEW u \in Vectors(1..r) PROVE ApplyAdjoint(m, u) \in Vectors(1..c)
    <2>1. u.c \in PosRat /\ u.q \in PosRat /\ u.dir \in [1..r -> Int]
      BY VectorIs
    <2>2. ASSUME NEW j \in 1..c PROVE SumInt([i \in 1..r |-> m[i][j] * u.dir[i]]) \in Int
      <3>1. \A i \in 1..r : m[i][j] \in Int /\ u.dir[i] \in Int
        BY <2>1 DEF Matrices
      <3>2. [i \in 1..r |-> m[i][j] * u.dir[i]] \in [1..r -> Int]
        BY <3>1
      <3> QED
        BY <1>2, <3>2, SumIntIs
    <2> DEFINE d == [j \in 1..c |-> SumInt([i \in 1..r |-> m[i][j] * u.dir[i]])]
    <2>3. d \in [1..c -> Int]
      BY <2>2
    <2>4. ApplyAdjoint(m, u) = Primitive(u.c, u.q, d)
      BY <1>1 DEF ApplyAdjoint
    <2> HIDE DEF d
    <2> QED
      BY <1>2, <2>1, <2>3, <2>4, PrimitiveIs
  <1> QED
    BY <1>1, <1>3, <1>4

-----------------------------------------------------------------------------
(* The setting of a solve. *)

M == Len(A)
N == Len(A[1])
U == Vectors(1..M)
V == Vectors(1..N)
Cells == [v : V, p : V]

CallTyped ==
  /\ call.mInv = None \/ call.mInv \in Matrices(N, N)
  /\ call.x0 = None \/ call.x0 \in [1..N -> Rat]
  /\ call.policy # None => /\ call.policy.window \in Nat \ {0}
                           /\ call.policy.threshold \in Rat /\ call.policy.threshold[1] >= 0
  /\ call.tol \in Rat /\ call.tol[1] >= 0

LEMMA LeastIs ==
  ASSUME NEW a \in Nat, NEW b \in Nat
  PROVE  Least(a, b) \in Nat /\ Least(a, b) <= a /\ Least(a, b) <= b
         /\ (Least(a, b) = a \/ Least(a, b) = b)
  BY DEF Least

LEMMA ProblemIs ==
  ASSUME problem \in Problems
  PROVE  /\ M \in Nat \ {0} /\ N \in Nat \ {0}
         /\ IsFiniteSet(1..M) /\ IsFiniteSet(1..N)
         /\ A \in Matrices(M, N) /\ B \in U /\ NoX \in V
         /\ WindowCapacity \in Nat
  <1>1. M \in Nat \ {0} /\ N \in Nat \ {0} /\ A \in Matrices(M, N) /\ problem.localSize \in Nat
        /\ problem.rhs \in [1..M -> Int]
    BY LsmrAssumption DEF M, N, A
  <1>2. IsFiniteSet(1..M) /\ IsFiniteSet(1..N)
    BY <1>1, FS_Interval
  <1>3. Cols(A) = 1..N
    BY <1>1, ApplyIs
  <1>4. B \in U
    BY <1>1, <1>2, PrimitiveIs, PosRatIs DEF B, Integral, U
  <1>5. NoX \in V
    BY <1>3, NilsIs DEF NoX, V
  <1>6. WindowCapacity \in Nat
    <2>1. Least(Len(A), Len(A[1])) \in Nat
      BY <1>1, LeastIs DEF M, N
    <2> QED
      BY <1>1, <2>1, LeastIs DEF WindowCapacity
  <1> QED
    BY <1>1, <1>2, <1>4, <1>5, <1>6

LEMMA VectorOps ==
  ASSUME problem \in Problems
  PROVE  /\ \A v, w \in V : /\ Plus(v, w) \in V /\ Minus(v, w) \in V
                            /\ Dot(v, w) \in Rat /\ DotRoot(v, w) \in Rat /\ NormSq(v) \in Rat
                            /\ NormSq(v)[1] >= 0
         /\ \A u, w \in U : /\ Plus(u, w) \in U /\ Minus(u, w) \in U
                            /\ NormSq(u) \in Rat /\ NormSq(u)[1] >= 0
                            /\ ~IsNil(u) => NormSq(u)[1] > 0
         /\ \A s \in Rat : (\A v \in V : Scale(s, v) \in V) /\ (\A u \in U : Scale(s, u) \in U)
         /\ \A v \in V : Apply(A, v) \in U
         /\ \A u \in U : ApplyAdjoint(A, u) \in V
  <1>1. /\ M \in Nat \ {0} /\ N \in Nat \ {0} /\ IsFiniteSet(1..M) /\ IsFiniteSet(1..N)
        /\ A \in Matrices(M, N)
    BY ProblemIs
  <1>2. \A v, w \in V : /\ Plus(v, w) \in V /\ Minus(v, w) \in V
                        /\ Dot(v, w) \in Rat /\ DotRoot(v, w) \in Rat /\ NormSq(v) \in Rat
                        /\ NormSq(v)[1] >= 0
    BY <1>1, PlusIs, MinusIs, DotIs DEF V
  <1>3. \A u, w \in U : /\ Plus(u, w) \in U /\ Minus(u, w) \in U
                        /\ NormSq(u) \in Rat /\ NormSq(u)[1] >= 0
                        /\ ~IsNil(u) => NormSq(u)[1] > 0
    BY <1>1, PlusIs, MinusIs, DotIs DEF U
  <1>4. \A s \in Rat : (\A v \in V : Scale(s, v) \in V) /\ (\A u \in U : Scale(s, u) \in U)
    BY ScaleIs DEF U, V
  <1>5. (\A v \in V : Apply(A, v) \in U) /\ (\A u \in U : ApplyAdjoint(A, u) \in V)
    BY <1>1, ApplyIs DEF U, V
  <1> QED
    BY <1>2, <1>3, <1>4, <1>5

LEMMA MInvIs ==
  ASSUME problem \in Problems, CallTyped, call.mInv # None, NEW v \in V
  PROVE  Apply(call.mInv, v) \in V
  BY ProblemIs, ApplyIs DEF CallTyped, V

-----------------------------------------------------------------------------
(* The window. *)

Rings == [slots : [0..WindowCapacity - 1 -> Cells], next : Nat, count : 0..WindowCapacity]

(* The ring keeps its size and its cells. *)
LEMMA PushIs ==
  ASSUME problem \in Problems, NEW ring \in Rings, NEW v \in V, NEW p \in V
  PROVE  Push(ring, v, p) \in Rings
  <1>1. WindowCapacity \in Nat
    BY ProblemIs
  <1>2. /\ ring.slots \in [0..WindowCapacity - 1 -> Cells] /\ ring.next \in Nat
        /\ ring.count \in 0..WindowCapacity
    BY DEF Rings
  <1>3. CASE WindowCapacity = 0
    BY <1>3 DEF Push
  <1>4. CASE WindowCapacity # 0
    <2>1. [v |-> v, p |-> p] \in Cells
      BY DEF Cells
    <2>2. [ring.slots EXCEPT ![ring.next] = [v |-> v, p |-> p]] \in [0..WindowCapacity - 1 -> Cells]
      BY <1>2, <2>1, ExceptIn
    <2>3. (ring.next + 1) % WindowCapacity \in Nat
      BY <1>1, <1>2, <1>4
    <2>4. Least(ring.count + 1, WindowCapacity) \in 0..WindowCapacity
      BY <1>1, <1>2 DEF Least
    <2> QED
      BY <1>4, <2>2, <2>3, <2>4 DEF Push, Rings
  <1> QED
    BY <1>3, <1>4

LEMMA NewRingIs ==
  ASSUME problem \in Problems
  PROVE  NewRing \in Rings
  <1>1. WindowCapacity \in Nat /\ NoX \in V
    BY ProblemIs
  <1>2. [v |-> NoX, p |-> NoX] \in Cells
    BY <1>1 DEF Cells
  <1> QED
    BY <1>1, <1>2 DEF NewRing, Rings

(* The slots that are read are slots of the ring that were written. *)
LEMMA ChronoSlotsIs ==
  ASSUME problem \in Problems, NEW ring \in Rings
  PROVE  /\ DOMAIN ChronoSlots(ring) = 1..ring.count
         /\ \A k \in 1..ring.count : /\ ChronoSlots(ring)[k] \in 0..WindowCapacity - 1
                                     /\ ring.slots[ChronoSlots(ring)[k]] \in Cells
  <1>1. /\ WindowCapacity \in Nat
        /\ ring.slots \in [0..WindowCapacity - 1 -> Cells] /\ ring.next \in Nat
        /\ ring.count \in 0..WindowCapacity
    BY ProblemIs DEF Rings
  <1>2. \A c \in Nat \ {0} : \A x \in Nat : x % c \in 0..c - 1
    OBVIOUS
  <1>3. ASSUME NEW k \in 1..ring.count PROVE ChronoSlots(ring)[k] \in 0..WindowCapacity - 1
    <2>1. WindowCapacity \in Nat \ {0}
      BY <1>1
    <2> DEFINE x == (IF ring.count < WindowCapacity THEN 0 ELSE ring.next) + k - 1
    <2>2. x \in Nat
      BY <1>1
    <2>3. ChronoSlots(ring)[k] = x % WindowCapacity
      BY DEF ChronoSlots
    <2> HIDE DEF x
    <2> QED
      BY <1>2, <2>1, <2>2, <2>3
  <1> QED
    BY <1>1, <1>3 DEF ChronoSlots

Corrected(ring, s, k) ==
  Projected(s, ring.slots[k],
            DotRoot(s.v, IF call.mInv = None THEN ring.slots[k].v ELSE ring.slots[k].p))

LEMMA CorrectedIs ==
  ASSUME problem \in Problems, NEW ring \in Rings, NEW s \in Cells, NEW k, ring.slots[k] \in Cells
  PROVE  Corrected(ring, s, k) \in Cells
  <1>1. s.v \in V /\ s.p \in V /\ ring.slots[k].v \in V /\ ring.slots[k].p \in V
    BY DEF Cells
  <1> DEFINE r == DotRoot(s.v, IF call.mInv = None THEN ring.slots[k].v ELSE ring.slots[k].p)
  <1>2. r \in Rat
    BY <1>1, VectorOps
  <1>3. Corrected(ring, s, k) = [v |-> Minus(s.v, Scale(r, ring.slots[k].v)),
                                 p |-> Minus(s.p, Scale(r, ring.slots[k].p))]
    BY DEF Corrected, Projected
  <1> HIDE DEF r
  <1>4. Scale(r, ring.slots[k].v) \in V /\ Scale(r, ring.slots[k].p) \in V
    BY <1>1, <1>2, VectorOps
  <1>5. Minus(s.v, Scale(r, ring.slots[k].v)) \in V /\ Minus(s.p, Scale(r, ring.slots[k].p)) \in V
    BY <1>1, <1>4, VectorOps
  <1> QED
    BY <1>3, <1>5 DEF Cells

Corrections(it, ring, v, p) ==
  it = [s \in SUBSET DOMAIN ChronoSlots(ring) |->
          IF s = {} THEN [v |-> v, p |-> p]
          ELSE Corrected(ring, it[s \ {Max(s)}], ChronoSlots(ring)[Max(s)])]

(* Reorthogonalization leaves vectors. *)
LEMMA ReorthogonalizedIs ==
  ASSUME problem \in Problems, NEW ring \in Rings, NEW v \in V, NEW p \in V
  PROVE  Reorthogonalized(ring, v, p) \in Cells
  <1> DEFINE n == ring.count
             c == ChronoSlots(ring)
             base == [v |-> v, p |-> p]
             Step == [x \in Cells \X (1..n) |-> Corrected(ring, x[1], c[x[2]])]
  <1>1. n \in Nat /\ base \in Cells
    BY ProblemIs DEF Rings, Cells
  <1>2. DOMAIN c = 1..n /\ \A k \in 1..n : ring.slots[c[k]] \in Cells
    BY ChronoSlotsIs
  <1> HIDE DEF n, base
  <1>3. Step \in [Cells \X (1..n) -> Cells]
    BY <1>2, CorrectedIs
  <1>4. PICK g \in [SUBSET (1..n) -> Cells] : Folding(g, n, base, Step)
    <2> HIDE DEF Step, c
    <2> QED
      BY <1>1, <1>3, FoldUp
  <1>5. ASSUME NEW s \in SUBSET (1..n), s # {} PROVE Max(s) \in s /\ Max(s) \in 1..n
    <2>1. IsFiniteSet(s)
      <3>1. IsFiniteSet(1..n)
        BY <1>1, FS_Interval
      <3> QED
        BY <3>1, FS_Subset
    <2>2. s \in SUBSET Nat
      BY <1>1
    <2> QED
      BY <1>5, <2>1, <2>2, MaxIn
  <1>6. Corrections(g, ring, v, p)
    <2>1. ASSUME NEW s \in SUBSET (1..n)
          PROVE  g[s] = IF s = {} THEN base ELSE Corrected(ring, g[s \ {Max(s)}], c[Max(s)])
      <3>1. CASE s = {}
        BY <1>4, <3>1 DEF Folding
      <3>2. CASE s # {}
        <4>1. g[s \ {Max(s)}] \in Cells /\ Max(s) \in 1..n
          BY <1>5, <3>2
        <4>2. g[s] = Step[<<g[s \ {Max(s)}], Max(s)>>]
          <5> HIDE DEF Step
          <5> QED
            BY <1>4, <3>2 DEF Folding
        <4> QED
          BY <3>2, <4>1, <4>2
      <3> QED
        BY <3>1, <3>2
    <2>2. g = [s \in SUBSET (1..n) |->
                 IF s = {} THEN base ELSE Corrected(ring, g[s \ {Max(s)}], c[Max(s)])]
      <3> HIDE DEF c
      <3> QED
        BY <2>1
    <2> QED
      BY <1>2, <2>2 DEF Corrections, base
  <1> DEFINE it == CHOOSE h : Corrections(h, ring, v, p)
  <1>7. Corrections(it, ring, v, p)
    BY <1>6
  <1>8. Reorthogonalized(ring, v, p) = it[DOMAIN c]
    BY DEF Reorthogonalized, FoldLeft, MapThenFoldSet, Corrections, Corrected
  <1> HIDE DEF it
  <1> DEFINE C == {s \in SUBSET (1..n) : it[s] \in Cells}
  <1>9. ASSUME NEW s \in SUBSET (1..n), \A x \in s : s \ {x} \in C PROVE s \in C
    <2>1. it[s] = IF s = {} THEN base ELSE Corrected(ring, it[s \ {Max(s)}], c[Max(s)])
      BY <1>2, <1>7 DEF Corrections, base
    <2>2. CASE s # {}
      <3>1. Max(s) \in s /\ Max(s) \in 1..n
        BY <1>5, <2>2
      <3>2. it[s \ {Max(s)}] \in Cells
        BY <1>9, <3>1
      <3>3. Corrected(ring, it[s \ {Max(s)}], c[Max(s)]) \in Cells
        BY <1>2, <3>1, <3>2, CorrectedIs
      <3> QED
        BY <2>1, <2>2, <3>3
    <2>3. CASE s = {}
      BY <1>1, <2>1, <2>3
    <2> QED
      BY <2>2, <2>3
  <1>10. \A s \in SUBSET (1..n) : s \in C
    <2>1. IsFiniteSet(1..n)
      BY <1>1, FS_Interval
    <2> HIDE DEF C
    <2> QED
      BY <1>9, <2>1, SubsetInduction
  <1> QED
    BY <1>2, <1>8, <1>10

-----------------------------------------------------------------------------
(* The streams. *)

Streams == [u : U, v : V, p : V, alpha : Rat, beta : Rat, betaInv : Rat, ring : Rings]

(* t is a state of the stream whose last vector went into the window as    *)
(* ring left it.                                                           *)
Pushes(ring, t) ==
  /\ t \in Streams
  /\ t.beta[1] >= 0
  /\ t.beta = Nil => t.alpha = Nil
  /\ Positive(t.alpha) => t.ring = Push(ring, t.v, Scale(Inv(t.alpha), t.p))

LEMMA StreamIs ==
  ASSUME NEW s \in Streams
  PROVE  /\ s.u \in U /\ s.v \in V /\ s.p \in V /\ s.alpha \in Rat /\ s.beta \in Rat
         /\ s.betaInv \in Rat /\ s.ring \in Rings
         /\ s = [u |-> s.u, v |-> s.v, p |-> s.p, alpha |-> s.alpha, beta |-> s.beta,
                 betaInv |-> s.betaInv, ring |-> s.ring]
  BY DEF Streams

LEMMA ExceptStream ==
  ASSUME NEW s \in Streams, NEW u, NEW b
  PROVE  [s EXCEPT !.u = u, !.beta = b]
           = [u |-> u, v |-> s.v, p |-> s.p, alpha |-> s.alpha, beta |-> b,
              betaInv |-> s.betaInv, ring |-> s.ring]
  <1> DEFINE s1 == [s EXCEPT !.u = u]
  <1>1. s1
         = [u |-> u, v |-> s.v, p |-> s.p, alpha |-> s.alpha, beta |-> s.beta, betaInv |-> s.betaInv,
            ring |-> s.ring]
    BY StreamIs
  <1>2. [s EXCEPT !.u = u, !.beta = b] = [s1 EXCEPT !.beta = b]
    OBVIOUS
  <1> HIDE DEF s1
  <1>3. [s1 EXCEPT !.beta = b]
         = [u |-> u, v |-> s.v, p |-> s.p, alpha |-> s.alpha, beta |-> b, betaInv |-> s.betaInv,
            ring |-> s.ring]
    BY <1>1
  <1> QED
    BY <1>2, <1>3

LEMMA ExceptBrokenDown ==
  ASSUME NEW s \in Streams, NEW u
  PROVE  [s EXCEPT !.u = u, !.v = NoX, !.alpha = Nil, !.beta = Nil]
           = [u |-> u, v |-> NoX, p |-> s.p, alpha |-> Nil, beta |-> Nil, betaInv |-> s.betaInv,
              ring |-> s.ring]
  <1> DEFINE s1 == [s EXCEPT !.u = u]
             s2 == [s1 EXCEPT !.v = NoX]
             s3 == [s2 EXCEPT !.alpha = Nil]
  <1>1. s1
         = [u |-> u, v |-> s.v, p |-> s.p, alpha |-> s.alpha, beta |-> s.beta, betaInv |-> s.betaInv,
            ring |-> s.ring]
    BY StreamIs
  <1>2. [s EXCEPT !.u = u, !.v = NoX, !.alpha = Nil, !.beta = Nil] = [s3 EXCEPT !.beta = Nil]
    OBVIOUS
  <1> HIDE DEF s1
  <1>3. s2
         = [u |-> u, v |-> NoX, p |-> s.p, alpha |-> s.alpha, beta |-> s.beta, betaInv |-> s.betaInv,
            ring |-> s.ring]
    BY <1>1
  <1> HIDE DEF s2
  <1>4. s3
         = [u |-> u, v |-> NoX, p |-> s.p, alpha |-> Nil, beta |-> s.beta, betaInv |-> s.betaInv,
            ring |-> s.ring]
    BY <1>3
  <1> HIDE DEF s3
  <1>5. [s3 EXCEPT !.beta = Nil]
         = [u |-> u, v |-> NoX, p |-> s.p, alpha |-> Nil, beta |-> Nil, betaInv |-> s.betaInv,
            ring |-> s.ring]
    BY <1>4
  <1> QED
    BY <1>2, <1>5

LEMMA InvPositive ==
  ASSUME NEW a \in Rat, Positive(a) \/ a # Nil
  PROVE  Inv(a) \in Rat
  <1>1. a[1] # 0
    BY RatIs DEF Positive
  <1> QED
    BY <1>1, InvIs

(* The new vector is pushed as it is normalized. *)
LEMMA WithVIs ==
  ASSUME problem \in Problems, NEW s \in Streams, NEW v \in V, NEW a \in Rat,
         s.beta[1] >= 0, s.beta # Nil
  PROVE  Pushes(s.ring, WithV(s, v, a))
  <1>1. /\ s.u \in U /\ s.v \in V /\ s.p \in V /\ s.alpha \in Rat /\ s.beta \in Rat
        /\ s.betaInv \in Rat /\ s.ring \in Rings
        /\ s = [u |-> s.u, v |-> s.v, p |-> s.p, alpha |-> s.alpha, beta |-> s.beta,
                betaInv |-> s.betaInv, ring |-> s.ring]
    BY StreamIs
  <1> DEFINE w == Normalized(v, a)
             p == IF Positive(a) THEN Scale(Inv(a), s.p) ELSE NoX
             r == Push(s.ring, w, p)
  <1>2. w \in V
    BY InvPositive, VectorOps DEF Normalized
  <1>3. p \in V
    BY <1>1, InvPositive, VectorOps, ProblemIs
  <1>4. r \in Rings
    BY <1>1, <1>2, <1>3, PushIs
  <1>5. WithV(s, v, a) = [s EXCEPT !.v = w, !.alpha = a, !.ring = r]
    BY DEF WithV, Pushed
  <1>6. Positive(a) => r = Push(s.ring, w, Scale(Inv(a), s.p))
    OBVIOUS
  <1> HIDE DEF w, p, r
  <1>7. WithV(s, v, a) = [u |-> s.u, v |-> w, p |-> s.p, alpha |-> a, beta |-> s.beta,
                          betaInv |-> s.betaInv, ring |-> r]
    BY <1>1, <1>5
  <1>8. WithV(s, v, a) \in Streams
    BY <1>1, <1>2, <1>4, <1>7 DEF Streams
  <1> QED
    BY <1>6, <1>7, <1>8 DEF Pushes

LEMMA DriftByIs ==
  ASSUME problem \in Problems, NEW t \in Rat, NEW v \in V, NEW w \in V
  PROVE  DriftBy(t, v, w) \in V
  <1>1. v.q \in PosRat /\ w.q \in PosRat
    BY VectorIs DEF V
  <1>2. Mul(t, Div(v.q, w.q)) \in Rat
    BY <1>1, PosRatOps, PosRatIs, MulIs
  <1>3. Scale(Mul(t, Div(v.q, w.q)), w) \in V
    BY <1>2, VectorOps
  <1> QED
    BY <1>3, VectorOps DEF DriftBy

LEMMA GolubKahanInitIs ==
  ASSUME problem \in Problems, NEW b \in U, NEW beta \in Rat, beta[1] > 0
  PROVE  Pushes(NewRing, GolubKahanInit(b, beta))
  <1> DEFINE u == Scale(Inv(beta), b)
             s == [u |-> u, v |-> NoX, p |-> NoX, alpha |-> Nil, beta |-> beta, betaInv |-> One,
                   ring |-> NewRing]
             v == ApplyAdjoint(A, u)
  <1>1. u \in U
    BY InvPositive, VectorOps DEF Positive
  <1>2. v \in V
    BY <1>1, VectorOps
  <1>3. s \in Streams
    BY <1>1, ProblemIs, NewRingIs, PosRatIs DEF Streams
  <1>4. s.ring = NewRing /\ s.beta = beta /\ s.beta # Nil /\ s.beta[1] >= 0
    BY DEF Nil, Rat, Positives
  <1>5. GolubKahanInit(b, beta) = WithV(s, v, NormSq(v))
    BY DEF GolubKahanInit, GolubKahanInitU, GolubKahanV
  <1> HIDE DEF u, s, v
  <1>6. NormSq(v) \in Rat
    BY <1>2, VectorOps
  <1> QED
    BY <1>2, <1>3, <1>4, <1>5, <1>6, WithVIs

LEMMA NilStream ==
  ASSUME problem \in Problems, NEW t \in Streams, t.beta = Nil, t.alpha = Nil, NEW ring
  PROVE  Pushes(ring, t)
  BY DEF Pushes, Nil, Positive

(* A step of either stream pushes its vector, unless it breaks down. *)
LEMMA GolubKahanStepIs ==
  ASSUME problem \in Problems, NEW s \in Streams,
         NEW drift, drift = None \/ (drift.by \in Rat /\ drift.of \in Cells)
  PROVE  Pushes(s.ring, GolubKahanStep(s, drift))
  <1>1. /\ s.u \in U /\ s.v \in V /\ s.p \in V /\ s.alpha \in Rat /\ s.beta \in Rat
        /\ s.betaInv \in Rat /\ s.ring \in Rings
        /\ s = [u |-> s.u, v |-> s.v, p |-> s.p, alpha |-> s.alpha, beta |-> s.beta,
                betaInv |-> s.betaInv, ring |-> s.ring]
    BY StreamIs
  <1> DEFINE w == Minus(Apply(A, s.v), Scale(s.alpha, s.u))
             beta == NormSq(w)
  <1>2. w \in U
    BY <1>1, VectorOps
  <1>3. beta \in Rat /\ beta[1] >= 0
    BY <1>2, VectorOps
  <1>4. GolubKahanStep(s, drift) = GolubKahanBeta(s, w, beta, drift)
    BY DEF GolubKahanStep, GolubKahanU
  <1> HIDE DEF w, beta
  <1>5. CASE beta = Nil
    <2> DEFINE t == [s EXCEPT !.u = w, !.v = NoX, !.alpha = Nil, !.beta = Nil]
    <2>1. GolubKahanStep(s, drift) = t
      BY <1>4, <1>5 DEF GolubKahanBeta
    <2>2. t = [u |-> w, v |-> NoX, p |-> s.p, alpha |-> Nil, beta |-> Nil,
               betaInv |-> s.betaInv, ring |-> s.ring]
      BY ExceptBrokenDown
    <2> HIDE DEF t
    <2>3. t \in Streams
      BY <1>1, <1>2, <2>2, ProblemIs, PosRatIs DEF Streams
    <2> QED
      BY <2>1, <2>2, <2>3, NilStream
  <1>6. CASE beta # Nil
    <2> DEFINE u == Scale(Inv(beta), w)
               x == Minus(ApplyAdjoint(A, u), Scale(beta, s.v))
               r == [s EXCEPT !.u = u, !.beta = beta]
               y == IF drift = None THEN x ELSE DriftBy(drift.by, x, drift.of.v)
               z == Reorthogonalized(r.ring, y, NoX).v
    <2>1. u \in U
      BY <1>2, <1>3, <1>6, InvPositive, VectorOps
    <2>2. x \in V
      <3>1. ApplyAdjoint(A, u) \in V
        BY <2>1, VectorOps
      <3>2. Scale(beta, s.v) \in V
        BY <1>1, <1>3, VectorOps
      <3> QED
        BY <3>1, <3>2, VectorOps
    <2>3. GolubKahanStep(s, drift) = WithV(r, z, NormSq(z))
      BY <1>4, <1>6 DEF GolubKahanBeta, GolubKahanNextV, GolubKahanDrifted, GolubKahanV
    <2>4. r = [u |-> u, v |-> s.v, p |-> s.p, alpha |-> s.alpha, beta |-> beta,
               betaInv |-> s.betaInv, ring |-> s.ring]
      BY ExceptStream
    <2> HIDE DEF u, x, r
    <2>5. r \in Streams
      BY <1>1, <1>3, <2>1, <2>4 DEF Streams
    <2>6. y \in V
      BY <2>2, DriftByIs DEF Cells
    <2> HIDE DEF y
    <2>7. z \in V
      <3>1. Reorthogonalized(r.ring, y, NoX) \in Cells
        BY <1>1, <2>4, <2>6, ProblemIs, ReorthogonalizedIs
      <3> QED
        BY <3>1 DEF Cells
    <2> HIDE DEF z
    <2>8. NormSq(z) \in Rat
      BY <2>7, VectorOps
    <2>9. r.beta = beta /\ r.ring = s.ring
      BY <2>4
    <2> QED
      BY <1>3, <1>6, <2>3, <2>5, <2>7, <2>8, <2>9, WithVIs
  <1> QED
    BY <1>5, <1>6

LEMMA ReorthonormalizeIs ==
  ASSUME problem \in Problems, CallTyped, call.mInv # None, NEW s \in Streams, NEW p \in V,
         s.beta[1] >= 0, s.beta # Nil
  PROVE  Pushes(s.ring, ReorthonormalizeV(s, p))
  <1> DEFINE vp == Reorthogonalized(s.ring, Apply(call.mInv, p), p)
             t == [s EXCEPT !.p = vp.p]
  <1>1. /\ s.u \in U /\ s.v \in V /\ s.p \in V /\ s.alpha \in Rat /\ s.beta \in Rat
        /\ s.betaInv \in Rat /\ s.ring \in Rings
        /\ s = [u |-> s.u, v |-> s.v, p |-> s.p, alpha |-> s.alpha, beta |-> s.beta,
                betaInv |-> s.betaInv, ring |-> s.ring]
    BY StreamIs
  <1>2. vp \in Cells
    BY <1>1, MInvIs, ReorthogonalizedIs
  <1>3. vp.v \in V /\ vp.p \in V
    BY <1>2 DEF Cells
  <1>4. ReorthonormalizeV(s, p) = WithV(t, vp.v, Dot(vp.v, vp.p))
    BY DEF ReorthonormalizeV, Normalize, AlphaFromVp
  <1> HIDE DEF vp
  <1>5. t = [u |-> s.u, v |-> s.v, p |-> vp.p, alpha |-> s.alpha, beta |-> s.beta,
             betaInv |-> s.betaInv, ring |-> s.ring]
    BY <1>1
  <1> HIDE DEF t
  <1>6. t \in Streams
    BY <1>1, <1>3, <1>5 DEF Streams
  <1>7. Dot(vp.v, vp.p) \in Rat
    BY <1>3, VectorOps
  <1>8. t.ring = s.ring /\ t.beta = s.beta
    BY <1>5
  <1> QED
    BY <1>3, <1>4, <1>6, <1>7, <1>8, WithVIs

LEMMA ModifiedIs ==
  ASSUME problem \in Problems, NEW u \in U, NEW beta \in Rat, NEW bi \in Rat, NEW ring \in Rings
  PROVE  /\ Modified(u, beta, bi, ring) \in Streams
         /\ Modified(u, beta, bi, ring).beta = beta /\ Modified(u, beta, bi, ring).ring = ring
         /\ Modified(u, beta, bi, ring).alpha = Nil
  BY ProblemIs, PosRatIs DEF Modified, Streams

LEMMA ModifiedInitIs ==
  ASSUME problem \in Problems, CallTyped, call.mInv # None, NEW b \in U, NEW beta \in Rat,
         beta[1] > 0
  PROVE  Pushes(NewRing, ModifiedInit(b, beta))
  <1> DEFINE u == Scale(Inv(beta), b)
             s == Modified(u, beta, One, NewRing)
             v == ApplyAdjoint(A, u)
  <1>1. u \in U
    BY InvPositive, VectorOps DEF Positive
  <1>2. v \in V
    BY <1>1, VectorOps
  <1>3. One \in Rat
    BY PosRatIs
  <1>4. s \in Streams /\ s.ring = NewRing /\ s.beta = beta
    BY <1>1, <1>3, NewRingIs, ModifiedIs
  <1>5. beta # Nil /\ beta[1] >= 0
    BY DEF Nil, Rat, Positives
  <1>6. ModifiedInit(b, beta) = ReorthonormalizeV(s, v)
    BY DEF ModifiedInit, ModifiedInitU
  <1> HIDE DEF u, s, v
  <1> QED
    BY <1>2, <1>4, <1>5, <1>6, ReorthonormalizeIs

LEMMA ModifiedStepIs ==
  ASSUME problem \in Problems, CallTyped, call.mInv # None, NEW s \in Streams, Positive(s.alpha),
         NEW drift, drift = None \/ (drift.by \in Rat /\ drift.of \in Cells)
  PROVE  Pushes(s.ring, ModifiedStep(s, drift))
  <1>1. /\ s.u \in U /\ s.v \in V /\ s.p \in V /\ s.alpha \in Rat /\ s.beta \in Rat
        /\ s.betaInv \in Rat /\ s.ring \in Rings
    BY StreamIs
  <1> DEFINE w == Minus(Apply(A, s.v), Scale(Mul(s.alpha, s.betaInv), s.u))
             beta == NormSq(w)
  <1>2. w \in U
    <2>1. Mul(s.alpha, s.betaInv) \in Rat
      BY <1>1, MulIs
    <2>2. Scale(Mul(s.alpha, s.betaInv), s.u) \in U /\ Apply(A, s.v) \in U
      BY <1>1, <2>1, VectorOps
    <2> QED
      BY <2>2, VectorOps
  <1>3. beta \in Rat /\ beta[1] >= 0
    BY <1>2, VectorOps
  <1>4. ModifiedStep(s, drift) = ModifiedBeta(s, w, beta, drift)
    BY DEF ModifiedStep, ModifiedU
  <1> HIDE DEF w, beta
  <1>5. CASE beta = Nil
    <2>1. ModifiedStep(s, drift) = Modified(w, Nil, Nil, s.ring)
      BY <1>4, <1>5 DEF ModifiedBeta
    <2>2. Nil \in Rat
      BY PosRatIs
    <2>3. /\ Modified(w, Nil, Nil, s.ring) \in Streams
          /\ Modified(w, Nil, Nil, s.ring).beta = Nil /\ Modified(w, Nil, Nil, s.ring).alpha = Nil
      BY <1>1, <1>2, <2>2, ModifiedIs
    <2> QED
      BY <2>1, <2>3, NilStream
  <1>6. CASE beta # Nil
    <2> DEFINE x == UpdatePTilde(s, w, beta)
               y == IF drift = None THEN x ELSE DriftBy(drift.by, x, drift.of.p)
               r == Modified(w, beta, Inv(beta), s.ring)
    <2>1. ModifiedStep(s, drift) = ReorthonormalizeV(r, y)
      BY <1>4, <1>6 DEF ModifiedBeta, ModifiedDrifted
    <2>2. Inv(beta) \in Rat
      BY <1>3, <1>6, InvPositive
    <2>3. x \in V
      <3>1. Div(beta, s.alpha) \in Rat
        BY <1>1, <1>3, DivIs DEF Positive
      <3>2. ApplyAdjoint(A, w) \in V
        BY <1>2, VectorOps
      <3>3. Scale(Inv(beta), ApplyAdjoint(A, w)) \in V /\ Scale(Div(beta, s.alpha), s.p) \in V
        BY <1>1, <2>2, <3>1, <3>2, VectorOps
      <3> QED
        BY <3>3, VectorOps DEF UpdatePTilde
    <2>4. r \in Streams /\ r.beta = beta /\ r.ring = s.ring
      BY <1>1, <1>2, <1>3, <2>2, ModifiedIs
    <2> HIDE DEF x, r
    <2>5. y \in V
      BY <2>3, DriftByIs DEF Cells
    <2> HIDE DEF y
    <2> QED
      BY <1>3, <1>6, <2>1, <2>4, <2>5, ReorthonormalizeIs
  <1> QED
    BY <1>5, <1>6

LEMMA StreamInitIs ==
  ASSUME problem \in Problems, CallTyped, NEW b \in U, ~IsNil(b)
  PROVE  Pushes(NewRing, StreamInit(b)) /\ StreamInit(b).beta[1] > 0
  <1>1. NormSq(b) \in Rat /\ NormSq(b)[1] > 0
    BY VectorOps
  <1>2. Pushes(NewRing, StreamInit(b))
    BY <1>1, GolubKahanInitIs, ModifiedInitIs DEF StreamInit
  <1>3. StreamInit(b).beta = NormSq(b)
    BY DEF StreamInit, GolubKahanInit, GolubKahanInitU, GolubKahanV, ModifiedInit, ModifiedInitU,
           ReorthonormalizeV, Normalize, WithV, Pushed, Modified
  <1> QED
    BY <1>1, <1>2, <1>3

LEMMA StreamStepIs ==
  ASSUME problem \in Problems, CallTyped, NEW s \in Streams, Positive(s.alpha),
         NEW drift, drift = None \/ (drift.by \in Rat /\ drift.of \in Cells)
  PROVE  Pushes(s.ring, StreamStep(s, drift))
  BY GolubKahanStepIs, ModifiedStepIs DEF StreamStep

LEMMA StartResidualIs ==
  ASSUME problem \in Problems, CallTyped
  PROVE  StartResidual \in U /\ (Warm => Vec(call.x0) \in V)
  <1>1. ASSUME Warm PROVE Vec(call.x0) \in V
    BY <1>1, ProblemIs, VecIs DEF Warm, CallTyped, V
  <1>2. B \in U
    BY ProblemIs
  <1>3. ASSUME Warm PROVE Minus(B, Apply(A, Vec(call.x0))) \in U
    <2>1. Apply(A, Vec(call.x0)) \in U
      BY <1>1, <1>3, VectorOps
    <2> QED
      BY <1>2, <2>1, VectorOps
  <1> QED
    BY <1>1, <1>2, <1>3 DEF StartResidual

-----------------------------------------------------------------------------
(* The window holds the last vectors. *)

LEMMA SameFunction ==
  ASSUME NEW S, NEW T, NEW f \in [S -> T], NEW g \in [S -> T], \A x \in S : f[x] = g[x]
  PROVE  f = g
  OBVIOUS

LEMMA ModIs ==
  ASSUME NEW w \in Nat \ {0}, NEW n \in Nat
  PROVE  n % w \in 0..w - 1 /\ \E q \in Nat : n = q * w + (n % w)
  <1>1. n \div w \in Nat /\ n % w \in Nat /\ n % w < w /\ n = (n \div w) * w + (n % w)
    BY DivOf
  <1>2. \E q \in Nat : n = q * w + (n % w)
    <2> WITNESS n \div w \in Nat
    <2> QED
      BY <1>1, Zenon
  <1>3. n % w \in 0..w - 1
    BY <1>1
  <1> QED
    BY <1>2, <1>3, Zenon

(* Two numbers with the same remainder are not less than w apart. *)
LEMMA ModApart ==
  ASSUME NEW w \in Nat \ {0}, NEW p \in Int, NEW q \in Int, NEW r \in 0..w - 1, NEW s \in 0..w - 1,
         p * w + r = q * w + s
  PROVE  r = s
  <1>1. CASE p = q
    BY <1>1
  <1>2. CASE p < q
    <2>1. (q - p) * w = r - s
      OBVIOUS
    <2>2. \A d \in Int : d >= 1 => d * w >= w
      OBVIOUS
    <2>3. (q - p) * w >= w
      BY <1>2, <2>2
    <2> QED
      BY <2>1, <2>3
  <1>3. CASE q < p
    <2>1. (p - q) * w = s - r
      OBVIOUS
    <2>2. \A d \in Int : d >= 1 => d * w >= w
      OBVIOUS
    <2>3. (p - q) * w >= w
      BY <1>3, <2>2
    <2> QED
      BY <2>1, <2>3
  <1> QED
    BY <1>1, <1>2, <1>3

LEMMA ModSum ==
  ASSUME NEW w \in Nat \ {0}, NEW n \in Nat, NEW k \in Nat
  PROVE  ((n % w) + k) % w = (n + k) % w
  <1>1. PICK q \in Nat : n = q * w + (n % w)
    BY ModIs
  <1> DEFINE r == n % w
             s == (r + k) % w
             t == (n + k) % w
  <1>2. r \in Nat /\ s \in 0..w - 1 /\ t \in 0..w - 1
    BY ModIs
  <1>0. r + k \in Nat /\ n + k \in Nat
    BY <1>2
  <1>3. PICK a \in Nat : r + k = a * w + s
    BY <1>0, ModIs, Zenon
  <1>4. PICK b \in Nat : n + k = b * w + t
    BY <1>0, ModIs, Zenon
  <1> HIDE DEF r, s, t
  <1>5. (q + a) * w + s = b * w + t
    <2>1. n + k = q * w + (r + k)
      <3>0. q * w \in Int
        OBVIOUS
      <3>1. n = q * w + r /\ q * w \in Int
        BY <1>1, <3>0, Zenon DEF r
      <3>2. \A x, y, z \in Int : z = x + y => z + k = x + (y + k)
        OBVIOUS
      <3> QED
        BY <1>2, <3>1, <3>2
    <2>2. n + k = q * w + (a * w + s)
      BY <1>3, <2>1
    <2>3. \A x, y, z, v \in Int : x * v + (y * v + z) = (x + y) * v + z
      OBVIOUS
    <2>4. s \in Int /\ w \in Int
      BY <1>2
    <2> QED
      BY <1>4, <2>2, <2>3, <2>4
  <1>6. q + a \in Int /\ b \in Int
    OBVIOUS
  <1>7. s = t
    BY <1>2, <1>5, <1>6, ModApart
  <1> QED
    BY <1>7 DEF s, t, r

LEMMA ModDiffers ==
  ASSUME NEW w \in Nat \ {0}, NEW m \in Nat, NEW n \in Nat, m < n, n - m < w
  PROVE  m % w # n % w
  <1>1. PICK p \in Nat : m = p * w + (m % w)
    BY ModIs
  <1>2. PICK q \in Nat : n = q * w + (n % w)
    BY ModIs
  <1> SUFFICES ASSUME m % w = n % w PROVE FALSE
    OBVIOUS
  <1>3. m % w \in Int
    BY ModIs
  <1>4. (q - p) * w = n - m
    <2> DEFINE r == m % w
    <2>1. m = p * w + r /\ n = q * w + r /\ r \in Int
      BY <1>1, <1>2, <1>3
    <2> HIDE DEF r
    <2> QED
      BY <2>1
  <1>5. \A d \in Int : (d >= 1 => d * w >= w) /\ (d <= 0 => d * w <= 0)
    OBVIOUS
  <1>6. (q - p >= 1 => (q - p) * w >= w) /\ (q - p <= 0 => (q - p) * w <= 0)
    BY <1>5
  <1> QED
    BY <1>4, <1>6

(* The ring holds the last vectors of seq: vector t in slot (t - 1) modulo *)
(* the capacity, where next is the slot of the vector after the last.      *)
WindowHolds(ring, seq) ==
  /\ ring.count = Least(Len(seq), WindowCapacity)
  /\ WindowCapacity > 0 => ring.next = Len(seq) % WindowCapacity
  /\ \A t \in 1..Len(seq) :
       Len(seq) - t < WindowCapacity => ring.slots[(t - 1) % WindowCapacity] = seq[t]

(* A new ring holds the window of no vectors. *)
LEMMA NewRingHolds ==
  ASSUME problem \in Problems
  PROVE  WindowHolds(NewRing, <<>>)
  <1>1. WindowCapacity \in Nat
    BY ProblemIs
  <1>2. Len(<<>>) = 0 /\ (WindowCapacity > 0 => 0 % WindowCapacity = 0)
    BY <1>1
  <1> QED
    BY <1>1, <1>2 DEF NewRing, WindowHolds, Least

(* A ring that holds the last of some vectors, and the next vector is pushed: *)
(* it holds the last of them and the next.                                 *)
LEMMA PushHolds ==
  ASSUME problem \in Problems, NEW ring \in Rings, NEW seq \in Seq(Cells), WindowHolds(ring, seq),
         NEW v \in V, NEW p \in V
  PROVE  WindowHolds(Push(ring, v, p), Append(seq, [v |-> v, p |-> p]))
  <1> DEFINE W == WindowCapacity
             n == Len(seq)
             cell == [v |-> v, p |-> p]
             next == Append(seq, cell)
             r == Push(ring, v, p)
  <1> SUFFICES WindowHolds(r, next)
    OBVIOUS
  <1>1. W \in Nat /\ n \in Nat /\ ring.slots \in [0..W - 1 -> Cells]
    BY ProblemIs DEF Rings
  <1>2. Len(next) = n + 1 /\ next[n + 1] = cell /\ \A t \in 1..n : next[t] = seq[t]
    <2>1. cell \in Cells
      BY DEF Cells
    <2> QED
      BY <2>1
  <1>3. /\ ring.count = Least(n, W)
        /\ W > 0 => ring.next = n % W
        /\ \A t \in 1..n : n - t < W => ring.slots[(t - 1) % W] = seq[t]
    BY DEF WindowHolds
  <1>4. CASE W = 0
    <2>1. r = ring
      BY <1>4 DEF Push
    <2>2. r.count = Least(n + 1, W)
      BY <1>1, <1>3, <1>4, <2>1 DEF Least
    <2>3. \A t \in 1..n + 1 : ~(n + 1 - t < W)
      BY <1>1, <1>4
    <2> HIDE DEF next, r, W, n
    <2> QED
      BY <1>2, <1>4, <2>2, <2>3 DEF WindowHolds, W
  <1>5. CASE W # 0
    <2> DEFINE slots == [ring.slots EXCEPT ![ring.next] = cell]
    <2>1. r = [slots |-> slots, next |-> (ring.next + 1) % W, count |-> Least(ring.count + 1, W)]
      BY <1>5 DEF Push
    <2>2. W \in Nat \ {0} /\ ring.next = n % W /\ n % W \in 0..W - 1
      <3>1. W \in Nat \ {0} /\ W > 0
        BY <1>1, <1>5
      <3>2. n % W \in 0..W - 1
        BY <1>1, <3>1, ModIs, Zenon
      <3> QED
        BY <1>3, <3>1, <3>2, Zenon
    <2>3. r.next = (n + 1) % W
      <3>1. ((n % W) + 1) % W = (n + 1) % W
        <4> HIDE DEF n, W
        <4> QED
          BY <1>1, <2>2, ModSum
      <3>2. r.next = (ring.next + 1) % W
        BY <2>1
      <3> QED
        BY <2>2, <3>1, <3>2
    <2>4. r.count = Least(n + 1, W)
      BY <1>1, <1>3, <2>1 DEF Least
    <2>5. r.slots = slots
      BY <2>1
    <2>6. ASSUME NEW t \in 1..n + 1, n + 1 - t < W
          PROVE  slots[(t - 1) % W] = next[t]
      <3>1. CASE t = n + 1
        <4>1. (t - 1) % W = n % W
          BY <1>1, <3>1
        <4>2. slots[n % W] = cell
          BY <1>1, <2>2
        <4> QED
          BY <1>2, <3>1, <4>1, <4>2
      <3>2. CASE t # n + 1
        <4>1. t \in 1..n /\ n - t < W /\ t - 1 \in Nat /\ t - 1 < n /\ n - (t - 1) < W
          BY <1>1, <2>6, <3>2
        <4>2. (t - 1) % W # n % W /\ (t - 1) % W \in 0..W - 1
          BY <1>1, <2>2, <4>1, ModDiffers, ModIs
        <4>3. slots[(t - 1) % W] = ring.slots[(t - 1) % W]
          BY <1>1, <2>2, <4>2
        <4> QED
          BY <1>2, <1>3, <4>1, <4>3
      <3> QED
        BY <3>1, <3>2
    <2> HIDE DEF next, r, W, n, slots
    <2>7. Len(next) = n + 1
      BY <1>2
    <2>8. r.count = Least(Len(next), W) /\ r.next = Len(next) % W
      BY <2>3, <2>4, <2>7
    <2>9. ASSUME NEW t \in 1..Len(next), Len(next) - t < W
          PROVE  r.slots[(t - 1) % W] = next[t]
      <3>1. t \in 1..n + 1 /\ n + 1 - t < W
        BY <1>1, <2>7, <2>9
      <3>2. slots[(t - 1) % W] = next[t]
        BY <2>6, <3>1, Zenon
      <3> QED
        BY <2>5, <3>2, Zenon
    <2> QED
      BY <2>8, <2>9 DEF WindowHolds, W
  <1> QED
    BY <1>4, <1>5 DEF W

(* The vectors the window is to hold, one by one. *)
LEMMA WindowIs ==
  ASSUME problem \in Problems, past \in Seq(Cells)
  PROVE  LET n == Len(past)
             c == Least(n, WindowCapacity)
         IN /\ n \in Nat /\ c \in Nat /\ c <= n /\ c <= WindowCapacity
            /\ Window \in Seq(Cells) /\ Len(Window) = c
            /\ \A k \in 1..c : Window[k] = past[n - c + k]
            /\ ToSet(Window) \subseteq Cells
  <1> DEFINE n == Len(past)
             c == Least(n, WindowCapacity)
  <1>1. n \in Nat /\ WindowCapacity \in Nat /\ c \in Nat /\ c <= n /\ c <= WindowCapacity
    BY ProblemIs, LeastIs
  <1> HIDE DEF c
  <1>2. \A i \in n - c + 1..n : past[i] \in Cells
    BY <1>1
  <1>3. n - c + 1 \in Int /\ n \in Int
    BY <1>1
  <1>4. Window = SubSeq(past, n - c + 1, n)
    BY DEF Window, c
  <1>5. /\ Window \in Seq(Cells)
        /\ Len(Window) = IF n - c + 1 <= n THEN n - (n - c + 1) + 1 ELSE 0
        /\ \A i \in 1..n - (n - c + 1) + 1 : Window[i] = past[(n - c + 1) + i - 1]
    <2> DEFINE m == n - c + 1
    <2>1. m \in Int /\ n \in Int /\ \A i \in m..n : past[i] \in Cells
      BY <1>2, <1>3
    <2> HIDE DEF n, m
    <2> QED
      BY <1>4, <2>1, SubSeqProperties DEF m
  <1>6. Len(Window) = c /\ \A k \in 1..c : Window[k] = past[n - c + k]
    BY <1>1, <1>5
  <1>7. ToSet(Window) \subseteq Cells
    BY <1>5 DEF ToSet
  <1> QED
    BY <1>1, <1>5, <1>6, <1>7 DEF c

(* What chrono_slots reads of a ring that holds the window, in its order. *)
LEMMA HoldsWindow ==
  ASSUME problem \in Problems, past \in Seq(Cells), NEW ring \in Rings, WindowHolds(ring, past)
  PROVE  LET slots == ChronoSlots(ring)
         IN [k \in DOMAIN slots |-> ring.slots[slots[k]]] = Window
  <1> DEFINE n == Len(past)
             W == WindowCapacity
             c == Least(n, W)
             f == [k \in 1..c |-> ring.slots[ChronoSlots(ring)[k]]]
  <1>1. /\ n \in Nat /\ c \in Nat /\ c <= n /\ c <= W /\ W \in Nat
        /\ Window \in Seq(Cells) /\ Len(Window) = c
        /\ \A k \in 1..c : Window[k] = past[n - c + k]
    BY WindowIs, ProblemIs
  <1>2. ring.count = c /\ (W > 0 => ring.next = n % W)
        /\ \A t \in 1..n : n - t < W => ring.slots[(t - 1) % W] = past[t]
    BY DEF WindowHolds
  <1>3. DOMAIN ChronoSlots(ring) = 1..c
    BY <1>2, ChronoSlotsIs
  <1>4. c = n \/ c = W
    BY <1>1, LeastIs
  <1>5. ChronoSlots(ring) = [i \in 1..c |-> ((IF c < W THEN 0 ELSE ring.next) + i - 1) % W]
    BY <1>2 DEF ChronoSlots
  <1> HIDE DEF n, W, c
  <1>6. ASSUME NEW k \in 1..c PROVE ring.slots[ChronoSlots(ring)[k]] = Window[k]
    <2> DEFINE t == n - c + k
    <2>1. t \in 1..n /\ n - t < W /\ W \in Nat \ {0} /\ k - 1 \in Nat
      BY <1>1
    <2>2. ring.slots[(t - 1) % W] = Window[k]
      BY <1>1, <1>2, <2>1
    <2>3. ChronoSlots(ring)[k] = (t - 1) % W
      <3>1. CASE c < W
        <4>1. t - 1 = 0 + k - 1
          BY <1>1, <1>4, <3>1
        <4> QED
          BY <1>5, <3>1, <4>1
      <3>2. CASE ~(c < W)
        <4>1. c = W
          BY <1>1, <3>2
        <4>2. ChronoSlots(ring)[k] = (ring.next + k - 1) % W
          BY <1>5, <3>2
        <4>3. (ring.next + k - 1) % W = ((n % W) + (k - 1)) % W
          <5>1. n % W \in Int
            BY <1>1, <2>1, ModIs
          <5>2. ring.next + k - 1 = (n % W) + (k - 1)
            BY <1>2, <2>1, <5>1
          <5> QED
            BY <5>2
        <4>4. ((n % W) + (k - 1)) % W = (n + (k - 1)) % W
          BY <1>1, <2>1, ModSum
        <4>5. n + (k - 1) = (t - 1) + W /\ t - 1 \in Nat
          BY <1>1, <2>1, <4>1
        <4>6. ((t - 1) + W) % W = (t - 1) % W
          <5> DEFINE m == t - 1
          <5>1. m \in Nat
            BY <4>5
          <5> HIDE DEF t, m
          <5>2. ((m % W) + W) % W = (m + W) % W
            BY <2>1, <5>1, ModSum
          <5>3. m % W \in 0..W - 1
            BY <2>1, <5>1, ModIs
          <5>4. ((m % W) + W) % W = m % W
            <6> DEFINE r == m % W
                       s == (r + W) % W
            <6>1. r \in 0..W - 1 /\ r + W \in Nat
              BY <2>1, <5>3
            <6>2. s \in 0..W - 1 /\ \E q \in Nat : r + W = q * W + s
              <7> HIDE DEF r
              <7> QED
                BY <2>1, <6>1, ModIs
            <6> HIDE DEF r, s
            <6>3. PICK q \in Nat : r + W = q * W + s
              BY <6>2
            <6>4. 1 * W + r = q * W + s
              BY <2>1, <6>1, <6>3
            <6>5. r = s
              BY <2>1, <6>1, <6>2, <6>4, ModApart
            <6> QED
              BY <6>5 DEF r, s
          <5> QED
            BY <5>2, <5>4 DEF m
        <4> QED
          BY <4>2, <4>3, <4>4, <4>5, <4>6
      <3> QED
        BY <3>1, <3>2
    <2> QED
      BY <2>2, <2>3
  <1>7. \A k \in 1..c : f[k] = Window[k]
    BY <1>6
  <1>8. f = Window
    <2>1. f \in [1..c -> Cells]
      BY <1>1, <1>6
    <2>2. Window \in [1..c -> Cells]
      BY <1>1
    <2> HIDE DEF f
    <2> QED
      <3>1. \A g, h \in [1..c -> Cells] : (\A k \in 1..c : g[k] = h[k]) => g = h
        BY SameFunction
      <3> QED
        BY <1>7, <2>1, <2>2, <3>1
  <1> QED
    BY <1>3, <1>8

-----------------------------------------------------------------------------
(* The recurrence. *)

Recs == [alphaBar : Rat, phiBar : Rat, cBar : Rat, sBar : Rat, zetaBar : Rat, zeta0 : PosRat]
Rots == [rho : Rat, rhoBar : Rat, thetaNew : Rat, thetaBar : Rat, zeta : Rat]
Sols == [x : V, h : V, hBar : V]

LEMMA LeqRat ==
  ASSUME NEW a \in Rat, NEW b \in Rat
  PROVE  /\ Leq(a, b) <=> a[1] * b[2] <= b[1] * a[2]
         /\ Leq(Nil, b) <=> b[1] >= 0
  <1>1. /\ a \in Fractions /\ b \in Fractions /\ Nil \in Fractions
        /\ b[1] \in Int /\ b[2] \in Nat \ {0}
    BY DEF Rat, Fractions, Nil, Positives
  <1>2. Leq(a, b) <=> a[1] * b[2] <= b[1] * a[2]
    BY <1>1, LeqIs
  <1>3. Leq(Nil, b) <=> Nil[1] * b[2] <= b[1] * Nil[2]
    BY <1>1, LeqIs
  <1>4. Nil[1] = 0 /\ Nil[2] = 1
    BY DEF Nil
  <1>5. Nil[1] * b[2] = 0 /\ b[1] * Nil[2] = b[1]
    BY <1>1, <1>4
  <1> QED
    BY <1>2, <1>3, <1>5

LEMMA LessNil ==
  ASSUME NEW a \in Rat
  PROVE  Less(a, Nil) <=> a[1] < 0
  <1>1. Leq(Nil, a) <=> a[1] >= 0
    BY LeqRat, PosRatIs
  <1>2. a[1] \in Int
    BY RatIs
  <1> QED
    BY <1>1, <1>2 DEF Less

LEMMA GivensIs ==
  ASSUME NEW a \in Rat, NEW b \in Rat
  PROVE  /\ Givens(a, b).c \in Rat /\ Givens(a, b).s \in Rat /\ Givens(a, b).r \in Rat
         /\ b = Nil => Givens(a, b).s = Nil
  <1> DEFINE r == Hypot(a, b)
  <1>1. r \in Rat
    BY HypotIs
  <1>2. Givens(a, b) = GivensBy(r, a, b)
    BY DEF Givens
  <1> HIDE DEF r
  <1>3. CASE Positive(r)
    <2>1. r[1] # 0
      BY <1>1, <1>3, RatIs DEF Positive
    <2>2. Div(a, r) \in Rat /\ Div(b, r) \in Rat /\ (b = Nil => Div(b, r) = Nil)
      BY <1>1, <2>1, DivIs, RatIs
    <2> QED
      BY <1>1, <1>2, <1>3, <2>2 DEF GivensBy
  <1>4. CASE ~Positive(r)
    BY <1>1, <1>2, <1>4, PosRatIs DEF GivensBy
  <1> QED
    BY <1>3, <1>4

(* The rotations; alpha = 0 leaves no normal-equation residual. *)
LEMMA RotationsIs ==
  ASSUME NEW r \in Recs, NEW s, s.alpha \in Rat, s.beta \in Rat
  PROVE  /\ Rotations(r, s).state \in Recs /\ Rotations(r, s).rot \in Rots
         /\ s.alpha = Nil => Rotations(r, s).state.zetaBar = Nil
  <1>1. /\ r.alphaBar \in Rat /\ r.phiBar \in Rat /\ r.cBar \in Rat /\ r.sBar \in Rat
        /\ r.zetaBar \in Rat /\ r.zeta0 \in PosRat
    BY DEF Recs
  <1> DEFINE hat == Givens(r.alphaBar, s.beta)
             thetaNew == Mul(hat.s, s.alpha)
             bar == Givens(Mul(r.cBar, hat.r), thetaNew)
  <1>2. hat.c \in Rat /\ hat.s \in Rat /\ hat.r \in Rat
    BY <1>1, GivensIs
  <1>3. Rotations(r, s) = Rotated(r, s, hat, thetaNew, bar)
    BY DEF Rotations, RotationHat, RotationTilde
  <1> HIDE DEF hat
  <1>4. thetaNew \in Rat /\ (s.alpha = Nil => thetaNew = Nil)
    BY <1>2, MulIs, RatIs
  <1> HIDE DEF thetaNew
  <1>5. bar.c \in Rat /\ bar.s \in Rat /\ bar.r \in Rat /\ (s.alpha = Nil => bar.s = Nil)
    <2>1. Mul(r.cBar, hat.r) \in Rat
      BY <1>1, <1>2, MulIs
    <2> QED
      BY <1>4, <2>1, GivensIs
  <1> HIDE DEF bar
  <1>6. /\ Neg(Mul(hat.c, s.alpha)) \in Rat /\ Mul(hat.s, r.phiBar) \in Rat
        /\ Neg(Mul(bar.s, r.zetaBar)) \in Rat /\ Mul(r.sBar, hat.r) \in Rat
        /\ Mul(bar.c, r.zetaBar) \in Rat
    <2>1. \A a, b \in Rat : Mul(a, b) \in Rat /\ Neg(Mul(a, b)) \in Rat
      BY MulIs, NegIs
    <2> QED
      BY <1>1, <1>2, <1>5, <2>1
  <1>7. s.alpha = Nil => Neg(Mul(bar.s, r.zetaBar)) = Nil
    <2>1. \A b \in Rat : Mul(Nil, b) = Nil
      BY MulIs, RatIs, PosRatIs
    <2>2. Neg(Nil) = Nil
      BY NegIs, PosRatIs
    <2> QED
      BY <1>1, <1>5, <2>1, <2>2
  <1>8. Rotations(r, s).state
          = [alphaBar |-> Neg(Mul(hat.c, s.alpha)), phiBar |-> Mul(hat.s, r.phiBar),
             cBar |-> bar.c, sBar |-> bar.s, zetaBar |-> Neg(Mul(bar.s, r.zetaBar)),
             zeta0 |-> r.zeta0]
    BY <1>3 DEF Rotated
  <1>9. Rotations(r, s).rot
          = [rho |-> hat.r, rhoBar |-> bar.r, thetaNew |-> thetaNew,
             thetaBar |-> Mul(r.sBar, hat.r), zeta |-> Mul(bar.c, r.zetaBar)]
    BY <1>3 DEF Rotated
  <1>10. Rotations(r, s).state \in Recs
    BY <1>1, <1>5, <1>6, <1>8 DEF Recs
  <1>11. Rotations(r, s).rot \in Rots
    BY <1>2, <1>4, <1>5, <1>6, <1>9 DEF Rots
  <1> QED
    BY <1>7, <1>8, <1>10, <1>11

LEMMA RecurrenceInitIs ==
  ASSUME NEW s, s.alpha \in Rat, s.beta \in Rat, s.alpha[1] > 0, s.beta[1] > 0
  PROVE  RecurrenceInit(s) \in Recs /\ RecurrenceInit(s).zetaBar # Nil
  <1>1. Mul(s.alpha, s.beta) \in PosRat
    BY PosRatOps DEF PosRat
  <1>2. Mul(s.alpha, s.beta) \in Rat /\ Mul(s.alpha, s.beta) # Nil
    BY <1>1, PosRatIs, RatIs
  <1> QED
    BY <1>1, <1>2, PosRatIs DEF RecurrenceInit, Recs

LEMMA OverIs ==
  ASSUME problem \in Problems, NEW v \in V, NEW a \in Rat, NEW b \in Rat
  PROVE  Over(v, a, b) \in V
  <1>1. CASE Nil \in {a, b}
    BY <1>1, ProblemIs DEF Over
  <1>2. CASE Nil \notin {a, b}
    <2>1. Inv(a) \in Rat /\ Inv(b) \in Rat
      BY <1>2, InvPositive
    <2>2. Scale(Inv(b), Scale(Inv(a), v)) \in V
      BY <2>1, VectorOps
    <2> QED
      BY <1>2, <2>2 DEF Over
  <1> QED
    BY <1>1, <1>2

LEMMA SolutionUpdateIs ==
  ASSUME problem \in Problems, NEW s \in Sols, NEW v \in V, NEW curr \in Rots, NEW prev \in Rots
  PROVE  SolutionUpdate(s, v, curr, prev) \in Sols
  <1>1. s.x \in V /\ s.h \in V /\ s.hBar \in V
    BY DEF Sols
  <1>2. /\ curr.rho \in Rat /\ curr.rhoBar \in Rat /\ curr.thetaNew \in Rat
        /\ curr.thetaBar \in Rat /\ curr.zeta \in Rat /\ prev.rho \in Rat /\ prev.rhoBar \in Rat
    BY DEF Rots
  <1> DEFINE y == Over(Scale(curr.rho, Scale(curr.thetaBar, s.hBar)), prev.rho, prev.rhoBar)
             hBar == Minus(s.h, y)
             x == Plus(s.x, Over(Scale(curr.zeta, hBar), curr.rho, curr.rhoBar))
             h == Minus(v, Over(Scale(curr.thetaNew, s.h), curr.rho, One))
  <1>3. y \in V
    <2>1. Scale(curr.rho, Scale(curr.thetaBar, s.hBar)) \in V
      BY <1>1, <1>2, VectorOps
    <2> QED
      BY <1>2, <2>1, OverIs
  <1> HIDE DEF y
  <1>4. hBar \in V
    BY <1>1, <1>3, VectorOps
  <1>5. SolutionUpdate(s, v, curr, prev) = [x |-> x, h |-> h, hBar |-> hBar]
    BY DEF SolutionUpdate, SolutionUpdateBy, y
  <1> HIDE DEF hBar
  <1>6. x \in V
    <2>1. Scale(curr.zeta, hBar) \in V
      BY <1>2, <1>4, VectorOps
    <2>2. Over(Scale(curr.zeta, hBar), curr.rho, curr.rhoBar) \in V
      BY <1>2, <2>1, OverIs
    <2> QED
      BY <1>1, <2>2, VectorOps
  <1>7. h \in V
    <2>1. Scale(curr.thetaNew, s.h) \in V
      BY <1>1, <1>2, VectorOps
    <2>2. Over(Scale(curr.thetaNew, s.h), curr.rho, One) \in V
      BY <1>2, <2>1, OverIs, PosRatIs
    <2> QED
      BY <2>2, VectorOps
  <1> HIDE DEF x, h
  <1> QED
    BY <1>4, <1>5, <1>6, <1>7 DEF Sols

(* A run whose normal-equation residual is 0 is stopped. *)
LEMMA StopReasonIs ==
  ASSUME problem \in Problems, CallTyped, NEW r \in Recs, NEW n \in Rat, n[1] >= 0
  PROVE  /\ StopReason(r, n) \in {"ResidualTolerance", "NormalEquationTolerance", None}
         /\ r.zetaBar = Nil => StopReason(r, n) # None
  <1>1. StopReason(r, n) \in {"ResidualTolerance", "NormalEquationTolerance", None}
    BY DEF StopReason
  <1>2. ASSUME r.zetaBar = Nil
        PROVE  Leq(Magnitude(r.zetaBar), Mul(call.tol, Mul(n, Magnitude(r.phiBar))))
    <2>1. Magnitude(r.zetaBar) = Nil
      BY <1>2, NegIs, PosRatIs
    <2>2. Magnitude(r.phiBar) \in Rat /\ Magnitude(r.phiBar)[1] >= 0
      BY NegIs DEF Recs
    <2>3. Mul(n, Magnitude(r.phiBar)) \in Rat /\ Mul(n, Magnitude(r.phiBar))[1] >= 0
      BY <2>2, MulIs
    <2>4. /\ Mul(call.tol, Mul(n, Magnitude(r.phiBar))) \in Rat
          /\ Mul(call.tol, Mul(n, Magnitude(r.phiBar)))[1] >= 0
      BY <2>3, MulIs DEF CallTyped
    <2> QED
      BY <2>1, <2>4, LeqRat
  <1>3. None # "ResidualTolerance" /\ None # "NormalEquationTolerance"
    BY LsmrAssumption
  <1>4. ASSUME r.zetaBar = Nil PROVE StopReason(r, n) # None
    BY <1>2, <1>3, <1>4 DEF StopReason
  <1> QED
    BY <1>1, <1>4

-----------------------------------------------------------------------------
(* Escalation. *)

(* Iteration j contracted the residual by no more than the threshold. *)
Slow(seq, j) == Less(Mul(call.policy.threshold, seq[j - 1]), seq[j])
Stalls(seq, k) ==
  k > call.policy.window /\ \A j \in (k - call.policy.window) + 1..k : Slow(seq, j)

(* The handler has seen seq, and counts the iterations since the last that *)
(* was not slow.                                                           *)
Counted(seq, h) ==
  /\ h.previous = IF seq = <<>> THEN None ELSE seq[Len(seq)]
  /\ h.stalled \in Nat
  /\ IF seq = <<>> THEN h.stalled = 0 ELSE h.stalled < Len(seq)
  /\ \A j \in (Len(seq) - h.stalled) + 1..Len(seq) : Slow(seq, j)
  /\ h.stalled + 1 < Len(seq) => ~Slow(seq, Len(seq) - h.stalled)

(* The ratio of the code and the product of the property compare alike. *)
LEMMA RatioIsProduct ==
  ASSUME NEW t \in Rat, NEW a \in PosRat, NEW b \in PosRat
  PROVE  Less(t, Div(b, a)) <=> Less(Mul(t, a), b)
  <1>1. /\ a[1] \in Nat \ {0} /\ a[2] \in Nat \ {0} /\ b[1] \in Nat \ {0} /\ b[2] \in Nat \ {0}
        /\ t[1] \in Int /\ t[2] \in Nat \ {0} /\ a \in Rat /\ b \in Rat /\ a[1] > 0
    BY PosRatIs, RatIs
  <1> DEFINE d == Div(b, a)
             m == Mul(t, a)
  <1>2. /\ d \in Rat /\ d[1] * (b[2] * a[1]) = (b[1] * a[2]) * d[2]
        /\ d[1] \in Int /\ d[2] \in Nat \ {0}
    <2>1. Inv(a) = <<a[2], a[1]>> /\ Inv(a) \in Rat
      BY <1>1, InvIs
    <2>2. d = Mul(b, Inv(a))
      BY DEF Div
    <2>3. Inv(a)[1] = a[2] /\ Inv(a)[2] = a[1]
      BY <2>1
    <2>4. d \in Rat /\ d[1] * (b[2] * Inv(a)[2]) = (b[1] * Inv(a)[1]) * d[2]
      BY <1>1, <2>1, <2>2, MulIs
    <2> HIDE DEF d
    <2>5. d[1] \in Int /\ d[2] \in Nat \ {0}
      BY <2>4, RatIs
    <2> QED
      BY <2>3, <2>4, <2>5
  <1>3. /\ m \in Rat /\ m[1] * (t[2] * a[2]) = (t[1] * a[1]) * m[2]
        /\ m[1] \in Int /\ m[2] \in Nat \ {0}
    <2>1. m \in Rat /\ m[1] * (t[2] * a[2]) = (t[1] * a[1]) * m[2]
      BY <1>1, MulIs
    <2> HIDE DEF m
    <2> QED
      BY <2>1, RatIs
  <1> HIDE DEF d, m
  <1>4. Leq(d, t) <=> d[1] * t[2] <= t[1] * d[2]
    BY <1>2, LeqRat
  <1>5. Leq(b, m) <=> b[1] * m[2] <= m[1] * b[2]
    BY <1>1, <1>3, LeqRat
  <1>6. \A x, y \in Int : \A z \in Nat \ {0} : x <= y <=> x * z <= y * z
    OBVIOUS
  <1> DEFINE left == (b[1] * a[2]) * t[2]
             right == (t[1] * a[1]) * b[2]
  <1>7. d[1] * t[2] <= t[1] * d[2] <=> left <= right
    <2> DEFINE k == b[2] * a[1]
    <2>1. k \in Nat \ {0} /\ d[1] * t[2] \in Int /\ t[1] * d[2] \in Int
          /\ left \in Int /\ right \in Int
      BY <1>1, <1>2
    <2>2. (d[1] * t[2]) * k = left * d[2]
      <3>1. \A p, q, u \in Int : (p * u) * q = (p * q) * u
        OBVIOUS
      <3>2. k \in Int /\ b[1] * a[2] \in Int /\ d[1] \in Int /\ d[2] \in Int /\ t[2] \in Int
        BY <1>1, <1>2
      <3> HIDE DEF k
      <3>3. d[1] * k = (b[1] * a[2]) * d[2]
        BY <1>2 DEF k
      <3> QED
        <4>1. (d[1] * t[2]) * k = (d[1] * k) * t[2]
          BY <3>1, <3>2
        <4>2. ((b[1] * a[2]) * d[2]) * t[2] = ((b[1] * a[2]) * t[2]) * d[2]
          BY <3>1, <3>2
        <4> QED
          BY <3>3, <4>1, <4>2, Zenon
    <2>3. (t[1] * d[2]) * k = right * d[2]
      <3>1. \A p, q, r, s \in Int : (p * q) * (r * s) = ((p * s) * r) * q
        OBVIOUS
      <3> QED
        BY <1>1, <1>2, <3>1
    <2>4. d[1] * t[2] <= t[1] * d[2] <=> (d[1] * t[2]) * k <= (t[1] * d[2]) * k
      <3> HIDE DEF k
      <3> QED
        BY <1>6, <2>1
    <2>5. left <= right <=> left * d[2] <= right * d[2]
      <3> HIDE DEF left, right, k
      <3> QED
        BY <1>2, <1>6, <2>1
    <2> HIDE DEF left, right, k
    <2> QED
      BY <2>2, <2>3, <2>4, <2>5
  <1>8. b[1] * m[2] <= m[1] * b[2] <=> left <= right
    <2> DEFINE k == t[2] * a[2]
    <2>1. k \in Nat \ {0} /\ b[1] * m[2] \in Int /\ m[1] * b[2] \in Int
          /\ left \in Int /\ right \in Int
      BY <1>1, <1>3
    <2>2. (b[1] * m[2]) * k = left * m[2]
      <3>1. \A p, q, r, s \in Int : (p * q) * (r * s) = ((p * s) * r) * q
        OBVIOUS
      <3> QED
        BY <1>1, <1>3, <3>1
    <2>3. (m[1] * b[2]) * k = right * m[2]
      <3>1. \A p, q, u \in Int : (p * u) * q = (p * q) * u
        OBVIOUS
      <3>2. k \in Int /\ t[1] * a[1] \in Int /\ m[1] \in Int /\ m[2] \in Int /\ b[2] \in Int
        BY <1>1, <1>3
      <3> HIDE DEF k
      <3>3. m[1] * k = (t[1] * a[1]) * m[2]
        BY <1>3 DEF k
      <3> QED
        <4>1. (m[1] * b[2]) * k = (m[1] * k) * b[2]
          BY <3>1, <3>2
        <4>2. ((t[1] * a[1]) * m[2]) * b[2] = ((t[1] * a[1]) * b[2]) * m[2]
          BY <3>1, <3>2
        <4> QED
          BY <3>3, <4>1, <4>2, Zenon
    <2>4. b[1] * m[2] <= m[1] * b[2] <=> (b[1] * m[2]) * k <= (m[1] * b[2]) * k
      <3> HIDE DEF k
      <3> QED
        BY <1>6, <2>1
    <2>5. left <= right <=> left * m[2] <= right * m[2]
      <3> HIDE DEF left, right, k
      <3> QED
        BY <1>3, <1>6, <2>1
    <2> HIDE DEF left, right, k
    <2> QED
      BY <2>2, <2>3, <2>4, <2>5
  <1> QED
    BY <1>4, <1>5, <1>7, <1>8 DEF Less, d, m

LEMMA AppendIs ==
  ASSUME NEW S, NEW seq \in Seq(S), NEW e \in S
  PROVE  /\ Append(seq, e) \in Seq(S) /\ Len(Append(seq, e)) = Len(seq) + 1
         /\ Append(seq, e)[Len(seq) + 1] = e
         /\ \A i \in 1..Len(seq) : Append(seq, e)[i] = seq[i]
         /\ Append(seq, e) # <<>> /\ Len(seq) \in Nat
         /\ (seq = <<>> <=> Len(seq) = 0)
  OBVIOUS

(* should_escalate keeps the count. *)
LEMMA ObservedCounts ==
  ASSUME CallTyped, call.policy # None, NEW seq \in Seq(PosRat), NEW h, Counted(seq, h),
         NEW e \in PosRat
  PROVE  Counted(Append(seq, e), Observed(h, e))
  <1> DEFINE n == Len(seq)
             s == Append(seq, e)
             g == Observed(h, e)
  <1> SUFFICES Counted(s, g)
    OBVIOUS
  <1>1. /\ Len(s) = n + 1 /\ s[n + 1] = e /\ (\A i \in 1..n : s[i] = seq[i]) /\ s # <<>>
        /\ n \in Nat /\ (seq = <<>> <=> n = 0)
    BY AppendIs
  <1>2. /\ h.previous = IF seq = <<>> THEN None ELSE seq[n]
        /\ h.stalled \in Nat
        /\ IF seq = <<>> THEN h.stalled = 0 ELSE h.stalled < n
        /\ \A j \in (n - h.stalled) + 1..n : Slow(seq, j)
        /\ h.stalled + 1 < n => ~Slow(seq, n - h.stalled)
    BY DEF Counted
  <1>3. \A j \in 2..n : Slow(s, j) <=> Slow(seq, j)
    <2> SUFFICES ASSUME NEW j \in 2..n PROVE Slow(s, j) <=> Slow(seq, j)
      OBVIOUS
    <2>1. j \in 1..n /\ j - 1 \in 1..n
      BY <1>1
    <2>2. s[j] = seq[j] /\ s[j - 1] = seq[j - 1]
      BY <1>1, <2>1
    <2> QED
      BY <2>2, Zenon DEF Slow
  <1> HIDE DEF s
  <1>4. CASE seq = <<>>
    <2>1. h.stalled = 0 /\ h.previous = None /\ n = 0
      BY <1>1, <1>2, <1>4
    <2>2. g = [previous |-> e, stalled |-> 0]
      BY <2>1 DEF Observed
    <2> HIDE DEF g, n
    <2> QED
      BY <1>1, <2>1, <2>2 DEF Counted
  <1>5. CASE seq # <<>>
    <2>1. h.previous = seq[n] /\ seq[n] \in PosRat /\ n \in Nat \ {0} /\ h.stalled < n
      BY <1>1, <1>2, <1>5
    <2>2. h.previous # None /\ Positive(h.previous)
      <3>1. h.previous \in Rat /\ h.previous[1] > 0
        BY <2>1 DEF PosRat
      <3> QED
        BY <3>1, LsmrAssumption DEF Positive
    <2>3. Slow(s, n + 1) <=> Less(call.policy.threshold, Div(e, h.previous))
      <3>1. s[(n + 1) - 1] = seq[n] /\ s[n + 1] = e
        BY <1>1, <2>1
      <3>2. call.policy.threshold \in Rat
        BY DEF CallTyped
      <3>3. Less(call.policy.threshold, Div(e, seq[n])) <=> Less(Mul(call.policy.threshold, seq[n]), e)
        BY <2>1, <3>2, RatioIsProduct
      <3> QED
        BY <2>1, <3>1, <3>3, Zenon DEF Slow
    <2>4. g.previous = s[Len(s)]
      BY <1>1 DEF Observed
    <2>5. CASE Slow(s, n + 1)
      <3>1. g.stalled = h.stalled + 1
        BY <2>2, <2>3, <2>5 DEF Observed
      <3> HIDE DEF g, n
      <3>2. g.stalled \in Nat /\ g.stalled < Len(s)
        BY <1>1, <1>2, <2>1, <3>1
      <3>3. ASSUME NEW j \in (Len(s) - g.stalled) + 1..Len(s) PROVE Slow(s, j)
        <4>1. CASE j = n + 1
          BY <2>5, <4>1
        <4>2. CASE j # n + 1
          <5>1. j \in (n - h.stalled) + 1..n /\ j \in 2..n
            BY <1>1, <1>2, <2>1, <3>1, <4>2
          <5> QED
            BY <1>2, <1>3, <5>1
        <4> QED
          BY <4>1, <4>2
      <3>4. ASSUME g.stalled + 1 < Len(s) PROVE ~Slow(s, Len(s) - g.stalled)
        <4>1. h.stalled + 1 < n /\ Len(s) - g.stalled = n - h.stalled /\ n - h.stalled \in 2..n
          BY <1>1, <1>2, <2>1, <3>1, <3>4
        <4> QED
          BY <1>2, <1>3, <4>1
      <3> QED
        BY <1>1, <2>4, <3>2, <3>3, <3>4 DEF Counted
    <2>6. CASE ~Slow(s, n + 1)
      <3>1. g.stalled = 0
        BY <2>2, <2>3, <2>6 DEF Observed
      <3> HIDE DEF g, n
      <3>2. g.stalled \in Nat /\ g.stalled < Len(s)
        BY <1>1, <3>1
      <3>3. (Len(s) - g.stalled) + 1..Len(s) = {}
        BY <1>1, <3>1
      <3>4. Len(s) - g.stalled = n + 1
        BY <1>1, <3>1
      <3> QED
        BY <1>1, <2>4, <2>6, <3>2, <3>3, <3>4 DEF Counted
    <2> QED
      BY <2>5, <2>6
  <1> QED
    BY <1>4, <1>5

(* The count reaches the window just when the last window were slow. *)
LEMMA CountedStalls ==
  ASSUME CallTyped, call.policy # None, NEW seq \in Seq(PosRat), seq # <<>>, NEW h, Counted(seq, h)
  PROVE  Stalls(seq, Len(seq)) <=> h.stalled >= call.policy.window
  <1> DEFINE n == Len(seq)
             w == call.policy.window
  <1>1. n \in Nat \ {0} /\ w \in Nat \ {0}
    BY DEF CallTyped
  <1>2. /\ h.stalled \in Nat /\ h.stalled < n
        /\ \A j \in (n - h.stalled) + 1..n : Slow(seq, j)
        /\ h.stalled + 1 < n => ~Slow(seq, n - h.stalled)
    BY DEF Counted
  <1>3. Stalls(seq, n) <=> n > w /\ \A j \in (n - w) + 1..n : Slow(seq, j)
    BY DEF Stalls
  <1> HIDE DEF n, w
  <1>4. CASE h.stalled >= w
    <2>1. n > w /\ \A j \in (n - w) + 1..n : j \in (n - h.stalled) + 1..n
      BY <1>1, <1>2, <1>4
    <2> QED
      BY <1>2, <1>3, <1>4, <2>1 DEF n, w
  <1>5. CASE ~(h.stalled >= w)
    <2> SUFFICES ASSUME n > w, \A j \in (n - w) + 1..n : Slow(seq, j) PROVE FALSE
      BY <1>3, <1>5 DEF n, w
    <2>1. h.stalled + 1 < n /\ n - h.stalled \in (n - w) + 1..n
      BY <1>1, <1>2, <1>5
    <2> QED
      BY <1>2, <2>1
  <1> QED
    BY <1>4, <1>5

(* Whether an earlier iteration stalled does not change. *)
LEMMA StallsBefore ==
  ASSUME CallTyped, call.policy # None, NEW seq \in Seq(PosRat), NEW e \in PosRat,
         NEW k \in 1..Len(seq)
  PROVE  Stalls(Append(seq, e), k) <=> Stalls(seq, k)
  <1> DEFINE s == Append(seq, e)
             w == call.policy.window
  <1>1. Len(seq) \in Nat /\ \A i \in 1..Len(seq) : s[i] = seq[i]
    BY AppendIs
  <1>2. w \in Nat \ {0}
    BY DEF CallTyped
  <1> HIDE DEF s
  <1>3. ASSUME k > w, NEW j \in (k - w) + 1..k PROVE Slow(s, j) <=> Slow(seq, j)
    <2>1. j \in 1..Len(seq) /\ j - 1 \in 1..Len(seq)
      BY <1>1, <1>2, <1>3
    <2>2. s[j] = seq[j] /\ s[j - 1] = seq[j - 1]
      BY <1>1, <2>1
    <2> QED
      BY <2>2, Zenon DEF Slow
  <1>4. Stalls(s, k) <=> Stalls(seq, k)
    BY <1>3 DEF Stalls
  <1> QED
    BY <1>4 DEF s

(* What the policy sees is positive. *)
LEMMA RelativeResidualIs ==
  ASSUME NEW r \in Recs, r.zetaBar # Nil
  PROVE  RelativeResidual(r) \in PosRat
  <1>1. r.zetaBar \in Rat /\ r.zetaBar[1] # 0 /\ r.zeta0 \in PosRat
    BY RatIs DEF Recs
  <1>2. Magnitude(r.zetaBar) \in PosRat
    <2>1. Magnitude(r.zetaBar) \in Rat /\ Magnitude(r.zetaBar)[1] >= 0 /\ Magnitude(r.zetaBar)[1] # 0
      BY <1>1, NegIs
    <2>2. Magnitude(r.zetaBar)[1] \in Int
      BY <2>1, RatIs
    <2> QED
      BY <2>1, <2>2 DEF PosRat
  <1> QED
    BY <1>1, <1>2, PosRatOps DEF RelativeResidual

-----------------------------------------------------------------------------
(* The invariant. *)

LoopTyped ==
  /\ bidiag \in Streams /\ Positive(bidiag.alpha)
  /\ rec \in Recs /\ rec.zetaBar # Nil
  /\ sol \in Sols /\ rot \in Rots
  /\ aNormSq \in Rat /\ aNormSq[1] >= 0
  /\ past \in Seq(Cells)

(* What the policy has counted: the run has not stalled yet. *)
Patient ==
  /\ trail \in Seq(PosRat)
  /\ Counted(trail, handler)
  /\ handler.stalled < call.policy.window
  /\ \A k \in 1..Len(trail) : ~Stalls(trail, k)

Fields == {"reason", "converged", "x", "iterations", "residual"}

(* Between the calls the last one ended as its policy says; in a call the  *)
(* arguments are what a caller may pass; in its loop the stream, the rotations *)
(* and the solution are typed, alpha is positive, the ring holds the window *)
(* and the policy has counted the iterations without reaching its limit.   *)
LsmrInv ==
  /\ problem \in Problems
  /\ DOMAIN result = Fields /\ (result.x = None \/ result.x \in [1..N -> Rat])
  /\ itn \in Nat
  /\ pc \in {"idle", "init", "loop"}
  /\ pc # "idle" => CallTyped
  /\ pc = "init" => itn = 0
  /\ pc = "loop" => LoopTyped /\ WindowHolds(bidiag.ring, past) /\ (call.policy # None => Patient)
  /\ pc = "idle" => EscalatesWhenStalled

(* A step of a solve leaves what depends on the problem alone. *)
LEMMA SameProblem ==
  ASSUME problem' = problem
  PROVE  /\ N' = N /\ U' = U /\ V' = V /\ Cells' = Cells /\ WindowCapacity' = WindowCapacity
         /\ Rings' = Rings /\ Streams' = Streams /\ Sols' = Sols
  <1>1. A' = A
    BY DEF A
  <1>2. N' = N /\ M' = M
    BY <1>1 DEF N, M
  <1>3. U' = U /\ V' = V
    BY <1>2 DEF U, V
  <1>4. Cells' = Cells /\ WindowCapacity' = WindowCapacity
    BY <1>1, <1>3 DEF Cells, WindowCapacity
  <1>5. Rings' = Rings
    BY <1>4 DEF Rings
  <1>6. Streams' = Streams
    BY <1>3, <1>5 DEF Streams
  <1>7. Sols' = Sols
    BY <1>3 DEF Sols
  <1> QED
    BY <1>2, <1>3, <1>4, <1>5, <1>6, <1>7

LEMMA SameCall ==
  ASSUME problem' = problem, call' = call
  PROVE  /\ CallTyped' <=> CallTyped
         /\ \A k : Stalled(k)' <=> Stalls(trail', k)
         /\ \A k : Stalled(k) <=> Stalls(trail, k)
         /\ Counted(trail, handler)' <=> Counted(trail', handler')
         /\ \A k : Stalls(trail, k)' <=> Stalls(trail', k)
  <1>1. N' = N
    BY SameProblem
  <1>2. CallTyped' <=> CallTyped
    BY <1>1 DEF CallTyped
  <1>3. \A k : Stalled(k)' <=> Stalls(trail', k)
    BY DEF Stalled, Stalls, Slow
  <1>4. \A k : Stalled(k) <=> Stalls(trail, k)
    BY DEF Stalled, Stalls, Slow
  <1>5. Counted(trail, handler)' <=> Counted(trail', handler')
    BY DEF Counted, Slow
  <1>6. \A k : Stalls(trail, k)' <=> Stalls(trail', k)
    BY DEF Stalls, Slow
  <1> QED
    BY <1>2, <1>3, <1>4, <1>5, <1>6

LEMMA SameWindow ==
  ASSUME problem' = problem, WindowHolds(bidiag'.ring, past')
  PROVE  WindowHolds(bidiag.ring, past)'
  BY SameProblem DEF WindowHolds

LEMMA SameTypes ==
  ASSUME problem' = problem, bidiag' \in Streams, Positive(bidiag'.alpha), rec' \in Recs,
         rec'.zetaBar # Nil, sol' \in Sols, rot' \in Rots, aNormSq' \in Rat, aNormSq'[1] >= 0,
         past' \in Seq(Cells)
  PROVE  LoopTyped'
  <1>1. bidiag' \in Streams' /\ sol' \in Sols' /\ past' \in Seq(Cells')
    BY SameProblem
  <1>2. rec' \in Recs' /\ rot' \in Rots'
    BY DEF Recs, Rots
  <1>3. Positive(bidiag.alpha)'
    BY DEF Positive
  <1> QED
    BY <1>1, <1>2, <1>3 DEF LoopTyped

(* A solve that fails. *)
LEMMA FailIs ==
  ASSUME Fail, DOMAIN result = Fields
  PROVE  /\ pc' = "idle" /\ result'.x = result.x /\ DOMAIN result' = Fields
         /\ ~Answered'
  <1>1. result' = [result EXCEPT !.reason = "InvalidInput", !.converged = FALSE] /\ pc' = "idle"
    BY DEF Fail
  <1>2. result'.x = result.x /\ DOMAIN result' = Fields /\ result'.reason = "InvalidInput"
    BY <1>1 DEF Fields
  <1> QED
    BY <1>1, <1>2 DEF Answered

LEMMA ReturnedIs ==
  ASSUME problem \in Problems, CallTyped, NEW x \in V
  PROVE  Returned(x) \in [1..N -> Rat]
  <1>1. (IF Warm THEN Plus(x, Vec(call.x0)) ELSE x) \in V
    BY StartResidualIs, VectorOps
  <1> QED
    BY <1>1, RationalsIs DEF Returned, V

(* A solve that returns. *)
LEMMA ExitIs ==
  ASSUME problem \in Problems, CallTyped, NEW reason, NEW x \in V, NEW residual,
         Exit(reason, x, residual)
  PROVE  /\ pc' = "idle" /\ result'.x \in [1..N -> Rat] /\ DOMAIN result' = Fields
         /\ result'.reason = reason
  BY ReturnedIs DEF Exit, Fields

(* A run that ends before its first iteration. *)
LEMMA EndsEarly ==
  ASSUME LsmrInv, pc = "init", problem' = problem, itn' = itn, pc' = "idle",
         DOMAIN result' = Fields, result'.x = None \/ result'.x \in [1..N -> Rat]
  PROVE  LsmrInv'
  <1>1. itn' = 0 /\ itn' \in Nat
    BY DEF LsmrInv
  <1>2. EscalatesWhenStalled'
    BY <1>1 DEF EscalatesWhenStalled
  <1> QED
    BY <1>1, <1>2, SameProblem DEF LsmrInv

LEMMA InitInv == Init => LsmrInv
  <1> SUFFICES ASSUME Init PROVE LsmrInv
    OBVIOUS
  <1>1. EscalatesWhenStalled
    BY DEF Init, EscalatesWhenStalled
  <1> QED
    BY <1>1 DEF Init, LsmrInv, Fields

LEMMA RejectInv == ASSUME LsmrInv, Reject PROVE LsmrInv'
  <1>1. Fail /\ problem' = problem /\ itn' = itn
    BY DEF Reject, loopVars
  <1>2. pc' = "idle" /\ result'.x = result.x /\ DOMAIN result' = Fields /\ ~Answered'
    BY <1>1, FailIs DEF LsmrInv
  <1>3. EscalatesWhenStalled'
    BY <1>2 DEF EscalatesWhenStalled
  <1> QED
    BY <1>1, <1>2, <1>3, SameProblem DEF LsmrInv

LEMMA CallInv == ASSUME LsmrInv, Call PROVE LsmrInv'
  <1>1. PICK mInv \in Preconditioners \cup Indefinite \cup {None},
             x0 \in StartVectors \cup {result.x, None},
             policy \in problem.policies \cup {None}, tol \in Tolerances, budget \in Budgets :
          /\ IF mInv = None THEN x0 = None /\ policy = None ELSE Len(mInv) = Len(A[1])
          /\ x0 # None => Len(x0) = Len(A[1]) /\ \A j \in DOMAIN x0 : x0[j][2] <= MaxDenominator
          /\ call' = [mInv |-> mInv, x0 |-> x0, policy |-> policy, tol |-> tol, maxiter |-> budget]
    BY DEF Call
  <1>2. problem' = problem /\ pc' = "init" /\ itn' = 0 /\ result' = result /\ problem \in Problems
        /\ (result.x = None \/ result.x \in [1..N -> Rat])
    BY DEF Call, LsmrInv
  <1>3. mInv = None \/ mInv \in Matrices(N, N)
    BY <1>1, LsmrAssumption DEF N
  <1>4. x0 = None \/ x0 \in [1..N -> Rat]
    <2>1. CASE x0 \in StartVectors /\ x0 # None
      <3>1. x0 \in Seq(Rat) /\ Len(x0) = N
        BY <1>1, <2>1, LsmrAssumption DEF N
      <3> QED
        BY <3>1
    <2> QED
      BY <1>1, <1>2, <2>1
  <1>5. policy # None => /\ policy.window \in Nat \ {0}
                         /\ policy.threshold \in Rat /\ policy.threshold[1] >= 0
    <2> SUFFICES ASSUME policy # None
                 PROVE  /\ policy.window \in Nat \ {0}
                        /\ policy.threshold \in Rat /\ policy.threshold[1] >= 0
      OBVIOUS
    <2>1. policy.window \in Nat \ {0} /\ policy.threshold \in Rat /\ Leq(Nil, policy.threshold)
      BY <1>1, <1>2, LsmrAssumption
    <2> QED
      BY <2>1, LeqRat
  <1>6. tol \in Rat /\ tol[1] >= 0
    <2>1. tol \in Rat /\ Leq(Nil, tol)
      BY LsmrAssumption
    <2> QED
      BY <2>1, LeqRat
  <1>7. N' = N
    BY <1>2, SameProblem
  <1>8. /\ call'.mInv = mInv /\ call'.x0 = x0 /\ call'.policy = policy /\ call'.tol = tol
    BY <1>1
  <1>9. CallTyped'
    BY <1>3, <1>4, <1>5, <1>6, <1>7, <1>8 DEF CallTyped
  <1> QED
    BY <1>2, <1>7, <1>9 DEF LsmrInv

LEMMA NothingToDoInv == ASSUME LsmrInv, NothingToDo PROVE LsmrInv'
  <1>1. /\ pc = "init" /\ problem \in Problems /\ CallTyped /\ problem' = problem /\ itn' = itn
        /\ Exit(IF Warm THEN "WarmStartExact" ELSE "ZeroRhs", NoX, Nil)
    BY DEF LsmrInv, NothingToDo
  <1>2. NoX \in V
    BY <1>1, ProblemIs
  <1>3. pc' = "idle" /\ result'.x \in [1..N -> Rat] /\ DOMAIN result' = Fields
    BY <1>1, <1>2, ExitIs
  <1> QED
    BY <1>1, <1>3, EndsEarly

LEMMA BasisVectorIs ==
  ASSUME problem \in Problems, NEW s \in Streams, Positive(s.alpha)
  PROVE  /\ Scale(Inv(s.alpha), s.p) \in V /\ s.v \in V
         /\ BasisVector(s) = [v |-> s.v, p |-> Scale(Inv(s.alpha), s.p)]
         /\ BasisVector(s) \in Cells
  <1>1. s.v \in V /\ s.p \in V /\ s.alpha \in Rat
    BY StreamIs
  <1>2. Scale(Inv(s.alpha), s.p) \in V
    BY <1>1, InvPositive, VectorOps
  <1> QED
    BY <1>1, <1>2 DEF BasisVector, Cells

LEMMA StartInv == ASSUME LsmrInv, Start PROVE LsmrInv'
  <1> DEFINE s == StreamInit(StartResidual)
  <1>1. /\ pc = "init" /\ problem \in Problems /\ CallTyped /\ problem' = problem /\ call' = call
        /\ itn' = itn /\ ~IsNil(StartResidual)
        /\ DOMAIN result = Fields /\ (result.x = None \/ result.x \in [1..N -> Rat])
    BY DEF LsmrInv, Start
  <1>10. StartResidual \in U
    BY <1>1, StartResidualIs
  <1>4. Pushes(NewRing, s) /\ s.beta[1] > 0
    BY <1>1, <1>10, StreamInitIs
  <1>2. CASE Less(s.alpha, Nil)
    <2>0. s.alpha # Nil
      <3>1. s.alpha \in Rat
        BY <1>4, StreamIs DEF Pushes
      <3>2. s.alpha[1] < 0
        BY <1>2, <3>1, LessNil
      <3> QED
        BY <3>2 DEF Nil
    <2>1. Fail
      BY <1>2, <2>0 DEF Start
    <2>2. pc' = "idle" /\ result'.x = result.x /\ DOMAIN result' = Fields
      BY <1>1, <2>1, FailIs
    <2> QED
      BY <1>1, <2>2, EndsEarly
  <1>5. CASE ~Less(s.alpha, Nil) /\ s.alpha = Nil
    <2>1. Exit("InitialNormalEquationResidualZero", NoX, s.beta)
      BY <1>5 DEF Start
    <2>2. NoX \in V
      BY <1>1, ProblemIs
    <2>3. pc' = "idle" /\ result'.x \in [1..N -> Rat] /\ DOMAIN result' = Fields
      BY <1>1, <2>1, <2>2, ExitIs
    <2> QED
      BY <1>1, <2>3, EndsEarly
  <1>6. CASE ~Less(s.alpha, Nil) /\ s.alpha # Nil
    <2>1. /\ bidiag' = s /\ rec' = RecurrenceInit(s) /\ sol' = SolutionInit(s.v)
          /\ rot' = FirstRotation /\ aNormSq' = s.alpha /\ handler' = FreshHandler
          /\ past' = <<BasisVector(s)>> /\ trail' = <<>> /\ pc' = "loop" /\ result' = result
      BY <1>6 DEF Start
    <2> HIDE DEF s
    <2>2. s \in Streams /\ s.alpha \in Rat /\ s.beta \in Rat /\ s.v \in V
      BY <1>4, StreamIs DEF Pushes
    <2>3. s.alpha[1] > 0 /\ Positive(s.alpha)
      <3>1. ~(s.alpha[1] < 0) /\ s.alpha[1] # 0 /\ s.alpha[1] \in Int
        BY <1>6, <2>2, LessNil, RatIs
      <3> QED
        BY <3>1 DEF Positive
    <2>4. rec' \in Recs /\ rec'.zetaBar # Nil
      BY <1>4, <2>1, <2>2, <2>3, RecurrenceInitIs
    <2>5. sol' \in Sols /\ rot' \in Rots
      BY <1>1, <2>1, <2>2, ProblemIs, PosRatIs DEF SolutionInit, FirstRotation, Sols, Rots
    <2>6. /\ BasisVector(s) = [v |-> s.v, p |-> Scale(Inv(s.alpha), s.p)]
          /\ Scale(Inv(s.alpha), s.p) \in V /\ BasisVector(s) \in Cells
      BY <1>1, <2>2, <2>3, BasisVectorIs
    <2>7. past' \in Seq(Cells) /\ past' = Append(<<>>, BasisVector(s)) /\ <<>> \in Seq(Cells)
      BY <2>1, <2>6
    <2>8. WindowHolds(s.ring, past')
      <3>1. s.ring = Push(NewRing, s.v, Scale(Inv(s.alpha), s.p))
        BY <1>4, <2>3 DEF Pushes
      <3>2. WindowHolds(Push(NewRing, s.v, Scale(Inv(s.alpha), s.p)),
                        Append(<<>>, [v |-> s.v, p |-> Scale(Inv(s.alpha), s.p)]))
        BY <1>1, <2>2, <2>6, <2>7, NewRingIs, NewRingHolds, PushHolds
      <3> QED
        BY <2>6, <2>7, <3>1, <3>2
    <2>9. WindowHolds(bidiag.ring, past)'
      BY <1>1, <2>1, <2>8, SameWindow
    <2>10. LoopTyped'
      <3>1. aNormSq' \in Rat /\ aNormSq'[1] >= 0
        BY <2>1, <2>2, <2>3, RatIs
      <3>2. bidiag' \in Streams /\ Positive(bidiag'.alpha)
        BY <2>1, <2>2, <2>3
      <3> QED
        BY <1>1, <2>4, <2>5, <2>7, <3>1, <3>2, SameTypes
    <2>11. call.policy # None => Patient'
      <3> SUFFICES ASSUME call.policy # None PROVE Patient'
        OBVIOUS
      <3>1. Counted(<<>>, FreshHandler)
        BY DEF Counted, FreshHandler
      <3>2. 0 < call.policy.window
        BY <1>1 DEF CallTyped
      <3>3. Counted(trail, handler)'
        BY <1>1, <2>1, <3>1, SameCall
      <3>4. trail' \in Seq(PosRat) /\ Len(trail') = 0 /\ handler'.stalled = 0
        BY <2>1 DEF FreshHandler
      <3> QED
        BY <1>1, <3>2, <3>3, <3>4 DEF Patient
    <2>12. CallTyped' /\ itn' \in Nat /\ N' = N
      BY <1>1, SameCall, SameProblem DEF LsmrInv
    <2> QED
      BY <1>1, <2>1, <2>9, <2>10, <2>11, <2>12 DEF LsmrInv
  <1> QED
    BY <1>2, <1>5, <1>6

(* A run that ends in its loop: what the policy has seen decides whether   *)
(* it ended as handed off.                                                 *)
LEMMA EndsLoop ==
  ASSUME LsmrInv, problem' = problem, call' = call, pc' = "idle", itn' \in Nat,
         DOMAIN result' = Fields, result'.x \in [1..N -> Rat], pc = "loop",
         call.policy # None /\ trail' # <<>> =>
           /\ \A k \in 1..Len(trail') - 1 : ~Stalls(trail', k)
           /\ Stalls(trail', Len(trail')) <=> result'.reason = "Escalated"
  PROVE  LsmrInv'
  <1>1. CallTyped' /\ N' = N
    BY SameCall, SameProblem DEF LsmrInv
  <1>2. EscalatesWhenStalled'
    <2> SUFFICES ASSUME call.policy # None, trail' # <<>>
                 PROVE  /\ \A k \in 1..Len(trail') - 1 : ~Stalled(k)'
                        /\ Stalled(Len(trail))' <=> (pc' = "idle" /\ result'.reason = "Escalated")
      BY DEF EscalatesWhenStalled
    <2>1. \A k : Stalled(k)' <=> Stalls(trail', k)
      BY SameCall
    <2>2. Stalled(Len(trail))' <=> Stalls(trail', Len(trail'))
      BY DEF Stalled, Stalls, Slow
    <2> QED
      BY <2>1, <2>2
  <1> QED
    BY <1>1, <1>2 DEF LsmrInv

LEMMA FailLoopInv ==
  ASSUME LsmrInv, pc = "loop", Fail, problem' = problem, call' = call, itn' = itn
  PROVE  LsmrInv'
  <1>1. pc' = "idle" /\ result'.x = result.x /\ DOMAIN result' = Fields /\ ~Answered'
    BY FailIs DEF LsmrInv
  <1>2. EscalatesWhenStalled'
    BY <1>1 DEF EscalatesWhenStalled
  <1>3. CallTyped' /\ N' = N
    BY SameCall, SameProblem DEF LsmrInv
  <1> QED
    BY <1>1, <1>2, <1>3 DEF LsmrInv

LEMMA GiveUpInv == ASSUME LsmrInv, GiveUp PROVE LsmrInv'
  <1>1. /\ pc = "loop" /\ problem \in Problems /\ CallTyped /\ LoopTyped
        /\ problem' = problem /\ call' = call /\ itn' = itn /\ itn \in Nat /\ trail' = trail
        /\ Exit("MaxIterations", sol.x, rec.phiBar) /\ (call.policy # None => Patient)
    BY DEF LsmrInv, GiveUp
  <1>2. sol.x \in V
    BY <1>1 DEF LoopTyped, Sols
  <1>3. /\ pc' = "idle" /\ result'.x \in [1..N -> Rat] /\ DOMAIN result' = Fields
        /\ result'.reason = "MaxIterations"
    BY <1>1, <1>2, ExitIs
  <1>4. call.policy # None /\ trail' # <<>> =>
           /\ \A k \in 1..Len(trail') - 1 : ~Stalls(trail', k)
           /\ Stalls(trail', Len(trail')) <=> result'.reason = "Escalated"
    <2> SUFFICES ASSUME call.policy # None, trail # <<>>
                 PROVE  /\ \A k \in 1..Len(trail) - 1 : ~Stalls(trail, k)
                        /\ ~Stalls(trail, Len(trail))
      BY <1>1, <1>3
    <2>1. trail \in Seq(PosRat) /\ \A k \in 1..Len(trail) : ~Stalls(trail, k)
      BY <1>1 DEF Patient
    <2>2. Len(trail) \in Nat /\ Len(trail) # 0
      BY <2>1
    <2> QED
      BY <2>1, <2>2
  <1> QED
    BY <1>1, <1>3, <1>4, EndsLoop

LEMMA IterateInv == ASSUME LsmrInv, Iterate PROVE LsmrInv'
  <1>1. /\ pc = "loop" /\ problem \in Problems /\ CallTyped /\ LoopTyped
        /\ problem' = problem /\ call' = call /\ itn \in Nat
        /\ WindowHolds(bidiag.ring, past) /\ (call.policy # None => Patient)
        /\ DOMAIN result = Fields /\ (result.x = None \/ result.x \in [1..N -> Rat])
    BY DEF LsmrInv, Iterate
  <1>2. /\ bidiag \in Streams /\ Positive(bidiag.alpha) /\ bidiag.ring \in Rings
        /\ rec \in Recs /\ rec.zetaBar # Nil /\ sol \in Sols /\ rot \in Rots
        /\ aNormSq \in Rat /\ aNormSq[1] >= 0 /\ past \in Seq(Cells)
    BY <1>1, StreamIs DEF LoopTyped
  <1>3. PICK drift \in [by : Drifts, of : ToSet(Window)] \cup {None} :
          bidiag' = StreamStep(bidiag, drift)
    BY DEF Iterate
  <1>4. drift = None \/ (drift.by \in Rat /\ drift.of \in Cells)
    <2>1. ToSet(Window) \subseteq Cells
      BY <1>1, <1>2, WindowIs
    <2> QED
      BY <1>3, <2>1, LsmrAssumption
  <1>5. Pushes(bidiag.ring, bidiag')
    BY <1>1, <1>2, <1>3, <1>4, StreamStepIs
  <1>6. CASE Less(bidiag'.alpha, Nil)
    <2>1. Fail /\ itn' = itn
      BY <1>6 DEF Iterate
    <2> QED
      BY <1>1, <2>1, FailLoopInv
  <1>7. CASE ~Less(bidiag'.alpha, Nil)
    <2> DEFINE step == Rotations(rec, bidiag')
               stop == StopReason(rec', aNormSq')
               seen == RelativeResidual(rec')
    <2>1. /\ itn' = itn + 1
          /\ past' = IF Positive(bidiag'.alpha) THEN Append(past, BasisVector(bidiag')) ELSE past
          /\ aNormSq' = Add(aNormSq, Add(bidiag'.alpha, bidiag'.beta))
          /\ rec' = step.state /\ rot' = step.rot
          /\ sol' = SolutionUpdate(sol, bidiag'.v, rot', rot)
          /\ handler' = IF stop = None /\ call.policy # None THEN Observed(handler, seen) ELSE handler
          /\ trail' = IF stop = None /\ call.policy # None THEN Append(trail, seen) ELSE trail
          /\ IF stop # None
             THEN Exit(stop, sol'.x, rec'.phiBar)
             ELSE IF call.policy # None /\ handler'.stalled >= call.policy.window
             THEN Exit("Escalated", sol'.x, rec'.phiBar)
             ELSE UNCHANGED <<pc, result>>
      BY <1>7 DEF Iterate
    <2>2. /\ bidiag' \in Streams /\ bidiag'.alpha \in Rat /\ bidiag'.beta \in Rat
          /\ bidiag'.v \in V /\ bidiag'.beta[1] >= 0 /\ bidiag'.alpha[1] >= 0
      <3>1. /\ bidiag' \in Streams /\ bidiag'.alpha \in Rat /\ bidiag'.beta \in Rat
            /\ bidiag'.v \in V /\ bidiag'.beta[1] >= 0
        BY <1>5, StreamIs DEF Pushes
      <3> QED
        BY <1>7, <3>1, LessNil, RatIs
    <2>3. aNormSq' \in Rat /\ aNormSq'[1] >= 0
      BY <1>2, <2>1, <2>2, AddIs
    <2>4. /\ rec' \in Recs /\ rot' \in Rots /\ (bidiag'.alpha = Nil => rec'.zetaBar = Nil)
      BY <1>2, <2>1, <2>2, RotationsIs
    <2>5. sol' \in Sols /\ sol'.x \in V
      <3>1. sol' \in Sols
        BY <1>1, <1>2, <2>1, <2>2, <2>4, SolutionUpdateIs
      <3> QED
        BY <3>1 DEF Sols
    <2>6. /\ stop \in {"ResidualTolerance", "NormalEquationTolerance", None}
          /\ rec'.zetaBar = Nil => stop # None
      BY <1>1, <2>3, <2>4, StopReasonIs
    <2> HIDE DEF step, stop, seen
    <2>7. itn' \in Nat
      BY <1>1, <2>1
    <2>8. CASE stop # None
      <3>1. Exit(stop, sol'.x, rec'.phiBar) /\ trail' = trail
        BY <2>1, <2>8
      <3>2. /\ pc' = "idle" /\ result'.x \in [1..N -> Rat] /\ DOMAIN result' = Fields
            /\ result'.reason = stop
        BY <1>1, <2>5, <3>1, ExitIs
      <3>3. call.policy # None /\ trail' # <<>> =>
              /\ \A k \in 1..Len(trail') - 1 : ~Stalls(trail', k)
              /\ Stalls(trail', Len(trail')) <=> result'.reason = "Escalated"
        <4> SUFFICES ASSUME call.policy # None, trail # <<>>
                     PROVE  /\ \A k \in 1..Len(trail) - 1 : ~Stalls(trail, k)
                            /\ ~Stalls(trail, Len(trail))
          BY <2>6, <2>8, <3>1, <3>2
        <4>1. trail \in Seq(PosRat) /\ \A k \in 1..Len(trail) : ~Stalls(trail, k)
          BY <1>1 DEF Patient
        <4>2. Len(trail) \in Nat /\ Len(trail) # 0
          BY <4>1
        <4> QED
          BY <4>1, <4>2
      <3> QED
        BY <1>1, <2>7, <3>2, <3>3, EndsLoop
    <2>9. CASE stop = None
      <3>1. rec'.zetaBar # Nil /\ bidiag'.alpha # Nil
        BY <2>4, <2>6, <2>9
      <3>2. Positive(bidiag'.alpha)
        BY <2>2, <3>1, RatIs DEF Positive
      <3>3. seen \in PosRat
        BY <2>4, <3>1, RelativeResidualIs DEF seen
      <3>4. WindowHolds(bidiag.ring, past)' /\ past' \in Seq(Cells)
        <4>1. /\ BasisVector(bidiag') = [v |-> bidiag'.v, p |-> Scale(Inv(bidiag'.alpha), bidiag'.p)]
              /\ Scale(Inv(bidiag'.alpha), bidiag'.p) \in V /\ BasisVector(bidiag') \in Cells
          BY <1>1, <2>2, <3>2, BasisVectorIs
        <4>2. past' = Append(past, BasisVector(bidiag'))
          BY <2>1, <3>2
        <4>3. bidiag'.ring = Push(bidiag.ring, bidiag'.v, Scale(Inv(bidiag'.alpha), bidiag'.p))
          BY <1>5, <3>2 DEF Pushes
        <4>4. WindowHolds(Push(bidiag.ring, bidiag'.v, Scale(Inv(bidiag'.alpha), bidiag'.p)),
                          Append(past, [v |-> bidiag'.v, p |-> Scale(Inv(bidiag'.alpha), bidiag'.p)]))
          BY <1>1, <1>2, <2>2, <4>1, PushHolds
        <4>5. WindowHolds(bidiag'.ring, past')
          BY <4>1, <4>2, <4>3, <4>4
        <4> QED
          BY <1>1, <1>2, <4>1, <4>2, <4>5, SameWindow
      <3>5. LoopTyped'
        BY <1>1, <2>2, <2>3, <2>4, <2>5, <3>1, <3>2, <3>4, SameTypes
      <3>6. ASSUME call.policy # None
            PROVE  /\ trail' \in Seq(PosRat) /\ trail' # <<>>
                   /\ Counted(trail', handler')
                   /\ \A k \in 1..Len(trail') - 1 : ~Stalls(trail', k)
                   /\ Stalls(trail', Len(trail')) <=> handler'.stalled >= call.policy.window
        <4>1. trail' = Append(trail, seen) /\ handler' = Observed(handler, seen)
          BY <2>1, <2>9, <3>6
        <4>2. /\ trail \in Seq(PosRat) /\ Counted(trail, handler)
              /\ \A k \in 1..Len(trail) : ~Stalls(trail, k)
          BY <1>1, <3>6 DEF Patient
        <4>3. /\ trail' \in Seq(PosRat) /\ trail' # <<>> /\ Len(trail') = Len(trail) + 1
              /\ Len(trail) \in Nat
          BY <3>3, <4>1, <4>2, AppendIs
        <4>4. Counted(trail', handler')
          BY <1>1, <3>3, <3>6, <4>1, <4>2, ObservedCounts
        <4>5. \A k \in 1..Len(trail) : ~Stalls(trail', k)
          BY <1>1, <3>3, <3>6, <4>1, <4>2, StallsBefore
        <4>6. Len(trail') - 1 = Len(trail)
          BY <4>3
        <4>7. Stalls(trail', Len(trail')) <=> handler'.stalled >= call.policy.window
          BY <1>1, <3>6, <4>3, <4>4, CountedStalls
        <4> QED
          BY <4>3, <4>4, <4>5, <4>6, <4>7
      <3>7. CASE call.policy # None /\ handler'.stalled >= call.policy.window
        <4>1. Exit("Escalated", sol'.x, rec'.phiBar)
          BY <2>1, <2>9, <3>7
        <4>2. /\ pc' = "idle" /\ result'.x \in [1..N -> Rat] /\ DOMAIN result' = Fields
              /\ result'.reason = "Escalated"
          BY <1>1, <2>5, <4>1, ExitIs
        <4> QED
          BY <1>1, <2>7, <3>6, <3>7, <4>2, EndsLoop
      <3>8. CASE ~(call.policy # None /\ handler'.stalled >= call.policy.window)
        <4>1. pc' = pc /\ result' = result
          BY <2>1, <2>9, <3>8
        <4>2. call.policy # None => Patient'
          <5> SUFFICES ASSUME call.policy # None PROVE Patient'
            OBVIOUS
          <5>1. /\ trail' \in Seq(PosRat) /\ trail' # <<>> /\ Counted(trail', handler')
                /\ \A k \in 1..Len(trail') - 1 : ~Stalls(trail', k)
                /\ ~Stalls(trail', Len(trail'))
            BY <3>6, <3>8
          <5>2. Counted(trail, handler)' /\ \A k : Stalls(trail, k)' <=> Stalls(trail', k)
            BY <1>1, <5>1, SameCall
          <5>3. handler'.stalled < call.policy.window
            <6>1. handler'.stalled \in Nat /\ call.policy.window \in Nat
              BY <1>1, <5>1 DEF Counted, CallTyped
            <6> QED
              BY <3>8, <6>1
          <5>4. \A k \in 1..Len(trail') : ~Stalls(trail', k)
            <6> SUFFICES ASSUME NEW k \in 1..Len(trail') PROVE ~Stalls(trail', k)
              OBVIOUS
            <6>1. Len(trail') \in Nat
              BY <5>1
            <6>2. k \in 1..Len(trail') - 1 \/ k = Len(trail')
              BY <6>1
            <6> QED
              BY <5>1, <6>2
          <5>5. \A k \in 1..Len(trail') : ~Stalls(trail, k)'
            BY <5>2, <5>4
          <5> QED
            BY <1>1, <5>1, <5>2, <5>3, <5>5 DEF Patient
        <4>3. CallTyped' /\ N' = N
          BY <1>1, SameCall, SameProblem
        <4> QED
          BY <1>1, <2>7, <3>4, <3>5, <4>1, <4>2, <4>3 DEF LsmrInv
      <3> QED
        BY <3>7, <3>8
    <2> QED
      BY <2>8, <2>9
  <1> QED
    BY <1>6, <1>7

LEMMA StutterInv == ASSUME LsmrInv, UNCHANGED vars PROVE LsmrInv'
  <1>1. /\ problem' = problem /\ call' = call /\ pc' = pc /\ bidiag' = bidiag /\ rec' = rec
        /\ sol' = sol /\ rot' = rot /\ aNormSq' = aNormSq /\ handler' = handler /\ itn' = itn
        /\ past' = past /\ trail' = trail /\ result' = result
    BY DEF vars, loopVars
  <1>2. CallTyped' <=> CallTyped
    BY <1>1, SameCall
  <1>3. LoopTyped' <=> LoopTyped
    BY <1>1, SameProblem DEF LoopTyped, Positive, Recs, Rots
  <1>4. WindowHolds(bidiag.ring, past)' <=> WindowHolds(bidiag.ring, past)
    BY <1>1, SameProblem DEF WindowHolds
  <1>5. Patient' <=> Patient
    BY <1>1, SameCall DEF Patient
  <1>6. EscalatesWhenStalled' <=> EscalatesWhenStalled
    BY <1>1 DEF EscalatesWhenStalled, Answered, Stalled
  <1> QED
    BY <1>1, <1>2, <1>3, <1>4, <1>5, <1>6, SameProblem DEF LsmrInv

LEMMA StepInv == LsmrInv /\ [Next]_vars => LsmrInv'
  BY RejectInv, CallInv, NothingToDoInv, StartInv, IterateInv, GiveUpInv, StutterInv DEF Next

(* Every state of every sequence of solves satisfies the invariant: in     *)
(* particular no step of the loop of lsmr.rs divides by alpha = 0.         *)
THEOREM LsmrInvariant == Spec => []LsmrInv
  BY InitInv, StepInv, PTL DEF Spec

(* The window ring of bidiag.rs holds the last basis vectors of the run,   *)
(* oldest first, each with its own M v, for every capacity, problem and drift. *)
THEOREM WindowCorrect == Spec => []WindowIsRecent
  <1>1. LsmrInv => WindowIsRecent
    <2> SUFFICES ASSUME LsmrInv, pc = "loop" PROVE WindowIsRecent
      BY DEF WindowIsRecent
    <2>1. /\ problem \in Problems /\ past \in Seq(Cells) /\ bidiag.ring \in Rings
          /\ WindowHolds(bidiag.ring, past)
      BY StreamIs DEF LsmrInv, LoopTyped
    <2> QED
      BY <2>1, HoldsWindow DEF WindowIsRecent
  <1> QED
    BY <1>1, LsmrInvariant, PTL

(* mlsmr hands a run off when, and as soon as, the residual has contracted by *)
(* no more than the threshold in each of the last window iterations, for   *)
(* every policy (StalenessRun::should_escalate).                           *)
THEOREM EscalationCorrect == Spec => []EscalatesWhenStalled
  <1>1. LsmrInv => EscalatesWhenStalled
    <2> SUFFICES ASSUME LsmrInv, pc = "loop", call.policy # None, trail # <<>>
                 PROVE  /\ \A k \in 1..Len(trail) - 1 : ~Stalled(k)
                        /\ ~Stalled(Len(trail))
      BY DEF LsmrInv, EscalatesWhenStalled, Answered
    <2>1. trail \in Seq(PosRat) /\ \A k \in 1..Len(trail) : ~Stalls(trail, k)
      BY DEF LsmrInv, Patient
    <2>2. Len(trail) \in Nat /\ Len(trail) # 0
      BY <2>1
    <2>3. \A k : Stalled(k) <=> Stalls(trail, k)
      BY DEF Stalled, Stalls, Slow
    <2> QED
      BY <2>1, <2>2, <2>3
  <1> QED
    BY <1>1, LsmrInvariant, PTL

===============================================================================

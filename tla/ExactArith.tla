------------------------------ MODULE ExactArith ------------------------------
(***************************************************************************)
(* f64 arithmetic without rounding, for the algorithms of schwarz-precond  *)
(* that take square roots.                                                 *)
(*                                                                         *)
(* A rational is a reduced pair <<numerator, denominator>>.  A root is the *)
(* real number a written as its signed square a*|a|, a rational: products, *)
(* quotients, absolute values, comparisons and hypot of roots are those of *)
(* their signed squares.  A vector is c sqrt(q) times integers without     *)
(* common divisor, with q square-free.  Two vectors are added only when    *)
(* the ratio of their roots is rational, as it is in a Krylov recurrence.  *)
(*                                                                         *)
(* An intermediate result is the parameter of a helper, not a LET: TLC's   *)
(* coverage expands a LET at every use, which multiplies along a chain.    *)
(***************************************************************************)
EXTENDS Integers, Sequences, Functions, TLC

Positives == Nat \ {0}

Euclid[p \in Nat \X Nat] == IF p[2] = 0 THEN p[1] ELSE Euclid[<<p[2], p[1] % p[2]>>]
Gcd(a, b) == Euclid[<<a, b>>]

Abs(i) == IF i < 0 THEN -i ELSE i

(* n/d in lowest terms, d > 0. *)
ReducedBy(g, n, d) == <<n \div g, d \div g>>
Ratio(n, d) == ReducedBy(Gcd(Abs(n), d), n, d)

(* The rationals; 0 is <<0, 1>> only. *)
Rat == {a \in Int \X Positives : a[1] = 0 => a[2] = 1}
Nil == <<0, 1>>
One == <<1, 1>>

(* Factors are cancelled before they are multiplied: TLC has 32 bits. *)
MulCrossed(a, b) == <<a[1] * b[1], a[2] * b[2]>>
Mul(a, b) == MulCrossed(Ratio(a[1], b[2]), Ratio(b[1], a[2]))

AddOver(g, a, b) ==
  Ratio(a[1] * (b[2] \div g) + b[1] * (a[2] \div g), a[2] * (b[2] \div g))
Add(a, b) == AddOver(Gcd(a[2], b[2]), a, b)

Neg(a) == <<-a[1], a[2]>>
Magnitude(a) == <<Abs(a[1]), a[2]>>
Inv(a) == IF a[1] < 0 THEN <<-a[2], -a[1]>> ELSE <<a[2], a[1]>>
Div(a, b) == Mul(a, Inv(b))

(* a <= b: whole parts first, then the fractions upside down. *)
Fractions == Int \X Positives
Whole(a) == a[1] \div a[2]
Rest(a) == a[1] % a[2]
UpsideDown(a) == <<a[2], Rest(a)>>
Ordered[p \in Fractions \X Fractions] ==
  \/ Whole(p[1]) < Whole(p[2])
  \/ Whole(p[1]) = Whole(p[2]) /\ Rest(p[1]) = 0
  \/ /\ Whole(p[1]) = Whole(p[2])
     /\ Rest(p[1]) # 0 /\ Rest(p[2]) # 0
     /\ Ordered[<<UpsideDown(p[2]), UpsideDown(p[1])>>]
Leq(a, b) == Ordered[<<a, b>>]

Less(a, b) == ~Leq(b, a)
Positive(a) == a[1] > 0

(* hypot(a, b) of two roots: a^2 + b^2. *)
Hypot(a, b) == Add(Magnitude(a), Magnitude(b))

(* Integer square root, by Newton's method from above. *)
Newton(n, k) == (k + n \div k) \div 2
Descent[p \in Positives \X Positives] ==
  IF Newton(p[1], p[2]) >= p[2] THEN p[2] ELSE Descent[<<p[1], Newton(p[1], p[2])>>]
Isqrt(n) == Descent[<<n, n>>]
RootOrOne(m, n) == IF m * m = n THEN m ELSE 1

(* The largest m with m^2 dividing n, when no square below k^2 does: once  *)
(* k^3 > n, what is left has at most two prime factors.                    *)
SquareFrom[p \in Positives \X Positives] ==
  LET n == p[1]
      k == p[2]
  IN IF k * k > n \div k THEN RootOrOne(Isqrt(n), n)
     ELSE IF n % (k * k) = 0 THEN k * SquareFrom[<<n \div (k * k), k>>]
     ELSE SquareFrom[<<IF n % k = 0 THEN n \div k ELSE n, k + 1>>]

Square(n) == SquareFrom[<<n, 2>>]

(* The square root of a rational that is a square. *)
Squares(a) == <<Square(Abs(a[1])), Square(a[2])>>
CheckedRoot(m, a) ==
  IF Assert(a = <<m[1] * m[1], m[2] * m[2]>>, "not a square") THEN m ELSE One
Root(a) == CheckedRoot(Squares(a), a)

-----------------------------------------------------------------------------
(* Vectors. *)

Sum(f) == FoldFunction(Add, Nil, f)
SumInt(f) == FoldFunction(+, 0, f)
DotDir(a, b) == SumInt([i \in DOMAIN a |-> a[i] * b[i]])
IsNil(v) == \A i \in DOMAIN v.dir : v.dir[i] = 0
Nils(dom) == [c |-> One, q |-> One, dir |-> [i \in dom |-> 0]]

(* c sqrt(q) times the integers dir, their common divisor moved into c. *)
PrimitiveBy(g, c, q, dir) ==
  IF g = 0 THEN Nils(DOMAIN dir)
  ELSE [c |-> Mul(c, <<g, 1>>), q |-> q, dir |-> [i \in DOMAIN dir |-> dir[i] \div g]]
Primitive(c, q, dir) ==
  PrimitiveBy(FoldFunction(LAMBDA x, y : Gcd(Abs(x), Abs(y)), 0, dir), c, q, dir)

Integral(dir) == Primitive(One, One, dir)

(* A vector of rationals, and back. *)
VecOver(d, xs) == Primitive(<<1, d>>, One, [i \in DOMAIN xs |-> xs[i][1] * (d \div xs[i][2])])
Vec(xs) == VecOver(FoldFunction(LAMBDA x, y : (x[2] \div Gcd(x[2], y)) * y, 1, xs), xs)
RationalsBy(r, dir) == [i \in DOMAIN dir |-> Mul(r, <<dir[i], 1>>)]
Rationals(v) == RationalsBy(Mul(v.c, Root(v.q)), v.dir)

(* Root s times v: the square factors m of s go to c; so does what the     *)
(* remaining ones, f, share with q.                                        *)
ScaleShared(g, f, m, positive, v) ==
  [c |-> Mul(Mul(v.c, m), Ratio(g[1], g[2])),
   q |-> Mul(<<f[1] \div g[1], f[2] \div g[2]>>, <<v.q[1] \div g[1], v.q[2] \div g[2]>>),
   dir |-> IF positive THEN v.dir ELSE [i \in DOMAIN v.dir |-> -v.dir[i]]]
ScaleSquareFree(f, m, positive, v) ==
  ScaleShared(<<Gcd(f[1], v.q[1]), Gcd(f[2], v.q[2])>>, f, m, positive, v)
ScaleSquares(m, s, v) ==
  ScaleSquareFree(<<Abs(s[1]) \div (m[1] * m[1]), s[2] \div (m[2] * m[2])>>, m, Positive(s), v)
Scale(s, v) == IF s = Nil THEN Nils(DOMAIN v.dir) ELSE ScaleSquares(Squares(s), s, v)

(* v + t w', w' being w with v's scalars. *)
PlusBy(t, v, w) ==
  Primitive(Div(v.c, <<t[2], 1>>), v.q,
            [i \in DOMAIN v.dir |-> t[2] * v.dir[i] + t[1] * w.dir[i]])

Plus(v, w) ==
  IF IsNil(w) THEN v
  ELSE IF IsNil(v) THEN w
  ELSE PlusBy(Mul(Div(w.c, v.c), Root(Div(w.q, v.q))), v, w)

Minus(v, w) == Plus(v, Scale(<<-1, 1>>, w))

(* The inner product of two vectors that could be added: a rational. *)
Dot(v, w) ==
  Mul(Mul(Mul(v.c, w.c), Mul(v.q, Root(Div(w.q, v.q)))), <<DotDir(v.dir, w.dir), 1>>)

(* The squared norm, which is also the norm as a root. *)
NormSq(v) == Dot(v, v)

-----------------------------------------------------------------------------
(* Matrices of integers, row by row. *)

Rows(m) == DOMAIN m
Cols(m) == DOMAIN m[1]
Row(m, i) == Integral([j \in Cols(m) |-> m[i][j]])

Apply(m, v) ==
  Primitive(v.c, v.q, [i \in Rows(m) |-> SumInt([j \in Cols(m) |-> m[i][j] * v.dir[j]])])

ApplyAdjoint(m, u) ==
  Primitive(u.c, u.q, [j \in Cols(m) |-> SumInt([i \in Rows(m) |-> m[i][j] * u.dir[i]])])
=============================================================================

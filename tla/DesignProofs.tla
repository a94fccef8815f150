----------------------------- MODULE DesignProofs -----------------------------
(***************************************************************************)
(* What Design::build (crates/within/src/domain.rs) keeps of a frame:      *)
(* offsets, codes and the order of the observations.                       *)
(***************************************************************************)
EXTENDS Design, Induction

-----------------------------------------------------------------------------
(* Sums of the first terms of a sequence. *)

(* The sum of the first q terms. *)
LEMMA PrefixSum ==
  ASSUME NEW n \in Nat, NEW f, \A p \in 1..n : f[p] \in Nat, NEW q \in 1..n
  PROVE  /\ SumFunctionOnSet(f, 1..q) \in Nat
         /\ SumFunctionOnSet(f, 1..q - 1) \in Nat
         /\ SumFunctionOnSet(f, 1..q) = SumFunctionOnSet(f, 1..q - 1) + f[q]
  <1> DEFINE P(k) == SumFunctionOnSet(f, 1..k)
             T == {k \in Nat : k <= n => P(k) \in Nat}
  <1>1. ASSUME NEW k \in 1..n PROVE P(k) \in Int /\ P(k - 1) \in Int /\ P(k) = P(k - 1) + f[k]
    <2>1. IsFiniteSet(1..k) /\ IsFiniteSet(1..k - 1)
      BY FS_Interval
    <2>2. 1..k \subseteq 1..n /\ 1..k - 1 \subseteq 1..n /\ k \in 1..k /\ (1..k) \ {k} = 1..k - 1
      OBVIOUS
    <2>3. \A p \in 1..k : f[p] \in Int
      BY <2>2
    <2>4. SumFunctionOnSet(f, 1..k - 1) \in Int /\ SumFunctionOnSet(f, 1..k) \in Int
      BY <2>1, <2>2, <2>3, SumType
    <2>5. SumFunctionOnSet(f, 1..k) = f[k] + SumFunctionOnSet(f, (1..k) \ {k})
      BY <2>1, <2>2, <2>3, SumRemove
    <2>6. SumFunctionOnSet(f, (1..k) \ {k}) = SumFunctionOnSet(f, 1..k - 1)
      BY <2>2
    <2>7. f[k] \in Int
      BY <2>2, <2>3
    <2> QED
      BY <2>4, <2>5, <2>6, <2>7
  <1>2. 0 \in T
    <2>1. 1..0 = {}
      OBVIOUS
    <2> QED
      BY <2>1, SumEmpty
  <1>3. ASSUME NEW k \in T PROVE k + 1 \in T
    <2>1. k \in Nat /\ (k + 1 <= n => k + 1 \in 1..n /\ (k + 1) - 1 = k)
      OBVIOUS
    <2> HIDE DEF P
    <2> QED
      BY <1>1, <2>1
  <1>4. T = Nat
    <2> HIDE DEF T
    <2>1. T \in SUBSET Nat
      BY DEF T
    <2> QED
      BY <1>2, <1>3, <2>1, SetOfNaturals
  <1>5. P(q) \in Nat /\ P(q - 1) \in Nat
    <2>1. q \in Nat /\ q - 1 \in Nat /\ q <= n /\ q - 1 <= n
      OBVIOUS
    <2> HIDE DEF P
    <2> QED
      BY <1>4, <2>1
  <1> QED
    BY <1>1, <1>5

LEMMA PrefixSumGrows ==
  ASSUME NEW n \in Nat, NEW f, \A p \in 1..n : f[p] \in Nat,
         NEW p \in 0..n, NEW q \in 0..n, p <= q
  PROVE  /\ SumFunctionOnSet(f, 1..p) \in Nat
         /\ SumFunctionOnSet(f, 1..q) \in Nat
         /\ SumFunctionOnSet(f, 1..p) <= SumFunctionOnSet(f, 1..q)
  <1> DEFINE P(k) == SumFunctionOnSet(f, 1..k)
             T == {k \in Nat : p <= k /\ k <= n => P(p) <= P(k)}
  <1>1. \A k \in 0..n : P(k) \in Nat
    <2>1. 1..0 = {}
      OBVIOUS
    <2>2. P(0) \in Nat
      BY <2>1, SumEmpty
    <2>3. \A k \in 1..n : P(k) \in Nat
      BY PrefixSum
    <2> HIDE DEF P
    <2> QED
      BY <2>2, <2>3
  <1>2. ASSUME NEW k \in 1..n PROVE P(k - 1) <= P(k)
    <2>1. P(k) = P(k - 1) + f[k] /\ P(k - 1) \in Nat /\ f[k] \in Nat
      BY PrefixSum
    <2> HIDE DEF P
    <2> QED
      BY <2>1
  <1>3. 0 \in T
    <2> HIDE DEF P
    <2>1. P(p) <= P(p)
      BY <1>1
    <2> QED
      BY <2>1
  <1>4. ASSUME NEW k \in T PROVE k + 1 \in T
    <2> HIDE DEF P
    <2> SUFFICES ASSUME p <= k + 1, k + 1 <= n PROVE P(p) <= P(k + 1)
      OBVIOUS
    <2>1. k \in 0..n /\ k + 1 \in 1..n /\ (k + 1) - 1 = k
      OBVIOUS
    <2>2. P(k) \in Nat /\ P(k + 1) \in Nat /\ P(p) \in Nat /\ P(k) <= P(k + 1)
      <3>1. k + 1 \in 0..n
        OBVIOUS
      <3> QED
        BY <1>1, <1>2, <2>1, <3>1
    <2>3. CASE p = k + 1
      BY <2>2, <2>3
    <2>4. CASE p <= k
      BY <2>1, <2>2, <2>4
    <2> QED
      BY <2>1, <2>3, <2>4
  <1>5. T = Nat
    <2> HIDE DEF T
    <2>1. T \in SUBSET Nat
      BY DEF T
    <2> QED
      BY <1>3, <1>4, <2>1, SetOfNaturals
  <1>6. P(p) <= P(q)
    <2> HIDE DEF P
    <2> QED
      BY <1>5
  <1> QED
    BY <1>1, <1>6

(* Every number below the sum falls to one of the terms. *)
LEMMA PrefixSumCovers ==
  ASSUME NEW n \in Nat, NEW f, \A p \in 1..n : f[p] \in Nat,
         NEW i \in Nat, i < SumFunctionOnSet(f, 1..n)
  PROVE  \E q \in 1..n : SumFunctionOnSet(f, 1..q - 1) <= i /\ i < SumFunctionOnSet(f, 1..q)
  <1> DEFINE P(k) == SumFunctionOnSet(f, 1..k)
             T == {k \in Nat : k <= n /\ i < P(k) =>
                                 \E q \in 1..n : P(q - 1) <= i /\ i < P(q)}
  <1>1. 0 \in T
    <2>1. 1..0 = {}
      OBVIOUS
    <2>2. P(0) = 0
      BY <2>1, SumEmpty
    <2> HIDE DEF P
    <2> QED
      BY <2>2
  <1>2. ASSUME NEW k \in T PROVE k + 1 \in T
    <2> SUFFICES ASSUME k + 1 <= n, i < P(k + 1)
                 PROVE  \E q \in 1..n : P(q - 1) <= i /\ i < P(q)
      OBVIOUS
    <2>1. k + 1 \in 1..n /\ (k + 1) - 1 = k
      OBVIOUS
    <2>2. P(k) \in Nat
      BY <2>1, PrefixSum
    <2> HIDE DEF P
    <2>3. CASE i < P(k)
      BY <2>3
    <2>4. CASE P(k) <= i
      BY <2>1, <2>4
    <2> QED
      BY <2>2, <2>3, <2>4
  <1>3. T = Nat
    <2> HIDE DEF T
    <2>1. T \in SUBSET Nat
      BY DEF T
    <2> QED
      BY <1>1, <1>2, <2>1, SetOfNaturals
  <1>4. n \in T
    BY <1>3
  <1> QED
    BY <1>4

-----------------------------------------------------------------------------
(* Layout of the coefficients. *)

TermSizes(terms) == [q \in DOMAIN terms |-> NDofs(terms[q])]

(* Terms that lie one after the other, none of them empty. *)
Contiguous(terms) ==
  /\ Len(terms) \in Nat
  /\ DOMAIN terms = 1..Len(terms)
  /\ \A q \in DOMAIN terms :
       /\ terms[q].nLevels \in Nat \ {0}
       /\ Len(terms[q].columns) \in Nat \ {0}
       /\ DOMAIN terms[q].columns = 1..Len(terms[q].columns)
       /\ terms[q].offset = SumFunctionOnSet(TermSizes(terms), 1..q - 1)

LEMMA ProductPositive == \A m, n \in Nat \ {0} : m * n \in Nat \ {0}
  OBVIOUS

LEMMA SizesPositive ==
  ASSUME NEW terms, Contiguous(terms)
  PROVE  \A q \in 1..Len(terms) : TermSizes(terms)[q] \in Nat \ {0}
  BY ProductPositive DEF Contiguous, TermSizes, NDofs

(* A number below m * n in a block of m columns of n. *)
LEMMA DivMod ==
  ASSUME NEW n \in Nat \ {0}, NEW i \in Nat
  PROVE  /\ i \div n \in Nat /\ i % n \in 0..n - 1
         /\ i = (i \div n) * n + (i % n)
  OBVIOUS

LEMMA DivBelow ==
  ASSUME NEW n \in Nat \ {0}, NEW m \in Nat, NEW i \in Nat, i < m * n
  PROVE  i \div n \in 0..m - 1
  <1> DEFINE d == i \div n
  <1>1. d \in Nat /\ i % n \in Nat /\ i = d * n + (i % n)
    BY DivMod
  <1> HIDE DEF d
  <1>2. d * n < m * n
    <2>1. d * n \in Nat /\ m * n \in Nat
      BY <1>1
    <2> QED
      BY <1>1, <2>1
  <1>3. d < m
    <2> SUFFICES ASSUME m <= d PROVE FALSE
      BY <1>1
    <2>1. m * n <= d * n
      BY <1>1
    <2> QED
      BY <1>1, <1>2, <2>1
  <1>4. d \in 0..m - 1
    BY <1>1, <1>3
  <1> QED
    BY <1>4 DEF d

LEMMA DivExact ==
  ASSUME NEW n \in Nat \ {0}, NEW k \in Nat, NEW l \in 0..n - 1
  PROVE  (k * n + l) \div n = k /\ (k * n + l) % n = l /\ k * n + l \in Nat
  OBVIOUS

(* Where a term's block ends. *)
End(terms, q) == SumFunctionOnSet(TermSizes(terms), 1..q)

(* Blocks follow one another. *)
LEMMA Blocks ==
  ASSUME NEW terms, Contiguous(terms)
  PROVE  /\ Len(terms) \in Nat
         /\ DOMAIN terms = 1..Len(terms)
         /\ TotalDofs(terms) = End(terms, Len(terms))
         /\ \A q \in 1..Len(terms) :
              /\ terms[q].offset = End(terms, q - 1)
              /\ End(terms, q) = terms[q].offset + NDofs(terms[q])
              /\ NDofs(terms[q]) \in Nat \ {0}
         /\ \A p, q \in 0..Len(terms) :
              p <= q => End(terms, p) \in Nat /\ End(terms, q) \in Nat /\ End(terms, p) <= End(terms, q)
  <1>1. Len(terms) \in Nat /\ DOMAIN terms = 1..Len(terms)
    BY DEF Contiguous
  <1>2. \A q \in 1..Len(terms) : TermSizes(terms)[q] \in Nat \ {0}
    BY SizesPositive
  <1>3. \A q \in 1..Len(terms) : TermSizes(terms)[q] = NDofs(terms[q])
    BY <1>1 DEF TermSizes
  <1>4. TotalDofs(terms) = End(terms, Len(terms))
    <2>1. DOMAIN TermSizes(terms) = 1..Len(terms)
      BY <1>1 DEF TermSizes
    <2> QED
      BY <2>1 DEF TotalDofs, SumFunction, TermSizes, End
  <1>5. ASSUME NEW q \in 1..Len(terms)
        PROVE  /\ terms[q].offset = End(terms, q - 1)
               /\ End(terms, q) = terms[q].offset + NDofs(terms[q])
    <2>1. SumFunctionOnSet(TermSizes(terms), 1..q)
            = SumFunctionOnSet(TermSizes(terms), 1..q - 1) + TermSizes(terms)[q]
      <3> DEFINE f == TermSizes(terms)
                 n == Len(terms)
      <3>1. n \in Nat /\ (\A p \in 1..n : f[p] \in Nat) /\ q \in 1..n
        BY <1>1, <1>2
      <3> HIDE DEF f, n
      <3>2. SumFunctionOnSet(f, 1..q) = SumFunctionOnSet(f, 1..q - 1) + f[q]
        BY <3>1, PrefixSum
      <3> QED
        BY <3>2 DEF f
    <2>2. terms[q].offset = End(terms, q - 1)
      BY <1>1 DEF Contiguous, End
    <2> QED
      BY <1>3, <2>1, <2>2 DEF End
  <1>6. ASSUME NEW p \in 0..Len(terms), NEW q \in 0..Len(terms), p <= q
        PROVE  End(terms, p) \in Nat /\ End(terms, q) \in Nat /\ End(terms, p) <= End(terms, q)
    <2> DEFINE f == TermSizes(terms)
               n == Len(terms)
    <2>1. n \in Nat /\ (\A k \in 1..n : f[k] \in Nat) /\ p \in 0..n /\ q \in 0..n
      BY <1>1, <1>2
    <2> HIDE DEF f, n
    <2>2. /\ SumFunctionOnSet(f, 1..p) \in Nat /\ SumFunctionOnSet(f, 1..q) \in Nat
          /\ SumFunctionOnSet(f, 1..p) <= SumFunctionOnSet(f, 1..q)
      BY <1>6, <2>1, PrefixSumGrows
    <2> QED
      BY <2>2 DEF f, End
  <1> QED
    BY <1>1, <1>2, <1>3, <1>4, <1>5, <1>6

(* An index between a term's offset and the next's: the terms with an      *)
(* offset up to it are that one and those before.                          *)
LEMMA TermsUpTo ==
  ASSUME NEW terms, Contiguous(terms), NEW q \in DOMAIN terms, NEW i \in Nat,
         terms[q].offset <= i, i < End(terms, q)
  PROVE  Cardinality({p \in DOMAIN terms : terms[p].offset <= i}) = q
  <1> DEFINE n == Len(terms)
  <1>1. n \in Nat /\ DOMAIN terms = 1..n /\ \A p \in 1..n : terms[p].offset = End(terms, p - 1)
    BY Blocks
  <1>2. \A j, k \in 0..n : j <= k =>
          End(terms, j) \in Nat /\ End(terms, k) \in Nat /\ End(terms, j) <= End(terms, k)
    BY Blocks
  <1> HIDE DEF n
  <1>3. \A p \in 1..q : terms[p].offset <= i
    <2> SUFFICES ASSUME NEW p \in 1..q PROVE terms[p].offset <= i
      OBVIOUS
    <2>1. p - 1 \in 0..n /\ q - 1 \in 0..n /\ p - 1 <= q - 1 /\ p \in 1..n /\ q \in 1..n
      BY <1>1
    <2>2. /\ End(terms, p - 1) \in Nat /\ End(terms, q - 1) \in Nat
          /\ End(terms, p - 1) <= End(terms, q - 1)
      BY <1>2, <2>1
    <2> QED
      BY <1>1, <2>1, <2>2
  <1>4. \A p \in q + 1..n : ~(terms[p].offset <= i)
    <2> SUFFICES ASSUME NEW p \in q + 1..n PROVE i < terms[p].offset /\ terms[p].offset \in Nat
      OBVIOUS
    <2>1. p - 1 \in 0..n /\ q \in 0..n /\ q <= p - 1 /\ p \in 1..n
      BY <1>1
    <2>2. End(terms, p - 1) \in Nat /\ End(terms, q) \in Nat /\ End(terms, q) <= End(terms, p - 1)
      BY <1>2, <2>1
    <2> QED
      BY <1>1, <2>1, <2>2
  <1>5. q \in 1..n /\ 1..q \subseteq 1..n /\ \A p \in 1..n : p \in 1..q \/ p \in q + 1..n
    BY <1>1
  <1>6. {p \in DOMAIN terms : terms[p].offset <= i} = 1..q
    BY <1>1, <1>3, <1>4, <1>5
  <1>7. Cardinality(1..q) = q
    BY <1>1, <1>5, FS_Interval
  <1> QED
    BY <1>6, <1>7

(* The index of a coefficient is in its term's block. *)
LEMMA IndexInBlock ==
  ASSUME NEW terms, Contiguous(terms), NEW q \in DOMAIN terms,
         NEW c \in DOMAIN terms[q].columns, NEW level \in 0..terms[q].nLevels - 1
  PROVE  /\ terms[q].offset \in Nat
         /\ Index(terms[q], c, level) \in 0..TotalDofs(terms) - 1
         /\ terms[q].offset <= Index(terms[q], c, level)
         /\ Index(terms[q], c, level) < End(terms, q)
         /\ Index(terms[q], c, level) - terms[q].offset = (c - 1) * terms[q].nLevels + level
  <1> DEFINE n == Len(terms)
             m == Len(terms[q].columns)
             l == terms[q].nLevels
             o == terms[q].offset
  <1>1. /\ o \in Nat /\ End(terms, q) = o + m * l /\ End(terms, q) <= TotalDofs(terms)
        /\ TotalDofs(terms) \in Nat
    <2>1. q \in 1..n /\ q \in 0..n /\ n \in 0..n /\ q - 1 \in 0..n /\ q <= n
      BY Blocks
    <2> QED
      BY <2>1, Blocks DEF NDofs
  <1>2. l \in Nat \ {0} /\ m \in Nat \ {0} /\ c \in 1..m /\ level \in 0..l - 1
    BY DEF Contiguous
  <1>3. Index(terms[q], c, level) = o + (c - 1) * l + level
    BY DEF Index
  <1> HIDE DEF m, l, o, n
  <1>4. (c - 1) * l \in Nat /\ (c - 1) * l + l <= m * l /\ m * l \in Nat
    <2>1. c - 1 \in Nat /\ c \in Nat /\ c <= m /\ c = (c - 1) + 1 /\ l \in Nat /\ m \in Nat
      BY <1>2
    <2>2. \A a \in Nat : (a + 1) * l = a * l + l /\ a * l \in Nat
      BY <2>1
    <2>3. \A a, b \in Nat : a <= b => a * l <= b * l
      BY <2>1
    <2> QED
      BY <2>1, <2>2, <2>3
  <1>5. /\ Index(terms[q], c, level) \in Nat
        /\ o <= Index(terms[q], c, level)
        /\ Index(terms[q], c, level) < o + m * l
        /\ Index(terms[q], c, level) - o = (c - 1) * l + level
    BY <1>1, <1>2, <1>3, <1>4
  <1>6. Index(terms[q], c, level) \in 0..TotalDofs(terms) - 1
    BY <1>1, <1>4, <1>5
  <1> QED
    BY <1>1, <1>5, <1>6 DEF o, l

(* The layout is a bijection between addresses and indices. *)
LEMMA IndexThenAddress ==
  ASSUME NEW terms, Contiguous(terms), NEW q \in DOMAIN terms,
         NEW c \in DOMAIN terms[q].columns, NEW level \in 0..terms[q].nLevels - 1
  PROVE  Address(terms, Index(terms[q], c, level)) = [term |-> q, column |-> c, level |-> level]
  <1> DEFINE i == Index(terms[q], c, level)
             l == terms[q].nLevels
  <1>1. /\ i \in Nat /\ terms[q].offset <= i /\ i < End(terms, q)
        /\ i - terms[q].offset = (c - 1) * l + level
    BY IndexInBlock
  <1> HIDE DEF i
  <1>2. Cardinality({p \in DOMAIN terms : terms[p].offset <= i}) = q
    BY <1>1, TermsUpTo
  <1>3. l \in Nat \ {0} /\ c \in Nat \ {0}
    BY DEF Contiguous
  <1>4. (i - terms[q].offset) \div l = c - 1 /\ (i - terms[q].offset) % l = level
    <2>1. c - 1 \in Nat
      BY <1>3
    <2>2. level \in 0..l - 1
      OBVIOUS
    <2> HIDE DEF l
    <2>3. ((c - 1) * l + level) \div l = c - 1 /\ ((c - 1) * l + level) % l = level
      BY <1>3, <2>1, <2>2, DivExact
    <2> QED
      BY <1>1, <2>3
  <1>5. (c - 1) + 1 = c
    BY <1>3
  <1>6. Address(terms, i) = [term |-> q, column |-> c, level |-> level]
    BY <1>2, <1>4, <1>5 DEF Address, AddressOf, AddressIn
  <1> QED
    BY <1>6 DEF i

LEMMA AddressThenIndex ==
  ASSUME NEW terms, Contiguous(terms), NEW i \in 0..TotalDofs(terms) - 1
  PROVE  /\ Address(terms, i).term \in DOMAIN terms
         /\ Address(terms, i).column \in DOMAIN terms[Address(terms, i).term].columns
         /\ Address(terms, i).level \in 0..terms[Address(terms, i).term].nLevels - 1
         /\ Index(terms[Address(terms, i).term], Address(terms, i).column,
                  Address(terms, i).level) = i
  <1> DEFINE n == Len(terms)
             f == TermSizes(terms)
  <1>1. /\ n \in Nat /\ DOMAIN terms = 1..n /\ (\A p \in 1..n : f[p] \in Nat)
        /\ TotalDofs(terms) = SumFunctionOnSet(f, 1..n)
    BY Blocks, SizesPositive DEF End
  <1>2. i \in Nat /\ i < SumFunctionOnSet(f, 1..n)
    <2>1. n \in 0..n
      BY <1>1
    <2>2. TotalDofs(terms) \in Nat
      BY <2>1, Blocks
    <2> QED
      BY <1>1, <2>2
  <1>3. PICK q \in 1..n : SumFunctionOnSet(f, 1..q - 1) <= i /\ i < SumFunctionOnSet(f, 1..q)
    <2> HIDE DEF f, n
    <2> QED
      BY <1>1, <1>2, PrefixSumCovers
  <1> DEFINE m == Len(terms[q].columns)
             l == terms[q].nLevels
             o == terms[q].offset
  <1>4. o <= i /\ i < End(terms, q) /\ q \in DOMAIN terms
    BY <1>1, <1>3, Blocks DEF End
  <1>5. /\ o \in Nat /\ End(terms, q) = o + m * l
        /\ l \in Nat \ {0} /\ m \in Nat \ {0} /\ DOMAIN terms[q].columns = 1..m
    <2>1. q - 1 \in 0..n /\ q - 1 <= q - 1
      BY <1>1
    <2>2. o = End(terms, q - 1) /\ End(terms, q - 1) \in Nat
      BY <2>1, Blocks
    <2>3. End(terms, q) = o + NDofs(terms[q])
      BY Blocks
    <2> QED
      BY <1>4, <2>2, <2>3 DEF Contiguous, NDofs
  <1>6. Cardinality({p \in DOMAIN terms : terms[p].offset <= i}) = q
    BY <1>2, <1>4, TermsUpTo
  <1> DEFINE d == (i - o) \div l
             r == (i - o) % l
  <1>7. Address(terms, i) = [term |-> q, column |-> d + 1, level |-> r]
    BY <1>6 DEF Address, AddressOf, AddressIn
  <1>8. i - o \in Nat /\ i - o < m * l
    <2>1. m * l \in Nat
      BY <1>5, ProductPositive
    <2> HIDE DEF m, l, o
    <2> QED
      BY <1>2, <1>4, <1>5, <2>1
  <1>9. d \in 0..m - 1 /\ r \in 0..l - 1 /\ i - o = d * l + r
    <2> HIDE DEF m, l, o
    <2>1. m \in Nat
      BY <1>5
    <2> QED
      BY <1>5, <1>8, <2>1, DivMod, DivBelow
  <1>10. d + 1 \in 1..m /\ o + ((d + 1) - 1) * l + r = i
    <2>1. l \in Nat /\ o \in Nat /\ m \in Nat
      BY <1>5
    <2> HIDE DEF d, r, l, o, m
    <2>2. (d + 1) - 1 = d /\ d + 1 \in 1..m
      BY <1>9, <2>1
    <2>3. d * l \in Nat /\ r \in Nat
      BY <1>9, <2>1
    <2>4. o + d * l + r = i
      BY <1>2, <1>9, <2>1, <2>3
    <2> QED
      BY <2>2, <2>4
  <1>11. Index(terms[q], d + 1, r) = i
    <2> HIDE DEF d, r
    <2> QED
      BY <1>10 DEF Index
  <1> HIDE DEF d, r
  <1> DEFINE a == Address(terms, i)
  <1>12. a.term = q /\ a.column = d + 1 /\ a.level = r
    BY <1>7
  <1>13. /\ a.term \in DOMAIN terms
         /\ a.column \in DOMAIN terms[a.term].columns
         /\ a.level \in 0..terms[a.term].nLevels - 1
         /\ Index(terms[a.term], a.column, a.level) = i
    <2> HIDE DEF a
    <2> QED
      BY <1>4, <1>5, <1>9, <1>10, <1>11, <1>12
  <1> QED
    BY <1>13
-----------------------------------------------------------------------------
(* Largest elements. *)

LEMMA LastLargest ==
  ASSUME NEW n \in Nat \ {0}, NEW f, \A p \in 1..n : f[p] \in Nat
  PROVE  \E q \in 1..n : \A p \in 1..n : IF p > q THEN f[p] < f[q] ELSE f[p] <= f[q]
  <1> DEFINE Largest(q, k) == \A p \in 1..k : IF p > q THEN f[p] < f[q] ELSE f[p] <= f[q]
             T == {k \in Nat : k + 1 <= n => \E q \in 1..k + 1 : Largest(q, k + 1)}
  <1>1. 0 \in T
    <2>1. 1 \in 1..0 + 1 /\ Largest(1, 0 + 1)
      OBVIOUS
    <2> HIDE DEF Last
    <2> QED
      BY <2>1
  <1>2. ASSUME NEW k \in T PROVE k + 1 \in T
    <2> SUFFICES ASSUME (k + 1) + 1 <= n
                 PROVE  \E q \in 1..(k + 1) + 1 : Largest(q, (k + 1) + 1)
      OBVIOUS
    <2>1. PICK q \in 1..k + 1 : Largest(q, k + 1)
      OBVIOUS
    <2> DEFINE r == (k + 1) + 1
    <2>2. r \in 1..n /\ q \in 1..n /\ r > q /\ q \in 1..r /\ r \in 1..r
      OBVIOUS
    <2>3. \A p \in 1..r : p \in 1..k + 1 \/ p = r
      OBVIOUS
    <2>4. \A p \in 1..r : f[p] \in Nat
      BY <2>2
    <2>5. \A p \in 1..k + 1 : ~(p > r)
      OBVIOUS
    <2> HIDE DEF r
    <2>6. CASE f[r] < f[q]
      BY <2>1, <2>2, <2>3, <2>6 DEF r
    <2>7. CASE f[q] <= f[r]
      <3>1. \A p \in 1..k + 1 : f[p] <= f[r]
        <4> SUFFICES ASSUME NEW p \in 1..k + 1 PROVE f[p] <= f[r]
          OBVIOUS
        <4>1. f[p] <= f[q] /\ p \in 1..r
          <5>1. p \in 1..r
            BY <2>2 DEF r
          <5> QED
            BY <2>1, <2>2, <2>4, <5>1
        <4> QED
          BY <2>2, <2>4, <2>7, <4>1
      <3>2. Largest(r, r)
        BY <2>2, <2>3, <2>4, <2>5, <3>1
      <3> HIDE DEF Last
      <3> QED
        BY <2>2, <3>2 DEF r
    <2>8. f[r] \in Nat /\ f[q] \in Nat
      BY <2>2, <2>4
    <2> QED
      BY <2>6, <2>7, <2>8
  <1>3. T = Nat
    <2> HIDE DEF T
    <2>1. T \in SUBSET Nat
      BY DEF T
    <2> QED
      BY <1>1, <1>2, <2>1, SetOfNaturals
  <1>4. \A k \in Nat : k + 1 <= n => \E q \in 1..k + 1 : Largest(q, k + 1)
    <2> HIDE DEF Last
    <2> QED
      BY <1>3
  <1>5. n - 1 \in Nat /\ (n - 1) + 1 = n /\ n <= n
    OBVIOUS
  <1>6. \E q \in 1..n : Largest(q, n)
    <2> HIDE DEF Last
    <2> QED
      BY <1>4, <1>5
  <1> QED
    BY <1>6

(* Every level code of a column is below its number of levels. *)
LEMMA LevelsBelow ==
  ASSUME NEW n \in Nat \ {0}, NEW col \in [1..n -> Nat]
  PROVE  NLevels(col) \in Nat \ {0} /\ \A i \in 1..n : col[i] \in 0..NLevels(col) - 1
  <1>1. PICK q \in 1..n : \A p \in 1..n : IF p > q THEN col[p] < col[q] ELSE col[p] <= col[q]
    BY LastLargest
  <1>2. \A p \in 1..n : col[q] >= col[p]
    BY <1>1
  <1>3. \E x \in ToSet(col) : \A y \in ToSet(col) : x >= y
    BY <1>2 DEF ToSet
  <1>4. Max(ToSet(col)) \in ToSet(col) /\ \A y \in ToSet(col) : Max(ToSet(col)) >= y
    BY <1>3 DEF Max
  <1>5. Max(ToSet(col)) \in Nat /\ \A i \in 1..n : col[i] <= Max(ToSet(col))
    BY <1>4 DEF ToSet
  <1> QED
    BY <1>5 DEF NLevels

IsDominant(terms, q) ==
  \A p \in DOMAIN terms : IF p > q THEN NDofs(terms[p]) < NDofs(terms[q])
                          ELSE NDofs(terms[p]) <= NDofs(terms[q])

(* There is one dominant term. *)
LEMMA DominantIs ==
  ASSUME NEW terms, Contiguous(terms), Len(terms) # 0
  PROVE  Dominant(terms) \in DOMAIN terms /\ IsDominant(terms, Dominant(terms))
  <1>1. Len(terms) \in Nat \ {0} /\ DOMAIN terms = 1..Len(terms)
        /\ \A p \in 1..Len(terms) : TermSizes(terms)[p] \in Nat
    BY Blocks, SizesPositive
  <1>2. PICK q \in 1..Len(terms) : \A p \in 1..Len(terms) :
          IF p > q THEN TermSizes(terms)[p] < TermSizes(terms)[q]
          ELSE TermSizes(terms)[p] <= TermSizes(terms)[q]
    BY <1>1, LastLargest
  <1>3. \A p \in DOMAIN terms : TermSizes(terms)[p] = NDofs(terms[p])
    BY DEF TermSizes
  <1>4. \E r \in DOMAIN terms : IsDominant(terms, r)
    BY <1>1, <1>2, <1>3 DEF IsDominant
  <1> QED
    BY <1>4 DEF Dominant, IsDominant

LEMMA DominantUnique ==
  ASSUME NEW terms, Contiguous(terms), NEW p \in DOMAIN terms, NEW q \in DOMAIN terms,
         IsDominant(terms, p), IsDominant(terms, q)
  PROVE  p = q
  <1>1. p \in Int /\ q \in Int /\ NDofs(terms[p]) \in Nat /\ NDofs(terms[q]) \in Nat
    BY Blocks
  <1> QED
    BY <1>1 DEF IsDominant

(* Neighbours in order are all in order. *)
LEMMA NonDecreasingAll ==
  ASSUME NEW n \in Nat, NEW col \in [1..n -> Nat]
  PROVE  NonDecreasing(col) <=> \A i, j \in 1..n : i < j => col[i] <= col[j]
  <1>1. Len(col) = n
    <2>1. col \in Seq(Nat)
      OBVIOUS
    <2> QED
      BY <2>1
  <1>2. ASSUME \A i, j \in 1..n : i < j => col[i] <= col[j] PROVE NonDecreasing(col)
    <2>1. \A i \in 2..n : i - 1 \in 1..n /\ i \in 1..n /\ i - 1 < i
      OBVIOUS
    <2> QED
      BY <1>1, <1>2, <2>1 DEF NonDecreasing
  <1>3. ASSUME NonDecreasing(col), NEW i \in 1..n PROVE \A j \in 1..n : i < j => col[i] <= col[j]
    <2> DEFINE T == {k \in Nat : i + k <= n => col[i] <= col[i + k]}
    <2>1. 0 \in T
      <3>1. i + 0 = i /\ col[i] \in Nat
        OBVIOUS
      <3> QED
        BY <3>1
    <2>2. ASSUME NEW k \in T PROVE k + 1 \in T
      <3> SUFFICES ASSUME i + (k + 1) <= n PROVE col[i] <= col[i + (k + 1)]
        OBVIOUS
      <3>1. i + (k + 1) \in 2..n /\ (i + (k + 1)) - 1 = i + k /\ i + k \in 1..n
        OBVIOUS
      <3>2. col[i + k] <= col[i + (k + 1)]
        BY <1>1, <1>3, <3>1 DEF NonDecreasing
      <3>3. col[i] \in Nat /\ col[i + k] \in Nat /\ col[i + (k + 1)] \in Nat
        BY <3>1
      <3>4. col[i] <= col[i + k]
        BY <3>1
      <3> QED
        BY <3>2, <3>3, <3>4
    <2>3. T = Nat
      <3> HIDE DEF T
      <3>1. T \in SUBSET Nat
        BY DEF T
      <3> QED
        BY <2>1, <2>2, <3>1, SetOfNaturals
    <2> SUFFICES ASSUME NEW j \in 1..n, i < j PROVE col[i] <= col[j]
      OBVIOUS
    <2>4. \A k \in Nat : i + k <= n => col[i] <= col[i + k]
      BY <2>3
    <2>5. j - i \in Nat /\ i + (j - i) = j /\ i + (j - i) <= n
      OBVIOUS
    <2> QED
      BY <2>4, <2>5
  <1> QED
    BY <1>2, <1>3
-----------------------------------------------------------------------------
(* The locality sort. *)

Sorts(perm, key) ==
  /\ perm \in [DOMAIN key -> DOMAIN key]
  /\ \A j, k \in DOMAIN key : j < k => Before(key, perm[j], perm[k])

(* Where an observation goes: after those before it. *)
Lower(key, i) == {j \in DOMAIN key : Before(key, j, i)}
Rank(key, i) == Cardinality(Lower(key, i)) + 1

LEMMA BeforeOrders ==
  ASSUME NEW n \in Nat, NEW key \in [1..n -> Nat]
  PROVE  /\ \A i \in 1..n : ~Before(key, i, i)
         /\ \A i, j \in 1..n : Before(key, i, j) \/ i = j \/ Before(key, j, i)
         /\ \A i, j, k \in 1..n : Before(key, i, j) /\ Before(key, j, k) => Before(key, i, k)
  BY DEF Before

LEMMA RankGrows ==
  ASSUME NEW n \in Nat, NEW key \in [1..n -> Nat]
  PROVE  /\ \A i \in 1..n : Rank(key, i) \in 1..n
         /\ \A i, j \in 1..n : Before(key, i, j) => Rank(key, i) < Rank(key, j)
  <1>1. IsFiniteSet(1..n) /\ Cardinality(1..n) = n
    BY FS_Interval
  <1>2. ASSUME NEW i \in 1..n
        PROVE  /\ Lower(key, i) \in SUBSET (1..n)
               /\ IsFiniteSet(Lower(key, i)) /\ Cardinality(Lower(key, i)) \in Nat
               /\ i \notin Lower(key, i)
    <2>1. Lower(key, i) \in SUBSET (1..n) /\ i \notin Lower(key, i)
      BY BeforeOrders DEF Lower
    <2> QED
      BY <1>1, <2>1, FS_Subset, FS_CardinalityType
  <1>3. ASSUME NEW i \in 1..n PROVE Rank(key, i) \in 1..n
    <2>1. /\ IsFiniteSet(Lower(key, i) \cup {i})
          /\ Cardinality(Lower(key, i) \cup {i}) = Cardinality(Lower(key, i)) + 1
      BY <1>2, FS_AddElement
    <2>2. Lower(key, i) \cup {i} \in SUBSET (1..n)
      BY <1>2
    <2>3. Cardinality(Lower(key, i) \cup {i}) <= n
      BY <1>1, <2>2, FS_Subset
    <2> QED
      BY <1>2, <2>1, <2>3 DEF Rank
  <1>4. ASSUME NEW i \in 1..n, NEW j \in 1..n, Before(key, i, j)
        PROVE  Rank(key, i) < Rank(key, j)
    <2>1. Lower(key, i) \cup {i} \in SUBSET Lower(key, j)
      BY <1>4, BeforeOrders DEF Lower
    <2>2. Cardinality(Lower(key, i) \cup {i}) = Cardinality(Lower(key, i)) + 1
      BY <1>2, FS_AddElement
    <2>3. Cardinality(Lower(key, i) \cup {i}) <= Cardinality(Lower(key, j))
      BY <1>2, <2>1, FS_Subset
    <2> QED
      BY <1>2, <2>2, <2>3 DEF Rank
  <1> QED
    BY <1>3, <1>4

LEMMA RankInjective ==
  ASSUME NEW n \in Nat, NEW key \in [1..n -> Nat], NEW i \in 1..n, NEW j \in 1..n,
         Rank(key, i) = Rank(key, j)
  PROVE  i = j
  <1>1. Rank(key, i) \in Int /\ Rank(key, j) \in Int
    BY RankGrows
  <1>2. /\ Before(key, i, j) => Rank(key, i) < Rank(key, j)
        /\ Before(key, j, i) => Rank(key, j) < Rank(key, i)
    BY RankGrows
  <1>3. ~Before(key, i, j) /\ ~Before(key, j, i)
    BY <1>1, <1>2
  <1> QED
    BY <1>3, BeforeOrders

LEMMA RankOnto ==
  ASSUME NEW n \in Nat, NEW key \in [1..n -> Nat]
  PROVE  \A k \in 1..n : \E i \in 1..n : Rank(key, i) = k
  <1> DEFINE f == [i \in 1..n |-> Rank(key, i)]
  <1>1. f \in [1..n -> 1..n]
    BY RankGrows
  <1>2. \A i, j \in 1..n : f[i] = f[j] => i = j
    BY RankInjective
  <1>3. f \in Injection(1..n, 1..n)
    BY <1>1, <1>2 DEF Injection, IsInjective
  <1>4. IsFiniteSet(1..n)
    BY FS_Interval
  <1>5. f \in Surjection(1..n, 1..n)
    <2> HIDE DEF f
    <2> QED
      BY <1>3, <1>4, FS_Injection
  <1> QED
    BY <1>5 DEF Surjection

(* To put every observation at its rank is to sort. *)
LEMMA RankedSorts ==
  ASSUME NEW n \in Nat, NEW key \in [1..n -> Nat], NEW S, NEW perm \in [1..n -> S],
         \A i \in 1..n : perm[Rank(key, i)] = i
  PROVE  Sorts(perm, key)
  <1>1. ASSUME NEW k \in 1..n PROVE perm[k] \in 1..n /\ Rank(key, perm[k]) = k
    <2>1. \A l \in 1..n : \E i \in 1..n : Rank(key, i) = l
      BY RankOnto
    <2>2. PICK i \in 1..n : Rank(key, i) = k
      BY <2>1
    <2> QED
      BY <2>2
  <1>2. perm \in [1..n -> 1..n]
    BY <1>1
  <1>3. ASSUME NEW j \in 1..n, NEW k \in 1..n, j < k PROVE Before(key, perm[j], perm[k])
    <2>1. perm[j] \in 1..n /\ perm[k] \in 1..n
          /\ Rank(key, perm[j]) = j /\ Rank(key, perm[k]) = k
      BY <1>1
    <2>2. perm[j] # perm[k]
      BY <1>3, <2>1
    <2>3. ~Before(key, perm[k], perm[j])
      <3>1. Before(key, perm[k], perm[j]) => Rank(key, perm[k]) < Rank(key, perm[j])
        BY <2>1, RankGrows
      <3> QED
        BY <1>3, <2>1, <3>1
    <2> QED
      BY <2>1, <2>2, <2>3, BeforeOrders
  <1> QED
    BY <1>2, <1>3 DEF Sorts

LEMMA ComparisonSorts ==
  ASSUME NEW n \in Nat, NEW key \in [1..n -> Nat]
  PROVE  Sorts(ComparisonSort(key), key)
  <1> DEFINE perm == [k \in 1..n |-> CHOOSE i \in 1..n : Rank(key, i) = k]
  <1>1. \A k \in 1..n : perm[k] \in 1..n /\ Rank(key, perm[k]) = k
    BY RankOnto
  <1>2. perm \in [1..n -> 1..n]
    BY <1>1
  <1>3. ASSUME NEW i \in 1..n PROVE perm[Rank(key, i)] = i
    <2>1. Rank(key, i) \in 1..n
      BY RankGrows
    <2>2. perm[Rank(key, i)] \in 1..n /\ Rank(key, perm[Rank(key, i)]) = Rank(key, i)
      BY <1>1, <2>1
    <2> HIDE DEF perm
    <2> QED
      BY <2>2, RankInjective
  <1>4. Sorts(perm, key)
    <2> HIDE DEF perm
    <2> QED
      BY <1>2, <1>3, RankedSorts
  <1> QED
    BY <1>4 DEF ComparisonSort, Sorts

(* A sorting permutation takes every observation once. *)
LEMMA SortsBijective ==
  ASSUME NEW n \in Nat, NEW key \in [1..n -> Nat], NEW perm, Sorts(perm, key)
  PROVE  /\ perm \in [1..n -> 1..n]
         /\ \A j, k \in 1..n : perm[j] = perm[k] => j = k
         /\ \A i \in 1..n : \E k \in 1..n : perm[k] = i
  <1>1. perm \in [1..n -> 1..n]
    BY DEF Sorts
  <1>2. \A j, k \in 1..n : perm[j] = perm[k] => j = k
    <2> SUFFICES ASSUME NEW j \in 1..n, NEW k \in 1..n, perm[j] = perm[k], j < k PROVE FALSE
      OBVIOUS
    <2>1. Before(key, perm[j], perm[k])
      BY DEF Sorts
    <2> QED
      BY <1>1, <2>1, BeforeOrders
  <1>3. perm \in Injection(1..n, 1..n)
    BY <1>1, <1>2 DEF Injection, IsInjective
  <1>4. perm \in Surjection(1..n, 1..n)
    BY <1>3, FS_Interval, FS_Injection
  <1> QED
    BY <1>1, <1>2, <1>4 DEF Surjection

CountingSteps(it, key, nLevels) ==
  LET ids == [i \in DOMAIN key |-> i]
  IN  it = [s \in SUBSET DOMAIN ids |->
              IF s = {} THEN Empty(key, nLevels)
              ELSE Place(it[s \ {Max(s)}], key, ids[Max(s)])]

(* The observations a level's cursor has passed after the first m. *)
Passed(key, k, m) == {j \in DOMAIN key : key[j] < k \/ (key[j] = k /\ j <= m)}

CountingStates(n, nLevels) == [cursors : [0..nLevels -> Nat], perm : [1..n -> 0..n]]

LEMMA CountingExists ==
  ASSUME NEW n \in Nat, NEW nLevels \in Nat, NEW key \in [1..n -> 0..nLevels - 1]
  PROVE  \E it : /\ CountingSteps(it, key, nLevels)
                 /\ CountingSort(key, nLevels) = it[1..n].perm
  <1> DEFINE V == CountingStates(n, nLevels)
             base == Empty(key, nLevels)
             Step == [p \in V \X (1..n) |-> Place(p[1], key, p[2])]
  <1>1. base \in V
    <2>1. ASSUME NEW k \in 0..nLevels
          PROVE  Cardinality({i \in DOMAIN key : key[i] < k}) + 1 \in Nat
      <3>1. {i \in DOMAIN key : key[i] < k} \in SUBSET (1..n)
        OBVIOUS
      <3>2. IsFiniteSet({i \in DOMAIN key : key[i] < k})
        <4>1. IsFiniteSet(1..n)
          BY FS_Interval
        <4> QED
          BY <3>1, <4>1, FS_Subset
      <3>3. Cardinality({i \in DOMAIN key : key[i] < k}) \in Nat
        BY <3>2, FS_CardinalityType
      <3> QED
        BY <3>3
    <2> QED
      BY <2>1 DEF Empty, CountingStates
  <1>2. ASSUME NEW t \in V, NEW i \in 1..n PROVE Place(t, key, i) \in V
    <2>1. t.cursors \in [0..nLevels -> Nat] /\ t.perm \in [1..n -> 0..n]
      BY DEF CountingStates
    <2>2. [t.cursors EXCEPT ![key[i]] = @ + 1] \in [0..nLevels -> Nat]
      <3>1. PICK k \in 0..nLevels : k = key[i]
        OBVIOUS
      <3>2. t.cursors[k] + 1 \in Nat
        BY <2>1
      <3>3. [t.cursors EXCEPT ![k] = t.cursors[k] + 1] \in [0..nLevels -> Nat]
        BY <2>1, <3>2, ExceptIn
      <3> QED
        BY <3>1, <3>3
    <2>3. [t.perm EXCEPT ![t.cursors[key[i]]] = i] \in [1..n -> 0..n]
      <3>1. i \in 0..n
        OBVIOUS
      <3> QED
        BY <2>1, <3>1, ExceptIn
    <2> QED
      BY <2>2, <2>3 DEF Place, CountingStates
  <1>3. Step \in [V \X (1..n) -> V]
    BY <1>2
  <1>4. PICK g \in [SUBSET (1..n) -> V] : Folding(g, n, base, Step)
    <2> HIDE DEF Step, V, base
    <2> QED
      BY <1>1, <1>3, FoldUp
  <1>5. CountingSteps(g, key, nLevels)
    <2>1. DOMAIN [i \in DOMAIN key |-> i] = 1..n
      OBVIOUS
    <2>2. ASSUME NEW s \in SUBSET (1..n)
          PROVE  g[s] = IF s = {} THEN Empty(key, nLevels)
                        ELSE Place(g[s \ {Max(s)}], key, [i \in DOMAIN key |-> i][Max(s)])
      <3>1. CASE s = {}
        BY <1>4, <3>1 DEF Folding
      <3>2. CASE s # {}
        <4>1. Max(s) \in s
          <5>1. IsFiniteSet(1..n)
            BY FS_Interval
          <5>2. IsFiniteSet(s)
            BY <5>1, FS_Subset
          <5>3. s \in SUBSET Nat
            OBVIOUS
          <5> QED
            BY <3>2, <5>2, <5>3, MaxIn
        <4>2. g[s \ {Max(s)}] \in V /\ Max(s) \in 1..n
          BY <4>1
        <4>3. g[s] = Step[<<g[s \ {Max(s)}], Max(s)>>]
          <5> HIDE DEF Step, base
          <5> QED
            BY <1>4, <3>2 DEF Folding
        <4>4. Step[<<g[s \ {Max(s)}], Max(s)>>] = Place(g[s \ {Max(s)}], key, Max(s))
          BY <4>2
        <4>5. [i \in DOMAIN key |-> i][Max(s)] = Max(s)
          BY <4>2
        <4> QED
          BY <3>2, <4>3, <4>4, <4>5
      <3> QED
        BY <3>1, <3>2
    <2>3. g = [s \in SUBSET (1..n) |->
                 IF s = {} THEN Empty(key, nLevels)
                 ELSE Place(g[s \ {Max(s)}], key, [i \in DOMAIN key |-> i][Max(s)])]
      <3> HIDE DEF V
      <3> QED
        BY <2>2
    <2> QED
      BY <2>1, <2>3 DEF CountingSteps
  <1> DEFINE it == CHOOSE h : CountingSteps(h, key, nLevels)
  <1>6. CountingSteps(it, key, nLevels)
    BY <1>5
  <1>7. CountingSort(key, nLevels) = it[1..n].perm
    BY DEF CountingSort, FoldLeftDomain, FoldLeft, MapThenFoldSet, CountingSteps
  <1> HIDE DEF it
  <1> QED
    BY <1>6, <1>7

(* After the first m observations. *)
CountingInv(n, key, nLevels, m, s) ==
  /\ s.cursors \in [0..nLevels -> Nat]
  /\ s.perm \in [1..n -> 0..n]
  /\ \A k \in 0..nLevels : s.cursors[k] = Cardinality(Passed(key, k, m)) + 1
  /\ \A i \in 1..m : s.perm[Rank(key, i)] = i

LEMMA PassedFinite ==
  ASSUME NEW n \in Nat, NEW key \in [1..n -> Nat], NEW k, NEW m
  PROVE  IsFiniteSet(Passed(key, k, m)) /\ Cardinality(Passed(key, k, m)) \in Nat
  <1>1. Passed(key, k, m) \in SUBSET (1..n)
    BY DEF Passed
  <1>2. IsFiniteSet(1..n)
    BY FS_Interval
  <1>3. IsFiniteSet(Passed(key, k, m))
    BY <1>1, <1>2, FS_Subset
  <1> QED
    BY <1>3, FS_CardinalityType

LEMMA CountingStart ==
  ASSUME NEW n \in Nat, NEW nLevels \in Nat, NEW key \in [1..n -> 0..nLevels - 1]
  PROVE  CountingInv(n, key, nLevels, 0, Empty(key, nLevels))
  <1>1. key \in [1..n -> Nat] /\ DOMAIN key = 1..n
    OBVIOUS
  <1>2. \A k \in 0..nLevels : Passed(key, k, 0) = {i \in DOMAIN key : key[i] < k}
    BY DEF Passed
  <1>3. ASSUME NEW k \in 0..nLevels
        PROVE  Cardinality({i \in DOMAIN key : key[i] < k}) + 1 \in Nat
    <2>1. Cardinality(Passed(key, k, 0)) \in Nat
      BY <1>1, PassedFinite
    <2>2. Passed(key, k, 0) = {i \in DOMAIN key : key[i] < k}
      BY <1>2
    <2>3. Cardinality({i \in DOMAIN key : key[i] < k}) \in Nat
      BY <2>1, <2>2
    <2> QED
      BY <2>3
  <1>4. Empty(key, nLevels).cursors \in [0..nLevels -> Nat]
    BY <1>3 DEF Empty
  <1>5. \A k \in 0..nLevels :
          Empty(key, nLevels).cursors[k] = Cardinality(Passed(key, k, 0)) + 1
    BY <1>2 DEF Empty
  <1>6. Empty(key, nLevels).perm \in [1..n -> 0..n]
    BY <1>1 DEF Empty
  <1> QED
    BY <1>4, <1>5, <1>6 DEF CountingInv

LEMMA AdvanceIn ==
  ASSUME NEW A, NEW f \in [A -> Nat], NEW a \in A
  PROVE  [f EXCEPT ![a] = f[a] + 1] \in [A -> Nat]
  OBVIOUS

LEMMA CountingStep ==
  ASSUME NEW n \in Nat, NEW nLevels \in Nat, NEW key \in [1..n -> 0..nLevels - 1],
         NEW m \in Nat, NEW i \in 1..n, i = m + 1,
         NEW s, CountingInv(n, key, nLevels, m, s)
  PROVE  CountingInv(n, key, nLevels, i, Place(s, key, i))
  <1> DEFINE k == key[i]
             t == Place(s, key, i)
  <1>1. key \in [1..n -> Nat] /\ k \in Nat /\ k \in 0..nLevels
    OBVIOUS
  <1>2. Passed(key, k, m) = Lower(key, i)
    BY <1>1 DEF Passed, Lower, Before
  <1>3. s.cursors[k] = Rank(key, i) /\ Rank(key, i) \in 1..n
    BY <1>1, <1>2, RankGrows DEF CountingInv, Rank
  <1>4. /\ t.perm = [s.perm EXCEPT ![Rank(key, i)] = i]
        /\ t.cursors = [s.cursors EXCEPT ![k] = s.cursors[k] + 1]
    BY <1>3 DEF Place
  <1> HIDE DEF t
  <1>5. t.perm \in [1..n -> 0..n]
    <2>1. s.perm \in [1..n -> 0..n]
      BY DEF CountingInv
    <2>2. i \in 0..n
      OBVIOUS
    <2>3. [s.perm EXCEPT ![Rank(key, i)] = i] \in [1..n -> 0..n]
      BY ONLY <2>1, <2>2, ExceptIn
    <2> QED
      BY <1>4, <2>3
  <1>6. t.cursors \in [0..nLevels -> Nat]
    <2>1. s.cursors \in [0..nLevels -> Nat]
      BY DEF CountingInv
    <2>2. [s.cursors EXCEPT ![k] = s.cursors[k] + 1] \in [0..nLevels -> Nat]
      BY ONLY <1>1, <2>1, AdvanceIn
    <2> QED
      BY <1>4, <2>2
  <1>7. ASSUME NEW j \in 1..i PROVE t.perm[Rank(key, j)] = j
    <2>1. j \in 1..n /\ (j = i \/ j \in 1..m)
      OBVIOUS
    <2>2. Rank(key, j) \in 1..n
      BY <1>1, <2>1, RankGrows
    <2>3. CASE j = i
      BY <1>3, <1>4, <2>3 DEF CountingInv
    <2>4. CASE j # i
      <3>1. Rank(key, j) # Rank(key, i)
        BY <1>1, <2>1, <2>4, RankInjective
      <3>2. s.perm[Rank(key, j)] = j
        BY <2>1, <2>4 DEF CountingInv
      <3> QED
        BY <1>4, <2>2, <3>1, <3>2 DEF CountingInv
    <2> QED
      BY <2>3, <2>4
  <1>8. ASSUME NEW l \in 0..nLevels PROVE t.cursors[l] = Cardinality(Passed(key, l, i)) + 1
    <2>1. CASE l = k
      <3>1. Passed(key, k, i) = Passed(key, k, m) \cup {i} /\ i \notin Passed(key, k, m)
        BY <1>1 DEF Passed
      <3>2. IsFiniteSet(Passed(key, k, m)) /\ Cardinality(Passed(key, k, m)) \in Nat
        BY <1>1, PassedFinite
      <3>3. Cardinality(Passed(key, k, i)) = Cardinality(Passed(key, k, m)) + 1
        BY <3>1, <3>2, FS_AddElement
      <3>4. t.cursors[k] = s.cursors[k] + 1 /\ s.cursors[k] = Cardinality(Passed(key, k, m)) + 1
        BY <1>1, <1>4 DEF CountingInv
      <3> QED
        BY <2>1, <3>3, <3>4
    <2>2. CASE l # k
      <3>1. Passed(key, l, i) = Passed(key, l, m)
        BY <1>1, <2>2 DEF Passed
      <3>2. t.cursors[l] = s.cursors[l] /\ s.cursors[l] = Cardinality(Passed(key, l, m)) + 1
        BY <1>1, <1>4, <2>2 DEF CountingInv
      <3> QED
        BY <3>1, <3>2
    <2> QED
      BY <2>1, <2>2
  <1>9. CountingInv(n, key, nLevels, i, t)
    BY <1>5, <1>6, <1>7, <1>8 DEF CountingInv
  <1> QED
    BY <1>9 DEF t

LEMMA CountingSorts ==
  ASSUME NEW n \in Nat, NEW nLevels \in Nat, NEW key \in [1..n -> 0..nLevels - 1]
  PROVE  Sorts(CountingSort(key, nLevels), key)
  <1>1. PICK it : CountingSteps(it, key, nLevels) /\ CountingSort(key, nLevels) = it[1..n].perm
    BY CountingExists
  <1> DEFINE T == {m \in Nat : m <= n => CountingInv(n, key, nLevels, m, it[1..m])}
  <1>2. 0 \in T
    <2>1. 1..0 = {}
      OBVIOUS
    <2>2. it[1..0] = Empty(key, nLevels)
      BY <1>1, <2>1 DEF CountingSteps
    <2> QED
      BY <2>2, CountingStart
  <1>3. ASSUME NEW m \in T PROVE m + 1 \in T
    <2> SUFFICES ASSUME m + 1 <= n
                 PROVE  CountingInv(n, key, nLevels, m + 1, it[1..m + 1])
      OBVIOUS
    <2>1. m \in Nat /\ CountingInv(n, key, nLevels, m, it[1..m])
      OBVIOUS
    <2> HIDE DEF T
    <2>2. PICK i \in 1..n : i = m + 1
      <3>1. m + 1 \in 1..n
        BY <2>1
      <3> QED
        BY <3>1
    <2>3. 1..i \in SUBSET (1..n) /\ 1..i # {} /\ i - 1 = m /\ i \in Nat \ {0}
      <3>1. i - 1 = m
        BY <2>1, <2>2
      <3>2. i \in 1..i /\ i \in Nat \ {0}
        OBVIOUS
      <3>3. 1..i \in SUBSET (1..n)
        OBVIOUS
      <3> QED
        BY <3>1, <3>2, <3>3
    <2>4. Max(1..i) = i /\ (1..i) \ {i} = 1..m
      BY <2>3, MaxUpTo
    <2>5. it[1..i] = Place(it[1..m], key, i)
      BY <1>1, <2>3, <2>4 DEF CountingSteps
    <2>6. CountingInv(n, key, nLevels, i, it[1..i])
      BY <2>1, <2>2, <2>5, CountingStep
    <2> QED
      BY <2>2, <2>6
  <1>4. T = Nat
    <2> HIDE DEF T
    <2>1. T \in SUBSET Nat
      BY DEF T
    <2> QED
      BY <1>2, <1>3, <2>1, SetOfNaturals
  <1>5. CountingInv(n, key, nLevels, n, it[1..n])
    BY <1>4
  <1>6. key \in [1..n -> Nat]
    OBVIOUS
  <1>7. it[1..n].perm \in [1..n -> 0..n] /\ \A i \in 1..n : it[1..n].perm[Rank(key, i)] = i
    BY <1>5 DEF CountingInv
  <1> QED
    BY <1>1, <1>6, <1>7, RankedSorts

(* Whichever algorithm runs, the argsort is the stable one. *)
LEMMA StableArgsorts ==
  ASSUME NEW n \in Nat, NEW nLevels \in Nat, NEW key \in [1..n -> 0..nLevels - 1]
  PROVE  Sorts(StableArgsort(key, nLevels), key)
  <1>1. key \in [1..n -> Nat]
    OBVIOUS
  <1> QED
    BY <1>1, ComparisonSorts, CountingSorts DEF StableArgsort

-----------------------------------------------------------------------------
(* Answers in the caller's order. *)

OutSteps(it, design, v) ==
  LET ids == [i \in DOMAIN design.perm |-> i]
  IN  it = [s \in SUBSET DOMAIN ids |->
              IF s = {} THEN [i \in DOMAIN v |-> 0]
              ELSE [it[s \ {Max(s)}] EXCEPT ![design.perm[ids[Max(s)]]] = v[ids[Max(s)]]]]

LEMMA OutExists ==
  ASSUME NEW n \in Nat, NEW v, DOMAIN v = 1..n,
         NEW design, design.perm # None, DOMAIN design.perm = 1..n
  PROVE  \E it : OutSteps(it, design, v) /\ PermuteOut(design, v) = it[1..n]
  <1> DEFINE W == [1..n -> {v[k] : k \in 1..n} \cup {0}]
             base == [i \in DOMAIN v |-> 0]
             Step == [p \in W \X (1..n) |-> [p[1] EXCEPT ![design.perm[p[2]]] = v[p[2]]]]
  <1>1. base \in W
    OBVIOUS
  <1>2. ASSUME NEW t \in W, NEW k \in 1..n PROVE [t EXCEPT ![design.perm[k]] = v[k]] \in W
    <2>1. v[k] \in {v[j] : j \in 1..n} \cup {0}
      OBVIOUS
    <2> QED
      BY <2>1, ExceptIn
  <1>3. Step \in [W \X (1..n) -> W]
    BY <1>2
  <1>4. PICK g \in [SUBSET (1..n) -> W] : Folding(g, n, base, Step)
    <2> HIDE DEF Step, W, base
    <2> QED
      BY <1>1, <1>3, FoldUp
  <1>5. OutSteps(g, design, v)
    <2>1. DOMAIN [i \in DOMAIN design.perm |-> i] = 1..n
      OBVIOUS
    <2>2. ASSUME NEW s \in SUBSET (1..n)
          PROVE  g[s] = IF s = {} THEN [i \in DOMAIN v |-> 0]
                        ELSE [g[s \ {Max(s)}] EXCEPT
                                ![design.perm[[i \in DOMAIN design.perm |-> i][Max(s)]]] =
                                  v[[i \in DOMAIN design.perm |-> i][Max(s)]]]
      <3>1. CASE s = {}
        BY <1>4, <3>1 DEF Folding
      <3>2. CASE s # {}
        <4>1. Max(s) \in s
          <5>1. IsFiniteSet(1..n)
            BY FS_Interval
          <5>2. IsFiniteSet(s)
            BY <5>1, FS_Subset
          <5>3. s \in SUBSET Nat
            OBVIOUS
          <5> QED
            BY <3>2, <5>2, <5>3, MaxIn
        <4>2. g[s \ {Max(s)}] \in W /\ Max(s) \in 1..n
          BY <4>1
        <4>3. g[s] = Step[<<g[s \ {Max(s)}], Max(s)>>]
          <5> HIDE DEF Step, base
          <5> QED
            BY <1>4, <3>2 DEF Folding
        <4>4. Step[<<g[s \ {Max(s)}], Max(s)>>] =
                [g[s \ {Max(s)}] EXCEPT ![design.perm[Max(s)]] = v[Max(s)]]
          <5> HIDE DEF W
          <5> QED
            BY <4>2
        <4>5. [i \in DOMAIN design.perm |-> i][Max(s)] = Max(s)
          BY <4>2
        <4> QED
          BY <3>2, <4>3, <4>4, <4>5
      <3> QED
        BY <3>1, <3>2
    <2>3. g = [s \in SUBSET (1..n) |->
                 IF s = {} THEN [i \in DOMAIN v |-> 0]
                 ELSE [g[s \ {Max(s)}] EXCEPT
                         ![design.perm[[i \in DOMAIN design.perm |-> i][Max(s)]]] =
                           v[[i \in DOMAIN design.perm |-> i][Max(s)]]]]
      <3> HIDE DEF W
      <3> QED
        BY <2>2
    <2> QED
      BY <2>1, <2>3 DEF OutSteps
  <1> DEFINE it == CHOOSE h : OutSteps(h, design, v)
  <1>6. OutSteps(it, design, v)
    BY <1>5
  <1>7. PermuteOut(design, v) = it[1..n]
    BY DEF PermuteOut, FoldLeftDomain, FoldLeft, MapThenFoldSet, OutSteps
  <1> HIDE DEF it
  <1> QED
    BY <1>6, <1>7

(* The design rearranges the n rows of v without merging any two. *)
Rearranges(design, v, n) ==
  /\ n \in Nat
  /\ DOMAIN v = 1..n
  /\ design.perm # None
  /\ design.perm \in [1..n -> 1..n]
  /\ \A j, k \in 1..n : design.perm[j] = design.perm[k] => j = k

(* What is permuted out lands where the permutation took it from. *)
LEMMA PermutesOut ==
  ASSUME NEW n, NEW v, NEW design, Rearranges(design, v, n)
  PROVE  \A k \in 1..n : PermuteOut(design, v)[design.perm[k]] = v[k]
  <1>0. /\ n \in Nat
        /\ DOMAIN v = 1..n
        /\ design.perm # None
        /\ design.perm \in [1..n -> 1..n]
        /\ \A j, k \in 1..n : design.perm[j] = design.perm[k] => j = k
    BY DEF Rearranges
  <1>1. PICK it : OutSteps(it, design, v) /\ PermuteOut(design, v) = it[1..n]
    BY <1>0, OutExists
  <1> DEFINE Inv(m) == /\ DOMAIN it[1..m] = 1..n
                       /\ \A k \in 1..m : it[1..m][design.perm[k]] = v[k]
             T == {m \in Nat : m <= n => Inv(m)}
  <1>2. 0 \in T
    <2>1. 1..0 = {}
      BY <1>0
    <2>2. it[1..0] = [i \in DOMAIN v |-> 0]
      BY <1>0, <1>1, <2>1 DEF OutSteps
    <2> QED
      BY <1>0, <2>1, <2>2
  <1>3. ASSUME NEW m \in T PROVE m + 1 \in T
    <2> SUFFICES ASSUME m + 1 <= n PROVE Inv(m + 1)
      BY <1>0
    <2>1. m \in Nat /\ DOMAIN it[1..m] = 1..n /\ \A k \in 1..m : it[1..m][design.perm[k]] = v[k]
      BY <1>0
    <2> HIDE DEF T
    <2>2. PICK i \in 1..n : i = m + 1
      <3>1. m + 1 \in 1..n
        BY <1>0, <2>1
      <3> QED
        BY <1>0, <3>1
    <2>3. 1..i \in SUBSET (1..n) /\ 1..i # {} /\ i - 1 = m /\ i \in Nat \ {0}
      <3>1. i - 1 = m
        BY <1>0, <2>1, <2>2
      <3>2. i \in 1..i /\ i \in Nat \ {0}
        BY <1>0
      <3>3. 1..i \in SUBSET (1..n)
        BY <1>0
      <3> QED
        BY <1>0, <3>1, <3>2, <3>3
    <2>4. Max(1..i) = i /\ (1..i) \ {i} = 1..m
      BY <1>0, <2>3, MaxUpTo
    <2>5. it[1..i] = [it[1..m] EXCEPT ![design.perm[i]] = v[i]]
      <3> DEFINE ids == [j \in DOMAIN design.perm |-> j]
      <3>1. DOMAIN ids = 1..n /\ ids[i] = i
        BY <1>0
      <3> HIDE DEF ids
      <3>2. it = [s \in SUBSET (1..n) |->
                    IF s = {} THEN [j \in DOMAIN v |-> 0]
                    ELSE [it[s \ {Max(s)}] EXCEPT ![design.perm[ids[Max(s)]]] = v[ids[Max(s)]]]]
        BY <1>0, <1>1, <3>1 DEF OutSteps, ids
      <3>3. it[1..i] = [it[(1..i) \ {Max(1..i)}] EXCEPT
                          ![design.perm[ids[Max(1..i)]]] = v[ids[Max(1..i)]]]
        BY <1>0, <2>3, <3>2
      <3> QED
        BY <1>0, <2>4, <3>1, <3>3
    <2>6. DOMAIN it[1..i] = 1..n
      BY <1>0, <2>1, <2>5
    <2>7. ASSUME NEW k \in 1..i PROVE it[1..i][design.perm[k]] = v[k]
      <3>1. k \in 1..n /\ design.perm[k] \in 1..n /\ (k = i \/ k \in 1..m)
        BY <1>0, <2>1, <2>2
      <3>2. CASE k = i
        BY <1>0, <2>1, <2>5, <3>1, <3>2
      <3>3. CASE k # i
        <4>1. design.perm[k] # design.perm[i]
          BY <1>0, <3>1, <3>3
        <4> QED
          BY <1>0, <2>1, <2>5, <3>1, <3>3, <4>1
      <3> QED
        BY <1>0, <3>2, <3>3
    <2>8. Inv(i)
      BY <1>0, <2>6, <2>7
    <2> HIDE DEF Inv
    <2> QED
      BY <1>0, <2>2, <2>8
  <1>4. T = Nat
    <2> HIDE DEF T
    <2>1. T \in SUBSET Nat
      BY <1>0 DEF T
    <2> QED
      BY <1>0, <1>2, <1>3, <2>1, SetOfNaturals
  <1>5. Inv(n)
    <2> HIDE DEF Inv
    <2> QED
      BY <1>0, <1>4
  <1> QED
    BY <1>0, <1>1, <1>5

-----------------------------------------------------------------------------
(* Design::build. *)

LEMMA LenOfFunction ==
  ASSUME NEW n \in Nat, NEW f, f = [i \in 1..n |-> f[i]]
  PROVE  Len(f) = n
  <1> DEFINE S == {f[i] : i \in 1..n}
  <1>1. f \in [1..n -> S]
    OBVIOUS
  <1>2. f \in Seq(S)
    BY <1>1
  <1> QED
    BY <1>1, <1>2

(* The columns of a valid frame. *)
LEMMA FrameColumns ==
  ASSUME NEW frame, NEW structure, FrameValid(frame), StructureValid(frame, structure)
  PROVE  /\ NObs(frame) \in Nat
         /\ Len(frame.levels) \in Nat
         /\ DOMAIN frame.levels = 1..Len(frame.levels)
         /\ DOMAIN structure = 1..Len(frame.levels)
         /\ \A q \in DOMAIN frame.levels : frame.levels[q] \in [1..NObs(frame) -> Nat]
         /\ \A k \in DOMAIN frame.loadings : frame.loadings[k] \in [1..NObs(frame) -> Int]
         /\ \A q \in DOMAIN structure :
              /\ Len(structure[q]) \in Nat \ {0}
              /\ DOMAIN structure[q] = 1..Len(structure[q])
              /\ \A c \in DOMAIN structure[q] : structure[q][c] = Constant \/ structure[q][c] \in DOMAIN frame.loadings
  <1> DEFINE A == Seq(Nat)
             B == Seq(Int)
             C == Seq(0..Len(frame.loadings)) \ {<<>>}
  <1>1. frame.levels \in Seq(A) /\ frame.loadings \in Seq(B)
    BY DEF FrameValid
  <1>2. structure \in Seq(C) /\ Len(structure) = Len(frame.levels)
    BY DEF StructureValid
  <1>3. \A q \in DOMAIN structure : structure[q] \in C
    <2> HIDE DEF C
    <2> QED
      BY <1>2
  <1>4. /\ Len(frame.levels) \in Nat /\ DOMAIN frame.levels = 1..Len(frame.levels)
        /\ Len(frame.loadings) \in Nat /\ DOMAIN frame.loadings = 1..Len(frame.loadings)
        /\ DOMAIN structure = 1..Len(frame.levels)
        /\ (\A q \in DOMAIN frame.levels : frame.levels[q] \in A)
        /\ (\A k \in DOMAIN frame.loadings : frame.loadings[k] \in B)
        /\ (frame.levels # <<>> => 1 \in DOMAIN frame.levels)
        /\ (frame.loadings # <<>> => 1 \in DOMAIN frame.loadings)
    <2> HIDE DEF A, B, C
    <2> QED
      BY <1>1, <1>2
  <1>5. NObs(frame) \in Nat
    <2>1. frame.levels # <<>> => Len(frame.levels[1]) \in Nat
      BY <1>4
    <2>2. frame.loadings # <<>> => Len(frame.loadings[1]) \in Nat
      BY <1>4
    <2> QED
      BY <2>1, <2>2 DEF NObs
  <1>6. \A q \in DOMAIN frame.levels : frame.levels[q] \in [1..NObs(frame) -> Nat]
    <2>1. \A q \in DOMAIN frame.levels : Len(frame.levels[q]) = NObs(frame)
      BY DEF FrameValid, ToSet
    <2> QED
      BY <1>4, <2>1
  <1>7. \A k \in DOMAIN frame.loadings : frame.loadings[k] \in [1..NObs(frame) -> Int]
    <2>1. \A k \in DOMAIN frame.loadings : Len(frame.loadings[k]) = NObs(frame)
      BY DEF FrameValid, ToSet
    <2> QED
      BY <1>4, <2>1
  <1>8. ASSUME NEW q \in DOMAIN structure
        PROVE /\ Len(structure[q]) \in Nat \ {0}
              /\ DOMAIN structure[q] = 1..Len(structure[q])
              /\ \A c \in DOMAIN structure[q] :
                   structure[q][c] = Constant \/ structure[q][c] \in DOMAIN frame.loadings
    <2>1. structure[q] \in Seq(0..Len(frame.loadings)) /\ structure[q] # <<>>
      BY <1>3
    <2>2. DOMAIN structure[q] = 1..Len(structure[q]) /\ Len(structure[q]) \in Nat \ {0}
      BY <2>1
    <2>3. \A c \in DOMAIN structure[q] : structure[q][c] \in 0..Len(frame.loadings)
      BY <2>1
    <2> QED
      BY <1>4, <2>2, <2>3 DEF Constant
  <1> QED
    BY <1>6, <1>7, <1>4, <1>5, <1>8

(* The terms lie one after the other, with room for every level code. *)
LEMMA TermsLaidOut ==
  ASSUME NEW frame, NEW structure, FrameValid(frame), StructureValid(frame, structure),
         NObs(frame) # 0
  PROVE  /\ Contiguous(Terms(frame, structure))
         /\ Len(Terms(frame, structure)) = Len(frame.levels)
         /\ \A q \in DOMAIN frame.levels : \A i \in 1..NObs(frame) :
              frame.levels[q][i] \in 0..Terms(frame, structure)[q].nLevels - 1
  <1> DEFINE t == Terms(frame, structure)
             n == Len(frame.levels)
  <1>1. n \in Nat /\ DOMAIN frame.levels = 1..n /\ DOMAIN structure = 1..n
        /\ NObs(frame) \in Nat \ {0}
        /\ \A q \in 1..n : /\ frame.levels[q] \in [1..NObs(frame) -> Nat]
                           /\ Len(structure[q]) \in Nat \ {0}
                           /\ DOMAIN structure[q] = 1..Len(structure[q])
    BY FrameColumns
  <1>2. \A q \in 1..n :
          /\ NLevels(frame.levels[q]) \in Nat \ {0}
          /\ \A i \in 1..NObs(frame) : frame.levels[q][i] \in 0..NLevels(frame.levels[q]) - 1
    <2> SUFFICES ASSUME NEW q \in 1..n
                 PROVE  /\ NLevels(frame.levels[q]) \in Nat \ {0}
                        /\ \A i \in 1..NObs(frame) :
                             frame.levels[q][i] \in 0..NLevels(frame.levels[q]) - 1
      OBVIOUS
    <2>1. frame.levels[q] \in [1..NObs(frame) -> Nat] /\ NObs(frame) \in Nat \ {0}
      BY <1>1
    <2> QED
      BY <2>1, LevelsBelow
  <1>3. Len(t) = n
    <2>1. t = [q \in 1..n |-> t[q]]
      BY <1>1 DEF Terms
    <2> HIDE DEF t, n
    <2> QED
      BY <1>1, <2>1, LenOfFunction
  <1>4. DOMAIN t = 1..n
    BY <1>1 DEF Terms
  <1>5. \A q \in 1..n :
          /\ t[q].nLevels = NLevels(frame.levels[q])
          /\ t[q].columns = structure[q]
          /\ t[q].offset = SumFunctionOnSet(Sizes(frame, structure), 1..q - 1)
    BY <1>1 DEF Terms
  <1> HIDE DEF t
  <1>6. TermSizes(t) = Sizes(frame, structure)
    <2>1. \A q \in 1..n : NDofs(t[q]) = Len(structure[q]) * NLevels(frame.levels[q])
      BY <1>5 DEF NDofs
    <2> QED
      BY <1>1, <1>4, <2>1 DEF TermSizes, Sizes
  <1>7. Contiguous(t)
    BY <1>1, <1>2, <1>3, <1>4, <1>5, <1>6 DEF Contiguous
  <1>8. \A q \in DOMAIN frame.levels : \A i \in 1..NObs(frame) :
          frame.levels[q][i] \in 0..t[q].nLevels - 1
    BY <1>1, <1>2, <1>5
  <1> QED
    BY <1>3, <1>7, <1>8 DEF t

(* Terms that differ in their sorted flags only. *)
LEMMA SameLayout ==
  ASSUME NEW terms, Contiguous(terms), NEW ts, Len(ts) = Len(terms), DOMAIN ts = DOMAIN terms,
         \A q \in DOMAIN terms : /\ ts[q].nLevels = terms[q].nLevels
                                 /\ ts[q].offset = terms[q].offset
                                 /\ ts[q].columns = terms[q].columns
  PROVE  /\ Contiguous(ts)
         /\ TotalDofs(ts) = TotalDofs(terms)
         /\ Len(terms) # 0 => Dominant(ts) = Dominant(terms)
  <1>1. \A q \in DOMAIN terms : NDofs(ts[q]) = NDofs(terms[q])
    BY DEF NDofs
  <1>2. TermSizes(ts) = TermSizes(terms)
    BY <1>1 DEF TermSizes
  <1>3. Contiguous(ts)
    BY <1>2 DEF Contiguous
  <1>4. TotalDofs(ts) = TotalDofs(terms)
    BY <1>2 DEF TotalDofs, TermSizes
  <1>5. ASSUME Len(terms) # 0 PROVE Dominant(ts) = Dominant(terms)
    <2>1. Dominant(ts) \in DOMAIN ts /\ IsDominant(ts, Dominant(ts))
      BY <1>3, <1>5, DominantIs
    <2>2. Dominant(terms) \in DOMAIN terms /\ IsDominant(terms, Dominant(terms))
      BY <1>5, DominantIs
    <2>3. IsDominant(terms, Dominant(ts))
      BY <1>1, <2>1 DEF IsDominant
    <2> QED
      BY <2>1, <2>2, <2>3, DominantUnique
  <1> QED
    BY <1>3, <1>4, <1>5

(* What Design::build makes of a frame and a structure. *)
Builds(d, frame, structure) ==
  /\ d.nObs = NObs(frame) /\ d.nObs \in Nat \ {0}
  /\ Contiguous(d.terms)
  /\ d.nDofs = TotalDofs(d.terms) /\ d.nDofs <= MaxDofs
  /\ DOMAIN d.terms = DOMAIN frame.levels
  /\ \A q \in DOMAIN d.terms :
       /\ d.terms[q].columns = structure[q]
       /\ \A i \in 1..d.nObs : frame.levels[q][i] \in 0..d.terms[q].nLevels - 1
       /\ d.terms[q].sorted = NonDecreasing(d.frame.levels[q])
  /\ \/ d.perm = None /\ d.frame = frame
     \/ /\ Dominant(d.terms) \in DOMAIN d.terms
        /\ Sorts(d.perm, frame.levels[Dominant(d.terms)])
        /\ d.frame = Permuted(frame, d.perm)

LEMMA LaidUnsorted ==
  ASSUME NEW frame, NEW structure, FrameValid(frame), StructureValid(frame, structure),
         NObs(frame) # 0, TotalDofs(Terms(frame, structure)) <= MaxDofs
  PROVE  Builds(Laid(frame, Terms(frame, structure), None), frame, structure)
  <1> DEFINE t == Terms(frame, structure)
             d == Laid(frame, t, None)
  <1>1. NObs(frame) \in Nat \ {0} /\ DOMAIN structure = DOMAIN frame.levels
    BY FrameColumns
  <1>2. DOMAIN t = DOMAIN frame.levels
        /\ \A q \in DOMAIN t : /\ t[q].columns = structure[q]
                               /\ t[q].sorted = NonDecreasing(frame.levels[q])
    BY <1>1 DEF Terms
  <1>3. Contiguous(t) /\ \A q \in DOMAIN frame.levels : \A i \in 1..NObs(frame) :
                           frame.levels[q][i] \in 0..t[q].nLevels - 1
    BY TermsLaidOut
  <1> HIDE DEF t
  <1>4. TotalDofs(t) <= MaxDofs
    BY DEF t
  <1>5. /\ d.frame = frame /\ d.terms = t /\ d.nObs = NObs(frame) /\ d.nDofs = TotalDofs(t)
        /\ d.perm = None
    BY DEF Laid
  <1> HIDE DEF d
  <1>6. Builds(d, frame, structure)
    BY <1>1, <1>2, <1>3, <1>4, <1>5 DEF Builds
  <1> QED
    BY <1>6 DEF d, t

LEMMA LaidSorted ==
  ASSUME NEW frame, NEW structure, FrameValid(frame), StructureValid(frame, structure),
         NObs(frame) # 0, TotalDofs(Terms(frame, structure)) <= MaxDofs,
         Terms(frame, structure) # <<>>,
         NEW perm, Sorts(perm, frame.levels[Dominant(Terms(frame, structure))])
  PROVE  Builds(SortedBy(frame, Terms(frame, structure), perm), frame, structure)
  <1> DEFINE t == Terms(frame, structure)
             sf == Permuted(frame, perm)
             ts == [q \in DOMAIN t |-> [t[q] EXCEPT !.sorted = NonDecreasing(sf.levels[q])]]
             n == NObs(frame)
             d == SortedBy(frame, t, perm)
  <1>1. /\ n \in Nat \ {0} /\ DOMAIN structure = DOMAIN frame.levels
        /\ DOMAIN frame.levels = 1..Len(frame.levels) /\ Len(frame.levels) \in Nat
        /\ \A q \in DOMAIN frame.levels : frame.levels[q] \in [1..n -> Nat]
    BY FrameColumns
  <1>2. DOMAIN t = DOMAIN frame.levels /\ \A q \in DOMAIN t : t[q].columns = structure[q]
    BY <1>1 DEF Terms
  <1>3. /\ Contiguous(t) /\ Len(t) = Len(frame.levels)
        /\ \A q \in DOMAIN frame.levels : \A i \in 1..n : frame.levels[q][i] \in 0..t[q].nLevels - 1
    BY TermsLaidOut
  <1>4. DOMAIN ts = DOMAIN t
        /\ \A q \in DOMAIN t : /\ ts[q].nLevels = t[q].nLevels
                               /\ ts[q].offset = t[q].offset
                               /\ ts[q].columns = t[q].columns
                               /\ ts[q].sorted = NonDecreasing(sf.levels[q])
    <2> HIDE DEF sf
    <2> QED
      BY DEF Terms
  <1>5. /\ d.frame = sf /\ d.terms = ts /\ d.nObs = NObs(sf) /\ d.nDofs = TotalDofs(ts)
        /\ d.perm = perm
    BY DEF SortedBy, Resorted, Laid
  <1>6. Len(t) # 0
    <2>1. t = [q \in 1..Len(t) |-> t[q]]
      BY <1>2, <1>1, <1>3 DEF Terms
    <2> HIDE DEF t
    <2>2. Len(t) = 0 => t = <<>>
      BY <2>1
    <2> QED
      BY <2>2 DEF t
  <1> HIDE DEF t, ts, d
  <1>7. Len(ts) = Len(t)
    <2>1. ts = [q \in 1..Len(t) |-> ts[q]]
      BY <1>1, <1>2, <1>3, <1>4 DEF ts
    <2> QED
      BY <1>1, <1>3, <2>1, LenOfFunction
  <1>8. Contiguous(ts) /\ TotalDofs(ts) = TotalDofs(t) /\ Dominant(ts) = Dominant(t)
    BY <1>3, <1>4, <1>6, <1>7, SameLayout
  <1>9. Dominant(t) \in DOMAIN t
    BY <1>3, <1>6, DominantIs
  <1>10. Sorts(perm, frame.levels[Dominant(t)]) /\ TotalDofs(t) <= MaxDofs
    BY DEF t
  <1>11. DOMAIN perm = 1..n /\ perm \in [1..n -> 1..n]
    BY <1>1, <1>2, <1>9, <1>10 DEF Sorts
  <1>12. NObs(sf) = n
    <2>1. sf.levels = [q \in 1..Len(frame.levels) |-> Gathered(frame.levels[q], perm)]
      BY <1>1 DEF Permuted
    <2>2. Len(frame.levels) # 0
      BY <1>3, <1>6
    <2>3. sf.levels # <<>> /\ sf.levels[1] = Gathered(frame.levels[1], perm)
      BY <1>1, <2>1, <2>2
    <2>4. Len(Gathered(frame.levels[1], perm)) = n
      <3> DEFINE g == Gathered(frame.levels[1], perm)
      <3>1. g = [k \in 1..n |-> g[k]]
        BY <1>11 DEF Gathered
      <3> HIDE DEF g, n
      <3>2. Len(g) = n
        BY <1>1, <3>1, LenOfFunction
      <3> QED
        BY <3>2 DEF g
    <2> HIDE DEF sf
    <2> QED
      BY <2>3, <2>4 DEF NObs
  <1> HIDE DEF sf
  <1>13. sf = Permuted(frame, perm)
    BY DEF sf
  <1>14. Builds(d, frame, structure)
    BY <1>1, <1>2, <1>3, <1>4, <1>5, <1>8, <1>9, <1>10, <1>12, <1>13 DEF Builds
  <1> QED
    BY <1>14 DEF d, t

LEMMA BuildSound ==
  ASSUME NEW frame, NEW structure, NEW localitySort,
         FrameValid(frame), StructureValid(frame, structure), MaxDofs \in Nat,
         ~IsRejected(Build(frame, structure, localitySort))
  PROVE  Builds(Build(frame, structure, localitySort), frame, structure)
  <1> DEFINE t == Terms(frame, structure)
             D == Dominant(t)
  <1>1. \A e : IsRejected(Rejected(e))
    BY DEF IsRejected, Rejected
  <1>2. NObs(frame) # 0
    BY <1>1 DEF Build
  <1>3. /\ ~(TotalDofs(t) > MaxDofs)
        /\ Build(frame, structure, localitySort) = DominantFirst(frame, t, D, localitySort)
    BY <1>1, <1>2 DEF Build, BuildTerms
  <1>4. Contiguous(t) /\ Len(t) = Len(frame.levels) /\ NObs(frame) \in Nat
        /\ \A q \in DOMAIN frame.levels : frame.levels[q] \in [1..NObs(frame) -> Nat]
    BY <1>2, TermsLaidOut, FrameColumns
  <1>5. TotalDofs(t) <= MaxDofs
    <2>1. Len(t) \in Nat /\ TotalDofs(t) = End(t, Len(t))
      BY <1>4, Blocks
    <2>2. End(t, Len(t)) \in Nat
      <3>1. Len(t) \in 0..Len(t) /\ Len(t) <= Len(t)
        BY <2>1
      <3> QED
        BY <1>4, <3>1, Blocks
    <2> HIDE DEF t
    <2> QED
      BY <1>3, <2>1, <2>2
  <1>6. CASE localitySort /\ t # <<>> /\ ~t[D].sorted /\ NObs(frame) <= MaxDofs
    <2> DEFINE key == frame.levels[D]
               perm == StableArgsort(key, t[D].nLevels)
    <2>1. Len(t) # 0 /\ DOMAIN t = DOMAIN frame.levels
      <3>1. DOMAIN structure = DOMAIN frame.levels /\ DOMAIN structure = 1..Len(frame.levels)
        BY FrameColumns
      <3>2. t = [q \in 1..Len(t) |-> t[q]] /\ DOMAIN t = DOMAIN frame.levels
        BY <1>4, <3>1 DEF Terms
      <3> HIDE DEF t
      <3>3. Len(t) = 0 => t = <<>>
        BY <3>2
      <3> QED
        BY <1>6, <3>2, <3>3
    <2>2. D \in DOMAIN frame.levels /\ D \in DOMAIN t
      BY <1>4, <2>1, DominantIs
    <2>3. t[D].nLevels \in Nat
      BY <1>4, <2>2 DEF Contiguous
    <2>4. key \in [1..NObs(frame) -> 0..t[D].nLevels - 1]
      <3>1. \A i \in 1..NObs(frame) : key[i] \in 0..t[D].nLevels - 1
        BY <1>2, <2>2, TermsLaidOut
      <3>2. key \in [1..NObs(frame) -> Nat]
        BY <1>4, <2>2
      <3> HIDE DEF key, t, D
      <3> QED
        BY <3>1, <3>2
    <2>5. Sorts(perm, key)
      <3> HIDE DEF key, t, D
      <3> QED
        BY <1>4, <2>3, <2>4, StableArgsorts
    <2>6. Build(frame, structure, localitySort) = SortedBy(frame, t, perm)
      <3> HIDE DEF t, D
      <3> QED
        BY <1>3, <1>6 DEF DominantFirst
    <2> HIDE DEF perm
    <2> QED
      BY <1>2, <1>5, <1>6, <2>5, <2>6, LaidSorted
  <1>7. CASE ~(localitySort /\ t # <<>> /\ ~t[D].sorted /\ NObs(frame) <= MaxDofs)
    <2>1. Build(frame, structure, localitySort) = Laid(frame, t, None)
      <3> HIDE DEF t, D
      <3> QED
        BY <1>3, <1>7 DEF DominantFirst
    <2> QED
      BY <1>2, <1>5, <2>1, LaidUnsorted
  <1> QED
    BY <1>6, <1>7

-----------------------------------------------------------------------------
(* Sequences joined one after the other. *)

LEMMA Concat ==
  ASSUME NEW U, NEW a \in Seq(U), NEW b \in Seq(U)
  PROVE  /\ a \o b \in Seq(U)
         /\ Len(a \o b) = Len(a) + Len(b)
         /\ \A j \in 1..Len(a) : (a \o b)[j] = a[j]
         /\ \A j \in 1..Len(b) : (a \o b)[Len(a) + j] = b[j]
  OBVIOUS

(* The sequences of s joined up to each of the first m. *)
Joins(g, s, U, m) ==
  /\ DOMAIN g = 1..m
  /\ \A i \in 1..m : g[i] \in Seq(U) /\ g[i] = IF i = 1 THEN s[i] ELSE g[i - 1] \o s[i]

LEMMA JoinsExist ==
  ASSUME NEW n \in Nat, NEW U, NEW s, \A r \in 1..n : s[r] \in Seq(U)
  PROVE  \E g : Joins(g, s, U, n)
  <1> DEFINE T == {m \in Nat : m <= n => \E g : Joins(g, s, U, m)}
  <1>1. 0 \in T
    <2>1. DOMAIN [i \in 1..0 |-> 0] = 1..0 /\ 1..0 = {}
      OBVIOUS
    <2>2. Joins([i \in 1..0 |-> 0], s, U, 0)
      BY <2>1 DEF Joins
    <2> QED
      BY <2>2
  <1>2. ASSUME NEW m \in T PROVE m + 1 \in T
    <2>1. m \in Nat /\ (m <= n => \E g : Joins(g, s, U, m))
      OBVIOUS
    <2>2. ASSUME m + 1 <= n PROVE \E g : Joins(g, s, U, m + 1)
      <3>1. m <= n /\ m + 1 \in 1..n
        BY <2>1, <2>2
      <3>2. PICK g : Joins(g, s, U, m)
        BY <2>1, <3>1
      <3> DEFINE next == IF m = 0 THEN s[m + 1] ELSE g[m] \o s[m + 1]
                 h == [i \in 1..m + 1 |-> IF i = m + 1 THEN next ELSE g[i]]
      <3>3. next \in Seq(U)
        <4>1. m # 0 => m \in 1..m
          BY <2>1
        <4>2. m # 0 => g[m] \in Seq(U)
          BY <3>2, <4>1 DEF Joins
        <4>3. s[m + 1] \in Seq(U)
          BY <3>1
        <4> QED
          BY <4>2, <4>3, Concat
      <3>4. ASSUME NEW i \in 1..m + 1
            PROVE  h[i] \in Seq(U) /\ h[i] = IF i = 1 THEN s[i] ELSE h[i - 1] \o s[i]
        <4> HIDE DEF next
        <4>1. CASE i = m + 1
          <5>1. h[i] = next
            BY <4>1
          <5>2. m # 0 => h[i - 1] = g[m] /\ i # 1
            BY <2>1, <4>1
          <5>3. m = 0 => i = 1
            BY <4>1
          <5> HIDE DEF h
          <5> QED
            BY <3>3, <4>1, <5>1, <5>2, <5>3 DEF next
        <4>2. CASE i # m + 1
          <5>1. i \in 1..m /\ h[i] = g[i] /\ (i # 1 => i - 1 \in 1..m /\ h[i - 1] = g[i - 1])
            BY <2>1, <4>2
          <5> HIDE DEF h
          <5> QED
            BY <3>2, <5>1 DEF Joins
        <4> QED
          BY <4>1, <4>2
      <3>5. DOMAIN h = 1..m + 1
        OBVIOUS
      <3> HIDE DEF h
      <3>6. Joins(h, s, U, m + 1)
        BY <3>4, <3>5 DEF Joins
      <3> QED
        BY <3>6
    <2> QED
      BY <2>1, <2>2
  <1>3. T = Nat
    <2>1. T \in SUBSET Nat
      OBVIOUS
    <2> HIDE DEF T
    <2> QED
      BY <1>1, <1>2, <2>1, SetOfNaturals
  <1>4. n \in T
    BY <1>3
  <1> QED
    BY <1>4

Flattens(g, s) == g = [i \in 1..Len(s) |-> IF i = 1 THEN s[i] ELSE g[i - 1] \o s[i]]

LEMMA FlattenJoins ==
  ASSUME NEW n \in Nat \ {0}, NEW U, NEW s, Len(s) = n, \A r \in 1..n : s[r] \in Seq(U)
  PROVE  \E g : Joins(g, s, U, n) /\ FlattenSeq(s) = g[n]
  <1>1. PICK h : Joins(h, s, U, n)
    BY JoinsExist
  <1> DEFINE f == [i \in 1..n |-> h[i]]
  <1>2. ASSUME NEW i \in 1..n PROVE f[i] = IF i = 1 THEN s[i] ELSE f[i - 1] \o s[i]
    <2>1. f[i] = h[i] /\ (i # 1 => i - 1 \in 1..n /\ f[i - 1] = h[i - 1])
      OBVIOUS
    <2> HIDE DEF f
    <2> QED
      BY <1>1, <2>1 DEF Joins
  <1>3. f = [i \in 1..n |-> IF i = 1 THEN s[i] ELSE f[i - 1] \o s[i]]
    <2>1. f = [i \in 1..n |-> f[i]]
      OBVIOUS
    <2> HIDE DEF f
    <2> QED
      BY <1>2, <2>1
  <1> HIDE DEF f
  <1>4. \E g : Flattens(g, s)
    BY <1>3 DEF Flattens
  <1> DEFINE g == CHOOSE k : Flattens(k, s)
  <1>5. Flattens(g, s)
    BY <1>4
  <1>6. FlattenSeq(s) = g[n]
    <2>1. Len(s) # 0
      OBVIOUS
    <2> QED
      BY <2>1 DEF FlattenSeq, Flattens
  <1> HIDE DEF g
  <1>7. DOMAIN g = 1..n /\ \A i \in 1..n : g[i] = IF i = 1 THEN s[i] ELSE g[i - 1] \o s[i]
    <2>1. g = [i \in 1..n |-> IF i = 1 THEN s[i] ELSE g[i - 1] \o s[i]]
      BY <1>5 DEF Flattens
    <2> QED
      BY <2>1
  <1>8. ASSUME NEW k \in Nat, k + 1 <= n PROVE g[k + 1] \in Seq(U)
    <2> DEFINE T == {m \in Nat : m + 1 <= n => g[m + 1] \in Seq(U)}
    <2>1. 0 \in T
      BY <1>7
    <2>2. ASSUME NEW m \in T PROVE m + 1 \in T
      <3>1. m \in Nat /\ (m + 1 <= n => g[m + 1] \in Seq(U))
        OBVIOUS
      <3>2. ASSUME (m + 1) + 1 <= n PROVE g[(m + 1) + 1] \in Seq(U)
        <4>1. (m + 1) + 1 \in 1..n /\ (m + 1) + 1 # 1 /\ ((m + 1) + 1) - 1 = m + 1 /\ m + 1 <= n
          BY <3>1, <3>2
        <4>2. g[(m + 1) + 1] = g[m + 1] \o s[(m + 1) + 1]
          BY <1>7, <4>1
        <4>3. s[(m + 1) + 1] \in Seq(U) /\ g[m + 1] \in Seq(U)
          BY <3>1, <4>1
        <4> QED
          BY <4>2, <4>3, Concat
      <3> QED
        BY <3>1, <3>2
    <2>3. T = Nat
      <3>1. T \in SUBSET Nat
        OBVIOUS
      <3> HIDE DEF T
      <3> QED
        BY <2>1, <2>2, <3>1, SetOfNaturals
    <2>4. k \in T
      BY <2>3
    <2> QED
      BY <1>8, <2>4
  <1>9. ASSUME NEW i \in 1..n PROVE g[i] \in Seq(U)
    <2>1. i - 1 \in Nat /\ (i - 1) + 1 = i /\ (i - 1) + 1 <= n
      OBVIOUS
    <2> QED
      BY <1>8, <2>1
  <1>10. Joins(g, s, U, n)
    BY <1>7, <1>9 DEF Joins
  <1> QED
    BY <1>6, <1>10

-----------------------------------------------------------------------------
(* Sums. *)

LEMMA SumZero ==
  ASSUME NEW S, IsFiniteSet(S), NEW f, \A x \in S : f[x] = 0
  PROVE  SumFunctionOnSet(f, S) = 0
  <1> DEFINE C == {s \in SUBSET S : SumFunctionOnSet(f, s) = 0}
  <1>1. ASSUME NEW s \in SUBSET S, \A x \in s : s \ {x} \in C PROVE s \in C
    <2>1. CASE s = {}
      BY <2>1, SumEmpty
    <2>2. CASE s # {}
      <3>1. PICK x \in s : TRUE
        BY <2>2
      <3>2. IsFiniteSet(s) /\ \A y \in s : f[y] \in Int
        BY FS_Subset
      <3>3. SumFunctionOnSet(f, s) = f[x] + SumFunctionOnSet(f, s \ {x})
        BY <3>2, SumRemove
      <3>4. f[x] = 0 /\ SumFunctionOnSet(f, s \ {x}) = 0
        BY <1>1
      <3> QED
        BY <3>3, <3>4
    <2> QED
      BY <2>1, <2>2
  <1>2. \A s \in SUBSET S : s \in C
    <2> HIDE DEF C
    <2> QED
      BY <1>1, SubsetInduction
  <1> QED
    BY <1>2

LEMMA SumDisjoint ==
  ASSUME NEW A, IsFiniteSet(A), NEW B, IsFiniteSet(B), A \cap B = {},
         NEW f, \A x \in A \cup B : f[x] \in Int
  PROVE  SumFunctionOnSet(f, A \cup B) = SumFunctionOnSet(f, A) + SumFunctionOnSet(f, B)
  <1> DEFINE C == {s \in SUBSET B : SumFunctionOnSet(f, A \cup s)
                                      = SumFunctionOnSet(f, A) + SumFunctionOnSet(f, s)}
  <1>1. ASSUME NEW s \in SUBSET B, \A x \in s : s \ {x} \in C PROVE s \in C
    <2>1. SumFunctionOnSet(f, A) \in Int
      BY SumType
    <2>2. CASE s = {}
      BY <2>1, <2>2, SumEmpty
    <2>3. CASE s # {}
      <3>1. PICK x \in s : TRUE
        BY <2>3
      <3>2. IsFiniteSet(s) /\ IsFiniteSet(s \ {x}) /\ IsFiniteSet(A \cup s)
        BY FS_Subset, FS_Union
      <3>3. SumFunctionOnSet(f, s) = f[x] + SumFunctionOnSet(f, s \ {x})
        BY <3>2, SumRemove
      <3>4. SumFunctionOnSet(f, A \cup s) = f[x] + SumFunctionOnSet(f, (A \cup s) \ {x})
        BY <3>2, SumRemove
      <3>5. (A \cup s) \ {x} = A \cup (s \ {x})
        OBVIOUS
      <3>6. SumFunctionOnSet(f, A \cup (s \ {x}))
              = SumFunctionOnSet(f, A) + SumFunctionOnSet(f, s \ {x})
        BY <1>1
      <3>7. SumFunctionOnSet(f, s \ {x}) \in Int /\ f[x] \in Int
        BY <3>2, SumType
      <3>8. \A a, b, c \in Int : a + (b + c) = b + (a + c)
        OBVIOUS
      <3>9. SumFunctionOnSet(f, A \cup s)
              = f[x] + (SumFunctionOnSet(f, A) + SumFunctionOnSet(f, s \ {x}))
        BY <3>4, <3>5, <3>6
      <3> QED
        BY <2>1, <3>3, <3>7, <3>8, <3>9
    <2> QED
      BY <2>2, <2>3
  <1>2. \A s \in SUBSET B : s \in C
    <2> HIDE DEF C
    <2> QED
      BY <1>1, SubsetInduction
  <1> QED
    BY <1>2

(* Terms that are 0 do not count. *)
LEMMA SumSupport ==
  ASSUME NEW S, IsFiniteSet(S), NEW A \in SUBSET S, NEW f, \A x \in A : f[x] \in Int,
         NEW g, \A x \in A : g[x] = f[x], \A x \in S \ A : g[x] = 0
  PROVE  SumFunctionOnSet(g, S) = SumFunctionOnSet(f, A)
  <1>1. IsFiniteSet(A) /\ IsFiniteSet(S \ A) /\ A \cup (S \ A) = S
    BY FS_Subset
  <1>2. \A x \in S : g[x] \in Int
    OBVIOUS
  <1>3. SumFunctionOnSet(g, A \cup (S \ A)) = SumFunctionOnSet(g, A) + SumFunctionOnSet(g, S \ A)
    BY <1>1, <1>2, SumDisjoint
  <1>4. SumFunctionOnSet(g, S \ A) = 0
    BY <1>1, SumZero
  <1>5. SumFunctionOnSet(f, A) = SumFunctionOnSet(g, A) /\ SumFunctionOnSet(f, A) \in Int
    BY <1>1, SumSame, SumType
  <1> QED
    BY <1>1, <1>3, <1>4, <1>5

LEMMA SumSingle == ASSUME NEW x, NEW f, f[x] \in Int PROVE SumFunctionOnSet(f, {x}) = f[x]
  <1>1. IsFiniteSet({x}) /\ {x} \ {x} = {}
    BY FS_Singleton
  <1>2. SumFunctionOnSet(f, {x}) = f[x] + SumFunctionOnSet(f, {x} \ {x})
    BY <1>1, SumRemove
  <1> QED
    BY <1>1, <1>2, SumEmpty

LEMMA SumOnly ==
  ASSUME NEW S, IsFiniteSet(S), NEW x \in S, NEW f, f[x] \in Int, \A y \in S : y # x => f[y] = 0
  PROVE  SumFunctionOnSet(f, S) = f[x]
  <1>1. SumFunctionOnSet(f, S) = SumFunctionOnSet(f, {x})
    BY SumSupport
  <1> QED
    BY <1>1, SumSingle

(* g adds up f on each group that h makes of S.                            *)
Groups(h, f, S, g, K) ==
  /\ \A x \in S : f[x] \in Int /\ h[x] \in K
  /\ \A k \in K : g[k] = SumFunctionOnSet(f, {x \in S : h[x] = k})

(* A sum taken group by group. *)
LEMMA SumGroups ==
  ASSUME NEW S, IsFiniteSet(S), NEW K, IsFiniteSet(K), NEW f, NEW g, NEW h, Groups(h, f, S, g, K)
  PROVE  SumFunctionOnSet(g, K) = SumFunctionOnSet(f, S)
  <1> USE DEF Groups
  <1> DEFINE In(s) == {x \in S : h[x] \in s}
             C == {s \in SUBSET K : SumFunctionOnSet(g, s) = SumFunctionOnSet(f, In(s))}
  <1>1. \A s : IsFiniteSet(In(s)) /\ \A x \in In(s) : f[x] \in Int
    BY FS_Subset
  <1>2. ASSUME NEW k \in K PROVE g[k] \in Int /\ g[k] = SumFunctionOnSet(f, In({k}))
    <2>1. In({k}) = {x \in S : h[x] = k}
      OBVIOUS
    <2>2. SumFunctionOnSet(f, In({k})) \in Int
      BY <1>1, SumType
    <2> QED
      BY <2>1, <2>2
  <1>3. ASSUME NEW s \in SUBSET K, \A k \in s : s \ {k} \in C PROVE s \in C
    <2>1. CASE s = {}
      <3>1. In(s) = {}
        BY <2>1
      <3> QED
        BY <2>1, <3>1, SumEmpty
    <2>2. CASE s # {}
      <3>1. PICK k \in s : TRUE
        BY <2>2
      <3>2. IsFiniteSet(s)
        BY FS_Subset
      <3>3. SumFunctionOnSet(g, s) = g[k] + SumFunctionOnSet(g, s \ {k})
        BY ZenonT(40), <1>2, <3>2, SumRemove
      <3>4. SumFunctionOnSet(g, s \ {k}) = SumFunctionOnSet(f, In(s \ {k}))
        BY <1>3
      <3>5. /\ In(s) = In({k}) \cup In(s \ {k}) /\ In({k}) \cap In(s \ {k}) = {}
            /\ \A x \in In({k}) \cup In(s \ {k}) : f[x] \in Int
        OBVIOUS
      <3> HIDE DEF In
      <3>6. SumFunctionOnSet(f, In({k}) \cup In(s \ {k}))
              = SumFunctionOnSet(f, In({k})) + SumFunctionOnSet(f, In(s \ {k}))
        BY ZenonT(40), <1>1, <3>5, SumDisjoint
      <3>7. SumFunctionOnSet(g, s) = SumFunctionOnSet(f, In(s))
        BY <1>2, <3>3, <3>4, <3>5, <3>6
      <3> QED
        BY <3>7
    <2> QED
      BY <2>1, <2>2
  <1>4. \A s \in SUBSET K : s \in C
    <2> HIDE DEF C
    <2> QED
      BY <1>3, SubsetInduction
  <1>5. In(K) = S
    OBVIOUS
  <1> HIDE DEF In
  <1> QED
    BY <1>4, <1>5

(* A sum under other names. *)
LEMMA SumRename ==
  ASSUME NEW S, IsFiniteSet(S), NEW f, \A x \in S : f[x] \in Int,
         NEW K, IsFiniteSet(K), NEW h, \A x \in S : h[x] \in K,
         \A x, y \in S : h[x] = h[y] => x = y, \A k \in K : \E x \in S : h[x] = k,
         NEW g, \A x \in S : g[h[x]] = f[x]
  PROVE  SumFunctionOnSet(g, K) = SumFunctionOnSet(f, S)
  <1>1. ASSUME NEW k \in K PROVE g[k] = SumFunctionOnSet(f, {x \in S : h[x] = k})
    <2>1. PICK x \in S : h[x] = k
      OBVIOUS
    <2>2. {y \in S : h[y] = k} = {x} /\ f[x] \in Int
      BY <2>1
    <2>3. SumFunctionOnSet(f, {x}) = f[x]
      BY <2>2, SumSingle
    <2> QED
      BY <2>1, <2>2, <2>3
  <1>2. Groups(h, f, S, g, K)
    BY <1>1 DEF Groups
  <1> QED
    BY <1>2, SumGroups

-----------------------------------------------------------------------------
(* Sequences. *)

LEMMA IntervalInduction ==
  ASSUME NEW n \in Nat, NEW T, 0 \in T, \A m \in 1..n : m - 1 \in T => m \in T
  PROVE  \A m \in 0..n : m \in T
  <1> DEFINE U == {m \in Nat : m <= n => m \in T}
  <1>1. 0 \in U
    OBVIOUS
  <1>2. ASSUME NEW m \in U PROVE m + 1 \in U
    <2>1. m \in Nat /\ (m <= n => m \in T)
      OBVIOUS
    <2>2. ASSUME m + 1 <= n PROVE m + 1 \in T
      <3>1. m <= n /\ m + 1 \in 1..n /\ (m + 1) - 1 = m
        BY <2>1, <2>2
      <3> QED
        BY <2>1, <3>1
    <2> QED
      BY <2>1, <2>2
  <1>3. U = Nat
    <2>1. U \in SUBSET Nat
      OBVIOUS
    <2> HIDE DEF U
    <2> QED
      BY <1>1, <1>2, <2>1, SetOfNaturals
  <1> QED
    BY <1>3

(* The sequences of s joined up to each of them, the empty one first.      *)
JoinsUpTo(h, s, U, n) ==
  /\ h[0] = <<>> /\ h[n] = FlattenSeq(s)
  /\ \A m \in 1..n : s[m] \in Seq(U) /\ h[m] = h[m - 1] \o s[m]
  /\ \A m \in 0..n : h[m] \in Seq(U)

LEMMA FlattenUpTo ==
  ASSUME NEW n \in Nat, NEW U, NEW s, s = [m \in 1..n |-> s[m]], \A m \in 1..n : s[m] \in Seq(U)
  PROVE  \E h : JoinsUpTo(h, s, U, n)
  <1>1. Len(s) = n
    BY LenOfFunction
  <1>2. CASE n = 0
    <2>1. FlattenSeq(s) = s
      BY <1>1, <1>2 DEF FlattenSeq
    <2>2. s = <<>>
      BY <1>2
    <2>3. JoinsUpTo([m \in 0..0 |-> <<>>], s, U, 0)
      BY <1>2, <2>1, <2>2 DEF JoinsUpTo
    <2> QED
      BY <1>2, <2>3
  <1>3. CASE n # 0
    <2>1. PICK g : Joins(g, s, U, n) /\ FlattenSeq(s) = g[n]
      <3>1. n \in Nat \ {0} /\ \A m \in 1..n : s[m] \in Seq(U)
        BY <1>3
      <3> QED
        BY ONLY <1>1, <3>1, FlattenJoins
    <2> DEFINE h == [m \in 0..n |-> IF m = 0 THEN <<>> ELSE g[m]]
    <2>2. h[0] = <<>> /\ h[n] = FlattenSeq(s)
      BY <1>3, <2>1
    <2>3. ASSUME NEW m \in 1..n PROVE g[m] = h[m - 1] \o s[m] /\ h[m] = g[m] /\ g[m] \in Seq(U)
      <3>1. h[m] = g[m] /\ g[m] \in Seq(U)
        BY <2>1 DEF Joins
      <3>2. CASE m = 1
        <4>1. g[m] = s[m] /\ s[m] \in Seq(U)
          BY <2>1, <3>2 DEF Joins
        <4>3. h[m - 1] = <<>>
          BY <2>2, <3>2
        <4>2. \A t \in Seq(U) : <<>> \o t = t
          OBVIOUS
        <4> QED
          BY <3>1, <4>1, <4>2, <4>3
      <3>3. CASE m # 1
        <4>1. m - 1 \in 1..n /\ m - 1 \in 0..n /\ m - 1 # 0
          BY <3>3
        <4>2. g[m] = g[m - 1] \o s[m] /\ h[m - 1] = g[m - 1]
          BY <2>1, <3>3, <4>1 DEF Joins
        <4> QED
          BY <3>1, <4>2
      <3> QED
        BY <3>2, <3>3
    <2>4. \A m \in 0..n : h[m] \in Seq(U)
      <3>1. <<>> \in Seq(U)
        OBVIOUS
      <3>2. \A m \in 0..n : m # 0 => m \in 1..n
        OBVIOUS
      <3> HIDE DEF h
      <3> QED
        BY <2>2, <2>3, <3>1, <3>2
    <2> HIDE DEF h
    <2>5. JoinsUpTo(h, s, U, n)
      BY <2>2, <2>3, <2>4 DEF JoinsUpTo
    <2> QED
      BY <2>5
  <1> QED
    BY <1>2, <1>3

(* A column of the design is the caller's, row by row of the permutation.  *)
OriginalOf(d, i) == IF d.perm = None THEN i ELSE d.perm[i]

RowsArranged(d, frame) ==
  /\ d.nObs \in Nat \ {0} /\ d.nObs = NObs(frame)
  /\ \A i \in 1..d.nObs : OriginalOf(d, i) \in 1..d.nObs
  /\ \A i, j \in 1..d.nObs : OriginalOf(d, i) = OriginalOf(d, j) => i = j
  /\ \A i \in 1..d.nObs : \E k \in 1..d.nObs : OriginalOf(d, k) = i
  /\ \A q \in DOMAIN frame.levels :
       /\ d.frame.levels[q] \in [1..d.nObs -> Nat]
       /\ \A i \in 1..d.nObs : d.frame.levels[q][i] = frame.levels[q][OriginalOf(d, i)]
  /\ \A k \in DOMAIN frame.loadings : \A i \in 1..d.nObs :
       /\ d.frame.loadings[k][i] = frame.loadings[k][OriginalOf(d, i)]
       /\ frame.loadings[k][i] \in Int
  /\ d.perm # None =>
       /\ d.perm \in [1..d.nObs -> 1..d.nObs]
       /\ Sorts(d.perm, frame.levels[Dominant(d.terms)])

LEMMA BuiltRows ==
  ASSUME NEW frame, NEW structure, FrameValid(frame), StructureValid(frame, structure),
         None \notin Seq(Int), NEW d, Builds(d, frame, structure)
  PROVE  RowsArranged(d, frame)
  <1> USE DEF RowsArranged
  <1> DEFINE n == d.nObs
  <1>1. /\ n \in Nat \ {0} /\ n = NObs(frame) /\ DOMAIN d.terms = DOMAIN frame.levels
        /\ \A q \in DOMAIN frame.levels : frame.levels[q] \in [1..n -> Nat]
        /\ \A k \in DOMAIN frame.loadings : frame.loadings[k] \in [1..n -> Int]
    BY FrameColumns DEF Builds
  <1>2. CASE d.perm = None
    <2>1. d.frame = frame \/ d.perm \in [1..n -> 1..n]
      BY <1>1, SortsBijective DEF Builds
    <2>2. d.perm \in [1..n -> 1..n] => d.perm \in Seq(Int)
      BY <1>1
    <2>3. d.frame = frame
      BY <1>2, <2>1, <2>2
    <2> HIDE DEF n
    <2>4. \A i \in 1..n : OriginalOf(d, i) = i
      BY <1>2 DEF OriginalOf
    <2> QED
      BY <1>1, <1>2, <2>3, <2>4 DEF n
  <1>3. CASE d.perm # None
    <2>1. /\ Dominant(d.terms) \in DOMAIN d.terms
          /\ Sorts(d.perm, frame.levels[Dominant(d.terms)])
          /\ d.frame = Permuted(frame, d.perm)
      BY <1>3 DEF Builds
    <2> DEFINE p == d.perm
               key == frame.levels[Dominant(d.terms)]
    <2>2. /\ p \in [1..n -> 1..n]
          /\ \A j, k \in 1..n : p[j] = p[k] => j = k
          /\ \A i \in 1..n : \E k \in 1..n : p[k] = i
      <3>1. n \in Nat /\ key \in [1..n -> Nat] /\ Sorts(p, key)
        BY <1>1, <2>1
      <3> HIDE DEF n, p, key
      <3> QED
        BY <3>1, SortsBijective
    <2>3. ASSUME NEW q \in DOMAIN frame.levels
          PROVE  /\ d.frame.levels[q] \in [1..n -> Nat]
                 /\ \A i \in 1..n : d.frame.levels[q][i] = frame.levels[q][p[i]]
      <3>1. d.frame.levels[q] = [i \in DOMAIN p |-> frame.levels[q][p[i]]]
        <4>1. Permuted(frame, p).levels[q] = [i \in DOMAIN p |-> frame.levels[q][p[i]]]
          BY DEF Permuted, Gathered
        <4> QED
          BY <2>1, <4>1
      <3> DEFINE col == frame.levels[q]
      <3>2. col \in [1..n -> Nat]
        BY <1>1
      <3> HIDE DEF n, p, col
      <3>3. [i \in 1..n |-> col[p[i]]] \in [1..n -> Nat]
        BY <2>2, <3>2
      <3>4. d.frame.levels[q] = [i \in 1..n |-> col[p[i]]]
        BY <2>2, <3>1 DEF col
      <3> QED
        BY <3>3, <3>4 DEF col
    <2>4. ASSUME NEW k \in DOMAIN frame.loadings, NEW i \in 1..n
          PROVE  d.frame.loadings[k][i] = frame.loadings[k][p[i]]
      <3>1. d.frame.loadings[k] = [j \in DOMAIN p |-> frame.loadings[k][p[j]]]
        <4>1. Permuted(frame, p).loadings[k] = [j \in DOMAIN p |-> frame.loadings[k][p[j]]]
          BY DEF Permuted, Gathered
        <4> QED
          BY <2>1, <4>1
      <3> HIDE DEF n, p
      <3> QED
        BY <2>2, <3>1
    <2>5. \A i \in 1..n : OriginalOf(d, i) = p[i]
      BY <1>3 DEF OriginalOf
    <2>6. Sorts(p, key)
      BY <2>1
    <2>7. /\ \A i \in 1..n : OriginalOf(d, i) \in 1..n
          /\ \A i, j \in 1..n : OriginalOf(d, i) = OriginalOf(d, j) => i = j
          /\ \A i \in 1..n : \E k \in 1..n : OriginalOf(d, k) = i
      <3> HIDE DEF n, p
      <3>1. \A i \in 1..n : OriginalOf(d, i) \in 1..n
        BY <2>2, <2>5
      <3>2. \A i, j \in 1..n : OriginalOf(d, i) = OriginalOf(d, j) => i = j
        BY <2>2, <2>5
      <3>3. \A i \in 1..n : \E k \in 1..n : OriginalOf(d, k) = i
        <4> SUFFICES ASSUME NEW i \in 1..n PROVE \E k \in 1..n : OriginalOf(d, k) = i
          OBVIOUS
        <4>1. PICK k \in 1..n : p[k] = i
          BY <2>2
        <4> QED
          BY <2>5, <4>1
      <3> QED
        BY <3>1, <3>2, <3>3
    <2>8. \A q \in DOMAIN frame.levels :
            /\ d.frame.levels[q] \in [1..n -> Nat]
            /\ \A i \in 1..n : d.frame.levels[q][i] = frame.levels[q][OriginalOf(d, i)]
      <3> HIDE DEF n, p
      <3> QED
        BY <2>3, <2>5
    <2>9. \A k \in DOMAIN frame.loadings : \A i \in 1..n :
            /\ d.frame.loadings[k][i] = frame.loadings[k][OriginalOf(d, i)]
            /\ frame.loadings[k][i] \in Int
      <3> HIDE DEF n, p
      <3> QED
        BY <1>1, <2>4, <2>5
    <2>10. d.perm \in [1..n -> 1..n] /\ Sorts(d.perm, key)
      <3> HIDE DEF n, key
      <3> QED
        BY <2>2, <2>6
    <2> QED
      BY <1>1, <2>7, <2>8, <2>9, <2>10
  <1> QED
    BY <1>2, <1>3
=============================================================================

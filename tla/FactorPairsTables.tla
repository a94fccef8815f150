------------------------- MODULE FactorPairsTables --------------------------
(***************************************************************************)
(* The tables the preconditioner of FactorPairs is built from, for every   *)
(* design: the diagonal, the Gram block a pair of channels tabulates, the  *)
(* graph of its cells, its components and the block a component extracts.  *)
(***************************************************************************)
EXTENDS FactorPairs, DesignProofs

-----------------------------------------------------------------------------
(* The members of a finite set of numbers, in order. *)

LEMMA AscendingIs ==
  ASSUME NEW S \in SUBSET Int, IsFiniteSet(S)
  PROVE  /\ Cardinality(S) \in Nat
         /\ Ascending(S) \in [1..Cardinality(S) -> S] /\ Len(Ascending(S)) = Cardinality(S)
         /\ DOMAIN Ascending(S) = 1..Len(Ascending(S))
         /\ \A j, k \in 1..Len(Ascending(S)) : j < k => Ascending(S)[j] < Ascending(S)[k]
         /\ \A j, k \in 1..Len(Ascending(S)) : Ascending(S)[j] = Ascending(S)[k] => j = k
         /\ \A x \in S : \E k \in 1..Len(Ascending(S)) : Ascending(S)[k] = x
  <1> DEFINE n == Cardinality(S)
             Below(x) == {y \in S : y < x}
             r == [x \in S |-> Cardinality(Below(x)) + 1]
             a == Ascending(S)
  <1>1. n \in Nat
    BY FS_CardinalityType
  <1>2. ASSUME NEW x \in S
        PROVE  /\ Below(x) \in SUBSET S /\ IsFiniteSet(Below(x)) /\ Cardinality(Below(x)) \in Nat
               /\ Cardinality(Below(x)) < n
    <2>1. Below(x) \in SUBSET S /\ x \notin Below(x)
      OBVIOUS
    <2>2. IsFiniteSet(Below(x)) /\ Cardinality(Below(x)) <= n /\ Below(x) # S
      BY <2>1, FS_Subset
    <2>3. Cardinality(Below(x)) # n
      BY <2>1, <2>2, FS_Subset
    <2>4. Cardinality(Below(x)) \in Nat
      BY <2>2, FS_CardinalityType
    <2> QED
      BY <1>1, <2>1, <2>2, <2>3, <2>4
  <1>3. ASSUME NEW x \in S, NEW y \in S, x < y PROVE r[x] < r[y]
    <2>1. Below(x) \cup {x} \in SUBSET Below(y) /\ x \notin Below(x)
      <3>1. x \in Int /\ y \in Int
        OBVIOUS
      <3>2. ASSUME NEW z \in S, z < x PROVE z < y
        <4>1. z \in Int
          OBVIOUS
        <4> HIDE DEF r
        <4> QED
          BY ONLY <1>3, <3>1, <3>2, <4>1
      <3>3. Below(x) \in SUBSET Below(y)
        BY <3>2
      <3> QED
        BY <1>3, <3>1, <3>3
    <2>2. Cardinality(Below(x) \cup {x}) = Cardinality(Below(x)) + 1
      BY <1>2, <2>1, FS_AddElement
    <2>3. Cardinality(Below(x) \cup {x}) <= Cardinality(Below(y))
      BY <1>2, <2>1, FS_Subset
    <2> QED
      BY <1>2, <2>2, <2>3
  <1>4. r \in [S -> 1..n]
    BY <1>1, <1>2
  <1>5. \A x, y \in S : r[x] = r[y] => x = y
    <2> SUFFICES ASSUME NEW x \in S, NEW y \in S, r[x] = r[y], x # y PROVE FALSE
      OBVIOUS
    <2>1. x < y \/ y < x
      OBVIOUS
    <2>2. r[x] \in Int
      BY <1>4
    <2> HIDE DEF r
    <2> QED
      BY <1>3, <2>1, <2>2
  <1>6. \A k \in 1..n : \E x \in S : r[x] = k
    <2> HIDE DEF r
    <2>1. r \in Injection(S, 1..n)
      BY <1>4, <1>5 DEF Injection, IsInjective
    <2>2. IsFiniteSet(1..n) /\ Cardinality(1..n) = n
      BY <1>1, FS_Interval
    <2>3. r \in Surjection(S, 1..n)
      BY <2>1, <2>2, FS_Injection
    <2> QED
      BY <2>3 DEF Surjection
  <1>7. ASSUME NEW k \in 1..n PROVE a[k] \in S /\ r[a[k]] = k
    <2>1. PICK x \in S : r[x] = k
      BY <1>6
    <2>2. Cardinality(Below(x)) = k - 1
      BY <1>1, <1>2, <2>1
    <2>3. a[k] \in S /\ Cardinality(Below(a[k])) = k - 1
      BY <2>2 DEF Ascending
    <2> QED
      BY <1>1, <2>3
  <1>8. a \in [1..n -> S]
    <2> DEFINE at(k) == CHOOSE x \in S : Cardinality({y \in S : y < x}) = k - 1
    <2>1. a = [k \in 1..n |-> at(k)]
      BY DEF Ascending
    <2> HIDE DEF a, r, n, at
    <2> QED
      BY <1>7, <2>1
  <1>9. Len(a) = n /\ DOMAIN a = 1..n
    <2> HIDE DEF a
    <2> QED
      BY <1>1, <1>8
  <1>10. \A j, k \in 1..n : a[j] = a[k] => j = k
    <2> HIDE DEF a, r
    <2> QED
      BY <1>7
  <1>11. ASSUME NEW j \in 1..n, NEW k \in 1..n, j < k PROVE a[j] < a[k]
    <2>1. a[j] \in S /\ a[k] \in S /\ a[j] \in Int /\ a[k] \in Int /\ r[a[j]] = j /\ r[a[k]] = k
      BY <1>7
    <2> HIDE DEF a, r
    <2>2. a[j] # a[k] /\ (a[k] < a[j] => r[a[k]] < r[a[j]])
      BY <1>3, <1>11, <2>1
    <2>3. j \in Int /\ k \in Int
      OBVIOUS
    <2> QED
      BY <1>11, <2>1, <2>2, <2>3
  <1>12. ASSUME NEW x \in S PROVE \E k \in 1..n : a[k] = x
    <2>1. r[x] \in 1..n
      BY <1>4
    <2>2. a[r[x]] \in S /\ r[a[r[x]]] = r[x]
      <3> HIDE DEF a, r
      <3> QED
        BY <1>7, <2>1
    <2>3. a[r[x]] = x
      <3> HIDE DEF a, r
      <3> QED
        BY <1>5, <2>2
    <2> QED
      BY <2>1, <2>3
  <1> HIDE DEF n, a
  <1>13. /\ n \in Nat /\ a \in [1..n -> S] /\ Len(a) = n /\ DOMAIN a = 1..Len(a)
         /\ \A j, k \in 1..Len(a) : j < k => a[j] < a[k]
         /\ \A j, k \in 1..Len(a) : a[j] = a[k] => j = k
         /\ \A x \in S : \E k \in 1..Len(a) : a[k] = x
    BY <1>1, <1>8, <1>9, <1>10, <1>11, <1>12
  <1> QED
    BY <1>13 DEF n, a

-----------------------------------------------------------------------------
(* The caller's Gram matrix, over the observations as the design has them. *)

DesignIs == input \in Inputs /\ Builds(design, input.frame, input.structure)

Observations == 1..design.nObs

IsChannel(ch) ==
  ch.term \in DOMAIN design.terms /\ ch.column \in DOMAIN design.terms[ch.term].columns
Levels(ch) == 0..design.terms[ch.term].nLevels - 1
DofAt(ch, l) == Index(design.terms[ch.term], ch.column, l)

Entry(ch, l, i) == IF LevelsOf(ch)[i] # l THEN 0 ELSE Load(ch, i)
Products(ch, l, di, m) == [i \in Observations |-> Weight(i) * Entry(ch, l, i) * Entry(di, m, i)]

LEMMA ObservationFacts ==
  ASSUME DesignIs
  PROVE  /\ design.nObs \in Nat \ {0} /\ IsFiniteSet(Observations)
         /\ Contiguous(design.terms) /\ design.nDofs = TotalDofs(design.terms)
         /\ DOMAIN design.terms = DOMAIN input.frame.levels
         /\ RowsArranged(design, input.frame)
         /\ \A i \in Observations : /\ OriginalOf(design, i) \in Observations
                                    /\ Weight(i) \in Nat
                                    /\ Weight(i) = CallerWeight(OriginalOf(design, i))
         /\ \A i, j \in Observations : OriginalOf(design, i) = OriginalOf(design, j) => i = j
         /\ \A i \in Observations : \E k \in Observations : OriginalOf(design, k) = i
  <1>1. /\ FrameValid(input.frame) /\ StructureValid(input.frame, input.structure)
        /\ input.weights \in Seq(Int) \cup {None} /\ WeightsValid(input.weights, NObs(input.frame))
        /\ None \notin Seq(Int)
    BY FactorPairsAssumption DEF DesignIs
  <1>2. Builds(design, input.frame, input.structure)
    BY DEF DesignIs
  <1>3. RowsArranged(design, input.frame)
    BY <1>1, <1>2, BuiltRows
  <1>4. /\ design.nObs \in Nat \ {0} /\ design.nObs = NObs(input.frame)
        /\ \A i \in 1..design.nObs : OriginalOf(design, i) \in 1..design.nObs
        /\ design.perm # None => design.perm \in [1..design.nObs -> 1..design.nObs]
        /\ \A i, j \in 1..design.nObs : OriginalOf(design, i) = OriginalOf(design, j) => i = j
        /\ \A i \in 1..design.nObs : \E k \in 1..design.nObs : OriginalOf(design, k) = i
    BY <1>3 DEF RowsArranged
  <1>5. IsFiniteSet(1..design.nObs)
    BY <1>4, FS_Interval
  <1>6. ASSUME NEW i \in Observations
        PROVE  Weight(i) \in Nat /\ Weight(i) = CallerWeight(OriginalOf(design, i))
    <2>1. CASE input.weights = None
      BY <2>1 DEF Weight, CallerWeight
    <2>2. CASE input.weights # None
      <3>1. /\ input.weights \in Seq(Int) /\ Len(input.weights) = design.nObs
            /\ \A k \in 1..design.nObs : input.weights[k] \in Int /\ input.weights[k] >= 0
        <4>1. input.weights \in Seq(Int)
          BY <1>1, <2>2
        <4>2. /\ Len(input.weights) = design.nObs
              /\ \A k \in DOMAIN input.weights : input.weights[k] >= 0
          BY <1>1, <1>4, <2>2 DEF WeightsValid
        <4> QED
          BY ONLY <4>1, <4>2
      <3>2. i \in 1..design.nObs /\ OriginalOf(design, i) \in 1..design.nObs
        BY <1>4 DEF Observations
      <3>3. PermuteIn(design, input.weights)[i] = input.weights[OriginalOf(design, i)]
        <4>1. CASE design.perm = None
          BY <4>1 DEF PermuteIn, OriginalOf
        <4>2. CASE design.perm # None
          BY <1>4, <3>2, <4>2 DEF PermuteIn, OriginalOf, Gathered
        <4> QED
          BY <4>1, <4>2
      <3> QED
        BY <2>2, <3>1, <3>2, <3>3 DEF Weight, CallerWeight
    <2> QED
      BY <2>1, <2>2
  <1>7. /\ Contiguous(design.terms) /\ design.nDofs = TotalDofs(design.terms)
        /\ DOMAIN design.terms = DOMAIN input.frame.levels
    BY <1>2 DEF Builds
  <1> QED
    BY <1>3, <1>4, <1>5, <1>6, <1>7 DEF Observations

LEMMA ChannelFacts ==
  ASSUME DesignIs, NEW ch, IsChannel(ch)
  PROVE  /\ CallerRows = Observations
         /\ design.terms[ch.term].nLevels \in Nat \ {0} /\ design.terms[ch.term].offset \in Nat
         /\ ch.column \in Nat \ {0}
         /\ LevelsOf(ch) \in [Observations -> Levels(ch)]
         /\ Levels(ch) \in SUBSET Nat /\ IsFiniteSet(Levels(ch))
         /\ \A i \in Observations :
              /\ Load(ch, i) \in Int
              /\ \A l : Entry(ch, l, i) =
                   CallerEntry([term |-> ch.term, column |-> ch.column, level |-> l],
                               OriginalOf(design, i))
  <1> DEFINE q == ch.term
             t == design.terms[q]
  <1>1. /\ FrameValid(input.frame) /\ StructureValid(input.frame, input.structure)
    BY FactorPairsAssumption DEF DesignIs
  <1>2. /\ q \in DOMAIN design.terms /\ ch.column \in DOMAIN t.columns
        /\ q \in DOMAIN input.frame.levels
    BY ObservationFacts DEF IsChannel
  <1>3. /\ t.nLevels \in Nat \ {0} /\ DOMAIN t.columns = 1..Len(t.columns) /\ Len(t.columns) \in Nat
        /\ t.offset \in Nat
    <2>1. 0 \in 0..t.nLevels - 1 /\ t.nLevels \in Nat \ {0}
          /\ DOMAIN t.columns = 1..Len(t.columns) /\ Len(t.columns) \in Nat
      BY <1>2, ObservationFacts DEF Contiguous
    <2>2. t.offset \in Nat
      BY <1>2, <2>1, ObservationFacts, IndexInBlock
    <2> QED
      BY <2>1, <2>2
  <1>4. CallerRows = Observations
    <2>1. 1 \in DOMAIN input.frame.levels /\ NObs(input.frame) = design.nObs
      BY <1>1, <1>2, ObservationFacts, FrameColumns DEF RowsArranged
    <2>2. DOMAIN input.frame.levels[1] = 1..design.nObs
      BY <1>1, <2>1, FrameColumns
    <2> QED
      BY <2>2 DEF CallerRows, Observations
  <1>5. /\ \A i \in Observations : /\ design.frame.levels[q][i] = input.frame.levels[q][OriginalOf(design, i)]
                                   /\ OriginalOf(design, i) \in Observations
        /\ \A k \in DOMAIN input.frame.loadings : \A i \in Observations :
             /\ design.frame.loadings[k][i] = input.frame.loadings[k][OriginalOf(design, i)]
             /\ input.frame.loadings[k][i] \in Int
        /\ design.frame.levels[q] \in [Observations -> Nat]
    BY <1>2, ObservationFacts DEF RowsArranged, Observations
  <1>6. \A i \in Observations : input.frame.levels[q][i] \in 0..t.nLevels - 1
    BY <1>2 DEF DesignIs, Builds, Observations
  <1>7. LevelsOf(ch) \in [Observations -> Levels(ch)]
    <2>1. \A i \in Observations : design.frame.levels[q][i] \in 0..t.nLevels - 1
      BY <1>5, <1>6
    <2>2. design.frame.levels[q] \in [Observations -> 0..t.nLevels - 1]
      BY <1>5, <2>1
    <2> QED
      BY <2>2 DEF LevelsOf, Levels
  <1>8. t.columns[ch.column] = Constant \/ t.columns[ch.column] \in DOMAIN input.frame.loadings
    <2>1. t.columns = input.structure[q] /\ q \in DOMAIN input.structure
      BY <1>1, <1>2, FrameColumns DEF DesignIs, Builds
    <2>2. \A c \in DOMAIN input.structure[q] :
            input.structure[q][c] = Constant \/ input.structure[q][c] \in DOMAIN input.frame.loadings
      BY <1>1, <2>1, FrameColumns
    <2> QED
      BY <1>2, <2>1, <2>2
  <1>9. ASSUME NEW i \in Observations
        PROVE  /\ Load(ch, i) \in Int
               /\ \A l : Entry(ch, l, i) =
                    CallerEntry([term |-> q, column |-> ch.column, level |-> l], OriginalOf(design, i))
    <2>1. Unit \in Int
      BY FactorPairsAssumption
    <2>2. CASE t.columns[ch.column] = Constant
      <3>1. Load(ch, i) = Unit
        BY <2>2 DEF Load, ColumnOf
      <3> QED
        BY <1>5, <2>1, <2>2, <3>1 DEF Entry, CallerEntry, LevelsOf
    <2>3. CASE t.columns[ch.column] # Constant
      <3>1. t.columns[ch.column] \in DOMAIN input.frame.loadings
        BY <1>8, <2>3
      <3>2. /\ Load(ch, i) = design.frame.loadings[t.columns[ch.column]][i]
            /\ Load(ch, i) = input.frame.loadings[t.columns[ch.column]][OriginalOf(design, i)]
            /\ Load(ch, i) \in Int
        BY <1>5, <2>3, <3>1 DEF Load, ColumnOf
      <3> QED
        BY <1>5, <2>3, <3>2 DEF Entry, CallerEntry, LevelsOf
    <2> QED
      BY <2>2, <2>3
  <1>10. Levels(ch) \in SUBSET Nat /\ IsFiniteSet(Levels(ch)) /\ ch.column \in Nat \ {0}
    <2>1. IsFiniteSet(0..t.nLevels - 1)
      <3>1. 0 \in Int /\ t.nLevels - 1 \in Int
        BY <1>3
      <3> QED
        BY ONLY <3>1, FS_Interval
    <2>2. 0..t.nLevels - 1 \in SUBSET Nat
      BY <1>3
    <2> QED
      BY <1>2, <1>3, <2>1, <2>2 DEF Levels
  <1> QED
    BY <1>3, <1>4, <1>7, <1>9, <1>10

(* A channel's coefficient at a level, and back. *)
LEMMA DofFacts ==
  ASSUME DesignIs, NEW ch, IsChannel(ch), NEW l \in Levels(ch)
  PROVE  /\ DofAt(ch, l) \in Dofs
         /\ Address(design.terms, DofAt(ch, l)) = [term |-> ch.term, column |-> ch.column, level |-> l]
  <1>1. /\ Contiguous(design.terms) /\ ch.term \in DOMAIN design.terms
        /\ ch.column \in DOMAIN design.terms[ch.term].columns
        /\ l \in 0..design.terms[ch.term].nLevels - 1
        /\ design.nDofs = TotalDofs(design.terms)
    BY ObservationFacts DEF IsChannel, Levels
  <1> QED
    BY <1>1, IndexInBlock, IndexThenAddress DEF DofAt, Dofs

LEMMA DofsApart ==
  ASSUME DesignIs, NEW ch, IsChannel(ch), NEW l \in Levels(ch),
         NEW di, IsChannel(di), NEW m \in Levels(di), DofAt(ch, l) = DofAt(di, m)
  PROVE  ch.term = di.term /\ ch.column = di.column /\ l = m
  <1>1. [term |-> ch.term, column |-> ch.column, level |-> l]
          = [term |-> di.term, column |-> di.column, level |-> m]
    BY DofFacts
  <1> QED
    BY <1>1

LEMMA DofOfChannel ==
  ASSUME DesignIs, NEW d \in Dofs
  PROVE  LET a == Address(design.terms, d)
         IN IsChannel(a) /\ a.level \in Levels(a) /\ DofAt(a, a.level) = d
  <1>1. Contiguous(design.terms) /\ d \in 0..TotalDofs(design.terms) - 1
    BY ObservationFacts DEF Dofs
  <1> QED
    BY <1>1, AddressThenIndex DEF IsChannel, Levels, DofAt

LEMMA ProductsInt ==
  ASSUME DesignIs, NEW ch, IsChannel(ch), NEW l, NEW di, IsChannel(di), NEW m
  PROVE  /\ \A i \in Observations : Entry(ch, l, i) \in Int /\ Entry(di, m, i) \in Int
         /\ \A i \in Observations : Products(ch, l, di, m)[i] \in Int
  <1> SUFFICES ASSUME NEW i \in Observations
               PROVE  /\ Entry(ch, l, i) \in Int /\ Entry(di, m, i) \in Int
                      /\ Products(ch, l, di, m)[i] \in Int
    OBVIOUS
  <1>1. Load(ch, i) \in Int /\ Load(di, i) \in Int /\ Weight(i) \in Int
    BY ChannelFacts, ObservationFacts
  <1>2. Entry(ch, l, i) \in Int /\ Entry(di, m, i) \in Int
    BY <1>1 DEF Entry
  <1>3. \A a, b, c \in Int : a * b * c \in Int
    OBVIOUS
  <1> QED
    BY <1>1, <1>2, <1>3 DEF Products

LEMMA GramIs ==
  ASSUME DesignIs, NEW ch, IsChannel(ch), NEW l \in Levels(ch),
         NEW di, IsChannel(di), NEW m \in Levels(di)
  PROVE  /\ Gram(DofAt(ch, l), DofAt(di, m)) = SumFunctionOnSet(Products(ch, l, di, m), Observations)
         /\ Gram(DofAt(ch, l), DofAt(di, m)) \in Int
  <1> DEFINE a == [term |-> ch.term, column |-> ch.column, level |-> l]
             b == [term |-> di.term, column |-> di.column, level |-> m]
             g == [i \in CallerRows |-> CallerWeight(i) * CallerEntry(a, i) * CallerEntry(b, i)]
             f == Products(ch, l, di, m)
             h == [i \in Observations |-> OriginalOf(design, i)]
  <1>1. Gram(DofAt(ch, l), DofAt(di, m)) = SumFunctionOnSet(g, Observations)
    <2>1. Gram(DofAt(ch, l), DofAt(di, m)) = SumFunction(g)
      BY DofFacts DEF Gram, GramAt
    <2>2. DOMAIN g = Observations
      BY ChannelFacts
    <2> QED
      BY <2>1, <2>2 DEF SumFunction
  <1>2. \A i \in Observations : f[i] \in Int
    BY ProductsInt
  <1>3. \A i \in Observations : g[h[i]] = f[i]
    <2> SUFFICES ASSUME NEW i \in Observations PROVE g[h[i]] = f[i]
      OBVIOUS
    <2>1. h[i] \in CallerRows /\ h[i] = OriginalOf(design, i)
      BY ObservationFacts, ChannelFacts
    <2>2. /\ Weight(i) = CallerWeight(h[i]) /\ Entry(ch, l, i) = CallerEntry(a, h[i])
          /\ Entry(di, m, i) = CallerEntry(b, h[i])
      BY <2>1, ObservationFacts, ChannelFacts
    <2> QED
      BY <2>1, <2>2 DEF Products
  <1>4. /\ IsFiniteSet(Observations)
        /\ \A i \in Observations : h[i] \in Observations
        /\ \A i, j \in Observations : h[i] = h[j] => i = j
        /\ \A i \in Observations : \E k \in Observations : h[k] = i
    BY ObservationFacts
  <1> HIDE DEF f, g, h
  <1>5. SumFunctionOnSet(g, Observations) = SumFunctionOnSet(f, Observations)
    BY <1>2, <1>3, <1>4, SumRename
  <1>6. SumFunctionOnSet(f, Observations) \in Int
    BY <1>2, <1>4, SumType
  <1> QED
    BY <1>1, <1>5, <1>6 DEF f

-----------------------------------------------------------------------------
(* The diagonal preconditioner. *)

LEMMA SquaredIs ==
  ASSUME DesignIs, NEW d \in Dofs, NEW ch, IsChannel(ch)
  PROVE  LET a   == Address(design.terms, d)
             sum == SumFunction([i \in 1..design.nObs |-> Squared(ch, d, i)])
         IN /\ ch.term = a.term /\ ch.column = a.column => sum = Gram(d, d)
            /\ ch.term # a.term \/ ch.column # a.column => sum = 0
  <1> DEFINE a == Address(design.terms, d)
             f == [i \in 1..design.nObs |-> Squared(ch, d, i)]
             g == Products(a, a.level, a, a.level)
  <1>1. /\ IsChannel(a) /\ a.level \in Levels(a) /\ DofAt(a, a.level) = d
        /\ IsFiniteSet(Observations) /\ Observations = 1..design.nObs
    BY DofOfChannel, ObservationFacts DEF Observations
  <1>2. SumFunction(f) = SumFunctionOnSet(f, Observations)
    BY <1>1 DEF SumFunction
  <1>3. ASSUME NEW i \in Observations
        PROVE  /\ LevelsOf(ch)[i] \in Levels(ch)
               /\ f[i] = IF DofAt(ch, LevelsOf(ch)[i]) = d
                         THEN Weight(i) * Load(ch, i) * Load(ch, i) ELSE 0
    BY <1>1, ChannelFacts DEF Squared, DofAt
  <1> HIDE DEF f
  <1>4. ASSUME ch.term # a.term \/ ch.column # a.column PROVE SumFunctionOnSet(f, Observations) = 0
    <2>1. ASSUME NEW i \in Observations PROVE f[i] = 0
      <3>1. DofAt(ch, LevelsOf(ch)[i]) # d
        <4> SUFFICES ASSUME DofAt(ch, LevelsOf(ch)[i]) = d PROVE FALSE
          OBVIOUS
        <4>1. DofAt(ch, LevelsOf(ch)[i]) = DofAt(a, a.level)
          BY <1>1
        <4> HIDE DEF a
        <4>2. ch.term = a.term /\ ch.column = a.column
          BY ONLY DesignIs, IsChannel(ch), <1>1, <1>3, <4>1, DofsApart
        <4> QED
          BY <1>4, <4>2
      <3> QED
        BY <1>3, <3>1
    <2> QED
      BY <1>1, <2>1, SumZero
  <1>5. ASSUME ch.term = a.term, ch.column = a.column
        PROVE  SumFunctionOnSet(f, Observations) = Gram(d, d)
    <2>1. ASSUME NEW i \in Observations PROVE g[i] = f[i]
      <3>1. DofAt(ch, LevelsOf(ch)[i]) = d <=> LevelsOf(a)[i] = a.level
        <4>1. LevelsOf(ch) = LevelsOf(a) /\ DofAt(ch, a.level) = d
          BY <1>1, <1>5 DEF LevelsOf, DofAt
        <4>2. DofAt(ch, LevelsOf(ch)[i]) = DofAt(a, a.level) => LevelsOf(ch)[i] = a.level
          <5> HIDE DEF a
          <5> QED
            BY ONLY DesignIs, IsChannel(ch), <1>1, <1>3, DofsApart
        <4> QED
          BY <1>1, <4>1, <4>2
      <3>2. Load(ch, i) = Load(a, i) /\ Load(a, i) \in Int /\ Weight(i) \in Int
        <4>1. Load(ch, i) = Load(a, i)
          BY <1>5 DEF Load, ColumnOf
        <4> QED
          BY <1>1, <4>1, ChannelFacts, ObservationFacts
      <3>3. g[i] = Weight(i) * Entry(a, a.level, i) * Entry(a, a.level, i)
        BY DEF Products
      <3>4. \A w \in Int : w * 0 * 0 = 0
        OBVIOUS
      <3> QED
        BY <1>3, <3>1, <3>2, <3>3, <3>4 DEF Entry
    <2>2. \A i \in Observations : g[i] \in Int
      BY <1>1, ProductsInt
    <2>3. Gram(d, d) = SumFunctionOnSet(g, Observations)
      BY <1>1, GramIs
    <2> HIDE DEF g
    <2>4. SumFunctionOnSet(g, Observations) = SumFunctionOnSet(f, Observations)
      BY <1>1, <2>1, <2>2, SumSame
    <2> QED
      BY <2>3, <2>4
  <1> QED
    BY <1>2, <1>4, <1>5 DEF f

LEMMA DiagonalAtIs ==
  ASSUME DesignIs, NEW d \in Dofs
  PROVE  DiagonalAt(d) = Gram(d, d)
  <1> DEFINE a == Address(design.terms, d)
             S(q, c) == SumFunction([i \in 1..design.nObs |-> Squared([term |-> q, column |-> c], d, i)])
             T(q) == [c \in DOMAIN design.terms[q].columns |-> S(q, c)]
             U == [q \in DOMAIN design.terms |-> SumFunction(T(q))]
  <1>1. /\ a.term \in DOMAIN design.terms /\ a.column \in DOMAIN design.terms[a.term].columns
        /\ a.level \in Levels(a) /\ DofAt(a, a.level) = d /\ IsChannel(a)
    BY DofOfChannel DEF IsChannel
  <1>2. Gram(d, d) \in Int
    BY <1>1, GramIs
  <1>3. ASSUME NEW q \in DOMAIN design.terms, NEW c \in DOMAIN design.terms[q].columns
        PROVE  /\ q = a.term /\ c = a.column => S(q, c) = Gram(d, d)
               /\ q # a.term \/ c # a.column => S(q, c) = 0
    <2>1. IsChannel([term |-> q, column |-> c])
      BY DEF IsChannel
    <2> QED
      BY <2>1, SquaredIs
  <1>4. IsFiniteSet(DOMAIN design.terms)
        /\ \A q \in DOMAIN design.terms : IsFiniteSet(DOMAIN design.terms[q].columns)
    <2>1. Contiguous(design.terms)
      BY ObservationFacts
    <2>2. /\ Len(design.terms) \in Nat /\ DOMAIN design.terms = 1..Len(design.terms)
          /\ \A q \in DOMAIN design.terms :
               /\ Len(design.terms[q].columns) \in Nat
               /\ DOMAIN design.terms[q].columns = 1..Len(design.terms[q].columns)
      BY <2>1 DEF Contiguous
    <2>3. \A n \in Nat : IsFiniteSet(1..n)
      BY FS_Interval
    <2> QED
      BY <2>2, <2>3
  <1> HIDE DEF S, a
  <1>5. ASSUME NEW q \in DOMAIN design.terms
        PROVE  U[q] = IF q = a.term THEN Gram(d, d) ELSE 0
    <2>1. U[q] = SumFunctionOnSet(T(q), DOMAIN design.terms[q].columns)
      BY DEF SumFunction
    <2>2. CASE q = a.term
      <3> DEFINE C == DOMAIN design.terms[q].columns
                 f == T(q)
      <3>1. /\ a.column \in C /\ f[a.column] = Gram(d, d) /\ f[a.column] \in Int
            /\ \A c \in C : c # a.column => f[c] = 0
        BY <1>1, <1>2, <1>3, <2>2
      <3>2. IsFiniteSet(C)
        BY <1>4
      <3> HIDE DEF C, f
      <3>3. SumFunctionOnSet(f, C) = Gram(d, d)
        BY <3>1, <3>2, SumOnly
      <3> QED
        BY <2>1, <2>2, <3>3 DEF f, C
    <2>3. CASE q # a.term
      <3> DEFINE C == DOMAIN design.terms[q].columns
                 f == T(q)
      <3>1. IsFiniteSet(C) /\ \A c \in C : f[c] = 0
        BY <1>3, <1>4, <2>3
      <3> HIDE DEF C, f
      <3>2. SumFunctionOnSet(f, C) = 0
        BY <3>1, SumZero
      <3> QED
        BY <2>1, <2>3, <3>2 DEF f, C
    <2> QED
      BY <2>2, <2>3
  <1>6. DiagonalAt(d) = SumFunctionOnSet(U, DOMAIN design.terms)
    BY DEF DiagonalAt, SumFunction, S
  <1> HIDE DEF U
  <1>7. SumFunctionOnSet(U, DOMAIN design.terms) = U[a.term]
    BY <1>1, <1>2, <1>4, <1>5, SumOnly
  <1> QED
    BY <1>1, <1>5, <1>6, <1>7

(* The design stays, and the diagonal is built from it. *)
DiagonalInv ==
  /\ DesignIs
  /\ pc \in {"start", "pairs", "weights", "done"}
  /\ pc \in {"pairs", "weights"} => input.config = "Additive"
  /\ pc = "done" /\ input.config = "Diagonal" =>
       result = [diagonal |-> [d \in Dofs |-> DiagonalAt(d)]]

LEMMA DiagonalStart == Init => DiagonalInv
  <1> SUFFICES ASSUME Init PROVE DiagonalInv
    OBVIOUS
  <1>1. input \in Inputs /\ pc = "start" /\ design = Build(input.frame, input.structure, input.localitySort)
    BY DEF Init
  <1>2. /\ FrameValid(input.frame) /\ StructureValid(input.frame, input.structure) /\ MaxDofs \in Nat
        /\ ~IsRejected(Build(input.frame, input.structure, input.localitySort))
    BY <1>1, FactorPairsAssumption
  <1>3. Builds(design, input.frame, input.structure)
    BY <1>1, <1>2, BuildSound
  <1> QED
    BY <1>1, <1>3 DEF DiagonalInv, DesignIs

LEMMA DiagonalStep == DiagonalInv /\ [Next]_vars => DiagonalInv'
  <1> SUFFICES ASSUME DiagonalInv, [Next]_vars PROVE DiagonalInv'
    OBVIOUS
  <1> USE DEF DiagonalInv
  <1>1. UNCHANGED <<input, design>>
    BY DEF Next, Start, CollectError, Collect, Weighted, BuildPair, Count, SetWeights, vars
  <1>2. DesignIs' /\ Dofs' = Dofs /\ \A d : DiagonalAt(d)' = DiagonalAt(d)
    <2>1. DesignIs' /\ Dofs' = Dofs
      BY <1>1 DEF DesignIs, Dofs
    <2>2. \A d : DiagonalAt(d)' = DiagonalAt(d)
      BY ONLY <1>1 DEF DiagonalAt, Squared, LevelsOf, Weight, Load, ColumnOf
    <2> QED
      BY <2>1, <2>2
  <1>3. CASE Start
    <2>1. input.config \in {"Off", "Diagonal", "Additive"}
      BY FactorPairsAssumption DEF DesignIs
    <2>2. CASE input.config = "Diagonal"
      <3>1. result' = [diagonal |-> [d \in 0..design.nDofs - 1 |-> DiagonalAt(d)]] /\ pc' = "done"
        BY <1>3, <2>2 DEF Start
      <3> QED
        BY <1>1, <1>2, <3>1 DEF Dofs
    <2>3. CASE input.config # "Diagonal"
      <3>1. pc' \in {"done", "pairs"} /\ (pc' = "pairs" => input.config = "Additive")
        BY <1>3, <2>1, <2>3 DEF Start
      <3> QED
        BY <1>1, <1>2, <2>3, <3>1
    <2> QED
      BY <2>2, <2>3
  <1>4. CASE CollectError \/ Collect \/ Weighted
    <2>1. input.config = "Additive" /\ pc' \in {"done", "weights"}
      BY <1>4 DEF CollectError, Collect, Weighted
    <2> QED
      BY <1>1, <1>2, <2>1
  <1>5. CASE (\E k \in DOMAIN built : BuildPair(k)) \/ (\E k \in DOMAIN domains : Count(k) \/ SetWeights(k))
    <2>1. UNCHANGED <<pc, result>>
      BY <1>5 DEF BuildPair, Count, SetWeights
    <2> QED
      BY <1>1, <1>2, <2>1
  <1>6. CASE UNCHANGED vars
    <2>1. UNCHANGED <<pc, result>>
      BY <1>6 DEF vars
    <2> QED
      BY <1>1, <1>2, <2>1
  <1> QED
    BY <1>3, <1>4, <1>5, <1>6 DEF Next

LEMMA DiagonalAlways == Spec => []DiagonalInv
  BY DiagonalStart, DiagonalStep, PTL DEF Spec

(* The diagonal preconditioner has the diagonal of the caller's Gram       *)
(* matrix, whatever order the design keeps the observations in.            *)
THEOREM DiagonalCorrect == Spec => []DiagonalIsGram
  <1>1. DiagonalInv => DiagonalIsGram
    BY DiagonalAtIs DEF DiagonalInv, DiagonalIsGram
  <1> QED
    BY <1>1, DiagonalAlways, PTL

-----------------------------------------------------------------------------
(* Rows of a block. *)

(* The row has the columns of S whose value is not 0, in order. *)
RowIs(row, S, val) ==
  /\ Len(row) \in Nat /\ DOMAIN row = 1..Len(row)
  /\ \A e \in 1..Len(row) : /\ row[e] = [at |-> row[e].at, value |-> row[e].value]
                            /\ row[e].at \in S
                            /\ row[e].value = val[row[e].at] /\ val[row[e].at] # 0
  /\ \A e, f \in 1..Len(row) : e < f => row[e].at < row[f].at
  /\ \A k \in S : val[k] # 0 => \E e \in 1..Len(row) : row[e].at = k

Observed(obs, n, nCols) ==
  DOMAIN obs = 1..n /\ \A i \in 1..n : obs[i].col \in 1..nCols /\ obs[i].cell \in Int

Cells(obs, nCols, j) == [k \in 1..nCols |-> Cell(obs, j, k)]

LEMMA CellIs ==
  ASSUME NEW n \in Nat, NEW nCols \in Nat, NEW obs, Observed(obs, n, nCols), NEW j, NEW k
  PROVE  LET cells == [i \in 1..n |-> obs[i].cell]
             at    == {i \in 1..n : obs[i].row = j /\ obs[i].col = k}
         IN Cell(obs, j, k) = SumFunctionOnSet(cells, at) /\ Cell(obs, j, k) \in Int
  <1> DEFINE cells == [i \in 1..n |-> obs[i].cell]
             at == {i \in 1..n : obs[i].row = j /\ obs[i].col = k}
             f == [i \in at |-> obs[i].cell]
  <1>1. IsFiniteSet(at) /\ at \in SUBSET (1..n)
    <2>1. IsFiniteSet(1..n)
      BY FS_Interval
    <2> QED
      BY <2>1, FS_Subset
  <1>2. \A i \in at : f[i] \in Int /\ f[i] = cells[i]
    BY DEF Observed
  <1>3. Cell(obs, j, k) = SumFunctionOnSet(f, at)
    BY DEF Cell, SumFunction, Observed
  <1> HIDE DEF at, f, cells
  <1>4. SumFunctionOnSet(f, at) = SumFunctionOnSet(cells, at) /\ SumFunctionOnSet(f, at) \in Int
    BY <1>1, <1>2, SumSame, SumType
  <1> QED
    BY <1>3, <1>4 DEF at, cells

LEMMA DenseRowIs ==
  ASSUME NEW n \in Nat, NEW nCols \in Nat, NEW obs, Observed(obs, n, nCols), NEW j
  PROVE  RowIs(DenseRow(obs, nCols, j), 1..nCols, Cells(obs, nCols, j))
  <1> DEFINE S == {k \in 1..nCols : Cell(obs, j, k) # 0}
             a == Ascending(S)
             row == DenseRow(obs, nCols, j)
             val == Cells(obs, nCols, j)
  <1>1. S \in SUBSET Int /\ IsFiniteSet(S)
    <2>1. IsFiniteSet(1..nCols)
      BY FS_Interval
    <2> QED
      BY <2>1, FS_Subset
  <1>2. /\ Len(a) \in Nat /\ DOMAIN a = 1..Len(a) /\ \A e \in 1..Len(a) : a[e] \in S
        /\ \A e, f \in 1..Len(a) : e < f => a[e] < a[f]
        /\ \A k \in S : \E e \in 1..Len(a) : a[e] = k
    <2> HIDE DEF S
    <2> QED
      BY <1>1, AscendingIs
  <1>3. row = [e \in 1..Len(a) |-> [at |-> a[e], value |-> Cell(obs, j, a[e])]]
    BY <1>2 DEF DenseRow
  <1> HIDE DEF a, row
  <1>4. Len(row) = Len(a) /\ DOMAIN row = 1..Len(a)
    BY <1>2, <1>3
  <1>5. \A e \in 1..Len(a) : row[e].at = a[e] /\ row[e].value = Cell(obs, j, a[e])
    BY <1>3
  <1>6. \A k \in 1..nCols : val[k] = Cell(obs, j, k)
    BY DEF Cells
  <1> HIDE DEF val
  <1>7. \A e \in 1..Len(a) : /\ row[e] = [at |-> row[e].at, value |-> row[e].value]
                             /\ row[e].at \in 1..nCols
                             /\ row[e].value = val[row[e].at] /\ val[row[e].at] # 0
    <2>1. \A e \in 1..Len(a) : row[e] = [at |-> row[e].at, value |-> row[e].value]
      BY <1>3
    <2> QED
      BY <1>2, <1>5, <1>6, <2>1
  <1>8. \A k \in 1..nCols : val[k] # 0 => \E e \in 1..Len(a) : row[e].at = k
    <2>1. \A k \in 1..nCols : val[k] # 0 => k \in S
      BY <1>6
    <2> HIDE DEF S
    <2> QED
      BY <1>2, <1>5, <2>1
  <1>9. \A e, f \in 1..Len(a) : e < f => row[e].at < row[f].at
    BY <1>2, <1>5
  <1>10. RowIs(row, 1..nCols, val)
    BY <1>2, <1>4, <1>7, <1>8, <1>9 DEF RowIs
  <1> QED
    BY <1>10 DEF row, val

-----------------------------------------------------------------------------
Runs(run, n, base, Step) ==
  run = [k \in 0..n |-> IF k = 0 THEN base ELSE Step[<<run[k - 1], k>>]]

(* A recursive function over the numbers up to n exists.                   *)
LEMMA RunExists ==
  ASSUME NEW n \in Nat, NEW V, NEW base \in V, NEW Step \in [V \X (1..n) -> V]
  PROVE  \E run : Runs(run, n, base, Step)
  <1>1. PICK it \in [SUBSET (1..n) -> V] : Folding(it, n, base, Step)
    BY FoldUp
  <1> DEFINE run == [k \in 0..n |-> it[1..k]]
  <1>2. run[0] = base
    <2>1. 1..0 = {} /\ {} \in SUBSET (1..n) /\ 0 \in 0..n
      OBVIOUS
    <2> QED
      BY <1>1, <2>1 DEF Folding
  <1>3. ASSUME NEW k \in 1..n PROVE run[k] = Step[<<run[k - 1], k>>]
    <2>1. /\ k \in Nat \ {0} /\ 1..k \in SUBSET (1..n) /\ 1..k # {} /\ k \in 0..n /\ k - 1 \in 0..n
      BY k \in 1..n
    <2>2. Max(1..k) = k /\ (1..k) \ {k} = 1..k - 1
      BY <2>1, MaxUpTo
    <2>3. it[1..k] = Step[<<it[(1..k) \ {Max(1..k)}], Max(1..k)>>]
      BY <1>1, <2>1 DEF Folding
    <2> QED
      BY <2>1, <2>2, <2>3
  <1>4. run = [k \in 0..n |-> run[k]]
    OBVIOUS
  <1> HIDE DEF run
  <1>5. \A k \in 0..n : k = 0 \/ k \in 1..n
    OBVIOUS
  <1>6. ASSUME NEW k \in 0..n
        PROVE  run[k] = IF k = 0 THEN base ELSE Step[<<run[k - 1], k>>]
    BY <1>2, <1>3, <1>5
  <1>7. run = [k \in 0..n |-> IF k = 0 THEN base ELSE Step[<<run[k - 1], k>>]]
    BY <1>4, <1>6
  <1> QED
    BY <1>7 DEF Runs

LEMMA CountedUp ==
  ASSUME NEW n \in Nat, NEW T, 0 \in T, \A k \in 1..n : k - 1 \in T => k \in T
  PROVE  \A k \in 0..n : k \in T
  <1> DEFINE U == {k \in Nat : k <= n => k \in T}
  <1>1. 0 \in U
    OBVIOUS
  <1>2. ASSUME NEW k \in U PROVE k + 1 \in U
    <2>1. CASE k + 1 <= n
      <3>1. k + 1 \in 1..n /\ (k + 1) - 1 = k /\ k \in T
        BY <2>1
      <3> QED
        BY <3>1
    <2> QED
      BY <2>1
  <1>3. U = Nat
    <2> HIDE DEF U
    <2>1. U \in SUBSET Nat
      BY DEF U
    <2> QED
      BY <1>1, <1>2, <2>1, SetOfNaturals
  <1> QED
    BY <1>3

-----------------------------------------------------------------------------
(* The sparse accumulation of a row. *)

SparseStates(nCols) ==
  [work : [1..nCols -> Int], touched : Seq(1..nCols), row : Seq([at : 1..nCols, value : Int])]

(* A row whose workspace starts out zeroed. *)
FreshTouched(obs, nCols, j) == FoldLeft(LAMBDA t, o : TouchIn(j, t, o), Workspace(nCols), obs)
FreshRow(obs, nCols, j) == Emitted(FreshTouched(obs, nCols, j))

TouchSteps(it, obs, nCols, j) ==
  it = [s \in SUBSET DOMAIN obs |->
          IF s = {} THEN Workspace(nCols) ELSE TouchIn(j, it[s \ {Max(s)}], obs[Max(s)])]

LEMMA MaxOfSome ==
  ASSUME NEW n \in Nat, NEW s \in SUBSET (1..n), s # {}
  PROVE  Max(s) \in s /\ Max(s) \in 1..n /\ s \ {Max(s)} \in SUBSET (1..n)
  <1>1. IsFiniteSet(1..n)
    BY FS_Interval
  <1>2. IsFiniteSet(s)
    BY <1>1, FS_Subset
  <1>3. s \in SUBSET Nat
    OBVIOUS
  <1>4. Max(s) \in s
    BY <1>2, <1>3, MaxIn
  <1> QED
    BY <1>4

LEMMA TouchExists ==
  ASSUME NEW n \in Nat, NEW nCols \in Nat, NEW obs, Observed(obs, n, nCols), NEW j
  PROVE  \E it : TouchSteps(it, obs, nCols, j) /\ FreshTouched(obs, nCols, j) = it[1..n]
  <1> DEFINE V == SparseStates(nCols)
             base == Workspace(nCols)
             Step == [p \in V \X (1..n) |-> TouchIn(j, p[1], obs[p[2]])]
  <1>1. base \in V
    BY DEF Workspace, SparseStates
  <1>2. ASSUME NEW t \in V, NEW i \in 1..n PROVE TouchIn(j, t, obs[i]) \in V
    <2>1. t.work \in [1..nCols -> Int] /\ t.touched \in Seq(1..nCols) /\ obs[i].col \in 1..nCols
          /\ obs[i].cell \in Int
      BY DEF SparseStates, Observed
    <2>2. t.work[obs[i].col] + obs[i].cell \in Int
      <3>1. \A f \in [1..nCols -> Int], k \in 1..nCols, v \in Int : f[k] + v \in Int
        OBVIOUS
      <3> HIDE DEF V
      <3> QED
        BY <2>1, <3>1
    <2>3. [t.work EXCEPT ![obs[i].col] = t.work[obs[i].col] + obs[i].cell] \in [1..nCols -> Int]
      BY <2>1, <2>2, ExceptIn
    <2>4. Append(t.touched, obs[i].col) \in Seq(1..nCols)
      BY <2>1
    <2> QED
      BY <2>1, <2>3, <2>4 DEF TouchIn, Touch, SparseStates
  <1>3. Step \in [V \X (1..n) -> V]
    BY <1>2
  <1>4. PICK g \in [SUBSET (1..n) -> V] : Folding(g, n, base, Step)
    <2> HIDE DEF Step, V, base
    <2> QED
      BY <1>1, <1>3, FoldUp
  <1>5. TouchSteps(g, obs, nCols, j)
    <2>1. ASSUME NEW s \in SUBSET (1..n)
          PROVE  g[s] = IF s = {} THEN base ELSE TouchIn(j, g[s \ {Max(s)}], obs[Max(s)])
      <3>1. CASE s = {}
        BY <1>4, <3>1 DEF Folding
      <3>2. CASE s # {}
        <4>1. Max(s) \in 1..n /\ g[s \ {Max(s)}] \in V
          BY <3>2, MaxOfSome
        <4>2. g[s] = Step[<<g[s \ {Max(s)}], Max(s)>>]
          <5> HIDE DEF Step, base
          <5> QED
            BY <1>4, <3>2 DEF Folding
        <4>3. Step[<<g[s \ {Max(s)}], Max(s)>>] = TouchIn(j, g[s \ {Max(s)}], obs[Max(s)])
          <5> HIDE DEF V
          <5> QED
            BY <4>1
        <4> QED
          BY <3>2, <4>2, <4>3
      <3> QED
        BY <3>1, <3>2
    <2>2. DOMAIN obs = 1..n
      BY DEF Observed
    <2> HIDE DEF V
    <2> QED
      BY <2>1, <2>2 DEF TouchSteps
  <1> DEFINE it == CHOOSE h : TouchSteps(h, obs, nCols, j)
  <1>6. TouchSteps(it, obs, nCols, j)
    BY <1>5
  <1>7. FreshTouched(obs, nCols, j) = it[1..n]
    BY DEF FreshTouched, FoldLeft, MapThenFoldSet, TouchSteps, Observed
  <1> HIDE DEF it
  <1> QED
    BY <1>6, <1>7

(* After the first m observations. *)
TouchInv(obs, nCols, j, m, s) ==
  /\ s \in SparseStates(nCols) /\ s.row = <<>>
  /\ \A k \in 1..nCols :
       /\ s.work[k] = SumFunctionOnSet([i \in DOMAIN obs |-> obs[i].cell],
                                       {i \in 1..m : obs[i].row = j /\ obs[i].col = k})
       /\ s.work[k] # 0 => \E e \in 1..Len(s.touched) : s.touched[e] = k

LEMMA TouchStep ==
  ASSUME NEW n \in Nat, NEW nCols \in Nat, NEW obs, Observed(obs, n, nCols), NEW j,
         NEW m \in 1..n, NEW s, TouchInv(obs, nCols, j, m - 1, s)
  PROVE  TouchInv(obs, nCols, j, m, TouchIn(j, s, obs[m]))
  <1> DEFINE cells == [i \in DOMAIN obs |-> obs[i].cell]
             Rows(k, q) == {i \in 1..q : obs[i].row = j /\ obs[i].col = k}
             o == obs[m]
             t == TouchIn(j, s, o)
  <1>1. /\ DOMAIN obs = 1..n /\ o.col \in 1..nCols /\ o.cell \in Int
        /\ \A i \in 1..n : cells[i] \in Int /\ cells[i] = obs[i].cell
    BY DEF Observed
  <1>2. /\ s \in SparseStates(nCols)
        /\ s.work \in [1..nCols -> Int] /\ s.touched \in Seq(1..nCols) /\ s.row = <<>>
        /\ \A k \in 1..nCols :
             /\ s.work[k] = SumFunctionOnSet(cells, Rows(k, m - 1))
             /\ s.work[k] # 0 => \E e \in 1..Len(s.touched) : s.touched[e] = k
    BY DEF TouchInv, SparseStates
  <1>3. ASSUME NEW k \in 1..nCols, o.row # j \/ o.col # k PROVE Rows(k, m) = Rows(k, m - 1)
    BY <1>3
  <1>4. CASE o.row # j
    <2>1. t = s
      BY <1>4 DEF TouchIn
    <2> QED
      BY <1>2, <1>3, <1>4, <2>1 DEF TouchInv
  <1>5. CASE o.row = j
    <2>1. t = [s EXCEPT !.touched = IF s.work[o.col] = 0 THEN Append(@, o.col) ELSE @,
                        !.work[o.col] = @ + o.cell]
      BY <1>5 DEF TouchIn, Touch
    <2>2. s.work[o.col] + o.cell \in Int
      <3>1. s.work[o.col] \in Int /\ o.cell \in Int
        BY <1>1, <1>2
      <3> QED
        BY ONLY <3>1
    <2> DEFINE w == [s.work EXCEPT ![o.col] = s.work[o.col] + o.cell]
               touched == IF s.work[o.col] = 0 THEN Append(s.touched, o.col) ELSE s.touched
    <2>3. w \in [1..nCols -> Int]
      BY <1>1, <1>2, <2>2, ExceptIn
    <2>4. touched \in Seq(1..nCols)
      <3>1. \A q \in Seq(1..nCols), k \in 1..nCols : Append(q, k) \in Seq(1..nCols)
        OBVIOUS
      <3> HIDE DEF o
      <3> QED
        BY <1>1, <1>2, <3>1
    <2>5. /\ t.work = w /\ t.touched = touched /\ t.row = <<>>
          /\ t = [work |-> w, touched |-> touched, row |-> s.row]
      BY <1>2, <2>1 DEF SparseStates
    <2>6. ASSUME NEW k \in 1..nCols PROVE w[k] = SumFunctionOnSet(cells, Rows(k, m))
      <3>1. CASE k # o.col
        BY <1>2, <1>3, <3>1
      <3>2. CASE k = o.col
        <4>1. /\ IsFiniteSet(Rows(k, m)) /\ m \in Rows(k, m) /\ Rows(k, m) \ {m} = Rows(k, m - 1)
              /\ \A i \in Rows(k, m) : i \in 1..n
          <5>1. IsFiniteSet(1..m)
            BY FS_Interval
          <5>2. IsFiniteSet(Rows(k, m))
            BY <5>1, FS_Subset
          <5> QED
            BY <1>5, <3>2, <5>2
        <4>2. \A i \in Rows(k, m) : cells[i] \in Int
          BY <1>1, <4>1
        <4>3. cells[m] = o.cell
          BY <1>1
        <4> HIDE DEF cells, Rows
        <4>4. SumFunctionOnSet(cells, Rows(k, m)) = cells[m] + SumFunctionOnSet(cells, Rows(k, m - 1))
          BY <4>1, <4>2, SumRemove
        <4>5. w[k] = SumFunctionOnSet(cells, Rows(k, m - 1)) + o.cell /\ s.work[k] \in Int
          BY <1>2, <3>2
        <4> HIDE DEF w, o
        <4> QED
          BY <1>1, <1>2, <4>3, <4>4, <4>5
      <3> QED
        BY <3>1, <3>2
    <2>7. ASSUME NEW k \in 1..nCols, w[k] # 0 PROVE \E e \in 1..Len(touched) : touched[e] = k
      <3>1. CASE s.work[o.col] = 0
        <4>1. /\ Len(touched) = Len(s.touched) + 1 /\ touched[Len(s.touched) + 1] = o.col
              /\ \A e \in 1..Len(s.touched) : touched[e] = s.touched[e]
              /\ Len(s.touched) \in Nat
          BY <1>1, <1>2, <3>1
        <4>2. CASE k = o.col
          BY <4>1, <4>2
        <4>3. CASE k # o.col
          <5>1. PICK e \in 1..Len(s.touched) : s.touched[e] = k
            BY <1>2, <2>7, <4>3
          <5>2. e \in 1..Len(touched) /\ touched[e] = k
            BY <4>1, <5>1
          <5> QED
            BY <5>2
        <4> QED
          BY <4>2, <4>3
      <3>2. CASE s.work[o.col] # 0
        <4>1. touched = s.touched /\ s.work[k] # 0
          BY <1>1, <1>2, <2>7, <3>2
        <4> QED
          BY <1>2, <4>1
      <3> QED
        BY <3>1, <3>2
    <2> HIDE DEF w, touched, t
    <2>9. s.row \in Seq([at : 1..nCols, value : Int])
      BY <1>2 DEF SparseStates
    <2>10. t \in SparseStates(nCols)
      BY <2>3, <2>4, <2>5, <2>9 DEF SparseStates
    <2>8. TouchInv(obs, nCols, j, m, t)
      BY <2>5, <2>6, <2>7, <2>10 DEF TouchInv
    <2> QED
      BY <2>8 DEF t
  <1> QED
    BY <1>4, <1>5

LEMMA FreshTouchedIs ==
  ASSUME NEW n \in Nat, NEW nCols \in Nat, NEW obs, Observed(obs, n, nCols), NEW j
  PROVE  TouchInv(obs, nCols, j, n, FreshTouched(obs, nCols, j))
  <1>1. PICK it : TouchSteps(it, obs, nCols, j) /\ FreshTouched(obs, nCols, j) = it[1..n]
    BY TouchExists
  <1>2. DOMAIN obs = 1..n
    BY DEF Observed
  <1> DEFINE T == {m \in 0..n : TouchInv(obs, nCols, j, m, it[1..m])}
  <1>3. 0 \in T
    <2>1. 1..0 = {} /\ {} \in SUBSET (1..n)
      OBVIOUS
    <2>2. it[1..0] = Workspace(nCols)
      BY <1>1, <1>2, <2>1 DEF TouchSteps
    <2>3. \A k : {i \in 1..0 : obs[i].row = j /\ obs[i].col = k} = {}
      OBVIOUS
    <2>4. TouchInv(obs, nCols, j, 0, Workspace(nCols))
      BY <2>3, SumEmpty DEF TouchInv, Workspace, SparseStates
    <2> QED
      BY <2>2, <2>4
  <1>4. ASSUME NEW m \in 1..n, m - 1 \in T PROVE m \in T
    <2>1. TouchInv(obs, nCols, j, m - 1, it[1..m - 1])
      BY <1>4
    <2>2. m \in Nat \ {0} /\ 1..m \in SUBSET (1..n) /\ 1..m # {} /\ m \in 0..n
      OBVIOUS
    <2>3. Max(1..m) = m /\ (1..m) \ {m} = 1..m - 1
      BY <2>2, MaxUpTo
    <2>4. it[1..m] = TouchIn(j, it[1..m - 1], obs[m])
      BY <1>1, <1>2, <2>2, <2>3 DEF TouchSteps
    <2>5. TouchInv(obs, nCols, j, m, it[1..m])
      BY <2>1, <2>4, TouchStep
    <2> QED
      BY <2>2, <2>5
  <1> HIDE DEF T
  <1>5. n \in T
    BY <1>3, <1>4, IntervalInduction
  <1> QED
    BY <1>1, <1>5 DEF T

LEMMA SortedIs ==
  ASSUME NEW C \in Nat, NEW s \in Seq(1..C)
  PROVE  /\ Sorted(s) \in Seq(1..C) /\ Len(Sorted(s)) = Len(s) /\ Len(s) \in Nat
         /\ \A i, k \in 1..Len(s) : i < k => Sorted(s)[i] <= Sorted(s)[k]
         /\ \A i \in 1..Len(s) : \E k \in 1..Len(s) : Sorted(s)[k] = s[i]
  <1> DEFINE n == Len(s)
             perm == ComparisonSort(s)
  <1>1. n \in Nat /\ s \in [1..n -> Nat] /\ s \in [1..n -> 1..C]
    OBVIOUS
  <1>2. Sorts(perm, s)
    <2> HIDE DEF perm
    <2> QED
      BY <1>1, ComparisonSorts DEF perm
  <1>3. /\ perm \in [1..n -> 1..n]
        /\ \A i \in 1..n : \E k \in 1..n : perm[k] = i
    <2> HIDE DEF perm, n
    <2> QED
      BY <1>1, <1>2, SortsBijective
  <1>4. \A i, k \in 1..n : i < k => Before(s, perm[i], perm[k])
    <2> HIDE DEF perm, n
    <2> QED
      BY <1>1, <1>2 DEF Sorts
  <1> HIDE DEF perm, n
  <1> DEFINE t == Sorted(s)
  <1>5. t = [k \in 1..n |-> s[perm[k]]]
    BY <1>3 DEF Sorted, Gathered, perm
  <1> HIDE DEF t
  <1>6. t \in [1..n -> 1..C] /\ \A k \in 1..n : t[k] = s[perm[k]]
    BY <1>1, <1>3, <1>5
  <1>7. t \in Seq(1..C) /\ Len(t) = n
    BY <1>1, <1>6
  <1>8. \A i, k \in 1..n : i < k => t[i] <= t[k]
    <2> SUFFICES ASSUME NEW i \in 1..n, NEW k \in 1..n, i < k PROVE t[i] <= t[k]
      OBVIOUS
    <2>1. Before(s, perm[i], perm[k]) /\ s[perm[i]] \in Int /\ s[perm[k]] \in Int
      <3>1. perm[i] \in 1..n /\ perm[k] \in 1..n
        BY <1>3
      <3>2. \A j \in 1..n : s[j] \in Int
        BY <1>1
      <3> QED
        BY <1>4, <3>1, <3>2
    <2>2. s[perm[i]] <= s[perm[k]]
      BY <2>1 DEF Before
    <2> QED
      BY <1>6, <2>2
  <1>9. \A i \in 1..n : \E k \in 1..n : t[k] = s[i]
    BY <1>3, <1>6
  <1> QED
    BY <1>1, <1>7, <1>8, <1>9 DEF t, n

EmitSteps(it, s, t) ==
  it = [x \in SUBSET DOMAIN t |-> IF x = {} THEN s ELSE Emit(it[x \ {Max(x)}], t[Max(x)])]

LEMMA EmitExists ==
  ASSUME NEW nCols \in Nat, NEW s \in SparseStates(nCols)
  PROVE  \E it : /\ EmitSteps(it, s, Sorted(s.touched))
                 /\ Emitted(s) = it[1..Len(Sorted(s.touched))]
  <1> DEFINE V == SparseStates(nCols)
             t == Sorted(s.touched)
             n == Len(t)
             Step == [p \in V \X (1..n) |-> Emit(p[1], t[p[2]])]
  <1>1. n \in Nat /\ DOMAIN t = 1..n /\ \A i \in 1..n : t[i] \in 1..nCols
    <2>1. s.touched \in Seq(1..nCols)
      BY DEF SparseStates
    <2>2. t \in Seq(1..nCols)
      BY <2>1, SortedIs
    <2> HIDE DEF t
    <2> QED
      BY <2>2
  <1> HIDE DEF t, n
  <1>2. ASSUME NEW u \in V, NEW i \in 1..n PROVE Emit(u, t[i]) \in V
    <2>1. u.work \in [1..nCols -> Int] /\ u.touched \in Seq(1..nCols)
          /\ u.row \in Seq([at : 1..nCols, value : Int]) /\ t[i] \in 1..nCols
      BY <1>1 DEF SparseStates
    <2>2. [u.work EXCEPT ![t[i]] = 0] \in [1..nCols -> Int]
      BY <2>1, ExceptIn
    <2>3. u.work[t[i]] \in Int
      BY <2>1
    <2>4. [at |-> t[i], value |-> u.work[t[i]]] \in [at : 1..nCols, value : Int]
      BY <2>1, <2>3
    <2>5. Append(u.row, [at |-> t[i], value |-> u.work[t[i]]]) \in Seq([at : 1..nCols, value : Int])
      BY <2>1, <2>4
    <2> QED
      BY <2>1, <2>2, <2>5 DEF Emit, SparseStates
  <1>3. Step \in [V \X (1..n) -> V]
    BY <1>2
  <1>4. PICK g \in [SUBSET (1..n) -> V] : Folding(g, n, s, Step)
    <2> HIDE DEF Step
    <2> QED
      BY <1>1, <1>3, FoldUp
  <1>5. EmitSteps(g, s, t)
    <2>1. ASSUME NEW x \in SUBSET (1..n)
          PROVE  g[x] = IF x = {} THEN s ELSE Emit(g[x \ {Max(x)}], t[Max(x)])
      <3>1. CASE x = {}
        BY <1>4, <3>1 DEF Folding
      <3>2. CASE x # {}
        <4>1. Max(x) \in 1..n /\ g[x \ {Max(x)}] \in V
          BY <1>1, <3>2, MaxOfSome
        <4>2. g[x] = Step[<<g[x \ {Max(x)}], Max(x)>>]
          <5> HIDE DEF Step
          <5> QED
            BY <1>4, <3>2 DEF Folding
        <4>3. Step[<<g[x \ {Max(x)}], Max(x)>>] = Emit(g[x \ {Max(x)}], t[Max(x)])
          <5> HIDE DEF V
          <5> QED
            BY <4>1
        <4> QED
          BY <3>2, <4>2, <4>3
      <3> QED
        BY <3>1, <3>2
    <2> HIDE DEF V
    <2> QED
      BY <1>1, <2>1 DEF EmitSteps
  <1> DEFINE it == CHOOSE h : EmitSteps(h, s, t)
  <1>6. EmitSteps(it, s, t)
    BY <1>5
  <1>7. Emitted(s) = it[1..n]
    BY <1>1 DEF Emitted, FoldLeft, MapThenFoldSet, EmitSteps, t
  <1> HIDE DEF it
  <1> QED
    BY <1>6, <1>7 DEF t, n

(* After the first m of the sorted columns t, from the sums w. *)
EmitInv(t, w, nCols, m, s) ==
  /\ s \in SparseStates(nCols)
  /\ \A k \in 1..nCols : s.work[k] = IF \E i \in 1..m : t[i] = k THEN 0 ELSE w[k]
  /\ \A e \in 1..Len(s.row) : /\ \E i \in 1..m : t[i] = s.row[e].at
                              /\ s.row[e].value = w[s.row[e].at] /\ w[s.row[e].at] # 0
  /\ \A e, f \in 1..Len(s.row) : e < f => s.row[e].at < s.row[f].at
  /\ \A i \in 1..m : w[t[i]] # 0 => \E e \in 1..Len(s.row) : s.row[e].at = t[i]

LEMMA Appended ==
  ASSUME NEW T, NEW q \in Seq(T), NEW x \in T
  PROVE  /\ Append(q, x) \in Seq(T) /\ Len(q) \in Nat
         /\ Len(Append(q, x)) = Len(q) + 1 /\ Append(q, x)[Len(q) + 1] = x
         /\ \A e \in 1..Len(q) : Append(q, x)[e] = q[e]
         /\ \A e \in 1..Len(Append(q, x)) : e \in 1..Len(q) \/ e = Len(q) + 1
         /\ \A e \in 1..Len(q) : e \in 1..Len(Append(q, x))
         /\ Len(q) + 1 \in 1..Len(Append(q, x))
  OBVIOUS

LEMMA EmitStep ==
  ASSUME NEW nCols \in Nat, NEW n \in Nat, NEW t \in [1..n -> 1..nCols],
         \A i, k \in 1..n : i < k => t[i] <= t[k],
         NEW w \in [1..nCols -> Int], NEW m \in 1..n, NEW s, EmitInv(t, w, nCols, m - 1, s)
  PROVE  EmitInv(t, w, nCols, m, Emit(s, t[m]))
  <1> DEFINE k == t[m]
             T == [at : 1..nCols, value : Int]
             u == Emit(s, k)
             entry == [at |-> k, value |-> s.work[k]]
  <1>1. /\ s \in SparseStates(nCols)
        /\ s.work \in [1..nCols -> Int] /\ k \in 1..nCols /\ s.touched \in Seq(1..nCols)
        /\ Len(s.row) \in Nat /\ s.row \in Seq(T)
    BY DEF EmitInv, SparseStates
  <1>2. /\ \A j \in 1..nCols : s.work[j] = IF \E i \in 1..m - 1 : t[i] = j THEN 0 ELSE w[j]
        /\ \A e \in 1..Len(s.row) : /\ \E i \in 1..m - 1 : t[i] = s.row[e].at
                                    /\ s.row[e].value = w[s.row[e].at] /\ w[s.row[e].at] # 0
        /\ \A e, f \in 1..Len(s.row) : e < f => s.row[e].at < s.row[f].at
        /\ \A i \in 1..m - 1 : w[t[i]] # 0 => \E e \in 1..Len(s.row) : s.row[e].at = t[i]
    BY DEF EmitInv
  <1>3. /\ \A i \in 1..m : i \in 1..m - 1 \/ i = m
        /\ \A i \in 1..m - 1 : i \in 1..m /\ i \in 1..n /\ i < m
        /\ m \in 1..m
    OBVIOUS
  <1> DEFINE work == [s.work EXCEPT ![k] = 0]
             row == IF s.work[k] = 0 THEN s.row ELSE Append(s.row, entry)
  <1>4. u = [work |-> work, touched |-> s.touched, row |-> row]
    <2>1. u = [s EXCEPT !.row = IF s.work[k] = 0 THEN s.row ELSE Append(s.row, entry),
                        !.work = work]
      BY DEF Emit
    <2> HIDE DEF work, entry, u, k
    <2> QED
      BY <1>1, <2>1 DEF SparseStates
  <1>5. work \in [1..nCols -> Int] /\ s.work[k] \in Int
    BY <1>1, ExceptIn
  <1>6. entry \in T /\ entry.at = k /\ entry.value = s.work[k]
    BY <1>1, <1>5
  <1>7. \A j \in 1..nCols : work[j] = IF \E i \in 1..m : t[i] = j THEN 0 ELSE w[j]
    <2> SUFFICES ASSUME NEW j \in 1..nCols
                 PROVE  work[j] = IF \E i \in 1..m : t[i] = j THEN 0 ELSE w[j]
      OBVIOUS
    <2>1. CASE j = k
      BY <1>1, <1>3, <2>1
    <2>2. CASE j # k
      <3>1. work[j] = s.work[j]
        BY <1>1, <2>2
      <3>2. (\E i \in 1..m : t[i] = j) <=> \E i \in 1..m - 1 : t[i] = j
        BY <1>3, <2>2
      <3> HIDE DEF work
      <3> QED
        BY <1>2, <3>1, <3>2
    <2> QED
      BY <2>1, <2>2
  <1>8. CASE s.work[k] = 0
    <2>1. row = s.row
      BY <1>8
    <2>2. w[k] = 0 \/ \E i \in 1..m - 1 : t[i] = k
      BY <1>1, <1>2, <1>8
    <2> HIDE DEF work, row, u, T, entry
    <2>3. \A e \in 1..Len(row) : /\ \E i \in 1..m : t[i] = row[e].at
                                 /\ row[e].value = w[row[e].at] /\ w[row[e].at] # 0
      BY <1>2, <1>3, <2>1
    <2>4. \A i \in 1..m : w[t[i]] # 0 => \E e \in 1..Len(row) : row[e].at = t[i]
      <3> SUFFICES ASSUME NEW i \in 1..m, w[t[i]] # 0 PROVE \E e \in 1..Len(row) : row[e].at = t[i]
        OBVIOUS
      <3>1. PICK j \in 1..m - 1 : t[j] = t[i]
        BY <1>3, <2>2
      <3>2. w[t[j]] # 0
        BY <3>1
      <3>3. PICK e \in 1..Len(s.row) : s.row[e].at = t[j]
        BY ONLY <1>2, <3>2, j \in 1..m - 1
      <3>4. e \in 1..Len(row) /\ row[e].at = t[i]
        BY ONLY <2>1, <3>1, <3>3, e \in 1..Len(s.row)
      <3> QED
        BY <3>4
    <2>5. u \in SparseStates(nCols) /\ u.row = row /\ u.work = work
      BY <1>1, <1>4, <1>5, <2>1 DEF SparseStates, T
    <2>6. EmitInv(t, w, nCols, m, u)
      BY <1>2, <1>7, <2>1, <2>3, <2>4, <2>5 DEF EmitInv
    <2> QED
      BY <2>6 DEF u
  <1>9. CASE s.work[k] # 0
    <2>1. row = Append(s.row, entry)
      BY <1>9
    <2>2. /\ w[k] # 0 /\ s.work[k] = w[k] /\ \A i \in 1..m - 1 : t[i] # k
      BY <1>1, <1>2, <1>9
    <2> HIDE DEF work, row, u, T, entry
    <2>3. /\ row \in Seq(T) /\ Len(s.row) \in Nat
          /\ Len(row) = Len(s.row) + 1 /\ row[Len(s.row) + 1] = entry
          /\ \A e \in 1..Len(s.row) : row[e] = s.row[e]
          /\ \A e \in 1..Len(row) : e \in 1..Len(s.row) \/ e = Len(s.row) + 1
          /\ \A e \in 1..Len(s.row) : e \in 1..Len(row)
          /\ Len(s.row) + 1 \in 1..Len(row)
      <3>1. s.row \in Seq(T) /\ entry \in T
        BY <1>1, <1>6
      <3> QED
        BY ONLY <2>1, <3>1, Appended
    <2>4. ASSUME NEW e \in 1..Len(row)
          PROVE  /\ \E i \in 1..m : t[i] = row[e].at
                 /\ row[e].value = w[row[e].at] /\ w[row[e].at] # 0
      <3>1. CASE e \in 1..Len(s.row)
        <4>1. row[e] = s.row[e]
          BY <2>3, <3>1
        <4> QED
          BY <1>2, <1>3, <3>1, <4>1
      <3>2. CASE e = Len(s.row) + 1
        <4>1. row[e] = entry
          BY ONLY <2>3, <3>2
        <4>2. row[e].at = t[m] /\ row[e].value = w[t[m]] /\ w[t[m]] # 0
          BY <1>6, <2>2, <4>1
        <4> QED
          BY ONLY <1>3, <4>2
      <3> QED
        BY ONLY <2>3, <3>1, <3>2, e \in 1..Len(row)
    <2>5. ASSUME NEW e \in 1..Len(s.row) PROVE s.row[e].at < k
      <3>1. PICK i \in 1..m - 1 : t[i] = s.row[e].at
        BY <1>2
      <3>2. t[i] <= t[m] /\ t[i] # k /\ t[i] \in Int /\ t[m] \in Int
        BY <1>3, <2>2
      <3>3. t[i] < t[m]
        BY ONLY <3>2
      <3> QED
        BY <3>1, <3>3
    <2>6. ASSUME NEW e \in 1..Len(row), NEW f \in 1..Len(row), e < f
          PROVE  row[e].at < row[f].at
      <3>0. e \in 1..Len(s.row)
        BY ONLY <2>3, e \in 1..Len(row), f \in 1..Len(row), e < f
      <3>1. e \in 1..Len(s.row) /\ row[e] = s.row[e]
        BY ONLY <2>3, <3>0
      <3>2. CASE f \in 1..Len(s.row)
        <4>1. row[f] = s.row[f]
          BY <2>3, <3>2
        <4> QED
          BY <1>2, <2>6, <3>1, <3>2, <4>1
      <3>3. CASE f = Len(s.row) + 1
        BY <1>6, <2>3, <2>5, <3>1, <3>3
      <3> QED
        BY <2>3, <3>2, <3>3
    <2>7. ASSUME NEW i \in 1..m, w[t[i]] # 0 PROVE \E e \in 1..Len(row) : row[e].at = t[i]
      <3>1. CASE i \in 1..m - 1
        <4>1. PICK e \in 1..Len(s.row) : s.row[e].at = t[i]
          BY <1>2, <2>7, <3>1
        <4> QED
          BY <2>3, <4>1
      <3>2. CASE i = m
        BY <1>6, <2>3, <3>2
      <3> QED
        BY <1>3, <3>1, <3>2
    <2>8. u \in SparseStates(nCols) /\ u.row = row /\ u.work = work
      BY <1>1, <1>4, <1>5, <2>3 DEF SparseStates, T
    <2>9. EmitInv(t, w, nCols, m, u)
      <3>1. \A e \in 1..Len(row) : /\ \E i \in 1..m : t[i] = row[e].at
                                   /\ row[e].value = w[row[e].at] /\ w[row[e].at] # 0
        BY <2>4
      <3>2. \A e, f \in 1..Len(row) : e < f => row[e].at < row[f].at
        BY <2>6
      <3>3. \A i \in 1..m : w[t[i]] # 0 => \E e \in 1..Len(row) : row[e].at = t[i]
        BY <2>7
      <3> QED
        <4>1. \A j \in 1..nCols : u.work[j] = IF \E i \in 1..m : t[i] = j THEN 0 ELSE w[j]
          BY ONLY <1>7, <2>8
        <4>2. \A e \in 1..Len(u.row) : /\ \E i \in 1..m : t[i] = u.row[e].at
                                       /\ u.row[e].value = w[u.row[e].at] /\ w[u.row[e].at] # 0
          BY ONLY <2>8, <3>1
        <4>3. \A e, f \in 1..Len(u.row) : e < f => u.row[e].at < u.row[f].at
          BY ONLY <2>8, <3>2
        <4>4. \A i \in 1..m : w[t[i]] # 0 => \E e \in 1..Len(u.row) : u.row[e].at = t[i]
          BY ONLY <2>8, <3>3
        <4> QED
          BY ONLY <2>8, <4>1, <4>2, <4>3, <4>4 DEF EmitInv
    <2> QED
      BY <2>9 DEF u
  <1> QED
    BY <1>8, <1>9

(* A row is emitted as the sums of its cells, and leaves the workspace     *)
(* zeroed for the next.                                                    *)
LEMMA FreshRowIs ==
  ASSUME NEW n \in Nat, NEW nCols \in Nat, NEW obs, Observed(obs, n, nCols), NEW j
  PROVE  /\ RowIs(FreshRow(obs, nCols, j).row, 1..nCols, Cells(obs, nCols, j))
         /\ FreshRow(obs, nCols, j) \in SparseStates(nCols)
         /\ FreshRow(obs, nCols, j).work = Workspace(nCols).work
  <1> DEFINE s == FreshTouched(obs, nCols, j)
             t == Sorted(s.touched)
             l == Len(t)
             w == s.work
  <1>1. TouchInv(obs, nCols, j, n, s)
    BY FreshTouchedIs
  <1> HIDE DEF s
  <1>2. /\ s \in SparseStates(nCols) /\ s.row = <<>> /\ w \in [1..nCols -> Int]
        /\ s.touched \in Seq(1..nCols)
        /\ \A k \in 1..nCols : w[k] # 0 => \E e \in 1..Len(s.touched) : s.touched[e] = k
    BY <1>1 DEF TouchInv, SparseStates
  <1>3. \A k \in 1..nCols : w[k] = Cells(obs, nCols, j)[k]
    <2> SUFFICES ASSUME NEW k \in 1..nCols PROVE w[k] = Cell(obs, j, k)
      BY DEF Cells
    <2>1. w[k] = SumFunctionOnSet([i \in DOMAIN obs |-> obs[i].cell],
                                  {i \in 1..n : obs[i].row = j /\ obs[i].col = k})
      BY <1>1 DEF TouchInv
    <2>2. DOMAIN obs = 1..n
      BY DEF Observed
    <2> HIDE DEF w
    <2> QED
      BY <2>1, <2>2, CellIs
  <1>4. /\ t \in Seq(1..nCols) /\ l = Len(s.touched) /\ l \in Nat
        /\ \A i, k \in 1..l : i < k => t[i] <= t[k]
        /\ \A i \in 1..l : \E k \in 1..l : t[k] = s.touched[i]
    <2>1. /\ t \in Seq(1..nCols) /\ Len(t) = Len(s.touched) /\ Len(s.touched) \in Nat
          /\ \A i, k \in 1..Len(s.touched) : i < k => t[i] <= t[k]
          /\ \A i \in 1..Len(s.touched) : \E k \in 1..Len(s.touched) : t[k] = s.touched[i]
      BY ONLY nCols \in Nat, <1>2, SortedIs
    <2> HIDE DEF t
    <2> QED
      BY <2>1
  <1> HIDE DEF t, l
  <1>5. l \in Nat /\ t \in [1..l -> 1..nCols] /\ DOMAIN t = 1..l
    <2>1. t \in Seq(1..nCols) /\ l = Len(t)
      BY <1>4 DEF l
    <2> QED
      BY ONLY <2>1
  <1>6. PICK it : EmitSteps(it, s, t) /\ Emitted(s) = it[1..l]
    BY <1>2, EmitExists DEF t, l
  <1> DEFINE T == {m \in 0..l : EmitInv(t, w, nCols, m, it[1..m])}
  <1>7. 0 \in T
    <2>1. 1..0 = {} /\ {} \in SUBSET (1..l)
      OBVIOUS
    <2>2. it[1..0] = s
      BY <1>5, <1>6, <2>1 DEF EmitSteps
    <2>3. Len(s.row) = 0 /\ 1..0 = {}
      BY <1>2
    <2>4. EmitInv(t, w, nCols, 0, s)
      BY <1>2, <2>3 DEF EmitInv
    <2> QED
      BY <1>4, <2>2, <2>4
  <1>8. ASSUME NEW m \in 1..l, m - 1 \in T PROVE m \in T
    <2>1. EmitInv(t, w, nCols, m - 1, it[1..m - 1])
      BY <1>8
    <2>2. m \in Nat \ {0} /\ 1..m \in SUBSET (1..l) /\ 1..m # {} /\ m \in 0..l
      <3>1. l \in Nat
        BY <1>4
      <3> QED
        BY ONLY <3>1, m \in 1..l
    <2>3. Max(1..m) = m /\ (1..m) \ {m} = 1..m - 1
      BY <2>2, MaxUpTo
    <2>4. it[1..m] = Emit(it[1..m - 1], t[m])
      BY <1>5, <1>6, <2>2, <2>3 DEF EmitSteps
    <2> DEFINE before == it[1..m - 1]
               after == it[1..m]
    <2>6. /\ nCols \in Nat /\ l \in Nat /\ t \in [1..l -> 1..nCols] /\ m \in 1..l
          /\ \A i, k \in 1..l : i < k => t[i] <= t[k]
          /\ w \in [1..nCols -> Int] /\ EmitInv(t, w, nCols, m - 1, before)
          /\ after = Emit(before, t[m])
      BY <1>2, <1>4, <1>5, <2>1, <2>4
    <2> HIDE DEF w, before, after
    <2>7. EmitInv(t, w, nCols, m, Emit(before, t[m]))
      BY ONLY <2>6, EmitStep
    <2>5. EmitInv(t, w, nCols, m, it[1..m])
      BY ONLY <2>6, <2>7 DEF after
    <2> QED
      BY <2>2, <2>5
  <1> HIDE DEF T
  <1>9. l \in T
    <2>1. l \in Nat /\ l \in 0..l
      BY ONLY <1>4
    <2> QED
      BY ONLY <2>1, <1>7, <1>8, IntervalInduction
  <1>10. EmitInv(t, w, nCols, l, it[1..l])
    BY <1>9 DEF T
  <1> DEFINE row == it[1..l].row
             val == Cells(obs, nCols, j)
  <1>11. /\ row \in Seq([at : 1..nCols, value : Int])
         /\ \A e \in 1..Len(row) : row[e].value = w[row[e].at] /\ w[row[e].at] # 0
         /\ \A e, f \in 1..Len(row) : e < f => row[e].at < row[f].at
         /\ \A i \in 1..l : w[t[i]] # 0 => \E e \in 1..Len(row) : row[e].at = t[i]
    BY <1>10 DEF EmitInv, SparseStates
  <1>12. FreshRow(obs, nCols, j).row = row
    BY <1>6 DEF FreshRow, s
  <1>17. /\ FreshRow(obs, nCols, j) \in SparseStates(nCols)
         /\ FreshRow(obs, nCols, j).work = Workspace(nCols).work
    <2> DEFINE r == FreshRow(obs, nCols, j)
    <2>1. r = it[1..l]
      BY <1>6 DEF FreshRow, s
    <2> HIDE DEF r, w
    <2>2. /\ r \in SparseStates(nCols)
          /\ \A k \in 1..nCols : r.work[k] = IF \E i \in 1..l : t[i] = k THEN 0 ELSE w[k]
      BY ONLY <1>10, <2>1 DEF EmitInv
    <2>3. ASSUME NEW k \in 1..nCols PROVE r.work[k] = 0
      <3>1. CASE w[k] = 0
        BY <2>2, <3>1
      <3>2. CASE w[k] # 0
        <4>1. PICK e \in 1..Len(s.touched) : s.touched[e] = k
          BY <1>2, <3>2 DEF w
        <4>2. PICK i \in 1..l : t[i] = s.touched[e]
          BY ONLY <1>4, e \in 1..Len(s.touched)
        <4> QED
          BY <2>2, <4>1, <4>2
      <3> QED
        BY <3>1, <3>2
    <2>4. r.work \in [1..nCols -> Int]
      BY <2>2 DEF SparseStates
    <2>5. r.work = Workspace(nCols).work
      BY <2>3, <2>4 DEF Workspace
    <2> QED
      BY <2>2, <2>5 DEF r
  <1> HIDE DEF row, val, w
  <1>13. /\ Len(row) \in Nat /\ DOMAIN row = 1..Len(row)
         /\ \A e \in 1..Len(row) : /\ row[e] = [at |-> row[e].at, value |-> row[e].value]
                                   /\ row[e].at \in 1..nCols
    <2> DEFINE K == [at : 1..nCols, value : Int]
    <2>1. row \in Seq(K)
      BY ONLY <1>11
    <2>2. \A x \in K : x = [at |-> x.at, value |-> x.value] /\ x.at \in 1..nCols
      OBVIOUS
    <2> HIDE DEF K
    <2>3. Len(row) \in Nat /\ DOMAIN row = 1..Len(row) /\ \A e \in 1..Len(row) : row[e] \in K
      BY ONLY <2>1
    <2> QED
      BY ONLY <2>2, <2>3
  <1>14. \A k \in 1..nCols : val[k] # 0 => \E e \in 1..Len(row) : row[e].at = k
    <2> SUFFICES ASSUME NEW k \in 1..nCols, w[k] # 0 PROVE \E e \in 1..Len(row) : row[e].at = k
      BY <1>3 DEF val
    <2>1. PICK e \in 1..Len(s.touched) : s.touched[e] = k
      BY <1>2 DEF w
    <2>2. PICK i \in 1..l : t[i] = s.touched[e]
      BY ONLY <1>4, e \in 1..Len(s.touched)
    <2> QED
      BY <1>11, <2>1, <2>2
  <1>15. \A e \in 1..Len(row) : row[e].value = val[row[e].at] /\ val[row[e].at] # 0
    BY <1>3, <1>11, <1>13 DEF val
  <1>16. RowIs(row, 1..nCols, val)
    BY <1>11, <1>13, <1>14, <1>15 DEF RowIs
  <1> QED
    BY <1>12, <1>16, <1>17 DEF val

(* A zeroed workspace is a fresh one, whatever else is left in it. *)
LEMMA NextRowFresh ==
  ASSUME NEW nCols \in Nat, NEW s \in SparseStates(nCols), s.work = Workspace(nCols).work,
         NEW obs, NEW j
  PROVE  Emitted(RowTouched(s, obs, j)) = FreshRow(obs, nCols, j)
  <1>1. NextRow(s) = [work |-> s.work, touched |-> <<>>, row |-> <<>>]
    BY DEF NextRow
  <1>2. Workspace(nCols) = [work |-> Workspace(nCols).work, touched |-> <<>>, row |-> <<>>]
    BY DEF Workspace
  <1>3. NextRow(s) = Workspace(nCols)
    BY ONLY <1>1, <1>2, s.work = Workspace(nCols).work
  <1> QED
    BY <1>3 DEF RowTouched, FreshRow, FreshTouched

(* The rows share one workspace, and each is as if it had its own.         *)
LEMMA SparseRowsAre ==
  ASSUME NEW n \in Nat, NEW nRows \in Nat, NEW nCols \in Nat, NEW obs, Observed(obs, n, nCols)
  PROVE  /\ SparseRows(obs, nRows, nCols) = [j \in 1..nRows |-> FreshRow(obs, nCols, j).row]
         /\ \A j \in 1..nRows :
              RowIs(SparseRows(obs, nRows, nCols)[j], 1..nCols, Cells(obs, nCols, j))
  <1> DEFINE base == Workspace(nCols)
             V    == {s \in SparseStates(nCols) : s.work = base.work}
             Is(r) == r = [j \in 0..nRows |->
                             IF j = 0 THEN base ELSE Emitted(RowTouched(r[j - 1], obs, j))]
             run  == CHOOSE run : run = [j \in 0..nRows |->
                       IF j = 0 THEN Workspace(nCols) ELSE Emitted(RowTouched(run[j - 1], obs, j))]
  <1>1. SparseRows(obs, nRows, nCols) = [j \in 1..nRows |-> run[j].row]
    BY DEF SparseRows
  <1>2. base \in V
    BY DEF Workspace, SparseStates
  <1>3. \A j \in 1..nRows : FreshRow(obs, nCols, j) \in V
    BY FreshRowIs
  <1>4. \A s \in V, j \in 1..nRows : Emitted(RowTouched(s, obs, j)) = FreshRow(obs, nCols, j)
    BY NextRowFresh
  <1>5. 0 \in 0..nRows /\ \A j \in 0..nRows : j = 0 \/ (j \in 1..nRows /\ j # 0 /\ j - 1 \in 0..nRows)
    OBVIOUS
  <1>6. \A j \in 1..nRows : j \in 0..nRows /\ j # 0 /\ j - 1 \in 0..nRows
    OBVIOUS
  <1> HIDE DEF base, V
  <1>7. \E r : Is(r)
    <2> DEFINE r == [j \in 0..nRows |-> IF j = 0 THEN base ELSE FreshRow(obs, nCols, j)]
    <2>1. \A j \in 0..nRows : r[j] \in V
      BY <1>2, <1>3, <1>5
    <2>2. ASSUME NEW j \in 0..nRows
          PROVE  (IF j = 0 THEN base ELSE FreshRow(obs, nCols, j))
                   = IF j = 0 THEN base ELSE Emitted(RowTouched(r[j - 1], obs, j))
      <3> HIDE DEF r
      <3> QED
        BY <1>4, <1>5, <2>1
    <2>3. r = [j \in 0..nRows |-> IF j = 0 THEN base ELSE Emitted(RowTouched(r[j - 1], obs, j))]
      BY ONLY <2>2
    <2> HIDE DEF r
    <2> QED
      BY <2>3
  <1>8. Is(run)
    BY <1>7 DEF base
  <1> HIDE DEF run
  <1> DEFINE T == {j \in 0..nRows : run[j] \in V}
  <1>9. \A j \in 0..nRows : j \in T
    <2>1. 0 \in T
      BY <1>2, <1>5, <1>8
    <2>2. ASSUME NEW j \in 1..nRows, j - 1 \in T PROVE j \in T
      <3>1. run[j] = Emitted(RowTouched(run[j - 1], obs, j)) /\ run[j - 1] \in V
        BY <1>6, <1>8, <2>2
      <3> QED
        BY <1>3, <1>4, <1>6, <3>1
    <2> HIDE DEF T
    <2> QED
      BY <2>1, <2>2, CountedUp
  <1>10. \A j \in 1..nRows : run[j] = FreshRow(obs, nCols, j)
    <2> SUFFICES ASSUME NEW j \in 1..nRows PROVE run[j] = FreshRow(obs, nCols, j)
      OBVIOUS
    <2>1. run[j] = Emitted(RowTouched(run[j - 1], obs, j)) /\ run[j - 1] \in V
      BY <1>6, <1>8, <1>9
    <2> QED
      BY <1>4, <2>1
  <1>11. SparseRows(obs, nRows, nCols) = [j \in 1..nRows |-> FreshRow(obs, nCols, j).row]
    BY <1>1, <1>10
  <1>12. \A j \in 1..nRows : RowIs(FreshRow(obs, nCols, j).row, 1..nCols, Cells(obs, nCols, j))
    BY FreshRowIs
  <1> QED
    BY <1>11, <1>12

-----------------------------------------------------------------------------
(* The cross tabulation of a pair is the Gram matrix on its active levels. *)

IsPair(p) == IsChannel(p.rows) /\ IsChannel(p.cols) /\ p.rows.term # p.cols.term

LEMMA ActiveIs ==
  ASSUME DesignIs, NEW ch, IsChannel(ch)
  PROVE  LET A == ActiveLevels(ch)
         IN /\ Len(A) \in Nat /\ A \in [1..Len(A) -> Levels(ch)] /\ DOMAIN A = 1..Len(A)
            /\ \A j, k \in 1..Len(A) : j < k => A[j] < A[k]
            /\ \A j, k \in 1..Len(A) : A[j] = A[k] => j = k
            /\ \A i \in Observations : /\ Position(A, LevelsOf(ch)[i]) \in 1..Len(A)
                                       /\ A[Position(A, LevelsOf(ch)[i])] = LevelsOf(ch)[i]
            /\ \A k \in 1..Len(A) : \E i \in Observations : LevelsOf(ch)[i] = A[k]
  <1> DEFINE A == ActiveLevels(ch)
             S == ToSet(LevelsOf(ch))
  <1>1. LevelsOf(ch) \in [Observations -> Levels(ch)] /\ Levels(ch) \in SUBSET Nat
        /\ IsFiniteSet(Levels(ch))
    BY ChannelFacts
  <1>2. /\ S \in SUBSET Levels(ch) /\ S \in SUBSET Int
        /\ \A i \in Observations : LevelsOf(ch)[i] \in S
        /\ \A x \in S : \E i \in Observations : LevelsOf(ch)[i] = x
    BY <1>1 DEF ToSet
  <1> HIDE DEF S
  <1>3. IsFiniteSet(S)
    BY <1>1, <1>2, FS_Subset
  <1>4. A = Ascending(S)
    BY DEF ActiveLevels, S
  <1>5. /\ Cardinality(S) \in Nat /\ A \in [1..Cardinality(S) -> S] /\ Len(A) = Cardinality(S)
        /\ DOMAIN A = 1..Len(A)
        /\ \A j, k \in 1..Len(A) : j < k => A[j] < A[k]
        /\ \A j, k \in 1..Len(A) : A[j] = A[k] => j = k
        /\ \A x \in S : \E k \in 1..Len(A) : A[k] = x
    BY <1>2, <1>3, <1>4, AscendingIs
  <1> HIDE DEF A
  <1>6. Len(A) \in Nat /\ A \in [1..Len(A) -> Levels(ch)] /\ \A k \in 1..Len(A) : A[k] \in S
    BY <1>2, <1>5
  <1>7. ASSUME NEW i \in Observations
        PROVE  Position(A, LevelsOf(ch)[i]) \in 1..Len(A) /\ A[Position(A, LevelsOf(ch)[i])] = LevelsOf(ch)[i]
    <2>1. \E k \in DOMAIN A : A[k] = LevelsOf(ch)[i]
      BY <1>2, <1>5
    <2> QED
      BY <1>5, <2>1 DEF Position
  <1> QED
    BY <1>2, <1>5, <1>6, <1>7 DEF A

ContributionsOf(p) == [i \in 1..design.nObs |-> Contribution(p, i)]
RowDof(p, j) == DofAt(p.rows, ActiveLevels(p.rows)[j])
ColDof(p, k) == DofAt(p.cols, ActiveLevels(p.cols)[k])

LEMMA ContributionIs ==
  ASSUME DesignIs, NEW p, IsPair(p), NEW i \in Observations
  PROVE  LET o == ContributionsOf(p)[i]
         IN /\ o.row \in 1..Len(ActiveLevels(p.rows)) /\ o.col \in 1..Len(ActiveLevels(p.cols))
            /\ \A j \in 1..Len(ActiveLevels(p.rows)) :
                 o.row = j <=> LevelsOf(p.rows)[i] = ActiveLevels(p.rows)[j]
            /\ \A k \in 1..Len(ActiveLevels(p.cols)) :
                 o.col = k <=> LevelsOf(p.cols)[i] = ActiveLevels(p.cols)[k]
            /\ o.cell = Weight(i) * Load(p.rows, i) * Load(p.cols, i)
            /\ o.rowDiag = Weight(i) * Load(p.rows, i) * Load(p.rows, i)
            /\ o.colDiag = Weight(i) * Load(p.cols, i) * Load(p.cols, i)
            /\ Weight(i) \in Nat /\ Load(p.rows, i) \in Int /\ Load(p.cols, i) \in Int
            /\ o.cell \in Int /\ o.rowDiag \in Int /\ o.colDiag \in Int
  <1> DEFINE o == ContributionsOf(p)[i]
             R == ActiveLevels(p.rows)
             C == ActiveLevels(p.cols)
  <1>1. o = Contribution(p, i)
    BY DEF ContributionsOf, Observations
  <1>2. /\ o.row = Position(R, LevelsOf(p.rows)[i]) /\ o.col = Position(C, LevelsOf(p.cols)[i])
        /\ o.cell = Weight(i) * Load(p.rows, i) * Load(p.cols, i)
        /\ o.rowDiag = Weight(i) * Load(p.rows, i) * Load(p.rows, i)
        /\ o.colDiag = Weight(i) * Load(p.cols, i) * Load(p.cols, i)
    BY <1>1 DEF Contribution
  <1>3. /\ o.row \in 1..Len(R) /\ R[o.row] = LevelsOf(p.rows)[i]
        /\ \A j, k \in 1..Len(R) : R[j] = R[k] => j = k
    BY <1>2, ActiveIs DEF IsPair
  <1>4. /\ o.col \in 1..Len(C) /\ C[o.col] = LevelsOf(p.cols)[i]
        /\ \A j, k \in 1..Len(C) : C[j] = C[k] => j = k
    BY <1>2, ActiveIs DEF IsPair
  <1>5. Weight(i) \in Nat /\ Load(p.rows, i) \in Int /\ Load(p.cols, i) \in Int
    BY ObservationFacts, ChannelFacts DEF IsPair
  <1> HIDE DEF o, R, C
  <1>6. o.cell \in Int /\ o.rowDiag \in Int /\ o.colDiag \in Int
    BY <1>2, <1>5
  <1>7. /\ o.row \in 1..Len(R) /\ o.col \in 1..Len(C)
        /\ \A j \in 1..Len(R) : o.row = j <=> LevelsOf(p.rows)[i] = R[j]
        /\ \A k \in 1..Len(C) : o.col = k <=> LevelsOf(p.cols)[i] = C[k]
    BY <1>3, <1>4
  <1> QED
    BY <1>2, <1>5, <1>6, <1>7 DEF o, R, C

(* A sum over the observations where a product of entries is not zero.     *)
LEMMA GramOn ==
  ASSUME DesignIs, NEW ch, IsChannel(ch), NEW l \in Levels(ch),
         NEW di, IsChannel(di), NEW m \in Levels(di), NEW f, DOMAIN f \in SUBSET Observations,
         \A i \in Observations :
           Products(ch, l, di, m)[i] = IF i \in DOMAIN f THEN f[i] ELSE 0
  PROVE  SumFunction(f) = Gram(DofAt(ch, l), DofAt(di, m))
  <1> DEFINE g == Products(ch, l, di, m)
             A == DOMAIN f
  <1>1. IsFiniteSet(Observations) /\ \A i \in Observations : g[i] \in Int
    BY ObservationFacts, ProductsInt
  <1>2. Gram(DofAt(ch, l), DofAt(di, m)) = SumFunctionOnSet(g, Observations)
    BY GramIs
  <1> HIDE DEF g
  <1>3. /\ A \in SUBSET Observations /\ \A i \in A : f[i] \in Int /\ g[i] = f[i]
        /\ \A i \in Observations \ A : g[i] = 0
    BY <1>1 DEF g
  <1> HIDE DEF A
  <1>4. SumFunctionOnSet(g, Observations) = SumFunctionOnSet(f, A)
    BY <1>1, <1>3, SumSupport
  <1> QED
    BY <1>2, <1>4 DEF SumFunction, A

(* Each entry of the table is an entry of the Gram matrix. *)
LEMMA CellGram ==
  ASSUME DesignIs, NEW p, IsPair(p),
         NEW j \in 1..Len(ActiveLevels(p.rows)), NEW k \in 1..Len(ActiveLevels(p.cols))
  PROVE  /\ Cell(ContributionsOf(p), j, k) = Gram(RowDof(p, j), ColDof(p, k))
         /\ SumFunction([i \in {i \in DOMAIN ContributionsOf(p) : ContributionsOf(p)[i].row = j}
                           |-> ContributionsOf(p)[i].rowDiag]) = Gram(RowDof(p, j), RowDof(p, j))
         /\ SumFunction([i \in {i \in DOMAIN ContributionsOf(p) : ContributionsOf(p)[i].col = k}
                           |-> ContributionsOf(p)[i].colDiag]) = Gram(ColDof(p, k), ColDof(p, k))
  <1> DEFINE obs == ContributionsOf(p)
             r == ActiveLevels(p.rows)[j]
             c == ActiveLevels(p.cols)[k]
  <1>1. IsChannel(p.rows) /\ IsChannel(p.cols)
    BY DEF IsPair
  <1>2. r \in Levels(p.rows) /\ c \in Levels(p.cols)
    BY <1>1, ActiveIs
  <1>3. DOMAIN obs = Observations
    BY DEF ContributionsOf, Observations
  <1>4. \A i \in Observations :
          /\ obs[i].row = j <=> LevelsOf(p.rows)[i] = r
          /\ obs[i].col = k <=> LevelsOf(p.cols)[i] = c
          /\ obs[i].cell = Weight(i) * Load(p.rows, i) * Load(p.cols, i)
          /\ obs[i].rowDiag = Weight(i) * Load(p.rows, i) * Load(p.rows, i)
          /\ obs[i].colDiag = Weight(i) * Load(p.cols, i) * Load(p.cols, i)
          /\ Weight(i) \in Nat /\ Load(p.rows, i) \in Int /\ Load(p.cols, i) \in Int
    <2> SUFFICES ASSUME NEW i \in Observations
                 PROVE  /\ obs[i].row = j <=> LevelsOf(p.rows)[i] = r
                        /\ obs[i].col = k <=> LevelsOf(p.cols)[i] = c
                        /\ obs[i].cell = Weight(i) * Load(p.rows, i) * Load(p.cols, i)
                        /\ obs[i].rowDiag = Weight(i) * Load(p.rows, i) * Load(p.rows, i)
                        /\ obs[i].colDiag = Weight(i) * Load(p.cols, i) * Load(p.cols, i)
                        /\ Weight(i) \in Nat /\ Load(p.rows, i) \in Int /\ Load(p.cols, i) \in Int
      OBVIOUS
    <2>1. obs[i].row = j <=> LevelsOf(p.rows)[i] = r
      BY ContributionIs
    <2>2. obs[i].col = k <=> LevelsOf(p.cols)[i] = c
      BY ContributionIs
    <2>3. /\ obs[i].cell = Weight(i) * Load(p.rows, i) * Load(p.cols, i)
          /\ obs[i].rowDiag = Weight(i) * Load(p.rows, i) * Load(p.rows, i)
          /\ obs[i].colDiag = Weight(i) * Load(p.cols, i) * Load(p.cols, i)
          /\ Weight(i) \in Nat /\ Load(p.rows, i) \in Int /\ Load(p.cols, i) \in Int
      BY ContributionIs
    <2> QED
      BY <2>1, <2>2, <2>3
  <1> HIDE DEF obs, r, c
  <1>5. \A w, n \in Int : w * n * 0 = 0 /\ w * 0 * n = 0
    OBVIOUS
  <1>6. \A i \in Observations :
          /\ Entry(p.rows, r, i) = IF obs[i].row = j THEN Load(p.rows, i) ELSE 0
          /\ Entry(p.cols, c, i) = IF obs[i].col = k THEN Load(p.cols, i) ELSE 0
    BY <1>4 DEF Entry
  <1>7. Cell(obs, j, k) = Gram(DofAt(p.rows, r), DofAt(p.cols, c))
    <2> DEFINE f == [i \in {i \in DOMAIN obs : obs[i].row = j /\ obs[i].col = k} |-> obs[i].cell]
    <2>1. DOMAIN f \in SUBSET Observations
      BY <1>3
    <2>2. ASSUME NEW i \in Observations
          PROVE  Products(p.rows, r, p.cols, c)[i] = IF i \in DOMAIN f THEN f[i] ELSE 0
      <3>1. Products(p.rows, r, p.cols, c)[i] = Weight(i) * Entry(p.rows, r, i) * Entry(p.cols, c, i)
        BY DEF Products
      <3>2. i \in DOMAIN f <=> obs[i].row = j /\ obs[i].col = k
        BY <1>3
      <3>3. CASE i \in DOMAIN f
        <4>1. f[i] = Weight(i) * Load(p.rows, i) * Load(p.cols, i)
          BY <1>4, <3>3
        <4> QED
          BY <1>6, <3>1, <3>2, <3>3, <4>1
      <3>4. CASE i \notin DOMAIN f
        <4>1. Entry(p.rows, r, i) = 0 \/ Entry(p.cols, c, i) = 0
          BY <1>6, <3>2, <3>4
        <4>2. Weight(i) \in Int /\ Entry(p.rows, r, i) \in Int /\ Entry(p.cols, c, i) \in Int
          BY <1>4, <1>6
        <4> QED
          BY <1>5, <3>1, <3>4, <4>1, <4>2
      <3> QED
        BY <3>3, <3>4
    <2>3. Cell(obs, j, k) = SumFunction(f)
      BY DEF Cell
    <2> HIDE DEF f
    <2> QED
      BY <1>1, <1>2, <2>1, <2>2, <2>3, GramOn
  <1>8. SumFunction([i \in {i \in DOMAIN obs : obs[i].row = j} |-> obs[i].rowDiag])
          = Gram(DofAt(p.rows, r), DofAt(p.rows, r))
    <2> DEFINE f == [i \in {i \in DOMAIN obs : obs[i].row = j} |-> obs[i].rowDiag]
    <2>1. DOMAIN f \in SUBSET Observations
      BY <1>3
    <2>2. ASSUME NEW i \in Observations
          PROVE  Products(p.rows, r, p.rows, r)[i] = IF i \in DOMAIN f THEN f[i] ELSE 0
      <3>1. Products(p.rows, r, p.rows, r)[i] = Weight(i) * Entry(p.rows, r, i) * Entry(p.rows, r, i)
        BY DEF Products
      <3>2. /\ i \in DOMAIN f <=> obs[i].row = j
            /\ i \in DOMAIN f => f[i] = Weight(i) * Load(p.rows, i) * Load(p.rows, i)
        BY <1>3, <1>4
      <3>3. /\ Entry(p.rows, r, i) = IF obs[i].row = j THEN Load(p.rows, i) ELSE 0
            /\ Weight(i) \in Int
        BY <1>4, <1>6
      <3> HIDE DEF f
      <3> QED
        BY <1>5, <3>1, <3>2, <3>3
    <2> HIDE DEF f
    <2>3. SumFunction(f) = Gram(DofAt(p.rows, r), DofAt(p.rows, r))
      BY <1>1, <1>2, <2>1, <2>2, GramOn
    <2> QED
      BY <2>3 DEF f
  <1>9. SumFunction([i \in {i \in DOMAIN obs : obs[i].col = k} |-> obs[i].colDiag])
          = Gram(DofAt(p.cols, c), DofAt(p.cols, c))
    <2> DEFINE f == [i \in {i \in DOMAIN obs : obs[i].col = k} |-> obs[i].colDiag]
    <2>1. DOMAIN f \in SUBSET Observations
      BY <1>3
    <2>2. ASSUME NEW i \in Observations
          PROVE  Products(p.cols, c, p.cols, c)[i] = IF i \in DOMAIN f THEN f[i] ELSE 0
      <3>1. Products(p.cols, c, p.cols, c)[i] = Weight(i) * Entry(p.cols, c, i) * Entry(p.cols, c, i)
        BY DEF Products
      <3>2. /\ i \in DOMAIN f <=> obs[i].col = k
            /\ i \in DOMAIN f => f[i] = Weight(i) * Load(p.cols, i) * Load(p.cols, i)
        BY <1>3, <1>4
      <3>3. /\ Entry(p.cols, c, i) = IF obs[i].col = k THEN Load(p.cols, i) ELSE 0
            /\ Weight(i) \in Int
        BY <1>4, <1>6
      <3> HIDE DEF f
      <3> QED
        BY <1>5, <3>1, <3>2, <3>3
    <2> HIDE DEF f
    <2>3. SumFunction(f) = Gram(DofAt(p.cols, c), DofAt(p.cols, c))
      BY <1>1, <1>2, <2>1, <2>2, GramOn
    <2> QED
      BY <2>3 DEF f
  <1> QED
    BY <1>7, <1>8, <1>9 DEF RowDof, ColDof, obs, r, c

LEMMA GramSymmetric ==
  ASSUME DesignIs, NEW d \in Dofs, NEW e \in Dofs
  PROVE  Gram(d, e) = Gram(e, d) /\ Gram(d, e) \in Int
  <1> DEFINE a == Address(design.terms, d)
             b == Address(design.terms, e)
             f == Products(a, a.level, b, b.level)
             g == Products(b, b.level, a, a.level)
  <1>1. /\ IsChannel(a) /\ a.level \in Levels(a) /\ DofAt(a, a.level) = d
        /\ IsChannel(b) /\ b.level \in Levels(b) /\ DofAt(b, b.level) = e
    BY DofOfChannel
  <1> HIDE DEF a, b
  <1>2. IsFiniteSet(Observations) /\ \A i \in Observations : Weight(i) \in Int
    BY ObservationFacts
  <1>3. \A i \in Observations : Entry(a, a.level, i) \in Int /\ Entry(b, b.level, i) \in Int
                                /\ f[i] \in Int
    BY <1>1, ProductsInt
  <1>4. ASSUME NEW i \in Observations PROVE f[i] = g[i]
    <2>1. /\ f[i] = Weight(i) * Entry(a, a.level, i) * Entry(b, b.level, i)
          /\ g[i] = Weight(i) * Entry(b, b.level, i) * Entry(a, a.level, i)
      BY DEF Products
    <2>2. \A w, x, y \in Int : w * x * y = w * y * x
      OBVIOUS
    <2> QED
      BY <1>2, <1>3, <2>1, <2>2
  <1> HIDE DEF f, g
  <1>5. SumFunctionOnSet(f, Observations) = SumFunctionOnSet(g, Observations)
    BY <1>2, <1>3, <1>4, SumSame
  <1>6. /\ Gram(d, e) = SumFunctionOnSet(f, Observations) /\ Gram(d, e) \in Int
        /\ Gram(e, d) = SumFunctionOnSet(g, Observations)
    BY <1>1, GramIs DEF f, g
  <1> QED
    BY <1>5, <1>6

LEMMA SumPositive ==
  ASSUME NEW S, IsFiniteSet(S), NEW f, \A x \in S : f[x] \in Nat
  PROVE  /\ SumFunctionOnSet(f, S) \in Nat
         /\ SumFunctionOnSet(f, S) = 0 => \A x \in S : f[x] = 0
         /\ \A x \in S : f[x] <= SumFunctionOnSet(f, S)
  <1> DEFINE C == {s \in SUBSET S : SumFunctionOnSet(f, s) \in Nat}
  <1>1. ASSUME NEW s \in SUBSET S, \A x \in s : s \ {x} \in C PROVE s \in C
    <2>1. CASE s = {}
      BY <2>1, SumEmpty
    <2>2. CASE s # {}
      <3>1. PICK x \in s : TRUE
        BY <2>2
      <3>2. IsFiniteSet(s) /\ \A y \in s : f[y] \in Int
        BY FS_Subset
      <3>3. SumFunctionOnSet(f, s) = f[x] + SumFunctionOnSet(f, s \ {x})
        BY <3>2, SumRemove
      <3>4. SumFunctionOnSet(f, s \ {x}) \in Nat /\ f[x] \in Nat
        BY <1>1
      <3> QED
        BY <3>3, <3>4
    <2> QED
      BY <2>1, <2>2
  <1> HIDE DEF C
  <1>2. \A s \in SUBSET S : s \in C
    BY <1>1, SubsetInduction
  <1>3. \A s \in SUBSET S : SumFunctionOnSet(f, s) \in Nat
    BY <1>2 DEF C
  <1>4. ASSUME NEW x \in S
        PROVE  /\ SumFunctionOnSet(f, S) = f[x] + SumFunctionOnSet(f, S \ {x})
               /\ SumFunctionOnSet(f, S) \in Nat /\ SumFunctionOnSet(f, S \ {x}) \in Nat
               /\ f[x] \in Nat
    BY <1>3, SumRemove
  <1>5. ASSUME NEW x \in S
        PROVE  f[x] <= SumFunctionOnSet(f, S) /\ (SumFunctionOnSet(f, S) = 0 => f[x] = 0)
    <2> DEFINE total == SumFunctionOnSet(f, S)
               others == SumFunctionOnSet(f, S \ {x})
               here == f[x]
    <2>1. total = here + others /\ total \in Nat /\ others \in Nat /\ here \in Nat
      BY <1>4
    <2> HIDE DEF total, others, here
    <2>2. here <= total /\ (total = 0 => here = 0)
      BY <2>1
    <2> QED
      BY <2>2 DEF total, here
  <1> QED
    BY <1>3, <1>5

(* A coefficient that no observation with weight reaches is coupled to     *)
(* none; the weights are not negative.                                     *)
LEMMA GramDiagonal ==
  ASSUME DesignIs, NEW d \in Dofs
  PROVE  /\ Gram(d, d) \in Nat
         /\ Gram(d, d) = 0 => \A e \in Dofs : Gram(d, e) = 0
         /\ \A ch, l : IsChannel(ch) /\ l \in Levels(ch) /\ DofAt(ch, l) = d
                       /\ (\A i \in Observations : LevelsOf(ch)[i] # l) => Gram(d, d) = 0
  <1> DEFINE a == Address(design.terms, d)
             f == Products(a, a.level, a, a.level)
  <1>1. IsChannel(a) /\ a.level \in Levels(a) /\ DofAt(a, a.level) = d
    BY DofOfChannel
  <1> HIDE DEF a
  <1>2. IsFiniteSet(Observations) /\ \A i \in Observations : Weight(i) \in Nat
    BY ObservationFacts
  <1>3. ASSUME NEW i \in Observations
        PROVE  /\ Entry(a, a.level, i) \in Int /\ f[i] \in Nat
               /\ f[i] = Weight(i) * Entry(a, a.level, i) * Entry(a, a.level, i)
               /\ f[i] = 0 => Weight(i) * Entry(a, a.level, i) = 0
    <2>1. Entry(a, a.level, i) \in Int /\ Weight(i) \in Nat
      BY <1>1, <1>2, ProductsInt
    <2>2. f[i] = Weight(i) * Entry(a, a.level, i) * Entry(a, a.level, i)
      BY DEF Products
    <2>3. \A w \in Nat, x \in Int : w * x * x \in Nat /\ (w * x * x = 0 => w * x = 0)
      <3>1. ASSUME NEW w \in Nat, NEW x \in Int PROVE w * x * x \in Nat /\ (w * x * x = 0 => w * x = 0)
        <4>1. CASE x = 0
          BY <4>1
        <4>2. CASE x > 0
          <5>1. w * x \in Nat
            BY <4>2
          <5>2. (w * x) * x \in Nat /\ (w * x # 0 => (w * x) * x # 0)
            BY ONLY <4>2, <5>1, x \in Int
          <5> QED
            BY <5>2
        <4>3. CASE x < 0
          <5>1. w * (-x) \in Nat /\ -x \in Nat \ {0}
            BY <4>3
          <5>2. (w * (-x)) * (-x) \in Nat /\ (w * (-x) # 0 => (w * (-x)) * (-x) # 0)
            BY ONLY <5>1
          <5>3. (w * (-x)) * (-x) = w * x * x /\ w * (-x) = -(w * x) /\ w * x \in Int
            OBVIOUS
          <5> QED
            BY ONLY <5>2, <5>3
        <4> QED
          BY <4>1, <4>2, <4>3
      <3> QED
        BY <3>1
    <2> HIDE DEF f
    <2> QED
      BY <2>1, <2>2, <2>3
  <1>4. Gram(d, d) = SumFunctionOnSet(f, Observations)
    BY <1>1, GramIs
  <1> HIDE DEF f
  <1>5. Gram(d, d) \in Nat /\ (Gram(d, d) = 0 => \A i \in Observations : f[i] = 0)
    BY <1>2, <1>3, <1>4, SumPositive
  <1>6. ASSUME Gram(d, d) = 0, NEW e \in Dofs PROVE Gram(d, e) = 0
    <2> DEFINE b == Address(design.terms, e)
               g == Products(a, a.level, b, b.level)
    <2>1. IsChannel(b) /\ b.level \in Levels(b) /\ DofAt(b, b.level) = e
      BY DofOfChannel
    <2> HIDE DEF b
    <2>2. ASSUME NEW i \in Observations PROVE g[i] = 0
      <3>1. g[i] = Weight(i) * Entry(a, a.level, i) * Entry(b, b.level, i)
        BY DEF Products
      <3>2. Weight(i) * Entry(a, a.level, i) = 0 /\ Entry(b, b.level, i) \in Int
        BY <1>1, <1>3, <1>5, <1>6, <2>1, ProductsInt
      <3> QED
        BY <3>1, <3>2
    <2>3. Gram(d, e) = SumFunctionOnSet(g, Observations)
      BY <1>1, <2>1, GramIs
    <2> HIDE DEF g
    <2> QED
      BY <1>2, <2>2, <2>3, SumZero
  <1>7. ASSUME NEW ch, NEW l, IsChannel(ch), l \in Levels(ch), DofAt(ch, l) = d,
               \A i \in Observations : LevelsOf(ch)[i] # l
        PROVE  Gram(d, d) = 0
    <2>1. ASSUME NEW i \in Observations PROVE Products(ch, l, ch, l)[i] = 0
      <3>1. Products(ch, l, ch, l)[i] = Weight(i) * Entry(ch, l, i) * Entry(ch, l, i)
        BY DEF Products
      <3>2. Entry(ch, l, i) = 0 /\ Weight(i) \in Nat
        BY <1>2, <1>7 DEF Entry
      <3> QED
        BY <3>1, <3>2
    <2>2. Gram(d, d) = SumFunctionOnSet(Products(ch, l, ch, l), Observations)
      BY <1>7, GramIs
    <2> QED
      BY <1>2, <2>1, <2>2, SumZero
  <1> QED
    BY <1>5, <1>6, <1>7

(* A table m of coefficients m.globals, those of m.c's rows first, whose   *)
(* cells are the entries of the Gram matrix between the two blocks.        *)
Columns(m) == Len(m.globals) - Len(m.c)
Across(m, j) == [k \in 1..Columns(m) |-> Gram(m.globals[j], m.globals[Len(m.c) + k])]
Tabulates(m) ==
  /\ Len(m.c) \in Nat /\ DOMAIN m.c = 1..Len(m.c)
  /\ m.globals \in Seq(Dofs) /\ m.diagonal \in Seq(Int)
  /\ Len(m.diagonal) = Len(m.globals) /\ Len(m.c) <= Len(m.globals)
  /\ \A i \in 1..Len(m.globals) : m.diagonal[i] = Gram(m.globals[i], m.globals[i])
  /\ \A i, k \in 1..Len(m.globals) : m.globals[i] = m.globals[k] => i = k
  /\ \A j \in 1..Len(m.c) : RowIs(m.c[j], 1..Columns(m), Across(m, j))
Splits(m, A, B) ==
  \A i \in 1..Len(m.globals) : m.globals[i] \in IF i <= Len(m.c) THEN A ELSE B

TableOf(p) == [c |-> CrossTab(p).c, diagonal |-> CrossTab(p).diagonal, globals |-> LocalToGlobal(p)]

LEMMA ChannelDofsAre ==
  ASSUME DesignIs, NEW ch, IsChannel(ch)
  PROVE  /\ ChannelDofs(ch) \in SUBSET Dofs
         /\ \A l \in Levels(ch) : DofAt(ch, l) \in ChannelDofs(ch)
         /\ \A d \in ChannelDofs(ch) : \E l \in Levels(ch) : d = DofAt(ch, l)
  BY DofFacts DEF ChannelDofs, DofAt, Levels

LEMMA ChannelsApart ==
  ASSUME DesignIs, NEW p, IsPair(p)
  PROVE  ChannelDofs(p.rows) \cap ChannelDofs(p.cols) = {}
  <1> SUFFICES ASSUME NEW d, d \in ChannelDofs(p.rows), d \in ChannelDofs(p.cols) PROVE FALSE
    OBVIOUS
  <1>1. IsChannel(p.rows) /\ IsChannel(p.cols) /\ p.rows.term # p.cols.term
    BY DEF IsPair
  <1>2. PICK l \in Levels(p.rows) : d = DofAt(p.rows, l)
    BY <1>1, ChannelDofsAre
  <1>3. PICK m \in Levels(p.cols) : d = DofAt(p.cols, m)
    BY <1>1, ChannelDofsAre
  <1>4. DofAt(p.rows, l) = DofAt(p.cols, m)
    BY <1>2, <1>3
  <1>5. p.rows.term = p.cols.term
    BY <1>1, <1>4, DofsApart
  <1> QED
    BY <1>1, <1>5

LEMMA LocalDofs ==
  ASSUME DesignIs, NEW p, IsPair(p)
  PROVE  LET g == LocalToGlobal(p)
             n == Len(ActiveLevels(p.rows))
             l == Len(ActiveLevels(p.cols))
         IN /\ g \in Seq(Dofs) /\ Len(g) = n + l
            /\ \A j \in 1..n : g[j] = RowDof(p, j) /\ g[j] \in ChannelDofs(p.rows)
            /\ \A k \in 1..l : g[n + k] = ColDof(p, k) /\ g[n + k] \in ChannelDofs(p.cols)
            /\ \A i, k \in 1..n + l : g[i] = g[k] => i = k
            /\ \A d \in LiveDofs(p) : \E i \in 1..n + l : g[i] = d
  <1> DEFINE g == LocalToGlobal(p)
             R == ActiveLevels(p.rows)
             C == ActiveLevels(p.cols)
             n == Len(R)
             l == Len(C)
             a == [j \in 1..n |-> RowDof(p, j)]
             b == [k \in 1..l |-> ColDof(p, k)]
  <1>1. IsChannel(p.rows) /\ IsChannel(p.cols) /\ p.rows.term # p.cols.term
    BY DEF IsPair
  <1>2. /\ n \in Nat /\ DOMAIN R = 1..n /\ R \in [1..n -> Levels(p.rows)]
        /\ \A j, k \in 1..n : R[j] = R[k] => j = k
        /\ \A i \in Observations : \E k \in 1..n : R[k] = LevelsOf(p.rows)[i]
    <2>1. /\ n \in Nat /\ DOMAIN R = 1..n /\ R \in [1..n -> Levels(p.rows)]
          /\ \A j, k \in 1..n : R[j] = R[k] => j = k
          /\ \A i \in Observations : /\ Position(R, LevelsOf(p.rows)[i]) \in 1..n
                                     /\ R[Position(R, LevelsOf(p.rows)[i])] = LevelsOf(p.rows)[i]
      BY <1>1, ActiveIs
    <2> HIDE DEF R, n
    <2> QED
      BY <2>1
  <1>3. /\ l \in Nat /\ DOMAIN C = 1..l /\ C \in [1..l -> Levels(p.cols)]
        /\ \A j, k \in 1..l : C[j] = C[k] => j = k
        /\ \A i \in Observations : \E k \in 1..l : C[k] = LevelsOf(p.cols)[i]
    <2>1. /\ l \in Nat /\ DOMAIN C = 1..l /\ C \in [1..l -> Levels(p.cols)]
          /\ \A j, k \in 1..l : C[j] = C[k] => j = k
          /\ \A i \in Observations : /\ Position(C, LevelsOf(p.cols)[i]) \in 1..l
                                     /\ C[Position(C, LevelsOf(p.cols)[i])] = LevelsOf(p.cols)[i]
      BY <1>1, ActiveIs
    <2> HIDE DEF C, l
    <2> QED
      BY <2>1
  <1>4. g = a \o b
    BY <1>2, <1>3 DEF LocalToGlobal, RowDof, ColDof, DofAt
  <1>5. ASSUME NEW j \in 1..n
        PROVE  RowDof(p, j) \in Dofs /\ RowDof(p, j) \in ChannelDofs(p.rows)
    BY <1>1, <1>2, ChannelDofsAre DEF RowDof
  <1>6. ASSUME NEW k \in 1..l
        PROVE  ColDof(p, k) \in Dofs /\ ColDof(p, k) \in ChannelDofs(p.cols)
    BY <1>1, <1>3, ChannelDofsAre DEF ColDof
  <1>7. ASSUME NEW j \in 1..n, NEW k \in 1..n, RowDof(p, j) = RowDof(p, k) PROVE j = k
    <2>1. R[j] = R[k]
      BY <1>1, <1>2, <1>7, DofsApart DEF RowDof
    <2> QED
      BY <1>2, <2>1
  <1>8. ASSUME NEW j \in 1..l, NEW k \in 1..l, ColDof(p, j) = ColDof(p, k) PROVE j = k
    <2>1. C[j] = C[k]
      BY <1>1, <1>3, <1>8, DofsApart DEF ColDof
    <2> QED
      BY <1>3, <2>1
  <1>9. ASSUME NEW j \in 1..n, NEW k \in 1..l PROVE RowDof(p, j) # ColDof(p, k)
    BY <1>5, <1>6, ChannelsApart
  <1>10. ASSUME NEW d \in LiveDofs(p)
         PROVE  (\E j \in 1..n : RowDof(p, j) = d) \/ \E k \in 1..l : ColDof(p, k) = d
    <2>1. Gram(d, d) # 0 /\ (d \in ChannelDofs(p.rows) \/ d \in ChannelDofs(p.cols))
      BY DEF LiveDofs
    <2>2. CASE d \in ChannelDofs(p.rows)
      <3>1. PICK x \in Levels(p.rows) : d = DofAt(p.rows, x)
        BY <1>1, <2>2, ChannelDofsAre
      <3>2. PICK i \in Observations : LevelsOf(p.rows)[i] = x
        BY <1>1, <2>1, <2>2, <3>1, GramDiagonal, ChannelDofsAre
      <3>3. PICK j \in 1..n : R[j] = x
        BY <1>2, <3>2
      <3> QED
        BY <3>1, <3>3 DEF RowDof
    <2>3. CASE d \in ChannelDofs(p.cols)
      <3>1. PICK x \in Levels(p.cols) : d = DofAt(p.cols, x)
        BY <1>1, <2>3, ChannelDofsAre
      <3>2. PICK i \in Observations : LevelsOf(p.cols)[i] = x
        BY <1>1, <2>1, <2>3, <3>1, GramDiagonal, ChannelDofsAre
      <3>3. PICK k \in 1..l : C[k] = x
        BY <1>3, <3>2
      <3> QED
        BY <3>1, <3>3 DEF ColDof
    <2> QED
      BY <2>1, <2>2, <2>3
  <1> HIDE DEF R, C, g, n, l
  <1>11. a \in Seq(Dofs) /\ Len(a) = n /\ b \in Seq(Dofs) /\ Len(b) = l
    BY <1>2, <1>3, <1>5, <1>6
  <1>12. /\ \A j \in 1..n : a[j] = RowDof(p, j)
         /\ \A k \in 1..l : b[k] = ColDof(p, k)
    OBVIOUS
  <1> HIDE DEF a, b
  <1>13. /\ g \in Seq(Dofs) /\ Len(g) = n + l
         /\ \A j \in 1..n : g[j] = RowDof(p, j)
         /\ \A k \in 1..l : g[n + k] = ColDof(p, k)
    <2>1. /\ g \in Seq(Dofs) /\ Len(g) = Len(a) + Len(b)
          /\ \A j \in 1..Len(a) : g[j] = a[j]
          /\ \A k \in 1..Len(b) : g[Len(a) + k] = b[k]
      <3>1. a \in Seq(Dofs) /\ b \in Seq(Dofs)
        BY <1>11
      <3>2. /\ a \o b \in Seq(Dofs) /\ Len(a \o b) = Len(a) + Len(b)
            /\ \A j \in 1..Len(a) : (a \o b)[j] = a[j]
            /\ \A k \in 1..Len(b) : (a \o b)[Len(a) + k] = b[k]
        BY ONLY <3>1, Concat
      <3> QED
        BY <1>4, <3>2
    <2> QED
      BY ONLY <2>1, <1>11, <1>12
  <1>14. \A i \in 1..n + l : i \in 1..n \/ (i - n \in 1..l /\ i = n + (i - n))
    BY <1>2, <1>3
  <1>15. ASSUME NEW i \in 1..n + l, NEW k \in 1..n + l, g[i] = g[k] PROVE i = k
    <2>1. CASE i \in 1..n /\ k \in 1..n
      BY <1>7, <1>13, <1>15, <2>1
    <2>2. CASE i \in 1..n /\ k - n \in 1..l /\ k = n + (k - n)
      BY <1>9, <1>13, <1>15, <2>2
    <2>3. CASE k \in 1..n /\ i - n \in 1..l /\ i = n + (i - n)
      BY <1>9, <1>13, <1>15, <2>3
    <2>4. CASE i - n \in 1..l /\ i = n + (i - n) /\ k - n \in 1..l /\ k = n + (k - n)
      <3>1. i - n = k - n
        BY <1>8, <1>13, <1>15, <2>4
      <3> QED
        BY <1>2, <2>4, <3>1
    <2> QED
      BY <1>14, <2>1, <2>2, <2>3, <2>4
  <1>16. ASSUME NEW d \in LiveDofs(p) PROVE \E i \in 1..n + l : g[i] = d
    <2>1. CASE \E j \in 1..n : RowDof(p, j) = d
      <3>1. PICK j \in 1..n : RowDof(p, j) = d
        BY <2>1
      <3>2. j \in 1..n + l
        BY <1>2, <1>3
      <3> QED
        BY <1>13, <3>1, <3>2
    <2>2. CASE \E k \in 1..l : ColDof(p, k) = d
      <3>1. PICK k \in 1..l : ColDof(p, k) = d
        BY <2>2
      <3>2. n + k \in 1..n + l
        BY <1>2, <1>3
      <3> QED
        BY <1>13, <3>1, <3>2
    <2> QED
      BY <1>10, <2>1, <2>2
  <1>17. /\ \A j \in 1..n : g[j] \in ChannelDofs(p.rows)
         /\ \A k \in 1..l : g[n + k] \in ChannelDofs(p.cols)
    BY <1>5, <1>6, <1>13
  <1> QED
    BY <1>13, <1>15, <1>16, <1>17 DEF g, n, l, R, C

LEMMA RowSame ==
  ASSUME NEW row, NEW S, NEW f, NEW g, RowIs(row, S, f), \A k \in S : g[k] = f[k]
  PROVE  RowIs(row, S, g)
  BY DEF RowIs

LEMMA RowsOfTable ==
  ASSUME DesignIs, NEW p, IsPair(p)
  PROVE  LET t == CrossTab(p)
             n == Len(ActiveLevels(p.rows))
             l == Len(ActiveLevels(p.cols))
         IN /\ t.nRows = n /\ t.nCols = l /\ Len(t.c) = n /\ DOMAIN t.c = 1..n
            /\ \A j \in 1..n : RowIs(t.c[j], 1..l, [k \in 1..l |-> Gram(RowDof(p, j), ColDof(p, k))])
            /\ t.diagonal \in Seq(Int) /\ Len(t.diagonal) = n + l
            /\ \A j \in 1..n : t.diagonal[j] = Gram(RowDof(p, j), RowDof(p, j))
            /\ \A k \in 1..l : t.diagonal[n + k] = Gram(ColDof(p, k), ColDof(p, k))
  <1> DEFINE t == CrossTab(p)
             R == ActiveLevels(p.rows)
             C == ActiveLevels(p.cols)
             n == Len(R)
             l == Len(C)
             obs == ContributionsOf(p)
             a == RowDiagonal(obs, n)
             b == ColDiagonal(obs, l)
  <1>1. IsChannel(p.rows) /\ IsChannel(p.cols)
    BY DEF IsPair
  <1>2. n \in Nat /\ l \in Nat /\ design.nObs \in Nat
    BY <1>1, ActiveIs, ObservationFacts
  <1>3. t = [nRows |-> n, nCols |-> l,
             c |-> IF GoSparse(n, l) THEN SparseRows(obs, n, l) ELSE [j \in 1..n |-> DenseRow(obs, l, j)],
             diagonal |-> a \o b]
    BY DEF CrossTab, Accumulated, ContributionsOf
  <1>4. Observed(obs, design.nObs, l)
    BY ContributionIs DEF Observed, ContributionsOf, Observations
  <1>5. \A j \in 1..n : \A k \in 1..l : Cell(obs, j, k) = Gram(RowDof(p, j), ColDof(p, k))
    BY CellGram
  <1>6. \A j \in 1..n : a[j] = Gram(RowDof(p, j), RowDof(p, j))
    <2> SUFFICES ASSUME NEW j \in 1..n PROVE a[j] = Gram(RowDof(p, j), RowDof(p, j))
      OBVIOUS
    <2>1. a[j] = SumFunction([i \in {i \in DOMAIN obs : obs[i].row = j} |-> obs[i].rowDiag])
      BY DEF RowDiagonal
    <2>2. PICK i \in Observations : TRUE
      BY ObservationFacts DEF Observations
    <2>3. ContributionsOf(p)[i].col \in 1..l
      BY ContributionIs
    <2> HIDE DEF a, l
    <2> QED
      BY <2>1, <2>3, CellGram DEF l
  <1>7. \A k \in 1..l : b[k] = Gram(ColDof(p, k), ColDof(p, k))
    <2> SUFFICES ASSUME NEW k \in 1..l PROVE b[k] = Gram(ColDof(p, k), ColDof(p, k))
      OBVIOUS
    <2>1. b[k] = SumFunction([i \in {i \in DOMAIN obs : obs[i].col = k} |-> obs[i].colDiag])
      BY DEF ColDiagonal
    <2>2. PICK i \in Observations : TRUE
      BY ObservationFacts DEF Observations
    <2>3. ContributionsOf(p)[i].row \in 1..n
      BY ContributionIs
    <2> HIDE DEF b, n
    <2> QED
      BY <2>1, <2>3, CellGram DEF n
  <1>8. /\ \A j \in 1..n : RowDof(p, j) \in Dofs
        /\ \A k \in 1..l : ColDof(p, k) \in Dofs
    <2>1. \A j \in 1..n : R[j] \in Levels(p.rows)
      BY <1>1, ActiveIs
    <2>2. \A k \in 1..l : C[k] \in Levels(p.cols)
      BY <1>1, ActiveIs
    <2> QED
      BY <1>1, <2>1, <2>2, DofFacts DEF RowDof, ColDof
  <1>9. /\ a = [j \in 1..n |-> a[j]] /\ b = [k \in 1..l |-> b[k]]
    BY DEF RowDiagonal, ColDiagonal
  <1> HIDE DEF a, b, obs, R, C, n, l
  <1>10. /\ a \in Seq(Int) /\ Len(a) = n /\ b \in Seq(Int) /\ Len(b) = l
    <2>1. \A j \in 1..n : a[j] \in Int
      BY <1>6, <1>8, GramSymmetric
    <2>2. \A k \in 1..l : b[k] \in Int
      BY <1>7, <1>8, GramSymmetric
    <2>3. a \in [1..n -> Int]
      BY ONLY <1>9, <2>1
    <2>4. b \in [1..l -> Int]
      BY ONLY <1>9, <2>2
    <2> QED
      BY ONLY <1>2, <2>3, <2>4
  <1>11. /\ t.diagonal \in Seq(Int) /\ Len(t.diagonal) = n + l
         /\ \A j \in 1..n : t.diagonal[j] = a[j]
         /\ \A k \in 1..l : t.diagonal[n + k] = b[k]
    <2>1. a \in Seq(Int) /\ b \in Seq(Int)
      BY <1>10
    <2>2. /\ a \o b \in Seq(Int) /\ Len(a \o b) = Len(a) + Len(b)
          /\ \A j \in 1..Len(a) : (a \o b)[j] = a[j]
          /\ \A k \in 1..Len(b) : (a \o b)[Len(a) + k] = b[k]
      BY ONLY <2>1, Concat
    <2>3. t.diagonal = a \o b
      BY <1>3
    <2> HIDE DEF t
    <2> QED
      BY <1>10, <2>2, <2>3
  <1>12. /\ t.nRows = n /\ t.nCols = l
         /\ t.c = IF GoSparse(n, l) THEN SparseRows(obs, n, l) ELSE [j \in 1..n |-> DenseRow(obs, l, j)]
    BY <1>3
  <1> HIDE DEF t
  <1>16. SparseRows(obs, n, l) = [j \in 1..n |-> FreshRow(obs, l, j).row]
    BY <1>2, <1>4, SparseRowsAre
  <1>13. Len(t.c) = n /\ DOMAIN t.c = 1..n
    BY <1>2, <1>12, <1>16
  <1>14. ASSUME NEW j \in 1..n
         PROVE  RowIs(t.c[j], 1..l, [k \in 1..l |-> Gram(RowDof(p, j), ColDof(p, k))])
    <2> DEFINE g == [k \in 1..l |-> Gram(RowDof(p, j), ColDof(p, k))]
    <2>1. t.c[j] = SparseRows(obs, n, l)[j] \/ t.c[j] = DenseRow(obs, l, j)
      BY <1>12
    <2>2. RowIs(SparseRows(obs, n, l)[j], 1..l, Cells(obs, l, j))
      BY <1>2, <1>4, SparseRowsAre
    <2>3. RowIs(DenseRow(obs, l, j), 1..l, Cells(obs, l, j))
      BY <1>2, <1>4, DenseRowIs
    <2>4. \A k \in 1..l : g[k] = Cells(obs, l, j)[k]
      BY <1>5 DEF Cells
    <2> HIDE DEF g
    <2>5. RowIs(t.c[j], 1..l, g)
      BY <2>1, <2>2, <2>3, <2>4, RowSame
    <2> QED
      BY <2>5 DEF g
  <1>15. /\ \A j \in 1..n : t.diagonal[j] = Gram(RowDof(p, j), RowDof(p, j))
         /\ \A k \in 1..l : t.diagonal[n + k] = Gram(ColDof(p, k), ColDof(p, k))
    BY <1>6, <1>7, <1>11
  <1> QED
    BY <1>11, <1>12, <1>13, <1>14, <1>15 DEF t, n, l, R, C

LEMMA TableIs ==
  ASSUME DesignIs, NEW p, IsPair(p)
  PROVE  /\ Tabulates(TableOf(p))
         /\ Splits(TableOf(p), ChannelDofs(p.rows), ChannelDofs(p.cols))
         /\ CrossTab(p).nRows = Len(TableOf(p).c) /\ CrossTab(p).nCols = Columns(TableOf(p))
         /\ \A d \in LiveDofs(p) : \E i \in 1..Len(TableOf(p).globals) : TableOf(p).globals[i] = d
  <1> DEFINE t == CrossTab(p)
             m == TableOf(p)
             g == LocalToGlobal(p)
             n == Len(ActiveLevels(p.rows))
             l == Len(ActiveLevels(p.cols))
  <1>1. m.c = t.c /\ m.diagonal = t.diagonal /\ m.globals = g
    BY DEF TableOf
  <1>2. n \in Nat /\ l \in Nat
    BY ActiveIs DEF IsPair
  <1>3. /\ t.nRows = n /\ t.nCols = l /\ Len(t.c) = n /\ DOMAIN t.c = 1..n
        /\ \A j \in 1..n : RowIs(t.c[j], 1..l, [k \in 1..l |-> Gram(RowDof(p, j), ColDof(p, k))])
        /\ t.diagonal \in Seq(Int) /\ Len(t.diagonal) = n + l
        /\ \A j \in 1..n : t.diagonal[j] = Gram(RowDof(p, j), RowDof(p, j))
        /\ \A k \in 1..l : t.diagonal[n + k] = Gram(ColDof(p, k), ColDof(p, k))
    BY RowsOfTable
  <1>4. /\ g \in Seq(Dofs) /\ Len(g) = n + l
        /\ \A j \in 1..n : g[j] = RowDof(p, j) /\ g[j] \in ChannelDofs(p.rows)
        /\ \A k \in 1..l : g[n + k] = ColDof(p, k) /\ g[n + k] \in ChannelDofs(p.cols)
        /\ \A i, k \in 1..n + l : g[i] = g[k] => i = k
        /\ \A d \in LiveDofs(p) : \E i \in 1..n + l : g[i] = d
    BY LocalDofs
  <1> HIDE DEF t, m, g, n, l
  <1>5. Columns(m) = l /\ Len(m.c) = n /\ Len(m.globals) = n + l
    BY <1>1, <1>2, <1>3, <1>4 DEF Columns
  <1>6. \A i \in 1..n + l : i \in 1..n \/ (i - n \in 1..l /\ i = n + (i - n) /\ ~(i <= n))
    BY <1>2
  <1>7. ASSUME NEW j \in 1..n PROVE RowIs(m.c[j], 1..Columns(m), Across(m, j))
    <2>1. RowIs(m.c[j], 1..l, [k \in 1..l |-> Gram(RowDof(p, j), ColDof(p, k))])
      BY <1>1, <1>3
    <2>2. \A k \in 1..l : Across(m, j)[k] = Gram(RowDof(p, j), ColDof(p, k))
      BY <1>1, <1>4, <1>5 DEF Across
    <2> DEFINE f == [k \in 1..l |-> Gram(RowDof(p, j), ColDof(p, k))]
    <2>3. \A k \in 1..l : Across(m, j)[k] = f[k]
      BY <2>2
    <2>4. RowIs(m.c[j], 1..l, f)
      BY <2>1
    <2> HIDE DEF f
    <2> QED
      BY <1>5, <2>3, <2>4, RowSame
  <1>8. ASSUME NEW i \in 1..n + l
        PROVE  /\ m.diagonal[i] = Gram(m.globals[i], m.globals[i])
               /\ m.globals[i] \in IF i <= n THEN ChannelDofs(p.rows) ELSE ChannelDofs(p.cols)
    <2>1. CASE i \in 1..n
      BY <1>1, <1>3, <1>4, <2>1
    <2>2. CASE i - n \in 1..l /\ i = n + (i - n) /\ ~(i <= n)
      <3> DEFINE k == i - n
      <3>1. k \in 1..l /\ i = n + k /\ ~(i <= n)
        BY <2>2
      <3> HIDE DEF k
      <3> QED
        BY <1>1, <1>3, <1>4, <3>1
    <2> QED
      BY <1>6, <2>1, <2>2
  <1>9. Tabulates(m)
    <2>1. Len(m.c) \in Nat /\ DOMAIN m.c = 1..Len(m.c) /\ Len(m.c) <= Len(m.globals)
      BY <1>1, <1>2, <1>3, <1>5
    <2>2. m.globals \in Seq(Dofs) /\ m.diagonal \in Seq(Int) /\ Len(m.diagonal) = Len(m.globals)
      BY <1>1, <1>3, <1>4
    <2>3. \A i, k \in 1..Len(m.globals) : m.globals[i] = m.globals[k] => i = k
      BY <1>1, <1>4
    <2> QED
      BY <1>5, <1>7, <1>8, <2>1, <2>2, <2>3 DEF Tabulates
  <1>10. Splits(m, ChannelDofs(p.rows), ChannelDofs(p.cols))
    BY <1>5, <1>8 DEF Splits
  <1>11. t.nRows = Len(m.c) /\ t.nCols = Columns(m)
    BY <1>3, <1>5
  <1>12. \A d \in LiveDofs(p) : \E i \in 1..Len(m.globals) : m.globals[i] = d
    BY <1>1, <1>4, <1>5
  <1> QED
    BY <1>9, <1>10, <1>11, <1>12 DEF t, m

-----------------------------------------------------------------------------
(* Rows: what they hold, shifted, transposed. *)

LEMMA RowFacts ==
  ASSUME NEW row, NEW S \in SUBSET Int, NEW val, RowIs(row, S, val)
  PROVE  /\ \A k : k \in ColumnsIn(row) <=> k \in S /\ val[k] # 0
         /\ \A k \in ColumnsIn(row) : ValueAt(row, k) = val[k]
         /\ \A k \in ColumnsIn(row) : \E e \in 1..Len(row) : row[e].at = k
         /\ \A e, f \in 1..Len(row) : row[e].at = row[f].at => e = f
  <1>1. /\ Len(row) \in Nat /\ DOMAIN row = 1..Len(row)
        /\ \A e \in 1..Len(row) : /\ row[e].at \in S
                                  /\ row[e].value = val[row[e].at] /\ val[row[e].at] # 0
        /\ \A e, f \in 1..Len(row) : e < f => row[e].at < row[f].at
        /\ \A k \in S : val[k] # 0 => \E e \in 1..Len(row) : row[e].at = k
    BY DEF RowIs
  <1>2. ASSUME NEW k \in ColumnsIn(row)
        PROVE  /\ k \in S /\ val[k] # 0 /\ \E e \in 1..Len(row) : row[e].at = k
    BY <1>1 DEF ColumnsIn
  <1>3. ASSUME NEW k \in S, val[k] # 0 PROVE k \in ColumnsIn(row)
    BY <1>1, <1>3 DEF ColumnsIn
  <1>4. ASSUME NEW k \in ColumnsIn(row) PROVE ValueAt(row, k) = val[k]
    <2> DEFINE e == CHOOSE e \in DOMAIN row : row[e].at = k
    <2>1. e \in DOMAIN row /\ row[e].at = k
      <3>1. \E x \in DOMAIN row : row[x].at = k
        BY <1>1, <1>2
      <3> QED
        BY <3>1
    <2>2. ValueAt(row, k) = row[e].value
      BY DEF ValueAt
    <2> HIDE DEF e
    <2> QED
      BY <1>1, <2>1, <2>2
  <1>5. ASSUME NEW e \in 1..Len(row), NEW f \in 1..Len(row), row[e].at = row[f].at PROVE e = f
    <2>1. row[e].at \in Int /\ row[f].at \in Int
      BY <1>1
    <2>2. e < f \/ e = f \/ f < e
      BY <1>1
    <2>3. ~(e < f) /\ ~(f < e)
      BY <1>1, <1>5, <2>1
    <2> QED
      BY <2>2, <2>3
  <1> QED
    BY <1>2, <1>3, <1>4, <1>5

Shift(row, s) == [e \in DOMAIN row |-> [row[e] EXCEPT !.at = s + @]]

LEMMA ShiftedIs ==
  ASSUME NEW row, NEW l \in Nat, NEW s \in Nat, NEW val, RowIs(row, 1..l, val),
         NEW g, \A k \in 1..l : g[s + k] = val[k]
  PROVE  RowIs(Shift(row, s), s + 1..s + l, g)
  <1> DEFINE t == Shift(row, s)
             n == Len(row)
  <1>1. /\ n \in Nat /\ DOMAIN row = 1..n
        /\ \A e \in 1..n : /\ row[e] = [at |-> row[e].at, value |-> row[e].value]
                           /\ row[e].at \in 1..l
                           /\ row[e].value = val[row[e].at] /\ val[row[e].at] # 0
        /\ \A e, f \in 1..n : e < f => row[e].at < row[f].at
        /\ \A k \in 1..l : val[k] # 0 => \E e \in 1..n : row[e].at = k
    BY DEF RowIs
  <1> HIDE DEF n
  <1>2. t = [e \in 1..n |-> [row[e] EXCEPT !.at = s + @]]
    BY <1>1 DEF Shift
  <1>3. ASSUME NEW e \in 1..n
        PROVE  /\ t[e] = [at |-> s + row[e].at, value |-> row[e].value]
               /\ t[e].at = s + row[e].at /\ t[e].value = row[e].value
    <2>1. row[e] = [at |-> row[e].at, value |-> row[e].value]
      BY <1>1
    <2>2. t[e] = [row[e] EXCEPT !.at = s + row[e].at]
      BY <1>2
    <2> HIDE DEF t
    <2>3. \A x, y, z : [[at |-> x, value |-> y] EXCEPT !.at = z] = [at |-> z, value |-> y]
      OBVIOUS
    <2>4. t[e] = [at |-> s + row[e].at, value |-> row[e].value]
      BY <2>1, <2>2, <2>3
    <2> QED
      BY <2>4
  <1>4. Len(t) = n /\ DOMAIN t = 1..n
    BY <1>1, <1>2
  <1> HIDE DEF t
  <1>5. ASSUME NEW e \in 1..n
        PROVE  /\ t[e] = [at |-> t[e].at, value |-> t[e].value]
               /\ t[e].at \in s + 1..s + l
               /\ t[e].value = g[t[e].at] /\ g[t[e].at] # 0
    <2>1. row[e].at \in 1..l /\ row[e].value = val[row[e].at] /\ val[row[e].at] # 0
      BY <1>1
    <2>2. s + row[e].at \in s + 1..s + l
      BY ONLY <2>1, s \in Nat, l \in Nat
    <2> QED
      BY <1>3, <2>1, <2>2
  <1>6. ASSUME NEW e \in 1..n, NEW f \in 1..n, e < f PROVE t[e].at < t[f].at
    <2>1. row[e].at < row[f].at /\ row[e].at \in Int /\ row[f].at \in Int
      BY <1>1, <1>6
    <2>2. s + row[e].at < s + row[f].at
      BY ONLY <2>1, s \in Nat
    <2> QED
      BY <1>3, <2>2
  <1>7. ASSUME NEW k \in s + 1..s + l, g[k] # 0 PROVE \E e \in 1..n : t[e].at = k
    <2>1. k - s \in 1..l /\ k = s + (k - s)
      OBVIOUS
    <2>2. val[k - s] # 0
      BY <1>7, <2>1
    <2>3. PICK e \in 1..n : row[e].at = k - s
      BY <1>1, <2>1, <2>2
    <2> QED
      BY <1>3, <2>1, <2>3
  <1>8. RowIs(t, s + 1..s + l, g)
    BY <1>1, <1>4, <1>5, <1>6, <1>7 DEF RowIs
  <1> QED
    BY <1>8 DEF t

LEMMA TransposedIs ==
  ASSUME NEW c, NEW n \in Nat, DOMAIN c = 1..n, NEW l \in Nat, NEW val,
         \A j \in 1..n : RowIs(c[j], 1..l, val[j])
  PROVE  /\ Transposed(c, l) = [k \in 1..l |-> Transposed(c, l)[k]] /\ Len(Transposed(c, l)) = l
         /\ \A k \in 1..l : \A g : (\A j \in 1..n : g[j] = val[j][k])
                                     => RowIs(Transposed(c, l)[k], 1..n, g)
  <1> DEFINE t == Transposed(c, l)
             from(k) == Ascending({j \in DOMAIN c : k \in ColumnsIn(c[j])})
  <1>1. t = [k \in 1..l |->
               [e \in DOMAIN from(k) |-> [at |-> from(k)[e], value |-> ValueAt(c[from(k)[e]], k)]]]
    BY DEF Transposed
  <1>2. t = [k \in 1..l |-> t[k]] /\ Len(t) = l
    <2>1. t = [k \in 1..l |-> t[k]]
      BY <1>1
    <2> HIDE DEF t
    <2> QED
      BY <2>1, LenOfFunction
  <1>3. ASSUME NEW k \in 1..l, NEW g, \A j \in 1..n : g[j] = val[j][k]
        PROVE  RowIs(t[k], 1..n, g)
    <2> DEFINE S == {j \in DOMAIN c : k \in ColumnsIn(c[j])}
               a == Ascending(S)
               r == t[k]
    <2>1. r = [e \in DOMAIN a |-> [at |-> a[e], value |-> ValueAt(c[a[e]], k)]]
      BY <1>1
    <2>2. S \in SUBSET Int /\ IsFiniteSet(S)
      <3>1. IsFiniteSet(1..n) /\ S \in SUBSET (1..n)
        BY FS_Interval
      <3> QED
        BY <3>1, FS_Subset
    <2>3. ASSUME NEW j \in 1..n
          PROVE  /\ j \in S <=> g[j] # 0
                 /\ j \in S => ValueAt(c[j], k) = g[j]
      <3>1. RowIs(c[j], 1..l, val[j]) /\ 1..l \in SUBSET Int
        OBVIOUS
      <3>2. /\ k \in ColumnsIn(c[j]) <=> k \in 1..l /\ val[j][k] # 0
            /\ k \in ColumnsIn(c[j]) => ValueAt(c[j], k) = val[j][k]
        BY ONLY <3>1, RowFacts
      <3>3. g[j] = val[j][k]
        BY <1>3
      <3> QED
        BY <3>2, <3>3
    <2>4. \A j \in S : j \in 1..n
      OBVIOUS
    <2> HIDE DEF S, r
    <2>5. /\ Len(a) \in Nat /\ DOMAIN a = 1..Len(a) /\ \A e \in 1..Len(a) : a[e] \in S
          /\ \A e, f \in 1..Len(a) : e < f => a[e] < a[f]
          /\ \A j \in S : \E e \in 1..Len(a) : a[e] = j
      BY <2>2, AscendingIs
    <2> HIDE DEF a
    <2>6. Len(r) = Len(a) /\ DOMAIN r = 1..Len(a)
      BY <2>1, <2>5
    <2>7. ASSUME NEW e \in 1..Len(a)
          PROVE  /\ r[e] = [at |-> a[e], value |-> ValueAt(c[a[e]], k)]
                 /\ r[e].at = a[e] /\ r[e].value = g[a[e]] /\ g[a[e]] # 0 /\ a[e] \in 1..n
      <3>1. a[e] \in S /\ a[e] \in 1..n
        BY <2>4, <2>5
      <3>2. r[e] = [at |-> a[e], value |-> ValueAt(c[a[e]], k)]
        BY <2>1, <2>5
      <3> QED
        BY <2>3, <3>1, <3>2
    <2>8. ASSUME NEW e \in 1..Len(a), NEW f \in 1..Len(a), e < f PROVE r[e].at < r[f].at
      BY <2>5, <2>7, <2>8
    <2>9. ASSUME NEW j \in 1..n, g[j] # 0 PROVE \E e \in 1..Len(a) : r[e].at = j
      <3>1. PICK e \in 1..Len(a) : a[e] = j
        BY <2>3, <2>5, <2>9
      <3> QED
        BY <2>7, <3>1
    <2>10. \A e \in 1..Len(a) : /\ r[e] = [at |-> r[e].at, value |-> r[e].value]
                                /\ r[e].at \in 1..n /\ r[e].value = g[r[e].at] /\ g[r[e].at] # 0
      <3> SUFFICES ASSUME NEW e \in 1..Len(a)
                   PROVE  /\ r[e] = [at |-> r[e].at, value |-> r[e].value]
                          /\ r[e].at \in 1..n /\ r[e].value = g[r[e].at] /\ g[r[e].at] # 0
        OBVIOUS
      <3>1. r[e] = [at |-> r[e].at, value |-> r[e].value]
        <4>1. \A x, y : [at |-> x, value |-> y] = [at |-> [at |-> x, value |-> y].at,
                                                  value |-> [at |-> x, value |-> y].value]
          OBVIOUS
        <4> QED
          <5> DEFINE z == r[e]
          <5>1. z = [at |-> a[e], value |-> ValueAt(c[a[e]], k)]
            BY <2>7
          <5> HIDE DEF z
          <5>2. z = [at |-> z.at, value |-> z.value]
            BY ONLY <4>1, <5>1
          <5> QED
            BY <5>2 DEF z
      <3> QED
        BY <2>7, <3>1
    <2>11. RowIs(r, 1..n, g)
      BY <2>5, <2>6, <2>8, <2>9, <2>10 DEF RowIs
    <2> QED
      BY <2>11 DEF r
  <1> QED
    BY <1>2, <1>3

(* Of a table, every node's neighbours are on the other side, with the     *)
(* Gram matrix's entries.                                                  *)
Opposite(m, i) == IF i <= Len(m.c) THEN Len(m.c) + 1..Len(m.globals) ELSE 1..Len(m.c)
GramRow(m, i) == [k \in 1..Len(m.globals) |-> Gram(m.globals[i], m.globals[k])]
Adjoins(nb, m) ==
  /\ Len(nb) = Len(m.globals) /\ DOMAIN nb = 1..Len(m.globals)
  /\ \A i \in 1..Len(m.globals) : RowIs(nb[i], Opposite(m, i), GramRow(m, i))

LEMMA TableFacts ==
  ASSUME DesignIs, NEW m, Tabulates(m)
  PROVE  /\ Len(m.c) \in Nat /\ Len(m.globals) \in Nat /\ Columns(m) \in Nat
         /\ Len(m.globals) = Len(m.c) + Columns(m)
         /\ DOMAIN m.c = 1..Len(m.c) /\ DOMAIN m.globals = 1..Len(m.globals)
         /\ DOMAIN m.diagonal = 1..Len(m.globals)
         /\ \A i \in 1..Len(m.globals) : m.globals[i] \in Dofs
         /\ \A i, k \in 1..Len(m.globals) :
              /\ Gram(m.globals[i], m.globals[k]) = Gram(m.globals[k], m.globals[i])
              /\ Gram(m.globals[i], m.globals[k]) \in Int
  <1>1. /\ Len(m.c) \in Nat /\ DOMAIN m.c = 1..Len(m.c)
        /\ m.globals \in Seq(Dofs) /\ m.diagonal \in Seq(Int)
        /\ Len(m.diagonal) = Len(m.globals) /\ Len(m.c) <= Len(m.globals)
    BY DEF Tabulates
  <1>2. \A T, s : s \in Seq(T) => Len(s) \in Nat /\ DOMAIN s = 1..Len(s) /\ \A i \in 1..Len(s) : s[i] \in T
    OBVIOUS
  <1>3. /\ Len(m.globals) \in Nat /\ DOMAIN m.globals = 1..Len(m.globals)
        /\ DOMAIN m.diagonal = 1..Len(m.globals)
        /\ \A i \in 1..Len(m.globals) : m.globals[i] \in Dofs
    BY <1>1, <1>2
  <1>4. Columns(m) \in Nat /\ Len(m.globals) = Len(m.c) + Columns(m)
    <2>1. Columns(m) = Len(m.globals) - Len(m.c) /\ Len(m.globals) \in Nat /\ Len(m.c) \in Nat
          /\ Len(m.c) <= Len(m.globals)
      BY <1>1, <1>3 DEF Columns
    <2> QED
      BY ONLY <2>1
  <1>5. \A i, k \in 1..Len(m.globals) :
          /\ Gram(m.globals[i], m.globals[k]) = Gram(m.globals[k], m.globals[i])
          /\ Gram(m.globals[i], m.globals[k]) \in Int
    BY <1>3, GramSymmetric
  <1> QED
    BY <1>1, <1>3, <1>4, <1>5

LEMMA NeighborsAre ==
  ASSUME DesignIs, NEW m, Tabulates(m)
  PROVE  Adjoins(Neighbors(m.c, Columns(m)), m)
  <1> DEFINE nb == Neighbors(m.c, Columns(m))
             n == Len(m.c)
             l == Columns(m)
             a == [j \in 1..n |-> Shift(m.c[j], n)]
             b == Transposed(m.c, l)
             val == [j \in 1..n |-> Across(m, j)]
  <1>1. /\ n \in Nat /\ l \in Nat /\ Len(m.globals) = n + l /\ DOMAIN m.c = 1..n
        /\ \A i, k \in 1..n + l : Gram(m.globals[i], m.globals[k]) = Gram(m.globals[k], m.globals[i])
    BY TableFacts
  <1>2. \A j \in 1..n : RowIs(m.c[j], 1..l, val[j])
    BY DEF Tabulates
  <1>3. \A j \in 1..n : \A k \in 1..l : val[j][k] = Gram(m.globals[j], m.globals[n + k])
    BY DEF Across
  <1>4. nb = a \o b
    BY <1>1 DEF Neighbors, Shift
  <1> HIDE DEF nb, val, n, l
  <1>5. Len(a) = n /\ DOMAIN a = 1..n /\ \A j \in 1..n : a[j] = Shift(m.c[j], n)
    BY <1>1
  <1>6. b = [k \in 1..l |-> b[k]] /\ Len(b) = l
    BY <1>1, <1>2, TransposedIs
  <1> DEFINE U == {a[j] : j \in 1..n} \cup {b[k] : k \in 1..l}
  <1> HIDE DEF a, b
  <1>7. a \in Seq(U) /\ b \in Seq(U)
    <2>1. a \in [1..n -> U]
      <3>1. a = [j \in 1..n |-> a[j]]
        BY DEF a
      <3> QED
        BY ONLY <3>1
    <2>2. b \in [1..l -> U]
      BY ONLY <1>6
    <2> HIDE DEF U
    <2> QED
      BY ONLY <1>1, <2>1, <2>2
  <1> HIDE DEF U
  <1>8. /\ nb \in Seq(U) /\ Len(nb) = n + l
        /\ \A j \in 1..n : nb[j] = Shift(m.c[j], n)
        /\ \A k \in 1..l : nb[n + k] = b[k]
    <2>1. /\ a \o b \in Seq(U) /\ Len(a \o b) = Len(a) + Len(b)
          /\ \A j \in 1..Len(a) : (a \o b)[j] = a[j]
          /\ \A k \in 1..Len(b) : (a \o b)[Len(a) + k] = b[k]
      BY ONLY <1>7, Concat
    <2> QED
      BY ONLY <1>4, <1>5, <1>6, <2>1
  <1>9. DOMAIN nb = 1..n + l
    BY ONLY <1>8
  <1>10. ASSUME NEW i \in 1..n + l PROVE RowIs(nb[i], Opposite(m, i), GramRow(m, i))
    <2>1. CASE i \in 1..n
      <3>1. Opposite(m, i) = n + 1..n + l
        BY <1>1, <2>1 DEF Opposite, n
      <3>2. \A k \in 1..l : GramRow(m, i)[n + k] = val[i][k]
        <4>1. \A k \in 1..l : n + k \in 1..n + l
          BY ONLY <1>1
        <4> QED
          BY <1>1, <1>3, <2>1, <4>1 DEF GramRow
      <3>3. RowIs(m.c[i], 1..l, val[i])
        BY <1>2, <2>1
      <3>4. RowIs(Shift(m.c[i], n), n + 1..n + l, GramRow(m, i))
        BY ONLY <1>1, <3>2, <3>3, ShiftedIs
      <3> QED
        BY <1>8, <2>1, <3>1, <3>4
    <2>2. CASE i \notin 1..n
      <3> DEFINE k == i - n
      <3>1. k \in 1..l /\ i = n + k /\ ~(i <= n)
        BY <1>1, <2>2
      <3> HIDE DEF k
      <3>2. Opposite(m, i) = 1..n
        BY <3>1 DEF Opposite, n
      <3>3. \A j \in 1..n : GramRow(m, i)[j] = val[j][k]
        <4>1. \A j \in 1..n : j \in 1..n + l
          BY ONLY <1>1
        <4> QED
          BY <1>1, <1>3, <3>1, <4>1 DEF GramRow
      <3>4. RowIs(b[k], 1..n, GramRow(m, i))
        BY <1>1, <1>2, <3>1, <3>3, TransposedIs DEF b
      <3> QED
        BY <1>8, <3>1, <3>2, <3>4
    <2> QED
      BY <2>1, <2>2
  <1>11. Adjoins(nb, m)
    BY <1>1, <1>8, <1>9, <1>10 DEF Adjoins
  <1> QED
    BY <1>11 DEF nb, l

-----------------------------------------------------------------------------
(* The tables of components are tables too. *)

IsSelection(s, n) ==
  /\ Len(s) \in Nat /\ DOMAIN s = 1..Len(s) /\ \A k \in 1..Len(s) : s[k] \in 1..n
  /\ \A j, k \in 1..Len(s) : j < k => s[j] < s[k]
  /\ \A j, k \in 1..Len(s) : s[j] = s[k] => j = k

LEMMA SelectionPositions ==
  ASSUME NEW n \in Nat, NEW s, IsSelection(s, n)
  PROVE  /\ \A x : x \in ToSet(s) <=> \E k \in 1..Len(s) : s[k] = x
         /\ \A x \in ToSet(s) : Position(s, x) \in 1..Len(s) /\ s[Position(s, x)] = x
         /\ \A x, y \in ToSet(s) : x < y => Position(s, x) < Position(s, y)
         /\ \A k \in 1..Len(s) : s[k] \in ToSet(s) /\ Position(s, s[k]) = k
  <1>1. /\ Len(s) \in Nat /\ DOMAIN s = 1..Len(s) /\ \A k \in 1..Len(s) : s[k] \in 1..n
        /\ \A j, k \in 1..Len(s) : j < k => s[j] < s[k]
        /\ \A j, k \in 1..Len(s) : s[j] = s[k] => j = k
    BY DEF IsSelection
  <1>2. \A x : x \in ToSet(s) <=> \E k \in 1..Len(s) : s[k] = x
    BY <1>1 DEF ToSet
  <1>3. ASSUME NEW x \in ToSet(s) PROVE Position(s, x) \in 1..Len(s) /\ s[Position(s, x)] = x
    <2>1. \E k \in DOMAIN s : s[k] = x
      BY <1>1, <1>2
    <2> QED
      BY <1>1, <2>1 DEF Position
  <1>4. ASSUME NEW x \in ToSet(s), NEW y \in ToSet(s), x < y PROVE Position(s, x) < Position(s, y)
    <2> DEFINE j == Position(s, x)
               k == Position(s, y)
    <2>1. j \in 1..Len(s) /\ k \in 1..Len(s) /\ s[j] = x /\ s[k] = y
      BY <1>3
    <2> HIDE DEF j, k
    <2>2. x \in Int /\ y \in Int
      BY <1>1, <2>1
    <2>3. ~(k < j) /\ j # k
      BY <1>1, <1>4, <2>1, <2>2
    <2>4. j < k
      BY <1>1, <2>1, <2>3
    <2> QED
      BY <2>4 DEF j, k
  <1>5. ASSUME NEW k \in 1..Len(s) PROVE s[k] \in ToSet(s) /\ Position(s, s[k]) = k
    BY <1>1, <1>2, <1>3
  <1> QED
    BY <1>2, <1>3, <1>4, <1>5

LEMMA RemappedIs ==
  ASSUME NEW l \in Nat, NEW row, NEW val, RowIs(row, 1..l, val), NEW cols, IsSelection(cols, l),
         NEW g, \A k \in 1..Len(cols) : g[k] = val[cols[k]]
  PROVE  RowIs(Remapped(row, cols), 1..Len(cols), g)
  <1> DEFINE t == Remapped(row, cols)
             n == Len(row)
             S == {e \in DOMAIN row : row[e].at \in ToSet(cols)}
             a == Ascending(S)
             q == Len(cols)
  <1>1. /\ n \in Nat /\ DOMAIN row = 1..n
        /\ \A e \in 1..n : /\ row[e] = [at |-> row[e].at, value |-> row[e].value]
                           /\ row[e].at \in 1..l
                           /\ row[e].value = val[row[e].at] /\ val[row[e].at] # 0
        /\ \A e, f \in 1..n : e < f => row[e].at < row[f].at
        /\ \A k \in 1..l : val[k] # 0 => \E e \in 1..n : row[e].at = k
    BY DEF RowIs
  <1>2. /\ \A x : x \in ToSet(cols) <=> \E k \in 1..q : cols[k] = x
        /\ \A x \in ToSet(cols) : Position(cols, x) \in 1..q /\ cols[Position(cols, x)] = x
        /\ \A x, y \in ToSet(cols) : x < y => Position(cols, x) < Position(cols, y)
        /\ \A k \in 1..q : cols[k] \in ToSet(cols) /\ Position(cols, cols[k]) = k
    BY SelectionPositions
  <1>3. q \in Nat /\ \A k \in 1..q : cols[k] \in 1..l
    BY DEF IsSelection
  <1>4. t = [e \in DOMAIN a |-> [row[a[e]] EXCEPT !.at = Position(cols, @)]]
    BY DEF Remapped
  <1> HIDE DEF t, n, q
  <1>5. S \in SUBSET Int /\ IsFiniteSet(S) /\ (\A e \in S : e \in 1..n /\ row[e].at \in ToSet(cols))
        /\ \A e \in 1..n : row[e].at \in ToSet(cols) => e \in S
    <2>1. IsFiniteSet(1..n) /\ S \in SUBSET (1..n)
      BY <1>1, FS_Interval
    <2>2. IsFiniteSet(S)
      BY <2>1, FS_Subset
    <2> QED
      BY <1>1, <2>1, <2>2
  <1> HIDE DEF S
  <1>6. /\ Len(a) \in Nat /\ DOMAIN a = 1..Len(a) /\ \A e \in 1..Len(a) : a[e] \in S
        /\ \A e, f \in 1..Len(a) : e < f => a[e] < a[f]
        /\ \A j \in S : \E e \in 1..Len(a) : a[e] = j
    BY <1>5, AscendingIs
  <1> HIDE DEF a
  <1>7. Len(t) = Len(a) /\ DOMAIN t = 1..Len(a)
    BY <1>4, <1>6
  <1>8. ASSUME NEW e \in 1..Len(a)
        PROVE  /\ t[e] = [at |-> t[e].at, value |-> t[e].value]
               /\ t[e].at = Position(cols, row[a[e]].at) /\ t[e].value = row[a[e]].value
               /\ row[a[e]].at \in ToSet(cols) /\ a[e] \in 1..n
    <2> DEFINE r == row[a[e]]
               z == t[e]
    <2>1. a[e] \in 1..n /\ r.at \in ToSet(cols) /\ r = [at |-> r.at, value |-> r.value]
      BY <1>1, <1>5, <1>6
    <2>2. z = [r EXCEPT !.at = Position(cols, r.at)]
      BY <1>4, <1>6
    <2> HIDE DEF r, z
    <2>3. \A x, y, w : [[at |-> x, value |-> y] EXCEPT !.at = w] = [at |-> w, value |-> y]
      OBVIOUS
    <2>4. z = [at |-> Position(cols, r.at), value |-> r.value]
      BY <2>1, <2>2, <2>3
    <2>5. z.at = Position(cols, r.at) /\ z.value = r.value /\ z = [at |-> z.at, value |-> z.value]
      BY ONLY <2>4
    <2> QED
      BY <2>1, <2>5 DEF r, z
  <1> HIDE DEF t
  <1>9. ASSUME NEW e \in 1..Len(a)
        PROVE  /\ t[e].at \in 1..q /\ cols[t[e].at] = row[a[e]].at
               /\ t[e].value = g[t[e].at] /\ g[t[e].at] # 0
    <2> DEFINE y == row[a[e]].at
               z == t[e].at
    <2>1. z = Position(cols, y) /\ y \in ToSet(cols) /\ t[e].value = row[a[e]].value
          /\ a[e] \in 1..n
      BY <1>8
    <2>2. row[a[e]].value = val[y] /\ val[y] # 0
      BY <1>1, <2>1
    <2> HIDE DEF y, z
    <2>3. z \in 1..q /\ cols[z] = y
      BY <1>2, <2>1
    <2>4. g[z] = val[y]
      BY <2>3 DEF q
    <2> QED
      BY <2>1, <2>2, <2>3, <2>4 DEF y, z
  <1>10. ASSUME NEW e \in 1..Len(a), NEW f \in 1..Len(a), e < f PROVE t[e].at < t[f].at
    <2>1. a[e] < a[f] /\ a[e] \in 1..n /\ a[f] \in 1..n
      BY <1>6, <1>8, <1>10
    <2>2. row[a[e]].at < row[a[f]].at
      BY <1>1, <2>1
    <2>3. /\ row[a[e]].at \in ToSet(cols) /\ t[e].at = Position(cols, row[a[e]].at)
          /\ row[a[f]].at \in ToSet(cols) /\ t[f].at = Position(cols, row[a[f]].at)
      BY <1>8
    <2>4. Position(cols, row[a[e]].at) < Position(cols, row[a[f]].at)
      BY ONLY <1>2, <2>2, <2>3
    <2> QED
      BY <2>3, <2>4
  <1>11. ASSUME NEW k \in 1..q, g[k] # 0 PROVE \E e \in 1..Len(a) : t[e].at = k
    <2>1. val[cols[k]] # 0 /\ cols[k] \in 1..l
      BY <1>3, <1>11 DEF q
    <2>2. PICK f \in 1..n : row[f].at = cols[k]
      BY <1>1, <2>1
    <2>3. f \in S
      BY <1>2, <1>5, <2>2
    <2>4. PICK e \in 1..Len(a) : a[e] = f
      BY <1>6, <2>3
    <2>5. t[e].at = k
      <3>1. t[e].at = Position(cols, cols[k])
        BY <1>8, <2>2, <2>4
      <3>2. Position(cols, cols[k]) = k
        BY <1>2
      <3> QED
        BY ONLY <3>1, <3>2
    <2> QED
      BY <2>5
  <1>12. RowIs(t, 1..q, g)
    <2>1. \A e \in 1..Len(t) : /\ t[e] = [at |-> t[e].at, value |-> t[e].value]
                               /\ t[e].at \in 1..q
                               /\ t[e].value = g[t[e].at] /\ g[t[e].at] # 0
      BY <1>7, <1>8, <1>9
    <2>2. Len(t) \in Nat /\ DOMAIN t = 1..Len(t)
      BY <1>6, <1>7
    <2>3. \A e, f \in 1..Len(t) : e < f => t[e].at < t[f].at
      BY <1>7, <1>10
    <2>4. \A k \in 1..q : g[k] # 0 => \E e \in 1..Len(t) : t[e].at = k
      BY <1>7, <1>11
    <2> QED
      BY ONLY <2>1, <2>2, <2>3, <2>4 DEF RowIs
  <1> QED
    BY <1>12 DEF t, q

LEMMA ExtractedIs ==
  ASSUME DesignIs, NEW m, Tabulates(m), NEW tab, tab.c = m.c, tab.diagonal = m.diagonal,
         tab.nRows = Len(m.c),
         NEW rows, IsSelection(rows, Len(m.c)), NEW cols, IsSelection(cols, Columns(m))
  PROVE  LET x == Extracted(tab, m.globals, rows, cols)
         IN /\ Tabulates(x) /\ Len(x.c) = Len(rows) /\ Columns(x) = Len(cols)
            /\ \A j \in 1..Len(rows) : x.globals[j] = m.globals[rows[j]]
            /\ \A k \in 1..Len(cols) : x.globals[Len(rows) + k] = m.globals[Len(m.c) + cols[k]]
  <1> DEFINE x == Extracted(tab, m.globals, rows, cols)
             n == Len(m.c)
             l == Columns(m)
             r == Len(rows)
             q == Len(cols)
             a == [j \in 1..r |-> m.diagonal[rows[j]]]
             b == [k \in 1..q |-> m.diagonal[n + cols[k]]]
             g == [j \in 1..r |-> m.globals[rows[j]]]
             h == [k \in 1..q |-> m.globals[n + cols[k]]]
  <1>1. /\ n \in Nat /\ l \in Nat /\ Len(m.globals) = n + l
        /\ \A i \in 1..Len(m.globals) : m.globals[i] \in Dofs
        /\ \A i, k \in 1..Len(m.globals) : Gram(m.globals[i], m.globals[k]) \in Int
    BY TableFacts
  <1>2. /\ \A i \in 1..Len(m.globals) : m.diagonal[i] = Gram(m.globals[i], m.globals[i])
        /\ \A i, k \in 1..Len(m.globals) : m.globals[i] = m.globals[k] => i = k
        /\ \A j \in 1..n : RowIs(m.c[j], 1..l, Across(m, j))
    BY DEF Tabulates
  <1>3. /\ r \in Nat /\ DOMAIN rows = 1..r /\ \A j \in 1..r : rows[j] \in 1..n
        /\ \A i, k \in 1..r : rows[i] = rows[k] => i = k
    BY DEF IsSelection
  <1>4. /\ q \in Nat /\ DOMAIN cols = 1..q /\ \A k \in 1..q : cols[k] \in 1..l
        /\ \A i, k \in 1..q : cols[i] = cols[k] => i = k
    BY DEF IsSelection
  <1>5. x = [c |-> [j \in 1..r |-> Remapped(m.c[rows[j]], cols)],
             diagonal |-> a \o b, globals |-> g \o h]
    BY <1>3, <1>4 DEF Extracted, Gathered
  <1>6. /\ \A j \in 1..r : rows[j] \in 1..n + l
        /\ \A k \in 1..q : n + cols[k] \in 1..n + l
    <2>1. \A i \in 1..n : i \in 1..n + l
      BY ONLY <1>1
    <2>2. \A i \in 1..l : n + i \in 1..n + l
      BY ONLY <1>1
    <2> QED
      BY <1>3, <1>4, <2>1, <2>2
  <1> HIDE DEF x, n, l, r, q
  <1>7. /\ \A j \in 1..r : g[j] = m.globals[rows[j]] /\ g[j] \in Dofs
                           /\ a[j] = Gram(g[j], g[j]) /\ a[j] \in Int
        /\ \A k \in 1..q : h[k] = m.globals[n + cols[k]] /\ h[k] \in Dofs
                           /\ b[k] = Gram(h[k], h[k]) /\ b[k] \in Int
    <2>1. \A i \in 1..n + l : /\ m.diagonal[i] = Gram(m.globals[i], m.globals[i])
                              /\ m.globals[i] \in Dofs /\ m.diagonal[i] \in Int
      <3> SUFFICES ASSUME NEW i \in 1..n + l
                   PROVE  /\ m.diagonal[i] = Gram(m.globals[i], m.globals[i])
                          /\ m.globals[i] \in Dofs /\ m.diagonal[i] \in Int
        OBVIOUS
      <3>1. m.diagonal[i] = Gram(m.globals[i], m.globals[i]) /\ m.globals[i] \in Dofs
        BY <1>1, <1>2
      <3> QED
        BY <3>1, GramSymmetric
    <2>2. ASSUME NEW j \in 1..r
          PROVE  g[j] = m.globals[rows[j]] /\ a[j] = m.diagonal[rows[j]] /\ rows[j] \in 1..n + l
      BY <1>6
    <2>3. ASSUME NEW k \in 1..q
          PROVE  h[k] = m.globals[n + cols[k]] /\ b[k] = m.diagonal[n + cols[k]]
                 /\ n + cols[k] \in 1..n + l
      BY <1>6
    <2> HIDE DEF a, b, g, h
    <2> QED
      BY <2>1, <2>2, <2>3
  <1>8. /\ g = [j \in 1..r |-> g[j]] /\ a = [j \in 1..r |-> a[j]]
        /\ h = [k \in 1..q |-> h[k]] /\ b = [k \in 1..q |-> b[k]]
    OBVIOUS
  <1> HIDE DEF a, b, g, h
  <1>9. /\ g \in [1..r -> Dofs] /\ a \in [1..r -> Int] /\ h \in [1..q -> Dofs] /\ b \in [1..q -> Int]
    BY ONLY <1>7, <1>8
  <1>10. /\ g \in Seq(Dofs) /\ Len(g) = r /\ a \in Seq(Int) /\ Len(a) = r
         /\ h \in Seq(Dofs) /\ Len(h) = q /\ b \in Seq(Int) /\ Len(b) = q
    BY ONLY <1>3, <1>4, <1>9
  <1>11. /\ x.globals \in Seq(Dofs) /\ Len(x.globals) = r + q
         /\ \A j \in 1..r : x.globals[j] = g[j]
         /\ \A k \in 1..q : x.globals[r + k] = h[k]
    <2>1. /\ g \o h \in Seq(Dofs) /\ Len(g \o h) = Len(g) + Len(h)
          /\ \A j \in 1..Len(g) : (g \o h)[j] = g[j]
          /\ \A j \in 1..Len(h) : (g \o h)[Len(g) + j] = h[j]
      BY ONLY <1>10, Concat
    <2>2. x.globals = g \o h
      BY <1>5
    <2> QED
      BY ONLY <1>10, <2>1, <2>2
  <1>12. /\ x.diagonal \in Seq(Int) /\ Len(x.diagonal) = r + q
         /\ \A j \in 1..r : x.diagonal[j] = a[j]
         /\ \A k \in 1..q : x.diagonal[r + k] = b[k]
    <2>1. /\ a \o b \in Seq(Int) /\ Len(a \o b) = Len(a) + Len(b)
          /\ \A j \in 1..Len(a) : (a \o b)[j] = a[j]
          /\ \A j \in 1..Len(b) : (a \o b)[Len(a) + j] = b[j]
      <3>1. a \in Seq(Int) /\ b \in Seq(Int)
        BY <1>10
      <3> QED
        BY ONLY <3>1, Concat
    <2>2. x.diagonal = a \o b
      BY <1>5
    <2> QED
      BY ONLY <1>10, <2>1, <2>2
  <1>13. /\ Len(x.c) = r /\ DOMAIN x.c = 1..r
         /\ \A j \in 1..r : x.c[j] = Remapped(m.c[rows[j]], cols)
    BY <1>3, <1>5
  <1>14. Columns(x) = q
    BY ONLY <1>3, <1>4, <1>11, <1>13 DEF Columns
  <1>15. \A i \in 1..r + q : i \in 1..r \/ (i - r \in 1..q /\ i = r + (i - r))
    BY ONLY <1>3, <1>4
  <1>16. ASSUME NEW i \in 1..r + q PROVE x.diagonal[i] = Gram(x.globals[i], x.globals[i])
    <2>1. CASE i \in 1..r
      BY <1>7, <1>11, <1>12, <2>1
    <2>2. CASE i - r \in 1..q /\ i = r + (i - r)
      <3> DEFINE k == i - r
      <3>1. k \in 1..q /\ i = r + k
        BY <2>2
      <3> HIDE DEF k
      <3> QED
        BY <1>7, <1>11, <1>12, <3>1
    <2> QED
      BY <1>15, <2>1, <2>2
  <1> DEFINE at(i) == IF i \in 1..r THEN rows[i] ELSE n + cols[i - r]
  <1>17. ASSUME NEW i \in 1..r + q
         PROVE  at(i) \in 1..n + l /\ x.globals[i] = m.globals[at(i)]
    <2>1. CASE i \in 1..r
      BY <1>6, <1>7, <1>11, <2>1
    <2>2. CASE i \notin 1..r /\ i - r \in 1..q /\ i = r + (i - r)
      <3> DEFINE k == i - r
      <3>1. k \in 1..q /\ i = r + k /\ at(i) = n + cols[k]
        BY <2>2
      <3> HIDE DEF k, at
      <3> QED
        BY <1>6, <1>7, <1>11, <3>1
    <2> QED
      BY <1>15, <2>1, <2>2
  <1>18. ASSUME NEW i \in 1..r + q, NEW k \in 1..r + q, at(i) = at(k) PROVE i = k
    <2>1. CASE i \in 1..r /\ k \in 1..r
      BY <1>3, <1>18, <2>1
    <2>2. CASE i \in 1..r /\ k \notin 1..r
      <3>1. rows[i] \in 1..n /\ cols[k - r] \in 1..l /\ rows[i] = n + cols[k - r]
        BY <1>3, <1>4, <1>15, <1>18, <2>2
      <3> QED
        BY ONLY <1>1, <3>1
    <2>3. CASE i \notin 1..r /\ k \in 1..r
      <3>1. rows[k] \in 1..n /\ cols[i - r] \in 1..l /\ rows[k] = n + cols[i - r]
        BY <1>3, <1>4, <1>15, <1>18, <2>3
      <3> QED
        BY ONLY <1>1, <3>1
    <2>4. CASE i \notin 1..r /\ k \notin 1..r
      <3>1. /\ i - r \in 1..q /\ k - r \in 1..q /\ i = r + (i - r) /\ k = r + (k - r)
            /\ n + cols[i - r] = n + cols[k - r]
        BY <1>15, <1>18, <2>4
      <3>2. cols[i - r] = cols[k - r]
        <4>1. cols[i - r] \in Int /\ cols[k - r] \in Int
          BY <1>4, <3>1
        <4> QED
          BY ONLY <1>1, <3>1, <4>1
      <3>3. i - r = k - r
        BY <1>4, <3>1, <3>2
      <3> QED
        BY ONLY <1>3, <3>1, <3>3
    <2> QED
      BY <2>1, <2>2, <2>3, <2>4
  <1> HIDE DEF at
  <1>19. ASSUME NEW i \in 1..r + q, NEW k \in 1..r + q, x.globals[i] = x.globals[k] PROVE i = k
    <2>1. at(i) = at(k)
      <3>1. /\ at(i) \in 1..Len(m.globals) /\ at(k) \in 1..Len(m.globals)
            /\ m.globals[at(i)] = m.globals[at(k)]
        BY <1>1, <1>17, <1>19
      <3> QED
        BY <1>2, <3>1
    <2> QED
      BY <1>18, <2>1
  <1>20. ASSUME NEW j \in 1..r PROVE RowIs(x.c[j], 1..q, Across(x, j))
    <2>1. RowIs(m.c[rows[j]], 1..l, Across(m, rows[j]))
      BY <1>2, <1>3
    <2>2. \A k \in 1..q : Across(x, j)[k] = Across(m, rows[j])[cols[k]]
      <3> SUFFICES ASSUME NEW k \in 1..q PROVE Across(x, j)[k] = Across(m, rows[j])[cols[k]]
        OBVIOUS
      <3>1. Across(x, j)[k] = Gram(x.globals[j], x.globals[r + k])
        BY <1>13, <1>14 DEF Across
      <3>2. Across(m, rows[j])[cols[k]] = Gram(m.globals[rows[j]], m.globals[n + cols[k]])
        BY <1>4 DEF Across, n, l
      <3> QED
        BY <1>7, <1>11, <3>1, <3>2
    <2>3. RowIs(Remapped(m.c[rows[j]], cols), 1..Len(cols), Across(x, j))
      BY <1>1, <2>1, <2>2, RemappedIs DEF q, l
    <2> QED
      BY <1>13, <2>3 DEF q
  <1>21. Tabulates(x)
    <2>1. Len(x.c) \in Nat /\ DOMAIN x.c = 1..Len(x.c) /\ Len(x.c) <= Len(x.globals)
          /\ Len(x.diagonal) = Len(x.globals)
      BY ONLY <1>3, <1>4, <1>11, <1>12, <1>13
    <2>2. \A j \in 1..Len(x.c) : RowIs(x.c[j], 1..Columns(x), Across(x, j))
      BY <1>13, <1>14, <1>20
    <2>3. /\ \A i \in 1..Len(x.globals) : x.diagonal[i] = Gram(x.globals[i], x.globals[i])
          /\ \A i, k \in 1..Len(x.globals) : x.globals[i] = x.globals[k] => i = k
      BY <1>11, <1>16, <1>19
    <2> QED
      BY <1>11, <1>12, <2>1, <2>2, <2>3 DEF Tabulates
  <1> QED
    BY <1>7, <1>11, <1>13, <1>14, <1>21 DEF x, r, q, n

LEMMA AscendingSelects ==
  ASSUME NEW n \in Nat, NEW S \in SUBSET (1..n)
  PROVE  /\ IsSelection(Ascending(S), n)
         /\ \A x : x \in S <=> \E k \in 1..Len(Ascending(S)) : Ascending(S)[k] = x
  <1> DEFINE a == Ascending(S)
  <1>1. S \in SUBSET Int /\ IsFiniteSet(S)
    <2>1. IsFiniteSet(1..n)
      BY FS_Interval
    <2>2. IsFiniteSet(S)
      BY <2>1, FS_Subset
    <2> QED
      BY <2>2
  <1>2. /\ Cardinality(S) \in Nat
        /\ a \in [1..Cardinality(S) -> S] /\ Len(a) = Cardinality(S)
        /\ DOMAIN a = 1..Len(a)
        /\ \A j, k \in 1..Len(a) : j < k => a[j] < a[k]
        /\ \A j, k \in 1..Len(a) : a[j] = a[k] => j = k
        /\ \A x \in S : \E k \in 1..Len(a) : a[k] = x
    BY <1>1, AscendingIs
  <1> HIDE DEF a
  <1>3. Len(a) \in Nat /\ \A k \in 1..Len(a) : a[k] \in S /\ a[k] \in 1..n
    BY <1>2
  <1> QED
    BY <1>2, <1>3 DEF IsSelection, a

TableLike(tab, m) == tab.c = m.c /\ tab.diagonal = m.diagonal /\ tab.nRows = Len(m.c)
GlobalsOf(m, nodes) == {m.globals[i] : i \in nodes}

LEMMA ComponentIs ==
  ASSUME DesignIs, NEW m, Tabulates(m), NEW tab, TableLike(tab, m),
         NEW nodes \in SUBSET (1..Len(m.globals)), NEW A, NEW B, Splits(m, A, B)
  PROVE  LET x == ExtractComponent(tab, m.globals, nodes)
         IN /\ Tabulates(x) /\ Splits(x, A, B)
            /\ ToSet(x.globals) = GlobalsOf(m, nodes)
  <1> DEFINE n == Len(m.c)
             l == Columns(m)
             R == {i \in nodes : i <= n}
             C == {i - n : i \in {k \in nodes : k > n}}
             rows == Ascending(R)
             cols == Ascending(C)
             x == ExtractComponent(tab, m.globals, nodes)
  <1>1. n \in Nat /\ l \in Nat /\ Len(m.globals) = n + l
    BY TableFacts
  <1>2. x = Extracted(tab, m.globals, rows, cols)
    BY DEF ExtractComponent, TableLike
  <1>3. R \in SUBSET (1..n) /\ C \in SUBSET (1..l)
    <2> HIDE DEF n, l
    <2> QED
      BY <1>1
  <1>4. /\ \A i \in 1..n : i \in R <=> i \in nodes
        /\ \A k \in 1..l : k \in C <=> n + k \in nodes
    <2>1. ASSUME NEW k \in 1..l, k \in C PROVE n + k \in nodes
      <3>1. PICK i \in nodes : i > n /\ k = i - n
        BY <2>1
      <3>2. i = n + k
        BY <1>1, <3>1
      <3> QED
        BY <3>1, <3>2
    <2>2. ASSUME NEW k \in 1..l, n + k \in nodes PROVE k \in C
      <3>1. n + k > n /\ k = (n + k) - n
        BY <1>1
      <3> QED
        BY <2>2, <3>1
    <2>3. ASSUME NEW i \in 1..n PROVE i \in R <=> i \in nodes
      BY <1>1
    <2> QED
      BY <2>1, <2>2, <2>3
  <1> HIDE DEF R, C
  <1>5. /\ IsSelection(rows, n) /\ IsSelection(cols, l)
        /\ \A i : i \in R <=> \E j \in 1..Len(rows) : rows[j] = i
        /\ \A i : i \in C <=> \E k \in 1..Len(cols) : cols[k] = i
    BY <1>1, <1>3, AscendingSelects
  <1> HIDE DEF rows, cols, x
  <1>6. /\ Tabulates(x) /\ Len(x.c) = Len(rows) /\ Columns(x) = Len(cols)
        /\ \A j \in 1..Len(rows) : x.globals[j] = m.globals[rows[j]]
        /\ \A k \in 1..Len(cols) : x.globals[Len(rows) + k] = m.globals[n + cols[k]]
    BY <1>2, <1>5, ExtractedIs DEF TableLike
  <1> DEFINE r == Len(rows)
             q == Len(cols)
  <1>7. /\ r \in Nat /\ q \in Nat /\ Len(x.globals) = r + q /\ DOMAIN x.globals = 1..r + q
        /\ \A j \in 1..r : rows[j] \in 1..n /\ rows[j] \in nodes
        /\ \A k \in 1..q : cols[k] \in 1..l /\ n + cols[k] \in nodes
    <2>1. Len(x.globals) = Len(x.c) + Columns(x) /\ DOMAIN x.globals = 1..Len(x.globals)
      BY <1>6, TableFacts
    <2>2. /\ r \in Nat /\ q \in Nat /\ \A j \in 1..r : rows[j] \in 1..n
          /\ \A k \in 1..q : cols[k] \in 1..l
      BY <1>5 DEF IsSelection
    <2>3. /\ \A j \in 1..r : rows[j] \in R
          /\ \A k \in 1..q : cols[k] \in C
      BY <1>5
    <2> HIDE DEF r, q, l, n
    <2> QED
      BY <1>4, <1>6, <2>1, <2>2, <2>3 DEF r, q
  <1>8. /\ \A j \in 1..r : x.globals[j] = m.globals[rows[j]]
        /\ \A k \in 1..q : x.globals[r + k] = m.globals[n + cols[k]]
        /\ Len(x.c) = r
    BY <1>6
  <1>9. /\ \A i \in R : \E j \in 1..r : rows[j] = i
        /\ \A i \in C : \E k \in 1..q : cols[k] = i
    BY <1>5
  <1> HIDE DEF r, q, n, l
  <1>10. \A i \in 1..r + q : i \in 1..r \/ (i - r \in 1..q /\ i = r + (i - r) /\ ~(i <= r))
    BY ONLY <1>7
  <1>11. Splits(x, A, B)
    <2> SUFFICES ASSUME NEW i \in 1..r + q PROVE x.globals[i] \in IF i <= r THEN A ELSE B
      BY <1>7, <1>8 DEF Splits
    <2>1. CASE i \in 1..r
      <3>1. rows[i] \in 1..Len(m.globals) /\ rows[i] <= n
        <4>1. rows[i] \in 1..n
          BY <1>7, <2>1
        <4> QED
          BY ONLY <1>1, <4>1
      <3>2. m.globals[rows[i]] \in A
        BY <3>1 DEF Splits, n
      <3> QED
        BY <1>8, <2>1, <3>2
    <2>2. CASE i - r \in 1..q /\ i = r + (i - r) /\ ~(i <= r)
      <3> DEFINE k == i - r
      <3>1. k \in 1..q /\ i = r + k /\ ~(i <= r)
        BY <2>2
      <3> HIDE DEF k
      <3>2. n + cols[k] \in 1..Len(m.globals) /\ ~(n + cols[k] <= n)
        <4>1. cols[k] \in 1..l
          BY <1>7, <3>1
        <4> QED
          BY ONLY <1>1, <4>1
      <3>3. m.globals[n + cols[k]] \in B
        BY <3>2 DEF Splits, n
      <3> QED
        BY <1>8, <3>1, <3>3
    <2> QED
      BY <1>10, <2>1, <2>2
  <1>12. ASSUME NEW i \in nodes PROVE m.globals[i] \in ToSet(x.globals)
    <2>1. i \in 1..n \/ (i - n \in 1..l /\ i = n + (i - n))
      BY ONLY <1>1, i \in nodes, nodes \in SUBSET (1..Len(m.globals))
    <2>2. CASE i \in 1..n
      <3>1. PICK j \in 1..r : rows[j] = i
        BY <1>4, <1>9, <2>2
      <3>2. j \in DOMAIN x.globals
        BY ONLY <1>7, j \in 1..r
      <3> QED
        BY <1>8, <3>1, <3>2 DEF ToSet
    <2>3. CASE i - n \in 1..l /\ i = n + (i - n)
      <3> DEFINE y == i - n
      <3>1. y \in 1..l /\ i = n + y
        BY <2>3
      <3> HIDE DEF y
      <3>2. PICK k \in 1..q : cols[k] = y
        BY <1>4, <1>9, <3>1
      <3>3. r + k \in DOMAIN x.globals
        BY ONLY <1>7, k \in 1..q
      <3> QED
        BY <1>8, <3>1, <3>2, <3>3 DEF ToSet
    <2> QED
      BY <2>1, <2>2, <2>3
  <1>13. ASSUME NEW i \in 1..r + q PROVE x.globals[i] \in GlobalsOf(m, nodes)
    <2>1. CASE i \in 1..r
      BY <1>7, <1>8, <2>1 DEF GlobalsOf
    <2>2. CASE i - r \in 1..q /\ i = r + (i - r) /\ ~(i <= r)
      <3> DEFINE k == i - r
      <3>1. k \in 1..q /\ i = r + k
        BY <2>2
      <3> HIDE DEF k
      <3> QED
        BY <1>7, <1>8, <3>1 DEF GlobalsOf
    <2> QED
      BY <1>10, <2>1, <2>2
  <1>14. ToSet(x.globals) = GlobalsOf(m, nodes)
    BY <1>7, <1>12, <1>13 DEF ToSet, GlobalsOf
  <1> QED
    BY <1>6, <1>11, <1>14 DEF x

LEMMA RotatedIs ==
  ASSUME NEW T, NEW n \in Nat, NEW s \in Seq(T), n <= Len(s)
  PROVE  /\ Rotated(s, n) \in Seq(T) /\ Len(Rotated(s, n)) = Len(s)
         /\ \A k \in 1..Len(s) - n : Rotated(s, n)[k] = s[n + k]
         /\ \A j \in 1..n : Rotated(s, n)[Len(s) - n + j] = s[j]
  <1> DEFINE a == SubSeq(s, n + 1, Len(s))
             b == SubSeq(s, 1, n)
             l == Len(s) - n
  <1>0. l \in Nat /\ Len(s) = n + l
    OBVIOUS
  <1>1. a \in Seq(T) /\ Len(a) = l /\ \A k \in 1..l : a[k] = s[n + k]
    OBVIOUS
  <1>2. b \in Seq(T) /\ Len(b) = n /\ \A j \in 1..n : b[j] = s[j]
    OBVIOUS
  <1> HIDE DEF a, b, l
  <1>3. /\ a \o b \in Seq(T) /\ Len(a \o b) = Len(a) + Len(b)
        /\ \A j \in 1..Len(a) : (a \o b)[j] = a[j]
        /\ \A j \in 1..Len(b) : (a \o b)[Len(a) + j] = b[j]
    <2>1. a \in Seq(T) /\ b \in Seq(T)
      BY ONLY <1>1, <1>2
    <2> QED
      BY ONLY <2>1, Concat
  <1>4. Rotated(s, n) = a \o b
    BY DEF Rotated, a, b
  <1>5. l + n = n + l
    BY <1>0
  <1>6. /\ Rotated(s, n) \in Seq(T) /\ Len(Rotated(s, n)) = Len(s)
        /\ \A k \in 1..l : Rotated(s, n)[k] = s[n + k]
        /\ \A j \in 1..n : Rotated(s, n)[l + j] = s[j]
    BY ONLY <1>0, <1>1, <1>2, <1>3, <1>4, <1>5
  <1> QED
    BY <1>6 DEF l

LEMMA OrientedIs ==
  ASSUME DesignIs, NEW x, Tabulates(x), NEW A, NEW B, Splits(x, A, B)
  PROVE  LET y == OrientForElimination(x)
         IN /\ Tabulates(y) /\ Columns(y) <= Len(y.c)
            /\ Splits(y, A, B) \/ Splits(y, B, A)
            /\ ToSet(y.globals) = ToSet(x.globals)
  <1> DEFINE y == OrientForElimination(x)
             n == Len(x.c)
             l == Columns(x)
             val == [j \in 1..n |-> Across(x, j)]
  <1>1. /\ n \in Nat /\ l \in Nat /\ Len(x.globals) = n + l /\ Len(x.diagonal) = n + l
        /\ DOMAIN x.c = 1..n /\ DOMAIN x.globals = 1..n + l
        /\ x.globals \in Seq(Dofs) /\ x.diagonal \in Seq(Int)
        /\ \A i \in 1..n + l : x.diagonal[i] = Gram(x.globals[i], x.globals[i])
        /\ \A i, k \in 1..n + l : x.globals[i] = x.globals[k] => i = k
        /\ \A i, k \in 1..n + l : Gram(x.globals[i], x.globals[k]) = Gram(x.globals[k], x.globals[i])
        /\ \A j \in 1..n : RowIs(x.c[j], 1..l, Across(x, j))
    BY TableFacts DEF Tabulates
  <1>2. Len(x.diagonal) - Len(x.c) = l
    BY <1>1
  <1>3. CASE l <= n
    <2>1. y = x
      BY <1>2, <1>3 DEF OrientForElimination
    <2> QED
      BY <1>3, <2>1
  <1>4. CASE ~(l <= n)
    <2>1. y = [c |-> Transposed(x.c, l), diagonal |-> Rotated(x.diagonal, n),
               globals |-> Rotated(x.globals, n)]
      BY <1>2, <1>4 DEF OrientForElimination
    <2> DEFINE t == Transposed(x.c, l)
    <2>2. y.c = t /\ y.diagonal = Rotated(x.diagonal, n) /\ y.globals = Rotated(x.globals, n)
      BY <2>1
    <2> HIDE DEF y, n, l, val
    <2>3. /\ y.globals \in Seq(Dofs) /\ Len(y.globals) = n + l
          /\ \A k \in 1..l : y.globals[k] = x.globals[n + k]
          /\ \A j \in 1..n : y.globals[l + j] = x.globals[j]
      <3> DEFINE z == x.globals
                 T == Dofs
      <3>1. n \in Nat /\ l \in Nat /\ z \in Seq(T) /\ Len(z) = n + l
        BY ONLY <1>1
      <3>2. y.globals = Rotated(z, n)
        BY ONLY <2>2
      <3> HIDE DEF z, T
      <3>4. n <= Len(z) /\ Len(z) - n = l
        BY ONLY <3>1
      <3>5. /\ Rotated(z, n) \in Seq(T) /\ Len(Rotated(z, n)) = Len(z)
            /\ \A k \in 1..Len(z) - n : Rotated(z, n)[k] = z[n + k]
            /\ \A j \in 1..n : Rotated(z, n)[Len(z) - n + j] = z[j]
        BY ONLY <3>1, <3>4, RotatedIs
      <3>3. /\ Rotated(z, n) \in Seq(T) /\ Len(Rotated(z, n)) = n + l
            /\ \A k \in 1..l : Rotated(z, n)[k] = z[n + k]
            /\ \A j \in 1..n : Rotated(z, n)[l + j] = z[j]
        BY ONLY <3>1, <3>4, <3>5
      <3> QED
        BY ONLY <3>2, <3>3 DEF z, T
    <2>4. /\ y.diagonal \in Seq(Int) /\ Len(y.diagonal) = n + l
          /\ \A k \in 1..l : y.diagonal[k] = x.diagonal[n + k]
          /\ \A j \in 1..n : y.diagonal[l + j] = x.diagonal[j]
      <3> DEFINE z == x.diagonal
                 T == Int
      <3>1. n \in Nat /\ l \in Nat /\ z \in Seq(T) /\ Len(z) = n + l
        BY ONLY <1>1
      <3>2. y.diagonal = Rotated(z, n)
        BY ONLY <2>2
      <3> HIDE DEF z, T
      <3>4. n <= Len(z) /\ Len(z) - n = l
        BY ONLY <3>1
      <3>5. /\ Rotated(z, n) \in Seq(T) /\ Len(Rotated(z, n)) = Len(z)
            /\ \A k \in 1..Len(z) - n : Rotated(z, n)[k] = z[n + k]
            /\ \A j \in 1..n : Rotated(z, n)[Len(z) - n + j] = z[j]
        BY ONLY <3>1, <3>4, RotatedIs
      <3>3. /\ Rotated(z, n) \in Seq(T) /\ Len(Rotated(z, n)) = n + l
            /\ \A k \in 1..l : Rotated(z, n)[k] = z[n + k]
            /\ \A j \in 1..n : Rotated(z, n)[l + j] = z[j]
        BY ONLY <3>1, <3>4, <3>5
      <3> QED
        BY ONLY <3>2, <3>3 DEF z, T
    <2>5. \A j \in 1..n : RowIs(x.c[j], 1..l, val[j])
      BY <1>1 DEF val
    <2>6. /\ y.c = [k \in 1..l |-> y.c[k]] /\ Len(y.c) = l /\ DOMAIN y.c = 1..l
          /\ \A k \in 1..l : \A g : (\A j \in 1..n : g[j] = val[j][k]) => RowIs(y.c[k], 1..n, g)
      <3>1. /\ t = [k \in 1..l |-> t[k]] /\ Len(t) = l
            /\ \A k \in 1..l : \A g : (\A j \in 1..n : g[j] = val[j][k]) => RowIs(t[k], 1..n, g)
        <4>1. n \in Nat /\ l \in Nat /\ DOMAIN x.c = 1..n
          BY <1>1
        <4> HIDE DEF val, n, l
        <4> QED
          BY <4>1, <2>5, TransposedIs DEF t
      <3> HIDE DEF t
      <3> QED
        BY <2>2, <3>1
    <2> HIDE DEF t
    <2>7. Columns(y) = n
      BY ONLY <1>1, <2>3, <2>6 DEF Columns
    <2>8. \A i \in 1..n + l : i \in 1..l \/ (i - l \in 1..n /\ i = l + (i - l) /\ ~(i <= l))
      BY ONLY <1>1
    <2>9. /\ \A k \in 1..l : n + k \in 1..n + l
          /\ \A j \in 1..n : j \in 1..n + l /\ l + j \in 1..n + l
          /\ \A k \in 1..l : k \in 1..n + l
      BY ONLY <1>1
    <2> DEFINE at(i) == IF i \in 1..l THEN n + i ELSE i - l
    <2>10. ASSUME NEW i \in 1..n + l
           PROVE  /\ at(i) \in 1..n + l /\ y.globals[i] = x.globals[at(i)]
                  /\ y.diagonal[i] = x.diagonal[at(i)]
      <3>1. CASE i \in 1..l
        BY <2>3, <2>4, <2>9, <3>1
      <3>2. CASE i \notin 1..l /\ i - l \in 1..n /\ i = l + (i - l)
        <4> DEFINE j == i - l
        <4>1. j \in 1..n /\ i = l + j /\ at(i) = j
          BY <3>2
        <4> HIDE DEF j, at
        <4> QED
          BY <2>3, <2>4, <2>9, <4>1
      <3> QED
        BY <2>8, <3>1, <3>2
    <2>11. ASSUME NEW i \in 1..n + l, NEW k \in 1..n + l, at(i) = at(k) PROVE i = k
      BY ONLY <1>1, <2>11, <2>8, i \in 1..n + l, k \in 1..n + l
    <2>12. \A i \in 1..n + l : \E k \in 1..n + l : at(k) = i
      <3> SUFFICES ASSUME NEW i \in 1..n + l PROVE \E k \in 1..n + l : at(k) = i
        OBVIOUS
      <3>1. CASE i \in 1..n
        <4>1. l + i \in 1..n + l /\ l + i \notin 1..l /\ (l + i) - l = i
          BY ONLY <1>1, <3>1
        <4> QED
          BY <4>1
      <3>2. CASE i \notin 1..n
        <4>1. i - n \in 1..l /\ i - n \in 1..n + l /\ n + (i - n) = i
          BY ONLY <1>1, <3>2, i \in 1..n + l
        <4> QED
          BY <4>1
      <3> QED
        BY <3>1, <3>2
    <2> HIDE DEF at
    <2>13. ASSUME NEW k \in 1..l PROVE RowIs(y.c[k], 1..n, Across(y, k))
      <3>1. \A j \in 1..n : Across(y, k)[j] = val[j][k]
        <4> SUFFICES ASSUME NEW j \in 1..n PROVE Across(y, k)[j] = val[j][k]
          OBVIOUS
        <4>1. Across(y, k)[j] = Gram(y.globals[k], y.globals[l + j])
          BY <2>6, <2>7 DEF Across
        <4>2. val[j][k] = Gram(x.globals[j], x.globals[n + k])
          BY DEF val, Across, n, l
        <4> QED
          BY <1>1, <2>3, <2>9, <4>1, <4>2
      <3> QED
        BY <2>6, <3>1
    <2>14. Tabulates(y)
      <3>1. Len(y.c) \in Nat /\ DOMAIN y.c = 1..Len(y.c) /\ Len(y.c) <= Len(y.globals)
            /\ Len(y.diagonal) = Len(y.globals)
        BY ONLY <1>1, <2>3, <2>4, <2>6
      <3>2. \A i \in 1..Len(y.globals) : y.diagonal[i] = Gram(y.globals[i], y.globals[i])
        <4> SUFFICES ASSUME NEW i \in 1..n + l
                     PROVE  y.diagonal[i] = Gram(y.globals[i], y.globals[i])
          <5>1. Len(y.globals) = n + l
            BY ONLY <2>3
          <5> QED
            BY <5>1
        <4>1. /\ at(i) \in 1..n + l /\ y.globals[i] = x.globals[at(i)]
              /\ y.diagonal[i] = x.diagonal[at(i)]
          BY <2>10
        <4> QED
          BY ONLY <1>1, <4>1
      <3>3. \A i, k \in 1..Len(y.globals) : y.globals[i] = y.globals[k] => i = k
        <4> SUFFICES ASSUME NEW i \in 1..n + l, NEW k \in 1..n + l, y.globals[i] = y.globals[k]
                     PROVE  i = k
          BY <2>3
        <4>2. at(i) \in 1..n + l /\ at(k) \in 1..n + l
          BY <2>10
        <4>3. x.globals[at(i)] = x.globals[at(k)]
          BY <2>10
        <4>1. at(i) = at(k)
          BY ONLY <1>1, <4>2, <4>3
        <4> QED
          BY <2>11, <4>1
      <3>4. \A k \in 1..Len(y.c) : RowIs(y.c[k], 1..Columns(y), Across(y, k))
        BY <2>6, <2>7, <2>13
      <3> QED
        BY <2>3, <2>4, <3>1, <3>2, <3>3, <3>4 DEF Tabulates
    <2>15. Splits(y, B, A)
      <3> SUFFICES ASSUME NEW i \in 1..n + l PROVE y.globals[i] \in IF i <= l THEN B ELSE A
        BY <2>3, <2>6 DEF Splits
      <3>1. x.globals[at(i)] \in IF at(i) <= n THEN A ELSE B
        BY <1>1, <2>10 DEF Splits, n
      <3>2. at(i) <= n <=> ~(i <= l)
        BY ONLY <1>1, <2>8, i \in 1..n + l DEF at
      <3> QED
        BY <2>10, <3>1, <3>2
    <2>16. ToSet(y.globals) = ToSet(x.globals)
      <3>1. DOMAIN y.globals = 1..n + l /\ DOMAIN x.globals = 1..n + l
        BY ONLY <1>1, <2>3
      <3>2. ASSUME NEW i \in 1..n + l PROVE y.globals[i] \in ToSet(x.globals)
        BY <2>10, <3>1 DEF ToSet
      <3>3. ASSUME NEW i \in 1..n + l PROVE x.globals[i] \in ToSet(y.globals)
        <4>1. PICK k \in 1..n + l : at(k) = i
          BY <2>12
        <4>2. y.globals[k] = x.globals[i]
          BY <2>10, <4>1
        <4> QED
          BY <3>1, <4>2 DEF ToSet
      <3> QED
        BY ONLY <3>1, <3>2, <3>3 DEF ToSet
    <2>17. Columns(y) <= Len(y.c)
      BY ONLY <1>1, <1>4, <2>6, <2>7
    <2> QED
      BY <2>14, <2>15, <2>16, <2>17 DEF y
  <1> QED
    BY <1>3, <1>4

-----------------------------------------------------------------------------
-----------------------------------------------------------------------------
(* A symmetric adjacency, and what a walk over it keeps.                   *)

IsGraph(nb, n) ==
  /\ n \in Nat /\ Len(nb) = n /\ DOMAIN nb = 1..n
  /\ \A i \in 1..n : ColumnsIn(nb[i]) \in SUBSET (1..n)
  /\ \A i, j \in 1..n : j \in ColumnsIn(nb[i]) => i \in ColumnsIn(nb[j])

Linked(nb, C) ==
  \A S \in SUBSET C : S # {} /\ S # C => \E i \in S, j \in C \ S : j \in ColumnsIn(nb[i])
Shut(nb, C) == \A i \in C : ColumnsIn(nb[i]) \in SUBSET C

(* What is added next to a member leaves a set linked.                     *)
LEMMA LinkedGrows ==
  ASSUME NEW n, NEW nb, IsGraph(nb, n), NEW C \in SUBSET (1..n), Linked(nb, C), NEW x \in C,
         NEW N \in SUBSET ColumnsIn(nb[x])
  PROVE  Linked(nb, C \cup N)
  <1> SUFFICES ASSUME NEW S \in SUBSET (C \cup N), S # {}, S # C \cup N
               PROVE  \E i \in S, j \in (C \cup N) \ S : j \in ColumnsIn(nb[i])
    BY DEF Linked
  <1>1. \A j \in N : j \in 1..n /\ j \in ColumnsIn(nb[x]) /\ x \in ColumnsIn(nb[j])
    BY DEF IsGraph
  <1>2. CASE S \cap C # {} /\ S \cap C # C
    <2>1. PICK i \in S \cap C, j \in C \ (S \cap C) : j \in ColumnsIn(nb[i])
      BY <1>2 DEF Linked
    <2> QED
      BY <2>1
  <1>3. CASE S \cap C = C
    <2>1. PICK j \in N : j \notin S
      BY <1>3
    <2> QED
      BY <1>1, <1>3, <2>1
  <1>4. CASE S \cap C = {}
    <2>1. PICK i \in S : i \in N
      BY <1>4
    <2> QED
      BY <1>1, <1>4, <2>1
  <1> QED
    BY <1>2, <1>3, <1>4

Distinct(s) == \A i, k \in 1..Len(s) : s[i] = s[k] => i = k

LEMMA PopIs ==
  ASSUME NEW T, NEW s \in Seq(T), s # <<>>, Distinct(s)
  PROVE  /\ Last(s) \in T /\ Last(s) \in ToSet(s) /\ Front(s) \in Seq(T) /\ Distinct(Front(s))
         /\ ToSet(Front(s)) = ToSet(s) \ {Last(s)}
  <1>1. Len(s) \in Nat \ {0} /\ DOMAIN s = 1..Len(s) /\ Len(s) \in 1..Len(s)
    OBVIOUS
  <1>0. /\ \A i \in 1..Len(s) - 1 : i \in 1..Len(s) /\ i # Len(s)
        /\ \A i \in 1..Len(s) : i = Len(s) \/ i \in 1..Len(s) - 1
    <2> DEFINE n == Len(s)
    <2>1. n \in Nat \ {0}
      BY <1>1
    <2> HIDE DEF n
    <2>2. /\ \A i \in 1..n - 1 : i \in 1..n /\ i # n
          /\ \A i \in 1..n : i = n \/ i \in 1..n - 1
      BY ONLY <2>1
    <2> QED
      BY <2>2 DEF n
  <1>2. /\ Front(s) \in Seq(T) /\ Len(Front(s)) = Len(s) - 1 /\ DOMAIN Front(s) = 1..Len(s) - 1
        /\ \A i \in 1..Len(s) - 1 : Front(s)[i] = s[i] /\ i \in 1..Len(s) /\ i # Len(s)
    <2>1. \A i \in 1..Len(s) - 1 : i \in 1..Len(s) /\ i # Len(s)
      BY <1>0
    <2>2. /\ Front(s) \in Seq(T) /\ Len(Front(s)) = Len(s) - 1
          /\ \A i \in 1..Len(s) - 1 : Front(s)[i] = s[i]
      BY <1>1 DEF Front
    <2>3. DOMAIN Front(s) = 1..Len(Front(s))
      BY ONLY <2>2
    <2> QED
      BY ONLY <2>1, <2>2, <2>3
  <1>3. Last(s) = s[Len(s)] /\ Last(s) \in T
    BY <1>1 DEF Last
  <1>4. \A i \in 1..Len(s) : i = Len(s) \/ i \in 1..Len(s) - 1
    BY <1>0
  <1>5. Distinct(Front(s))
    BY ONLY <1>2, Distinct(s) DEF Distinct
  <1>6. Last(s) \in ToSet(s)
    BY <1>1, <1>3 DEF ToSet
  <1>7. ASSUME NEW y \in ToSet(Front(s)) PROVE y \in ToSet(s) \ {Last(s)}
    <2>1. PICK i \in 1..Len(s) - 1 : y = s[i]
      BY <1>2 DEF ToSet
    <2>2. i \in 1..Len(s) /\ i # Len(s)
      BY <1>2
    <2>3. y # Last(s)
      BY ONLY <1>1, <1>3, <2>1, <2>2, Distinct(s) DEF Distinct
    <2> QED
      BY <1>1, <2>1, <2>2, <2>3 DEF ToSet
  <1>8. ASSUME NEW y \in ToSet(s) \ {Last(s)} PROVE y \in ToSet(Front(s))
    <2>1. PICK i \in 1..Len(s) : y = s[i]
      BY <1>1 DEF ToSet
    <2>2. i \in 1..Len(s) - 1
      BY <1>3, <1>4, <2>1
    <2> QED
      BY <1>2, <2>1, <2>2 DEF ToSet
  <1> QED
    BY <1>2, <1>3, <1>5, <1>6, <1>7, <1>8

LEMMA ConcatSets ==
  ASSUME NEW T, NEW a \in Seq(T), NEW b \in Seq(T)
  PROVE  /\ ToSet(a \o b) = ToSet(a) \cup ToSet(b)
         /\ Distinct(a) /\ Distinct(b) /\ ToSet(a) \cap ToSet(b) = {} => Distinct(a \o b)
  <1> DEFINE c == a \o b
             m == Len(a)
             l == Len(b)
  <1>1. /\ c \in Seq(T) /\ Len(c) = m + l /\ m \in Nat /\ l \in Nat
        /\ \A j \in 1..m : c[j] = a[j]
        /\ \A j \in 1..l : c[m + j] = b[j]
    BY Concat
  <1>2. DOMAIN a = 1..m /\ DOMAIN b = 1..l /\ DOMAIN c = 1..m + l
    BY <1>1
  <1> HIDE DEF c, m, l
  <1>3. \A i \in 1..m + l : i \in 1..m \/ \E j \in 1..l : i = m + j
    <2> SUFFICES ASSUME NEW i \in 1..m + l, i \notin 1..m PROVE \E j \in 1..l : i = m + j
      OBVIOUS
    <2>1. i - m \in 1..l /\ i = m + (i - m)
      BY <1>1
    <2> QED
      BY <2>1
  <1>4. \A j \in 1..m : j \in 1..m + l
    BY <1>1
  <1>5. \A j \in 1..l : m + j \in 1..m + l
    BY <1>1
  <1>6. ToSet(c) = ToSet(a) \cup ToSet(b)
    <2>1. ASSUME NEW y \in ToSet(c) PROVE y \in ToSet(a) \cup ToSet(b)
      <3>1. PICK i \in 1..m + l : y = c[i]
        BY <1>2 DEF ToSet
      <3> QED
        BY <1>1, <1>2, <1>3, <3>1 DEF ToSet
    <2>2. ASSUME NEW y \in ToSet(a) PROVE y \in ToSet(c)
      BY <1>1, <1>2, <1>4 DEF ToSet
    <2>3. ASSUME NEW y \in ToSet(b) PROVE y \in ToSet(c)
      BY <1>1, <1>2, <1>5 DEF ToSet
    <2> QED
      BY <2>1, <2>2, <2>3
  <1>7. ASSUME Distinct(a), Distinct(b), ToSet(a) \cap ToSet(b) = {} PROVE Distinct(c)
    <2>1. \A i, k \in 1..m : a[i] = a[k] => i = k
      BY <1>7 DEF Distinct, m
    <2>2. \A i, k \in 1..l : b[i] = b[k] => i = k
      BY <1>7 DEF Distinct, l
    <2>3. \A i \in 1..m, k \in 1..l : a[i] # b[k]
      BY <1>2, <1>7 DEF ToSet
    <2>4. ASSUME NEW i \in 1..m + l, NEW k \in 1..m + l, c[i] = c[k] PROVE i = k
      <3>1. CASE i \in 1..m /\ k \in 1..m
        BY <1>1, <2>1, <2>4, <3>1
      <3>2. CASE i \in 1..m /\ k \notin 1..m
        <4>1. PICK y \in 1..l : k = m + y
          BY <1>3, <3>2
        <4>2. c[i] = a[i] /\ c[k] = b[y]
          BY <1>1, <3>2, <4>1
        <4> QED
          BY <2>3, <2>4, <3>2, <4>2
      <3>3. CASE i \notin 1..m /\ k \in 1..m
        <4>1. PICK y \in 1..l : i = m + y
          BY <1>3, <3>3
        <4>2. c[k] = a[k] /\ c[i] = b[y]
          BY <1>1, <3>3, <4>1
        <4> QED
          BY <2>3, <2>4, <3>3, <4>2
      <3>4. CASE i \notin 1..m /\ k \notin 1..m
        <4>1. PICK y \in 1..l : i = m + y
          BY <1>3, <3>4
        <4>2. PICK x \in 1..l : k = m + x
          BY <1>3, <3>4
        <4>3. c[i] = b[y] /\ c[k] = b[x]
          BY <1>1, <4>1, <4>2
        <4> QED
          BY <2>2, <2>4, <4>1, <4>2, <4>3
      <3> QED
        BY <3>1, <3>2, <3>3, <3>4
    <2> QED
      BY ONLY <1>1, <2>4 DEF Distinct
  <1> QED
    BY <1>6, <1>7 DEF c

-----------------------------------------------------------------------------
(* One walk.                                                               *)

WalkStates(n) ==
  [visited : SUBSET (1..n), stack : Seq(1..n), nodes : SUBSET (1..n), found : Seq(SUBSET (1..n))]

LEMMA Within ==
  ASSUME NEW n \in Nat, NEW S \in SUBSET (1..n)
  PROVE  S \in SUBSET Int /\ IsFiniteSet(S) /\ Cardinality(S) \in Nat /\ Cardinality(S) <= n
  <1>1. IsFiniteSet(1..n) /\ Cardinality(1..n) = n
    <2>1. 1 \in Int /\ n \in Int /\ n - 1 + 1 = n
      OBVIOUS
    <2>2. IsFiniteSet(1..n) /\ Cardinality(1..n) = IF 1 > n THEN 0 ELSE n - 1 + 1
      BY <2>1, FS_Interval
    <2> QED
      BY <2>1, <2>2
  <1>2. IsFiniteSet(S) /\ Cardinality(S) <= Cardinality(1..n)
    BY <1>1, FS_Subset
  <1> QED
    BY <1>1, <1>2, FS_CardinalityType

LEMMA AscendingStack ==
  ASSUME NEW n \in Nat, NEW S \in SUBSET (1..n)
  PROVE  Ascending(S) \in Seq(1..n) /\ Distinct(Ascending(S)) /\ ToSet(Ascending(S)) = S
  <1> DEFINE a == Ascending(S)
  <1>1. IsSelection(a, n) /\ \A x : x \in S <=> \E k \in 1..Len(a) : a[k] = x
    BY AscendingSelects
  <1>2. a = [k \in 1..Len(a) |-> a[k]]
    <2>1. S \in SUBSET Int /\ IsFiniteSet(S)
      BY Within
    <2> QED
      BY <2>1, AscendingIs
  <1> HIDE DEF a
  <1>3. a \in Seq(1..n)
    BY <1>1, <1>2 DEF IsSelection
  <1>4. Distinct(a)
    BY <1>1 DEF IsSelection, Distinct
  <1>5. ToSet(a) = S
    <2>1. ToSet(a) = {a[k] : k \in 1..Len(a)}
      BY <1>2 DEF ToSet
    <2> QED
      BY <1>1, <2>1
  <1> QED
    BY <1>3, <1>4, <1>5 DEF a

LEMMA PoppedIs ==
  ASSUME NEW n, NEW nb, IsGraph(nb, n), NEW s \in WalkStates(n), s.stack # <<>>, Distinct(s.stack)
  PROVE  LET x   == Last(s.stack)
             new == ColumnsIn(nb[x]) \ s.visited
             t   == Popped(nb, s)
         IN /\ x \in 1..n /\ x \in ToSet(s.stack) /\ new \in SUBSET (1..n)
            /\ t \in WalkStates(n)
            /\ t.found = s.found /\ t.nodes = s.nodes \cup {x} /\ t.visited = s.visited \cup new
            /\ ToSet(t.stack) = (ToSet(s.stack) \ {x}) \cup new
            /\ (ToSet(s.stack) \ {x}) \cap new = {} => Distinct(t.stack)
  <1> DEFINE x   == Last(s.stack)
             new == ColumnsIn(nb[x]) \ s.visited
             a   == Ascending(new)
             f   == Front(s.stack)
  <1>1. s.stack \in Seq(1..n) /\ n \in Nat
    BY DEF WalkStates, IsGraph
  <1>2. /\ x \in 1..n /\ x \in ToSet(s.stack) /\ f \in Seq(1..n) /\ Distinct(f)
        /\ ToSet(f) = ToSet(s.stack) \ {x}
    BY <1>1, PopIs
  <1>3. new \in SUBSET (1..n)
    BY <1>2 DEF IsGraph
  <1> HIDE DEF new, x, f
  <1>4. a \in Seq(1..n) /\ Distinct(a) /\ ToSet(a) = new
    BY <1>1, <1>3, AscendingStack
  <1>5. Popped(nb, s) = [visited |-> s.visited \cup new, stack |-> f \o a,
                         nodes |-> s.nodes \cup {x}, found |-> s.found]
    <2>1. Popped(nb, s) = Discovered(Pop(s, x), a)
      BY DEF Popped, Visit, x, new, a
    <2>2. Pop(s, x) = [s EXCEPT !.stack = f, !.nodes = s.nodes \cup {x}]
      BY DEF Pop, f
    <2>3. s = [visited |-> s.visited, stack |-> s.stack, nodes |-> s.nodes, found |-> s.found]
      BY DEF WalkStates
    <2>4. Pop(s, x) = [visited |-> s.visited, stack |-> f, nodes |-> s.nodes \cup {x},
                       found |-> s.found]
      BY <2>2, <2>3
    <2>5. Discovered(Pop(s, x), a) = [visited |-> s.visited \cup new, stack |-> f \o a,
                                      nodes |-> s.nodes \cup {x}, found |-> s.found]
      <3> DEFINE p == Pop(s, x)
      <3>1. /\ p.visited = s.visited /\ p.stack = f /\ p.nodes = s.nodes \cup {x}
            /\ p.found = s.found
            /\ p = [visited |-> p.visited, stack |-> p.stack, nodes |-> p.nodes, found |-> p.found]
        BY ONLY <2>4
      <3>2. Discovered(p, a) = [p EXCEPT !.visited = p.visited \cup new, !.stack = p.stack \o a]
        BY <1>4 DEF Discovered
      <3> HIDE DEF p
      <3>3. Discovered(p, a) = [visited |-> p.visited \cup new, stack |-> p.stack \o a,
                                nodes |-> p.nodes, found |-> p.found]
        BY ONLY <3>1, <3>2
      <3> QED
        BY <3>1, <3>3 DEF p
    <2> QED
      BY <2>1, <2>5
  <1> HIDE DEF a
  <1>6. f \o a \in Seq(1..n) /\ ToSet(f \o a) = ToSet(f) \cup ToSet(a)
    BY <1>2, <1>4, ConcatSets
  <1>7. ToSet(f) \cap ToSet(a) = {} => Distinct(f \o a)
    BY <1>2, <1>4, ConcatSets
  <1>8. Popped(nb, s) \in WalkStates(n)
    <2>1. /\ s.visited \cup new \in SUBSET (1..n) /\ s.nodes \cup {x} \in SUBSET (1..n)
          /\ s.found \in Seq(SUBSET (1..n))
      BY <1>2, <1>3 DEF WalkStates
    <2> QED
      BY ONLY <1>5, <1>6, <2>1 DEF WalkStates
  <1>9. /\ Popped(nb, s).found = s.found /\ Popped(nb, s).nodes = s.nodes \cup {x}
        /\ Popped(nb, s).visited = s.visited \cup new /\ Popped(nb, s).stack = f \o a
    BY <1>5 DEF WalkStates
  <1>10. ToSet(Popped(nb, s).stack) = (ToSet(s.stack) \ {x}) \cup new
    BY <1>2, <1>4, <1>6, <1>9
  <1>11. (ToSet(s.stack) \ {x}) \cap new = {} => Distinct(Popped(nb, s).stack)
    BY <1>2, <1>4, <1>7, <1>9
  <1> QED
    BY <1>2, <1>3, <1>8, <1>9, <1>10, <1>11 DEF x, new

WalkInv(nb, n, B, start, found, k, s) ==
  /\ s \in WalkStates(n) /\ s.found = found /\ Distinct(s.stack)
  /\ s.visited = B \cup s.nodes \cup ToSet(s.stack)
  /\ s.nodes \cap B = {} /\ ToSet(s.stack) \cap (B \cup s.nodes) = {}
  /\ start \in s.nodes \cup ToSet(s.stack)
  /\ \A i \in s.nodes : ColumnsIn(nb[i]) \in SUBSET (s.nodes \cup ToSet(s.stack))
  /\ Linked(nb, s.nodes \cup ToSet(s.stack))
  /\ s.stack = <<>> \/ Cardinality(s.nodes) >= k

LEMMA WalkStep ==
  ASSUME NEW n, NEW nb, IsGraph(nb, n), NEW B \in SUBSET (1..n), Shut(nb, B), NEW start, NEW found,
         NEW k \in 1..n, NEW s, WalkInv(nb, n, B, start, found, k - 1, s)
  PROVE  WalkInv(nb, n, B, start, found, k, Popped(nb, s))
  <1>1. CASE s.stack = <<>>
    BY <1>1 DEF Popped, WalkInv
  <1>2. CASE s.stack # <<>>
    <2> DEFINE x   == Last(s.stack)
               new == ColumnsIn(nb[x]) \ s.visited
               t   == Popped(nb, s)
               K   == ToSet(s.stack)
    <2>1. /\ x \in 1..n /\ x \in K /\ new \in SUBSET (1..n) /\ t \in WalkStates(n)
          /\ t.found = s.found /\ t.nodes = s.nodes \cup {x} /\ t.visited = s.visited \cup new
          /\ ToSet(t.stack) = (K \ {x}) \cup new
          /\ (K \ {x}) \cap new = {} => Distinct(t.stack)
      BY <1>2, PoppedIs DEF WalkInv
    <2>2. /\ s.visited = B \cup s.nodes \cup K
          /\ s.nodes \cap B = {} /\ K \cap (B \cup s.nodes) = {}
          /\ start \in s.nodes \cup K
          /\ \A i \in s.nodes : ColumnsIn(nb[i]) \in SUBSET (s.nodes \cup K)
          /\ Linked(nb, s.nodes \cup K) /\ Cardinality(s.nodes) >= k - 1
          /\ s.nodes \in SUBSET (1..n) /\ s.found = found /\ s.visited \in SUBSET (1..n)
      BY <1>2 DEF WalkInv, WalkStates
    <2>3. new \in SUBSET ColumnsIn(nb[x]) /\ new \cap s.visited = {}
          /\ ColumnsIn(nb[x]) \in SUBSET (s.visited \cup new) /\ ColumnsIn(nb[x]) \in SUBSET (1..n)
      BY <2>1 DEF IsGraph
    <2> HIDE DEF x, new, t, K
    <2>4. Distinct(t.stack)
      BY <2>1, <2>2, <2>3
    <2>5. t.nodes \cup ToSet(t.stack) = (s.nodes \cup K) \cup new
      BY <2>1
    <2>6. Linked(nb, t.nodes \cup ToSet(t.stack))
      <3>1. s.nodes \cup K \in SUBSET (1..n) /\ x \in s.nodes \cup K
        BY <2>1, <2>2
      <3>2. Linked(nb, (s.nodes \cup K) \cup new)
        BY <2>2, <2>3, <3>1, LinkedGrows
      <3> QED
        BY <2>5, <3>2
    <2>7. ColumnsIn(nb[x]) \cap B = {}
      <3> SUFFICES ASSUME NEW j \in B, j \in ColumnsIn(nb[x]) PROVE FALSE
        OBVIOUS
      <3>1. x \in ColumnsIn(nb[j])
        BY <2>1 DEF IsGraph
      <3>2. x \in B
        BY <3>1 DEF Shut
      <3> QED
        BY <2>1, <2>2, <3>2
    <2>8. \A i \in t.nodes : ColumnsIn(nb[i]) \in SUBSET (t.nodes \cup ToSet(t.stack))
      <3> SUFFICES ASSUME NEW i \in t.nodes, NEW j \in ColumnsIn(nb[i])
                   PROVE  j \in t.nodes \cup ToSet(t.stack)
        OBVIOUS
      <3>1. CASE i = x
        BY <2>2, <2>3, <2>5, <2>7, <3>1
      <3>2. CASE i \in s.nodes
        BY <2>2, <2>5, <3>2
      <3> QED
        BY <2>1, <3>1, <3>2
    <2>9. Cardinality(t.nodes) >= k
      <3>1. IsFiniteSet(s.nodes) /\ x \notin s.nodes
        BY <2>1, <2>2, Within DEF IsGraph
      <3>2. Cardinality(s.nodes) \in Nat /\ Cardinality(t.nodes) = Cardinality(s.nodes) + 1
        BY <2>1, <3>1, FS_AddElement, FS_CardinalityType
      <3> QED
        BY <2>2, <3>2
    <2>10. t.visited = B \cup t.nodes \cup ToSet(t.stack)
      BY <2>1, <2>2
    <2>11. t.nodes \cap B = {} /\ ToSet(t.stack) \cap (B \cup t.nodes) = {}
      BY <2>1, <2>2, <2>3
    <2>12. start \in t.nodes \cup ToSet(t.stack)
      BY <2>2, <2>5
    <2>13. WalkInv(nb, n, B, start, found, k, t)
      BY <2>1, <2>2, <2>4, <2>6, <2>8, <2>9, <2>10, <2>11, <2>12 DEF WalkInv
    <2> QED
      BY <2>13 DEF t
  <1> QED
    BY <1>1, <1>2

Stacked(n) == {s \in WalkStates(n) : Distinct(s.stack) /\ ToSet(s.stack) \in SUBSET s.visited}

LEMMA PoppedIn ==
  ASSUME NEW n, NEW nb, IsGraph(nb, n), NEW s \in Stacked(n)
  PROVE  Popped(nb, s) \in Stacked(n)
  <1>1. CASE s.stack = <<>>
    BY <1>1 DEF Popped
  <1>2. CASE s.stack # <<>>
    <2> DEFINE x   == Last(s.stack)
               new == ColumnsIn(nb[x]) \ s.visited
               t   == Popped(nb, s)
    <2>1. s \in WalkStates(n) /\ Distinct(s.stack) /\ ToSet(s.stack) \in SUBSET s.visited
      BY DEF Stacked
    <2>2. /\ t \in WalkStates(n) /\ t.visited = s.visited \cup new
          /\ ToSet(t.stack) = (ToSet(s.stack) \ {x}) \cup new
          /\ (ToSet(s.stack) \ {x}) \cap new = {} => Distinct(t.stack)
      BY <1>2, <2>1, PoppedIs
    <2> HIDE DEF t
    <2>3. new \cap s.visited = {}
      OBVIOUS
    <2> HIDE DEF new, x
    <2>4. t \in Stacked(n)
      BY <2>1, <2>2, <2>3 DEF Stacked
    <2> QED
      BY <2>4 DEF t
  <1> QED
    BY <1>1, <1>2

(* A walk from a node not visited yet finds what the node reaches.         *)
LEMMA WalkedIs ==
  ASSUME NEW n, NEW nb, IsGraph(nb, n), NEW s \in WalkStates(n), Shut(nb, s.visited),
         s.stack = <<>>, s.nodes = {}, NEW start \in (1..n) \ s.visited
  PROVE  LET t == Walked(nb, Discovered(s, <<start>>))
         IN /\ t \in WalkStates(n) /\ t.stack = <<>> /\ t.found = s.found
            /\ t.visited = s.visited \cup t.nodes /\ t.nodes \cap s.visited = {} /\ start \in t.nodes
            /\ Shut(nb, t.nodes) /\ Linked(nb, t.nodes)
  <1> DEFINE base == Discovered(s, <<start>>)
             Step == [z \in Stacked(n) \X (1..n) |-> Popped(nb, z[1])]
             B    == s.visited
             run  == CHOOSE run : run = [k \in 0..Len(nb) |->
                                           IF k = 0 THEN base ELSE Popped(nb, run[k - 1])]
  <1>1. n \in Nat /\ Len(nb) = n /\ n \in 0..n
    BY DEF IsGraph
  <1>2. base = [visited |-> B \cup {start}, stack |-> <<start>>, nodes |-> {}, found |-> s.found]
    <2>1. s = [visited |-> s.visited, stack |-> <<>>, nodes |-> {}, found |-> s.found]
      BY DEF WalkStates
    <2>2. <<>> \o <<start>> = <<start>> /\ ToSet(<<start>>) = {start}
      BY DEF ToSet
    <2>3. Discovered(s, <<start>>) = [s EXCEPT !.visited = s.visited \cup ToSet(<<start>>),
                                               !.stack = s.stack \o <<start>>]
      BY DEF Discovered
    <2>4. /\ s = [visited |-> s.visited, stack |-> s.stack, nodes |-> s.nodes, found |-> s.found]
          /\ s.stack = <<>> /\ s.nodes = {}
      BY <2>1
    <2> DEFINE v == s.visited \cup ToSet(<<start>>)
               k == s.stack \o <<start>>
    <2>5. v = s.visited \cup {start} /\ k = <<start>>
      BY <2>2, <2>4
    <2> HIDE DEF v, k
    <2>6. Discovered(s, <<start>>) = [s EXCEPT !.visited = v, !.stack = k]
      BY <2>3 DEF v, k
    <2>7. Discovered(s, <<start>>) = [visited |-> v, stack |-> k, nodes |-> s.nodes,
                                      found |-> s.found]
      BY ONLY <2>4, <2>6
    <2> QED
      BY <2>4, <2>5, <2>7 DEF B, base
  <1>3. B \in SUBSET (1..n) /\ s.found \in Seq(SUBSET (1..n))
    BY DEF WalkStates
  <1> HIDE DEF base, B
  <1>4. base \in WalkStates(n) /\ Distinct(base.stack) /\ ToSet(base.stack) = {start}
    BY <1>2, <1>3 DEF WalkStates, Distinct, ToSet
  <1>5. base \in Stacked(n)
    BY <1>2, <1>4 DEF Stacked
  <1>6. Step \in [Stacked(n) \X (1..n) -> Stacked(n)]
    BY PoppedIn
  <1>7. run = [k \in 0..n |-> IF k = 0 THEN base ELSE Popped(nb, run[k - 1])]
    <2>1. PICK r : r = [k \in 0..n |-> IF k = 0 THEN base ELSE Step[<<r[k - 1], k>>]]
      <3> DEFINE V == Stacked(n)
      <3> HIDE DEF V, Step
      <3>1. base \in V /\ Step \in [V \X (1..n) -> V]
        BY <1>5, <1>6 DEF V
      <3>2. \E r : Runs(r, n, base, Step)
        BY ONLY <1>1, <3>1, RunExists
      <3> QED
        BY ONLY <3>2 DEF Runs
    <2>2. \A k \in 0..n : k = 0 \/ (k \in 1..n /\ k - 1 \in 0..n)
      BY <1>1
    <2> DEFINE T == {k \in 0..n : r[k] \in Stacked(n)}
    <2>3. \A k \in 0..n : k \in T
      <3>1. 0 \in T
        BY <1>1, <1>5, <2>1
      <3>2. ASSUME NEW k \in 1..n, k - 1 \in T PROVE k \in T
        <4>1. k \in 0..n /\ k # 0
          BY <1>1
        <4>2. r[k] = Step[<<r[k - 1], k>>] /\ r[k - 1] \in Stacked(n)
          BY <2>1, <3>2, <4>1
        <4> QED
          BY <1>6, <4>1, <4>2
      <3> HIDE DEF T
      <3> QED
        BY <1>1, <3>1, <3>2, CountedUp
    <2>4. ASSUME NEW k \in 1..n PROVE Step[<<r[k - 1], k>>] = Popped(nb, r[k - 1])
      <3>1. k - 1 \in 0..n
        BY <1>1
      <3> QED
        BY <2>3, <3>1
    <2> HIDE DEF Step, T
    <2>5. ASSUME NEW k \in 0..n
          PROVE  (IF k = 0 THEN base ELSE Step[<<r[k - 1], k>>])
                   = IF k = 0 THEN base ELSE Popped(nb, r[k - 1])
      BY <2>2, <2>4
    <2>6. r = [k \in 0..n |-> IF k = 0 THEN base ELSE Popped(nb, r[k - 1])]
      BY <2>1, <2>5
    <2>7. r = [k \in 0..Len(nb) |-> IF k = 0 THEN base ELSE Popped(nb, r[k - 1])]
      BY <1>1, <2>6
    <2>8. run = [k \in 0..Len(nb) |-> IF k = 0 THEN base ELSE Popped(nb, run[k - 1])]
      BY ONLY <2>7
    <2> QED
      BY <1>1, <2>8
  <1>8. Walked(nb, base) = run[n]
    BY <1>1 DEF Walked
  <1> HIDE DEF run, Step
  <1> DEFINE I(k, z) == WalkInv(nb, n, B, start, s.found, k, z)
             T == {k \in 0..n : I(k, run[k])}
  <1>9. 0 \in T
    <2>1. run[0] = base
      BY <1>1, <1>7
    <2>2. {} \cup ToSet(base.stack) = {start}
      BY <1>4
    <2>3. Linked(nb, {} \cup ToSet(base.stack))
      BY <2>2 DEF Linked
    <2>4. /\ base.visited = B \cup {start} /\ base.nodes = {} /\ base.found = s.found /\ start \notin B
      BY <1>2 DEF B
    <2>5. Cardinality(base.nodes) >= 0
      BY <2>4, FS_EmptySet
    <2>6. I(0, base)
      BY <1>4, <2>2, <2>3, <2>4, <2>5 DEF WalkInv
    <2> QED
      BY <1>1, <2>1, <2>6
  <1>10. ASSUME NEW k \in 1..n, k - 1 \in T PROVE k \in T
    <2>1. k \in 0..n /\ k # 0
      BY <1>1
    <2>2. run[k] = Popped(nb, run[k - 1])
      BY <1>7, <2>1
    <2>3. I(k - 1, run[k - 1])
      BY <1>10
    <2>4. I(k, Popped(nb, run[k - 1]))
      BY <1>3, <2>3, Shut(nb, s.visited), WalkStep DEF B
    <2> QED
      BY <2>1, <2>2, <2>4
  <1>11. n \in T
    <2> HIDE DEF T
    <2> QED
      BY <1>1, <1>9, <1>10, CountedUp
  <1> DEFINE t == run[n]
  <1>12. WalkInv(nb, n, B, start, s.found, n, t)
    BY <1>11
  <1> HIDE DEF t, T
  <1>13. t.stack = <<>>
    <2> SUFFICES ASSUME t.stack # <<>> PROVE FALSE
      OBVIOUS
    <2>1. Cardinality(t.nodes) >= n /\ t.nodes \in SUBSET (1..n)
          /\ ToSet(t.stack) \cap t.nodes = {} /\ t.stack \in Seq(1..n) /\ Distinct(t.stack)
      BY <1>12 DEF WalkInv, WalkStates
    <2>2. Last(t.stack) \in ToSet(t.stack) /\ Last(t.stack) \in 1..n
      BY <2>1, PopIs
    <2>3. t.nodes \in SUBSET ((1..n) \ {Last(t.stack)})
      BY <2>1, <2>2
    <2>4. IsFiniteSet(1..n) /\ Cardinality(1..n) = n
      <3>1. 1 \in Int /\ n \in Int /\ n - 1 + 1 = n
        BY <1>1
      <3>2. IsFiniteSet(1..n) /\ Cardinality(1..n) = IF 1 > n THEN 0 ELSE n - 1 + 1
        BY <3>1, FS_Interval
      <3> QED
        BY <1>1, <3>1, <3>2
    <2>5. /\ IsFiniteSet((1..n) \ {Last(t.stack)})
          /\ Cardinality((1..n) \ {Last(t.stack)}) = n - 1
      BY <2>2, <2>4, FS_RemoveElement
    <2>6. Cardinality(t.nodes) \in Nat /\ Cardinality(t.nodes) <= n - 1
      <3>1. IsFiniteSet(t.nodes) /\ Cardinality(t.nodes) <= Cardinality((1..n) \ {Last(t.stack)})
        BY <2>3, <2>5, FS_Subset
      <3> QED
        BY <2>5, <3>1, FS_CardinalityType
    <2> QED
      BY <1>1, <2>1, <2>6
  <1>14. ToSet(t.stack) = {} /\ t.nodes \cup ToSet(t.stack) = t.nodes
    BY <1>13 DEF ToSet
  <1>15. /\ t \in WalkStates(n) /\ t.found = s.found /\ t.visited = B \cup t.nodes
         /\ t.nodes \cap B = {} /\ start \in t.nodes /\ Shut(nb, t.nodes) /\ Linked(nb, t.nodes)
    BY <1>12, <1>14 DEF WalkInv, Shut
  <1> QED
    BY <1>8, <1>13, <1>15 DEF base, t, B

-----------------------------------------------------------------------------
(* All walks.                                                              *)

Covered(found) == UNION {found[k] : k \in 1..Len(found)}
AreFound(nb, n, found) ==
  /\ found \in Seq(SUBSET (1..n))
  /\ \A k \in 1..Len(found) : found[k] # {} /\ Shut(nb, found[k]) /\ Linked(nb, found[k])
  /\ \A j, k \in 1..Len(found) : j # k => found[j] \cap found[k] = {}
Walks(nb, n) ==
  {s \in WalkStates(n) : /\ s.stack = <<>> /\ s.nodes = {} /\ AreFound(nb, n, s.found)
                         /\ s.visited = Covered(s.found)}

LEMMA CoveredShut ==
  ASSUME NEW n, NEW nb, IsGraph(nb, n), NEW found, AreFound(nb, n, found)
  PROVE  Covered(found) \in SUBSET (1..n) /\ Shut(nb, Covered(found))
  <1>1. \A k \in 1..Len(found) : found[k] \in SUBSET (1..n)
    BY DEF AreFound
  <1>2. Covered(found) \in SUBSET (1..n)
    BY <1>1 DEF Covered
  <1>3. ASSUME NEW i \in Covered(found), NEW j \in ColumnsIn(nb[i]) PROVE j \in Covered(found)
    <2>1. PICK k \in 1..Len(found) : i \in found[k]
      BY DEF Covered
    <2>2. j \in found[k]
      BY <2>1 DEF AreFound, Shut
    <2> QED
      BY <2>2 DEF Covered
  <1> QED
    BY <1>2, <1>3 DEF Shut

LEMMA FoundNext ==
  ASSUME NEW n, NEW nb, IsGraph(nb, n), NEW found, AreFound(nb, n, found), NEW C \in SUBSET (1..n),
         C # {}, Shut(nb, C), Linked(nb, C), C \cap Covered(found) = {}
  PROVE  AreFound(nb, n, Append(found, C)) /\ Covered(Append(found, C)) = Covered(found) \cup C
  <1> DEFINE g == Append(found, C)
             m == Len(found)
  <1>1. /\ g \in Seq(SUBSET (1..n)) /\ m \in Nat /\ Len(g) = m + 1 /\ g[m + 1] = C
        /\ \A e \in 1..m : g[e] = found[e]
        /\ \A e \in 1..Len(g) : e \in 1..m \/ e = m + 1
        /\ \A e \in 1..m : e \in 1..Len(g)
        /\ m + 1 \in 1..Len(g)
    <2>1. found \in Seq(SUBSET (1..n))
      BY DEF AreFound
    <2> QED
      BY <2>1, Appended
  <1>2. /\ \A k \in 1..m : found[k] # {} /\ Shut(nb, found[k]) /\ Linked(nb, found[k])
        /\ \A j, k \in 1..m : j # k => found[j] \cap found[k] = {}
        /\ \A k \in 1..m : found[k] \in SUBSET Covered(found)
    BY DEF AreFound, Covered
  <1> HIDE DEF g
  <1>3. Covered(g) = Covered(found) \cup C
    <2>1. ASSUME NEW y \in Covered(g) PROVE y \in Covered(found) \cup C
      <3>1. PICK e \in 1..Len(g) : y \in g[e]
        BY DEF Covered
      <3> QED
        BY <1>1, <1>2, <3>1
    <2>2. ASSUME NEW y \in Covered(found) PROVE y \in Covered(g)
      <3>1. PICK e \in 1..m : y \in found[e]
        BY DEF Covered
      <3> QED
        BY <1>1, <3>1 DEF Covered
    <2>3. ASSUME NEW y \in C PROVE y \in Covered(g)
      BY <1>1 DEF Covered
    <2> QED
      BY <2>1, <2>2, <2>3
  <1> HIDE DEF m
  <1>4. \A k \in 1..Len(g) : g[k] # {} /\ Shut(nb, g[k]) /\ Linked(nb, g[k])
    BY <1>1, <1>2
  <1>5. ASSUME NEW j \in 1..Len(g), NEW k \in 1..Len(g), j # k PROVE g[j] \cap g[k] = {}
    <2>1. CASE j \in 1..m /\ k \in 1..m
      BY <1>1, <1>2, <1>5, <2>1
    <2>2. CASE j \in 1..m /\ k = m + 1
      BY <1>1, <1>2, <2>2
    <2>3. CASE j = m + 1 /\ k \in 1..m
      BY <1>1, <1>2, <2>3
    <2> QED
      BY <1>1, <1>5, <2>1, <2>2, <2>3
  <1>6. AreFound(nb, n, g)
    BY <1>1, <1>4, <1>5 DEF AreFound
  <1> QED
    BY <1>3, <1>6 DEF g

LEMMA FromIs ==
  ASSUME NEW n, NEW nb, IsGraph(nb, n), NEW s \in Walks(nb, n), NEW start \in 1..n
  PROVE  /\ From(nb, s, start) \in Walks(nb, n) /\ start \in From(nb, s, start).visited
         /\ s.visited \in SUBSET From(nb, s, start).visited
  <1>1. /\ s \in WalkStates(n) /\ s.stack = <<>> /\ s.nodes = {} /\ AreFound(nb, n, s.found)
        /\ s.visited = Covered(s.found)
    BY DEF Walks
  <1>2. CASE start \in s.visited
    BY <1>2 DEF From
  <1>3. CASE start \notin s.visited
    <2> DEFINE t == Walked(nb, Discovered(s, <<start>>))
    <2>1. Shut(nb, s.visited)
      BY <1>1, CoveredShut
    <2>2. /\ t \in WalkStates(n) /\ t.stack = <<>> /\ t.found = s.found
          /\ t.visited = s.visited \cup t.nodes /\ t.nodes \cap s.visited = {} /\ start \in t.nodes
          /\ Shut(nb, t.nodes) /\ Linked(nb, t.nodes)
      BY <1>1, <1>3, <2>1, WalkedIs
    <2>3. From(nb, s, start) = Closed(t)
      BY <1>3 DEF From
    <2> HIDE DEF t
    <2> DEFINE g == Append(s.found, t.nodes)
    <2>4. t.nodes \in SUBSET (1..n) /\ t.nodes # {}
      BY <2>2 DEF WalkStates
    <2>5. AreFound(nb, n, g) /\ Covered(g) = s.visited \cup t.nodes
      BY <1>1, <2>2, <2>4, FoundNext
    <2>6. Closed(t) = [visited |-> t.visited, stack |-> <<>>, nodes |-> {}, found |-> g]
      <3>1. t = [visited |-> t.visited, stack |-> t.stack, nodes |-> t.nodes, found |-> t.found]
        BY <2>2 DEF WalkStates
      <3>2. Closed(t) = [t EXCEPT !.nodes = {}, !.found = Append(t.found, t.nodes)]
        BY DEF Closed
      <3>3. Append(t.found, t.nodes) = g
        BY <2>2
      <3> HIDE DEF g
      <3>4. Closed(t) = [t EXCEPT !.nodes = {}, !.found = g]
        BY <3>2, <3>3
      <3>5. Closed(t) = [visited |-> t.visited, stack |-> t.stack, nodes |-> {}, found |-> g]
        BY ONLY <3>1, <3>4
      <3> QED
        BY <2>2, <3>5
    <2> HIDE DEF g
    <2>7. g \in Seq(SUBSET (1..n)) /\ t.visited \in SUBSET (1..n)
      BY <2>2, <2>5 DEF AreFound, WalkStates
    <2>8. Closed(t) \in WalkStates(n) /\ Closed(t).stack = <<>> /\ Closed(t).nodes = {}
          /\ Closed(t).found = g /\ Closed(t).visited = t.visited
      BY ONLY <2>6, <2>7 DEF WalkStates
    <2>9. Closed(t) \in Walks(nb, n)
      BY <2>2, <2>5, <2>8 DEF Walks
    <2> QED
      BY <2>2, <2>3, <2>8, <2>9
  <1> QED
    BY <1>2, <1>3

(* Components finds the connected components of a graph, each once.        *)
LEMMA ComponentsAre ==
  ASSUME NEW n, NEW nb, IsGraph(nb, n)
  PROVE  AreFound(nb, n, Components(nb)) /\ Covered(Components(nb)) = 1..n
  <1> DEFINE base == [visited |-> {}, stack |-> <<>>, nodes |-> {}, found |-> <<>>]
             V    == Walks(nb, n)
             Step == [z \in V \X (1..n) |-> From(nb, z[1], z[2])]
             run  == CHOOSE run : run = [k \in 0..Len(nb) |->
                                           IF k = 0 THEN base ELSE From(nb, run[k - 1], k)]
  <1>1. n \in Nat /\ Len(nb) = n /\ n \in 0..n /\ 0 \in 0..n
    BY DEF IsGraph
  <1>2. Components(nb) = run[n].found
    BY <1>1 DEF Components
  <1>3. base \in V
    <2>1. /\ base.visited = {} /\ base.stack = <<>> /\ base.nodes = {} /\ base.found = <<>>
          /\ base \in WalkStates(n)
      BY DEF WalkStates
    <2> HIDE DEF base
    <2>2. AreFound(nb, n, <<>>) /\ Covered(<<>>) = {}
      BY DEF AreFound, Covered
    <2> QED
      BY <2>1, <2>2 DEF Walks
  <1>4. /\ Step \in [V \X (1..n) -> V]
        /\ \A z \in V : \A k \in 1..n : Step[<<z, k>>] = From(nb, z, k) /\ From(nb, z, k) \in V
    BY FromIs
  <1> HIDE DEF base, Step
  <1>5. run = [k \in 0..n |-> IF k = 0 THEN base ELSE From(nb, run[k - 1], k)]
        /\ \A k \in 0..n : run[k] \in V
    <2>1. PICK r : r = [k \in 0..n |-> IF k = 0 THEN base ELSE Step[<<r[k - 1], k>>]]
      <3> HIDE DEF V
      <3>1. \E r : Runs(r, n, base, Step)
        BY ONLY <1>1, <1>3, <1>4, RunExists
      <3> QED
        BY ONLY <3>1 DEF Runs
    <2>2. \A k \in 0..n : k = 0 \/ (k \in 1..n /\ k - 1 \in 0..n)
      BY <1>1
    <2>3. \A k \in 1..n : k \in 0..n /\ k # 0 /\ k - 1 \in 0..n
      BY <1>1
    <2> HIDE DEF V
    <2> DEFINE T == {k \in 0..n : r[k] \in V}
    <2>4. \A k \in 0..n : k \in T
      <3>1. 0 \in T
        BY <1>1, <1>3, <2>1
      <3>2. ASSUME NEW k \in 1..n, k - 1 \in T PROVE k \in T
        <4>1. r[k] = Step[<<r[k - 1], k>>] /\ r[k - 1] \in V
          BY <2>1, <2>3, <3>2
        <4> QED
          BY <1>4, <2>3, <4>1
      <3> HIDE DEF T
      <3> QED
        BY <1>1, <3>1, <3>2, CountedUp
    <2>5. ASSUME NEW k \in 0..n
          PROVE  (IF k = 0 THEN base ELSE Step[<<r[k - 1], k>>])
                   = IF k = 0 THEN base ELSE From(nb, r[k - 1], k)
      BY <1>4, <2>2, <2>4
    <2>6. r = [k \in 0..n |-> IF k = 0 THEN base ELSE From(nb, r[k - 1], k)]
      BY <2>1, <2>5
    <2>7. r = [k \in 0..Len(nb) |-> IF k = 0 THEN base ELSE From(nb, r[k - 1], k)]
      BY <1>1, <2>6
    <2>8. run = [k \in 0..Len(nb) |-> IF k = 0 THEN base ELSE From(nb, run[k - 1], k)]
      BY ONLY <2>7
    <2> HIDE DEF run
    <2>9. run = [k \in 0..n |-> IF k = 0 THEN base ELSE From(nb, run[k - 1], k)]
      BY <1>1, <2>8
    <2> DEFINE U == {k \in 0..n : run[k] \in V}
    <2>10. \A k \in 0..n : k \in U
      <3>1. 0 \in U
        BY <1>1, <1>3, <2>9
      <3>2. ASSUME NEW k \in 1..n, k - 1 \in U PROVE k \in U
        <4>1. run[k] = From(nb, run[k - 1], k) /\ run[k - 1] \in V
          BY <2>3, <2>9, <3>2
        <4> QED
          BY <1>4, <2>3, <4>1
      <3> HIDE DEF U
      <3> QED
        BY <1>1, <3>1, <3>2, CountedUp
    <2> QED
      BY <2>9, <2>10
  <1> HIDE DEF run
  <1> DEFINE T == {k \in 0..n : 1..k \in SUBSET run[k].visited}
  <1>6. \A k \in 0..n : k \in T
    <2>1. 0 \in T
      BY <1>1
    <2>2. ASSUME NEW k \in 1..n, k - 1 \in T PROVE k \in T
      <3>1. k \in 0..n /\ k # 0 /\ k - 1 \in 0..n /\ \A i \in 1..k : i = k \/ i \in 1..k - 1
        BY <1>1
      <3>2. run[k] = From(nb, run[k - 1], k) /\ run[k - 1] \in V /\ 1..k - 1 \in SUBSET run[k - 1].visited
        BY <1>5, <2>2, <3>1
      <3>3. k \in run[k].visited /\ run[k - 1].visited \in SUBSET run[k].visited
        BY <3>2, FromIs DEF V
      <3> QED
        BY <3>1, <3>2, <3>3
    <2> HIDE DEF T
    <2> QED
      BY <1>1, <2>1, <2>2, CountedUp
  <1>7. run[n] \in V /\ 1..n \in SUBSET run[n].visited
    BY <1>1, <1>5, <1>6
  <1>8. /\ AreFound(nb, n, run[n].found) /\ run[n].visited = Covered(run[n].found)
        /\ run[n].visited \in SUBSET (1..n)
    BY <1>7 DEF Walks, WalkStates
  <1> QED
    BY <1>2, <1>7, <1>8

-----------------------------------------------------------------------------
(* The adjacency of a tabulation is a graph whose edges are the couplings. *)
LEMMA TableGraph ==
  ASSUME DesignIs, NEW m, Tabulates(m), NEW nb, Adjoins(nb, m)
  PROVE  /\ IsGraph(nb, Len(m.globals))
         /\ \A i, j \in 1..Len(m.globals) :
              j \in ColumnsIn(nb[i]) <=> /\ Gram(m.globals[i], m.globals[j]) # 0
                                         /\ i <= Len(m.c) <=> ~(j <= Len(m.c))
  <1> DEFINE N == Len(m.globals)
             n == Len(m.c)
  <1>1. /\ N \in Nat /\ n \in Nat /\ n <= N
        /\ \A i, k \in 1..N : Gram(m.globals[i], m.globals[k]) = Gram(m.globals[k], m.globals[i])
    BY TableFacts DEF Tabulates
  <1>2. Len(nb) = N /\ DOMAIN nb = 1..N
        /\ \A i \in 1..N : RowIs(nb[i], Opposite(m, i), GramRow(m, i))
    BY DEF Adjoins
  <1>3. \A i \in 1..N : /\ Opposite(m, i) \in SUBSET (1..N) /\ Opposite(m, i) \in SUBSET Int
                        /\ \A j \in 1..N : j \in Opposite(m, i) <=> (i <= n <=> ~(j <= n))
                        /\ \A j \in 1..N : GramRow(m, i)[j] = Gram(m.globals[i], m.globals[j])
    <2> SUFFICES ASSUME NEW i \in 1..N
                 PROVE  /\ Opposite(m, i) \in SUBSET (1..N) /\ Opposite(m, i) \in SUBSET Int
                        /\ \A j \in 1..N : j \in Opposite(m, i) <=> (i <= n <=> ~(j <= n))
                        /\ \A j \in 1..N : GramRow(m, i)[j] = Gram(m.globals[i], m.globals[j])
      OBVIOUS
    <2>1. Opposite(m, i) = IF i <= n THEN n + 1..N ELSE 1..n
      BY DEF Opposite
    <2>2. \A j \in 1..N : GramRow(m, i)[j] = Gram(m.globals[i], m.globals[j])
      BY DEF GramRow
    <2> HIDE DEF N, n
    <2>3. /\ Opposite(m, i) \in SUBSET (1..N) /\ Opposite(m, i) \in SUBSET Int
          /\ \A j \in 1..N : j \in Opposite(m, i) <=> (i <= n <=> ~(j <= n))
      BY ONLY <1>1, <2>1, i \in 1..N
    <2> QED
      BY <2>2, <2>3
  <1> HIDE DEF N, n
  <1>4. ASSUME NEW i \in 1..N
        PROVE  /\ ColumnsIn(nb[i]) \in SUBSET (1..N)
               /\ \A j \in 1..N : j \in ColumnsIn(nb[i]) <=> /\ Gram(m.globals[i], m.globals[j]) # 0
                                                             /\ i <= n <=> ~(j <= n)
    <2>1. \A k : k \in ColumnsIn(nb[i]) <=> k \in Opposite(m, i) /\ GramRow(m, i)[k] # 0
      BY <1>2, <1>3, RowFacts
    <2> QED
      BY <1>3, <2>1
  <1>5. IsGraph(nb, N)
    BY <1>1, <1>2, <1>4 DEF IsGraph
  <1> QED
    BY <1>4, <1>5 DEF N, n

SoundLocal(p, x) ==
  /\ Tabulates(x) /\ Columns(x) <= Len(x.c)
  /\ \/ Splits(x, ChannelDofs(p.rows), ChannelDofs(p.cols))
     \/ Splits(x, ChannelDofs(p.cols), ChannelDofs(p.rows))

(* D is a sequence of sets of coefficients.                                *)
AreComponents(p, n, D) ==
  /\ UNION {D[k] : k \in 1..n} = LiveDofs(p)
  /\ \A k \in 1..n : Connected(Coupled(p), D[k])
  /\ \A j, k \in 1..n : j # k => D[j] \cap D[k] = {} /\ ~Crosses(Coupled(p), D[j], D[k])

LEMMA EdgesAre ==
  ASSUME DesignIs, NEW p, IsPair(p), NEW nb, Adjoins(nb, TableOf(p)),
         NEW i \in 1..Len(TableOf(p).globals), NEW j \in 1..Len(TableOf(p).globals)
  PROVE  LET g == TableOf(p).globals
         IN j \in ColumnsIn(nb[i]) <=> \/ <<g[i], g[j]>> \in Coupled(p)
                                       \/ <<g[j], g[i]>> \in Coupled(p)
  <1> DEFINE m == TableOf(p)
             g == m.globals
             n == Len(m.c)
             R == ChannelDofs(p.rows)
             C == ChannelDofs(p.cols)
  <1>1. Tabulates(m) /\ \A k \in 1..Len(g) : g[k] \in IF k <= n THEN R ELSE C
    BY TableIs DEF Splits
  <1>2. j \in ColumnsIn(nb[i]) <=> Gram(g[i], g[j]) # 0 /\ (i <= n <=> ~(j <= n))
    BY <1>1, TableGraph
  <1>3. Gram(g[i], g[j]) = Gram(g[j], g[i])
    BY <1>1, TableFacts
  <1>4. R \cap C = {}
    BY ChannelsApart
  <1>5. \A d, e : <<d, e>> \in Coupled(p) <=> d \in R /\ e \in C /\ Gram(d, e) # 0
    BY DEF Coupled
  <1>7. /\ g[i] \in IF i <= n THEN R ELSE C
        /\ g[j] \in IF j <= n THEN R ELSE C
    BY <1>1
  <1>6. j \in ColumnsIn(nb[i]) <=> \/ <<g[i], g[j]>> \in Coupled(p)
                                   \/ <<g[j], g[i]>> \in Coupled(p)
    <2> DEFINE d == g[i]
               e == g[j]
               low == i <= n
               alow == j <= n
    <2>1. /\ d \in IF low THEN R ELSE C
          /\ e \in IF alow THEN R ELSE C
          /\ j \in ColumnsIn(nb[i]) <=> Gram(d, e) # 0 /\ (low <=> ~alow)
          /\ Gram(d, e) = Gram(e, d)
      BY ONLY <1>2, <1>3, <1>7
    <2> HIDE DEF d, e, low, alow, R, C
    <2>2. j \in ColumnsIn(nb[i]) <=> <<d, e>> \in Coupled(p) \/ <<e, d>> \in Coupled(p)
      BY ONLY <1>4, <1>5, <2>1
    <2> QED
      BY ONLY <2>2 DEF d, e
  <1> HIDE DEF m, n, R, C
  <1> QED
    BY <1>6 DEF m

LEMMA ConnectedIs ==
  ASSUME DesignIs, NEW p, IsPair(p), NEW nb, Adjoins(nb, TableOf(p)),
         NEW C \in SUBSET (1..Len(TableOf(p).globals)), Linked(nb, C)
  PROVE  Connected(Coupled(p), GlobalsOf(TableOf(p), C))
  <1> DEFINE m == TableOf(p)
             g == m.globals
             D == GlobalsOf(m, C)
  <1> SUFFICES ASSUME NEW S \in SUBSET D, S # {}, S # D
               PROVE  Crosses(Coupled(p), S, D \ S)
    BY DEF Connected
  <1> DEFINE T == {i \in C : g[i] \in S}
  <1>1. T \in SUBSET C /\ T # {} /\ T # C
    BY DEF GlobalsOf
  <1>2. PICK i \in T, j \in C \ T : j \in ColumnsIn(nb[i])
    BY <1>1 DEF Linked
  <1>3. <<g[i], g[j]>> \in Coupled(p) \/ <<g[j], g[i]>> \in Coupled(p)
    BY <1>2, EdgesAre
  <1>4. g[i] \in S /\ g[j] \in D \ S
    BY <1>2 DEF GlobalsOf
  <1> QED
    BY <1>3, <1>4 DEF Crosses

LEMMA ApartIs ==
  ASSUME DesignIs, NEW p, IsPair(p), NEW nb, Adjoins(nb, TableOf(p)),
         NEW A \in SUBSET (1..Len(TableOf(p).globals)), Shut(nb, A),
         NEW B \in SUBSET (1..Len(TableOf(p).globals)), Shut(nb, B), A \cap B = {}
  PROVE  /\ GlobalsOf(TableOf(p), A) \cap GlobalsOf(TableOf(p), B) = {}
         /\ ~Crosses(Coupled(p), GlobalsOf(TableOf(p), A), GlobalsOf(TableOf(p), B))
  <1> DEFINE m == TableOf(p)
             g == m.globals
  <1>1. \A i, j \in 1..Len(g) : g[i] = g[j] => i = j
    BY TableIs DEF Tabulates
  <1>2. GlobalsOf(m, A) \cap GlobalsOf(m, B) = {}
    BY <1>1 DEF GlobalsOf
  <1>3. ASSUME NEW i \in A, NEW j \in B
        PROVE  <<g[i], g[j]>> \notin Coupled(p) /\ <<g[j], g[i]>> \notin Coupled(p)
    <2>1. j \notin ColumnsIn(nb[i])
      BY DEF Shut
    <2> QED
      BY <2>1, EdgesAre
  <1>4. ASSUME Crosses(Coupled(p), GlobalsOf(m, A), GlobalsOf(m, B)) PROVE FALSE
    <2>1. PICK e \in Coupled(p) : \/ e[1] \in GlobalsOf(m, A) /\ e[2] \in GlobalsOf(m, B)
                                  \/ e[1] \in GlobalsOf(m, B) /\ e[2] \in GlobalsOf(m, A)
      BY <1>4 DEF Crosses
    <2>2. e = <<e[1], e[2]>>
      BY DEF Coupled
    <2>3. \A d : d \in GlobalsOf(m, A) => \E i \in A : d = g[i]
      BY DEF GlobalsOf
    <2>4. \A d : d \in GlobalsOf(m, B) => \E i \in B : d = g[i]
      BY DEF GlobalsOf
    <2>5. CASE e[1] \in GlobalsOf(m, A) /\ e[2] \in GlobalsOf(m, B)
      <3>1. PICK i \in A : e[1] = g[i]
        BY <2>3, <2>5
      <3>2. PICK j \in B : e[2] = g[j]
        BY <2>4, <2>5
      <3> QED
        BY <1>3, <2>2, <3>1, <3>2
    <2>6. CASE e[1] \in GlobalsOf(m, B) /\ e[2] \in GlobalsOf(m, A)
      <3>1. PICK i \in A : e[2] = g[i]
        BY <2>3, <2>6
      <3>2. PICK j \in B : e[1] = g[j]
        BY <2>4, <2>6
      <3> QED
        BY <1>3, <2>2, <3>1, <3>2
    <2> QED
      BY <2>1, <2>5, <2>6
  <1> QED
    BY <1>2, <1>4

LEMMA AloneIs ==
  ASSUME DesignIs, NEW m, Tabulates(m), NEW nb, Adjoins(nb, m),
         NEW C \in SUBSET (1..Len(m.globals)), Linked(nb, C), NEW i \in C,
         Gram(m.globals[i], m.globals[i]) = 0
  PROVE  C = {i}
  <1>1. /\ m.globals[i] \in Dofs
        /\ \A j \in 1..Len(m.globals) : m.globals[j] \in Dofs
    BY TableFacts
  <1>2. \A j \in 1..Len(m.globals) : Gram(m.globals[i], m.globals[j]) = 0
    BY <1>1, GramDiagonal
  <1>3. \A j \in C : j \notin ColumnsIn(nb[i])
    BY <1>2, TableGraph
  <1> SUFFICES ASSUME C # {i} PROVE FALSE
    OBVIOUS
  <1>4. \E k \in {i}, j \in C \ {i} : j \in ColumnsIn(nb[k])
    <2>1. {i} \in SUBSET C /\ {i} # {} /\ {i} # C
      OBVIOUS
    <2> QED
      BY <2>1 DEF Linked
  <1> QED
    BY <1>3, <1>4

(* What is built of a pair's tabulation: a tabulation of every component   *)
(* of its live coefficients.                                               *)
LEMMA LocalsAre ==
  ASSUME DesignIs, NEW p, IsPair(p), NEW tab, tab = CrossTab(p),
         NEW nodes, nodes = Components(Neighbors(tab.c, tab.nCols))
  PROVE  LET L == LocalsOf(tab, LocalToGlobal(p), nodes)
         IN /\ Len(L) \in Nat /\ DOMAIN L = 1..Len(L)
            /\ \A k \in 1..Len(L) : SoundLocal(p, L[k])
            /\ AreComponents(p, Len(L), [k \in 1..Len(L) |-> ToSet(L[k].globals)])
  <1> DEFINE m == TableOf(p)
             g == m.globals
             N == Len(g)
             nb == Neighbors(m.c, Columns(m))
             R == ChannelDofs(p.rows)
             C == ChannelDofs(p.cols)
             locals == [k \in DOMAIN nodes |-> ExtractComponent(tab, LocalToGlobal(p), nodes[k])]
             alive == {k \in DOMAIN locals : ~Dead(locals[k])}
             live == Ascending(alive)
             L == LocalsOf(tab, LocalToGlobal(p), nodes)
             D == [k \in 1..Len(L) |-> ToSet(L[k].globals)]
  <1>1. /\ Tabulates(m) /\ Splits(m, R, C) /\ tab.nRows = Len(m.c) /\ tab.nCols = Columns(m)
        /\ \A d \in LiveDofs(p) : \E i \in 1..N : g[i] = d
    BY TableIs
  <1>2. tab.c = m.c /\ tab.diagonal = m.diagonal /\ LocalToGlobal(p) = g
    BY DEF TableOf
  <1>3. TableLike(tab, m)
    BY <1>1, <1>2 DEF TableLike
  <1>4. Adjoins(nb, m) /\ IsGraph(nb, N)
    BY <1>1, NeighborsAre, TableGraph
  <1>5. nodes = Components(nb)
    BY <1>1, <1>2
  <1>6. AreFound(nb, N, nodes) /\ Covered(nodes) = 1..N
    BY <1>4, <1>5, ComponentsAre
  <1>7. /\ Len(nodes) \in Nat /\ DOMAIN nodes = 1..Len(nodes)
        /\ \A k \in 1..Len(nodes) : /\ nodes[k] \in SUBSET (1..N) /\ nodes[k] # {}
                                    /\ Shut(nb, nodes[k]) /\ Linked(nb, nodes[k])
        /\ \A j, k \in 1..Len(nodes) : j # k => nodes[j] \cap nodes[k] = {}
        /\ \A i \in 1..N : \E k \in 1..Len(nodes) : i \in nodes[k]
    BY <1>6 DEF AreFound, Covered
  <1> HIDE DEF m, g, N, nb, R, C
  <1>8. ASSUME NEW k \in 1..Len(nodes)
        PROVE  /\ Tabulates(locals[k]) /\ Splits(locals[k], R, C)
               /\ ToSet(locals[k].globals) = GlobalsOf(m, nodes[k])
    <2>1. locals[k] = ExtractComponent(tab, m.globals, nodes[k])
      BY <1>2, <1>7 DEF g
    <2>2. nodes[k] \in SUBSET (1..Len(m.globals))
      BY <1>7 DEF N, g
    <2> DEFINE x == ExtractComponent(tab, m.globals, nodes[k])
    <2>3. Tabulates(x) /\ Splits(x, R, C) /\ ToSet(x.globals) = GlobalsOf(m, nodes[k])
      BY <1>1, <1>3, <2>2, ComponentIs
    <2> HIDE DEF x
    <2>4. locals[k] = x
      BY <2>1 DEF x
    <2> HIDE DEF locals
    <2> QED
      BY <2>3, <2>4
  <1>9. DOMAIN locals = 1..Len(nodes)
    BY <1>7
  <1> HIDE DEF locals
  <1>10. ASSUME NEW k \in 1..Len(nodes)
         PROVE  Dead(locals[k]) <=> \A i \in nodes[k] : Gram(g[i], g[i]) = 0
    <2> DEFINE x == locals[k]
    <2>1. /\ DOMAIN x.diagonal = 1..Len(x.globals) /\ DOMAIN x.globals = 1..Len(x.globals)
          /\ \A i \in 1..Len(x.globals) : x.diagonal[i] = Gram(x.globals[i], x.globals[i])
      BY <1>8, TableFacts DEF Tabulates
    <2>2. {x.globals[i] : i \in 1..Len(x.globals)} = {g[i] : i \in nodes[k]}
      BY <1>8, <2>1 DEF ToSet, GlobalsOf, g
    <2> HIDE DEF x
    <2>3. Dead(x) <=> \A i \in 1..Len(x.globals) : Gram(x.globals[i], x.globals[i]) = 0
      BY <2>1 DEF Dead
    <2>4. ASSUME NEW i \in 1..Len(x.globals), \A j \in nodes[k] : Gram(g[j], g[j]) = 0
          PROVE  Gram(x.globals[i], x.globals[i]) = 0
      <3>1. PICK j \in nodes[k] : x.globals[i] = g[j]
        BY <2>2
      <3> QED
        BY <2>4, <3>1
    <2>5. ASSUME NEW j \in nodes[k],
                 \A i \in 1..Len(x.globals) : Gram(x.globals[i], x.globals[i]) = 0
          PROVE  Gram(g[j], g[j]) = 0
      <3>1. PICK i \in 1..Len(x.globals) : x.globals[i] = g[j]
        BY <2>2
      <3> QED
        BY <2>5, <3>1
    <2> QED
      BY <2>3, <2>4, <2>5 DEF x
  <1>11. /\ IsSelection(live, Len(nodes))
         /\ \A k : k \in alive <=> \E l \in 1..Len(live) : live[l] = k
    <2>1. alive \in SUBSET (1..Len(nodes))
      BY <1>9
    <2> HIDE DEF alive
    <2> QED
      BY <1>7, <2>1, AscendingSelects
  <1>12. L = [k \in DOMAIN live |-> OrientForElimination(locals[live[k]])]
    BY DEF LocalsOf, locals
  <1>13. alive = {k \in 1..Len(nodes) : ~Dead(locals[k])}
    BY <1>9
  <1> HIDE DEF live, alive, L
  <1>14. /\ Len(live) \in Nat /\ DOMAIN live = 1..Len(live)
         /\ \A k \in 1..Len(live) : live[k] \in 1..Len(nodes) /\ ~Dead(locals[live[k]])
         /\ \A j, k \in 1..Len(live) : live[j] = live[k] => j = k
         /\ \A k \in 1..Len(nodes) : ~Dead(locals[k]) => \E l \in 1..Len(live) : live[l] = k
    BY <1>11, <1>13 DEF IsSelection
  <1>15. Len(L) = Len(live) /\ DOMAIN L = 1..Len(L)
         /\ \A k \in 1..Len(L) : L[k] = OrientForElimination(locals[live[k]])
    <2>1. L = [k \in 1..Len(live) |-> L[k]]
      BY <1>12, <1>14
    <2>2. Len(L) = Len(live)
      BY <1>14, <2>1, LenOfFunction
    <2> QED
      BY <1>12, <1>14, <2>2
  <1>16. ASSUME NEW k \in 1..Len(L)
         PROVE  /\ SoundLocal(p, L[k]) /\ ToSet(L[k].globals) = GlobalsOf(m, nodes[live[k]])
    <2>1. /\ Tabulates(locals[live[k]]) /\ Splits(locals[live[k]], R, C)
          /\ ToSet(locals[live[k]].globals) = GlobalsOf(m, nodes[live[k]])
      BY <1>8, <1>14, <1>15
    <2>2. /\ Tabulates(L[k]) /\ Columns(L[k]) <= Len(L[k].c)
          /\ Splits(L[k], R, C) \/ Splits(L[k], C, R)
          /\ ToSet(L[k].globals) = GlobalsOf(m, nodes[live[k]])
      BY <1>15, <2>1, OrientedIs
    <2> QED
      BY <2>2 DEF SoundLocal, R, C
  <1>17. D = [k \in 1..Len(L) |-> GlobalsOf(m, nodes[live[k]])]
    BY <1>16
  <1>18. /\ \A k \in 1..Len(L) : D[k] = GlobalsOf(m, nodes[live[k]])
    BY <1>17
  <1> HIDE DEF D
  <1>19. UNION {D[k] : k \in 1..Len(L)} = LiveDofs(p)
    <2>1. ASSUME NEW k \in 1..Len(L), NEW d \in D[k] PROVE d \in LiveDofs(p)
      <3>1. PICK i \in nodes[live[k]] : d = g[i]
        BY <1>18 DEF GlobalsOf, g
      <3>2. live[k] \in 1..Len(nodes) /\ ~Dead(locals[live[k]])
        BY <1>14, <1>15
      <3>3. i \in 1..N /\ Linked(nb, nodes[live[k]]) /\ nodes[live[k]] \in SUBSET (1..N)
        BY <1>7, <3>2
      <3>4. Gram(g[i], g[i]) # 0
        <4> SUFFICES ASSUME Gram(g[i], g[i]) = 0 PROVE FALSE
          OBVIOUS
        <4>1. nodes[live[k]] = {i}
          BY <1>1, <1>4, <3>3, AloneIs DEF g, N
        <4> QED
          BY <1>10, <3>2, <4>1
      <3>5. g[i] \in R \cup C
        BY <1>1, <3>3 DEF Splits, N, g
      <3> QED
        BY <3>1, <3>4, <3>5 DEF LiveDofs, R, C
    <2>2. ASSUME NEW d \in LiveDofs(p) PROVE \E k \in 1..Len(L) : d \in D[k]
      <3>1. PICK i \in 1..N : g[i] = d
        BY <1>1
      <3>2. PICK c \in 1..Len(nodes) : i \in nodes[c]
        BY <1>7
      <3>3. Gram(d, d) # 0
        BY DEF LiveDofs
      <3>4. ~Dead(locals[c])
        BY <1>10, <3>1, <3>2, <3>3
      <3>5. PICK k \in 1..Len(live) : live[k] = c
        BY <1>14, <3>4
      <3> QED
        BY <1>15, <1>18, <3>1, <3>2, <3>5 DEF GlobalsOf, g
    <2> QED
      BY <2>1, <2>2
  <1>20. ASSUME NEW k \in 1..Len(L) PROVE Connected(Coupled(p), D[k])
    <2>1. Linked(nb, nodes[live[k]]) /\ nodes[live[k]] \in SUBSET (1..Len(TableOf(p).globals))
      BY <1>7, <1>14, <1>15 DEF N, g, m
    <2>2. Connected(Coupled(p), GlobalsOf(TableOf(p), nodes[live[k]]))
      BY <1>4, <2>1, ConnectedIs DEF m
    <2> QED
      BY <1>18, <2>2 DEF m
  <1>21. ASSUME NEW j \in 1..Len(L), NEW k \in 1..Len(L), j # k
         PROVE  D[j] \cap D[k] = {} /\ ~Crosses(Coupled(p), D[j], D[k])
    <2> DEFINE A == nodes[live[j]]
               B == nodes[live[k]]
    <2>1. live[j] \in 1..Len(nodes) /\ live[k] \in 1..Len(nodes) /\ live[j] # live[k]
      BY <1>14, <1>15, <1>21
    <2>2. /\ A \in SUBSET (1..Len(TableOf(p).globals)) /\ B \in SUBSET (1..Len(TableOf(p).globals))
          /\ Shut(nb, A) /\ Shut(nb, B) /\ A \cap B = {}
      <3>1. Len(TableOf(p).globals) = N
        BY DEF N, g, m
      <3>2. A \in SUBSET (1..N) /\ B \in SUBSET (1..N) /\ Shut(nb, A) /\ Shut(nb, B) /\ A \cap B = {}
        <4> DEFINE a == live[j]
                   b == live[k]
        <4>1. a \in 1..Len(nodes) /\ b \in 1..Len(nodes) /\ a # b /\ A = nodes[a] /\ B = nodes[b]
          BY <2>1
        <4> HIDE DEF a, b, A, B, N
        <4> QED
          BY <1>7, <4>1
      <3> QED
        BY <3>1, <3>2
    <2>3. Adjoins(nb, TableOf(p))
      BY <1>4 DEF m
    <2>4. D[j] = GlobalsOf(TableOf(p), A) /\ D[k] = GlobalsOf(TableOf(p), B)
      BY <1>18 DEF m
    <2> HIDE DEF A, B
    <2>5. /\ GlobalsOf(TableOf(p), A) \cap GlobalsOf(TableOf(p), B) = {}
          /\ ~Crosses(Coupled(p), GlobalsOf(TableOf(p), A), GlobalsOf(TableOf(p), B))
      BY ONLY DesignIs, IsPair(p), <2>2, <2>3, ApartIs
    <2> QED
      BY <2>4, <2>5
  <1>22. AreComponents(p, Len(L), D)
    BY <1>19, <1>20, <1>21 DEF AreComponents
  <1> QED
    BY <1>14, <1>15, <1>16, <1>22 DEF L, D

=============================================================================

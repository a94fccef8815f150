------------------------- MODULE DesignOperatorProofs -------------------------
(***************************************************************************)
(* The products of crates/within/src/operator/design.rs: a gather reads    *)
(* every coefficient of every observation, and the adjoint product loses   *)
(* no contribution of a row, whichever strategies its passes take and      *)
(* however their tasks run.                                                *)
(***************************************************************************)
EXTENDS DesignOperator, DesignProofs

(* The design stands for the input; the weights are the input's, in the    *)
(* design's order.                                                         *)
DesignInv ==
  /\ input \in Inputs
  /\ Built => /\ Builds(design, input.frame, input.structure)
              /\ WeightsValid(input.weights, design.nObs)
              /\ sqrtWeights = InternalWeights(design, input.weights)

LEMMA InputValid ==
  ASSUME NEW inp \in Inputs
  PROVE  /\ FrameValid(inp.frame) /\ StructureValid(inp.frame, inp.structure)
         /\ inp.weights # None => inp.weights \in Seq(Int)
         /\ MaxDofs \in Nat
  BY InputsAssumption

LEMMA NewBuilds ==
  ASSUME input \in Inputs, New
  PROVE  DesignInv'
  <1> SUFFICES ASSUME Built'
               PROVE  /\ Builds(design', input.frame, input.structure)
                      /\ WeightsValid(input.weights, design'.nObs)
                      /\ sqrtWeights' = InternalWeights(design', input.weights)
    BY DEF DesignInv, New
  <1> DEFINE d == Build(input.frame, input.structure, input.localitySort)
  <1>1. ~IsRejected(design')
    BY DEF Built
  <1>2. ~IsRejected(d) /\ WeightsValid(input.weights, d.nObs) /\ design' = d
        /\ sqrtWeights' = InternalWeights(d, input.weights)
    <2>1. IsRejected(Rejected("InvalidWeights"))
      BY DEF IsRejected, Rejected
    <2> HIDE DEF d
    <2> QED
      BY <1>1, <2>1 DEF New, d
  <1>3. Builds(d, input.frame, input.structure)
    BY <1>2, InputValid, BuildSound
  <1> HIDE DEF d
  <1> QED
    BY <1>2, <1>3

LEMMA DesignStep == DesignInv /\ [Next]_vars => DesignInv'
  <1> SUFFICES ASSUME DesignInv, [Next]_vars PROVE DesignInv'
    OBVIOUS
  <1>1. CASE New
    BY <1>1, NewBuilds DEF DesignInv
  <1>2. ASSUME UNCHANGED <<input, design, sqrtWeights>> PROVE DesignInv'
    BY <1>2 DEF DesignInv, Built
  <1>3. CASE UNCHANGED vars
    BY <1>2, <1>3 DEF vars
  <1>4. ASSUME NEW r \in Rhs,
               \/ Start(r) \/ Gather(r) \/ GatherReturn(r)
               \/ ScatterPrivate(r) \/ Seed(r) \/ FetchAdd(r) \/ Writeback(r)
               \/ ScatterReturn(r)
        PROVE  DesignInv'
    BY <1>2, <1>4 DEF Start, Gather, GatherReturn, ScatterPrivate, Seed, FetchAdd, Writeback,
                      ScatterReturn
  <1> QED
    BY <1>1, <1>3, <1>4 DEF Next

LEMMA DesignAlways == Spec => []DesignInv
  <1>1. Init => DesignInv
    BY DEF Init, DesignInv, Built
  <1> QED
    BY <1>1, DesignStep, PTL DEF Spec

(* Every coefficient has one address and every address one index, for any  *)
(* frame and structure a design is built from.                             *)
THEOREM LayoutIsBijective == Spec => []LayoutRoundTrips
  <1>1. ASSUME DesignInv PROVE LayoutRoundTrips
    <2> SUFFICES ASSUME Built PROVE LayoutRoundTrips
      BY DEF LayoutRoundTrips
    <2>1. Contiguous(design.terms) /\ design.nDofs = TotalDofs(design.terms)
      BY <1>1 DEF DesignInv, Builds
    <2>2. ASSUME NEW i \in 0..design.nDofs - 1
          PROVE  LET a == Address(design.terms, i)
                 IN /\ a.term \in DOMAIN design.terms
                    /\ a.column \in DOMAIN design.terms[a.term].columns
                    /\ a.level \in 0..design.terms[a.term].nLevels - 1
                    /\ Index(design.terms[a.term], a.column, a.level) = i
      BY <2>1, AddressThenIndex
    <2>3. ASSUME NEW q \in DOMAIN design.terms, NEW c \in DOMAIN design.terms[q].columns,
                 NEW level \in 0..design.terms[q].nLevels - 1
          PROVE  Address(design.terms, Index(design.terms[q], c, level)) =
                   [term |-> q, column |-> c, level |-> level]
      BY <2>1, IndexThenAddress
    <2> QED
      BY <2>2, <2>3 DEF LayoutRoundTrips
  <1> QED
    BY <1>1, DesignAlways, PTL

LEMMA DesignRows ==
  ASSUME NEW inp \in Inputs, NEW d, Builds(d, inp.frame, inp.structure)
  PROVE  /\ d.nObs \in Nat \ {0} /\ d.nObs = NObs(inp.frame)
         /\ \A i \in 1..d.nObs : OriginalOf(d, i) \in 1..d.nObs
         /\ \A i, j \in 1..d.nObs : OriginalOf(d, i) = OriginalOf(d, j) => i = j
         /\ \A i \in 1..d.nObs : \E k \in 1..d.nObs : OriginalOf(d, k) = i
         /\ \A q \in DOMAIN inp.frame.levels :
              /\ d.frame.levels[q] \in [1..d.nObs -> Nat]
              /\ \A i \in 1..d.nObs : d.frame.levels[q][i] = inp.frame.levels[q][OriginalOf(d, i)]
         /\ \A k \in DOMAIN inp.frame.loadings : \A i \in 1..d.nObs :
              /\ d.frame.loadings[k][i] = inp.frame.loadings[k][OriginalOf(d, i)]
              /\ inp.frame.loadings[k][i] \in Int
         /\ d.perm # None =>
              /\ d.perm \in [1..d.nObs -> 1..d.nObs]
              /\ Sorts(d.perm, inp.frame.levels[Dominant(d.terms)])
  <1>1. FrameValid(inp.frame) /\ StructureValid(inp.frame, inp.structure) /\ None \notin Seq(Int)
    BY InputValid, InputsAssumption
  <1>2. RowsArranged(d, inp.frame)
    BY <1>1, BuiltRows
  <1> QED
    BY ONLY <1>2 DEF RowsArranged

(* Observations come out ordered by the dominant term, equal levels in the *)
(* caller's order, whichever algorithm sorted; sorted flags are true to    *)
(* the sorted columns.                                                     *)
THEOREM SortIsStable == Spec => []LocalitySorted
  <1>1. ASSUME DesignInv PROVE LocalitySorted
    <2> SUFFICES ASSUME Built PROVE LocalitySorted
      BY DEF LocalitySorted
    <2>1. Builds(design, input.frame, input.structure) /\ input \in Inputs
      BY <1>1 DEF DesignInv
    <2> DEFINE n == design.nObs
    <2>2. \A i : Original(i) = OriginalOf(design, i)
      BY DEF Original, OriginalOf
    <2>3. n \in Nat \ {0} /\ Rows = 1..n /\ n = NObs(input.frame)
          /\ \A i \in 1..n : OriginalOf(design, i) \in 1..n
      BY <2>1, DesignRows DEF Rows
    <2>4. ASSUME design.perm # None, NEW i \in Rows, NEW j \in Rows, i < j
          PROVE  LET d == Dominant(design.terms)
                 IN \/ CallerLevel(d, Original(i)) < CallerLevel(d, Original(j))
                    \/ /\ CallerLevel(d, Original(i)) = CallerLevel(d, Original(j))
                       /\ Original(i) < Original(j)
      <3> DEFINE key == input.frame.levels[Dominant(design.terms)]
      <3>1. Sorts(design.perm, key) /\ design.perm \in [1..n -> 1..n]
        BY <2>1, <2>4, DesignRows
      <3>2. i \in DOMAIN key /\ j \in DOMAIN key
        BY <2>3, <3>1 DEF Sorts
      <3>3. Before(key, design.perm[i], design.perm[j])
        BY <2>4, <3>1, <3>2 DEF Sorts
      <3> QED
        BY <2>4, <3>3 DEF Before, CallerLevel, Original
    <2>5. ASSUME NEW q \in DOMAIN design.terms
          PROVE  design.terms[q].sorted =
                   \A i, j \in Rows : i < j => CallerLevel(q, Original(i)) <= CallerLevel(q, Original(j))
      <3> DEFINE col == design.frame.levels[q]
      <3>1. q \in DOMAIN input.frame.levels /\ design.terms[q].sorted = NonDecreasing(col)
        BY <2>1 DEF Builds
      <3>2. col \in [1..n -> Nat] /\ \A i \in 1..n : col[i] = input.frame.levels[q][OriginalOf(design, i)]
        <4>1. \A p \in DOMAIN input.frame.levels :
                /\ design.frame.levels[p] \in [1..n -> Nat]
                /\ \A i \in 1..n :
                     design.frame.levels[p][i] = input.frame.levels[p][OriginalOf(design, i)]
          BY <2>1, DesignRows
        <4> HIDE DEF n
        <4> QED
          BY <3>1, <4>1
      <3>3. \A i \in 1..n : col[i] = CallerLevel(q, Original(i))
        BY <2>2, <3>2 DEF CallerLevel
      <3>4. NonDecreasing(col) \in BOOLEAN
        BY DEF NonDecreasing
      <3> HIDE DEF col, n
      <3>5. NonDecreasing(col) <=> \A i, j \in 1..n : i < j => col[i] <= col[j]
        BY <2>3, <3>2, NonDecreasingAll
      <3>6. (\A i, j \in 1..n : i < j => col[i] <= col[j]) <=>
            (\A i, j \in Rows : i < j => CallerLevel(q, Original(i)) <= CallerLevel(q, Original(j)))
        <4>1. \A i, j \in 1..n : col[i] <= col[j] <=>
                CallerLevel(q, Original(i)) <= CallerLevel(q, Original(j))
          BY <3>3
        <4> QED
          BY <2>3, <4>1
      <3> QED
        BY <3>1, <3>4, <3>5, <3>6
    <2> QED
      BY <2>4, <2>5 DEF LocalitySorted
  <1> QED
    BY <1>1, DesignAlways, PTL

-----------------------------------------------------------------------------
(* Gathers. *)

XOf(d) == [k \in 0..d.nDofs - 1 |-> Coefficient(k)]

(* The fit of a design's row, and of a caller's observation. *)
FitOf(d, x, i) ==
  SumFunction([q \in DOMAIN d.terms |->
    SumFunction([c \in DOMAIN d.terms[q].columns |->
      x[Index(d.terms[q], c, d.frame.levels[q][i])]
        * Loading(d.frame, d.terms[q].columns[c], i)])])

CallerFitOf(d, inp, i) ==
  SumFunction([q \in DOMAIN d.terms |->
    SumFunction([c \in DOMAIN d.terms[q].columns |->
      Coefficient(Index(d.terms[q], c, inp.frame.levels[q][i]))
        * Loading(inp.frame, d.terms[q].columns[c], i)])])

WeightOf(inp, i) == IF inp.weights = None THEN 1 ELSE SquareRoot(inp.weights[i])

LEMMA SumFunctionType ==
  ASSUME NEW n \in Nat, NEW f, DOMAIN f = 1..n, \A i \in 1..n : f[i] \in Int
  PROVE  SumFunction(f) \in Int
  BY FS_Interval, SumType DEF SumFunction

(* A row's fit is that of the observation it stands for. *)
LEMMA FitIsCallers ==
  ASSUME NEW inp \in Inputs, NEW d, Builds(d, inp.frame, inp.structure), NEW i \in 1..d.nObs
  PROVE  /\ FitOf(d, XOf(d), i) = CallerFitOf(d, inp, OriginalOf(d, i))
         /\ FitOf(d, XOf(d), i) \in Int
  <1> DEFINE o == OriginalOf(d, i)
             x == XOf(d)
             F(q, c) == x[Index(d.terms[q], c, d.frame.levels[q][i])]
                          * Loading(d.frame, d.terms[q].columns[c], i)
             G(q, c) == Coefficient(Index(d.terms[q], c, inp.frame.levels[q][o]))
                          * Loading(inp.frame, d.terms[q].columns[c], o)
             FTerm(q) == SumFunction([c \in DOMAIN d.terms[q].columns |-> F(q, c)])
             GTerm(q) == SumFunction([c \in DOMAIN d.terms[q].columns |-> G(q, c)])
  <1>1. /\ o \in 1..d.nObs
        /\ \A q \in DOMAIN inp.frame.levels : d.frame.levels[q][i] = inp.frame.levels[q][o]
        /\ \A k \in DOMAIN inp.frame.loadings :
             /\ d.frame.loadings[k][i] = inp.frame.loadings[k][o]
             /\ inp.frame.loadings[k][o] \in Int
    BY DesignRows
  <1>2. /\ Contiguous(d.terms) /\ DOMAIN d.terms = DOMAIN inp.frame.levels
        /\ d.nDofs = TotalDofs(d.terms) /\ d.nDofs <= MaxDofs
        /\ \A q \in DOMAIN d.terms : /\ d.terms[q].columns = inp.structure[q]
                                     /\ inp.frame.levels[q][o] \in 0..d.terms[q].nLevels - 1
    BY <1>1 DEF Builds
  <1>3. /\ DOMAIN inp.structure = DOMAIN inp.frame.levels
        /\ \A q \in DOMAIN inp.structure : \A c \in DOMAIN inp.structure[q] :
             inp.structure[q][c] = Constant \/ inp.structure[q][c] \in DOMAIN inp.frame.loadings
    BY InputValid, FrameColumns
  <1>4. ASSUME NEW q \in DOMAIN d.terms, NEW c \in DOMAIN d.terms[q].columns
        PROVE  F(q, c) = G(q, c) /\ F(q, c) \in Int
    <2> DEFINE k == Index(d.terms[q], c, inp.frame.levels[q][o])
               col == d.terms[q].columns[c]
    <2>1. k \in 0..d.nDofs - 1
      BY <1>2, IndexInBlock
    <2>2. d.frame.levels[q][i] = inp.frame.levels[q][o]
      BY <1>1, <1>2
    <2>3. x[k] = Coefficient(k) /\ Coefficient(k) \in Int
      <3>1. d.nDofs \in Nat
        <4>1. Len(d.terms) \in Nat /\ TotalDofs(d.terms) = End(d.terms, Len(d.terms))
          BY <1>2, Blocks
        <4>2. Len(d.terms) \in 0..Len(d.terms) /\ Len(d.terms) <= Len(d.terms)
          BY <4>1
        <4> QED
          BY <1>2, <4>1, <4>2, Blocks
      <3> HIDE DEF k
      <3>2. k \in 0..MaxDofs
        BY <1>2, <2>1, <3>1, InputsAssumption
      <3> QED
        BY <2>1, <3>2, InputsAssumption DEF XOf
    <2>4. Loading(d.frame, col, i) = Loading(inp.frame, col, o) /\ Loading(d.frame, col, i) \in Int
      <3>1. col = Constant \/ col \in DOMAIN inp.frame.loadings
        BY <1>2, <1>3
      <3> HIDE DEF col, o
      <3> QED
        BY <1>1, <3>1 DEF Loading
    <2>5. F(q, c) = x[k] * Loading(d.frame, col, i) /\ G(q, c) = Coefficient(k) * Loading(inp.frame, col, o)
      BY <2>2
    <2>6. \A a, b \in Int : a * b \in Int
      OBVIOUS
    <2> HIDE DEF x, k, col, o, F, G
    <2> QED
      BY <2>3, <2>4, <2>5, <2>6
  <1>5. ASSUME NEW q \in DOMAIN d.terms PROVE FTerm(q) = GTerm(q) /\ FTerm(q) \in Int
    <2>1. DOMAIN d.terms[q].columns = 1..Len(d.terms[q].columns) /\ Len(d.terms[q].columns) \in Nat
      BY <1>2 DEF Contiguous
    <2> HIDE DEF F, G
    <2>2. [c \in DOMAIN d.terms[q].columns |-> F(q, c)] = [c \in DOMAIN d.terms[q].columns |-> G(q, c)]
      BY <1>4
    <2> DEFINE f == [c \in DOMAIN d.terms[q].columns |-> F(q, c)]
    <2>3. DOMAIN f = 1..Len(d.terms[q].columns) /\ \A c \in 1..Len(d.terms[q].columns) : f[c] \in Int
      BY <1>4, <2>1
    <2>4. SumFunction(f) \in Int
      <3> HIDE DEF f
      <3> QED
        BY <2>1, <2>3, SumFunctionType
    <2> QED
      BY <2>2, <2>4
  <1>6. FitOf(d, x, i) = SumFunction([q \in DOMAIN d.terms |-> FTerm(q)])
    BY DEF FitOf
  <1>7. CallerFitOf(d, inp, o) = SumFunction([q \in DOMAIN d.terms |-> GTerm(q)])
    BY DEF CallerFitOf
  <1> HIDE DEF FTerm, GTerm
  <1>8. [q \in DOMAIN d.terms |-> FTerm(q)] = [q \in DOMAIN d.terms |-> GTerm(q)]
    BY <1>5
  <1>9. SumFunction([q \in DOMAIN d.terms |-> FTerm(q)]) \in Int
    <2> DEFINE f == [q \in DOMAIN d.terms |-> FTerm(q)]
    <2>1. Len(d.terms) \in Nat /\ DOMAIN f = 1..Len(d.terms) /\ \A q \in 1..Len(d.terms) : f[q] \in Int
      BY <1>2, <1>5 DEF Contiguous
    <2> HIDE DEF f
    <2>2. SumFunction(f) \in Int
      BY <2>1, SumFunctionType
    <2> QED
      BY <2>2 DEF f
  <1> HIDE DEF x, o
  <1>10. FitOf(d, x, i) = CallerFitOf(d, inp, o) /\ FitOf(d, x, i) \in Int
    BY <1>6, <1>7, <1>8, <1>9
  <1> QED
    BY <1>10 DEF x, o

(* Every number has an integer root. *)
LEMMA RootType == \A w \in Nat : SquareRoot(w) \in Nat
  <1> DEFINE T == {w \in Nat : \E s \in 0..w : s * s <= w /\ w < (s + 1) * (s + 1)}
  <1>1. 0 \in T
    <2>1. 0 \in 0..0 /\ 0 * 0 <= 0 /\ 0 < (0 + 1) * (0 + 1)
      OBVIOUS
    <2> QED
      BY <2>1
  <1>2. ASSUME NEW w \in T PROVE w + 1 \in T
    <2>1. PICK s \in 0..w : s * s <= w /\ w < (s + 1) * (s + 1)
      OBVIOUS
    <2>2. (s + 1) * (s + 1) \in Nat /\ s * s \in Nat /\ s \in Nat /\ w \in Nat
      OBVIOUS
    <2>3. CASE w + 1 < (s + 1) * (s + 1)
      <3>1. s \in 0..w + 1 /\ s * s <= w + 1
        BY <2>1, <2>2
      <3> QED
        BY <2>2, <2>3, <3>1
    <2>4. CASE w + 1 = (s + 1) * (s + 1)
      <3> DEFINE t == s + 1
      <3>1. t \in Nat /\ t \in 0..w + 1 /\ t * t = w + 1
        BY <2>2, <2>4
      <3> HIDE DEF t
      <3>2. (t + 1) * (t + 1) = t * t + 2 * t + 1
        BY <3>1
      <3>3. w + 1 < (t + 1) * (t + 1) /\ t * t <= w + 1
        BY <2>2, <3>1, <3>2
      <3> QED
        BY <2>2, <3>1, <3>3
    <2> QED
      BY <2>1, <2>2, <2>3, <2>4
  <1>3. T = Nat
    <2> HIDE DEF T
    <2>1. T \in SUBSET Nat
      BY DEF T
    <2> QED
      BY <1>1, <1>2, <2>1, SetOfNaturals
  <1>4. \A w \in Nat : \E s \in 0..w : s * s <= w /\ w < (s + 1) * (s + 1)
    BY <1>3
  <1> SUFFICES ASSUME NEW w \in Nat PROVE SquareRoot(w) \in 0..w
    OBVIOUS
  <1> QED
    BY <1>4 DEF SquareRoot

(* The operator's weight of a row is that of its observation. *)
LEMMA WeightsAreCallers ==
  ASSUME NEW inp \in Inputs, NEW d, Builds(d, inp.frame, inp.structure),
         WeightsValid(inp.weights, d.nObs), NEW i \in 1..d.nObs
  PROVE  Scale(InternalWeights(d, inp.weights), i) = WeightOf(inp, OriginalOf(d, i))
  <1> DEFINE n == d.nObs
             w == inp.weights
             iw == InternalWeights(d, w)
             o == OriginalOf(d, i)
  <1>1. CASE w = None
    BY <1>1 DEF InternalWeights, Scale, WeightOf
  <1>2. CASE w # None
    <2>1. w \in [1..n -> Nat] /\ n \in Nat
      <3>1. w \in Seq(Int) /\ Len(w) = n /\ \A j \in DOMAIN w : w[j] >= 0
        BY <1>2, InputValid DEF WeightsValid
      <3>2. n \in Nat
        BY DEF Builds
      <3> HIDE DEF w, n
      <3> QED
        BY <3>1, <3>2
    <2>2. \A j \in 1..n : OriginalOf(d, j) \in 1..n
      BY DesignRows
    <2>3. PermuteIn(d, w) = [j \in 1..n |-> w[OriginalOf(d, j)]]
      <3>1. CASE d.perm = None
        BY <2>1, <3>1 DEF PermuteIn, OriginalOf
      <3>2. CASE d.perm # None
        <4>1. d.perm \in [1..n -> 1..n]
          BY <3>2, DesignRows
        <4> QED
          BY <3>2, <4>1 DEF PermuteIn, OriginalOf, Gathered
      <3> QED
        BY <3>1, <3>2
    <2> HIDE DEF w, n
    <2>4. iw = [j \in 1..n |-> SquareRoot(w[OriginalOf(d, j)])]
      BY <1>2, <2>3 DEF InternalWeights
    <2> HIDE DEF iw
    <2>5. iw \in [1..n -> Nat]
      BY <2>1, <2>2, <2>4, RootType
    <2>6. iw # None
      <3>1. iw \in Seq(Int)
        BY <2>1, <2>5
      <3> QED
        BY <3>1, InputsAssumption
    <2>7. iw[i] = SquareRoot(w[o])
      BY <2>4 DEF n
    <2> QED
      BY <1>2, <2>6, <2>7 DEF Scale, WeightOf, iw, w
  <1> QED
    BY <1>1, <1>2

LEMMA DivGrows ==
  ASSUME NEW n \in Nat \ {0}, NEW a \in Nat, NEW b \in Nat, a <= b
  PROVE  a \div n \in 0..b \div n
  <1> DEFINE p == a \div n
             q == b \div n
  <1>1. /\ p \in Nat /\ a % n \in 0..n - 1 /\ a = p * n + (a % n)
        /\ q \in Nat /\ b % n \in 0..n - 1 /\ b = q * n + (b % n)
    BY DivMod
  <1> HIDE DEF p, q
  <1> SUFFICES ASSUME q < p PROVE FALSE
    BY <1>1 DEF p, q
  <1>2. (q + 1) * n <= p * n /\ (q + 1) * n = q * n + n /\ p * n \in Nat /\ q * n \in Nat
    <2>1. q + 1 \in Nat /\ q + 1 <= p /\ n \in Nat
      BY <1>1
    <2>2. \A i, j \in Nat : i <= j => i * n <= j * n
      BY <2>1
    <2>3. \A i \in Nat : (i + 1) * n = i * n + n /\ i * n \in Nat
      BY <2>1
    <2> QED
      BY <1>1, <2>1, <2>2, <2>3
  <1> QED
    BY <1>1, <1>2

LEMMA OutIsCallers ==
  ASSUME NEW inp \in Inputs, NEW d, Builds(d, inp.frame, inp.structure),
         NEW v, DOMAIN v = 1..d.nObs, NEW i \in 1..d.nObs
  PROVE  PermuteOut(d, v)[OriginalOf(d, i)] = v[i]
  <1>1. CASE d.perm = None
    BY <1>1 DEF PermuteOut, OriginalOf
  <1>2. CASE d.perm # None
    <2>1. /\ d.nObs \in Nat /\ d.perm \in [1..d.nObs -> 1..d.nObs]
          /\ \A j, k \in 1..d.nObs : OriginalOf(d, j) = OriginalOf(d, k) => j = k
      BY <1>2, DesignRows
    <2>2. Rearranges(d, v, d.nObs)
      BY <1>2, <2>1 DEF Rearranges, OriginalOf
    <2>3. ASSUME NEW n, Rearranges(d, v, n), NEW k \in 1..n
          PROVE  PermuteOut(d, v)[d.perm[k]] = v[k]
      BY ONLY <2>3, PermutesOut
    <2> QED
      BY <1>2, <2>2, <2>3 DEF OriginalOf
  <1> QED
    BY <1>1, <1>2

(* What a gather owes its caller. *)
Answered(d, inp, p, o) ==
  /\ p.op = "demean" => \A i \in 1..d.nObs : o[i] = p.y[i] - CallerFitOf(d, inp, i)
  /\ p.op = "apply" => \A i \in 1..d.nObs :
       o[i] = CallerFitOf(d, inp, OriginalOf(d, i)) * WeightOf(inp, OriginalOf(d, i))

(* A gather under way: each row is computed, or a task has it to do. *)
Gathering(d, sw, p, o, td) ==
  /\ p.op \in {"apply", "demean"}
  /\ p.x = XOf(d)
  /\ p.scale = IF p.op = "apply" THEN sw ELSE None
  /\ DOMAIN o = 1..d.nObs
  /\ \A i \in 1..d.nObs :
       \/ o[i] = FitOf(d, XOf(d), i) * Scale(p.scale, i)
       \/ \E k \in td : k = None \/ (i - 1) \div GatherChunk = k

RhsInv(r) ==
  /\ pc[r] \in {"idle", "gather", "scatter", "join"}
  /\ pc[r] = "gather" => Built /\ Gathering(design, sqrtWeights, product[r], out[r], todo[r])
  /\ pc[r] \in {"scatter", "join"} => Built /\ product[r].op = "adjoint"
  /\ pc[r] = "idle" /\ product[r] # None => Built /\ Answered(design, input, product[r], out[r])

GatherInv ==
  /\ DOMAIN pc = Rhs /\ DOMAIN product = Rhs /\ DOMAIN out = Rhs /\ DOMAIN todo = Rhs
  /\ \A r \in Rhs : RhsInv(r)

LEMMA FittedIs == \A x, i : Fitted(x, i) = FitOf(design, x, i)
  BY DEF Fitted, FitOf

LEMMA CallerFitIs == \A i : CallerFit(i) = CallerFitOf(design, input, i)
  BY DEF CallerFit, CallerFitOf, CallerLevel, CallerValue

(* A right-hand side that a step does not touch. *)
LEMMA Untouched ==
  ASSUME NEW q \in Rhs, RhsInv(q), UNCHANGED <<input, design, sqrtWeights>>,
         pc'[q] = pc[q], product'[q] = product[q], out'[q] = out[q],
         pc[q] = "gather" => todo'[q] = todo[q]
  PROVE  RhsInv(q)'
  BY DEF RhsInv, Built

LEMMA StartGathers ==
  ASSUME DesignInv, Built, NEW p, NEW o, NEW td,
         p.op \in {"apply", "demean"}, p.x = XOf(design),
         p.scale = IF p.op = "apply" THEN sqrtWeights ELSE None,
         o = [i \in Rows |-> 0],
         td = IF Parallel THEN Chunks(GatherChunk) ELSE {None}
  PROVE  Gathering(design, sqrtWeights, p, o, td)
  <1>1. design.nObs \in Nat \ {0} /\ GatherChunk \in Nat \ {0}
    BY DesignOperatorAssumption DEF DesignInv, Builds
  <1>2. ASSUME NEW i \in 1..design.nObs
        PROVE  \E k \in td : k = None \/ (i - 1) \div GatherChunk = k
    <2>1. CASE Parallel
      <3>1. i - 1 \in Nat /\ design.nObs - 1 \in Nat /\ i - 1 <= design.nObs - 1
        BY <1>1
      <3>2. (i - 1) \div GatherChunk \in 0..((design.nObs - 1) \div GatherChunk)
        BY <1>1, <3>1, DivGrows
      <3> QED
        BY <2>1, <3>2 DEF Chunks
    <2>2. CASE ~Parallel
      BY <2>2
    <2> QED
      BY <2>1, <2>2
  <1> QED
    BY <1>2 DEF Gathering, Rows

LEMMA StartKeeps ==
  ASSUME DesignInv, GatherInv, NEW r \in Rhs, Start(r)
  PROVE  GatherInv'
  <1>1. Built /\ UNCHANGED <<input, design, sqrtWeights>>
    BY DEF Start
  <1>2. X = XOf(design)
    BY DEF X, XOf
  <1>3. PICK op \in Products, y \in ObsVectors :
          CASE op = "adjoint" -> ApplyAdjoint(r, y)
            [] op = "apply"   -> GatherStart(r, op, X, sqrtWeights, None)
            [] op = "demean"  -> GatherStart(r, op, X, None, y)
    BY DEF Start
  <1>4. op \in {"adjoint", "apply", "demean"}
    BY DesignOperatorAssumption
  <1>5. CASE op = "adjoint"
    <2>1. ApplyAdjoint(r, y)
      BY <1>3, <1>5
    <2>2. RhsInv(r)'
      BY <1>1, <2>1 DEF ApplyAdjoint, GatherInv, RhsInv, Built
    <2>3. ASSUME NEW q \in Rhs, q # r PROVE RhsInv(q)'
      <3>1. pc'[q] = pc[q] /\ product'[q] = product[q] /\ out'[q] = out[q] /\ todo'[q] = todo[q]
        BY <2>1, <2>3 DEF ApplyAdjoint, GatherInv
      <3> QED
        BY <1>1, <3>1, Untouched DEF GatherInv
    <2>4. DOMAIN pc' = Rhs /\ DOMAIN product' = Rhs /\ DOMAIN out' = Rhs /\ DOMAIN todo' = Rhs
      BY <2>1 DEF ApplyAdjoint, GatherInv
    <2> QED
      BY <2>2, <2>3, <2>4 DEF GatherInv
  <1>6. CASE op \in {"apply", "demean"}
    <2>1. PICK scale, z : /\ GatherStart(r, op, X, scale, z)
                          /\ scale = IF op = "apply" THEN sqrtWeights ELSE None
      BY <1>3, <1>6
    <2> DEFINE p == [op |-> op, x |-> X, scale |-> scale, y |-> z]
               td == IF Parallel THEN Chunks(GatherChunk) ELSE {None}
               o == [i \in Rows |-> 0]
    <2>2. pc'[r] = "gather" /\ product'[r] = p /\ out'[r] = o /\ todo'[r] = td
      BY <2>1 DEF GatherStart, GatherInv
    <2>3. p.op = op /\ p.x = XOf(design) /\ p.scale = scale
      BY <1>2
    <2> HIDE DEF p, td, o
    <2>4. Gathering(design, sqrtWeights, p, o, td)
      BY <1>1, <1>6, <2>1, <2>3, StartGathers DEF td, o
    <2>5. RhsInv(r)'
      BY <1>1, <2>2, <2>4 DEF RhsInv, Built
    <2>6. ASSUME NEW q \in Rhs, q # r PROVE RhsInv(q)'
      <3>1. pc'[q] = pc[q] /\ product'[q] = product[q] /\ out'[q] = out[q] /\ todo'[q] = todo[q]
        BY <2>1, <2>6 DEF GatherStart, GatherInv
      <3> QED
        BY <1>1, <3>1, Untouched DEF GatherInv
    <2>7. DOMAIN pc' = Rhs /\ DOMAIN product' = Rhs /\ DOMAIN out' = Rhs /\ DOMAIN todo' = Rhs
      BY <2>1 DEF GatherStart, GatherInv
    <2> QED
      BY <2>5, <2>6, <2>7 DEF GatherInv
  <1> QED
    BY <1>4, <1>5, <1>6

LEMMA GatherKeeps ==
  ASSUME GatherInv, NEW r \in Rhs, Gather(r)
  PROVE  GatherInv'
  <1>1. pc[r] = "gather" /\ UNCHANGED <<input, design, sqrtWeights, pc, product>>
    BY DEF Gather
  <1>2. PICK k \in todo[r] :
          /\ out' = [out EXCEPT ![r] =
                       [i \in DOMAIN @ |->
                          IF k = None
                          THEN Fitted(product[r].x, i) * Scale(product[r].scale, i)
                          ELSE IF i \in ChunkRows(GatherChunk, k)
                          THEN Fitted(product[r].x, i) * ScaleAt(product[r].scale, k, i)
                          ELSE @[i]]]
          /\ todo' = [todo EXCEPT ![r] = @ \ {k}]
    BY DEF Gather
  <1> DEFINE p == product[r]
             o == out[r]
             value(i) == FitOf(design, XOf(design), i) * Scale(p.scale, i)
  <1>3. Built /\ Gathering(design, sqrtWeights, p, o, todo[r])
    BY <1>1 DEF GatherInv, RhsInv
  <1>4. out'[r] = [i \in 1..design.nObs |->
                     IF k = None \/ (i - 1) \div GatherChunk = k THEN value(i) ELSE o[i]]
    <2>1. out'[r] = [i \in DOMAIN o |->
                       IF k = None
                       THEN Fitted(p.x, i) * Scale(p.scale, i)
                       ELSE IF i \in ChunkRows(GatherChunk, k)
                       THEN Fitted(p.x, i) * ScaleAt(p.scale, k, i)
                       ELSE o[i]]
      BY <1>2 DEF GatherInv
    <2>2. p.x = XOf(design) /\ DOMAIN o = 1..design.nObs
      BY <1>3 DEF Gathering
    <2>3. \A i \in 1..design.nObs : i \in ChunkRows(GatherChunk, k) <=> (i - 1) \div GatherChunk = k
      BY DEF ChunkRows, Rows
    <2>4. \A i : Fitted(p.x, i) = FitOf(design, XOf(design), i)
      BY <2>2, FittedIs
    <2> HIDE DEF p, o
    <2> QED
      BY <2>1, <2>2, <2>3, <2>4 DEF ScaleAt
  <1>5. todo'[r] = todo[r] \ {k}
    BY <1>2 DEF GatherInv
  <1>6. Gathering(design, sqrtWeights, p, out'[r], todo'[r])
    <2>1. ASSUME NEW i \in 1..design.nObs
          PROVE  \/ out'[r][i] = value(i)
                 \/ \E l \in todo'[r] : l = None \/ (i - 1) \div GatherChunk = l
      <3>1. \/ o[i] = value(i)
            \/ \E l \in todo[r] : l = None \/ (i - 1) \div GatherChunk = l
        BY <1>3 DEF Gathering
      <3> HIDE DEF value, o
      <3> QED
        BY <1>4, <1>5, <3>1
    <2>2. DOMAIN out'[r] = 1..design.nObs
      BY <1>4
    <2> QED
      BY <1>3, <2>1, <2>2 DEF Gathering
  <1>7. RhsInv(r)'
    BY <1>1, <1>3, <1>6 DEF RhsInv, Built
  <1>8. ASSUME NEW q \in Rhs, q # r PROVE RhsInv(q)'
    <2>1. out'[q] = out[q] /\ todo'[q] = todo[q]
      BY <1>2, <1>8 DEF GatherInv
    <2> QED
      BY <1>1, <2>1, Untouched DEF GatherInv
  <1>9. DOMAIN pc' = Rhs /\ DOMAIN product' = Rhs /\ DOMAIN out' = Rhs /\ DOMAIN todo' = Rhs
    BY <1>1, <1>2 DEF GatherInv
  <1> QED
    BY <1>7, <1>8, <1>9 DEF GatherInv

LEMMA AnsweredApply ==
  ASSUME NEW inp \in Inputs, NEW d, Builds(d, inp.frame, inp.structure),
         WeightsValid(inp.weights, d.nObs),
         NEW p, NEW o, Gathering(d, InternalWeights(d, inp.weights), p, o, {}), p.op = "apply"
  PROVE  Answered(d, inp, p, o)
  <1> SUFFICES ASSUME NEW i \in 1..d.nObs
               PROVE  o[i] = CallerFitOf(d, inp, OriginalOf(d, i)) * WeightOf(inp, OriginalOf(d, i))
    BY DEF Answered
  <1>1. o[i] = FitOf(d, XOf(d), i) * Scale(InternalWeights(d, inp.weights), i)
    BY DEF Gathering
  <1>2. FitOf(d, XOf(d), i) = CallerFitOf(d, inp, OriginalOf(d, i))
    BY FitIsCallers
  <1>3. Scale(InternalWeights(d, inp.weights), i) = WeightOf(inp, OriginalOf(d, i))
    BY WeightsAreCallers
  <1> QED
    BY <1>1, <1>2, <1>3

LEMMA AnsweredDemean ==
  ASSUME NEW inp \in Inputs, NEW d, Builds(d, inp.frame, inp.structure),
         NEW sw, NEW p, NEW o, Gathering(d, sw, p, o, {}), p.op = "demean"
  PROVE  Answered(d, inp, p, PermuteOut(d, [i \in 1..d.nObs |-> PermuteIn(d, p.y)[i] - o[i]]))
  <1> DEFINE v == [i \in 1..d.nObs |-> PermuteIn(d, p.y)[i] - o[i]]
             a == PermuteOut(d, v)
  <1>1. ASSUME NEW k \in 1..d.nObs PROVE a[k] = p.y[k] - CallerFitOf(d, inp, k)
    <2>1. PICK i \in 1..d.nObs : OriginalOf(d, i) = k
      <3>1. \A l \in 1..d.nObs : \E i \in 1..d.nObs : OriginalOf(d, i) = l
        BY DesignRows
      <3> QED
        BY <3>1
    <2>2. a[k] = v[i]
      <3>1. DOMAIN v = 1..d.nObs
        OBVIOUS
      <3> HIDE DEF v
      <3> QED
        BY <2>1, <3>1, OutIsCallers
    <2>3. v[i] = PermuteIn(d, p.y)[i] - o[i]
      OBVIOUS
    <2>4. o[i] = FitOf(d, XOf(d), i)
      <3>1. o[i] = FitOf(d, XOf(d), i) * 1
        BY DEF Gathering, Scale
      <3>2. FitOf(d, XOf(d), i) \in Int
        BY FitIsCallers
      <3> QED
        BY <3>1, <3>2
    <2>5. FitOf(d, XOf(d), i) = CallerFitOf(d, inp, k)
      BY <2>1, FitIsCallers
    <2>6. PermuteIn(d, p.y)[i] = p.y[k]
      <3>1. CASE d.perm = None
        BY <2>1, <3>1 DEF PermuteIn, OriginalOf
      <3>2. CASE d.perm # None
        <4>1. d.perm \in [1..d.nObs -> 1..d.nObs]
          BY <3>2, DesignRows
        <4> QED
          BY <2>1, <3>2, <4>1 DEF PermuteIn, OriginalOf, Gathered
      <3> QED
        BY <3>1, <3>2
    <2> HIDE DEF v, a
    <2> QED
      BY <2>2, <2>3, <2>4, <2>5, <2>6
  <1> HIDE DEF v
  <1> QED
    BY <1>1 DEF Answered, v

LEMMA ReturnKeeps ==
  ASSUME DesignInv, GatherInv, NEW r \in Rhs, GatherReturn(r)
  PROVE  GatherInv'
  <1>1. /\ pc[r] = "gather" /\ todo[r] = {}
        /\ UNCHANGED <<input, design, sqrtWeights, product, todo>>
        /\ out' = [out EXCEPT ![r] = Answer(r)] /\ pc' = [pc EXCEPT ![r] = "idle"]
    BY DEF GatherReturn
  <1>2. Built /\ Gathering(design, sqrtWeights, product[r], out[r], {})
    BY <1>1 DEF GatherInv, RhsInv
  <1>3. /\ input \in Inputs /\ Builds(design, input.frame, input.structure)
        /\ WeightsValid(input.weights, design.nObs)
        /\ sqrtWeights = InternalWeights(design, input.weights)
    BY <1>2 DEF DesignInv
  <1>4. Answered(design, input, product[r], Answer(r))
    <2>1. CASE product[r].op = "apply"
      <3>1. Answer(r) = out[r]
        BY <2>1 DEF Answer
      <3> QED
        BY <1>2, <1>3, <2>1, <3>1, AnsweredApply
    <2>2. CASE product[r].op = "demean"
      <3>1. Answer(r) = PermuteOut(design, [i \in 1..design.nObs |->
                                              PermuteIn(design, product[r].y)[i] - out[r][i]])
        BY <2>2 DEF Answer, Rows
      <3> QED
        BY <1>2, <1>3, <2>2, <3>1, AnsweredDemean
    <2> QED
      BY <1>2, <2>1, <2>2 DEF Gathering
  <1>5. out'[r] = Answer(r) /\ pc'[r] = "idle"
    BY <1>1 DEF GatherInv
  <1>6. RhsInv(r)'
    BY <1>1, <1>2, <1>4, <1>5 DEF RhsInv, Built
  <1>7. ASSUME NEW q \in Rhs, q # r PROVE RhsInv(q)'
    <2>1. out'[q] = out[q] /\ pc'[q] = pc[q] /\ todo'[q] = todo[q]
      BY <1>1, <1>7 DEF GatherInv
    <2> QED
      BY <1>1, <2>1, Untouched DEF GatherInv
  <1>8. DOMAIN pc' = Rhs /\ DOMAIN product' = Rhs /\ DOMAIN out' = Rhs /\ DOMAIN todo' = Rhs
    BY <1>1 DEF GatherInv
  <1> QED
    BY <1>6, <1>7, <1>8 DEF GatherInv

(* A scatter touches no gather. *)
LEMMA ScatterKeeps ==
  ASSUME GatherInv, NEW r \in Rhs,
         ScatterPrivate(r) \/ Seed(r) \/ FetchAdd(r) \/ Writeback(r) \/ ScatterReturn(r)
  PROVE  GatherInv'
  <1>1. pc[r] \in {"scatter", "join"} /\ UNCHANGED <<input, design, sqrtWeights, product>>
    BY DEF ScatterPrivate, Seed, FetchAdd, Writeback, ScatterReturn
  <1>2. Built /\ product[r].op = "adjoint"
    BY <1>1 DEF GatherInv, RhsInv
  <1>3. /\ pc'[r] \in {"idle", "scatter", "join"}
        /\ \A q \in Rhs : q # r => pc'[q] = pc[q]
        /\ DOMAIN pc' = Rhs
    BY <1>1 DEF GatherInv, ScatterPrivate, Seed, FetchAdd, Writeback, ScatterReturn
  <1>4. /\ \A q \in Rhs : q # r => out'[q] = out[q]
        /\ DOMAIN out' = Rhs
    BY DEF GatherInv, ScatterPrivate, Seed, FetchAdd, Writeback, ScatterReturn
  <1>5. /\ \A q \in Rhs : q # r => todo'[q] = todo[q]
        /\ DOMAIN todo' = Rhs
    <2>1. ASSUME NEW x, todo' = [todo EXCEPT ![r] = x]
          PROVE  (\A q \in Rhs : q # r => todo'[q] = todo[q]) /\ DOMAIN todo' = Rhs
      BY <2>1 DEF GatherInv
    <2>2. CASE ScatterPrivate(r) \/ Writeback(r) \/ ScatterReturn(r)
      BY <2>2 DEF GatherInv, ScatterPrivate, Writeback, ScatterReturn
    <2>3. CASE Seed(r)
      BY <2>1, <2>3 DEF Seed
    <2>4. CASE FetchAdd(r)
      <3>1. PICK t \in DOMAIN todo[r] : todo' = [todo EXCEPT ![r][t] = Tail(@)]
        BY <2>4 DEF FetchAdd
      <3> QED
        BY <3>1 DEF GatherInv
    <2> QED
      BY <2>2, <2>3, <2>4
  <1>6. RhsInv(r)'
    <2>1. Answered(design, input, product[r], out'[r])
      BY <1>2 DEF Answered
    <2> QED
      BY <1>1, <1>2, <1>3, <2>1 DEF RhsInv, Built
  <1>7. ASSUME NEW q \in Rhs, q # r PROVE RhsInv(q)'
    BY <1>1, <1>3, <1>4, <1>5, <1>7, Untouched DEF GatherInv
  <1> QED
    BY <1>1, <1>3, <1>4, <1>5, <1>6, <1>7 DEF GatherInv

LEMMA GatherStep == DesignInv /\ GatherInv /\ [Next]_vars => GatherInv'
  <1> SUFFICES ASSUME DesignInv, GatherInv, [Next]_vars PROVE GatherInv'
    OBVIOUS
  <1>1. CASE New
    <2>1. UNCHANGED <<input, pc, product, out, todo>> /\ ~Built
      BY <1>1 DEF New, rhsVars, Built
    <2>2. ASSUME NEW q \in Rhs PROVE RhsInv(q)'
      BY <2>1 DEF GatherInv, RhsInv
    <2> QED
      BY <2>1, <2>2 DEF GatherInv
  <1>2. CASE UNCHANGED vars
    <2>1. UNCHANGED <<input, design, sqrtWeights, pc, product, out, todo>>
      BY <1>2 DEF vars, rhsVars
    <2>2. ASSUME NEW q \in Rhs PROVE RhsInv(q)'
      BY <2>1, Untouched DEF GatherInv
    <2> QED
      BY <2>1, <2>2 DEF GatherInv
  <1>3. ASSUME NEW r \in Rhs,
               \/ Start(r) \/ Gather(r) \/ GatherReturn(r)
               \/ ScatterPrivate(r) \/ Seed(r) \/ FetchAdd(r) \/ Writeback(r)
               \/ ScatterReturn(r)
        PROVE  GatherInv'
    BY <1>3, StartKeeps, GatherKeeps, ReturnKeeps, ScatterKeeps
  <1> QED
    BY <1>1, <1>2, <1>3 DEF Next

(* A gather's answer, fit or residual, is what its caller's own columns,   *)
(* weights and vectors come to, whatever the sort did to the rows and      *)
(* however the chunks and the other right-hand sides were scheduled.       *)
THEOREM GathersAreCallers == Spec => []GatherInCallerOrder
  <1>1. Init => GatherInv
    BY DEF Init, GatherInv, RhsInv
  <1>2. ASSUME DesignInv, GatherInv PROVE GatherInCallerOrder
    <2> SUFFICES ASSUME NEW r \in Rhs
                 PROVE  /\ Returned(r, "demean") =>
                             \A i \in CallerRows : out[r][i] = product[r].y[i] - CallerFit(i)
                        /\ Returned(r, "apply") =>
                             \A i \in Rows : out[r][i] = CallerFit(Original(i)) * CallerWeight(Original(i))
      BY DEF GatherInCallerOrder
    <2> SUFFICES ASSUME pc[r] = "idle", product[r] # None
                 PROVE  /\ product[r].op = "demean" =>
                             \A i \in CallerRows : out[r][i] = product[r].y[i] - CallerFit(i)
                        /\ product[r].op = "apply" =>
                             \A i \in Rows : out[r][i] = CallerFit(Original(i)) * CallerWeight(Original(i))
      BY DEF Returned
    <2>1. Built /\ Answered(design, input, product[r], out[r])
      BY <1>2 DEF GatherInv, RhsInv
    <2>2. CallerRows = 1..design.nObs /\ Rows = 1..design.nObs
      BY <1>2, <2>1 DEF DesignInv, Builds, CallerRows, Rows
    <2>3. \A i : Original(i) = OriginalOf(design, i) /\ CallerWeight(i) = WeightOf(input, i)
      BY DEF Original, OriginalOf, CallerWeight, WeightOf
    <2> QED
      BY <2>1, <2>2, <2>3, CallerFitIs DEF Answered
  <1> QED
    BY <1>1, <1>2, DesignAlways, GatherStep, PTL DEF Spec

-----------------------------------------------------------------------------
(* What a sequence of adds adds to a slot. *)
Total(adds, slot) ==
  SumFunctionOnSet([k \in 1..Len(adds) |-> IF adds[k].slot = slot THEN adds[k].value ELSE 0],
                   1..Len(adds))

AddType == [slot : Int, value : Int]

LEMMA TotalType ==
  ASSUME NEW adds \in Seq(AddType), NEW slot
  PROVE  Total(adds, slot) \in Int
  <1> DEFINE f == [k \in 1..Len(adds) |-> IF adds[k].slot = slot THEN adds[k].value ELSE 0]
  <1>1. IsFiniteSet(1..Len(adds))
    BY FS_Interval
  <1>2. \A k \in 1..Len(adds) : adds[k] \in AddType
    OBVIOUS
  <1>3. \A k \in 1..Len(adds) : f[k] \in Int
    BY <1>2 DEF AddType
  <1> HIDE DEF f
  <1>4. SumFunctionOnSet(f, 1..Len(adds)) \in Int
    BY <1>1, <1>3, SumType
  <1> QED
    BY <1>4 DEF Total, f

LEMMA TotalEmpty == \A slot : Total(<<>>, slot) = 0
  <1>1. 1..Len(<<>>) = {}
    OBVIOUS
  <1> QED
    BY <1>1, SumEmpty DEF Total

LEMMA TotalConcat ==
  ASSUME NEW a \in Seq(AddType), NEW b \in Seq(AddType), NEW slot
  PROVE  Total(a \o b, slot) = Total(a, slot) + Total(b, slot)
  <1> DEFINE Term(q) == [k \in 1..Len(q) |-> IF q[k].slot = slot THEN q[k].value ELSE 0]
             m == Len(a)
             n == Len(b)
             c == a \o b
             h == [k \in 1..n |-> m + k]
  <1>1. /\ c \in Seq(AddType) /\ Len(c) = m + n /\ m \in Nat /\ n \in Nat
        /\ \A k \in 1..m : c[k] = a[k]
        /\ \A k \in 1..n : c[m + k] = b[k]
    BY Concat
  <1> HIDE DEF c
  <1>2. ASSUME NEW q \in Seq(AddType), NEW k \in 1..Len(q) PROVE Term(q)[k] \in Int
    <2>1. q[k] \in AddType
      OBVIOUS
    <2> QED
      BY <2>1 DEF AddType
  <1>3. /\ 1..m + n = (1..m) \cup (m + 1..m + n) /\ (1..m) \cap (m + 1..m + n) = {}
        /\ IsFiniteSet(1..m) /\ IsFiniteSet(m + 1..m + n) /\ IsFiniteSet(1..n)
    <2>1. \A i, j \in Int : IsFiniteSet(i..j)
      BY FS_Interval
    <2>2. 1 \in Int /\ m \in Int /\ n \in Int /\ m + 1 \in Int /\ m + n \in Int
      BY <1>1
    <2>3. 1..m + n = (1..m) \cup (m + 1..m + n) /\ (1..m) \cap (m + 1..m + n) = {}
      BY <1>1
    <2> QED
      BY <2>1, <2>2, <2>3
  <1>4. /\ \A k \in 1..m : Term(a)[k] = Term(c)[k]
        /\ \A k \in 1..n : Term(b)[k] = Term(c)[m + k]
    BY <1>1
  <1>5. /\ \A k \in 1..m : Term(a)[k] \in Int
        /\ \A k \in 1..n : Term(b)[k] \in Int
        /\ \A k \in 1..m + n : Term(c)[k] \in Int
    BY <1>1, <1>2
  <1> DEFINE fa == Term(a)
             fb == Term(b)
             fc == Term(c)
  <1>6. /\ Total(a, slot) = SumFunctionOnSet(fa, 1..m)
        /\ Total(b, slot) = SumFunctionOnSet(fb, 1..n)
        /\ Total(c, slot) = SumFunctionOnSet(fc, 1..m + n)
    BY <1>1 DEF Total
  <1>7. /\ \A k \in 1..n : h[k] \in m + 1..m + n
        /\ \A k, l \in 1..n : h[k] = h[l] => k = l
        /\ \A j \in m + 1..m + n : \E k \in 1..n : h[k] = j
    <2>1. \A k \in 1..n : h[k] \in m + 1..m + n
      BY <1>1
    <2>2. \A k, l \in 1..n : h[k] = h[l] => k = l
      BY <1>1
    <2>3. ASSUME NEW j \in m + 1..m + n PROVE j - m \in 1..n /\ h[j - m] = j
      BY <1>1
    <2> HIDE DEF h
    <2> QED
      BY <2>1, <2>2, <2>3
  <1>8. \A k \in 1..n : fc[h[k]] = fb[k]
    BY <1>4
  <1> HIDE DEF fa, fb, fc, m, n, h
  <1>9. SumFunctionOnSet(fc, m + 1..m + n) = SumFunctionOnSet(fb, 1..n)
    <2>1. \A k \in 1..n : fb[k] \in Int
      BY <1>5 DEF fb
    <2> DEFINE K == m + 1..m + n
               S == 1..n
    <2>2. /\ IsFiniteSet(S) /\ IsFiniteSet(K) /\ \A k \in S : fb[k] \in Int
          /\ \A k \in S : h[k] \in K
          /\ \A k, l \in S : h[k] = h[l] => k = l
          /\ \A j \in K : \E k \in S : h[k] = j
          /\ \A k \in S : fc[h[k]] = fb[k]
      BY <1>3, <1>7, <1>8, <2>1
    <2> HIDE DEF K, S
    <2>3. SumFunctionOnSet(fc, K) = SumFunctionOnSet(fb, S)
      BY SMTT(20), <2>2, SumRename
    <2> QED
      BY <2>3 DEF K, S
  <1>10. SumFunctionOnSet(fc, 1..m) = SumFunctionOnSet(fa, 1..m)
    <2>1. \A k \in 1..m : fa[k] = fc[k] /\ fa[k] \in Int
      BY <1>4, <1>5 DEF fa, fc
    <2> QED
      BY <1>3, <2>1, SumSame
  <1>11. SumFunctionOnSet(fc, 1..m + n)
           = SumFunctionOnSet(fc, 1..m) + SumFunctionOnSet(fc, m + 1..m + n)
    <2> DEFINE B == m + 1..m + n
    <2>1. 1..m + n = (1..m) \cup B /\ (1..m) \cap B = {} /\ IsFiniteSet(1..m) /\ IsFiniteSet(B)
      BY <1>3
    <2>2. \A k \in (1..m) \cup B : fc[k] \in Int
      BY <1>5, <2>1 DEF fc
    <2> HIDE DEF B
    <2>3. SumFunctionOnSet(fc, (1..m) \cup B) = SumFunctionOnSet(fc, 1..m) + SumFunctionOnSet(fc, B)
      BY <2>1, <2>2, SumDisjoint
    <2> QED
      BY <2>1, <2>3 DEF B
  <1>12. Total(c, slot) = Total(a, slot) + Total(b, slot)
    BY <1>6, <1>9, <1>10, <1>11
  <1> QED
    BY <1>12 DEF c

LEMMA TotalHead ==
  ASSUME NEW adds \in Seq(AddType), adds # <<>>, NEW slot
  PROVE  /\ Head(adds) \in AddType /\ Tail(adds) \in Seq(AddType)
         /\ Total(adds, slot) = (IF Head(adds).slot = slot THEN Head(adds).value ELSE 0)
                                  + Total(Tail(adds), slot)
  <1> DEFINE hd == Head(adds)
             one == <<hd>>
             f == [k \in 1..1 |-> IF one[k].slot = slot THEN one[k].value ELSE 0]
  <1>1. hd \in AddType /\ Tail(adds) \in Seq(AddType) /\ adds = one \o Tail(adds)
        /\ one \in Seq(AddType) /\ Len(one) = 1
    OBVIOUS
  <1>4. Tail(adds) \in Seq(AddType)
    OBVIOUS
  <1>2. Total(one, slot) = IF hd.slot = slot THEN hd.value ELSE 0
    <2>1. 1..1 = {1} /\ f[1] = IF hd.slot = slot THEN hd.value ELSE 0
      OBVIOUS
    <2>2. f[1] \in Int
      BY <1>1, <2>1 DEF AddType
    <2>3. Total(one, slot) = SumFunctionOnSet(f, 1..1)
      BY <1>1 DEF Total
    <2> HIDE DEF f, hd, one
    <2> QED
      BY <2>1, <2>2, <2>3, SumSingle
  <1> HIDE DEF hd, one
  <1>3. Total(adds, slot) = Total(one, slot) + Total(Tail(adds), slot)
    <2>1. Total(one \o Tail(adds), slot) = Total(one, slot) + Total(Tail(adds), slot)
      BY <1>1, <1>4, TotalConcat
    <2> QED
      BY <1>1, <2>1
  <1> QED
    BY <1>1, <1>2, <1>3 DEF hd

-----------------------------------------------------------------------------
(* The passes of a product. *)

(* A pass takes some columns of one term, from column k + 1 on.            *)
PassAt(p, q, k) ==
  /\ p.term = q
  /\ p.base = design.terms[q].offset + k * design.terms[q].nLevels
  /\ Len(p.columns) \in Nat \ {0} /\ DOMAIN p.columns = 1..Len(p.columns)
  /\ k + Len(p.columns) <= Len(design.terms[q].columns)
  /\ \A c \in DOMAIN p.columns : p.columns[c] = design.terms[q].columns[k + c]

(* Passes over the first m terms: their blocks lie one after the other and *)
(* leave out no column.                                                    *)
Tiles(ps, m) ==
  /\ \A j \in 1..Len(ps) : \E q \in 1..m, k \in Nat : PassAt(ps[j], q, k)
  /\ \A j, l \in 1..Len(ps) : j < l => ps[j].base + Block(ps[j]) <= ps[l].base
  /\ \A q \in 1..m : \A c \in DOMAIN design.terms[q].columns :
       \E j \in 1..Len(ps), k \in Nat :
         \E e \in DOMAIN ps[j].columns : PassAt(ps[j], q, k) /\ k + e = c

PassesIn(q) == PassesOf(q, design.terms[q])

LEMMA TermFacts ==
  ASSUME DesignInv, Built
  PROVE  /\ design.nObs \in Nat \ {0} /\ Rows = 1..design.nObs /\ IsFiniteSet(Rows)
         /\ Contiguous(design.terms)
         /\ \A q \in DOMAIN design.terms :
              /\ design.terms[q].nLevels \in Nat \ {0}
              /\ design.terms[q].offset \in Nat
              /\ Len(design.terms[q].columns) \in Nat \ {0}
              /\ DOMAIN design.terms[q].columns = 1..Len(design.terms[q].columns)
  <1>1. Contiguous(design.terms) /\ design.nObs \in Nat \ {0} /\ Rows = 1..design.nObs
    BY DEF DesignInv, Builds, Rows
  <1>2. IsFiniteSet(Rows)
    BY <1>1, FS_Interval
  <1>3. ASSUME NEW q \in DOMAIN design.terms PROVE design.terms[q].offset \in Nat
    <2>1. q \in 1..Len(design.terms) /\ Len(design.terms) \in Nat
      BY <1>1 DEF Contiguous
    <2>2. q - 1 \in 0..Len(design.terms) /\ q - 1 <= q - 1
      BY <2>1
    <2>3. End(design.terms, q - 1) \in Nat
      BY <1>1, <2>2, Blocks
    <2> QED
      BY <1>1, <2>1, <2>3, Blocks
  <1> QED
    BY <1>1, <1>2, <1>3 DEF Contiguous

LEMMA PassBlock ==
  ASSUME DesignInv, Built, NEW q \in DOMAIN design.terms, NEW k \in Nat, NEW p, PassAt(p, q, k)
  PROVE  /\ p.base \in Nat /\ Block(p) \in Nat \ {0}
         /\ design.terms[q].offset <= p.base
         /\ p.base + Block(p) <= End(design.terms, q)
         /\ Block(p) <= NDofs(design.terms[q])
  <1> DEFINE n == design.terms[q].nLevels
             o == design.terms[q].offset
             m == Len(design.terms[q].columns)
             l == Len(p.columns)
  <1>1. n \in Nat \ {0} /\ o \in Nat /\ m \in Nat \ {0} /\ l \in Nat \ {0} /\ k + l <= m
    BY TermFacts DEF PassAt
  <1>2. p.base = o + k * n /\ Block(p) = l * n /\ NDofs(design.terms[q]) = m * n
    BY DEF PassAt, Block, NDofs
  <1>3. End(design.terms, q) = o + NDofs(design.terms[q])
    <2>1. Contiguous(design.terms)
      BY TermFacts
    <2>2. q \in 1..Len(design.terms)
      BY <2>1 DEF Contiguous
    <2> QED
      BY <2>1, <2>2, Blocks
  <1> HIDE DEF n, o, m, l
  <1>4. k * n \in Nat /\ l * n \in Nat \ {0} /\ m * n \in Nat
    BY <1>1, ProductPositive
  <1>5. k * n + l * n = (k + l) * n
    BY <1>1
  <1>6. (k + l) * n <= m * n
    <2>1. k + l \in Nat
      BY <1>1
    <2>2. \A a, b \in Nat : a <= b => a * n <= b * n
      BY <1>1
    <2> QED
      BY <1>1, <2>1, <2>2
  <1>7. l * n <= m * n
    BY <1>4, <1>5, <1>6
  <1>8. p.base \in Nat /\ Block(p) \in Nat \ {0} /\ o <= p.base
    BY <1>1, <1>2, <1>4
  <1>9. p.base + Block(p) <= End(design.terms, q)
    BY <1>1, <1>2, <1>3, <1>4, <1>5, <1>6
  <1> QED
    BY <1>2, <1>7, <1>8, <1>9 DEF o

(* What scatter_apply does for one term. *)
LEMMA PassesOfTerm ==
  ASSUME DesignInv, Built, NEW q \in DOMAIN design.terms
  PROVE  /\ Len(PassesIn(q)) \in Nat /\ PassesIn(q) = [j \in 1..Len(PassesIn(q)) |-> PassesIn(q)[j]]
         /\ \A j \in 1..Len(PassesIn(q)) : \E k \in Nat : PassAt(PassesIn(q)[j], q, k)
         /\ \A j, l \in 1..Len(PassesIn(q)) :
              j < l => PassesIn(q)[j].base + Block(PassesIn(q)[j]) <= PassesIn(q)[l].base
         /\ \A c \in DOMAIN design.terms[q].columns :
              \E j \in 1..Len(PassesIn(q)), k \in Nat :
                \E e \in DOMAIN PassesIn(q)[j].columns :
                  PassAt(PassesIn(q)[j], q, k) /\ k + e = c
  <1> DEFINE t == design.terms[q]
             n == t.nLevels
             m == Len(t.columns)
             ps == PassesIn(q)
  <1>1. n \in Nat \ {0} /\ t.offset \in Nat /\ m \in Nat \ {0} /\ DOMAIN t.columns = 1..m
    BY TermFacts
  <1>2. CASE Fused(t.columns)
    <2> DEFINE p == [term |-> q, base |-> t.offset, columns |-> t.columns]
    <2>1. ps = <<p>>
      BY <1>2 DEF PassesIn, PassesOf
    <2>2. PassAt(p, q, 0)
      <3>1. p.term = q /\ p.base = t.offset /\ p.columns = t.columns
        OBVIOUS
      <3>2. 0 * n = 0 /\ 0 + m = m
        BY <1>1
      <3>3. \A c \in 1..m : 0 + c = c
        OBVIOUS
      <3> HIDE DEF p
      <3> QED
        BY <1>1, <3>1, <3>2, <3>3 DEF PassAt
    <2>3. p.columns = t.columns
      OBVIOUS
    <2> HIDE DEF p, ps
    <2>4. Len(ps) = 1 /\ ps[1] = p /\ ps = [j \in 1..1 |-> ps[j]] /\ 1..1 = {1}
      BY <2>1
    <2>5. ASSUME NEW c \in DOMAIN t.columns
          PROVE  \E j \in 1..Len(ps), k \in Nat : \E e \in DOMAIN ps[j].columns :
                   PassAt(ps[j], q, k) /\ k + e = c
      <3>1. 0 + c = c /\ 1 \in 1..Len(ps) /\ 0 \in Nat /\ c \in DOMAIN ps[1].columns
        BY <1>1, <2>3, <2>4
      <3> QED
        BY <2>2, <2>4, <3>1
    <2>6. \A j \in 1..Len(ps) : \E k \in Nat : PassAt(ps[j], q, k)
      <3>1. 0 \in Nat
        OBVIOUS
      <3> QED
        BY <2>2, <2>4, <3>1
    <2>7. \A j, l \in 1..Len(ps) : ~(j < l)
      BY <2>4
    <2> QED
      BY <2>4, <2>5, <2>6, <2>7 DEF ps
  <1>3. CASE ~Fused(t.columns)
    <2> DEFINE P(c) == [term |-> q, base |-> t.offset + (c - 1) * n, columns |-> <<t.columns[c]>>]
    <2>1. ps = [c \in 1..m |-> P(c)]
      BY <1>1, <1>3 DEF PassesIn, PassesOf
    <2>2. Len(ps) = m
      <3>1. ps = [c \in 1..m |-> ps[c]]
        BY <2>1
      <3> HIDE DEF ps, m
      <3> QED
        BY <1>1, <3>1, LenOfFunction
    <2>3. ASSUME NEW c \in 1..m PROVE PassAt(ps[c], q, c - 1) /\ c - 1 \in Nat /\ 1 \in DOMAIN ps[c].columns
                                      /\ Len(ps[c].columns) = 1
      <3>1. ps[c] = P(c)
        BY <2>1
      <3>2. /\ P(c).term = q /\ P(c).base = t.offset + (c - 1) * n
            /\ Len(P(c).columns) = 1 /\ DOMAIN P(c).columns = 1..1 /\ P(c).columns[1] = t.columns[c]
        OBVIOUS
      <3>3. 1..1 = {1} /\ (c - 1) + 1 = c /\ c <= m /\ c - 1 \in Nat
        BY <1>1
      <3> HIDE DEF P, ps, m, t
      <3> QED
        BY <3>1, <3>2, <3>3 DEF PassAt, t, m
    <2>4. ASSUME NEW j \in 1..m, NEW l \in 1..m, j < l
          PROVE  ps[j].base + Block(ps[j]) <= ps[l].base
      <3>1. /\ ps[j].base = t.offset + (j - 1) * n /\ ps[l].base = t.offset + (l - 1) * n
            /\ ps[j].term = q /\ Len(ps[j].columns) = 1
        BY <2>3 DEF PassAt
      <3>2. Block(ps[j]) = 1 * n
        BY <3>1 DEF Block
      <3> DEFINE o == t.offset
      <3> HIDE DEF t, n, m, ps
      <3>3. o \in Nat /\ n \in Nat
        BY <1>1
      <3> HIDE DEF o
      <3>4. (j - 1) * n + 1 * n = j * n
        BY <3>3
      <3>5. j * n <= (l - 1) * n
        <4>1. j \in Nat /\ l - 1 \in Nat /\ j <= l - 1
          BY <1>1, <2>4
        <4>2. \A a, b \in Nat : a <= b => a * n <= b * n
          BY <3>3
        <4> QED
          BY <4>1, <4>2
      <3>6. (j - 1) * n \in Nat /\ j * n \in Nat /\ (l - 1) * n \in Nat
        <4>1. j \in Nat /\ l - 1 \in Nat /\ j - 1 \in Nat
          BY <1>1, <2>4
        <4> QED
          BY <3>3, <4>1
      <3> QED
        BY <3>1, <3>2, <3>3, <3>4, <3>5, <3>6 DEF o
    <2>5. \A j \in 1..m : \E k \in Nat : PassAt(ps[j], q, k)
      BY <2>3
    <2>6. ASSUME NEW c \in 1..m
          PROVE  \E j \in 1..m, k \in Nat : \E e \in DOMAIN ps[j].columns :
                   PassAt(ps[j], q, k) /\ k + e = c
      <3>1. (c - 1) + 1 = c
        BY <1>1
      <3> HIDE DEF ps, m
      <3> QED
        BY <2>3, <3>1
    <2>7. ps = [j \in 1..m |-> ps[j]]
      BY <2>1
    <2> HIDE DEF ps
    <2> QED
      BY <1>1, <2>2, <2>4, <2>5, <2>6, <2>7 DEF ps
  <1> QED
    BY <1>2, <1>3

LEMMA TilesConcat ==
  ASSUME DesignInv, Built, NEW m \in DOMAIN design.terms, NEW U, NEW ps \in Seq(U), Tiles(ps, m - 1),
         PassesIn(m) \in Seq(U)
  PROVE  Tiles(ps \o PassesIn(m), m)
  <1> DEFINE a == Len(ps)
             qs == PassesIn(m)
             b == Len(qs)
             rs == ps \o qs
  <1>1. /\ a \in Nat /\ b \in Nat /\ Len(rs) = a + b
        /\ \A j \in 1..a : rs[j] = ps[j]
        /\ \A j \in 1..b : rs[a + j] = qs[j]
    BY Concat
  <1>2. m \in 1..Len(design.terms) /\ Len(design.terms) \in Nat /\ DOMAIN design.terms = 1..Len(design.terms)
    BY TermFacts DEF Contiguous
  <1>3. ASSUME NEW j \in 1..a + b
        PROVE  j \in 1..a \/ (j - a \in 1..b /\ a + (j - a) = j)
    BY <1>1
  <1>4. \A j \in 1..a : j \in 1..a + b
    BY <1>1
  <1>5. \A j \in 1..b : a + j \in 1..a + b
    BY <1>1
  <1>6. /\ \A j \in 1..b : \E k \in Nat : PassAt(qs[j], m, k)
        /\ \A j, l \in 1..b : j < l => qs[j].base + Block(qs[j]) <= qs[l].base
        /\ \A c \in DOMAIN design.terms[m].columns :
             \E j \in 1..b, k \in Nat : \E e \in DOMAIN qs[j].columns :
               PassAt(qs[j], m, k) /\ k + e = c
    BY PassesOfTerm
  <1>7. \A q \in 1..m - 1 : q \in 1..m /\ q \in DOMAIN design.terms
    BY <1>2
  <1> HIDE DEF a, b, qs, rs
  <1>8. ASSUME NEW j \in 1..a + b PROVE \E q \in 1..m, k \in Nat : PassAt(rs[j], q, k)
    <2>1. CASE j \in 1..a
      <3>1. PICK q \in 1..m - 1, k \in Nat : PassAt(ps[j], q, k)
        BY <2>1 DEF Tiles, a
      <3>2. rs[j] = ps[j] /\ q \in 1..m
        BY <1>1, <1>7, <2>1
      <3> QED
        BY <3>1, <3>2
    <2>2. CASE j - a \in 1..b /\ a + (j - a) = j
      <3>1. PICK k \in Nat : PassAt(qs[j - a], m, k)
        BY <1>6, <2>2
      <3>2. rs[j] = qs[j - a] /\ m \in 1..m
        BY <1>1, <1>2, <2>2
      <3> QED
        BY <3>1, <3>2
    <2> QED
      BY <1>3, <2>1, <2>2
  <1>9. ASSUME NEW j \in 1..a + b, NEW l \in 1..a + b, j < l
        PROVE  rs[j].base + Block(rs[j]) <= rs[l].base
    <2>1. CASE l \in 1..a
      <3>1. j \in 1..a
        BY <1>1, <1>9, <2>1
      <3> QED
        BY <1>1, <1>9, <2>1, <3>1 DEF Tiles, a
    <2>2. CASE j \in 1..a /\ l - a \in 1..b /\ a + (l - a) = l
      <3>1. PICK q \in 1..m - 1, k \in Nat : PassAt(ps[j], q, k)
        BY <2>2 DEF Tiles, a
      <3>2. PICK i \in Nat : PassAt(qs[l - a], m, i)
        BY <1>6, <2>2
      <3>3. ps[j].base \in Nat /\ Block(ps[j]) \in Nat
            /\ ps[j].base + Block(ps[j]) <= End(design.terms, q)
        BY <1>7, <3>1, PassBlock
      <3>4. design.terms[m].offset <= qs[l - a].base /\ qs[l - a].base \in Nat
        BY <3>2, PassBlock
      <3>5. design.terms[m].offset = End(design.terms, m - 1)
        BY <1>2, TermFacts, Blocks
      <3>6. /\ End(design.terms, q) \in Nat /\ End(design.terms, m - 1) \in Nat
            /\ End(design.terms, q) <= End(design.terms, m - 1)
        <4>1. q \in 0..Len(design.terms) /\ m - 1 \in 0..Len(design.terms) /\ q <= m - 1
          BY <1>2
        <4> QED
          BY <4>1, TermFacts, Blocks
      <3>7. rs[j] = ps[j] /\ rs[l] = qs[l - a]
        BY <1>1, <2>2
      <3> QED
        BY <3>3, <3>4, <3>5, <3>6, <3>7
    <2>3. CASE j - a \in 1..b /\ a + (j - a) = j /\ l - a \in 1..b /\ a + (l - a) = l
      <3>1. rs[j] = qs[j - a] /\ rs[l] = qs[l - a]
        BY <1>1, <2>3
      <3>2. j - a < l - a
        BY <1>1, <1>9
      <3> QED
        BY <1>6, <2>3, <3>1, <3>2
    <2>4. j \in 1..a \/ (j - a \in 1..b /\ a + (j - a) = j)
      BY <1>3
    <2>5. l \in 1..a \/ (l - a \in 1..b /\ a + (l - a) = l)
      BY <1>3
    <2> QED
      BY <2>1, <2>2, <2>3, <2>4, <2>5
  <1>10. ASSUME NEW q \in 1..m, NEW c \in DOMAIN design.terms[q].columns
         PROVE  \E j \in 1..a + b, k \in Nat : \E e \in DOMAIN rs[j].columns :
                  PassAt(rs[j], q, k) /\ k + e = c
    <2>1. CASE q = m
      <3>1. PICK j \in 1..b, k \in Nat : \E e \in DOMAIN qs[j].columns :
                   PassAt(qs[j], m, k) /\ k + e = c
        BY <1>6, <2>1
      <3>2. rs[a + j] = qs[j] /\ a + j \in 1..a + b
        BY <1>1, <1>5
      <3> QED
        BY <2>1, <3>1, <3>2
    <2>2. CASE q # m
      <3>1. q \in 1..m - 1
        BY <1>2, <2>2
      <3>2. PICK j \in 1..a, k \in Nat : \E e \in DOMAIN ps[j].columns :
                   PassAt(ps[j], q, k) /\ k + e = c
        BY <3>1 DEF Tiles, a
      <3>3. rs[j] = ps[j] /\ j \in 1..a + b
        BY <1>1, <1>4
      <3> QED
        BY <3>2, <3>3
    <2> QED
      BY <2>1, <2>2
  <1>11. Len(rs) = a + b
    BY <1>1
  <1>12. Tiles(rs, m)
    BY <1>8, <1>9, <1>10, <1>11 DEF Tiles
  <1> QED
    BY <1>12 DEF rs, qs

(* The passes' blocks fill the coefficients. *)
LEMMA PassesTile ==
  ASSUME DesignInv, Built
  PROVE  Len(Passes) \in Nat /\ Tiles(Passes, Len(design.terms))
  <1> DEFINE n == Len(design.terms)
             s == [q \in DOMAIN design.terms |-> PassesIn(q)]
             U == UNION {{s[q][j] : j \in 1..Len(s[q])} : q \in 1..n}
  <1>1. n \in Nat /\ DOMAIN design.terms = 1..n
    BY TermFacts DEF Contiguous
  <1>2. s = [q \in 1..n |-> s[q]]
    BY <1>1
  <1>3. ASSUME NEW q \in 1..n PROVE s[q] \in Seq(U) /\ s[q] = PassesIn(q)
    <2>1. s[q] = PassesIn(q)
      BY <1>1
    <2>2. Len(s[q]) \in Nat /\ s[q] = [j \in 1..Len(s[q]) |-> s[q][j]]
      BY <1>1, <2>1, PassesOfTerm
    <2>3. \A j \in 1..Len(s[q]) : s[q][j] \in U
      OBVIOUS
    <2> DEFINE l == Len(s[q])
               f == s[q]
    <2> HIDE DEF U, s, n, l
    <2>4. f \in [1..l -> U]
      BY <2>2, <2>3 DEF l
    <2> HIDE DEF f
    <2>5. f \in Seq(U)
      BY <2>2, <2>4 DEF l
    <2> QED
      BY <2>1, <2>5 DEF f
  <1> HIDE DEF n, s, U
  <1>4. PICK h : JoinsUpTo(h, s, U, n)
    BY <1>1, <1>2, <1>3, FlattenUpTo
  <1> DEFINE V == {m \in 0..n : Tiles(h[m], m)}
  <1>5. 0 \in V
    <2>1. h[0] = <<>> /\ 1..Len(<<>>) = {} /\ 1..0 = {}
      BY <1>4 DEF JoinsUpTo
    <2>2. Tiles(h[0], 0)
      BY <2>1 DEF Tiles
    <2> QED
      BY <1>1, <2>2
  <1>6. ASSUME NEW m \in 1..n, m - 1 \in V PROVE m \in V
    <2>1. h[m] = h[m - 1] \o PassesIn(m) /\ PassesIn(m) \in Seq(U)
      BY <1>3, <1>4 DEF JoinsUpTo
    <2>2. m - 1 \in 0..n /\ m \in 0..n
      BY <1>1
    <2>3. h[m - 1] \in Seq(U) /\ Tiles(h[m - 1], m - 1)
      BY <1>4, <1>6, <2>2 DEF JoinsUpTo
    <2>4. Tiles(h[m - 1] \o PassesIn(m), m)
      BY <1>1, <2>1, <2>3, TilesConcat
    <2> QED
      BY <2>1, <2>2, <2>4
  <1>7. n \in V
    <2> HIDE DEF V
    <2>1. \A m \in 0..n : m \in V
      BY <1>1, <1>5, <1>6, IntervalInduction
    <2> QED
      BY <1>1, <2>1
  <1>8. h[n] = Passes /\ h[n] \in Seq(U)
    <2>1. n \in 0..n
      BY <1>1
    <2> QED
      BY <1>4, <2>1 DEF JoinsUpTo, Passes, PassesIn, s
  <1> QED
    BY <1>7, <1>8 DEF n

-----------------------------------------------------------------------------
(* What a pass adds. *)

IsPass(p) == \E q \in DOMAIN design.terms, k \in Nat : PassAt(p, q, k)

LevelsOf(p) == 0..design.terms[p.term].nLevels - 1

LEMMA PassFacts ==
  ASSUME DesignInv, Built, NEW p, IsPass(p)
  PROVE  /\ p.term \in DOMAIN design.terms /\ design.terms[p.term].nLevels \in Nat \ {0}
         /\ p.base \in Nat /\ Block(p) \in Nat \ {0}
         /\ p.base + Block(p) <= design.nDofs /\ design.nDofs \in Nat
         /\ Block(p) <= NDofs(design.terms[p.term])
         /\ Len(p.columns) \in Nat \ {0} /\ DOMAIN p.columns = 1..Len(p.columns)
         /\ IsFiniteSet(DOMAIN p.columns)
         /\ \A i \in Rows : LevelIn(p, i) \in LevelsOf(p)
  <1>1. PICK q \in DOMAIN design.terms, k \in Nat : PassAt(p, q, k)
    BY DEF IsPass
  <1>2. p.term = q /\ Len(p.columns) \in Nat \ {0} /\ DOMAIN p.columns = 1..Len(p.columns)
    BY <1>1 DEF PassAt
  <1>3. IsFiniteSet(DOMAIN p.columns)
    BY <1>2, FS_Interval
  <1>4. design.terms[q].nLevels \in Nat \ {0}
    BY TermFacts
  <1>5. /\ p.base \in Nat /\ Block(p) \in Nat \ {0} /\ p.base + Block(p) <= End(design.terms, q)
        /\ Block(p) <= NDofs(design.terms[q])
    BY <1>1, PassBlock
  <1>6. design.nDofs \in Nat /\ End(design.terms, q) \in Nat /\ End(design.terms, q) <= design.nDofs
    <2>1. Contiguous(design.terms) /\ design.nDofs = TotalDofs(design.terms)
      BY DEF DesignInv, Builds
    <2>2. q \in 0..Len(design.terms) /\ Len(design.terms) \in 0..Len(design.terms) /\ q <= Len(design.terms)
      BY <2>1 DEF Contiguous
    <2>3. TotalDofs(design.terms) = End(design.terms, Len(design.terms))
      BY <2>1, Blocks
    <2>4. /\ End(design.terms, q) \in Nat /\ End(design.terms, Len(design.terms)) \in Nat
          /\ End(design.terms, q) <= End(design.terms, Len(design.terms))
      BY <2>1, <2>2, Blocks
    <2> QED
      BY <2>1, <2>3, <2>4
  <1>7. ASSUME NEW i \in Rows PROVE LevelIn(p, i) \in LevelsOf(p)
    <2>1. /\ input \in Inputs /\ Builds(design, input.frame, input.structure)
          /\ q \in DOMAIN input.frame.levels /\ i \in 1..design.nObs
      BY DEF DesignInv, Builds, Rows
    <2>2. \A j \in 1..design.nObs : OriginalOf(design, j) \in 1..design.nObs
      BY <2>1, DesignRows
    <2>3. \A r \in DOMAIN input.frame.levels :
            /\ design.frame.levels[r] \in [1..design.nObs -> Nat]
            /\ \A j \in 1..design.nObs :
                 design.frame.levels[r][j] = input.frame.levels[r][OriginalOf(design, j)]
      BY <2>1, DesignRows
    <2>4. \A r \in DOMAIN design.terms : \A j \in 1..design.nObs :
            input.frame.levels[r][j] \in 0..design.terms[r].nLevels - 1
      BY <2>1 DEF Builds
    <2> QED
      BY <1>2, <2>1, <2>2, <2>3, <2>4 DEF LevelIn, LevelsOf
  <1> QED
    BY <1>2, <1>3, <1>4, <1>5, <1>6, <1>7

LEMMA Slots ==
  ASSUME DesignInv, Built, NEW p, IsPass(p), NEW c \in DOMAIN p.columns, NEW a \in LevelsOf(p)
  PROVE  /\ Slot(p, c, a) \in 0..Block(p) - 1
         /\ \A e \in DOMAIN p.columns, b \in LevelsOf(p) :
              Slot(p, c, a) = Slot(p, e, b) <=> c = e /\ a = b
  <1> DEFINE n == design.terms[p.term].nLevels
             m == Len(p.columns)
  <1>1. n \in Nat \ {0} /\ m \in Nat \ {0} /\ DOMAIN p.columns = 1..m /\ Block(p) = m * n
        /\ LevelsOf(p) = 0..n - 1
    BY PassFacts DEF Block, LevelsOf
  <1>2. \A e, b : Slot(p, e, b) = (e - 1) * n + b
    BY DEF Slot
  <1> HIDE DEF n, m
  <1>3. ASSUME NEW e \in 1..m, NEW b \in 0..n - 1
        PROVE  /\ ((e - 1) * n + b) \div n = e - 1 /\ ((e - 1) * n + b) % n = b
               /\ (e - 1) * n + b \in 0..m * n - 1
    <2>1. e - 1 \in Nat /\ e \in Nat /\ e <= m
      BY <1>1
    <2>2. ((e - 1) * n + b) \div n = e - 1 /\ ((e - 1) * n + b) % n = b /\ (e - 1) * n + b \in Nat
      BY <1>1, <2>1, DivExact
    <2>3. e * n <= m * n /\ (e - 1) * n + n = e * n /\ m * n \in Nat /\ e * n \in Nat
          /\ (e - 1) * n \in Nat
      <3>1. \A i, j \in Nat : i <= j => i * n <= j * n
        BY <1>1
      <3>2. \A i \in Nat : i * n \in Nat
        BY <1>1
      <3>3. (e - 1) * n + n = e * n
        BY <1>1, <2>1
      <3> QED
        BY <1>1, <2>1, <3>1, <3>2, <3>3
    <2>4. b \in Nat /\ b < n
      BY <1>1
    <2>5. (e - 1) * n + b < m * n
      BY <1>1, <2>3, <2>4
    <2> QED
      BY <1>1, <2>2, <2>3, <2>5
  <1>4. c \in 1..m /\ a \in 0..n - 1
    BY <1>1
  <1>5. ASSUME NEW e \in 1..m, NEW b \in 0..n - 1, (c - 1) * n + a = (e - 1) * n + b
        PROVE  c = e /\ a = b
    <2>1. c - 1 = e - 1 /\ a = b
      BY <1>3, <1>4, <1>5
    <2> QED
      BY <1>1, <1>4, <2>1
  <1>6. Slot(p, c, a) \in 0..Block(p) - 1
    <2>1. (c - 1) * n + a \in 0..m * n - 1
      BY ONLY <1>3, <1>4
    <2>2. Slot(p, c, a) = (c - 1) * n + a
      BY <1>2
    <2> QED
      BY <1>1, <2>1, <2>2
  <1>7. ASSUME NEW e \in DOMAIN p.columns, NEW b \in LevelsOf(p)
        PROVE  Slot(p, c, a) = Slot(p, e, b) <=> c = e /\ a = b
    <2>1. e \in 1..m /\ b \in 0..n - 1
      BY <1>1
    <2>2. Slot(p, c, a) = Slot(p, e, b) => c = e /\ a = b
      BY <1>2, <1>5, <2>1
    <2> QED
      BY <2>2
  <1> QED
    BY <1>6, <1>7

(* A row's values are numbers. *)
ObsVector(u) == u \in [Rows -> Int]

V(p, u, c) == [i \in Rows |-> ValueIn(p, c, u, i)]

LEMMA ScaleType == ASSUME DesignInv, Built, NEW i \in Rows PROVE Scale(sqrtWeights, i) \in Int
  <1> DEFINE o == OriginalOf(design, i)
  <1>1. /\ input \in Inputs /\ Builds(design, input.frame, input.structure)
        /\ WeightsValid(input.weights, design.nObs)
        /\ sqrtWeights = InternalWeights(design, input.weights) /\ i \in 1..design.nObs
    BY DEF DesignInv, Rows
  <1>2. Scale(sqrtWeights, i) = WeightOf(input, o)
    BY <1>1, WeightsAreCallers
  <1>3. o \in 1..design.nObs /\ design.nObs \in Nat
    <2>1. \A j \in 1..design.nObs : OriginalOf(design, j) \in 1..design.nObs
      BY <1>1, DesignRows
    <2> QED
      BY <1>1, <2>1 DEF Builds
  <1>4. CASE input.weights # None
    <2>1. input.weights \in Seq(Int) /\ Len(input.weights) = design.nObs
          /\ \A j \in DOMAIN input.weights : input.weights[j] >= 0
      BY <1>1, <1>4, InputValid DEF WeightsValid
    <2>2. input.weights[o] \in Nat
      <3> DEFINE w == input.weights
                 n == design.nObs
      <3>1. w \in Seq(Int) /\ Len(w) = n /\ n \in Nat /\ o \in 1..n /\ \A j \in DOMAIN w : w[j] >= 0
        BY <1>3, <2>1
      <3> HIDE DEF w, n, o
      <3>2. w[o] \in Nat
        BY <3>1
      <3> QED
        BY <3>2 DEF w
    <2>3. SquareRoot(input.weights[o]) \in Nat
      BY <2>2, RootType
    <2> QED
      BY <1>2, <1>4, <2>3 DEF WeightOf
  <1>5. CASE input.weights = None
    BY <1>2, <1>5 DEF WeightOf
  <1> QED
    BY <1>4, <1>5

LEMMA LoadingType ==
  ASSUME DesignInv, Built, NEW q \in DOMAIN design.terms, NEW c \in DOMAIN design.terms[q].columns,
         NEW i \in Rows
  PROVE  /\ Loading(design.frame, design.terms[q].columns[c], i) \in Int
         /\ Loading(design.frame, design.terms[q].columns[c], i)
              = Loading(input.frame, design.terms[q].columns[c], OriginalOf(design, i))
  <1> DEFINE col == design.terms[q].columns[c]
             o == OriginalOf(design, i)
  <1>1. /\ input \in Inputs /\ Builds(design, input.frame, input.structure) /\ i \in 1..design.nObs
        /\ q \in DOMAIN input.frame.levels /\ design.terms[q].columns = input.structure[q]
    BY DEF DesignInv, Builds, Rows
  <1>2. /\ o \in 1..design.nObs
        /\ \A k \in DOMAIN input.frame.loadings :
             /\ design.frame.loadings[k][i] = input.frame.loadings[k][o]
             /\ input.frame.loadings[k][o] \in Int
    BY SMTT(20), <1>1, DesignRows
  <1>3. col = Constant \/ col \in DOMAIN input.frame.loadings
    <2>1. DOMAIN input.structure = DOMAIN input.frame.levels
          /\ \A r \in DOMAIN input.structure : \A e \in DOMAIN input.structure[r] :
               \/ input.structure[r][e] = Constant
               \/ input.structure[r][e] \in DOMAIN input.frame.loadings
      BY <1>1, InputValid, FrameColumns
    <2> QED
      BY <1>1, <2>1
  <1> HIDE DEF col, o
  <1>4. Loading(design.frame, col, i) = Loading(input.frame, col, o) /\ Loading(design.frame, col, i) \in Int
    BY <1>2, <1>3 DEF Loading
  <1> QED
    BY <1>4 DEF col, o

LEMMA ValueType ==
  ASSUME DesignInv, Built, NEW p, IsPass(p), NEW u, ObsVector(u),
         NEW c \in DOMAIN p.columns, NEW i \in Rows
  PROVE  ValueIn(p, c, u, i) \in Int /\ V(p, u, c)[i] = ValueIn(p, c, u, i)
  <1>1. PICK q \in DOMAIN design.terms, k \in Nat : PassAt(p, q, k)
    BY DEF IsPass
  <1>2. k + c \in DOMAIN design.terms[q].columns /\ p.columns[c] = design.terms[q].columns[k + c]
    <2>1. /\ c \in 1..Len(p.columns) /\ Len(p.columns) \in Nat
          /\ k + Len(p.columns) <= Len(design.terms[q].columns)
          /\ p.columns[c] = design.terms[q].columns[k + c]
      BY <1>1 DEF PassAt
    <2>2. DOMAIN design.terms[q].columns = 1..Len(design.terms[q].columns)
          /\ Len(design.terms[q].columns) \in Nat
      BY TermFacts
    <2>3. k + c \in 1..Len(design.terms[q].columns)
      BY <2>1, <2>2
    <2> QED
      BY <2>1, <2>2, <2>3
  <1> DEFINE x == Loading(design.frame, p.columns[c], i)
             w == Scale(sqrtWeights, i)
  <1>3. x \in Int /\ w \in Int /\ u[i] \in Int
    BY <1>2, LoadingType, ScaleType DEF ObsVector
  <1> HIDE DEF x, w
  <1>4. x * w * u[i] \in Int
    BY <1>3
  <1> QED
    BY <1>4 DEF V, ValueIn, x, w

LEMMA ValuesSum ==
  ASSUME DesignInv, Built, NEW p, IsPass(p), NEW u, ObsVector(u),
         NEW c \in DOMAIN p.columns, NEW rows \in SUBSET Rows
  PROVE  /\ IsFiniteSet(rows) /\ \A i \in rows : V(p, u, c)[i] \in Int
         /\ SumFunctionOnSet(V(p, u, c), rows) \in Int
         /\ SumFunction([i \in rows |-> ValueIn(p, c, u, i)]) = SumFunctionOnSet(V(p, u, c), rows)
  <1>1. IsFiniteSet(rows)
    BY TermFacts, FS_Subset
  <1>2. \A i \in rows : V(p, u, c)[i] \in Int /\ V(p, u, c)[i] = ValueIn(p, c, u, i)
    BY ValueType
  <1> DEFINE f == [i \in rows |-> ValueIn(p, c, u, i)]
             g == V(p, u, c)
  <1>3. \A i \in rows : f[i] = g[i] /\ g[i] \in Int
    BY <1>2
  <1>4. SumFunction(f) = SumFunctionOnSet(f, rows)
    BY DEF SumFunction
  <1> HIDE DEF f, g
  <1>5. SumFunctionOnSet(f, rows) = SumFunctionOnSet(g, rows) /\ SumFunctionOnSet(g, rows) \in Int
    BY <1>1, <1>3, SumSame, SumType
  <1> QED
    BY <1>1, <1>2, <1>4, <1>5 DEF f, g

(* What the rows of a level come to in a column: what a pass is to add.    *)
DueAt(p, u, c, a) == SumFunctionOnSet(V(p, u, c), {i \in Rows : LevelIn(p, i) = a})


BlockAdds(p) == [slot : 0..Block(p) - 1, value : Int]

LEMMA BlockAddsTyped ==
  ASSUME DesignInv, Built, NEW p, IsPass(p)
  PROVE  BlockAdds(p) \subseteq AddType /\ Seq(BlockAdds(p)) \subseteq Seq(AddType)
  <1>1. 0..Block(p) - 1 \subseteq Nat
    OBVIOUS
  <1>2. BlockAdds(p) \subseteq AddType
    BY <1>1 DEF BlockAdds, AddType
  <1> QED
    BY <1>2

LEMMA AddsTotal ==
  ASSUME DesignInv, Built, NEW p, IsPass(p), NEW u, ObsVector(u),
         NEW rows \in SUBSET Rows, NEW level \in LevelsOf(p)
  PROVE  /\ Adds(p, u, rows, level) \in Seq(BlockAdds(p))
         /\ \A c \in DOMAIN p.columns, a \in LevelsOf(p) :
              Total(Adds(p, u, rows, level), Slot(p, c, a))
                = IF a = level THEN SumFunctionOnSet(V(p, u, c), rows) ELSE 0
  <1> DEFINE ad == Adds(p, u, rows, level)
             m == Len(p.columns)
  <1>1. m \in Nat \ {0} /\ DOMAIN p.columns = 1..m /\ IsFiniteSet(1..m)
    BY PassFacts
  <1>2. \A c \in 1..m : ad[c].slot = Slot(p, c, level)
                        /\ ad[c].value = SumFunctionOnSet(V(p, u, c), rows)
                        /\ ad[c] \in BlockAdds(p)
    <2> TAKE c \in 1..m
    <2>1. ad[c] = [slot |-> Slot(p, c, level),
                   value |-> SumFunction([i \in rows |-> ValueIn(p, c, u, i)])]
      BY <1>1 DEF Adds
    <2>2. /\ Slot(p, c, level) \in 0..Block(p) - 1
          /\ SumFunctionOnSet(V(p, u, c), rows) \in Int
          /\ SumFunction([i \in rows |-> ValueIn(p, c, u, i)]) = SumFunctionOnSet(V(p, u, c), rows)
      <3>1. c \in DOMAIN p.columns
        BY <1>1
      <3> QED
        BY <3>1, Slots, ValuesSum
    <2> QED
      BY <2>1, <2>2 DEF BlockAdds
  <1>3. ad \in Seq(BlockAdds(p)) /\ Len(ad) = m
    <2>1. ad = [c \in 1..m |-> ad[c]]
      BY <1>1 DEF Adds
    <2>2. ad \in [1..m -> BlockAdds(p)]
      BY <1>2, <2>1
    <2> HIDE DEF ad
    <2> QED
      BY <1>1, <2>1, <2>2, LenOfFunction
  <1>4. ASSUME NEW c \in 1..m, NEW a \in LevelsOf(p)
        PROVE  Total(ad, Slot(p, c, a)) = IF a = level THEN SumFunctionOnSet(V(p, u, c), rows) ELSE 0
    <2> DEFINE s == Slot(p, c, a)
               f == [k \in 1..m |-> IF ad[k].slot = s THEN ad[k].value ELSE 0]
               v == SumFunctionOnSet(V(p, u, c), rows)
    <2>1. Total(ad, s) = SumFunctionOnSet(f, 1..m)
      BY <1>3 DEF Total
    <2>2. \A k \in 1..m : ad[k].slot = s <=> k = c /\ level = a
      <3> TAKE k \in 1..m
      <3>2. c \in DOMAIN p.columns /\ k \in DOMAIN p.columns
        BY <1>1
      <3>1. Slot(p, c, a) = Slot(p, k, level) <=> c = k /\ a = level
        BY <3>2, Slots
      <3> QED
        BY <1>2, <3>1
    <2>3. v \in Int /\ ad[c].value = v
      BY <1>1, <1>2, ValuesSum
    <2>4. CASE a = level
      <3>1. f[c] = v /\ \A k \in 1..m : k # c => f[k] = 0
        BY <2>2, <2>3, <2>4
      <3> HIDE DEF f, v, m
      <3>2. SumFunctionOnSet(f, 1..m) = v
        BY <1>1, <2>3, <3>1, SumOnly
      <3> QED
        BY <2>1, <2>4, <3>2 DEF v
    <2>5. CASE a # level
      <3>1. \A k \in 1..m : f[k] = 0
        BY <2>2, <2>5
      <3> HIDE DEF f, m
      <3> QED
        BY <1>1, <2>1, <2>5, <3>1, SumZero
    <2> QED
      BY <2>4, <2>5
  <1> QED
    BY <1>1, <1>3, <1>4

(* What ScatterPrivate adds to a coefficient. *)
PrivateAdd(p, u, d) ==
  SumFunction([i \in Rows |->
    SumFunction([c \in DOMAIN p.columns |->
      IF p.base + Slot(p, c, LevelIn(p, i)) = d THEN ValueIn(p, c, u, i) ELSE 0])])

LEMMA DueType ==
  ASSUME DesignInv, Built, NEW p, IsPass(p), NEW u, ObsVector(u),
         NEW c \in DOMAIN p.columns, NEW a \in LevelsOf(p)
  PROVE  DueAt(p, u, c, a) \in Int
  <1> DEFINE rows == {i \in Rows : LevelIn(p, i) = a}
  <1>1. rows \in SUBSET Rows
    OBVIOUS
  <1>2. SumFunctionOnSet(V(p, u, c), rows) \in Int
    BY <1>1, ValuesSum
  <1> QED
    BY <1>2 DEF DueAt

LEMMA PrivateRow ==
  ASSUME DesignInv, Built, NEW p, IsPass(p), NEW u, ObsVector(u), NEW i \in Rows, NEW d,
         NEW F, F = [c \in DOMAIN p.columns |->
                       IF p.base + Slot(p, c, LevelIn(p, i)) = d THEN ValueIn(p, c, u, i) ELSE 0]
  PROVE  /\ \A c \in DOMAIN p.columns, a \in LevelsOf(p) : d = p.base + Slot(p, c, a) =>
              SumFunction(F) = IF LevelIn(p, i) = a THEN V(p, u, c)[i] ELSE 0
         /\ (\A c \in DOMAIN p.columns, a \in LevelsOf(p) : d # p.base + Slot(p, c, a))
              => SumFunction(F) = 0
  <1> DEFINE D == DOMAIN p.columns
             l == LevelIn(p, i)
  <1>1. IsFiniteSet(D) /\ SumFunction(F) = SumFunctionOnSet(F, D) /\ l \in LevelsOf(p)
        /\ p.base \in Nat
    BY PassFacts DEF SumFunction
  <1>2. ASSUME NEW c \in D, NEW a \in LevelsOf(p), d = p.base + Slot(p, c, a)
        PROVE  SumFunction(F) = IF l = a THEN V(p, u, c)[i] ELSE 0
    <2>1. \A e \in D : p.base + Slot(p, e, l) = d <=> e = c /\ l = a
      <3> TAKE e \in D
      <3>1. Slot(p, c, a) = Slot(p, e, l) <=> c = e /\ a = l
        BY <1>1, Slots
      <3>2. Slot(p, c, a) \in Int /\ Slot(p, e, l) \in Int
        <4>1. Slot(p, c, a) \in 0..Block(p) - 1 /\ Slot(p, e, l) \in 0..Block(p) - 1
          BY <1>1, Slots
        <4> QED
          BY <4>1
      <3> QED
        BY <1>1, <1>2, <3>1, <3>2
    <2>2. CASE l = a
      <3>1. F[c] = V(p, u, c)[i] /\ F[c] \in Int
        BY <2>1, <2>2, ValueType
      <3>2. \A e \in D : e # c => F[e] = 0
        BY <2>1
      <3> HIDE DEF D
      <3>3. SumFunctionOnSet(F, D) = F[c]
        BY <1>1, <3>1, <3>2, SumOnly
      <3> QED
        BY <1>1, <2>2, <3>1, <3>3
    <2>3. CASE l # a
      <3>1. \A e \in D : F[e] = 0
        BY <2>1, <2>3
      <3> HIDE DEF D
      <3> QED
        BY <1>1, <2>3, <3>1, SumZero
    <2> QED
      BY <2>2, <2>3
  <1>3. ASSUME \A c \in D, a \in LevelsOf(p) : d # p.base + Slot(p, c, a)
        PROVE  SumFunction(F) = 0
    <2>1. \A e \in D : F[e] = 0
      BY <1>1, <1>3
    <2> HIDE DEF D
    <2> QED
      BY <1>1, <2>1, SumZero
  <1> QED
    BY <1>2, <1>3

LEMMA PrivateDue ==
  ASSUME DesignInv, Built, NEW p, IsPass(p), NEW u, ObsVector(u), NEW d
  PROVE  /\ \A c \in DOMAIN p.columns, a \in LevelsOf(p) :
              d = p.base + Slot(p, c, a) => PrivateAdd(p, u, d) = DueAt(p, u, c, a)
         /\ (\A c \in DOMAIN p.columns, a \in LevelsOf(p) : d # p.base + Slot(p, c, a))
              => PrivateAdd(p, u, d) = 0
  <1> DEFINE F(i) == [c \in DOMAIN p.columns |->
                        IF p.base + Slot(p, c, LevelIn(p, i)) = d THEN ValueIn(p, c, u, i) ELSE 0]
             G == [i \in Rows |-> SumFunction(F(i))]
  <1>1. IsFiniteSet(Rows) /\ PrivateAdd(p, u, d) = SumFunctionOnSet(G, Rows)
    BY TermFacts DEF PrivateAdd, SumFunction
  <1>2. ASSUME NEW c \in DOMAIN p.columns, NEW a \in LevelsOf(p), d = p.base + Slot(p, c, a)
        PROVE  PrivateAdd(p, u, d) = DueAt(p, u, c, a)
    <2> DEFINE A == {i \in Rows : LevelIn(p, i) = a}
               f == V(p, u, c)
    <2>1. ASSUME NEW i \in Rows
          PROVE  SumFunction(F(i)) = IF LevelIn(p, i) = a THEN f[i] ELSE 0
      <3> DEFINE G0 == F(i)
      <3>1. G0 = [e \in DOMAIN p.columns |->
                    IF p.base + Slot(p, e, LevelIn(p, i)) = d THEN ValueIn(p, e, u, i) ELSE 0]
        OBVIOUS
      <3> HIDE DEF G0
      <3>2. SumFunction(G0) = IF LevelIn(p, i) = a THEN V(p, u, c)[i] ELSE 0
        BY SMTT(20), <1>2, <3>1, PrivateRow
      <3> QED
        BY <3>2 DEF G0
    <2>2. \A i \in Rows : f[i] \in Int
      BY ValueType
    <2> HIDE DEF F, f
    <2>3. (\A i \in A : G[i] = f[i]) /\ \A i \in Rows \ A : G[i] = 0
      BY <2>1
    <2>4. A \in SUBSET Rows
      OBVIOUS
    <2> HIDE DEF A, G
    <2>5. \A i \in A : f[i] \in Int
      BY <2>2, <2>4
    <2>6. SumFunctionOnSet(G, Rows) = SumFunctionOnSet(f, A)
      BY <1>1, <2>3, <2>4, <2>5, SumSupport
    <2> QED
      BY <1>1, <2>6 DEF DueAt, A, f
  <1>3. ASSUME \A c \in DOMAIN p.columns, a \in LevelsOf(p) : d # p.base + Slot(p, c, a)
        PROVE  PrivateAdd(p, u, d) = 0
    <2>1. \A i \in Rows : SumFunction(F(i)) = 0
      BY <1>3, PrivateRow
    <2> HIDE DEF F
    <2>2. \A i \in Rows : G[i] = 0
      BY <2>1
    <2> HIDE DEF G
    <2> QED
      BY <1>1, <2>2, SumZero
  <1> QED
    BY <1>2, <1>3

-----------------------------------------------------------------------------
(* What the tasks of a pass add. *)

AtLevel(p, rows, a) == {i \in rows : LevelIn(p, i) = a}

(* No row between two rows is left out. *)
Convex(rows) == \A i, j \in rows : \A k \in i..j : k \in rows

(* The rows of a level whose run has ended by row m. *)
Ended(p, rows, a, m) ==
  {i \in AtLevel(p, rows, a) : \E e \in 1..m : RunEnds(p, rows, e) /\ i \in RunTo(p, rows, e)}

(* Every row is in the run of one row that ends a run. *)
LEMMA RunsCover ==
  ASSUME DesignInv, Built, NEW p, NEW rows \in SUBSET Rows, NEW i \in rows
  PROVE  \E e \in 1..design.nObs : RunEnds(p, rows, e) /\ i \in RunTo(p, rows, e)
  <1> DEFINE M == {e \in rows : i <= e /\ \A k \in i..e : LevelIn(p, k) = LevelIn(p, i)}
             e == Max(M)
  <1>1. design.nObs \in Nat /\ rows \subseteq 1..design.nObs /\ IsFiniteSet(rows)
    BY TermFacts, FS_Subset
  <1>2. i \in M /\ M \in SUBSET Nat /\ M \subseteq rows
    <2>1. i <= i /\ \A k \in i..i : k = i
      BY <1>1
    <2>2. M \subseteq rows /\ rows \subseteq Nat
      BY <1>1
    <2>3. i \in M
      BY <2>1
    <2> QED
      BY <2>2, <2>3
  <1>3. e \in M /\ \A y \in M : e >= y
    <2>1. IsFiniteSet(M)
      BY <1>1, <1>2, FS_Subset
    <2> HIDE DEF M
    <2> QED
      BY <1>2, <2>1, MaxIn
  <1> HIDE DEF e
  <1>4. e \in rows /\ e \in 1..design.nObs /\ i \in 1..design.nObs /\ i <= e
        /\ \A k \in i..e : LevelIn(p, k) = LevelIn(p, i)
    BY <1>1, <1>3
  <1>5. ASSUME e + 1 \in rows PROVE LevelIn(p, e + 1) # LevelIn(p, e)
    <2> SUFFICES ASSUME LevelIn(p, e + 1) = LevelIn(p, e) PROVE FALSE
      OBVIOUS
    <2>1. e \in i..e /\ LevelIn(p, e) = LevelIn(p, i)
      BY <1>4
    <2>2. \A k \in i..e + 1 : k \in i..e \/ k = e + 1
      BY <1>4
    <2>3. \A k \in i..e + 1 : LevelIn(p, k) = LevelIn(p, i)
      BY <1>4, <2>1, <2>2
    <2>4. i <= e + 1
      BY <1>4
    <2>5. e + 1 \in M
      BY <1>5, <2>3, <2>4
    <2>6. e >= e + 1
      BY <1>3, <2>5
    <2> QED
      BY <1>4, <2>6
  <1>6. RunEnds(p, rows, e)
    BY <1>4, <1>5 DEF RunEnds
  <1>7. i \in RunTo(p, rows, e)
    <2>1. e \in i..e
      BY <1>4
    <2>2. \A k \in i..e : LevelIn(p, k) = LevelIn(p, e)
      BY <1>4, <2>1
    <2> QED
      BY <1>4, <2>2 DEF RunTo
  <1> QED
    BY <1>4, <1>6, <1>7

LEMMA RunsDisjoint ==
  ASSUME DesignInv, Built, NEW p, NEW rows \in SUBSET Rows, Convex(rows),
         NEW d \in rows, NEW e \in rows, d < e, RunEnds(p, rows, d)
  PROVE  RunTo(p, rows, d) \cap RunTo(p, rows, e) = {}
  <1> SUFFICES ASSUME NEW i, i \in RunTo(p, rows, d), i \in RunTo(p, rows, e) PROVE FALSE
    OBVIOUS
  <1>1. i \in rows /\ i <= d /\ \A k \in i..e : LevelIn(p, k) = LevelIn(p, e)
    BY DEF RunTo
  <1>2. {i, d, e} \subseteq Nat
    BY <1>1, TermFacts
  <1>3. d \in i..e /\ d + 1 \in i..e /\ d + 1 \in d..e
    BY <1>1, <1>2
  <1>4. d + 1 \in rows
    BY <1>3 DEF Convex
  <1>5. LevelIn(p, d + 1) # LevelIn(p, d)
    BY <1>4 DEF RunEnds
  <1> QED
    BY <1>1, <1>3, <1>5

LEMMA EndedGrows ==
  ASSUME DesignInv, Built, NEW p, NEW rows \in SUBSET Rows, Convex(rows), NEW a,
         NEW m \in 1..design.nObs
  PROVE  LET new == IF RunEnds(p, rows, m) /\ LevelIn(p, m) = a THEN RunTo(p, rows, m) ELSE {}
         IN /\ new \in SUBSET rows
            /\ Ended(p, rows, a, m) = Ended(p, rows, a, m - 1) \cup new
            /\ Ended(p, rows, a, m - 1) \cap new = {}
  <1> DEFINE new == IF RunEnds(p, rows, m) /\ LevelIn(p, m) = a THEN RunTo(p, rows, m) ELSE {}
  <1>1. design.nObs \in Nat /\ rows \subseteq 1..design.nObs /\ m \in Nat \ {0}
        /\ 1..m = (1..m - 1) \cup {m}
    BY TermFacts
  <1>2. ASSUME NEW e \in rows, NEW i \in RunTo(p, rows, e)
        PROVE  i \in rows /\ LevelIn(p, i) = LevelIn(p, e)
    <2>1. i \in rows /\ i <= e /\ \A k \in i..e : LevelIn(p, k) = LevelIn(p, e)
      BY DEF RunTo
    <2>2. i \in i..e
      BY <1>1, <2>1
    <2> QED
      BY <2>1, <2>2
  <1>3. new \in SUBSET rows /\ \A i \in new : i \in AtLevel(p, rows, a)
    BY <1>2 DEF AtLevel, RunEnds
  <1>4. ASSUME NEW i \in Ended(p, rows, a, m) PROVE i \in Ended(p, rows, a, m - 1) \cup new
    <2>1. PICK e \in 1..m : RunEnds(p, rows, e) /\ i \in RunTo(p, rows, e)
      BY DEF Ended
    <2>2. i \in AtLevel(p, rows, a) /\ LevelIn(p, i) = a /\ e \in rows
      BY <2>1 DEF Ended, AtLevel, RunEnds
    <2>3. LevelIn(p, e) = a
      BY <1>2, <2>1, <2>2
    <2> QED
      BY <1>1, <2>1, <2>2, <2>3 DEF Ended
  <1>5. ASSUME NEW i \in Ended(p, rows, a, m - 1) \cup new PROVE i \in Ended(p, rows, a, m)
    <2>1. m \in 1..m
      BY <1>1
    <2> QED
      BY <1>1, <1>3, <2>1 DEF Ended
  <1>6. ASSUME NEW i \in Ended(p, rows, a, m - 1), i \in new PROVE FALSE
    <2>1. PICK e \in 1..m - 1 : RunEnds(p, rows, e) /\ i \in RunTo(p, rows, e)
      BY DEF Ended
    <2>2. RunEnds(p, rows, m) /\ i \in RunTo(p, rows, m)
      BY <1>6
    <2>3. e \in rows /\ m \in rows /\ e < m
      BY <1>1, <2>1, <2>2 DEF RunEnds
    <2> QED
      BY <2>1, <2>2, <2>3, RunsDisjoint
  <1> QED
    BY <1>3, <1>4, <1>5, <1>6

(* A chunk adds what its rows come to. *)
LEMMA ChunkTotal ==
  ASSUME DesignInv, Built, NEW p, IsPass(p), NEW u, ObsVector(u),
         NEW rows \in SUBSET Rows, Convex(rows)
  PROVE  /\ ChunkTask(p, u, rows) \in Seq(BlockAdds(p))
         /\ \A c \in DOMAIN p.columns, a \in LevelsOf(p) :
              Total(ChunkTask(p, u, rows), Slot(p, c, a))
                = SumFunctionOnSet(V(p, u, c), AtLevel(p, rows, a))
  <1> DEFINE n == design.nObs
             At(i) == IF RunEnds(p, rows, i)
                      THEN Adds(p, u, RunTo(p, rows, i), LevelIn(p, i)) ELSE <<>>
             s == [i \in Rows |-> At(i)]
             U == BlockAdds(p)
  <1>1. n \in Nat /\ Rows = 1..n
    BY TermFacts
  <1>2. ASSUME NEW i \in 1..n
        PROVE  /\ RunTo(p, rows, i) \in SUBSET Rows /\ LevelIn(p, i) \in LevelsOf(p)
               /\ At(i) \in Seq(U)
    <2>1. RunTo(p, rows, i) \in SUBSET Rows
      BY DEF RunTo
    <2>2. LevelIn(p, i) \in LevelsOf(p)
      BY <1>1, PassFacts
    <2>3. Adds(p, u, RunTo(p, rows, i), LevelIn(p, i)) \in Seq(U)
      BY <2>1, <2>2, AddsTotal
    <2>4. <<>> \in Seq(U)
      OBVIOUS
    <2> QED
      BY <2>1, <2>2, <2>3, <2>4
  <1> HIDE DEF At, U
  <1>3. s = [i \in 1..n |-> s[i]] /\ \A i \in 1..n : s[i] = At(i) /\ s[i] \in Seq(U)
    BY <1>1, <1>2
  <1>4. ChunkTask(p, u, rows) = FlattenSeq(s)
    BY DEF ChunkTask, At
  <1> HIDE DEF s
  <1>5. PICK h : JoinsUpTo(h, s, U, n)
    <2>1. \A i \in 1..n : s[i] \in Seq(U)
      BY <1>3
    <2> QED
      BY ONLY <1>1, <1>3, <2>1, FlattenUpTo
  <1>6. /\ h[0] = <<>> /\ h[n] = ChunkTask(p, u, rows)
        /\ \A m \in 1..n : h[m] = h[m - 1] \o s[m]
        /\ \A m \in 0..n : h[m] \in Seq(U)
    BY <1>4, <1>5 DEF JoinsUpTo
  <1>7. Seq(U) \subseteq Seq(AddType)
    BY BlockAddsTyped DEF U
  <1>8. ASSUME NEW c \in DOMAIN p.columns, NEW a \in LevelsOf(p)
        PROVE  Total(h[n], Slot(p, c, a)) = SumFunctionOnSet(V(p, u, c), AtLevel(p, rows, a))
    <2> DEFINE slot == Slot(p, c, a)
               f == V(p, u, c)
               E(m) == Ended(p, rows, a, m)
               T == {m \in 0..n : Total(h[m], slot) = SumFunctionOnSet(f, E(m))}
    <2>1. 0 \in T
      <3>1. E(0) = {}
        BY DEF Ended
      <3>2. 0 \in 0..n
        BY <1>1
      <3> HIDE DEF E, f, slot
      <3> QED
        BY <1>6, <3>1, <3>2, SumEmpty, TotalEmpty
    <2>2. ASSUME NEW m \in 1..n, m - 1 \in T PROVE m \in T
      <3> DEFINE new == IF RunEnds(p, rows, m) /\ LevelIn(p, m) = a THEN RunTo(p, rows, m) ELSE {}
      <3>1. /\ new \in SUBSET rows /\ E(m) = E(m - 1) \cup new /\ E(m - 1) \cap new = {}
            /\ E(m - 1) \in SUBSET rows
        <4>1. E(m - 1) \in SUBSET rows
          BY DEF Ended, AtLevel
        <4> QED
          BY <1>1, <4>1, EndedGrows
      <3>2. /\ IsFiniteSet(new) /\ IsFiniteSet(E(m - 1)) /\ \A i \in rows : f[i] \in Int
            /\ SumFunctionOnSet(f, new) \in Int
        <4>1. new \in SUBSET Rows /\ E(m - 1) \in SUBSET Rows
          BY <3>1
        <4> HIDE DEF new, E
        <4> QED
          BY <4>1, ValuesSum
      <3>3. Total(s[m], slot) = SumFunctionOnSet(f, new)
        <4>1. CASE RunEnds(p, rows, m)
          <5>1. s[m] = Adds(p, u, RunTo(p, rows, m), LevelIn(p, m))
            BY <1>3, <4>1 DEF At
          <5>2. Total(Adds(p, u, RunTo(p, rows, m), LevelIn(p, m)), slot)
                  = IF a = LevelIn(p, m) THEN SumFunctionOnSet(f, RunTo(p, rows, m)) ELSE 0
            BY <1>2, AddsTotal
          <5>3. SumFunctionOnSet(f, {}) = 0
            BY SumEmpty
          <5> QED
            BY <4>1, <5>1, <5>2, <5>3
        <4>2. CASE ~RunEnds(p, rows, m)
          <5>1. s[m] = <<>> /\ new = {}
            BY <1>3, <4>2 DEF At
          <5> HIDE DEF slot, f
          <5> QED
            BY <5>1, SumEmpty, TotalEmpty
        <4> QED
          BY <4>1, <4>2
      <3> HIDE DEF E, f, slot, new
      <3>4. SumFunctionOnSet(f, E(m)) = SumFunctionOnSet(f, E(m - 1)) + SumFunctionOnSet(f, new)
        <4>1. \A i \in E(m - 1) \cup new : f[i] \in Int
          BY <3>1, <3>2
        <4>2. SumFunctionOnSet(f, E(m - 1) \cup new)
                = SumFunctionOnSet(f, E(m - 1)) + SumFunctionOnSet(f, new)
          BY <3>1, <3>2, <4>1, SumDisjoint
        <4> QED
          BY <3>1, <4>2
      <3>5. m - 1 \in 0..n /\ m \in 0..n
        BY <1>1
      <3>6. Total(h[m], slot) = Total(h[m - 1], slot) + Total(s[m], slot)
        <4>1. h[m] = h[m - 1] \o s[m] /\ h[m - 1] \in Seq(AddType) /\ s[m] \in Seq(AddType)
          BY <1>3, <1>6, <1>7, <3>5
        <4> QED
          BY <4>1, TotalConcat
      <3>7. Total(h[m - 1], slot) = SumFunctionOnSet(f, E(m - 1))
        BY <2>2
      <3> QED
        BY <3>3, <3>4, <3>5, <3>6, <3>7
    <2>3. n \in T
      <3>1. \A m \in 1..n : m - 1 \in T => m \in T
        BY <2>2
      <3> HIDE DEF T
      <3>2. \A m \in 0..n : m \in T
        BY <1>1, <2>1, <3>1, IntervalInduction
      <3> QED
        BY <1>1, <3>2
    <2>4. E(n) = AtLevel(p, rows, a)
      BY <1>1, RunsCover DEF Ended, AtLevel
    <2> QED
      BY <2>3, <2>4
  <1>9. n \in 0..n
    BY <1>1
  <1> QED
    BY <1>6, <1>8, <1>9 DEF U

LEMMA ChunksOfRows ==
  ASSUME DesignInv, Built, NEW size \in Nat \ {0}
  PROVE  /\ \A k : ChunkRows(size, k) \in SUBSET Rows /\ Convex(ChunkRows(size, k))
         /\ IsFiniteSet(Chunks(size))
         /\ \A i \in Rows : (i - 1) \div size \in Chunks(size)
  <1> DEFINE n == design.nObs
             C(i) == (i - 1) \div size
  <1>1. n \in Nat \ {0} /\ Rows = 1..n
    BY TermFacts
  <1>2. ASSUME NEW i \in 1..n, NEW j \in 1..n, i <= j PROVE C(i) \in 0..C(j) /\ C(j) \in Nat
    <2>1. i - 1 \in Nat /\ j - 1 \in Nat /\ i - 1 <= j - 1
      BY <1>1, <1>2
    <2>2. (i - 1) \div size \in 0..(j - 1) \div size
      BY <2>1, DivGrows
    <2>3. (j - 1) \div size \in Nat
      BY <2>1, DivMod
    <2> QED
      BY <2>2, <2>3
  <1>3. ASSUME NEW k PROVE Convex(ChunkRows(size, k))
    <2> SUFFICES ASSUME NEW i \in ChunkRows(size, k), NEW j \in ChunkRows(size, k), NEW l \in i..j
                 PROVE  l \in ChunkRows(size, k)
      BY DEF Convex
    <2>1. i \in 1..n /\ j \in 1..n /\ C(i) = k /\ C(j) = k
      BY <1>1 DEF ChunkRows
    <2>2. l \in 1..n /\ i <= l /\ l <= j
      BY <1>1, <2>1
    <2> HIDE DEF C
    <2>3. C(i) \in 0..C(l) /\ C(l) \in 0..C(j) /\ C(l) \in Nat /\ C(i) \in Nat /\ C(j) \in Nat
      BY <1>2, <2>1, <2>2
    <2>4. C(l) = k
      BY <2>1, <2>3
    <2> QED
      BY <1>1, <2>2, <2>4 DEF ChunkRows, C
  <1>4. n \in 1..n /\ C(n) \in Nat /\ \A i \in 1..n : C(i) \in 0..C(n)
    <2>1. n \in 1..n /\ \A i \in 1..n : i <= n
      BY <1>1
    <2> HIDE DEF C
    <2> QED
      BY <1>2, <2>1
  <1>5. IsFiniteSet(Chunks(size))
    BY <1>4, FS_Interval DEF Chunks
  <1> QED
    BY <1>1, <1>3, <1>4, <1>5 DEF ChunkRows, Chunks

(* What tasks have yet to add to a slot. *)
Owed(td, slot) == SumFunctionOnSet([t \in DOMAIN td |-> Total(td[t], slot)], DOMAIN td)

LEMMA AtomicOwed ==
  ASSUME DesignInv, Built, NEW p, IsPass(p), NEW u, ObsVector(u),
         NEW c \in DOMAIN p.columns, NEW a \in LevelsOf(p)
  PROVE  Owed(RowTasks(p, u), Slot(p, c, a)) = DueAt(p, u, c, a)
  <1> DEFINE td == RowTasks(p, u)
             slot == Slot(p, c, a)
             f == V(p, u, c)
             g == [t \in Rows |-> Total(td[t], slot)]
             A == AtLevel(p, Rows, a)
  <1>1. IsFiniteSet(Rows) /\ A \in SUBSET Rows /\ \A i \in Rows : f[i] \in Int
    BY TermFacts, ValueType DEF AtLevel
  <1>2. ASSUME NEW t \in Rows PROVE g[t] = IF t \in A THEN f[t] ELSE 0
    <2>1. td[t] = Adds(p, u, {t}, LevelIn(p, t))
      BY DEF RowTasks
    <2>2. {t} \in SUBSET Rows /\ LevelIn(p, t) \in LevelsOf(p)
      BY PassFacts
    <2>3. Total(Adds(p, u, {t}, LevelIn(p, t)), slot)
            = IF a = LevelIn(p, t) THEN SumFunctionOnSet(f, {t}) ELSE 0
      BY <2>2, AddsTotal
    <2>4. SumFunctionOnSet(f, {t}) = f[t]
      BY <1>1, SumSingle
    <2> QED
      BY <2>1, <2>3, <2>4 DEF AtLevel
  <1>3. Owed(td, slot) = SumFunctionOnSet(g, Rows)
    BY DEF Owed, RowTasks
  <1> HIDE DEF g, f, A, td, slot
  <1>4. SumFunctionOnSet(g, Rows) = SumFunctionOnSet(f, A)
    <2>1. (\A x \in A : g[x] = f[x] /\ f[x] \in Int) /\ \A x \in Rows \ A : g[x] = 0
      BY <1>1, <1>2
    <2> QED
      BY <1>1, <2>1, SumSupport
  <1> QED
    BY <1>3, <1>4 DEF DueAt, AtLevel, A, f, td, slot

LEMMA SumParts ==
  ASSUME NEW S, IsFiniteSet(S), NEW f, \A x \in S : f[x] \in Int,
         NEW K, IsFiniteSet(K), NEW h, \A x \in S : h[x] \in K,
         NEW B, \A k \in K : B[k] = {x \in S : h[x] = k},
         NEW g, \A k \in K : g[k] = SumFunctionOnSet(f, B[k])
  PROVE  SumFunctionOnSet(g, K) = SumFunctionOnSet(f, S)
  <1>1. ASSUME NEW k \in K PROVE g[k] = SumFunctionOnSet(f, {x \in S : h[x] = k})
    OBVIOUS
  <1>2. Groups(h, f, S, g, K)
    BY <1>1 DEF Groups
  <1> QED
    BY <1>2, SumGroups

LEMMA ChunkOwed ==
  ASSUME DesignInv, Built, NEW p, IsPass(p), NEW u, ObsVector(u),
         NEW c \in DOMAIN p.columns, NEW a \in LevelsOf(p)
  PROVE  Owed(ChunkTasks(p, u), Slot(p, c, a)) = DueAt(p, u, c, a)
  <1> DEFINE td == ChunkTasks(p, u)
             slot == Slot(p, c, a)
             f == V(p, u, c)
             K == Chunks(ScatterChunk)
             g == [k \in K |-> Total(td[k], slot)]
             A == AtLevel(p, Rows, a)
             h == [i \in A |-> (i - 1) \div ScatterChunk]
  <1>1. IsFiniteSet(Rows) /\ A \in SUBSET Rows /\ \A i \in Rows : f[i] \in Int
    BY TermFacts, ValueType DEF AtLevel
  <1>2. /\ \A k : ChunkRows(ScatterChunk, k) \in SUBSET Rows /\ Convex(ChunkRows(ScatterChunk, k))
        /\ IsFiniteSet(K) /\ \A i \in Rows : (i - 1) \div ScatterChunk \in K
    BY DesignOperatorAssumption, ChunksOfRows
  <1>3. ASSUME NEW k \in K PROVE g[k] = SumFunctionOnSet(f, {i \in A : h[i] = k})
    <2>1. td[k] = ChunkTask(p, u, ChunkRows(ScatterChunk, k))
      BY DEF ChunkTasks
    <2>2. Total(ChunkTask(p, u, ChunkRows(ScatterChunk, k)), slot)
            = SumFunctionOnSet(f, AtLevel(p, ChunkRows(ScatterChunk, k), a))
      BY <1>2, ChunkTotal
    <2>3. AtLevel(p, ChunkRows(ScatterChunk, k), a) = {i \in A : h[i] = k}
      BY DEF AtLevel, ChunkRows
    <2> QED
      BY <2>1, <2>2, <2>3
  <1>4. Owed(td, slot) = SumFunctionOnSet(g, K)
    BY DEF Owed, ChunkTasks
  <1>5. IsFiniteSet(A) /\ (\A i \in A : f[i] \in Int) /\ \A i \in A : h[i] \in K
    BY <1>1, <1>2, FS_Subset
  <1> HIDE DEF g, f, A, td, slot, K, h
  <1>6. SumFunctionOnSet(g, K) = SumFunctionOnSet(f, A)
    <2> DEFINE B == [k \in K |-> {x \in A : h[x] = k}]
    <2>1. \A k \in K : B[k] = {x \in A : h[x] = k} /\ g[k] = SumFunctionOnSet(f, B[k])
      BY <1>3
    <2>2. IsFiniteSet(K)
      BY <1>2
    <2> HIDE DEF B
    <2> QED
      BY ONLY <1>5, <2>1, <2>2, SumParts
  <1> QED
    BY <1>4, <1>6 DEF DueAt, AtLevel, A, f, td, slot

(* Tasks that have adds left to make, of one pass. *)
TasksTyped(p, td) == IsFiniteSet(DOMAIN td) /\ \A t \in DOMAIN td : td[t] \in Seq(BlockAdds(p))

(* Together the tasks of a pass add what its rows come to, nothing twice.  *)
LEMMA TasksOwe ==
  ASSUME DesignInv, Built, NEW p, IsPass(p), NEW u, ObsVector(u)
  PROVE  /\ TasksTyped(p, Tasks(p, u))
         /\ \A c \in DOMAIN p.columns, a \in LevelsOf(p) :
              Owed(Tasks(p, u), Slot(p, c, a)) = DueAt(p, u, c, a)
  <1>1. TasksTyped(p, RowTasks(p, u))
    <2>1. DOMAIN RowTasks(p, u) = Rows /\ IsFiniteSet(Rows)
      BY TermFacts DEF RowTasks
    <2>2. ASSUME NEW t \in Rows PROVE RowTasks(p, u)[t] \in Seq(BlockAdds(p))
      <3>1. {t} \in SUBSET Rows /\ LevelIn(p, t) \in LevelsOf(p)
        BY PassFacts
      <3>2. Adds(p, u, {t}, LevelIn(p, t)) \in Seq(BlockAdds(p))
        BY <3>1, AddsTotal
      <3> QED
        BY <3>2 DEF RowTasks
    <2> QED
      BY <2>1, <2>2 DEF TasksTyped
  <1>2. TasksTyped(p, ChunkTasks(p, u))
    <2>1. /\ \A k : ChunkRows(ScatterChunk, k) \in SUBSET Rows /\ Convex(ChunkRows(ScatterChunk, k))
          /\ IsFiniteSet(Chunks(ScatterChunk))
      BY DesignOperatorAssumption, ChunksOfRows
    <2>2. \A k : ChunkTask(p, u, ChunkRows(ScatterChunk, k)) \in Seq(BlockAdds(p))
      BY <2>1, ChunkTotal
    <2> QED
      BY <2>1, <2>2 DEF TasksTyped, ChunkTasks
  <1>3. CASE Strategy(p) = "Atomic"
    <2>1. Tasks(p, u) = RowTasks(p, u)
      BY <1>3 DEF Tasks
    <2> QED
      BY <1>1, <2>1, AtomicOwed
  <1>4. CASE Strategy(p) # "Atomic"
    <2>1. Tasks(p, u) = ChunkTasks(p, u)
      BY <1>4 DEF Tasks
    <2> QED
      BY <1>2, <2>1, ChunkOwed
  <1> QED
    BY <1>3, <1>4

(* One add fewer. *)
LEMMA TypedAfter ==
  ASSUME NEW p, NEW td, TasksTyped(p, td), NEW t \in DOMAIN td, td[t] # <<>>
  PROVE  Head(td[t]) \in BlockAdds(p) /\ TasksTyped(p, [td EXCEPT ![t] = Tail(@)])
  <1> DEFINE td2 == [td EXCEPT ![t] = Tail(@)]
  <1>1. /\ IsFiniteSet(DOMAIN td) /\ \A k \in DOMAIN td : td[k] \in Seq(BlockAdds(p))
    BY DEF TasksTyped
  <1>2. /\ DOMAIN td2 = DOMAIN td /\ td2[t] = Tail(td[t])
        /\ \A k \in DOMAIN td : k # t => td2[k] = td[k]
    OBVIOUS
  <1>3. Head(td[t]) \in BlockAdds(p) /\ Tail(td[t]) \in Seq(BlockAdds(p))
    BY <1>1
  <1> HIDE DEF td2
  <1>4. TasksTyped(p, td2)
    BY <1>1, <1>2, <1>3 DEF TasksTyped
  <1> QED
    BY <1>3, <1>4 DEF td2

LEMMA OwedAfter ==
  ASSUME DesignInv, Built, NEW p, IsPass(p), NEW td, TasksTyped(p, td),
         NEW t \in DOMAIN td, td[t] # <<>>, NEW slot
  PROVE  /\ Owed(td, slot) \in Int
         /\ Owed(td, slot) = (IF Head(td[t]).slot = slot THEN Head(td[t]).value ELSE 0)
                               + Owed([td EXCEPT ![t] = Tail(@)], slot)
         /\ Owed([td EXCEPT ![t] = Tail(@)], slot) \in Int
  <1> DEFINE D == DOMAIN td
             td2 == [td EXCEPT ![t] = Tail(@)]
             f == [k \in D |-> Total(td[k], slot)]
             g == [k \in D |-> Total(td2[k], slot)]
             x == IF Head(td[t]).slot = slot THEN Head(td[t]).value ELSE 0
  <1>1. /\ IsFiniteSet(D) /\ \A k \in D : td[k] \in Seq(BlockAdds(p)) /\ td[k] \in Seq(AddType)
        /\ Seq(BlockAdds(p)) \subseteq Seq(AddType)
    BY BlockAddsTyped DEF TasksTyped
  <1>2. /\ DOMAIN td2 = D /\ td2[t] = Tail(td[t]) /\ \A k \in D : k # t => td2[k] = td[k]
    OBVIOUS
  <1>3. Head(td[t]) \in BlockAdds(p) /\ Tail(td[t]) \in Seq(BlockAdds(p))
    BY <1>1
  <1>4. \A k \in D : td2[k] \in Seq(BlockAdds(p)) /\ td2[k] \in Seq(AddType)
    BY <1>1, <1>2, <1>3
  <1>6. Total(td[t], slot) = x + Total(Tail(td[t]), slot)
    BY <1>1, TotalHead
  <1>7. x \in Int
    BY <1>3 DEF BlockAdds
  <1>8. \A k \in D : f[k] \in Int /\ g[k] \in Int
    BY <1>1, <1>4, TotalType
  <1>9. f[t] = x + g[t] /\ \A k \in D \ {t} : f[k] = g[k]
    BY <1>2, <1>6
  <1>10. Owed(td, slot) = SumFunctionOnSet(f, D) /\ Owed(td2, slot) = SumFunctionOnSet(g, D)
    BY <1>2 DEF Owed
  <1> HIDE DEF f, g, x, D, td2
  <1>11. t \in D /\ IsFiniteSet(D \ {t})
    BY <1>1, FS_Subset DEF D
  <1>12. /\ SumFunctionOnSet(f, D) = f[t] + SumFunctionOnSet(f, D \ {t})
         /\ SumFunctionOnSet(g, D) = g[t] + SumFunctionOnSet(g, D \ {t})
    BY <1>1, <1>8, <1>11, SumRemove
  <1>13. /\ SumFunctionOnSet(f, D \ {t}) = SumFunctionOnSet(g, D \ {t})
         /\ SumFunctionOnSet(f, D \ {t}) \in Int
    BY <1>8, <1>9, <1>11, SumSame, SumType
  <1>14. f[t] \in Int /\ g[t] \in Int
    BY <1>8, <1>11
  <1>15. /\ SumFunctionOnSet(f, D) = x + SumFunctionOnSet(g, D)
         /\ SumFunctionOnSet(f, D) \in Int /\ SumFunctionOnSet(g, D) \in Int
    BY <1>7, <1>9, <1>12, <1>13, <1>14
  <1> QED
    BY <1>10, <1>15 DEF x, td2

LEMMA OwedNone ==
  ASSUME NEW td, IsFiniteSet(DOMAIN td), \A t \in DOMAIN td : td[t] = <<>>, NEW slot
  PROVE  Owed(td, slot) = 0
  <1> DEFINE f == [t \in DOMAIN td |-> Total(td[t], slot)]
  <1>1. \A t \in DOMAIN td : f[t] = 0
    BY TotalEmpty
  <1>2. Owed(td, slot) = SumFunctionOnSet(f, DOMAIN td)
    BY DEF Owed
  <1> HIDE DEF f
  <1> QED
    BY <1>1, <1>2, SumZero

-----------------------------------------------------------------------------
(* The scatter. *)

(* A scratch holds the largest block. *)
Covers(sc) == \A q \in DOMAIN design.terms : 0..NDofs(design.terms[q]) - 1 \subseteq DOMAIN sc

(* The coefficient of a column's level. *)
Where(p, c, a) == p.base + Slot(p, c, a)

(* A pass is done, or has not begun. *)
Done(p, u, o) ==
  \A c \in DOMAIN p.columns, a \in LevelsOf(p) : o[Where(p, c, a)] = DueAt(p, u, c, a)
Untried(p, o) ==
  \A c \in DOMAIN p.columns, a \in LevelsOf(p) : o[Where(p, c, a)] = 0

(* The passes below m are done, the others have not begun. *)
Reached(u, o, m) ==
  /\ DOMAIN o = 0..design.nDofs - 1
  /\ \A j \in 1..Len(Passes) :
       IF j < m THEN Done(Passes[j], u, o) ELSE Untried(Passes[j], o)

(* Every coefficient of the pass has what its rows come to, less what the  *)
(* tasks have yet to add: whatever the tasks' order, nothing is lost.      *)
Joining(p, u, td, sc) ==
  /\ TasksTyped(p, td)
  /\ \A c \in DOMAIN p.columns, a \in LevelsOf(p) :
       /\ sc[Slot(p, c, a)] \in Int
       /\ sc[Slot(p, c, a)] + Owed(td, Slot(p, c, a)) = DueAt(p, u, c, a)

(* What a product of the caller's y has come to when m - 1 passes are done. *)
Scattered(pr, o, m) ==
  /\ pr.y \in ObsVectors /\ pr.u = PermuteIn(design, pr.y)
  /\ m \in 1..Len(Passes) + 1
  /\ Reached(pr.u, o, m)

AdjointInv(r) ==
  /\ scratch[r] = <<>> \/ (Built /\ Covers(scratch[r]))
  /\ pc[r] \in {"scatter", "join"} =>
       Built /\ Covers(scratch[r]) /\ Scattered(product[r], out[r], pass[r])
  /\ pc[r] = "join" =>
       /\ pass[r] \in 1..Len(Passes)
       /\ Joining(Passes[pass[r]], product[r].u, todo[r], scratch[r])
  /\ Returned(r, "adjoint") => Built /\ Scattered(product[r], out[r], Len(Passes) + 1)

LEMMA SameDesign ==
  ASSUME UNCHANGED <<design, sqrtWeights>>
  PROVE  /\ Built' <=> Built
         /\ Len(Passes)' = Len(Passes) /\ \A j : Passes[j]' = Passes[j]
         /\ \A sc : Covers(sc)' <=> Covers(sc)
         /\ \A u, o, m : Reached(u, o, m)' <=> Reached(u, o, m)
         /\ \A p, u, td, sc : Joining(p, u, td, sc)' <=> Joining(p, u, td, sc)
         /\ \A pr, o, m : Scattered(pr, o, m)' <=> Scattered(pr, o, m)
  <1>1. (Built' <=> Built) /\ \A sc : Covers(sc)' <=> Covers(sc)
    BY DEF Built, Covers
  <1>2. Passes' = Passes
    BY DEF Passes
  <1>3. \A p : LevelsOf(p)' = LevelsOf(p)
    BY DEF LevelsOf
  <1>4. \A p, c, a : Slot(p, c, a)' = Slot(p, c, a)
    BY DEF Slot
  <1>5. \A p, u, c, a : DueAt(p, u, c, a)' = DueAt(p, u, c, a)
    BY DEF DueAt, V, ValueIn, Rows, LevelIn, Scale, Loading
  <1>6. \A p, td : TasksTyped(p, td)' <=> TasksTyped(p, td)
    BY DEF TasksTyped, BlockAdds, Block
  <1>7. \A u, o, m : Reached(u, o, m)' <=> Reached(u, o, m)
    <2>1. \A p, u, o : Done(p, u, o)' <=> Done(p, u, o)
      BY <1>3, <1>4, <1>5 DEF Done, Where
    <2>2. \A p, o : Untried(p, o)' <=> Untried(p, o)
      BY <1>3, <1>4 DEF Untried, Where
    <2> QED
      BY <1>2, <2>1, <2>2 DEF Reached
  <1>8. \A p, u, td, sc : Joining(p, u, td, sc)' <=> Joining(p, u, td, sc)
    BY <1>3, <1>4, <1>5, <1>6 DEF Joining, Owed, Total
  <1>9. \A pr, o, m : Scattered(pr, o, m)' <=> Scattered(pr, o, m)
    BY <1>2, <1>7 DEF Scattered, PermuteIn, Gathered
  <1> QED
    BY <1>1, <1>2, <1>7, <1>8, <1>9

LEMMA PassesAre ==
  ASSUME DesignInv, Built
  PROVE  Len(Passes) \in Nat /\ \A j \in 1..Len(Passes) : IsPass(Passes[j])
  <1>1. Len(Passes) \in Nat /\ Tiles(Passes, Len(design.terms))
    BY PassesTile
  <1>2. DOMAIN design.terms = 1..Len(design.terms)
    BY TermFacts DEF Contiguous
  <1> QED
    BY <1>1, <1>2 DEF Tiles, IsPass

(* A pass writes to coefficients of its block. *)
LEMMA PassWrites ==
  ASSUME DesignInv, Built, NEW p, IsPass(p), NEW c \in DOMAIN p.columns, NEW a \in LevelsOf(p)
  PROVE  /\ Where(p, c, a) \in 0..design.nDofs - 1
         /\ Where(p, c, a) - p.base = Slot(p, c, a)
         /\ Slot(p, c, a) \in 0..Block(p) - 1
  <1> DEFINE s == Slot(p, c, a)
  <1>1. /\ p.base \in Nat /\ Block(p) \in Nat \ {0} /\ p.base + Block(p) <= design.nDofs
        /\ design.nDofs \in Nat
    BY PassFacts
  <1>2. s \in 0..Block(p) - 1
    BY Slots
  <1>3. Where(p, c, a) = p.base + s
    BY DEF Where
  <1> HIDE DEF s
  <1>4. Where(p, c, a) \in 0..design.nDofs - 1 /\ Where(p, c, a) - p.base = s
    BY <1>1, <1>2, <1>3
  <1> QED
    BY <1>2, <1>4 DEF s

(* Passes write to different coefficients. *)
LEMMA PassesApart ==
  ASSUME DesignInv, Built, NEW j \in 1..Len(Passes), NEW l \in 1..Len(Passes), j # l,
         NEW c \in DOMAIN Passes[j].columns, NEW a \in LevelsOf(Passes[j])
  PROVE  /\ Where(Passes[j], c, a) - Passes[l].base \notin 0..Block(Passes[l]) - 1
         /\ \A e \in DOMAIN Passes[l].columns, b \in LevelsOf(Passes[l]) :
              Where(Passes[j], c, a) # Where(Passes[l], e, b)
  <1> DEFINE p == Passes[j]
             q == Passes[l]
             d == Where(p, c, a)
             s == Slot(p, c, a)
  <1>1. IsPass(p) /\ IsPass(q) /\ Len(Passes) \in Nat
    BY PassesAre
  <1>2. /\ p.base \in Nat /\ Block(p) \in Nat \ {0}
        /\ q.base \in Nat /\ Block(q) \in Nat \ {0}
    BY <1>1, PassFacts
  <1>3. d - p.base = s /\ s \in 0..Block(p) - 1 /\ d \in Nat
    BY <1>1, PassWrites
  <1>4. /\ j < l => p.base + Block(p) <= q.base
        /\ l < j => q.base + Block(q) <= p.base
    BY PassesTile DEF Tiles
  <1>5. ASSUME NEW e \in DOMAIN q.columns, NEW b \in LevelsOf(q)
        PROVE  Where(q, e, b) - q.base \in 0..Block(q) - 1
    BY <1>1, PassWrites
  <1> HIDE DEF p, q, s, d
  <1>6. d - q.base \notin 0..Block(q) - 1
    <2> DEFINE pb == p.base
               qb == q.base
               bp == Block(p)
               bq == Block(q)
    <2>1. {pb, qb, bp, bq, d} \subseteq Nat /\ d - pb \in 0..bp - 1
      BY <1>2, <1>3
    <2>2. pb + bp <= qb \/ qb + bq <= pb
      BY <1>1, <1>4
    <2> HIDE DEF pb, qb, bp, bq
    <2>3. d - qb \notin 0..bq - 1
      BY SMTT(20), <2>1, <2>2
    <2> QED
      BY <2>3 DEF qb, bq
  <1>7. \A e \in DOMAIN q.columns, b \in LevelsOf(q) : d # Where(q, e, b)
    BY <1>5, <1>6
  <1> QED
    BY <1>6, <1>7 DEF p, q, d

(* The vector a product scatters. *)
LEMMA VectorOf ==
  ASSUME DesignInv, Built, NEW y \in ObsVectors
  PROVE  /\ ObsVector(PermuteIn(design, y)) /\ y \in [Rows -> Int]
         /\ \A i \in Rows : PermuteIn(design, y)[i] = y[OriginalOf(design, i)]
  <1>1. /\ input \in Inputs /\ Builds(design, input.frame, input.structure)
    BY DEF DesignInv
  <1>2. design.nObs \in Nat \ {0} /\ Rows = 1..design.nObs /\ design.nObs = NObs(input.frame)
    BY <1>1 DEF Builds, Rows
  <1>3. y \in Seq(Int) /\ Len(y) = design.nObs
    BY <1>1, <1>2, InputsAssumption
  <1>4. y \in [1..design.nObs -> Int]
    BY <1>3
  <1>5. \A i \in 1..design.nObs : OriginalOf(design, i) \in 1..design.nObs
    BY <1>1, DesignRows
  <1>6. CASE design.perm = None
    BY <1>2, <1>4, <1>6 DEF PermuteIn, ObsVector, OriginalOf
  <1>7. CASE design.perm # None
    <2>1. DOMAIN design.perm = 1..design.nObs
      <3>1. Sorts(design.perm, input.frame.levels[Dominant(design.terms)])
            /\ Dominant(design.terms) \in DOMAIN input.frame.levels
        BY <1>1, <1>7 DEF Builds
      <3>2. DOMAIN input.frame.levels[Dominant(design.terms)] = 1..design.nObs
        BY <1>1, <1>2, <3>1, InputValid, FrameColumns
      <3> QED
        BY <3>1, <3>2 DEF Sorts
    <2>2. PermuteIn(design, y) = [k \in 1..design.nObs |-> y[design.perm[k]]]
      BY <1>7, <2>1 DEF PermuteIn, Gathered
    <2>3. \A i \in 1..design.nObs : OriginalOf(design, i) = design.perm[i]
      BY <1>7 DEF OriginalOf
    <2>4. \A i \in 1..design.nObs : y[design.perm[i]] \in Int
      BY <1>4, <1>5, <2>3
    <2> QED
      BY <1>2, <1>4, <2>2, <2>3, <2>4 DEF ObsVector
  <1> QED
    BY <1>6, <1>7

LEMMA StartReaches ==
  ASSUME DesignInv, Built, NEW u
  PROVE  Reached(u, [d \in 0..design.nDofs - 1 |-> 0], 1)
  <1> DEFINE o == [d \in 0..design.nDofs - 1 |-> 0]
  <1>1. ASSUME NEW j \in 1..Len(Passes) PROVE ~(j < 1) /\ Untried(Passes[j], o)
    <2>1. Len(Passes) \in Nat
      BY PassesAre
    <2>2. \A c \in DOMAIN Passes[j].columns, a \in LevelsOf(Passes[j]) :
            Where(Passes[j], c, a) \in 0..design.nDofs - 1
      BY PassesAre, PassWrites
    <2> QED
      BY <2>1, <2>2 DEF Untried
  <1> QED
    BY <1>1 DEF Reached

(* Of a vector that grew, or was written, only where pass m writes. *)
LEMMA NextReached ==
  ASSUME DesignInv, Built, NEW u, ObsVector(u), NEW o, NEW m \in 1..Len(Passes), Reached(u, o, m),
         NEW w, DOMAIN w = DOMAIN o, Done(Passes[m], u, w),
         \A j \in 1..Len(Passes) : j # m =>
           \A c \in DOMAIN Passes[j].columns, a \in LevelsOf(Passes[j]) :
             LET d == Where(Passes[j], c, a)
             IN d \in DOMAIN o /\ o[d] \in Int => w[d] = o[d]
  PROVE  Reached(u, w, m + 1)
  <1>1. Len(Passes) \in Nat /\ DOMAIN w = 0..design.nDofs - 1 /\ DOMAIN o = 0..design.nDofs - 1
    BY PassesAre DEF Reached
  <1>2. ASSUME NEW j \in 1..Len(Passes), j < m PROVE Done(Passes[j], u, w)
    <2> SUFFICES ASSUME NEW c \in DOMAIN Passes[j].columns, NEW a \in LevelsOf(Passes[j])
                 PROVE  w[Where(Passes[j], c, a)] = DueAt(Passes[j], u, c, a)
      BY DEF Done
    <2> DEFINE d == Where(Passes[j], c, a)
    <2>1. o[d] = DueAt(Passes[j], u, c, a)
      BY <1>2 DEF Reached, Done
    <2>2. DueAt(Passes[j], u, c, a) \in Int
      BY PassesAre, DueType
    <2>3. d \in 0..design.nDofs - 1
      BY PassesAre, PassWrites
    <2>4. j # m
      BY <1>2
    <2> QED
      BY <1>1, <2>1, <2>2, <2>3, <2>4
  <1>3. ASSUME NEW j \in 1..Len(Passes), m < j PROVE Untried(Passes[j], w)
    <2> SUFFICES ASSUME NEW c \in DOMAIN Passes[j].columns, NEW a \in LevelsOf(Passes[j])
                 PROVE  w[Where(Passes[j], c, a)] = 0
      BY DEF Untried
    <2> DEFINE d == Where(Passes[j], c, a)
    <2>1. j # m /\ ~(j < m)
      BY <1>1, <1>3
    <2>2. Untried(Passes[j], o)
      BY <2>1 DEF Reached
    <2>3. o[d] = 0
      BY <2>2 DEF Untried
    <2>4. d \in DOMAIN o
      BY <1>1, PassesAre, PassWrites
    <2>5. d \in DOMAIN o /\ o[d] \in Int => w[d] = o[d]
      BY <2>1
    <2> QED
      BY <2>3, <2>4, <2>5
  <1>4. ASSUME NEW j \in 1..Len(Passes)
        PROVE  IF j < m + 1 THEN Done(Passes[j], u, w) ELSE Untried(Passes[j], w)
    <2>1. j \in Int /\ m \in Int
      BY <1>1
    <2>2. CASE j < m
      BY <1>2, <2>1, <2>2
    <2>3. CASE j = m
      BY <2>1, <2>3
    <2>4. CASE m < j
      BY <1>3, <2>1, <2>4
    <2> QED
      BY <2>1, <2>2, <2>3, <2>4
  <1> QED
    BY <1>1, <1>4 DEF Reached

LEMMA PrivateReaches ==
  ASSUME DesignInv, Built, NEW u, ObsVector(u), NEW o, NEW m \in 1..Len(Passes), Reached(u, o, m)
  PROVE  Reached(u, [d \in DOMAIN o |-> o[d] + PrivateAdd(Passes[m], u, d)], m + 1)
  <1> DEFINE w == [d \in DOMAIN o |-> o[d] + PrivateAdd(Passes[m], u, d)]
             p == Passes[m]
  <1>1. IsPass(p) /\ Len(Passes) \in Nat /\ m \in Nat /\ ~(m < m)
    BY PassesAre
  <1>2. DOMAIN o = 0..design.nDofs - 1 /\ Untried(p, o)
    BY <1>1 DEF Reached
  <1>3. ASSUME NEW c \in DOMAIN p.columns, NEW a \in LevelsOf(p)
        PROVE  w[Where(p, c, a)] = DueAt(p, u, c, a)
    <2> DEFINE d == Where(p, c, a)
    <2>1. d \in DOMAIN o /\ o[d] = 0
      BY <1>1, <1>2, PassWrites DEF Untried
    <2>2. PrivateAdd(p, u, d) = DueAt(p, u, c, a) /\ DueAt(p, u, c, a) \in Int
      BY <1>1, PrivateDue, DueType DEF Where
    <2>3. w[d] = o[d] + PrivateAdd(p, u, d)
      BY <2>1
    <2> QED
      BY <2>1, <2>2, <2>3
  <1>4. ASSUME NEW j \in 1..Len(Passes), j # m,
               NEW c \in DOMAIN Passes[j].columns, NEW a \in LevelsOf(Passes[j])
        PROVE  LET d == Where(Passes[j], c, a)
               IN d \in DOMAIN o /\ o[d] \in Int => w[d] = o[d]
    <2> DEFINE d == Where(Passes[j], c, a)
    <2> SUFFICES ASSUME d \in DOMAIN o, o[d] \in Int PROVE w[d] = o[d]
      OBVIOUS
    <2>1. \A e \in DOMAIN p.columns, b \in LevelsOf(p) : d # Where(p, e, b)
      BY <1>4, PassesApart
    <2> HIDE DEF d
    <2>2. PrivateAdd(p, u, d) = 0
      BY <1>1, <2>1, PrivateDue DEF Where
    <2> QED
      BY <2>2
  <1>5. Done(p, u, w) /\ DOMAIN w = DOMAIN o
    BY <1>3 DEF Done
  <1> HIDE DEF w
  <1>6. Done(Passes[m], u, w)
    BY <1>5
  <1>7. Reached(u, w, m + 1)
    BY ONLY <1>4, <1>5, <1>6, NextReached, DesignInv, Built, ObsVector(u), m \in 1..Len(Passes), Reached(u, o, m)
  <1> QED
    BY <1>7 DEF w

(* Pass m's slots of the scratch exist. *)
LEMMA SlotsCovered ==
  ASSUME DesignInv, Built, NEW p, IsPass(p), NEW sc, Covers(sc)
  PROVE  0..Block(p) - 1 \subseteq DOMAIN sc
  <1>1. /\ p.term \in DOMAIN design.terms /\ Block(p) \in Nat
        /\ Block(p) <= NDofs(design.terms[p.term])
    BY PassFacts
  <1>2. 0..NDofs(design.terms[p.term]) - 1 \subseteq DOMAIN sc
    BY <1>1 DEF Covers
  <1>3. NDofs(design.terms[p.term]) \in Nat
    <2>1. /\ Len(design.terms[p.term].columns) \in Nat \ {0}
          /\ design.terms[p.term].nLevels \in Nat \ {0}
      BY <1>1, TermFacts
    <2> QED
      BY <2>1, ProductPositive DEF NDofs
  <1> QED
    BY <1>1, <1>2, <1>3

LEMMA SeedJoins ==
  ASSUME DesignInv, Built, NEW u, ObsVector(u), NEW o, NEW m \in 1..Len(Passes), Reached(u, o, m),
         NEW sc, Covers(sc)
  PROVE  Joining(Passes[m], u, Tasks(Passes[m], u),
                 [s \in DOMAIN sc |-> IF s < Block(Passes[m]) THEN o[Passes[m].base + s] ELSE sc[s]])
  <1> DEFINE p == Passes[m]
             w == [s \in DOMAIN sc |-> IF s < Block(p) THEN o[p.base + s] ELSE sc[s]]
             td == Tasks(p, u)
  <1>1. IsPass(p) /\ Untried(p, o)
    <2>1. Len(Passes) \in Nat /\ m \in Nat /\ ~(m < m)
      BY PassesAre
    <2> QED
      BY <2>1, PassesAre DEF Reached
  <1>2. TasksTyped(p, td)
    BY <1>1, TasksOwe
  <1>3. ASSUME NEW c \in DOMAIN p.columns, NEW a \in LevelsOf(p)
        PROVE  w[Slot(p, c, a)] = 0 /\ 0 + Owed(td, Slot(p, c, a)) = DueAt(p, u, c, a)
    <2>1. Slot(p, c, a) \in DOMAIN sc /\ Slot(p, c, a) < Block(p)
      <3>1. Slot(p, c, a) \in 0..Block(p) - 1 /\ Block(p) \in Nat
        BY <1>1, Slots, PassFacts
      <3> QED
        BY <1>1, <3>1, SlotsCovered
    <2>2. o[p.base + Slot(p, c, a)] = 0
      BY <1>1 DEF Untried, Where
    <2>3. Owed(td, Slot(p, c, a)) = DueAt(p, u, c, a) /\ DueAt(p, u, c, a) \in Int
      BY <1>1, TasksOwe, DueType
    <2> QED
      BY <2>1, <2>2, <2>3
  <1> HIDE DEF p, w, td
  <1>4. Joining(p, u, td, w)
    BY <1>2, <1>3 DEF Joining
  <1> QED
    BY <1>4 DEF p, w, td

LEMMA FetchJoins ==
  ASSUME DesignInv, Built, NEW p, IsPass(p), NEW u, NEW td, NEW sc, Covers(sc), Joining(p, u, td, sc),
         NEW t \in DOMAIN td, td[t] # <<>>
  PROVE  Joining(p, u, [td EXCEPT ![t] = Tail(@)],
                 [sc EXCEPT ![Head(td[t]).slot] = @ + Head(td[t]).value])
  <1> DEFINE td2 == [td EXCEPT ![t] = Tail(@)]
             hd == Head(td[t])
             w == [sc EXCEPT ![hd.slot] = @ + hd.value]
  <1>1. TasksTyped(p, td) /\ TasksTyped(p, td2) /\ hd \in BlockAdds(p)
    BY TypedAfter DEF Joining
  <1>2. hd.slot \in DOMAIN sc /\ hd.value \in Int
    BY <1>1, SlotsCovered DEF BlockAdds
  <1>3. ASSUME NEW c \in DOMAIN p.columns, NEW a \in LevelsOf(p)
        PROVE  /\ w[Slot(p, c, a)] \in Int
               /\ w[Slot(p, c, a)] + Owed(td2, Slot(p, c, a)) = DueAt(p, u, c, a)
    <2> DEFINE s == Slot(p, c, a)
               x == IF hd.slot = s THEN hd.value ELSE 0
               y == Owed(td, s)
               z == Owed(td2, s)
    <2>1. sc[s] \in Int /\ sc[s] + y = DueAt(p, u, c, a)
      BY DEF Joining
    <2>2. y = x + z /\ y \in Int /\ z \in Int
      BY <1>1, OwedAfter
    <2>3. s \in DOMAIN sc
      BY Slots, SlotsCovered
    <2> HIDE DEF s, y, z, hd
    <2>4. x \in Int /\ w[s] = sc[s] + x
      BY <1>2, <2>1, <2>3
    <2> HIDE DEF x, w
    <2>5. w[s] \in Int /\ w[s] + z = DueAt(p, u, c, a)
      BY <2>1, <2>2, <2>4
    <2> QED
      BY <2>5 DEF s, z
  <1> HIDE DEF w, td2, hd
  <1>4. Joining(p, u, td2, w)
    BY <1>1, <1>3 DEF Joining
  <1> QED
    BY <1>4 DEF td2, w, hd

LEMMA WritebackReaches ==
  ASSUME DesignInv, Built, NEW u, ObsVector(u), NEW o, NEW m \in 1..Len(Passes), Reached(u, o, m),
         NEW td, NEW sc, Joining(Passes[m], u, td, sc), \A t \in DOMAIN td : td[t] = <<>>
  PROVE  Reached(u, [d \in DOMAIN o |->
                       IF d - Passes[m].base \in 0..Block(Passes[m]) - 1
                       THEN sc[d - Passes[m].base] ELSE o[d]], m + 1)
  <1> DEFINE p == Passes[m]
             w == [d \in DOMAIN o |-> IF d - p.base \in 0..Block(p) - 1 THEN sc[d - p.base] ELSE o[d]]
  <1>1. IsPass(p) /\ DOMAIN o = 0..design.nDofs - 1 /\ DOMAIN w = DOMAIN o
    BY PassesAre DEF Reached
  <1>2. ASSUME NEW c \in DOMAIN p.columns, NEW a \in LevelsOf(p)
        PROVE  w[Where(p, c, a)] = DueAt(p, u, c, a)
    <2> DEFINE s == Slot(p, c, a)
               d == Where(p, c, a)
    <2>1. d \in DOMAIN o /\ d - p.base \in 0..Block(p) - 1
      BY <1>1, PassesAre, PassWrites
    <2>2. d - p.base = s
      BY PassesAre, PassWrites
    <2>3. Owed(td, s) = 0
      BY OwedNone DEF Joining, TasksTyped
    <2>4. sc[s] \in Int /\ sc[s] + Owed(td, s) = DueAt(p, u, c, a)
      BY DEF Joining
    <2>5. sc[s] = DueAt(p, u, c, a)
      BY <2>3, <2>4
    <2>6. w[d] = sc[d - p.base]
      BY <2>1
    <2> QED
      BY <2>2, <2>5, <2>6
  <1>3. ASSUME NEW j \in 1..Len(Passes), j # m,
               NEW c \in DOMAIN Passes[j].columns, NEW a \in LevelsOf(Passes[j])
        PROVE  LET d == Where(Passes[j], c, a)
               IN d \in DOMAIN o /\ o[d] \in Int => w[d] = o[d]
    <2> DEFINE d == Where(Passes[j], c, a)
    <2>1. d - p.base \notin 0..Block(p) - 1
      BY <1>3, PassesApart
    <2> HIDE DEF d
    <2>2. d \in DOMAIN o /\ o[d] \in Int => w[d] = o[d]
      BY <2>1
    <2> QED
      BY <2>2 DEF d
  <1>4. Done(Passes[m], u, w)
    BY <1>2 DEF Done
  <1> HIDE DEF w
  <1>5. Reached(u, w, m + 1)
    BY <1>1, <1>3, <1>4, NextReached
  <1> QED
    BY <1>5 DEF w

-----------------------------------------------------------------------------
(* The steps. *)

(* What a right-hand side's product rests on: its part of the state.       *)
Part(r) == <<pc[r], product[r], out[r], pass[r], todo[r], scratch[r]>>

Typed ==
  /\ DOMAIN pc = Rhs /\ DOMAIN product = Rhs /\ DOMAIN out = Rhs /\ DOMAIN todo = Rhs
  /\ DOMAIN pass = Rhs /\ DOMAIN scratch = Rhs

Acts(r) ==
  \/ Start(r) \/ Gather(r) \/ GatherReturn(r)
  \/ ScatterPrivate(r) \/ Seed(r) \/ FetchAdd(r) \/ Writeback(r) \/ ScatterReturn(r)

(* Right-hand sides share the design only, the scratch included. *)
LEMMA OnlyOwnPart ==
  ASSUME Typed, NEW r \in Rhs, Acts(r)
  PROVE  /\ UNCHANGED <<input, design, sqrtWeights>> /\ Typed'
         /\ \A q \in Rhs : q # r => UNCHANGED Part(q)
  <1>1. CASE Start(r)
    <2>1. PICK op \in Products, y \in ObsVectors :
            CASE op = "adjoint" -> ApplyAdjoint(r, y)
              [] op = "apply"   -> GatherStart(r, op, X, sqrtWeights, None)
              [] op = "demean"  -> GatherStart(r, op, X, None, y)
      BY <1>1 DEF Start
    <2>2. op \in {"adjoint", "apply", "demean"}
      BY DesignOperatorAssumption
    <2>3. UNCHANGED <<input, design, sqrtWeights>> /\ scratch' = Fresh(r)
      BY <1>1 DEF Start
    <2>4. DOMAIN scratch' = Rhs /\ \A q \in Rhs : q # r => scratch'[q] = scratch[q]
      BY <2>3 DEF Fresh, OperatorOf, Typed
    <2>5. \/ ApplyAdjoint(r, y)
          \/ \E scale, z : GatherStart(r, op, X, scale, z)
      BY <2>1, <2>2
    <2>6. CASE ApplyAdjoint(r, y)
      BY <2>3, <2>4, <2>6 DEF ApplyAdjoint, Typed, Part
    <2>7. CASE \E scale, z : GatherStart(r, op, X, scale, z)
      BY <2>3, <2>4, <2>7 DEF GatherStart, Typed, Part
    <2> QED
      BY <2>5, <2>6, <2>7
  <1>2. CASE Gather(r)
    BY <1>2 DEF Gather, Typed, Part
  <1>3. CASE GatherReturn(r)
    BY <1>3 DEF GatherReturn, Typed, Part
  <1>4. CASE ScatterPrivate(r)
    BY <1>4 DEF ScatterPrivate, Typed, Part
  <1>5. CASE Seed(r)
    BY <1>5 DEF Seed, OperatorOf, Typed, Part
  <1>6. CASE FetchAdd(r)
    BY <1>6 DEF FetchAdd, OperatorOf, Typed, Part
  <1>7. CASE Writeback(r)
    BY <1>7 DEF Writeback, Typed, Part
  <1>8. CASE ScatterReturn(r)
    BY <1>8 DEF ScatterReturn, Typed, Part
  <1> QED
    BY <1>1, <1>2, <1>3, <1>4, <1>5, <1>6, <1>7, <1>8 DEF Acts

LEMMA AdjointUntouched ==
  ASSUME NEW q \in Rhs, AdjointInv(q), UNCHANGED <<design, sqrtWeights>>, UNCHANGED Part(q)
  PROVE  AdjointInv(q)'
  <1>1. /\ pc'[q] = pc[q] /\ product'[q] = product[q] /\ out'[q] = out[q] /\ pass'[q] = pass[q]
        /\ todo'[q] = todo[q] /\ scratch'[q] = scratch[q]
    BY DEF Part
  <1> QED
    BY <1>1, SameDesign DEF AdjointInv, Returned

LEMMA FreshCovers ==
  ASSUME DesignInv, Built, Typed, NEW r \in Rhs, AdjointInv(r)
  PROVE  Covers(Fresh(r)[r])
  <1> DEFINE S == {NDofs(design.terms[q]) : q \in DOMAIN design.terms}
  <1>1. CASE scratch[r] # <<>>
    BY <1>1 DEF AdjointInv, Fresh, OperatorOf
  <1>2. CASE scratch[r] = <<>>
    <2>1. DOMAIN (Fresh(r)[r]) = 0..Max(S) - 1
      BY <1>2 DEF Fresh, OperatorOf, Typed
    <2>2. S \in SUBSET Nat /\ IsFiniteSet(S)
      <3>1. \A q \in DOMAIN design.terms : NDofs(design.terms[q]) \in Nat
        <4> TAKE q \in DOMAIN design.terms
        <4>1. /\ Len(design.terms[q].columns) \in Nat \ {0}
              /\ design.terms[q].nLevels \in Nat \ {0}
          BY TermFacts
        <4> QED
          BY <4>1, ProductPositive DEF NDofs
      <3>2. IsFiniteSet(DOMAIN design.terms)
        <4>1. DOMAIN design.terms = 1..Len(design.terms) /\ Len(design.terms) \in Nat
          BY TermFacts DEF Contiguous
        <4> QED
          BY <4>1, FS_Interval
      <3>3. IsFiniteSet(S)
        <4> DEFINE f == [q \in DOMAIN design.terms |-> NDofs(design.terms[q])]
        <4>1. f \in Surjection(DOMAIN design.terms, S)
          BY DEF Surjection
        <4> HIDE DEF f, S
        <4> QED
          BY <3>2, <4>1, FS_Surjection
      <3> QED
        BY <3>1, <3>3
    <2>3. ASSUME NEW q \in DOMAIN design.terms
          PROVE  0..NDofs(design.terms[q]) - 1 \subseteq 0..Max(S) - 1
      <3>1. NDofs(design.terms[q]) \in S
        OBVIOUS
      <3> HIDE DEF S
      <3>2. Max(S) \in S /\ Max(S) >= NDofs(design.terms[q])
        BY <2>2, <3>1, MaxIn
      <3>3. Max(S) \in Nat /\ NDofs(design.terms[q]) \in Nat
        BY <2>2, <3>1, <3>2
      <3> QED
        BY <3>2, <3>3
    <2> QED
      BY <2>1, <2>3 DEF Covers
  <1> QED
    BY <1>1, <1>2

LEMMA StartAdjoint ==
  ASSUME DesignInv, Typed, NEW r \in Rhs, AdjointInv(r), Start(r)
  PROVE  AdjointInv(r)'
  <1>1. Built /\ UNCHANGED <<design, sqrtWeights>> /\ scratch' = Fresh(r)
    BY DEF Start
  <1>2. Covers(scratch'[r])
    BY <1>1, FreshCovers
  <1>3. PICK op \in Products, y \in ObsVectors :
          CASE op = "adjoint" -> ApplyAdjoint(r, y)
            [] op = "apply"   -> GatherStart(r, op, X, sqrtWeights, None)
            [] op = "demean"  -> GatherStart(r, op, X, None, y)
    BY DEF Start
  <1>4. \/ ApplyAdjoint(r, y)
        \/ \E scale, z : GatherStart(r, op, X, scale, z)
    BY <1>3, DesignOperatorAssumption
  <1>5. CASE ApplyAdjoint(r, y)
    <2> DEFINE pr == [op |-> "adjoint", u |-> PermuteIn(design, y), y |-> y]
               o == [d \in 0..design.nDofs - 1 |-> 0]
    <2>1. product'[r] = pr /\ out'[r] = o /\ pass'[r] = 1 /\ pc'[r] = "scatter"
      BY <1>5 DEF ApplyAdjoint, Typed
    <2>2. Scattered(pr, o, 1)
      <3>1. Reached(pr.u, o, 1)
        BY <1>1, StartReaches
      <3>2. 1 \in 1..Len(Passes) + 1
        BY <1>1, PassesAre
      <3>3. pr.y = y /\ pr.u = PermuteIn(design, y)
        OBVIOUS
      <3> HIDE DEF pr, o
      <3> QED
        BY <3>1, <3>2, <3>3 DEF Scattered
    <2> HIDE DEF pr, o
    <2> QED
      BY <1>1, <1>2, <2>1, <2>2, SameDesign DEF AdjointInv, Returned
  <1>6. CASE \E scale, z : GatherStart(r, op, X, scale, z)
    <2>1. pc'[r] = "gather"
      BY <1>6 DEF GatherStart, Typed
    <2> QED
      BY <1>1, <1>2, <2>1, SameDesign DEF AdjointInv, Returned
  <1> QED
    BY <1>4, <1>5, <1>6

LEMMA GatherAdjoint ==
  ASSUME Typed, NEW r \in Rhs, RhsInv(r), AdjointInv(r), Gather(r) \/ GatherReturn(r)
  PROVE  AdjointInv(r)'
  <1>1. /\ UNCHANGED <<design, sqrtWeights>> /\ scratch' = scratch /\ product' = product
        /\ pc[r] = "gather" /\ pc'[r] \in {"gather", "idle"}
    BY DEF Gather, GatherReturn, Typed
  <1>2. product[r].op \in {"apply", "demean"}
    BY <1>1 DEF RhsInv, Gathering
  <1> QED
    BY <1>1, <1>2, SameDesign DEF AdjointInv, Returned

LEMMA PrivateAdjoint ==
  ASSUME DesignInv, Typed, NEW r \in Rhs, AdjointInv(r), ScatterPrivate(r)
  PROVE  AdjointInv(r)'
  <1> DEFINE u == product[r].u
             o == out[r]
             m == pass[r]
             w == [d \in DOMAIN o |-> o[d] + PrivateAdd(Passes[m], u, d)]
  <1>1. /\ UNCHANGED <<design, sqrtWeights, pc, product, todo, scratch>>
        /\ pc[r] = "scatter" /\ m <= Len(Passes) /\ pass'[r] = m + 1
    BY DEF ScatterPrivate, Typed
  <1>2. out'[r] = w
    BY DEF ScatterPrivate, Current, PrivateAdd, Typed
  <1>3. Built /\ Covers(scratch[r]) /\ Scattered(product[r], o, m)
    BY <1>1 DEF AdjointInv
  <1>4. /\ m \in 1..Len(Passes) /\ m + 1 \in 1..Len(Passes) + 1
        /\ Reached(u, o, m) /\ ObsVector(u)
    <2>1. Len(Passes) \in Nat
      BY <1>3, PassesAre
    <2> QED
      BY <1>1, <1>3, <2>1, VectorOf DEF Scattered
  <1>5. Reached(u, w, m + 1)
    BY <1>3, <1>4, PrivateReaches
  <1> HIDE DEF w
  <1>6. Scattered(product[r], w, m + 1)
    BY <1>3, <1>4, <1>5 DEF Scattered
  <1> QED
    BY <1>1, <1>2, <1>3, <1>6, SameDesign DEF AdjointInv, Returned

LEMMA SeedAdjoint ==
  ASSUME DesignInv, Typed, NEW r \in Rhs, AdjointInv(r), Seed(r)
  PROVE  AdjointInv(r)'
  <1> DEFINE u == product[r].u
             o == out[r]
             m == pass[r]
             p == Passes[m]
             sc == scratch[r]
             w == [s \in DOMAIN sc |-> IF s < Block(p) THEN o[p.base + s] ELSE sc[s]]
  <1>1. /\ UNCHANGED <<design, sqrtWeights, product, out, pass>>
        /\ pc[r] = "scatter" /\ m <= Len(Passes) /\ pc'[r] = "join" /\ todo'[r] = Tasks(p, u)
    BY DEF Seed, Current, Typed
  <1>2. scratch'[r] = w
    BY DEF Seed, Seeded, OperatorOf, Current, Typed
  <1>3. Built /\ Covers(sc) /\ Scattered(product[r], o, m)
    BY <1>1 DEF AdjointInv
  <1>4. m \in 1..Len(Passes) /\ Reached(u, o, m) /\ ObsVector(u)
    <2>1. Len(Passes) \in Nat
      BY <1>3, PassesAre
    <2> QED
      BY <1>1, <1>3, <2>1, VectorOf DEF Scattered
  <1>5. Joining(p, u, Tasks(p, u), w)
    BY <1>3, <1>4, SeedJoins
  <1>6. Covers(w)
    BY <1>3 DEF Covers
  <1> HIDE DEF w, p, u
  <1>7. Joining(Passes[pass[r]], product[r].u, todo'[r], scratch'[r])
    BY <1>1, <1>2, <1>5 DEF p, u
  <1> QED
    BY <1>1, <1>2, <1>3, <1>4, <1>6, <1>7, SameDesign DEF AdjointInv, Returned

LEMMA FetchAdjoint ==
  ASSUME DesignInv, Typed, NEW r \in Rhs, AdjointInv(r), FetchAdd(r)
  PROVE  AdjointInv(r)'
  <1> DEFINE u == product[r].u
             p == Passes[pass[r]]
             sc == scratch[r]
             td == todo[r]
  <1>1. /\ UNCHANGED <<design, sqrtWeights, pc, product, out, pass>> /\ pc[r] = "join"
    BY DEF FetchAdd
  <1>2. PICK t \in DOMAIN td :
          /\ td[t] # <<>>
          /\ scratch'[r] = [sc EXCEPT ![Head(td[t]).slot] = @ + Head(td[t]).value]
          /\ todo'[r] = [td EXCEPT ![t] = Tail(@)]
    BY DEF FetchAdd, OperatorOf, Typed
  <1>3. Built /\ Covers(sc) /\ Scattered(product[r], out[r], pass[r])
        /\ pass[r] \in 1..Len(Passes) /\ Joining(p, u, td, sc)
    BY <1>1 DEF AdjointInv
  <1>4. IsPass(p)
    BY <1>3, PassesAre
  <1>5. Joining(p, u, todo'[r], scratch'[r])
    BY <1>2, <1>3, <1>4, FetchJoins
  <1>6. Covers(scratch'[r])
    BY <1>2, <1>3 DEF Covers
  <1> QED
    BY <1>1, <1>3, <1>5, <1>6, SameDesign DEF AdjointInv, Returned

LEMMA WritebackAdjoint ==
  ASSUME DesignInv, Typed, NEW r \in Rhs, AdjointInv(r), Writeback(r)
  PROVE  AdjointInv(r)'
  <1> DEFINE u == product[r].u
             o == out[r]
             m == pass[r]
             p == Passes[m]
             sc == scratch[r]
             w == [d \in DOMAIN o |-> IF d - p.base \in 0..Block(p) - 1 THEN sc[d - p.base] ELSE o[d]]
  <1>1. /\ UNCHANGED <<design, sqrtWeights, product, todo, scratch>>
        /\ pc[r] = "join" /\ pc'[r] = "scatter" /\ pass'[r] = m + 1
        /\ \A t \in DOMAIN todo[r] : todo[r][t] = <<>>
    BY DEF Writeback, Typed
  <1>2. out'[r] = w
    BY DEF Writeback, OperatorOf, Current, Typed
  <1>3. Built /\ Covers(sc) /\ Scattered(product[r], o, m)
        /\ m \in 1..Len(Passes) /\ Joining(p, u, todo[r], sc)
    BY <1>1 DEF AdjointInv
  <1>4. m + 1 \in 1..Len(Passes) + 1 /\ Reached(u, o, m) /\ ObsVector(u)
    <2>1. Len(Passes) \in Nat
      BY <1>3, PassesAre
    <2> QED
      BY <1>3, <2>1, VectorOf DEF Scattered
  <1> HIDE DEF u, o, m, sc
  <1>5. Reached(u, w, m + 1)
    <2> DEFINE td == todo[r]
    <2>1. Built /\ Joining(Passes[m], u, td, sc) /\ m \in 1..Len(Passes)
          /\ \A t \in DOMAIN td : td[t] = <<>>
      BY <1>1, <1>3
    <2> HIDE DEF td
    <2> QED
      BY SMTT(20), <1>4, <2>1, WritebackReaches
  <1> USE DEF u, o, m, sc
  <1> HIDE DEF w
  <1>6. Scattered(product[r], w, m + 1)
    BY <1>3, <1>4, <1>5 DEF Scattered
  <1> QED
    BY <1>1, <1>2, <1>3, <1>6, SameDesign DEF AdjointInv, Returned

LEMMA ReturnAdjoint ==
  ASSUME DesignInv, Typed, NEW r \in Rhs, AdjointInv(r), ScatterReturn(r)
  PROVE  AdjointInv(r)'
  <1>1. /\ UNCHANGED <<design, sqrtWeights, product, out, pass, todo, scratch>>
        /\ pc[r] = "scatter" /\ pc'[r] = "idle" /\ pass[r] > Len(Passes)
    BY DEF ScatterReturn, Typed
  <1>2. Built /\ Covers(scratch[r]) /\ Scattered(product[r], out[r], pass[r])
    BY <1>1 DEF AdjointInv
  <1>3. pass[r] = Len(Passes) + 1
    <2>1. Len(Passes) \in Nat /\ pass[r] \in 1..Len(Passes) + 1
      BY <1>2, PassesAre DEF Scattered
    <2> QED
      BY <1>1, <2>1
  <1> QED
    BY <1>1, <1>2, <1>3, SameDesign DEF AdjointInv, Returned

AdjointsInv == Typed /\ \A r \in Rhs : AdjointInv(r)

LEMMA AdjointStep == DesignInv /\ GatherInv /\ AdjointsInv /\ [Next]_vars => AdjointsInv'
  <1> SUFFICES ASSUME DesignInv, GatherInv, AdjointsInv, [Next]_vars PROVE AdjointsInv'
    OBVIOUS
  <1>1. CASE New
    <2>1. ~Built /\ UNCHANGED rhsVars
      BY <1>1 DEF New, Built
    <2>2. ASSUME NEW r \in Rhs PROVE AdjointInv(r)'
      <3>1. scratch[r] = <<>> /\ pc[r] \notin {"scatter", "join"} /\ ~Returned(r, "adjoint")
        BY <2>1 DEF AdjointsInv, AdjointInv
      <3>2. scratch'[r] = scratch[r] /\ pc'[r] = pc[r] /\ product'[r] = product[r]
        BY <2>1 DEF rhsVars
      <3>3. scratch'[r] = <<>> /\ pc'[r] \notin {"scatter", "join"} /\ pc'[r] # "join"
        BY <3>1, <3>2
      <3>4. ~Returned(r, "adjoint")'
        BY <3>1, <3>2 DEF Returned
      <3> QED
        BY <3>3, <3>4 DEF AdjointInv
    <2>3. Typed'
      BY <2>1 DEF rhsVars, AdjointsInv, Typed
    <2> QED
      BY <2>2, <2>3 DEF AdjointsInv
  <1>2. CASE UNCHANGED vars
    <2>1. UNCHANGED <<design, sqrtWeights>> /\ Typed' /\ \A r \in Rhs : UNCHANGED Part(r)
      BY <1>2 DEF vars, rhsVars, AdjointsInv, Typed, Part
    <2> QED
      BY <2>1, AdjointUntouched DEF AdjointsInv
  <1>3. ASSUME NEW r \in Rhs, Acts(r) PROVE AdjointsInv'
    <2>1. Typed /\ AdjointInv(r) /\ RhsInv(r) /\ \A q \in Rhs : AdjointInv(q)
      BY DEF AdjointsInv, GatherInv
    <2>2. /\ UNCHANGED <<input, design, sqrtWeights>> /\ Typed'
          /\ \A q \in Rhs : q # r => UNCHANGED Part(q)
      BY <1>3, <2>1, OnlyOwnPart
    <2>3. AdjointInv(r)'
      BY <1>3, <2>1, StartAdjoint, GatherAdjoint, PrivateAdjoint, SeedAdjoint, FetchAdjoint,
         WritebackAdjoint, ReturnAdjoint DEF Acts
    <2>4. ASSUME NEW q \in Rhs, q # r PROVE AdjointInv(q)'
      BY <2>1, <2>2, <2>4, AdjointUntouched
    <2> QED
      BY <2>2, <2>3, <2>4 DEF AdjointsInv
  <1> QED
    BY <1>1, <1>2, <1>3 DEF Next, Acts

-----------------------------------------------------------------------------
(* What a scatter owes its caller. *)

(* What the caller expects of a coefficient. *)
CallerSum(q, c, level, y) ==
  SumFunction([i \in {k \in CallerRows : CallerLevel(q, k) = level} |->
                 CallerValue(q, c, i) * CallerWeight(i) * y[i]])

(* A level's sum in the design's order is its sum in the caller's. *)
LEMMA DueIsCallers ==
  ASSUME DesignInv, Built, NEW y \in ObsVectors, NEW p, NEW q \in DOMAIN design.terms, NEW k \in Nat,
         PassAt(p, q, k), NEW e \in DOMAIN p.columns, NEW level \in LevelsOf(p)
  PROVE  DueAt(p, PermuteIn(design, y), e, level) = CallerSum(q, k + e, level, y)
  <1> DEFINE u == PermuteIn(design, y)
             n == design.nObs
             h == [i \in 1..n |-> OriginalOf(design, i)]
             S == {i \in Rows : LevelIn(p, i) = level}
             K == {j \in CallerRows : CallerLevel(q, j) = level}
             f == V(p, u, e)
             g == [i \in K |-> CallerValue(q, k + e, i) * CallerWeight(i) * y[i]]
  <1>1. /\ input \in Inputs /\ Builds(design, input.frame, input.structure)
        /\ WeightsValid(input.weights, design.nObs)
        /\ sqrtWeights = InternalWeights(design, input.weights)
    BY DEF DesignInv
  <1>2. n \in Nat \ {0} /\ Rows = 1..n /\ CallerRows = 1..n /\ q \in DOMAIN input.frame.levels
    BY <1>1, TermFacts DEF Builds, CallerRows
  <1>3. /\ \A i \in 1..n : h[i] \in 1..n
        /\ \A i, j \in 1..n : h[i] = h[j] => i = j
        /\ \A j \in 1..n : \E i \in 1..n : h[i] = j
    <2>1. /\ \A i \in 1..n : OriginalOf(design, i) \in 1..n
          /\ \A i, j \in 1..n : OriginalOf(design, i) = OriginalOf(design, j) => i = j
          /\ \A i \in 1..n : \E j \in 1..n : OriginalOf(design, j) = i
      BY <1>1, DesignRows
    <2>2. \A i \in 1..n : h[i] = OriginalOf(design, i)
      OBVIOUS
    <2> HIDE DEF h, n
    <2> QED
      BY <2>1, <2>2
  <1>4. IsPass(p) /\ ObsVector(u) /\ p.term = q /\ k + e \in DOMAIN design.terms[q].columns
        /\ p.columns[e] = design.terms[q].columns[k + e]
    <2>1. e \in 1..Len(p.columns) /\ Len(p.columns) \in Nat
          /\ k + Len(p.columns) <= Len(design.terms[q].columns)
          /\ p.columns[e] = design.terms[q].columns[k + e]
      BY DEF PassAt
    <2>2. DOMAIN design.terms[q].columns = 1..Len(design.terms[q].columns)
          /\ Len(design.terms[q].columns) \in Nat
      BY TermFacts
    <2>3. k + e \in 1..Len(design.terms[q].columns)
      BY <2>1, <2>2
    <2> QED
      BY <2>1, <2>2, <2>3, VectorOf DEF IsPass, PassAt
  <1>5. \A i \in 1..n : LevelIn(p, i) = CallerLevel(q, h[i])
    <2>1. \A i \in 1..design.nObs :
            design.frame.levels[q][i] = input.frame.levels[q][OriginalOf(design, i)]
      BY <1>1, <1>2, DesignRows
    <2> QED
      BY <1>4, <2>1 DEF LevelIn, CallerLevel
  <1>6. ASSUME NEW i \in 1..n
        PROVE  f[i] = CallerValue(q, k + e, h[i]) * CallerWeight(h[i]) * y[h[i]]
    <2>1. f[i] = Loading(design.frame, p.columns[e], i) * Scale(sqrtWeights, i) * u[i]
      BY <1>2 DEF V, ValueIn
    <2>2. Loading(design.frame, design.terms[q].columns[k + e], i) = CallerValue(q, k + e, h[i])
      BY <1>2, <1>4, LoadingType DEF CallerValue
    <2>3. Scale(sqrtWeights, i) = CallerWeight(h[i])
      BY <1>1, WeightsAreCallers DEF CallerWeight, WeightOf
    <2>4. u[i] = y[h[i]]
      BY <1>2, VectorOf
    <2> QED
      BY <1>4, <2>1, <2>2, <2>3, <2>4
  <1>7. \A i \in Rows : f[i] \in Int
    BY <1>4, ValueType
  <1>8. IsFiniteSet(S) /\ IsFiniteSet(K)
    <2>1. IsFiniteSet(Rows) /\ S \in SUBSET Rows /\ K \in SUBSET Rows
      BY <1>2, TermFacts
    <2> HIDE DEF S, K
    <2> QED
      BY <2>1, FS_Subset
  <1>9. /\ \A i \in S : f[i] \in Int /\ h[i] \in K /\ g[h[i]] = f[i]
        /\ \A i, j \in S : h[i] = h[j] => i = j
        /\ \A j \in K : \E i \in S : h[i] = j
    <2> HIDE DEF h, f
    <2>1. \A i \in S : i \in 1..n /\ f[i] \in Int /\ h[i] \in K
      BY <1>2, <1>3, <1>5, <1>7
    <2>2. \A i \in S : g[h[i]] = f[i]
      BY <1>6, <2>1
    <2>3. \A i, j \in S : h[i] = h[j] => i = j
      BY <1>3, <2>1
    <2>4. \A j \in K : \E i \in S : h[i] = j
      BY <1>2, <1>3, <1>5
    <2> QED
      BY <2>1, <2>2, <2>3, <2>4
  <1>10. DueAt(p, u, e, level) = SumFunctionOnSet(f, S) /\ SumFunction(g) = SumFunctionOnSet(g, K)
    BY DEF DueAt, SumFunction
  <1> HIDE DEF S, K, f, g, h
  <1>11. SumFunctionOnSet(g, K) = SumFunctionOnSet(f, S)
    BY ONLY <1>8, <1>9, SumRename
  <1>12. CallerSum(q, k + e, level, y) = SumFunction(g)
    BY DEF CallerSum, g, K
  <1> QED
    BY <1>10, <1>11, <1>12

(* apply_adjoint returns the sums of the caller's rows, at the caller's    *)
(* indices, for every input, split of the rows, strategy and interleaving  *)
(* of the tasks of all right-hand sides.                                   *)
THEOREM AdjointsAreCallers == Spec => []AdjointInCallerOrder
  <1>1. ASSUME Init PROVE AdjointsInv
    <2>1. Typed
      BY <1>1 DEF Init, Typed
    <2>2. ASSUME NEW r \in Rhs PROVE AdjointInv(r)
      <3>1. /\ scratch[r] = <<>> /\ product[r] = None
            /\ pc[r] \notin {"scatter", "join"} /\ pc[r] # "join"
        BY <1>1 DEF Init
      <3>2. ~Returned(r, "adjoint")
        BY <3>1 DEF Returned
      <3> QED
        BY <3>1, <3>2 DEF AdjointInv
    <2> QED
      BY <2>1, <2>2 DEF AdjointsInv
  <1>2. Init => GatherInv
    BY DEF Init, GatherInv, RhsInv
  <1>3. ASSUME DesignInv, AdjointsInv PROVE AdjointInCallerOrder
    <2> SUFFICES ASSUME NEW r \in Rhs, Returned(r, "adjoint"),
                        NEW q \in DOMAIN design.terms, NEW c \in DOMAIN design.terms[q].columns,
                        NEW level \in 0..design.terms[q].nLevels - 1
                 PROVE  out[r][Index(design.terms[q], c, level)] = CallerSum(q, c, level, product[r].y)
      BY DEF AdjointInCallerOrder, CallerSum
    <2> DEFINE y == product[r].y
               u == product[r].u
    <2>1. Built /\ y \in ObsVectors /\ u = PermuteIn(design, y)
          /\ Reached(u, out[r], Len(Passes) + 1)
      BY <1>3 DEF AdjointsInv, AdjointInv, Scattered
    <2>2. Len(Passes) \in Nat /\ Tiles(Passes, Len(design.terms))
          /\ DOMAIN design.terms = 1..Len(design.terms)
      BY <1>3, <2>1, PassesTile, TermFacts DEF Contiguous
    <2>3. PICK j \in 1..Len(Passes), k \in Nat : \E e \in DOMAIN Passes[j].columns :
            PassAt(Passes[j], q, k) /\ k + e = c
      BY <2>2 DEF Tiles
    <2>4. PICK e \in DOMAIN Passes[j].columns : PassAt(Passes[j], q, k) /\ k + e = c
      BY <2>3
    <2> DEFINE p == Passes[j]
    <2>5. level \in LevelsOf(p)
      BY <2>4 DEF LevelsOf, PassAt
    <2>6. out[r][Where(p, e, level)] = DueAt(p, u, e, level)
      <3>1. j < Len(Passes) + 1
        BY <2>2
      <3>2. Done(p, u, out[r])
        BY <2>1, <3>1 DEF Reached
      <3> QED
        BY <2>5, <3>2 DEF Done
    <2>7. Where(p, e, level) = Index(design.terms[q], c, level)
      <3> DEFINE o == design.terms[q].offset
                 n == design.terms[q].nLevels
      <3>1. p.base = o + k * n /\ p.term = q /\ e \in Nat \ {0}
        BY <2>4 DEF PassAt
      <3>2. o \in Nat /\ n \in Nat
        BY <1>3, <2>1, TermFacts
      <3>3. Where(p, e, level) = (o + k * n) + ((e - 1) * n + level)
        BY <3>1 DEF Where, Slot
      <3>4. Index(design.terms[q], c, level) = o + (k + e - 1) * n + level
        BY <2>4, <3>1 DEF Index
      <3> HIDE DEF o, n, p
      <3>5. k * n + (e - 1) * n = (k + e - 1) * n
        BY <3>1, <3>2
      <3>6. k * n \in Nat /\ (e - 1) * n \in Nat /\ level \in Nat
        <4>1. e - 1 \in Nat
          BY <3>1
        <4> QED
          BY <3>2, <4>1
      <3> QED
        BY <3>2, <3>3, <3>4, <3>5, <3>6
    <2> HIDE DEF y, u, p
    <2>8. DueAt(p, u, e, level) = CallerSum(q, k + e, level, y)
      <3>1. PassAt(p, q, k) /\ e \in DOMAIN p.columns
        BY <2>4 DEF p
      <3>2. DueAt(p, PermuteIn(design, y), e, level) = CallerSum(q, k + e, level, y)
        BY ZenonT(40), <1>3, <2>1, <2>5, <3>1, DueIsCallers
      <3> QED
        BY <2>1, <3>2
    <2> QED
      BY <2>4, <2>6, <2>7, <2>8 DEF y
  <1> QED
    BY <1>1, <1>2, <1>3, AdjointStep, GatherStep, DesignAlways, PTL DEF Spec

===============================================================================

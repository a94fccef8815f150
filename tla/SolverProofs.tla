----------------------------- MODULE SolverProofs -----------------------------
(***************************************************************************)
(* A batch of right-hand sides is answered in whole or not at all          *)
(* (Solver::solve_batch of crates/within/src/solver.rs), and what          *)
(* Design::new lowers a caller's effects to is what Design::build expects. *)
(***************************************************************************)
EXTENDS Solver, DesignProofs

-----------------------------------------------------------------------------

(* Sequences of one length joined. *)
LEMMA FlattenEqual ==
  ASSUME NEW n \in Nat, NEW l \in Nat, NEW s, s = [r \in 1..n |-> s[r]],
         \A r \in 1..n : s[r] = [k \in 1..l |-> s[r][k]]
  PROVE  Len(FlattenSeq(s)) = n * l
  <1> DEFINE U == {s[r][k] : r \in 1..n, k \in 1..l}
  <1>1. Len(s) = n
    BY LenOfFunction
  <1>2. ASSUME NEW r \in 1..n PROVE s[r] \in Seq(U) /\ Len(s[r]) = l
    <2>1. Len(s[r]) = l
      BY LenOfFunction
    <2>2. \A k \in 1..l : s[r][k] \in U
      OBVIOUS
    <2> HIDE DEF U
    <2>3. s[r] \in [1..l -> U]
      BY <2>2
    <2> QED
      BY <2>1, <2>3
  <1> HIDE DEF U
  <1>3. CASE n = 0
    <2>1. FlattenSeq(s) = s
      BY <1>1, <1>3 DEF FlattenSeq
    <2>2. 0 * l = 0
      OBVIOUS
    <2> QED
      BY <1>1, <1>3, <2>1, <2>2
  <1>4. CASE n # 0
    <2>1. PICK g : Joins(g, s, U, n) /\ FlattenSeq(s) = g[n]
      <3>1. n \in Nat \ {0} /\ \A r \in 1..n : s[r] \in Seq(U)
        BY <1>2, <1>4
      <3> QED
        BY ONLY <1>1, <3>1, FlattenJoins
    <2> DEFINE T == {m \in Nat : m + 1 <= n => Len(g[m + 1]) = (m + 1) * l}
    <2>2. 0 \in T
      <3>1. 0 + 1 = 1 /\ 1 * l = l /\ 1 \in 1..n
        BY <1>4
      <3>2. Len(g[1]) = l
        BY <1>2, <2>1, <3>1 DEF Joins
      <3> QED
        BY <3>1, <3>2
    <2>3. ASSUME NEW m \in T PROVE m + 1 \in T
      <3>1. m \in Nat /\ (m + 1 <= n => Len(g[m + 1]) = (m + 1) * l)
        OBVIOUS
      <3>2. ASSUME (m + 1) + 1 <= n PROVE Len(g[(m + 1) + 1]) = ((m + 1) + 1) * l
        <4>1. /\ (m + 1) + 1 \in 1..n /\ (m + 1) + 1 # 1 /\ ((m + 1) + 1) - 1 = m + 1
              /\ m + 1 <= n /\ m + 1 \in 1..n
          BY <3>1, <3>2
        <4>2. g[(m + 1) + 1] = g[m + 1] \o s[(m + 1) + 1] /\ g[m + 1] \in Seq(U)
          BY <2>1, <4>1 DEF Joins
        <4>3. s[(m + 1) + 1] \in Seq(U) /\ Len(s[(m + 1) + 1]) = l
          BY <1>2, <4>1
        <4>4. Len(g[(m + 1) + 1]) = (m + 1) * l + l
          <5>1. Len(g[m + 1] \o s[(m + 1) + 1]) = Len(g[m + 1]) + Len(s[(m + 1) + 1])
            BY <4>2, <4>3, Concat
          <5> QED
            BY <3>1, <4>1, <4>2, <4>3, <5>1
        <4>5. \A a \in Nat : a * l + l = (a + 1) * l
          OBVIOUS
        <4> QED
          BY <3>1, <4>1, <4>4, <4>5
      <3> QED
        BY <3>1, <3>2
    <2>4. T = Nat
      <3>1. T \in SUBSET Nat
        OBVIOUS
      <3> HIDE DEF T
      <3> QED
        BY <2>2, <2>3, <3>1, SetOfNaturals
    <2>5. n - 1 \in T /\ (n - 1) + 1 = n
      BY <1>4, <2>4
    <2>6. Len(g[n]) = n * l
      BY <2>5
    <2> QED
      BY <2>1, <2>6
  <1> QED
    BY <1>3, <1>4

-----------------------------------------------------------------------------
(* Design::new. *)

(* What Effect::new lets through. *)
Accepted(e) ==
  /\ e.levels \in Seq(Nat) /\ e.intercept \in BOOLEAN /\ e.slopes \in Seq(Seq(Int))
  /\ e.intercept \/ e.slopes # <<>>

(* After m effects. *)
LoweredTo(s, m) ==
  /\ s.levels \in Seq(Seq(Nat)) /\ Len(s.levels) = m
  /\ s.loadings \in Seq(Seq(Int))
  /\ s.structure \in Seq(Seq(0..Len(s.loadings)) \ {<<>>}) /\ Len(s.structure) = m

LEMMA WiderSeq == ASSUME NEW A, NEW B, A \subseteq B PROVE Seq(A) \subseteq Seq(B)
  OBVIOUS

LEMMA Appended ==
  ASSUME NEW A, NEW s \in Seq(A), NEW x \in A
  PROVE  Append(s, x) \in Seq(A) /\ Len(Append(s, x)) = Len(s) + 1
  OBVIOUS

LEMMA ColumnsLoad ==
  ASSUME NEW e, Accepted(e), NEW loadings \in Seq(Seq(Int))
  PROVE  Columns(e, loadings) \in Seq(0..Len(loadings \o e.slopes)) \ {<<>>}
  <1> DEFINE n == Len(loadings)
             v == Len(e.slopes)
             zs == [j \in DOMAIN e.slopes |-> LoadingOf(loadings, e.slopes, j)]
             C == 0..n + v
  <1>1. n \in Nat /\ v \in Nat /\ DOMAIN e.slopes = 1..v /\ (e.slopes # <<>> => v # 0)
    BY DEF Accepted
  <1>2. Len(loadings \o e.slopes) = n + v
    <2>1. e.slopes \in Seq(Seq(Int))
      BY DEF Accepted
    <2> QED
      BY <2>1, Concat
  <1>3. zs \in Seq(C) /\ Len(zs) = v
    <2>1. \A j \in 1..v : n + j \in C
      BY <1>1
    <2>2. zs = [j \in 1..v |-> n + j]
      BY <1>1 DEF LoadingOf
    <2> HIDE DEF C, zs, n, v
    <2>3. zs \in [1..v -> C]
      BY <2>1, <2>2
    <2>4. zs \in Seq(C)
      BY <1>1, <2>3
    <2>5. Len(zs) = v
      BY <1>1, <2>3, <2>4
    <2> QED
      BY <2>4, <2>5
  <1>4. <<Constant>> \in Seq(C) /\ Len(<<Constant>>) = 1
    <2>1. 0 \in C
      BY <1>1
    <2> HIDE DEF C
    <2> QED
      BY <2>1 DEF Constant
  <1>5. Columns(e, loadings) = (IF e.intercept THEN <<Constant>> ELSE <<>>) \o zs
    BY DEF Columns
  <1>6. <<>> \in Seq(C) /\ Len(<<>>) = 0
    OBVIOUS
  <1> HIDE DEF C, zs, n, v
  <1>7. CASE e.intercept
    <2>1. <<Constant>> \o zs \in Seq(C) /\ Len(<<Constant>> \o zs) = 1 + v
      BY <1>3, <1>4, Concat
    <2>2. Len(<<Constant>> \o zs) # 0
      BY <1>1, <2>1
    <2> QED
      BY <1>2, <1>5, <1>6, <1>7, <2>1, <2>2 DEF C
  <1>8. CASE ~e.intercept
    <2>1. <<>> \o zs \in Seq(C) /\ Len(<<>> \o zs) = 0 + v
      BY <1>3, <1>6, Concat
    <2>2. v # 0
      BY <1>1, <1>8 DEF Accepted
    <2>3. Len(<<>> \o zs) # 0
      BY <1>1, <2>1, <2>2
    <2> QED
      BY <1>2, <1>5, <1>6, <1>8, <2>1, <2>3 DEF C
  <1> QED
    BY <1>7, <1>8

LEMMA EffectLowers ==
  ASSUME NEW e, Accepted(e), NEW m \in Nat, NEW s, LoweredTo(s, m)
  PROVE  LoweredTo(WithEffect(s, e), m + 1)
  <1> DEFINE S == Seq(0..Len(s.loadings)) \ {<<>>}
             W == Seq(0..Len(s.loadings \o e.slopes)) \ {<<>>}
  <1>1. e.slopes \in Seq(Seq(Int)) /\ s.loadings \in Seq(Seq(Int)) /\ e.levels \in Seq(Nat)
    BY DEF Accepted, LoweredTo
  <1>2. /\ s.loadings \o e.slopes \in Seq(Seq(Int))
        /\ Len(s.loadings \o e.slopes) = Len(s.loadings) + Len(e.slopes)
    BY <1>1, Concat
  <1>3. 0..Len(s.loadings) \subseteq 0..Len(s.loadings \o e.slopes)
    <2>1. Len(s.loadings) \in Nat /\ Len(e.slopes) \in Nat
      BY <1>1
    <2>2. \A a, b \in Nat : 0..a \subseteq 0..a + b
      OBVIOUS
    <2> QED
      BY <1>2, <2>1, <2>2
  <1>4. S \subseteq W
    <2> DEFINE A == 0..Len(s.loadings)
               B == 0..Len(s.loadings \o e.slopes)
    <2> HIDE DEF A, B
    <2>1. Seq(A) \subseteq Seq(B)
      <3>1. A \subseteq B
        BY <1>3 DEF A, B
      <3> QED
        BY <3>1, WiderSeq
    <2> USE DEF A, B
    <2> QED
      BY <2>1
  <1>5. Columns(e, s.loadings) \in W
    BY <1>1, ColumnsLoad
  <1>6. s.structure \in Seq(S) /\ Len(s.structure) = m
    BY DEF LoweredTo
  <1> HIDE DEF S, W
  <1>7. s.structure \in Seq(W)
    BY <1>4, <1>6, WiderSeq
  <1>8. /\ Append(s.structure, Columns(e, s.loadings)) \in Seq(W)
        /\ Len(Append(s.structure, Columns(e, s.loadings))) = m + 1
    BY <1>5, <1>6, <1>7, Appended
  <1>9. Append(s.levels, e.levels) \in Seq(Seq(Nat)) /\ Len(Append(s.levels, e.levels)) = m + 1
    <2>1. s.levels \in Seq(Seq(Nat)) /\ Len(s.levels) = m
      BY DEF LoweredTo
    <2> QED
      BY <1>1, <2>1, Appended
  <1> DEFINE w == WithEffect(s, e)
  <1>10. /\ w.levels = Append(s.levels, e.levels)
         /\ w.loadings = s.loadings \o e.slopes
         /\ w.structure = Append(s.structure, Columns(e, s.loadings))
    BY DEF WithEffect
  <1> HIDE DEF w
  <1>11. LoweredTo(w, m + 1)
    BY <1>2, <1>8, <1>9, <1>10 DEF LoweredTo, W
  <1> QED
    BY <1>11 DEF w

NothingLowered == [levels |-> <<>>, loadings |-> <<>>, structure |-> <<>>]

LoweringSteps(it, effects) ==
  it = [s \in SUBSET DOMAIN effects |->
          IF s = {} THEN NothingLowered ELSE WithEffect(it[s \ {Max(s)}], effects[Max(s)])]

LEMMA LoweringExists ==
  ASSUME NEW n \in Nat, NEW effects, DOMAIN effects = 1..n, \A q \in 1..n : Accepted(effects[q])
  PROVE  \E it : LoweringSteps(it, effects) /\ Lowered(effects) = it[1..n]
  <1> DEFINE V == {s \in [levels : Seq(Seq(Nat)), loadings : Seq(Seq(Int)), structure : Seq(Seq(Nat))] :
                     \E m \in Nat : LoweredTo(s, m)}
             Step == [p \in V \X (1..n) |-> WithEffect(p[1], effects[p[2]])]
  <1>1. \A s, m : m \in Nat /\ LoweredTo(s, m) /\ DOMAIN s = {"levels", "loadings", "structure"}
                    /\ s = [levels |-> s.levels, loadings |-> s.loadings, structure |-> s.structure]
                  => s \in V
    <2> SUFFICES ASSUME NEW s, NEW m \in Nat, LoweredTo(s, m),
                        s = [levels |-> s.levels, loadings |-> s.loadings, structure |-> s.structure]
                 PROVE  s \in V
      OBVIOUS
    <2>1. Seq(0..Len(s.loadings)) \ {<<>>} \subseteq Seq(Nat)
      <3>1. 0..Len(s.loadings) \subseteq Nat
        OBVIOUS
      <3> QED
        BY <3>1, WiderSeq
    <2>2. s.structure \in Seq(Seq(Nat))
      BY <2>1, WiderSeq DEF LoweredTo
    <2>3. s.levels \in Seq(Seq(Nat)) /\ s.loadings \in Seq(Seq(Int))
      BY DEF LoweredTo
    <2> QED
      BY <2>2, <2>3
  <1>2. NothingLowered \in V
    <2>1. LoweredTo(NothingLowered, 0)
      BY DEF LoweredTo, NothingLowered
    <2> QED
      BY <1>1, <2>1 DEF NothingLowered
  <1>3. ASSUME NEW t \in V, NEW q \in 1..n PROVE WithEffect(t, effects[q]) \in V
    <2>1. PICK m \in Nat : LoweredTo(t, m)
      OBVIOUS
    <2>2. LoweredTo(WithEffect(t, effects[q]), m + 1)
      BY <2>1, EffectLowers
    <2>3. m + 1 \in Nat
      OBVIOUS
    <2> DEFINE w == WithEffect(t, effects[q])
    <2>4. w = [levels |-> w.levels, loadings |-> w.loadings, structure |-> w.structure]
          /\ DOMAIN w = {"levels", "loadings", "structure"}
      BY DEF WithEffect
    <2> HIDE DEF w, V
    <2>5. LoweredTo(w, m + 1)
      BY <2>2 DEF w
    <2>6. w \in V
      BY <1>1, <2>3, <2>4, <2>5
    <2> QED
      BY <2>6 DEF w
  <1>4. Step \in [V \X (1..n) -> V]
    <2> HIDE DEF V
    <2> QED
      BY <1>3
  <1>5. PICK g \in [SUBSET (1..n) -> V] : Folding(g, n, NothingLowered, Step)
    <2> HIDE DEF Step, V
    <2> QED
      BY <1>2, <1>4, FoldUp
  <1>6. LoweringSteps(g, effects)
    <2>1. ASSUME NEW s \in SUBSET (1..n)
          PROVE  g[s] = IF s = {} THEN NothingLowered
                        ELSE WithEffect(g[s \ {Max(s)}], effects[Max(s)])
      <3>1. CASE s = {}
        BY <1>5, <3>1 DEF Folding
      <3>2. CASE s # {}
        <4>1. Max(s) \in s
          <5>1. IsFiniteSet(1..n)
            BY FS_Interval
          <5>2. IsFiniteSet(s)
            BY <5>1, FS_Subset
          <5>3. s \in SUBSET Nat
            OBVIOUS
          <5> QED
            BY <3>2, <5>2, <5>3, MaxIn
        <4>2. g[s \ {Max(s)}] \in V /\ Max(s) \in 1..n
          BY <4>1
        <4>3. g[s] = Step[<<g[s \ {Max(s)}], Max(s)>>]
          <5> HIDE DEF Step, V
          <5> QED
            BY <1>5, <3>2 DEF Folding
        <4>4. Step[<<g[s \ {Max(s)}], Max(s)>>] = WithEffect(g[s \ {Max(s)}], effects[Max(s)])
          <5> HIDE DEF V
          <5> QED
            BY <4>2
        <4> QED
          BY <3>2, <4>3, <4>4
      <3> QED
        BY <3>1, <3>2
    <2>2. g = [s \in SUBSET (1..n) |->
                 IF s = {} THEN NothingLowered
                 ELSE WithEffect(g[s \ {Max(s)}], effects[Max(s)])]
      <3> HIDE DEF V
      <3> QED
        BY <2>1
    <2> QED
      BY <2>2 DEF LoweringSteps
  <1> DEFINE it == CHOOSE h : LoweringSteps(h, effects)
  <1>7. LoweringSteps(it, effects)
    BY <1>6
  <1>8. Lowered(effects) = it[1..n]
    BY DEF Lowered, FoldLeft, MapThenFoldSet, LoweringSteps, NothingLowered
  <1> HIDE DEF it
  <1> QED
    BY <1>7, <1>8

(* A term for each effect, its columns the loadings it pushed. *)
LEMMA LoweringSound ==
  ASSUME NEW n \in Nat, NEW effects, DOMAIN effects = 1..n, \A q \in 1..n : Accepted(effects[q])
  PROVE  LoweredTo(Lowered(effects), n)
  <1>1. PICK it : LoweringSteps(it, effects) /\ Lowered(effects) = it[1..n]
    BY LoweringExists
  <1> DEFINE T == {m \in Nat : m <= n => LoweredTo(it[1..m], m)}
  <1>2. ASSUME NEW s \in SUBSET (1..n)
        PROVE  it[s] = IF s = {} THEN NothingLowered
                       ELSE WithEffect(it[s \ {Max(s)}], effects[Max(s)])
    BY <1>1 DEF LoweringSteps
  <1>3. 0 \in T
    <2>1. 1..0 = {}
      OBVIOUS
    <2>2. it[1..0] = NothingLowered
      BY <1>2, <2>1
    <2>3. LoweredTo(NothingLowered, 0)
      BY DEF LoweredTo, NothingLowered
    <2> QED
      BY <2>2, <2>3
  <1>4. ASSUME NEW m \in T PROVE m + 1 \in T
    <2>1. m \in Nat /\ (m <= n => LoweredTo(it[1..m], m))
      OBVIOUS
    <2>2. ASSUME m + 1 <= n PROVE LoweredTo(it[1..m + 1], m + 1)
      <3>1. m + 1 \in Nat \ {0} /\ m + 1 \in 1..n /\ m <= n /\ (m + 1) - 1 = m
        <4> HIDE DEF T
        <4> QED
          BY <2>1, <2>2
      <3>2. 1..m + 1 \in SUBSET (1..n)
        BY <2>1, <2>2
      <3>3. Max(1..m + 1) = m + 1 /\ (1..m + 1) \ {m + 1} = 1..m
        BY <3>1, MaxUpTo
      <3>4. 1..m + 1 # {}
        <4>1. m + 1 \in 1..m + 1
          BY <3>1
        <4> QED
          BY <4>1
      <3>5. it[1..m + 1] = WithEffect(it[1..m], effects[m + 1])
        BY <1>2, <3>2, <3>3, <3>4
      <3> QED
        BY <2>1, <3>1, <3>5, EffectLowers
    <2> QED
      BY <2>1, <2>2
  <1>5. T = Nat
    <2>1. T \in SUBSET Nat
      OBVIOUS
    <2> HIDE DEF T
    <2> QED
      BY <1>3, <1>4, <2>1, SetOfNaturals
  <1>6. n \in T
    BY <1>5
  <1> QED
    BY <1>1, <1>6

LEMMA RejectedIs == \A e : IsRejected(Rejected(e))
  BY DEF IsRejected, Rejected

LEMMA MinIn ==
  ASSUME NEW n \in Nat, NEW S \in SUBSET (1..n), S # {}
  PROVE  Min(S) \in S
  <1> DEFINE T == {m \in Nat : \A j \in S : j > m}
  <1>1. \E x \in S : \A y \in S : x <= y
    <2> SUFFICES ASSUME ~\E x \in S : \A y \in S : x <= y PROVE FALSE
      OBVIOUS
    <2>1. 0 \in T
      OBVIOUS
    <2>2. ASSUME NEW m \in T PROVE m + 1 \in T
      <3>1. m \in Nat /\ \A j \in S : j > m
        OBVIOUS
      <3>2. \A j \in S : j >= m + 1
        BY <3>1
      <3>3. m + 1 \notin S
        BY <3>2
      <3>4. \A j \in S : j > m + 1
        BY <3>1, <3>2, <3>3
      <3> QED
        BY <3>1, <3>4
    <2>3. T = Nat
      <3>1. T \in SUBSET Nat
        OBVIOUS
      <3> HIDE DEF T
      <3> QED
        BY <2>1, <2>2, <3>1, SetOfNaturals
    <2>4. \A j \in S : j > n
      <3>1. n \in T
        BY <2>3
      <3> QED
        BY <3>1
    <2>5. PICK x \in S : TRUE
      OBVIOUS
    <2>6. x \in 1..n /\ x > n
      BY <2>4
    <2> QED
      BY <2>6
  <1> QED
    BY <1>1 DEF Min

(* What a caller's types allow. *)
CallerEffects ==
  [levels : Seq(Nat), intercept : BOOLEAN, slopes : Seq(Seq(Int \cup {NotFinite}))]

LEMMA EffectAccepted ==
  ASSUME NEW e \in CallerEffects, ~IsRejected(Effect(e))
  PROVE  Effect(e) = e /\ Accepted(e)
  <1>1. Faulty(e) = {} /\ (e.intercept \/ e.slopes # <<>>) /\ Effect(e) = e
    BY RejectedIs DEF Effect
  <1>2. e.levels \in Seq(Nat) /\ e.intercept \in BOOLEAN /\ e.slopes \in Seq(Seq(Int \cup {NotFinite}))
    BY DEF CallerEffects
  <1> DEFINE A == Seq(Int \cup {NotFinite})
             v == Len(e.slopes)
  <1>3. v \in Nat /\ DOMAIN e.slopes = 1..v /\ \A j \in 1..v : e.slopes[j] \in A
    <2>1. e.slopes \in Seq(A)
      BY <1>2
    <2> HIDE DEF A
    <2> QED
      BY <2>1
  <1>4. ASSUME NEW j \in 1..v PROVE e.slopes[j] \in Seq(Int)
    <2>1. SlopeError(Len(e.levels), e.slopes[j]) = None
      BY <1>1, <1>3 DEF Faulty
    <2>2. "SlopeLengthMismatch" # None /\ "InvalidLoading" # None
      BY SolverAssumption
    <2>3. NotFinite \notin ToSet(e.slopes[j])
      BY <2>1, <2>2 DEF SlopeError
    <2>4. e.slopes[j] \in A
      BY <1>3
    <2>5. \A i \in 1..Len(e.slopes[j]) : e.slopes[j][i] \in Int
      BY <2>3, <2>4 DEF ToSet
    <2> QED
      BY <2>4, <2>5
  <1>5. e.slopes \in Seq(Seq(Int))
    <2> DEFINE B == Seq(Int)
    <2>1. e.slopes \in Seq(A)
      BY <1>2
    <2>2. \A j \in 1..v : e.slopes[j] \in B
      BY <1>4
    <2> HIDE DEF A, B
    <2>3. e.slopes \in Seq(B)
      BY <1>3, <2>1, <2>2
    <2> QED
      BY <2>3 DEF B
  <1> QED
    BY <1>1, <1>2, <1>5 DEF Accepted

LEMMA BuildsRecord ==
  ASSUME NEW frame, NEW structure, ~IsRejected(Build(frame, structure, TRUE))
  PROVE  \E f, t, p : Build(frame, structure, TRUE) = Laid(f, t, p)
  <1> DEFINE terms == Terms(frame, structure)
             d == Dominant(terms)
  <1>1. Build(frame, structure, TRUE) = DominantFirst(frame, terms, d, TRUE)
    BY RejectedIs DEF Build, BuildTerms
  <1> HIDE DEF terms, d
  <1>2. \E f, t, p : DominantFirst(frame, terms, d, TRUE) = Laid(f, t, p)
    BY DEF DominantFirst, SortedBy, Resorted
  <1> QED
    BY <1>1, <1>2

(* Design::build is called as it expects to be: with aligned columns, and  *)
(* a structure whose every column is a constant or one of the loadings.    *)
LEMMA DesignSound ==
  ASSUME NEW given \in Seq(CallerEffects), ~IsRejected(NewDesign(given))
  PROVE  /\ \E frame, structure : /\ FrameValid(frame) /\ StructureValid(frame, structure)
                                  /\ Builds(NewDesign(given), frame, structure)
         /\ \E f, t, p : NewDesign(given) = Laid(f, t, p)
  <1> DEFINE n == Len(given)
             effects == [q \in DOMAIN given |-> Effect(given[q])]
             rejected == {q \in DOMAIN effects : IsRejected(effects[q])}
             l == Lowered(effects)
             frame == [levels |-> l.levels, loadings |-> l.loadings]
  <1>1. n \in Nat /\ DOMAIN given = 1..n /\ \A q \in 1..n : given[q] \in CallerEffects
    OBVIOUS
  <1>2. NewDesign(given) = IF rejected # {} THEN effects[Min(rejected)] ELSE DesignFrom(l)
    BY DEF NewDesign, DesignOf, DesignUnless
  <1>3. rejected = {}
    <2> SUFFICES ASSUME rejected # {} PROVE FALSE
      OBVIOUS
    <2>1. rejected \in SUBSET (1..n)
      BY <1>1
    <2>2. Min(rejected) \in rejected
      <3> HIDE DEF rejected
      <3> QED
        BY <1>1, <2>1, MinIn
    <2>3. IsRejected(effects[Min(rejected)])
      BY <2>2
    <2> HIDE DEF rejected, effects
    <2> QED
      BY <1>2, <2>3
  <1>4. ASSUME NEW q \in 1..n PROVE Accepted(effects[q])
    <2>1. ~IsRejected(Effect(given[q]))
      BY <1>1, <1>3
    <2> QED
      BY <1>1, <2>1, EffectAccepted
  <1>5. LoweredTo(l, n)
    <2>1. DOMAIN effects = 1..n
      BY <1>1
    <2> HIDE DEF effects, n
    <2> QED
      BY <1>1, <1>4, <2>1, LoweringSound
  <1>6. NewDesign(given) = Framed(frame, l.structure)
    BY <1>2, <1>3 DEF DesignFrom
  <1> HIDE DEF l
  <1>7. RowAligned(frame) /\ NewDesign(given) = Build(frame, l.structure, TRUE)
    BY <1>6, RejectedIs DEF Framed
  <1>8. FrameValid(frame)
    BY <1>5, <1>7 DEF FrameValid, RowAligned, LoweredTo
  <1>9. StructureValid(frame, l.structure)
    BY <1>5 DEF StructureValid, LoweredTo
  <1> HIDE DEF frame
  <1>10. Builds(NewDesign(given), frame, l.structure)
    BY <1>7, <1>8, <1>9, BuildSound, SolverAssumption
  <1>11. \E f, t, p : NewDesign(given) = Laid(f, t, p)
    <2> DEFINE st == l.structure
    <2>1. ~IsRejected(Build(frame, st, TRUE))
      BY <1>7
    <2> HIDE DEF st
    <2>2. \E f, t, p : Build(frame, st, TRUE) = Laid(f, t, p)
      BY <2>1, BuildsRecord
    <2> USE DEF st
    <2> QED
      BY <1>7, <2>2
  <1> QED
    BY <1>8, <1>9, <1>10, <1>11

(* What is permuted out has as many rows as what goes in. *)
LEMMA OutRows ==
  ASSUME NEW n \in Nat, NEW v, v = [i \in 1..n |-> v[i]],
         NEW d, d.perm # None => d.perm \in [1..n -> 1..n]
  PROVE  PermuteOut(d, v) = [i \in 1..n |-> PermuteOut(d, v)[i]]
  <1>1. CASE d.perm = None
    BY <1>1 DEF PermuteOut
  <1>2. CASE d.perm # None
    <2>1. DOMAIN v = 1..n /\ DOMAIN d.perm = 1..n
      BY <1>2
    <2>2. PICK it : OutSteps(it, d, v) /\ PermuteOut(d, v) = it[1..n]
      BY <1>2, <2>1, OutExists
    <2> DEFINE ids == [i \in DOMAIN d.perm |-> i]
    <2>3. ASSUME NEW s \in SUBSET (1..n)
          PROVE  it[s] = IF s = {} THEN [i \in DOMAIN v |-> 0]
                         ELSE [it[s \ {Max(s)}] EXCEPT ![d.perm[ids[Max(s)]]] = v[ids[Max(s)]]]
      <3>1. DOMAIN ids = 1..n
        BY <2>1
      <3> QED
        BY <2>2, <3>1 DEF OutSteps
    <2> HIDE DEF ids
    <2>4. CASE n = 0
      <3>1. 1..n = {}
        BY <2>4
      <3>2. it[1..n] = [i \in 1..n |-> 0]
        BY <2>1, <2>3, <3>1
      <3> QED
        BY <2>2, <3>2
    <2>5. CASE n # 0
      <3>1. 1..n # {} /\ 1..n \in SUBSET (1..n)
        BY <2>5
      <3> DEFINE T == {m \in Nat : m <= n => it[1..m] = [i \in 1..n |-> it[1..m][i]]}
      <3>2. 0 \in T
        <4>1. 1..0 = {}
          OBVIOUS
        <4>2. it[1..0] = [i \in 1..n |-> 0]
          BY <2>1, <2>3, <4>1
        <4> QED
          BY <4>2
      <3>3. ASSUME NEW m \in T PROVE m + 1 \in T
        <4>1. m \in Nat /\ (m <= n => it[1..m] = [i \in 1..n |-> it[1..m][i]])
          OBVIOUS
        <4>2. ASSUME m + 1 <= n PROVE it[1..m + 1] = [i \in 1..n |-> it[1..m + 1][i]]
          <5>1. m + 1 \in Nat \ {0} /\ m + 1 \in 1..n /\ m <= n /\ 1..m + 1 # {} /\ (m + 1) - 1 = m
            BY <4>1, <4>2
          <5>2. 1..m + 1 \in SUBSET (1..n)
            BY <4>1, <4>2
          <5>3. Max(1..m + 1) = m + 1 /\ (1..m + 1) \ {m + 1} = 1..m
            BY <5>1, MaxUpTo
          <5> DEFINE a == d.perm[ids[m + 1]]
                     b == v[ids[m + 1]]
          <5>4. it[1..m + 1] = [it[1..m] EXCEPT ![a] = b]
            BY <2>3, <5>1, <5>2, <5>3
          <5> HIDE DEF a, b
          <5>5. it[1..m] = [i \in 1..n |-> it[1..m][i]]
            BY <4>1, <5>1
          <5> QED
            BY <5>4, <5>5
        <4> QED
          BY <4>1, <4>2
      <3>4. T = Nat
        <4>1. T \in SUBSET Nat
          OBVIOUS
        <4> HIDE DEF T
        <4> QED
          BY <3>2, <3>3, <4>1, SetOfNaturals
      <3>5. n \in T
        BY <3>4
      <3> QED
        BY <2>2, <3>5
    <2> QED
      BY <2>4, <2>5
  <1> QED
    BY <1>1, <1>2

(* What a solve needs to know of the design. *)
Shaped(d) ==
  /\ d.nObs \in Nat
  /\ d.nDofs \in Nat
  /\ d.perm # None => d.perm \in [1..d.nObs -> 1..d.nObs]

LEMMA DesignShaped ==
  ASSUME NEW given \in Seq(CallerEffects), ~IsRejected(NewDesign(given))
  PROVE  \A frame : Shaped([NewDesign(given) EXCEPT !.frame = frame])
  <1> DEFINE d == NewDesign(given)
  <1>1. PICK frame, structure : FrameValid(frame) /\ StructureValid(frame, structure)
                                /\ Builds(d, frame, structure)
    BY DesignSound
  <1>2. \E f, t, p : d = Laid(f, t, p)
    BY DesignSound
  <1> HIDE DEF d
  <1>3. DOMAIN d = {"frame", "terms", "nObs", "nDofs", "perm"}
    BY <1>2 DEF Laid
  <1>4. d.nObs = NObs(frame) /\ d.nObs \in Nat /\ d.nDofs = TotalDofs(d.terms) /\ Contiguous(d.terms)
    BY <1>1 DEF Builds
  <1>5. d.nDofs \in Nat
    <2>1. Len(d.terms) \in Nat /\ TotalDofs(d.terms) = End(d.terms, Len(d.terms))
      BY <1>4, Blocks
    <2>2. Len(d.terms) \in 0..Len(d.terms) /\ Len(d.terms) <= Len(d.terms)
      BY <2>1
    <2>3. End(d.terms, Len(d.terms)) \in Nat
      BY <1>4, <2>2, Blocks
    <2> QED
      BY <1>4, <2>1, <2>3
  <1>6. d.perm # None => d.perm \in [1..d.nObs -> 1..d.nObs]
    <2> SUFFICES ASSUME d.perm # None PROVE d.perm \in [1..d.nObs -> 1..d.nObs]
      OBVIOUS
    <2> DEFINE q == Dominant(d.terms)
    <2>1. q \in DOMAIN frame.levels /\ Sorts(d.perm, frame.levels[q])
      BY <1>1 DEF Builds
    <2>2. frame.levels[q] \in [1..d.nObs -> Nat]
      BY <1>1, <1>4, <2>1, FrameColumns
    <2>3. DOMAIN frame.levels[q] = 1..d.nObs
      BY <2>2
    <2> HIDE DEF q
    <2> QED
      BY <2>1, <2>3 DEF Sorts
  <1>7. ASSUME NEW fr PROVE Shaped([d EXCEPT !.frame = fr])
    <2>1. /\ [d EXCEPT !.frame = fr].nObs = d.nObs
          /\ [d EXCEPT !.frame = fr].nDofs = d.nDofs
          /\ [d EXCEPT !.frame = fr].perm = d.perm
      BY <1>3
    <2> QED
      BY <1>4, <1>5, <1>6, <2>1 DEF Shaped
  <1> QED
    BY <1>7 DEF d

-----------------------------------------------------------------------------
(* The inductive invariant. *)

(* Someone of the batch is to blame for an error. *)
Blamed(e) ==
  \/ \E r \in DOMAIN ys : e = InvalidRhs(ys[r])
  \/ /\ e = "PreconditionerFailed"
     /\ solver.preconditioner.kind # "off"
     /\ \E r \in DOMAIN ys : InvalidRhs(ys[r]) = None

HasRows(s) == s.demeaned = [i \in 1..solver.design.nObs |-> s.demeaned[i]]

(* A right-hand side that is being solved is valid; one that is done is    *)
(* solved, unless an error has been saved.                                 *)
TaskInv(r) ==
  /\ task[r] \in {"queued", "solving", "done"}
  /\ task[r] = "solving" => InvalidRhs(ys[r]) = None
  /\ task[r] = "done" /\ saved = None => InvalidRhs(ys[r]) = None /\ HasRows(solution[r])

CallInv ==
  /\ Built
  /\ ys \in Batches
  /\ DOMAIN task = DOMAIN ys /\ DOMAIN solution = DOMAIN ys
  /\ \A r \in DOMAIN ys : TaskInv(r)
  /\ saved # None => Blamed(saved)
  /\ result # None => \A r \in DOMAIN ys : task[r] = "done"

BatchInv ==
  /\ input \in Inputs
  /\ Built => Shaped(solver.design)
  /\ ys # None => CallInv
  /\ BatchAllOrNothing

LEMMA BatchInit == Init => BatchInv
  BY DEF Init, BatchInv, Built, BatchAllOrNothing

LEMMA NewKeeps ==
  ASSUME BatchInv, New
  PROVE  BatchInv'
  <1>1. ys = None /\ UNCHANGED <<input, callVars>>
    BY DEF BatchInv, New, CallInv, Built
  <1>2. ys' = None /\ input' \in Inputs
    BY <1>1 DEF callVars, BatchInv
  <1>3. ASSUME Built' PROVE Shaped(solver.design)'
    <2> DEFINE d == NewDesign(input.effects)
    <2>1. PICK p \in Preconditioners : solver' \in Solvers(d, p)
      BY DEF New
    <2>2. ~IsRejected(solver')
      BY <1>3 DEF Built
    <2>3. input.effects \in Seq(CallerEffects)
      BY SolverAssumption DEF BatchInv, CallerEffects
    <2> DEFINE w == InternalWeights(d, input.weights)
               rp == Reparametrized(d.frame, d.terms, w)
    <2>4. ~IsRejected(d) /\ solver' \in Weighted(d, p, w)
      <3> HIDE DEF d
      <3> QED
        BY <2>1, <2>2, RejectedIs DEF Solvers
    <2>5. solver' = SolverWith(d, w, p, rp)
      <3> HIDE DEF d, w
      <3> QED
        BY <2>2, <2>4, RejectedIs DEF Weighted, Assembled
    <2>6. solver'.design = [d EXCEPT !.frame = rp.frame]
      <3> HIDE DEF d, w, rp
      <3> QED
        BY <2>5 DEF SolverWith
    <2> HIDE DEF w, rp
    <2>7. Shaped(solver'.design)
      BY <2>3, <2>4, <2>6, DesignShaped
    <2> QED
      BY <2>7 DEF Shaped
  <1> QED
    BY <1>2, <1>3 DEF BatchInv, BatchAllOrNothing

LEMMA CallKeeps ==
  ASSUME BatchInv, Call
  PROVE  BatchInv'
  <1>1. solver' = solver /\ input' = input /\ Built /\ result' = None /\ saved' = None /\ ys' \in Batches
    BY DEF Call
  <1>2. Built'
    BY <1>1 DEF Built
  <1>3. DOMAIN task' = DOMAIN ys' /\ DOMAIN solution' = DOMAIN ys' /\ \A r \in DOMAIN ys' : task'[r] = "queued"
    BY DEF Call
  <1>4. \A r \in DOMAIN ys' : TaskInv(r)'
    BY <1>3 DEF TaskInv
  <1>5. CallInv'
    BY <1>1, <1>2, <1>3, <1>4 DEF CallInv
  <1>6. Shaped(solver.design)'
    BY <1>1 DEF BatchInv, Shaped
  <1> QED
    BY <1>1, <1>5, <1>6 DEF BatchInv, BatchAllOrNothing

(* What a step of one right-hand side leaves alone. *)
LEMMA Untouched ==
  ASSUME BatchInv, ys # None, UNCHANGED <<input, solver, ys, result>>, NEW r \in DOMAIN ys,
         task[r] # "done",
         \E t \in {"solving", "done"} : task' = [task EXCEPT ![r] = t],
         \E s : solution' = [solution EXCEPT ![r] = s] \/ solution' = solution,
         saved # None => saved' = saved,
         saved' # None => Blamed(saved'),
         TaskInv(r)'
  PROVE  BatchInv'
  <1>1. CallInv /\ result = None /\ result' = None
    BY DEF BatchInv, CallInv
  <1>2. Built' /\ Shaped(solver.design)' /\ input' \in Inputs
    BY DEF BatchInv, Shaped, Built, CallInv
  <1>3. DOMAIN task' = DOMAIN ys' /\ DOMAIN solution' = DOMAIN ys' /\ ys' \in Batches
    BY <1>1 DEF CallInv
  <1>4. ASSUME NEW k \in DOMAIN ys, k # r PROVE TaskInv(k)'
    <2>1. task'[k] = task[k] /\ solution'[k] = solution[k]
      BY <1>1, <1>4 DEF CallInv
    <2>2. TaskInv(k) /\ (saved' = None => saved = None)
      BY <1>1 DEF CallInv
    <2> QED
      BY <2>1, <2>2 DEF TaskInv, HasRows, InvalidRhs
  <1>5. \A k \in DOMAIN ys' : TaskInv(k)'
    BY <1>4
  <1>6. (saved # None => Blamed(saved))'
    BY DEF Blamed, InvalidRhs
  <1>7. CallInv'
    BY <1>1, <1>2, <1>3, <1>5, <1>6 DEF CallInv
  <1> QED
    BY <1>1, <1>2, <1>7 DEF BatchInv, BatchAllOrNothing

LEMMA TaskKeeps ==
  ASSUME BatchInv, ys # None, NEW r \in DOMAIN ys,
         Begin(r) \/ Finish(r) \/ Break(r) \/ Skip(r)
  PROVE  BatchInv'
  <1>1. /\ CallInv /\ TaskInv(r) /\ Shaped(solver.design)
        /\ r \in DOMAIN task /\ r \in DOMAIN solution
        /\ (saved # None => Blamed(saved))
    BY DEF BatchInv, CallInv
  <1>2. /\ UNCHANGED <<input, solver, ys, result>> /\ task[r] # "done"
        /\ InvalidRhs(ys[r])' = InvalidRhs(ys[r])
    BY DEF Begin, Finish, Break, Skip, Fail, InvalidRhs
  <1>3. ASSUME NEW e, e # None, Blamed(e), Fail(r, e) PROVE BatchInv'
    <2>1. task' = [task EXCEPT ![r] = "done"] /\ solution' = solution /\ saved' # None
          /\ (saved # None => saved' = saved) /\ (saved' # None => Blamed(saved'))
      BY <1>1, <1>3 DEF Fail
    <2>2. TaskInv(r)'
      BY <1>1, <2>1 DEF TaskInv
    <2> QED
      BY <1>2, <2>1, <2>2, Untouched
  <1>4. CASE Begin(r)
    <2>1. CASE InvalidRhs(ys[r]) # None
      <3>1. Fail(r, InvalidRhs(ys[r])) /\ Blamed(InvalidRhs(ys[r]))
        BY <1>4, <2>1 DEF Begin, Blamed
      <3> QED
        BY <1>3, <2>1, <3>1
    <2>2. CASE InvalidRhs(ys[r]) = None
      <3>1. task' = [task EXCEPT ![r] = "solving"] /\ UNCHANGED <<solution, saved>>
        BY <1>4, <2>2 DEF Begin
      <3>2. TaskInv(r)'
        BY <1>1, <1>2, <2>2, <3>1 DEF TaskInv
      <3> QED
        BY <1>1, <1>2, <3>1, <3>2, Untouched
    <2> QED
      BY <2>1, <2>2
  <1>5. CASE Finish(r)
    <2>1. PICK x : solution' = [solution EXCEPT ![r] = RhsSolution(solver, ys[r], x)]
      BY <1>5 DEF Finish
    <2>2. task[r] = "solving" /\ task' = [task EXCEPT ![r] = "done"] /\ saved' = saved
      BY <1>5 DEF Finish
    <2> DEFINE d == solver.design
               v == Demeaned(d, PermuteIn(d, ys[r]), x)
    <2>3. solution'[r].demeaned = PermuteOut(d, v)
      BY <1>1, <2>1 DEF RhsSolution
    <2>4. v = [i \in 1..d.nObs |-> v[i]]
      BY DEF Demeaned
    <2> HIDE DEF d, v
    <2>5. PermuteOut(d, v) = [i \in 1..d.nObs |-> PermuteOut(d, v)[i]]
      BY <1>1, <2>4, OutRows DEF Shaped, d
    <2>6. HasRows(solution[r])'
      BY <1>2, <2>3, <2>5 DEF HasRows, d
    <2>7. TaskInv(r)'
      BY <1>1, <1>2, <2>2, <2>6 DEF TaskInv
    <2> QED
      BY <1>1, <1>2, <2>1, <2>2, <2>7, Untouched
  <1>6. CASE Break(r)
    <2>1. Fail(r, "PreconditionerFailed") /\ Blamed("PreconditionerFailed")
      BY <1>1, <1>6 DEF Break, Blamed, TaskInv
    <2> QED
      BY <1>3, <2>1, SolverAssumption
  <1>7. CASE Skip(r)
    <2>1. task' = [task EXCEPT ![r] = "done"] /\ UNCHANGED <<solution, saved>> /\ saved # None
      BY <1>7 DEF Skip
    <2>2. TaskInv(r)'
      BY <1>1, <2>1 DEF TaskInv
    <2> QED
      BY <1>1, <1>2, <2>1, <2>2, Untouched
  <1> QED
    BY <1>4, <1>5, <1>6, <1>7

LEMMA ReturnKeeps ==
  ASSUME BatchInv, Return
  PROVE  BatchInv'
  <1>1. /\ CallInv /\ Built /\ Shaped(solver.design) /\ UNCHANGED <<input, solver, ys, task, solution, saved>>
        /\ \A r \in DOMAIN ys : task[r] = "done"
        /\ result' = Collected
    BY DEF BatchInv, CallInv, Return
  <1>2. Shaped(solver.design)' /\ input' \in Inputs
    BY <1>1 DEF BatchInv, Shaped
  <1>3. CallInv'
    <2>1. \A r \in DOMAIN ys : TaskInv(r)'
      BY <1>1 DEF CallInv, TaskInv, HasRows, InvalidRhs
    <2>2. (saved # None => Blamed(saved))'
      BY <1>1 DEF CallInv, Blamed, InvalidRhs
    <2> QED
      BY <1>1, <2>1, <2>2 DEF CallInv, Built
  <1>4. BatchAllOrNothing'
    <2>1. CASE saved # None
      <3>1. result' = [error |-> saved] /\ IsFailed(result')
        BY <1>1, <2>1 DEF Collected, Failed, IsFailed
      <3>2. Blamed(saved)
        BY <1>1, <2>1 DEF CallInv
      <3>3. result'.error = saved
        BY <3>1
      <3> QED
        BY <1>1, <3>1, <3>2, <3>3 DEF BatchAllOrNothing, Blamed, InvalidRhs
    <2>2. CASE saved = None
      <3> DEFINE n == Len(ys)
                 d == solver.design
                 xs == [r \in DOMAIN ys |-> InOrder(solution[r].x, d.nDofs)]
                 zs == [r \in DOMAIN ys |-> solution[r].demeaned]
      <3>1. n \in Nat /\ DOMAIN ys = 1..n
        BY <1>1, SolverAssumption DEF CallInv
      <3>2. result' = [x |-> FlattenSeq(xs), demeaned |-> FlattenSeq(zs)]
        BY <1>1, <2>2 DEF Collected
      <3>3. ~IsFailed(result')
        BY <3>2 DEF IsFailed
      <3>4. \A r \in 1..n : InvalidRhs(ys[r]) = None /\ HasRows(solution[r])
        BY <1>1, <2>2, <3>1 DEF CallInv, TaskInv
      <3>5. d.nDofs \in Nat /\ d.nObs \in Nat
        BY <1>1 DEF Shaped
      <3>6. Len(FlattenSeq(xs)) = n * d.nDofs
        <4>1. xs = [r \in 1..n |-> xs[r]]
          BY <3>1
        <4>2. \A r \in 1..n : xs[r] = [k \in 1..d.nDofs |-> xs[r][k]]
          BY <3>1 DEF InOrder
        <4> HIDE DEF xs, n, d
        <4> QED
          BY <3>1, <3>5, <4>1, <4>2, FlattenEqual
      <3>7. Len(FlattenSeq(zs)) = n * d.nObs
        <4>1. zs = [r \in 1..n |-> zs[r]]
          BY <3>1
        <4>2. \A r \in 1..n : zs[r] = [k \in 1..d.nObs |-> zs[r][k]]
          BY <3>1, <3>4 DEF HasRows
        <4> HIDE DEF zs, n, d
        <4> QED
          BY <3>1, <3>5, <4>1, <4>2, FlattenEqual
      <3> HIDE DEF xs, zs
      <3>8. /\ Len(result'.x) = Len(ys) * solver.design.nDofs
            /\ Len(result'.demeaned) = Len(ys) * solver.design.nObs
        BY <3>2, <3>6, <3>7
      <3> HIDE DEF d
      <3> QED
        BY <1>1, <3>1, <3>3, <3>4, <3>8 DEF BatchAllOrNothing, InvalidRhs
    <2> QED
      BY <2>1, <2>2
  <1> QED
    BY <1>2, <1>3, <1>4 DEF BatchInv

LEMMA BatchStep == BatchInv /\ [Next]_vars => BatchInv'
  <1> SUFFICES ASSUME BatchInv, [Next]_vars PROVE BatchInv'
    OBVIOUS
  <1>1. CASE New
    BY <1>1, NewKeeps
  <1>2. CASE Call
    BY <1>2, CallKeeps
  <1>3. CASE Return
    BY <1>3, ReturnKeeps
  <1>4. ASSUME NEW r \in DOMAIN task, Begin(r) \/ Finish(r) \/ Break(r) \/ Skip(r)
        PROVE  BatchInv'
    <2>1. CASE ys # None
      <3>1. r \in DOMAIN ys
        BY <2>1 DEF BatchInv, CallInv
      <3> QED
        BY <1>4, <2>1, <3>1, TaskKeeps
    <2>2. CASE ys = None
      <3>1. UNCHANGED <<input, solver, ys, result>>
        BY <1>4 DEF Begin, Finish, Break, Skip, Fail
      <3> QED
        BY <2>2, <3>1 DEF BatchInv, BatchAllOrNothing, Built, Shaped
    <2> QED
      BY <2>1, <2>2
  <1>5. CASE UNCHANGED vars
    BY <1>5 DEF vars, callVars, BatchInv, CallInv, TaskInv, HasRows, Blamed, InvalidRhs, Built, Shaped,
                BatchAllOrNothing
  <1> QED
    BY <1>1, <1>2, <1>3, <1>4, <1>5 DEF Next

(* A batch is answered in whole or not at all, for any effects, batches    *)
(* and preconditioners: solve_batch returns an error only if one of its    *)
(* right-hand sides has it, an error whenever one of them is invalid, and  *)
(* else as many coefficients and residuals as there are right-hand sides.  *)
THEOREM BatchesAreWhole == Spec => []BatchAllOrNothing
  <1>1. BatchInv => BatchAllOrNothing
    BY DEF BatchInv
  <1> QED
    BY <1>1, BatchInit, BatchStep, PTL DEF Spec
=============================================================================

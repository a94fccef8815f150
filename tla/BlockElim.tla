------------------------------ MODULE BlockElim ------------------------------
(***************************************************************************)
(* The local solver of a subdomain (block_elim/solver.rs): the first block *)
(* of a component's matrix M = [D, -C; -C^T, D] is eliminated, the         *)
(* complement on the kept block (schur.rs) is factored, and every solve    *)
(* reduces, solves the complement and substitutes back in buffers that     *)
(* hold whatever the last solve left.                                      *)
(*                                                                         *)
(* Numbers are exact.  The sampler and the factorization belong to         *)
(* approx-chol: the sampler joins the edges of a star in any way it can,   *)
(* the factor solves the Laplacian it was given up to a constant, with     *)
(* vertices of its own at the end.  Vertices count from 1.                 *)
(***************************************************************************)
EXTENDS ExactArith, CsrBlock

CONSTANTS
  None,
  Components,  (* [c, nKept, diagonal, ground, grounding, form, coordinates] *)
  Configs,     (* [denseThreshold, schur]                                    *)
  Leftovers,   (* what is in new buffers                                     *)
  Gauges,      (* constants that the factor adds to its solutions            *)
  Auxiliaries, (* numbers of vertices it adds                                *)
  FailingUnits,(* right-hand sides whose first solves may fail               *)
  MaxSolves    (* bound on the solves that are compared                      *)

VARIABLES
  component, config,
  pc,         (* start, dense, sparse, failed, built                         *)
  eliminated, (* what is factored: the component's matrix or its cover       *)
  attempts,   (* the outcomes of the factorizations so far                   *)
  complement, (* the Laplacian that was factored                             *)
  solver,
  buffers,    (* [rhs, sol]                                                  *)
  solved      (* the solves so far: [unit, z], of a unit vector              *)

vars == <<component, config, pc, eliminated, attempts, complement, solver, buffers, solved>>

-----------------------------------------------------------------------------
(* Slices and sparse products. *)

SumSeq(s) == FoldLeft(Add, Nil, s)
Zeros(n) == [i \in 1..n |-> Nil]
Slice(v, from, n) == SubSeq(v, from + 1, from + n)
Stored(v, from, xs) == Slice(v, 0, from) \o xs \o Slice(v, from + Len(xs), Len(v) - from - Len(xs))

LessMean(xs, mean) == [i \in DOMAIN xs |-> Add(xs[i], Neg(mean))]
MeanOf(xs) == Div(SumSeq(xs), <<Len(xs), 1>>)
SubtractMean(v, from, n) ==
  IF n = 0 THEN v ELSE Stored(v, from, LessMean(Slice(v, from, n), MeanOf(Slice(v, from, n))))

RowProduct(row, x, base) == FoldLeft(LAMBDA acc, e : Add(acc, Mul(e.value, x[e.at])), base, row)
SpmvAssignAdd(a, x, base) == [i \in DOMAIN a |-> RowProduct(a[i], x, base[i])]

-----------------------------------------------------------------------------
(* Elimination, and the Gremban cover of a signed matrix. *)

NElim(m) == Len(m.c)
KeptOf(m, values) == SubSeq(values, NElim(m) + 1, Len(values))

EliminatedOf(m) ==
  IF \E i \in 1..NElim(m) : ~Positive(m.diagonal[i]) THEN [error |-> "SingularDiagonal"]
  ELSE [matrix |-> m, ct |-> Transposed(m.c, m.nKept),
        inv |-> [i \in 1..NElim(m) |-> Inv(m.diagonal[i])]]

Negative(e) == e.value[1] < 0
Shifted(row, base) ==
  [e \in DOMAIN row |-> [at |-> row[e].at + base, value |-> Magnitude(row[e].value)]]

(* A negative entry links the two sheets; same-sheet columns come first.   *)
CoverRow(row, shifted, n) ==
  Shifted(SelectSeq(row, LAMBDA e : Negative(e) = shifted), 0)
    \o Shifted(SelectSeq(row, LAMBDA e : Negative(e) # shifted), n)

DoubleForCover(values, n) ==
  Slice(values, 0, n) \o Slice(values, 0, n)
    \o Slice(values, n, Len(values) - n) \o Slice(values, n, Len(values) - n)

CoverOf(m) ==
  [c         |-> [i \in 1..NElim(m) |-> CoverRow(m.c[i], FALSE, m.nKept)]
                   \o [i \in 1..NElim(m) |-> CoverRow(m.c[i], TRUE, m.nKept)],
   nKept     |-> 2 * m.nKept,
   diagonal  |-> DoubleForCover(m.diagonal, NElim(m)),
   ground    |-> DoubleForCover(m.ground, NElim(m)),
   grounding |-> m.grounding]

-----------------------------------------------------------------------------
(* The exact complement, row by row through one workspace. *)

ScatterEntry(s, i, w, inv, e) ==
  [s EXCEPT !.touched = IF s.work[e.at] = Nil /\ e.at # i THEN Append(@, e.at) ELSE @,
            !.work[e.at] = Add(@, Neg(Mul(Mul(w, e.value), inv)))]

ComputeSchurRow(f, s, i) ==
  FoldLeft(LAMBDA t, a : FoldLeft(LAMBDA u, e : ScatterEntry(u, i, a.value, f.inv[a.at], e),
                                  t, f.matrix.c[a.at]),
           [s EXCEPT !.work[i] = KeptOf(f.matrix, f.matrix.diagonal)[i], !.touched = <<i>>],
           f.ct[i])

(* Mutant: the workspace is not zeroed. *)
ExtractEntryKeeping(s, i, j) ==
  [s EXCEPT !.row = IF s.work[j] # Nil \/ j = i THEN Append(@, [at |-> j, value |-> s.work[j]])
                    ELSE @]

ExtractEntry(s, i, j) ==
  [s EXCEPT !.row = IF s.work[j] # Nil \/ j = i THEN Append(@, [at |-> j, value |-> s.work[j]])
                    ELSE @,
            !.work[j] = Nil]

ExtractSparseRow(s, i) ==
  FoldLeft(LAMBDA t, j : ExtractEntry(t, i, j), [s EXCEPT !.row = <<>>], SortSeq(s.touched, <))

ClosedRow(s) == [s EXCEPT !.rows = Append(@, s.row)]
ExactRows(f) ==
  FoldLeft(LAMBDA s, i : ClosedRow(ExtractSparseRow(ComputeSchurRow(f, s, i), i)),
           [work |-> Zeros(f.matrix.nKept), touched |-> <<>>, row |-> <<>>, rows |-> <<>>],
           [i \in 1..f.matrix.nKept |-> i]).rows

ReducedSurplus(f) ==
  IF f.matrix.grounding = "Floating" THEN Zeros(f.matrix.nKept)
  ELSE SpmvAssignAdd(f.ct, [i \in DOMAIN f.inv |-> Mul(f.inv[i], f.matrix.ground[i])],
                     KeptOf(f.matrix, f.matrix.ground))

(* The diagonal is what the row's edges and its surplus add up to.         *)
OffDiagonal(row, i) ==
  SumSeq([e \in DOMAIN row |-> IF row[e].at = i THEN Nil ELSE row[e].value])
ExplicitRow(row, i, surplus) ==
  [e \in DOMAIN row |-> IF row[e].at = i
                        THEN [at |-> i, value |-> Add(surplus, Neg(OffDiagonal(row, i)))]
                        ELSE row[e]]
EdgeTo(at, weight) == IF Positive(weight) THEN <<[at |-> at, value |-> Neg(weight)]>> ELSE <<>>

ExplicitLaplacian(rows, surplus, grounding) ==
  IF grounding = "Floating" THEN [i \in DOMAIN rows |-> ExplicitRow(rows[i], i, surplus[i])]
  ELSE Append([i \in DOMAIN rows |-> ExplicitRow(rows[i], i, surplus[i])
                                       \o EdgeTo(Len(rows) + 1, surplus[i])],
              FlattenSeq([i \in DOMAIN rows |-> EdgeTo(i, surplus[i])])
                \o <<[at |-> Len(rows) + 1, value |-> SumSeq(surplus)]>>)

ExactForFactor(f) == ExplicitLaplacian(ExactRows(f), ReducedSurplus(f), f.matrix.grounding)

-----------------------------------------------------------------------------
(* The sampled complement: a tree for every eliminated vertex. *)

StarEntries(m, k) ==
  m.c[k] \o IF m.grounding = "Grounded" /\ Positive(m.ground[k])
            THEN <<[at |-> m.nKept + 1, value |-> m.ground[k]]>> ELSE <<>>

EdgeOf(a, b, w) == IF a.at < b.at THEN [lo |-> a.at, hi |-> b.at, w |-> w]
                   ELSE [lo |-> b.at, hi |-> a.at, w |-> w]

(* approx-chol: the lightest first, an entry is joined to a later one by   *)
(* an edge that stands for its edges to all later ones.                    *)
LightestFirst(entries) ==
  SortSeq(entries, LAMBDA a, b : Less(a.value, b.value) \/ (a.value = b.value /\ a.at < b.at))
WeightAfter(s, i) == SumSeq([k \in 1..Len(s) - i |-> s[i + k].value])
TreeWeight(s, i) == Div(Mul(s[i].value, WeightAfter(s, i)), WeightAfter(s, 0))
Joins(n) == {f \in [1..n - 1 -> 2..n] : \A i \in 1..n - 1 : f[i] > i}
CliqueTrees(s) ==
  {[i \in 1..Len(s) - 1 |-> EdgeOf(s[i], s[f[i]], TreeWeight(s, i))] : f \in Joins(Len(s))}

SampleStar(m, k) ==
  IF m.c[k] = <<>> \/ Len(StarEntries(m, k)) <= 1 THEN {<<>>}
  ELSE CliqueTrees(LightestFirst(StarEntries(m, k)))

KeptGroundEdges(m) ==
  FlattenSeq([i \in 1..m.nKept |->
    IF m.grounding = "Grounded" /\ Positive(KeptOf(m, m.ground)[i])
    THEN <<[lo |-> i, hi |-> m.nKept + 1, w |-> KeptOf(m, m.ground)[i]]>> ELSE <<>>])

ParEmit(m) ==
  {FlattenSeq(stars) \o KeptGroundEdges(m) :
     stars \in {f \in [1..NElim(m) -> UNION {SampleStar(m, k) : k \in 1..NElim(m)}] :
                  \A k \in 1..NElim(m) : f[k] \in SampleStar(m, k)}}

ByHiWeight(a, b) == a.hi < b.hi \/ (a.hi = b.hi /\ Less(a.w, b.w))
CountingSorted(edges, nKept) ==
  FlattenSeq([lo \in 1..nKept |-> SortSeq(SelectSeq(edges, LAMBDA e : e.lo = lo), ByHiWeight)])
Sorted(edges, nKept) ==
  IF Len(edges) >= nKept THEN CountingSorted(edges, nKept)
  ELSE SortSeq(edges, LAMBDA a, b : a.lo < b.lo \/ (a.lo = b.lo /\ ByHiWeight(a, b)))

Merged(done, e) ==
  IF done # <<>> /\ Last(done).lo = e.lo /\ Last(done).hi = e.hi
  THEN [done EXCEPT ![Len(done)].w = Add(@, e.w)]
  ELSE Append(done, e)
SortAndDedup(edges, nKept) == FoldLeft(Merged, <<>>, Sorted(edges, nKept))

(* A row: lower entries, diagonal, upper entries, each as the edges come.  *)
LaplacianRow(edges, i) ==
  LET lower == SelectSeq(edges, LAMBDA e : e.hi = i)
      upper == SelectSeq(edges, LAMBDA e : e.lo = i)
      At(s, end(_)) == [e \in DOMAIN s |-> [at |-> end(s[e]), value |-> Neg(s[e].w)]]
  IN At(lower, LAMBDA e : e.lo)
       \o <<[at |-> i, value |-> SumSeq([e \in DOMAIN (lower \o upper) |-> (lower \o upper)[e].w])]>>
       \o At(upper, LAMBDA e : e.hi)

BuildLaplacian(edges, n) == [i \in 1..n |-> LaplacianRow(edges, i)]
GroundVertices(m) == IF m.grounding = "Grounded" THEN 1 ELSE 0
Sampled(m) ==
  {BuildLaplacian(SortAndDedup(edges, m.nKept), m.nKept + GroundVertices(m)) : edges \in ParEmit(m)}

-----------------------------------------------------------------------------
(* The reduced factor: of the complement itself, or of the cover's.        *)

InputDimension(r) == IF r.kind = "Direct" THEN Len(r.factor.laplacian) ELSE r.m
SolveDimension(r) == IF r.kind = "Direct" THEN r.factor.n ELSE r.m
ScratchLen(r) == IF r.kind = "Direct" THEN 0 ELSE r.factor.n
GroundingOf(r) == IF r.kind = "Direct" THEN r.grounding ELSE None

ExplicitGround(r, nKept) ==
  IF GroundingOf(r) = "Grounded" /\ InputDimension(r) = nKept + 1 THEN nKept + 1 ELSE None

(* Mutant: a complement with a ground vertex has the wrong dimension. *)
SpansExactly(r, nKept) == InputDimension(r) = nKept

SpansKeptBlock(r, nKept) == InputDimension(r) = nKept \/ ExplicitGround(r, nKept) # None

(* The factor: the equations of all vertices but the first, whose value is *)
(* the gauge; the factor's own vertices have no equation.                  *)
CellAt(row, j) == SumSeq([e \in DOMAIN row |-> IF row[e].at = j THEN row[e].value ELSE Nil])
WithoutLast(a, n) ==
  [i \in 1..n - 1 |-> [j \in 1..n - 1 |->
     Add(a[i][j], Neg(Div(Mul(a[i][n], a[n][j]), a[n][n])))]]
RhsWithoutLast(a, b, n) ==
  [i \in 1..n - 1 |-> Add(b[i], Neg(Div(Mul(a[i][n], b[n]), a[n][n])))]
SolvedLast(a, b, n, x) ==
  Append(x, Div(Add(b[n], Neg(SumSeq([j \in 1..n - 1 |-> Mul(a[n][j], x[j])]))), a[n][n]))
RECURSIVE DenseSolution(_, _, _)
DenseSolution(a, b, n) ==
  IF n = 0 THEN <<>>
  ELSE SolvedLast(a, b, n, DenseSolution(WithoutLast(a, n), RhsWithoutLast(a, b, n), n - 1))

Grounded(l, b) ==
  DenseSolution([i \in 1..Len(l) - 1 |-> [j \in 1..Len(l) - 1 |-> CellAt(l[i + 1], j + 1)]],
                [i \in 1..Len(l) - 1 |-> b[i + 1]], Len(l) - 1)
SolveLaplacian(factor, b, gauge) ==
  LessMean(<<Nil>> \o Grounded(factor.laplacian, b)
             \o Zeros(factor.n - Len(factor.laplacian)), Neg(gauge))

-----------------------------------------------------------------------------
(* solve_local: what each step writes into the buffers b of a solver s.    *)

NElimOf(s) == Len(s.c)
NKept(s) == Len(s.ct)
NInternal(s) == NElimOf(s) + NKept(s)
ScratchSize(s) == NInternal(s) + s.nReduced + ScratchLen(s.factor)
Floats(s) == GroundingOf(s.factor) = "Floating"
GroundOf(s) == ExplicitGround(s.factor, NKept(s))

FoldFactor(s, i) == IF s.coordinates # None THEN s.coordinates[i]
                    ELSE IF i <= NElimOf(s) THEN One ELSE <<-1, 1>>
Fold(s, v) == Stored(v, 0, [i \in 1..NInternal(s) |-> Mul(v[i], FoldFactor(s, i))])

CenterRhs(s, b) == [b EXCEPT !.rhs = IF Floats(s) THEN SubtractMean(@, 0, NInternal(s)) ELSE @]
ScaleEliminated(s, b) ==
  [b EXCEPT !.rhs = Stored(@, 0, [i \in 1..NElimOf(s) |-> Mul(@[i], s.inv[i])])]

(* Mutant: what lies beyond the kept block is not cleared. *)
ReduceRhsDirty(s, b) ==
  [b EXCEPT !.rhs = Stored(@, NInternal(s), SpmvAssignAdd(s.ct, @, Slice(@, NElimOf(s), NKept(s))))]

ReduceRhs(s, b) ==
  [b EXCEPT !.rhs = Stored(@, NInternal(s),
     SpmvAssignAdd(s.ct, @, Slice(@, NElimOf(s), NKept(s))) \o Zeros(s.nReduced - NKept(s)))]

GaugeRhs(s, b) ==
  [b EXCEPT !.rhs =
     IF Floats(s) THEN SubtractMean(@, NInternal(s), s.nReduced)
     ELSE IF GroundOf(s) # None
     THEN [@ EXCEPT ![NInternal(s) + GroundOf(s)] = Neg(SumSeq(Slice(b.rhs, NInternal(s), NKept(s))))]
     ELSE @]

CopyReduced(s, b) ==
  [b EXCEPT !.sol = Stored(@, NElimOf(s), Slice(b.rhs, NInternal(s), s.nReduced))]

(* A cover's right-hand side is [b, -b] and zero; the solution is read     *)
(* back from both sheets.                                                  *)
Embedded(r, x) ==
  x \o [i \in DOMAIN x |-> Neg(x[i])] \o Zeros(r.factor.n - 2 * r.m)
ReadBack(r, x) == [i \in 1..r.m |-> Mul(<<1, 2>>, Add(x[i], Neg(x[r.m + i])))]
SolvedCover(s, b, x) ==
  [rhs |-> Stored(b.rhs, NInternal(s) + s.nReduced, x),
   sol |-> Stored(b.sol, NElimOf(s), ReadBack(s.factor, x))]
SolveReduced(s, b, gauge) ==
  IF s.factor.kind = "Direct"
  THEN [b EXCEPT !.sol = Stored(@, NElimOf(s),
          SolveLaplacian(s.factor.factor, Slice(@, NElimOf(s), s.nReduced), gauge))]
  ELSE SolvedCover(s, b,
         SolveLaplacian(s.factor.factor, Embedded(s.factor, Slice(b.sol, NElimOf(s), s.nReduced)),
                        gauge))

Ungauge(s, b) ==
  IF GroundOf(s) = None THEN b
  ELSE [b EXCEPT !.sol = Stored(@, NElimOf(s),
          LessMean(Slice(@, NElimOf(s), NKept(s)), @[NElimOf(s) + GroundOf(s)]))]

Backsubstitute(s, b) ==
  [b EXCEPT !.sol = Stored(@, 0, [i \in 1..NElimOf(s) |->
     Add(b.rhs[i], Mul(s.inv[i], RowProduct(s.c[i], Slice(@, NElimOf(s), NKept(s)), Nil)))])]

CenterSolution(s, b) == [b EXCEPT !.sol = IF Floats(s) THEN SubtractMean(@, 0, NInternal(s)) ELSE @]

(* Up to the reduced solve, and from there on.                             *)
Reduced(s, b) ==
  CopyReduced(s, GaugeRhs(s, ReduceRhs(s, ScaleEliminated(s,
    CenterRhs(s, [b EXCEPT !.rhs = Fold(s, @)])))))
UnfoldSolution(s, b) == [b EXCEPT !.sol = Fold(s, @)]
Recovered(s, b) == UnfoldSolution(s, CenterSolution(s, Backsubstitute(s, Ungauge(s, b))))
SolveLocal(s, b, gauge) == Recovered(s, SolveReduced(s, Reduced(s, b), gauge))

-----------------------------------------------------------------------------
(* Saving and loading: the dimensions and the transpose are made anew.     *)

SolverNew(c, ct, inv, factor, coordinates) ==
  [c |-> c, ct |-> ct, inv |-> inv, factor |-> factor, coordinates |-> coordinates,
   nReduced |-> SolveDimension(factor)]

Refused(why) == [error |-> why]
LoadedFactor(r) ==
  IF r.kind = "Cover" /\ r.factor.n \notin 2 * r.m..2 * r.m + 2 THEN Refused("cover") ELSE r
LoadedChecked(s, factor) ==
  IF \/ "error" \in DOMAIN factor
     \/ ~IsStructurallyValid(s.c, Len(s.ct))
     \/ ~IsStructurallyValid(s.ct, Len(s.c))
     \/ Len(s.inv) # Len(s.c)
     \/ s.coordinates # None /\ Len(s.coordinates) # NInternal(s)
     \/ ~SpansKeptBlock(factor, NKept(s))
  THEN Refused("solver")
  ELSE SolverNew(s.c, Transposed(s.c, NKept(s)), s.inv, factor, s.coordinates)
Loaded(s) == LoadedChecked(s, LoadedFactor(s.factor))

-----------------------------------------------------------------------------
(* build. *)

Signed == component.form = "SignedPendingCover"

Factored(l, n) ==
  IF Signed THEN [kind |-> "Cover", factor |-> [laplacian |-> l, n |-> n], m |-> component.nKept]
  ELSE [kind |-> "Direct", factor |-> [laplacian |-> l, n |-> n], grounding |-> component.grounding]

SolverOf(own, factor) == SolverNew(own.matrix.c, own.ct, own.inv, factor, component.coordinates)

TriesDense(nKept) == config.denseThreshold > 0 /\ nKept <= config.denseThreshold
CoveredBy(own) == IF "error" \in DOMAIN own \/ ~Signed THEN own ELSE EliminatedOf(CoverOf(own.matrix))

Eliminate ==
  /\ pc = "start"
  /\ eliminated' = CoveredBy(EliminatedOf(component))
  /\ pc' = IF "error" \in DOMAIN eliminated' THEN "failed"
           ELSE IF TriesDense(eliminated'.matrix.nKept) THEN "dense" ELSE "sparse"
  /\ UNCHANGED <<component, config, attempts, complement, solver, buffers, solved>>

Build(l, n) ==
  /\ complement' = l
  /\ solver' = SolverOf(EliminatedOf(component), Factored(l, n))
  /\ \E leftover \in Leftovers :
       buffers' = [rhs |-> [i \in 1..ScratchSize(solver') |-> leftover],
                   sol |-> [i \in 1..ScratchSize(solver') |-> leftover]]
  /\ attempts' = Append(attempts, "Factor")
  /\ pc' = "built"

Fail(outcome, next) ==
  /\ attempts' = Append(attempts, outcome)
  /\ pc' = next
  /\ UNCHANGED <<complement, solver, buffers>>

(* Mutant: an unusable pivot is an error like any other. *)
AfterDenseFatal(outcome) == "failed"

(* Only an unusable pivot sends the build on to the second attempt.        *)
AfterDense(outcome) == IF outcome = "DenseFactorizationFailed" THEN "sparse" ELSE "failed"

FactorDense ==
  /\ pc = "dense"
  /\ \/ \E l \in {ExactForFactor(eliminated)}, aux \in Auxiliaries : Build(l, Len(l) + aux)
     \/ \E outcome \in {"DenseFactorizationFailed", "Other"} : Fail(outcome, AfterDense(outcome))
  /\ UNCHANGED <<component, config, eliminated, solved>>

(* Mutant: after an unusable pivot the complement is sampled. *)
SparseComplementsRetried ==
  IF config.schur = "Exact" /\ attempts = <<>> THEN {ExactForFactor(eliminated)}
  ELSE Sampled(eliminated.matrix)

SparseComplements ==
  IF config.schur = "Exact" THEN {ExactForFactor(eliminated)} ELSE Sampled(eliminated.matrix)

FactorSparse ==
  /\ pc = "sparse"
  /\ \/ \E l \in SparseComplements, aux \in Auxiliaries : Build(l, Len(l) + aux)
     \/ Fail("Other", "failed")
  /\ UNCHANGED <<component, config, eliminated, solved>>

(* The caller has gathered its residual, here a unit vector, into rhs.     *)
Unit(n, i) == [k \in 1..n |-> IF k = i THEN One ELSE Nil]
Loading(i) == [buffers EXCEPT !.rhs = Stored(@, 0, Unit(NInternal(solver), i))]
Answered(i, b) ==
  /\ buffers' = b
  /\ solved' = Append(solved, [unit |-> i, z |-> Slice(b.sol, 0, NInternal(solver))])
Solve ==
  /\ pc = "built"
  /\ Len(solved) < MaxSolves
  /\ \E i \in 1..NInternal(solver), gauge \in Gauges :
       \E b \in {SolveLocal(solver, Loading(i), gauge)} : Answered(i, b)
  /\ UNCHANGED <<component, config, pc, eliminated, attempts, complement, solver>>

(* The factor reports an error: no solution, and other leftovers.          *)
SolveFails ==
  /\ pc = "built"
  /\ solved = <<>>
  /\ \E i \in FailingUnits : buffers' = Reduced(solver, Loading(i))
  /\ UNCHANGED <<component, config, pc, eliminated, attempts, complement, solver, solved>>

Init ==
  /\ component \in Components
  /\ config \in Configs
  /\ pc = "start"
  /\ eliminated = None
  /\ attempts = <<>>
  /\ complement = None
  /\ solver = None
  /\ buffers = None
  /\ solved = <<>>

Next == Eliminate \/ FactorDense \/ FactorSparse \/ Solve \/ SolveFails

Spec == Init /\ [][Next]_vars

-----------------------------------------------------------------------------
(* Correctness. *)

(* What is factored is a connected Laplacian with the columns of a row in  *)
(* ascending order, which the factorization takes for granted: exact or    *)
(* sampled, of a matrix or of its cover, floating or with a ground vertex. *)
Linked(S, T) == \E i \in S : \E e \in DOMAIN complement[i] : complement[i][e].at \in T
ComplementIsLaplacian ==
  complement # None =>
    \A i \in DOMAIN complement :
      /\ \A e, f \in DOMAIN complement[i] : e < f => complement[i][e].at < complement[i][f].at
      /\ \A j \in DOMAIN complement :
           /\ CellAt(complement[i], j) = CellAt(complement[j], i)
           /\ i # j => Leq(CellAt(complement[i], j), Nil)
      /\ SumSeq([e \in DOMAIN complement[i] |-> complement[i][e].value]) = Nil
      /\ \A S \in (SUBSET DOMAIN complement) \ {{}, DOMAIN complement} :
           Linked(S, DOMAIN complement \ S)

(* The complement has to be the true one: it was asked for, a dense        *)
(* factorization used it, or no star has enough edges to be sampled.       *)
MustBeExact ==
  \/ config.schur = "Exact"
  \/ TriesDense(eliminated.matrix.nKept) /\ Len(attempts) = 1
  \/ \A k \in DOMAIN eliminated.matrix.c : Len(StarEntries(eliminated.matrix, k)) <= 2

MatrixRow(m, y, i) ==
  IF i <= NElim(m)
  THEN Add(Mul(m.diagonal[i], y[i]), Neg(RowProduct(m.c[i], KeptOf(m, y), Nil)))
  ELSE Add(Mul(m.diagonal[i], y[i]),
           Neg(RowProduct(Transposed(m.c, m.nKept)[i - NElim(m)], y, Nil)))
Centered(v, floats) == IF floats THEN SubtractMean(v, 0, Len(v)) ELSE v

Solves(m, y, r) == [i \in DOMAIN y |-> MatrixRow(m, y, i)] = r /\ y = Centered(y, Floats(solver))

(* With a true complement a solve inverts the component's matrix in its    *)
(* folded coordinates, up to the mean where the matrix is singular: signed *)
(* or not, scaled or not, with whatever gauge, vertices of the factor and  *)
(* leftovers of earlier solves.                                            *)
SolvesLocalSystem ==
  pc = "built" /\ MustBeExact => \A k \in DOMAIN solved :
    Solves(component,
           [i \in DOMAIN solved[k].z |-> Div(solved[k].z[i], FoldFactor(solver, i))],
           Centered(Fold(solver, Unit(NInternal(solver), solved[k].unit)), Floats(solver)))

(* A local operator is symmetric and always the same, sampled or not: the  *)
(* preconditioner of MLSMR has to be, and a solve inherits the buffers and *)
(* the gauge of no other.                                                  *)
LocalOperatorSymmetric ==
  \A j, k \in DOMAIN solved :
    /\ solved[j].z[solved[k].unit] = solved[k].z[solved[j].unit]
    /\ solved[j].unit = solved[k].unit => solved[j].z = solved[k].z

(* Every solver that can be built can be saved and loaded, and is the same *)
(* afterwards.                                                             *)
LoadsBack == solver # None => Loaded(solver) = solver

(* A build fails only if the factorization reports more than an unusable   *)
(* pivot.                                                                  *)
FailsOnlyFatally == pc = "failed" => attempts # <<>> /\ Last(attempts) = "Other"
=============================================================================

-------------------------------- MODULE Solver --------------------------------
(***************************************************************************)
(* The solver of crates/within/src/solver.rs: Solver::new, and solve and   *)
(* solve_batch, whose right-hand sides are rayon tasks that share the      *)
(* solver.  A solve is a batch of one.                                     *)
(*                                                                         *)
(* The design is lowered from effects (Effects), its change of basis is    *)
(* that of Reparam.  The least-squares iteration (Lsmr) is abstracted: it  *)
(* fails in the preconditioner, or returns some coefficients.  Those that  *)
(* no weighted row loads on, to which nothing but the preconditioner could *)
(* give a value, are 0 unless it does (reach).                             *)
(***************************************************************************)
EXTENDS Reparam, Effects

CONSTANTS
  Inputs,          (* [effects, weights] of callers                          *)
  Preconditioners, (* what a caller asks for:                                *)
                   (*   [kind : {"off", "config"}], or, prebuilt, a matrix   *)
                   (*   of nDofs rows that gives values to the coefficients  *)
                   (*   in reach whatever column they have in this design    *)
  Batches,         (* sequences of right-hand sides, in the caller's order   *)
  Amplitudes       (* integers: the answers of the iteration, see Answers    *)

(* What the types of the callers' data say. *)
ASSUME SolverAssumption ==
  /\ MaxDofs \in Nat
  /\ None \notin {"SlopeLengthMismatch", "InvalidLoading",
                 "ResponseLength", "ResponseNotFinite", "PreconditionerFailed"}
  /\ \A i \in Inputs :
       i.effects \in Seq([levels : Seq(Nat), intercept : BOOLEAN,
                         slopes : Seq(Seq(Int \cup {NotFinite}))])
  /\ Batches \subseteq Seq(Seq(Int \cup {NotFinite}))

VARIABLES
  input,     (* the caller's data                                            *)
  solver,    (* None, the BuildError, or the solver                          *)
  ys,        (* the right-hand sides of the current or last call             *)
  task,      (* of each of them: queued, solving or done                     *)
  solution,  (* of each of them: None or its RhsSolution                     *)
  saved,     (* the error that collecting the results kept                   *)
  result     (* None during a call, then what it returned                    *)

callVars == <<ys, task, solution, saved, result>>
vars == <<input, solver, callVars>>

Failed(e) == [error |-> e]
IsFailed(r) == "error" \in DOMAIN r

Built == solver # None /\ ~IsRejected(solver)

-----------------------------------------------------------------------------
(* Solver::new *)

InternalWeights(d, weights) == IF weights = None THEN None ELSE PermuteIn(d, weights)

SolverWith(d, weights, p, rp) ==
  [design |-> [d EXCEPT !.frame = rp.frame], weights |-> weights, preconditioner |-> p,
   reparam |-> [terms |-> rp.terms, unidentified |-> rp.unidentified]]

(* A given preconditioner must have the design's size; one that is built   *)
(* may fail to.                                                            *)
Assembled(d, p, s) ==
  CASE p.kind = "prebuilt" /\ p.nDofs # d.nDofs -> {Rejected("PreconditionerDimensionMismatch")}
    [] p.kind = "config" -> {Rejected("PreconditionerBuild"), s}
    [] OTHER -> {s}

(* The slopes are reparametrized with the weights in internal order. *)
Weighted(d, p, weights) ==
  Assembled(d, p, SolverWith(d, weights, p, Reparametrized(d.frame, d.terms, weights)))

Solvers(d, p) ==
  CASE IsRejected(d) -> {d}
    [] ~IsRejected(d) /\ ~WeightsValid(input.weights, d.nObs) -> {Rejected("InvalidWeights")}
    [] OTHER -> Weighted(d, p, InternalWeights(d, input.weights))

New ==
  /\ solver = None
  /\ \E p \in Preconditioners : solver' \in Solvers(NewDesign(input.effects), p)
  /\ UNCHANGED <<input, callVars>>

-----------------------------------------------------------------------------
(* solve_rhs *)

Coefficients(d) == 0..d.nDofs - 1

LoadingAt(frame, column, i) == IF column = Constant THEN One ELSE frame.loadings[column][i]

LoadsOn(d, a, i) ==
  /\ d.frame.levels[a.term][i] = a.level
  /\ LoadingAt(d.frame, d.terms[a.term].columns[a.column], i) # Nil

(* Coefficients with a nonzero column in W^(1/2) D. *)
Active(d, weights) ==
  {c \in Coefficients(d) :
     \E i \in 1..d.nObs : Weight(weights, i) > 0 /\ LoadsOn(d, Address(d.terms, c), i)}

Reach(p) == IF p.kind = "prebuilt" THEN p.reach ELSE {}

(* Different coefficients get different values. *)
Answers(d, weights, p) ==
  {[c \in Coefficients(d) |->
      IF c \in Active(d, weights) \cup Reach(p) THEN <<a * (c + 1), 1>> ELSE Nil] : a \in Amplitudes}

(* gather_apply: D x at a row. *)
Fit(d, x, i) ==
  Sum([q \in DOMAIN d.terms |->
    Sum([c \in DOMAIN d.terms[q].columns |->
      Mul(x[Index(d.terms[q], c, d.frame.levels[q][i])],
          LoadingAt(d.frame, d.terms[q].columns[c], i))])])

Demeaned(d, y, x) == [i \in 1..d.nObs |-> Difference(<<y[i], 1>>, Fit(d, x, i))]

(* Mutant: the residual is of the coefficients carried back. *)
RhsSolutionBackFirst(s, y, x) ==
  [x        |-> BackTransform(s.reparam, s.design.terms, x),
   demeaned |-> PermuteOut(s.design,
                  Demeaned(s.design, PermuteIn(s.design, y),
                           BackTransform(s.reparam, s.design.terms, x)))]

(* The residual is taken in the solver's basis and in internal order,      *)
(* before x is carried back.                                               *)
RhsSolution(s, y, x) ==
  [x        |-> BackTransform(s.reparam, s.design.terms, x),
   demeaned |-> PermuteOut(s.design, Demeaned(s.design, PermuteIn(s.design, y), x))]

InvalidRhs(y) ==
  CASE Len(y) # solver.design.nObs -> "ResponseLength"
    [] Len(y) = solver.design.nObs /\ NotFinite \in ToSet(y) -> "ResponseNotFinite"
    [] OTHER -> None

-----------------------------------------------------------------------------
(* solve and solve_batch *)

Call ==
  /\ Built
  /\ ys = None \/ result # None
  /\ ys' \in Batches
  /\ task' = [r \in DOMAIN ys' |-> "queued"]
  /\ solution' = [r \in DOMAIN ys' |-> None]
  /\ saved' = None
  /\ result' = None
  /\ UNCHANGED <<input, solver>>

(* The first error to arrive is kept. *)
Fail(r, e) ==
  /\ saved' = IF saved = None THEN e ELSE saved
  /\ task' = [task EXCEPT ![r] = "done"]
  /\ UNCHANGED <<input, solver, ys, solution, result>>

(* A worker takes up a right-hand side: it is checked first. *)
Begin(r) ==
  /\ task[r] = "queued"
  /\ IF InvalidRhs(ys[r]) # None THEN Fail(r, InvalidRhs(ys[r]))
     ELSE /\ task' = [task EXCEPT ![r] = "solving"]
          /\ UNCHANGED <<input, solver, ys, solution, saved, result>>

Finish(r) ==
  /\ task[r] = "solving"
  /\ \E x \in Answers(solver.design, solver.weights, solver.preconditioner) :
       solution' = [solution EXCEPT ![r] = RhsSolution(solver, ys[r], x)]
  /\ task' = [task EXCEPT ![r] = "done"]
  /\ UNCHANGED <<input, solver, ys, saved, result>>

(* The iteration fails in the preconditioner. *)
Break(r) ==
  /\ task[r] = "solving"
  /\ solver.preconditioner.kind # "off"
  /\ Fail(r, "PreconditionerFailed")

(* Once one has failed, those nobody has taken up need not be. *)
Skip(r) ==
  /\ task[r] = "queued"
  /\ saved # None
  /\ task' = [task EXCEPT ![r] = "done"]
  /\ UNCHANGED <<input, solver, ys, solution, saved, result>>

InOrder(x, n) == [k \in 1..n |-> x[k - 1]]

(* Mutant: the answers there are, whatever became of the others. *)
CollectedAvailable ==
  LET there == SelectSeq(solution, LAMBDA s : s # None)
  IN [x        |-> FlattenSeq([k \in DOMAIN there |-> InOrder(there[k].x, solver.design.nDofs)]),
      demeaned |-> FlattenSeq([k \in DOMAIN there |-> there[k].demeaned])]

(* The answers one after the other, or the error. *)
Collected ==
  IF saved # None THEN Failed(saved)
  ELSE [x        |-> FlattenSeq([r \in DOMAIN ys |-> InOrder(solution[r].x, solver.design.nDofs)]),
        demeaned |-> FlattenSeq([r \in DOMAIN ys |-> solution[r].demeaned])]

Return ==
  /\ ys # None
  /\ result = None
  /\ \A r \in DOMAIN ys : task[r] = "done"
  /\ result' = Collected
  /\ UNCHANGED <<input, solver, ys, task, solution, saved>>

-----------------------------------------------------------------------------
Init ==
  /\ input \in Inputs
  /\ solver = None
  /\ ys = None
  /\ task = <<>>
  /\ solution = <<>>
  /\ saved = None
  /\ result = None

Next ==
  \/ New
  \/ Call
  \/ Return
  \/ \E r \in DOMAIN task : Begin(r) \/ Finish(r) \/ Break(r) \/ Skip(r)

Spec == Init /\ [][Next]_vars

-----------------------------------------------------------------------------
(* What the caller gave, and what the solver made of it. *)

Ready == Built /\ ys = None
Answered == Built /\ ys # None /\ result # None /\ ~IsFailed(result)

CallerRows == DOMAIN input.effects[1].levels
CallerLevel(q, i) == input.effects[q].levels[i]
CallerIntercepts(q) == IF input.effects[q].intercept THEN 1 ELSE 0
CallerLoading(q, c, i) ==
  IF c <= CallerIntercepts(q) THEN 1 ELSE input.effects[q].slopes[c - CallerIntercepts(q)][i]
CallerWeight(i) == Weight(input.weights, i)

(* A coefficient of the r-th answer, and its residual at a row. *)
AnswerX(r, c) == result.x[(r - 1) * solver.design.nDofs + c + 1]
AnswerDemeaned(r, i) == result.demeaned[(r - 1) * solver.design.nObs + i]

CallerFit(r, i) ==
  Sum([q \in DOMAIN input.effects |->
    Sum([c \in 1..CallerIntercepts(q) + Len(input.effects[q].slopes) |->
      Mul(AnswerX(r, Index(solver.design.terms[q], c, CallerLevel(q, i))),
          <<CallerLoading(q, c, i), 1>>)])])

SlopeTerms == {q \in DOMAIN input.effects : input.effects[q].slopes # <<>>}
Covariates(q) == DOMAIN input.effects[q].slopes
ColumnOf(q, j) == CallerIntercepts(q) + j
Levels(q) == 0..Max(ToSet(input.effects[q].levels))
CallerRowsAt(q, level) == {i \in CallerRows : CallerLevel(q, i) = level}

(* Weighted moments of the caller's covariates a and b over rows, times    *)
(* the weight of the rows if they are centered.                            *)
WeightedSum(rows, F(_)) == MapThenSumSet(LAMBDA i : CallerWeight(i) * F(i), rows)
CallerMoment(q, rows, a, b) ==
  LET Z(j, i) == input.effects[q].slopes[j][i]
      ab == WeightedSum(rows, LAMBDA i : Z(a, i) * Z(b, i))
  IN IF input.effects[q].intercept
     THEN WeightedSum(rows, LAMBDA i : 1) * ab
            - WeightedSum(rows, LAMBDA i : Z(a, i)) * WeightedSum(rows, LAMBDA i : Z(b, i))
     ELSE ab

Determinant[m \in Seq(Seq(Int))] ==
  IF m = <<>> THEN 1
  ELSE SumInt([k \in DOMAIN m |->
         (IF k % 2 = 1 THEN 1 ELSE -1) * m[1][k]
           * Determinant[[i \in 1..Len(m) - 1 |-> RemoveAt(m[i + 1], k)]]])

(* The covariates J of term q are linearly independent over a level's      *)
(* weighted rows, from its intercept as well if there is one.              *)
Independent(q, level, J) ==
  LET js == SetToSortSeq(J, <)
      M(a, b) == CallerMoment(q, CallerRowsAt(q, level), a, b)
  IN Determinant[[a \in DOMAIN js |-> [b \in DOMAIN js |-> M(js[a], js[b])]]] # 0

UnidentifiedSlopes(q, level) ==
  {j \in Covariates(q) :
     AddressAt(q, ColumnOf(q, j), level) \in ToSet(solver.reparam.unidentified)}

(* The slopes a solver calls identified are a maximal set of independent   *)
(* covariates of their level, by determinants of the caller's moments      *)
(* rather than by pivots; an intercept is identified when its level has    *)
(* weight.  The addresses come in ascending order.                         *)
UnidentifiedIsRankDeficit ==
  Ready =>
    /\ \A q \in SlopeTerms : \A level \in Levels(q) :
         LET kept == Covariates(q) \ UnidentifiedSlopes(q, level)
         IN /\ Independent(q, level, kept)
            /\ \A j \in UnidentifiedSlopes(q, level) : ~Independent(q, level, kept \cup {j})
            /\ input.effects[q].intercept =>
                 (AddressAt(q, 1, level) \in ToSet(solver.reparam.unidentified)
                    <=> WeightedSum(CallerRowsAt(q, level), LAMBDA i : 1) = 0)
    /\ \A k \in 2..Len(solver.reparam.unidentified) :
         LET a == solver.reparam.unidentified[k - 1]
             b == solver.reparam.unidentified[k]
         IN \/ a.term < b.term
            \/ a.term = b.term /\ a.level < b.level
            \/ a.term = b.term /\ a.level = b.level /\ a.column < b.column

(* Within a level the solver's columns are orthonormal in the weights: each *)
(* has the square norm it was divided by, or is 0 past the rank, two have   *)
(* no product, and none has one with the intercept.                         *)
WhitenedGram ==
  Ready =>
    \A k \in DOMAIN solver.reparam.terms :
      LET q == solver.reparam.terms[k].q
          U(j, i) == solver.design.frame.loadings[solver.design.terms[q].columns[ColumnOf(q, j)]][i]
      IN \A level \in Levels(q) :
           LET rows == RowsAt(solver.design.frame, q, level)
               directions == solver.reparam.terms[k].transforms[level].rows
               W(i) == <<Weight(solver.weights, i), 1>>
           IN /\ \A a, b \in Covariates(q) :
                   Sum([i \in rows |-> Mul(W(i), Mul(U(a, i), U(b, i)))]) =
                     IF a = b /\ a \in DOMAIN directions THEN directions[a].normSq ELSE Nil
              /\ input.effects[q].intercept =>
                   \A a \in Covariates(q) : Sum([i \in rows |-> Mul(W(i), U(a, i))]) = Nil

(* Whatever x the iteration arrives at, the coefficients and the residual  *)
(* a caller gets belong together: demeaned is y - D x of the caller's own  *)
(* covariates, observations in the caller's order, in the block of its own *)
(* right-hand side, although it was computed from other columns, other     *)
(* coefficients and another order, and the tasks ended in any order.       *)
PredictionsUnchanged ==
  Answered =>
    \A r \in DOMAIN ys : \A i \in CallerRows :
      AnswerDemeaned(r, i) = Difference(<<ys[r][i], 1>>, CallerFit(r, i))

(* What SolveResult::x says: a slot of an unidentified direction holds 0.  *)
UnidentifiedAreZero ==
  Answered =>
    \A r \in DOMAIN ys : \A k \in DOMAIN solver.reparam.unidentified :
      LET a == solver.reparam.unidentified[k]
      IN AnswerX(r, Index(solver.design.terms[a.term], a.column, a.level)) = Nil

(* A batch is answered in whole or not at all: an error is one that a      *)
(* right-hand side of it has, and where one is invalid there is an error,  *)
(* whoever else finished before or was still running.                      *)
BatchAllOrNothing ==
  (Built /\ ys # None /\ result # None) =>
    IF IsFailed(result)
    THEN \/ \E r \in DOMAIN ys : result.error = InvalidRhs(ys[r])
         \/ /\ result.error = "PreconditionerFailed"
            /\ solver.preconditioner.kind # "off"
            /\ \E r \in DOMAIN ys : InvalidRhs(ys[r]) = None
    ELSE /\ \A r \in DOMAIN ys : InvalidRhs(ys[r]) = None
         /\ Len(result.x) = Len(ys) * solver.design.nDofs
         /\ Len(result.demeaned) = Len(ys) * solver.design.nObs
=============================================================================

--------------------------------- MODULE Lsmr ---------------------------------
(***************************************************************************)
(* The least-squares solver of crates/schwarz-precond/src/lsmr.rs: the two *)
(* entry points `lsmr` and `mlsmr`, the bidiagonalization streams that     *)
(* feed them (lsmr/bidiag.rs) and the recurrence, the stopping tests and   *)
(* the solution update (lsmr/recurrence.rs), in exact arithmetic.          *)
(*                                                                         *)
(* A caller runs solves of one system one after the other, and may pass    *)
(* the solution of one, converged or handed off, as the warm start of the  *)
(* next with another preconditioner: the ladder `mlsmr` is made for.       *)
(*                                                                         *)
(* Scalars that the code obtains by square roots are roots in the sense of *)
(* ExactArith (their signed squares).  Overflow is not modelled.  Of the   *)
(* loss of orthogonality that rounding brings, and that the windowed       *)
(* reorthogonalization is there to repair, the model has what the window   *)
(* can repair: a step may leave in its new vector a part of one of the     *)
(* last basis vectors, as many of them as the window is to hold.           *)
(***************************************************************************)
EXTENDS ExactArith, SequencesExt

CONSTANTS
  Problems,         (* what callers solve: [op |-> matrix, rhs |-> b] over  *)
                    (*   the integers, localSize |-> vectors in the window, *)
                    (*   0 for none, and policies |-> escalation policies   *)
                    (*   [window, threshold] they may hand over             *)
  Preconditioners,  (* symmetric positive definite matrices M^-1            *)
  Indefinite,       (* symmetric matrices that are not                      *)
  StartVectors,     (* warm starts of the caller's own, rational vectors    *)
  Tolerances,       (* tol, as roots                                        *)
  Budgets,          (* maxiter                                              *)
  Drifts,           (* how much of a basis vector rounding brings back      *)
  MaxCalls,         (* bound: solves of one system                          *)
  MaxDenominator,   (* bound: denominators in a warm start                  *)
  None              (* Option::None                                         *)

Matrices(r, c) == [1..r -> [1..c -> Int]]

ASSUME LsmrAssumption ==
  /\ \A t \in Tolerances : t \in Rat /\ Leq(Nil, t)
  /\ Budgets \subseteq Nat
  /\ \A s \in Problems :
       /\ Len(s.op) \in Nat \ {0} /\ Len(s.op[1]) \in Nat \ {0}
       /\ s.op \in Matrices(Len(s.op), Len(s.op[1])) /\ s.rhs \in [1..Len(s.op) -> Int]
       /\ s.localSize \in Nat
       /\ \A p \in s.policies :
            /\ p.window \in Nat \ {0}
            /\ p.threshold \in Rat /\ Leq(Nil, p.threshold) /\ Less(p.threshold, One)
  /\ \A m \in Preconditioners \cup Indefinite : m \in Matrices(Len(m), Len(m))
  /\ StartVectors \subseteq Seq(Rat)
  /\ Drifts \subseteq Rat
  /\ MaxCalls \in Nat
  /\ None \notin Rat /\ None \notin {"ResidualTolerance", "NormalEquationTolerance"}

VARIABLES
  problem,   (* the operator and the right-hand side                        *)
  call,      (* arguments of the current or last call                       *)
  pc,        (* idle, init (rhs is ready) or loop                           *)
  bidiag,    (* GolubKahan or ModifiedGolubKahan, with the last beta        *)
  rec,       (* LsmrRecurrenceState                                         *)
  sol,       (* SolutionState                                               *)
  rot,       (* prev_rot                                                    *)
  aNormSq,   (* ConvergenceState.a_norm_sq                                  *)
  handler,   (* StalenessRun                                                *)
  itn,       (* iterations completed                                        *)
  past,      (* history: the basis vectors of the run, [v, p = M v]         *)
  trail,     (* history: the residuals its policy has seen                  *)
  result,    (* what the last call returned                                 *)
  calls      (* calls made so far                                           *)

loopVars == <<bidiag, rec, sol, rot, aNormSq, handler, itn, past, trail>>
vars == <<problem, call, pc, loopVars, result, calls>>

A == problem.op
B == Integral(problem.rhs)
NoX == Nils(Cols(A))
Warm == call.x0 # None

-----------------------------------------------------------------------------
(* WindowRing: the last basis vectors, each with its M v in the second     *)
(* lane.  Without preconditioner M is the identity and has no lane.        *)

Least(a, b) == IF a < b THEN a ELSE b
WindowCapacity == Least(problem.localSize, Least(Len(A), Len(A[1])))

NewRing ==
  [slots |-> [s \in 0..WindowCapacity - 1 |-> [v |-> NoX, p |-> NoX]], next |-> 0, count |-> 0]

(* Mutant: slots are counted from the next one before they are all filled. *)
ChronoSlotsFromNext(ring) ==
  [i \in 1..ring.count |-> (ring.next + i - 1) % WindowCapacity]

(* Oldest first: once the ring is full the oldest is where the next goes.  *)
ChronoSlots(ring) ==
  [i \in 1..ring.count |->
     ((IF ring.count < WindowCapacity THEN 0 ELSE ring.next) + i - 1) % WindowCapacity]

Push(ring, v, p) ==
  IF WindowCapacity = 0 THEN ring
  ELSE [slots |-> [ring.slots EXCEPT ![ring.next] = [v |-> v, p |-> p]],
        next  |-> (ring.next + 1) % WindowCapacity,
        count |-> Least(ring.count + 1, WindowCapacity)]

(* An inner product as a root. *)
DotRootBy(r, q) == Mul(r, Mul(Magnitude(r), q))
DotRoot(v, w) ==
  DotRootBy(Mul(Mul(v.c, w.c), <<DotDir(v.dir, w.dir), 1>>), Mul(v.q, w.q))

(* Mutant: p is not corrected along with v. *)
ProjectedVOnly(s, slot, c) == [v |-> Minus(s.v, Scale(c, slot.v)), p |-> s.p]

Projected(s, slot, c) ==
  [v |-> Minus(s.v, Scale(c, slot.v)), p |-> Minus(s.p, Scale(c, slot.p))]

(* reorthogonalize: the projections on the stored vectors are subtracted,  *)
(* one after the other, from v and in step from p.                         *)
Reorthogonalized(ring, v, p) ==
  FoldLeft(LAMBDA s, k : Projected(s, ring.slots[k],
                           DotRoot(s.v, IF call.mInv = None THEN ring.slots[k].v ELSE ring.slots[k].p)),
           [v |-> v, p |-> p], ChronoSlots(ring))

(* What rounding leaves of basis vector w in a vector v. *)
DriftBy(t, v, w) == Plus(v, Scale(Mul(t, Div(v.q, w.q)), w))

-----------------------------------------------------------------------------
(* Bidiagonalization streams. *)

(* Mutant: the residual with the wrong sign. *)
StartResidualNegated == IF Warm THEN Minus(Apply(A, Vec(call.x0)), B) ELSE B

(* The vector the stream starts from: b, or the residual of the warm start. *)
StartResidual == IF Warm THEN Minus(B, Apply(A, Vec(call.x0))) ELSE B

(* v / alpha when alpha > 0. *)
Normalized(v, alpha) == IF Positive(alpha) THEN Scale(Inv(alpha), v) ELSE v

(* alpha_from_vp for v = M^-1 p: <v, p> is the signed square of alpha;     *)
(* below 0 the preconditioner is indefinite.                               *)
AlphaFromVp(v, p) == Dot(v, p)

(* The new vector, normalized, and pushed into the window with its p.      *)
Pushed(s, v, alpha) ==
  [s EXCEPT !.v = v, !.alpha = alpha,
            !.ring = Push(s.ring, v, IF Positive(alpha) THEN Scale(Inv(alpha), s.p) ELSE NoX)]
WithV(s, v, alpha) == Pushed(s, Normalized(v, alpha), alpha)

(* u / beta, and v = A^T u, normalized. *)
GolubKahanV(s, v) == WithV(s, v, NormSq(v))
GolubKahanInitU(u, beta) ==
  GolubKahanV([u |-> u, v |-> NoX, p |-> NoX, alpha |-> Nil, beta |-> beta, betaInv |-> One,
               ring |-> NewRing], ApplyAdjoint(A, u))
GolubKahanInit(b, beta) == GolubKahanInitU(Scale(Inv(beta), b), beta)

(* alpha is the norm of v as the window leaves it. *)
GolubKahanDrifted(s, v, drift) ==
  GolubKahanV(s, Reorthogonalized(s.ring, IF drift = None THEN v ELSE DriftBy(drift.by, v, drift.of.v),
                                  NoX).v)
GolubKahanNextV(s, u, beta, drift) ==
  GolubKahanDrifted([s EXCEPT !.u = u, !.beta = beta],
                    Minus(ApplyAdjoint(A, u), Scale(beta, s.v)), drift)
GolubKahanBeta(s, u, beta, drift) ==
  IF beta = Nil THEN [s EXCEPT !.u = u, !.v = NoX, !.alpha = Nil, !.beta = Nil]
  ELSE GolubKahanNextV(s, Scale(Inv(beta), u), beta, drift)
GolubKahanU(s, u, drift) == GolubKahanBeta(s, u, NormSq(u), drift)
GolubKahanStep(s, drift) == GolubKahanU(s, Minus(Apply(A, s.v), Scale(s.alpha, s.u)), drift)

(* p = alpha M v is kept scaled; the stored alpha, which the assertion     *)
(* there wants positive, is divided out.                                   *)
UpdatePTilde(s, u, beta) ==
  Minus(Scale(Inv(beta), ApplyAdjoint(A, u)), Scale(Div(beta, s.alpha), s.p))

(* v = M^-1 p, both corrected by the window, normalized in M's metric. *)
Normalize(s, vp) == WithV([s EXCEPT !.p = vp.p], vp.v, AlphaFromVp(vp.v, vp.p))
ReorthonormalizeV(s, p) == Normalize(s, Reorthogonalized(s.ring, Apply(call.mInv, p), p))

Modified(u, beta, betaInv, ring) ==
  [u |-> u, v |-> NoX, p |-> NoX, alpha |-> Nil, beta |-> beta, betaInv |-> betaInv, ring |-> ring]
ModifiedInitU(u, beta) == ReorthonormalizeV(Modified(u, beta, One, NewRing), ApplyAdjoint(A, u))
ModifiedInit(b, beta) == ModifiedInitU(Scale(Inv(beta), b), beta)

(* The modified stream leaves u unnormalized: 1/beta makes up for it in    *)
(* the next step.                                                          *)
ModifiedDrifted(s, p, drift) ==
  ReorthonormalizeV(s, IF drift = None THEN p ELSE DriftBy(drift.by, p, drift.of.p))
ModifiedBeta(s, u, beta, drift) ==
  IF beta = Nil THEN Modified(u, Nil, Nil, s.ring)
  ELSE ModifiedDrifted(Modified(u, beta, Inv(beta), s.ring), UpdatePTilde(s, u, beta), drift)
ModifiedU(s, u, drift) == ModifiedBeta(s, u, NormSq(u), drift)
ModifiedStep(s, drift) ==
  ModifiedU(s, Minus(Apply(A, s.v), Scale(Mul(s.alpha, s.betaInv), s.u)), drift)

StreamInit(b) ==
  IF call.mInv = None THEN GolubKahanInit(b, NormSq(b)) ELSE ModifiedInit(b, NormSq(b))
StreamStep(s, drift) ==
  IF call.mInv = None THEN GolubKahanStep(s, drift) ELSE ModifiedStep(s, drift)

-----------------------------------------------------------------------------
(* Recurrence. *)

GivensBy(r, a, b) ==
  IF Positive(r) THEN [c |-> Div(a, r), s |-> Div(b, r), r |-> r]
  ELSE [c |-> One, s |-> Nil, r |-> r]
Givens(a, b) == GivensBy(Hypot(a, b), a, b)

RecurrenceInit(s) ==
  [alphaBar |-> s.alpha, phiBar |-> s.beta, cBar |-> One, sBar |-> Nil,
   zetaBar |-> Mul(s.alpha, s.beta), zeta0 |-> Mul(s.alpha, s.beta)]

(* Mutant: s_bar is never committed. *)
RotatedStale(r, s, hat, thetaNew, bar) ==
  [state |-> [alphaBar |-> Neg(Mul(hat.c, s.alpha)),
              phiBar |-> Mul(hat.s, r.phiBar),
              cBar |-> bar.c,
              sBar |-> r.sBar,
              zetaBar |-> Neg(Mul(bar.s, r.zetaBar)),
              zeta0 |-> r.zeta0],
   rot |-> [rho |-> hat.r, rhoBar |-> bar.r, thetaNew |-> thetaNew,
            thetaBar |-> Mul(r.sBar, hat.r), zeta |-> Mul(bar.c, r.zetaBar)]]

(* Both rotations, by hat and bar; theta_bar is read before sBar is        *)
(* overwritten.                                                            *)
Rotated(r, s, hat, thetaNew, bar) ==
  [state |-> [alphaBar |-> Neg(Mul(hat.c, s.alpha)),
              phiBar |-> Mul(hat.s, r.phiBar),
              cBar |-> bar.c,
              sBar |-> bar.s,
              zetaBar |-> Neg(Mul(bar.s, r.zetaBar)),
              zeta0 |-> r.zeta0],
   rot |-> [rho |-> hat.r, rhoBar |-> bar.r, thetaNew |-> thetaNew,
            thetaBar |-> Mul(r.sBar, hat.r), zeta |-> Mul(bar.c, r.zetaBar)]]

RotationTilde(r, s, hat, thetaNew) ==
  Rotated(r, s, hat, thetaNew, Givens(Mul(r.cBar, hat.r), thetaNew))
RotationHat(r, s, hat) == RotationTilde(r, s, hat, Mul(hat.s, s.alpha))
Rotations(r, s) == RotationHat(r, s, Givens(r.alphaBar, s.beta))

FirstRotation == [rho |-> One, rhoBar |-> One, thetaNew |-> Nil, thetaBar |-> Nil, zeta |-> Nil]

SolutionInit(v) == [x |-> NoX, h |-> v, hBar |-> NoX]

(* v / (a b), or nothing when a b is (next to) zero. *)
Over(v, a, b) == IF Nil \in {a, b} THEN NoX ELSE Scale(Inv(b), Scale(Inv(a), v))

SolutionUpdateBy(hBar, s, v, curr) ==
  [x |-> Plus(s.x, Over(Scale(curr.zeta, hBar), curr.rho, curr.rhoBar)),
   h |-> Minus(v, Over(Scale(curr.thetaNew, s.h), curr.rho, One)),
   hBar |-> hBar]
SolutionUpdate(s, v, curr, prev) ==
  SolutionUpdateBy(
    Minus(s.h, Over(Scale(curr.rho, Scale(curr.thetaBar, s.hBar)), prev.rho, prev.rhoBar)),
    s, v, curr)

(* Mutant: strict comparisons, which a tolerance of 0 never meets. *)
StopReasonStrict(r, normSq) ==
  LET residual == Magnitude(r.phiBar)
  IN CASE Less(residual, Mul(call.tol, NormSq(B))) -> "ResidualTolerance"
       [] OTHER -> IF Less(Magnitude(r.zetaBar), Mul(call.tol, Mul(normSq, residual)))
                   THEN "NormalEquationTolerance" ELSE None

(* Mutant: the absolute tolerance follows the residual the run starts from. *)
StopReasonOfStart(r, normSq) ==
  LET residual == Magnitude(r.phiBar)
  IN CASE Leq(residual, Mul(call.tol, NormSq(StartResidual))) -> "ResidualTolerance"
       [] OTHER -> IF Leq(Magnitude(r.zetaBar), Mul(call.tol, Mul(normSq, residual)))
                   THEN "NormalEquationTolerance" ELSE None

(* ConvergenceState::check; the absolute tolerance is tol times the norm   *)
(* of b, also when the run started from a warm start's residual.           *)
StopReason(r, normSq) ==
  LET residual == Magnitude(r.phiBar)
  IN CASE Leq(residual, Mul(call.tol, NormSq(B))) -> "ResidualTolerance"
       [] OTHER -> IF Leq(Magnitude(r.zetaBar), Mul(call.tol, Mul(normSq, residual)))
                   THEN "NormalEquationTolerance" ELSE None

RelativeResidual(r) == Div(Magnitude(r.zetaBar), r.zeta0)

FreshHandler == [previous |-> None, stalled |-> 0]

(* Mutant: stalled ratios need not be consecutive. *)
ObservedInAll(h, current) ==
  [previous |-> current,
   stalled  |-> IF h.previous # None /\ Positive(h.previous)
                     /\ Less(call.policy.threshold, Div(current, h.previous))
                THEN h.stalled + 1 ELSE h.stalled]

(* StalenessRun::should_escalate: one contraction ratio is observed. *)
Observed(h, current) ==
  [previous |-> current,
   stalled  |-> IF h.previous = None THEN h.stalled
                ELSE IF ~Positive(h.previous) THEN h.stalled
                ELSE IF Less(call.policy.threshold, Div(current, h.previous)) THEN h.stalled + 1
                ELSE 0]

-----------------------------------------------------------------------------
(* A solve. *)

(* Mutant: the warm start is not added back. *)
ReturnedCorrection(x) == Rationals(x)

(* The solution handed back: what the run added to the warm start. *)
Returned(x) == Rationals(IF Warm THEN Plus(x, Vec(call.x0)) ELSE x)

Exit(reason, x, residual) ==
  /\ result' = [reason |-> reason,
                converged |-> reason \notin {"MaxIterations", "Escalated"},
                x |-> Returned(x),
                iterations |-> itn',
                residual |-> Magnitude(residual)]
  /\ pc' = "idle"

(* An error leaves the caller without a new solution. *)
Fail ==
  /\ result' = [result EXCEPT !.reason = "InvalidInput", !.converged = FALSE]
  /\ pc' = "idle"

(* An argument of the wrong shape or out of range is rejected. *)
Reject ==
  /\ pc = "idle"
  /\ calls < MaxCalls
  /\ calls' = calls + 1
  /\ Fail
  /\ UNCHANGED <<problem, call, loopVars>>

(* The caller calls lsmr (no preconditioner, no options) or mlsmr.  Only   *)
(* mlsmr takes a warm start, its own or the last answer, or a policy.      *)
Call ==
  /\ pc = "idle"
  /\ calls < MaxCalls
  /\ calls' = calls + 1
  /\ \E mInv \in Preconditioners \cup Indefinite \cup {None},
        x0 \in StartVectors \cup {result.x, None},
        policy \in problem.policies \cup {None}, tol \in Tolerances, budget \in Budgets :
       /\ IF mInv = None THEN x0 = None /\ policy = None ELSE Len(mInv) = Len(A[1])
       /\ x0 # None => Len(x0) = Len(A[1]) /\ \A j \in DOMAIN x0 : x0[j][2] <= MaxDenominator
       /\ call' = [mInv |-> mInv, x0 |-> x0, policy |-> policy, tol |-> tol, maxiter |-> budget]
  /\ pc' = "init"
  /\ itn' = 0
  /\ UNCHANGED <<problem, bidiag, rec, sol, rot, aNormSq, handler, past, trail, result>>

(* The right-hand side, or the warm start's residual, is exactly zero. *)
NothingToDo ==
  /\ pc = "init"
  /\ IsNil(StartResidual)
  /\ UNCHANGED itn
  /\ Exit(IF Warm THEN "WarmStartExact" ELSE "ZeroRhs", NoX, Nil)
  /\ UNCHANGED <<problem, call, bidiag, rec, sol, rot, aNormSq, handler, past, trail, calls>>

BasisVector(s) == [v |-> s.v, p |-> Scale(Inv(s.alpha), s.p)]

(* The stream is initialized; A^T rhs = 0 ends the solve, an indefinite    *)
(* preconditioner fails it, otherwise the iteration begins.                *)
Start ==
  /\ pc = "init"
  /\ ~IsNil(StartResidual)
  /\ UNCHANGED itn
  /\ \E s \in {StreamInit(StartResidual)} :
        CASE Less(s.alpha, Nil) -> Fail /\ UNCHANGED loopVars
          [] s.alpha = Nil ->
               /\ Exit("InitialNormalEquationResidualZero", NoX, s.beta)
               /\ UNCHANGED loopVars
          [] OTHER ->
               /\ bidiag' = s
               /\ rec' = RecurrenceInit(s)
               /\ sol' = SolutionInit(s.v)
               /\ rot' = FirstRotation
               /\ aNormSq' = s.alpha
               /\ handler' = FreshHandler
               /\ past' = <<BasisVector(s)>>
               /\ trail' = <<>>
               /\ pc' = "loop"
               /\ UNCHANGED result
  /\ UNCHANGED <<problem, call, calls>>

(* The basis vectors the window is to hold, oldest first. *)
Window == SubSeq(past, Len(past) - Least(Len(past), WindowCapacity) + 1, Len(past))

(* One pass of the loop: the stopping test comes before the escalation     *)
(* policy.                                                                 *)
Iterate ==
  /\ pc = "loop"
  /\ itn < call.maxiter
  /\ \E drift \in [by : Drifts, of : ToSet(Window)] \cup {None} : bidiag' = StreamStep(bidiag, drift)
  /\ IF Less(bidiag'.alpha, Nil)
     THEN Fail /\ UNCHANGED <<rec, sol, rot, aNormSq, handler, itn, past, trail>>
     ELSE /\ itn' = itn + 1
          /\ past' = IF Positive(bidiag'.alpha) THEN Append(past, BasisVector(bidiag')) ELSE past
          /\ aNormSq' = Add(aNormSq, Add(bidiag'.alpha, bidiag'.beta))
          /\ \E step \in {Rotations(rec, bidiag')} : rec' = step.state /\ rot' = step.rot
          /\ sol' = SolutionUpdate(sol, bidiag'.v, rot', rot)
          /\ \E stop \in {StopReason(rec', aNormSq')} :
               /\ handler' = IF stop = None /\ call.policy # None
                             THEN Observed(handler, RelativeResidual(rec')) ELSE handler
               /\ trail' = IF stop = None /\ call.policy # None
                           THEN Append(trail, RelativeResidual(rec')) ELSE trail
               /\ IF stop # None
                  THEN Exit(stop, sol'.x, rec'.phiBar)
                  ELSE IF call.policy # None /\ handler'.stalled >= call.policy.window
                  THEN Exit("Escalated", sol'.x, rec'.phiBar)
                  ELSE UNCHANGED <<pc, result>>
  /\ UNCHANGED <<problem, call, calls>>

(* The iteration budget is spent. *)
GiveUp ==
  /\ pc = "loop"
  /\ itn = call.maxiter
  /\ UNCHANGED itn
  /\ Exit("MaxIterations", sol.x, rec.phiBar)
  /\ UNCHANGED <<problem, call, bidiag, rec, sol, rot, aNormSq, handler, past, trail, calls>>

-----------------------------------------------------------------------------
Init ==
  /\ problem \in Problems
  /\ call = None
  /\ pc = "idle"
  /\ bidiag = None
  /\ rec = None
  /\ sol = None
  /\ rot = None
  /\ aNormSq = Nil
  /\ handler = FreshHandler
  /\ itn = 0
  /\ past = <<>>
  /\ trail = <<>>
  /\ result = [reason |-> "none", converged |-> FALSE, x |-> None, iterations |-> 0,
               residual |-> Nil]
  /\ calls = 0

Next == Reject \/ Call \/ NothingToDo \/ Start \/ Iterate \/ GiveUp

Spec == Init /\ [][Next]_vars

-----------------------------------------------------------------------------
(* What the numbers are about. *)

ResidualOf(x) == Minus(B, Apply(A, x))

(* v^T M^-1 v *)
MInvNormSq(v) == IF call.mInv = None THEN NormSq(v)
                 ELSE AlphaFromVp(Apply(call.mInv, v), v)

(* The squared normal-equation residual in M's metric. *)
NormalEqSq(x) == MInvNormSq(ApplyAdjoint(A, ResidualOf(x)))

(* The squared Frobenius norm of A M^(-1/2). *)
OperatorNormSq == Sum([i \in Rows(A) |-> MInvNormSq(Row(A, i))])

(* The iterate of a run, warm start included, and the caller's solution. *)
Iterated == IF Warm THEN Plus(sol.x, Vec(call.x0)) ELSE sol.x
Before == IF Warm THEN Vec(call.x0) ELSE NoX
Answer == Vec(result.x)
Answered == pc = "idle" /\ result.reason \notin {"none", "InvalidInput"}
Definite == call.mInv \notin Indefinite

(* |zeta_bar| is not an estimate: after every pass it is the norm of       *)
(* A^T(b - A x) for the x built so far, in M's metric, whichever stream    *)
(* feeds the rotations and whatever the run was warm-started from.         *)
NormalEqEstimateExact ==
  pc = "loop" => Magnitude(rec.zetaBar) = NormalEqSq(Iterated)

(* A solve that says it converged has: without tolerance the answer solves *)
(* the normal equations, and for every stop reason but ResidualTolerance   *)
(* what its documentation says of the returned x is true of it.            *)
ConvergedMeansSolved ==
  Answered /\ Definite /\ result.converged =>
    LET g == NormalEqSq(Answer)
        r == NormSq(ResidualOf(Answer))
    IN /\ call.tol = Nil => g = Nil
       /\ result.reason \in {"ZeroRhs", "WarmStartExact"} => r = Nil
       /\ result.reason = "InitialNormalEquationResidualZero" => g = Nil
       /\ result.reason = "NormalEquationTolerance" =>
            Leq(g, Mul(call.tol, Mul(OperatorNormSq, r)))

(* The residual tolerance is relative to the caller's b, wherever a run    *)
(* starts: a warm-started run, whose own right-hand side is the smaller    *)
(* residual of its start, does not go on past an answer that is within the *)
(* tolerance of b.                                                         *)
StopsWithinTolerance ==
  pc = "loop" /\ itn > 0 /\ Definite =>
    Less(Mul(call.tol, NormSq(B)), NormSq(ResidualOf(Iterated)))

(* The stopping test ends every run before a step would divide by alpha =  *)
(* 0 (the assertion of update_p_tilde), at the latest when the Krylov      *)
(* space has as many dimensions as A has columns.                          *)
StopsAtBreakdown ==
  pc = "loop" => Positive(bidiag.alpha) /\ itn < Len(A[1])

(* Handing off never loses ground: however a run ends, its answer is no    *)
(* further from b than the warm start it was given, or than 0.             *)
NeverWorseThanStart ==
  Answered /\ Definite => Leq(NormSq(ResidualOf(Answer)), NormSq(ResidualOf(Before)))

(* The window holds the last basis vectors of the run, oldest first, each  *)
(* with its own M v, before and after the ring has wrapped round.          *)
WindowIsRecent ==
  pc = "loop" =>
    LET slots == ChronoSlots(bidiag.ring)
    IN [k \in DOMAIN slots |-> bidiag.ring.slots[slots[k]]] = Window

(* Whatever part of a vector in the window rounding brings back, the new   *)
(* basis vector is orthogonal in M's metric to all others in the window,   *)
(* of norm 1, and p, corrected along with it, is still alpha M v.          *)
WindowOrthonormal ==
  pc = "loop" =>
    /\ \A k \in 1..Len(Window) - 1 :
         DotRoot(bidiag.v, IF call.mInv = None THEN Window[k].v ELSE Window[k].p) = Nil
    /\ IF call.mInv = None THEN NormSq(bidiag.v) = One
       ELSE /\ DotRoot(bidiag.v, bidiag.p) = bidiag.alpha
            /\ IsNil(Minus(Apply(call.mInv, bidiag.p), Scale(bidiag.alpha, bidiag.v)))

Stalled(k) ==
  /\ k > call.policy.window
  /\ \A j \in k - call.policy.window + 1..k : Less(Mul(call.policy.threshold, trail[j - 1]), trail[j])

(* A run is handed off when, and as soon as, the residual has contracted   *)
(* by no more than the threshold in each of the last window iterations: an *)
(* iteration that did better starts the count again, the first of a run,   *)
(* which has none before it, does not count, and nor do those of the run   *)
(* before.                                                                 *)
EscalatesWhenStalled ==
  (pc = "loop" \/ Answered) /\ call.policy # None /\ trail # <<>> /\ itn > 0 =>
    /\ \A k \in 1..Len(trail) - 1 : ~Stalled(k)
    /\ Stalled(Len(trail)) <=> (pc = "idle" /\ result.reason = "Escalated")

(* What recurrence.rs says of |phi_bar|: it is a conservative estimate of  *)
(* the residual norm, so the reported one bounds that of the answer.       *)
ResidualEstimateConservative ==
  Answered => Leq(NormSq(ResidualOf(Answer)), result.residual)
=============================================================================

------------------------------- MODULE Effects -------------------------------
(***************************************************************************)
(* Effects, the terms of a design as a caller gives them, and their        *)
(* lowering to a design: crates/within/src/domain/effect.rs, Design::new   *)
(* of domain.rs and ObservationFrame::new of observation.rs.               *)
(*                                                                         *)
(* An effect is [levels, intercept : BOOLEAN, slopes]; its coefficient     *)
(* columns are its slopes, after the constant one of an intercept.         *)
(***************************************************************************)
EXTENDS Design

CONSTANT NotFinite  (* a number of the caller's: an infinity or NaN *)

(* Effect::new: the first slope at fault is named. *)
SlopeError(n, slope) ==
  CASE Len(slope) # n -> "SlopeLengthMismatch"
    [] Len(slope) = n /\ NotFinite \in ToSet(slope) -> "InvalidLoading"
    [] OTHER -> None

Faulty(given) == {j \in DOMAIN given.slopes : SlopeError(Len(given.levels), given.slopes[j]) # None}

Effect(given) ==
  CASE Faulty(given) # {} ->
         Rejected(SlopeError(Len(given.levels), given.slopes[Min(Faulty(given))]))
    [] ~given.intercept /\ given.slopes = <<>> -> Rejected("EmptyEffect")
    [] OTHER -> given

-----------------------------------------------------------------------------
(* Design::new: every slope of every effect gets a loading column of its   *)
(* own, equal ones too.                                                    *)

(* Mutant: a slope that is there already is not pushed again. *)
LoadingShared(loadings, slopes, j) ==
  CHOOSE k \in 1..Len(loadings) + j :
    /\ (loadings \o slopes)[k] = slopes[j]
    /\ \A i \in 1..k - 1 : (loadings \o slopes)[i] # slopes[j]

LoadingOf(loadings, slopes, j) == Len(loadings) + j

Columns(effect, loadings) ==
  (IF effect.intercept THEN <<Constant>> ELSE <<>>)
    \o [j \in DOMAIN effect.slopes |-> LoadingOf(loadings, effect.slopes, j)]

WithEffect(s, effect) ==
  [levels    |-> Append(s.levels, effect.levels),
   loadings  |-> s.loadings \o effect.slopes,
   structure |-> Append(s.structure, Columns(effect, s.loadings))]

Lowered(effects) == FoldLeft(WithEffect, [levels |-> <<>>, loadings |-> <<>>, structure |-> <<>>], effects)

(* ObservationFrame::new *)
RowAligned(frame) ==
  \A col \in ToSet(frame.levels) \cup ToSet(frame.loadings) : Len(col) = NObs(frame)

Framed(frame, structure) ==
  IF RowAligned(frame) THEN Build(frame, structure, TRUE)
  ELSE Rejected("ObservationCountMismatch")

DesignFrom(lowered) ==
  Framed([levels |-> lowered.levels, loadings |-> lowered.loadings], lowered.structure)

DesignUnless(rejected, effects) ==
  IF rejected # {} THEN effects[Min(rejected)] ELSE DesignFrom(Lowered(effects))
DesignOf(effects) == DesignUnless({q \in DOMAIN effects : IsRejected(effects[q])}, effects)

(* The caller's first effect that is rejected is the design's error. *)
NewDesign(given) == DesignOf([q \in DOMAIN given |-> Effect(given[q])])
=============================================================================

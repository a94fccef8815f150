-------------------------------- MODULE Reparam --------------------------------
(***************************************************************************)
(* The change of basis of crates/within/src/solver/reparam.rs: within each *)
(* level of a term with slopes, its covariates are replaced by orthonormal *)
(* directions, and a solution is carried back to the caller's covariates.  *)
(*                                                                         *)
(* Numbers are rationals.  A direction u = w (z - center) has a square     *)
(* root in it: it is kept as the row q = sqrt(normSq) w and the rational   *)
(* normSq, its column as q (z - center), and a coefficient of it as the    *)
(* solver's divided by sqrt(normSq).  All products are those of the code.  *)
(***************************************************************************)
EXTENDS Design, ExactArith

CONSTANT RankTol  (* RANK_TOL, above 0 and below every ratio the data has *)

ASSUME ReparamAssumption == Positive(RankTol) /\ Less(RankTol, One)

Difference(a, b) == Add(a, Neg(b))
Inner(a, b) == Sum([j \in DOMAIN a |-> Mul(a[j], b[j])])

SlopeColumns(t) == SetToSortSeq({c \in DOMAIN t.columns : t.columns[c] # Constant}, <)
HasSlopes(t) == SlopeColumns(t) # <<>>
HasIntercept(t) == Constant \in ToSet(t.columns)
InterceptColumn(t) == CHOOSE c \in DOMAIN t.columns : t.columns[c] = Constant

-----------------------------------------------------------------------------
(* LevelMoments: weighted moments of a level's covariates, in one pass. *)

NoMoments(v) ==
  [wSum |-> 0, mean |-> [j \in 1..v |-> Nil], comoment |-> [j \in 1..v |-> [k \in 1..j |-> Nil]]]

(* A comoment takes the deviations from the old mean and from the new one. *)
Comoments(m, z, w, wSum, delta, mean) ==
  [wSum |-> wSum, mean |-> mean,
   comoment |-> [j \in DOMAIN z |-> [k \in 1..j |->
                   Add(m.comoment[j][k], Mul(delta[k], Mul(<<w, 1>>, Difference(z[j], mean[j]))))]]]
ObserveDelta(m, z, w, wSum, delta) ==
  Comoments(m, z, w, wSum, delta,
            [j \in DOMAIN z |-> Add(m.mean[j], Mul(Ratio(w, wSum), delta[j]))])

Deviations(z, mean) == [j \in DOMAIN z |-> Difference(z[j], mean[j])]

(* Mutant: both deviations are from the old mean. *)
ObserveFromOldMean(m, z, w) ==
  IF w <= 0 THEN m
  ELSE [ObserveDelta(m, z, w, m.wSum + w, Deviations(z, m.mean))
          EXCEPT !.comoment = Comoments(m, z, w, m.wSum + w, Deviations(z, m.mean), m.mean).comoment]

Observe(m, z, w) ==
  IF w <= 0 THEN m ELSE ObserveDelta(m, z, w, m.wSum + w, Deviations(z, m.mean))

Weight(weights, i) == IF weights = None THEN 1 ELSE weights[i]

(* The covariates of a row. *)
ZRow(frame, t, i) ==
  [j \in DOMAIN SlopeColumns(t) |-> frame.loadings[t.columns[SlopeColumns(t)[j]]][i]]

RowsAt(frame, q, level) == {i \in 1..NObs(frame) : frame.levels[q][i] = level}

Moments(frame, q, t, weights, level) ==
  FoldLeft(LAMBDA m, i : Observe(m, ZRow(frame, t, i), Weight(weights, i)),
           NoMoments(Len(SlopeColumns(t))),
           SetToSortSeq(RowsAt(frame, q, level), <))

(* gram: centered when an intercept takes up the mean, raw otherwise. *)
GramEntry(m, intercept, j, k) ==
  IF intercept THEN m.comoment[j][k]
  ELSE Add(m.comoment[j][k], Mul(<<m.wSum, 1>>, Mul(m.mean[j], m.mean[k])))
Gram(m, intercept) ==
  [j \in DOMAIN m.mean |-> [k \in DOMAIN m.mean |->
     IF k <= j THEN GramEntry(m, intercept, j, k) ELSE GramEntry(m, intercept, k, j)]]

-----------------------------------------------------------------------------
(* pivoted_gram_schmidt *)

Candidates(g, s) ==
  {j \in DOMAIN g \ s.kept : Less(Mul(RankTol, g[j][j]), s.residual[j])}

(* max_by: the last of the columns with most variance left. *)
PivotOf(s, columns) ==
  CHOOSE p \in columns : \A j \in columns :
    IF j > p THEN Less(s.residual[j], s.residual[p]) ELSE Leq(s.residual[j], s.residual[p])

(* e_p less its projections on the directions found before. *)
Direction(g, s, p) ==
  [j \in DOMAIN g |->
     Difference(IF j = p THEN One ELSE Nil,
                Sum([t \in DOMAIN s.rows |->
                       Mul(Div(Inner(g[p], s.rows[t].q), s.rows[t].normSq), s.rows[t].q[j])]))]

Projected(g, s, p, q) ==
  [kept     |-> s.kept \cup {p},
   rows     |-> Append(s.rows, [q |-> q, normSq |-> s.residual[p]]),
   residual |-> [j \in DOMAIN g |->
                   Difference(s.residual[j], Div(Mul(Inner(g[j], q), Inner(g[j], q)), s.residual[p]))]]

PivotOn(g, s, p) == Projected(g, s, p, Direction(g, s, p))

(* A pivot leaves one candidate less: the loop has at most v passes. *)
GramSchmidt(g) ==
  FoldLeft(LAMBDA s, j : IF Candidates(g, s) = {} THEN s ELSE PivotOn(g, s, PivotOf(s, Candidates(g, s))),
           [kept |-> {}, rows |-> <<>>, residual |-> [j \in DOMAIN g |-> g[j][j]]],
           [j \in DOMAIN g |-> j])

-----------------------------------------------------------------------------
(* TermReparam::build *)

Transform(m, intercept, s) ==
  [rows |-> s.rows, kept |-> s.kept, wSum |-> m.wSum,
   center |-> IF intercept THEN m.mean ELSE [j \in DOMAIN m.mean |-> Nil]]

LevelTransform(m, intercept) == Transform(m, intercept, GramSchmidt(Gram(m, intercept)))

Transforms(frame, q, t, weights) ==
  [level \in 0..t.nLevels - 1 |->
     LevelTransform(Moments(frame, q, t, weights, level), HasIntercept(t))]

AddressAt(q, column, level) == [term |-> q, column |-> column, level |-> level]

(* Mutant: the directions that were not found, by their slots. *)
DroppedSlots(t, tr) ==
  SelectSeq([k \in DOMAIN SlopeColumns(t) |-> k], LAMBDA k : k > Len(tr.rows))

(* The covariates no pivot was taken from. *)
Dropped(t, tr) == SelectSeq([j \in DOMAIN SlopeColumns(t) |-> j], LAMBDA j : j \notin tr.kept)

UnidentifiedAt(q, t, tr, level) ==
  (IF HasIntercept(t) /\ tr.wSum = 0 THEN <<AddressAt(q, 1, level)>> ELSE <<>>)
    \o [k \in DOMAIN Dropped(t, tr) |-> AddressAt(q, SlopeColumns(t)[Dropped(t, tr)[k]], level)]

UnidentifiedOf(q, t, transforms) ==
  FlattenSeq([l \in 1..t.nLevels |-> UnidentifiedAt(q, t, transforms[l - 1], l - 1)])

(* Direction k at a row; beyond the rank it is 0. *)
Whitened(tr, z, k) ==
  IF k <= Len(tr.rows) THEN Inner(tr.rows[k].q, Deviations(z, tr.center)) ELSE Nil

(* set_loading_column: direction k takes the place of covariate k. *)
WhitenedFrame(frame, q, t, transforms) ==
  [frame EXCEPT !.loadings = [c \in DOMAIN @ |->
     IF c \notin ToSet(t.columns) THEN @[c]
     ELSE [i \in 1..NObs(frame) |->
             Whitened(transforms[frame.levels[q][i]], ZRow(frame, t, i),
                      CHOOSE k \in DOMAIN SlopeColumns(t) : t.columns[SlopeColumns(t)[k]] = c)]]]

WithTerm(s, q, t, transforms) ==
  [frame        |-> WhitenedFrame(s.frame, q, t, transforms),
   terms        |-> Append(s.terms, [q |-> q, transforms |-> transforms]),
   unidentified |-> s.unidentified \o UnidentifiedOf(q, t, transforms)]

Rational(frame) ==
  [frame EXCEPT !.loadings = [c \in DOMAIN @ |-> [i \in DOMAIN @[c] |-> <<@[c][i], 1>>]]]

(* SlopeReparam::build: the terms with slopes, one after the other. *)
Reparametrized(frame, terms, weights) ==
  FoldLeft(LAMBDA s, q : IF HasSlopes(terms[q])
                         THEN WithTerm(s, q, terms[q], Transforms(s.frame, q, terms[q], weights))
                         ELSE s,
           [frame |-> Rational(frame), terms |-> <<>>, unidentified |-> <<>>],
           [q \in DOMAIN terms |-> q])

-----------------------------------------------------------------------------
(* back_transform *)

SlopeSlot(t, j, level) == Index(t, SlopeColumns(t)[j], level)
SlopeSlots(t, level) == {SlopeSlot(t, j, level) : j \in DOMAIN SlopeColumns(t)}
CovariateAt(t, d, level) == CHOOSE j \in DOMAIN SlopeColumns(t) : SlopeSlot(t, j, level) = d
IsInterceptSlot(t, d, level) == HasIntercept(t) /\ d = Index(t, InterceptColumn(t), level)

Slopes(t, tr, level, x) ==
  [j \in DOMAIN SlopeColumns(t) |->
     Sum([k \in DOMAIN tr.rows |-> Mul(tr.rows[k].q[j], x[SlopeSlot(t, k, level)])])]

(* Mutant: slots whose covariate was dropped are left as they are. *)
StoredKept(t, tr, level, x, b) ==
  [d \in DOMAIN x |->
     CASE d \in SlopeSlots(t, level) ->
            IF CovariateAt(t, d, level) \in tr.kept THEN b[CovariateAt(t, d, level)] ELSE x[d]
       [] IsInterceptSlot(t, d, level) -> Difference(x[d], Inner(b, tr.center))
       [] OTHER -> x[d]]

Stored(t, tr, level, x, b) ==
  [d \in DOMAIN x |->
     CASE d \in SlopeSlots(t, level) -> b[CovariateAt(t, d, level)]
       [] IsInterceptSlot(t, d, level) -> Difference(x[d], Inner(b, tr.center))
       [] OTHER -> x[d]]

BackLevel(t, tr, level, x) ==
  IF tr.rows = <<>> THEN x ELSE Stored(t, tr, level, x, Slopes(t, tr, level, x))

BackTerm(t, transforms, x) ==
  FoldLeft(LAMBDA y, l : BackLevel(t, transforms[l - 1], l - 1, y), x, [l \in 1..t.nLevels |-> l])

BackTransform(reparam, terms, x) ==
  FoldLeft(LAMBDA y, rp : BackTerm(terms[rp.q], rp.transforms, y), x, reparam.terms)
=============================================================================

-------------------------------- MODULE Design --------------------------------
(***************************************************************************)
(* The fixed-effects design of crates/within/src/domain.rs: observation    *)
(* columns, the layout of the coefficients, and the locality sort that     *)
(* reorders the observations.                                              *)
(*                                                                         *)
(* Observations and columns are counted from 1, level codes, coefficient   *)
(* indices and offsets from 0.  A frame is                                 *)
(*   [levels : per factor, loadings : per slope], columns of equal length; *)
(* a structure gives each term its coefficient columns: 0 for the constant *)
(* column, k > 0 for loadings[k].                                          *)
(***************************************************************************)
EXTENDS Integers, Sequences, FiniteSetsExt, SequencesExt

CONSTANTS
  MaxDofs,   (* u32::MAX *)
  None

Constant == 0

NObs(frame) ==
  CASE frame.levels # <<>> -> Len(frame.levels[1])
    [] frame.levels = <<>> /\ frame.loadings # <<>> -> Len(frame.loadings[1])
    [] OTHER -> 0

(* ObservationFrame::new: columns of one length. *)
FrameValid(frame) ==
  /\ frame.levels \in Seq(Seq(Nat)) /\ frame.loadings \in Seq(Seq(Int))
  /\ \A col \in ToSet(frame.levels) \cup ToSet(frame.loadings) : Len(col) = NObs(frame)

(* A term for each factor, with at least one coefficient column. *)
StructureValid(frame, structure) ==
  /\ structure \in Seq(Seq(0..Len(frame.loadings)) \ {<<>>})
  /\ Len(structure) = Len(frame.levels)

Loading(frame, column, i) == IF column = Constant THEN 1 ELSE frame.loadings[column][i]

NonDecreasing(col) == \A i \in 2..Len(col) : col[i - 1] <= col[i]

Gathered(v, perm) == [k \in DOMAIN perm |-> v[perm[k]]]

Permuted(frame, perm) ==
  [levels   |-> [q \in DOMAIN frame.levels |-> Gathered(frame.levels[q], perm)],
   loadings |-> [k \in DOMAIN frame.loadings |-> Gathered(frame.loadings[k], perm)]]

-----------------------------------------------------------------------------
(* Stable argsort of the observations by a level column. *)

Before(key, i, j) == key[i] < key[j] \/ (key[i] = key[j] /\ i < j)

ComparisonSort(key) ==
  CHOOSE perm \in [DOMAIN key -> DOMAIN key] :
    \A j, k \in DOMAIN key : j < k => Before(key, perm[j], perm[k])

(* Observation i goes where its level's cursor points. *)
Place(s, key, i) ==
  [cursors |-> [s.cursors EXCEPT ![key[i]] = @ + 1],
   perm    |-> [s.perm EXCEPT ![s.cursors[key[i]]] = i]]

(* A level's cursor starts after the observations of the levels below. *)
Empty(key, nLevels) ==
  [cursors |-> [k \in 0..nLevels |-> Cardinality({i \in DOMAIN key : key[i] < k}) + 1],
   perm    |-> [i \in DOMAIN key |-> 0]]

(* Mutant: the cursors run over the observations from the last one. *)
UnstableArgsort(key, nLevels) ==
  FoldRightDomain(LAMBDA i, s : Place(s, key, i), key, Empty(key, nLevels)).perm

CountingSort(key, nLevels) ==
  FoldLeftDomain(LAMBDA s, i : Place(s, key, i), Empty(key, nLevels), key).perm

StableArgsort(key, nLevels) ==
  IF Len(key) < nLevels THEN ComparisonSort(key) ELSE CountingSort(key, nLevels)

-----------------------------------------------------------------------------
(* Layout of the coefficients. *)

NLevels(col) == Max(ToSet(col)) + 1

NDofs(t) == Len(t.columns) * t.nLevels

(* Terms one after the other; within a term one coefficient column after   *)
(* the other, each with one coefficient per level.                         *)
Sizes(frame, structure) ==
  [q \in DOMAIN structure |-> Len(structure[q]) * NLevels(frame.levels[q])]

Terms(frame, structure) ==
  [q \in DOMAIN structure |->
     [nLevels |-> NLevels(frame.levels[q]),
      offset  |-> SumFunctionOnSet(Sizes(frame, structure), 1..q - 1),
      sorted  |-> NonDecreasing(frame.levels[q]),
      columns |-> structure[q]]]

TotalDofs(terms) == SumFunction([q \in DOMAIN terms |-> NDofs(terms[q])])

(* max_by_key: the last of the terms with the most coefficients. *)
Dominant(terms) ==
  CHOOSE q \in DOMAIN terms :
    \A p \in DOMAIN terms : IF p > q THEN NDofs(terms[p]) < NDofs(terms[q])
                            ELSE NDofs(terms[p]) <= NDofs(terms[q])

(* Mutant: a coefficient's columns are interleaved within a level. *)
InterleavedIndex(t, c, level) == t.offset + level * Len(t.columns) + (c - 1)

(* CoefficientLayout: the index of a level of column c of a term, and back. *)
Index(t, c, level) == t.offset + (c - 1) * t.nLevels + level

AddressIn(q, t, i) ==
  [term |-> q, column |-> ((i - t.offset) \div t.nLevels) + 1, level |-> (i - t.offset) % t.nLevels]
AddressOf(q, terms, i) == AddressIn(q, terms[q], i)
Address(terms, i) == AddressOf(Cardinality({q \in DOMAIN terms : terms[q].offset <= i}), terms, i)

-----------------------------------------------------------------------------
(* Design::build: a design or a BuildError. *)

Rejected(e) == [error |-> e]
IsRejected(d) == "error" \in DOMAIN d

Laid(frame, terms, perm) ==
  [frame |-> frame, terms |-> terms, nObs |-> NObs(frame), nDofs |-> TotalDofs(terms),
   perm |-> perm]

(* The sort may leave other terms sorted, or not: all are scanned again. *)
Resorted(frame, terms, perm) ==
  Laid(frame, [q \in DOMAIN terms |-> [terms[q] EXCEPT !.sorted = NonDecreasing(frame.levels[q])]],
       perm)

SortedBy(frame, terms, perm) == Resorted(Permuted(frame, perm), terms, perm)

(* The permutation has u32 entries; a frame may have no factor at all.     *)
DominantFirst(frame, terms, d, localitySort) ==
  IF localitySort /\ terms # <<>> /\ ~terms[d].sorted /\ NObs(frame) <= MaxDofs
  THEN SortedBy(frame, terms, StableArgsort(frame.levels[d], terms[d].nLevels))
  ELSE Laid(frame, terms, None)

BuildTerms(frame, terms, localitySort) ==
  IF TotalDofs(terms) > MaxDofs THEN Rejected("DofSpaceExceedsU32")
  ELSE DominantFirst(frame, terms, Dominant(terms), localitySort)

Build(frame, structure, localitySort) ==
  IF NObs(frame) = 0 THEN Rejected("EmptyObservations")
  ELSE BuildTerms(frame, Terms(frame, structure), localitySort)

(* validate_weights: one for each observation, none below 0. *)
WeightsValid(weights, n) ==
  weights # None => Len(weights) = n /\ \A i \in DOMAIN weights : weights[i] >= 0

(* Caller's order to internal order. *)
PermuteIn(design, v) == IF design.perm = None THEN v ELSE Gathered(v, design.perm)

(* Mutant: gathers where it should scatter. *)
PermuteOutGathering(design, v) == PermuteIn(design, v)

(* Internal order to the caller's. *)
PermuteOut(design, v) ==
  IF design.perm = None THEN v
  ELSE FoldLeftDomain(LAMBDA out, k : [out EXCEPT ![design.perm[k]] = v[k]],
                      [i \in DOMAIN v |-> 0], design.perm)
=============================================================================

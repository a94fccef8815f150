----------------------------- MODULE FactorPairs -----------------------------
(***************************************************************************)
(* What the Schwarz preconditioner is built from: for every pair of        *)
(* channels of different terms the cross tabulation of the observations    *)
(* (domain/cross_tab.rs), its connected components, one subdomain each     *)
(* (domain/factor_pairs.rs), the conversion of a component to an SDDM      *)
(* matrix (factor_pairs/sddm.rs), the partition of unity, and the diagonal *)
(* preconditioner (operator/schwarz.rs).                                   *)
(*                                                                         *)
(* Pairs and subdomains are rayon tasks.  Local indices count from 1.  A   *)
(* block C is a sequence of rows, a row a sequence of [at, value].         *)
(* Numbers are integers in units of 1/Unit; the loading columns are those  *)
(* the slope reparametrization leaves.  Dominance scaling of a component   *)
(* that is not dominant is abstracted: it either reaches its tolerance or  *)
(* does not, its positive scales are left out of the matrix, and so are    *)
(* the ground edges that depend on them.                                   *)
(***************************************************************************)
EXTENDS Design, CsrBlock

CONSTANTS
  Inputs,                (* [frame, structure, weights, localitySort,        *)
                         (*   config, onFailure]                             *)
  Unit,                  (* the number 1                                     *)
  DenseTableMaxEntries   (* DENSE_TABLE_MAX_ENTRIES                          *)

ASSUME FactorPairsAssumption ==
  /\ Unit \in Nat \ {0}
  /\ DenseTableMaxEntries \in Nat
  /\ MaxDofs \in Nat
  /\ None \notin Seq(Int) \cup [error : {"UnscalableComponent"}, pair : Nat]
  /\ \A i \in Inputs :
       /\ FrameValid(i.frame)
       /\ StructureValid(i.frame, i.structure)
       /\ i.weights \in Seq(Int) \cup {None}
       /\ WeightsValid(i.weights, NObs(i.frame))
       /\ ~IsRejected(Build(i.frame, i.structure, i.localitySort))
       /\ i.config \in {"Off", "Diagonal", "Additive"}
       /\ i.onFailure \in {"Warn", "Error"}

VARIABLES
  input,     (* what the caller builds from                                  *)
  design,    (* the design built from it                                     *)
  pc,        (* start, pairs, weights, done                                  *)
  built,     (* of each pair: None, an error, or its subdomains              *)
  domains,   (* the subdomains of all pairs, in the order of the pairs       *)
  counts,    (* subdomains counted at each coefficient                       *)
  uncounted, (* of each subdomain: the indices it has still to count         *)
  result     (* None, an error, or the preconditioner                        *)

vars == <<input, design, pc, built, domains, counts, uncounted, result>>

-----------------------------------------------------------------------------
(* Channels and their pairs. *)

Channels ==
  FlattenSeq([q \in DOMAIN design.terms |->
    [c \in DOMAIN design.terms[q].columns |-> [term |-> q, column |-> c]]])

PairsOf(ch) ==
  FlattenSeq([a \in DOMAIN ch |->
    LET later == Ascending({b \in a + 1..Len(ch) : ch[b].term # ch[a].term})
    IN [k \in DOMAIN later |-> [rows |-> ch[a], cols |-> ch[later[k]]]]])
Pairs == PairsOf(Channels)

ColumnOf(ch) == design.terms[ch.term].columns[ch.column]
LevelsOf(ch) == design.frame.levels[ch.term]

(* Plain pairs are of intercepts only. *)
IsPlain(p) == ColumnOf(p.rows) = Constant /\ ColumnOf(p.cols) = Constant

Load(ch, i) == IF ColumnOf(ch) = Constant THEN Unit ELSE design.frame.loadings[ColumnOf(ch)][i]
Weight(i) == IF input.weights = None THEN 1 ELSE PermuteIn(design, input.weights)[i]

-----------------------------------------------------------------------------
(* Cross tabulation of a pair. *)

(* The active levels of a channel in order; a level's compact index is its *)
(* position.                                                               *)
ActiveLevels(ch) == Ascending(ToSet(LevelsOf(ch)))
Position(s, x) == CHOOSE k \in DOMAIN s : s[k] = x

LocalToGlobal(p) ==
  [k \in DOMAIN ActiveLevels(p.rows) |->
     Index(design.terms[p.rows.term], p.rows.column, ActiveLevels(p.rows)[k])]
  \o [k \in DOMAIN ActiveLevels(p.cols) |->
     Index(design.terms[p.cols.term], p.cols.column, ActiveLevels(p.cols)[k])]

Contribution(p, i) ==
  [row     |-> Position(ActiveLevels(p.rows), LevelsOf(p.rows)[i]),
   col     |-> Position(ActiveLevels(p.cols), LevelsOf(p.cols)[i]),
   cell    |-> Weight(i) * Load(p.rows, i) * Load(p.cols, i),
   rowDiag |-> Weight(i) * Load(p.rows, i) * Load(p.rows, i),
   colDiag |-> Weight(i) * Load(p.cols, i) * Load(p.cols, i)]

RowDiagonal(obs, n) ==
  [j \in 1..n |-> SumFunction([i \in {i \in DOMAIN obs : obs[i].row = j} |-> obs[i].rowDiag])]
ColDiagonal(obs, n) ==
  [k \in 1..n |-> SumFunction([i \in {i \in DOMAIN obs : obs[i].col = k} |-> obs[i].colDiag])]

(* Dense: a table of all cells, then the cells that are not zero. *)
Cell(obs, j, k) ==
  SumFunction([i \in {i \in DOMAIN obs : obs[i].row = j /\ obs[i].col = k} |-> obs[i].cell])
DenseRow(obs, nCols, j) ==
  LET nonzero == Ascending({k \in 1..nCols : Cell(obs, j, k) # 0})
  IN [e \in DOMAIN nonzero |-> [at |-> nonzero[e], value |-> Cell(obs, j, nonzero[e])]]

(* Sparse: the observations of one row after the other go through one      *)
(* workspace, which emitting a row has to leave zeroed.  A column is       *)
(* touched whenever its value is zero, again if it has cancelled.          *)
Touch(s, o) ==
  [s EXCEPT !.touched = IF s.work[o.col] = 0 THEN Append(@, o.col) ELSE @,
            !.work[o.col] = @ + o.cell]

(* Mutant: the workspace keeps its values. *)
EmitKeeping(s, k) ==
  [s EXCEPT !.row = IF s.work[k] = 0 THEN @ ELSE Append(@, [at |-> k, value |-> s.work[k]])]

Emit(s, k) ==
  [s EXCEPT !.row = IF s.work[k] = 0 THEN @ ELSE Append(@, [at |-> k, value |-> s.work[k]]),
            !.work[k] = 0]

TouchIn(j, s, o) == IF o.row = j THEN Touch(s, o) ELSE s
Workspace(nCols) == [work |-> [k \in 1..nCols |-> 0], touched |-> <<>>, row |-> <<>>]
NextRow(s) == [work |-> s.work, touched |-> <<>>, row |-> <<>>]
RowTouched(s, obs, j) == FoldLeft(LAMBDA t, o : TouchIn(j, t, o), NextRow(s), obs)
Sorted(s) == Gathered(s, ComparisonSort(s))
Emitted(s) == FoldLeft(Emit, s, Sorted(s.touched))
SparseRows(obs, nRows, nCols) ==
  LET run[j \in 0..nRows] ==
        IF j = 0 THEN Workspace(nCols) ELSE Emitted(RowTouched(run[j - 1], obs, j))
  IN [j \in 1..nRows |-> run[j].row]

GoSparse(nRows, nCols) ==
  /\ nRows * nCols > DenseTableMaxEntries
  /\ 12 * design.nObs < 8 * nRows * nCols

Accumulated(obs, nRows, nCols) ==
  [nRows |-> nRows, nCols |-> nCols,
   c |-> IF GoSparse(nRows, nCols) THEN SparseRows(obs, nRows, nCols)
         ELSE [j \in 1..nRows |-> DenseRow(obs, nCols, j)],
   diagonal |-> RowDiagonal(obs, nRows) \o ColDiagonal(obs, nCols)]

CrossTab(p) ==
  Accumulated([i \in 1..design.nObs |-> Contribution(p, i)],
              Len(ActiveLevels(p.rows)), Len(ActiveLevels(p.cols)))

(* Mutant: the column block's nodes lead nowhere. *)
NeighborsOfRows(c, nCols) ==
  [j \in DOMAIN c |-> [e \in DOMAIN c[j] |-> [c[j][e] EXCEPT !.at = Len(c) + @]]]
  \o [k \in 1..nCols |-> <<>>]

(* The symmetric adjacency: rows walk C, columns its transpose. *)
Neighbors(c, nCols) ==
  [j \in DOMAIN c |-> [e \in DOMAIN c[j] |-> [c[j][e] EXCEPT !.at = Len(c) + @]]]
  \o Transposed(c, nCols)

-----------------------------------------------------------------------------
(* Depth-first walks over the adjacency nb.  A walk over n nodes pops at   *)
(* most n.  The neighbours of a node ascend, each once.                    *)

(* Connected components, the nodes of one after the other. *)
Discovered(s, new) == [s EXCEPT !.visited = @ \cup ToSet(new), !.stack = @ \o new]
Pop(s, node) == [s EXCEPT !.stack = Front(@), !.nodes = @ \cup {node}]
Visit(nb, s, node) == Discovered(Pop(s, node), Ascending(ColumnsIn(nb[node]) \ s.visited))
Popped(nb, s) == IF s.stack = <<>> THEN s ELSE Visit(nb, s, Last(s.stack))

Walked(nb, s) ==
  LET run[k \in 0..Len(nb)] == IF k = 0 THEN s ELSE Popped(nb, run[k - 1]) IN run[Len(nb)]
Closed(s) == [s EXCEPT !.nodes = {}, !.found = Append(@, s.nodes)]
From(nb, s, start) ==
  IF start \in s.visited THEN s ELSE Closed(Walked(nb, Discovered(s, <<start>>)))
Components(nb) ==
  LET run[k \in 0..Len(nb)] ==
        IF k = 0 THEN [visited |-> {}, stack |-> <<>>, nodes |-> {}, found |-> <<>>]
        ELSE From(nb, run[k - 1], k)
  IN run[Len(nb)].found

(* The sign of every node that makes the off-diagonals nonpositive; on a   *)
(* negative cycle some neighbours contradict each other.                   *)
Signum(v) == IF v < 0 THEN -1 ELSE 1

(* Mutant: an edge's ends get the sign of the edge. *)
ExpectedAlike(nb, s, i, j) == s.signs[i] * Signum(ValueAt(nb[i], j))

Expected(nb, s, i, j) == -s.signs[i] * Signum(ValueAt(nb[i], j))

(* Mutant: a node met twice counts as a contradiction. *)
ContradictsOnce(nb, s, i) == \E j \in ColumnsIn(nb[i]) : s.signs[j] # 0

Contradicts(nb, s, i) ==
  \E j \in ColumnsIn(nb[i]) : s.signs[j] # 0 /\ s.signs[j] # Expected(nb, s, i, j)

SignNeighbors(nb, s, i) ==
  LET new == {j \in ColumnsIn(nb[i]) : s.signs[j] = 0}
  IN [signs |-> [j \in DOMAIN nb |-> IF j \in new THEN Expected(nb, s, i, j) ELSE s.signs[j]],
      stack |-> Front(s.stack) \o Ascending(new),
      folds |-> s.folds /\ ~Contradicts(nb, s, i)]
SignNext(nb, s) == IF s.stack = <<>> THEN s ELSE SignNeighbors(nb, s, Last(s.stack))
SignWalked(nb, s) ==
  LET run[k \in 0..Len(nb)] == IF k = 0 THEN s ELSE SignNext(nb, run[k - 1]) IN run[Len(nb)]
SignFrom(nb, s, root) ==
  IF s.signs[root] # 0 THEN s
  ELSE SignWalked(nb, [s EXCEPT !.signs[root] = 1, !.stack = <<root>>])
FoldingSigns(nb) ==
  LET run[k \in 0..Len(nb)] ==
        IF k = 0 THEN [signs |-> [i \in DOMAIN nb |-> 0], stack |-> <<>>, folds |-> TRUE]
        ELSE SignFrom(nb, run[k - 1], k)
  IN run[Len(nb)]

-----------------------------------------------------------------------------
(* The components of a pair: [c, diagonal, globals], rows then columns. *)

Remapped(row, cols) ==
  LET kept == Ascending({e \in DOMAIN row : row[e].at \in ToSet(cols)})
  IN [e \in DOMAIN kept |-> [row[kept[e]] EXCEPT !.at = Position(cols, @)]]

(* rows and cols are the component's, in ascending order.  The component   *)
(* of a connected tabulation is the tabulation.                            *)
Extracted(tab, l2g, rows, cols) ==
  [c        |-> [j \in DOMAIN rows |-> Remapped(tab.c[rows[j]], cols)],
   diagonal |-> Gathered(tab.diagonal, rows)
                  \o [k \in DOMAIN cols |-> tab.diagonal[tab.nRows + cols[k]]],
   globals  |-> Gathered(l2g, rows) \o [k \in DOMAIN cols |-> l2g[tab.nRows + cols[k]]]]

ExtractComponent(tab, l2g, nodes) ==
  Extracted(tab, l2g, Ascending({i \in nodes : i <= tab.nRows}),
            Ascending({i - tab.nRows : i \in {n \in nodes : n > tab.nRows}}))

Rotated(s, n) == SubSeq(s, n + 1, Len(s)) \o SubSeq(s, 1, n)

(* The larger block comes first: it is the one eliminated. *)
OrientForElimination(local) ==
  LET nRows == Len(local.c)
      nCols == Len(local.diagonal) - nRows
  IN IF nCols <= nRows THEN local
     ELSE [c |-> Transposed(local.c, nCols), diagonal |-> Rotated(local.diagonal, nRows),
           globals |-> Rotated(local.globals, nRows)]

Dead(local) == \A i \in DOMAIN local.diagonal : local.diagonal[i] = 0

LocalsOf(tab, l2g, components) ==
  LET locals == [k \in DOMAIN components |-> ExtractComponent(tab, l2g, components[k])]
      live   == Ascending({k \in DOMAIN locals : ~Dead(locals[k])})
  IN [k \in DOMAIN live |-> OrientForElimination(locals[live[k]])]

-----------------------------------------------------------------------------
(* Conversion of a component. *)

Magnitude(v) == IF v < 0 THEN -v ELSE v
RowSums(nb) == [i \in DOMAIN nb |-> SumFunction([e \in DOMAIN nb[i] |-> nb[i][e].value])]
MagnitudeSums(nb) ==
  [i \in DOMAIN nb |-> SumFunction([e \in DOMAIN nb[i] |-> Magnitude(nb[i][e].value)])]

(* Plain: the matrix is a Laplacian already, up to the sign of the second  *)
(* block.                                                                  *)
ConvertKnownLaplacian(local, rowSums) ==
  IF rowSums # local.diagonal THEN Rejected("UnscalableComponent")
  ELSE [globals |-> local.globals, c |-> local.c, diagonal |-> rowSums,
        factors |-> [i \in DOMAIN rowSums |-> IF i <= Len(local.c) THEN 1 ELSE -1],
        ground |-> [i \in DOMAIN rowSums |-> 0], grounding |-> "Floating",
        form |-> "Laplacian", scaled |-> FALSE, warned |-> FALSE]

AlreadyDominant(local, sums) == \A i \in DOMAIN sums : sums[i] <= local.diagonal[i]

(* Mutant: one node without surplus makes the component float. *)
GroundedByAll(component, sums) ==
  LET surplus == [i \in DOMAIN sums |-> component.diagonal[i] - sums[i]]
  IN [component EXCEPT
        !.ground = surplus,
        !.grounding = IF \E i \in DOMAIN sums : surplus[i] = 0 THEN "Floating" ELSE "Grounded"]

(* finalize without scales: what exceeds the row sum goes to the ground. *)
Grounded(component, sums) ==
  LET surplus == [i \in DOMAIN sums |-> component.diagonal[i] - sums[i]]
  IN [component EXCEPT
        !.ground = surplus,
        !.grounding = IF \A i \in DOMAIN sums : surplus[i] = 0 THEN "Floating" ELSE "Grounded"]

Folded(c, factors) ==
  [j \in DOMAIN c |-> [e \in DOMAIN c[j] |->
     [c[j][e] EXCEPT !.value = -factors[j] * factors[Len(c) + c[j][e].at] * @]]]
IsZ(c) == \A j \in DOMAIN c : \A e \in DOMAIN c[j] : c[j][e].value >= 0

Assembled(local, c, factors, form, scaled, warned) ==
  IF form = "Laplacian" /\ ~IsZ(c) THEN Rejected("UnscalableComponent")
  ELSE [globals |-> local.globals, c |-> c, diagonal |-> local.diagonal, factors |-> factors,
        ground |-> None, grounding |-> None, form |-> form, scaled |-> scaled,
        warned |-> warned]

(* A frustrated component keeps its signs, the second block's negated      *)
(* twice.                                                                  *)
Assemble(local, s, scaled, warned) ==
  IF s.folds THEN Assembled(local, Folded(local.c, s.signs), s.signs, "Laplacian", scaled, warned)
  ELSE LET factors == [i \in DOMAIN s.signs |-> IF i <= Len(local.c) THEN 1 ELSE -1]
       IN Assembled(local, Folded(local.c, factors), factors, "SignedPendingCover", scaled, warned)

Finalized(component, sums) == IF IsRejected(component) THEN component ELSE Grounded(component, sums)

(* The outcomes of convert_general. *)
ConvertGeneral(local, sums, signs) ==
  IF \E i \in DOMAIN sums : local.diagonal[i] <= 0 THEN {Rejected("UnscalableComponent")}
  ELSE IF AlreadyDominant(local, sums)
  THEN {Finalized(Assemble(local, signs, FALSE, FALSE), sums)}
  ELSE {Assemble(local, signs, TRUE, FALSE),
        IF input.onFailure = "Error" THEN Rejected("UnscalableComponent")
        ELSE Assemble(local, signs, TRUE, TRUE)}

ConvertWith(plain, local, nb) ==
  IF plain THEN {ConvertKnownLaplacian(local, RowSums(nb))}
  ELSE ConvertGeneral(local, MagnitudeSums(nb), FoldingSigns(nb))
Convert(plain, local) ==
  ConvertWith(plain, local, Neighbors(local.c, Len(local.diagonal) - Len(local.c)))

-----------------------------------------------------------------------------
(* build_preconditioner. *)

(* Mutant: every column of a term is added to its first. *)
SquaredAtFirst(ch, d, i) ==
  IF Index(design.terms[ch.term], 1, LevelsOf(ch)[i]) = d
  THEN Weight(i) * Load(ch, i) * Load(ch, i) ELSE 0

(* build_diagonal: a zero stays zero, and of anything else the reciprocal  *)
(* is kept, for which the entry itself stands here.                        *)
Squared(ch, d, i) ==
  IF Index(design.terms[ch.term], ch.column, LevelsOf(ch)[i]) = d
  THEN Weight(i) * Load(ch, i) * Load(ch, i) ELSE 0
DiagonalAt(d) ==
  SumFunction([q \in DOMAIN design.terms |->
    SumFunction([c \in DOMAIN design.terms[q].columns |->
      SumFunction([i \in 1..design.nObs |-> Squared([term |-> q, column |-> c], d, i)])])])

Start ==
  /\ pc = "start"
  /\ CASE input.config = "Off" -> /\ pc' = "done" /\ UNCHANGED <<built, result>>
       [] input.config = "Diagonal" ->
            /\ result' = [diagonal |-> [d \in 0..design.nDofs - 1 |-> DiagonalAt(d)]]
            /\ pc' = "done"
            /\ UNCHANGED built
       [] input.config = "Additive" ->
            /\ built' = [k \in DOMAIN Pairs |-> None]
            /\ pc' = "pairs"
            /\ UNCHANGED result
  /\ UNCHANGED <<input, design, domains, counts, uncounted>>

(* split_into_subdomains: the first component that fails ends the pair. *)
Outcomes(plain, locals) ==
  LET each == [k \in DOMAIN locals |-> Convert(plain, locals[k])]
  IN {f \in [DOMAIN locals -> UNION ToSet(each)] : \A k \in DOMAIN locals : f[k] \in each[k]}
SplitInto(k, components) ==
  IF \E i \in DOMAIN components : IsRejected(components[i])
  THEN [error |-> "UnscalableComponent", pair |-> k]
  ELSE [pair |-> k, components |-> components]

(* A rayon task: one pair. *)
BuildPair(k) ==
  /\ pc = "pairs"
  /\ built[k] = None
  /\ \E tab \in {CrossTab(Pairs[k])} :
       \E nodes \in {Components(Neighbors(tab.c, tab.nCols))} :
         \E components \in Outcomes(IsPlain(Pairs[k]),
                                    LocalsOf(tab, LocalToGlobal(Pairs[k]), nodes)) :
           built' = [built EXCEPT ![k] = SplitInto(k, components)]
  /\ UNCHANGED <<input, design, pc, domains, counts, uncounted, result>>

(* Some pair failed: the others need not have been built. *)
CollectError ==
  /\ pc = "pairs"
  /\ \E k \in DOMAIN built : built[k] # None /\ IsRejected(built[k]) /\ result' = built[k]
  /\ pc' = "done"
  /\ UNCHANGED <<input, design, built, domains, counts, uncounted>>

SubdomainsOf(split) ==
  [i \in DOMAIN split.components |->
     [pair |-> split.pair, component |-> split.components[i], weights |-> None]]

(* All pairs are built: their subdomains in the order of the pairs.        *)
(* Without slopes the partition weights follow.                            *)
HasSlopes == \E ch \in ToSet(Channels) : ColumnOf(ch) # Constant
Collect ==
  /\ pc = "pairs"
  /\ \A k \in DOMAIN built : built[k] # None /\ ~IsRejected(built[k])
  /\ domains' = FlattenSeq([k \in DOMAIN built |-> SubdomainsOf(built[k])])
  /\ counts' = [d \in 0..design.nDofs - 1 |-> 0]
  /\ uncounted' = [k \in DOMAIN domains' |-> domains'[k].component.globals]
  /\ pc' = IF HasSlopes THEN "done" ELSE "weights"
  /\ UNCHANGED <<input, design, built, result>>

(* compute_partition_weights: the tasks of the first sweep count. *)
Count(k) ==
  /\ pc = "weights"
  /\ uncounted[k] # <<>>
  /\ counts' = [counts EXCEPT ![Head(uncounted[k])] = @ + 1]
  /\ uncounted' = [uncounted EXCEPT ![k] = Tail(@)]
  /\ UNCHANGED <<input, design, pc, built, domains, result>>

(* Mutant: a subdomain waits for its own counts only. *)
OwnCounted(k) == uncounted[k] = <<>>

(* The second sweep starts when the first is over. *)
Counted(k) == \A j \in DOMAIN uncounted : uncounted[j] = <<>>

(* A weight 1/sqrt(c) stands as c. *)
SetWeights(k) ==
  /\ pc = "weights"
  /\ Counted(k)
  /\ domains[k].weights = None
  /\ domains' = [domains EXCEPT ![k].weights = Gathered(counts, domains[k].component.globals)]
  /\ UNCHANGED <<input, design, pc, built, counts, uncounted, result>>

Weighted ==
  /\ pc = "weights"
  /\ \A k \in DOMAIN domains : domains[k].weights # None
  /\ pc' = "done"
  /\ UNCHANGED <<input, design, built, domains, counts, uncounted, result>>

Init ==
  /\ input \in Inputs
  /\ design = Build(input.frame, input.structure, input.localitySort)
  /\ pc = "start"
  /\ built = <<>>
  /\ domains = <<>>
  /\ counts = <<>>
  /\ uncounted = <<>>
  /\ result = None

Next ==
  \/ Start \/ CollectError \/ Collect \/ Weighted
  \/ \E k \in DOMAIN built : BuildPair(k)
  \/ \E k \in DOMAIN domains : Count(k) \/ SetWeights(k)

Spec == Init /\ [][Next]_vars

-----------------------------------------------------------------------------
(* What the caller gave: the Gram matrix D^T W D over the coefficients.    *)

CallerRows == DOMAIN input.frame.levels[1]
CallerEntry(a, i) ==
  IF input.frame.levels[a.term][i] # a.level THEN 0
  ELSE IF design.terms[a.term].columns[a.column] = Constant THEN Unit
  ELSE input.frame.loadings[design.terms[a.term].columns[a.column]][i]
CallerWeight(i) == IF input.weights = None THEN 1 ELSE input.weights[i]
GramAt(a, b) ==
  SumFunction([i \in CallerRows |-> CallerWeight(i) * CallerEntry(a, i) * CallerEntry(b, i)])
Gram(d, e) == GramAt(Address(design.terms, d), Address(design.terms, e))

Dofs == 0..design.nDofs - 1
ChannelDofs(ch) ==
  {Index(design.terms[ch.term], ch.column, l) : l \in 0..design.terms[ch.term].nLevels - 1}
LiveDofs(p) == {d \in ChannelDofs(p.rows) \cup ChannelDofs(p.cols) : Gram(d, d) # 0}
Coupled(p) ==
  {dofs \in ChannelDofs(p.rows) \X ChannelDofs(p.cols) : Gram(dofs[1], dofs[2]) # 0}

AdditiveBuilt == pc = "done" /\ input.config = "Additive" /\ result = None
Globals(k) == ToSet(domains[k].component.globals)

Crosses(edges, S, T) ==
  \E e \in edges : (e[1] \in S /\ e[2] \in T) \/ (e[1] \in T /\ e[2] \in S)
Connected(edges, D) == \A S \in (SUBSET D) \ {{}, D} : Crosses(edges, S, D \ S)

(* The subdomains of a pair are the connected components of the coupling   *)
(* between the two channels' coefficients, of those that some weighted     *)
(* observation reaches: none is missing, split, merged or in two.          *)
SubdomainsAreComponents ==
  AdditiveBuilt => \A p \in DOMAIN Pairs :
    \E edges \in {Coupled(Pairs[p])}, mine \in {{k \in DOMAIN domains : domains[k].pair = p}} :
      /\ UNION {Globals(k) : k \in mine} = LiveDofs(Pairs[p])
      /\ \A k \in mine : /\ Connected(edges, Globals(k))
                         /\ Cardinality(Globals(k)) = Len(domains[k].component.globals)
      /\ \A j, k \in mine : j # k => /\ Globals(j) \cap Globals(k) = {}
                                     /\ ~Crosses(edges, Globals(j), Globals(k))

(* A subdomain's matrix, signs undone, is the caller's Gram matrix on its  *)
(* coefficients, whichever accumulation made it and whichever block was    *)
(* put first; a row has one entry per column, in order; the larger block   *)
(* is the one to eliminate.                                                *)
LocalMatricesAreGram ==
  AdditiveBuilt => \A k \in DOMAIN domains :
    \E m \in {domains[k].component} : \E n \in {Len(m.c)} :
      /\ \A i \in DOMAIN m.globals : m.diagonal[i] = Gram(m.globals[i], m.globals[i])
      /\ \A i \in 1..n : \A j \in 1..Len(m.globals) - n :
           LET at == {e \in DOMAIN m.c[i] : m.c[i][e].at = j}
           IN Gram(m.globals[i], m.globals[n + j]) =
                SumFunction([e \in at |-> -m.factors[i] * m.factors[n + j] * m.c[i][e].value])
      /\ \A i \in 1..n : \A e, f \in DOMAIN m.c[i] : e < f => m.c[i][e].at < m.c[i][f].at
      /\ Len(m.globals) <= 2 * n

(* Without slopes the squared weights of a coefficient sum to one over the *)
(* subdomains it is in, which are some if an observation with weight has   *)
(* its level and there is another term.                                    *)
PartitionOfUnity ==
  AdditiveBuilt /\ ~HasSlopes =>
    \A d \in Dofs : \E owners \in {{k \in DOMAIN domains : d \in Globals(k)}} :
      /\ \A k \in owners :
           domains[k].weights[Position(domains[k].component.globals, d)] = Cardinality(owners)
      /\ owners # {} <=> Gram(d, d) # 0 /\ Len(design.terms) > 1

MatrixRow(m, s, i) ==
  SumFunction([j \in DOMAIN m.globals |-> Gram(m.globals[i], m.globals[j]) * s[j]])

(* A component is folded to a Z-matrix if any choice of signs does that,   *)
(* and kept signed only if none does.                                      *)
FoldsUnlessFrustrated ==
  AdditiveBuilt => \A k \in DOMAIN domains : \E m \in {domains[k].component} :
    /\ m.form = "Laplacian" <=>
         \E s \in [DOMAIN m.globals -> {-1, 1}] :
           \A i \in 1..Len(m.c) : \A j \in Len(m.c) + 1..Len(m.globals) :
             s[i] * s[j] * Gram(m.globals[i], m.globals[j]) <= 0
    /\ m.form = "Laplacian" => IsZ(m.c)

(* An unscaled Z-matrix is anchored at a node exactly if it is singular:   *)
(* grounding a singular one, or anchoring a regular one, solves another    *)
(* system.                                                                 *)
FloatsIffSingular ==
  AdditiveBuilt => \A k \in DOMAIN domains : \E m \in {domains[k].component} :
    m.form = "Laplacian" /\ ~m.scaled =>
      (m.grounding = "Floating" <=>
         \E s \in [DOMAIN m.globals -> {-1, 1}] : \A i \in DOMAIN m.globals : MatrixRow(m, s, i) = 0)

Undominated(p) ==
  \E d \in LiveDofs(p) :
    Gram(d, d) < SumFunction([e \in IF d \in ChannelDofs(p.rows) THEN ChannelDofs(p.cols)
                                    ELSE ChannelDofs(p.rows) |-> Magnitude(Gram(d, e))])

(* Construction fails, or warns, only for pairs with slopes, one of whose  *)
(* components is not dominant by itself, and fails only if told to.        *)
FailsOnlyUnscaled ==
  /\ result # None /\ "error" \in DOMAIN result =>
       /\ input.onFailure = "Error"
       /\ ~IsPlain(Pairs[result.pair])
       /\ Undominated(Pairs[result.pair])
  /\ AdditiveBuilt => \A k \in DOMAIN domains : domains[k].component.warned =>
       /\ input.onFailure = "Warn"
       /\ Undominated(Pairs[domains[k].pair])

(* What the diagonal preconditioner is made from, entry by entry, is the   *)
(* diagonal of the caller's Gram matrix.                                   *)
DiagonalIsGram ==
  pc = "done" /\ input.config = "Diagonal" =>
    \A d \in Dofs : result.diagonal[d] = Gram(d, d)
=============================================================================

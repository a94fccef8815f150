---------------------------- MODULE DesignOperator ----------------------------
(***************************************************************************)
(* The products of a solver with its design: the design operator           *)
(* W^(1/2) D and its adjoint (crates/within/src/operator/design.rs, gather *)
(* and scatter below it), and the residual y - D x that solve_rhs returns. *)
(*                                                                         *)
(* The right-hand sides of a batch are solved at the same time against one *)
(* design, each through an operator of its own.  Within a product the rows *)
(* are rayon tasks.  Everything inside is in internal observation order;   *)
(* callers see theirs.                                                     *)
(*                                                                         *)
(* Numbers are integers: rounding, and with it the order of a sum, is not  *)
(* modelled.  Slopes are used as given (no reparametrization).             *)
(***************************************************************************)
EXTENDS Design

CONSTANTS
  Inputs,            (* what callers build solvers from:                     *)
                     (*   [frame, structure, weights, localitySort]          *)
  Rhs,               (* right-hand sides of a batch                          *)
  ObsVectors,        (* observation-space vectors, in the caller's order     *)
  Coefficient(_),    (* a coefficient-space vector                           *)
  Products,          (* the products a right-hand side may ask for           *)
  ParThreshold,      (* PAR_THRESHOLD                                        *)
  LocalThreshold,    (* SCATTER_LOCAL_THRESHOLD                              *)
  GatherChunk,       (* CHUNK_SIZE of gather.rs                              *)
  ScatterChunk,      (* CHUNK of scatter.rs                                  *)
  MaxProducts        (* bound: products of one right-hand side               *)

ASSUME DesignOperatorAssumption ==
  /\ Products \subseteq {"adjoint", "apply", "demean"}
  /\ {ParThreshold, LocalThreshold, MaxProducts} \subseteq Nat
  /\ {GatherChunk, ScatterChunk} \subseteq Nat \ {0}

ASSUME InputsAssumption ==
  /\ MaxDofs \in Nat
  /\ None \notin Int /\ None \notin Seq(Int)
  /\ \A d \in 0..MaxDofs : Coefficient(d) \in Int
  /\ \A i \in Inputs :
       /\ FrameValid(i.frame)
       /\ StructureValid(i.frame, i.structure)
       /\ i.weights \in Seq(Int) \cup {None}
       /\ NObs(i.frame) # 0 => \A y \in ObsVectors : y \in Seq(Int) /\ Len(y) = NObs(i.frame)

VARIABLES
  input,        (* the solver's input                                        *)
  design,       (* None, the BuildError, or the design                       *)
  sqrtWeights,  (* None, or W^(1/2) in internal order                        *)
  pc,           (* of each right-hand side: idle, gather, scatter, join      *)
  product,      (* the product it computes or computed last                  *)
  out,          (* the output vector of that product                         *)
  pass,         (* the pass of the scatter it is in                          *)
  todo,         (* gather: chunks left; scatter: the adds left to each task  *)
  scratch,      (* scatter_scratch of each operator                          *)
  count         (* products started                                          *)

rhsVars == <<pc, product, out, pass, todo, scratch, count>>
vars == <<input, design, sqrtWeights, rhsVars>>

Built == design # None /\ ~IsRejected(design)
Rows == 1..design.nObs
Parallel == design.nObs > ParThreshold

(* Mutant: one operator for the whole batch. *)
SharedOperator(r) == CHOOSE q \in Rhs : TRUE

(* Each solve_rhs makes an operator, scratch buffer included. *)
OperatorOf(r) == r

-----------------------------------------------------------------------------
(* Solver::new. *)

(* The integer root: the runs give weights that are squares. *)
SquareRoot(w) == CHOOSE s \in 0..w : s * s <= w /\ w < (s + 1) * (s + 1)

(* Mutant: the weights stay in the caller's order. *)
UnpermutedWeights(d, weights) ==
  IF weights = None THEN None ELSE [i \in DOMAIN weights |-> SquareRoot(weights[i])]

InternalWeights(d, weights) ==
  IF weights = None THEN None
  ELSE LET w == PermuteIn(d, weights) IN [i \in DOMAIN w |-> SquareRoot(w[i])]

New ==
  /\ design = None
  /\ \E d \in {Build(input.frame, input.structure, input.localitySort)} :
       IF IsRejected(d) THEN design' = d /\ UNCHANGED sqrtWeights
       ELSE IF ~WeightsValid(input.weights, d.nObs)
       THEN design' = Rejected("InvalidWeights") /\ UNCHANGED sqrtWeights
       ELSE design' = d /\ sqrtWeights' = InternalWeights(d, input.weights)
  /\ UNCHANGED <<input, rhsVars>>

-----------------------------------------------------------------------------
(* Gather: coefficient space to observation space. *)

Chunks(size) == 0..((design.nObs - 1) \div size)
ChunkRows(size, k) == {i \in Rows : (i - 1) \div size = k}

Fitted(x, i) ==
  SumFunction([q \in DOMAIN design.terms |->
    SumFunction([c \in DOMAIN design.terms[q].columns |->
      x[Index(design.terms[q], c, design.frame.levels[q][i])]
        * Loading(design.frame, design.terms[q].columns[c], i)])])

Scale(scale, i) == IF scale = None THEN 1 ELSE scale[i]

(* Mutant: every chunk reads the scale from the first row on. *)
ScaleFromFirst(scale, k, i) == Scale(scale, i - k * GatherChunk)

(* The scale slice of a chunk starts at its first row. *)
ScaleAt(scale, k, i) == Scale(scale, i)

GatherStart(r, op, x, scale, y) ==
  /\ product' = [product EXCEPT ![r] = [op |-> op, x |-> x, scale |-> scale, y |-> y]]
  /\ out' = [out EXCEPT ![r] = [i \in Rows |-> 0]]
  /\ todo' = [todo EXCEPT ![r] = IF Parallel THEN Chunks(GatherChunk) ELSE {None}]
  /\ pc' = [pc EXCEPT ![r] = "gather"]
  /\ UNCHANGED pass

(* The whole output, or one chunk of it, which no other task writes. *)
Gather(r) ==
  /\ pc[r] = "gather"
  /\ \E k \in todo[r] :
       /\ out' = [out EXCEPT ![r] =
                    [i \in DOMAIN @ |->
                       IF k = None
                       THEN Fitted(product[r].x, i) * Scale(product[r].scale, i)
                       ELSE IF i \in ChunkRows(GatherChunk, k)
                       THEN Fitted(product[r].x, i) * ScaleAt(product[r].scale, k, i)
                       ELSE @[i]]]
       /\ todo' = [todo EXCEPT ![r] = @ \ {k}]
  /\ UNCHANGED <<input, design, sqrtWeights, pc, product, pass, scratch, count>>

(* solve_rhs subtracts D x from y, permuted in, and permutes it out. *)
Answer(r) ==
  IF product[r].op = "demean"
  THEN PermuteOut(design, [i \in Rows |-> PermuteIn(design, product[r].y)[i] - out[r][i]])
  ELSE out[r]

GatherReturn(r) ==
  /\ pc[r] = "gather"
  /\ todo[r] = {}
  /\ out' = [out EXCEPT ![r] = Answer(r)]
  /\ pc' = [pc EXCEPT ![r] = "idle"]
  /\ UNCHANGED <<input, design, sqrtWeights, product, pass, todo, scratch, count>>

-----------------------------------------------------------------------------
(* Scatter: observation space to coefficient space. *)

(* Intercept with up to two slopes, and two slopes alone, go in one pass   *)
(* over the rows; other terms take a pass per column.                      *)
Fused(columns) ==
  IF columns[1] = Constant THEN Len(columns) <= 3 ELSE Len(columns) = 2

PassesOf(q, t) ==
  IF Fused(t.columns) THEN <<[term |-> q, base |-> t.offset, columns |-> t.columns]>>
  ELSE [c \in DOMAIN t.columns |->
          [term |-> q, base |-> t.offset + (c - 1) * t.nLevels, columns |-> <<t.columns[c]>>]]

Passes == FlattenSeq([q \in DOMAIN design.terms |-> PassesOf(q, design.terms[q])])

Block(p) == Len(p.columns) * design.terms[p.term].nLevels
Slot(p, c, level) == (c - 1) * design.terms[p.term].nLevels + level

(* ScatterStrategy::pick *)
Strategy(p) ==
  CASE ~Parallel -> "Sequential"
    [] Parallel /\ Block(p) < LocalThreshold -> "Fold"
    [] OTHER -> IF design.terms[p.term].sorted THEN "SortedCoalesced" ELSE "Atomic"

LevelIn(p, i) == design.frame.levels[p.term][i]
ValueIn(p, c, u, i) == Loading(design.frame, p.columns[c], i) * Scale(sqrtWeights, i) * u[i]

(* What rows of one level add to the block, column by column. *)
Adds(p, u, rows, level) ==
  [c \in DOMAIN p.columns |->
     [slot  |-> Slot(p, c, level),
      value |-> SumFunction([i \in rows |-> ValueIn(p, c, u, i)])]]

RowTasks(p, u) == [i \in Rows |-> Adds(p, u, {i}, LevelIn(p, i))]

(* A chunk adds the sums of a run of equal levels when the run ends. *)
RunEnds(p, rows, i) == i \in rows /\ (i + 1 \in rows => LevelIn(p, i + 1) # LevelIn(p, i))
RunTo(p, rows, i) == {j \in rows : j <= i /\ \A k \in j..i : LevelIn(p, k) = LevelIn(p, i)}
ChunkTask(p, u, rows) ==
  FlattenSeq([i \in Rows |-> IF RunEnds(p, rows, i)
                             THEN Adds(p, u, RunTo(p, rows, i), LevelIn(p, i)) ELSE <<>>])

ChunkTasks(p, u) == [k \in Chunks(ScatterChunk) |-> ChunkTask(p, u, ChunkRows(ScatterChunk, k))]

(* The adds of a pass, task by task. *)
Tasks(p, u) == IF Strategy(p) = "Atomic" THEN RowTasks(p, u) ELSE ChunkTasks(p, u)

Current(r) == Passes[pass[r]]

(* Sequential, and the thread-local fold: with exact sums, one thread's    *)
(* accumulator and those of any split of the rows come to the same.        *)
ScatterPrivate(r) ==
  /\ pc[r] = "scatter"
  /\ pass[r] <= Len(Passes)
  /\ LET p == Current(r)
     IN /\ Strategy(p) \in {"Sequential", "Fold"}
        /\ out' = [out EXCEPT ![r] =
             [d \in DOMAIN @ |->
                @[d] + SumFunction([i \in Rows |->
                  SumFunction([c \in DOMAIN p.columns |->
                    IF p.base + Slot(p, c, LevelIn(p, i)) = d
                    THEN ValueIn(p, c, product[r].u, i) ELSE 0])])]]
  /\ pass' = [pass EXCEPT ![r] = @ + 1]
  /\ UNCHANGED <<input, design, sqrtWeights, pc, product, todo, scratch, count>>

(* seed_scatter_scratch: the first slots take the block's values. *)
Seeded(r, p) ==
  [s \in DOMAIN scratch[OperatorOf(r)] |->
     IF s < Block(p) THEN out[r][p.base + s] ELSE scratch[OperatorOf(r)][s]]

Seed(r) ==
  /\ pc[r] = "scatter"
  /\ pass[r] <= Len(Passes)
  /\ Strategy(Current(r)) \in {"Atomic", "SortedCoalesced"}
  /\ scratch' = [scratch EXCEPT ![OperatorOf(r)] = Seeded(r, Current(r))]
  /\ todo' = [todo EXCEPT ![r] = Tasks(Current(r), product[r].u)]
  /\ pc' = [pc EXCEPT ![r] = "join"]
  /\ UNCHANGED <<input, design, sqrtWeights, product, out, pass, count>>

(* A task's next fetch_add. *)
FetchAdd(r) ==
  /\ pc[r] = "join"
  /\ \E t \in DOMAIN todo[r] :
       /\ todo[r][t] # <<>>
       /\ scratch' = [scratch EXCEPT ![OperatorOf(r)][Head(todo[r][t]).slot] =
                        @ + Head(todo[r][t]).value]
       /\ todo' = [todo EXCEPT ![r][t] = Tail(@)]
  /\ UNCHANGED <<input, design, sqrtWeights, pc, product, out, pass, count>>

(* All tasks have joined: writeback_scatter_scratch. *)
Writeback(r) ==
  /\ pc[r] = "join"
  /\ \A t \in DOMAIN todo[r] : todo[r][t] = <<>>
  /\ out' = [out EXCEPT ![r] =
       [d \in DOMAIN @ |->
          IF d - Current(r).base \in 0..Block(Current(r)) - 1
          THEN scratch[OperatorOf(r)][d - Current(r).base] ELSE @[d]]]
  /\ pass' = [pass EXCEPT ![r] = @ + 1]
  /\ pc' = [pc EXCEPT ![r] = "scatter"]
  /\ UNCHANGED <<input, design, sqrtWeights, product, todo, scratch, count>>

ScatterReturn(r) ==
  /\ pc[r] = "scatter"
  /\ pass[r] > Len(Passes)
  /\ pc' = [pc EXCEPT ![r] = "idle"]
  /\ UNCHANGED <<input, design, sqrtWeights, product, out, pass, todo, scratch, count>>

-----------------------------------------------------------------------------
(* A right-hand side asks for a product.  Its first one makes the operator *)
(* and its scratch, as long as the largest term's block.                   *)
Fresh(r) ==
  IF scratch[OperatorOf(r)] # <<>> THEN scratch
  ELSE [scratch EXCEPT ![OperatorOf(r)] =
          [s \in 0..Max({NDofs(design.terms[q]) : q \in DOMAIN design.terms}) - 1 |-> 0]]

ApplyAdjoint(r, y) ==
  /\ product' = [product EXCEPT ![r] = [op |-> "adjoint", u |-> PermuteIn(design, y), y |-> y]]
  /\ out' = [out EXCEPT ![r] = [d \in 0..design.nDofs - 1 |-> 0]]
  /\ pass' = [pass EXCEPT ![r] = 1]
  /\ pc' = [pc EXCEPT ![r] = "scatter"]
  /\ UNCHANGED todo

X == [d \in 0..design.nDofs - 1 |-> Coefficient(d)]

Start(r) ==
  /\ Built
  /\ pc[r] = "idle"
  /\ count[r] < MaxProducts
  /\ count' = [count EXCEPT ![r] = @ + 1]
  /\ \E op \in Products, y \in ObsVectors :
       CASE op = "adjoint" -> ApplyAdjoint(r, y)
         [] op = "apply"   -> GatherStart(r, op, X, sqrtWeights, None)
         [] op = "demean"  -> GatherStart(r, op, X, None, y)
  /\ scratch' = Fresh(r)
  /\ UNCHANGED <<input, design, sqrtWeights>>

Init ==
  /\ input \in Inputs
  /\ design = None
  /\ sqrtWeights = None
  /\ pc = [r \in Rhs |-> "idle"]
  /\ product = [r \in Rhs |-> None]
  /\ out = [r \in Rhs |-> None]
  /\ pass = [r \in Rhs |-> 1]
  /\ todo = [r \in Rhs |-> {}]
  /\ scratch = [r \in Rhs |-> <<>>]
  /\ count = [r \in Rhs |-> 0]

Next ==
  \/ New
  \/ \E r \in Rhs : \/ Start(r) \/ Gather(r) \/ GatherReturn(r)
                    \/ ScatterPrivate(r) \/ Seed(r) \/ FetchAdd(r) \/ Writeback(r)
                    \/ ScatterReturn(r)

Spec == Init /\ [][Next]_vars

-----------------------------------------------------------------------------
(* What the caller gave, row by row. *)

CallerRows == 1..NObs(input.frame)
CallerLevel(q, i) == input.frame.levels[q][i]
CallerValue(q, c, i) == Loading(input.frame, design.terms[q].columns[c], i)
CallerWeight(i) == IF input.weights = None THEN 1 ELSE SquareRoot(input.weights[i])
CallerFit(i) ==
  SumFunction([q \in DOMAIN design.terms |->
    SumFunction([c \in DOMAIN design.terms[q].columns |->
      Coefficient(Index(design.terms[q], c, CallerLevel(q, i))) * CallerValue(q, c, i)])])

Returned(r, op) == pc[r] = "idle" /\ product[r] # None /\ product[r].op = op

(* The observation a row of the design stands for. *)
Original(i) == IF design.perm = None THEN i ELSE design.perm[i]

(* apply_adjoint returns D^T W^(1/2) y of the columns, weights and y the   *)
(* caller gave, at the indices CoefficientLayout hands out: whatever the   *)
(* locality sort did, however a term's passes, strategies and tasks were   *)
(* scheduled, whatever an earlier pass left in the scratch, and whichever  *)
(* other right-hand sides scatter at the same time.                        *)
AdjointInCallerOrder ==
  \A r \in Rhs : Returned(r, "adjoint") =>
    \A q \in DOMAIN design.terms : \A c \in DOMAIN design.terms[q].columns :
      \A level \in 0..design.terms[q].nLevels - 1 :
        out[r][Index(design.terms[q], c, level)] =
          SumFunction([i \in {k \in CallerRows : CallerLevel(q, k) = level} |->
                         CallerValue(q, c, i) * CallerWeight(i) * product[r].y[i]])

(* The residual solve_rhs returns is y - D x observation by observation in *)
(* the caller's order, weights left out; apply is the fit of each row's    *)
(* observation times the root of that observation's weight.                *)
GatherInCallerOrder ==
  \A r \in Rhs :
    /\ Returned(r, "demean") =>
         \A i \in CallerRows : out[r][i] = product[r].y[i] - CallerFit(i)
    /\ Returned(r, "apply") =>
         \A i \in Rows : out[r][i] = CallerFit(Original(i)) * CallerWeight(Original(i))

(* The sort reorders observations by the dominant term, equal levels in    *)
(* the caller's order, whichever of its two algorithms ran; every term's   *)
(* sorted flag, by which the scatter picks its strategy, says what its     *)
(* column is after the sort.                                               *)
LocalitySorted ==
  Built =>
    /\ design.perm # None => LET d == Dominant(design.terms)
         IN \A i, j \in Rows : i < j =>
              \/ CallerLevel(d, Original(i)) < CallerLevel(d, Original(j))
              \/ /\ CallerLevel(d, Original(i)) = CallerLevel(d, Original(j))
                 /\ Original(i) < Original(j)
    /\ \A q \in DOMAIN design.terms :
         design.terms[q].sorted =
           \A i, j \in Rows : i < j => CallerLevel(q, Original(i)) <= CallerLevel(q, Original(j))

(* CoefficientLayout: every coefficient has one address, every address one *)
(* index, and they are each other's inverse.                               *)
LayoutRoundTrips ==
  Built =>
    /\ \A i \in 0..design.nDofs - 1 :
         LET a == Address(design.terms, i)
         IN /\ a.term \in DOMAIN design.terms
            /\ a.column \in DOMAIN design.terms[a.term].columns
            /\ a.level \in 0..design.terms[a.term].nLevels - 1
            /\ Index(design.terms[a.term], a.column, a.level) = i
    /\ \A q \in DOMAIN design.terms : \A c \in DOMAIN design.terms[q].columns :
         \A level \in 0..design.terms[q].nLevels - 1 :
           Address(design.terms, Index(design.terms[q], c, level)) =
             [term |-> q, column |-> c, level |-> level]
=============================================================================

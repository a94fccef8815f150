# Verification of `within`

`within` solves fixed-effects least squares: `min ||W^(1/2)(y - D x)||` for a design `D` of
several categorical factors (with slopes), by LSMR preconditioned with an additive Schwarz
method whose subdomains are pairs of factors. This directory holds TLA+ models of the code,
the TLC runs that check them and TLAPS proofs about them. Paths below are relative to the
repository root; `sp/` abbreviates `crates/schwarz-precond/src/`, `w/` abbreviates
`crates/within/src/`.

## Components

| component | code | state | operations | what makes it correct |
|---|---|---|---|---|
| additive Schwarz apply | `sp/schwarz/{executor,buffers,preconditioner}.rs`, `sp/domain.rs`, `sp/local_solve.rs` | buffer pool shared by clones, worker buffer stacks, atomic or private accumulators | `apply`, `take`, `put`, `with_buffer`, scatter, reduce | concurrent applies are isolated; a success is exactly the sum; a failure leaks nothing; every apply returns |
| reduction planning | `sp/schwarz/planning.rs` | none | resolve `Auto`, inner parallelism | any choice is correct; only speed differs |
| LSMR | `sp/lsmr.rs`, `sp/lsmr/*.rs` | bidiagonalization stream, window of basis vectors, rotations, solution vectors, staleness counter | `lsmr`, `mlsmr`, step, check, escalate | estimates, stop reasons and answers agree with `b - A x`; warm starts compose; the window keeps the basis orthogonal; a stalled run is handed off |
| solver | `w/solver.rs` | design, weights, preconditioner, coefficient layout (all immutable) | `new`, `solve`, `solve_batch` | results in the caller's order and covariates; a batch is answered in whole, each right-hand side by its own |
| design | `w/domain.rs`, `w/domain/effect.rs`, `w/observation.rs`, `w/channel.rs` | levels, offsets, observation permutation | `Effect::new`, `Design::new`, `build`, `permute_obs_in/out` | stable sort, true inverse, disjoint coefficient ranges |
| gather / scatter | `w/operator/design*.rs` | shared scatter scratch | `apply`, `apply_adjoint` | the three scatter strategies compute the same sums |
| cross tabulation | `w/domain/cross_tab*`, `w/csr_block.rs` | counts by level pair | accumulate, compact, components, extract | dense and sparse agree; components partition the active levels |
| factor pairs | `w/domain/factor_pairs*` | local matrices | split, partition weights, fold signs, ground | weights sum to one at every dof; local matrices are diagonally dominant M-matrices |
| block elimination | `w/block_elim/*` | complement, factor, dimensions; the caller's two buffers | build, solve, deserialize | a solve inverts the component's matrix whatever is in the buffers; the complement is a Laplacian; the operator is symmetric |
| slope reparametrization | `w/solver/reparam.rs` | per-level transforms | build, `back_transform` | orthonormal columns, true ranks, unchanged predictions |
| preconditioner construction | `w/operator/schwarz.rs`, `w/config.rs` | none | `build_preconditioner` | one entry per component; errors are reported |
| approximate Cholesky | external crate `approx-chol` | – | – | external |
| Python bindings, benchmarks | `crates/within-py`, `python/within` | – | conversion only | – |

`Solver::solve_batch` runs one `mlsmr` per right-hand side on the rayon pool; all of them apply
the one shared preconditioner, and each apply sweeps the subdomains on the same pool. The only
mutable shared state of a solve is therefore the preconditioner's buffer pool, the buffers of
the applies in flight and the scatter scratch of each design operator. The hard behaviour is
the interleaving there (work stealing re-enters `with_buffer` on one thread, scatters race,
applies fail half-way), and the long scalar recurrences of LSMR, where a wrong order of two
assignments gives plausible but wrong answers.

## Modules

### `SchwarzApply`: concurrent applies

One action per step of the code. `Callers` are concurrent `apply` calls on a preconditioner or
its clones; `Workers` are rayon threads.

| TLA+ | code |
|---|---|
| `pool`, `TakeBuffers`, `Put` | `BufferPool::{inner,take,put}`: one critical section each |
| `bufs[c]` | the `SchwarzBuffers` an apply has taken: the atomic accumulator, the worker buffers |
| `shared[c]`, `stack[c][w]` | `WorkerBufferStack::{shared_pool,worker_stacks}`: indices of the free worker buffers |
| `frames[w]` | the nested tasks on a thread: while a local solve waits for its own forked work (`MayTake`: inner parallelism), rayon may run another task on top |
| `Apply`, `JoinOk`, `JoinErr`, `JoinPanic` | `AdditiveExecutor::apply` and the two backends up to and after `try_for_each` |
| `StartTask`, `SkipTask`, `SolveOk/Err/Panic`, `FinishTask` | one subdomain task: `with_buffer` around `apply_weighted_into_*`; `SkipTask` is `try_for_each`'s early exit |
| `Load`, `ExchangeOk`, `ExchangeRetry` | `atomic_f64_add`, one step per atomic access |
| `AddPrivate` | `prolongate_weighted_add` into the worker's own accumulator |

Numbers are sets of local-solve terms `<<r, s>>`; adding a term twice leaves the mark `Twice`.
So a lost, foreign, stale or doubled contribution changes the value. Rounding is not modelled
(the two strategies and different schedules do differ in the last bits), neither are poisoned
locks, which the code can only meet after a panic inside a critical section that has none. Buffers are
values of the caller that took them: `take` moves them out of the pool under its lock, so that
no two callers can hold the same ones is Rust's ownership and not a property of the model.
A job stolen while a local solve waits may also be a whole right-hand side of the batch, which
the model runs as another caller rather than as a frame.

`AdditiveSchwarz` is the specification a caller relies on: no pool, no workers; a call
returns the sum, or the error of a subdomain that did fail and no partial sum.
`SchwarzApply` implements it (`ImplementsAdditiveSchwarz`, refinement mapping at the end of
the module).

### `Lsmr` over `ExactArith`: the solver

`Lsmr` runs the code's recurrences on small integer systems without rounding. `ExactArith`
represents a scalar that comes out of a square root by its signed square, a rational, and a
vector by `c sqrt(q)` times integers, which makes hypot, the Givens rotations and both
bidiagonalizations exact. `Call .. Start .. Iterate .. GiveUp` are the phases of `lsmr`,
`mlsmr` and `lsmr_from_bidiag`; one `Iterate` is one pass of the loop (stream step, observe,
rotations, solution update, stopping test, escalation). A caller may start the next call
from the previous answer with another preconditioner, as the ladder tests do.

`bidiag.ring` is `WindowRing`, both lanes of it, with `ChronoSlots`, `Push` and
`Reorthogonalized`. In exact arithmetic reorthogonalization would have nothing to do, so a
step may first bring back a part (`Drifts`) of one vector that the window is to hold: the part of
rounding that a window can repair. `past` and `trail` are history variables, the basis vectors
of the run and the ratios its staleness policy has seen; no action reads `trail`, and `past` only
says which vectors may come back. Not modelled: other rounding, overflow, and the vector
kernels by chunks.

### `Design` and `DesignOperator`: rows, coefficients, products

`Design` is a module of operators: `Design::build` from a frame of level and loading columns
(`Terms`, `Dominant`, `StableArgsort` with its two algorithms, `Permuted`, `Resorted`), the
permutations in and out, and the index and address of a coefficient. Rows are counted from 1.
How a caller's effects become that frame is in `Effects`, below.

`DesignOperator` lets a caller build a solver (`New`) and then several right-hand sides compute
products with the design at the same time:

| TLA+ | code |
|---|---|
| `input`, `design`, `sqrtWeights` | the arguments of `Solver::new`; the fields of `Solver` |
| `Start` | `apply`, `apply_adjoint`, or the residual of `solve_rhs`; the first product of a right-hand side makes its operator (`Fresh`) |
| `Gather`, `GatherReturn` | a chunk of `gather_apply`'s rows; for the residual the subtraction from `y` and the way back to the caller's order |
| `pass[r]`, `Passes` | the `scatter_term` calls of `scatter_apply`: one per term, or per column where the arity has no fused kernel |
| `ScatterPrivate` | `scatter_sequential`, `scatter_fold` |
| `Seed`, `FetchAdd`, `Writeback` | `scatter_atomic` and `scatter_sorted_coalesced`: `todo[r]` holds the adds left to each rayon task, one `FetchAdd` is one atomic access |
| `scratch[OperatorOf(r)]` | `DesignOperator::scatter_scratch`, kept from pass to pass and product to product |

The properties are stated over the caller's columns, weights and vectors (`Caller...`), never
over the internal order. Numbers are integers: the order of a sum does not show, so the
splits of the thread-local fold are one step. Weights are squares of integers. Slopes are used as
given; that `Solver::new` replaces loading columns is in `Solver`.

### `FactorPairs`: the subdomains

`FactorPairs` builds a preconditioner from a design. One `BuildPair` is the rayon task of one
pair of channels: `CrossTab` (active levels, dense or sparse accumulation), `Components` (the
depth-first walk with its stack), `ExtractComponent`, `OrientForElimination` and `Convert`
(`ConvertKnownLaplacian` for pairs of intercepts, else `FoldingSigns`, `Assemble`,
`Grounded`). `Collect` and `CollectError` are the end of the parallel collect; `Count` and
`SetWeights` the two parallel sweeps of `compute_partition_weights`, one `Count` per atomic
increment. `DiagonalAt` is `build_diagonal`.

| TLA+ | code |
|---|---|
| `built[k]` | what `split_into_subdomains` returned for pair `k` |
| `domains` | the `Vec<LocalDomain>`; `component` is the `LocalComponent` with its SDDM matrix, `factors` the signs of its coordinate map |
| `counts`, `uncounted` | the atomic counts and the indices each task of the first sweep has left |
| `result` | the error, or the diagonal preconditioner |

A weight `1/sqrt(c)` stands as `c`, the inverse of a diagonal entry as the entry; the error for an
entry whose inverse is not finite (`SingularDiagonal`) is not modelled. Numbers are
integers in units of `1/Unit`, so that loadings of halves can be used: the loading columns
of a run are orthonormal within each level, as the slope reparametrization leaves them, or zero.
Dominance scaling is abstracted to its two outcomes (`warned`, or rejected by
`ScalingFailure::Error`); a component that needs none is modelled to the end. The sparse
accumulation keeps one workspace for all rows (`SparseRows`), which each row has to leave zeroed. The remap tables of
`extract_component` are not state: a component contains every column its rows have a cell
in, so an entry left over from another component could never be read.

### `BlockElim` over `CsrBlock`: the local solver of a subdomain

`BlockElim` takes one component, as `FactorPairs` describes them, through
`BlockElimSolver::build` and then through solves. `CsrBlock` has the transpose and the structure
check that the two modules share.

| TLA+ | code |
|---|---|
| `component`, `config` | `LocalComponent` and the two fields of `LocalSolverConfig` that decide the way |
| `Eliminate`, `CoveredBy` | `Eliminated::new`, `Eliminated::cover` (`CoverOf` is the Gremban cover) |
| `FactorDense`, `FactorSparse`, `attempts` | `factor_reduced`: the dense attempt, what its outcome leads to (`AfterDense`), and the second |
| `ExactForFactor` | `schur::exact_for_factor`: rows through one workspace that every row leaves zeroed, surplus, explicit Laplacian with its ground vertex |
| `Sampled` | `schur::sampled`: stars, sort and merge, assembly by cursors |
| `solver` | the fields of `BlockElimSolver`; `factor` is `ReducedFactor::{Direct,Cover}` |
| `buffers` | `rhs` and `sol` of `solve_local`, slices counted from 0 as in the code |
| `CenterRhs` .. `UnfoldSolution`, `SolveLocal` | the steps of `solve_local` and `eliminate_and_recover`, in their order |
| `Loaded` | `Deserialize` of the solver and of the factor |

Arithmetic is exact. The sampler (`CliqueTreeSampler`) and the factorization (`Factor`) are the
external crate `approx-chol`: the first draws any tree of a star's entries, lightest first, the
second solves the Laplacian it is given up to a constant of its own (`Gauges`) and may add
vertices (`Auxiliaries`). A build may report an unusable pivot or another error. Buffers start with,
and keep, whatever was left (`Leftovers`, and a solve the factor failed in the middle of). Splits of
rows between threads write disjoint slots and are not modelled.

### `Effects`, `Reparam` and `Solver`: what the caller asks and gets

`Effects` is a module of operators: `Effect` is `Effect::new` with its errors, `NewDesign` is
`Design::new`, which gives every covariate of every effect a loading column of its own
(`LoadingOf`), checks that columns have one length (`RowAligned`) and builds. Reparametrization
writes over loading columns in place, so two effects with one covariate must not share a column.
An array of codes, the other input of `Solver::new`, is a list of effects with only an intercept.

`Reparam` is a module of operators: `SlopeReparam::build` (`Moments` in one pass, `Gram`,
`GramSchmidt` with its pivots, `WhitenedFrame`, `UnidentifiedOf`) and `BackTransform`. Numbers are
rationals. A direction has the square root of a norm in it, which is kept apart: row `q` and
`normSq` for `q / sqrt(normSq)`. A column of the solver is `sqrt(normSq)` times the code's and a
coefficient its part, so every product is the code's. `RankTol` is below any ratio the data has, so
a rank is the exact one.

`Solver` is `Solver::new` and `solve_batch`; `solve` is a batch of one.

| TLA+ | code |
|---|---|
| `New`, `Solvers`, `Assembled` | `Solver::new`: errors of effects, design, weights and preconditioner in their order, weights to internal order, reparametrization, dimensions of a prebuilt preconditioner |
| `Call`, `Begin`, `Finish`, `Break` | the tasks of `par_iter().map(solve_rhs)`: validation, the iteration and what follows it |
| `saved`, `Fail`, `Skip` | rayon's collect into `Result`: the first error to arrive is kept, what has not begun may be dropped |
| `RhsSolution` | residual in the solver's basis and order, then back transform, then permutation out |
| `Return`, `Collected` | the concatenation in the order of the right-hand sides |

The iteration itself is abstracted to `Answers`: some coefficients, different ones different, 0
where no weighted row loads on a coefficient (nothing in LSMR can give it a value) unless the
preconditioner reaches it. A preconditioner built for this design does not; a prebuilt one may,
which is what `Dense` says. Errors of the iteration other than a preconditioner's (options out of
range, weighted responses that overflow) would fail every right-hand side alike and are left out.

## Runs

| run | question | bounds |
|---|---|---|
| `apply_one` | `OkIsSum`, `NoPartialResult`, `WorkerBuffersBounded`: consecutive applies of one caller, all four plans, failures and panics | 2 workers, 3 subdomains (two overlapping, one empty), 2 dofs, 2 residuals, pool of 2, stacks of 2 frames |
| `apply_pair` | `TypeOK`, `PoolClean`, `ImplementsAdditiveSchwarz`: two callers on one pool | 2 workers, 2 subdomains on one dof, pool of 1, both strategies, failures; symmetric in callers and workers |
| `apply_live` | `AppliesReturn` and the refinement for nested reductions | 2 callers, 1 worker, 2 subdomains, stacks of 2 |
| `pool_steady` | expected violation, see findings | 4 callers, the code's pool of 4, 1 worker, 1 subdomain |
| `lsmr_exact` | `NormalEqEstimateExact`, `ConvergedMeansSolved`, `StopsWithinTolerance`, `StopsAtBreakdown`, `NeverWorseThanStart`, `WindowIsRecent`, `WindowOrthonormal`, `EscalatesWhenStalled` | systems of 2 and 3 columns (full rank, deficient, consistent, one-hot) and bidiagonal ones of 4 and 5; 2 calls, tolerances 0 and 1/3, budgets 0, 1 and 6, definite and indefinite preconditioners, windows of 0 to 3 vectors and one longer than a run, policies of 1 and 2 iterations |
| `design_layouts` | `AdjointInCallerOrder`, `GatherInCallerOrder`, `LocalitySorted`, `LayoutRoundTrips`: a solver is built and computes one product | 4 observations, all pairs of a three-level and a gappy two-level factor, an eight-level factor with a slope column only, weights absent, valid, of the wrong length, negative; empty frames; more dofs than `MaxDofs` |
| `scatter_parallel` | `AdjointInCallerOrder`, `GatherInCallerOrder` under every interleaving | 2 right-hand sides, 2 products each, 5 designs that between them take every strategy, fused and unfused, weighted and not |
| `factor_pairs` | `SubdomainsAreComponents`, `LocalMatricesAreGram`, `PartitionOfUnity`, `FoldsUnlessFrustrated`, `FloatsIffSingular`, `FailsOnlyUnscaled`, `DiagonalIsGram` | 4 observations (5 where a cell cancels on its way through the sparse accumulation), 2 and 3 terms, slopes of every sign, dropped slopes, zero weights, both failure policies, all three configurations |
| `block_elim` | `ComplementIsLaplacian`, `SolvesLocalSystem`, `LocalOperatorSymmetric`, `LoadsBack`, `FailsOnlyFatally` | components of up to 3 eliminated and 3 kept vertices, floating and grounded, canonical and scaled, signed, without any cell; both Schur modes, dense or not; 0 or 1 vertices of the factor, 2 gauges, 2 solves and a failed one |
| `solver` | `BatchAllOrNothing`, `UnidentifiedIsRankDeficit`, `WhitenedGram`, `PredictionsUnchanged`, `UnidentifiedAreZero` | 5 observations out of order, up to 3 covariates of every rank in up to 3 levels, with and without intercept, zero weights, an empty level, one covariate in two effects, invalid effects and weights, no effects and no observations; batches of up to 3, all interleavings |
| `lsmr_estimate` | expected violation, see findings | as `lsmr_exact` |
| `solver_prebuilt` | expected violation, see findings | as `solver`, with preconditioners that reach every coefficient |

Two tasks that overlap in one dof are enough for every race on a word, two frames for
re-entry, two residuals and consecutive applies for leftovers, a pool smaller than the number
of buffers in flight for a full pool. Three columns are the fewest where a run can be handed
off after a measured contraction ratio before it ends by itself. `MaxDenominator` keeps warm
starts within TLC's 32-bit integers, `MaxDepth`, `MaxCalls` and `MaxSolves` bound stacks, calls and
solves. Five columns let a window of two or three wrap round and then some, and the residual
contract slowly, fast and slowly again, so that a count of stalled iterations is reset. For
`StopsWithinTolerance` one right-hand side is close enough to the image of the caller's start vector
that the norms of `b` and of the start's residual end a run at different iterations.

The thresholds of the row loops (`ParThreshold`, `LocalThreshold`, `GatherChunk`, `ScatterChunk`)
are constants scaled down to four observations: they are above and below the rows and blocks
of the designs, and chunks end in the middle of a run of equal levels and before the last row. Eight
levels over four rows take the comparison sort, three the counting sort. Responses are powers
of ten and coefficients powers of two, so sums over different rows or indices differ.
`MaxProducts` bounds the products of a right-hand side; two let a scratch be used again.

In `factor_pairs` four rows give blocks of up to three levels by three, hence every shape of a
component up to two joined cycles, cycles of either sign, singletons and dead levels;
`DenseTableMaxEntries` is 3, so that tables of nine cells go the sparse way. The reference
definitions are independent of the walks: components by cuts, frustration by trying all signs,
singularity by a kernel vector of signs, the Gram matrix from the caller's rows.

In `block_elim` three vertices on either side give complements with fill that cancels and fill that
merges, stars of two, three and (with the ground) four entries, hence several trees, and
covers of up to four kept vertices; a second solve finds the buffers of the first, of another right-hand
side or of a failure. A unit vector per solve is enough: solves are linear. Its reference is
the component's own matrix. `solver` takes ranks from determinants of the caller's moments and
residuals from the caller's covariates; four of its covariates are multiples of another,
constant, constant within a level or 0.

All runs but the apply runs stop when the callers have made their calls, or a construction has
failed (`CHECK_DEADLOCK FALSE`); the apply runs check deadlock.

**Fairness** (`FairSpec`): rayon runs every job it is given, so `SF` for starting and ending a
local solve, which other callers' tasks may pre-empt on a worker; `WF` for what runs to its
end without waiting: the scatter of the task on top of a stack, the code after the join. No
fairness is assumed of the callers.

Each property of a passing run has a mutant, an operator marked so in the module, which is a
plausible bug in the definition it replaces (dropped comparison, partial clean-up, wrong sign,
strict comparison) and makes TLC find the property violated.

## Proofs

TLAPS checks the proofs below for every value of the constants that the named assumptions admit.
Their common shape: an inductive invariant, checked by TLC on the runs first, one lemma per action
and one step per conjunct the action can disturb, and PTL for the last step.

### Concurrent applies

`SchwarzApplyProofs`, for any finite or infinite sets of callers, workers, subdomains and dofs
admitted by `SchwarzAssumption`:

* `TypesAndPoolBound`: `Spec => []TypeOK`, which includes `Len(pool) <= MaxPoolSize`;
* `PoolStaysClean`: `Spec => []PoolClean`;
* `SuccessIsSum`: `Spec => []OkIsSum`;
* `NoPartialOutput`: `Spec => []NoPartialResult`.

None of the last three is inductive. The invariant `IInv` adds, for each caller, what its
accumulators hold in the middle of a sweep: `SumInv` says that every accumulator is the set of
terms of exactly the tasks that have scattered into that dof (for the atomic accumulator all
tasks that are past the dof, for worker buffer `b` the tasks whose `held` is `b`), which needs
`OwnershipInv` (a worker buffer is free or held by a task that runs or panicked, so after a
sweep without panics the free buffers gathered at the join are all of them) and `TaskInv` (a task's remaining dofs match
its state, a failed task has scattered nothing). `IdleInv`, `NoStacksInv`, `PutInv` and
`ResultInv` carry the result from the join to the return.

Its second section: `AppliesAreIsolated`, `Spec => ImplementsAdditiveSchwarz`. Under the mapping at
the end of `SchwarzApply` the abstract state is who is busy, what each caller sees and which
subdomains failed in its call. `Apply` and `RejectShape` are the abstract call, the joins the
abstract answers (`SumInv` and `OwnershipInv` say that what a join writes is the sum), a failing or
panicking local solve the abstract fault, `Put` the abstract return; takes, loads, exchanges,
private adds and stack moves are stutters. One invariant of its own, `Answered`: buffers are put
back after the answer, so a return after a put shows nothing new.

Its third: `WorkerBuffersStayBounded`, `Spec => []WorkerBuffersBounded`, and `TasksRunOnce`,
`Spec => []FramesInv`: a running task is on one frame of one worker. A buffer is allocated by a
worker whose own stack is empty when none is shared, so at that moment all buffers of the call
are on other stacks or in frames (`AllMineInv`, from `OwnershipInv`); those one worker keeps or holds
are at most as many as re-entry is deep (`FewInv`: a finished frame gives back what it held), and
`CoverBound` counts. A panic loses a buffer, which is then made again, and the bound with it, but
the buffers of that call are dropped (`LengthInv` is about calls without panics and calls at
their put). `SchwarzAssumption` takes `Workers` finite and not empty, as a rayon pool's threads are.

### Design and its products

`DesignProofs` and `DesignOperatorProofs`, for every input admitted by `InputsAssumption`: a frame
of columns of one length (`ObservationFrame::new`) and a structure with at least one column for
each factor (`NonEmpty` in `w/domain.rs`), with integers for floats, and right-hand sides of one value
per observation (`solve_rhs` rejects others with `ResponseLength`).

* `LayoutIsBijective`: `Spec => []LayoutRoundTrips`. A term's offset is a sum of products of sizes;
  `Blocks` turns it into intervals that follow one another, and division by the number of levels
  finds column and level.
* `SortIsStable`: `Spec => []LocalitySorted`, for both algorithms. The comparison sort exists and is
  unique because `Before` ranks the observations (`RankedSorts`); of the counting sort `CountingInv`
  says which observations are placed, and that each level's cursor is after those of its own and all
  of the lower levels.
* `GathersAreCallers`: `Spec => []GatherInCallerOrder`. `Gathering` says of each row of an
  output under way that it is computed or that some task still owes it.
* `AdjointsAreCallers`: `Spec => []AdjointInCallerOrder`, for any number of rows,
  levels, terms, right-hand sides and products, any strategy of each pass and any interleaving of
  their atomic adds.

The argument of the last:

1. The passes of a scatter, fused or one per column, tile the coefficients (`PassesTile`): each slot
   is one pass's, and the slots of two passes are apart (`PassesApart`).
2. The tasks of a parallel pass together owe each slot the sum over the rows of its level
   (`TasksOwe`). For one task per row this is a sum by groups (`AtomicOwed`); for the coalescing
   chunks, the runs cover a chunk and do not meet (`RunsCover`, `RunsDisjoint`), so a run cut by a
   chunk boundary is owed in two parts that add up (`ChunkTotal`, `ChunkOwed`).
3. The inductive invariant `AdjointInv` says of a pass under way that in every slot the scratch and
   what its tasks still owe come to that sum (`Joining`). A `FetchAdd` moves an amount from one side to the other,
   so the order does not matter, and when nothing is owed the scratch is the sum. Passes
   done hold their sums in the output and those to come hold zeros (`Scattered`); the scratch,
   made once and kept, is long enough for every term (`Covers`).
4. A right-hand side changes its own output, tasks and scratch only (`OnlyOwnPart`), so the steps
   of the others keep its invariant.
5. A sum over the rows of the internal order is the sum over the caller's observations, because
   `OriginalOf` is a bijection (`SumRename`, `DueIsCallers`).

All four theorems rest on `BuildSound`, which turns `Build` into `Builds`: what a design that was
not rejected has to do with the frame it was built from.

### Batches

`SolverProofs`: `BatchesAreWhole`, `Spec => []BatchAllOrNothing`, for any effects, batches,
iterations and preconditioners. `DesignSound` says that what `NewDesign` lowers any list of effects to
is a frame and a structure `Build` accepts, so results have the rows and columns of the caller
(`DesignShaped`); `TaskInv` and `CallInv` say of a batch under way which right-hand sides are
answered, that a saved error is that of an invalid one, and that nothing is skipped before there is an
error. `FlattenEqual` is the concatenation of results of equal length. `SolverAssumption` gives
the types a caller of `Solver::new` and `solve_batch` is held to by theirs.

### Subdomains and their matrices

`FactorPairsTables` and `FactorPairsProofs`, for every input, configuration and interleaving of the
parallel tasks. `FactorPairsAssumption` holds callers to what reaches `build_preconditioner`: the
input is a frame, a structure and weights that `Design::build` accepts.

* `DiagonalCorrect`: `Spec => []DiagonalIsGram`, about the diagonal before its entries are inverted. The invariant `DiagonalInv` says that a diagonal
  preconditioner is only ever the one `DiagonalAt` computes; a sum over internal rows is a sum over
  the caller's (`SumRename`).
* `SubdomainsCorrect`: `Spec => []SubdomainsAreComponents`. The walk's invariant (each vertex is
  unseen, on the stack or done; what is done has all its neighbours seen; all that was seen since
  the root is reached from it) makes each walk a component, no two of them the same, and
  their union the active levels.
* `LocalMatricesCorrect`: `Spec => []LocalMatricesAreGram`. Dense and sparse accumulation both tabulate
  the sums over the caller's rows of a pair of levels: the sparse one by an invariant of its
  touched list, also for a cell that cancels half-way and comes back, and because every row leaves
  the shared workspace zeroed for the next (`FreshRowIs`, `SparseRowsAre`). Compaction, extraction,
  orientation and conversion are then followed entry by entry.
* `FoldsCorrect`: `Spec => []FoldsUnlessFrustrated`. The signs the walk spreads are forced, up to one
  sign for the whole component; so if they fail an edge, all signs do.
* `FloatsCorrect`: `Spec => []FloatsIffSingular`. A matrix that is diagonally dominant has a kernel
  vector of signs just if every row's surplus is 0 and no edge fails the signs.
* `FailsCorrect`: `Spec => []FailsOnlyUnscaled`.
* `WeightsCorrect`: `Spec => []PartitionOfUnity`. `WeightInv`: a count plus the increments its tasks
  still owe is the number of subdomains over that dof, and no weight is set before the last count.

The six are read off one more invariant, `BuiltInv`: the result of a finished task of a pair is that of
`split_into_subdomains` (`BuiltSound`, or `BuiltError` with a component to blame), and the collected
domains are those of all pairs in order (`DomainsAre`). It needs no fact about other tasks, hence
holds for any order of them.

### The loop of LSMR

`LsmrProofs`, for every set of systems, preconditioners, warm starts, tolerances, policies, drifts and
sequences of calls that `LsmrAssumption` admits: matrices and vectors of matching shape over the
integers, rationals with 0 written one way, windows of a policy of at least 1.

* `WindowCorrect`: `Spec => []WindowIsRecent`, for any capacity of the ring, 0 included, and runs of any
  length. `WindowHolds` puts vector `t` in slot `(t - 1) % capacity` while it is among the last; then a
  push overwrites the oldest (`PushHolds`, since numbers less than the capacity apart have different
  remainders, `ModDiffers`) and `ChronoSlots` reads them in order (`HoldsWindow`).
* `EscalationCorrect`: `Spec => []EscalatesWhenStalled`. `Counted` says that the count of the handler is
  the number of slow iterations since the last that was not, and that the first of a run is not
  counted. The code compares a ratio with the threshold, the property a product (`RatioIsProduct`).
* `LsmrInvariant`: `Spec => []LsmrInv`, the inductive invariant of both. Its typing part is where the
  work is: that a ratio is only formed with a positive denominator needs
  `zetaBar # Nil` after a pass that does not stop, hence `alpha # Nil` (`RotationsIs`, `StopReasonIs`),
  hence `Positive(bidiag.alpha)` throughout the loop, which is the first half of `StopsAtBreakdown`:
  the assertion of `update_p_tilde` holds for every system and preconditioner. Types of the operators
  of `ExactArith` rest on Euclid's algorithm (`EuclidIs`) and on `Square` (`SquareIs`), recursive
  functions whose equations `RecursionExists` gives, and on `LeqIs`: the comparison by
  continued fractions is the order of the rationals.

### How recursion is reasoned about

Library theorems whose parameter is an operator cannot be instantiated by the provers, so
induction is over sets: `SetOfNaturals` (from well-foundedness of `<`) and `SubsetInduction`, in the
module `Induction`. A fold or a sum of the community modules, and a recursive function, is chosen
with `CHOOSE`; `FoldExists` and `RecursionExists` show that there is one, and `SumSolves`,
`SumRemove`, `FoldUp` give the equations.

### Only model-checked

* `AppliesReturn`: liveness is out of the prover's reach.
* `Lsmr`: the second half of `StopsAtBreakdown` (the loop ends within as many passes as there are
  columns), `WindowOrthonormal`, `NormalEqEstimateExact`, `ConvergedMeansSolved`, `StopsWithinTolerance`,
  `NeverWorseThanStart`.
  They say that two nonlinear recurrences over square roots compute the same: the proof is the
  theory of Krylov spaces, dimensions and minimization included, which would have to be built first.
* `BlockElim`: its reference and its factor solve a linear system by elimination with a `RECURSIVE`
  operator (`DenseSolution`), with which a module is out of the prover's reach; what the runs check is
  uniqueness of solutions and the algebra of Schur complements.
* `Solver`'s `UnidentifiedIsRankDeficit`, `WhitenedGram`, `PredictionsUnchanged` and
  `UnidentifiedAreZero`, that is `Reparam`: ranks against determinants, and Gram-Schmidt.

## Findings

* **The pool can stop serving a strategy** (`pool_steady`). `put` keeps at most four buffers
  and never evicts; `take` only hands out a buffer of the wanted strategy. After four
  concurrent atomic applies have filled the pool, every later reduction apply allocates its
  buffers and drops them, although `buffers.rs` says the steady state allocates nothing.
* **The residual estimate is not conservative** (`lsmr_estimate`). `recurrence.rs` calls
  `|phi_bar|` conservative because "LSMR's residual is bounded by LSQR's". It is the other way
  round: LSQR minimizes the residual over the Krylov space. The counterexample returns an `x`
  with squared residual 38/25 and reports 3/2, or 13/25 and 1/2 if TLC comes to `b = 0` first (the diagonal
  system from `<<1, 0>>` with `Coupled2`); the same estimate decides `ResidualTolerance`.
  `ConvergedMeansSolved` therefore makes no claim about that stop reason unless `tol` is 0.
* **Unidentified slots need not hold 0** (`solver_prebuilt`). `SolveResult::x` promises 0 for
  unidentified directions, which the solve leaves at 0 because nothing gives them a value. A
  preconditioner built with other weights, accepted for its dimensions, can: the basis vectors
  of `mlsmr` are `M^-1` times the columns' combinations. `back_transform` overwrites the slots of
  a level that has a direction, but skips a level that has none, and leaves the intercept of a
  level without weight as it is.

## Not modelled

* `sp/schwarz/planning.rs`: the estimates behind `Auto`. It has no state, and `SchwarzApply` lets
  every apply take any plan.
* Dominance scaling in `sddm.rs`: its sweeps stop by thresholds on floating-point ratios; only the
  outcomes are modelled.
* Rounding, overflow of norms (`vec_norm` of finite vectors), poisoned locks: see the modules.
* Timings, ownership of columns, the wire format of preconditioners.
* `approx-chol`, which is external, the Python bindings, which convert arguments and hold no
  state but the solver, benchmarks and examples.

## Plan

Done: `SchwarzApply`, `AdditiveSchwarz`, `SchwarzApplyProofs`, `Lsmr`, `ExactArith`, `LsmrProofs`,
`Design`, `DesignOperator`, `DesignProofs`, `DesignOperatorProofs`, `Induction`, `FactorPairs`,
`FactorPairsTables`, `FactorPairsProofs`, `CsrBlock`, `BlockElim`, `Reparam`, `Effects`, `Solver`,
`SolverProofs`. Next: `BlockElim` without its `RECURSIVE` operator, and of its properties the
structural ones first (`FailsOnlyFatally`, `LoadsBack`, the signs and zero row sums of an exact
complement).

------------------------------ MODULE SchwarzApply ------------------------------
(***************************************************************************)
(* One additive Schwarz preconditioner applied by several callers at once: *)
(* the executor and buffer pool of crates/schwarz-precond/src/schwarz, the *)
(* weighted local solve of local_solve.rs and the compare-and-swap scatter *)
(* of domain.rs.                                                           *)
(*                                                                         *)
(* Callers are concurrent `apply` calls on one preconditioner or on clones *)
(* of it (the right-hand sides of a batch); clones share the pool.         *)
(* Workers are the rayon threads that run the subdomain tasks.  A worker   *)
(* whose local solve forks may steal another task and run it on top of     *)
(* the one that waits, so every worker has a stack of frames and only the  *)
(* top one moves.                                                          *)
(*                                                                         *)
(* A number is abstracted to the set of local-solve terms <<r, s>> summed  *)
(* into it, s's weighted local solution of residual r; Twice marks that    *)
(* some term was added more than once.  Addition commutes and the empty    *)
(* sum is 0.0: rounding is not modelled.                                   *)
(***************************************************************************)
EXTENDS Naturals, Sequences, FiniteSets

CONSTANTS
  Callers,        (* concurrent apply calls                                *)
  Workers,        (* rayon threads                                         *)
  Subdomains,     (* entries of the preconditioner                         *)
  Dofs,           (* global degrees of freedom                             *)
  Residuals,      (* input vectors r                                       *)
  GlobalIndices,  (* subdomain -> the degrees of freedom it covers         *)
  Plans,          (* reduction plans the scheduler may resolve to          *)
  Faults,         (* ways a local solve may end badly                      *)
  MaxPoolSize,    (* BufferPool::MAX_POOL_SIZE                             *)
  MaxDepth,       (* bound: frames on one worker's stack                   *)
  Twice           (* marks a doubly counted sum                            *)

Strategies == {"AtomicScatter", "ParallelReduction"}

ASSUME SchwarzAssumption ==
  /\ GlobalIndices \in [Subdomains -> SUBSET Dofs]
  /\ Plans \subseteq [strategy : Strategies, inner : BOOLEAN]
  /\ Faults \subseteq {"failed", "panicked"}
  /\ MaxPoolSize \in Nat
  /\ MaxDepth \in Nat \ {0}
  /\ IsFiniteSet(Workers) /\ Workers # {}
  /\ Twice \notin Residuals \X Subdomains
  /\ Subdomains \cap {"pending", "ok", "panicked", "InvalidInput"} = {}

Terms == Residuals \X Subdomains
Values == SUBSET (Terms \cup {Twice})
Vectors == [Dofs -> Values]
Zero == [d \in Dofs |-> {}]

(* v + t: adding a term that is already there is counted twice. *)
Plus(v, t) == v \cup {t} \cup (IF t \in v THEN {Twice} ELSE {})

(* The promised result: the sum over the subdomains that cover each dof. *)
MInv(r) == [d \in Dofs |-> {<<r, s>> : s \in {q \in Subdomains : d \in GlobalIndices[q]}}]

Tasks == Callers \X Subdomains
Finished == {"done", "failed", "panicked", "skipped"}

VARIABLES
  pool,      (* BufferPool.inner                                           *)
  pc,        (* each caller: idle, in the parallel sweep, or returning     *)
  residual,  (* each caller's r                                            *)
  plan,      (* the plan of each caller's current or last apply            *)
  z,         (* each caller's output vector                                *)
  result,    (* what the last apply returned: ok, a failed subdomain, ...  *)
  bufs,      (* the SchwarzBuffers each caller has taken                   *)
  shared,    (* WorkerBufferStack.shared_pool: free worker buffers         *)
  stack,     (* WorkerBufferStack.worker_stacks: free, kept by a worker    *)
  task,      (* state of each subdomain task                               *)
  held,      (* the worker buffer a task runs (or ran) with                *)
  rem,       (* dofs a task has still to scatter                           *)
  cas,       (* the compare-and-swap a task is in: dof and value loaded    *)
  frames     (* each worker's stack of running tasks                       *)

callerVars == <<pc, residual, plan, z, result>>
bufferVars == <<bufs, shared, stack>>
taskVars == <<task, held, rem, cas, frames>>
vars == <<pool, callerVars, bufferVars, taskVars>>

-----------------------------------------------------------------------------
(* Buffers and the pool. *)

(* A worker buffer is an AdditiveSweepBuffers, of which the accumulator is *)
(* kept; the LocalSolveScratch of the atomic strategy has none, and its    *)
(* entry stays Zero.  Local solves overwrite the rest of a scratch.        *)
Buffers == [strategy : Strategies, accum : Vectors, workers : Seq(Vectors)]

NewBuffers(strategy) ==
  [strategy |-> strategy,
   accum    |-> Zero,
   workers  |-> IF strategy = "ParallelReduction" THEN <<Zero>> ELSE <<>>]

(* A caller outside an apply owns no buffers. *)
NoBuffers == NewBuffers("AtomicScatter")

Matching(strategy) == {i \in DOMAIN pool : pool[i].strategy = strategy}

(* Vec::swap_remove: the last element fills the hole. *)
SwapRemove(seq, i) ==
  [j \in 1 .. Len(seq) - 1 |-> IF j = i THEN seq[Len(seq)] ELSE seq[j]]

(* BufferPool::take, one critical section: the first buffer of the wanted  *)
(* strategy, else a new one.                                               *)
TakeBuffers(c, strategy) ==
  \/ /\ Matching(strategy) = {}
     /\ bufs' = [bufs EXCEPT ![c] = NewBuffers(strategy)]
     /\ shared' = [shared EXCEPT ![c] = DOMAIN NewBuffers(strategy).workers]
     /\ UNCHANGED pool
  \/ \E i \in Matching(strategy) :
       /\ \A j \in Matching(strategy) : i <= j
       /\ bufs' = [bufs EXCEPT ![c] = pool[i]]
       /\ shared' = [shared EXCEPT ![c] = DOMAIN pool[i].workers]
       /\ pool' = SwapRemove(pool, i)

-----------------------------------------------------------------------------
(* The caller's side of an apply. *)

(* SchwarzPreconditioner::apply rejects a vector of the wrong length. *)
RejectShape(c) ==
  /\ pc[c] = "idle"
  /\ result' = [result EXCEPT ![c] = "InvalidInput"]
  /\ UNCHANGED <<pool, pc, residual, plan, z, bufferVars, taskVars>>

(* The plan is resolved, buffers are taken from the pool and the parallel  *)
(* sweep over the subdomains begins.  z still holds what the caller had    *)
(* in it.                                                                  *)
Apply(c) ==
  /\ pc[c] = "idle"
  /\ \E r \in Residuals, p \in Plans :
       /\ residual' = [residual EXCEPT ![c] = r]
       /\ plan' = [plan EXCEPT ![c] = p]
       /\ TakeBuffers(c, p.strategy)
  /\ pc' = [pc EXCEPT ![c] = "sweep"]
  /\ result' = [result EXCEPT ![c] = "pending"]
  /\ UNCHANGED <<z, stack, taskVars>>

FailedOf(c) == {s \in Subdomains : task[<<c, s>>] = "failed"}
PanickedOf(c) == {s \in Subdomains : task[<<c, s>>] = "panicked"}

(* Mutants: the sweep waits for successes only; or only until every task   *)
(* has been started.                                                       *)
SweepSucceeded(c) == \A s \in Subdomains : task[<<c, s>>] = "done"
SweepStarted(c) == \A s \in Subdomains : task[<<c, s>>] # "todo"

SweepOver(c) == \A s \in Subdomains : task[<<c, s>>] \in Finished

(* Mutant: the buffers the workers kept are not gathered. *)
IntoPoolSharedOnly(c) == shared[c]

(* WorkerBufferStack::into_pool: what is free is recovered. *)
IntoPool(c) == shared[c] \cup UNION {stack[c][w] : w \in Workers}

(* WorkerReductionBuffers::reduce_into: z += every recovered accumulator. *)
ReduceInto(workers, ids) ==
  [d \in Dofs |->
     (UNION {workers[b][d] : b \in ids})
       \cup (IF \E a, b \in ids : a # b /\ workers[a][d] \cap workers[b][d] # {}
             THEN {Twice} ELSE {})]

(* The WorkerBufferStack is consumed when the sweep ends. *)
DropStacks(c) ==
  /\ shared' = [shared EXCEPT ![c] = {}]
  /\ stack' = [stack EXCEPT ![c] = [w \in Workers |-> {}]]

(* Every task ended well: the accumulators are read into z and zeroed,     *)
(* whether by the swap-zero readout or by finish_round.                    *)
JoinOk(c) ==
  /\ pc[c] = "sweep"
  /\ SweepOver(c)
  /\ FailedOf(c) = {}
  /\ PanickedOf(c) = {}
  /\ z' = [z EXCEPT ![c] = IF plan[c].strategy = "AtomicScatter"
                           THEN bufs[c].accum
                           ELSE ReduceInto(bufs[c].workers, IntoPool(c))]
  /\ bufs' = [bufs EXCEPT ![c].accum = Zero,
                          ![c].workers = [b \in IntoPool(c) |-> Zero]]
  /\ DropStacks(c)
  /\ result' = [result EXCEPT ![c] = "ok"]
  /\ pc' = [pc EXCEPT ![c] = "put"]
  /\ UNCHANGED <<pool, residual, plan, taskVars>>

(* The call frame is gone: its buffers and tasks with it. *)
Return(c) ==
  /\ pc' = [pc EXCEPT ![c] = "idle"]
  /\ bufs' = [bufs EXCEPT ![c] = NoBuffers]
  /\ task' = [k \in Tasks |-> IF k[1] = c THEN "todo" ELSE task[k]]
  /\ held' = [k \in Tasks |-> IF k[1] = c THEN 0 ELSE held[k]]
  /\ rem' = [k \in Tasks |-> IF k[1] = c THEN {} ELSE rem[k]]
  /\ UNCHANGED <<residual, plan, cas, frames>>

(* Mutant: finish_round reduces into z whatever the outcome. *)
JoinErrReducing(c) ==
  /\ pc[c] = "sweep"
  /\ SweepOver(c)
  /\ PanickedOf(c) = {}
  /\ \E s \in FailedOf(c) : result' = [result EXCEPT ![c] = s]
  /\ z' = [z EXCEPT ![c] = ReduceInto(bufs[c].workers, IntoPool(c))]
  /\ bufs' = [bufs EXCEPT ![c].workers = [b \in IntoPool(c) |-> Zero]]
  /\ DropStacks(c)
  /\ pc' = [pc EXCEPT ![c] = "put"]
  /\ UNCHANGED <<pool, residual, plan, taskVars>>

(* Some task failed: try_for_each returns one of the failures.  The atomic *)
(* path skips the readout; finish_round zeroes z and the accumulators.     *)
JoinErr(c) ==
  /\ pc[c] = "sweep"
  /\ SweepOver(c)
  /\ PanickedOf(c) = {}
  /\ \E s \in FailedOf(c) : result' = [result EXCEPT ![c] = s]
  /\ IF plan[c].strategy = "AtomicScatter"
     THEN /\ bufs' = [bufs EXCEPT ![c].workers = [b \in IntoPool(c) |-> @[b]]]
          /\ UNCHANGED z
     ELSE /\ bufs' = [bufs EXCEPT ![c].workers = [b \in IntoPool(c) |-> Zero]]
          /\ z' = [z EXCEPT ![c] = Zero]
  /\ DropStacks(c)
  /\ pc' = [pc EXCEPT ![c] = "put"]
  /\ UNCHANGED <<pool, residual, plan, taskVars>>

(* A local solve panicked: rayon resumes the unwinding in the caller once  *)
(* every task has ended, and the buffers are dropped with the call frame.  *)
JoinPanic(c) ==
  /\ pc[c] = "sweep"
  /\ SweepOver(c)
  /\ PanickedOf(c) # {}
  /\ DropStacks(c)
  /\ result' = [result EXCEPT ![c] = "panicked"]
  /\ Return(c)
  /\ UNCHANGED <<pool, z>>

(* Mutant: put does not look at the outcome of the apply. *)
PutAlways(c) ==
  /\ pc[c] = "put"
  /\ pool' = IF Len(pool) < MaxPoolSize THEN Append(pool, bufs[c]) ELSE pool
  /\ Return(c)
  /\ UNCHANGED <<z, result, shared, stack>>

(* Mutant: put does not look at the size of the pool. *)
PutUnbounded(c) ==
  /\ pc[c] = "put"
  /\ pool' = IF result[c] = "ok" THEN Append(pool, bufs[c]) ELSE pool
  /\ Return(c)
  /\ UNCHANGED <<z, result, shared, stack>>

(* BufferPool::put and the return: after an error the buffers are dropped, *)
(* otherwise they are pushed if the pool has room.                         *)
Put(c) ==
  /\ pc[c] = "put"
  /\ pool' = IF result[c] = "ok" /\ Len(pool) < MaxPoolSize
             THEN Append(pool, bufs[c])
             ELSE pool
  /\ Return(c)
  /\ UNCHANGED <<z, result, shared, stack>>

-----------------------------------------------------------------------------
(* The workers' side. *)

Top(w) == frames[w][Len(frames[w])]
Runs(w, k) == frames[w] # <<>> /\ Top(w) = k

(* A worker takes a task when it has nothing to do, or while the local     *)
(* solve on top of its stack waits for its own forked work.                *)
MayTake(w) ==
  \/ frames[w] = <<>>
  \/ /\ frames[w] # <<>>
     /\ Len(frames[w]) < MaxDepth
     /\ task[Top(w)] = "solve"
     /\ plan[Top(w)[1]].inner

Push(w, k) == frames' = [frames EXCEPT ![w] = Append(@, k)]
Pop(w) == frames' = [frames EXCEPT ![w] = SubSeq(@, 1, Len(@) - 1)]

(* Mutant: a worker without a buffer of its own always allocates. *)
AcquireAllocating(w, c, b) ==
  \/ /\ b \in stack[c][w]
     /\ stack' = [stack EXCEPT ![c][w] = @ \ {b}]
     /\ UNCHANGED <<bufs, shared>>
  \/ /\ stack[c][w] = {}
     /\ b = Len(bufs[c].workers) + 1
     /\ bufs' = [bufs EXCEPT ![c].workers = Append(@, Zero)]
     /\ UNCHANGED <<shared, stack>>

(* WorkerBufferStack::with_buffer, the acquisition: the worker's own       *)
(* stack, else the shared pool, else a new zeroed buffer.                  *)
AcquireBuffer(w, c, b) ==
  \/ /\ b \in stack[c][w]
     /\ stack' = [stack EXCEPT ![c][w] = @ \ {b}]
     /\ UNCHANGED <<bufs, shared>>
  \/ /\ stack[c][w] = {}
     /\ b \in shared[c]
     /\ shared' = [shared EXCEPT ![c] = @ \ {b}]
     /\ UNCHANGED <<bufs, stack>>
  \/ /\ stack[c][w] = {}
     /\ shared[c] = {}
     /\ b = Len(bufs[c].workers) + 1
     /\ bufs' = [bufs EXCEPT ![c].workers = Append(@, Zero)]
     /\ UNCHANGED <<shared, stack>>

(* with_buffer, the release: back on the stack of the same worker. *)
ReleaseBuffer(w, k) == stack' = [stack EXCEPT ![k[1]][w] = @ \cup {held[k]}]

(* A subdomain without dofs has nothing to solve and cannot fail.  A       *)
(* failure elsewhere does not stop a worker that has not seen it yet.      *)
StartTask(w, k) ==
  /\ pc[k[1]] = "sweep"
  /\ task[k] = "todo"
  /\ MayTake(w)
  /\ \E b \in 1 .. Len(bufs[k[1]].workers) + 1 :
       /\ AcquireBuffer(w, k[1], b)
       /\ held' = [held EXCEPT ![k] = b]
  /\ task' = [task EXCEPT ![k] = IF GlobalIndices[k[2]] = {} THEN "scatter" ELSE "solve"]
  /\ rem' = [rem EXCEPT ![k] = GlobalIndices[k[2]]]
  /\ Push(w, k)
  /\ UNCHANGED <<pool, callerVars, cas>>

(* try_for_each starts no more items once it has seen a failure. *)
SkipTask(k) ==
  /\ pc[k[1]] = "sweep"
  /\ task[k] = "todo"
  /\ FailedOf(k[1]) # {}
  /\ task' = [task EXCEPT ![k] = "skipped"]
  /\ UNCHANGED <<pool, callerVars, bufferVars, held, rem, cas, frames>>

SolveOk(w, k) ==
  /\ Runs(w, k)
  /\ task[k] = "solve"
  /\ task' = [task EXCEPT ![k] = "scatter"]
  /\ UNCHANGED <<pool, callerVars, bufferVars, held, rem, cas, frames>>

(* The local solver fails before anything is scattered. *)
SolveErr(w, k) ==
  /\ "failed" \in Faults
  /\ Runs(w, k)
  /\ task[k] = "solve"
  /\ task' = [task EXCEPT ![k] = "failed"]
  /\ ReleaseBuffer(w, k)
  /\ Pop(w)
  /\ UNCHANGED <<pool, callerVars, bufs, shared, held, rem, cas>>

(* A panic unwinds through with_buffer: its buffer is dropped. *)
SolvePanic(w, k) ==
  /\ "panicked" \in Faults
  /\ Runs(w, k)
  /\ task[k] = "solve"
  /\ task' = [task EXCEPT ![k] = "panicked"]
  /\ Pop(w)
  /\ UNCHANGED <<pool, callerVars, bufferVars, held, rem, cas>>

TermOf(k) == <<residual[k[1]], k[2]>>
Scatters(w, k) == Runs(w, k) /\ task[k] = "scatter"

(* atomic_f64_add: load the word, then compare-and-swap until the word is  *)
(* the one the sum was computed from.  A spurious failure of the weak      *)
(* exchange reloads the same value: a stuttering step.  The dofs of a      *)
(* subdomain are scattered in any order.                                   *)
Load(w, k) ==
  /\ Scatters(w, k)
  /\ plan[k[1]].strategy = "AtomicScatter"
  /\ cas[k] = <<>>
  /\ \E d \in rem[k] : cas' = [cas EXCEPT ![k] = <<d, bufs[k[1]].accum[d]>>]
  /\ UNCHANGED <<pool, callerVars, bufferVars, task, held, rem, frames>>

(* Mutant: the sum is stored without comparing the word again. *)
StoreUnchecked(w, k) ==
  /\ Scatters(w, k)
  /\ cas[k] # <<>>
  /\ bufs' = [bufs EXCEPT ![k[1]].accum[cas[k][1]] = Plus(cas[k][2], TermOf(k))]
  /\ rem' = [rem EXCEPT ![k] = @ \ {cas[k][1]}]
  /\ cas' = [cas EXCEPT ![k] = <<>>]
  /\ UNCHANGED <<pool, callerVars, shared, stack, task, held, frames>>

ExchangeOk(w, k) ==
  /\ Scatters(w, k)
  /\ cas[k] # <<>>
  /\ LET d == cas[k][1]
         old == cas[k][2]
     IN /\ bufs[k[1]].accum[d] = old
        /\ bufs' = [bufs EXCEPT ![k[1]].accum[d] = Plus(old, TermOf(k))]
        /\ rem' = [rem EXCEPT ![k] = @ \ {d}]
  /\ cas' = [cas EXCEPT ![k] = <<>>]
  /\ UNCHANGED <<pool, callerVars, shared, stack, task, held, frames>>

ExchangeRetry(w, k) ==
  /\ Scatters(w, k)
  /\ cas[k] # <<>>
  /\ bufs[k[1]].accum[cas[k][1]] # cas[k][2]
  /\ cas' = [cas EXCEPT ![k] = <<cas[k][1], bufs[k[1]].accum[cas[k][1]]>>]
  /\ UNCHANGED <<pool, callerVars, bufferVars, task, held, rem, frames>>

(* prolongate_weighted_add into the buffer's own accumulator: no other     *)
(* thread reads it before the join.                                        *)
AddPrivate(w, k) ==
  /\ Scatters(w, k)
  /\ plan[k[1]].strategy = "ParallelReduction"
  /\ rem[k] # {}
  /\ bufs' = [bufs EXCEPT ![k[1]].workers[held[k]] =
                [d \in Dofs |-> IF d \in rem[k] THEN Plus(@[d], TermOf(k)) ELSE @[d]]]
  /\ rem' = [rem EXCEPT ![k] = {}]
  /\ UNCHANGED <<pool, callerVars, shared, stack, task, held, cas, frames>>

FinishTask(w, k) ==
  /\ Scatters(w, k)
  /\ rem[k] = {}
  /\ task' = [task EXCEPT ![k] = "done"]
  /\ ReleaseBuffer(w, k)
  /\ Pop(w)
  /\ UNCHANGED <<pool, callerVars, bufs, shared, held, rem, cas>>

-----------------------------------------------------------------------------
(* A preconditioner is built with an empty pool. *)
Init ==
  /\ pool = <<>>
  /\ pc = [c \in Callers |-> "idle"]
  /\ residual \in [Callers -> Residuals]
  /\ plan \in [Callers -> Plans]
  /\ z = [c \in Callers |-> Zero]
  /\ result = [c \in Callers |-> "pending"]
  /\ bufs = [c \in Callers |-> NoBuffers]
  /\ shared = [c \in Callers |-> {}]
  /\ stack = [c \in Callers |-> [w \in Workers |-> {}]]
  /\ task = [k \in Tasks |-> "todo"]
  /\ held = [k \in Tasks |-> 0]
  /\ rem = [k \in Tasks |-> {}]
  /\ cas = [k \in Tasks |-> <<>>]
  /\ frames = [w \in Workers |-> <<>>]

CallerStep(c) ==
  \/ RejectShape(c)
  \/ Apply(c)
  \/ JoinOk(c)
  \/ JoinErr(c)
  \/ JoinPanic(c)
  \/ Put(c)

SolveStep(w, k) == SolveOk(w, k) \/ SolveErr(w, k) \/ SolvePanic(w, k)

ScatterStep(w, k) ==
  \/ Load(w, k)
  \/ ExchangeOk(w, k)
  \/ ExchangeRetry(w, k)
  \/ AddPrivate(w, k)
  \/ FinishTask(w, k)

Next ==
  \/ \E c \in Callers : CallerStep(c)
  \/ \E k \in Tasks : SkipTask(k)
  \/ \E w \in Workers, k \in Tasks : StartTask(w, k) \/ SolveStep(w, k) \/ ScatterStep(w, k)

Spec == Init /\ [][Next]_vars

(* rayon runs every job it is handed, and a worker that waits for forked   *)
(* work looks at its latch before it steals again: a task is started and a *)
(* local solve ends although other callers keep the workers busy (strong   *)
(* fairness).  What runs without waiting is weakly fair.                   *)
Fairness ==
  /\ \A c \in Callers : WF_vars(JoinOk(c) \/ JoinErr(c) \/ JoinPanic(c) \/ Put(c))
  /\ \A w \in Workers : WF_vars(\E k \in Tasks : ScatterStep(w, k))
  /\ \A k \in Tasks : SF_vars(\E w \in Workers : StartTask(w, k) \/ SolveStep(w, k))

FairSpec == Spec /\ Fairness

-----------------------------------------------------------------------------
(* Type invariant; the pool never outgrows BufferPool::MAX_POOL_SIZE. *)
TypeOK ==
  /\ pool \in Seq(Buffers)
  /\ Len(pool) <= MaxPoolSize
  /\ pc \in [Callers -> {"idle", "sweep", "put"}]
  /\ residual \in [Callers -> Residuals]
  /\ plan \in [Callers -> Plans]
  /\ z \in [Callers -> Vectors]
  /\ result \in [Callers -> Subdomains \cup {"pending", "ok", "panicked", "InvalidInput"}]
  /\ bufs \in [Callers -> Buffers]
  /\ shared \in [Callers -> SUBSET Nat]
  /\ stack \in [Callers -> [Workers -> SUBSET Nat]]
  /\ task \in [Tasks -> {"todo", "solve", "scatter"} \cup Finished]
  /\ held \in [Tasks -> Nat]
  /\ rem \in [Tasks -> SUBSET Dofs]
  /\ cas \in [Tasks -> {<<>>} \cup (Dofs \X Values)]
  /\ frames \in [Workers -> Seq(Tasks)]

(* What take hands out is zero: every pooled accumulator is Zero, whatever *)
(* apply used it before.                                                   *)
PoolClean ==
  \A i \in DOMAIN pool :
    /\ pool[i].accum = Zero
    /\ \A b \in DOMAIN pool[i].workers : pool[i].workers[b] = Zero

(* A successful apply returned exactly M^-1 r: no term lost to a racing    *)
(* exchange or to a buffer left on a worker's stack, none left over from   *)
(* an earlier apply, none of another caller, none added twice.             *)
OkIsSum == \A c \in Callers : pc[c] # "sweep" /\ result[c] = "ok" => z[c] = MInv(residual[c])

(* z is never a partial sum: it is zero or the complete result for some    *)
(* residual, also after a failed apply.                                    *)
NoPartialResult == \A c \in Callers : z[c] \in {Zero} \cup {MInv(r) : r \in Residuals}

(* Worker buffers do not pile up: a pooled buffer carries at most one per  *)
(* worker and level of re-entry, however many applies have used it.        *)
WorkerBuffersBounded ==
  \A i \in DOMAIN pool : Len(pool[i].workers) <= Cardinality(Workers) * MaxDepth

(* What the header of buffers.rs says of BufferPool::put and take: the     *)
(* pool reclaims buffers "so the steady state allocates nothing".  A       *)
(* caller that is alone, whose last apply succeeded, and which applies     *)
(* again with the same strategy, is served from the pool.                  *)
SteadyStateAllocatesNothing ==
  [][\A c \in Callers :
       /\ pc[c] = "idle" /\ pc'[c] = "sweep"
       /\ result[c] = "ok"
       /\ plan'[c].strategy = plan[c].strategy
       /\ \A o \in Callers : pc[o] = "idle"
       => Len(pool') < Len(pool)]_vars

(* Every apply that began returns: no subdomain task, failed, skipped or   *)
(* buried under stolen tasks, keeps its caller waiting for ever.           *)
AppliesReturn == \A c \in Callers : pc[c] = "sweep" ~> pc[c] = "idle"

-----------------------------------------------------------------------------
(* The abstract preconditioner this module implements. *)
FaultyOf(c) == FailedOf(c) \cup PanickedOf(c)

AS == INSTANCE AdditiveSchwarz WITH
        busy   <- {c \in Callers : pc[c] # "idle"},
        faulty <- [c \in Callers |-> FaultyOf(c)]

(* Concurrent applies on one preconditioner behave like isolated ones: the *)
(* pool, the worker stacks and the racing scatters of apply cannot be seen *)
(* by any caller.                                                          *)
ImplementsAdditiveSchwarz == AS!Spec
=============================================================================

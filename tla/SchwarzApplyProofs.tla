-------------------------- MODULE SchwarzApplyProofs --------------------------
(***************************************************************************)
(* Proofs about SchwarzApply, for any callers, workers, subdomains, dofs,  *)
(* plans, faults and pool size.  The invariant says, for each caller, what *)
(* its accumulators hold in the middle of a sweep and where its worker     *)
(* buffers are.                                                            *)
(***************************************************************************)
EXTENDS SchwarzApply, SequenceTheorems, FiniteSetTheorems, TLAPS

(* s's contribution to dof d of c's apply has been added. *)
Committed(c, s, d) ==
  /\ d \in GlobalIndices[s]
  /\ \/ task[<<c, s>>] = "done"
     \/ task[<<c, s>>] = "scatter" /\ d \notin rem[<<c, s>>]

CommittedAt(c, d) == {s \in Subdomains : Committed(c, s, d)}
CommittedIn(c, b, d) == {s \in CommittedAt(c, d) : held[<<c, s>>] = b}
TermsOf(c, S) == {<<residual[c], s>> : s \in S}

Running == {"solve", "scatter"}

CleanBuffers(b) ==
  /\ b.accum = Zero
  /\ \A i \in DOMAIN b.workers : b.workers[i] = Zero

(* Between applies a caller owns nothing and has no task. *)
IdleInv(c) ==
  pc[c] = "idle" => \A s \in Subdomains : task[<<c, s>>] = "todo"

(* Free worker buffers exist only during the sweep. *)
NoStacksInv(c) ==
  pc[c] # "sweep" => shared[c] = {} /\ \A w \in Workers : stack[c][w] = {}

(* After a good join the taken buffers are ready for the next apply. *)
PutInv(c) ==
  pc[c] = "put" =>
    /\ \A s \in Subdomains : task[<<c, s>>] \in Finished
    /\ result[c] = "ok" => CleanBuffers(bufs[c])

TaskInv(c) ==
  \A s \in Subdomains :
    /\ task[<<c, s>>] = "solve" => rem[<<c, s>>] = GlobalIndices[s]
    /\ task[<<c, s>>] = "scatter" => rem[<<c, s>>] \subseteq GlobalIndices[s]
    /\ cas[<<c, s>>] # <<>> => /\ task[<<c, s>>] = "scatter"
                               /\ plan[c].strategy = "AtomicScatter"
                               /\ cas[<<c, s>>][1] \in rem[<<c, s>>]
    /\ pc[c] = "sweep" /\ task[<<c, s>>] = "skipped" => FailedOf(c) # {}

(* Every worker buffer is free, or held by a task that runs or panicked. *)
OwnershipInv(c) ==
  pc[c] = "sweep" =>
    /\ IntoPool(c) \subseteq DOMAIN bufs[c].workers
    /\ \A s \in Subdomains :
         task[<<c, s>>] \in Running \cup {"done"} => held[<<c, s>>] \in DOMAIN bufs[c].workers
    /\ \A b \in DOMAIN bufs[c].workers :
         \/ b \in IntoPool(c)
         \/ \E s \in Subdomains : /\ task[<<c, s>>] \in Running \cup {"panicked"}
                                  /\ held[<<c, s>>] = b

(* Accumulators hold exactly what has been committed. *)
SumInv(c) ==
  pc[c] = "sweep" =>
    /\ result[c] = "pending"
    /\ plan[c].strategy = "AtomicScatter" =>
         \A d \in Dofs : bufs[c].accum[d] = TermsOf(c, CommittedAt(c, d))
    /\ plan[c].strategy = "ParallelReduction" =>
         /\ bufs[c].accum = Zero
         /\ \A b \in DOMAIN bufs[c].workers, d \in Dofs :
              bufs[c].workers[b][d] = TermsOf(c, CommittedIn(c, b, d))

ResultInv(c) ==
  /\ pc[c] # "sweep" /\ result[c] = "ok" => z[c] = MInv(residual[c])
  /\ z[c] \in {Zero} \cup {MInv(r) : r \in Residuals}

CallerInv(c) ==
  /\ IdleInv(c)
  /\ NoStacksInv(c)
  /\ PutInv(c)
  /\ TaskInv(c)
  /\ OwnershipInv(c)
  /\ SumInv(c)
  /\ ResultInv(c)

IInv ==
  /\ TypeOK
  /\ PoolClean
  /\ \A c \in Callers : CallerInv(c)
-----------------------------------------------------------------------------
(* Facts about the data. *)

LEMMA ZeroType == Zero \in Vectors
  BY DEF Zero, Vectors, Values

LEMMA MInvType == \A r \in Residuals : MInv(r) \in Vectors
  BY DEF MInv, Vectors, Values, Terms

LEMMA PlusType == \A v \in Values, t \in Terms : Plus(v, t) \in Values
  BY DEF Plus, Values

(* Adding a term that is not there yet counts it once. *)
LEMMA PlusNew == \A v, t : t \notin v => Plus(v, t) = v \cup {t}
  BY DEF Plus

LEMMA ReduceType ==
  ASSUME NEW ws \in Seq(Vectors), NEW ids \in SUBSET DOMAIN ws
  PROVE  ReduceInto(ws, ids) \in Vectors
  <1>1. \A b \in ids, d \in Dofs : ws[b][d] \in Values
    BY DEF Vectors
  <1>2. \A d \in Dofs : UNION {ws[b][d] : b \in ids} \in Values
    BY <1>1 DEF Values
  <1>3. \A d \in Dofs : ReduceInto(ws, ids)[d] \in Values
    BY <1>2 DEF ReduceInto, Values
  <1> QED
    BY <1>3 DEF ReduceInto, Vectors

LEMMA NewBuffersType ==
  \A st \in Strategies : NewBuffers(st) \in Buffers /\ CleanBuffers(NewBuffers(st))
  <1> SUFFICES ASSUME NEW st \in Strategies
               PROVE  NewBuffers(st) \in Buffers /\ CleanBuffers(NewBuffers(st))
    OBVIOUS
  <1>1. <<Zero>> \in Seq(Vectors) /\ <<>> \in Seq(Vectors)
    BY ZeroType
  <1>2. NewBuffers(st).workers \in Seq(Vectors)
    BY <1>1 DEF NewBuffers
  <1>3. \A i \in DOMAIN NewBuffers(st).workers : NewBuffers(st).workers[i] = Zero
    BY DEF NewBuffers
  <1> QED
    BY <1>2, <1>3, ZeroType DEF NewBuffers, Buffers, CleanBuffers

(* Taking one element out of a pool leaves a pool of its other elements. *)
LEMMA SwapRemoveProperties ==
  ASSUME NEW S, NEW seq \in Seq(S), NEW i \in DOMAIN seq
  PROVE  /\ SwapRemove(seq, i) \in Seq(S)
         /\ Len(SwapRemove(seq, i)) = Len(seq) - 1
         /\ \A j \in DOMAIN SwapRemove(seq, i) :
              \E q \in DOMAIN seq : SwapRemove(seq, i)[j] = seq[q]
  <1>1. Len(seq) \in Nat \ {0} /\ DOMAIN seq = 1 .. Len(seq)
    OBVIOUS
  <1>2. \A j \in 1 .. Len(seq) - 1 :
          (IF j = i THEN seq[Len(seq)] ELSE seq[j]) \in S
    BY <1>1
  <1>3. SwapRemove(seq, i) \in Seq(S) /\ DOMAIN SwapRemove(seq, i) = 1 .. Len(seq) - 1
    BY <1>1, <1>2 DEF SwapRemove
  <1> QED
    BY <1>1, <1>3 DEF SwapRemove

-----------------------------------------------------------------------------
(* What a step leaves alone. *)

(* The caller o has no part in a step. *)
Untouched(o) ==
  /\ pc'[o] = pc[o] /\ residual'[o] = residual[o] /\ plan'[o] = plan[o]
  /\ z'[o] = z[o] /\ result'[o] = result[o]
  /\ bufs'[o] = bufs[o] /\ shared'[o] = shared[o] /\ stack'[o] = stack[o]
  /\ \A s \in Subdomains : /\ task'[<<o, s>>] = task[<<o, s>>]
                           /\ held'[<<o, s>>] = held[<<o, s>>]
                           /\ rem'[<<o, s>>] = rem[<<o, s>>]
                           /\ cas'[<<o, s>>] = cas[<<o, s>>]

LEMMA UntouchedInv ==
  ASSUME NEW o \in Callers, CallerInv(o), Untouched(o)
  PROVE  CallerInv(o)'
  <1> USE DEF Untouched, CallerInv
  <1>1. IdleInv(o)'
    BY DEF IdleInv
  <1>2. NoStacksInv(o)'
    BY DEF NoStacksInv
  <1>3. PutInv(o)'
    BY DEF PutInv, CleanBuffers
  <1>4. TaskInv(o)'
    BY DEF TaskInv, FailedOf
  <1>5. IntoPool(o)' = IntoPool(o)
    BY DEF IntoPool
  <1>6. OwnershipInv(o)'
    BY <1>5 DEF OwnershipInv
  <1>7. \A q \in Subdomains, d \in Dofs : Committed(o, q, d)' <=> Committed(o, q, d)
    BY DEF Committed
  <1>8. \A d \in Dofs : CommittedAt(o, d)' = CommittedAt(o, d)
    BY <1>7 DEF CommittedAt
  <1>9. \A b : \A d \in Dofs : CommittedIn(o, b, d)' = CommittedIn(o, b, d)
    BY <1>8 DEF CommittedIn, CommittedAt
  <1>10. SumInv(o)'
    <2>1. \A S : TermsOf(o, S)' = TermsOf(o, S)
      BY DEF TermsOf
    <2>2. ASSUME pc[o] = "sweep", plan[o].strategy = "AtomicScatter", NEW d \in Dofs
          PROVE  bufs'[o].accum[d] = TermsOf(o, CommittedAt(o, d))'
      BY <2>1, <2>2, <1>8 DEF SumInv, TermsOf
    <2>3. ASSUME pc[o] = "sweep", plan[o].strategy = "ParallelReduction",
                 NEW b \in DOMAIN bufs[o].workers, NEW d \in Dofs
          PROVE  bufs'[o].workers[b][d] = TermsOf(o, CommittedIn(o, b, d))'
      BY <2>1, <2>3, <1>9 DEF SumInv, TermsOf
    <2> QED
      BY <2>2, <2>3 DEF SumInv
  <1>11. ResultInv(o)'
    BY DEF ResultInv, MInv
  <1> QED
    BY <1>1, <1>2, <1>3, <1>4, <1>6, <1>10, <1>11

-----------------------------------------------------------------------------
(* Initial states. *)

LEMMA InitInv == ASSUME Init PROVE IInv
  <1> USE DEF Init, NoBuffers
  <1>1. "AtomicScatter" \in Strategies
    BY DEF Strategies
  <1>2. TypeOK
    <2>1. bufs \in [Callers -> Buffers]
      BY <1>1, NewBuffersType
    <2>2. pool \in Seq(Buffers) /\ Len(pool) <= MaxPoolSize
      BY SchwarzAssumption
    <2> QED
      BY <2>1, <2>2, ZeroType, SchwarzAssumption DEF TypeOK, Finished
  <1>3. PoolClean
    BY DEF PoolClean
  <1>4. ASSUME NEW c \in Callers PROVE CallerInv(c)
    BY SchwarzAssumption DEF CallerInv, IdleInv, NoStacksInv, PutInv, TaskInv, OwnershipInv,
       SumInv, ResultInv, Tasks
  <1> QED
    BY <1>2, <1>3, <1>4 DEF IInv
-----------------------------------------------------------------------------
(* The caller's steps. *)

LEMMA RejectShapeInv ==
  ASSUME IInv, NEW c \in Callers, RejectShape(c)
  PROVE  IInv'
  <1> USE DEF RejectShape, bufferVars, taskVars
  <1>1. TypeOK'
    BY DEF IInv, TypeOK
  <1>2. PoolClean'
    BY DEF IInv, PoolClean
  <1>3. ASSUME NEW o \in Callers, o # c PROVE CallerInv(o)'
    BY <1>3, UntouchedInv DEF IInv, TypeOK, Untouched
  <1>4. CallerInv(c)'
    <2>1. pc'[c] = "idle" /\ result'[c] = "InvalidInput"
      BY DEF IInv, TypeOK
    <2>2. IdleInv(c)' /\ NoStacksInv(c)' /\ TaskInv(c)'
      BY <2>1 DEF IInv, CallerInv, IdleInv, NoStacksInv, TaskInv
    <2>3. PutInv(c)' /\ OwnershipInv(c)' /\ SumInv(c)'
      BY <2>1 DEF PutInv, OwnershipInv, SumInv
    <2>4. ResultInv(c)'
      BY <2>1 DEF IInv, CallerInv, ResultInv, MInv
    <2> QED
      BY <2>2, <2>3, <2>4 DEF CallerInv
  <1> QED
    BY <1>1, <1>2, <1>3, <1>4 DEF IInv

(* take hands out a clean buffer and leaves a clean pool. *)
LEMMA TakeProperties ==
  ASSUME IInv, NEW c \in Callers, NEW st \in Strategies, TakeBuffers(c, st)
  PROVE  /\ pool' \in Seq(Buffers) /\ Len(pool') <= MaxPoolSize /\ PoolClean'
         /\ \E B \in Buffers : /\ CleanBuffers(B)
                               /\ bufs' = [bufs EXCEPT ![c] = B]
                               /\ shared' = [shared EXCEPT ![c] = DOMAIN B.workers]
  <1>1. CASE /\ Matching(st) = {}
             /\ bufs' = [bufs EXCEPT ![c] = NewBuffers(st)]
             /\ shared' = [shared EXCEPT ![c] = DOMAIN NewBuffers(st).workers]
             /\ UNCHANGED pool
    BY <1>1, NewBuffersType DEF IInv, TypeOK, PoolClean
  <1>2. ASSUME NEW i \in Matching(st),
               bufs' = [bufs EXCEPT ![c] = pool[i]],
               shared' = [shared EXCEPT ![c] = DOMAIN pool[i].workers],
               pool' = SwapRemove(pool, i)
        PROVE  /\ pool' \in Seq(Buffers) /\ Len(pool') <= MaxPoolSize /\ PoolClean'
               /\ \E B \in Buffers : /\ CleanBuffers(B)
                                     /\ bufs' = [bufs EXCEPT ![c] = B]
                                     /\ shared' = [shared EXCEPT ![c] = DOMAIN B.workers]
    <2>1. i \in DOMAIN pool /\ pool \in Seq(Buffers) /\ Len(pool) <= MaxPoolSize
      BY DEF Matching, IInv, TypeOK
    <2>2. /\ pool' \in Seq(Buffers) /\ Len(pool') = Len(pool) - 1
          /\ \A j \in DOMAIN pool' : \E q \in DOMAIN pool : pool'[j] = pool[q]
      BY <1>2, <2>1, SwapRemoveProperties
    <2>3. Len(pool') <= MaxPoolSize
      BY <2>1, <2>2, SchwarzAssumption
    <2>4. PoolClean'
      BY <2>2 DEF IInv, PoolClean
    <2>5. pool[i] \in Buffers /\ CleanBuffers(pool[i])
      BY <2>1 DEF IInv, PoolClean, CleanBuffers
    <2> QED
      BY <1>2, <2>2, <2>3, <2>4, <2>5
  <1> QED
    BY <1>1, <1>2 DEF TakeBuffers

LEMMA ApplyInv ==
  ASSUME IInv, NEW c \in Callers, Apply(c)
  PROVE  IInv'
  <1> USE DEF Apply, taskVars
  <1>1. PICK r \in Residuals, p \in Plans :
               /\ residual' = [residual EXCEPT ![c] = r]
               /\ plan' = [plan EXCEPT ![c] = p]
               /\ TakeBuffers(c, p.strategy)
    OBVIOUS
  <1>2. p.strategy \in Strategies
    BY SchwarzAssumption
  <1>3. pool' \in Seq(Buffers) /\ Len(pool') <= MaxPoolSize /\ PoolClean'
    BY <1>1, <1>2, TakeProperties
  <1>4. PICK B \in Buffers : /\ CleanBuffers(B)
                             /\ bufs' = [bufs EXCEPT ![c] = B]
                             /\ shared' = [shared EXCEPT ![c] = DOMAIN B.workers]
    BY <1>1, <1>2, TakeProperties
  <1>5. DOMAIN B.workers \subseteq Nat
    BY DEF Buffers
  <1>6. TypeOK'
    BY <1>1, <1>3, <1>4, <1>5 DEF IInv, TypeOK
  <1>7. ASSUME NEW o \in Callers, o # c PROVE CallerInv(o)'
    BY <1>1, <1>4, <1>7, UntouchedInv DEF IInv, TypeOK, Untouched
  <1>8. CallerInv(c)'
    <2>1. pc'[c] = "sweep" /\ result'[c] = "pending" /\ bufs'[c] = B
          /\ shared'[c] = DOMAIN B.workers /\ z'[c] = z[c] /\ residual'[c] = r /\ plan'[c] = p
      BY <1>1, <1>4 DEF IInv, TypeOK
    <2>2. \A s \in Subdomains : task'[<<c, s>>] = "todo" /\ cas'[<<c, s>>] = cas[<<c, s>>]
      BY DEF IInv, CallerInv, IdleInv
    <2>3. IdleInv(c)' /\ NoStacksInv(c)' /\ PutInv(c)'
      BY <2>1 DEF IdleInv, NoStacksInv, PutInv
    <2>4. TaskInv(c)'
      BY <2>2 DEF TaskInv, IInv, CallerInv
    <2>5. IntoPool(c)' = DOMAIN B.workers
      BY <2>1 DEF IntoPool, IInv, CallerInv, NoStacksInv
    <2>6. OwnershipInv(c)'
      BY <2>1, <2>2, <2>5 DEF OwnershipInv, Running
    <2>7. \A d \in Dofs : CommittedAt(c, d)' = {}
      BY <2>2 DEF CommittedAt, Committed
    <2>8. \A b : \A d \in Dofs : CommittedIn(c, b, d)' = {}
      BY <2>7 DEF CommittedIn
    <2>10. SumInv(c)'
      <3>1. \A d \in Dofs : Zero[d] = {}
        BY DEF Zero
      <3>2. \A d \in Dofs : bufs'[c].accum[d] = {}
        BY <1>4, <2>1, <3>1 DEF CleanBuffers
      <3>3. \A b \in DOMAIN bufs'[c].workers, d \in Dofs : bufs'[c].workers[b][d] = {}
        BY <1>4, <2>1, <3>1 DEF CleanBuffers
      <3>4. bufs'[c].accum = Zero
        BY <1>4, <2>1 DEF CleanBuffers
      <3>5. ASSUME NEW d \in Dofs PROVE bufs'[c].accum[d] = TermsOf(c, CommittedAt(c, d))'
        BY <2>7, <3>2 DEF TermsOf
      <3>6. ASSUME NEW b \in DOMAIN bufs'[c].workers, NEW d \in Dofs
            PROVE  bufs'[c].workers[b][d] = TermsOf(c, CommittedIn(c, b, d))'
        BY <2>8, <3>3 DEF TermsOf
      <3> QED
        BY <2>1, <3>4, <3>5, <3>6 DEF SumInv
    <2>11. ResultInv(c)'
      BY <2>1 DEF ResultInv, IInv, CallerInv
    <2> QED
      BY <2>3, <2>4, <2>6, <2>10, <2>11 DEF CallerInv
  <1> QED
    BY <1>3, <1>6, <1>7, <1>8 DEF IInv
-----------------------------------------------------------------------------
(* The end of a sweep. *)

(* When no task failed or panicked, every task is done and every worker    *)
(* buffer has come back.                                                   *)
LEMMA JoinedAll ==
  ASSUME IInv, NEW c \in Callers, pc[c] = "sweep", SweepOver(c), PanickedOf(c) = {}
  PROVE  /\ IntoPool(c) = DOMAIN bufs[c].workers
         /\ FailedOf(c) = {} => \A s \in Subdomains : task[<<c, s>>] = "done"
  <1>1. \A s \in Subdomains : /\ task[<<c, s>>] \in {"done", "failed", "skipped"}
                              /\ FailedOf(c) = {} => task[<<c, s>>] # "failed"
    BY DEF SweepOver, Finished, PanickedOf, FailedOf
  <1>2. FailedOf(c) = {} => \A s \in Subdomains : task[<<c, s>>] = "done"
    BY <1>1 DEF IInv, CallerInv, TaskInv
  <1>3. IntoPool(c) = DOMAIN bufs[c].workers
    BY <1>1 DEF IInv, CallerInv, OwnershipInv, Running
  <1> QED
    BY <1>2, <1>3

(* The accumulators of a finished sweep sum to M^-1 r. *)
LEMMA JoinedSum ==
  ASSUME IInv, NEW c \in Callers, pc[c] = "sweep", SweepOver(c),
         PanickedOf(c) = {}, FailedOf(c) = {}
  PROVE  (IF plan[c].strategy = "AtomicScatter"
          THEN bufs[c].accum
          ELSE ReduceInto(bufs[c].workers, IntoPool(c))) = MInv(residual[c])
  <1> DEFINE ws == bufs[c].workers
             M == MInv(residual[c])
  <1>1. /\ bufs[c] \in Buffers /\ residual[c] \in Residuals /\ plan[c].strategy \in Strategies
        /\ CallerInv(c)
    BY SchwarzAssumption DEF IInv, TypeOK
  <1>2. /\ IntoPool(c) = DOMAIN ws
        /\ \A s \in Subdomains : task[<<c, s>>] = "done"
    BY JoinedAll
  <1>3. \A d \in Dofs : CommittedAt(c, d) = {q \in Subdomains : d \in GlobalIndices[q]}
    BY <1>2 DEF CommittedAt, Committed
  <1>4. \A d \in Dofs : M[d] = TermsOf(c, CommittedAt(c, d))
    BY <1>3 DEF MInv, TermsOf
  <1>5. M = [d \in Dofs |-> M[d]]
    BY DEF MInv
  <1>6. CASE plan[c].strategy = "AtomicScatter"
    <2>1. \A d \in Dofs : bufs[c].accum[d] = M[d]
      BY <1>1, <1>4, <1>6 DEF CallerInv, SumInv
    <2>2. bufs[c].accum = [d \in Dofs |-> bufs[c].accum[d]]
      BY <1>1 DEF Buffers, Vectors
    <2> QED
      BY <1>5, <1>6, <2>1, <2>2
  <1>7. CASE plan[c].strategy = "ParallelReduction"
    <2>1. \A b \in DOMAIN ws, d \in Dofs : ws[b][d] = TermsOf(c, CommittedIn(c, b, d))
      BY <1>1, <1>7 DEF CallerInv, SumInv
    <2>2. \A s \in Subdomains : held[<<c, s>>] \in DOMAIN ws
      BY <1>1, <1>2 DEF CallerInv, OwnershipInv
    <2>3. ASSUME NEW d \in Dofs PROVE ReduceInto(ws, DOMAIN ws)[d] = M[d]
      <3>1. UNION {ws[b][d] : b \in DOMAIN ws} = TermsOf(c, CommittedAt(c, d))
        <4>1. ASSUME NEW t \in UNION {ws[b][d] : b \in DOMAIN ws}
              PROVE  t \in TermsOf(c, CommittedAt(c, d))
          <5>1. PICK b \in DOMAIN ws : t \in TermsOf(c, CommittedIn(c, b, d))
            BY <2>1
          <5> QED
            BY <5>1 DEF TermsOf, CommittedIn
        <4>2. ASSUME NEW s \in CommittedAt(c, d)
              PROVE  <<residual[c], s>> \in UNION {ws[b][d] : b \in DOMAIN ws}
          <5>1. s \in Subdomains /\ held[<<c, s>>] \in DOMAIN ws
            BY <2>2 DEF CommittedAt
          <5>2. <<residual[c], s>> \in ws[held[<<c, s>>]][d]
            <6>1. s \in CommittedIn(c, held[<<c, s>>], d)
              BY <4>2 DEF CommittedIn
            <6>2. <<residual[c], s>> \in TermsOf(c, CommittedIn(c, held[<<c, s>>], d))
              BY <6>1 DEF TermsOf
            <6>3. ws[held[<<c, s>>]][d] = TermsOf(c, CommittedIn(c, held[<<c, s>>], d))
              BY <2>1, <5>1
            <6> QED
              BY <6>2, <6>3
          <5> QED
            BY <5>1, <5>2
        <4> QED
          BY <4>1, <4>2 DEF TermsOf
      <3>2. \A a, b \in DOMAIN ws : a # b => ws[a][d] \cap ws[b][d] = {}
        <4>1. SUFFICES ASSUME NEW a \in DOMAIN ws, NEW b \in DOMAIN ws, a # b,
                              NEW t \in ws[a][d], t \in ws[b][d]
                       PROVE  FALSE
          OBVIOUS
        <4>2. PICK s \in CommittedIn(c, a, d) : t = <<residual[c], s>>
          BY <2>1 DEF TermsOf
        <4>3. PICK q \in CommittedIn(c, b, d) : t = <<residual[c], q>>
          BY <2>1, <4>1 DEF TermsOf
        <4> QED
          BY <4>1, <4>2, <4>3 DEF CommittedIn
      <3>3. ReduceInto(ws, DOMAIN ws)[d] = UNION {ws[b][d] : b \in DOMAIN ws}
        BY <3>2 DEF ReduceInto
      <3> QED
        BY <1>4, <3>1, <3>3
    <2>4. ReduceInto(ws, DOMAIN ws) = [d \in Dofs |-> ReduceInto(ws, DOMAIN ws)[d]]
      BY DEF ReduceInto
    <2> QED
      BY <1>2, <1>5, <1>7, <2>3, <2>4
  <1> QED
    BY <1>1, <1>6, <1>7 DEF Strategies

(* What the three joins share: the sweep's caller leaves it with no stacks *)
(* and its tasks as they are; TypeOK of all but z, bufs and result.        *)
LEMMA DropStacksType ==
  ASSUME IInv, NEW c \in Callers, DropStacks(c)
  PROVE  /\ shared' \in [Callers -> SUBSET Nat]
         /\ stack' \in [Callers -> [Workers -> SUBSET Nat]]
         /\ shared'[c] = {} /\ \A w \in Workers : stack'[c][w] = {}
         /\ \A o \in Callers : o # c => shared'[o] = shared[o] /\ stack'[o] = stack[o]
  BY DEF DropStacks, IInv, TypeOK

LEMMA RecycledBuffers ==
  ASSUME IInv, NEW c \in Callers, pc[c] = "sweep", SweepOver(c), PanickedOf(c) = {}
  PROVE  /\ [b \in IntoPool(c) |-> Zero] \in Seq(Vectors)
         /\ [b \in IntoPool(c) |-> bufs[c].workers[b]] \in Seq(Vectors)
  <1>1. bufs[c].workers \in Seq(Vectors)
    BY DEF IInv, TypeOK, Buffers
  <1>2. /\ IntoPool(c) = 1 .. Len(bufs[c].workers)
        /\ \A b \in IntoPool(c) : bufs[c].workers[b] \in Vectors
        /\ Len(bufs[c].workers) \in Nat
    BY <1>1, JoinedAll
  <1> QED
    BY <1>2, ZeroType

LEMMA JoinOkInv ==
  ASSUME IInv, NEW c \in Callers, JoinOk(c)
  PROVE  IInv'
  <1> USE DEF JoinOk, taskVars
  <1>1. z' = [z EXCEPT ![c] = MInv(residual[c])]
    BY JoinedSum
  <1>2. /\ bufs' = [bufs EXCEPT ![c] = bufs'[c]]
        /\ bufs'[c] \in Buffers /\ CleanBuffers(bufs'[c])
    <2>1. bufs \in [Callers -> Buffers]
      BY DEF IInv, TypeOK
    <2>2. bufs'[c] = [strategy |-> bufs[c].strategy, accum |-> Zero,
                      workers |-> [b \in IntoPool(c) |-> Zero]]
      BY <2>1 DEF Buffers
    <2>3. bufs'[c] \in Buffers
      BY <2>1, <2>2, RecycledBuffers, ZeroType DEF Buffers
    <2>4. CleanBuffers(bufs'[c])
      <3>1. bufs'[c].accum = Zero /\ bufs'[c].workers = [b \in IntoPool(c) |-> Zero]
        BY <2>2
      <3> QED
        BY <3>1 DEF CleanBuffers
    <2>5. bufs' = [bufs EXCEPT ![c] = bufs'[c]]
      BY <2>1
    <2> QED
      BY <2>3, <2>4, <2>5
  <1>3. TypeOK'
    BY <1>1, <1>2, DropStacksType, MInvType DEF IInv, TypeOK
  <1>4. PoolClean'
    BY DEF IInv, PoolClean
  <1>5. ASSUME NEW o \in Callers, o # c PROVE CallerInv(o)'
    BY <1>1, <1>2, <1>5, DropStacksType, UntouchedInv DEF IInv, TypeOK, Untouched
  <1>6. CallerInv(c)'
    <2>1. pc'[c] = "put" /\ result'[c] = "ok" /\ z'[c] = MInv(residual[c])
      BY <1>1 DEF IInv, TypeOK
    <2>2. IdleInv(c)' /\ OwnershipInv(c)' /\ SumInv(c)'
      BY <2>1 DEF IdleInv, OwnershipInv, SumInv
    <2>3. NoStacksInv(c)'
      BY DropStacksType DEF NoStacksInv
    <2>4. PutInv(c)'
      BY <1>2 DEF PutInv, SweepOver
    <2>5. TaskInv(c)'
      BY <2>1 DEF TaskInv, IInv, CallerInv
    <2>6. ResultInv(c)'
      <3>1. residual[c] \in Residuals
        BY DEF IInv, TypeOK
      <3>2. z'[c] = MInv(residual'[c])
        BY <2>1
      <3>3. z'[c] \in {Zero} \cup {MInv(r) : r \in Residuals}
        BY <2>1, <3>1
      <3> QED
        BY <3>2, <3>3 DEF ResultInv
    <2> QED
      BY <2>2, <2>3, <2>4, <2>5, <2>6 DEF CallerInv
  <1> QED
    BY <1>3, <1>4, <1>5, <1>6 DEF IInv

LEMMA JoinErrInv ==
  ASSUME IInv, NEW c \in Callers, JoinErr(c)
  PROVE  IInv'
  <1> USE DEF JoinErr, taskVars
  <1>1. PICK f \in Subdomains : result' = [result EXCEPT ![c] = f]
    BY DEF FailedOf
  <1>2. PICK v \in {Zero, z[c]} : z' = [z EXCEPT ![c] = v]
    <2>1. z = [z EXCEPT ![c] = z[c]]
      BY DEF IInv, TypeOK
    <2> QED
      BY <2>1
  <1>3. /\ bufs' = [bufs EXCEPT ![c] = bufs'[c]]
        /\ bufs'[c] \in Buffers
    <2>1. bufs \in [Callers -> Buffers]
      BY DEF IInv, TypeOK
    <2>2. PICK W \in Seq(Vectors) : bufs' = [bufs EXCEPT ![c].workers = W]
      BY RecycledBuffers
    <2>3. bufs'[c] = [strategy |-> bufs[c].strategy, accum |-> bufs[c].accum, workers |-> W]
      BY <2>1, <2>2 DEF Buffers
    <2>4. bufs'[c] \in Buffers
      BY <2>1, <2>3 DEF Buffers
    <2> QED
      BY <2>1, <2>2, <2>4
  <1>4. TypeOK'
    <2>1. /\ pool' \in Seq(Buffers) /\ Len(pool') <= MaxPoolSize
          /\ residual' \in [Callers -> Residuals] /\ plan' \in [Callers -> Plans]
          /\ task' \in [Tasks -> {"todo", "solve", "scatter"} \cup Finished]
          /\ held' \in [Tasks -> Nat] /\ rem' \in [Tasks -> SUBSET Dofs]
          /\ cas' \in [Tasks -> {<<>>} \cup (Dofs \X Values)]
          /\ frames' \in [Workers -> Seq(Tasks)]
      BY DEF IInv, TypeOK
    <2>2. pc' \in [Callers -> {"idle", "sweep", "put"}]
      BY DEF IInv, TypeOK
    <2>3. z' \in [Callers -> Vectors]
      BY <1>2, ZeroType DEF IInv, TypeOK
    <2>4. result' \in [Callers -> Subdomains \cup {"pending", "ok", "panicked", "InvalidInput"}]
      BY <1>1 DEF IInv, TypeOK
    <2>5. bufs' \in [Callers -> Buffers]
      BY <1>3 DEF IInv, TypeOK
    <2>6. shared' \in [Callers -> SUBSET Nat] /\ stack' \in [Callers -> [Workers -> SUBSET Nat]]
      BY DropStacksType
    <2> QED
      BY <2>1, <2>2, <2>3, <2>4, <2>5, <2>6 DEF TypeOK
  <1>5. PoolClean'
    BY DEF IInv, PoolClean
  <1>6. ASSUME NEW o \in Callers, o # c PROVE CallerInv(o)'
    BY <1>1, <1>2, <1>3, <1>6, DropStacksType, UntouchedInv DEF IInv, TypeOK, Untouched
  <1>7. CallerInv(c)'
    <2>1. pc'[c] = "put" /\ result'[c] = f /\ f # "ok" /\ z'[c] = v
      BY <1>1, <1>2, SchwarzAssumption DEF IInv, TypeOK
    <2>2. IdleInv(c)' /\ OwnershipInv(c)' /\ SumInv(c)'
      BY <2>1 DEF IdleInv, OwnershipInv, SumInv
    <2>3. NoStacksInv(c)'
      BY DropStacksType DEF NoStacksInv
    <2>4. PutInv(c)'
      BY <2>1 DEF PutInv, SweepOver
    <2>5. TaskInv(c)'
      BY <2>1 DEF TaskInv, IInv, CallerInv
    <2>6. ResultInv(c)'
      BY <2>1 DEF ResultInv, IInv, CallerInv, MInv
    <2> QED
      BY <2>2, <2>3, <2>4, <2>5, <2>6 DEF CallerInv
  <1> QED
    BY <1>4, <1>5, <1>6, <1>7 DEF IInv

(* The call frame is gone: the caller is idle again. *)
LEMMA ReturnInv ==
  ASSUME IInv, NEW c \in Callers, Return(c), pool' \in Seq(Buffers),
         Len(pool') <= MaxPoolSize, PoolClean', UNCHANGED z,
         shared' \in [Callers -> SUBSET Nat], stack' \in [Callers -> [Workers -> SUBSET Nat]],
         shared'[c] = {}, \A w \in Workers : stack'[c][w] = {},
         result' \in [Callers -> Subdomains \cup {"pending", "ok", "panicked", "InvalidInput"}],
         result'[c] = "ok" => z[c] = MInv(residual[c]),
         \A o \in Callers : o # c => /\ shared'[o] = shared[o] /\ stack'[o] = stack[o]
                                     /\ result'[o] = result[o],
         \A s \in Subdomains : task[<<c, s>>] \in Finished
  PROVE  IInv'
  <1> USE DEF Return
  <1>1. bufs' \in [Callers -> Buffers]
    <2>1. NoBuffers \in Buffers
      BY NewBuffersType DEF NoBuffers, Strategies
    <2> QED
      BY <2>1 DEF IInv, TypeOK
  <1>2. /\ task' \in [Tasks -> {"todo", "solve", "scatter"} \cup Finished]
        /\ held' \in [Tasks -> Nat] /\ rem' \in [Tasks -> SUBSET Dofs]
    BY DEF IInv, TypeOK
  <1>3. TypeOK'
    BY <1>1, <1>2 DEF IInv, TypeOK
  <1>4. ASSUME NEW o \in Callers, o # c PROVE CallerInv(o)'
    <2>1. \A s \in Subdomains : /\ task'[<<o, s>>] = task[<<o, s>>]
                                /\ held'[<<o, s>>] = held[<<o, s>>]
                                /\ rem'[<<o, s>>] = rem[<<o, s>>]
      BY <1>4 DEF Tasks
    <2>2. bufs'[o] = bufs[o] /\ pc'[o] = pc[o]
      BY <1>4 DEF IInv, TypeOK
    <2> QED
      BY <1>4, <2>1, <2>2, UntouchedInv DEF IInv, Untouched
  <1>5. CallerInv(c)'
    <2>1. pc'[c] = "idle"
      BY DEF IInv, TypeOK
    <2>2. \A s \in Subdomains : task'[<<c, s>>] = "todo"
      BY DEF Tasks
    <2>3. \A s \in Subdomains : cas'[<<c, s>>] = <<>>
      BY DEF IInv, CallerInv, TaskInv, Finished
    <2>4. IdleInv(c)' /\ NoStacksInv(c)' /\ PutInv(c)' /\ OwnershipInv(c)' /\ SumInv(c)'
      BY <2>1, <2>2 DEF IdleInv, NoStacksInv, PutInv, OwnershipInv, SumInv
    <2>5. TaskInv(c)'
      BY <2>2, <2>3 DEF TaskInv
    <2>6. ResultInv(c)'
      <3>1. z'[c] \in {Zero} \cup {MInv(r) : r \in Residuals}
        BY DEF ResultInv, IInv, CallerInv
      <3>2. result'[c] = "ok" => z'[c] = MInv(residual'[c])
        OBVIOUS
      <3> QED
        BY <3>1, <3>2 DEF ResultInv
    <2> QED
      BY <2>4, <2>5, <2>6 DEF CallerInv
  <1> QED
    BY <1>3, <1>4, <1>5 DEF IInv

LEMMA JoinPanicInv ==
  ASSUME IInv, NEW c \in Callers, JoinPanic(c)
  PROVE  IInv'
  <1>1. /\ pool' \in Seq(Buffers) /\ Len(pool') <= MaxPoolSize /\ PoolClean'
        /\ UNCHANGED z
        /\ result' \in [Callers -> Subdomains \cup {"pending", "ok", "panicked", "InvalidInput"}]
        /\ result'[c] = "panicked"
        /\ \A o \in Callers : o # c => result'[o] = result[o]
        /\ \A s \in Subdomains : task[<<c, s>>] \in Finished
    BY DEF JoinPanic, IInv, TypeOK, PoolClean, SweepOver
  <1> QED
    BY <1>1, DropStacksType, ReturnInv DEF JoinPanic

LEMMA PutStepInv ==
  ASSUME IInv, NEW c \in Callers, Put(c)
  PROVE  IInv'
  <1> USE DEF Put
  <1>1. pool' \in Seq(Buffers) /\ Len(pool') <= MaxPoolSize /\ PoolClean'
    <2>1. CASE pool' = pool
      BY <2>1 DEF IInv, TypeOK, PoolClean
    <2>2. CASE result[c] = "ok" /\ Len(pool) < MaxPoolSize /\ pool' = Append(pool, bufs[c])
      <3>1. pool \in Seq(Buffers) /\ bufs[c] \in Buffers /\ CleanBuffers(bufs[c])
        BY <2>2 DEF IInv, TypeOK, CallerInv, PutInv
      <3>2. Len(pool') = Len(pool) + 1 /\ pool' \in Seq(Buffers)
        BY <2>2, <3>1
      <3>3. ASSUME NEW i \in DOMAIN pool'
            PROVE  pool'[i] = bufs[c] \/ (i \in DOMAIN pool /\ pool'[i] = pool[i])
        <4>1. i \in 1 .. Len(pool) + 1 /\ Len(pool) \in Nat /\ DOMAIN pool = 1 .. Len(pool)
          BY <3>1, <3>2
        <4>2. /\ \A j \in 1 .. Len(pool) : Append(pool, bufs[c])[j] = pool[j]
              /\ Append(pool, bufs[c])[Len(pool) + 1] = bufs[c]
          BY <3>1, AppendProperties
        <4> QED
          BY <2>2, <4>1, <4>2
      <3>4. PoolClean'
        BY <3>1, <3>3 DEF IInv, PoolClean, CleanBuffers
      <3> QED
        BY <2>2, <3>1, <3>2, <3>4, SchwarzAssumption
    <2> QED
      BY <2>1, <2>2
  <1>2. /\ \A s \in Subdomains : task[<<c, s>>] \in Finished
        /\ shared[c] = {} /\ \A w \in Workers : stack[c][w] = {}
        /\ result[c] = "ok" => z[c] = MInv(residual[c])
    BY DEF IInv, CallerInv, PutInv, NoStacksInv, ResultInv
  <1> QED
    BY <1>1, <1>2, ReturnInv DEF IInv, TypeOK
-----------------------------------------------------------------------------
(* The workers' steps: worker w, task <<c, s>>. *)

(* A worker's step is one of a single task of one caller. *)
TouchesOnly(c, s) ==
  /\ UNCHANGED <<pool, callerVars>>
  /\ \A o \in Callers : o # c => bufs'[o] = bufs[o] /\ shared'[o] = shared[o] /\ stack'[o] = stack[o]
  /\ \A k \in Tasks : k # <<c, s>> => /\ task'[k] = task[k] /\ held'[k] = held[k]
                                     /\ rem'[k] = rem[k] /\ cas'[k] = cas[k]

LEMMA TouchesOnlyInv ==
  ASSUME IInv, NEW c \in Callers, NEW s \in Subdomains, TouchesOnly(c, s),
         TypeOK', CallerInv(c)'
  PROVE  IInv'
  <1> USE DEF TouchesOnly, callerVars
  <1>1. PoolClean'
    BY DEF IInv, PoolClean
  <1>2. ASSUME NEW o \in Callers, o # c PROVE CallerInv(o)'
    BY <1>2, UntouchedInv DEF IInv, Untouched, Tasks
  <1> QED
    BY <1>1, <1>2 DEF IInv

(* What a running task implies. *)
LEMMA SweepingInv ==
  ASSUME IInv, NEW c \in Callers, NEW s \in Subdomains, task[<<c, s>>] \in Running
  PROVE  pc[c] = "sweep"
  <1>1. IdleInv(c) /\ PutInv(c)
    BY DEF IInv, CallerInv
  <1>2. pc[c] # "idle"
    BY <1>1 DEF IdleInv, Running
  <1>3. pc[c] # "put"
    BY <1>1 DEF PutInv, Running, Finished
  <1> QED
    BY <1>2, <1>3 DEF IInv, TypeOK

(* When nothing is committed by a step the sums stay what they were. *)
LEMMA NothingCommitted ==
  ASSUME NEW c \in Callers, NEW s \in Subdomains, SumInv(c),
         UNCHANGED <<pc, residual, plan, result>>,
         bufs'[c].accum = bufs[c].accum,
         \A b \in DOMAIN bufs'[c].workers : \A d \in Dofs :
            \/ b \in DOMAIN bufs[c].workers /\ bufs'[c].workers[b] = bufs[c].workers[b]
            \/ bufs'[c].workers[b] = Zero /\ CommittedIn(c, b, d) = {},
         \A d \in Dofs : \A q \in Subdomains : Committed(c, q, d)' <=> Committed(c, q, d),
         \A d \in Dofs : \A q \in CommittedAt(c, d) : held'[<<c, q>>] = held[<<c, q>>]
  PROVE  SumInv(c)'
  <1>1. \A d \in Dofs : CommittedAt(c, d)' = CommittedAt(c, d)
    BY DEF CommittedAt
  <1>2. \A b : \A d \in Dofs : CommittedIn(c, b, d)' = CommittedIn(c, b, d)
    BY <1>1 DEF CommittedIn
  <1>3. ASSUME pc[c] = "sweep", plan[c].strategy = "AtomicScatter", NEW d \in Dofs
        PROVE  bufs'[c].accum[d] = TermsOf(c, CommittedAt(c, d))'
    BY <1>1, <1>3 DEF SumInv, TermsOf
  <1>4. ASSUME pc[c] = "sweep", plan[c].strategy = "ParallelReduction",
               NEW b \in DOMAIN bufs'[c].workers, NEW d \in Dofs
        PROVE  bufs'[c].workers[b][d] = TermsOf(c, CommittedIn(c, b, d))'
    <2>1. CASE b \in DOMAIN bufs[c].workers /\ bufs'[c].workers[b] = bufs[c].workers[b]
      BY <1>2, <1>4, <2>1 DEF SumInv, TermsOf
    <2>2. CASE bufs'[c].workers[b] = Zero /\ CommittedIn(c, b, d) = {}
      BY <1>2, <2>2 DEF TermsOf, Zero
    <2> QED
      BY <1>4, <2>1, <2>2
  <1> QED
    BY <1>3, <1>4 DEF SumInv

(* Popping a worker's frame and putting its buffer back on its stack. *)
LEMMA PopType ==
  ASSUME IInv, NEW w \in Workers, NEW k \in Tasks, Runs(w, k), Pop(w)
  PROVE  frames' \in [Workers -> Seq(Tasks)]
  <1>1. frames[w] \in Seq(Tasks) /\ frames[w] # <<>>
    BY DEF IInv, TypeOK, Runs
  <1>2. SubSeq(frames[w], 1, Len(frames[w]) - 1) \in Seq(Tasks)
    BY <1>1
  <1> QED
    BY <1>2 DEF Pop, IInv, TypeOK

LEMMA ReleaseProperties ==
  ASSUME IInv, NEW w \in Workers, NEW c \in Callers, NEW s \in Subdomains,
         ReleaseBuffer(w, <<c, s>>), UNCHANGED shared
  PROVE  /\ stack' \in [Callers -> [Workers -> SUBSET Nat]]
         /\ \A o \in Callers : o # c => stack'[o] = stack[o]
         /\ IntoPool(c)' = IntoPool(c) \cup {held[<<c, s>>]}
  <1>1. held[<<c, s>>] \in Nat
    BY DEF IInv, TypeOK, Tasks
  <1>2. /\ stack'[c] = [stack[c] EXCEPT ![w] = @ \cup {held[<<c, s>>]}]
        /\ \A o \in Callers : o # c => stack'[o] = stack[o]
    BY DEF ReleaseBuffer, IInv, TypeOK
  <1>3. stack[c] \in [Workers -> SUBSET Nat]
    BY DEF IInv, TypeOK
  <1>4. stack' \in [Callers -> [Workers -> SUBSET Nat]]
    BY <1>1, <1>2, <1>3 DEF ReleaseBuffer, IInv, TypeOK
  <1>5. \A v \in Workers : stack'[c][v] = IF v = w THEN stack[c][w] \cup {held[<<c, s>>]}
                                                   ELSE stack[c][v]
    BY <1>2, <1>3
  <1>6. IntoPool(c)' = IntoPool(c) \cup {held[<<c, s>>]}
    BY <1>5 DEF IntoPool
  <1> QED
    BY <1>2, <1>4, <1>6

LEMMA AcquireProperties ==
  ASSUME IInv, NEW w \in Workers, NEW c \in Callers, NEW b, AcquireBuffer(w, c, b),
         pc[c] = "sweep"
  PROVE  /\ bufs' \in [Callers -> Buffers]
         /\ shared' \in [Callers -> SUBSET Nat]
         /\ stack' \in [Callers -> [Workers -> SUBSET Nat]]
         /\ \A o \in Callers : o # c => bufs'[o] = bufs[o] /\ shared'[o] = shared[o] /\ stack'[o] = stack[o]
         /\ bufs'[c].accum = bufs[c].accum
         /\ b \in DOMAIN bufs'[c].workers
         /\ \A i \in DOMAIN bufs[c].workers : /\ i \in DOMAIN bufs'[c].workers
                                              /\ bufs'[c].workers[i] = bufs[c].workers[i]
         /\ \A i \in DOMAIN bufs'[c].workers \ DOMAIN bufs[c].workers :
              i = b /\ bufs'[c].workers[i] = Zero
         /\ IntoPool(c)' \subseteq IntoPool(c)
         /\ IntoPool(c) \subseteq IntoPool(c)' \cup {b}
  <1>1. /\ bufs \in [Callers -> Buffers] /\ shared \in [Callers -> SUBSET Nat]
        /\ stack \in [Callers -> [Workers -> SUBSET Nat]]
        /\ bufs[c].workers \in Seq(Vectors)
        /\ IntoPool(c) \subseteq DOMAIN bufs[c].workers
    BY DEF IInv, TypeOK, Buffers, CallerInv, OwnershipInv
  <1>2. CASE /\ b \in stack[c][w]
             /\ stack' = [stack EXCEPT ![c][w] = @ \ {b}]
             /\ UNCHANGED <<bufs, shared>>
    <2>1. /\ stack'[c] = [stack[c] EXCEPT ![w] = @ \ {b}]
          /\ \A o \in Callers : o # c => stack'[o] = stack[o]
      BY <1>1, <1>2
    <2>2. \A v \in Workers : stack'[c][v] = IF v = w THEN stack[c][w] \ {b} ELSE stack[c][v]
      BY <1>1, <2>1
    <2>3. stack' \in [Callers -> [Workers -> SUBSET Nat]]
      BY <1>1, <1>2, <2>1
    <2>4. b \in IntoPool(c)
      BY <1>2 DEF IntoPool
    <2>5. IntoPool(c)' \subseteq IntoPool(c) /\ IntoPool(c) \subseteq IntoPool(c)' \cup {b}
      BY <1>2, <2>2 DEF IntoPool
    <2> QED
      BY <1>1, <1>2, <2>1, <2>3, <2>4, <2>5
  <1>3. CASE /\ b \in shared[c]
             /\ shared' = [shared EXCEPT ![c] = @ \ {b}]
             /\ UNCHANGED <<bufs, stack>>
    <2>1. b \in IntoPool(c)
      BY <1>3 DEF IntoPool
    <2>2. shared'[c] = shared[c] \ {b}
      BY <1>1, <1>3
    <2>3. IntoPool(c)' \subseteq IntoPool(c) /\ IntoPool(c) \subseteq IntoPool(c)' \cup {b}
      BY <1>3, <2>2 DEF IntoPool
    <2> QED
      BY <1>1, <1>3, <2>1, <2>3
  <1>4. CASE /\ b = Len(bufs[c].workers) + 1
             /\ bufs' = [bufs EXCEPT ![c].workers = Append(@, Zero)]
             /\ UNCHANGED <<shared, stack>>
    <2> DEFINE W == Append(bufs[c].workers, Zero)
    <2>1. /\ W \in Seq(Vectors) /\ DOMAIN W = 1 .. Len(bufs[c].workers) + 1
          /\ \A i \in 1 .. Len(bufs[c].workers) : W[i] = bufs[c].workers[i]
          /\ W[Len(bufs[c].workers) + 1] = Zero
          /\ DOMAIN bufs[c].workers = 1 .. Len(bufs[c].workers)
          /\ Len(bufs[c].workers) \in Nat
      <3>1. /\ W \in Seq(Vectors) /\ Len(W) = Len(bufs[c].workers) + 1
            /\ \A i \in 1 .. Len(bufs[c].workers) : W[i] = bufs[c].workers[i]
            /\ W[Len(bufs[c].workers) + 1] = Zero
        BY <1>1, ZeroType, AppendProperties
      <3>2. DOMAIN W = 1 .. Len(W)
        BY <3>1
      <3> QED
        BY <1>1, <3>1, <3>2
    <2> HIDE DEF W
    <2>2. bufs'[c] = [strategy |-> bufs[c].strategy, accum |-> bufs[c].accum, workers |-> W]
      BY <1>1, <1>4 DEF Buffers, W
    <2>3. bufs' \in [Callers -> Buffers]
      BY <1>1, <1>4, <2>1, <2>2 DEF Buffers
    <2>4. IntoPool(c)' = IntoPool(c)
      BY <1>4 DEF IntoPool
    <2> QED
      BY <1>1, <1>4, <2>1, <2>2, <2>3, <2>4
  <1> QED
    BY <1>2, <1>3, <1>4 DEF AcquireBuffer

LEMMA StartTaskInv ==
  ASSUME IInv, NEW w \in Workers, NEW c \in Callers, NEW s \in Subdomains,
         StartTask(w, <<c, s>>)
  PROVE  IInv'
  <1> DEFINE k == <<c, s>>
  <1> USE DEF StartTask, callerVars
  <1>1. k \in Tasks /\ pc[c] = "sweep" /\ task[k] = "todo" /\ GlobalIndices[s] \subseteq Dofs
    BY SchwarzAssumption DEF Tasks
  <1>2. PICK b \in Nat : AcquireBuffer(w, c, b) /\ held' = [held EXCEPT ![k] = b]
    <2>1. Len(bufs[c].workers) \in Nat
      BY DEF IInv, TypeOK, Buffers
    <2>2. PICK b \in 1 .. Len(bufs[c].workers) + 1 :
             AcquireBuffer(w, k[1], b) /\ held' = [held EXCEPT ![k] = b]
      OBVIOUS
    <2>3. b \in Nat /\ k[1] = c
      BY <2>1
    <2> QED
      BY <2>2, <2>3
  <1>3. /\ task' = [task EXCEPT ![k] = task'[k]]
        /\ task'[k] \in Running /\ rem'[k] = GlobalIndices[s] /\ held'[k] = b
        /\ cas[k] = <<>>
    BY <1>1, <1>2 DEF IInv, TypeOK, Running, CallerInv, TaskInv
  <1>4. TypeOK'
    <2>1. frames' \in [Workers -> Seq(Tasks)]
      BY <1>1 DEF Push, IInv, TypeOK
    <2>2. task' \in [Tasks -> {"todo", "solve", "scatter"} \cup Finished]
      BY <1>3 DEF IInv, TypeOK, Running
    <2>3. held' \in [Tasks -> Nat] /\ rem' \in [Tasks -> SUBSET Dofs]
      BY <1>1, <1>2 DEF IInv, TypeOK
    <2> QED
      BY <1>1, <1>2, <2>1, <2>2, <2>3, AcquireProperties DEF IInv, TypeOK
  <1>5. TouchesOnly(c, s)
    BY <1>1, <1>2, AcquireProperties DEF TouchesOnly, IInv, TypeOK
  <1>6. CallerInv(c)'
    <2> USE DEF TouchesOnly, Tasks
    <2>1. IdleInv(c)' /\ NoStacksInv(c)' /\ PutInv(c)'
      BY <1>1 DEF IdleInv, NoStacksInv, PutInv
    <2>2. \A q \in Subdomains \ {s} : /\ task'[<<c, q>>] = task[<<c, q>>]
                                      /\ held'[<<c, q>>] = held[<<c, q>>]
                                      /\ rem'[<<c, q>>] = rem[<<c, q>>]
                                      /\ cas'[<<c, q>>] = cas[<<c, q>>]
      BY <1>5
    <2>3. TaskInv(c)'
      <3>1. FailedOf(c)' = FailedOf(c)
        BY <1>1, <1>3, <2>2 DEF FailedOf, Running
      <3> QED
        BY <1>3, <2>2, <3>1 DEF TaskInv, IInv, CallerInv, Running
    <2>4. OwnershipInv(c)'
      <3>1. OwnershipInv(c)
        BY DEF IInv, CallerInv
      <3>2. IntoPool(c)' \subseteq DOMAIN bufs'[c].workers
        BY <1>1, <1>2, <3>1, AcquireProperties DEF OwnershipInv
      <3>3. ASSUME NEW q \in Subdomains, task'[<<c, q>>] \in Running \cup {"done"}
            PROVE  held'[<<c, q>>] \in DOMAIN bufs'[c].workers
        <4>1. CASE q = s
          BY <1>1, <1>2, <1>3, <4>1, AcquireProperties
        <4>2. CASE q # s
          <5>1. held[<<c, q>>] \in DOMAIN bufs[c].workers
            BY <1>1, <2>2, <3>1, <3>3, <4>2 DEF OwnershipInv
          <5> QED
            BY <1>1, <1>2, <2>2, <4>2, <5>1, AcquireProperties
        <4> QED
          BY <4>1, <4>2
      <3>4. ASSUME NEW i \in DOMAIN bufs'[c].workers, i \notin IntoPool(c)'
            PROVE  \E q \in Subdomains : /\ task'[<<c, q>>] \in Running \cup {"panicked"}
                                         /\ held'[<<c, q>>] = i
        <4>1. CASE i = b
          BY <1>3, <4>1
        <4>2. CASE i # b
          <5>1. i \in DOMAIN bufs[c].workers /\ i \notin IntoPool(c)
            BY <1>1, <1>2, <3>4, <4>2, AcquireProperties
          <5>2. PICK q \in Subdomains : /\ task[<<c, q>>] \in Running \cup {"panicked"}
                                        /\ held[<<c, q>>] = i
            BY <1>1, <3>1, <5>1 DEF OwnershipInv
          <5>3. q # s
            BY <1>1, <5>2 DEF Running
          <5> QED
            BY <2>2, <5>2, <5>3
        <4> QED
          BY <4>1, <4>2
      <3> QED
        BY <3>2, <3>3, <3>4 DEF OwnershipInv
    <2>5. SumInv(c)'
      <3>1. ASSUME NEW d \in Dofs, NEW q \in Subdomains
            PROVE  Committed(c, q, d)' <=> Committed(c, q, d)
        BY <1>1, <1>3, <2>2 DEF Committed, Running
      <3>2. \A d \in Dofs : s \notin CommittedAt(c, d)
        BY <1>1 DEF CommittedAt, Committed
      <3>3. \A d \in Dofs : \A q \in CommittedAt(c, d) : held'[<<c, q>>] = held[<<c, q>>]
        BY <2>2, <3>2 DEF CommittedAt
      <3>4. \A i : i \notin DOMAIN bufs[c].workers => \A d \in Dofs : CommittedIn(c, i, d) = {}
        BY <1>1 DEF CommittedIn, CommittedAt, Committed, IInv, CallerInv, OwnershipInv, Running
      <3>5. SumInv(c)
        BY DEF IInv, CallerInv
      <3>6. \A i \in DOMAIN bufs'[c].workers : \A d \in Dofs :
              \/ i \in DOMAIN bufs[c].workers /\ bufs'[c].workers[i] = bufs[c].workers[i]
              \/ bufs'[c].workers[i] = Zero /\ CommittedIn(c, i, d) = {}
        BY <1>1, <1>2, <3>4, AcquireProperties
      <3>7. bufs'[c].accum = bufs[c].accum
        BY <1>1, <1>2, AcquireProperties
      <3> QED
        BY <3>1, <3>3, <3>5, <3>6, <3>7, NothingCommitted
    <2>6. ResultInv(c)'
      BY <1>1 DEF ResultInv, IInv, CallerInv
    <2> QED
      BY <2>1, <2>3, <2>4, <2>5, <2>6 DEF CallerInv
  <1> QED
    BY <1>4, <1>5, <1>6, TouchesOnlyInv

(* A task changes its state and may give its buffer back, but adds nothing. *)
LEMMA TaskMoveInv ==
  ASSUME IInv, NEW c \in Callers, NEW s \in Subdomains, pc[c] = "sweep",
         TouchesOnly(c, s), TypeOK', UNCHANGED <<bufs, shared, held, rem, cas>>,
         cas[<<c, s>>] = <<>>,
         task[<<c, s>>] \notin {"failed", "panicked"}, task'[<<c, s>>] # "solve",
         task'[<<c, s>>] = "scatter" => rem[<<c, s>>] \subseteq GlobalIndices[s],
         task'[<<c, s>>] = "skipped" => FailedOf(c) # {},
         \A d \in Dofs : Committed(c, s, d)' <=> Committed(c, s, d),
         IntoPool(c)' \in {IntoPool(c), IntoPool(c) \cup {held[<<c, s>>]}},
         task'[<<c, s>>] \in Running \cup {"done"} \/ IntoPool(c)' # IntoPool(c) =>
            task[<<c, s>>] \in Running,
         task[<<c, s>>] \in Running => \/ task'[<<c, s>>] \in Running \cup {"panicked"}
                                      \/ held[<<c, s>>] \in IntoPool(c)'
  PROVE  IInv'
  <1> USE DEF TouchesOnly, callerVars
  <1> DEFINE k == <<c, s>>
  <1>1. \A q \in Subdomains \ {s} : task'[<<c, q>>] = task[<<c, q>>]
    BY DEF Tasks
  <1>2. OwnershipInv(c) /\ SumInv(c) /\ TaskInv(c) /\ ResultInv(c)
    BY DEF IInv, CallerInv
  <1>3. IdleInv(c)' /\ NoStacksInv(c)' /\ PutInv(c)' /\ ResultInv(c)'
    BY <1>2 DEF IdleInv, NoStacksInv, PutInv, ResultInv
  <1>4. TaskInv(c)'
    <2>1. FailedOf(c) \subseteq FailedOf(c)'
      BY <1>1 DEF FailedOf
    <2> QED
      BY <1>1, <1>2, <2>1 DEF TaskInv
  <1>5. OwnershipInv(c)'
    <2>1. IntoPool(c)' \subseteq DOMAIN bufs[c].workers
      BY <1>2 DEF OwnershipInv
    <2>2. \A q \in Subdomains :
            task'[<<c, q>>] \in Running \cup {"done"} => held[<<c, q>>] \in DOMAIN bufs[c].workers
      BY <1>1, <1>2 DEF OwnershipInv
    <2>3. ASSUME NEW b \in DOMAIN bufs[c].workers, b \notin IntoPool(c)'
          PROVE  \E q \in Subdomains : /\ task'[<<c, q>>] \in Running \cup {"panicked"}
                                       /\ held[<<c, q>>] = b
      <3>1. PICK q \in Subdomains : /\ task[<<c, q>>] \in Running \cup {"panicked"}
                                    /\ held[<<c, q>>] = b
        BY <1>2, <2>3 DEF OwnershipInv
      <3> QED
        BY <1>1, <2>3, <3>1
    <2> QED
      BY <2>1, <2>2, <2>3 DEF OwnershipInv
  <1>6. SumInv(c)'
    <2>1. ASSUME NEW d \in Dofs, NEW q \in Subdomains
          PROVE  Committed(c, q, d)' <=> Committed(c, q, d)
      BY <1>1 DEF Committed
    <2> QED
      BY <1>2, <2>1, NothingCommitted
  <1>7. CallerInv(c)'
    BY <1>3, <1>4, <1>5, <1>6 DEF CallerInv
  <1> QED
    BY <1>7, TouchesOnlyInv

LEMMA SkipTaskInv ==
  ASSUME IInv, NEW c \in Callers, NEW s \in Subdomains, SkipTask(<<c, s>>)
  PROVE  IInv'
  <1> USE DEF SkipTask, bufferVars, callerVars
  <1>1. TypeOK' /\ TouchesOnly(c, s) /\ task'[<<c, s>>] = "skipped"
    BY DEF IInv, TypeOK, Finished, TouchesOnly, Tasks
  <1>2. \A d \in Dofs : Committed(c, s, d)' <=> Committed(c, s, d)
    BY <1>1 DEF Committed
  <1>3. IntoPool(c)' = IntoPool(c)
    BY DEF IntoPool
  <1>4. cas[<<c, s>>] = <<>> /\ FailedOf(c) # {} /\ pc[c] = "sweep"
    BY DEF IInv, CallerInv, TaskInv
  <1> QED
    BY <1>1, <1>2, <1>3, <1>4, TaskMoveInv DEF Running

LEMMA SolveOkInv ==
  ASSUME IInv, NEW w \in Workers, NEW c \in Callers, NEW s \in Subdomains,
         SolveOk(w, <<c, s>>)
  PROVE  IInv'
  <1> USE DEF SolveOk, bufferVars, callerVars
  <1>1. TypeOK' /\ TouchesOnly(c, s) /\ task'[<<c, s>>] = "scatter"
    BY DEF IInv, TypeOK, TouchesOnly, Tasks
  <1>2. rem[<<c, s>>] = GlobalIndices[s] /\ cas[<<c, s>>] = <<>>
    BY DEF IInv, CallerInv, TaskInv
  <1>3. \A d \in Dofs : Committed(c, s, d)' <=> Committed(c, s, d)
    BY <1>1, <1>2 DEF Committed
  <1>4. IntoPool(c)' = IntoPool(c)
    BY DEF IntoPool
  <1>5. pc[c] = "sweep"
    BY SweepingInv DEF Running
  <1> QED
    BY <1>1, <1>2, <1>3, <1>4, <1>5, TaskMoveInv DEF Running

LEMMA SolveErrInv ==
  ASSUME IInv, NEW w \in Workers, NEW c \in Callers, NEW s \in Subdomains,
         SolveErr(w, <<c, s>>)
  PROVE  IInv'
  <1> USE DEF SolveErr, callerVars
  <1>1. <<c, s>> \in Tasks /\ frames' \in [Workers -> Seq(Tasks)]
    BY PopType DEF Tasks
  <1>2. /\ stack' \in [Callers -> [Workers -> SUBSET Nat]]
        /\ \A o \in Callers : o # c => stack'[o] = stack[o]
        /\ IntoPool(c)' = IntoPool(c) \cup {held[<<c, s>>]}
    BY ReleaseProperties
  <1>3. TypeOK' /\ TouchesOnly(c, s) /\ task'[<<c, s>>] = "failed"
    BY <1>1, <1>2 DEF IInv, TypeOK, Finished, TouchesOnly
  <1>4. \A d \in Dofs : Committed(c, s, d)' <=> Committed(c, s, d)
    BY <1>3 DEF Committed
  <1>5. cas[<<c, s>>] = <<>> /\ pc[c] = "sweep"
    BY SweepingInv DEF IInv, CallerInv, TaskInv, Running
  <1> QED
    BY <1>2, <1>3, <1>4, <1>5, TaskMoveInv DEF Running

LEMMA SolvePanicInv ==
  ASSUME IInv, NEW w \in Workers, NEW c \in Callers, NEW s \in Subdomains,
         SolvePanic(w, <<c, s>>)
  PROVE  IInv'
  <1> USE DEF SolvePanic, callerVars, bufferVars
  <1>1. <<c, s>> \in Tasks /\ frames' \in [Workers -> Seq(Tasks)]
    BY PopType DEF Tasks
  <1>2. TypeOK' /\ TouchesOnly(c, s) /\ task'[<<c, s>>] = "panicked"
    BY <1>1 DEF IInv, TypeOK, Finished, TouchesOnly
  <1>3. \A d \in Dofs : Committed(c, s, d)' <=> Committed(c, s, d)
    BY <1>2 DEF Committed
  <1>4. cas[<<c, s>>] = <<>> /\ pc[c] = "sweep"
    BY SweepingInv DEF IInv, CallerInv, TaskInv, Running
  <1>5. IntoPool(c)' = IntoPool(c)
    BY DEF IntoPool
  <1> QED
    BY <1>2, <1>3, <1>4, <1>5, TaskMoveInv DEF Running

LEMMA FinishTaskInv ==
  ASSUME IInv, NEW w \in Workers, NEW c \in Callers, NEW s \in Subdomains,
         FinishTask(w, <<c, s>>)
  PROVE  IInv'
  <1> USE DEF FinishTask, Scatters, callerVars
  <1>1. <<c, s>> \in Tasks /\ frames' \in [Workers -> Seq(Tasks)]
    BY PopType DEF Tasks
  <1>2. /\ stack' \in [Callers -> [Workers -> SUBSET Nat]]
        /\ \A o \in Callers : o # c => stack'[o] = stack[o]
        /\ IntoPool(c)' = IntoPool(c) \cup {held[<<c, s>>]}
    BY ReleaseProperties
  <1>3. TypeOK' /\ TouchesOnly(c, s) /\ task'[<<c, s>>] = "done"
    BY <1>1, <1>2 DEF IInv, TypeOK, Finished, TouchesOnly
  <1>4. \A d \in Dofs : Committed(c, s, d)' <=> Committed(c, s, d)
    BY <1>3 DEF Committed
  <1>5. cas[<<c, s>>] = <<>> /\ pc[c] = "sweep"
    BY SweepingInv DEF IInv, CallerInv, TaskInv, Running
  <1> QED
    BY <1>2, <1>3, <1>4, <1>5, TaskMoveInv DEF Running

(* A task enters a compare-and-swap, or enters it again with the word it   *)
(* found: nothing but cas changes.                                         *)
LEMMA ReadInv ==
  ASSUME IInv, NEW c \in Callers, NEW s \in Subdomains, task[<<c, s>>] = "scatter",
         NEW d \in rem[<<c, s>>], plan[c].strategy = "AtomicScatter",
         cas' = [cas EXCEPT ![<<c, s>>] = <<d, bufs[c].accum[d]>>],
         UNCHANGED <<pool, callerVars, bufferVars, task, held, rem, frames>>
  PROVE  IInv'
  <1> USE DEF callerVars, bufferVars
  <1>1. <<c, s>> \in Tasks /\ d \in Dofs /\ bufs[c].accum[d] \in Values
    BY DEF Tasks, IInv, TypeOK, Buffers, Vectors
  <1>2. TypeOK' /\ TouchesOnly(c, s)
    BY <1>1 DEF IInv, TypeOK, TouchesOnly
  <1>3. cas'[<<c, s>>] = <<d, bufs[c].accum[d]>>
    BY <1>1 DEF IInv, TypeOK
  <1>4. CallerInv(c)'
    <2>1. IdleInv(c)' /\ NoStacksInv(c)' /\ PutInv(c)' /\ ResultInv(c)'
      BY DEF IInv, CallerInv, IdleInv, NoStacksInv, PutInv, ResultInv
    <2>2. TaskInv(c)'
      <3>1. \A q \in Subdomains \ {s} : cas'[<<c, q>>] = cas[<<c, q>>]
        BY <1>2 DEF TouchesOnly, Tasks
      <3>2. TaskInv(c)
        BY DEF IInv, CallerInv
      <3>3. FailedOf(c)' = FailedOf(c)
        BY DEF FailedOf
      <3> QED
        BY <1>3, <3>1, <3>2, <3>3 DEF TaskInv
    <2>3. OwnershipInv(c)'
      <3>1. IntoPool(c)' = IntoPool(c)
        BY DEF IntoPool
      <3> QED
        BY <3>1 DEF OwnershipInv, IInv, CallerInv
    <2>4. SumInv(c)'
      <3>1. ASSUME NEW e \in Dofs, NEW q \in Subdomains
            PROVE  Committed(c, q, e)' <=> Committed(c, q, e)
        BY DEF Committed
      <3> QED
        BY <3>1, NothingCommitted DEF IInv, CallerInv
    <2> QED
      BY <2>1, <2>2, <2>3, <2>4 DEF CallerInv
  <1> QED
    BY <1>2, <1>4, TouchesOnlyInv

LEMMA LoadInv ==
  ASSUME IInv, NEW w \in Workers, NEW c \in Callers, NEW s \in Subdomains, Load(w, <<c, s>>)
  PROVE  IInv'
  BY ReadInv DEF Load, Scatters

LEMMA ExchangeRetryInv ==
  ASSUME IInv, NEW w \in Workers, NEW c \in Callers, NEW s \in Subdomains,
         ExchangeRetry(w, <<c, s>>)
  PROVE  IInv'
  <1>1. cas[<<c, s>>][1] \in rem[<<c, s>>] /\ plan[c].strategy = "AtomicScatter"
    BY DEF ExchangeRetry, IInv, CallerInv, TaskInv
  <1> QED
    BY <1>1, ReadInv DEF ExchangeRetry, Scatters

(* A task adds its term to dofs of its subdomain: what the two scatters    *)
(* share is all but the sums.                                              *)
LEMMA AddInv ==
  ASSUME IInv, NEW c \in Callers, NEW s \in Subdomains, task[<<c, s>>] = "scatter",
         UNCHANGED <<pool, callerVars, shared, stack, task, held, frames>>,
         rem'[<<c, s>>] \subseteq rem[<<c, s>>], rem' = [rem EXCEPT ![<<c, s>>] = rem'[<<c, s>>]],
         cas' \in [Tasks -> {<<>>} \cup (Dofs \X Values)], cas'[<<c, s>>] = <<>>,
         \A k \in Tasks : k # <<c, s>> => cas'[k] = cas[k],
         bufs' \in [Callers -> Buffers],
         \A o \in Callers : o # c => bufs'[o] = bufs[o],
         DOMAIN bufs'[c].workers = DOMAIN bufs[c].workers,
         SumInv(c)'
  PROVE  IInv'
  <1> USE DEF callerVars
  <1>1. pc[c] = "sweep" /\ TaskInv(c) /\ OwnershipInv(c) /\ ResultInv(c)
    BY SweepingInv DEF IInv, CallerInv, Running
  <1>2. TypeOK' /\ TouchesOnly(c, s)
    BY DEF IInv, TypeOK, TouchesOnly, Tasks
  <1>3. rem'[<<c, s>>] \subseteq rem[<<c, s>>]
    OBVIOUS
  <1>4. IdleInv(c)' /\ NoStacksInv(c)' /\ PutInv(c)' /\ ResultInv(c)'
    BY <1>1 DEF IdleInv, NoStacksInv, PutInv, ResultInv
  <1>5. TaskInv(c)'
    <2>1. \A q \in Subdomains \ {s} : /\ cas'[<<c, q>>] = cas[<<c, q>>]
                                      /\ rem'[<<c, q>>] = rem[<<c, q>>]
      BY <1>2 DEF TouchesOnly, Tasks
    <2>2. FailedOf(c)' = FailedOf(c)
      BY DEF FailedOf
    <2> QED
      BY <1>1, <1>3, <2>1, <2>2 DEF TaskInv
  <1>6. OwnershipInv(c)'
    <2>1. IntoPool(c)' = IntoPool(c)
      BY DEF IntoPool
    <2> QED
      BY <1>1, <2>1 DEF OwnershipInv
  <1> QED
    BY <1>2, <1>4, <1>5, <1>6, TouchesOnlyInv DEF CallerInv

(* s, if the step adds its term to dof d. *)
AddedAt(c, s, d) == IF d \in rem[<<c, s>>] /\ d \notin rem'[<<c, s>>] THEN {s} ELSE {}

(* The terms committed after a task has added its own to some dofs. *)
LEMMA CommitProperties ==
  ASSUME IInv, NEW c \in Callers, NEW s \in Subdomains, task[<<c, s>>] = "scatter",
         UNCHANGED <<residual, task, held>>,
         rem'[<<c, s>>] \subseteq rem[<<c, s>>], rem' = [rem EXCEPT ![<<c, s>>] = rem'[<<c, s>>]],
         NEW d \in Dofs
  PROVE  /\ d \in rem[<<c, s>>] => s \notin CommittedAt(c, d)
         /\ CommittedAt(c, d)' = CommittedAt(c, d) \cup AddedAt(c, s, d)
         /\ \A b : CommittedIn(c, b, d)' =
                     CommittedIn(c, b, d) \cup (IF b = held[<<c, s>>] THEN AddedAt(c, s, d) ELSE {})
  <1>1. \A q \in Subdomains \ {s} : rem'[<<c, q>>] = rem[<<c, q>>]
    BY DEF IInv, TypeOK, Tasks
  <1>2. /\ d \in rem[<<c, s>>] => s \notin CommittedAt(c, d)
        /\ d \in rem[<<c, s>>] => d \in GlobalIndices[s]
    BY DEF CommittedAt, Committed, IInv, CallerInv, TaskInv
  <1>3. ASSUME NEW q \in Subdomains
        PROVE  Committed(c, q, d)' <=> Committed(c, q, d) \/ q \in AddedAt(c, s, d)
    BY <1>1, <1>2 DEF Committed, AddedAt
  <1>4. CommittedAt(c, d)' = CommittedAt(c, d) \cup AddedAt(c, s, d)
    BY <1>3 DEF CommittedAt, AddedAt
  <1>5. ASSUME NEW b
        PROVE  CommittedIn(c, b, d)' =
                 CommittedIn(c, b, d) \cup (IF b = held[<<c, s>>] THEN AddedAt(c, s, d) ELSE {})
    BY <1>4 DEF CommittedIn, AddedAt
  <1> QED
    BY <1>2, <1>4, <1>5

(* Adding a new term to the sum over S gives the sum over S and s. *)
LEMMA PlusTerms ==
  ASSUME NEW c, NEW s, NEW S, s \notin S
  PROVE  Plus(TermsOf(c, S), <<residual[c], s>>) = TermsOf(c, S \cup {s})
  <1>1. <<residual[c], s>> \notin TermsOf(c, S)
    BY DEF TermsOf
  <1> QED
    BY <1>1, PlusNew DEF TermsOf

LEMMA ExchangeOkInv ==
  ASSUME IInv, NEW w \in Workers, NEW c \in Callers, NEW s \in Subdomains,
         ExchangeOk(w, <<c, s>>)
  PROVE  IInv'
  <1> DEFINE k == <<c, s>>
  <1>1. /\ k \in Tasks /\ k[1] = c /\ TermOf(k) = <<residual[c], s>> /\ TermOf(k) \in Terms
        /\ pc[c] = "sweep" /\ task[k] = "scatter"
    BY SweepingInv DEF ExchangeOk, Scatters, Tasks, TermOf, Terms, IInv, TypeOK, Running
  <1>2. PICK d \in Dofs : /\ d = cas[k][1]
                         /\ d \in rem[k]
                         /\ bufs' = [bufs EXCEPT ![c].accum[d] = Plus(bufs[c].accum[d], TermOf(k))]
                         /\ rem'[k] = rem[k] \ {d}
                         /\ rem' = [rem EXCEPT ![k] = rem'[k]]
    BY <1>1 DEF ExchangeOk, IInv, CallerInv, TaskInv, TypeOK
  <1>3. plan[c].strategy = "AtomicScatter"
    BY <1>1 DEF ExchangeOk, IInv, CallerInv, TaskInv
  <1>4. bufs[c] \in Buffers /\ bufs[c].accum \in Vectors
    BY DEF IInv, TypeOK, Buffers
  <1>5. PICK A \in Vectors : A = [bufs[c].accum EXCEPT ![d] = Plus(bufs[c].accum[d], TermOf(k))]
    BY <1>1, <1>4, PlusType DEF Vectors
  <1>6. bufs' = [bufs EXCEPT ![c].accum = A]
    BY <1>2, <1>4, <1>5 DEF IInv, TypeOK
  <1>7. bufs'[c] = [strategy |-> bufs[c].strategy, accum |-> A, workers |-> bufs[c].workers]
    BY <1>4, <1>6 DEF IInv, TypeOK, Buffers
  <1>8. bufs' \in [Callers -> Buffers] /\ \A o \in Callers : o # c => bufs'[o] = bufs[o]
    <2>1. bufs'[c] \in Buffers
      BY <1>4, <1>7 DEF Buffers
    <2> QED
      BY <1>6, <2>1 DEF IInv, TypeOK
  <1>9. /\ cas' \in [Tasks -> {<<>>} \cup (Dofs \X Values)] /\ cas'[k] = <<>>
        /\ \A q \in Tasks : q # k => cas'[q] = cas[q]
    BY <1>1 DEF ExchangeOk, IInv, TypeOK
  <1>10. UNCHANGED <<pool, callerVars, shared, stack, task, held, frames>>
    BY DEF ExchangeOk
  <1>11. SumInv(c)'
    <2>1. \A e \in Dofs : bufs[c].accum[e] = TermsOf(c, CommittedAt(c, e))
      BY <1>1, <1>3 DEF IInv, CallerInv, SumInv
    <2>2. UNCHANGED <<residual, task, held>>
      BY <1>10 DEF callerVars
    <2>3. ASSUME NEW e \in Dofs PROVE A[e] = TermsOf(c, CommittedAt(c, e)')
      <3>1. /\ e = d => s \notin CommittedAt(c, e)
            /\ CommittedAt(c, e)' = IF e = d THEN CommittedAt(c, e) \cup {s} ELSE CommittedAt(c, e)
        <4>1. /\ e \in rem[<<c, s>>] => s \notin CommittedAt(c, e)
              /\ CommittedAt(c, e)' = CommittedAt(c, e) \cup AddedAt(c, s, e)
          <5>1. /\ rem' = [rem EXCEPT ![<<c, s>>] = rem'[<<c, s>>]]
                /\ rem'[<<c, s>>] \subseteq rem[<<c, s>>]
            BY <1>2
          <5>2. task[<<c, s>>] = "scatter"
            BY <1>1
          <5> HIDE DEF k
          <5> QED
            BY <2>2, <5>1, <5>2, CommitProperties
        <4> QED
          BY <1>2, <4>1 DEF AddedAt
      <3>2. A[e] = IF e = d THEN Plus(bufs[c].accum[e], <<residual[c], s>>) ELSE bufs[c].accum[e]
        BY <1>1, <1>4, <1>5 DEF Vectors
      <3> QED
        BY <2>1, <3>1, <3>2, PlusTerms
    <2>4. ASSUME NEW e \in Dofs PROVE bufs'[c].accum[e] = TermsOf(c, CommittedAt(c, e))'
      BY <1>7, <2>2, <2>3 DEF TermsOf
    <2> QED
      BY <1>1, <1>3, <1>10, <2>4 DEF SumInv, IInv, CallerInv, callerVars
  <1>12. DOMAIN bufs'[c].workers = DOMAIN bufs[c].workers
    BY <1>7
  <1> QED
    BY <1>1, <1>2, <1>8, <1>9, <1>10, <1>11, <1>12, AddInv

LEMMA AddPrivateInv ==
  ASSUME IInv, NEW w \in Workers, NEW c \in Callers, NEW s \in Subdomains,
         AddPrivate(w, <<c, s>>)
  PROVE  IInv'
  <1> DEFINE k == <<c, s>>
  <1>1. /\ k \in Tasks /\ k[1] = c /\ TermOf(k) = <<residual[c], s>> /\ TermOf(k) \in Terms
        /\ pc[c] = "sweep" /\ task[k] = "scatter" /\ plan[c].strategy = "ParallelReduction"
    BY SweepingInv DEF AddPrivate, Scatters, Tasks, TermOf, Terms, IInv, TypeOK, Running
  <1>2. bufs[c] \in Buffers /\ bufs[c].workers \in Seq(Vectors) /\ held[k] \in DOMAIN bufs[c].workers
    BY <1>1 DEF IInv, TypeOK, Buffers, CallerInv, OwnershipInv, Running
  <1>3. PICK h, D : h = held[k] /\ D = rem[k]
    OBVIOUS
  <1>4. PICK V : V = [d \in Dofs |-> IF d \in D THEN Plus(bufs[c].workers[h][d], TermOf(k))
                                               ELSE bufs[c].workers[h][d]]
    OBVIOUS
  <1>5. V \in Vectors
    <2>1. bufs[c].workers[h] \in Vectors
      BY <1>2, <1>3
    <2> QED
      BY <1>1, <1>4, <2>1, PlusType DEF Vectors
  <1>6. PICK W \in Seq(Vectors) : /\ W = [bufs[c].workers EXCEPT ![h] = V]
                                 /\ DOMAIN W = DOMAIN bufs[c].workers
    <2>1. [bufs[c].workers EXCEPT ![h] = V] \in Seq(Vectors)
      BY <1>2, <1>3, <1>5
    <2> QED
      BY <1>2, <2>1
  <1>7. bufs' = [bufs EXCEPT ![c].workers = W]
    BY <1>1, <1>3, <1>4, <1>6 DEF AddPrivate, IInv, TypeOK
  <1>8. bufs'[c] = [strategy |-> bufs[c].strategy, accum |-> bufs[c].accum, workers |-> W]
    BY <1>2, <1>7 DEF IInv, TypeOK, Buffers
  <1>9. bufs' \in [Callers -> Buffers] /\ \A o \in Callers : o # c => bufs'[o] = bufs[o]
    <2>1. bufs'[c] \in Buffers
      BY <1>2, <1>8 DEF Buffers
    <2> QED
      BY <1>7, <2>1 DEF IInv, TypeOK
  <1>10. rem'[k] = {} /\ rem' = [rem EXCEPT ![k] = rem'[k]]
    BY <1>1 DEF AddPrivate, IInv, TypeOK
  <1>11. UNCHANGED <<pool, callerVars, shared, stack, task, held, cas, frames>>
    BY DEF AddPrivate
  <1>12. cas' \in [Tasks -> {<<>>} \cup (Dofs \X Values)] /\ cas'[k] = <<>>
    BY <1>1, <1>11 DEF IInv, TypeOK, CallerInv, TaskInv
  <1>13. SumInv(c)'
    <2>1. /\ \A b \in DOMAIN bufs[c].workers, d \in Dofs :
               bufs[c].workers[b][d] = TermsOf(c, CommittedIn(c, b, d))
          /\ bufs[c].accum = Zero /\ result[c] = "pending"
      BY <1>1 DEF IInv, CallerInv, SumInv
    <2>2. UNCHANGED <<residual, task, held>>
      BY <1>11 DEF callerVars
    <2>3. ASSUME NEW b \in DOMAIN bufs[c].workers, NEW d \in Dofs
          PROVE  W[b][d] = TermsOf(c, CommittedIn(c, b, d)')
      <3>1. /\ d \in D => s \notin CommittedAt(c, d)
            /\ CommittedIn(c, b, d)' = IF d \in D /\ b = held[k] THEN CommittedIn(c, b, d) \cup {s}
                                                                ELSE CommittedIn(c, b, d)
        <4>1. /\ d \in rem[<<c, s>>] => s \notin CommittedAt(c, d)
              /\ CommittedIn(c, b, d)' = CommittedIn(c, b, d)
                    \cup (IF b = held[<<c, s>>] THEN AddedAt(c, s, d) ELSE {})
          <5>1. /\ rem' = [rem EXCEPT ![<<c, s>>] = rem'[<<c, s>>]]
                /\ rem'[<<c, s>>] \subseteq rem[<<c, s>>]
            BY <1>10
          <5>2. task[<<c, s>>] = "scatter"
            BY <1>1
          <5> HIDE DEF k
          <5> QED
            BY <2>2, <5>1, <5>2, CommitProperties
        <4> QED
          BY <1>3, <1>10, <4>1 DEF AddedAt
      <3>2. W[b][d] = IF d \in D /\ b = held[k] THEN Plus(bufs[c].workers[b][d], <<residual[c], s>>)
                                                ELSE bufs[c].workers[b][d]
        BY <1>1, <1>2, <1>3, <1>4, <1>6
      <3>3. d \in D => s \notin CommittedIn(c, b, d)
        BY <3>1 DEF CommittedIn
      <3>4. CASE d \in D /\ b = held[k]
        <4>1. Plus(TermsOf(c, CommittedIn(c, b, d)), <<residual[c], s>>)
                = TermsOf(c, CommittedIn(c, b, d) \cup {s})
          BY <3>3, <3>4, PlusTerms
        <4> QED
          BY <2>1, <3>1, <3>2, <3>4, <4>1
      <3>5. CASE ~(d \in D /\ b = held[k])
        BY <2>1, <3>1, <3>2, <3>5
      <3> QED
        BY <3>4, <3>5
    <2>4. ASSUME NEW b \in DOMAIN bufs'[c].workers, NEW d \in Dofs
          PROVE  bufs'[c].workers[b][d] = TermsOf(c, CommittedIn(c, b, d))'
      <3>1. b \in DOMAIN bufs[c].workers /\ bufs'[c].workers[b] = W[b]
        BY <1>6, <1>8, <2>4
      <3> QED
        BY <2>2, <2>3, <3>1 DEF TermsOf
    <2> QED
      BY <1>1, <1>8, <1>11, <2>1, <2>4 DEF SumInv, callerVars
  <1>14. DOMAIN bufs'[c].workers = DOMAIN bufs[c].workers
    BY <1>6, <1>8
  <1> QED
    BY <1>1, <1>9, <1>10, <1>11, <1>12, <1>13, <1>14, AddInv

-----------------------------------------------------------------------------
(* The invariant and what follows from it. *)

LEMMA NextInv == ASSUME IInv, Next PROVE IInv'
  <1>1. ASSUME NEW c \in Callers, CallerStep(c) PROVE IInv'
    BY <1>1, RejectShapeInv, ApplyInv, JoinOkInv, JoinErrInv, JoinPanicInv, PutStepInv
       DEF CallerStep
  <1>2. ASSUME NEW k \in Tasks, SkipTask(k) PROVE IInv'
    BY <1>2, SkipTaskInv DEF Tasks
  <1>3. ASSUME NEW w \in Workers, NEW k \in Tasks,
               StartTask(w, k) \/ SolveStep(w, k) \/ ScatterStep(w, k)
        PROVE  IInv'
    <2>1. PICK c \in Callers, s \in Subdomains : k = <<c, s>>
      BY DEF Tasks
    <2>2. CASE StartTask(w, k)
      BY <2>1, <2>2, StartTaskInv
    <2>3. CASE SolveStep(w, k)
      BY <2>1, <2>3, SolveOkInv, SolveErrInv, SolvePanicInv DEF SolveStep
    <2>4. CASE ScatterStep(w, k)
      BY <2>1, <2>4, LoadInv, ExchangeOkInv, ExchangeRetryInv, AddPrivateInv, FinishTaskInv
         DEF ScatterStep
    <2> QED
      BY <1>3, <2>2, <2>3, <2>4
  <1> QED
    BY <1>1, <1>2, <1>3 DEF Next

LEMMA StutterInv == ASSUME IInv, UNCHANGED vars PROVE IInv'
  <1> USE DEF vars, callerVars, bufferVars, taskVars
  <1>1. TypeOK' /\ PoolClean'
    BY DEF IInv, TypeOK, PoolClean
  <1>2. ASSUME NEW c \in Callers PROVE CallerInv(c)'
    BY UntouchedInv DEF IInv, Untouched
  <1> QED
    BY <1>1, <1>2 DEF IInv

LEMMA InvariantHolds == Spec => []IInv
  <1>1. Init => IInv
    BY InitInv
  <1>2. IInv /\ [Next]_vars => IInv'
    BY NextInv, StutterInv
  <1> QED
    BY <1>1, <1>2, PTL DEF Spec

(* Types, and the bound on the pool that BufferPool::put keeps. *)
THEOREM TypesAndPoolBound == Spec => []TypeOK
  <1>1. IInv => TypeOK
    BY DEF IInv
  <1> QED
    BY <1>1, InvariantHolds, PTL

(* Whatever an apply did, failed or panicked, what BufferPool hands to the *)
(* next one is zero.                                                       *)
THEOREM PoolStaysClean == Spec => []PoolClean
  <1>1. IInv => PoolClean
    BY DEF IInv
  <1> QED
    BY <1>1, InvariantHolds, PTL

(* A successful SchwarzPreconditioner::apply is exactly the additive sum,  *)
(* for any number of concurrent applies, workers, overlaps and strategies. *)
THEOREM SuccessIsSum == Spec => []OkIsSum
  <1>1. IInv => OkIsSum
    BY DEF IInv, CallerInv, ResultInv, OkIsSum
  <1> QED
    BY <1>1, InvariantHolds, PTL

(* No apply, successful or not, leaves a partial sum in its output. *)
THEOREM NoPartialOutput == Spec => []NoPartialResult
  <1>1. IInv => NoPartialResult
    BY DEF IInv, CallerInv, ResultInv, NoPartialResult
  <1> QED
    BY <1>1, InvariantHolds, PTL

-----------------------------------------------------------------------------
(***************************************************************************)
(* The worker buffers of an apply do not pile up in the pool.  A buffer is *)
(* allocated only by a worker that has none to spare, when no buffer is    *)
(* shared; so the buffers a worker keeps and those its frames hold are     *)
(* together never more than its frames can be deep, and all buffers of a   *)
(* call are with some worker when another one is made.                     *)
(***************************************************************************)

Bound == Cardinality(Workers) * MaxDepth

(* A running task is on one frame of one worker, and only it is.  *)
FramesInv ==
  /\ \A w \in Workers : Len(frames[w]) <= MaxDepth
  /\ \A w \in Workers : \A i \in DOMAIN frames[w] : task[frames[w][i]] \in Running
  /\ \A v, w \in Workers : \A i \in DOMAIN frames[v], j \in DOMAIN frames[w] :
       frames[v][i] = frames[w][j] => v = w /\ i = j
  /\ \A k \in Tasks : task[k] \in Running =>
       \E w \in Workers : \E i \in DOMAIN frames[w] : frames[w][i] = k

(* The buffers that the tasks of c on a stack of frames hold. *)
HeldBy(stackOfFrames, holds, c) ==
  {holds[stackOfFrames[i]] : i \in {j \in DOMAIN stackOfFrames : stackOfFrames[j][1] = c}}

(* The buffers of c's apply that w keeps or works with. *)
Mine(c, w) == stack[c][w] \cup HeldBy(frames[w], held, c)

FewInv ==
  \A c \in Callers, w \in Workers :
    IsFiniteSet(Mine(c, w)) /\ Cardinality(Mine(c, w)) <= MaxDepth

(* A panic loses a buffer, which is then made again: but that call's       *)
(* buffers never go back to the pool.                                      *)
LengthInv ==
  \A c \in Callers : pc[c] = "put" \/ PanickedOf(c) = {} =>
    \A b \in DOMAIN bufs[c].workers : b <= Bound

PoolInv == \A i \in DOMAIN pool : \A b \in DOMAIN pool[i].workers : b <= Bound

BoundsInv == FramesInv /\ FewInv /\ LengthInv /\ PoolInv

-----------------------------------------------------------------------------
(* Counting. *)

(* What many sets of at most D elements cover is at most their number      *)
(* times D.                                                                *)
LEMMA CoverBound ==
  ASSUME NEW W, IsFiniteSet(W), NEW D \in Nat, NEW n \in Nat,
         NEW U, \A w \in W : IsFiniteSet(U[w]) /\ Cardinality(U[w]) <= D,
         \A b \in 1 .. n : \E w \in W : b \in U[w]
  PROVE  n <= Cardinality(W) * D
  <1> DEFINE Owner(b) == CHOOSE w \in W : b \in U[w]
             List(w) == CHOOSE g : g \in Bijection(1 .. Cardinality(U[w]), U[w])
             Rank(b) == CHOOSE i \in 1 .. Cardinality(U[Owner(b)]) : List(Owner(b))[i] = b
             F == [b \in 1 .. n |-> <<Owner(b), Rank(b)>>]
  <1>1. \A b \in 1 .. n : Owner(b) \in W /\ b \in U[Owner(b)]
    OBVIOUS
  <1>2. ASSUME NEW w \in W
        PROVE  /\ Cardinality(U[w]) \in Nat
               /\ List(w) \in Bijection(1 .. Cardinality(U[w]), U[w])
    BY FS_CardinalityType DEF ExistsBijection
  <1> HIDE DEF Owner, List
  <1>3. ASSUME NEW b \in 1 .. n
        PROVE  Rank(b) \in 1 .. D /\ List(Owner(b))[Rank(b)] = b
    <2>1. \E i \in 1 .. Cardinality(U[Owner(b)]) : List(Owner(b))[i] = b
      BY <1>1, <1>2 DEF Bijection, Surjection
    <2>2. /\ Rank(b) \in 1 .. Cardinality(U[Owner(b)])
          /\ List(Owner(b))[Rank(b)] = b
      BY <2>1
    <2> QED
      BY <1>1, <1>2, <2>2
  <1> HIDE DEF Rank
  <1>4. F \in Injection(1 .. n, W \X (1 .. D))
    <2>1. F \in [1 .. n -> W \X (1 .. D)]
      BY <1>1, <1>3
    <2>2. \A a, b \in 1 .. n : F[a] = F[b] => a = b
      BY <1>3
    <2> QED
      BY <2>1, <2>2 DEF Injection, IsInjective
  <1>5. /\ IsFiniteSet(1 .. D) /\ Cardinality(1 .. D) = D
        /\ Cardinality(1 .. n) = n
    BY FS_Interval
  <1>6. /\ IsFiniteSet(W \X (1 .. D))
        /\ Cardinality(W \X (1 .. D)) = Cardinality(W) * D
    BY <1>5, FS_Product
  <1> QED
    BY <1>4, <1>5, <1>6, FS_Injection

LEMMA BoundType == Cardinality(Workers) \in Nat \ {0} /\ Bound \in Nat \ {0}
  <1>1. Cardinality(Workers) \in Nat \ {0}
    BY SchwarzAssumption, FS_CardinalityType, FS_EmptySet
  <1>2. \A m, n \in Nat \ {0} : m * n \in Nat \ {0}
    OBVIOUS
  <1> QED
    BY <1>1, <1>2, SchwarzAssumption DEF Bound

(* Each frame holds one buffer. *)
LEMMA HeldByBound ==
  ASSUME NEW q \in Seq(Tasks), NEW h, NEW c
  PROVE  IsFiniteSet(HeldBy(q, h, c)) /\ Cardinality(HeldBy(q, h, c)) <= Len(q)
  <1> DEFINE J == {j \in DOMAIN q : q[j][1] = c}
             f == [i \in J |-> h[q[i]]]
  <1>1. IsFiniteSet(J) /\ Cardinality(J) \in Nat /\ Cardinality(J) <= Len(q)
    <2>1. DOMAIN q = 1 .. Len(q) /\ Len(q) \in Nat
      OBVIOUS
    <2>2. IsFiniteSet(1 .. Len(q)) /\ Cardinality(1 .. Len(q)) = Len(q)
      <3>1. 1 \in Int /\ Len(q) \in Int /\ (1 > Len(q) => Len(q) = 0)
        BY ONLY <2>1
      <3>2. /\ IsFiniteSet(1 .. Len(q))
            /\ Cardinality(1 .. Len(q)) = IF 1 > Len(q) THEN 0 ELSE Len(q) - 1 + 1
        BY ONLY <3>1, FS_Interval
      <3> QED
        BY ONLY <2>1, <3>1, <3>2
    <2> QED
      BY <2>1, <2>2, FS_Subset, FS_CardinalityType
  <1>2. f \in Surjection(J, HeldBy(q, h, c))
    BY DEF Surjection, HeldBy
  <1>3. /\ IsFiniteSet(HeldBy(q, h, c))
        /\ Cardinality(HeldBy(q, h, c)) <= Cardinality(J)
    BY <1>1, <1>2, FS_Surjection
  <1>4. Cardinality(HeldBy(q, h, c)) \in Nat
    BY <1>3, FS_CardinalityType
  <1> QED
    BY <1>1, <1>3, <1>4

-----------------------------------------------------------------------------
(* What a step does to the frames: nothing, a push or a pop. *)

Quiet ==
  /\ UNCHANGED frames
  /\ \A k \in Tasks : /\ task'[k] \in Running <=> task[k] \in Running
                      /\ task[k] \in Running => held'[k] = held[k]
  /\ \A c \in Callers, w \in Workers : stack'[c][w] \subseteq stack[c][w]

Ends(w, k) ==
  /\ Runs(w, k) /\ Pop(w)
  /\ task[k] \in Running /\ task'[k] \notin Running
  /\ \A j \in Tasks : j # k => task'[j] = task[j]
  /\ UNCHANGED held
  /\ \A c \in Callers, v \in Workers :
       stack'[c][v] \subseteq stack[c][v] \cup (IF c = k[1] /\ v = w THEN {held[k]} ELSE {})

(* A caller leaves an apply when none of its tasks runs. *)
LEMMA ReturnQuiet ==
  ASSUME IInv, NEW c \in Callers, \A s \in Subdomains : task[<<c, s>>] \in Finished,
         Return(c), \A o \in Callers, w \in Workers : stack'[o][w] \subseteq stack[o][w]
  PROVE  Quiet
  <1>1. \A k \in Tasks : k[1] = c => task[k] \notin Running
    BY DEF Tasks, Running, Finished
  <1> QED
    BY <1>1 DEF Return, Quiet, Running

LEMMA CallerQuiet ==
  ASSUME IInv, NEW c \in Callers, CallerStep(c)
  PROVE  Quiet
  <1>1. CASE RejectShape(c) \/ Apply(c) \/ JoinErr(c) \/ JoinOk(c)
    <2>1. UNCHANGED taskVars
      BY <1>1 DEF RejectShape, Apply, JoinErr, JoinOk
    <2>2. \A o \in Callers, w \in Workers : stack'[o][w] \subseteq stack[o][w]
      BY <1>1, DropStacksType DEF RejectShape, Apply, JoinErr, JoinOk, bufferVars
    <2> QED
      BY <2>1, <2>2 DEF Quiet, taskVars
  <1>2. CASE JoinPanic(c)
    <2>1. \A o \in Callers, w \in Workers : stack'[o][w] \subseteq stack[o][w]
      BY <1>2, DropStacksType DEF JoinPanic
    <2> QED
      BY <1>2, <2>1, ReturnQuiet DEF JoinPanic, SweepOver
  <1>3. CASE Put(c)
    <2>1. \A s \in Subdomains : task[<<c, s>>] \in Finished
      BY <1>3 DEF Put, IInv, CallerInv, PutInv
    <2> QED
      BY <1>3, <2>1, ReturnQuiet DEF Put
  <1> QED
    BY <1>1, <1>2, <1>3 DEF CallerStep

LEMMA SkipQuiet ==
  ASSUME IInv, NEW k \in Tasks, SkipTask(k)
  PROVE  Quiet
  BY DEF SkipTask, Quiet, Running, IInv, TypeOK, bufferVars

LEMMA RunQuiet ==
  ASSUME IInv, NEW w \in Workers, NEW k \in Tasks,
         SolveOk(w, k) \/ Load(w, k) \/ ExchangeOk(w, k) \/ ExchangeRetry(w, k) \/ AddPrivate(w, k)
  PROVE  Quiet
  <1>1. UNCHANGED <<frames, held, stack>>
    BY DEF SolveOk, Load, ExchangeOk, ExchangeRetry, AddPrivate, bufferVars
  <1>2. \A j \in Tasks : task'[j] \in Running <=> task[j] \in Running
    <2>1. CASE SolveOk(w, k)
      BY <2>1 DEF SolveOk, Running, IInv, TypeOK
    <2>2. CASE UNCHANGED task
      BY <2>2
    <2> QED
      BY <2>1, <2>2 DEF Load, ExchangeOk, ExchangeRetry, AddPrivate
  <1> QED
    BY <1>1, <1>2 DEF Quiet

LEMMA EndingEnds ==
  ASSUME IInv, NEW w \in Workers, NEW c \in Callers, NEW s \in Subdomains,
         \/ SolveErr(w, <<c, s>>)
         \/ SolvePanic(w, <<c, s>>)
         \/ FinishTask(w, <<c, s>>)
  PROVE  Ends(w, <<c, s>>)
  <1> DEFINE k == <<c, s>>
  <1>1. k \in Tasks
    BY DEF Tasks
  <1>2. Runs(w, k) /\ Pop(w) /\ task[k] \in Running /\ UNCHANGED held
    BY DEF SolveErr, SolvePanic, FinishTask, Scatters, Running
  <1>3. task'[k] \notin Running /\ \A j \in Tasks : j # k => task'[j] = task[j]
    BY <1>1 DEF SolveErr, SolvePanic, FinishTask, Running, IInv, TypeOK
  <1>4. \/ stack' = [stack EXCEPT ![c][w] = @ \cup {held[k]}]
        \/ UNCHANGED stack
    BY DEF SolveErr, SolvePanic, FinishTask, ReleaseBuffer, bufferVars
  <1>5. \A o \in Callers, v \in Workers :
          stack'[o][v] \subseteq stack[o][v] \cup (IF o = c /\ v = w THEN {held[k]} ELSE {})
    <2>1. stack \in [Callers -> [Workers -> SUBSET Nat]]
      BY DEF IInv, TypeOK
    <2>2. CASE stack' = [stack EXCEPT ![c][w] = @ \cup {held[k]}]
      <3>1. \A o \in Callers : stack'[o] = IF o = c THEN [stack[c] EXCEPT ![w] = @ \cup {held[k]}]
                                                    ELSE stack[o]
        BY <2>1, <2>2
      <3>2. \A v \in Workers : [stack[c] EXCEPT ![w] = @ \cup {held[k]}][v] =
                                 IF v = w THEN stack[c][w] \cup {held[k]} ELSE stack[c][v]
        BY <2>1
      <3> QED
        BY <3>1, <3>2
    <2> QED
      BY <1>4, <2>2
  <1> QED
    BY <1>2, <1>3, <1>5 DEF Ends

LEMMA StepKinds ==
  ASSUME IInv, Next
  PROVE  \/ Quiet
         \/ \E w \in Workers, k \in Tasks : StartTask(w, k)
         \/ \E w \in Workers, k \in Tasks : Ends(w, k)
  <1>1. ASSUME NEW w \in Workers, NEW k \in Tasks, SolveStep(w, k) \/ ScatterStep(w, k)
        PROVE  Quiet \/ Ends(w, k)
    <2>1. PICK c \in Callers, s \in Subdomains : k = <<c, s>>
      BY DEF Tasks
    <2> QED
      BY <1>1, <2>1, RunQuiet, EndingEnds DEF SolveStep, ScatterStep
  <1> QED
    BY <1>1, CallerQuiet, SkipQuiet DEF Next

-----------------------------------------------------------------------------
(* Frames. *)

(* Popping takes the top frame off and leaves the others in place. *)
LEMMA PopFrames ==
  ASSUME TypeOK, NEW w \in Workers, NEW k \in Tasks, Runs(w, k), Pop(w)
  PROVE  /\ frames[w] \in Seq(Tasks) /\ Len(frames[w]) \in DOMAIN frames[w]
         /\ frames[w][Len(frames[w])] = k
         /\ frames'[w] \in Seq(Tasks)
         /\ DOMAIN frames'[w] = DOMAIN frames[w] \ {Len(frames[w])}
         /\ Len(frames'[w]) = Len(frames[w]) - 1
         /\ \A i \in DOMAIN frames'[w] : frames'[w][i] = frames[w][i]
         /\ \A v \in Workers : v # w => frames'[v] = frames[v]
  <1>1. frames[w] \in Seq(Tasks) /\ frames[w] # <<>>
    BY DEF TypeOK, Runs
  <1>2. Len(frames[w]) \in Nat \ {0} /\ DOMAIN frames[w] = 1 .. Len(frames[w])
    BY <1>1
  <1>3. frames[w][Len(frames[w])] = k
    BY DEF Runs, Top
  <1>4. frames'[w] = SubSeq(frames[w], 1, Len(frames[w]) - 1)
    BY DEF Pop, TypeOK
  <1>5. /\ frames'[w] \in Seq(Tasks)
        /\ Len(frames'[w]) = Len(frames[w]) - 1
        /\ \A i \in 1 .. Len(frames[w]) - 1 : frames'[w][i] = frames[w][i]
    BY <1>1, <1>2, <1>4
  <1>6. DOMAIN frames'[w] = 1 .. Len(frames[w]) - 1
    BY <1>2, <1>5
  <1>7. DOMAIN frames'[w] = DOMAIN frames[w] \ {Len(frames[w])}
    BY <1>2, <1>6
  <1>8. \A v \in Workers : v # w => frames'[v] = frames[v]
    BY DEF Pop, TypeOK
  <1>9. Len(frames[w]) \in DOMAIN frames[w]
    BY <1>2
  <1>10. \A i \in DOMAIN frames'[w] : frames'[w][i] = frames[w][i]
    BY <1>5, <1>6
  <1> QED
    BY <1>1, <1>3, <1>5, <1>7, <1>8, <1>9, <1>10

(* Starting a task puts one more frame on top, within the depth. *)
LEMMA PushFrames ==
  ASSUME TypeOK, NEW w \in Workers, NEW k \in Tasks, StartTask(w, k)
  PROVE  /\ frames[w] \in Seq(Tasks)
         /\ frames'[w] \in Seq(Tasks)
         /\ DOMAIN frames[w] = 1 .. Len(frames[w]) /\ Len(frames[w]) \in Nat
         /\ DOMAIN frames'[w] = 1 .. Len(frames[w]) + 1
         /\ Len(frames'[w]) = Len(frames[w]) + 1
         /\ frames'[w][Len(frames[w]) + 1] = k
         /\ \A i \in DOMAIN frames[w] : frames'[w][i] = frames[w][i]
         /\ \A v \in Workers : v # w => frames'[v] = frames[v]
         /\ Len(frames'[w]) <= MaxDepth
  <1>1. frames[w] \in Seq(Tasks)
    BY DEF TypeOK
  <1>2. frames'[w] = Append(frames[w], k) /\ \A v \in Workers : v # w => frames'[v] = frames[v]
    BY DEF StartTask, Push, TypeOK
  <1>3. /\ frames'[w] \in Seq(Tasks) /\ Len(frames'[w]) = Len(frames[w]) + 1
        /\ \A i \in 1 .. Len(frames[w]) : frames'[w][i] = frames[w][i]
        /\ frames'[w][Len(frames[w]) + 1] = k
    BY <1>1, <1>2, AppendProperties
  <1>4. DOMAIN frames[w] = 1 .. Len(frames[w]) /\ Len(frames[w]) \in Nat
    BY <1>1
  <1>5. DOMAIN frames'[w] = 1 .. Len(frames[w]) + 1
    BY <1>3
  <1>6. Len(frames[w]) < MaxDepth
    <2>1. CASE frames[w] = <<>>
      BY <2>1, SchwarzAssumption
    <2> QED
      BY <2>1 DEF StartTask, MayTake
  <1> QED
    BY <1>1, <1>2, <1>3, <1>4, <1>5, <1>6, SchwarzAssumption

(* What StartTask does to the tasks. *)
LEMMA StartTaskProperties ==
  ASSUME TypeOK, NEW w \in Workers, NEW k \in Tasks, StartTask(w, k)
  PROVE  /\ task[k] = "todo" /\ task'[k] \in Running
         /\ \A j \in Tasks : j # k => task'[j] = task[j] /\ held'[j] = held[j]
         /\ pc[k[1]] = "sweep" /\ UNCHANGED <<pool, pc>>
         /\ AcquireBuffer(w, k[1], held'[k])
  BY DEF StartTask, TypeOK, Running, callerVars

LEMMA FramesStep ==
  ASSUME IInv, FramesInv, Next
  PROVE  FramesInv'
  <1>1. TypeOK
    BY DEF IInv
  <1>2. \A w \in Workers : frames[w] \in Seq(Tasks)
    BY <1>1 DEF TypeOK
  <1>3. \A w \in Workers : \A i \in DOMAIN frames[w] : frames[w][i] \in Tasks
    BY <1>2
  <1>4. CASE Quiet
    BY <1>3, <1>4 DEF FramesInv, Quiet
  <1>5. ASSUME NEW w \in Workers, NEW k \in Tasks, StartTask(w, k) PROVE FramesInv'
    <2>1. \A v \in Workers : \A i \in DOMAIN frames[v] : frames[v][i] # k
      BY <1>1, <1>5, StartTaskProperties DEF FramesInv, Running
    <2>2. \A v \in Workers : \A i \in DOMAIN frames'[v] :
            \/ i \in DOMAIN frames[v] /\ frames'[v][i] = frames[v][i]
            \/ v = w /\ i = Len(frames[w]) + 1 /\ frames'[v][i] = k
      BY <1>1, <1>5, PushFrames
    <2>3. \A v \in Workers : Len(frames'[v]) <= MaxDepth
      BY <1>1, <1>5, PushFrames DEF FramesInv
    <2>4. ASSUME NEW v \in Workers, NEW i \in DOMAIN frames'[v] PROVE task'[frames'[v][i]] \in Running
      BY <1>1, <1>3, <1>5, <2>1, <2>2, StartTaskProperties DEF FramesInv
    <2>5. ASSUME NEW u \in Workers, NEW v \in Workers, NEW i \in DOMAIN frames'[u],
                 NEW j \in DOMAIN frames'[v], frames'[u][i] = frames'[v][j]
          PROVE  u = v /\ i = j
      BY <2>1, <2>2, <2>5 DEF FramesInv
    <2>6. ASSUME NEW j \in Tasks, task'[j] \in Running
          PROVE  \E v \in Workers : \E i \in DOMAIN frames'[v] : frames'[v][i] = j
      <3>1. CASE j = k
        <4>1. Len(frames[w]) + 1 \in DOMAIN frames'[w] /\ frames'[w][Len(frames[w]) + 1] = k
          BY <1>1, <1>5, PushFrames
        <4> QED
          BY <3>1, <4>1
      <3>2. CASE j # k
        <4>1. PICK v \in Workers : \E i \in DOMAIN frames[v] : frames[v][i] = j
          BY <1>1, <1>5, <2>6, <3>2, StartTaskProperties DEF FramesInv
        <4>2. PICK i \in DOMAIN frames[v] : frames[v][i] = j
          BY <4>1
        <4>3. i \in DOMAIN frames'[v] /\ frames'[v][i] = j
          BY <1>1, <1>5, <4>2, PushFrames
        <4> QED
          BY <4>3
      <3> QED
        BY <3>1, <3>2
    <2> QED
      BY <2>3, <2>4, <2>5, <2>6 DEF FramesInv
  <1>6. ASSUME NEW w \in Workers, NEW k \in Tasks, Ends(w, k) PROVE FramesInv'
    <2> DEFINE top == Len(frames[w])
    <2>0. Runs(w, k) /\ Pop(w)
      BY <1>6 DEF Ends
    <2>1. \A v \in Workers : \A i \in DOMAIN frames'[v] :
            /\ i \in DOMAIN frames[v] /\ frames'[v][i] = frames[v][i]
            /\ ~(v = w /\ i = top)
      BY <1>1, <2>0, PopFrames
    <2>2. top \in DOMAIN frames[w] /\ frames[w][top] = k
      BY <1>1, <2>0, PopFrames
    <2>3. \A v \in Workers : Len(frames'[v]) <= MaxDepth
      <3>1. Len(frames[w]) \in Nat /\ Len(frames[w]) <= MaxDepth
        BY <1>2 DEF FramesInv
      <3>2. Len(frames'[w]) <= MaxDepth
        BY <1>1, <2>0, <3>1, PopFrames, SchwarzAssumption
      <3> QED
        BY <1>1, <2>0, <3>2, PopFrames DEF FramesInv
    <2>4. ASSUME NEW v \in Workers, NEW i \in DOMAIN frames'[v] PROVE task'[frames'[v][i]] \in Running
      <3>1. frames[v][i] # k
        BY <2>1, <2>2 DEF FramesInv
      <3> QED
        BY <1>3, <1>6, <2>1, <3>1 DEF FramesInv, Ends
    <2>5. \A u, v \in Workers : \A i \in DOMAIN frames'[u], j \in DOMAIN frames'[v] :
            frames'[u][i] = frames'[v][j] => u = v /\ i = j
      BY <2>1 DEF FramesInv
    <2>6. ASSUME NEW j \in Tasks, task'[j] \in Running
          PROVE  \E v \in Workers : \E i \in DOMAIN frames'[v] : frames'[v][i] = j
      <3>1. j # k /\ task[j] \in Running
        BY <1>6, <2>6 DEF Ends
      <3>2. PICK v \in Workers : \E i \in DOMAIN frames[v] : frames[v][i] = j
        BY <3>1 DEF FramesInv
      <3>3. PICK i \in DOMAIN frames[v] : frames[v][i] = j
        BY <3>2
      <3>4. ~(v = w /\ i = top)
        BY <2>2, <3>1, <3>3
      <3>5. i \in DOMAIN frames'[v] /\ frames'[v][i] = j
        BY <1>1, <2>0, <3>3, <3>4, PopFrames
      <3> QED
        BY <3>5
    <2> QED
      BY <2>3, <2>4, <2>5, <2>6 DEF FramesInv
  <1> QED
    BY <1>4, <1>5, <1>6, StepKinds

-----------------------------------------------------------------------------
(* Buffers with a worker. *)

LEMMA FewerInv ==
  ASSUME NEW S, IsFiniteSet(S), Cardinality(S) <= MaxDepth, NEW T \in SUBSET S
  PROVE  IsFiniteSet(T) /\ Cardinality(T) <= MaxDepth
  <1>1. IsFiniteSet(T) /\ Cardinality(T) <= Cardinality(S)
    BY FS_Subset
  <1>2. Cardinality(S) \in Nat /\ Cardinality(T) \in Nat
    BY <1>1, FS_CardinalityType
  <1> QED
    BY <1>1, <1>2, SchwarzAssumption

LEMMA FewStep ==
  ASSUME IInv, FramesInv, FramesInv', TypeOK', FewInv, Next
  PROVE  FewInv'
  <1>1. TypeOK
    BY DEF IInv
  <1>2. \A w \in Workers : \A i \in DOMAIN frames[w] : frames[w][i] \in Tasks /\ task[frames[w][i]] \in Running
    <2>1. \A w \in Workers : frames[w] \in Seq(Tasks)
      BY <1>1 DEF TypeOK
    <2> QED
      BY <2>1 DEF FramesInv
  <1>3. CASE Quiet
    <2>1. ASSUME NEW c \in Callers, NEW w \in Workers
          PROVE  HeldBy(frames'[w], held', c) \subseteq HeldBy(frames[w], held, c)
      BY <1>2, <1>3 DEF Quiet, HeldBy
    <2>2. ASSUME NEW c \in Callers, NEW w \in Workers PROVE Mine(c, w)' \subseteq Mine(c, w)
      BY <1>3, <2>1 DEF Quiet, Mine
    <2> QED
      BY <2>2, FewerInv DEF FewInv
  <1>4. ASSUME NEW w \in Workers, NEW k \in Tasks, Ends(w, k) PROVE FewInv'
    <2>0. Runs(w, k) /\ Pop(w) /\ UNCHANGED held
      BY <1>4 DEF Ends
    <2>1. \A v \in Workers : \A i \in DOMAIN frames'[v] :
            i \in DOMAIN frames[v] /\ frames'[v][i] = frames[v][i]
      BY <1>1, <2>0, PopFrames
    <2>2. ASSUME NEW c \in Callers, NEW v \in Workers
          PROVE  HeldBy(frames'[v], held', c) \subseteq HeldBy(frames[v], held, c)
      BY <2>0, <2>1 DEF HeldBy
    <2>3. held[k] \in HeldBy(frames[w], held, k[1])
      BY <1>1, <2>0, PopFrames DEF HeldBy
    <2>4. ASSUME NEW c \in Callers, NEW v \in Workers PROVE Mine(c, v)' \subseteq Mine(c, v)
      BY <1>4, <2>2, <2>3 DEF Ends, Mine
    <2> QED
      BY <2>4, FewerInv DEF FewInv
  <1>5. ASSUME NEW w \in Workers, NEW k \in Tasks, StartTask(w, k) PROVE FewInv'
    <2> DEFINE b == held'[k]
    <2>1. PICK c \in Callers, s \in Subdomains : k = <<c, s>>
      BY DEF Tasks
    <2>2. AcquireBuffer(w, c, b) /\ \A j \in Tasks : j # k => held'[j] = held[j]
      BY <1>1, <1>5, <2>1, StartTaskProperties
    <2>3. \A v \in Workers : \A i \in DOMAIN frames[v] : frames[v][i] # k
      BY <1>1, <1>2, <1>5, StartTaskProperties DEF Running
    <2>4. \A v \in Workers : \A i \in DOMAIN frames'[v] :
            \/ i \in DOMAIN frames[v] /\ frames'[v][i] = frames[v][i]
            \/ v = w /\ frames'[v][i] = k
      BY <1>1, <1>5, PushFrames
    <2>5. ASSUME NEW o \in Callers, NEW v \in Workers
          PROVE  HeldBy(frames'[v], held', o) \subseteq
                   HeldBy(frames[v], held, o) \cup (IF o = c /\ v = w THEN {b} ELSE {})
      <3>1. SUFFICES ASSUME NEW i \in DOMAIN frames'[v], frames'[v][i][1] = o
                     PROVE  held'[frames'[v][i]] \in
                              HeldBy(frames[v], held, o) \cup (IF o = c /\ v = w THEN {b} ELSE {})
        BY DEF HeldBy
      <3>2. CASE i \in DOMAIN frames[v] /\ frames'[v][i] = frames[v][i]
        <4>1. held'[frames[v][i]] = held[frames[v][i]]
          BY <1>2, <2>2, <2>3, <3>2
        <4> QED
          BY <3>1, <3>2, <4>1 DEF HeldBy
      <3>3. CASE v = w /\ frames'[v][i] = k
        BY <2>1, <3>1, <3>3
      <3> QED
        BY <2>4, <3>2, <3>3
    <2>6. \A o \in Callers, v \in Workers :
            stack'[o][v] = IF o = c /\ v = w THEN stack[c][w] \ {b} ELSE stack[o][v]
      <3>1. stack \in [Callers -> [Workers -> SUBSET Nat]]
        BY <1>1 DEF TypeOK
      <3>2. CASE stack' = [stack EXCEPT ![c][w] = @ \ {b}]
        <4>1. \A o \in Callers : stack'[o] = IF o = c THEN [stack[c] EXCEPT ![w] = @ \ {b}] ELSE stack[o]
          BY <3>1, <3>2
        <4>2. \A v \in Workers : [stack[c] EXCEPT ![w] = @ \ {b}][v] =
                                   IF v = w THEN stack[c][w] \ {b} ELSE stack[c][v]
          BY <3>1
        <4> QED
          BY <4>1, <4>2
      <3>3. CASE stack[c][w] = {} /\ UNCHANGED stack
        BY <3>3
      <3> QED
        BY <2>2, <3>2, <3>3 DEF AcquireBuffer
    <2>7. ASSUME NEW o \in Callers, NEW v \in Workers, ~(o = c /\ v = w)
          PROVE  IsFiniteSet(Mine(o, v)') /\ Cardinality(Mine(o, v)') <= MaxDepth
      <3>1. Mine(o, v)' \subseteq Mine(o, v)
        BY <2>5, <2>6, <2>7 DEF Mine
      <3> QED
        BY <3>1, FewerInv DEF FewInv
    <2>8. IsFiniteSet(Mine(c, w)') /\ Cardinality(Mine(c, w)') <= MaxDepth
      <3>1. CASE b \in stack[c][w]
        <4>1. Mine(c, w)' \subseteq Mine(c, w)
          BY <2>5, <2>6, <3>1 DEF Mine
        <4> QED
          BY <4>1, FewerInv DEF FewInv
      <3>2. CASE stack[c][w] = {}
        <4>1. Mine(c, w)' = HeldBy(frames'[w], held', c)
          BY <2>6, <3>2 DEF Mine
        <4>2. frames'[w] \in Seq(Tasks) /\ Len(frames'[w]) \in Nat /\ Len(frames'[w]) <= MaxDepth
          BY DEF TypeOK, FramesInv
        <4>3. /\ IsFiniteSet(HeldBy(frames'[w], held', c))
              /\ Cardinality(HeldBy(frames'[w], held', c)) <= Len(frames'[w])
          BY <4>2, HeldByBound
        <4>4. Cardinality(HeldBy(frames'[w], held', c)) \in Nat
          BY <4>3, FS_CardinalityType
        <4> QED
          BY <4>1, <4>2, <4>3, <4>4, SchwarzAssumption
      <3> QED
        BY <2>2, <3>1, <3>2 DEF AcquireBuffer
    <2> QED
      BY <2>7, <2>8 DEF FewInv
  <1> QED
    BY <1>3, <1>4, <1>5, StepKinds

-----------------------------------------------------------------------------
(* Buffers of a call. *)

(* With nothing shared and nothing lost, every buffer is with a worker. *)
AllMineInv ==
  \A c \in Callers : pc[c] = "sweep" /\ shared[c] = {} /\ PanickedOf(c) = {} =>
    \A b \in DOMAIN bufs[c].workers : b <= Bound

LEMMA AllMine == IInv /\ FramesInv /\ FewInv => AllMineInv
  <1> SUFFICES ASSUME IInv, FramesInv, FewInv,
                      NEW c \in Callers, pc[c] = "sweep", shared[c] = {}, PanickedOf(c) = {}
               PROVE  \A b \in DOMAIN bufs[c].workers : b <= Bound
    BY DEF AllMineInv
  <1> DEFINE n == Len(bufs[c].workers)
             U == [w \in Workers |-> Mine(c, w)]
  <1>1. n \in Nat /\ DOMAIN bufs[c].workers = 1 .. n
    BY DEF IInv, TypeOK, Buffers
  <1>2. ASSUME NEW b \in 1 .. n PROVE \E w \in Workers : b \in U[w]
    <2>1. CASE b \in IntoPool(c)
      BY <2>1 DEF IntoPool, Mine
    <2>2. CASE b \notin IntoPool(c)
      <3>1. PICK s \in Subdomains : /\ task[<<c, s>>] \in Running \cup {"panicked"}
                                    /\ held[<<c, s>>] = b
        BY <1>1, <2>2 DEF IInv, CallerInv, OwnershipInv
      <3>2. <<c, s>> \in Tasks /\ task[<<c, s>>] \in Running
        BY <3>1 DEF PanickedOf, Tasks
      <3>3. PICK w \in Workers : \E i \in DOMAIN frames[w] : frames[w][i] = <<c, s>>
        BY <3>2 DEF FramesInv
      <3>4. b \in HeldBy(frames[w], held, c)
        BY <3>1, <3>3 DEF HeldBy
      <3> QED
        BY <3>4 DEF Mine
    <2> QED
      BY <2>1, <2>2
  <1>3. \A w \in Workers : IsFiniteSet(U[w]) /\ Cardinality(U[w]) <= MaxDepth
    BY DEF FewInv
  <1> HIDE DEF U, n
  <1>4. n <= Bound
    BY <1>1, <1>2, <1>3, CoverBound, SchwarzAssumption DEF Bound
  <1> QED
    BY <1>1, <1>4, BoundType

LEMMA AllMineNext == (IInv /\ FramesInv /\ FewInv => AllMineInv)'
  BY AllMine, PTL

(* take hands out no more buffers than a pooled one has. *)
LEMMA TakeShort ==
  ASSUME IInv, PoolInv, NEW c \in Callers, NEW st \in Strategies, TakeBuffers(c, st)
  PROVE  /\ PoolInv'
         /\ \A b \in DOMAIN bufs'[c].workers : b <= Bound
         /\ \A o \in Callers : o # c => bufs'[o] = bufs[o]
  <1>1. bufs \in [Callers -> Buffers] /\ pool \in Seq(Buffers)
    BY DEF IInv, TypeOK
  <1>2. CASE bufs' = [bufs EXCEPT ![c] = NewBuffers(st)] /\ UNCHANGED pool
    <2>1. \A b \in DOMAIN NewBuffers(st).workers : b = 1
      BY DEF NewBuffers
    <2>2. 1 <= Bound
      BY BoundType
    <2> QED
      BY <1>1, <1>2, <2>1, <2>2 DEF PoolInv
  <1>3. ASSUME NEW i \in Matching(st), bufs' = [bufs EXCEPT ![c] = pool[i]],
               pool' = SwapRemove(pool, i)
        PROVE  /\ PoolInv'
               /\ \A b \in DOMAIN bufs'[c].workers : b <= Bound
               /\ \A o \in Callers : o # c => bufs'[o] = bufs[o]
    <2>1. i \in DOMAIN pool
      BY DEF Matching
    <2>2. \A j \in DOMAIN pool' : \E q \in DOMAIN pool : pool'[j] = pool[q]
      BY <1>1, <1>3, <2>1, SwapRemoveProperties
    <2> QED
      BY <1>1, <1>3, <2>1, <2>2 DEF PoolInv
  <1> QED
    BY <1>2, <1>3 DEF TakeBuffers

(* A call whose buffers neither grow in number nor lose their meaning. *)
LEMMA SameLength ==
  ASSUME LengthInv, NEW c \in Callers,
         DOMAIN bufs'[c].workers = DOMAIN bufs[c].workers,
         pc'[c] = "put" \/ PanickedOf(c)' = {} => pc[c] = "put" \/ PanickedOf(c) = {}
  PROVE  pc'[c] = "put" \/ PanickedOf(c)' = {} => \A b \in DOMAIN bufs'[c].workers : b <= Bound
  BY DEF LengthInv

LEMMA CallerLength ==
  ASSUME IInv, LengthInv, PoolInv, NEW c \in Callers, CallerStep(c)
  PROVE  LengthInv' /\ PoolInv'
  <1> USE DEF IInv, TypeOK
  <1>1. CASE RejectShape(c)
    <2>1. UNCHANGED <<bufs, pc, pool, task>>
      BY <1>1 DEF RejectShape, bufferVars, taskVars
    <2> QED
      BY <2>1 DEF LengthInv, PoolInv, PanickedOf
  <1>2. CASE Apply(c)
    <2>1. PICK p \in Plans : TakeBuffers(c, p.strategy)
      BY <1>2 DEF Apply
    <2>2. p.strategy \in Strategies
      BY SchwarzAssumption
    <2>3. /\ PoolInv'
          /\ \A b \in DOMAIN bufs'[c].workers : b <= Bound
          /\ \A o \in Callers : o # c => bufs'[o] = bufs[o]
      BY <2>1, <2>2, TakeShort
    <2>4. \A o \in Callers : PanickedOf(o)' = PanickedOf(o) /\ (o # c => pc'[o] = pc[o])
      BY <1>2 DEF Apply, taskVars, PanickedOf
    <2> QED
      BY <2>3, <2>4 DEF LengthInv
  <1>3. CASE JoinOk(c) \/ JoinErr(c)
    <2>1. pc[c] = "sweep" /\ SweepOver(c) /\ PanickedOf(c) = {} /\ UNCHANGED <<pool, task>>
      BY <1>3 DEF JoinOk, JoinErr, taskVars
    <2>2. IntoPool(c) = DOMAIN bufs[c].workers
      BY <2>1, JoinedAll
    <2>3. /\ DOMAIN bufs'[c].workers = IntoPool(c)
          /\ \A o \in Callers : o # c => bufs'[o] = bufs[o] /\ pc'[o] = pc[o]
      <3>1. CASE JoinOk(c)
        BY <3>1 DEF JoinOk, Buffers
      <3>2. CASE JoinErr(c)
        BY <3>2 DEF JoinErr, Buffers
      <3> QED
        BY <1>3, <3>1, <3>2
    <2>4. \A o \in Callers : PanickedOf(o)' = PanickedOf(o)
      BY <2>1 DEF PanickedOf
    <2> QED
      BY <2>1, <2>2, <2>3, <2>4 DEF LengthInv, PoolInv
  <1>4. ASSUME Return(c) PROVE LengthInv'
    <2>1. DOMAIN bufs'[c].workers = {} /\ \A o \in Callers : o # c => bufs'[o] = bufs[o]
      BY <1>4 DEF Return, NoBuffers, NewBuffers
    <2>2. \A o \in Callers : o # c => PanickedOf(o)' = PanickedOf(o) /\ pc'[o] = pc[o]
      BY <1>4 DEF Return, PanickedOf, Tasks
    <2> QED
      BY <2>1, <2>2 DEF LengthInv
  <1>5. CASE JoinPanic(c)
    BY <1>4, <1>5 DEF JoinPanic, PoolInv
  <1>6. CASE Put(c)
    <2>1. LengthInv'
      BY <1>4, <1>6 DEF Put
    <2>2. PoolInv'
      <3>1. CASE pool' = pool
        BY <3>1 DEF PoolInv
      <3>2. CASE pool' = Append(pool, bufs[c])
        <4>1. \A b \in DOMAIN bufs[c].workers : b <= Bound
          BY <1>6 DEF Put, LengthInv
        <4>2. \A i \in DOMAIN pool' : pool'[i] = bufs[c] \/ (i \in DOMAIN pool /\ pool'[i] = pool[i])
          <5>1. pool \in Seq(Buffers) /\ bufs[c] \in Buffers
            OBVIOUS
          <5> HIDE DEF IInv, TypeOK
          <5>2. DOMAIN pool = 1..Len(pool) /\ Len(pool) \in Nat
            BY <5>1
          <5>3. /\ Append(pool, bufs[c]) \in Seq(Buffers)
                /\ Len(Append(pool, bufs[c])) = Len(pool) + 1
                /\ \A i \in 1..Len(pool) : Append(pool, bufs[c])[i] = pool[i]
                /\ Append(pool, bufs[c])[Len(pool) + 1] = bufs[c]
            BY ONLY <5>1, AppendProperties
          <5>4. DOMAIN Append(pool, bufs[c]) = 1..Len(pool) + 1
            BY ONLY <5>1, <5>2, <5>3
          <5> QED
            BY ONLY <3>2, <5>2, <5>3, <5>4
        <4> QED
          BY <4>1, <4>2 DEF PoolInv
      <3> QED
        BY <1>6, <3>1, <3>2 DEF Put
    <2> QED
      BY <2>1, <2>2
  <1> QED
    BY <1>1, <1>2, <1>3, <1>5, <1>6 DEF CallerStep

(* Only StartTask allocates, and only when all buffers are with a worker.  *)
LEMMA StartTaskLength ==
  ASSUME IInv, LengthInv, IInv', FramesInv', FewInv',
         NEW w \in Workers, NEW k \in Tasks, StartTask(w, k)
  PROVE  LengthInv'
  <1> USE DEF IInv
  <1>1. PICK c \in Callers, s \in Subdomains : k = <<c, s>>
    BY DEF Tasks
  <1> DEFINE b == held'[k]
  <1>2. /\ task[k] = "todo" /\ task'[k] \in Running
        /\ \A j \in Tasks : j # k => task'[j] = task[j]
        /\ pc[c] = "sweep" /\ UNCHANGED pc
        /\ AcquireBuffer(w, c, b)
    BY <1>1, StartTaskProperties
  <1>3. \A o \in Callers : PanickedOf(o)' = PanickedOf(o)
    BY <1>2 DEF PanickedOf, Tasks, Running
  <1>4. \A o \in Callers : o # c => bufs'[o] = bufs[o]
    BY <1>2, AcquireProperties
  <1>5. CASE UNCHANGED bufs
    BY <1>2, <1>3, <1>5 DEF LengthInv
  <1>6. CASE shared[c] = {} /\ UNCHANGED shared
    <2>1. pc'[c] = "sweep" /\ shared'[c] = {}
      BY <1>2, <1>6
    <2>2. AllMineInv'
      BY AllMineNext
    <2>3. PanickedOf(c)' = {} => \A i \in DOMAIN bufs'[c].workers : i <= Bound'
      BY <2>1, <2>2 DEF AllMineInv, Bound
    <2> QED
      BY <1>2, <1>3, <1>4, <2>1, <2>3 DEF LengthInv, Bound
  <1> QED
    BY <1>2, <1>5, <1>6 DEF AcquireBuffer

LEMMA WorkerLength ==
  ASSUME IInv, LengthInv, NEW k \in Tasks,
         \/ SkipTask(k)
         \/ \E w \in Workers : SolveStep(w, k) \/ ScatterStep(w, k)
  PROVE  LengthInv'
  <1>1. TypeOK
    BY DEF IInv
  <1>2. \A c \in Callers : DOMAIN bufs'[c].workers = DOMAIN bufs[c].workers
    <2>1. CASE UNCHANGED bufs
      BY <2>1
    <2>2. ASSUME NEW w \in Workers, ExchangeOk(w, k)
          PROVE  \A c \in Callers : DOMAIN bufs'[c].workers = DOMAIN bufs[c].workers
      <3>1. \A c \in Callers : bufs'[c].workers = bufs[c].workers
        BY <1>1, <2>2 DEF ExchangeOk, TypeOK, Buffers
      <3> QED
        BY <3>1
    <2>3. ASSUME NEW w \in Workers, AddPrivate(w, k)
          PROVE  \A c \in Callers : DOMAIN bufs'[c].workers = DOMAIN bufs[c].workers
      BY <1>1, <2>3 DEF AddPrivate, TypeOK, Buffers
    <2> QED
      BY <2>1, <2>2, <2>3 DEF SkipTask, SolveStep, SolveOk, SolveErr, SolvePanic, ScatterStep, Load,
         ExchangeRetry, FinishTask, bufferVars
  <1>3. UNCHANGED pc
    BY DEF SkipTask, SolveStep, SolveOk, SolveErr, SolvePanic, ScatterStep, Load, ExchangeOk,
       ExchangeRetry, AddPrivate, FinishTask, callerVars
  <1>4. \A j \in Tasks : task[j] = "panicked" => task'[j] = "panicked"
    <2>1. CASE SkipTask(k)
      BY <1>1, <2>1 DEF SkipTask, TypeOK
    <2>2. ASSUME NEW w \in Workers, SolveStep(w, k)
          PROVE  \A j \in Tasks : task[j] = "panicked" => task'[j] = "panicked"
      BY <1>1, <2>2 DEF SolveStep, SolveOk, SolveErr, SolvePanic, TypeOK
    <2>3. ASSUME NEW w \in Workers, FinishTask(w, k)
          PROVE  \A j \in Tasks : task[j] = "panicked" => task'[j] = "panicked"
      BY <1>1, <2>3 DEF FinishTask, Scatters, TypeOK
    <2>4. CASE UNCHANGED task
      BY <2>4
    <2> QED
      BY <2>1, <2>2, <2>3, <2>4 DEF ScatterStep, Load, ExchangeOk, ExchangeRetry, AddPrivate
  <1>5. \A c \in Callers : PanickedOf(c) \subseteq PanickedOf(c)'
    BY <1>4 DEF PanickedOf, Tasks
  <1>6. ASSUME NEW c \in Callers
        PROVE  pc'[c] = "put" \/ PanickedOf(c)' = {} => \A b \in DOMAIN bufs'[c].workers : b <= Bound
    BY <1>2, <1>3, <1>5, SameLength
  <1> QED
    BY <1>6 DEF LengthInv

-----------------------------------------------------------------------------
(* The invariant and the bound. *)

LEMMA BoundsInit == ASSUME Init PROVE BoundsInv
  <1>1. IInv
    BY InitInv
  <1>2. FramesInv
    BY SchwarzAssumption DEF Init, FramesInv, Running
  <1>3. FewInv
    <2>1. ASSUME NEW c \in Callers, NEW w \in Workers PROVE Mine(c, w) = {}
      BY DEF Init, Mine, HeldBy
    <2> QED
      BY <2>1, FS_EmptySet, SchwarzAssumption DEF FewInv
  <1>4. LengthInv
    BY DEF Init, LengthInv, NoBuffers, NewBuffers
  <1>5. PoolInv
    BY DEF Init, PoolInv
  <1> QED
    BY <1>2, <1>3, <1>4, <1>5 DEF BoundsInv

LEMMA BoundsStep == ASSUME IInv, IInv', BoundsInv, Next PROVE BoundsInv'
  <1> USE DEF BoundsInv
  <1>1. FramesInv'
    BY FramesStep
  <1>2. FewInv'
    BY <1>1, FewStep DEF IInv
  <1>3. ASSUME NEW k \in Tasks,
               \/ SkipTask(k)
               \/ \E w \in Workers : StartTask(w, k) \/ SolveStep(w, k) \/ ScatterStep(w, k)
        PROVE  LengthInv' /\ PoolInv'
    <2>1. LengthInv'
      BY <1>1, <1>2, <1>3, StartTaskLength, WorkerLength
    <2>2. UNCHANGED pool
      BY <1>3 DEF SkipTask, StartTask, SolveStep, SolveOk, SolveErr, SolvePanic, ScatterStep, Load,
         ExchangeOk, ExchangeRetry, AddPrivate, FinishTask
    <2> QED
      BY <2>1, <2>2 DEF PoolInv
  <1>4. LengthInv' /\ PoolInv'
    BY <1>3, CallerLength DEF Next
  <1> QED
    BY <1>1, <1>2, <1>4

LEMMA BoundsStutter == ASSUME BoundsInv, UNCHANGED vars PROVE BoundsInv'
  <1> USE DEF vars, callerVars, bufferVars, taskVars
  <1>1. FramesInv'
    BY DEF BoundsInv, FramesInv
  <1>2. FewInv'
    BY DEF BoundsInv, FewInv, Mine, HeldBy
  <1>3. LengthInv' /\ PoolInv'
    BY DEF BoundsInv, LengthInv, PoolInv, PanickedOf
  <1> QED
    BY <1>1, <1>2, <1>3 DEF BoundsInv

LEMMA BoundsHold == Spec => []BoundsInv
  <1>1. Init => BoundsInv
    BY BoundsInit
  <1>2. IInv /\ IInv' /\ BoundsInv /\ [Next]_vars => BoundsInv'
    BY BoundsStep, BoundsStutter
  <1> QED
    BY <1>1, <1>2, InvariantHolds, PTL DEF Spec

(* A buffer that BufferPool keeps has at most one worker buffer for each   *)
(* worker and level of re-entry, whatever number of applies has used it,   *)
(* failed ones among them and tasks stolen by waiting workers included.    *)
THEOREM WorkerBuffersStayBounded == Spec => []WorkerBuffersBounded
  <1>1. IInv /\ BoundsInv => WorkerBuffersBounded
    <2> SUFFICES ASSUME IInv, BoundsInv, NEW i \in DOMAIN pool
                 PROVE  Len(pool[i].workers) <= Bound
      BY DEF WorkerBuffersBounded, Bound
    <2>1. pool[i].workers \in Seq(Vectors)
      <3>1. pool \in Seq(Buffers)
        BY DEF IInv, TypeOK
      <3>2. pool[i] \in Buffers
        BY <3>1
      <3> QED
        BY <3>2 DEF Buffers
    <2>2. \A b \in DOMAIN pool[i].workers : b <= Bound
      BY DEF BoundsInv, PoolInv
    <2>3. CASE Len(pool[i].workers) = 0
      BY <2>3, BoundType
    <2>4. CASE Len(pool[i].workers) # 0
      <3>1. Len(pool[i].workers) \in DOMAIN pool[i].workers
        BY <2>1, <2>4
      <3> QED
        BY <2>2, <3>1
    <2> QED
      BY <2>3, <2>4
  <1> QED
    BY <1>1, BoundsHold, InvariantHolds, PTL

(* A worker never has more frames than re-entry is deep, and no task runs  *)
(* on two of them.                                                         *)
THEOREM TasksRunOnce == Spec => []FramesInv
  <1>1. BoundsInv => FramesInv
    BY DEF BoundsInv
  <1> QED
    BY <1>1, BoundsHold, PTL

-----------------------------------------------------------------------------
(***************************************************************************)
(* SchwarzApply implements AdditiveSchwarz: every step of a caller or of a *)
(* worker is a step of the abstract preconditioner, for the caller it      *)
(* belongs to, or cannot be seen.  The inductive invariant of              *)
(* SchwarzApplyProofs says that the vector a join writes is M^-1 r and     *)
(* that a running task belongs to a caller still waiting for its answer.   *)
(***************************************************************************)

(* The mapped variables. *)
Busy == {c \in Callers : pc[c] # "idle"}
Faulty == [c \in Callers |-> FaultyOf(c)]

(* A caller that puts its buffers back has been answered. *)
Answered == \A c \in Callers : pc[c] = "put" => result[c] # "pending"

-----------------------------------------------------------------------------
(* The answer precedes the put. *)

(* A worker's step leaves the callers' variables alone. *)
LEMMA WorkersLeaveCallers ==
  ASSUME NEW k \in Tasks,
         \/ SkipTask(k)
         \/ \E w \in Workers : StartTask(w, k) \/ SolveStep(w, k) \/ ScatterStep(w, k)
  PROVE  UNCHANGED callerVars
  <1>1. CASE SkipTask(k)
    BY <1>1 DEF SkipTask
  <1>2. ASSUME NEW w \in Workers, StartTask(w, k) PROVE UNCHANGED callerVars
    BY <1>2 DEF StartTask
  <1>3. ASSUME NEW w \in Workers, SolveStep(w, k) PROVE UNCHANGED callerVars
    BY <1>3 DEF SolveStep, SolveOk, SolveErr, SolvePanic
  <1>4. ASSUME NEW w \in Workers, ScatterStep(w, k) PROVE UNCHANGED callerVars
    BY <1>4 DEF ScatterStep, Load, ExchangeOk, ExchangeRetry, AddPrivate, FinishTask
  <1> QED
    BY <1>1, <1>2, <1>3, <1>4

LEMMA AnsweredStep ==
  ASSUME TypeOK, Answered, [Next]_vars
  PROVE  Answered'
  <1> USE DEF TypeOK, Answered
  <1>1. ASSUME NEW c \in Callers, RejectShape(c) PROVE Answered'
    BY <1>1 DEF RejectShape
  <1>2. ASSUME NEW c \in Callers, Apply(c) PROVE Answered'
    BY <1>2 DEF Apply
  <1>3. ASSUME NEW c \in Callers, JoinOk(c) PROVE Answered'
    BY <1>3 DEF JoinOk
  <1>4. ASSUME NEW c \in Callers, JoinErr(c) PROVE Answered'
    <2>1. PICK s \in FailedOf(c) : result' = [result EXCEPT ![c] = s]
      BY <1>4 DEF JoinErr
    <2>2. s # "pending"
      BY SchwarzAssumption DEF FailedOf
    <2> QED
      BY <1>4, <2>1, <2>2 DEF JoinErr
  <1>5. ASSUME NEW c \in Callers, JoinPanic(c) PROVE Answered'
    BY <1>5 DEF JoinPanic, Return
  <1>6. ASSUME NEW c \in Callers, Put(c) PROVE Answered'
    BY <1>6 DEF Put, Return
  <1>7. CASE UNCHANGED callerVars
    BY <1>7 DEF callerVars
  <1> QED
    BY <1>1, <1>2, <1>3, <1>4, <1>5, <1>6, <1>7, WorkersLeaveCallers DEF Next, CallerStep, vars

LEMMA AlwaysAnswered == Spec => []Answered
  <1>1. Init => Answered
    BY DEF Init, Answered
  <1>2. TypeOK /\ Answered /\ [Next]_vars => Answered'
    BY AnsweredStep
  <1> QED
    BY <1>1, <1>2, TypesAndPoolBound, PTL DEF Spec

-----------------------------------------------------------------------------
(* Steps of a caller. *)

(* What a step does not do to the tasks it does not do to the faults. *)
LEMMA SameFaults == ASSUME UNCHANGED task PROVE Faulty' = Faulty
  BY DEF Faulty, FaultyOf, FailedOf, PanickedOf

LEMMA RejectShapeRefines ==
  ASSUME IInv, NEW c \in Callers, RejectShape(c)
  PROVE  AS!Reject(c)
  <1> USE DEF RejectShape, taskVars
  <1>1. c \notin Busy /\ Busy' = Busy
    BY DEF Busy
  <1>2. Faulty' = Faulty
    BY SameFaults
  <1> QED
    BY <1>1, <1>2 DEF AS!Reject, Busy, Faulty

LEMMA ApplyRefines ==
  ASSUME IInv, NEW c \in Callers, Apply(c)
  PROVE  AS!Call(c)
  <1> USE DEF Apply, taskVars
  <1>1. c \notin Busy /\ Busy' = Busy \cup {c}
    BY DEF Busy, IInv, TypeOK
  <1>2. Faulty' = Faulty
    BY SameFaults
  <1> QED
    BY <1>1, <1>2 DEF AS!Call, Busy, Faulty

(* JoinedSum is what makes a good join a success. *)
LEMMA JoinOkRefines ==
  ASSUME IInv, NEW c \in Callers, JoinOk(c)
  PROVE  AS!Succeed(c)
  <1> USE DEF JoinOk, taskVars
  <1>1. c \in Busy /\ Busy' = Busy
    BY DEF Busy, IInv, TypeOK
  <1>2. Faulty' = Faulty /\ Faulty[c] = {}
    BY SameFaults DEF Faulty, FaultyOf
  <1>3. result[c] = "pending"
    BY DEF IInv, CallerInv, SumInv
  <1>4. z' = [z EXCEPT ![c] = MInv(residual[c])]
    BY JoinedSum
  <1> QED
    BY <1>1, <1>2, <1>3, <1>4 DEF AS!Succeed, Busy, Faulty

LEMMA JoinErrRefines ==
  ASSUME IInv, NEW c \in Callers, JoinErr(c)
  PROVE  AS!Fail(c)
  <1> USE DEF JoinErr, taskVars
  <1>1. c \in Busy /\ Busy' = Busy
    BY DEF Busy, IInv, TypeOK
  <1>2. Faulty' = Faulty /\ FailedOf(c) \subseteq Faulty[c]
    BY SameFaults DEF Faulty, FaultyOf
  <1>3. result[c] = "pending"
    BY DEF IInv, CallerInv, SumInv
  <1>4. z' = [z EXCEPT ![c] = z[c]] \/ z' = [z EXCEPT ![c] = Zero]
    BY DEF IInv, TypeOK
  <1> QED
    BY <1>1, <1>2, <1>3, <1>4 DEF AS!Fail, Busy, Faulty

(* The tasks of a call go with its frame, and their faults with them. *)
LEMMA ReturnClears ==
  ASSUME IInv, NEW c \in Callers, pc[c] # "idle", Return(c)
  PROVE  /\ c \in Busy /\ Busy' = Busy \ {c}
         /\ Faulty' = [Faulty EXCEPT ![c] = {}]
  <1> USE DEF Return
  <1>1. c \in Busy /\ Busy' = Busy \ {c}
    BY DEF Busy, IInv, TypeOK
  <1>2. \A o \in Callers, s \in Subdomains :
          task'[<<o, s>>] = IF o = c THEN "todo" ELSE task[<<o, s>>]
    BY DEF Tasks
  <1>3. \A o \in Callers : FaultyOf(o)' = IF o = c THEN {} ELSE FaultyOf(o)
    BY <1>2 DEF FaultyOf, FailedOf, PanickedOf
  <1> QED
    BY <1>1, <1>3 DEF Faulty

LEMMA JoinPanicRefines ==
  ASSUME IInv, NEW c \in Callers, JoinPanic(c)
  PROVE  AS!Return(c)
  <1> USE DEF JoinPanic
  <1>1. /\ c \in Busy /\ Busy' = Busy \ {c}
        /\ Faulty' = [Faulty EXCEPT ![c] = {}]
    BY ReturnClears
  <1>2. Faulty[c] # {}
    BY DEF Faulty, FaultyOf
  <1>3. result[c] = "pending"
    BY DEF IInv, CallerInv, SumInv
  <1> QED
    BY <1>1, <1>2, <1>3 DEF AS!Return, Return, Busy, Faulty

LEMMA PutRefines ==
  ASSUME IInv, Answered, NEW c \in Callers, Put(c)
  PROVE  AS!Return(c)
  <1> USE DEF Put
  <1>1. /\ c \in Busy /\ Busy' = Busy \ {c}
        /\ Faulty' = [Faulty EXCEPT ![c] = {}]
    BY ReturnClears
  <1>2. result[c] # "pending"
    BY DEF Answered
  <1> QED
    BY <1>1, <1>2 DEF AS!Return, Return, Busy, Faulty

-----------------------------------------------------------------------------
(* Steps of a worker. *)

(* A task that neither begins nor stops to be faulty cannot be seen. *)
LEMMA Unseen ==
  ASSUME UNCHANGED callerVars,
         \A k \in Tasks : task'[k] # task[k] =>
           {task[k], task'[k]} \cap {"failed", "panicked"} = {}
  PROVE  UNCHANGED <<Busy, residual, Faulty, z, result>>
  <1>1. \A c \in Callers : FaultyOf(c)' = FaultyOf(c)
    BY DEF FaultyOf, FailedOf, PanickedOf, Tasks
  <1> QED
    BY <1>1 DEF Faulty, Busy, callerVars

LEMMA StartTaskRefines ==
  ASSUME IInv, NEW w \in Workers, NEW k \in Tasks, StartTask(w, k)
  PROVE  UNCHANGED <<Busy, residual, Faulty, z, result>>
  <1>1. \A j \in Tasks : j # k => task'[j] = task[j]
    BY DEF StartTask, IInv, TypeOK
  <1>2. task[k] = "todo" /\ task'[k] \in Running
    BY DEF StartTask, IInv, TypeOK, Running
  <1>3. UNCHANGED callerVars
    BY WorkersLeaveCallers
  <1> QED
    BY <1>1, <1>2, <1>3, Unseen DEF Running

LEMMA SkipTaskRefines ==
  ASSUME IInv, NEW k \in Tasks, SkipTask(k)
  PROVE  UNCHANGED <<Busy, residual, Faulty, z, result>>
  <1>1. \A j \in Tasks : j # k => task'[j] = task[j]
    BY DEF SkipTask, IInv, TypeOK
  <1>2. task[k] = "todo" /\ task'[k] = "skipped"
    BY DEF SkipTask, IInv, TypeOK
  <1>3. UNCHANGED callerVars
    BY WorkersLeaveCallers
  <1> QED
    BY <1>1, <1>2, <1>3, Unseen

LEMMA ScatterStepRefines ==
  ASSUME IInv, NEW w \in Workers, NEW k \in Tasks, SolveOk(w, k) \/ ScatterStep(w, k)
  PROVE  UNCHANGED <<Busy, residual, Faulty, z, result>>
  <1>1. /\ \A j \in Tasks : j # k => task'[j] = task[j]
        /\ task'[k] # task[k] => task[k] \in Running /\ task'[k] \in {"scatter", "done"}
    <2>1. CASE SolveOk(w, k)
      BY <2>1 DEF SolveOk, IInv, TypeOK, Running
    <2>2. CASE FinishTask(w, k)
      BY <2>2 DEF FinishTask, Scatters, IInv, TypeOK, Running
    <2>3. CASE Load(w, k) \/ ExchangeOk(w, k) \/ ExchangeRetry(w, k) \/ AddPrivate(w, k)
      <3>1. UNCHANGED task
        BY <2>3 DEF Load, ExchangeOk, ExchangeRetry, AddPrivate
      <3> QED
        BY <3>1
    <2> QED
      BY <2>1, <2>2, <2>3 DEF ScatterStep
  <1>2. UNCHANGED callerVars
    BY WorkersLeaveCallers DEF SolveStep
  <1> QED
    BY <1>1, <1>2, Unseen DEF Running

(* A local solve that fails or panics is a fault of a caller that waits. *)
LEMMA FaultRefines ==
  ASSUME IInv, NEW w \in Workers, NEW c \in Callers, NEW s \in Subdomains,
         SolveErr(w, <<c, s>>) \/ SolvePanic(w, <<c, s>>)
  PROVE  AS!Fault(c, s)
  <1> DEFINE k == <<c, s>>
  <1>1. k \in Tasks /\ task[k] = "solve" /\ UNCHANGED callerVars
    BY WorkersLeaveCallers DEF SolveErr, SolvePanic, SolveStep, Tasks
  <1>2. pc[c] = "sweep"
    BY <1>1, SweepingInv DEF Running
  <1>3. /\ \A j \in Tasks : j # k => task'[j] = task[j]
        /\ task'[k] \in {"failed", "panicked"}
    BY <1>1 DEF SolveErr, SolvePanic, IInv, TypeOK
  <1>4. \A o \in Callers : FaultyOf(o)' = IF o = c THEN FaultyOf(c) \cup {s} ELSE FaultyOf(o)
    <2>1. ASSUME NEW o \in Callers, o # c PROVE FaultyOf(o)' = FaultyOf(o)
      BY <1>3, <2>1 DEF FaultyOf, FailedOf, PanickedOf, Tasks
    <2>2. FaultyOf(c)' = FaultyOf(c) \cup {s}
      <3>1. \A q \in Subdomains : <<c, q>> \in Tasks /\ (<<c, q>> = k <=> q = s)
        BY DEF Tasks
      <3> QED
        BY <1>1, <1>3, <3>1 DEF FaultyOf, FailedOf, PanickedOf
    <2> QED
      BY <2>1, <2>2
  <1>5. Faulty' = [Faulty EXCEPT ![c] = @ \cup {s}]
    BY <1>4 DEF Faulty
  <1>6. c \in Busy /\ Busy' = Busy
    BY <1>1, <1>2 DEF Busy, callerVars
  <1>7. result[c] = "pending"
    BY <1>2 DEF IInv, CallerInv, SumInv
  <1> QED
    BY <1>1, <1>5, <1>6, <1>7 DEF AS!Fault, Busy, Faulty, callerVars

-----------------------------------------------------------------------------
(* The refinement. *)

LEMMA InitRefines == Init => AS!Init
  <1> SUFFICES ASSUME Init PROVE AS!Init
    OBVIOUS
  <1>1. Busy = {}
    BY DEF Init, Busy
  <1>2. Faulty = [c \in Callers |-> {}]
    BY DEF Init, Faulty, FaultyOf, FailedOf, PanickedOf, Tasks
  <1> QED
    BY <1>1, <1>2 DEF Init, AS!Init, Busy, Faulty

LEMMA StepRefines ==
  ASSUME IInv, Answered, [Next]_vars
  PROVE  [AS!Next]_<<Busy, residual, Faulty, z, result>>
  <1> DEFINE Seen == <<Busy, residual, Faulty, z, result>>
  <1>1. ASSUME NEW c \in Callers, CallerStep(c) PROVE AS!Next
    BY <1>1, RejectShapeRefines, ApplyRefines, JoinOkRefines, JoinErrRefines,
       JoinPanicRefines, PutRefines DEF CallerStep, AS!Next
  <1>2. ASSUME NEW k \in Tasks, SkipTask(k) PROVE UNCHANGED Seen
    BY <1>2, SkipTaskRefines
  <1>3. ASSUME NEW w \in Workers, NEW k \in Tasks,
               StartTask(w, k) \/ SolveStep(w, k) \/ ScatterStep(w, k)
        PROVE  AS!Next \/ UNCHANGED Seen
    <2>1. CASE StartTask(w, k)
      BY <2>1, StartTaskRefines
    <2>2. CASE SolveOk(w, k) \/ ScatterStep(w, k)
      BY <2>2, ScatterStepRefines
    <2>3. CASE SolveErr(w, k) \/ SolvePanic(w, k)
      <3>1. PICK c \in Callers, s \in Subdomains : k = <<c, s>>
        BY DEF Tasks
      <3>2. AS!Fault(c, s)
        BY <2>3, <3>1, FaultRefines
      <3> QED
        BY <3>2 DEF AS!Next
    <2> QED
      BY <1>3, <2>1, <2>2, <2>3 DEF SolveStep
  <1>4. CASE UNCHANGED vars
    <2>1. UNCHANGED callerVars /\ UNCHANGED task
      BY <1>4 DEF vars, taskVars
    <2> QED
      BY <2>1, Unseen
  <1> QED
    BY <1>1, <1>2, <1>3, <1>4 DEF Next

(* Concurrent applies on one SchwarzPreconditioner and its clones cannot   *)
(* be told from isolated ones, for any number of callers, workers,         *)
(* subdomains and plans: each returns the whole sum or the error of one of *)
(* its own subdomains, whatever the pool, the buffer stacks and the racing *)
(* scatters do.                                                            *)
THEOREM AppliesAreIsolated == Spec => ImplementsAdditiveSchwarz
  <1>1. Init => AS!Init
    BY InitRefines
  <1>2. IInv /\ Answered /\ [Next]_vars => [AS!Next]_AS!vars
    BY StepRefines DEF AS!vars, Busy, Faulty
  <1> QED
    BY <1>1, <1>2, InvariantHolds, AlwaysAnswered, PTL
       DEF Spec, ImplementsAdditiveSchwarz, AS!Spec
=============================================================================

--------------------------- MODULE RknpuJob_proofs ---------------------------
(***************************************************************************)
(* Theorems about RknpuJob, for any number of cores and jobs and any       *)
(* submissions: type correctness, no lost kick, and one queue order.       *)
(***************************************************************************)
EXTENDS RknpuJob, FiniteSetTheorems, TLAPS

\* Core 0 exists: the position a thread's "at" is reset to.
LEMMA ZeroIsCore == 0 \in Cores
  BY ConstantsAssumption DEF Cores

\* A core mask is a finite set, so use_core_num and the counters set from it are
\* numbers.
LEMMA MaskCardinality == \A m \in SUBSET Cores : Cardinality(m) \in Nat
<1>1. IsFiniteSet(Cores)
  BY ConstantsAssumption, FS_Interval DEF Cores
<1>2. QED
  BY <1>1, FS_Subset, FS_CardinalityType

-----------------------------------------------------------------------------
(* Type correctness *)

\* Every initial state is type correct.
LEMMA TypeInit == Init => TypeOK
<1> SUFFICES ASSUME Init
             PROVE  TypeOK
  OBVIOUS
<1>1. args \in [Jobs -> SubmitArgs]
  BY ConstantsAssumption DEF Init
<1>2. mask \in [Jobs -> SUBSET Cores]
  BY <1>1 DEF Init, SubmitArgs
<1>3. todo \in [Cores -> Seq(Jobs)]
  BY DEF Init
<1>4. at \in [Threads -> Cores]
  BY ZeroIsCore DEF Init
<1>5. pc \in [Jobs -> PcValues]
  BY DEF Init, PcValues
<1>6. /\ done \in [Jobs -> BOOLEAN] /\ work \in [Jobs -> BOOLEAN]
      /\ soft_reseting \in BOOLEAN
  BY DEF Init
<1>7. /\ submit_count \in [Jobs -> [Cores -> Nat]]
      /\ ran \in [Jobs -> [Cores -> Nat]]
  BY DEF Init
<1>8. /\ ijob \in [Cores -> Jobs \cup {NoJob}]
      /\ irq \in [Cores -> IrqValues]
      /\ \A c \in Cores : irq[c] = "idle" <=> ijob[c] = NoJob
  BY DEF Init, IrqValues
<1>9. QED
  BY <1>1, <1>2, <1>3, <1>4, <1>5, <1>6, <1>7, <1>8 DEF Init, TypeOK

\* The submitter's steps before the job is queued.
LEMMA TypeSubmit ==
  ASSUME TypeOK, NEW j \in Jobs,
         SubmitFails(j) \/ Submit(j) \/ CleanNothing(j) \/ PickCore(j) \/ Enqueue(j)
  PROVE  TypeOK'
<1>1. CASE SubmitFails(j)
  BY <1>1 DEF SubmitFails, TypeOK, PcValues, subcore, counts, result, alloc, dispatch,
              handler, device
<1>2. CASE Submit(j)
  <2>1. Cardinality(mask[j]) \in Int
    BY MaskCardinality DEF TypeOK
  <2>2. QED
    BY <1>2, <2>1 DEF Submit, TypeOK, PcValues, subcore, dispatch, handler, device
<1>3. CASE CleanNothing(j)
  BY <1>3 DEF CleanNothing, TypeOK, PcValues, subcore, counts, result, alloc, dispatch,
              handler, device
<1>4. CASE PickCore(j)
  BY <1>4 DEF PickCore, TypeOK, PcValues, subcore, result, alloc, dispatch, handler, device
<1>5. CASE Enqueue(j)
  <2>1. \A c \in Cores : TaskNumber(j, c) \in Int
    BY DEF TypeOK, TaskNumber, SubmitArgs
  <2>2. task_num' \in [Cores -> Int]
    BY <1>5, <2>1 DEF Enqueue, TypeOK
  <2>3. todo' \in [Cores -> Seq(Jobs)]
    BY <1>5 DEF Enqueue, TypeOK
  <2>4. next' \in [Threads -> SUBSET Cores] /\ pc' \in [Jobs -> PcValues]
    BY <1>5 DEF Enqueue, TypeOK, PcValues, Threads
  <2>5. QED
    BY <1>5, <2>2, <2>3, <2>4
    DEF Enqueue, TypeOK, counts, result, alloc, handler, device
<1>6. QED
  BY <1>1, <1>2, <1>3, <1>4, <1>5

\* The submitter's steps after the job is queued, and the clean-up.
LEMMA TypeReturn ==
  ASSUME TypeOK, NEW j \in Jobs,
         \/ Scheduled(j) \/ WaitSleeps(j) \/ WaitEnds(j) \/ WaitSucceeds(j) \/ Returns(j)
         \/ CleanupWork(j)
  PROVE  TypeOK'
<1>1. CASE Scheduled(j)
  BY <1>1 DEF Scheduled, TypeOK, PcValues, subcore, counts, result, alloc, dispatch,
              handler, device
<1>2. CASE WaitSleeps(j)
  BY <1>2 DEF WaitSleeps, TypeOK, PcValues, subcore, counts, result, alloc, dispatch,
              handler, device
<1>3. CASE WaitEnds(j)
  BY <1>3 DEF WaitEnds, TypeOK, PcValues, subcore, counts, result, alloc, dispatch,
              handler, device
<1>4. CASE WaitSucceeds(j)
  BY <1>4 DEF WaitSucceeds, TypeOK, PcValues, subcore, counts, dispatch, handler, device
<1>5. CASE Returns(j)
  BY <1>5 DEF Returns, TypeOK, PcValues, subcore, counts, result, dispatch, handler, device
<1>6. CASE CleanupWork(j)
  BY <1>6 DEF CleanupWork, TypeOK, subcore, counts, result, dispatch, handler, device
<1>7. QED
  BY <1>1, <1>2, <1>3, <1>4, <1>5, <1>6

\* rknpu_job_next() and the commit loop.
LEMMA TypeDispatch ==
  ASSUME TypeOK, NEW t \in Threads, DispatchStep(t)
  PROVE  TypeOK'
<1>1. ASSUME NEW c \in Cores, JobNextReturns(t, c)
      PROVE  TypeOK'
  BY <1>1 DEF JobNextReturns, TypeOK, subcore, counts, result, alloc, handler, device
<1>2. ASSUME NEW c \in Cores, JobNextPops(t, c)
      PROVE  TypeOK'
  <2>1. Head(todo[c]) \in Jobs /\ Tail(todo[c]) \in Seq(Jobs)
    BY <1>2 DEF JobNextPops, NothingToStart, TypeOK
  <2>2. QED
    BY <1>2, <2>1 DEF JobNextPops, TypeOK, counts, result, alloc, handler, device
<1>3. ASSUME NEW c \in Cores, CommitCore(t, c)
      PROVE  TypeOK'
  <2>1. cur[t] \in Jobs
    BY <1>3 DEF CommitCore, TypeOK
  <2>2. /\ ret' \in [Jobs -> {"OK", "EINVAL", "ETIMEDOUT"}]
        /\ hw' \in [Cores -> Jobs \cup {NoJob}]
        /\ line' \in [Cores -> {"low", "good", "bad"}]
        /\ int_mask' \in [Jobs -> SUBSET Cores]
    <3>1. CASE CommitFails(cur[t])
      BY <1>3, <2>1, <3>1 DEF CommitCore, TypeOK
    <3>2. CASE ~CommitFails(cur[t])
      <4>1. StartCore(cur[t], c) /\ UNCHANGED ret
        BY <1>3, <3>2 DEF CommitCore
      <4>2. QED
        BY <2>1, <4>1 DEF StartCore, TypeOK
    <3>3. QED
      BY <3>1, <3>2
  <2>3. com' \in [Threads -> SUBSET Cores] /\ cur' \in [Threads -> Jobs \cup {NoJob}]
    BY <1>3, <2>1 DEF CommitCore, TypeOK
  <2>4. QED
    BY <1>3, <2>2, <2>3 DEF CommitCore, TypeOK, subcore, counts, alloc, handler
<1>4. CASE JobNextCounts(t)
  <2>1. cur[t] \in Jobs
    BY <1>4 DEF JobNextCounts, TypeOK
  <2>2. \A m \in SUBSET Cores : CommitCores(m) \in SUBSET Cores
    BY DEF CommitCores
  <2>3. com' \in [Threads -> SUBSET Cores] /\ cur' \in [Threads -> Jobs \cup {NoJob}]
    BY <1>4, <2>1, <2>2 DEF JobNextCounts, TypeOK
  <2>4. run_count' \in [Jobs -> Int] /\ at' \in [Threads -> Cores]
    BY <1>4, <2>1, ZeroIsCore DEF JobNextCounts, TypeOK
  <2>5. QED
    BY <1>4, <2>3, <2>4 DEF JobNextCounts, TypeOK, subcore, result, alloc, handler, device
<1>5. QED
  BY <1>1, <1>2, <1>3, <1>4 DEF DispatchStep

\* The hardware and the interrupt handler.
LEMMA TypeHandler ==
  ASSUME TypeOK, NEW c \in Cores, HwFinishes(c) \/ HandlerStep(c)
  PROVE  TypeOK'
<1>1. CASE HwFinishes(c)
  <2>1. hw[c] \in Jobs
    BY <1>1 DEF HwFinishes, TypeOK
  <2>2. ran' \in [Jobs -> [Cores -> Nat]]
    BY <1>1, <2>1 DEF HwFinishes, TypeOK
  <2>3. /\ hw' \in [Cores -> Jobs \cup {NoJob}]
        /\ line' \in [Cores -> {"low", "good", "bad"}]
    BY <1>1 DEF HwFinishes, TypeOK
  <2>4. QED
    BY <1>1, <2>2, <2>3 DEF HwFinishes, TypeOK, subcore, counts, result, alloc, dispatch, handler
<1>2. CASE IrqEnters(c)
  <2>1. irq_entry' \in [Jobs -> SUBSET Cores]
    BY <1>2 DEF IrqEnters, TypeOK
  <2>2. /\ irq' \in [Cores -> IrqValues] /\ ijob' \in [Cores -> Jobs \cup {NoJob}]
        /\ \A d \in Cores : irq'[d] = "idle" <=> ijob'[d] = NoJob
    BY <1>2 DEF IrqEnters, TypeOK, IrqValues
  <2>3. QED
    BY <1>2, <2>1, <2>2 DEF IrqEnters, TypeOK, subcore, counts, result, alloc, dispatch, device
<1>3. ASSUME irq[c] # "idle"
      PROVE  ijob[c] \in Jobs /\ c \in Threads
  BY <1>3 DEF TypeOK, Threads
<1>4. CASE DoneRecommits(c)
  <2>1. submit_count' \in [Jobs -> [Cores -> Nat]]
    BY <1>3, <1>4 DEF DoneRecommits, TypeOK
  <2>2. cur' \in [Threads -> Jobs \cup {NoJob}] /\ com' \in [Threads -> SUBSET Cores]
    BY <1>3, <1>4 DEF DoneRecommits, TypeOK
  <2>3. /\ irq' \in [Cores -> IrqValues] /\ ijob' \in [Cores -> Jobs \cup {NoJob}]
        /\ \A d \in Cores : irq'[d] = "idle" <=> ijob'[d] = NoJob
    BY <1>4 DEF DoneRecommits, TypeOK, IrqValues
  <2>4. line' \in [Cores -> {"low", "good", "bad"}]
    BY <1>4 DEF DoneRecommits, TypeOK
  <2>5. QED
    BY <1>4, <2>1, <2>2, <2>3, <2>4 DEF DoneRecommits, TypeOK, subcore, result, alloc
<1>5. CASE DoneLastSegment(c)
  <2>1. submit_count' \in [Jobs -> [Cores -> Nat]]
    BY <1>3, <1>5 DEF DoneLastSegment, TypeOK
  <2>2. /\ irq' \in [Cores -> IrqValues] /\ line' \in [Cores -> {"low", "good", "bad"}]
        /\ \A d \in Cores : irq'[d] = "idle" <=> ijob'[d] = NoJob
    BY <1>5 DEF DoneLastSegment, TypeOK, IrqValues
  <2>3. QED
    BY <1>5, <2>1, <2>2 DEF DoneLastSegment, TypeOK, subcore, result, alloc, dispatch
<1>6. CASE DoneRetires(c)
  <2>1. TaskNumber(ijob[c], c) \in Int
    BY <1>3, <1>6 DEF DoneRetires, TypeOK, TaskNumber, SubmitArgs
  <2>2. slot' \in [Cores -> Jobs \cup {NoJob}] /\ task_num' \in [Cores -> Int]
    BY <1>6, <2>1 DEF DoneRetires, TypeOK
  <2>3. /\ irq' \in [Cores -> IrqValues]
        /\ \A d \in Cores : irq'[d] = "idle" <=> ijob'[d] = NoJob
    BY <1>6 DEF DoneRetires, TypeOK, IrqValues
  <2>4. QED
    BY <1>6, <2>2, <2>3 DEF DoneRetires, TypeOK, counts, result, alloc, dispatch, device
<1>7. CASE DoneNotLastCore(c)
  <2>1. interrupt_count' \in [Jobs -> Int] /\ next' \in [Threads -> SUBSET Cores]
    BY <1>3, <1>7 DEF DoneNotLastCore, TypeOK
  <2>2. /\ irq' \in [Cores -> IrqValues] /\ ijob' \in [Cores -> Jobs \cup {NoJob}]
        /\ \A d \in Cores : irq'[d] = "idle" <=> ijob'[d] = NoJob
    BY <1>7 DEF DoneNotLastCore, TypeOK, IrqValues
  <2>3. QED
    BY <1>7, <2>1, <2>2 DEF DoneNotLastCore, TypeOK, subcore, result, alloc, device
<1>8. CASE DoneLastCore(c)
  <2>1. interrupt_count' \in [Jobs -> Int] /\ done' \in [Jobs -> BOOLEAN]
    BY <1>3, <1>8 DEF DoneLastCore, TypeOK
  <2>2. ret' \in [Jobs -> {"OK", "EINVAL", "ETIMEDOUT"}]
    BY <1>3, <1>8 DEF DoneLastCore, TypeOK
  <2>3. /\ irq' \in [Cores -> IrqValues]
        /\ \A d \in Cores : irq'[d] = "idle" <=> ijob'[d] = NoJob
    BY <1>8 DEF DoneLastCore, TypeOK, IrqValues
  <2>4. QED
    BY <1>8, <2>1, <2>2, <2>3 DEF DoneLastCore, TypeOK, subcore, alloc, dispatch, device
<1>9. CASE DoneSignals(c)
  <2>1. work' \in [Jobs -> BOOLEAN]
    BY <1>3, <1>9 DEF DoneSignals, TypeOK, SubmitArgs
  <2>2. fence' \in [Jobs -> {"none", "pending", "signalled"}]
    BY <1>3, <1>9 DEF DoneSignals, TypeOK
  <2>3. /\ irq' \in [Cores -> IrqValues]
        /\ \A d \in Cores : irq'[d] = "idle" <=> ijob'[d] = NoJob
    BY <1>9 DEF DoneSignals, TypeOK, IrqValues
  <2>4. QED
    BY <1>9, <2>1, <2>2, <2>3 DEF DoneSignals, TypeOK, subcore, counts, dispatch, device
<1>10. CASE DoneWakes(c)
  <2>1. pc' \in [Jobs -> PcValues]
    BY <1>10 DEF DoneWakes, Woken, TypeOK, PcValues
  <2>2. next' \in [Threads -> SUBSET Cores]
    BY <1>3, <1>10 DEF DoneWakes, TypeOK
  <2>3. /\ irq' \in [Cores -> IrqValues] /\ ijob' \in [Cores -> Jobs \cup {NoJob}]
        /\ \A d \in Cores : irq'[d] = "idle" <=> ijob'[d] = NoJob
    BY <1>10 DEF DoneWakes, TypeOK, IrqValues
  <2>4. QED
    BY <1>10, <2>1, <2>2, <2>3 DEF DoneWakes, TypeOK, subcore, counts, result, alloc, device
<1>11. QED
  BY <1>1, <1>2, <1>4, <1>5, <1>6, <1>7, <1>8, <1>9, <1>10 DEF HandlerStep

\* No step and no stutter breaks the types.
LEMMA TypeStep == TypeOK /\ [Next]_vars => TypeOK'
<1> SUFFICES ASSUME TypeOK, [Next]_vars
             PROVE  TypeOK'
  OBVIOUS
<1>1. ASSUME NEW j \in Jobs,
             SubmitFails(j) \/ Submit(j) \/ SubmitterStep(j) \/ CleanupWork(j)
      PROVE  TypeOK'
  BY <1>1, TypeSubmit, TypeReturn DEF SubmitterStep
<1>2. ASSUME NEW t \in Threads, DispatchStep(t)
      PROVE  TypeOK'
  BY <1>2, TypeDispatch
<1>3. ASSUME NEW c \in Cores, HwFinishes(c) \/ HandlerStep(c)
      PROVE  TypeOK'
  BY <1>3, TypeHandler
<1>4. CASE UNCHANGED vars
  BY <1>4 DEF vars, TypeOK, subcore, counts, result, alloc, dispatch, handler, device
<1>5. QED
  BY <1>1, <1>2, <1>3, <1>4 DEF Next, AllReturned

\* Type correctness of the job path: every variable keeps its type, and an
\* interrupt handler has a job pointer exactly while it works on one.
THEOREM TypeCorrect == Spec => []TypeOK
  BY TypeInit, TypeStep, PTL DEF Spec

-----------------------------------------------------------------------------
(* No lost kick *)

\* The strengthening: no reset is under way; a submitter outside
\* rknpu_job_schedule() has no rknpu_job_next() call to come; an interrupt handler
\* calls it for its own core only.
KickInv ==
    /\ soft_reseting = FALSE
    /\ \A j \in Jobs : pc[j] # "queued" => next[j] = {}
    /\ \A c \in Cores : next[c] \subseteq {c}

\* Submitters and cores are different threads.
LEMMA ThreadsDisjoint == \A j \in Jobs, c \in Cores : j # c
  BY ConstantsAssumption

\* A step that makes no rknpu_job_next() call and schedules no job keeps it.
LEMMA KickFrame ==
  ASSUME KickInv, UNCHANGED <<soft_reseting, next>>,
         \A k \in Jobs : pc[k] = "queued" => pc'[k] = "queued" \/ next[k] = {}
  PROVE  KickInv'
  BY DEF KickInv

\* The strengthening holds on its own.
LEMMA KickInvStep == TypeOK /\ KickInv /\ [Next]_vars => KickInv'
<1> SUFFICES ASSUME TypeOK, KickInv, [Next]_vars
             PROVE  KickInv'
  OBVIOUS
<1>0. pc \in [Jobs -> PcValues] /\ next \in [Threads -> SUBSET Cores]
  BY DEF TypeOK
<1>1. ASSUME NEW j \in Jobs, SubmitFails(j) \/ Submit(j) \/ CleanupWork(j)
      PROVE  KickInv'
  <2>1. UNCHANGED <<soft_reseting, next>>
    BY <1>1 DEF SubmitFails, Submit, CleanupWork, dispatch
  <2>2. \A k \in Jobs : pc[k] = "queued" => pc'[k] = "queued"
    BY <1>0, <1>1 DEF SubmitFails, Submit, CleanupWork
  <2>3. QED
    BY <2>1, <2>2, KickFrame
<1>2. ASSUME NEW j \in Jobs, SubmitterStep(j)
      PROVE  KickInv'
  <2>1. CASE CleanNothing(j) \/ PickCore(j)
    <3>1. UNCHANGED <<soft_reseting, next>>
      BY <2>1 DEF CleanNothing, PickCore, dispatch
    <3>2. \A k \in Jobs : pc[k] = "queued" => pc'[k] = "queued"
      BY <1>0, <2>1 DEF CleanNothing, PickCore
    <3>3. QED
      BY <3>1, <3>2, KickFrame
  <2>2. CASE Enqueue(j)
    <3>1. UNCHANGED soft_reseting /\ next' = [next EXCEPT ![j] = mask[j]]
      BY <2>2 DEF Enqueue
    <3>2. pc'[j] = "queued" /\ \A k \in Jobs : k # j => pc'[k] = pc[k]
      BY <1>0, <2>2 DEF Enqueue
    <3>3. QED
      BY <1>0, <3>1, <3>2, ThreadsDisjoint DEF KickInv, Threads
  <2>3. CASE Scheduled(j)
    <3>1. UNCHANGED <<soft_reseting, next>> /\ next[j] = {}
      BY <2>3 DEF Scheduled, Outside, dispatch
    <3>2. \A k \in Jobs : k # j => pc'[k] = pc[k]
      BY <1>0, <2>3 DEF Scheduled
    <3>3. QED
      BY <3>1, <3>2, KickFrame
  <2>4. CASE WaitSleeps(j) \/ WaitEnds(j) \/ WaitSucceeds(j) \/ Returns(j)
    <3>1. UNCHANGED <<soft_reseting, next>>
      BY <2>4 DEF WaitSleeps, WaitEnds, WaitSucceeds, Returns, dispatch
    <3>2. \A k \in Jobs : pc[k] = "queued" => pc'[k] = "queued"
      BY <1>0, <2>4 DEF WaitSleeps, WaitEnds, WaitSucceeds, Returns
    <3>3. QED
      BY <3>1, <3>2, KickFrame
  <2>5. QED
    BY <1>2, <2>1, <2>2, <2>3, <2>4 DEF SubmitterStep
<1>3. ASSUME NEW t \in Threads, DispatchStep(t)
      PROVE  KickInv'
  <2>1. ASSUME NEW c \in Cores, JobNextReturns(t, c) \/ JobNextPops(t, c)
        PROVE  KickInv'
    <3>1. UNCHANGED <<soft_reseting, pc>> /\ next' = [next EXCEPT ![t] = @ \ {c}]
      BY <2>1 DEF JobNextReturns, JobNextPops
    <3>2. \A s \in Threads : next'[s] \subseteq next[s]
      BY <1>0, <3>1
    <3>3. QED
      BY <3>1, <3>2 DEF KickInv, Threads
  <2>2. ASSUME NEW c \in Cores, CommitCore(t, c)
        PROVE  KickInv'
    BY <2>2, KickFrame DEF CommitCore
  <2>3. CASE JobNextCounts(t)
    BY <2>3, KickFrame DEF JobNextCounts
  <2>4. QED
    BY <1>3, <2>1, <2>2, <2>3 DEF DispatchStep
<1>4. ASSUME NEW c \in Cores, HwFinishes(c) \/ HandlerStep(c)
      PROVE  KickInv'
  <2>1. CASE \/ HwFinishes(c) \/ IrqEnters(c) \/ DoneLastSegment(c) \/ DoneRetires(c)
             \/ DoneLastCore(c) \/ DoneSignals(c) \/ DoneRecommits(c)
    <3>1. UNCHANGED <<soft_reseting, next, pc>>
      BY <2>1 DEF HwFinishes, IrqEnters, DoneLastSegment, DoneRetires, DoneLastCore,
                  DoneSignals, DoneRecommits, dispatch
    <3>2. QED
      BY <3>1, KickFrame
  <2>2. CASE DoneNotLastCore(c) \/ DoneWakes(c)
    <3>1. UNCHANGED soft_reseting /\ next' = [next EXCEPT ![c] = {c}]
      BY <2>2 DEF DoneNotLastCore, DoneWakes
    <3>2. \A k \in Jobs : pc[k] = "queued" => pc'[k] = "queued"
      BY <2>2 DEF DoneNotLastCore, DoneWakes, Woken
    <3>3. QED
      BY <1>0, <3>1, <3>2, ThreadsDisjoint DEF KickInv, Threads
  <2>3. QED
    BY <1>4, <2>1, <2>2 DEF HandlerStep
<1>5. CASE UNCHANGED vars
  BY <1>5, KickFrame DEF vars, dispatch
<1>6. QED
  BY <1>1, <1>2, <1>3, <1>4, <1>5 DEF Next, AllReturned

\* Every step keeps a kick on its way for each free core with a queued job.
LEMMA NoLostKickStep ==
  TypeOK /\ KickInv /\ NoLostKick /\ [Next]_vars => NoLostKick'
<1> SUFFICES ASSUME TypeOK, KickInv, NoLostKick, [Next]_vars
             PROVE  NoLostKick'
  OBVIOUS
<1> USE DEF NoLostKick
<1>1. ASSUME NEW j \in Jobs, SubmitFails(j) \/ Submit(j) \/ CleanupWork(j)
      PROVE  NoLostKick'
  BY <1>1 DEF SubmitFails, Submit, CleanupWork, subcore, dispatch, handler
<1>2. ASSUME NEW j \in Jobs, SubmitterStep(j)
      PROVE  NoLostKick'
  <2>1. CASE CleanNothing(j) \/ PickCore(j) \/ Scheduled(j)
    BY <2>1 DEF CleanNothing, PickCore, Scheduled, subcore, dispatch, handler
  <2>2. CASE Enqueue(j)
    <3>1. next[j] = {}
      BY <2>2 DEF Enqueue, KickInv
    <3>2. next' = [next EXCEPT ![j] = mask[j]] /\ j \in Threads
      BY <2>2 DEF Enqueue, Threads
    <3>3. \A t \in Threads : next[t] \subseteq next'[t]
      BY <3>1, <3>2 DEF TypeOK
    <3>4. \A c \in mask[j] : c \in next'[j]
      BY <3>2 DEF TypeOK
    <3>5. \A c \in Cores : c \notin mask[j] => todo'[c] = todo[c]
      BY <2>2 DEF Enqueue
    <3>6. UNCHANGED <<slot, irq>>
      BY <2>2 DEF Enqueue, handler
    <3>7. QED
      BY <3>2, <3>3, <3>4, <3>5, <3>6
  <2>3. CASE WaitSleeps(j) \/ WaitEnds(j) \/ WaitSucceeds(j) \/ Returns(j)
    BY <2>3 DEF WaitSleeps, WaitEnds, WaitSucceeds, Returns, subcore, dispatch, handler
  <2>4. QED
    BY <1>2, <2>1, <2>2, <2>3 DEF SubmitterStep
<1>3. ASSUME NEW t \in Threads, DispatchStep(t)
      PROVE  NoLostKick'
  <2>1. ASSUME NEW c \in Cores, JobNextReturns(t, c)
        PROVE  NoLostKick'
    <3>1. slot[c] # NoJob \/ todo[c] = <<>>
      BY <2>1 DEF JobNextReturns, Deterred, NothingToStart, KickInv
    <3>2. \A d \in Cores, s \in Threads : d # c /\ d \in next[s] => d \in next'[s]
      BY <2>1 DEF JobNextReturns, TypeOK
    <3>3. UNCHANGED <<todo, slot, irq>>
      BY <2>1 DEF JobNextReturns, subcore, handler
    <3>4. QED
      BY <3>1, <3>2, <3>3
  <2>2. ASSUME NEW c \in Cores, JobNextPops(t, c)
        PROVE  NoLostKick'
    <3>1. slot'[c] # NoJob
      BY <2>2, ConstantsAssumption DEF JobNextPops, NothingToStart, TypeOK
    <3>2. \A d \in Cores, s \in Threads : d # c /\ d \in next[s] => d \in next'[s]
      BY <2>2 DEF JobNextPops, TypeOK
    <3>3. \A d \in Cores : d # c => todo'[d] = todo[d] /\ slot'[d] = slot[d]
      BY <2>2 DEF JobNextPops, TypeOK
    <3>4. UNCHANGED irq
      BY <2>2 DEF JobNextPops, handler
    <3>5. QED
      BY <3>1, <3>2, <3>3, <3>4
  <2>3. ASSUME NEW c \in Cores, CommitCore(t, c)
        PROVE  NoLostKick'
    BY <2>3 DEF CommitCore, subcore, handler
  <2>4. CASE JobNextCounts(t)
    BY <2>4 DEF JobNextCounts, subcore, handler
  <2>5. QED
    BY <1>3, <2>1, <2>2, <2>3, <2>4 DEF DispatchStep
<1>4. ASSUME NEW c \in Cores, HwFinishes(c) \/ HandlerStep(c)
      PROVE  NoLostKick'
  <2>1. CASE HwFinishes(c)
    BY <2>1 DEF HwFinishes, subcore, dispatch, handler
  <2>2. CASE IrqEnters(c) \/ DoneLastSegment(c) \/ DoneRecommits(c)
    <3>1. /\ UNCHANGED <<todo, slot, next>>
          /\ \A d \in Cores : irq[d] \in {"complete", "signal", "wake"} => irq'[d] = irq[d]
      BY <2>2 DEF IrqEnters, DoneLastSegment, DoneRecommits, TypeOK, subcore, dispatch
    <3>2. QED
      BY <3>1
  <2>3. CASE DoneRetires(c)
    <3>1. /\ UNCHANGED <<todo, next>>
          /\ irq'[c] = "complete"
          /\ \A d \in Cores : d # c => irq'[d] = irq[d] /\ slot'[d] = slot[d]
      BY <2>3 DEF DoneRetires, TypeOK, dispatch
    <3>2. QED
      BY <3>1
  <2>4. CASE DoneLastCore(c) \/ DoneSignals(c)
    <3>1. /\ UNCHANGED <<todo, slot, next>>
          /\ irq'[c] \in {"signal", "wake"}
          /\ \A d \in Cores : d # c => irq'[d] = irq[d]
      BY <2>4 DEF DoneLastCore, DoneSignals, TypeOK, subcore, dispatch
    <3>2. QED
      BY <3>1
  <2>5. CASE DoneNotLastCore(c) \/ DoneWakes(c)
    <3>1. UNCHANGED <<todo, slot>> /\ next' = [next EXCEPT ![c] = {c}] /\ c \in Threads
      BY <2>5 DEF DoneNotLastCore, DoneWakes, subcore, Threads
    <3>2. \A d \in Cores : d # c => irq'[d] = irq[d]
      BY <2>5 DEF DoneNotLastCore, DoneWakes, TypeOK
    <3>3. c \in next'[c] /\ \A t \in Threads : next[t] \subseteq next'[t]
      BY <3>1 DEF KickInv, TypeOK
    <3>4. QED
      BY <3>1, <3>2, <3>3
  <2>6. QED
    BY <1>4, <2>1, <2>2, <2>3, <2>4, <2>5 DEF HandlerStep
<1>5. CASE UNCHANGED vars
  BY <1>5 DEF vars, subcore, dispatch, handler
<1>6. QED
  BY <1>1, <1>2, <1>3, <1>4, <1>5 DEF Next, AllReturned

\* Work conservation: in every reachable state, a core that is free while a job is
\* on its todo_list has a rknpu_job_next() call under way or to come.
THEOREM KickIsNeverLost == Spec => []NoLostKick
<1>1. Init => KickInv /\ NoLostKick
  BY DEF Init, KickInv, NoLostKick, Threads
<1>2. QED
  BY <1>1, TypeCorrect, KickInvStep, NoLostKickStep, PTL DEF Spec

-----------------------------------------------------------------------------
(* One queue order *)

\* Job j has not been queued yet.  (The second line is of RknpuRecovery: an
\* asynchronous submission sweeps expired jobs before it queues its own.)
Early(j) ==
    \/ pc[j] \in {"new", "clean", "schedule"}
    \/ /\ args[j].nonblock
       /\ pc[j] \in {"reset", "locked", "resetting", "reset_end", "unlocking", "unlink", "drain"}

\* The strengthening: a job that has not been queued yet is on no list and in no
\* slot, so rknpu_job_schedule() puts it behind everything there is.
OrderInv ==
    \A j \in Jobs : Early(j) => \A c \in Cores : slot[c] # j /\ ~InTodo(j, c)

\* A step that leaves lists and slots alone, or only takes jobs from them, keeps
\* both the strengthening and the order.
LEMMA OrderFrame ==
  ASSUME OrderInv, ConsistentOrder,
         \A k \in Jobs : Early(k)' => Early(k),
         \A k \in Jobs, c \in Cores :
            /\ InTodo(k, c)' => InTodo(k, c)
            /\ slot'[c] = k => slot[c] = k \/ InTodo(k, c),
         \A i, k \in Jobs, c \in Cores : i # k /\ Precedes(i, k, c)' => Precedes(i, k, c)
  PROVE  OrderInv' /\ ConsistentOrder'
<1>1. OrderInv'
  BY DEF OrderInv
<1>2. ConsistentOrder'
  BY DEF ConsistentOrder
<1>3. QED
  BY <1>1, <1>2

\* The common case: lists and slots are not touched.
LEMMA OrderUntouched ==
  ASSUME OrderInv, ConsistentOrder, UNCHANGED <<todo, slot>>,
         \A k \in Jobs : Early(k)' => Early(k)
  PROVE  OrderInv' /\ ConsistentOrder'
<1>1. \A k \in Jobs, c \in Cores :
         /\ InTodo(k, c)' => InTodo(k, c)
         /\ slot'[c] = k => slot[c] = k \/ InTodo(k, c)
  BY DEF InTodo
<1>2. \A i, k \in Jobs, c \in Cores : i # k /\ Precedes(i, k, c)' => Precedes(i, k, c)
  BY DEF Precedes, InTodo
<1>3. QED
  BY <1>1, <1>2, OrderFrame

\* list_add_tail() on every list at once: the new job precedes nothing.
LEMMA OrderEnqueue ==
  ASSUME TypeOK, OrderInv, ConsistentOrder, NEW j \in Jobs, Enqueue(j)
  PROVE  OrderInv' /\ ConsistentOrder'
<1>1. \A c \in Cores : slot[c] # j /\ ~InTodo(j, c)
  BY DEF Enqueue, OrderInv, Early
<1>2. /\ slot' = slot
      /\ pc'[j] = "queued" /\ \A k \in Jobs : k # j => pc'[k] = pc[k]
      /\ args' = args
  BY DEF Enqueue, TypeOK, alloc
<1>3. \A c \in Cores : todo[c] \in Seq(Jobs)
  BY DEF TypeOK
<1>4. \A c \in Cores : todo'[c] = todo[c] \/ todo'[c] = Append(todo[c], j)
  BY DEF Enqueue
<1>5. ASSUME NEW c \in Cores, NEW k \in Jobs, k # j, InTodo(k, c)'
      PROVE  InTodo(k, c)
  BY <1>3, <1>4, <1>5 DEF InTodo
<1>6. OrderInv'
  BY <1>2, <1>5 DEF OrderInv, Early
<1>7. ASSUME NEW c \in Cores, NEW i \in Jobs, NEW k \in Jobs, k # j, Precedes(i, k, c)'
      PROVE  Precedes(i, k, c)
  <2>1. CASE slot'[c] = i /\ InTodo(k, c)'
    BY <1>2, <1>5, <1>7, <2>1 DEF Precedes
  <2>2. ASSUME NEW m \in 1 .. Len(todo'[c]), NEW n \in 1 .. Len(todo'[c]),
               m < n, todo'[c][m] = i, todo'[c][n] = k
        PROVE  Precedes(i, k, c)
    <3>1. CASE todo'[c] = todo[c]
      BY <2>2, <3>1 DEF Precedes
    <3>2. CASE todo'[c] = Append(todo[c], j)
      <4>1. n # Len(todo[c]) + 1
        BY <1>3, <1>7, <2>2, <3>2
      <4>2. m \in 1 .. Len(todo[c]) /\ n \in 1 .. Len(todo[c])
        BY <1>3, <2>2, <3>2, <4>1
      <4>3. todo[c][m] = i /\ todo[c][n] = k
        BY <1>3, <2>2, <3>2, <4>2
      <4>4. QED
        BY <2>2, <4>2, <4>3 DEF Precedes
    <3>3. QED
      BY <1>4, <3>1, <3>2
  <2>3. QED
    BY <1>7, <2>1, <2>2 DEF Precedes
<1>8. ASSUME NEW c \in Cores, NEW k \in Jobs, k # j
      PROVE  ~Precedes(j, k, c)'
  <2>1. slot'[c] # j
    BY <1>1, <1>2
  <2>2. ASSUME NEW m \in 1 .. Len(todo'[c]), NEW n \in 1 .. Len(todo'[c]), m < n,
               todo'[c][m] = j
        PROVE  FALSE
    <3>1. \A l \in 1 .. Len(todo[c]) : todo[c][l] # j
      BY <1>1 DEF InTodo
    <3>2. m \in 1 .. Len(todo[c]) /\ todo'[c][m] = todo[c][m]
      <4>1. CASE todo'[c] = todo[c]
        BY <2>2, <4>1
      <4>2. CASE todo'[c] = Append(todo[c], j)
        <5>1. Len(todo[c]) \in Nat /\ Len(todo'[c]) = Len(todo[c]) + 1
          BY <1>3, <4>2
        <5>2. m \in 1 .. Len(todo[c])
          BY <2>2, <5>1
        <5>3. QED
          BY <1>3, <4>2, <5>2
      <4>3. QED
        BY <1>4, <4>1, <4>2
    <3>3. QED
      BY <2>2, <3>1, <3>2
  <2>3. QED
    BY <2>1, <2>2 DEF Precedes
<1>9. ConsistentOrder'
  BY <1>7, <1>8 DEF ConsistentOrder
<1>10. QED
  BY <1>6, <1>9

\* rknpu_job_next(): the head of a list moves to the slot; everything it precedes
\* there, it preceded before.
LEMMA OrderPops ==
  ASSUME TypeOK, OrderInv, ConsistentOrder, NEW t \in Threads, NEW c \in Cores,
         JobNextPops(t, c)
  PROVE  OrderInv' /\ ConsistentOrder'
<1>1. todo[c] \in Seq(Jobs) /\ todo[c] # <<>>
  BY DEF JobNextPops, NothingToStart, TypeOK
<1>2. /\ todo'[c] = Tail(todo[c]) /\ slot'[c] = Head(todo[c])
      /\ \A d \in Cores : d # c => todo'[d] = todo[d] /\ slot'[d] = slot[d]
  BY DEF JobNextPops, TypeOK
<1>3. pc' = pc /\ args' = args
  BY DEF JobNextPops, alloc
<1>4. /\ Len(todo'[c]) = Len(todo[c]) - 1 /\ Len(todo[c]) \in Nat /\ Len(todo[c]) >= 1
      /\ \A i \in 1 .. Len(todo'[c]) : todo'[c][i] = todo[c][i + 1]
      /\ slot'[c] = todo[c][1]
  BY <1>1, <1>2
<1>5. ASSUME NEW k \in Jobs, NEW d \in Cores
      PROVE  /\ InTodo(k, d)' => InTodo(k, d)
             /\ slot'[d] = k => slot[d] = k \/ InTodo(k, d)
  <2>1. CASE d = c
    <3>1. ASSUME NEW i \in 1 .. Len(todo'[c]), todo'[c][i] = k
          PROVE  InTodo(k, c)
      <4>1. i + 1 \in 1 .. Len(todo[c]) /\ todo[c][i + 1] = k
        BY <1>4, <3>1
      <4>2. QED
        BY <4>1 DEF InTodo
    <3>2. ASSUME slot'[c] = k
          PROVE  InTodo(k, c)
      <4>1. 1 \in 1 .. Len(todo[c]) /\ todo[c][1] = k
        BY <1>4, <3>2
      <4>2. QED
        BY <4>1 DEF InTodo
    <3>3. QED
      BY <2>1, <3>1, <3>2 DEF InTodo
  <2>2. CASE d # c
    BY <1>2, <2>2 DEF InTodo
  <2>3. QED
    BY <2>1, <2>2
<1>6. ASSUME NEW i \in Jobs, NEW k \in Jobs, NEW d \in Cores, i # k, Precedes(i, k, d)'
      PROVE  Precedes(i, k, d)
  <2>1. CASE d # c
    BY <1>2, <1>6, <2>1 DEF Precedes, InTodo
  <2>2. CASE d = c
    <3>1. ASSUME slot'[c] = i, NEW n \in 1 .. Len(todo'[c]), todo'[c][n] = k
          PROVE  Precedes(i, k, c)
      <4>1. 1 \in 1 .. Len(todo[c]) /\ n + 1 \in 1 .. Len(todo[c]) /\ 1 < n + 1
        BY <1>4, <3>1
      <4>2. todo[c][1] = i /\ todo[c][n + 1] = k
        BY <1>4, <3>1
      <4>3. QED
        BY <4>1, <4>2 DEF Precedes
    <3>2. ASSUME NEW m \in 1 .. Len(todo'[c]), NEW n \in 1 .. Len(todo'[c]), m < n,
                 todo'[c][m] = i, todo'[c][n] = k
          PROVE  Precedes(i, k, c)
      <4>1. m + 1 \in 1 .. Len(todo[c]) /\ n + 1 \in 1 .. Len(todo[c]) /\ m + 1 < n + 1
        BY <1>4, <3>2
      <4>2. todo[c][m + 1] = i
        BY <1>4, <3>2
      <4>3. todo[c][n + 1] = k
        BY <1>4, <3>2
      <4>4. QED
        BY <4>1, <4>2, <4>3 DEF Precedes
    <3>3. QED
      BY <1>6, <2>2, <3>1, <3>2 DEF Precedes, InTodo
  <2>3. QED
    BY <2>1, <2>2
<1>7. QED
  BY <1>3, <1>5, <1>6, OrderFrame DEF Early

\* Every step keeps the order.
LEMMA OrderStep ==
  TypeOK /\ OrderInv /\ ConsistentOrder /\ [Next]_vars => OrderInv' /\ ConsistentOrder'
<1> SUFFICES ASSUME TypeOK, OrderInv, ConsistentOrder, [Next]_vars
             PROVE  OrderInv' /\ ConsistentOrder'
  OBVIOUS
<1>0. pc \in [Jobs -> PcValues]
  BY DEF TypeOK
<1>1. ASSUME NEW j \in Jobs,
             SubmitFails(j) \/ Submit(j) \/ SubmitterStep(j) \/ CleanupWork(j), ~Enqueue(j)
      PROVE  OrderInv' /\ ConsistentOrder'
  <2>1. UNCHANGED <<todo, slot>>
    BY <1>1 DEF SubmitterStep, SubmitFails, Submit, CleanNothing, PickCore, Scheduled, WaitSleeps,
                WaitEnds, WaitSucceeds, Returns, CleanupWork, subcore
  <2>2. \A k \in Jobs : Early(k)' => Early(k)
    <3>1. CASE SubmitFails(j) \/ Submit(j) \/ CleanNothing(j) \/ PickCore(j)
      BY <1>0, <3>1 DEF SubmitFails, Submit, CleanNothing, PickCore, Early, alloc
    <3>2. CASE Scheduled(j) \/ WaitSleeps(j) \/ WaitEnds(j)
      BY <1>0, <3>2 DEF Scheduled, WaitSleeps, WaitEnds, Early, alloc
    <3>3. CASE WaitSucceeds(j) \/ Returns(j) \/ CleanupWork(j)
      BY <1>0, <3>3 DEF WaitSucceeds, Returns, CleanupWork, Early, alloc
    <3>4. QED
      BY <1>1, <3>1, <3>2, <3>3 DEF SubmitterStep
  <2>3. QED
    BY <2>1, <2>2, OrderUntouched
<1>2. ASSUME NEW t \in Threads, DispatchStep(t)
      PROVE  OrderInv' /\ ConsistentOrder'
  <2>1. ASSUME NEW c \in Cores, JobNextReturns(t, c)
        PROVE  OrderInv' /\ ConsistentOrder'
    BY <2>1, OrderUntouched DEF JobNextReturns, Early, subcore, alloc
  <2>2. ASSUME NEW c \in Cores, CommitCore(t, c)
        PROVE  OrderInv' /\ ConsistentOrder'
    BY <2>2, OrderUntouched DEF CommitCore, Early, subcore, alloc
  <2>3. CASE JobNextCounts(t)
    BY <2>3, OrderUntouched DEF JobNextCounts, Early, subcore, alloc
  <2>4. QED
    BY <1>2, <2>1, <2>2, <2>3, OrderPops DEF DispatchStep
<1>3. ASSUME NEW c \in Cores, HwFinishes(c) \/ HandlerStep(c), ~DoneRetires(c)
      PROVE  OrderInv' /\ ConsistentOrder'
  <2>1. UNCHANGED <<todo, slot>>
    BY <1>3 DEF HandlerStep, HwFinishes, IrqEnters, DoneRecommits, DoneLastSegment,
                DoneNotLastCore, DoneLastCore, DoneSignals, DoneWakes, subcore
  <2>2. \A k \in Jobs : Early(k)' => Early(k)
    <3>1. CASE DoneWakes(c)
      BY <3>1 DEF DoneWakes, Woken, Early, alloc
    <3>2. CASE ~DoneWakes(c)
      BY <1>3, <3>2 DEF HandlerStep, HwFinishes, IrqEnters, DoneRecommits, DoneLastSegment,
                        DoneNotLastCore, DoneLastCore, DoneSignals, Early, alloc
    <3>3. QED
      BY <3>1, <3>2
  <2>3. QED
    BY <2>1, <2>2, OrderUntouched
<1>4. ASSUME NEW c \in Cores, DoneRetires(c)
      PROVE  OrderInv' /\ ConsistentOrder'
  <2>1. UNCHANGED <<todo, pc, args>>
    BY <1>4 DEF DoneRetires, alloc
  <2>2. \A k \in Jobs, d \in Cores : slot'[d] = k => slot[d] = k
    BY <1>4, ConstantsAssumption DEF DoneRetires, TypeOK
  <2>3. \A k \in Jobs, d \in Cores : InTodo(k, d)' => InTodo(k, d)
    BY <2>1 DEF InTodo
  <2>4. \A i, k \in Jobs, d \in Cores : i # k /\ Precedes(i, k, d)' => Precedes(i, k, d)
    BY <2>1, <2>2 DEF Precedes, InTodo
  <2>5. QED
    BY <2>1, <2>2, <2>3, <2>4, OrderFrame DEF Early
<1>5. CASE UNCHANGED vars
  BY <1>5, OrderUntouched DEF vars, Early, subcore, alloc
<1>6. QED
  BY <1>1, <1>2, <1>3, <1>4, <1>5, OrderEnqueue DEF Next, AllReturned

\* Initially no job is on a list or in a slot.
LEMMA OrderInit == Init => OrderInv /\ ConsistentOrder
<1> SUFFICES ASSUME Init
             PROVE  OrderInv /\ ConsistentOrder
  OBVIOUS
<1>1. \A j \in Jobs, c \in Cores : slot[c] # j /\ ~InTodo(j, c)
  BY ConstantsAssumption DEF Init, InTodo
<1>2. \A i, j \in Jobs, c \in Cores : ~Precedes(i, j, c)
  BY <1>1 DEF Init, Precedes
<1>3. QED
  BY <1>1, <1>2 DEF OrderInv, ConsistentOrder

\* The list_add_tail() calls of rknpu_job_schedule() under one irq_lock section
\* give all cores the same order: no two jobs are ever queued, or held and queued,
\* one way round on one core and the other way round on another.
THEOREM OrderIsConsistent == Spec => []ConsistentOrder
  BY OrderInit, TypeCorrect, OrderStep, PTL DEF Spec
=============================================================================

------------------------- MODULE RknpuUnlink_proofs -------------------------
(***************************************************************************)
(* Theorems about RknpuRecovery: what lists and slots refer to when        *)
(* submitters give up, sweeps drain the lists and handlers come late.      *)
(*                                                                         *)
(* With two or more cores the three properties fail for some masks (see    *)
(* the runs recovery_second_core and recovery_gang_sweep).  The theorems   *)
(* are about the masks for which they hold, and so about every mask of a   *)
(* device with one core.  They need no assumption on time: SleepsCover may *)
(* be FALSE.                                                               *)
(***************************************************************************)
EXTENDS RknpuRecovery_proofs, RknpuGang_proofs

-----------------------------------------------------------------------------
(* Hypotheses on the submissions *)

\* A blocking submission is waited for: it sets RKNPU_JOB_PC.
BlockingIsWaitedFor == \A a \in Args : a.nonblock \/ a.pc

\* The first use_core_num cores, from which rknpu_job_wait() removes a job it gives
\* up, are the cores of its mask.
DequeueCoversMask ==
    \A a \in Args :
        /\ \A c \in a.mask : c < Cardinality(a.mask)
        /\ a.mask = {} => num_irqs = 1

\* No job uses two cores.
NoGangs == \A a \in Args : \A c, d \in a.mask : c = d

-----------------------------------------------------------------------------
(* The invariants *)

\* Nothing refers to job j and nothing has happened to it.
Unseen(j) ==
    /\ ~done[j] /\ ~work[j] /\ int_mask[j] = {} /\ ret[j] = "OK"
    /\ \A c \in Cores : slot[c] # j /\ ~InTodo(j, c) /\ ijob[c] # j /\ c \notin irq_entry[j]
    /\ \A t \in Threads : cur[t] # j
    /\ \A k \in Jobs : target[k] # j

\* A submission that has not queued its job, or never allocated one.
NotQueuedYet(j) == Early(j) \/ mem[j] = "none"

\* No list has a job twice.
NoRepeats == \A c \in Cores : \A m, n \in 1 .. Len(todo[c]) : todo[c][m] = todo[c][n] => m = n

\* A job is seen by nobody before it is queued.
FreshInv ==
    \A j \in Jobs :
        /\ NotQueuedYet(j) => Unseen(j)
        /\ pc[j] = "new" => mem[j] = "none"
        /\ Early(j) /\ pc[j] # "new" => mem[j] = "live"
        /\ mem[j] = "none" => pc[j] \in {"new", "returned"}

\* A core queues, holds or handles only jobs of its own, each in one place, and
\* irq_entry remembers every job its handler has seen.
PlaceInv ==
    \A j \in Jobs, c \in Cores :
        /\ InTodo(j, c) => c \in mask[j] /\ slot[c] # j /\ c \notin irq_entry[j]
        /\ slot[c] = j => c \in mask[j]
        /\ ijob[c] = j => c \in mask[j] /\ c \in irq_entry[j]
        /\ ijob[c] = j /\ irq[c] \in {"complete", "signal", "wake"} => slot[c] # j
        /\ ijob[c] = j /\ irq[c] \in {"retire", "complete", "signal", "wake"} => int_mask[j] # {}

UInv == RInv /\ NoRepeats /\ FreshInv /\ PlaceInv

-----------------------------------------------------------------------------
(* Lists *)

\* list_del() on a list without repetitions: k is gone, the others stay, once each.
LEMMA WithoutUnique ==
  ASSUME NEW s \in Seq(Jobs), NEW k,
         \A m, n \in 1 .. Len(s) : s[m] = s[n] => m = n,
         NEW w, w = Without(s, k)
  PROVE  /\ \A m, n \in 1 .. Len(w) : w[m] = w[n] => m = n
         /\ \A n \in 1 .. Len(w) : w[n] # k
         /\ \A n \in 1 .. Len(w) : \E p \in 1 .. Len(s) : s[p] = w[n]
<1>0. Len(s) \in Nat
  OBVIOUS
<1>1. CASE ~\E i \in 1 .. Len(s) : s[i] = k
  <2>1. w = s
    BY <1>1 DEF Without
  <2>2. QED
    BY <1>1, <2>1
<1>2. CASE \E i \in 1 .. Len(s) : s[i] = k
  <2>1. PICK i \in 1 .. Len(s) :
           /\ s[i] = k
           /\ w = [n \in 1 .. Len(s) - 1 |-> s[IF n < i THEN n ELSE n + 1]]
    <3>1. (CHOOSE j \in 1 .. Len(s) : s[j] = k) \in 1 .. Len(s)
          /\ s[CHOOSE j \in 1 .. Len(s) : s[j] = k] = k
      BY <1>2
    <3>2. w = LET i == CHOOSE j \in 1 .. Len(s) : s[j] = k
              IN  [n \in 1 .. Len(s) - 1 |-> s[IF n < i THEN n ELSE n + 1]]
      BY <1>2 DEF Without
    <3>3. QED
      BY <3>1, <3>2
  <2>2. w \in Seq(Jobs) /\ Len(w) = Len(s) - 1
    BY <1>0, <2>1
  <2>3. \A n \in 1 .. Len(w) :
           /\ n < i => n \in 1 .. Len(s) /\ w[n] = s[n]
           /\ ~(n < i) => n + 1 \in 1 .. Len(s) /\ w[n] = s[n + 1]
    BY <1>0, <2>1, <2>2
  <2>4. \A n \in 1 .. Len(w) : w[n] # k /\ \E p \in 1 .. Len(s) : s[p] = w[n]
    BY <1>0, <2>1, <2>3
  <2>5. ASSUME NEW m \in 1 .. Len(w), NEW n \in 1 .. Len(w), w[m] = w[n]
        PROVE  m = n
    BY <1>0, <2>1, <2>2, <2>3, <2>5
  <2>6. QED
    BY <2>4, <2>5
<1>3. QED
  BY <1>1, <1>2

\* A step that removes k from some lists and leaves the others alone.
LEMMA ListsShrink ==
  ASSUME TypeOK, NoRepeats, NEW k, NEW S \in SUBSET Cores,
         \A c \in Cores : todo'[c] = IF c \in S THEN Without(todo[c], k) ELSE todo[c]
  PROVE  /\ NoRepeats'
         /\ \A j \in Jobs, c \in Cores : InTodo(j, c)' => InTodo(j, c)
         /\ \A c \in S : ~InTodo(k, c)'
<1>1. ASSUME NEW c \in Cores
      PROVE  /\ \A m, n \in 1 .. Len(todo'[c]) : todo'[c][m] = todo'[c][n] => m = n
             /\ \A j \in Jobs : InTodo(j, c)' => InTodo(j, c)
             /\ c \in S => ~InTodo(k, c)'
  <2>1. todo[c] \in Seq(Jobs) /\ \A m, n \in 1 .. Len(todo[c]) : todo[c][m] = todo[c][n] => m = n
    BY DEF TypeOK, NoRepeats
  <2>2. CASE c \notin S
    BY <2>1, <2>2 DEF InTodo
  <2>3. CASE c \in S
    <3>1. todo'[c] = Without(todo[c], k)
      BY <2>3
    <3>2. /\ \A m, n \in 1 .. Len(todo'[c]) : todo'[c][m] = todo'[c][n] => m = n
          /\ \A n \in 1 .. Len(todo'[c]) : todo'[c][n] # k
          /\ \A n \in 1 .. Len(todo'[c]) : \E p \in 1 .. Len(todo[c]) : todo[c][p] = todo'[c][n]
      BY <2>1, <3>1, WithoutUnique
    <3>3. QED
      BY <3>2 DEF InTodo
  <2>4. QED
    BY <2>2, <2>3
<1>2. QED
  BY <1>1 DEF NoRepeats

\* A step that leaves the lists alone.
LEMMA ListsSame ==
  ASSUME NoRepeats, todo' = todo
  PROVE  /\ NoRepeats'
         /\ \A j \in Jobs, c \in Cores : InTodo(j, c)' => InTodo(j, c)
  BY DEF NoRepeats, InTodo

-----------------------------------------------------------------------------
(* Steps that let go of jobs *)

\* What happens to jobs that are not queued yet: they are not put back there, and
\* nothing is done to them.
FreshStep ==
    \A j \in Jobs :
        /\ NotQueuedYet(j)' =>
              /\ NotQueuedYet(j)
              /\ Unseen(j) =>
                    done'[j] = done[j] /\ work'[j] = work[j] /\ int_mask'[j] = int_mask[j]
                    /\ ret'[j] = ret[j]
        /\ pc'[j] = "new" => pc[j] = "new" /\ mem'[j] = mem[j]
        /\ Early(j)' /\ pc'[j] # "new" =>
              mem'[j] = "live" \/ (Early(j) /\ pc[j] # "new" /\ mem'[j] = mem[j])
        /\ mem'[j] = "none" => pc'[j] = "returned" \/ (mem[j] = "none" /\ pc'[j] = pc[j])

\* How a handler moves on with its job, or lets go of it.
HandlerMoves(c) ==
    \/ ijob'[c] = NoJob /\ irq'[c] = "idle"
    \/ /\ ijob'[c] = ijob[c]
       /\ \/ irq'[c] = irq[c]
          \/ irq'[c] = "retire" /\ int_mask[ijob[c]] # {}
          \/ irq[c] = "retire" /\ irq'[c] = "complete" /\ slot'[c] = NoJob
          \/ irq[c] \in {"complete", "signal"} /\ irq'[c] \in {"signal", "wake"}

\* A step after which nothing refers to a job that did not before, except that a
\* handler commits its own job.
LetsGo ==
    /\ UNCHANGED <<args, mask, irq_entry>>
    /\ \A c \in Cores : slot'[c] \in {slot[c], NoJob} /\ HandlerMoves(c)
    /\ \A t \in Threads : cur'[t] \in {cur[t], NoJob} \/ \E c \in Cores : cur'[t] = ijob[c]
    /\ \A k \in Jobs : target'[k] \in {target[k], NoJob} /\ int_mask[k] \subseteq int_mask'[k]

\* Such a step keeps the invariant.
LEMMA LetsGoKeeps ==
  ASSUME NoRepeats, FreshInv, PlaceInv, FreshStep, LetsGo, RTypeOK,
         NoRepeats', \A j \in Jobs, c \in Cores : InTodo(j, c)' => InTodo(j, c)
  PROVE  FreshInv' /\ PlaceInv'
<1>1. FreshInv'
  <2> SUFFICES ASSUME NEW j \in Jobs
               PROVE  /\ NotQueuedYet(j)' => Unseen(j)'
                      /\ pc'[j] = "new" => mem'[j] = "none"
                      /\ Early(j)' /\ pc'[j] # "new" => mem'[j] = "live"
                      /\ mem'[j] = "none" => pc'[j] \in {"new", "returned"}
    BY DEF FreshInv
  <2>1. j # NoJob
    BY ConstantsAssumption
  <2>2. ASSUME NotQueuedYet(j)'
        PROVE  Unseen(j)'
    <3>1. Unseen(j) /\ done'[j] = done[j] /\ work'[j] = work[j] /\ int_mask'[j] = int_mask[j]
          /\ ret'[j] = ret[j]
      BY <2>2 DEF FreshStep, FreshInv
    <3>2. \A c \in Cores : slot'[c] # j /\ ~InTodo(j, c)' /\ ijob'[c] # j /\ c \notin irq_entry'[j]
      BY <2>1, <3>1 DEF Unseen, LetsGo, HandlerMoves
    <3>3. \A t \in Threads : cur'[t] # j
      BY <2>1, <3>1 DEF Unseen, LetsGo
    <3>4. \A k \in Jobs : target'[k] # j
      BY <2>1, <3>1 DEF Unseen, LetsGo
    <3>5. ~done[j] /\ ~work[j] /\ int_mask[j] = {} /\ ret[j] = "OK"
      BY <3>1 DEF Unseen
    <3>6. QED
      BY <3>1, <3>2, <3>3, <3>4, <3>5 DEF Unseen
  <2>3. /\ pc'[j] = "new" => mem'[j] = "none"
        /\ Early(j)' /\ pc'[j] # "new" => mem'[j] = "live"
        /\ mem'[j] = "none" => pc'[j] \in {"new", "returned"}
    BY DEF FreshStep, FreshInv
  <2>4. QED
    BY <2>2, <2>3
<1>2. PlaceInv'
  <2> SUFFICES ASSUME NEW j \in Jobs, NEW c \in Cores
               PROVE  PlaceInv!(j, c)'
    BY DEF PlaceInv
  <2>0. j # NoJob
    BY ConstantsAssumption
  <2>1. mask' = mask /\ irq_entry' = irq_entry /\ slot'[c] \in {slot[c], NoJob} /\ HandlerMoves(c)
        /\ int_mask[j] \subseteq int_mask'[j] /\ (InTodo(j, c)' => InTodo(j, c))
    BY DEF LetsGo
  <2>2. PlaceInv!(j, c)
    BY DEF PlaceInv
  <2>3. InTodo(j, c)' => c \in mask'[j] /\ slot'[c] # j /\ c \notin irq_entry'[j]
    BY <2>0, <2>1, <2>2
  <2>4. slot'[c] = j => c \in mask'[j]
    BY <2>0, <2>1, <2>2
  <2>5. ijob'[c] = j => ijob[c] = j /\ c \in mask'[j] /\ c \in irq_entry'[j]
    BY <2>0, <2>1, <2>2 DEF HandlerMoves
  <2>6. ijob'[c] = j /\ irq'[c] \in {"complete", "signal", "wake"} => slot'[c] # j
    BY <2>0, <2>1, <2>2 DEF HandlerMoves
  <2>7. ijob'[c] = j /\ irq'[c] \in {"retire", "complete", "signal", "wake"} => int_mask'[j] # {}
    <3>1. ijob'[c] = j /\ irq'[c] \in {"retire", "complete", "signal", "wake"} => int_mask[j] # {}
      BY <2>0, <2>1, <2>2 DEF HandlerMoves
    <3>2. QED
      BY <2>1, <3>1
  <2>8. QED
    BY <2>3, <2>4, <2>5, <2>6, <2>7
<1>3. QED
  BY <1>1, <1>2

\* The facts about types that the steps below need.
LEMMA UTypes ==
  ASSUME UInv
  PROVE  /\ TypeOK /\ RTypeOK /\ RInv
         /\ pc \in [Jobs -> PcValues] /\ mem \in [Jobs -> {"none", "live", "freed"}]
         /\ ret \in [Jobs -> {"OK", "EINVAL", "ETIMEDOUT"}] /\ args \in [Jobs -> SubmitArgs]
         /\ done \in [Jobs -> BOOLEAN] /\ work \in [Jobs -> BOOLEAN]
         /\ int_mask \in [Jobs -> SUBSET Cores] /\ irq_entry \in [Jobs -> SUBSET Cores]
         /\ slot \in [Cores -> Jobs \cup {NoJob}] /\ ijob \in [Cores -> Jobs \cup {NoJob}]
         /\ irq \in [Cores -> IrqValues] /\ mask \in [Jobs -> SUBSET Cores]
         /\ cur \in [Threads -> Jobs \cup {NoJob}] /\ com \in [Threads -> SUBSET Cores]
         /\ at \in [Threads -> Cores] /\ todo \in [Cores -> Seq(Jobs)]
         /\ run_count \in [Jobs -> Int]
         /\ target \in [Jobs -> Jobs \cup {NoJob}] /\ sweep \in [Jobs -> 0 .. num_irqs]
         /\ NoJob \notin Jobs
  BY ConstantsAssumption DEF UInv, RInv, RTypeOK, TypeOK

-----------------------------------------------------------------------------
(* The steps of one thread that let go of jobs *)

\* The submitter before and after it queues its job.
LEMMA SubmitterLetsGo ==
  ASSUME UInv, UNCHANGED recovery, NEW j \in Jobs,
         SubmitFails(j) \/ Submit(j) \/ CleanNothing(j) \/ Scheduled(j) \/ WaitSleeps(j)
         \/ WaitEnds(j) \/ WaitSucceeds(j) \/ Returns(j) \/ CleanupWork(j)
  PROVE  FreshStep /\ LetsGo
<1>1. CASE SubmitFails(j)
  <2>1. FreshStep
    BY <1>1, UTypes
    DEF SubmitFails, Goto, AfterReset, Woken, FreshStep, NotQueuedYet, Early, UInv,
        FreshInv, subcore, counts, result, alloc, dispatch, handler, device, recovery
  <2>2. LetsGo
    BY <1>1, UTypes
    DEF SubmitFails, Goto, LetsGo, HandlerMoves, subcore, counts, result, alloc, dispatch,
        handler, device, recovery
  <2>3. QED
    BY <2>1, <2>2
<1>2. CASE Submit(j)
  <2>1. FreshStep
    BY <1>2, UTypes
    DEF Submit, Goto, AfterReset, Woken, FreshStep, NotQueuedYet, Early, UInv, FreshInv,
        subcore, counts, result, alloc, dispatch, handler, device, recovery
  <2>2. LetsGo
    BY <1>2, UTypes
    DEF Submit, Goto, LetsGo, HandlerMoves, subcore, counts, result, alloc, dispatch,
        handler, device, recovery
  <2>3. QED
    BY <2>1, <2>2
<1>3. CASE CleanNothing(j)
  <2>1. FreshStep
    BY <1>3, UTypes
    DEF CleanNothing, Goto, AfterReset, Woken, FreshStep, NotQueuedYet, Early, UInv,
        FreshInv, subcore, counts, result, alloc, dispatch, handler, device, recovery
  <2>2. LetsGo
    BY <1>3, UTypes
    DEF CleanNothing, Goto, LetsGo, HandlerMoves, subcore, counts, result, alloc, dispatch,
        handler, device, recovery
  <2>3. QED
    BY <2>1, <2>2
<1>4. CASE Scheduled(j)
  <2>1. FreshStep
    BY <1>4, UTypes
    DEF Scheduled, Goto, AfterReset, Woken, FreshStep, NotQueuedYet, Early, UInv, FreshInv,
        subcore, counts, result, alloc, dispatch, handler, device, recovery
  <2>2. LetsGo
    BY <1>4, UTypes
    DEF Scheduled, Goto, LetsGo, HandlerMoves, subcore, counts, result, alloc, dispatch,
        handler, device, recovery
  <2>3. QED
    BY <2>1, <2>2
<1>5. CASE WaitSleeps(j)
  <2>1. FreshStep
    BY <1>5, UTypes
    DEF WaitSleeps, Goto, AfterReset, Woken, FreshStep, NotQueuedYet, Early, UInv, FreshInv,
        subcore, counts, result, alloc, dispatch, handler, device, recovery
  <2>2. LetsGo
    BY <1>5, UTypes
    DEF WaitSleeps, Goto, LetsGo, HandlerMoves, subcore, counts, result, alloc, dispatch,
        handler, device, recovery
  <2>3. QED
    BY <2>1, <2>2
<1>6. CASE WaitEnds(j)
  <2>1. FreshStep
    BY <1>6, UTypes
    DEF WaitEnds, Goto, AfterReset, Woken, FreshStep, NotQueuedYet, Early, UInv, FreshInv,
        subcore, counts, result, alloc, dispatch, handler, device, recovery
  <2>2. LetsGo
    BY <1>6, UTypes
    DEF WaitEnds, Goto, LetsGo, HandlerMoves, subcore, counts, result, alloc, dispatch,
        handler, device, recovery
  <2>3. QED
    BY <2>1, <2>2
<1>7. CASE WaitSucceeds(j)
  <2>1. FreshStep
    BY <1>7, UTypes
    DEF WaitSucceeds, Goto, AfterReset, Woken, FreshStep, NotQueuedYet, Early, UInv,
        FreshInv, subcore, counts, result, alloc, dispatch, handler, device, recovery
  <2>2. LetsGo
    BY <1>7, UTypes
    DEF WaitSucceeds, Goto, LetsGo, HandlerMoves, subcore, counts, result, alloc, dispatch,
        handler, device, recovery
  <2>3. QED
    BY <2>1, <2>2
<1>8. CASE Returns(j)
  <2>1. FreshStep
    BY <1>8, UTypes
    DEF Returns, Goto, AfterReset, Woken, FreshStep, NotQueuedYet, Early, UInv, FreshInv,
        subcore, counts, result, alloc, dispatch, handler, device, recovery
  <2>2. LetsGo
    BY <1>8, UTypes
    DEF Returns, Goto, LetsGo, HandlerMoves, subcore, counts, result, alloc, dispatch,
        handler, device, recovery
  <2>3. QED
    BY <2>1, <2>2
<1>9. CASE CleanupWork(j)
  <2>1. FreshStep
    BY <1>9, UTypes
    DEF CleanupWork, Goto, AfterReset, Woken, FreshStep, NotQueuedYet, Early, UInv,
        FreshInv, Unseen, subcore, counts, result, alloc, dispatch, handler, device,
        recovery
  <2>2. LetsGo
    BY <1>9, UTypes
    DEF CleanupWork, Goto, LetsGo, HandlerMoves, subcore, counts, result, alloc, dispatch,
        handler, device, recovery
  <2>3. QED
    BY <2>1, <2>2
<1>10. QED
  BY <1>1, <1>2, <1>3, <1>4, <1>5, <1>6, <1>7, <1>8, <1>9

\* rknpu_job_next() and the commit, but for the pop.
LEMMA DispatchLetsGo ==
  ASSUME UInv, UNCHANGED recovery, NEW t \in Threads, NEW c \in Cores,
         JobNextReturns(t, c) \/ JobNextCounts(t) \/ CommitCore(t, c)
  PROVE  FreshStep /\ LetsGo
<1>1. CASE JobNextReturns(t, c)
  <2>1. FreshStep
    BY <1>1, UTypes
    DEF JobNextReturns, Goto, AfterReset, Woken, FreshStep, NotQueuedYet, Early, UInv,
        FreshInv, subcore, counts, result, alloc, dispatch, handler, device, recovery
  <2>2. LetsGo
    BY <1>1, UTypes
    DEF JobNextReturns, Goto, LetsGo, HandlerMoves, subcore, counts, result, alloc,
        dispatch, handler, device, recovery
  <2>3. QED
    BY <2>1, <2>2
<1>2. CASE JobNextCounts(t)
  <2>1. FreshStep
    BY <1>2, UTypes
    DEF JobNextCounts, Goto, AfterReset, Woken, FreshStep, NotQueuedYet, Early, UInv,
        FreshInv, subcore, counts, result, alloc, dispatch, handler, device, recovery
  <2>2. LetsGo
    BY <1>2, UTypes
    DEF JobNextCounts, Goto, LetsGo, HandlerMoves, subcore, counts, result, alloc, dispatch,
        handler, device, recovery
  <2>3. QED
    BY <2>1, <2>2
<1>3. CASE CommitCore(t, c)
  <2>1. FreshStep
    BY <1>3, UTypes
    DEF CommitCore, Goto, AfterReset, Woken, FreshStep, NotQueuedYet, Early, UInv, FreshInv,
        Unseen, StartCore, subcore, counts, result, alloc, dispatch, handler, device,
        recovery
  <2>2. LetsGo
    <3>1. CASE CommitFails(cur[t])
      BY <1>3, <3>1, UTypes
      DEF CommitCore, LetsGo, HandlerMoves, alloc, handler, subcore, recovery
    <3>2. CASE ~CommitFails(cur[t])
      <4>1. UNCHANGED <<args, mask, irq_entry, slot, ijob, irq, target>>
        BY <1>3 DEF CommitCore, alloc, handler, subcore, recovery
      <4>2. \A u \in Threads : cur'[u] \in {cur[u], NoJob}
        BY <1>3, UTypes DEF CommitCore
      <4>3. \A k \in Jobs : int_mask[k] \subseteq int_mask'[k]
        <5>1. int_mask' = [int_mask EXCEPT ![cur[t]] = int_mask[cur[t]] \cup {c}]
          BY <1>3, <3>2 DEF CommitCore, StartCore
        <5>2. QED
          BY <5>1, UTypes
      <4>4. QED
        BY <4>1, <4>2, <4>3 DEF LetsGo, HandlerMoves
    <3>3. QED
      BY <3>1, <3>2
  <2>3. QED
    BY <2>1, <2>2
<1>4. QED
  BY <1>1, <1>2, <1>3

\* The hardware and the handler, but for its entry.
LEMMA HandlerLetsGo ==
  ASSUME UInv, UNCHANGED recovery, NEW c \in Cores,
         HwFinishes(c) \/ DoneRecommits(c) \/ DoneLastSegment(c) \/ DoneRetires(c) \/
         DoneNotLastCore(c) \/ DoneLastCore(c) \/ DoneSignals(c) \/ DoneWakes(c)
  PROVE  FreshStep /\ LetsGo
<1>1. CASE HwFinishes(c)
  <2>1. FreshStep
    BY <1>1, UTypes
    DEF HwFinishes, Goto, AfterReset, Woken, FreshStep, NotQueuedYet, Early, UInv, FreshInv,
        subcore, counts, result, alloc, dispatch, handler, device, recovery
  <2>2. LetsGo
    BY <1>1, UTypes
    DEF HwFinishes, Goto, LetsGo, HandlerMoves, subcore, counts, result, alloc, dispatch,
        handler, device, recovery
  <2>3. QED
    BY <2>1, <2>2
<1>2. CASE DoneRecommits(c)
  <2>1. FreshStep
    BY <1>2, UTypes
    DEF DoneRecommits, Goto, AfterReset, Woken, FreshStep, NotQueuedYet, Early, UInv,
        FreshInv, subcore, counts, result, alloc, dispatch, handler, device, recovery
  <2>2. LetsGo
    BY <1>2, UTypes
    DEF DoneRecommits, Goto, LetsGo, HandlerMoves, subcore, counts, result, alloc, dispatch,
        handler, device, recovery
  <2>3. QED
    BY <2>1, <2>2
<1>3. CASE DoneLastSegment(c)
  <2>1. FreshStep
    BY <1>3, UTypes
    DEF DoneLastSegment, Goto, AfterReset, Woken, FreshStep, NotQueuedYet, Early, UInv,
        FreshInv, subcore, counts, result, alloc, dispatch, handler, device, recovery
  <2>2. LetsGo
    BY <1>3, UTypes
    DEF DoneLastSegment, Goto, LetsGo, HandlerMoves, StatusValid, subcore, counts, result,
        alloc, dispatch, handler, device, recovery
  <2>3. QED
    BY <2>1, <2>2
<1>4. CASE DoneRetires(c)
  <2>1. FreshStep
    BY <1>4, UTypes
    DEF DoneRetires, Goto, AfterReset, Woken, FreshStep, NotQueuedYet, Early, UInv,
        FreshInv, subcore, counts, result, alloc, dispatch, handler, device, recovery
  <2>2. LetsGo
    BY <1>4, UTypes
    DEF DoneRetires, Goto, LetsGo, HandlerMoves, subcore, counts, result, alloc, dispatch,
        handler, device, recovery
  <2>3. QED
    BY <2>1, <2>2
<1>5. CASE DoneNotLastCore(c)
  <2>1. FreshStep
    BY <1>5, UTypes
    DEF DoneNotLastCore, Goto, AfterReset, Woken, FreshStep, NotQueuedYet, Early, UInv,
        FreshInv, subcore, counts, result, alloc, dispatch, handler, device, recovery
  <2>2. LetsGo
    BY <1>5, UTypes
    DEF DoneNotLastCore, Goto, LetsGo, HandlerMoves, subcore, counts, result, alloc,
        dispatch, handler, device, recovery
  <2>3. QED
    BY <2>1, <2>2
<1>6. CASE DoneLastCore(c)
  <2>1. FreshStep
    BY <1>6, UTypes
    DEF DoneLastCore, Goto, AfterReset, Woken, FreshStep, NotQueuedYet, Early, UInv,
        FreshInv, Unseen, subcore, counts, result, alloc, dispatch, handler, device,
        recovery
  <2>2. LetsGo
    BY <1>6, UTypes
    DEF DoneLastCore, Goto, LetsGo, HandlerMoves, subcore, counts, result, alloc, dispatch,
        handler, device, recovery
  <2>3. QED
    BY <2>1, <2>2
<1>7. CASE DoneSignals(c)
  <2>1. FreshStep
    BY <1>7, UTypes
    DEF DoneSignals, Goto, AfterReset, Woken, FreshStep, NotQueuedYet, Early, UInv,
        FreshInv, Unseen, subcore, counts, result, alloc, dispatch, handler, device,
        recovery
  <2>2. LetsGo
    BY <1>7, UTypes
    DEF DoneSignals, Goto, LetsGo, HandlerMoves, subcore, counts, result, alloc, dispatch,
        handler, device, recovery
  <2>3. QED
    BY <2>1, <2>2
<1>8. CASE DoneWakes(c)
  <2>1. FreshStep
    BY <1>8, UTypes
    DEF DoneWakes, Goto, AfterReset, Woken, FreshStep, NotQueuedYet, Early, UInv, FreshInv,
        subcore, counts, result, alloc, dispatch, handler, device, recovery
  <2>2. LetsGo
    BY <1>8, UTypes
    DEF DoneWakes, Goto, LetsGo, HandlerMoves, subcore, counts, result, alloc, dispatch,
        handler, device, recovery
  <2>3. QED
    BY <2>1, <2>2
<1>9. QED
  BY <1>1, <1>2, <1>3, <1>4, <1>5, <1>6, <1>7, <1>8

\* Waits that fail, aborts and resets.
LEMMA FailureLetsGo ==
  ASSUME UInv, NEW j \in Jobs,
         ScheduleFails(j) \/ WaitExpires(j) \/ WaitNeverCommitted(j) \/ WaitDequeues(j)
         \/ WaitFails(j) \/ CheckFails(j) \/ AbortClears(j) \/ AbortFrees(j) \/
         ResetSkipped(j) \/ ResetBegins(j) \/ ResetMarks(j) \/ ResetHits(j) \/ ResetErrs(j) \/
         ResetEnds(j) \/ ResetUnlocks(j) \/ CleanUnlinks(j) \/ CleanDrains(j) \/ CleanNextCore(j)
  PROVE  FreshStep /\ LetsGo
<1>1. CASE ScheduleFails(j)
  <2>1. FreshStep
    BY <1>1, UTypes
    DEF ScheduleFails, Goto, AfterReset, Woken, FreshStep, NotQueuedYet, Early, UInv,
        FreshInv, subcore, counts, result, alloc, dispatch, handler, device, recovery
  <2>2. LetsGo
    BY <1>1, UTypes
    DEF ScheduleFails, Goto, LetsGo, HandlerMoves, subcore, counts, result, alloc, dispatch,
        handler, device, recovery
  <2>3. QED
    BY <2>1, <2>2
<1>2. CASE WaitExpires(j)
  <2>1. FreshStep
    BY <1>2, UTypes
    DEF WaitExpires, Goto, AfterReset, Woken, FreshStep, NotQueuedYet, Early, UInv,
        FreshInv, subcore, counts, result, alloc, dispatch, handler, device, recovery
  <2>2. LetsGo
    BY <1>2, UTypes
    DEF WaitExpires, Goto, LetsGo, HandlerMoves, subcore, counts, result, alloc, dispatch,
        handler, device, recovery
  <2>3. QED
    BY <2>1, <2>2
<1>3. CASE WaitNeverCommitted(j)
  <2>1. FreshStep
    BY <1>3, UTypes
    DEF WaitNeverCommitted, Goto, AfterReset, Woken, FreshStep, NotQueuedYet, Early, UInv,
        FreshInv, subcore, counts, result, alloc, dispatch, handler, device, recovery
  <2>2. LetsGo
    BY <1>3, UTypes
    DEF WaitNeverCommitted, Goto, LetsGo, HandlerMoves, subcore, counts, result, alloc,
        dispatch, handler, device, recovery
  <2>3. QED
    BY <2>1, <2>2
<1>4. CASE WaitDequeues(j)
  <2>1. FreshStep
    BY <1>4, UTypes
    DEF WaitDequeues, Goto, AfterReset, Woken, FreshStep, NotQueuedYet, Early, UInv,
        FreshInv, subcore, counts, result, alloc, dispatch, handler, device, recovery
  <2>2. LetsGo
    BY <1>4, UTypes
    DEF WaitDequeues, Goto, LetsGo, HandlerMoves, subcore, counts, result, alloc, dispatch,
        handler, device, recovery
  <2>3. QED
    BY <2>1, <2>2
<1>5. CASE WaitFails(j)
  <2>1. FreshStep
    BY <1>5, UTypes
    DEF WaitFails, Goto, AfterReset, Woken, FreshStep, NotQueuedYet, Early, UInv, FreshInv,
        subcore, counts, result, alloc, dispatch, handler, device, recovery
  <2>2. LetsGo
    BY <1>5, UTypes
    DEF WaitFails, Goto, LetsGo, HandlerMoves, subcore, counts, result, alloc, dispatch,
        handler, device, recovery
  <2>3. QED
    BY <2>1, <2>2
<1>6. CASE CheckFails(j)
  <2>1. FreshStep
    BY <1>6, UTypes
    DEF CheckFails, Goto, AfterReset, Woken, FreshStep, NotQueuedYet, Early, UInv, FreshInv,
        subcore, counts, result, alloc, dispatch, handler, device, recovery
  <2>2. LetsGo
    BY <1>6, UTypes
    DEF CheckFails, Goto, LetsGo, HandlerMoves, subcore, counts, result, alloc, dispatch,
        handler, device, recovery
  <2>3. QED
    BY <2>1, <2>2
<1>7. CASE AbortClears(j)
  <2>1. FreshStep
    BY <1>7, UTypes
    DEF AbortClears, Goto, AfterReset, Woken, FreshStep, NotQueuedYet, Early, UInv,
        FreshInv, RInv, SweepInv, subcore, counts, result, alloc, dispatch, handler, device,
        recovery
  <2>2. LetsGo
    BY <1>7, UTypes
    DEF AbortClears, Goto, LetsGo, HandlerMoves, subcore, counts, result, alloc, dispatch,
        handler, device, recovery
  <2>3. QED
    BY <2>1, <2>2
<1>8. CASE AbortFrees(j)
  <2>1. FreshStep
    BY <1>8, UTypes
    DEF AbortFrees, Goto, AfterReset, Woken, FreshStep, NotQueuedYet, Early, UInv, FreshInv,
        subcore, counts, result, alloc, dispatch, handler, device, recovery
  <2>2. LetsGo
    BY <1>8, UTypes
    DEF AbortFrees, Goto, LetsGo, HandlerMoves, subcore, counts, result, alloc, dispatch,
        handler, device, recovery
  <2>3. QED
    BY <2>1, <2>2
<1>9. CASE ResetSkipped(j)
  <2>1. FreshStep
    BY <1>9, UTypes
    DEF ResetSkipped, Goto, AfterReset, Woken, FreshStep, NotQueuedYet, Early, UInv,
        FreshInv, subcore, counts, result, alloc, dispatch, handler, device, recovery
  <2>2. LetsGo
    BY <1>9, UTypes
    DEF ResetSkipped, Goto, LetsGo, HandlerMoves, subcore, counts, result, alloc, dispatch,
        handler, device, recovery
  <2>3. QED
    BY <2>1, <2>2
<1>10. CASE ResetBegins(j)
  <2>1. FreshStep
    BY <1>10, UTypes
    DEF ResetBegins, Goto, AfterReset, Woken, FreshStep, NotQueuedYet, Early, UInv,
        FreshInv, subcore, counts, result, alloc, dispatch, handler, device, recovery
  <2>2. LetsGo
    BY <1>10, UTypes
    DEF ResetBegins, Goto, LetsGo, HandlerMoves, subcore, counts, result, alloc, dispatch,
        handler, device, recovery
  <2>3. QED
    BY <2>1, <2>2
<1>11. CASE ResetHits(j)
  <2>1. FreshStep
    BY <1>11, UTypes
    DEF ResetHits, Goto, AfterReset, Woken, FreshStep, NotQueuedYet, Early, UInv, FreshInv,
        subcore, counts, result, alloc, dispatch, handler, device, recovery
  <2>2. LetsGo
    BY <1>11, UTypes
    DEF ResetHits, Goto, LetsGo, HandlerMoves, subcore, counts, result, alloc, dispatch,
        handler, device, recovery
  <2>3. QED
    BY <2>1, <2>2
<1>12. CASE ResetErrs(j)
  <2>1. FreshStep
    BY <1>12, UTypes
    DEF ResetErrs, Goto, AfterReset, Woken, FreshStep, NotQueuedYet, Early, UInv, FreshInv,
        subcore, counts, result, alloc, dispatch, handler, device, recovery
  <2>2. LetsGo
    BY <1>12, UTypes
    DEF ResetErrs, Goto, LetsGo, HandlerMoves, subcore, counts, result, alloc, dispatch,
        handler, device, recovery
  <2>3. QED
    BY <2>1, <2>2
<1>13. CASE ResetEnds(j)
  <2>1. FreshStep
    BY <1>13, UTypes
    DEF ResetEnds, Goto, AfterReset, Woken, FreshStep, NotQueuedYet, Early, UInv, FreshInv,
        subcore, counts, result, alloc, dispatch, handler, device, recovery
  <2>2. LetsGo
    BY <1>13, UTypes
    DEF ResetEnds, Goto, LetsGo, HandlerMoves, subcore, counts, result, alloc, dispatch,
        handler, device, recovery
  <2>3. QED
    BY <2>1, <2>2
<1>14. CASE CleanUnlinks(j)
  <2>1. FreshStep
    BY <1>14, UTypes
    DEF CleanUnlinks, Goto, AfterReset, Woken, FreshStep, NotQueuedYet, Early, UInv,
        FreshInv, Unlinks, Unseen, RInv, SweepInv, RTypeOK, subcore, counts, result, alloc,
        dispatch, handler, device, recovery
  <2>2. LetsGo
    BY <1>14, UTypes
    DEF CleanUnlinks, Goto, LetsGo, HandlerMoves, subcore, counts, result, alloc, dispatch,
        handler, device, recovery
  <2>3. QED
    BY <2>1, <2>2
<1>15. CASE CleanDrains(j)
  <2>1. FreshStep
    <3>1. PICK k \in Jobs : Unlinks(k) /\ \E c \in Cores : InTodo(k, c)
      <4>1. sweep[j] \in Cores /\ todo[sweep[j]] \in Seq(Jobs) /\ todo[sweep[j]] # <<>>
        BY <1>15, UTypes DEF CleanDrains, RInv, SweepInv, Sweeping
      <4>2. Head(todo[sweep[j]]) \in Jobs /\ InTodo(Head(todo[sweep[j]]), sweep[j])
        BY <4>1 DEF InTodo
      <4>3. QED
        BY <1>15, <4>1, <4>2 DEF CleanDrains
    <3>2. /\ UNCHANGED <<pc, mem, done, int_mask, ret, args>>
          /\ \A i \in Jobs : i # k => work'[i] = work[i]
      BY <1>15, <3>1, UTypes DEF CleanDrains, Unlinks, result, device
    <3>3. ~Unseen(k)
      BY <3>1 DEF Unseen
    <3>4. QED
      BY <3>2, <3>3 DEF FreshStep, NotQueuedYet, Early
  <2>2. LetsGo
    BY <1>15, UTypes
    DEF CleanDrains, Goto, LetsGo, HandlerMoves, subcore, counts, result, alloc, dispatch,
        handler, device, recovery
  <2>3. QED
    BY <2>1, <2>2
<1>16. CASE CleanNextCore(j)
  <2>1. FreshStep
    BY <1>16, UTypes
    DEF CleanNextCore, Goto, AfterReset, Woken, FreshStep, NotQueuedYet, Early, UInv,
        FreshInv, RInv, SweepInv, subcore, counts, result, alloc, dispatch, handler, device,
        recovery
  <2>2. LetsGo
    BY <1>16, UTypes
    DEF CleanNextCore, Goto, LetsGo, HandlerMoves, subcore, counts, result, alloc, dispatch,
        handler, device, recovery
  <2>3. QED
    BY <2>1, <2>2
<1>17. CASE ResetMarks(j)
  <2>1. FreshStep
    BY <1>17, UTypes
    DEF ResetMarks, Goto, AfterReset, Woken, FreshStep, NotQueuedYet, Early, UInv,
        FreshInv, subcore, counts, result, alloc, dispatch, handler, device, recovery
  <2>2. LetsGo
    BY <1>17, UTypes
    DEF ResetMarks, Goto, LetsGo, HandlerMoves, subcore, counts, result, alloc, dispatch,
        handler, device, recovery
  <2>3. QED
    BY <2>1, <2>2
<1>18. CASE ResetUnlocks(j)
  <2>1. FreshStep
    BY <1>18, UTypes
    DEF ResetUnlocks, Goto, AfterReset, Woken, FreshStep, NotQueuedYet, Early, UInv, FreshInv,
        subcore, counts, result, alloc, dispatch, handler, device, recovery
  <2>2. LetsGo
    BY <1>18, UTypes
    DEF ResetUnlocks, Goto, LetsGo, HandlerMoves, subcore, counts, result, alloc, dispatch,
        handler, device, recovery
  <2>3. QED
    BY <2>1, <2>2
<1>19. QED
  BY <1>1, <1>2, <1>3, <1>4, <1>5, <1>6, <1>7, <1>8, <1>9, <1>10, <1>11, <1>12, <1>13, <1>14,
     <1>15, <1>16,
     <1>17, <1>18

\* Interrupts with a wrong status, and interrupts without a job.
LEMMA SpuriousLetsGo ==
  ASSUME UInv, NEW c \in Cores,
         HwGlitches(c) \/ IrqWithoutJob(c) \/ IrqInvalid(c)
  PROVE  FreshStep /\ LetsGo
<1>1. CASE HwGlitches(c)
  <2>1. FreshStep
    BY <1>1, UTypes
    DEF HwGlitches, Goto, AfterReset, Woken, FreshStep, NotQueuedYet, Early, UInv, FreshInv,
        subcore, counts, result, alloc, dispatch, handler, device, recovery
  <2>2. LetsGo
    BY <1>1, UTypes
    DEF HwGlitches, Goto, LetsGo, HandlerMoves, subcore, counts, result, alloc, dispatch,
        handler, device, recovery
  <2>3. QED
    BY <2>1, <2>2
<1>2. CASE IrqWithoutJob(c)
  <2>1. FreshStep
    BY <1>2, UTypes
    DEF IrqWithoutJob, Goto, AfterReset, Woken, FreshStep, NotQueuedYet, Early, UInv,
        FreshInv, subcore, counts, result, alloc, dispatch, handler, device, recovery
  <2>2. LetsGo
    BY <1>2, UTypes
    DEF IrqWithoutJob, Goto, LetsGo, HandlerMoves, subcore, counts, result, alloc, dispatch,
        handler, device, recovery
  <2>3. QED
    BY <2>1, <2>2
<1>3. CASE IrqInvalid(c)
  <2>1. FreshStep
    BY <1>3, UTypes
    DEF IrqInvalid, Goto, AfterReset, Woken, FreshStep, NotQueuedYet, Early, UInv, FreshInv,
        subcore, counts, result, alloc, dispatch, handler, device, recovery
  <2>2. LetsGo
    BY <1>3, UTypes
    DEF IrqInvalid, Goto, LetsGo, HandlerMoves, subcore, counts, result, alloc, dispatch,
        handler, device, recovery
  <2>3. QED
    BY <2>1, <2>2
<1>4. QED
  BY <1>1, <1>2, <1>3

-----------------------------------------------------------------------------
(* The steps that make a new reference *)

\* An unseen job gets its core.
LEMMA PickCoreRefs ==
  ASSUME UInv, NEW j \in Jobs, PickCore(j), UNCHANGED recovery
  PROVE  NoRepeats' /\ FreshInv' /\ PlaceInv'
<1>0. Unseen(j)
  BY DEF PickCore, UInv, FreshInv, NotQueuedYet, Early
<1>1. /\ UNCHANGED <<todo, slot, args, done, work, int_mask, ret, ijob, irq, irq_entry, cur, target,
                     pc, mem>>
      /\ \A k \in Jobs : k # j => mask'[k] = mask[k]
  <2>1. \A k \in Jobs : k # j => mask'[k] = mask[k]
    BY UTypes DEF PickCore
  <2>2. QED
    BY <2>1 DEF PickCore, subcore, result, alloc, dispatch, handler, device, recovery
<1>2. \A k \in Jobs, c \in Cores : InTodo(k, c)' = InTodo(k, c)
  BY <1>1 DEF InTodo
<1>3. NoRepeats'
  BY <1>1 DEF UInv, NoRepeats
<1>4. FreshInv'
  <2>1. \A k \in Jobs : /\ NotQueuedYet(k)' = NotQueuedYet(k) /\ Early(k)' = Early(k)
                        /\ Unseen(k)' = Unseen(k)
    BY <1>1, <1>2 DEF NotQueuedYet, Early, Unseen
  <2>2. QED
    BY <1>1, <2>1 DEF UInv, FreshInv
<1>5. PlaceInv'
  BY <1>0, <1>1, <1>2 DEF UInv, PlaceInv, Unseen
<1>6. QED
  BY <1>3, <1>4, <1>5

\* rknpu_job_schedule(): the job joins lists it is not on.
LEMMA EnqueueRefs ==
  ASSUME UInv, NEW j \in Jobs, Enqueue(j), UNCHANGED recovery
  PROVE  /\ NoRepeats' /\ FreshInv' /\ PlaceInv'
         /\ \A k \in Jobs, c \in Cores : InTodo(k, c)' <=> InTodo(k, c) \/ (k = j /\ c \in mask[j])
<1>0. Unseen(j) /\ mem[j] = "live" /\ pc[j] = "schedule"
  BY DEF Enqueue, UInv, FreshInv, NotQueuedYet, Early
<1>1. /\ UNCHANGED <<slot, args, done, work, int_mask, ret, ijob, irq, irq_entry, cur, target, mem,
                     mask>>
      /\ pc'[j] = "queued" /\ \A k \in Jobs : k # j => pc'[k] = pc[k]
  <2>1. pc'[j] = "queued" /\ \A k \in Jobs : k # j => pc'[k] = pc[k]
    BY UTypes DEF Enqueue
  <2>2. QED
    BY <2>1 DEF Enqueue, result, alloc, handler, device, recovery
<1>2. ASSUME NEW c \in Cores
      PROVE  /\ \A k \in Jobs : InTodo(k, c)' <=> InTodo(k, c) \/ (k = j /\ c \in mask[j])
             /\ \A m, n \in 1 .. Len(todo'[c]) : todo'[c][m] = todo'[c][n] => m = n
  <2>0. /\ todo[c] \in Seq(Jobs) /\ ~InTodo(j, c)
        /\ \A m, n \in 1 .. Len(todo[c]) : todo[c][m] = todo[c][n] => m = n
    BY <1>0, UTypes DEF UInv, NoRepeats, Unseen
  <2>1. CASE c \notin mask[j]
    <3>1. todo'[c] = todo[c]
      BY <2>1 DEF Enqueue
    <3>2. QED
      BY <2>0, <2>1, <3>1 DEF InTodo
  <2>2. CASE c \in mask[j]
    <3>1. todo'[c] = Append(todo[c], j)
      BY <2>2 DEF Enqueue
    <3>2. /\ Len(todo[c]) \in Nat /\ Len(todo'[c]) = Len(todo[c]) + 1
          /\ \A i \in 1 .. Len(todo[c]) : todo'[c][i] = todo[c][i]
          /\ todo'[c][Len(todo[c]) + 1] = j
      BY <2>0, <3>1, AppendProperties
    <3>3. \A i \in 1 .. Len(todo'[c]) : i \in 1 .. Len(todo[c]) \/ i = Len(todo[c]) + 1
      BY <3>2
    <3>4. \A m, n \in 1 .. Len(todo'[c]) : todo'[c][m] = todo'[c][n] => m = n
      BY <2>0, <3>2, <3>3 DEF InTodo
    <3>5. ASSUME NEW k \in Jobs
          PROVE  InTodo(k, c)' <=> InTodo(k, c) \/ k = j
      <4>1. InTodo(k, c) => InTodo(k, c)'
        BY <3>2 DEF InTodo
      <4>2. InTodo(j, c)'
        BY <3>2 DEF InTodo
      <4>3. InTodo(k, c)' => InTodo(k, c) \/ k = j
        BY <3>2, <3>3 DEF InTodo
      <4>4. QED
        BY <4>1, <4>2, <4>3
    <3>6. QED
      BY <2>2, <3>4, <3>5
  <2>3. QED
    BY <2>1, <2>2
<1>3. NoRepeats'
  BY <1>2 DEF NoRepeats
<1>4. FreshInv'
  <2>1. ~Early(j)' /\ ~NotQueuedYet(j)'
    BY <1>0, <1>1 DEF Early, NotQueuedYet
  <2>2. \A k \in Jobs : k # j => /\ NotQueuedYet(k)' = NotQueuedYet(k) /\ Early(k)' = Early(k)
                                 /\ Unseen(k)' = Unseen(k)
    BY <1>1, <1>2 DEF NotQueuedYet, Early, Unseen
  <2>3. QED
    BY <1>0, <1>1, <2>1, <2>2 DEF UInv, FreshInv
<1>5. PlaceInv'
  <2> SUFFICES ASSUME NEW k \in Jobs, NEW c \in Cores
               PROVE  PlaceInv!(k, c)'
    BY DEF PlaceInv
  <2>1. PlaceInv!(k, c)
    BY DEF UInv, PlaceInv
  <2>2. InTodo(k, c)' => c \in mask[k] /\ slot[c] # k /\ c \notin irq_entry[k]
    BY <1>0, <1>2, <2>1 DEF Unseen
  <2>3. QED
    BY <1>1, <2>1, <2>2
<1>6. QED
  BY <1>2, <1>3, <1>4, <1>5

\* rknpu_job_next(): the head of the list moves to the slot and to the caller.
LEMMA JobNextPopsRefs ==
  ASSUME UInv, NEW t \in Threads, NEW c \in Cores, JobNextPops(t, c), UNCHANGED recovery
  PROVE  /\ NoRepeats' /\ FreshInv' /\ PlaceInv'
         /\ \E h \in Jobs :
               /\ InTodo(h, c) /\ ~InTodo(h, c)' /\ cur' = [cur EXCEPT ![t] = h]
               /\ slot' = [slot EXCEPT ![c] = h]
               /\ \A k \in Jobs, d \in Cores : (k # h \/ d # c) => (InTodo(k, d)' <=> InTodo(k, d))
<1>0. todo[c] \in Seq(Jobs) /\ todo[c] # <<>>
  BY UTypes DEF JobNextPops, NothingToStart
<1>1. PICK h \in Jobs : h = Head(todo[c]) /\ InTodo(h, c)
  BY <1>0 DEF InTodo
<1>2. /\ UNCHANGED <<mask, args, done, work, int_mask, ret, ijob, irq, irq_entry, target, mem, pc>>
      /\ slot' = [slot EXCEPT ![c] = h] /\ cur' = [cur EXCEPT ![t] = h]
  BY <1>1 DEF JobNextPops, result, alloc, handler, device, recovery
<1>3. todo'[c] = Tail(todo[c]) /\ \A d \in Cores : d # c => todo'[d] = todo[d]
  BY UTypes DEF JobNextPops
<1>4. /\ Len(todo[c]) \in Nat /\ Len(todo'[c]) = Len(todo[c]) - 1 /\ todo[c][1] = h
      /\ \A i \in 1 .. Len(todo'[c]) : i + 1 \in 1 .. Len(todo[c]) /\ todo'[c][i] = todo[c][i + 1]
  BY <1>0, <1>1, <1>3
<1>5. \A m, n \in 1 .. Len(todo[c]) : todo[c][m] = todo[c][n] => m = n
  BY DEF UInv, NoRepeats
<1>6. NoRepeats'
  <2>1. \A m, n \in 1 .. Len(todo'[c]) : todo'[c][m] = todo'[c][n] => m = n
    BY <1>4, <1>5
  <2>2. QED
    BY <1>3, <2>1 DEF UInv, NoRepeats
<1>7. ~InTodo(h, c)'
  BY <1>4, <1>5 DEF InTodo
<1>8. \A k \in Jobs : k # h => (InTodo(k, c)' <=> InTodo(k, c))
  <2>1. \A k \in Jobs : InTodo(k, c)' => InTodo(k, c)
    BY <1>4 DEF InTodo
  <2>2. ASSUME NEW k \in Jobs, k # h, InTodo(k, c)
        PROVE  InTodo(k, c)'
    <3>1. PICK i \in 1 .. Len(todo[c]) : todo[c][i] = k
      BY <2>2 DEF InTodo
    <3>2. i - 1 \in 1 .. Len(todo'[c]) /\ todo'[c][i - 1] = k
      BY <1>4, <2>2, <3>1
    <3>3. QED
      BY <3>2 DEF InTodo
  <2>3. QED
    BY <2>1, <2>2
<1>9. \A k \in Jobs, d \in Cores : (k # h \/ d # c) => (InTodo(k, d)' <=> InTodo(k, d))
  BY <1>3, <1>8 DEF InTodo
<1>10. \A k \in Jobs, d \in Cores : InTodo(k, d)' => InTodo(k, d)
  BY <1>7, <1>9
<1>11. FreshInv'
  <2>1. ~Unseen(h)
    BY <1>1 DEF Unseen
  <2>2. ASSUME NEW k \in Jobs, Unseen(k)
        PROVE  Unseen(k)'
    <3>1. k # h
      BY <2>1, <2>2
    <3>2. /\ \A d \in Cores : slot'[d] # k /\ ~InTodo(k, d)'
          /\ \A u \in Threads : cur'[u] # k
      BY <1>2, <1>10, <2>2, <3>1, UTypes DEF Unseen
    <3>3. QED
      BY <1>2, <2>2, <3>2 DEF Unseen
  <2>3. \A k \in Jobs : NotQueuedYet(k)' = NotQueuedYet(k) /\ Early(k)' = Early(k)
    BY <1>2 DEF NotQueuedYet, Early
  <2>4. QED
    BY <1>2, <2>2, <2>3 DEF UInv, FreshInv
<1>12. PlaceInv'
  <2> SUFFICES ASSUME NEW k \in Jobs, NEW d \in Cores
               PROVE  PlaceInv!(k, d)'
    BY DEF PlaceInv
  <2>1. PlaceInv!(k, d) /\ PlaceInv!(h, c)
    BY DEF UInv, PlaceInv
  <2>2. CASE slot'[d] = slot[d]
    BY <1>2, <1>10, <2>1, <2>2
  <2>3. CASE d = c /\ slot'[c] = h
    <3>1. c \in mask[h] /\ c \notin irq_entry[h] /\ ~InTodo(h, c)'
      BY <1>1, <1>7, <2>1
    <3>2. ijob[c] # h
      BY <2>1, <3>1
    <3>3. QED
      BY <1>2, <1>10, <2>1, <2>3, <3>1, <3>2
  <2>4. QED
    BY <1>2, <2>2, <2>3, UTypes
<1>13. QED
  BY <1>1, <1>2, <1>6, <1>7, <1>9, <1>11, <1>12

\* rknpu_irq_handler() takes the job of its core's slot.
LEMMA IrqEntersRefs ==
  ASSUME UInv, NEW c \in Cores, IrqEnters(c), UNCHANGED recovery
  PROVE  NoRepeats' /\ FreshInv' /\ PlaceInv'
<1>1. PICK h \in Jobs : h = slot[c]
  BY UTypes DEF IrqEnters
<1>2. /\ UNCHANGED <<todo, slot, mask, args, done, work, int_mask, ret, cur, target, mem, pc>>
      /\ ijob' = [ijob EXCEPT ![c] = h] /\ irq' = [irq EXCEPT ![c] = "status"]
      /\ irq_entry' = [irq_entry EXCEPT ![h] = irq_entry[h] \cup {c}]
  BY <1>1 DEF IrqEnters, subcore, result, alloc, dispatch, device, recovery
<1>3. \A k \in Jobs, d \in Cores : InTodo(k, d)' = InTodo(k, d)
  BY <1>2 DEF InTodo
<1>4. NoRepeats'
  BY <1>2 DEF UInv, NoRepeats
<1>5. FreshInv'
  <2>1. ASSUME NEW k \in Jobs, Unseen(k)
        PROVE  Unseen(k)'
    <3>1. k # h
      BY <1>1, <2>1 DEF Unseen
    <3>2. \A d \in Cores : ijob'[d] # k /\ d \notin irq_entry'[k]
      BY <1>2, <2>1, <3>1, UTypes DEF Unseen
    <3>3. QED
      BY <1>2, <1>3, <2>1, <3>2 DEF Unseen
  <2>2. \A k \in Jobs : NotQueuedYet(k)' = NotQueuedYet(k) /\ Early(k)' = Early(k)
    BY <1>2 DEF NotQueuedYet, Early
  <2>3. QED
    BY <1>2, <2>1, <2>2 DEF UInv, FreshInv
<1>6. PlaceInv'
  <2> SUFFICES ASSUME NEW k \in Jobs, NEW d \in Cores
               PROVE  PlaceInv!(k, d)'
    BY DEF PlaceInv
  <2>1. PlaceInv!(k, d) /\ PlaceInv!(h, c)
    BY DEF UInv, PlaceInv
  <2>2. /\ \A x \in Cores : x \in irq_entry'[k] <=> x \in irq_entry[k] \/ (k = h /\ x = c)
        /\ d # c => ijob'[d] = ijob[d] /\ irq'[d] = irq[d]
        /\ ijob'[c] = h /\ irq'[c] = "status"
    BY <1>2, UTypes
  <2>3. CASE d # c
    BY <1>2, <1>3, <2>1, <2>2, <2>3
  <2>4. CASE d = c
    BY <1>1, <1>2, <1>3, <2>1, <2>2, <2>4
  <2>5. QED
    BY <2>3, <2>4
<1>7. QED
  BY <1>4, <1>5, <1>6

\* rknpu_job_timeout_clean() reads the job of a slot.
LEMMA CleanExpiredRefs ==
  ASSUME UInv, NEW j \in Jobs, NEW c \in Cores, CleanExpired(j, c)
  PROVE  NoRepeats' /\ FreshInv' /\ PlaceInv'
<1>1. PICK h \in Jobs : h = slot[c]
  BY UTypes DEF CleanExpired
<1>2. /\ UNCHANGED <<todo, slot, mask, args, done, work, int_mask, ret, cur, mem, ijob, irq,
                     irq_entry>>
      /\ target' = [target EXCEPT ![j] = h] /\ pc' = [pc EXCEPT ![j] = "reset"]
      /\ pc[j] = "clean" /\ args[j].nonblock
  BY <1>1 DEF CleanExpired, Goto, subcore, result, alloc, dispatch, handler, device, UInv, RInv,
              SweepInv
<1>3. \A k \in Jobs, d \in Cores : InTodo(k, d)' = InTodo(k, d)
  BY <1>2 DEF InTodo
<1>4. NoRepeats'
  BY <1>2 DEF UInv, NoRepeats
<1>5. FreshInv'
  <2>1. ASSUME NEW k \in Jobs, Unseen(k)
        PROVE  Unseen(k)'
    <3>1. k # h
      BY <1>1, <2>1 DEF Unseen
    <3>2. \A i \in Jobs : target'[i] # k
      BY <1>2, <2>1, <3>1, UTypes DEF Unseen
    <3>3. QED
      BY <1>2, <1>3, <2>1, <3>2 DEF Unseen
  <2>2. /\ pc'[j] = "reset" /\ Early(j) /\ Early(j)'
        /\ \A k \in Jobs : k # j => pc'[k] = pc[k]
        /\ \A k \in Jobs : NotQueuedYet(k)' = NotQueuedYet(k) /\ Early(k)' = Early(k)
    BY <1>2, UTypes DEF NotQueuedYet, Early
  <2>3. QED
    BY <1>2, <2>1, <2>2 DEF UInv, FreshInv
<1>6. PlaceInv'
  BY <1>2, <1>3 DEF UInv, PlaceInv
<1>7. QED
  BY <1>4, <1>5, <1>6

-----------------------------------------------------------------------------
(* Every step keeps the references in order *)

\* A step that lets go of jobs and leaves the lists alone.
LEMMA SameListsKeep ==
  ASSUME UInv, RInv', FreshStep, LetsGo, todo' = todo
  PROVE  UInv'
<1>1. NoRepeats' /\ \A j \in Jobs, c \in Cores : InTodo(j, c)' => InTodo(j, c)
  BY ListsSame DEF UInv
<1>2. FreshInv' /\ PlaceInv'
  BY <1>1, LetsGoKeeps, UTypes DEF UInv
<1>3. QED
  BY <1>1, <1>2 DEF UInv

\* A stuttering step.
LEMMA StutterKeeps ==
  ASSUME UInv, RInv', UNCHANGED vars, UNCHANGED recovery
  PROVE  UInv'
<1>1. UNCHANGED <<todo, slot, mask, args, done, work, int_mask, ret, cur, mem, ijob, irq,
                  irq_entry, target, pc>>
  BY DEF vars, subcore, result, alloc, dispatch, handler, device, recovery
<1>2. FreshStep
  BY <1>1 DEF FreshStep, NotQueuedYet, Early, UInv, FreshInv
<1>3. LetsGo
  BY <1>1 DEF LetsGo, HandlerMoves
<1>4. QED
  BY <1>1, <1>2, <1>3, SameListsKeep

\* A step that removes job k from the lists of the cores of S.
Removes(k, S) ==
    \A c \in Cores : todo'[c] = IF c \in S THEN Without(todo[c], k) ELSE todo[c]

\* A step that lets go of jobs and takes one off some lists.
LEMMA RemovingKeeps ==
  ASSUME UInv, RInv', FreshStep, LetsGo, NEW k, NEW S \in SUBSET Cores, Removes(k, S)
  PROVE  UInv'
<1>0. /\ TypeOK /\ NoRepeats
      /\ \A c \in Cores : todo'[c] = IF c \in S THEN Without(todo[c], k) ELSE todo[c]
  BY UTypes DEF UInv, Removes
<1>1. NoRepeats' /\ \A j \in Jobs, c \in Cores : InTodo(j, c)' => InTodo(j, c)
  BY <1>0, ListsShrink
<1>2. FreshInv' /\ PlaceInv'
  BY <1>1, LetsGoKeeps, UTypes DEF UInv
<1>3. QED
  BY <1>1, <1>2 DEF UInv

\* The three steps that take a job off lists.
LEMMA RemovingSteps ==
  ASSUME UInv, NEW j \in Jobs
  PROVE  /\ WaitDequeues(j) => Removes(j, {c \in Cores : c < Cardinality(mask[j])})
         /\ CleanUnlinks(j) => target[j] \in Jobs /\ Removes(target[j], Cores)
         /\ CleanDrains(j) => \E k \in Jobs :
               /\ Unlinks(k) /\ Removes(k, Cores) /\ sweep[j] \in Cores /\ InTodo(k, sweep[j])
<1>1. WaitDequeues(j) => Removes(j, {c \in Cores : c < Cardinality(mask[j])})
  BY DEF WaitDequeues, Removes
<1>2. CleanUnlinks(j) => target[j] \in Jobs /\ Removes(target[j], Cores)
  BY UTypes DEF CleanUnlinks, Unlinks, Removes, RTypeOK
<1>3. ASSUME CleanDrains(j)
      PROVE  \E k \in Jobs :
               /\ Unlinks(k) /\ Removes(k, Cores) /\ sweep[j] \in Cores /\ InTodo(k, sweep[j])
  <2>1. sweep[j] \in Cores /\ todo[sweep[j]] \in Seq(Jobs) /\ todo[sweep[j]] # <<>>
    BY <1>3, UTypes DEF CleanDrains, RInv, SweepInv, Sweeping
  <2>2. Head(todo[sweep[j]]) \in Jobs /\ InTodo(Head(todo[sweep[j]]), sweep[j])
    BY <2>1 DEF InTodo
  <2>3. QED
    BY <1>3, <2>1, <2>2 DEF CleanDrains, Unlinks, Removes
<1>4. QED
  BY <1>1, <1>2, <1>3

\* A step of the job path.
LEMMA JobPathRefs ==
  ASSUME UInv, RInv', Next, UNCHANGED recovery
  PROVE  UInv'
<1>1. ASSUME NEW j \in Jobs, \/ SubmitFails(j) \/ Submit(j) \/ CleanNothing(j) \/ Scheduled(j)
             \/ WaitSleeps(j) \/ WaitEnds(j) \/ WaitSucceeds(j) \/ Returns(j) \/ CleanupWork(j)
      PROVE  UInv'
  <2>1. todo' = todo
    BY <1>1 DEF SubmitFails, Submit, CleanNothing, Scheduled, WaitSleeps, WaitEnds, WaitSucceeds,
                Returns, CleanupWork, subcore
  <2>2. QED
    BY <1>1, <2>1, SubmitterLetsGo, SameListsKeep
<1>2. ASSUME NEW j \in Jobs, PickCore(j) \/ Enqueue(j)
      PROVE  UInv'
  BY <1>2, PickCoreRefs, EnqueueRefs DEF UInv
<1>3. ASSUME NEW t \in Threads, NEW c \in Cores,
             JobNextReturns(t, c) \/ JobNextCounts(t) \/ CommitCore(t, c)
      PROVE  UInv'
  <2>1. todo' = todo
    BY <1>3 DEF JobNextReturns, JobNextCounts, CommitCore, subcore
  <2>2. QED
    BY <1>3, <2>1, DispatchLetsGo, SameListsKeep
<1>4. ASSUME NEW t \in Threads, NEW c \in Cores, JobNextPops(t, c)
      PROVE  UInv'
  BY <1>4, JobNextPopsRefs DEF UInv
<1>5. ASSUME NEW c \in Cores, \/ HwFinishes(c) \/ DoneRecommits(c) \/ DoneLastSegment(c)
             \/ DoneRetires(c) \/ DoneNotLastCore(c) \/ DoneLastCore(c) \/ DoneSignals(c)
             \/ DoneWakes(c)
      PROVE  UInv'
  <2>1. todo' = todo
    BY <1>5 DEF HwFinishes, DoneRecommits, DoneLastSegment, DoneRetires, DoneNotLastCore,
                DoneLastCore, DoneSignals, DoneWakes, subcore
  <2>2. QED
    BY <1>5, <2>1, HandlerLetsGo, SameListsKeep
<1>6. ASSUME NEW c \in Cores, IrqEnters(c)
      PROVE  UInv'
  BY <1>6, IrqEntersRefs DEF UInv
<1>7. CASE AllReturned
  BY <1>7, StutterKeeps DEF AllReturned
<1>8. ASSUME NEW t \in Threads, DispatchStep(t)
      PROVE  UInv'
  BY <1>3, <1>4, <1>8, ZeroIsCore DEF DispatchStep
<1>9. QED
  BY <1>1, <1>2, <1>5, <1>6, <1>7, <1>8 DEF Next, SubmitterStep, HandlerStep

\* A step of the recovery.
LEMMA RecoveryRefs ==
  ASSUME UInv, RInv', NEW j \in Jobs, ScheduleFails(j) \/ WaitExpires(j) \/ RecoveryStep(j)
  PROVE  UInv'
<1>1. FreshStep /\ LetsGo
  BY FailureLetsGo DEF RecoveryStep
<1>2. CASE WaitDequeues(j) \/ CleanUnlinks(j) \/ CleanDrains(j)
  <2>1. PICK k \in Jobs : \E S \in SUBSET Cores : Removes(k, S)
    BY <1>2, RemovingSteps
  <2>2. QED
    BY <1>1, <2>1, RemovingKeeps
<1>3. CASE ~(WaitDequeues(j) \/ CleanUnlinks(j) \/ CleanDrains(j))
  <2>1. todo' = todo
    BY <1>3 DEF ScheduleFails, WaitExpires, RecoveryStep, WaitNeverCommitted, WaitFails,
                CheckFails, AbortClears, AbortFrees, ResetSkipped, ResetBegins, ResetMarks,
                ResetHits, ResetErrs, ResetEnds, ResetUnlocks, CleanNextCore, subcore
  <2>2. QED
    BY <1>1, <2>1, SameListsKeep
<1>4. QED
  BY <1>2, <1>3

\* The reset the user asks for.
LEMMA UserResetRefs ==
  ASSUME UInv, RInv', UserReset \/ \E t \in Threads : JobNextChecks(t)
  PROVE  UInv'
<1>1. /\ UNCHANGED <<todo, slot, mask, args, done, work, int_mask, ret, cur, mem, ijob, irq,
                     irq_entry, target>>
      /\ \A k \in Jobs : pc'[k] = pc[k] \/ (pc[k] = "asleep" /\ pc'[k] = "wait")
  <2>1. CASE UserResetBegins \/ UserResetMarks \/ UserResetEnds \/ UserResetUnlocks
    BY <2>1
    DEF UserResetBegins, UserResetMarks, UserResetEnds, UserResetUnlocks, subcore, result, alloc,
        dispatch, handler, device
  <2>2. CASE UserResetHits
    BY <2>2 DEF UserResetHits, subcore, result, alloc, dispatch, handler, device
  <2>3. ASSUME NEW t \in Threads, JobNextChecks(t)
        PROVE  UNCHANGED <<todo, slot, mask, args, done, work, int_mask, ret, cur, mem, ijob, irq,
                           irq_entry, target, pc>>
    BY <2>3 DEF JobNextChecks, subcore, result, alloc, handler, device, recovery
  <2>4. QED
    BY <2>1, <2>2, <2>3 DEF UserReset
<1>2. FreshStep
  BY <1>1 DEF FreshStep, NotQueuedYet, Early, UInv, FreshInv
<1>3. LetsGo
  BY <1>1 DEF LetsGo, HandlerMoves
<1>4. QED
  BY <1>1, <1>2, <1>3, SameListsKeep

\* The initial states.
LEMMA UInit == RInit => UInv
<1> SUFFICES ASSUME RInit
             PROVE  UInv
  OBVIOUS
<1>1. RInv
  BY RInvInit
<1>2. Init /\ \A k \in Jobs : target[k] = NoJob
  BY DEF RInit
<1>3. NoRepeats /\ \A j \in Jobs, c \in Cores : ~InTodo(j, c)
  BY <1>2 DEF Init, NoRepeats, InTodo
<1>4. FreshInv
  BY <1>2, <1>3, ConstantsAssumption DEF Init, FreshInv, NotQueuedYet, Unseen, Early
<1>5. PlaceInv
  BY <1>2, <1>3, ConstantsAssumption DEF Init, PlaceInv
<1>6. QED
  BY <1>1, <1>3, <1>4, <1>5 DEF UInv

\* Every step.
LEMMA UStep == UInv /\ [RNext]_rvars => UInv'
<1> SUFFICES ASSUME UInv, [RNext]_rvars
             PROVE  UInv'
  OBVIOUS
<1>0. RInv'
  BY RInvStep DEF UInv
<1>1. CASE Next /\ UNCHANGED recovery
  BY <1>0, <1>1, JobPathRefs
<1>2. ASSUME NEW j \in Jobs, ScheduleFails(j) \/ WaitExpires(j) \/ RecoveryStep(j)
      PROVE  UInv'
  BY <1>0, <1>2, RecoveryRefs
<1>3. ASSUME NEW j \in Jobs, NEW c \in Cores, CleanExpired(j, c)
      PROVE  UInv'
  BY <1>0, <1>3, CleanExpiredRefs DEF UInv
<1>4. ASSUME NEW c \in Cores, HwGlitches(c) \/ RHandlerStep(c)
      PROVE  UInv'
  <2>1. todo' = todo
    BY <1>4 DEF HwGlitches, RHandlerStep, IrqWithoutJob, IrqInvalid, subcore
  <2>2. QED
    BY <1>0, <1>4, <2>1, SpuriousLetsGo, SameListsKeep DEF RHandlerStep
<1>5. CASE UserReset \/ \E t \in Threads : JobNextChecks(t)
  BY <1>0, <1>5, UserResetRefs
<1>6. CASE UNCHANGED rvars
  BY <1>0, <1>6, StutterKeeps DEF rvars
<1>7. QED
  BY <1>1, <1>2, <1>3, <1>4, <1>5, <1>6 DEF RNext

\* The references are in order in every reachable state.
LEMMA UInvariance == RSpec => []UInv
  BY UInit, UStep, PTL DEF RSpec

-----------------------------------------------------------------------------
(* What the steps do to lists and slots, and to the clean-up work *)

\* No job comes to a list or a slot.
Shrinks ==
    /\ \A j \in Jobs, c \in Cores : InTodo(j, c)' => InTodo(j, c)
    /\ \A c \in Cores : slot'[c] \in {slot[c], NoJob}

\* Only rknpu_job_schedule() puts a job on a list, and only rknpu_job_next() puts
\* one in a slot.
LEMMA ShrinkingSteps ==
  ASSUME UInv, [RNext]_rvars
  PROVE  \/ Shrinks
         \/ \E j \in Jobs : Enqueue(j) /\ UNCHANGED recovery
         \/ \E t \in Threads, c \in Cores : JobNextPops(t, c) /\ UNCHANGED recovery
<1>0. ASSUME todo' = todo, \A c \in Cores : slot'[c] \in {slot[c], NoJob}
      PROVE  Shrinks
  BY <1>0 DEF Shrinks, InTodo
<1>1. ASSUME NEW j \in Jobs, \/ SubmitFails(j) \/ Submit(j) \/ CleanNothing(j) \/ Scheduled(j)
             \/ WaitSleeps(j) \/ WaitEnds(j) \/ WaitSucceeds(j) \/ Returns(j) \/ CleanupWork(j)
             \/ PickCore(j)
      PROVE  Shrinks
  BY <1>0, <1>1
  DEF SubmitFails, Submit, CleanNothing, Scheduled, WaitSleeps, WaitEnds, WaitSucceeds, Returns,
      CleanupWork, PickCore, subcore
<1>2. ASSUME NEW t \in Threads, NEW c \in Cores,
             JobNextReturns(t, c) \/ JobNextCounts(t) \/ CommitCore(t, c)
      PROVE  Shrinks
  BY <1>0, <1>2 DEF JobNextReturns, JobNextCounts, CommitCore, subcore
<1>3. ASSUME NEW c \in Cores, \/ HwFinishes(c) \/ HandlerStep(c) \/ HwGlitches(c) \/ RHandlerStep(c)
      PROVE  Shrinks
  <2>1. todo' = todo
    BY <1>3 DEF HwFinishes, HandlerStep, DoneRecommits, DoneLastSegment, DoneRetires,
                DoneNotLastCore, DoneLastCore, DoneSignals, DoneWakes, IrqEnters, HwGlitches,
                RHandlerStep, IrqWithoutJob, IrqInvalid, subcore
  <2>2. CASE DoneRetires(c)
    BY <1>0, <2>1, <2>2, UTypes DEF DoneRetires
  <2>3. CASE ~DoneRetires(c)
    <3>1. slot' = slot
      BY <1>3, <2>3
      DEF HwFinishes, HandlerStep, DoneRecommits, DoneLastSegment, DoneNotLastCore, DoneLastCore,
          DoneSignals, DoneWakes, IrqEnters, HwGlitches, RHandlerStep, IrqWithoutJob, IrqInvalid,
          subcore
    <3>2. QED
      BY <1>0, <2>1, <3>1
  <2>4. QED
    BY <2>2, <2>3
<1>4. ASSUME NEW j \in Jobs, ScheduleFails(j) \/ WaitExpires(j) \/ RecoveryStep(j)
      PROVE  Shrinks
  <2>1. \A c \in Cores : slot'[c] \in {slot[c], NoJob}
    BY <1>4, FailureLetsGo DEF RecoveryStep, LetsGo
  <2>2. CASE WaitDequeues(j) \/ CleanUnlinks(j) \/ CleanDrains(j)
    <3>1. PICK k \in Jobs : \E S \in SUBSET Cores : Removes(k, S)
      BY <2>2, RemovingSteps
    <3>2. PICK S \in SUBSET Cores : Removes(k, S)
      BY <3>1
    <3>3. /\ TypeOK /\ NoRepeats
          /\ \A c \in Cores : todo'[c] = IF c \in S THEN Without(todo[c], k) ELSE todo[c]
      BY <3>2, UTypes DEF UInv, Removes
    <3>4. \A i \in Jobs, c \in Cores : InTodo(i, c)' => InTodo(i, c)
      BY <3>3, ListsShrink
    <3>5. QED
      BY <2>1, <3>4 DEF Shrinks
  <2>3. CASE ~(WaitDequeues(j) \/ CleanUnlinks(j) \/ CleanDrains(j))
    <3>1. todo' = todo
      BY <1>4, <2>3
      DEF ScheduleFails, WaitExpires, RecoveryStep, WaitNeverCommitted, WaitFails, CheckFails,
          AbortClears, AbortFrees, ResetSkipped, ResetBegins, ResetMarks, ResetHits, ResetErrs,
          ResetEnds, ResetUnlocks, CleanNextCore, subcore
    <3>2. QED
      BY <1>0, <2>1, <3>1
  <2>4. QED
    BY <2>2, <2>3
<1>5. ASSUME NEW j \in Jobs, NEW c \in Cores, CleanExpired(j, c)
      PROVE  Shrinks
  BY <1>0, <1>5 DEF CleanExpired, subcore
<1>6. CASE UserReset \/ (\E t \in Threads : JobNextChecks(t)) \/ UNCHANGED vars
  BY <1>0, <1>6 DEF UserReset, UserResetBegins, UserResetMarks, UserResetHits, UserResetEnds,
                    UserResetUnlocks, JobNextChecks, vars, subcore
<1>7. CASE Next /\ UNCHANGED recovery
  BY <1>1, <1>2, <1>3, <1>6, <1>7, ZeroIsCore DEF Next, SubmitterStep, DispatchStep, AllReturned
<1>8. QED
  BY <1>3, <1>4, <1>5, <1>6, <1>7 DEF RNext, rvars

\* Only rknpu_job_schedule() chooses a core, and no step changes a job's arguments.
LEMMA MaskSteps ==
  ASSUME UInv, [RNext]_rvars
  PROVE  args' = args /\ (mask' = mask \/ \E j \in Jobs : PickCore(j))
<1>1. CASE Next /\ UNCHANGED recovery
  <2>1. args' = args
    BY <1>1, JobPathMoves, UTypes DEF Moves
  <2>2. ASSUME NEW j \in Jobs, SubmitFails(j) \/ Submit(j) \/ SubmitterStep(j) \/ CleanupWork(j)
        PROVE  mask' = mask \/ PickCore(j)
    BY <2>2
    DEF SubmitterStep, SubmitFails, Submit, CleanNothing, Enqueue, Scheduled, WaitSleeps,
        WaitEnds, WaitSucceeds, Returns, CleanupWork
  <2>3. ASSUME NEW t \in Threads, DispatchStep(t)
        PROVE  mask' = mask
    BY <2>3 DEF DispatchStep, JobNextReturns, JobNextPops, JobNextCounts, CommitCore
  <2>4. ASSUME NEW c \in Cores, HwFinishes(c) \/ HandlerStep(c)
        PROVE  mask' = mask
    BY <2>4
    DEF HwFinishes, HandlerStep, DoneRecommits, DoneLastSegment, DoneRetires, DoneNotLastCore,
        DoneLastCore, DoneSignals, DoneWakes, IrqEnters
  <2>5. QED
    BY <1>1, <2>1, <2>2, <2>3, <2>4 DEF Next, AllReturned, vars
<1>2. ASSUME NEW j \in Jobs, ScheduleFails(j) \/ WaitExpires(j) \/ RecoveryStep(j)
      PROVE  args' = args /\ mask' = mask
  BY <1>2, FailureLetsGo DEF RecoveryStep, LetsGo
<1>3. ASSUME NEW j \in Jobs, NEW c \in Cores, CleanExpired(j, c)
      PROVE  args' = args /\ mask' = mask
  BY <1>3 DEF CleanExpired, alloc
<1>4. ASSUME NEW c \in Cores, HwGlitches(c) \/ RHandlerStep(c)
      PROVE  args' = args /\ mask' = mask
  BY <1>4 DEF HwGlitches, RHandlerStep, IrqWithoutJob, IrqInvalid, alloc
<1>5. CASE UserReset \/ (\E t \in Threads : JobNextChecks(t)) \/ UNCHANGED rvars
  BY <1>5 DEF UserReset, UserResetBegins, UserResetMarks, UserResetHits, UserResetEnds,
              UserResetUnlocks, JobNextChecks, rvars, vars, alloc
<1>6. QED
  BY <1>1, <1>2, <1>3, <1>4, <1>5 DEF RNext

\* No clean-up is queued.
NoNewWork == \A j \in Jobs : work'[j] => work[j]

\* Who queues the clean-up of a job: its last handler and the sweep.
LEMMA WorkSteps ==
  ASSUME UInv, [RNext]_rvars
  PROVE  \/ NoNewWork
         \/ \E c \in Cores : DoneSignals(c) /\ UNCHANGED recovery
         \/ \E j \in Jobs : CleanUnlinks(j) \/ CleanDrains(j)
<1>0. work' = work => NoNewWork
  BY DEF NoNewWork
<1>1. ASSUME NEW j \in Jobs, SubmitFails(j) \/ Submit(j) \/ SubmitterStep(j)
      PROVE  NoNewWork
  BY <1>0, <1>1
  DEF SubmitterStep, SubmitFails, Submit, CleanNothing, PickCore, Enqueue, Scheduled, WaitSleeps,
      WaitEnds, WaitSucceeds, Returns, alloc
<1>2. ASSUME NEW j \in Jobs, CleanupWork(j)
      PROVE  NoNewWork
  BY <1>2, UTypes DEF CleanupWork, NoNewWork
<1>3. ASSUME NEW t \in Threads, DispatchStep(t)
      PROVE  NoNewWork
  BY <1>0, <1>3 DEF DispatchStep, JobNextReturns, JobNextPops, JobNextCounts, CommitCore, alloc
<1>4. ASSUME NEW c \in Cores, HwFinishes(c) \/ HandlerStep(c), ~DoneSignals(c)
      PROVE  NoNewWork
  BY <1>0, <1>4
  DEF HwFinishes, HandlerStep, DoneRecommits, DoneLastSegment, DoneRetires, DoneNotLastCore,
      DoneLastCore, DoneWakes, IrqEnters, alloc
<1>5. ASSUME NEW j \in Jobs, ScheduleFails(j) \/ WaitExpires(j) \/ RecoveryStep(j),
             ~(CleanUnlinks(j) \/ CleanDrains(j))
      PROVE  NoNewWork
  BY <1>0, <1>5
  DEF ScheduleFails, WaitExpires, RecoveryStep, WaitNeverCommitted, WaitDequeues, WaitFails,
      CheckFails, AbortClears, AbortFrees, ResetSkipped, ResetBegins, ResetMarks, ResetHits,
      ResetErrs, ResetEnds, ResetUnlocks, CleanNextCore, alloc
<1>6. ASSUME NEW j \in Jobs, NEW c \in Cores, CleanExpired(j, c)
      PROVE  NoNewWork
  BY <1>0, <1>6 DEF CleanExpired, alloc
<1>7. ASSUME NEW c \in Cores, HwGlitches(c) \/ RHandlerStep(c)
      PROVE  NoNewWork
  BY <1>0, <1>7 DEF HwGlitches, RHandlerStep, IrqWithoutJob, IrqInvalid, alloc
<1>8. CASE UserReset \/ (\E t \in Threads : JobNextChecks(t)) \/ UNCHANGED vars
  BY <1>0, <1>8 DEF UserReset, UserResetBegins, UserResetMarks, UserResetHits, UserResetEnds,
                    UserResetUnlocks, JobNextChecks, vars, alloc
<1>9. CASE Next /\ UNCHANGED recovery
  <2>1. CASE \E c \in Cores : DoneSignals(c)
    BY <1>9, <2>1
  <2>2. CASE ~\E c \in Cores : DoneSignals(c)
    BY <1>1, <1>2, <1>3, <1>4, <1>8, <1>9, <2>2 DEF Next, AllReturned
  <2>3. QED
    BY <2>1, <2>2
<1>10. CASE \E j \in Jobs : CleanUnlinks(j) \/ CleanDrains(j)
  BY <1>10
<1>11. CASE ~\E j \in Jobs : CleanUnlinks(j) \/ CleanDrains(j)
  <2>1. ASSUME NEW j \in Jobs, ScheduleFails(j) \/ WaitExpires(j) \/ RecoveryStep(j)
        PROVE  NoNewWork
    BY <1>5, <1>11, <2>1
  <2>2. CASE UNCHANGED rvars
    BY <1>8, <2>2 DEF rvars
  <2>3. QED
    BY <1>6, <1>7, <1>8, <1>9, <2>1, <2>2 DEF RNext
<1>12. QED
  BY <1>10, <1>11

-----------------------------------------------------------------------------
(* The clean-up of a job that uses one core *)

\* No job has a second core.
OneCoreEach == \A j \in Jobs : \A c, d \in mask[j] : c = d

\* A step keeps every job on one core.
LEMMA OneCoreStep ==
  ASSUME UInv, OneCoreEach, [RNext]_rvars
  PROVE  OneCoreEach'
<1>1. CASE mask' = mask
  BY <1>1 DEF OneCoreEach
<1>2. ASSUME NEW j \in Jobs, PickCore(j)
      PROVE  OneCoreEach'
  <2>1. PICK c \in Cores : mask' = [mask EXCEPT ![j] = {c}]
    BY <1>2 DEF PickCore
  <2>2. QED
    BY <2>1, UTypes DEF OneCoreEach
<1>3. QED
  BY <1>1, <1>2, MaskSteps

\* A step keeps every job whose clean-up is queued out of the lists and slots.
LEMMA CleanupStep ==
  ASSUME UInv, OneCoreEach, CleanupIsUnlinked, [RNext]_rvars
  PROVE  CleanupIsUnlinked'
<1>0. UInv' /\ OneCoreEach'
  BY UStep, OneCoreStep
<1>1. CASE \E j \in Jobs : Enqueue(j) /\ UNCHANGED recovery
  <2>1. PICK j \in Jobs : Enqueue(j) /\ UNCHANGED recovery
    BY <1>1
  <2>2. \A k \in Jobs, c \in Cores : InTodo(k, c)' => InTodo(k, c) \/ k = j
    BY <2>1, EnqueueRefs
  <2>3. work' = work /\ slot' = slot
    BY <2>1 DEF Enqueue, alloc
  <2>4. ~work[j]
    BY <2>1 DEF Enqueue, UInv, FreshInv, NotQueuedYet, Early, Unseen
  <2>5. QED
    BY <2>2, <2>3, <2>4 DEF CleanupIsUnlinked
<1>2. CASE \E t \in Threads, c \in Cores : JobNextPops(t, c) /\ UNCHANGED recovery
  <2>1. PICK t \in Threads : \E c \in Cores : JobNextPops(t, c) /\ UNCHANGED recovery
    BY <1>2
  <2>2. PICK c \in Cores : JobNextPops(t, c) /\ UNCHANGED recovery
    BY <2>1
  <2>3. PICK h \in Jobs :
           /\ InTodo(h, c) /\ ~InTodo(h, c)' /\ slot' = [slot EXCEPT ![c] = h]
           /\ \A k \in Jobs, d \in Cores : (k # h \/ d # c) => (InTodo(k, d)' <=> InTodo(k, d))
    BY <2>2, JobNextPopsRefs
  <2>4. work' = work /\ ~work[h]
    BY <2>2, <2>3 DEF JobNextPops, alloc, CleanupIsUnlinked
  <2>5. \A k \in Jobs, d \in Cores : /\ InTodo(k, d)' => InTodo(k, d)
                                     /\ slot'[d] = k => slot[d] = k \/ k = h
    BY <2>3, UTypes
  <2>6. QED
    BY <2>4, <2>5 DEF CleanupIsUnlinked
<1>3. CASE Shrinks
  <2>1. CASE NoNewWork
    BY <1>3, <2>1, UTypes DEF NoNewWork, Shrinks, CleanupIsUnlinked
  <2>2. ASSUME NEW h \in Jobs, \A c \in Cores : slot'[c] # h /\ ~InTodo(h, c)',
               \A j \in Jobs : j # h => (work'[j] => work[j])
        PROVE  CleanupIsUnlinked'
    BY <1>3, <2>2, UTypes DEF Shrinks, CleanupIsUnlinked
  <2>3. ASSUME NEW c \in Cores, DoneSignals(c), UNCHANGED recovery
        PROVE  CleanupIsUnlinked'
    <3>1. PICK h \in Jobs : h = ijob[c]
      <4>1. irq[c] # "idle"
        BY <2>3 DEF DoneSignals
      <4>2. QED
        BY <4>1, UTypes DEF TypeOK
    <3>2. ijob'[c] = h /\ irq'[c] = "wake" /\ \A j \in Jobs : j # h => work'[j] = work[j]
      BY <2>3, <3>1, UTypes DEF DoneSignals
    <3>3. PlaceInv' /\ OneCoreEach'
      BY <1>0 DEF UInv
    <3>4. ASSUME NEW d \in Cores
          PROVE  slot'[d] # h /\ ~InTodo(h, d)'
      <4>1. c \in mask'[h] /\ slot'[c] # h /\ c \in irq_entry'[h]
        BY <3>2, <3>3 DEF PlaceInv
      <4>2. slot'[d] = h \/ InTodo(h, d)' => d \in mask'[h]
        BY <3>3 DEF PlaceInv
      <4>3. slot'[d] = h \/ InTodo(h, d)' => d = c
        BY <3>3, <4>1, <4>2 DEF OneCoreEach
      <4>4. ~InTodo(h, c)'
        BY <3>3, <4>1 DEF PlaceInv
      <4>5. QED
        BY <4>1, <4>3, <4>4
    <3>5. QED
      BY <2>2, <3>2, <3>4
  <2>4. ASSUME NEW j \in Jobs, CleanUnlinks(j)
        PROVE  CleanupIsUnlinked'
    <3>1. target[j] \in Jobs /\ Removes(target[j], Cores)
      BY <2>4, RemovingSteps
    <3>2. PICK h \in Jobs : h = target[j]
      BY <3>1
    <3>3. /\ TypeOK /\ NoRepeats
          /\ \A c \in Cores : todo'[c] = IF c \in Cores THEN Without(todo[c], h) ELSE todo[c]
      BY <3>1, <3>2, UTypes DEF UInv, Removes
    <3>4. \A c \in Cores : ~InTodo(h, c)'
      BY <3>3, ListsShrink
    <3>5. \A c \in Cores : slot'[c] # h
      BY <2>4, <3>2, UTypes DEF CleanUnlinks
    <3>6. \A i \in Jobs : i # h => (work'[i] => work[i])
      BY <2>4, <3>2, UTypes DEF CleanUnlinks, Unlinks
    <3>7. QED
      BY <2>2, <3>4, <3>5, <3>6
  <2>5. ASSUME NEW j \in Jobs, CleanDrains(j)
        PROVE  CleanupIsUnlinked'
    <3>1. PICK h \in Jobs :
             Unlinks(h) /\ Removes(h, Cores) /\ sweep[j] \in Cores /\ InTodo(h, sweep[j])
      BY <2>5, RemovingSteps
    <3>2. /\ TypeOK /\ NoRepeats
          /\ \A c \in Cores : todo'[c] = IF c \in Cores THEN Without(todo[c], h) ELSE todo[c]
      BY <3>1, UTypes DEF UInv, Removes
    <3>3. \A c \in Cores : ~InTodo(h, c)'
      BY <3>2, ListsShrink
    <3>4. \A c \in Cores : slot[c] # h
      <4>1. sweep[j] \in mask[h] /\ slot[sweep[j]] # h
        BY <3>1 DEF UInv, PlaceInv
      <4>2. \A c \in Cores : slot[c] = h => c \in mask[h]
        BY DEF UInv, PlaceInv
      <4>3. QED
        BY <4>1, <4>2 DEF OneCoreEach
    <3>5. slot' = slot /\ \A i \in Jobs : i # h => (work'[i] => work[i])
      BY <2>5, <3>1, UTypes DEF CleanDrains, Unlinks
    <3>6. QED
      BY <2>2, <3>3, <3>4, <3>5
  <2>6. QED
    BY <2>1, <2>3, <2>4, <2>5, WorkSteps
<1>4. QED
  BY <1>1, <1>2, <1>3, ShrinkingSteps

\* rknpu_job_timeout_clean() and the completion: if no job uses two cores, a job
\* whose clean-up is queued is in no slot and on no list, for any number of cores and
\* jobs, any faults, and even if the sleeps do not outlast the handlers.  (With
\* gangs the sweep breaks this: see the run recovery_gang_sweep.)
THEOREM CleanedJobsAreUnlinked ==
  ASSUME NoGangs
  PROVE  RSpec => []CleanupIsUnlinked
<1>1. RInit => UInv /\ OneCoreEach /\ CleanupIsUnlinked
  <2> SUFFICES ASSUME RInit
               PROVE  UInv /\ OneCoreEach /\ CleanupIsUnlinked
    OBVIOUS
  <2>1. UInv
    BY UInit
  <2>2. Init
    BY DEF RInit
  <2>3. OneCoreEach
    <3>1. \A j \in Jobs : mask[j] = args[j].mask /\ args[j] \in Args
      BY <2>2 DEF Init
    <3>2. QED
      BY <3>1 DEF NoGangs, OneCoreEach
  <2>4. CleanupIsUnlinked
    BY <2>2 DEF Init, CleanupIsUnlinked
  <2>5. QED
    BY <2>1, <2>3, <2>4
<1>2. UInv /\ OneCoreEach /\ CleanupIsUnlinked /\ [RNext]_rvars =>
         UInv' /\ OneCoreEach' /\ CleanupIsUnlinked'
  BY UStep, OneCoreStep, CleanupStep
<1>3. QED
  BY <1>1, <1>2, PTL DEF RSpec

-----------------------------------------------------------------------------
(* Queued jobs *)

\* Where the submitter of a queued job is.
QueuedAt(j) ==
    IF args[j].nonblock THEN {"queued", "check", "returned"}
    ELSE {"queued", "wait", "asleep", "woken", "expired", "dequeue"}

\* A queued job has not been started, completed, failed or freed.
QueuedState(j) ==
    /\ mem[j] = "live" /\ ~done[j] /\ ~work[j] /\ int_mask[j] = {} /\ ret[j] = "OK"
    /\ pc[j] \in QueuedAt(j)

\* Thread t has popped j from the list of c and not yet decremented run_count.
PoppedBy(t, j, c) == cur[t] = j /\ com[t] = {} /\ at[t] = c

\* The cores that run_count must still count.
StillCounted(j) == {c \in mask[j] : InTodo(j, c) \/ \E t \in Threads : PoppedBy(t, j, c)}

\* The hypotheses, for the jobs; and run_count before the job is queued.
MaskInv ==
    \A j \in Jobs :
        /\ args[j].nonblock \/ args[j].pc
        /\ \A c \in mask[j] : c < Cardinality(mask[j])
        /\ mask[j] = {} => num_irqs = 1
        /\ Early(j) /\ pc[j] # "new" /\ mask[j] # {} => run_count[j] = Cardinality(mask[j])

QueuedInv == \A j \in Jobs, c \in Cores : InTodo(j, c) => QueuedState(j)

\* A job that is being committed is on no list, and a popped job not on the list it
\* was popped from, by one thread.
PopInv ==
    /\ \A t \in Threads : com[t] # {} => cur[t] # NoJob
    /\ \A j \in Jobs, t \in Threads, c \in Cores : com[t] # {} /\ cur[t] = j => ~InTodo(j, c)
    /\ \A j \in Jobs, t \in Threads, c \in Cores :
          PoppedBy(t, j, c) => c \in mask[j] /\ ~InTodo(j, c)
    /\ \A j \in Jobs, t, u \in Threads, c \in Cores :
          PoppedBy(t, j, c) /\ PoppedBy(u, j, c) => t = u

\* run_count is at least the cores that have still to decrement it: more if a sweep
\* has taken the job from a list.
CountedInv == \A j \in Jobs : Cardinality(StillCounted(j)) <= run_count[j]

LInv == MaskInv /\ QueuedInv /\ PopInv /\ CountedInv

\* What a step does to jobs that stay queued.
QueuedStep ==
    \A j \in Jobs, c \in Cores : InTodo(j, c)' /\ InTodo(j, c) /\ QueuedState(j) => QueuedState(j)'

\* No thread pops a job, and a job that is taken up for a commit is on no list.
PopStep ==
    \A t \in Threads :
        /\ com'[t] # {} /\ cur'[t] = NoJob => com[t] # {} /\ cur[t] = NoJob
        /\ \A j \in Jobs, c \in Cores : PoppedBy(t, j, c)' => PoppedBy(t, j, c)
        /\ \A j \in Jobs : com'[t] # {} /\ cur'[t] = j =>
              (com[t] # {} /\ cur[t] = j) \/ \A c \in Cores : ~InTodo(j, c)

\* run_count stays, and no submission comes before its queueing.
CountStep ==
    /\ run_count' = run_count
    /\ \A j \in Jobs : Early(j)' /\ pc'[j] # "new" => Early(j) /\ pc[j] # "new"

\* Sets of cores are finite, and a smaller one has no more elements.
LEMMA CoreSubset ==
  ASSUME NEW S \in SUBSET Cores, NEW T \in SUBSET S
  PROVE  /\ IsFiniteSet(S) /\ IsFiniteSet(T)
         /\ Cardinality(S) \in Nat /\ Cardinality(T) \in Nat
         /\ Cardinality(T) <= Cardinality(S)
<1>1. IsFiniteSet(Cores)
  BY ConstantsAssumption, FS_Interval DEF Cores
<1>2. IsFiniteSet(S)
  BY <1>1, FS_Subset
<1>3. IsFiniteSet(T) /\ Cardinality(T) <= Cardinality(S)
  BY <1>2, FS_Subset
<1>4. QED
  BY <1>2, <1>3, FS_CardinalityType

\* A step that only shrinks lists and calls keeps the queued jobs as they should be.
LEMMA QueueFrame ==
  ASSUME UInv, LInv, Shrinks, args' = args, mask' = mask, QueuedStep, PopStep, CountStep
  PROVE  LInv'
<1>0. \A j \in Jobs, c \in Cores : InTodo(j, c)' => InTodo(j, c)
  BY DEF Shrinks
<1>1. MaskInv'
  BY DEF LInv, MaskInv, CountStep
<1>2. QueuedInv'
  BY <1>0 DEF LInv, QueuedInv, QueuedStep
<1>3. PopInv'
  <2>1. \A j \in Jobs, t \in Threads, c \in Cores : com'[t] # {} /\ cur'[t] = j => ~InTodo(j, c)'
    BY <1>0 DEF PopStep, LInv, PopInv
  <2>2. \A j \in Jobs, t \in Threads, c \in Cores :
           PoppedBy(t, j, c)' => c \in mask'[j] /\ ~InTodo(j, c)'
    BY <1>0 DEF PopStep, LInv, PopInv
  <2>3. \A j \in Jobs, t, u \in Threads, c \in Cores :
           PoppedBy(t, j, c)' /\ PoppedBy(u, j, c)' => t = u
    BY DEF PopStep, LInv, PopInv
  <2>4. \A t \in Threads : com'[t] # {} => cur'[t] # NoJob
    BY DEF PopStep, LInv, PopInv
  <2>5. QED
    BY <2>1, <2>2, <2>3, <2>4 DEF PopInv
<1>4. CountedInv'
  <2> SUFFICES ASSUME NEW j \in Jobs
               PROVE  Cardinality(StillCounted(j))' <= run_count'[j]
    BY DEF CountedInv
  <2>1. StillCounted(j)' \subseteq StillCounted(j) /\ StillCounted(j) \subseteq Cores
    BY <1>0, UTypes DEF StillCounted, PopStep
  <2>2. PICK S \in SUBSET Cores : S = StillCounted(j)
    BY <2>1
  <2>3. PICK T \in SUBSET S : T = StillCounted(j)'
    BY <2>1, <2>2
  <2>4. Cardinality(T) <= Cardinality(S) /\ Cardinality(T) \in Nat /\ Cardinality(S) \in Nat
    BY CoreSubset
  <2>5. Cardinality(S) <= run_count[j] /\ run_count[j] \in Int /\ run_count'[j] = run_count[j]
    BY <2>2, UTypes DEF LInv, CountedInv, CountStep
  <2>6. QED
    BY <2>3, <2>4, <2>5
<1>5. QED
  BY <1>1, <1>2, <1>3, <1>4 DEF LInv

-----------------------------------------------------------------------------
(* The steps that leave queued jobs queued *)

\* The submitter before and after it queues its job.
LEMMA SubmitterQueue ==
  ASSUME UInv, LInv, UNCHANGED recovery, NEW j \in Jobs,
         SubmitFails(j) \/ CleanNothing(j) \/ Scheduled(j) \/ WaitSleeps(j) \/
         WaitEnds(j) \/ WaitSucceeds(j) \/ Returns(j) \/ CleanupWork(j)
  PROVE  QueuedStep /\ PopStep /\ CountStep
<1>1. CASE SubmitFails(j)
  <2>1. QueuedStep
    BY <1>1, UTypes
    DEF SubmitFails, Goto, AfterReset, Woken, QueuedStep, QueuedState, QueuedAt, subcore,
        counts, result, alloc, dispatch, handler, device, recovery
  <2>2. PopStep
    BY <1>1, UTypes
    DEF SubmitFails, PopStep, PoppedBy, subcore, counts, result, alloc, dispatch, handler,
        device, recovery
  <2>3. CountStep
    BY <1>1, UTypes
    DEF SubmitFails, Goto, AfterReset, Woken, CountStep, Early, subcore, counts, result,
        alloc, dispatch, handler, device, recovery
  <2>4. QED
    BY <2>1, <2>2, <2>3
<1>2. CASE CleanNothing(j)
  <2>1. QueuedStep
    BY <1>2, UTypes
    DEF CleanNothing, Goto, AfterReset, Woken, QueuedStep, QueuedState, QueuedAt, subcore,
        counts, result, alloc, dispatch, handler, device, recovery
  <2>2. PopStep
    BY <1>2, UTypes
    DEF CleanNothing, PopStep, PoppedBy, subcore, counts, result, alloc, dispatch, handler,
        device, recovery
  <2>3. CountStep
    BY <1>2, UTypes
    DEF CleanNothing, Goto, AfterReset, Woken, CountStep, Early, subcore, counts, result,
        alloc, dispatch, handler, device, recovery
  <2>4. QED
    BY <2>1, <2>2, <2>3
<1>3. CASE Scheduled(j)
  <2>1. QueuedStep
    BY <1>3, UTypes
    DEF Scheduled, Goto, AfterReset, Woken, LInv, MaskInv, QueuedStep, QueuedState,
        QueuedAt, subcore, counts, result, alloc, dispatch, handler, device, recovery
  <2>2. PopStep
    BY <1>3, UTypes
    DEF Scheduled, PopStep, PoppedBy, subcore, counts, result, alloc, dispatch, handler,
        device, recovery
  <2>3. CountStep
    BY <1>3, UTypes
    DEF Scheduled, Goto, AfterReset, Woken, CountStep, Early, subcore, counts, result,
        alloc, dispatch, handler, device, recovery
  <2>4. QED
    BY <2>1, <2>2, <2>3
<1>4. CASE WaitSleeps(j)
  <2>1. QueuedStep
    BY <1>4, UTypes
    DEF WaitSleeps, Goto, AfterReset, Woken, QueuedStep, QueuedState, QueuedAt, subcore,
        counts, result, alloc, dispatch, handler, device, recovery
  <2>2. PopStep
    BY <1>4, UTypes
    DEF WaitSleeps, PopStep, PoppedBy, subcore, counts, result, alloc, dispatch, handler,
        device, recovery
  <2>3. CountStep
    BY <1>4, UTypes
    DEF WaitSleeps, Goto, AfterReset, Woken, CountStep, Early, subcore, counts, result,
        alloc, dispatch, handler, device, recovery
  <2>4. QED
    BY <2>1, <2>2, <2>3
<1>5. CASE WaitEnds(j)
  <2>1. QueuedStep
    BY <1>5, UTypes
    DEF WaitEnds, Goto, AfterReset, Woken, QueuedStep, QueuedState, QueuedAt, subcore,
        counts, result, alloc, dispatch, handler, device, recovery
  <2>2. PopStep
    BY <1>5, UTypes
    DEF WaitEnds, PopStep, PoppedBy, subcore, counts, result, alloc, dispatch, handler,
        device, recovery
  <2>3. CountStep
    BY <1>5, UTypes
    DEF WaitEnds, Goto, AfterReset, Woken, CountStep, Early, subcore, counts, result, alloc,
        dispatch, handler, device, recovery
  <2>4. QED
    BY <2>1, <2>2, <2>3
<1>6. CASE WaitSucceeds(j)
  <2>1. QueuedStep
    BY <1>6, UTypes
    DEF WaitSucceeds, Goto, AfterReset, Woken, QueuedStep, QueuedState, QueuedAt, subcore,
        counts, result, alloc, dispatch, handler, device, recovery
  <2>2. PopStep
    BY <1>6, UTypes
    DEF WaitSucceeds, PopStep, PoppedBy, subcore, counts, result, alloc, dispatch, handler,
        device, recovery
  <2>3. CountStep
    BY <1>6, UTypes
    DEF WaitSucceeds, Goto, AfterReset, Woken, CountStep, Early, subcore, counts, result,
        alloc, dispatch, handler, device, recovery
  <2>4. QED
    BY <2>1, <2>2, <2>3
<1>7. CASE Returns(j)
  <2>1. QueuedStep
    BY <1>7, UTypes
    DEF Returns, Goto, AfterReset, Woken, QueuedStep, QueuedState, QueuedAt, subcore,
        counts, result, alloc, dispatch, handler, device, recovery
  <2>2. PopStep
    BY <1>7, UTypes
    DEF Returns, PopStep, PoppedBy, subcore, counts, result, alloc, dispatch, handler,
        device, recovery
  <2>3. CountStep
    BY <1>7, UTypes
    DEF Returns, Goto, AfterReset, Woken, CountStep, Early, subcore, counts, result, alloc,
        dispatch, handler, device, recovery
  <2>4. QED
    BY <2>1, <2>2, <2>3
<1>8. CASE CleanupWork(j)
  <2>1. QueuedStep
    BY <1>8, UTypes
    DEF CleanupWork, Goto, AfterReset, Woken, QueuedStep, QueuedState, QueuedAt, subcore,
        counts, result, alloc, dispatch, handler, device, recovery
  <2>2. PopStep
    BY <1>8, UTypes
    DEF CleanupWork, PopStep, PoppedBy, subcore, counts, result, alloc, dispatch, handler,
        device, recovery
  <2>3. CountStep
    BY <1>8, UTypes
    DEF CleanupWork, Goto, AfterReset, Woken, CountStep, Early, subcore, counts, result,
        alloc, dispatch, handler, device, recovery
  <2>4. QED
    BY <2>1, <2>2, <2>3
<1>9. QED
  BY <1>1, <1>2, <1>3, <1>4, <1>5, <1>6, <1>7, <1>8

\* rknpu_job_next() that finds nothing, and the commit.
LEMMA DispatchQueue ==
  ASSUME UInv, LInv, UNCHANGED recovery, NEW t \in Threads, NEW c \in Cores,
         JobNextReturns(t, c) \/ CommitCore(t, c)
  PROVE  QueuedStep /\ PopStep /\ CountStep
<1>1. CASE JobNextReturns(t, c)
  <2>1. QueuedStep
    BY <1>1, UTypes
    DEF JobNextReturns, Goto, AfterReset, Woken, QueuedStep, QueuedState, QueuedAt, subcore,
        counts, result, alloc, dispatch, handler, device, recovery
  <2>2. PopStep
    BY <1>1, UTypes
    DEF JobNextReturns, PopStep, PoppedBy, subcore, counts, result, alloc, dispatch,
        handler, device, recovery
  <2>3. CountStep
    BY <1>1, UTypes
    DEF JobNextReturns, Goto, AfterReset, Woken, CountStep, Early, subcore, counts, result,
        alloc, dispatch, handler, device, recovery
  <2>4. QED
    BY <2>1, <2>2, <2>3
<1>2. CASE CommitCore(t, c)
  <2>1. QueuedStep
    <3>1. PICK h \in Jobs : h = cur[t] /\ com[t] # {}
      BY <1>2, UTypes DEF CommitCore, First
    <3>2. \A d \in Cores : ~InTodo(h, d)
      BY <3>1 DEF LInv, PopInv
    <3>3. UNCHANGED <<args, mem, done, work, pc>>
      BY <1>2 DEF CommitCore, alloc
    <3>4. \A k \in Jobs : k # h => ret'[k] = ret[k] /\ int_mask'[k] = int_mask[k]
      <4>1. CASE CommitFails(h)
        BY <1>2, <3>1, <4>1, UTypes DEF CommitCore
      <4>2. CASE ~CommitFails(h)
        BY <1>2, <3>1, <4>2, UTypes DEF CommitCore, StartCore
      <4>3. QED
        BY <4>1, <4>2
    <3>5. QED
      BY <3>2, <3>3, <3>4 DEF QueuedStep, QueuedState, QueuedAt
  <2>2. PopStep
    BY <1>2, UTypes
    DEF CommitCore, PopStep, PoppedBy, subcore, counts, result, alloc, dispatch, handler,
        device, recovery
  <2>3. CountStep
    BY <1>2, UTypes
    DEF CommitCore, Goto, AfterReset, Woken, CountStep, Early, subcore, counts, result,
        alloc, dispatch, handler, device, recovery
  <2>4. QED
    BY <2>1, <2>2, <2>3
<1>3. QED
  BY <1>1, <1>2

\* The hardware and the handler.
LEMMA HandlerQueue ==
  ASSUME UInv, LInv, UNCHANGED recovery, NEW c \in Cores,
         HwFinishes(c) \/ IrqEnters(c) \/ DoneRecommits(c) \/ DoneLastSegment(c) \/
         DoneRetires(c) \/ DoneNotLastCore(c) \/ DoneLastCore(c) \/ DoneSignals(c) \/
         DoneWakes(c)
  PROVE  QueuedStep /\ PopStep /\ CountStep
<1>1. CASE HwFinishes(c)
  <2>1. QueuedStep
    BY <1>1, UTypes
    DEF HwFinishes, Goto, AfterReset, Woken, QueuedStep, QueuedState, QueuedAt, subcore,
        counts, result, alloc, dispatch, handler, device, recovery
  <2>2. PopStep
    BY <1>1, UTypes
    DEF HwFinishes, PopStep, PoppedBy, subcore, counts, result, alloc, dispatch, handler,
        device, recovery
  <2>3. CountStep
    BY <1>1, UTypes
    DEF HwFinishes, Goto, AfterReset, Woken, CountStep, Early, subcore, counts, result,
        alloc, dispatch, handler, device, recovery
  <2>4. QED
    BY <2>1, <2>2, <2>3
<1>2. CASE IrqEnters(c)
  <2>1. QueuedStep
    BY <1>2, UTypes
    DEF IrqEnters, Goto, AfterReset, Woken, QueuedStep, QueuedState, QueuedAt, subcore,
        counts, result, alloc, dispatch, handler, device, recovery
  <2>2. PopStep
    BY <1>2, UTypes
    DEF IrqEnters, PopStep, PoppedBy, subcore, counts, result, alloc, dispatch, handler,
        device, recovery
  <2>3. CountStep
    BY <1>2, UTypes
    DEF IrqEnters, Goto, AfterReset, Woken, CountStep, Early, subcore, counts, result,
        alloc, dispatch, handler, device, recovery
  <2>4. QED
    BY <2>1, <2>2, <2>3
<1>3. CASE DoneRecommits(c)
  <2>1. QueuedStep
    BY <1>3, UTypes
    DEF DoneRecommits, Goto, AfterReset, Woken, QueuedStep, QueuedState, QueuedAt, subcore,
        counts, result, alloc, dispatch, handler, device, recovery
  <2>2. PopStep
    BY <1>3, UTypes
    DEF DoneRecommits, PopStep, PoppedBy, UInv, PlaceInv, StatusValid, LInv, QueuedInv,
        QueuedState, TypeOK, subcore, counts, result, alloc, dispatch, handler, device,
        recovery
  <2>3. CountStep
    BY <1>3, UTypes
    DEF DoneRecommits, Goto, AfterReset, Woken, CountStep, Early, subcore, counts, result,
        alloc, dispatch, handler, device, recovery
  <2>4. QED
    BY <2>1, <2>2, <2>3
<1>4. CASE DoneLastSegment(c)
  <2>1. QueuedStep
    BY <1>4, UTypes
    DEF DoneLastSegment, Goto, AfterReset, Woken, QueuedStep, QueuedState, QueuedAt,
        subcore, counts, result, alloc, dispatch, handler, device, recovery
  <2>2. PopStep
    BY <1>4, UTypes
    DEF DoneLastSegment, PopStep, PoppedBy, subcore, counts, result, alloc, dispatch,
        handler, device, recovery
  <2>3. CountStep
    BY <1>4, UTypes
    DEF DoneLastSegment, Goto, AfterReset, Woken, CountStep, Early, subcore, counts, result,
        alloc, dispatch, handler, device, recovery
  <2>4. QED
    BY <2>1, <2>2, <2>3
<1>5. CASE DoneRetires(c)
  <2>1. QueuedStep
    BY <1>5, UTypes
    DEF DoneRetires, Goto, AfterReset, Woken, QueuedStep, QueuedState, QueuedAt, subcore,
        counts, result, alloc, dispatch, handler, device, recovery
  <2>2. PopStep
    BY <1>5, UTypes
    DEF DoneRetires, PopStep, PoppedBy, subcore, counts, result, alloc, dispatch, handler,
        device, recovery
  <2>3. CountStep
    BY <1>5, UTypes
    DEF DoneRetires, Goto, AfterReset, Woken, CountStep, Early, subcore, counts, result,
        alloc, dispatch, handler, device, recovery
  <2>4. QED
    BY <2>1, <2>2, <2>3
<1>6. CASE DoneNotLastCore(c)
  <2>1. QueuedStep
    BY <1>6, UTypes
    DEF DoneNotLastCore, Goto, AfterReset, Woken, QueuedStep, QueuedState, QueuedAt,
        subcore, counts, result, alloc, dispatch, handler, device, recovery
  <2>2. PopStep
    BY <1>6, UTypes
    DEF DoneNotLastCore, PopStep, PoppedBy, subcore, counts, result, alloc, dispatch,
        handler, device, recovery
  <2>3. CountStep
    BY <1>6, UTypes
    DEF DoneNotLastCore, Goto, AfterReset, Woken, CountStep, Early, subcore, counts, result,
        alloc, dispatch, handler, device, recovery
  <2>4. QED
    BY <2>1, <2>2, <2>3
<1>7. CASE DoneLastCore(c)
  <2>1. QueuedStep
    BY <1>7, UTypes
    DEF DoneLastCore, Goto, AfterReset, Woken, UInv, PlaceInv, QueuedStep, QueuedState,
        QueuedAt, subcore, counts, result, alloc, dispatch, handler, device, recovery
  <2>2. PopStep
    BY <1>7, UTypes
    DEF DoneLastCore, PopStep, PoppedBy, subcore, counts, result, alloc, dispatch, handler,
        device, recovery
  <2>3. CountStep
    BY <1>7, UTypes
    DEF DoneLastCore, Goto, AfterReset, Woken, CountStep, Early, subcore, counts, result,
        alloc, dispatch, handler, device, recovery
  <2>4. QED
    BY <2>1, <2>2, <2>3
<1>8. CASE DoneSignals(c)
  <2>1. QueuedStep
    BY <1>8, UTypes
    DEF DoneSignals, Goto, AfterReset, Woken, UInv, PlaceInv, QueuedStep, QueuedState,
        QueuedAt, subcore, counts, result, alloc, dispatch, handler, device, recovery
  <2>2. PopStep
    BY <1>8, UTypes
    DEF DoneSignals, PopStep, PoppedBy, subcore, counts, result, alloc, dispatch, handler,
        device, recovery
  <2>3. CountStep
    BY <1>8, UTypes
    DEF DoneSignals, Goto, AfterReset, Woken, CountStep, Early, subcore, counts, result,
        alloc, dispatch, handler, device, recovery
  <2>4. QED
    BY <2>1, <2>2, <2>3
<1>9. CASE DoneWakes(c)
  <2>1. QueuedStep
    BY <1>9, UTypes
    DEF DoneWakes, Goto, AfterReset, Woken, QueuedStep, QueuedState, QueuedAt, subcore,
        counts, result, alloc, dispatch, handler, device, recovery
  <2>2. PopStep
    BY <1>9, UTypes
    DEF DoneWakes, PopStep, PoppedBy, subcore, counts, result, alloc, dispatch, handler,
        device, recovery
  <2>3. CountStep
    BY <1>9, UTypes
    DEF DoneWakes, Goto, AfterReset, Woken, CountStep, Early, subcore, counts, result,
        alloc, dispatch, handler, device, recovery
  <2>4. QED
    BY <2>1, <2>2, <2>3
<1>10. QED
  BY <1>1, <1>2, <1>3, <1>4, <1>5, <1>6, <1>7, <1>8, <1>9

\* Waits that fail, aborts, resets and the sweep.
LEMMA FailureQueue ==
  ASSUME UInv, LInv, NEW j \in Jobs,
         ScheduleFails(j) \/ WaitExpires(j) \/ WaitNeverCommitted(j) \/ WaitDequeues(j)
         \/ WaitFails(j) \/ CheckFails(j) \/ AbortClears(j) \/ AbortFrees(j) \/
         ResetSkipped(j) \/ ResetBegins(j) \/ ResetMarks(j) \/ ResetHits(j) \/ ResetErrs(j) \/
         ResetEnds(j) \/ ResetUnlocks(j) \/ CleanUnlinks(j) \/ CleanDrains(j) \/ CleanNextCore(j)
  PROVE  QueuedStep /\ PopStep /\ CountStep
<1>1. CASE ScheduleFails(j)
  <2>1. QueuedStep
    BY <1>1, UTypes
    DEF ScheduleFails, Goto, AfterReset, Woken, QueuedStep, QueuedState, QueuedAt, subcore,
        counts, result, alloc, dispatch, handler, device, recovery
  <2>2. PopStep
    BY <1>1, UTypes
    DEF ScheduleFails, PopStep, PoppedBy, subcore, counts, result, alloc, dispatch, handler,
        device, recovery
  <2>3. CountStep
    BY <1>1, UTypes
    DEF ScheduleFails, Goto, AfterReset, Woken, CountStep, Early, subcore, counts, result,
        alloc, dispatch, handler, device, recovery
  <2>4. QED
    BY <2>1, <2>2, <2>3
<1>2. CASE WaitExpires(j)
  <2>1. QueuedStep
    BY <1>2, UTypes
    DEF WaitExpires, Goto, AfterReset, Woken, QueuedStep, QueuedState, QueuedAt, subcore,
        counts, result, alloc, dispatch, handler, device, recovery
  <2>2. PopStep
    BY <1>2, UTypes
    DEF WaitExpires, PopStep, PoppedBy, subcore, counts, result, alloc, dispatch, handler,
        device, recovery
  <2>3. CountStep
    BY <1>2, UTypes
    DEF WaitExpires, Goto, AfterReset, Woken, CountStep, Early, subcore, counts, result,
        alloc, dispatch, handler, device, recovery
  <2>4. QED
    BY <2>1, <2>2, <2>3
<1>3. CASE WaitNeverCommitted(j)
  <2>1. QueuedStep
    BY <1>3, UTypes
    DEF WaitNeverCommitted, Goto, AfterReset, Woken, QueuedStep, QueuedState, QueuedAt,
        subcore, counts, result, alloc, dispatch, handler, device, recovery
  <2>2. PopStep
    BY <1>3, UTypes
    DEF WaitNeverCommitted, PopStep, PoppedBy, subcore, counts, result, alloc, dispatch,
        handler, device, recovery
  <2>3. CountStep
    BY <1>3, UTypes
    DEF WaitNeverCommitted, Goto, AfterReset, Woken, CountStep, Early, subcore, counts,
        result, alloc, dispatch, handler, device, recovery
  <2>4. QED
    BY <2>1, <2>2, <2>3
<1>4. CASE WaitDequeues(j)
  <2>1. QueuedStep
    <3>1. /\ TypeOK /\ NoRepeats
          /\ \A c \in Cores : todo'[c] = IF c \in {d \in Cores : d < Cardinality(mask[j])}
                                         THEN Without(todo[c], j) ELSE todo[c]
      BY <1>4, UTypes DEF UInv, WaitDequeues
    <3>2. \A c \in {d \in Cores : d < Cardinality(mask[j])} : ~InTodo(j, c)'
      BY <3>1, ListsShrink
    <3>3. \A c \in Cores : ~(InTodo(j, c) /\ InTodo(j, c)')
      BY <3>2 DEF UInv, PlaceInv, LInv, MaskInv
    <3>4. /\ UNCHANGED <<args, mem, done, work, int_mask>>
          /\ \A k \in Jobs : k # j => pc'[k] = pc[k] /\ ret'[k] = ret[k]
      BY <1>4, UTypes DEF WaitDequeues, Goto, alloc, device
    <3>5. QED
      BY <3>3, <3>4 DEF QueuedStep, QueuedState, QueuedAt
  <2>2. PopStep
    BY <1>4, UTypes
    DEF WaitDequeues, PopStep, PoppedBy, subcore, counts, result, alloc, dispatch, handler,
        device, recovery
  <2>3. CountStep
    BY <1>4, UTypes
    DEF WaitDequeues, Goto, AfterReset, Woken, CountStep, Early, subcore, counts, result,
        alloc, dispatch, handler, device, recovery
  <2>4. QED
    BY <2>1, <2>2, <2>3
<1>5. CASE WaitFails(j)
  <2>1. QueuedStep
    BY <1>5, UTypes
    DEF WaitFails, Goto, AfterReset, Woken, QueuedStep, QueuedState, QueuedAt, subcore,
        counts, result, alloc, dispatch, handler, device, recovery
  <2>2. PopStep
    BY <1>5, UTypes
    DEF WaitFails, PopStep, PoppedBy, subcore, counts, result, alloc, dispatch, handler,
        device, recovery
  <2>3. CountStep
    BY <1>5, UTypes
    DEF WaitFails, Goto, AfterReset, Woken, CountStep, Early, subcore, counts, result,
        alloc, dispatch, handler, device, recovery
  <2>4. QED
    BY <2>1, <2>2, <2>3
<1>6. CASE CheckFails(j)
  <2>1. QueuedStep
    BY <1>6, UTypes
    DEF CheckFails, Goto, AfterReset, Woken, QueuedStep, QueuedState, QueuedAt, subcore,
        counts, result, alloc, dispatch, handler, device, recovery
  <2>2. PopStep
    BY <1>6, UTypes
    DEF CheckFails, PopStep, PoppedBy, subcore, counts, result, alloc, dispatch, handler,
        device, recovery
  <2>3. CountStep
    BY <1>6, UTypes
    DEF CheckFails, Goto, AfterReset, Woken, CountStep, Early, subcore, counts, result,
        alloc, dispatch, handler, device, recovery
  <2>4. QED
    BY <2>1, <2>2, <2>3
<1>7. CASE AbortClears(j)
  <2>1. QueuedStep
    BY <1>7, UTypes
    DEF AbortClears, Goto, AfterReset, Woken, QueuedStep, QueuedState, QueuedAt, subcore,
        counts, result, alloc, dispatch, handler, device, recovery
  <2>2. PopStep
    BY <1>7, UTypes
    DEF AbortClears, PopStep, PoppedBy, subcore, counts, result, alloc, dispatch, handler,
        device, recovery
  <2>3. CountStep
    BY <1>7, UTypes
    DEF AbortClears, Goto, AfterReset, Woken, CountStep, Early, UInv, RInv, SweepInv,
        subcore, counts, result, alloc, dispatch, handler, device, recovery
  <2>4. QED
    BY <2>1, <2>2, <2>3
<1>8. CASE AbortFrees(j)
  <2>1. QueuedStep
    BY <1>8, UTypes
    DEF AbortFrees, Goto, AfterReset, Woken, QueuedStep, QueuedState, QueuedAt, subcore,
        counts, result, alloc, dispatch, handler, device, recovery
  <2>2. PopStep
    BY <1>8, UTypes
    DEF AbortFrees, PopStep, PoppedBy, subcore, counts, result, alloc, dispatch, handler,
        device, recovery
  <2>3. CountStep
    BY <1>8, UTypes
    DEF AbortFrees, Goto, AfterReset, Woken, CountStep, Early, subcore, counts, result,
        alloc, dispatch, handler, device, recovery
  <2>4. QED
    BY <2>1, <2>2, <2>3
<1>9. CASE ResetSkipped(j)
  <2>1. QueuedStep
    BY <1>9, UTypes
    DEF ResetSkipped, Goto, AfterReset, Woken, QueuedStep, QueuedState, QueuedAt, subcore,
        counts, result, alloc, dispatch, handler, device, recovery
  <2>2. PopStep
    BY <1>9, UTypes
    DEF ResetSkipped, PopStep, PoppedBy, subcore, counts, result, alloc, dispatch, handler,
        device, recovery
  <2>3. CountStep
    BY <1>9, UTypes
    DEF ResetSkipped, Goto, AfterReset, Woken, CountStep, Early, subcore, counts, result,
        alloc, dispatch, handler, device, recovery
  <2>4. QED
    BY <2>1, <2>2, <2>3
<1>10. CASE ResetBegins(j)
  <2>1. QueuedStep
    BY <1>10, UTypes
    DEF ResetBegins, Goto, AfterReset, Woken, QueuedStep, QueuedState, QueuedAt, subcore,
        counts, result, alloc, dispatch, handler, device, recovery
  <2>2. PopStep
    BY <1>10, UTypes
    DEF ResetBegins, PopStep, PoppedBy, subcore, counts, result, alloc, dispatch, handler,
        device, recovery
  <2>3. CountStep
    BY <1>10, UTypes
    DEF ResetBegins, Goto, AfterReset, Woken, CountStep, Early, subcore, counts, result,
        alloc, dispatch, handler, device, recovery
  <2>4. QED
    BY <2>1, <2>2, <2>3
<1>11. CASE ResetHits(j)
  <2>1. QueuedStep
    BY <1>11, UTypes
    DEF ResetHits, Goto, AfterReset, Woken, QueuedStep, QueuedState, QueuedAt, subcore,
        counts, result, alloc, dispatch, handler, device, recovery
  <2>2. PopStep
    BY <1>11, UTypes
    DEF ResetHits, PopStep, PoppedBy, subcore, counts, result, alloc, dispatch, handler,
        device, recovery
  <2>3. CountStep
    BY <1>11, UTypes
    DEF ResetHits, Goto, AfterReset, Woken, CountStep, Early, subcore, counts, result,
        alloc, dispatch, handler, device, recovery
  <2>4. QED
    BY <2>1, <2>2, <2>3
<1>12. CASE ResetErrs(j)
  <2>1. QueuedStep
    BY <1>12, UTypes
    DEF ResetErrs, Goto, AfterReset, Woken, QueuedStep, QueuedState, QueuedAt, subcore,
        counts, result, alloc, dispatch, handler, device, recovery
  <2>2. PopStep
    BY <1>12, UTypes
    DEF ResetErrs, PopStep, PoppedBy, subcore, counts, result, alloc, dispatch, handler,
        device, recovery
  <2>3. CountStep
    BY <1>12, UTypes
    DEF ResetErrs, Goto, AfterReset, Woken, CountStep, Early, subcore, counts, result,
        alloc, dispatch, handler, device, recovery
  <2>4. QED
    BY <2>1, <2>2, <2>3
<1>13. CASE ResetEnds(j)
  <2>1. QueuedStep
    BY <1>13, UTypes
    DEF ResetEnds, Goto, AfterReset, Woken, QueuedStep, QueuedState, QueuedAt, subcore,
        counts, result, alloc, dispatch, handler, device, recovery
  <2>2. PopStep
    BY <1>13, UTypes
    DEF ResetEnds, PopStep, PoppedBy, subcore, counts, result, alloc, dispatch, handler,
        device, recovery
  <2>3. CountStep
    BY <1>13, UTypes
    DEF ResetEnds, Goto, AfterReset, Woken, CountStep, Early, subcore, counts, result,
        alloc, dispatch, handler, device, recovery
  <2>4. QED
    BY <2>1, <2>2, <2>3
<1>14. CASE CleanUnlinks(j)
  <2>1. QueuedStep
    <3>1. PICK h \in Jobs : h = target[j] /\ Removes(h, Cores)
      BY <1>14, RemovingSteps
    <3>2. /\ TypeOK /\ NoRepeats
          /\ \A c \in Cores : todo'[c] = IF c \in Cores THEN Without(todo[c], h) ELSE todo[c]
      BY <3>1, UTypes DEF UInv, Removes
    <3>3. \A c \in Cores : ~InTodo(h, c)'
      BY <3>2, ListsShrink
    <3>4. /\ UNCHANGED <<args, mem, done, int_mask, ret>>
          /\ \A k \in Jobs : k # h => work'[k] = work[k]
          /\ pc[j] = "unlink" /\ \A k \in Jobs : k # j => pc'[k] = pc[k]
      BY <1>14, <3>1, UTypes DEF CleanUnlinks, Unlinks, Goto, device, result
    <3>5. QED
      BY <3>3, <3>4 DEF QueuedStep, QueuedState, QueuedAt
  <2>2. PopStep
    BY <1>14, UTypes
    DEF CleanUnlinks, PopStep, PoppedBy, subcore, counts, result, alloc, dispatch, handler,
        device, recovery
  <2>3. CountStep
    BY <1>14, UTypes
    DEF CleanUnlinks, Goto, AfterReset, Woken, CountStep, Early, subcore, counts, result,
        alloc, dispatch, handler, device, recovery
  <2>4. QED
    BY <2>1, <2>2, <2>3
<1>15. CASE CleanDrains(j)
  <2>1. QueuedStep
    <3>1. PICK h \in Jobs : Unlinks(h) /\ Removes(h, Cores)
      BY <1>15, RemovingSteps
    <3>2. /\ TypeOK /\ NoRepeats
          /\ \A c \in Cores : todo'[c] = IF c \in Cores THEN Without(todo[c], h) ELSE todo[c]
      BY <3>1, UTypes DEF UInv, Removes
    <3>3. \A c \in Cores : ~InTodo(h, c)'
      BY <3>2, ListsShrink
    <3>4. /\ UNCHANGED <<args, mem, done, int_mask, ret, pc>>
          /\ \A k \in Jobs : k # h => work'[k] = work[k]
      BY <1>15, <3>1, UTypes DEF CleanDrains, Unlinks, device, result
    <3>5. QED
      BY <3>3, <3>4 DEF QueuedStep, QueuedState, QueuedAt
  <2>2. PopStep
    BY <1>15, UTypes
    DEF CleanDrains, PopStep, PoppedBy, subcore, counts, result, alloc, dispatch, handler,
        device, recovery
  <2>3. CountStep
    BY <1>15, UTypes
    DEF CleanDrains, Goto, AfterReset, Woken, CountStep, Early, subcore, counts, result,
        alloc, dispatch, handler, device, recovery
  <2>4. QED
    BY <2>1, <2>2, <2>3
<1>16. CASE CleanNextCore(j)
  <2>1. QueuedStep
    BY <1>16, UTypes
    DEF CleanNextCore, Goto, AfterReset, Woken, QueuedStep, QueuedState, QueuedAt, subcore,
        counts, result, alloc, dispatch, handler, device, recovery
  <2>2. PopStep
    BY <1>16, UTypes
    DEF CleanNextCore, PopStep, PoppedBy, subcore, counts, result, alloc, dispatch, handler,
        device, recovery
  <2>3. CountStep
    BY <1>16, UTypes
    DEF CleanNextCore, Goto, AfterReset, Woken, CountStep, Early, UInv, RInv, SweepInv,
        subcore, counts, result, alloc, dispatch, handler, device, recovery
  <2>4. QED
    BY <2>1, <2>2, <2>3
<1>17. CASE ResetMarks(j)
  <2>1. QueuedStep
    BY <1>17, UTypes
    DEF ResetMarks, Goto, AfterReset, Woken, QueuedStep, QueuedState, QueuedAt, subcore,
        counts, result, alloc, dispatch, handler, device, recovery
  <2>2. PopStep
    BY <1>17, UTypes
    DEF ResetMarks, PopStep, PoppedBy, subcore, counts, result, alloc, dispatch, handler,
        device, recovery
  <2>3. CountStep
    BY <1>17, UTypes
    DEF ResetMarks, Goto, AfterReset, Woken, CountStep, Early, subcore, counts, result,
        alloc, dispatch, handler, device, recovery
  <2>4. QED
    BY <2>1, <2>2, <2>3
<1>18. CASE ResetUnlocks(j)
  <2>1. QueuedStep
    BY <1>18, UTypes
    DEF ResetUnlocks, Goto, AfterReset, Woken, QueuedStep, QueuedState, QueuedAt, subcore,
        counts, result, alloc, dispatch, handler, device, recovery
  <2>2. PopStep
    BY <1>18, UTypes
    DEF ResetUnlocks, PopStep, PoppedBy, subcore, counts, result, alloc, dispatch, handler,
        device, recovery
  <2>3. CountStep
    BY <1>18, UTypes
    DEF ResetUnlocks, Goto, AfterReset, Woken, CountStep, Early, subcore, counts, result,
        alloc, dispatch, handler, device, recovery
  <2>4. QED
    BY <2>1, <2>2, <2>3
<1>19. QED
  BY <1>1, <1>2, <1>3, <1>4, <1>5, <1>6, <1>7, <1>8, <1>9, <1>10, <1>11, <1>12, <1>13, <1>14,
     <1>15, <1>16,
     <1>17, <1>18

\* Interrupts with a wrong status, and interrupts without a job.
LEMMA SpuriousQueue ==
  ASSUME UInv, LInv, NEW c \in Cores,
         HwGlitches(c) \/ IrqWithoutJob(c) \/ IrqInvalid(c)
  PROVE  QueuedStep /\ PopStep /\ CountStep
<1>1. CASE HwGlitches(c)
  <2>1. QueuedStep
    BY <1>1, UTypes
    DEF HwGlitches, Goto, AfterReset, Woken, QueuedStep, QueuedState, QueuedAt, subcore,
        counts, result, alloc, dispatch, handler, device, recovery
  <2>2. PopStep
    BY <1>1, UTypes
    DEF HwGlitches, PopStep, PoppedBy, subcore, counts, result, alloc, dispatch, handler,
        device, recovery
  <2>3. CountStep
    BY <1>1, UTypes
    DEF HwGlitches, Goto, AfterReset, Woken, CountStep, Early, subcore, counts, result,
        alloc, dispatch, handler, device, recovery
  <2>4. QED
    BY <2>1, <2>2, <2>3
<1>2. CASE IrqWithoutJob(c)
  <2>1. QueuedStep
    BY <1>2, UTypes
    DEF IrqWithoutJob, Goto, AfterReset, Woken, QueuedStep, QueuedState, QueuedAt, subcore,
        counts, result, alloc, dispatch, handler, device, recovery
  <2>2. PopStep
    BY <1>2, UTypes
    DEF IrqWithoutJob, PopStep, PoppedBy, subcore, counts, result, alloc, dispatch, handler,
        device, recovery
  <2>3. CountStep
    BY <1>2, UTypes
    DEF IrqWithoutJob, Goto, AfterReset, Woken, CountStep, Early, subcore, counts, result,
        alloc, dispatch, handler, device, recovery
  <2>4. QED
    BY <2>1, <2>2, <2>3
<1>3. CASE IrqInvalid(c)
  <2>1. QueuedStep
    BY <1>3, UTypes
    DEF IrqInvalid, Goto, AfterReset, Woken, QueuedStep, QueuedState, QueuedAt, subcore,
        counts, result, alloc, dispatch, handler, device, recovery
  <2>2. PopStep
    BY <1>3, UTypes
    DEF IrqInvalid, PopStep, PoppedBy, subcore, counts, result, alloc, dispatch, handler,
        device, recovery
  <2>3. CountStep
    BY <1>3, UTypes
    DEF IrqInvalid, Goto, AfterReset, Woken, CountStep, Early, subcore, counts, result,
        alloc, dispatch, handler, device, recovery
  <2>4. QED
    BY <2>1, <2>2, <2>3
<1>4. QED
  BY <1>1, <1>2, <1>3

-----------------------------------------------------------------------------
(* The steps that queue, pop and count *)

\* rknpu_job_alloc() sets run_count.
LEMMA SubmitQueue ==
  ASSUME UInv, LInv, NEW j \in Jobs, Submit(j)
  PROVE  LInv'
<1>0. Unseen(j) /\ pc[j] = "new"
  BY DEF Submit, UInv, FreshInv, NotQueuedYet, Early
<1>1. /\ UNCHANGED <<todo, args, mask, done, work, int_mask, ret, cur, com, at>>
      /\ \A k \in Jobs : k # j => pc'[k] = pc[k] /\ mem'[k] = mem[k] /\ run_count'[k] = run_count[k]
      /\ run_count'[j] = Cardinality(mask[j])
  BY UTypes DEF Submit, subcore, result, alloc, dispatch, device
<1>2. \A k \in Jobs, c \in Cores : InTodo(k, c)' = InTodo(k, c)
  BY <1>1 DEF InTodo
<1>3. MaskInv'
  BY <1>1 DEF LInv, MaskInv, Early
<1>4. QueuedInv'
  BY <1>0, <1>1, <1>2 DEF LInv, QueuedInv, Unseen, QueuedState, QueuedAt
<1>5. PopInv'
  BY <1>1, <1>2 DEF LInv, PopInv, PoppedBy
<1>6. CountedInv'
  <2>1. StillCounted(j)' = {}
    BY <1>0, <1>1, <1>2, UTypes DEF StillCounted, PoppedBy, Unseen
  <2>2. Cardinality(mask[j]) \in Nat /\ Cardinality({}) = 0
    BY MaskCardinality, UTypes, FS_EmptySet
  <2>3. \A k \in Jobs : StillCounted(k)' = StillCounted(k)
    BY <1>1, <1>2, UTypes DEF StillCounted, PoppedBy
  <2>4. QED
    BY <1>1, <2>1, <2>2, <2>3 DEF LInv, CountedInv
<1>7. QED
  BY <1>3, <1>4, <1>5, <1>6 DEF LInv

\* rknpu_schedule_core_index(): there is one core to choose.
LEMMA PickCoreQueue ==
  ASSUME UInv, LInv, NEW j \in Jobs, PickCore(j)
  PROVE  LInv'
<1>0. Unseen(j) /\ num_irqs = 1
  BY DEF PickCore, UInv, FreshInv, NotQueuedYet, Early, LInv, MaskInv
<1>1. PICK c \in Cores : mask' = [mask EXCEPT ![j] = {c}]
  BY DEF PickCore
<1>2. /\ UNCHANGED <<todo, args, pc, mem, done, work, int_mask, ret, cur, com, at>>
      /\ \A k \in Jobs : k # j => mask'[k] = mask[k] /\ run_count'[k] = run_count[k]
      /\ run_count'[j] = 1 /\ mask'[j] = {c}
  BY <1>1, UTypes DEF PickCore, subcore, result, alloc, dispatch, device
<1>3. \A k \in Jobs, d \in Cores : InTodo(k, d)' = InTodo(k, d)
  BY <1>2 DEF InTodo
<1>4. c = 0 /\ Cardinality({c}) = 1
  <2>1. c = 0
    BY <1>0 DEF Cores
  <2>2. Cardinality({c}) = 1
    BY FS_Singleton
  <2>3. QED
    BY <2>1, <2>2
<1>5. MaskInv'
  <2>1. \A k \in Jobs : Early(k)' = Early(k)
    BY <1>2 DEF Early
  <2>2. \A k \in Jobs : k # j => MaskInv!(k)'
    BY <1>2, <2>1 DEF LInv, MaskInv
  <2>3. MaskInv!(j)'
    BY <1>2, <1>4 DEF LInv, MaskInv
  <2>4. QED
    BY <2>2, <2>3 DEF MaskInv
<1>6. QueuedInv'
  BY <1>2, <1>3 DEF LInv, QueuedInv, QueuedState, QueuedAt
<1>7. PopInv'
  BY <1>0, <1>2, <1>3 DEF LInv, PopInv, PoppedBy, Unseen
<1>8. CountedInv'
  <2>1. StillCounted(j)' = {}
    <3>1. ~InTodo(j, c)' /\ \A t \in Threads : ~PoppedBy(t, j, c)'
      BY <1>0, <1>2, <1>3 DEF PoppedBy, Unseen
    <3>2. QED
      BY <1>2, <3>1 DEF StillCounted
  <2>2. \A k \in Jobs : k # j => StillCounted(k)' = StillCounted(k)
    BY <1>2, <1>3, UTypes DEF StillCounted, PoppedBy
  <2>3. QED
    BY <1>2, <2>1, <2>2, FS_EmptySet DEF LInv, CountedInv
<1>9. QED
  BY <1>5, <1>6, <1>7, <1>8 DEF LInv

\* rknpu_job_schedule(): the job is queued on as many cores as run_count says.
LEMMA EnqueueQueue ==
  ASSUME UInv, LInv, NEW j \in Jobs, Enqueue(j), UNCHANGED recovery
  PROVE  LInv'
<1>0. Unseen(j) /\ mem[j] = "live" /\ Early(j) /\ pc[j] = "schedule" /\ mask[j] # {}
  BY DEF Enqueue, UInv, FreshInv, NotQueuedYet, Early
<1>1. \A k \in Jobs, c \in Cores : InTodo(k, c)' <=> InTodo(k, c) \/ (k = j /\ c \in mask[j])
  BY EnqueueRefs
<1>2. /\ UNCHANGED <<args, mask, mem, done, work, int_mask, ret, cur, com, at, run_count>>
      /\ pc'[j] = "queued" /\ \A k \in Jobs : k # j => pc'[k] = pc[k]
  BY UTypes DEF Enqueue, counts, result, alloc, device
<1>3. MaskInv'
  BY <1>2 DEF LInv, MaskInv, Early
<1>4. QueuedInv'
  <2>1. QueuedState(j)'
    BY <1>0, <1>2 DEF QueuedState, QueuedAt, Unseen
  <2>2. \A k \in Jobs : k # j => QueuedState(k)' = QueuedState(k)
    BY <1>2 DEF QueuedState, QueuedAt
  <2>3. QED
    BY <1>1, <2>1, <2>2 DEF LInv, QueuedInv
<1>5. PopInv'
  BY <1>0, <1>1, <1>2 DEF LInv, PopInv, PoppedBy, Unseen
<1>6. CountedInv'
  <2>1. StillCounted(j)' \subseteq mask[j] /\ mask[j] \subseteq Cores
    BY <1>2, UTypes DEF StillCounted
  <2>2. PICK S \in SUBSET Cores : S = mask[j]
    BY <2>1
  <2>3. PICK T \in SUBSET S : T = StillCounted(j)'
    BY <2>1, <2>2
  <2>4. Cardinality(T) <= Cardinality(S)
    BY CoreSubset
  <2>5. run_count'[j] = Cardinality(S)
    BY <1>0, <1>2, <2>2 DEF LInv, MaskInv
  <2>6. \A k \in Jobs : k # j => StillCounted(k)' = StillCounted(k)
    BY <1>1, <1>2, UTypes DEF StillCounted, PoppedBy
  <2>7. QED
    BY <1>2, <2>3, <2>4, <2>5, <2>6 DEF LInv, CountedInv
<1>7. QED
  BY <1>3, <1>4, <1>5, <1>6 DEF LInv

\* rknpu_job_next() pops a job: its core is still to be counted.
LEMMA JobNextPopsQueue ==
  ASSUME UInv, LInv, NEW t \in Threads, NEW c \in Cores, JobNextPops(t, c), UNCHANGED recovery
  PROVE  LInv'
<1>1. PICK h \in Jobs :
         /\ InTodo(h, c) /\ ~InTodo(h, c)' /\ cur' = [cur EXCEPT ![t] = h]
         /\ \A k \in Jobs, d \in Cores : (k # h \/ d # c) => (InTodo(k, d)' <=> InTodo(k, d))
  BY JobNextPopsRefs
<1>2. /\ UNCHANGED <<args, mask, mem, done, work, int_mask, ret, com, run_count, pc>>
      /\ cur[t] = NoJob /\ cur'[t] = h /\ at'[t] = c
      /\ \A u \in Threads : u # t => cur'[u] = cur[u] /\ at'[u] = at[u]
  BY <1>1, UTypes DEF JobNextPops, counts, result, alloc, device
<1>3. com[t] = {}
  BY <1>2 DEF LInv, PopInv
<1>4. \A k \in Jobs, d \in Cores : InTodo(k, d)' => InTodo(k, d)
  BY <1>1
<1>5. c \in mask[h]
  BY <1>1 DEF UInv, PlaceInv
<1>6. MaskInv'
  BY <1>2 DEF LInv, MaskInv, Early
<1>7. QueuedInv'
  BY <1>2, <1>4 DEF LInv, QueuedInv, QueuedState, QueuedAt
<1>8. \A u \in Threads, k \in Jobs, d \in Cores :
         PoppedBy(u, k, d)' <=> PoppedBy(u, k, d) \/ (u = t /\ k = h /\ d = c)
  BY <1>2, <1>3, UTypes DEF PoppedBy
<1>9. PopInv'
  <2>1. \A u \in Threads : com'[u] # {} => cur'[u] # NoJob
    BY <1>2, <1>3 DEF LInv, PopInv
  <2>2. \A k \in Jobs, u \in Threads, d \in Cores : com'[u] # {} /\ cur'[u] = k => ~InTodo(k, d)'
    BY <1>2, <1>3, <1>4 DEF LInv, PopInv
  <2>3. \A k \in Jobs, u \in Threads, d \in Cores :
           PoppedBy(u, k, d)' => d \in mask'[k] /\ ~InTodo(k, d)'
    BY <1>1, <1>2, <1>4, <1>5, <1>8 DEF LInv, PopInv
  <2>4. \A k \in Jobs, u, v \in Threads, d \in Cores :
           PoppedBy(u, k, d)' /\ PoppedBy(v, k, d)' => u = v
    BY <1>1, <1>8 DEF LInv, PopInv
  <2>5. QED
    BY <2>1, <2>2, <2>3, <2>4 DEF PopInv
<1>10. CountedInv'
  <2>1. \A k \in Jobs : StillCounted(k)' = StillCounted(k)
    <3>1. ASSUME NEW k \in Jobs, NEW d \in Cores
          PROVE  (InTodo(k, d)' \/ \E u \in Threads : PoppedBy(u, k, d)') <=>
                 (InTodo(k, d) \/ \E u \in Threads : PoppedBy(u, k, d))
      <4>1. CASE k = h /\ d = c
        BY <1>1, <1>8, <4>1
      <4>2. CASE ~(k = h /\ d = c)
        BY <1>1, <1>8, <4>2
      <4>3. QED
        BY <4>1, <4>2
    <3>2. QED
      BY <1>2, <3>1, UTypes DEF StillCounted
  <2>2. QED
    BY <1>2, <2>1 DEF LInv, CountedInv
<1>11. QED
  BY <1>6, <1>7, <1>9, <1>10 DEF LInv

\* atomic_dec_and_test(&job->run_count): the last to count finds the job on no list.
LEMMA JobNextCountsQueue ==
  ASSUME UInv, LInv, NEW t \in Threads, JobNextCounts(t)
  PROVE  LInv'
<1>1. PICK h \in Jobs : h = cur[t]
  BY UTypes DEF JobNextCounts
<1>2. PICK c \in Cores : c = at[t]
  BY UTypes
<1>3. PICK m : m = IF run_count[h] = 1 THEN CommitCores(mask[h]) ELSE {}
  OBVIOUS
<1>4. /\ UNCHANGED <<todo, args, mask, mem, done, work, int_mask, ret, pc>>
      /\ run_count' = [run_count EXCEPT ![h] = run_count[h] - 1]
      /\ com' = [com EXCEPT ![t] = m] /\ cur' = [cur EXCEPT ![t] = IF m = {} THEN NoJob ELSE h]
      /\ at' = [at EXCEPT ![t] = 0] /\ com[t] = {}
  BY <1>1, <1>3 DEF JobNextCounts, subcore, result, alloc, device
<1>5. \A k \in Jobs, d \in Cores : InTodo(k, d)' = InTodo(k, d)
  BY <1>4 DEF InTodo
<1>6. PoppedBy(t, h, c) /\ c \in mask[h] /\ ~InTodo(h, c)
  BY <1>1, <1>2, <1>4 DEF PoppedBy, LInv, PopInv
<1>7. /\ \A u \in Threads : u # t => cur'[u] = cur[u] /\ com'[u] = com[u] /\ at'[u] = at[u]
      /\ com'[t] = m /\ cur'[t] = IF m = {} THEN NoJob ELSE h
  BY <1>4, UTypes
<1>8. \A u \in Threads, k \in Jobs, d \in Cores : PoppedBy(u, k, d)' => PoppedBy(u, k, d) /\ u # t
  BY <1>7, UTypes DEF PoppedBy
<1>9. PICK S \in SUBSET Cores : S = StillCounted(h)
  BY UTypes DEF StillCounted
<1>10. /\ c \in S /\ Cardinality(S) \in Nat /\ Cardinality(S) >= 1 /\ IsFiniteSet(S)
       /\ Cardinality(S \ {c}) = Cardinality(S) - 1
       /\ Cardinality(S) = 1 => S = {c}
  <2>1. c \in S
    BY <1>6, <1>9 DEF StillCounted
  <2>2. IsFiniteSet(S)
    BY CoreSubset
  <2>3. QED
    BY <2>1, <2>2, LosesOne
<1>11. Cardinality(S) <= run_count[h] /\ run_count[h] \in Int
  BY <1>9, UTypes DEF LInv, CountedInv
<1>12. m # {} => \A d \in Cores : ~InTodo(h, d)
  <2>1. m # {} => S = {c}
    BY <1>3, <1>10, <1>11
  <2>2. \A d \in Cores : InTodo(h, d) => d \in S
    BY <1>9 DEF UInv, PlaceInv, StillCounted
  <2>3. QED
    BY <1>6, <2>1, <2>2
<1>13. MaskInv'
  <2>1. ~Early(h)
    BY <1>1 DEF UInv, FreshInv, NotQueuedYet, Unseen
  <2>2. \A k \in Jobs : k # h => run_count'[k] = run_count[k]
    BY <1>4, UTypes
  <2>3. QED
    BY <1>4, <2>1, <2>2 DEF LInv, MaskInv, Early
<1>14. QueuedInv'
  BY <1>4, <1>5 DEF LInv, QueuedInv, QueuedState, QueuedAt
<1>15. PopInv'
  <2>1. \A u \in Threads : com'[u] # {} => cur'[u] # NoJob
    BY <1>7, UTypes DEF LInv, PopInv
  <2>2. \A k \in Jobs, u \in Threads, d \in Cores : com'[u] # {} /\ cur'[u] = k => ~InTodo(k, d)'
    BY <1>5, <1>7, <1>12 DEF LInv, PopInv
  <2>3. \A k \in Jobs, u \in Threads, d \in Cores :
           PoppedBy(u, k, d)' => d \in mask'[k] /\ ~InTodo(k, d)'
    BY <1>4, <1>5, <1>8 DEF LInv, PopInv
  <2>4. \A k \in Jobs, u, v \in Threads, d \in Cores :
           PoppedBy(u, k, d)' /\ PoppedBy(v, k, d)' => u = v
    BY <1>8 DEF LInv, PopInv
  <2>5. QED
    BY <2>1, <2>2, <2>3, <2>4 DEF PopInv
<1>16. CountedInv'
  <2>1. ASSUME NEW k \in Jobs, k # h
        PROVE  Cardinality(StillCounted(k))' <= run_count'[k]
    <3>1. StillCounted(k)' \subseteq StillCounted(k) /\ StillCounted(k) \subseteq Cores
      BY <1>4, <1>5, <1>8, UTypes DEF StillCounted
    <3>2. PICK A \in SUBSET Cores : A = StillCounted(k)
      BY <3>1
    <3>3. PICK B \in SUBSET A : B = StillCounted(k)'
      BY <3>1, <3>2
    <3>4. Cardinality(B) <= Cardinality(A) /\ Cardinality(B) \in Nat /\ Cardinality(A) \in Nat
      BY CoreSubset
    <3>5. Cardinality(A) <= run_count[k] /\ run_count[k] \in Int /\ run_count'[k] = run_count[k]
      BY <1>4, <2>1, <3>2, UTypes DEF LInv, CountedInv
    <3>6. QED
      BY <3>3, <3>4, <3>5
  <2>2. Cardinality(StillCounted(h))' <= run_count'[h]
    <3>1. StillCounted(h)' \subseteq S \ {c}
      <4>1. ~InTodo(h, c)' /\ \A u \in Threads : ~PoppedBy(u, h, c)'
        BY <1>5, <1>6, <1>8 DEF LInv, PopInv
      <4>2. QED
        BY <1>4, <1>5, <1>8, <1>9, <4>1, UTypes DEF StillCounted
    <3>2. PICK A \in SUBSET Cores : A = S \ {c}
      OBVIOUS
    <3>3. PICK B \in SUBSET A : B = StillCounted(h)'
      BY <3>1, <3>2
    <3>4. Cardinality(B) <= Cardinality(A) /\ Cardinality(B) \in Nat /\ Cardinality(A) \in Nat
      BY CoreSubset
    <3>5. run_count'[h] = run_count[h] - 1
      BY <1>4, UTypes
    <3>6. QED
      BY <1>10, <1>11, <3>2, <3>3, <3>4, <3>5
  <2>3. QED
    BY <2>1, <2>2 DEF CountedInv
<1>17. QED
  BY <1>13, <1>14, <1>15, <1>16 DEF LInv


-----------------------------------------------------------------------------
(* No queued job is freed *)

\* The sweep that finds an expired job, and the user's reset.
LEMMA ResetQueue ==
  ASSUME UInv, LInv,
         \/ \E j \in Jobs, c \in Cores : CleanExpired(j, c)
         \/ \E t \in Threads : JobNextChecks(t)
         \/ UserReset \/ UNCHANGED rvars
  PROVE  QueuedStep /\ PopStep /\ CountStep
<1>1. /\ UNCHANGED <<args, mem, done, work, int_mask, ret, cur, com, at, run_count>>
  BY DEF CleanExpired, UserReset, UserResetBegins, UserResetMarks, UserResetHits, UserResetEnds,
         UserResetUnlocks, JobNextChecks, rvars, vars, subcore, counts, result, alloc, dispatch,
         device
<1>2. PopStep
  BY <1>1 DEF PopStep, PoppedBy
<1>3. \A j \in Jobs : \/ pc'[j] = pc[j]
                      \/ pc[j] = "asleep" /\ pc'[j] = "wait"
                      \/ pc[j] = "clean" /\ pc'[j] = "reset"
  <2>1. ASSUME NEW j \in Jobs, NEW c \in Cores, CleanExpired(j, c)
        PROVE  pc[j] = "clean" /\ pc' = [pc EXCEPT ![j] = "reset"]
    BY <2>1 DEF CleanExpired, Goto
  <2>2. CASE UserResetHits
    BY <2>2 DEF UserResetHits
  <2>3. CASE \/ UserResetBegins \/ UserResetMarks \/ UserResetEnds \/ UserResetUnlocks
             \/ (\E t \in Threads : JobNextChecks(t)) \/ UNCHANGED rvars
    BY <2>3
    DEF UserResetBegins, UserResetMarks, UserResetEnds, UserResetUnlocks, JobNextChecks, rvars,
        vars
  <2>4. QED
    BY <2>1, <2>2, <2>3, UTypes DEF UserReset
<1>4. QueuedStep
  BY <1>1, <1>3, UTypes DEF QueuedStep, QueuedState, QueuedAt
<1>5. CountStep
  <2>1. \A j \in Jobs : Early(j)' /\ pc'[j] # "new" => Early(j) /\ pc[j] # "new"
    BY <1>1, <1>3 DEF Early
  <2>2. QED
    BY <1>1, <2>1 DEF CountStep
<1>6. QED
  BY <1>2, <1>4, <1>5

\* Every step keeps the queued jobs as they should be.
LEMMA LStep ==
  ASSUME UInv, LInv, [RNext]_rvars
  PROVE  LInv'
<1>1. CASE \E j \in Jobs : Enqueue(j) /\ UNCHANGED recovery
  BY <1>1, EnqueueQueue
<1>2. CASE \E t \in Threads, c \in Cores : JobNextPops(t, c) /\ UNCHANGED recovery
  BY <1>2, JobNextPopsQueue
<1>3. CASE \E j \in Jobs : PickCore(j)
  BY <1>3, PickCoreQueue
<1>4. CASE Shrinks /\ args' = args /\ mask' = mask
  <2>0. ASSUME QueuedStep /\ PopStep /\ CountStep
        PROVE  LInv'
    BY <1>4, <2>0, QueueFrame
  <2>1. CASE Next /\ UNCHANGED recovery
    <3>1. ASSUME NEW j \in Jobs, SubmitFails(j) \/ Submit(j) \/ SubmitterStep(j) \/ CleanupWork(j)
          PROVE  LInv'
      <4>1. CASE Submit(j)
        BY <4>1, SubmitQueue
      <4>2. CASE Enqueue(j) \/ PickCore(j)
        BY <1>1, <1>3, <2>1, <4>2
      <4>3. CASE ~(Submit(j) \/ Enqueue(j) \/ PickCore(j))
        BY <2>0, <2>1, <3>1, <4>3, SubmitterQueue DEF SubmitterStep
      <4>4. QED
        BY <4>1, <4>2, <4>3
    <3>2. ASSUME NEW t \in Threads, DispatchStep(t)
          PROVE  LInv'
      <4>1. CASE JobNextCounts(t)
        BY <4>1, JobNextCountsQueue
      <4>2. ASSUME NEW c \in Cores, JobNextReturns(t, c) \/ CommitCore(t, c)
            PROVE  LInv'
        BY <2>0, <2>1, <4>2, DispatchQueue
      <4>3. QED
        BY <1>2, <2>1, <3>2, <4>1, <4>2 DEF DispatchStep
    <3>3. ASSUME NEW c \in Cores, HwFinishes(c) \/ HandlerStep(c)
          PROVE  LInv'
      BY <2>0, <2>1, <3>3, HandlerQueue DEF HandlerStep
    <3>4. CASE AllReturned
      <4>1. UNCHANGED rvars
        BY <2>1, <3>4 DEF AllReturned, rvars
      <4>2. QED
        BY <2>0, <4>1, ResetQueue
    <3>5. QED
      BY <2>1, <3>1, <3>2, <3>3, <3>4 DEF Next
  <2>2. ASSUME NEW j \in Jobs, ScheduleFails(j) \/ WaitExpires(j) \/ RecoveryStep(j)
        PROVE  LInv'
    BY <2>0, <2>2, FailureQueue DEF RecoveryStep
  <2>3. ASSUME NEW c \in Cores, HwGlitches(c) \/ RHandlerStep(c)
        PROVE  LInv'
    BY <2>0, <2>3, SpuriousQueue DEF RHandlerStep
  <2>4. CASE \/ \E j \in Jobs, c \in Cores : CleanExpired(j, c)
             \/ \E t \in Threads : JobNextChecks(t)
             \/ UserReset \/ UNCHANGED rvars
    BY <2>0, <2>4, ResetQueue
  <2>5. QED
    BY <2>1, <2>2, <2>3, <2>4 DEF RNext
<1>5. QED
  BY <1>1, <1>2, <1>3, <1>4, ShrinkingSteps, MaskSteps

\* No job is queued at first.
LEMMA LInit ==
  ASSUME RInit, BlockingIsWaitedFor, DequeueCoversMask
  PROVE  LInv
<1>0. Init
  BY DEF RInit
<1>1. /\ \A j \in Jobs : args[j] \in Args /\ mask[j] = args[j].mask /\ run_count[j] = 0
      /\ \A j \in Jobs : pc[j] = "new"
      /\ \A t \in Threads : cur[t] = NoJob /\ com[t] = {}
      /\ \A c \in Cores : todo[c] = <<>>
  BY <1>0 DEF Init
<1>2. \A j \in Jobs, c \in Cores : ~InTodo(j, c)
  BY <1>1 DEF InTodo
<1>3. \A t \in Threads, j \in Jobs, c \in Cores : ~PoppedBy(t, j, c)
  BY <1>1, ConstantsAssumption DEF PoppedBy
<1>4. MaskInv
  BY <1>1 DEF MaskInv, BlockingIsWaitedFor, DequeueCoversMask
<1>5. QueuedInv
  BY <1>2 DEF QueuedInv
<1>6. PopInv
  BY <1>1, <1>3 DEF PopInv
<1>7. CountedInv
  <2>1. \A j \in Jobs : StillCounted(j) = {}
    <3>1. \A j \in Jobs : mask[j] \subseteq Cores
      BY UInit, UTypes
    <3>2. QED
      BY <1>2, <1>3, <3>1 DEF StillCounted
  <2>2. QED
    <3>1. Cardinality({}) = 0
      BY FS_EmptySet
    <3>2. \A j \in Jobs : Cardinality(StillCounted(j)) = 0 /\ run_count[j] = 0
      BY <1>1, <2>1, <3>1
    <3>3. QED
      BY <3>2 DEF CountedInv
<1>8. QED
  BY <1>4, <1>5, <1>6, <1>7 DEF LInv

\* The conjunction is inductive.
LEMMA LInvariance ==
  ASSUME BlockingIsWaitedFor, DequeueCoversMask
  PROVE  RSpec => [](UInv /\ LInv)
<1>1. RInit => UInv /\ LInv
  BY UInit, LInit
<1>2. UInv /\ LInv /\ [RNext]_rvars => UInv' /\ LInv'
  BY UStep, LStep
<1>3. QED
  BY <1>1, <1>2, PTL DEF RSpec

\* rknpu_job_wait() and rknpu_job_timeout_clean(): no list holds a freed job, although
\* the submitter of a queued job gives up and sweeps drain the lists, if blocking
\* submissions set RKNPU_JOB_PC and every mask names the first cores of the device.
\* (With another mask the submitter removes its job from the wrong lists: see the run
\* recovery_second_core.)
THEOREM QueuedJobsAreLive ==
  ASSUME BlockingIsWaitedFor, DequeueCoversMask
  PROVE  RSpec => []QueuedIsLive
<1>1. UInv /\ LInv => QueuedIsLive
  BY DEF LInv, QueuedInv, QueuedState, QueuedIsLive
<1>2. QED
  BY <1>1, LInvariance, PTL

-----------------------------------------------------------------------------
(* What a stale slot names *)

\* rknpu_job_abort() is past its slots.
Failing(j) ==
    \/ pc[j] = "free"
    \/ /\ ~args[j].nonblock
       /\ pc[j] \in {"reset", "locked", "resetting", "reset_end", "unlocking"}

\* Only asynchronous submissions go on without a wait; a handler has seen every job
\* that is done, and every job in a slot that is freed or about to be.
StaleInv ==
    /\ \A j \in Jobs : pc[j] = "check" => args[j].nonblock
    /\ \A j \in Jobs : done[j] => mask[j] \subseteq irq_entry[j]
    /\ \A j \in Jobs, c \in Cores :
          slot[c] = j /\ (mem[j] # "live" \/ Failing(j)) => c \in irq_entry[j]

\* Everything the proof carries along.
SInv == UInv /\ LInv /\ OneCoreEach /\ CleanupIsUnlinked /\ StaleInv

SlotsShrink == \A c \in Cores : slot'[c] \in {slot[c], NoJob}

EntriesGrow == \A j \in Jobs : irq_entry[j] \subseteq irq_entry'[j]

\* No submission begins to fail or goes on without a wait.
NoNewFailure ==
    \A j \in Jobs : (pc'[j] = "check" => pc[j] = "check") /\ (Failing(j)' => Failing(j))

\* A step that completes, frees and fails no job.
LEMMA StaleFrame ==
  ASSUME SInv, args' = args, mask' = mask, done' = done, mem' = mem, SlotsShrink, EntriesGrow,
         NoNewFailure
  PROVE  StaleInv'
<1>1. \A j \in Jobs : pc'[j] = "check" => args'[j].nonblock
  BY DEF SInv, StaleInv, NoNewFailure
<1>2. \A j \in Jobs : done'[j] => mask'[j] \subseteq irq_entry'[j]
  BY DEF SInv, StaleInv, EntriesGrow
<1>3. \A j \in Jobs, c \in Cores :
         slot'[c] = j /\ (mem'[j] # "live" \/ Failing(j)') => c \in irq_entry'[j]
  BY ConstantsAssumption DEF SInv, StaleInv, EntriesGrow, SlotsShrink, NoNewFailure
<1>4. QED
  BY <1>1, <1>2, <1>3 DEF StaleInv

\* A step after which one job may be freed or fail, but is in a slot only if the
\* handler of that core has seen it.
LEMMA StaleOne ==
  ASSUME SInv, args' = args, mask' = mask, done' = done, SlotsShrink, irq_entry' = irq_entry,
         NEW h \in Jobs, \A j \in Jobs : j # h => pc'[j] = pc[j] /\ mem'[j] = mem[j],
         pc'[h] = "check" => args[h].nonblock,
         \A c \in Cores : slot'[c] = h => c \in irq_entry[h]
  PROVE  StaleInv'
<1>1. \A j \in Jobs : pc'[j] = "check" => args'[j].nonblock
  BY DEF SInv, StaleInv
<1>2. \A j \in Jobs : done'[j] => mask'[j] \subseteq irq_entry'[j]
  BY DEF SInv, StaleInv
<1>3. ASSUME NEW j \in Jobs, NEW c \in Cores, slot'[c] = j, mem'[j] # "live" \/ Failing(j)'
      PROVE  c \in irq_entry'[j]
  <2>1. CASE j = h
    BY <1>3, <2>1
  <2>2. CASE j # h
    <3>1. slot[c] = j
      BY <1>3, ConstantsAssumption DEF SlotsShrink
    <3>2. mem[j] # "live" \/ Failing(j)
      BY <1>3, <2>2 DEF Failing
    <3>3. QED
      BY <3>1, <3>2 DEF SInv, StaleInv
  <2>3. QED
    BY <2>1, <2>2
<1>4. QED
  BY <1>1, <1>2, <1>3 DEF StaleInv

\* The submitter: it frees a job that is done, or one that is not its own.
LEMMA SubmitterStale ==
  ASSUME SInv, args' = args, mask' = mask, SlotsShrink, NEW j \in Jobs,
         SubmitFails(j) \/ Submit(j) \/ SubmitterStep(j) \/ CleanupWork(j), ~PickCore(j)
  PROVE  StaleInv'
<1>0. UInv
  BY DEF SInv
<1>1. UNCHANGED <<done, irq_entry>>
  BY DEF SubmitFails, Submit, SubmitterStep, CleanNothing, Enqueue, Scheduled, WaitSleeps,
         WaitEnds, WaitSucceeds, Returns, CleanupWork, result, handler
<1>2. \A k \in Jobs : k # j => pc'[k] = pc[k] /\ mem'[k] = mem[k]
  <2>1. \A k \in Jobs : k # j => pc'[k] = pc[k]
    BY <1>0, UTypes
    DEF SubmitFails, Submit, SubmitterStep, CleanNothing, Enqueue, Scheduled, WaitSleeps,
        WaitEnds, WaitSucceeds, Returns, CleanupWork
  <2>2. \A k \in Jobs : k # j => mem'[k] = mem[k]
    BY <1>0, UTypes
    DEF SubmitFails, Submit, SubmitterStep, CleanNothing, Enqueue, Scheduled, WaitSleeps,
        WaitEnds, WaitSucceeds, Returns, CleanupWork, alloc
  <2>3. QED
    BY <2>1, <2>2
<1>3. ASSUME \A c \in Cores : slot'[c] = j => c \in irq_entry[j],
             pc'[j] = "check" => args[j].nonblock
      PROVE  StaleInv'
  BY <1>1, <1>2, <1>3, StaleOne
<1>4. \A c \in Cores : slot'[c] = j => slot[c] = j
  BY ConstantsAssumption DEF SlotsShrink
<1>5. CASE SubmitFails(j) \/ Submit(j) \/ CleanNothing(j) \/ Enqueue(j)
  <2>1. Unseen(j)
    BY <1>0, <1>5 DEF SubmitFails, Submit, CleanNothing, Enqueue, UInv, FreshInv, NotQueuedYet,
                      Early
  <2>2. pc'[j] # "check"
    BY <1>0, <1>5, UTypes DEF SubmitFails, Submit, CleanNothing, Enqueue
  <2>3. QED
    BY <1>3, <1>4, <2>1, <2>2 DEF Unseen
<1>6. CASE Scheduled(j) \/ WaitSleeps(j) \/ WaitEnds(j)
  <2>1. mem' = mem
    BY <1>6 DEF Scheduled, WaitSleeps, WaitEnds, alloc
  <2>2. ~Failing(j)' /\ (pc'[j] = "check" => args'[j].nonblock)
    BY <1>0, <1>6, UTypes DEF Scheduled, WaitSleeps, WaitEnds, Failing, SInv, LInv, MaskInv
  <2>3. \A k \in Jobs : pc'[k] = "check" => args'[k].nonblock
    BY <1>2, <2>2 DEF SInv, StaleInv
  <2>4. \A k \in Jobs : done'[k] => mask'[k] \subseteq irq_entry'[k]
    BY <1>1 DEF SInv, StaleInv
  <2>5. \A k \in Jobs : Failing(k)' => Failing(k)
    BY <1>2, <2>2 DEF Failing
  <2>6. \A k \in Jobs, c \in Cores :
           slot'[c] = k /\ (mem'[k] # "live" \/ Failing(k)') => c \in irq_entry'[k]
    BY <1>1, <2>1, <2>5, ConstantsAssumption DEF SInv, StaleInv, SlotsShrink
  <2>7. QED
    BY <2>3, <2>4, <2>6 DEF StaleInv
<1>7. CASE WaitSucceeds(j)
  <2>1. mask[j] \subseteq irq_entry[j]
    BY <1>7 DEF WaitSucceeds, SInv, StaleInv
  <2>2. \A c \in Cores : slot[c] = j => c \in mask[j]
    BY <1>0 DEF UInv, PlaceInv
  <2>3. pc'[j] # "check"
    BY <1>0, <1>7, UTypes DEF WaitSucceeds
  <2>4. QED
    BY <1>3, <1>4, <2>1, <2>2, <2>3
<1>8. CASE Returns(j)
  <2>1. mem' = mem
    BY <1>0, <1>8, UTypes DEF Returns, SInv, StaleInv
  <2>2. NoNewFailure
    BY <1>0, <1>8, UTypes DEF Returns, NoNewFailure, Failing
  <2>3. EntriesGrow
    BY <1>1 DEF EntriesGrow
  <2>4. QED
    BY <1>1, <2>1, <2>2, <2>3, StaleFrame
<1>9. CASE CleanupWork(j)
  <2>1. \A c \in Cores : slot[c] # j
    BY <1>9 DEF CleanupWork, SInv, CleanupIsUnlinked
  <2>2. pc'[j] = "check" => args[j].nonblock
    BY <1>9 DEF CleanupWork, SInv, StaleInv
  <2>3. QED
    BY <1>3, <1>4, <2>1, <2>2
<1>10. QED
  BY <1>5, <1>6, <1>7, <1>8, <1>9 DEF SubmitterStep

\* The dispatchers and the handlers: a job is completed by the handler of its core.
LEMMA HandlerStale ==
  ASSUME SInv, args' = args, mask' = mask, SlotsShrink,
         \/ \E t \in Threads : DispatchStep(t)
         \/ \E c \in Cores : HwFinishes(c) \/ HandlerStep(c) \/ HwGlitches(c) \/ RHandlerStep(c)
  PROVE  StaleInv'
<1>0. UInv
  BY DEF SInv
<1>1. mem' = mem
  BY DEF DispatchStep, JobNextReturns, JobNextPops, JobNextCounts, CommitCore, HwFinishes,
         HandlerStep, IrqEnters, DoneRecommits, DoneLastSegment, DoneRetires, DoneNotLastCore,
         DoneLastCore, DoneSignals, DoneWakes, HwGlitches, RHandlerStep, IrqWithoutJob,
         IrqInvalid, alloc
<1>2. NoNewFailure
  <2>1. CASE pc' = pc
    BY <2>1 DEF NoNewFailure, Failing
  <2>2. ASSUME NEW c \in Cores, DoneWakes(c)
        PROVE  NoNewFailure
    BY <1>0, <2>2, UTypes DEF DoneWakes, Woken, NoNewFailure, Failing
  <2>3. CASE ~\E c \in Cores : DoneWakes(c)
    <3>1. pc' = pc
      BY <2>3
      DEF DispatchStep, JobNextReturns, JobNextPops, JobNextCounts, CommitCore, HwFinishes,
          HandlerStep, IrqEnters, DoneRecommits, DoneLastSegment, DoneRetires, DoneNotLastCore,
          DoneLastCore, DoneSignals, HwGlitches, RHandlerStep, IrqWithoutJob, IrqInvalid
    <3>2. QED
      BY <2>1, <3>1
  <2>4. QED
    BY <2>2, <2>3
<1>3. ASSUME NEW c \in Cores, DoneLastCore(c)
      PROVE  StaleInv'
  <2>1. PICK h \in Jobs : h = ijob[c]
    <3>1. irq[c] # "idle"
      BY <1>3 DEF DoneLastCore
    <3>2. QED
      BY <1>0, <3>1, UTypes DEF TypeOK
  <2>2. irq_entry' = irq_entry /\ \A k \in Jobs : k # h => done'[k] = done[k]
    BY <1>0, <1>3, <2>1, UTypes DEF DoneLastCore
  <2>3. mask[h] \subseteq irq_entry[h]
    BY <1>0, <2>1 DEF UInv, PlaceInv, SInv, OneCoreEach
  <2>4. ASSUME NEW k \in Jobs, done'[k]
        PROVE  mask'[k] \subseteq irq_entry'[k]
    <3>1. CASE k = h
      BY <2>2, <2>3, <3>1
    <3>2. CASE k # h
      BY <2>2, <2>4, <3>2 DEF SInv, StaleInv
    <3>3. QED
      BY <3>1, <3>2
  <2>5. \A k \in Jobs : pc'[k] = "check" => args'[k].nonblock
    BY <1>2 DEF SInv, StaleInv, NoNewFailure
  <2>6. \A k \in Jobs, d \in Cores :
           slot'[d] = k /\ (mem'[k] # "live" \/ Failing(k)') => d \in irq_entry'[k]
    BY <1>1, <1>2, <2>2, ConstantsAssumption DEF SInv, StaleInv, SlotsShrink, NoNewFailure
  <2>7. QED
    BY <2>4, <2>5, <2>6 DEF StaleInv
<1>4. CASE ~\E c \in Cores : DoneLastCore(c)
  <2>1. done' = done
    BY <1>4
    DEF DispatchStep, JobNextReturns, JobNextPops, JobNextCounts, CommitCore, HwFinishes,
        HandlerStep, IrqEnters, DoneRecommits, DoneLastSegment, DoneRetires, DoneNotLastCore,
        DoneSignals, DoneWakes, HwGlitches, RHandlerStep, IrqWithoutJob, IrqInvalid, result
  <2>2. EntriesGrow
    <3>1. ASSUME NEW c \in Cores, IrqEnters(c)
          PROVE  EntriesGrow
      BY <1>0, <3>1, UTypes DEF IrqEnters, EntriesGrow
    <3>2. CASE ~\E c \in Cores : IrqEnters(c)
      <4>1. irq_entry' = irq_entry
        BY <3>2
        DEF DispatchStep, JobNextReturns, JobNextPops, JobNextCounts, CommitCore, HwFinishes,
            HandlerStep, DoneRecommits, DoneLastSegment, DoneRetires, DoneNotLastCore,
            DoneLastCore, DoneSignals, DoneWakes, HwGlitches, RHandlerStep, IrqWithoutJob,
            IrqInvalid, handler
      <4>2. QED
        BY <4>1 DEF EntriesGrow
    <3>3. QED
      BY <3>1, <3>2
  <2>3. QED
    BY <1>1, <1>2, <2>1, <2>2, StaleFrame
<1>5. QED
  BY <1>3, <1>4

\* The recovery: rknpu_job_abort() spares only slots whose handler has seen the job.
LEMMA RecoveryStale ==
  ASSUME SInv, args' = args, mask' = mask, SlotsShrink, NEW j \in Jobs,
         \/ ScheduleFails(j) \/ WaitExpires(j) \/ RecoveryStep(j)
         \/ \E c \in Cores : CleanExpired(j, c)
  PROVE  StaleInv'
<1>0. UInv
  BY DEF SInv
<1>1. done' = done /\ irq_entry' = irq_entry
  BY DEF ScheduleFails, WaitExpires, RecoveryStep, WaitNeverCommitted, WaitDequeues, WaitFails,
         CheckFails, AbortClears, AbortFrees, ResetSkipped, ResetBegins, ResetMarks, ResetHits,
         ResetErrs, ResetEnds, ResetUnlocks, CleanUnlinks, CleanDrains, CleanNextCore,
         CleanExpired, result, handler
<1>2. EntriesGrow
  BY <1>1 DEF EntriesGrow
<1>3. CASE AbortClears(j) \/ AbortFrees(j)
  <2>1. \A c \in Cores : slot'[c] = j => c \in irq_entry[j]
    <3>1. CASE AbortClears(j)
      <4>1. \A c \in Cores : slot[c] = j => c \in mask[j]
        BY <1>0 DEF UInv, PlaceInv
      <4>2. \A c \in Cores :
               slot'[c] = IF c \in mask[j] /\ slot[c] = j /\ c \notin irq_entry[j] THEN NoJob
                          ELSE slot[c]
        BY <3>1 DEF AbortClears
      <4>3. QED
        BY <4>1, <4>2, ConstantsAssumption
    <3>2. CASE AbortFrees(j)
      <4>1. Failing(j) /\ slot' = slot
        BY <3>2 DEF AbortFrees, Failing, subcore
      <4>2. QED
        BY <4>1 DEF SInv, StaleInv
    <3>3. QED
      BY <1>3, <3>1, <3>2
  <2>2. \A k \in Jobs : k # j => pc'[k] = pc[k] /\ mem'[k] = mem[k]
    BY <1>0, <1>3, UTypes DEF AbortClears, AbortFrees, Goto, alloc
  <2>3. pc'[j] # "check"
    BY <1>0, <1>3, UTypes DEF AbortClears, AbortFrees, Goto
  <2>4. QED
    BY <1>1, <2>1, <2>2, <2>3, StaleOne
<1>4. CASE ~(AbortClears(j) \/ AbortFrees(j))
  <2>1. mem' = mem
    BY <1>4
    DEF ScheduleFails, WaitExpires, RecoveryStep, WaitNeverCommitted, WaitDequeues, WaitFails,
        CheckFails, ResetSkipped, ResetBegins, ResetMarks, ResetHits, ResetErrs, ResetEnds,
        ResetUnlocks, CleanUnlinks, CleanDrains, CleanNextCore, CleanExpired, alloc
  <2>2. NoNewFailure
    <3>0. /\ pc[j] \in {"clean", "unlink", "drain"} => args[j].nonblock
          /\ pc \in [Jobs -> PcValues]
      BY <1>0, UTypes DEF RInv, SweepInv
    <3>1. CASE ScheduleFails(j) \/ WaitExpires(j)
      BY <3>0, <3>1 DEF ScheduleFails, WaitExpires, Goto, NoNewFailure, Failing
    <3>2. CASE WaitNeverCommitted(j) \/ WaitDequeues(j) \/ WaitFails(j) \/ CheckFails(j)
      BY <3>0, <3>2 DEF WaitNeverCommitted, WaitDequeues, WaitFails, CheckFails, Goto,
                        NoNewFailure, Failing
    <3>3. CASE \/ ResetSkipped(j) \/ ResetBegins(j) \/ ResetMarks(j) \/ ResetEnds(j)
               \/ ResetUnlocks(j)
      BY <3>0, <3>3
      DEF ResetSkipped, ResetBegins, ResetMarks, ResetEnds, ResetUnlocks, Goto, AfterReset,
          NoNewFailure, Failing
    <3>4. CASE ResetHits(j) \/ ResetErrs(j)
      BY <3>0, <3>4 DEF ResetHits, ResetErrs, AfterReset, NoNewFailure, Failing
    <3>5. CASE CleanUnlinks(j) \/ CleanDrains(j) \/ CleanNextCore(j)
      BY <3>0, <3>5 DEF CleanUnlinks, CleanDrains, CleanNextCore, Goto, NoNewFailure, Failing
    <3>6. ASSUME NEW c \in Cores, CleanExpired(j, c)
          PROVE  NoNewFailure
      BY <3>0, <3>6 DEF CleanExpired, Goto, NoNewFailure, Failing
    <3>7. QED
      BY <1>4, <3>1, <3>2, <3>3, <3>4, <3>5, <3>6 DEF RecoveryStep
  <2>3. QED
    BY <1>1, <1>2, <2>1, <2>2, StaleFrame
<1>5. QED
  BY <1>3, <1>4

\* rknpu_job_next() puts a queued job in a slot, which is live.
LEMMA JobNextPopsStale ==
  ASSUME SInv, NEW t \in Threads, NEW c \in Cores, JobNextPops(t, c), UNCHANGED recovery
  PROVE  StaleInv'
<1>0. UInv
  BY DEF SInv
<1>1. PICK h \in Jobs : InTodo(h, c) /\ slot' = [slot EXCEPT ![c] = h]
  BY <1>0, JobNextPopsRefs
<1>2. UNCHANGED <<args, mask, done, mem, irq_entry, pc>>
  BY DEF JobNextPops, result, alloc, handler
<1>3. mem[h] = "live" /\ ~Failing(h)
  BY <1>1 DEF SInv, LInv, QueuedInv, QueuedState, QueuedAt, Failing
<1>4. \A k \in Jobs, d \in Cores : slot'[d] = k => slot[d] = k \/ k = h
  BY <1>0, <1>1, UTypes
<1>5. \A k \in Jobs : Failing(k)' = Failing(k)
  BY <1>2 DEF Failing
<1>6. QED
  BY <1>2, <1>3, <1>4, <1>5 DEF SInv, StaleInv

\* A step keeps what is known of stale slots.
LEMMA StaleStep ==
  ASSUME SInv, [RNext]_rvars
  PROVE  StaleInv'
<1>0. UInv
  BY DEF SInv
<1>1. CASE \E t \in Threads, c \in Cores : JobNextPops(t, c) /\ UNCHANGED recovery
  BY <1>1, JobNextPopsStale
<1>2. ASSUME NEW j \in Jobs, PickCore(j)
      PROVE  StaleInv'
  <2>1. Unseen(j) /\ pc[j] = "schedule"
    BY <1>0, <1>2 DEF PickCore, UInv, FreshInv, NotQueuedYet, Early
  <2>2. UNCHANGED <<args, done, mem, irq_entry, pc, slot>>
    BY <1>2 DEF PickCore, result, alloc, handler, subcore
  <2>3. \A k \in Jobs : k # j => mask'[k] = mask[k]
    BY <1>0, <1>2, UTypes DEF PickCore
  <2>4. \A k \in Jobs : Failing(k)' = Failing(k)
    BY <2>2 DEF Failing
  <2>5. \A k \in Jobs : done[k] => k # j
    BY <2>1 DEF Unseen
  <2>6. QED
    BY <2>2, <2>3, <2>4, <2>5 DEF SInv, StaleInv
<1>3. CASE SlotsShrink /\ args' = args /\ mask' = mask
  <2>1. ASSUME NEW j \in Jobs, SubmitFails(j) \/ Submit(j) \/ SubmitterStep(j) \/ CleanupWork(j)
        PROVE  StaleInv'
    BY <1>2, <1>3, <2>1, SubmitterStale
  <2>2. CASE UserReset \/ (\E t \in Threads : JobNextChecks(t)) \/ UNCHANGED vars
    <3>1. UNCHANGED <<done, mem, irq_entry>>
      BY <2>2 DEF UserReset, UserResetBegins, UserResetMarks, UserResetHits, UserResetEnds,
                  UserResetUnlocks, JobNextChecks, vars, result, alloc, handler
    <3>2. NoNewFailure
      BY <1>3, <2>2 DEF UserReset, UserResetBegins, UserResetMarks, UserResetHits,
                        UserResetEnds, UserResetUnlocks, JobNextChecks, vars, NoNewFailure,
                        Failing
    <3>3. EntriesGrow
      BY <3>1 DEF EntriesGrow
    <3>4. QED
      BY <1>3, <3>1, <3>2, <3>3, StaleFrame
  <2>3. CASE Next /\ UNCHANGED recovery
    BY <1>3, <2>1, <2>2, <2>3, HandlerStale DEF Next, AllReturned
  <2>4. ASSUME NEW j \in Jobs, \/ ScheduleFails(j) \/ WaitExpires(j) \/ RecoveryStep(j)
                               \/ \E c \in Cores : CleanExpired(j, c)
        PROVE  StaleInv'
    BY <1>3, <2>4, RecoveryStale
  <2>5. ASSUME NEW c \in Cores, HwGlitches(c) \/ RHandlerStep(c)
        PROVE  StaleInv'
    BY <1>3, <2>5, HandlerStale
  <2>6. CASE UNCHANGED rvars
    BY <2>2, <2>6 DEF rvars
  <2>7. QED
    BY <2>2, <2>3, <2>4, <2>5, <2>6 DEF RNext
<1>4. \/ SlotsShrink
      \/ \E t \in Threads, c \in Cores : JobNextPops(t, c) /\ UNCHANGED recovery
  <2>1. ASSUME NEW j \in Jobs, Enqueue(j)
        PROVE  SlotsShrink
    BY <2>1 DEF Enqueue, SlotsShrink
  <2>2. QED
    BY <1>0, <2>1, ShrinkingSteps DEF Shrinks, SlotsShrink
<1>5. QED
  BY <1>0, <1>1, <1>2, <1>3, <1>4, MaskSteps

\* rknpu_job_abort(): a slot names a freed job only if the interrupt handler of that
\* core had seen the job, for jobs of one core, blocking submissions that set
\* RKNPU_JOB_PC, and masks that the waiter dequeues from.
THEOREM StaleSlotsWereHandled ==
  ASSUME BlockingIsWaitedFor, DequeueCoversMask, NoGangs
  PROVE  RSpec => []StaleSlotHasIrqEntry
<1>1. RInit => StaleInv
  <2> SUFFICES ASSUME RInit
               PROVE  StaleInv
    OBVIOUS
  <2>1. /\ \A j \in Jobs : pc[j] = "new" /\ ~done[j]
        /\ \A c \in Cores : slot[c] = NoJob
    BY DEF RInit, Init
  <2>2. QED
    BY <2>1, ConstantsAssumption DEF StaleInv
<1>2. RInit => OneCoreEach
  <2> SUFFICES ASSUME RInit
               PROVE  OneCoreEach
    OBVIOUS
  <2>1. \A j \in Jobs : mask[j] = args[j].mask /\ args[j] \in Args
    BY DEF RInit, Init
  <2>2. QED
    BY <2>1 DEF NoGangs, OneCoreEach
<1>3. SInv /\ [RNext]_rvars => OneCoreEach' /\ StaleInv'
  BY OneCoreStep, StaleStep DEF SInv
<1>4. UInv /\ StaleInv => StaleSlotHasIrqEntry
  <2> SUFFICES ASSUME UInv, StaleInv, NEW c \in Cores, slot[c] # NoJob, mem[slot[c]] # "live"
               PROVE  c \in irq_entry[slot[c]]
    BY DEF StaleSlotHasIrqEntry
  <2>1. slot[c] \in Jobs
    BY UTypes
  <2>2. QED
    BY <2>1 DEF StaleInv
<1>5. SInv <=> UInv /\ LInv /\ OneCoreEach /\ CleanupIsUnlinked /\ StaleInv
  BY DEF SInv
<1>6. QED
  BY <1>1, <1>2, <1>3, <1>4, <1>5, LInvariance, CleanedJobsAreUnlinked, PTL DEF RSpec

\* A device with one core (the configurations of rk356x, rk3562, rv1106 and rv1126b):
\* whatever fails, no list holds a freed job, no slot names one that the handler has
\* not seen, and a job whose clean-up is queued is unlinked, if blocking submissions
\* set RKNPU_JOB_PC.
THEOREM OneCoreDeviceIsSafe ==
  ASSUME num_irqs = 1, BlockingIsWaitedFor
  PROVE  RSpec => [](QueuedIsLive /\ StaleSlotHasIrqEntry /\ CleanupIsUnlinked)
<1>1. \A a \in Args : a.mask = {} \/ a.mask = {0}
  <2>1. Cores = {0}
    BY DEF Cores
  <2>2. \A a \in Args : a.mask \subseteq Cores
    BY ConstantsAssumption DEF SubmitArgs
  <2>3. QED
    BY <2>1, <2>2
<1>2. NoGangs
  BY <1>1 DEF NoGangs
<1>3. DequeueCoversMask
  <2>1. Cardinality({0}) = 1
    BY FS_Singleton
  <2>2. QED
    BY <1>1, <2>1 DEF DequeueCoversMask
<1>4. QED
  BY <1>2, <1>3, QueuedJobsAreLive, StaleSlotsWereHandled, CleanedJobsAreUnlinked, PTL
=============================================================================

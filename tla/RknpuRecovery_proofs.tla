------------------------ MODULE RknpuRecovery_proofs ------------------------
(***************************************************************************)
(* Theorems about RknpuRecovery, for any number of cores and jobs, any     *)
(* submissions and any setting of the switches: type correctness, resets   *)
(* that exclude each other, and one queue order in spite of aborts and     *)
(* sweeps.                                                                 *)
(***************************************************************************)
EXTENDS RknpuRecovery, RknpuJob_proofs

Waiting == {"wait", "asleep", "woken", "expired", "dequeue"}

Sweeping == {"reset", "locked", "resetting", "reset_end", "unlocking", "unlink", "drain"}

\* The strengthening: an asynchronous submission never waits for its job and never
\* times out, so it comes to a reset only through the sweep, with the expired job
\* and its core in hand; and only such a submission sweeps.
SweepInv ==
    \A j \in Jobs :
        /\ args[j].nonblock => pc[j] \notin Waiting /\ ret[j] # "ETIMEDOUT"
        /\ args[j].nonblock /\ pc[j] \in Sweeping => target[j] # NoJob /\ sweep[j] \in Cores
        /\ pc[j] \in {"clean", "unlink", "drain"} => args[j].nonblock

\* The submitters in the locked part of rknpu_soft_reset().
InReset == {"locked", "resetting", "reset_end", "unlocking"}

\* The strengthening of ResetExclusive: reset_lock names the caller that is in the
\* locked part, and soft_reseting is set exactly between two of its steps, if no
\* reset line has failed.
ResetInv ==
    /\ \A j \in Jobs : pc[j] \in InReset <=> reset_lock = j
    /\ asked # "no" <=> reset_lock = User
    /\ \A j \in Jobs : pc[j] \in {"resetting", "reset_end"} => soft_reseting
    /\ asked \in {"resetting", "reset_end"} => soft_reseting
    /\ soft_reseting /\ ~ResetFails =>
           \/ asked \in {"resetting", "reset_end"}
           \/ \E j \in Jobs : pc[j] \in {"resetting", "reset_end"}

RInv == RTypeOK /\ SweepInv /\ ResetInv

-----------------------------------------------------------------------------
(* The list operator and the steps of RknpuJob *)

\* A list without one of its jobs is the list, or the list less one entry of it.
LEMMA WithoutProperties ==
  ASSUME NEW s \in Seq(Jobs), NEW j
  PROVE  /\ Without(s, j) \in Seq(Jobs)
         /\ \/ Without(s, j) = s
            \/ \E i \in 1 .. Len(s) :
                 /\ s[i] = j
                 /\ Len(Without(s, j)) = Len(s) - 1
                 /\ \A n \in 1 .. Len(s) - 1 :
                       Without(s, j)[n] = s[IF n < i THEN n ELSE n + 1]
<1>1. CASE ~\E i \in 1 .. Len(s) : s[i] = j
  <2>1. Without(s, j) = s
    BY <1>1 DEF Without
  <2>2. QED
    BY <2>1
<1>2. CASE \E i \in 1 .. Len(s) : s[i] = j
  <2> DEFINE i == CHOOSE k \in 1 .. Len(s) : s[k] = j
             w == [n \in 1 .. Len(s) - 1 |-> s[IF n < i THEN n ELSE n + 1]]
  <2>1. i \in 1 .. Len(s) /\ s[i] = j
    BY <1>2
  <2>2. Without(s, j) = w
    BY <1>2 DEF Without
  <2> HIDE DEF i
  <2>3. w \in Seq(Jobs) /\ Len(w) = Len(s) - 1
    BY <2>1
  <2>4. QED
    BY <2>1, <2>2, <2>3
<1>3. QED
  BY <1>1, <1>2

\* What a step of RknpuJob does to the position of a submitter.
PcMoves(k) ==
    \/ pc'[k] = pc[k]
    \/ /\ pc[k] \notin InReset
       /\ \/ pc'[k] \in {"schedule", "queued", "check", "returned"}
          \/ pc'[k] = "clean" /\ args[k].nonblock
          \/ pc'[k] \in {"wait", "asleep", "woken"} /\ (args[k].nonblock => pc[k] \in Waiting)

Moves ==
    /\ UNCHANGED <<args, soft_reseting>>
    /\ \A k \in Jobs : PcMoves(k) /\ ret'[k] \in {ret[k], "OK", "EINVAL"}

\* No step of RknpuJob enters or leaves the recovery, and none times a job out.
LEMMA JobPathMoves ==
  ASSUME TypeOK, [Next]_vars
  PROVE  Moves
<1>0. /\ pc \in [Jobs -> PcValues] /\ ret \in [Jobs -> {"OK", "EINVAL", "ETIMEDOUT"}]
  BY DEF TypeOK
<1>1. ASSUME NEW j \in Jobs, SubmitFails(j)
      PROVE  Moves
  BY <1>0, <1>1 DEF SubmitFails, Moves, PcMoves, InReset, Waiting, result, alloc
<1>2. ASSUME NEW j \in Jobs, Submit(j)
      PROVE  Moves
  BY <1>0, <1>2 DEF Submit, Moves, PcMoves, InReset, Waiting, result, alloc
<1>3. ASSUME NEW j \in Jobs, CleanNothing(j)
      PROVE  Moves
  BY <1>0, <1>3 DEF CleanNothing, Moves, PcMoves, InReset, Waiting, result, alloc
<1>4. ASSUME NEW j \in Jobs, PickCore(j)
      PROVE  Moves
  BY <1>0, <1>4 DEF PickCore, Moves, PcMoves, InReset, Waiting, result, alloc
<1>5. ASSUME NEW j \in Jobs, Enqueue(j)
      PROVE  Moves
  BY <1>0, <1>5 DEF Enqueue, Moves, PcMoves, InReset, Waiting, result, alloc
<1>6. ASSUME NEW j \in Jobs, Scheduled(j)
      PROVE  Moves
  BY <1>0, <1>6 DEF Scheduled, Moves, PcMoves, InReset, Waiting, result, alloc
<1>7. ASSUME NEW j \in Jobs, WaitSleeps(j)
      PROVE  Moves
  BY <1>0, <1>7 DEF WaitSleeps, Moves, PcMoves, InReset, Waiting, result, alloc
<1>8. ASSUME NEW j \in Jobs, WaitEnds(j)
      PROVE  Moves
  BY <1>0, <1>8 DEF WaitEnds, Moves, PcMoves, InReset, Waiting, result, alloc
<1>9. ASSUME NEW j \in Jobs, WaitSucceeds(j)
      PROVE  Moves
  BY <1>0, <1>9 DEF WaitSucceeds, Moves, PcMoves, InReset, Waiting, result, alloc
<1>10. ASSUME NEW j \in Jobs, Returns(j)
      PROVE  Moves
  BY <1>0, <1>10 DEF Returns, Moves, PcMoves, InReset, Waiting, result, alloc
<1>11. ASSUME NEW j \in Jobs, CleanupWork(j)
      PROVE  Moves
  BY <1>0, <1>11 DEF CleanupWork, Moves, PcMoves, InReset, Waiting, result, alloc
<1>12. ASSUME NEW t \in Threads, DispatchStep(t)
      PROVE  Moves
  <2>1. UNCHANGED <<args, soft_reseting, pc>>
    BY <1>12 DEF DispatchStep, JobNextReturns, JobNextPops, CommitCore, JobNextCounts, alloc
  <2>2. ASSUME NEW c \in Cores, CommitCore(t, c)
        PROVE  \A k \in Jobs : ret'[k] \in {ret[k], "OK", "EINVAL"}
    <3>1. CASE CommitFails(cur[t])
      BY <1>0, <2>2, <3>1 DEF CommitCore
    <3>2. CASE ~CommitFails(cur[t])
      BY <2>2, <3>2 DEF CommitCore
    <3>3. QED
      BY <3>1, <3>2
  <2>3. \A k \in Jobs : ret'[k] \in {ret[k], "OK", "EINVAL"}
    BY <1>12, <2>2 DEF DispatchStep, JobNextReturns, JobNextPops, JobNextCounts, result
  <2>4. QED
    BY <2>1, <2>3 DEF Moves, PcMoves
<1>13. ASSUME NEW c \in Cores, DoneWakes(c)
      PROVE  Moves
  BY <1>0, <1>13 DEF DoneWakes, Woken, Moves, PcMoves, InReset, Waiting, result, alloc
<1>14. ASSUME NEW c \in Cores, DoneLastCore(c)
      PROVE  Moves
  BY <1>0, <1>14 DEF DoneLastCore, Moves, PcMoves, alloc
<1>15. ASSUME NEW c \in Cores, HwFinishes(c) \/ HandlerStep(c), ~DoneWakes(c), ~DoneLastCore(c)
      PROVE  Moves
  BY <1>15 DEF HwFinishes, HandlerStep, IrqEnters, DoneRecommits, DoneLastSegment, DoneRetires,
              DoneNotLastCore, DoneSignals, Moves, PcMoves, result, alloc
<1>16. CASE UNCHANGED vars
  BY <1>16 DEF vars, Moves, PcMoves, result, alloc
<1>17. ASSUME NEW j \in Jobs, SubmitFails(j) \/ Submit(j) \/ SubmitterStep(j) \/ CleanupWork(j)
      PROVE  Moves
  BY <1>17, <1>1, <1>2, <1>3, <1>4, <1>5, <1>6, <1>7, <1>8,
     <1>9, <1>10, <1>11 DEF SubmitterStep
<1>18. ASSUME NEW c \in Cores, HwFinishes(c) \/ HandlerStep(c)
      PROVE  Moves
  BY <1>18, <1>13, <1>14, <1>15
<1>19. QED
  BY <1>12, <1>16, <1>17, <1>18 DEF Next, AllReturned

-----------------------------------------------------------------------------
(* Type correctness and exclusive resets *)

\* A step that brings no submitter into the locked part, moves none in it, and leaves
\* lock and flag alone.
LEMMA ResetFrame ==
  ASSUME ResetInv, UNCHANGED <<soft_reseting, reset_lock, asked>>,
         \A k \in Jobs : pc'[k] = pc[k] \/ (pc[k] \notin InReset /\ pc'[k] \notin InReset)
  PROVE  ResetInv'
<1>1. \A k \in Jobs : /\ pc'[k] \in InReset <=> pc[k] \in InReset
                      /\ pc'[k] \in {"resetting", "reset_end"} <=>
                             pc[k] \in {"resetting", "reset_end"}
  BY DEF InReset
<1>2. QED
  BY <1>1 DEF ResetInv

\* A step of RknpuJob keeps the invariant.
LEMMA JobPathKeeps ==
  ASSUME RInv, [Next]_vars, UNCHANGED recovery
  PROVE  RInv'
<1>1. TypeOK' /\ Moves
  BY TypeStep, JobPathMoves DEF RInv, RTypeOK
<1>2. RTypeOK'
  <2>1. \A k \in Jobs : pc'[k] \in {"unlink", "drain"} => pc[k] \in {"unlink", "drain"}
    BY <1>1 DEF Moves, PcMoves
  <2>2. QED
    BY <1>1, <2>1 DEF RInv, RTypeOK, recovery
<1>3. SweepInv'
  <2> SUFFICES ASSUME NEW k \in Jobs
               PROVE  /\ args'[k].nonblock => pc'[k] \notin Waiting /\ ret'[k] # "ETIMEDOUT"
                      /\ args'[k].nonblock /\ pc'[k] \in Sweeping =>
                             target'[k] # NoJob /\ sweep'[k] \in Cores
                      /\ pc'[k] \in {"clean", "unlink", "drain"} => args'[k].nonblock
    BY DEF SweepInv
  <2>1. /\ args' = args /\ target' = target /\ sweep' = sweep
        /\ PcMoves(k) /\ ret'[k] \in {ret[k], "OK", "EINVAL"}
    BY <1>1 DEF Moves, recovery
  <2>2. /\ args[k].nonblock => pc[k] \notin Waiting /\ ret[k] # "ETIMEDOUT"
        /\ args[k].nonblock /\ pc[k] \in Sweeping => target[k] # NoJob /\ sweep[k] \in Cores
        /\ pc[k] \in {"clean", "unlink", "drain"} => args[k].nonblock
    BY DEF RInv, SweepInv
  <2>3. QED
    BY <2>1, <2>2 DEF PcMoves, Waiting, Sweeping
<1>4. ResetInv'
  <2>1. \A k \in Jobs : pc'[k] = pc[k] \/ (pc[k] \notin InReset /\ pc'[k] \notin InReset)
    BY <1>1 DEF Moves, PcMoves, Waiting, InReset
  <2>2. QED
    BY <1>1, <2>1, ResetFrame DEF RInv, Moves, recovery
<1>5. QED
  BY <1>2, <1>3, <1>4 DEF RInv

\* Removing a job from some of the lists keeps them lists of jobs.
LEMMA WithoutType ==
  ASSUME TypeOK, NEW S, NEW k
  PROVE  [c \in Cores |-> IF c \in S THEN Without(todo[c], k) ELSE todo[c]] \in [Cores -> Seq(Jobs)]
<1>1. \A c \in Cores : todo[c] \in Seq(Jobs) /\ Without(todo[c], k) \in Seq(Jobs)
  BY WithoutProperties DEF TypeOK
<1>2. QED
  BY <1>1

\* The facts about types that the steps below need.
LEMMA RTypes ==
  ASSUME RInv
  PROVE  /\ pc \in [Jobs -> PcValues]
         /\ ret \in [Jobs -> {"OK", "EINVAL", "ETIMEDOUT"}]
         /\ args \in [Jobs -> SubmitArgs]
         /\ target \in [Jobs -> Jobs \cup {NoJob}]
         /\ sweep \in [Jobs -> 0 .. num_irqs]
  BY DEF RInv, RTypeOK, TypeOK

\* The domain switch fails.
LEMMA ScheduleFailsKeeps ==
  ASSUME RInv, NEW j \in Jobs, ScheduleFails(j)
  PROVE  RInv'
<1>1. RTypeOK'
  BY DEF ScheduleFails, Goto, RInv, RTypeOK, TypeOK, PcValues, subcore, counts, alloc, dispatch,
         handler, device, recovery
<1>2. SweepInv'
  BY RTypes
  DEF ScheduleFails, Goto, RInv, SweepInv, Waiting, Sweeping, subcore, counts, alloc, dispatch,
      handler, device, recovery
<1>3. ResetInv'
  BY RTypes, ResetFrame DEF ScheduleFails, Goto, RInv, recovery, InReset
<1>4. QED
  BY <1>1, <1>2, <1>3 DEF RInv

\* A wait expires.
LEMMA WaitExpiresKeeps ==
  ASSUME RInv, NEW j \in Jobs, WaitExpires(j)
  PROVE  RInv'
<1>1. RTypeOK'
  BY DEF WaitExpires, Goto, RInv, RTypeOK, TypeOK, PcValues, subcore, counts, result, alloc,
         dispatch, handler, device, recovery
<1>2. SweepInv'
  BY RTypes
  DEF WaitExpires, Goto, RInv, SweepInv, Waiting, Sweeping, subcore, counts, result, alloc,
      dispatch, handler, device, recovery
<1>3. ResetInv'
  BY RTypes, ResetFrame DEF WaitExpires, Goto, RInv, recovery, InReset
<1>4. QED
  BY <1>1, <1>2, <1>3 DEF RInv

\* The job was never committed.
LEMMA WaitNeverCommittedKeeps ==
  ASSUME RInv, NEW j \in Jobs, WaitNeverCommitted(j)
  PROVE  RInv'
<1>1. RTypeOK'
  BY DEF WaitNeverCommitted, Goto, RInv, RTypeOK, TypeOK, PcValues, subcore, counts, result,
         alloc, dispatch, handler, device, recovery
<1>2. SweepInv'
  BY RTypes
  DEF WaitNeverCommitted, Goto, RInv, SweepInv, Waiting, Sweeping, subcore, counts, result, alloc,
      dispatch, handler, device, recovery
<1>3. ResetInv'
  BY RTypes, ResetFrame DEF WaitNeverCommitted, Goto, RInv, recovery, InReset
<1>4. QED
  BY <1>1, <1>2, <1>3 DEF RInv

\* The job leaves the lists.
LEMMA WaitDequeuesKeeps ==
  ASSUME RInv, NEW j \in Jobs, WaitDequeues(j)
  PROVE  RInv'
<1>1. RTypeOK'
  <2>1. todo' \in [Cores -> Seq(Jobs)]
    <3> DEFINE S == {c \in Cores : c < Cardinality(mask[j])}
    <3>1. todo' = [c \in Cores |-> IF c \in S THEN Without(todo[c], j) ELSE todo[c]]
      BY DEF WaitDequeues
    <3>2. TypeOK
      BY DEF RInv, RTypeOK
    <3> HIDE DEF S
    <3>3. QED
      BY <3>1, <3>2, WithoutType
  <2>2. QED
    BY <2>1
    DEF WaitDequeues, Goto, RInv, RTypeOK, TypeOK, PcValues, counts, alloc, dispatch, handler,
        device, recovery
<1>2. SweepInv'
  BY RTypes
  DEF WaitDequeues, Goto, RInv, SweepInv, Waiting, Sweeping, counts, alloc, dispatch, handler,
      device, recovery
<1>3. ResetInv'
  BY RTypes, ResetFrame DEF WaitDequeues, Goto, RInv, recovery, InReset
<1>4. QED
  BY <1>1, <1>2, <1>3 DEF RInv

\* The wait has failed.
LEMMA WaitFailsKeeps ==
  ASSUME RInv, NEW j \in Jobs, WaitFails(j)
  PROVE  RInv'
<1>1. RTypeOK'
  <2>1. ret' \in [Jobs -> {"OK", "EINVAL", "ETIMEDOUT"}]
    BY RTypes DEF WaitFails
  <2>2. pc' \in [Jobs -> PcValues] /\ pc'[j] = "abort" /\ \A k \in Jobs \ {j} : pc'[k] = pc[k]
    BY RTypes DEF WaitFails, Goto, PcValues
  <2>3. UNCHANGED <<subcore, counts, done, fence, alloc, dispatch, handler, device, mask,
                   soft_reseting, recovery>>
    BY DEF WaitFails
  <2>4. QED
    BY <2>1, <2>2, <2>3
    DEF RInv, RTypeOK, TypeOK, subcore, counts, alloc, dispatch, handler, device, recovery
<1>2. SweepInv'
  BY RTypes
  DEF WaitFails, Goto, RInv, SweepInv, Waiting, Sweeping, subcore, counts, alloc, dispatch,
      handler, device, recovery
<1>3. ResetInv'
  BY RTypes, ResetFrame DEF WaitFails, Goto, RInv, recovery, InReset
<1>4. QED
  BY <1>1, <1>2, <1>3 DEF RInv

\* The submission finds an error.
LEMMA CheckFailsKeeps ==
  ASSUME RInv, NEW j \in Jobs, CheckFails(j)
  PROVE  RInv'
<1>1. RTypeOK'
  BY DEF CheckFails, Goto, RInv, RTypeOK, TypeOK, PcValues, subcore, counts, result, alloc,
         dispatch, handler, device, recovery
<1>2. SweepInv'
  BY RTypes
  DEF CheckFails, Goto, RInv, SweepInv, Waiting, Sweeping, subcore, counts, result, alloc,
      dispatch, handler, device, recovery
<1>3. ResetInv'
  BY RTypes, ResetFrame DEF CheckFails, Goto, RInv, recovery, InReset
<1>4. QED
  BY <1>1, <1>2, <1>3 DEF RInv

\* rknpu_job_abort() clears the slots.
LEMMA AbortClearsKeeps ==
  ASSUME RInv, NEW j \in Jobs, AbortClears(j)
  PROVE  RInv'
<1>1. RTypeOK'
  <2> DEFINE mine == {c \in mask[j] : slot[c] = j /\ c \notin irq_entry[j]}
  <2>1. \A c \in Cores : TaskNumber(j, c) \in Int
    BY DEF RInv, RTypeOK, TypeOK, TaskNumber, SubmitArgs
  <2>2. /\ slot' = [c \in Cores |-> IF c \in mine THEN NoJob ELSE slot[c]]
        /\ task_num' = [c \in Cores |->
                          IF c \in mine THEN task_num[c] - TaskNumber(j, c) ELSE task_num[c]]
    BY DEF AbortClears
  <2>3. slot' \in [Cores -> Jobs \cup {NoJob}] /\ task_num' \in [Cores -> Int]
    BY <2>1, <2>2 DEF RInv, RTypeOK, TypeOK
  <2>4. QED
    BY <2>3
    DEF AbortClears, Goto, RInv, RTypeOK, TypeOK, PcValues, counts, result, alloc, dispatch,
        handler, device, recovery
<1>2. SweepInv'
  BY RTypes
  DEF AbortClears, Goto, RInv, SweepInv, Waiting, Sweeping, counts, result, alloc, dispatch,
      handler, device, recovery
<1>3. ResetInv'
  BY RTypes, ResetFrame DEF AbortClears, Goto, RInv, recovery, InReset
<1>4. QED
  BY <1>1, <1>2, <1>3 DEF RInv

\* rknpu_job_abort() frees the job.
LEMMA AbortFreesKeeps ==
  ASSUME RInv, NEW j \in Jobs, AbortFrees(j)
  PROVE  RInv'
<1>1. RTypeOK'
  BY DEF AbortFrees, Goto, RInv, RTypeOK, TypeOK, PcValues, subcore, counts, result, dispatch,
         handler, device, recovery
<1>2. SweepInv'
  BY RTypes
  DEF AbortFrees, Goto, RInv, SweepInv, Waiting, Sweeping, subcore, counts, result, dispatch,
      handler, device, recovery
<1>3. ResetInv'
  BY RTypes, ResetFrame DEF AbortFrees, Goto, RInv, recovery, InReset
<1>4. QED
  BY <1>1, <1>2, <1>3 DEF RInv

\* The reset is skipped.
LEMMA ResetSkippedKeeps ==
  ASSUME RInv, NEW j \in Jobs, ResetSkipped(j)
  PROVE  RInv'
<1>1. RTypeOK'
  <2>1. args[j].nonblock => target[j] # NoJob
    BY DEF ResetSkipped, RInv, SweepInv, Sweeping
  <2>2. QED
    BY <2>1
    DEF ResetSkipped, Goto, AfterReset, RInv, RTypeOK, TypeOK, PcValues, subcore, counts, result,
        alloc, dispatch, handler, device, recovery
<1>2. SweepInv'
  BY RTypes
  DEF ResetSkipped, Goto, AfterReset, RInv, SweepInv, Waiting, Sweeping, subcore, counts, result,
      alloc, dispatch, handler, device, recovery
<1>3. ResetInv'
  BY RTypes, ResetFrame DEF ResetSkipped, Goto, AfterReset, RInv, recovery, InReset
<1>4. QED
  BY <1>1, <1>2, <1>3 DEF RInv

\* The reset takes its lock.
LEMMA ResetBeginsKeeps ==
  ASSUME RInv, NEW j \in Jobs, ResetBegins(j)
  PROVE  RInv'
<1>0. /\ \A k \in Jobs : k # j => pc'[k] = pc[k]
      /\ pc[j] = "reset" /\ pc'[j] = "locked"
  BY RTypes DEF ResetBegins, Goto, RInv, RTypeOK
<1>1. RTypeOK'
  BY DEF ResetBegins, Goto, RInv, RTypeOK, TypeOK, PcValues, subcore, counts, result, alloc,
         dispatch, handler, device, recovery
<1>2. SweepInv'
  BY RTypes
  DEF ResetBegins, Goto, RInv, SweepInv, Waiting, Sweeping, result, alloc, recovery
<1>3. ResetInv'
  <2>1. ResetInv /\ reset_lock \in Jobs \cup {NoJob, User}
    BY DEF RInv, RTypeOK
  <2>2. reset_lock = NoJob /\ reset_lock' = j /\ UNCHANGED <<asked, soft_reseting>>
    BY DEF ResetBegins, recovery
  <2>3. QED
    BY <1>0, <2>1, <2>2, ConstantsAssumption, SwitchesAssumption DEF ResetInv, InReset
<1>4. QED
  BY <1>1, <1>2, <1>3 DEF RInv

\* It sets the flag.
LEMMA ResetMarksKeeps ==
  ASSUME RInv, NEW j \in Jobs, ResetMarks(j)
  PROVE  RInv'
<1>0. /\ \A k \in Jobs : k # j => pc'[k] = pc[k]
      /\ pc[j] = "locked" /\ pc'[j] = "resetting"
  BY RTypes DEF ResetMarks, Goto, RInv, RTypeOK
<1>1. RTypeOK'
  BY DEF ResetMarks, Goto, RInv, RTypeOK, TypeOK, PcValues, subcore, counts, result, alloc,
         dispatch, handler, device, recovery
<1>2. SweepInv'
  BY RTypes
  DEF ResetMarks, Goto, RInv, SweepInv, Waiting, Sweeping, result, alloc, recovery
<1>3. ResetInv'
  <2>1. ResetInv /\ reset_lock \in Jobs \cup {NoJob, User}
    BY DEF RInv, RTypeOK
  <2>2. soft_reseting' = TRUE /\ UNCHANGED <<reset_lock, asked>>
    BY DEF ResetMarks, recovery
  <2>3. QED
    BY <1>0, <2>1, <2>2, ConstantsAssumption, SwitchesAssumption DEF ResetInv, InReset
<1>4. QED
  BY <1>1, <1>2, <1>3 DEF RInv

\* The reset lines are driven.
LEMMA ResetHitsKeeps ==
  ASSUME RInv, NEW j \in Jobs, ResetHits(j)
  PROVE  RInv'
<1>0. /\ \A k \in Jobs : k # j => pc'[k] = pc[k] \/ (pc[k] = "asleep" /\ pc'[k] = "wait")
      /\ pc[j] = "resetting" /\ pc'[j] = "reset_end"
  BY RTypes DEF ResetHits
<1>1. RTypeOK'
  BY DEF ResetHits, RInv, RTypeOK, TypeOK, PcValues, subcore, counts, result, alloc, dispatch,
         handler, recovery
<1>2. SweepInv'
  BY RTypes DEF ResetHits, RInv, SweepInv, Waiting, Sweeping, result, alloc, recovery
<1>3. ResetInv'
  <2>1. ResetInv /\ UNCHANGED <<reset_lock, asked, soft_reseting>>
    BY DEF ResetHits, RInv, recovery
  <2>2. QED
    BY <1>0, <2>1 DEF ResetInv, InReset
<1>4. QED
  BY <1>1, <1>2, <1>3 DEF RInv

\* A reset line fails.
LEMMA ResetErrsKeeps ==
  ASSUME RInv, NEW j \in Jobs, ResetErrs(j)
  PROVE  RInv'
<1>0. /\ \A k \in Jobs : k # j => pc'[k] = pc[k] \/ (pc[k] = "asleep" /\ pc'[k] = "wait")
      /\ pc[j] = "resetting" /\ pc'[j] \in {"unlink", "free"}
  BY RTypes DEF ResetErrs, AfterReset
<1>1. RTypeOK'
  <2>1. args[j].nonblock => target[j] # NoJob
    BY DEF ResetErrs, RInv, SweepInv, Sweeping
  <2>2. hw' \in [Cores -> Jobs \cup {NoJob}] /\ line' \in [Cores -> {"low", "good", "bad"}]
    BY DEF ResetErrs, RInv, RTypeOK, TypeOK
  <2>3. QED
    BY <2>1, <2>2
    DEF ResetErrs, AfterReset, RInv, RTypeOK, TypeOK, PcValues, subcore, counts, result, alloc,
        dispatch, handler
<1>2. SweepInv'
  BY RTypes DEF ResetErrs, AfterReset, RInv, SweepInv, Waiting, Sweeping, result, alloc
<1>3. ResetInv'
  <2>1. ResetInv /\ ResetFails /\ reset_lock' = NoJob /\ UNCHANGED <<asked, soft_reseting>>
    BY DEF ResetErrs, RInv
  <2>2. QED
    BY <1>0, <2>1, ConstantsAssumption, SwitchesAssumption DEF ResetInv, InReset
<1>4. QED
  BY <1>1, <1>2, <1>3 DEF RInv

\* It clears the flag.
LEMMA ResetEndsKeeps ==
  ASSUME RInv, NEW j \in Jobs, ResetEnds(j)
  PROVE  RInv'
<1>0. /\ \A k \in Jobs : k # j => pc'[k] = pc[k]
      /\ pc[j] = "reset_end" /\ pc'[j] = "unlocking"
  BY RTypes DEF ResetEnds, Goto, RInv, RTypeOK
<1>1. RTypeOK'
  BY DEF ResetEnds, Goto, RInv, RTypeOK, TypeOK, PcValues, subcore, counts, result, alloc,
         dispatch, handler, device, recovery
<1>2. SweepInv'
  BY RTypes
  DEF ResetEnds, Goto, RInv, SweepInv, Waiting, Sweeping, result, alloc, recovery
<1>3. ResetInv'
  <2>1. ResetInv /\ reset_lock \in Jobs \cup {NoJob, User}
    BY DEF RInv, RTypeOK
  <2>2. soft_reseting' = FALSE /\ UNCHANGED <<reset_lock, asked>>
    BY DEF ResetEnds, recovery
  <2>3. QED
    BY <1>0, <2>1, <2>2, ConstantsAssumption, SwitchesAssumption DEF ResetInv, InReset
<1>4. QED
  BY <1>1, <1>2, <1>3 DEF RInv

\* The reset is over.
LEMMA ResetUnlocksKeeps ==
  ASSUME RInv, NEW j \in Jobs, ResetUnlocks(j)
  PROVE  RInv'
<1>0. /\ \A k \in Jobs : k # j => pc'[k] = pc[k]
      /\ pc[j] = "unlocking" /\ pc'[j] \in {"unlink", "free"}
  BY RTypes DEF ResetUnlocks, Goto, AfterReset, RInv, RTypeOK
<1>1. RTypeOK'
  <2>1. args[j].nonblock => target[j] # NoJob
    BY DEF ResetUnlocks, RInv, SweepInv, Sweeping
  <2>2. QED
    BY <2>1
    DEF ResetUnlocks, Goto, AfterReset, RInv, RTypeOK, TypeOK, PcValues, subcore, counts, result,
        alloc, dispatch, handler, device, recovery
<1>2. SweepInv'
  BY RTypes
  DEF ResetUnlocks, Goto, AfterReset, RInv, SweepInv, Waiting, Sweeping, result, alloc, recovery
<1>3. ResetInv'
  <2>1. ResetInv /\ reset_lock \in Jobs \cup {NoJob, User}
    BY DEF RInv, RTypeOK
  <2>2. reset_lock' = NoJob /\ UNCHANGED <<asked, soft_reseting>>
    BY DEF ResetUnlocks, recovery
  <2>3. QED
    BY <1>0, <2>1, <2>2, ConstantsAssumption, SwitchesAssumption DEF ResetInv, InReset
<1>4. QED
  BY <1>1, <1>2, <1>3 DEF RInv

\* The sweep.
LEMMA CleanUnlinksKeeps ==
  ASSUME RInv, NEW j \in Jobs, CleanUnlinks(j)
  PROVE  RInv'
<1>1. RTypeOK'
  <2> DEFINE k == target[j]
  <2>1. k \in Jobs
    BY DEF CleanUnlinks, RInv, RTypeOK
  <2>2. Unlinks(k)
    BY DEF CleanUnlinks
  <2>3. todo' \in [Cores -> Seq(Jobs)]
    <3>1. todo' = [c \in Cores |-> IF c \in Cores THEN Without(todo[c], k) ELSE todo[c]]
      BY <2>2 DEF Unlinks
    <3>2. TypeOK
      BY DEF RInv, RTypeOK
    <3>3. QED
      BY <3>1, <3>2, WithoutType
  <2>4. oops' \in BOOLEAN /\ work' \in [Jobs -> BOOLEAN]
    <3>1. /\ oops' = (oops \/ mask[k] # Cores \/ ~args[k].nonblock)
          /\ work' = [work EXCEPT ![k] = work[k] \/ args[k].nonblock]
      BY <2>2 DEF Unlinks
    <3>2. oops' \in BOOLEAN
      BY <3>1
    <3>3. work' \in [Jobs -> BOOLEAN]
      BY <2>1, <3>1 DEF RInv, RTypeOK, TypeOK, SubmitArgs
    <3>4. QED
      BY <3>2, <3>3
  <2> HIDE DEF k
  <2>5. QED
    BY <2>3, <2>4
    DEF CleanUnlinks, Goto, RInv, RTypeOK, TypeOK, PcValues, counts, result, dispatch, handler,
        device
<1>2. SweepInv'
  BY RTypes
  DEF CleanUnlinks, Goto, Unlinks, RInv, SweepInv, Waiting, Sweeping, counts, result, dispatch,
      handler, device
<1>3. ResetInv'
  BY RTypes, ResetFrame DEF CleanUnlinks, Goto, Unlinks, RInv, InReset
<1>4. QED
  BY <1>1, <1>2, <1>3 DEF RInv

\* The sweep.
LEMMA CleanDrainsKeeps ==
  ASSUME RInv, NEW j \in Jobs, CleanDrains(j)
  PROVE  RInv'
<1>1. RTypeOK'
  <2> DEFINE k == Head(todo[sweep[j]])
  <2>1. k \in Jobs
    <3>1. sweep[j] \in Cores
      BY DEF CleanDrains, RInv, SweepInv, Sweeping
    <3>2. QED
      BY <3>1 DEF CleanDrains, RInv, RTypeOK, TypeOK
  <2>2. Unlinks(k)
    BY DEF CleanDrains
  <2>3. todo' \in [Cores -> Seq(Jobs)]
    <3>1. todo' = [c \in Cores |-> IF c \in Cores THEN Without(todo[c], k) ELSE todo[c]]
      BY <2>2 DEF Unlinks
    <3>2. TypeOK
      BY DEF RInv, RTypeOK
    <3>3. QED
      BY <3>1, <3>2, WithoutType
  <2>4. oops' \in BOOLEAN /\ work' \in [Jobs -> BOOLEAN]
    <3>1. /\ oops' = (oops \/ mask[k] # Cores \/ ~args[k].nonblock)
          /\ work' = [work EXCEPT ![k] = work[k] \/ args[k].nonblock]
      BY <2>2 DEF Unlinks
    <3>2. oops' \in BOOLEAN
      BY <3>1
    <3>3. work' \in [Jobs -> BOOLEAN]
      BY <2>1, <3>1 DEF RInv, RTypeOK, TypeOK, SubmitArgs
    <3>4. QED
      BY <3>2, <3>3
  <2> HIDE DEF k
  <2>5. QED
    BY <2>3, <2>4
    DEF CleanDrains, RInv, RTypeOK, TypeOK, PcValues, counts, result, dispatch, handler, device
<1>2. SweepInv'
  BY RTypes
  DEF CleanDrains, Unlinks, RInv, SweepInv, Waiting, Sweeping, counts, result, dispatch, handler,
      device
<1>3. ResetInv'
  BY RTypes, ResetFrame DEF CleanDrains, Unlinks, RInv, InReset
<1>4. QED
  BY <1>1, <1>2, <1>3 DEF RInv

\* The sweep.
LEMMA CleanNextCoreKeeps ==
  ASSUME RInv, NEW j \in Jobs, CleanNextCore(j)
  PROVE  RInv'
<1>1. RTypeOK'
  <2>1. sweep[j] \in Cores
    BY DEF CleanNextCore, RInv, SweepInv, Sweeping
  <2>2. sweep' \in [Jobs -> 0 .. num_irqs]
    BY <2>1, ConstantsAssumption DEF CleanNextCore, RInv, RTypeOK, Cores
  <2>3. QED
    BY <2>2
    DEF CleanNextCore, Goto, RInv, RTypeOK, TypeOK, PcValues, subcore, counts, result, alloc,
        dispatch, handler, device
<1>2. SweepInv'
  BY RTypes
  DEF CleanNextCore, Goto, RInv, SweepInv, Waiting, Sweeping, subcore, counts, result, alloc,
      dispatch, handler, device
<1>3. ResetInv'
  BY RTypes, ResetFrame DEF CleanNextCore, Goto, RInv, InReset
<1>4. QED
  BY <1>1, <1>2, <1>3 DEF RInv

\* The sweep finds an expired job.
LEMMA CleanExpiredKeeps ==
  ASSUME RInv, NEW j \in Jobs, NEW c \in Cores, CleanExpired(j, c)
  PROVE  RInv'
<1>1. slot[c] \in Jobs /\ c \in 0 .. num_irqs
  BY ConstantsAssumption DEF CleanExpired, RInv, RTypeOK, TypeOK, Cores
<1>2. RTypeOK'
  BY <1>1, ConstantsAssumption
  DEF CleanExpired, Goto, RInv, RTypeOK, TypeOK, PcValues, subcore, counts, result, alloc,
      dispatch, handler, device
<1>3. SweepInv'
  BY <1>1, RTypes, ConstantsAssumption
  DEF CleanExpired, Goto, RInv, SweepInv, Waiting, Sweeping, result, alloc
<1>4. ResetInv'
  BY RTypes, ResetFrame DEF CleanExpired, Goto, RInv, InReset
<1>5. QED
  BY <1>2, <1>3, <1>4 DEF RInv

\* Steps that change neither a submitter nor the recovery's own state.
LEMMA RecoveryFrame ==
  ASSUME RInv, TypeOK', UNCHANGED <<args, pc, ret, soft_reseting, recovery>>
  PROVE  RInv'
<1>1. RTypeOK'
  BY DEF RInv, RTypeOK, recovery
<1>2. SweepInv'
  BY DEF RInv, SweepInv, recovery
<1>3. ResetInv'
  BY DEF RInv, ResetInv, recovery
<1>4. QED
  BY <1>1, <1>2, <1>3 DEF RInv

\* Interrupts with a wrong status, and interrupts without a job.
LEMMA SpuriousKeeps ==
  ASSUME RInv, NEW c \in Cores, HwGlitches(c) \/ RHandlerStep(c)
  PROVE  RInv'
<1>0. TypeOK
  BY DEF RInv, RTypeOK
<1>1. CASE HwGlitches(c)
  <2>1. TypeOK'
    BY <1>0, <1>1
    DEF HwGlitches, TypeOK, subcore, counts, result, alloc, dispatch, handler
  <2>2. QED
    BY <1>1, <2>1, RecoveryFrame DEF HwGlitches, result, alloc
<1>2. CASE IrqWithoutJob(c)
  <2>1. TypeOK'
    BY <1>0, <1>2
    DEF IrqWithoutJob, TypeOK, Threads, subcore, counts, result, alloc, handler
  <2>2. QED
    BY <1>2, <2>1, RecoveryFrame DEF IrqWithoutJob, result, alloc
<1>3. CASE IrqInvalid(c)
  <2>1. TypeOK'
    BY <1>0, <1>3
    DEF IrqInvalid, TypeOK, IrqValues, subcore, counts, result, alloc, dispatch
  <2>2. QED
    BY <1>3, <2>1, RecoveryFrame DEF IrqInvalid, result, alloc
<1>4. QED
  BY <1>1, <1>2, <1>3 DEF RHandlerStep

\* A rknpu_job_next() call passes its test of soft_reseting.
LEMMA ChecksKeeps ==
  ASSUME RInv, NEW t \in Threads, JobNextChecks(t)
  PROVE  RInv'
<1>1. TypeOK'
  BY DEF JobNextChecks, RInv, RTypeOK, TypeOK, subcore, counts, result, alloc, handler, device
<1>2. QED
  BY <1>1, RecoveryFrame DEF JobNextChecks, result, alloc

\* The steps of the user's reset that only move lock, flag and its own position.
LEMMA UserResetMoves ==
  ASSUME RInv, UNCHANGED <<vars, target, sweep, oops>> \/
               (UNCHANGED <<subcore, counts, result, alloc, dispatch, handler, device, mask, pc,
                            target, sweep, oops>> /\ soft_reseting' \in BOOLEAN),
         reset_lock' \in Jobs \cup {NoJob, User},
         asked' \in {"no", "locked", "resetting", "reset_end", "unlocking"}, ResetInv'
  PROVE  RInv'
<1>1. UNCHANGED <<subcore, counts, result, alloc, dispatch, handler, device, mask, pc, target,
                  sweep, oops>> /\ soft_reseting' \in BOOLEAN
  BY DEF vars, RInv, RTypeOK, TypeOK
<1>2. RTypeOK'
  BY <1>1 DEF RInv, RTypeOK, TypeOK, subcore, counts, result, alloc, dispatch, handler, device
<1>3. SweepInv'
  BY <1>1 DEF RInv, SweepInv, result, alloc
<1>4. QED
  BY <1>2, <1>3 DEF RInv

\* The reset the user asks for.
LEMMA UserResetKeeps ==
  ASSUME RInv, UserReset
  PROVE  RInv'
<1>0. /\ RTypeOK /\ TypeOK /\ SweepInv /\ ResetInv
      /\ reset_lock \in Jobs \cup {NoJob, User}
  BY DEF RInv, RTypeOK
<1>1. CASE UserResetBegins
  <2>1. ResetInv'
    BY <1>0, <1>1, SwitchesAssumption, ConstantsAssumption DEF UserResetBegins, ResetInv, InReset
  <2>2. QED
    BY <1>0, <1>1, <2>1, UserResetMoves DEF UserResetBegins, TypeOK
<1>2. CASE UserResetMarks
  <2>1. ResetInv'
    BY <1>0, <1>2, SwitchesAssumption, ConstantsAssumption DEF UserResetMarks, ResetInv, InReset
  <2>2. QED
    BY <1>0, <1>2, <2>1, UserResetMoves DEF UserResetMarks, TypeOK
<1>3. CASE UserResetEnds
  <2>1. ResetInv'
    BY <1>0, <1>3, SwitchesAssumption, ConstantsAssumption DEF UserResetEnds, ResetInv, InReset
  <2>2. QED
    BY <1>0, <1>3, <2>1, UserResetMoves DEF UserResetEnds, TypeOK
<1>4. CASE UserResetUnlocks
  <2>1. ResetInv'
    BY <1>0, <1>4, SwitchesAssumption, ConstantsAssumption DEF UserResetUnlocks, ResetInv, InReset
  <2>2. QED
    BY <1>0, <1>4, <2>1, UserResetMoves DEF UserResetUnlocks, TypeOK
<1>5. CASE UserResetHits
  <2>0. UNCHANGED <<subcore, counts, result, alloc, dispatch, handler, ran, int_mask, mask,
                    soft_reseting, target, sweep, oops>>
    BY <1>5 DEF UserResetHits
  <2>1. /\ pc' \in [Jobs -> PcValues]
        /\ \A k \in Jobs : pc'[k] = pc[k] \/ (pc[k] = "asleep" /\ pc'[k] = "wait")
    BY <1>5, RTypes DEF UserResetHits, PcValues
  <2>2. hw' \in [Cores -> Jobs \cup {NoJob}] /\ line' \in [Cores -> {"low", "good", "bad"}]
    BY <1>0, <1>5 DEF UserResetHits, TypeOK
  <2>3. /\ asked = "resetting"
        /\ \/ asked' = "reset_end" /\ reset_lock' = User
           \/ asked' = "no" /\ reset_lock' = NoJob /\ ResetFails
    BY <1>5 DEF UserResetHits
  <2>4. RTypeOK'
    BY <1>0, <2>0, <2>1, <2>2, <2>3
    DEF RTypeOK, TypeOK, subcore, counts, result, alloc, dispatch, handler
  <2>5. SweepInv'
    BY <1>0, <2>0, <2>1 DEF SweepInv, Waiting, Sweeping, result, alloc
  <2>6. ResetInv'
    BY <1>0, <2>0, <2>1, <2>3, SwitchesAssumption, ConstantsAssumption DEF ResetInv, InReset
  <2>7. QED
    BY <2>4, <2>5, <2>6 DEF RInv
<1>6. QED
  BY <1>1, <1>2, <1>3, <1>4, <1>5 DEF UserReset

\* The initial states satisfy the invariant.
LEMMA RInvInit == RInit => RInv
<1> SUFFICES ASSUME RInit
             PROVE  RInv
  OBVIOUS
<1>1. TypeOK
  BY TypeInit DEF RInit
<1>2. RTypeOK
  <2>1. \A j \in Jobs : pc[j] = "new"
    BY DEF RInit, Init
  <2>2. /\ sweep \in [Jobs -> 0 .. num_irqs] /\ target \in [Jobs -> Jobs \cup {NoJob}]
        /\ asked = "no" /\ reset_lock = NoJob
    BY ConstantsAssumption DEF RInit
  <2>3. oops \in BOOLEAN
    BY DEF RInit
  <2>4. QED
    BY <1>1, <2>1, <2>2, <2>3 DEF RTypeOK
<1>3. SweepInv
  BY DEF RInit, Init, SweepInv, Waiting, Sweeping
<1>4. ResetInv
  BY SwitchesAssumption, ConstantsAssumption DEF RInit, Init, ResetInv, InReset
<1>5. QED
  BY <1>2, <1>3, <1>4 DEF RInv

\* Every step keeps the invariant.
LEMMA RInvStep == RInv /\ [RNext]_rvars => RInv'
<1> SUFFICES ASSUME RInv, [RNext]_rvars
             PROVE  RInv'
  OBVIOUS
<1>1. CASE Next /\ UNCHANGED recovery
  BY <1>1, JobPathKeeps
<1>2. ASSUME NEW j \in Jobs, ScheduleFails(j) \/ WaitExpires(j) \/ RecoveryStep(j)
      PROVE  RInv'
  <2>1. CASE \/ ScheduleFails(j) \/ WaitExpires(j) \/ WaitNeverCommitted(j) \/ WaitDequeues(j)
             \/ WaitFails(j) \/ CheckFails(j)
    BY <2>1, ScheduleFailsKeeps, WaitExpiresKeeps, WaitNeverCommittedKeeps, WaitDequeuesKeeps,
       WaitFailsKeeps, CheckFailsKeeps
  <2>2. CASE \/ AbortClears(j) \/ AbortFrees(j) \/ ResetSkipped(j) \/ ResetBegins(j)
             \/ ResetMarks(j) \/ ResetHits(j) \/ ResetErrs(j) \/ ResetEnds(j)
             \/ ResetUnlocks(j)
    BY <2>2, AbortClearsKeeps, AbortFreesKeeps, ResetSkippedKeeps, ResetBeginsKeeps,
       ResetMarksKeeps, ResetHitsKeeps, ResetErrsKeeps, ResetEndsKeeps, ResetUnlocksKeeps
  <2>3. CASE CleanUnlinks(j) \/ CleanDrains(j) \/ CleanNextCore(j)
    BY <2>3, CleanUnlinksKeeps, CleanDrainsKeeps, CleanNextCoreKeeps
  <2>4. QED
    BY <1>2, <2>1, <2>2, <2>3 DEF RecoveryStep
<1>3. ASSUME NEW j \in Jobs, NEW c \in Cores, CleanExpired(j, c)
      PROVE  RInv'
  BY <1>3, CleanExpiredKeeps
<1>4. ASSUME NEW c \in Cores, HwGlitches(c) \/ RHandlerStep(c)
      PROVE  RInv'
  BY <1>4, SpuriousKeeps
<1>5. CASE UNCHANGED rvars
  BY <1>5, JobPathKeeps DEF rvars
<1>6. QED
  BY <1>1, <1>2, <1>3, <1>4, <1>5, ChecksKeeps, UserResetKeeps DEF RNext

\* The invariant holds in every reachable state.
LEMMA RInvariance == RSpec => []RInv
  BY RInvInit, RInvStep, PTL DEF RSpec

\* Type correctness of the recovery: through timeouts, aborts, sweeps and failed
\* resets every variable keeps its type, no counter is indexed by a null job, and a
\* submitter that is past a sweep's reset has the expired job in hand.
THEOREM RTypeCorrect == RSpec => []RTypeOK
<1>1. RInv => RTypeOK
  BY DEF RInv
<1>2. QED
  BY <1>1, RInvariance, PTL

\* rknpu_soft_reset(): whatever times out, is swept or asked for, one caller at a time is
\* in its locked part; nobody clears soft_reseting while that caller drives the reset
\* lines; and unless a line failed the flag does not stay set when it is done.
THEOREM ResetsExclude == RSpec => []ResetExclusive
<1>1. RInv => ResetExclusive
  <2> SUFFICES ASSUME RInv
               PROVE  ResetExclusive
    OBVIOUS
  <2>1. ResetInv /\ asked \in {"no", "locked", "resetting", "reset_end", "unlocking"}
    BY DEF RInv, RTypeOK
  <2>2. \A r \in Resetters : r = reset_lock
    BY <2>1 DEF Resetters, ResetInv, InReset
  <2>3. Driving # {} => soft_reseting
    BY <2>1 DEF Driving, ResetInv
  <2>4. soft_reseting /\ ~ResetFails => Driving # {}
    BY <2>1 DEF Driving, ResetInv
  <2>5. QED
    BY <2>2, <2>3, <2>4 DEF ResetExclusive
<1>2. QED
  BY <1>1, RInvariance, PTL

-----------------------------------------------------------------------------
(* One queue order *)

\* What is in w is in s, in the same order.
Kept(w, s) ==
    /\ \A n \in 1 .. Len(w) : \E p \in 1 .. Len(s) : s[p] = w[n]
    /\ \A m, n \in 1 .. Len(w) : m < n =>
          \E o, p \in 1 .. Len(s) : o < p /\ s[o] = w[m] /\ s[p] = w[n]

\* What is left of a list is in the order it was in.
LEMMA WithoutOrder ==
  ASSUME NEW s \in Seq(Jobs), NEW k
  PROVE  Kept(Without(s, k), s)
<1> DEFINE w == Without(s, k)
<1>1. CASE w = s
  BY <1>1 DEF Kept
<1>2. CASE w # s
  <2>1. PICK i \in 1 .. Len(s) :
           /\ Len(w) = Len(s) - 1
           /\ \A n \in 1 .. Len(s) - 1 : w[n] = s[IF n < i THEN n ELSE n + 1]
    BY <1>2, WithoutProperties
  <2> HIDE DEF w
  <2> DEFINE old(n) == IF n < i THEN n ELSE n + 1
  <2>2. Len(s) \in Nat
    OBVIOUS
  <2>3. \A n \in 1 .. Len(w) : old(n) \in 1 .. Len(s) /\ s[old(n)] = w[n]
    BY <2>1, <2>2
  <2>4. \A m, n \in 1 .. Len(w) : m < n => old(m) < old(n)
    BY <2>1, <2>2
  <2> HIDE DEF old
  <2>5. QED
    BY <2>3, <2>4 DEF Kept, w
<1>3. QED
  BY <1>1, <1>2

\* A step that only takes jobs from lists and slots keeps the order.
LEMMA OrderShrinks ==
  ASSUME TypeOK, OrderInv, ConsistentOrder, NEW j,
         \A c \in Cores : todo'[c] = todo[c] \/ todo'[c] = Without(todo[c], j),
         \A c \in Cores : slot'[c] = slot[c] \/ slot'[c] = NoJob,
         \A k \in Jobs : Early(k)' => Early(k)
  PROVE  OrderInv' /\ ConsistentOrder'
<1>1. \A c \in Cores : todo[c] \in Seq(Jobs)
  BY DEF TypeOK
<1>2. ASSUME NEW c \in Cores
      PROVE  Kept(todo'[c], todo[c])
  <2>1. CASE todo'[c] = todo[c]
    BY <2>1 DEF Kept
  <2>2. CASE todo'[c] = Without(todo[c], j)
    BY <1>1, <2>2, WithoutOrder
  <2>3. QED
    BY <2>1, <2>2
<1>3. \A k \in Jobs, c \in Cores : InTodo(k, c)' => InTodo(k, c)
  BY <1>2 DEF InTodo, Kept
<1>4. \A k \in Jobs, c \in Cores : slot'[c] = k => slot[c] = k
  BY ConstantsAssumption
<1>5. ASSUME NEW i \in Jobs, NEW k \in Jobs, NEW c \in Cores, i # k, Precedes(i, k, c)'
      PROVE  Precedes(i, k, c)
  <2>1. CASE slot'[c] = i /\ InTodo(k, c)'
    BY <1>3, <1>4, <2>1 DEF Precedes
  <2>2. ASSUME NEW m \in 1 .. Len(todo'[c]), NEW n \in 1 .. Len(todo'[c]),
               m < n, todo'[c][m] = i, todo'[c][n] = k
        PROVE  Precedes(i, k, c)
    BY <1>2, <2>2 DEF Precedes, Kept
  <2>3. QED
    BY <1>5, <2>1, <2>2 DEF Precedes
<1>6. QED
  BY <1>3, <1>4, <1>5, OrderFrame

\* The steps of the recovery keep the order.
LEMMA RecoveryOrder ==
  ASSUME RInv, OrderInv, ConsistentOrder, NEW j \in Jobs,
         ScheduleFails(j) \/ WaitExpires(j) \/ RecoveryStep(j)
  PROVE  OrderInv' /\ ConsistentOrder'
<1>0. TypeOK /\ SweepInv
  BY DEF RInv, RTypeOK
<1>1. CASE ScheduleFails(j) \/ WaitExpires(j) \/ WaitNeverCommitted(j) \/ WaitFails(j)
           \/ CheckFails(j) \/ AbortFrees(j)
  <2>1. UNCHANGED <<todo, slot, args>>
    BY <1>1 DEF ScheduleFails, WaitExpires, WaitNeverCommitted, WaitFails, CheckFails, AbortFrees,
                subcore, alloc
  <2>2. \A k \in Jobs : pc'[k] = pc[k] \/
           pc'[k] \in {"queued", "expired", "dequeue", "abort", "returned"}
    BY <1>1, RTypes DEF ScheduleFails, WaitExpires, WaitNeverCommitted, WaitFails, CheckFails,
                AbortFrees, Goto
  <2>3. QED
    BY <2>1, <2>2, OrderUntouched DEF Early
<1>2. CASE WaitDequeues(j)
  <2>1. \A c \in Cores : todo'[c] = todo[c] \/ todo'[c] = Without(todo[c], j)
    BY <1>2 DEF WaitDequeues
  <2>2. slot' = slot /\ args' = args
    BY <1>2 DEF WaitDequeues, alloc
  <2>3. \A k \in Jobs : pc'[k] = pc[k] \/ pc'[k] = "abort"
    BY <1>2, RTypes DEF WaitDequeues, Goto
  <2>4. QED
    BY <1>0, <2>1, <2>2, <2>3, OrderShrinks DEF Early
<1>3. CASE AbortClears(j)
  <2>1. todo' = todo /\ args' = args
    BY <1>3 DEF AbortClears, alloc
  <2>2. \A c \in Cores : slot'[c] = slot[c] \/ slot'[c] = NoJob
    BY <1>3 DEF AbortClears
  <2>3. \A k \in Jobs : pc'[k] = pc[k] \/ pc'[k] = "free" \/ (~args[k].nonblock /\ pc'[k] = "reset")
    BY <1>0, <1>3, RTypes DEF AbortClears, SweepInv, Goto
  <2>4. QED
    BY <1>0, <2>1, <2>2, <2>3, OrderShrinks DEF Early
<1>4. CASE \/ ResetSkipped(j) \/ ResetBegins(j) \/ ResetMarks(j) \/ ResetEnds(j)
           \/ ResetUnlocks(j) \/ CleanNextCore(j)
  <2>1. UNCHANGED <<todo, slot, args>>
    BY <1>4
    DEF ResetSkipped, ResetBegins, ResetMarks, ResetEnds, ResetUnlocks, CleanNextCore, subcore,
        alloc
  <2>2. \A k \in Jobs \ {j} : pc'[k] = pc[k]
    BY <1>4, RTypes
    DEF ResetSkipped, ResetBegins, ResetMarks, ResetEnds, ResetUnlocks, CleanNextCore, Goto
  <2>3. pc'[j] = "free" \/ ~args[j].nonblock \/ Early(j)
    BY <1>4, RTypes
    DEF ResetSkipped, ResetBegins, ResetMarks, ResetEnds, ResetUnlocks, CleanNextCore, Early
  <2>4. args[j].nonblock \/ pc'[j] \in {"free", "locked", "resetting", "unlocking"}
    BY <1>0, <1>4, RTypes
    DEF ResetSkipped, ResetBegins, ResetMarks, ResetEnds, ResetUnlocks, CleanNextCore, Goto,
        AfterReset, SweepInv
  <2>5. \A k \in Jobs : Early(k)' => Early(k)
    BY <2>1, <2>2, <2>3, <2>4 DEF Early
  <2>6. QED
    BY <2>1, <2>5, OrderUntouched
<1>5. CASE ResetHits(j) \/ ResetErrs(j)
  <2>1. UNCHANGED <<todo, slot, args>>
    BY <1>5 DEF ResetHits, ResetErrs, subcore, alloc
  <2>2. \A k \in Jobs \ {j} : pc'[k] = pc[k] \/ pc'[k] = "wait"
    BY <1>5 DEF ResetHits, ResetErrs
  <2>3. /\ pc[j] = "resetting"
        /\ pc'[j] \in {"reset_end", "unlink", "free"}
    BY <1>5 DEF ResetHits, ResetErrs, AfterReset
  <2>4. \A k \in Jobs : Early(k)' => Early(k)
    BY <2>1, <2>2, <2>3 DEF Early
  <2>5. QED
    BY <2>1, <2>4, OrderUntouched
<1>6. CASE CleanUnlinks(j)
  <2>1. \A c \in Cores : todo'[c] = Without(todo[c], target[j])
    BY <1>6 DEF CleanUnlinks, Unlinks
  <2>2. \A c \in Cores : slot'[c] = slot[c] \/ slot'[c] = NoJob
    BY <1>6 DEF CleanUnlinks
  <2>3. \A k \in Jobs : Early(k)' => Early(k)
    BY <1>6, RTypes DEF CleanUnlinks, Goto, Early
  <2>4. QED
    BY <1>0, <2>1, <2>2, <2>3, OrderShrinks
<1>7. CASE CleanDrains(j)
  <2>1. \A c \in Cores : todo'[c] = Without(todo[c], Head(todo[sweep[j]]))
    BY <1>7 DEF CleanDrains, Unlinks
  <2>2. slot' = slot
    BY <1>7 DEF CleanDrains
  <2>3. \A k \in Jobs : Early(k)' => Early(k)
    BY <1>7 DEF CleanDrains, Early
  <2>4. QED
    BY <1>0, <2>1, <2>2, <2>3, OrderShrinks
<1>8. QED
  BY <1>1, <1>2, <1>3, <1>4, <1>5, <1>6, <1>7 DEF RecoveryStep

\* Every step keeps the order.
LEMMA ROrderStep ==
  RInv /\ OrderInv /\ ConsistentOrder /\ [RNext]_rvars => OrderInv' /\ ConsistentOrder'
<1> SUFFICES ASSUME RInv, OrderInv, ConsistentOrder, [RNext]_rvars
             PROVE  OrderInv' /\ ConsistentOrder'
  OBVIOUS
<1>1. CASE [Next]_vars
  BY <1>1, OrderStep DEF RInv, RTypeOK
<1>2. ASSUME NEW j \in Jobs, ScheduleFails(j) \/ WaitExpires(j) \/ RecoveryStep(j)
      PROVE  OrderInv' /\ ConsistentOrder'
  BY <1>2, RecoveryOrder
<1>3. ASSUME NEW j \in Jobs, NEW c \in Cores, CleanExpired(j, c)
      PROVE  OrderInv' /\ ConsistentOrder'
  <2>1. UNCHANGED <<todo, slot, args>>
    BY <1>3 DEF CleanExpired, subcore, alloc
  <2>2. \A k \in Jobs : Early(k)' => Early(k)
    BY <1>3, <2>1, RTypes DEF CleanExpired, Goto, Early
  <2>3. QED
    BY <2>1, <2>2, OrderUntouched
<1>4. ASSUME NEW c \in Cores, HwGlitches(c) \/ RHandlerStep(c)
      PROVE  OrderInv' /\ ConsistentOrder'
  BY <1>4, OrderUntouched
  DEF HwGlitches, RHandlerStep, IrqWithoutJob, IrqInvalid, Early, subcore, alloc
<1>5. CASE UserReset
  <2>1. UNCHANGED <<todo, slot, args>>
    BY <1>5 DEF UserReset, UserResetBegins, UserResetMarks, UserResetHits, UserResetEnds,
           UserResetUnlocks, subcore, alloc
  <2>2. \A k \in Jobs : pc'[k] = pc[k] \/ pc'[k] = "wait"
    BY <1>5 DEF UserReset, UserResetBegins, UserResetMarks, UserResetHits, UserResetEnds,
           UserResetUnlocks
  <2>3. QED
    BY <2>1, <2>2, OrderUntouched DEF Early
<1>6. ASSUME NEW t \in Threads, JobNextChecks(t)
      PROVE  OrderInv' /\ ConsistentOrder'
  BY <1>6, OrderUntouched DEF JobNextChecks, Early, subcore, alloc
<1>7. QED
  BY <1>1, <1>2, <1>3, <1>4, <1>5, <1>6 DEF RNext, rvars

\* The order of RknpuJob survives everything the recovery does to the lists: a wait
\* that gives up, a sweep and a drain take jobs out and never reorder what stays.
THEOREM OrderSurvivesRecovery == RSpec => []ConsistentOrder
<1>1. RInit => OrderInv /\ ConsistentOrder
  BY OrderInit DEF RInit
<1>2. QED
  BY <1>1, RInvariance, ROrderStep, PTL DEF RSpec
=============================================================================

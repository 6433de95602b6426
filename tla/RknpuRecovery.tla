--------------------------- MODULE RknpuRecovery ---------------------------
(***************************************************************************)
(* RknpuJob with what goes wrong and what the driver does about it: waits  *)
(* that expire (rknpu_job_wait), hardware that hangs or raises an          *)
(* interrupt with another status, jobs that cannot be committed,           *)
(* rknpu_job_abort(), rknpu_soft_reset() and the sweep of expired jobs     *)
(* (rknpu_job_timeout_clean) that an asynchronous submission starts with.  *)
(*                                                                         *)
(* Time is abstract.  A wait may expire whenever its condition is false;   *)
(* the up to three rounds of the wait loop change nothing others can see   *)
(* and are one step.  A hang is an engine that never finishes.             *)
(***************************************************************************)
EXTENDS RknpuJob

CONSTANTS
    WaitsExpire,         \* whether waits may expire
    Glitches,            \* whether the hardware may raise an invalid status
    DomainFails,         \* whether rknpu_iommu_domain_get_and_switch may fail
    ResetFails,          \* whether a reset line may fail
    bypass_soft_reset,   \* the module parameter
    UserResets,          \* whether the user may ask for resets
    User,                \* the user, as the holder of reset_lock
    SleepsCover          \* msleep(100) outlasts the interrupt handlers and
                         \* rknpu_job_next() calls that use the job

ASSUME SwitchesAssumption ==
    /\ {WaitsExpire, Glitches, DomainFails, ResetFails, bypass_soft_reset, UserResets,
        SleepsCover} \subseteq BOOLEAN
    /\ User \notin Jobs \cup {NoJob}

VARIABLES
    reset_lock,          \* the submitter or user that holds rknpu_dev->reset_lock
    asked,               \* the step of the reset the user asks for, or "no"
    target,              \* the expired job a sweeping submitter has read
    sweep,               \* the core it sweeps; num_irqs when it has swept all
    oops                 \* the sweep has made the kernel follow a null pointer

recovery == <<reset_lock, asked, target, sweep, oops>>
rvars == <<vars, recovery>>

RInit ==
    /\ Init
    /\ reset_lock = NoJob
    /\ asked = "no"
    /\ target = [j \in Jobs |-> NoJob]
    /\ sweep = [j \in Jobs |-> 0]
    /\ oops = FALSE

-----------------------------------------------------------------------------
(* Helpers *)

\* list_del() and list_del_init(): the entry of j, if it has one, leaves the list.
Without(s, j) ==
    IF \E i \in 1 .. Len(s) : s[i] = j
    THEN LET i == CHOOSE k \in 1 .. Len(s) : s[k] = j
         IN  [n \in 1 .. Len(s) - 1 |-> s[IF n < i THEN n ELSE n + 1]]
    ELSE s

\* No interrupt handler and no rknpu_job_next() call holds a pointer to j.
Settled(j) == (\A t \in Threads : cur[t] # j) /\ (\A c \in Cores : ijob[c] # j)

\* No thread is inside rknpu_job_next() beyond its soft_reseting test.
NoneInside == checked = {} /\ \A t \in Threads : cur[t] = NoJob

\* Where rknpu_soft_reset() returns to: the sweep, or rknpu_job_abort().
AfterReset(j) == IF args[j].nonblock THEN "unlink" ELSE "free"

Goto(j, l) == pc' = [pc EXCEPT ![j] = l]

-----------------------------------------------------------------------------
(* The hardware and the interrupt handler *)

\* An interrupt with a status that is not the mask of the last task.
HwGlitches(c) ==
    /\ Glitches
    /\ hw[c] # NoJob /\ line[c] = "low"
    /\ line' = [line EXCEPT ![c] = "bad"]
    /\ UNCHANGED <<subcore, counts, result, alloc, dispatch, handler, hw, ran, int_mask, mask,
                   pc, soft_reseting, recovery>>

\* rknpu_irq_handler() finds no job: clear the interrupt, try the next job.
IrqWithoutJob(c) ==
    /\ irq[c] = "idle" /\ Outside(c)
    /\ line[c] # "low"
    /\ slot[c] = NoJob
    /\ line' = [line EXCEPT ![c] = "low"]
    /\ next' = [next EXCEPT ![c] = {c}]
    /\ UNCHANGED <<subcore, counts, result, alloc, cur, at, com, checked, handler, hw, ran,
                   int_mask, mask, pc, soft_reseting, recovery>>

\* rknpu_irq_handler(): the status is not the one required; the job is left alone.
IrqInvalid(c) ==
    /\ irq[c] = "status"
    /\ ~StatusValid(c)
    /\ line' = [line EXCEPT ![c] = "low"]
    /\ irq' = [irq EXCEPT ![c] = "idle"]
    /\ ijob' = [ijob EXCEPT ![c] = NoJob]
    /\ UNCHANGED <<subcore, counts, result, alloc, dispatch, irq_entry, hw, ran, int_mask, mask,
                   pc, soft_reseting, recovery>>

-----------------------------------------------------------------------------
(* rknpu_job_schedule() and rknpu_job_wait() that fail *)

\* The domain switch fails: the job is not queued.
ScheduleFails(j) ==
    /\ DomainFails
    /\ pc[j] = "schedule" /\ mask[j] # {}
    /\ ret' = [ret EXCEPT ![j] = "EINVAL"]
    /\ Goto(j, "queued")
    /\ UNCHANGED <<subcore, counts, done, fence, alloc, dispatch, handler, device, mask,
                   soft_reseting, recovery>>

\* Mutant: the wait loop has no bound for a job that never reached the hardware.
WaitExpiresMutant(j) ==
    /\ WaitsExpire
    /\ pc[j] = "asleep"
    /\ ~done[j] /\ ~soft_reseting
    /\ int_mask[j] # {}
    /\ Goto(j, "expired")
    /\ UNCHANGED <<subcore, counts, result, alloc, dispatch, handler, device, mask,
                   soft_reseting, recovery>>

\* wait_event_timeout() returns 0 for the last time.
WaitExpires(j) ==
    /\ WaitsExpire
    /\ pc[j] = "asleep"
    /\ ~done[j] /\ ~soft_reseting
    /\ Goto(j, "expired")
    /\ UNCHANGED <<subcore, counts, result, alloc, dispatch, handler, device, mask,
                   soft_reseting, recovery>>

\* last_task is NULL: the job was never committed.
WaitNeverCommitted(j) ==
    /\ pc[j] \in {"woken", "expired"}
    /\ int_mask[j] = {}
    /\ Goto(j, "dequeue")
    /\ UNCHANGED <<subcore, counts, result, alloc, dispatch, handler, device, mask,
                   soft_reseting, recovery>>

\* Mutant: the job is left on the lists.
WaitDequeuesMutant(j) ==
    /\ pc[j] = "dequeue"
    /\ ret' = [ret EXCEPT ![j] = "EINVAL"]
    /\ Goto(j, "abort")
    /\ UNCHANGED <<subcore, counts, done, fence, alloc, dispatch, handler, device, mask,
                   soft_reseting, recovery>>

\* The locked section: the job is removed from the lists of the first
\* use_core_num cores (not of the cores of its mask).
WaitDequeues(j) ==
    /\ pc[j] = "dequeue"
    /\ todo' = [c \in Cores |-> IF c < Cardinality(mask[j]) THEN Without(todo[c], j) ELSE todo[c]]
    /\ ret' = [ret EXCEPT ![j] = "EINVAL"]
    /\ Goto(j, "abort")
    /\ UNCHANGED <<slot, task_num, counts, done, fence, alloc, dispatch, handler, device, mask,
                   soft_reseting, recovery>>

\* The job was committed and did not finish: it timed out, or a reset woke the
\* submitter.
WaitFails(j) ==
    /\ int_mask[j] # {}
    /\ \/ pc[j] = "expired" /\ ret' = [ret EXCEPT ![j] = "ETIMEDOUT"]
       \/ pc[j] = "woken" /\ ~done[j] /\ ret' = [ret EXCEPT ![j] = "EINVAL"]
    /\ Goto(j, "abort")
    /\ UNCHANGED <<subcore, counts, done, fence, alloc, dispatch, handler, device, mask,
                   soft_reseting, recovery>>

\* A submission that is not waited for finds job->ret set.
CheckFails(j) ==
    /\ pc[j] = "check"
    /\ ret[j] # "OK"
    /\ Goto(j, "abort")
    /\ UNCHANGED <<subcore, counts, result, alloc, dispatch, handler, device, mask,
                   soft_reseting, recovery>>

-----------------------------------------------------------------------------
(* rknpu_job_abort() *)

\* Mutant: the slots are not cleared.
AbortKeepsSlotMutant(j) ==
    /\ pc[j] = "abort"
    /\ SleepsCover => Settled(j)
    /\ Goto(j, IF ret[j] = "ETIMEDOUT" THEN "reset" ELSE "free")
    /\ UNCHANGED <<subcore, counts, result, alloc, dispatch, handler, device, mask,
                   soft_reseting, recovery>>

\* Mutant: task_num is given back even for a slot that is not cleared.
AbortClearsMutant(j) ==
    /\ pc[j] = "abort"
    /\ SleepsCover => Settled(j)
    /\ slot' = [c \in Cores |->
                   IF c \in mask[j] /\ slot[c] = j /\ c \notin irq_entry[j] THEN NoJob ELSE slot[c]]
    /\ task_num' = [c \in Cores |->
                       IF c \in mask[j] THEN task_num[c] - TaskNumber(j, c) ELSE task_num[c]]
    /\ Goto(j, IF ret[j] = "ETIMEDOUT" THEN "reset" ELSE "free")
    /\ UNCHANGED <<todo, counts, result, alloc, dispatch, handler, device, mask, soft_reseting,
                   recovery>>

\* After msleep(100), the locked section: the job leaves the slots of the cores
\* whose interrupt handler has never seen it.
AbortClears(j) ==
    /\ pc[j] = "abort"
    /\ SleepsCover => Settled(j)
    /\ LET mine == {c \in mask[j] : slot[c] = j /\ c \notin irq_entry[j]}
       IN  /\ slot' = [c \in Cores |-> IF c \in mine THEN NoJob ELSE slot[c]]
           /\ task_num' = [c \in Cores |->
                             IF c \in mine THEN task_num[c] - TaskNumber(j, c) ELSE task_num[c]]
    /\ Goto(j, IF ret[j] = "ETIMEDOUT" THEN "reset" ELSE "free")
    /\ UNCHANGED <<todo, counts, result, alloc, dispatch, handler, device, mask, soft_reseting,
                   recovery>>

\* rknpu_job_cleanup(), and the ioctl returns the error.
AbortFrees(j) ==
    /\ pc[j] = "free"
    /\ mem' = [mem EXCEPT ![j] = "freed"]
    /\ Goto(j, "returned")
    /\ UNCHANGED <<subcore, counts, result, args, work, dispatch, handler, device, mask,
                   soft_reseting, recovery>>

-----------------------------------------------------------------------------
(* rknpu_soft_reset() *)

\* Bypassed by the module parameter, or mutex_trylock fails.
ResetSkipped(j) ==
    /\ pc[j] = "reset"
    /\ bypass_soft_reset \/ reset_lock # NoJob
    /\ Goto(j, AfterReset(j))
    /\ UNCHANGED <<subcore, counts, result, alloc, dispatch, handler, device, mask,
                   soft_reseting, recovery>>

\* Mutant: mutex_trylock's result is not looked at.
ResetBeginsMutant(j) ==
    /\ pc[j] = "reset"
    /\ ~bypass_soft_reset
    /\ reset_lock' = j
    /\ Goto(j, "locked")
    /\ UNCHANGED <<subcore, counts, result, alloc, dispatch, handler, device, mask,
                   soft_reseting, asked, target, sweep, oops>>

\* mutex_trylock succeeds.
ResetBegins(j) ==
    /\ pc[j] = "reset"
    /\ ~bypass_soft_reset /\ reset_lock = NoJob
    /\ reset_lock' = j
    /\ Goto(j, "locked")
    /\ UNCHANGED <<subcore, counts, result, alloc, dispatch, handler, device, mask,
                   soft_reseting, asked, target, sweep, oops>>

ResetMarks(j) ==
    /\ pc[j] = "locked"
    /\ soft_reseting' = TRUE
    /\ Goto(j, "resetting")
    /\ UNCHANGED <<subcore, counts, result, alloc, dispatch, handler, device, mask, recovery>>

\* rknpu_job_next() tests soft_reseting and has still to take irq_lock when a reset
\* sets the flag.  (While no reset is about to set it, the test and the locked section
\* that follows are as good as one step.)
JobNextChecks(t) ==
    /\ asked = "locked" \/ \E j \in Jobs : pc[j] = "locked"
    /\ cur[t] = NoJob /\ next[t] # {}
    /\ ~soft_reseting /\ t \notin checked
    /\ checked' = checked \cup {t}
    /\ UNCHANGED <<subcore, counts, result, alloc, next, cur, at, com, handler, device, mask, pc,
                   soft_reseting, recovery>>

\* After msleep(100): every job_done_wq is woken and the lines are asserted and
\* deasserted, which stops the engines and drops their interrupts.
ResetHits(j) ==
    /\ pc[j] = "resetting"
    /\ SleepsCover => NoneInside
    /\ pc' = [k \in Jobs |-> IF k = j THEN "reset_end"
                             ELSE IF pc[k] = "asleep" THEN "wait" ELSE pc[k]]
    /\ hw' = [c \in Cores |-> NoJob]
    /\ line' = [c \in Cores |-> "low"]
    /\ UNCHANGED <<subcore, counts, result, alloc, dispatch, handler, ran, int_mask, mask,
                   soft_reseting, recovery>>

\* A reset line fails; the engines may have been stopped by the others.  reset_lock
\* is dropped, soft_reseting stays set.
ResetErrs(j) ==
    /\ ResetFails
    /\ pc[j] = "resetting"
    /\ SleepsCover => NoneInside
    /\ pc' = [k \in Jobs |-> IF k = j THEN AfterReset(j)
                             ELSE IF pc[k] = "asleep" THEN "wait" ELSE pc[k]]
    /\ \/ UNCHANGED <<hw, line>>
       \/ hw' = [c \in Cores |-> NoJob] /\ line' = [c \in Cores |-> "low"]
    /\ reset_lock' = NoJob
    /\ UNCHANGED <<subcore, counts, result, alloc, dispatch, handler, ran, int_mask, mask,
                   soft_reseting, asked, target, sweep, oops>>

ResetEnds(j) ==
    /\ pc[j] = "reset_end"
    /\ soft_reseting' = FALSE
    /\ Goto(j, "unlocking")
    /\ UNCHANGED <<subcore, counts, result, alloc, dispatch, handler, device, mask, recovery>>

\* state_init() has written its registers; mutex_unlock.
ResetUnlocks(j) ==
    /\ pc[j] = "unlocking"
    /\ reset_lock' = NoJob
    /\ Goto(j, AfterReset(j))
    /\ UNCHANGED <<subcore, counts, result, alloc, dispatch, handler, device, mask,
                   soft_reseting, asked, target, sweep, oops>>

\* The same for RKNPU_ACT_RESET and the reset node of debugfs, with no job of its
\* own; a call that is bypassed or finds reset_lock taken does nothing.
UserResetBegins ==
    /\ UserResets
    /\ asked = "no"
    /\ ~bypass_soft_reset /\ reset_lock = NoJob
    /\ reset_lock' = User
    /\ asked' = "locked"
    /\ UNCHANGED <<subcore, counts, result, alloc, dispatch, handler, device, mask, pc,
                   soft_reseting, target, sweep, oops>>

UserResetMarks ==
    /\ asked = "locked"
    /\ soft_reseting' = TRUE
    /\ asked' = "resetting"
    /\ UNCHANGED <<subcore, counts, result, alloc, dispatch, handler, device, mask, pc,
                   reset_lock, target, sweep, oops>>

UserResetHits ==
    /\ asked = "resetting"
    /\ SleepsCover => NoneInside
    /\ pc' = [k \in Jobs |-> IF pc[k] = "asleep" THEN "wait" ELSE pc[k]]
    /\ \E ok \in {TRUE, ~ResetFails} : \E stops \in {TRUE, ok} :
           /\ hw' = IF stops THEN [c \in Cores |-> NoJob] ELSE hw
           /\ line' = IF stops THEN [c \in Cores |-> "low"] ELSE line
           /\ asked' = IF ok THEN "reset_end" ELSE "no"
           /\ reset_lock' = IF ok THEN User ELSE NoJob
    /\ UNCHANGED <<subcore, counts, result, alloc, dispatch, handler, ran, int_mask, mask,
                   soft_reseting, target, sweep, oops>>

UserResetEnds ==
    /\ asked = "reset_end"
    /\ soft_reseting' = FALSE
    /\ asked' = "unlocking"
    /\ UNCHANGED <<subcore, counts, result, alloc, dispatch, handler, device, mask, pc,
                   reset_lock, target, sweep, oops>>

UserResetUnlocks ==
    /\ asked = "unlocking"
    /\ reset_lock' = NoJob
    /\ asked' = "no"
    /\ UNCHANGED <<subcore, counts, result, alloc, dispatch, handler, device, mask, pc,
                   soft_reseting, target, sweep, oops>>

UserReset ==
    UserResetBegins \/ UserResetMarks \/ UserResetHits \/ UserResetEnds \/ UserResetUnlocks

-----------------------------------------------------------------------------
(* rknpu_job_timeout_clean() *)

\* A core of the mask holds a job older than its timeout (slot read without
\* irq_lock): reset first.
CleanExpired(j, c) ==
    /\ WaitsExpire
    /\ pc[j] = "clean"
    /\ c \in mask[j] /\ sweep[j] <= c
    /\ slot[c] # NoJob
    /\ target' = [target EXCEPT ![j] = slot[c]]
    /\ sweep' = [sweep EXCEPT ![j] = c]
    /\ Goto(j, "reset")
    /\ UNCHANGED <<subcore, counts, result, alloc, dispatch, handler, device, mask,
                   soft_reseting, reset_lock, asked, oops>>

\* What the sweep does with job k, in both its locked sections and after them:
\* list_del_init() on every head[] that is not empty, and schedule_work().  A head
\* that was never linked is all zeroes, not empty; the work item of a blocking job
\* was never initialised and has no function.
Unlinks(k) ==
    /\ todo' = [c \in Cores |-> Without(todo[c], k)]
    /\ oops' = (oops \/ mask[k] # Cores \/ ~args[k].nonblock)
    /\ work' = [work EXCEPT ![k] = @ \/ args[k].nonblock]

\* Mutant: the slots are not cleared.
CleanUnlinksMutant(j) ==
    /\ pc[j] = "unlink"
    /\ Unlinks(target[j])
    /\ Goto(j, "drain")
    /\ UNCHANGED <<slot, task_num, counts, result, args, mem, dispatch, handler, device, mask,
                   soft_reseting, reset_lock, asked, target, sweep>>

\* The expired job leaves all slots and lists, and its clean-up is queued.
CleanUnlinks(j) ==
    /\ pc[j] = "unlink"
    /\ slot' = [c \in Cores |-> IF slot[c] = target[j] THEN NoJob ELSE slot[c]]
    /\ Unlinks(target[j])
    /\ Goto(j, "drain")
    /\ UNCHANGED <<task_num, counts, result, args, mem, dispatch, handler, device, mask,
                   soft_reseting, reset_lock, asked, target, sweep>>

\* Mutant: the first entry is handed to its clean-up and not unlinked.
CleanDrainsMutant(j) ==
    /\ pc[j] = "drain"
    /\ todo[sweep[j]] # <<>>
    /\ work' = [work EXCEPT ![Head(todo[sweep[j]])] = @ \/ args[Head(todo[sweep[j]])].nonblock]
    /\ UNCHANGED <<subcore, counts, result, args, mem, dispatch, handler, device, mask,
                   pc, soft_reseting, recovery>>

\* One round of the loop that drains the core's list.
CleanDrains(j) ==
    /\ pc[j] = "drain"
    /\ todo[sweep[j]] # <<>>
    /\ Unlinks(Head(todo[sweep[j]]))
    /\ UNCHANGED <<slot, task_num, counts, result, args, mem, dispatch, handler, device, mask,
                   pc, soft_reseting, reset_lock, asked, target, sweep>>

\* Mutant: the sweep goes back to the reset without a job.
CleanNextCoreMutant(j) ==
    /\ pc[j] = "drain"
    /\ todo[sweep[j]] = <<>>
    /\ target' = [target EXCEPT ![j] = NoJob]
    /\ Goto(j, "unlink")
    /\ UNCHANGED <<subcore, counts, result, alloc, dispatch, handler, device, mask,
                   soft_reseting, reset_lock, asked, sweep, oops>>

\* The list is empty: on to the next core.
CleanNextCore(j) ==
    /\ pc[j] = "drain"
    /\ todo[sweep[j]] = <<>>
    /\ sweep' = [sweep EXCEPT ![j] = @ + 1]
    /\ target' = [target EXCEPT ![j] = NoJob]
    /\ Goto(j, "clean")
    /\ UNCHANGED <<subcore, counts, result, alloc, dispatch, handler, device, mask,
                   soft_reseting, reset_lock, asked, oops>>

-----------------------------------------------------------------------------
(* The specification *)

RecoveryStep(j) ==
    \/ WaitNeverCommitted(j) \/ WaitDequeues(j) \/ WaitFails(j) \/ CheckFails(j)
    \/ AbortClears(j) \/ AbortFrees(j)
    \/ ResetSkipped(j) \/ ResetBegins(j) \/ ResetMarks(j) \/ ResetHits(j) \/ ResetErrs(j)
    \/ ResetEnds(j) \/ ResetUnlocks(j)
    \/ CleanUnlinks(j) \/ CleanDrains(j) \/ CleanNextCore(j)

RHandlerStep(c) == IrqWithoutJob(c) \/ IrqInvalid(c)

RNext ==
    \/ Next /\ UNCHANGED recovery
    \/ \E j \in Jobs : ScheduleFails(j) \/ WaitExpires(j) \/ RecoveryStep(j)
    \/ \E j \in Jobs, c \in Cores : CleanExpired(j, c)
    \/ \E c \in Cores : HwGlitches(c) \/ RHandlerStep(c)
    \/ \E t \in Threads : JobNextChecks(t)
    \/ UserReset

RSpec == RInit /\ [][RNext]_rvars

\* Threads, work items and timers run; the hardware may hang for ever.  A sleep
\* of 100 ms ends although interrupts keep coming: strong fairness for the two
\* steps that follow one, and for the user's reset.
RFairness ==
    /\ \A j \in Jobs :
          /\ WF_rvars(SubmitterStep(j) /\ UNCHANGED recovery)
          /\ WF_rvars(WaitExpires(j))
          /\ WF_rvars(RecoveryStep(j))
          /\ SF_rvars(AbortClears(j) \/ ResetHits(j) \/ ResetErrs(j))
    /\ \A t \in Threads : WF_rvars(DispatchStep(t) /\ UNCHANGED recovery)
    /\ \A c \in Cores : WF_rvars((HandlerStep(c) /\ UNCHANGED recovery) \/ RHandlerStep(c))
    /\ SF_rvars(UserResetHits) /\ WF_rvars(UserResetMarks \/ UserResetEnds \/ UserResetUnlocks)

RFairSpec == RSpec /\ RFairness

-----------------------------------------------------------------------------
(* Properties *)

\* Every variable of the recovery keeps its type, and a sweeping submitter that
\* is past the reset has a job to unlink.
RTypeOK ==
    /\ TypeOK
    /\ reset_lock \in Jobs \cup {NoJob, User}
    /\ asked \in {"no", "locked", "resetting", "reset_end", "unlocking"}
    /\ target \in [Jobs -> Jobs \cup {NoJob}]
    /\ sweep \in [Jobs -> 0 .. num_irqs]
    /\ oops \in BOOLEAN
    /\ \A j \in Jobs : pc[j] \in {"unlink", "drain"} => target[j] # NoJob

\* No todo_list holds a freed job, although the submitter of a job that is still
\* queued gives up, a sweep drains the list, and both free what they remove.
QueuedIsLive == \A c \in Cores, j \in Jobs : InTodo(j, c) => mem[j] = "live"

\* A slot names a freed job only if rknpu_job_abort() spared it because the
\* interrupt handler had seen the job on that core (irq_entry).
StaleSlotHasIrqEntry ==
    \A c \in Cores : slot[c] # NoJob /\ mem[slot[c]] # "live" => c \in irq_entry[slot[c]]

\* task_num never falls below the tasks of the jobs a core has queued or holds:
\* a job that leaves the hard way may leave its tasks behind, but gives nothing
\* back twice.
TaskNumCovers == \A c \in Cores : task_num[c] >= Cardinality(TasksOf(Held(c), c))

\* No list, slot, rknpu_job_next() call or interrupt handler refers to a freed job.
NoDanglingJob ==
    /\ QueuedIsLive
    /\ \A c \in Cores : slot[c] # NoJob => mem[slot[c]] = "live"
    /\ \A t \in Threads : cur[t] # NoJob => mem[cur[t]] = "live"
    /\ \A c \in Cores : irq[c] \in {"status", "retire", "complete"} => mem[ijob[c]] = "live"

\* A job whose clean-up is queued is in no slot and on no list: "Clear / unlink
\* from ALL cores under irq_lock before scheduling the cleanup work".
CleanupIsUnlinked ==
    \A j \in Jobs, c \in Cores : work[j] => slot[c] # j /\ ~InTodo(j, c)

\* The sweep follows no null pointer: it unlinks a job only through list heads that
\* were linked before, and queues only work items that were initialised.
SweepFollowsNoNull == ~oops

\* The resets under way, by submitter or user, and those of them that have set the
\* flag and not yet cleared it: they wake the sleepers, drive the lines, reattach.
Resetters == {j \in Jobs : pc[j] \in {"locked", "resetting", "reset_end", "unlocking"}}
             \cup (IF asked = "no" THEN {} ELSE {User})
Driving == {j \in Jobs : pc[j] \in {"resetting", "reset_end"}}
           \cup (IF asked \in {"resetting", "reset_end"} THEN {User} ELSE {})

\* Resets never overlap, the user's included, and none clears soft_reseting while
\* another drives the reset lines, although the flag is set and cleared without
\* irq_lock; nor is the flag left set, unless a reset line failed
\* (rknpu_reset.c:110-154).
ResetExclusive ==
    /\ \A r, s \in Resetters : r = s
    /\ Driving # {} => soft_reseting
    /\ soft_reseting /\ ~ResetFails => Driving # {}

\* Every submission returns to its caller, with hung hardware, failed resets and
\* jobs that were never committed: no wait is for ever.
EverySubmitReturns ==
    \A j \in Jobs : pc[j] # "new" ~> pc[j] = "returned"
=============================================================================

------------------------------ MODULE RknpuJob ------------------------------
(***************************************************************************)
(* The job path of the driver (rknpu_job.c): rknpu_submit() allocates a    *)
(* job, links it on the todo_list of every core of its mask, and           *)
(* rknpu_job_next() moves the head of a list into the core's slot; the     *)
(* last core to pop a job starts the hardware on all of its cores; each    *)
(* core's interrupt handler recommits the next segment or retires the job  *)
(* from its core, and the last core to retire it completes the job.        *)
(*                                                                         *)
(* Actors: one submitting thread per job (the ioctl), one interrupt        *)
(* handler and one hardware engine per core, and the system workqueue.     *)
(* rknpu_dev->irq_lock sections are single actions; everything between     *)
(* two of them interleaves.  Here no wait expires and the hardware always  *)
(* answers; RknpuRecovery adds timeouts, hangs, aborts and soft reset.     *)
(***************************************************************************)
EXTENDS Integers, Sequences, FiniteSets

CONSTANTS
    num_irqs,            \* config->num_irqs: the number of cores
    max_submit_number,   \* config->max_submit_number: tasks per hardware run
    Jobs,                \* one element per rknpu_submit() call
    NoJob,               \* the NULL job pointer
    Args                 \* the struct rknpu_submit values user space passes

Cores == 0 .. num_irqs - 1

(***************************************************************************)
(* What the code reads of struct rknpu_submit: core_mask as a set of cores *)
(* ({} is RKNPU_CORE_AUTO_MASK), the task number of each core              *)
(* (subcore_task[], task_number), and the flags RKNPU_JOB_NONBLOCK,        *)
(* RKNPU_JOB_PC and RKNPU_JOB_FENCE_OUT; obj is whether task_obj_addr is   *)
(* not NULL.                                                               *)
(***************************************************************************)
SubmitArgs == [mask : SUBSET Cores, tasks : [Cores -> Nat], nonblock : BOOLEAN,
               pc : BOOLEAN, obj : BOOLEAN, fence : BOOLEAN]

ASSUME ConstantsAssumption ==
    /\ num_irqs \in Nat \ {0}
    /\ max_submit_number \in Nat \ {0}
    /\ NoJob \notin Jobs
    /\ Jobs \cap Cores = {}
    /\ NoJob \notin Cores
    /\ Args \subseteq SubmitArgs

Threads == Jobs \cup Cores      \* submitters and interrupt handlers

VARIABLES
    \* struct rknpu_subcore_data
    todo,              \* todo_list of each core
    slot,              \* the job pointer of each core
    task_num,          \* task_num of each core
    \* struct rknpu_job
    args,              \* job->args
    mask,              \* job->args->core_mask, once chosen
    run_count,         \* cores that have not popped the job yet
    interrupt_count,   \* cores that have not retired the job yet
    submit_count,      \* segments completed, per core
    int_mask,          \* cores with int_mask[] set; last_task # NULL iff # {}
    irq_entry,         \* cores with irq_entry[] set
    done,              \* flags & RKNPU_JOB_DONE
    ret,               \* job->ret
    fence,             \* the out-fence
    mem,               \* the allocation
    work,              \* cleanup_work is queued
    \* threads
    pc,                \* the submitter of each job
    irq,               \* the interrupt handler of each core
    ijob,              \* the handler's local job pointer
    next,              \* cores the thread still calls rknpu_job_next() for
    cur,               \* the job the thread has popped or is committing
    at,                \* the core it popped that job from
    com,               \* cores it still has to commit
    checked,           \* threads past the soft_reseting test of their rknpu_job_next()
    \* the device
    hw,                \* the job each hardware core is executing
    line,              \* the interrupt line and status of each core
    ran,               \* history: hardware runs completed per job and core
    soft_reseting      \* rknpu_dev->soft_reseting

subcore == <<todo, slot, task_num>>
counts  == <<run_count, interrupt_count, submit_count>>
result  == <<done, ret, fence>>
alloc   == <<args, mem, work>>
dispatch == <<next, cur, at, com, checked>>
handler == <<irq, ijob, irq_entry>>
device  == <<hw, line, ran, int_mask>>
vars == <<subcore, counts, result, alloc, dispatch, handler, device, mask, pc,
          soft_reseting>>

-----------------------------------------------------------------------------
(* Helpers *)

\* Loops over the cores run upwards: c is the next of S.
First(c, S) == c \in S /\ \A d \in S : c <= d

\* rknpu_get_task_number(): what the job has for core c.
TaskNumber(j, c) == args[j].tasks[c]

\* Hardware runs rknpu_job_done() counts for a job on core c.
Segments(j, c) == (TaskNumber(j, c) + max_submit_number - 1) \div max_submit_number

\* rknpu_job_commit() knows single cores and the masks 0x3 and 0x7.
CommitCores(m) == IF (\E c \in Cores : m = {c}) \/ (\E k \in Cores : m = 0 .. k) THEN m ELSE {}

\* rknpu_wait_core_index(): whose job_done_wq the submitter sleeps on.
WaitCore(m) == IF \E c \in Cores : m = {c} THEN CHOOSE c \in Cores : m = {c} ELSE 0

\* Mutant: the handler wakes its own core's queue, whatever the mask.
WakeCoreMutant(m, c) == c

\* rknpu_job_done(): whose job_done_wq the last handler wakes.
WakeCore(m, c) == IF Cardinality(m) > 1 THEN 0 ELSE c

\* A thread that is in no rknpu_job_next() or commit call.
Outside(t) == next[t] = {} /\ cur[t] = NoJob

\* A job whose commit is refused: not RKNPU_JOB_PC, or no task object.
CommitFails(j) == ~args[j].pc \/ ~args[j].obj

Init ==
    /\ todo = [c \in Cores |-> <<>>]
    /\ slot = [c \in Cores |-> NoJob]
    /\ task_num = [c \in Cores |-> 0]
    /\ args \in [Jobs -> Args]
    /\ mask = [j \in Jobs |-> args[j].mask]
    /\ run_count = [j \in Jobs |-> 0]
    /\ interrupt_count = [j \in Jobs |-> 0]
    /\ submit_count = [j \in Jobs |-> [c \in Cores |-> 0]]
    /\ int_mask = [j \in Jobs |-> {}]
    /\ irq_entry = [j \in Jobs |-> {}]
    /\ done = [j \in Jobs |-> FALSE]
    /\ ret = [j \in Jobs |-> "OK"]
    /\ fence = [j \in Jobs |-> "none"]
    /\ mem = [j \in Jobs |-> "none"]
    /\ work = [j \in Jobs |-> FALSE]
    /\ pc = [j \in Jobs |-> "new"]
    /\ irq = [c \in Cores |-> "idle"]
    /\ ijob = [c \in Cores |-> NoJob]
    /\ next = [t \in Threads |-> {}]
    /\ cur = [t \in Threads |-> NoJob]
    /\ at = [t \in Threads |-> 0]
    /\ com = [t \in Threads |-> {}]
    /\ checked = {}
    /\ hw = [c \in Cores |-> NoJob]
    /\ line = [c \in Cores |-> "low"]
    /\ ran = [j \in Jobs |-> [c \in Cores |-> 0]]
    /\ soft_reseting = FALSE

-----------------------------------------------------------------------------
(* rknpu_submit(): allocation, fences, and the stale-job sweep *)

\* rknpu_submit() returns early and leaves no job: task_number is 0, the mask
\* names a core the device has not, kzalloc fails, or the job is freed again
\* because the in-fence is bad, its wait is interrupted or no out-fence is had.
SubmitFails(j) ==
    /\ pc[j] = "new"
    /\ pc' = [pc EXCEPT ![j] = "returned"]
    /\ UNCHANGED <<subcore, counts, result, alloc, dispatch, handler, device, mask,
                   soft_reseting>>

\* rknpu_job_alloc(), the wait for the in-fence and the new out-fence.
Submit(j) ==
    /\ pc[j] = "new"
    /\ mem' = [mem EXCEPT ![j] = "live"]
    /\ run_count' = [run_count EXCEPT ![j] = Cardinality(mask[j])]
    /\ interrupt_count' = [interrupt_count EXCEPT ![j] = Cardinality(mask[j])]
    /\ fence' = [fence EXCEPT ![j] = IF args[j].fence THEN "pending" ELSE "none"]
    /\ pc' = [pc EXCEPT ![j] = IF args[j].nonblock THEN "clean" ELSE "schedule"]
    /\ UNCHANGED <<subcore, submit_count, done, ret, args, work, dispatch, handler, device,
                   mask, soft_reseting>>

\* rknpu_job_timeout_clean() finds no expired job on the cores of the mask.
CleanNothing(j) ==
    /\ pc[j] = "clean"
    /\ pc' = [pc EXCEPT ![j] = "schedule"]
    /\ UNCHANGED <<subcore, counts, result, alloc, dispatch, handler, device, mask,
                   soft_reseting>>

-----------------------------------------------------------------------------
(* rknpu_job_schedule() *)

\* rknpu_schedule_core_index(): the first core with the fewest tasks.
LeastLoaded(c) ==
    /\ \A d \in Cores : task_num[c] <= task_num[d]
    /\ \A d \in Cores : d < c => task_num[c] < task_num[d]

\* RKNPU_CORE_AUTO_MASK: the core is chosen from task_num, read without irq_lock.
PickCore(j) ==
    /\ pc[j] = "schedule"
    /\ mask[j] = {}
    /\ \E c \in Cores : LeastLoaded(c) /\ mask' = [mask EXCEPT ![j] = {c}]
    /\ run_count' = [run_count EXCEPT ![j] = 1]
    /\ interrupt_count' = [interrupt_count EXCEPT ![j] = 1]
    /\ UNCHANGED <<subcore, submit_count, result, alloc, dispatch, handler, device, pc,
                   soft_reseting>>

\* Mutant: list_add() for list_add_tail().
EnqueueMutant(j) ==
    /\ pc[j] = "schedule"
    /\ mask[j] # {}
    /\ todo' = [c \in Cores |-> IF c \in mask[j] THEN <<j>> \o todo[c] ELSE todo[c]]
    /\ task_num' = [c \in Cores |->
                       IF c \in mask[j] THEN task_num[c] + TaskNumber(j, c) ELSE task_num[c]]
    /\ next' = [next EXCEPT ![j] = mask[j]]
    /\ pc' = [pc EXCEPT ![j] = "queued"]
    /\ UNCHANGED <<slot, counts, result, alloc, cur, at, com, checked, handler, device, mask,
                   soft_reseting>>

\* The locked section: the job joins the list of every core of its mask at
\* once.  The calls of rknpu_job_next() for these cores follow.
Enqueue(j) ==
    /\ pc[j] = "schedule"
    /\ mask[j] # {}
    /\ todo' = [c \in Cores |-> IF c \in mask[j] THEN Append(todo[c], j) ELSE todo[c]]
    /\ task_num' = [c \in Cores |->
                       IF c \in mask[j] THEN task_num[c] + TaskNumber(j, c) ELSE task_num[c]]
    /\ next' = [next EXCEPT ![j] = mask[j]]
    /\ pc' = [pc EXCEPT ![j] = "queued"]
    /\ UNCHANGED <<slot, counts, result, alloc, cur, at, com, checked, handler, device, mask,
                   soft_reseting>>

-----------------------------------------------------------------------------
(* rknpu_job_next() and rknpu_job_commit(), for submitters and handlers *)

\* The first early return of rknpu_job_next(): a reset is in progress.  The flag is
\* read before irq_lock is taken, so it may have risen since (checked).
Deterred(t) == soft_reseting /\ t \notin checked

\* The early return of its locked section: the slot is taken, or the list empty.
NothingToStart(c) == slot[c] # NoJob \/ todo[c] = <<>>

JobNextReturns(t, c) ==
    /\ cur[t] = NoJob
    /\ First(c, next[t])
    /\ Deterred(t) \/ NothingToStart(c)
    /\ next' = [next EXCEPT ![t] = @ \ {c}]
    /\ checked' = checked \ {t}
    /\ UNCHANGED <<subcore, counts, result, alloc, cur, at, com, handler, device, mask, pc,
                   soft_reseting>>

\* The locked section: the head of the list becomes the core's job.
JobNextPops(t, c) ==
    /\ cur[t] = NoJob
    /\ First(c, next[t])
    /\ ~Deterred(t) /\ ~NothingToStart(c)
    /\ slot' = [slot EXCEPT ![c] = Head(todo[c])]
    /\ todo' = [todo EXCEPT ![c] = Tail(@)]
    /\ next' = [next EXCEPT ![t] = @ \ {c}]
    /\ checked' = checked \ {t}
    /\ cur' = [cur EXCEPT ![t] = Head(todo[c])]
    /\ at' = [at EXCEPT ![t] = c]
    /\ UNCHANGED <<task_num, counts, result, alloc, com, handler, device, mask, pc,
                   soft_reseting>>

\* Mutant: every core that pops a job commits it.
JobNextCountsMutant(t) ==
    /\ cur[t] # NoJob
    /\ com[t] = {}
    /\ run_count' = [run_count EXCEPT ![cur[t]] = @ - 1]
    /\ com' = [com EXCEPT ![t] = CommitCores(mask[cur[t]])]
    /\ at' = [at EXCEPT ![t] = 0]
    /\ UNCHANGED <<subcore, interrupt_count, submit_count, result, alloc, next, cur, checked,
                   handler, device, mask, pc, soft_reseting>>

\* atomic_dec_and_test(&job->run_count): only the last core to pop commits.
JobNextCounts(t) ==
    /\ cur[t] # NoJob
    /\ com[t] = {}
    /\ LET j == cur[t]
           commit == IF run_count[j] = 1 THEN CommitCores(mask[j]) ELSE {}
       IN  /\ run_count' = [run_count EXCEPT ![j] = @ - 1]
           /\ com' = [com EXCEPT ![t] = commit]
           /\ cur' = [cur EXCEPT ![t] = IF commit = {} THEN NoJob ELSE j]
    /\ at' = [at EXCEPT ![t] = 0]
    /\ UNCHANGED <<subcore, interrupt_count, submit_count, result, alloc, next, checked,
                   handler, device, mask, pc, soft_reseting>>

\* What rknpu_job_subcore_commit() does to core c: the interrupt mask is
\* programmed, pending interrupts are cleared and the engine is started.
StartCore(j, c) ==
    /\ hw' = [hw EXCEPT ![c] = j]
    /\ line' = [line EXCEPT ![c] = "low"]
    /\ int_mask' = [int_mask EXCEPT ![j] = @ \cup {c}]

\* One rknpu_job_subcore_commit() of the thread's commit loop.
CommitCore(t, c) ==
    /\ cur[t] # NoJob
    /\ First(c, com[t])
    /\ IF CommitFails(cur[t])
       THEN ret' = [ret EXCEPT ![cur[t]] = "EINVAL"] /\ UNCHANGED <<hw, line, int_mask>>
       ELSE StartCore(cur[t], c) /\ UNCHANGED ret
    /\ com' = [com EXCEPT ![t] = @ \ {c}]
    /\ cur' = [cur EXCEPT ![t] = IF com[t] = {c} THEN NoJob ELSE @]
    /\ UNCHANGED <<subcore, counts, done, fence, alloc, next, at, checked, handler, ran, mask, pc,
                   soft_reseting>>

-----------------------------------------------------------------------------
(* The hardware *)

\* A core finishes the tasks it was given and raises its interrupt.
HwFinishes(c) ==
    /\ hw[c] # NoJob
    /\ ran' = [ran EXCEPT ![hw[c]][c] = @ + 1]
    /\ hw' = [hw EXCEPT ![c] = NoJob]
    /\ line' = [line EXCEPT ![c] = "good"]
    /\ UNCHANGED <<subcore, counts, result, alloc, dispatch, handler, int_mask, mask, pc,
                   soft_reseting>>

-----------------------------------------------------------------------------
(* rknpu_irq_handler() and rknpu_job_done() *)

\* The locked section on entry: the handler takes the core's job.
IrqEnters(c) ==
    /\ irq[c] = "idle" /\ Outside(c)
    /\ line[c] # "low"
    /\ slot[c] # NoJob
    /\ ijob' = [ijob EXCEPT ![c] = slot[c]]
    /\ irq_entry' = [irq_entry EXCEPT ![slot[c]] = @ \cup {c}]
    /\ irq' = [irq EXCEPT ![c] = "status"]
    /\ UNCHANGED <<subcore, counts, result, alloc, dispatch, device, mask, pc, soft_reseting>>

\* rknpu_fuzz_status(status) equals the mask of the job's last task.
StatusValid(c) == line[c] = "good" /\ c \in int_mask[ijob[c]]

\* rknpu_job_done(): another segment is left on this core; it is committed.
DoneRecommits(c) ==
    /\ irq[c] = "status"
    /\ StatusValid(c)
    /\ submit_count[ijob[c]][c] + 1 < Segments(ijob[c], c)
    /\ submit_count' = [submit_count EXCEPT ![ijob[c]][c] = @ + 1]
    /\ line' = [line EXCEPT ![c] = "low"]
    /\ cur' = [cur EXCEPT ![c] = ijob[c]]
    /\ com' = [com EXCEPT ![c] = {c}]
    /\ irq' = [irq EXCEPT ![c] = "idle"]
    /\ ijob' = [ijob EXCEPT ![c] = NoJob]
    /\ UNCHANGED <<subcore, run_count, interrupt_count, result, alloc, next, at, checked,
                   irq_entry, hw, ran, int_mask, mask, pc, soft_reseting>>

\* rknpu_job_done(): it was the last segment of this core.
DoneLastSegment(c) ==
    /\ irq[c] = "status"
    /\ StatusValid(c)
    /\ submit_count[ijob[c]][c] + 1 >= Segments(ijob[c], c)
    /\ submit_count' = [submit_count EXCEPT ![ijob[c]][c] = @ + 1]
    /\ line' = [line EXCEPT ![c] = "low"]
    /\ irq' = [irq EXCEPT ![c] = "retire"]
    /\ UNCHANGED <<subcore, run_count, interrupt_count, result, alloc, dispatch, irq_entry,
                   ijob, hw, ran, int_mask, mask, pc, soft_reseting>>

\* Mutant: task_num is not given back.
DoneRetiresMutant(c) ==
    /\ irq[c] = "retire"
    /\ slot' = [slot EXCEPT ![c] = NoJob]
    /\ irq' = [irq EXCEPT ![c] = "complete"]
    /\ UNCHANGED <<todo, task_num, counts, result, alloc, dispatch, irq_entry, ijob, device,
                   mask, pc, soft_reseting>>

\* Mutant: after it the handler goes by subcore_data->job, which it has cleared.
DoneRetiresRereadsMutant(c) ==
    /\ irq[c] = "retire"
    /\ slot' = [slot EXCEPT ![c] = NoJob]
    /\ task_num' = [task_num EXCEPT ![c] = @ - TaskNumber(ijob[c], c)]
    /\ ijob' = [ijob EXCEPT ![c] = slot'[c]]
    /\ irq' = [irq EXCEPT ![c] = "complete"]
    /\ UNCHANGED <<todo, counts, result, alloc, dispatch, irq_entry, device, mask, pc,
                   soft_reseting>>

\* The locked section: the core is free again.
DoneRetires(c) ==
    /\ irq[c] = "retire"
    /\ slot' = [slot EXCEPT ![c] = NoJob]
    /\ task_num' = [task_num EXCEPT ![c] = @ - TaskNumber(ijob[c], c)]
    /\ irq' = [irq EXCEPT ![c] = "complete"]
    /\ UNCHANGED <<todo, counts, result, alloc, dispatch, irq_entry, ijob, device, mask, pc,
                   soft_reseting>>

\* Mutant: rknpu_job_next() is called by the last core only.
DoneNotLastCoreMutant(c) ==
    /\ irq[c] = "complete"
    /\ interrupt_count[ijob[c]] # 1
    /\ interrupt_count' = [interrupt_count EXCEPT ![ijob[c]] = @ - 1]
    /\ irq' = [irq EXCEPT ![c] = "idle"]
    /\ ijob' = [ijob EXCEPT ![c] = NoJob]
    /\ UNCHANGED <<subcore, run_count, submit_count, result, alloc, dispatch, irq_entry,
                   device, mask, pc, soft_reseting>>

\* Mutant: every core queues the clean-up of an asynchronous job.
DoneNotLastCoreCleansMutant(c) ==
    /\ irq[c] = "complete"
    /\ interrupt_count[ijob[c]] # 1
    /\ interrupt_count' = [interrupt_count EXCEPT ![ijob[c]] = @ - 1]
    /\ work' = [work EXCEPT ![ijob[c]] = args[ijob[c]].nonblock]
    /\ next' = [next EXCEPT ![c] = {c}]
    /\ irq' = [irq EXCEPT ![c] = "idle"]
    /\ ijob' = [ijob EXCEPT ![c] = NoJob]
    /\ UNCHANGED <<subcore, run_count, submit_count, result, args, mem, cur, at, com, checked,
                   irq_entry, device, mask, pc, soft_reseting>>

\* atomic_dec_and_test(&job->interrupt_count) fails: only rknpu_job_next() is left.
DoneNotLastCore(c) ==
    /\ irq[c] = "complete"
    /\ interrupt_count[ijob[c]] # 1
    /\ interrupt_count' = [interrupt_count EXCEPT ![ijob[c]] = @ - 1]
    /\ next' = [next EXCEPT ![c] = {c}]
    /\ irq' = [irq EXCEPT ![c] = "idle"]
    /\ ijob' = [ijob EXCEPT ![c] = NoJob]
    /\ UNCHANGED <<subcore, run_count, submit_count, result, alloc, cur, at, com, checked,
                   irq_entry, device, mask, pc, soft_reseting>>

\* Mutant: any core completes the job.
DoneLastCoreMutant(c) ==
    /\ irq[c] = "complete"
    /\ interrupt_count' = [interrupt_count EXCEPT ![ijob[c]] = @ - 1]
    /\ done' = [done EXCEPT ![ijob[c]] = TRUE]
    /\ ret' = [ret EXCEPT ![ijob[c]] = "OK"]
    /\ irq' = [irq EXCEPT ![c] = "signal"]
    /\ UNCHANGED <<subcore, run_count, submit_count, fence, alloc, dispatch, irq_entry, ijob,
                   device, mask, pc, soft_reseting>>

\* It succeeds: the job is complete.
DoneLastCore(c) ==
    /\ irq[c] = "complete"
    /\ interrupt_count[ijob[c]] = 1
    /\ interrupt_count' = [interrupt_count EXCEPT ![ijob[c]] = 0]
    /\ done' = [done EXCEPT ![ijob[c]] = TRUE]
    /\ ret' = [ret EXCEPT ![ijob[c]] = "OK"]
    /\ irq' = [irq EXCEPT ![c] = "signal"]
    /\ UNCHANGED <<subcore, run_count, submit_count, fence, alloc, dispatch, irq_entry, ijob,
                   device, mask, pc, soft_reseting>>

\* The out-fence is signalled and the cleanup of an asynchronous job queued.
DoneSignals(c) ==
    /\ irq[c] = "signal"
    /\ fence' = [fence EXCEPT ![ijob[c]] = IF @ = "pending" THEN "signalled" ELSE @]
    /\ work' = [work EXCEPT ![ijob[c]] = @ \/ args[ijob[c]].nonblock]
    /\ irq' = [irq EXCEPT ![c] = "wake"]
    /\ UNCHANGED <<subcore, counts, done, ret, args, mem, dispatch, irq_entry, ijob, device,
                   mask, pc, soft_reseting>>

\* wake_up() of a core's job_done_wq: its sleepers test their condition again.
Woken(p, c) == [j \in Jobs |-> IF p[j] = "asleep" /\ WaitCore(mask[j]) = c THEN "wait" ELSE p[j]]

\* wake_up(), then rknpu_job_next() for this core.
DoneWakes(c) ==
    /\ irq[c] = "wake"
    /\ pc' = Woken(pc, WakeCore(mask[ijob[c]], c))
    /\ next' = [next EXCEPT ![c] = {c}]
    /\ irq' = [irq EXCEPT ![c] = "idle"]
    /\ ijob' = [ijob EXCEPT ![c] = NoJob]
    /\ UNCHANGED <<subcore, counts, result, alloc, cur, at, com, checked, irq_entry, device, mask,
                   soft_reseting>>

-----------------------------------------------------------------------------
(* rknpu_submit() after scheduling: rknpu_job_wait(), clean-up, return *)

\* The rknpu_job_next() calls are over.  A blocking PC job is waited for; any
\* other submission looks at job->ret.
Scheduled(j) ==
    /\ pc[j] = "queued" /\ Outside(j)
    /\ pc' = [pc EXCEPT ![j] = IF ~args[j].nonblock /\ args[j].pc THEN "wait" ELSE "check"]
    /\ UNCHANGED <<subcore, counts, result, alloc, dispatch, handler, device, mask,
                   soft_reseting>>

\* wait_event_timeout() tests its condition and sleeps if it is false.
WaitSleeps(j) ==
    /\ pc[j] = "wait"
    /\ ~done[j] /\ ~soft_reseting
    /\ pc' = [pc EXCEPT ![j] = "asleep"]
    /\ UNCHANGED <<subcore, counts, result, alloc, dispatch, handler, device, mask,
                   soft_reseting>>

\* The condition holds: the job is done, or a reset is in progress.
WaitEnds(j) ==
    /\ pc[j] = "wait"
    /\ done[j] \/ soft_reseting
    /\ pc' = [pc EXCEPT ![j] = "woken"]
    /\ UNCHANGED <<subcore, counts, result, alloc, dispatch, handler, device, mask,
                   soft_reseting>>

\* rknpu_job_wait() returns 0: rknpu_submit() frees the job and returns.
WaitSucceeds(j) ==
    /\ pc[j] = "woken"
    /\ int_mask[j] # {} /\ done[j]
    /\ ret' = [ret EXCEPT ![j] = "OK"]
    /\ mem' = [mem EXCEPT ![j] = "freed"]
    /\ pc' = [pc EXCEPT ![j] = "returned"]
    /\ UNCHANGED <<subcore, counts, done, fence, args, work, dispatch, handler, device, mask,
                   soft_reseting>>

\* rknpu_submit() of a job it does not wait for: job->ret is 0.  A blocking job
\* is freed, an asynchronous one belongs to its completion.
Returns(j) ==
    /\ pc[j] = "check"
    /\ ret[j] = "OK"
    /\ mem' = [mem EXCEPT ![j] = IF args[j].nonblock THEN @ ELSE "freed"]
    /\ pc' = [pc EXCEPT ![j] = "returned"]
    /\ UNCHANGED <<subcore, counts, result, args, work, dispatch, handler, device, mask,
                   soft_reseting>>

\* rknpu_job_cleanup_work() on the system workqueue.
CleanupWork(j) ==
    /\ work[j]
    /\ work' = [work EXCEPT ![j] = FALSE]
    /\ mem' = [mem EXCEPT ![j] = "freed"]
    /\ UNCHANGED <<subcore, counts, result, args, dispatch, handler, device, mask, pc,
                   soft_reseting>>

-----------------------------------------------------------------------------
(* The specification *)

SubmitterStep(j) ==
    \/ CleanNothing(j) \/ PickCore(j) \/ Enqueue(j) \/ Scheduled(j)
    \/ WaitSleeps(j) \/ WaitEnds(j) \/ WaitSucceeds(j) \/ Returns(j)

DispatchStep(t) ==
    \/ \E c \in Cores : JobNextReturns(t, c) \/ JobNextPops(t, c) \/ CommitCore(t, c)
    \/ JobNextCounts(t)

HandlerStep(c) ==
    \/ IrqEnters(c) \/ DoneRecommits(c) \/ DoneLastSegment(c)
    \/ DoneRetires(c) \/ DoneNotLastCore(c) \/ DoneLastCore(c) \/ DoneSignals(c)
    \/ DoneWakes(c)

\* Every call has returned and every job is freed: the device is idle.
AllReturned ==
    /\ \A j \in Jobs : pc[j] = "returned" /\ mem[j] # "live"
    /\ UNCHANGED vars

Next ==
    \/ \E j \in Jobs : SubmitFails(j) \/ Submit(j) \/ SubmitterStep(j) \/ CleanupWork(j)
    \/ \E t \in Threads : DispatchStep(t)
    \/ \E c \in Cores : HwFinishes(c) \/ HandlerStep(c)
    \/ AllReturned

Spec == Init /\ [][Next]_vars

\* The scheduler runs every runnable thread and work item, and the hardware
\* finishes what it is given.  User space need not call the driver.
Fairness ==
    /\ \A j \in Jobs : WF_vars(SubmitterStep(j)) /\ WF_vars(CleanupWork(j))
    /\ \A t \in Threads : WF_vars(DispatchStep(t))
    /\ \A c \in Cores : WF_vars(HwFinishes(c)) /\ WF_vars(HandlerStep(c))

FairSpec == Spec /\ Fairness

-----------------------------------------------------------------------------
(* Properties *)

\* The last two lines are of RknpuRecovery.
PcValues == {"new", "clean", "schedule", "queued", "wait", "asleep", "woken", "check", "returned",
             "expired", "dequeue", "abort", "reset", "locked", "resetting", "reset_end",
             "unlocking", "unlink", "drain", "free"}

IrqValues == {"idle", "status", "retire", "complete", "signal", "wake"}

\* Every variable keeps its type, and a handler has a job exactly while it works.
TypeOK ==
    /\ todo \in [Cores -> Seq(Jobs)]
    /\ slot \in [Cores -> Jobs \cup {NoJob}]
    /\ task_num \in [Cores -> Int]
    /\ args \in [Jobs -> SubmitArgs]
    /\ mask \in [Jobs -> SUBSET Cores]
    /\ run_count \in [Jobs -> Int]
    /\ interrupt_count \in [Jobs -> Int]
    /\ submit_count \in [Jobs -> [Cores -> Nat]]
    /\ int_mask \in [Jobs -> SUBSET Cores]
    /\ irq_entry \in [Jobs -> SUBSET Cores]
    /\ done \in [Jobs -> BOOLEAN]
    /\ ret \in [Jobs -> {"OK", "EINVAL", "ETIMEDOUT"}]
    /\ fence \in [Jobs -> {"none", "pending", "signalled"}]
    /\ mem \in [Jobs -> {"none", "live", "freed"}]
    /\ work \in [Jobs -> BOOLEAN]
    /\ pc \in [Jobs -> PcValues]
    /\ irq \in [Cores -> IrqValues]
    /\ ijob \in [Cores -> Jobs \cup {NoJob}]
    /\ next \in [Threads -> SUBSET Cores]
    /\ cur \in [Threads -> Jobs \cup {NoJob}]
    /\ at \in [Threads -> Cores]
    /\ com \in [Threads -> SUBSET Cores]
    /\ checked \subseteq Threads
    /\ hw \in [Cores -> Jobs \cup {NoJob}]
    /\ line \in [Cores -> {"low", "good", "bad"}]
    /\ ran \in [Jobs -> [Cores -> Nat]]
    /\ soft_reseting \in BOOLEAN
    /\ \A c \in Cores : irq[c] = "idle" <=> ijob[c] = NoJob

InTodo(j, c) == \E i \in 1 .. Len(todo[c]) : todo[c][i] = j

\* The jobs core c has queued or holds, and the tasks of the jobs of S for c, each
\* by its job and its number.
Held(c) == {j \in Jobs : InTodo(j, c) \/ slot[c] = j}
TasksOf(S, c) == UNION {{j} \X (1 .. TaskNumber(j, c)) : j \in S}

\* The load figure rknpu_schedule_core_index() balances by is exact, through every
\* interleaving: it counts the tasks of the jobs a core has queued or holds.
TaskNumExact == \A c \in Cores : task_num[c] = Cardinality(TasksOf(Held(c), c))

\* Core c has executed everything job j has for it.
RanAll(j, c) == ran[j][c] >= 1 /\ ran[j][c] >= Segments(j, c)

\* A core of the hardware only ever executes the job its slot names, and only
\* after every core of the job's mask has popped the job: the two or three
\* rknpu_job_next() calls race, and exactly the last one commits.
GangStarted ==
    \A c \in Cores : hw[c] # NoJob =>
        /\ slot[c] = hw[c]
        /\ \A d \in mask[hw[c]] :
              ~InTodo(hw[c], d) /\ (slot[d] = hw[c] \/ RanAll(hw[c], d))

\* Work conservation: a free core with a queued job has a rknpu_job_next() call
\* under way or to come, so no interleaving of enqueue and retire loses the kick.
NoLostKick ==
    \A c \in Cores : todo[c] # <<>> /\ slot[c] = NoJob =>
        \/ \E t \in Threads : c \in next[t]
        \/ irq[c] \in {"complete", "signal", "wake"}

Precedes(i, j, c) ==
    \/ slot[c] = i /\ InTodo(j, c)
    \/ \E m, n \in 1 .. Len(todo[c]) : m < n /\ todo[c][m] = i /\ todo[c][n] = j

\* Jobs that share cores are in the same order on all of them, whatever the
\* submitters do: otherwise two multi-core jobs could each hold a core the other
\* one waits for.
ConsistentOrder ==
    \A i, j \in Jobs, c, d \in Cores : i # j => ~(Precedes(i, j, c) /\ Precedes(j, i, d))

\* RKNPU_JOB_DONE is set only when every core has executed each segment of the
\* job, and no segment is ever executed twice.
DoneMeansRun ==
    \A j \in Jobs, c \in Cores :
        /\ done[j] /\ c \in mask[j] => RanAll(j, c)
        /\ ran[j][c] <= (IF Segments(j, c) = 0 THEN 1 ELSE Segments(j, c))

\* No list, slot, engine, rknpu_job_next() call or interrupt handler refers to a
\* job that has been freed.  (A handler past RKNPU_JOB_DONE is excluded for a
\* blocking job: see the README.)
ReferencedIsLive ==
    /\ \A c \in Cores, j \in Jobs : InTodo(j, c) \/ slot[c] = j \/ hw[c] = j => mem[j] = "live"
    /\ \A t \in Threads : cur[t] # NoJob => mem[cur[t]] = "live"
    /\ \A c \in Cores :
          \/ irq[c] \in {"status", "retire", "complete"}
          \/ irq[c] = "signal" /\ args[ijob[c]].nonblock
          => mem[ijob[c]] = "live"

\* The three places that free a job: its submitter after the wait, its submitter when
\* it does not wait, and the work item of an asynchronous job.
Frees(j) == WaitSucceeds(j) \/ (Returns(j) /\ ~args[j].nonblock) \/ CleanupWork(j)

\* The submitter, the handlers and the workqueue agree on who frees a job: no job is
\* freed twice, and none before the last core has set RKNPU_JOB_DONE.
FreedOnce == [][\A j \in Jobs : Frees(j) => mem[j] = "live" /\ done[j]]_vars

\* Every submission returns, its job is freed and its out-fence signalled.
EveryJobCompletes ==
    \A j \in Jobs : pc[j] = "queued" ~>
        (pc[j] = "returned" /\ mem[j] = "freed" /\ fence[j] # "pending")

-----------------------------------------------------------------------------
(* What the scheduler promises (GangQueue), and how it keeps it. *)

\* The job in the slot is the first a core has to serve, and a job has started when
\* a core has been programmed for it.
Queue == [c \in Cores |-> IF slot[c] = NoJob THEN todo[c] ELSE <<slot[c]>> \o todo[c]]
Started == {j \in Jobs : int_mask[j] # {}}
Completed == {j \in Jobs : done[j]}
Signalled == {j \in Jobs : fence[j] = "signalled"}

Gangs == INSTANCE GangQueue
         WITH queue <- Queue, started <- Started, completed <- Completed, signalled <- Signalled

\* RknpuJob implements GangQueue: in every interleaving of rknpu_job_schedule(),
\* rknpu_job_next(), the commits and the handlers, jobs start, retire and complete as
\* if all cores of a job were served by one scheduler.
ImplementsGangQueue == Gangs!Spec
=============================================================================

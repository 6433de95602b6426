----------------------------- MODULE RknpuPower -----------------------------
(***************************************************************************)
(* Power of the NPU: the reference count that every ioctl, every freed     *)
(* buffer, the debugfs nodes and system sleep take and drop, the delayed   *)
(* work that switches the NPU off, the regulators, clocks and power        *)
(* domains behind it, and probe, remove, suspend and resume around them    *)
(* (rknpu_drv.c, rknpu_debugger.c).                                        *)
(*                                                                         *)
(* A section under power_lock is one action.  The debugfs power node works *)
(* on the two counters outside the lock, one atomic update per action.     *)
(***************************************************************************)
EXTENDS Integers, FiniteSets

CONSTANTS
    Threads,             \* callers of ioctls, of debugfs nodes, of close()
    Present,             \* the supplies this SoC has
    multiple_domains,    \* more than one power domain in the device tree
    MaxFaults,           \* bound: power transitions that fail
    MaxOn                \* bound: "on" commands in force at the power node

ASSUME PowerAssumption ==
    /\ IsFiniteSet(Threads)
    /\ {"sleep", "cmdline"} \cap Threads = {}
    /\ Present \subseteq {"vdd", "mem", "clk", "npu0", "npu1", "npu2", "dev"}
    /\ {"clk", "dev"} \subseteq Present
    /\ multiple_domains \in BOOLEAN
    /\ ~multiple_domains => {"npu0", "npu1", "npu2"} \cap Present = {}
    /\ MaxFaults \in Nat
    /\ MaxOn \in Nat

VARIABLES
    stage,                   \* how far probe or remove has come
    power_refcount,          \* rknpu_dev->power_refcount
    cmdline_power_refcount,  \* rknpu_dev->cmdline_power_refcount
    power_put_delay,         \* rknpu_dev->power_put_delay, 0 or 1 (positive)
    on,                      \* how often each supply is enabled
    queued,                  \* power_off_work: "no", "yes" or "cancelled"
    worker,                  \* the work function: "idle", "running", "retry"
    pc,                      \* what each thread does
    pm,                      \* system sleep: "awake", "got", "retry", "asleep"
    faults,                  \* power transitions that have failed
    fouls                    \* ghost: what has spoiled the counts, see below

counts == <<power_refcount, cmdline_power_refcount>>
supply == <<on, faults>>
work == <<queued, worker>>
vars == <<stage, counts, power_put_delay, supply, work, pc, pm, fouls>>

Stages == {"absent", "registered", "powered", "delayed", "queue", "ready",
           "unqueued", "nonodes"}

\* Where a thread is: in an ioctl; in rknpu_gem_free_object or a frequency node
\* with the reference it asked for, or (_bad) without it; before the
\* rknpu_power_put_delay() that follows a failed power-off; or in the power node.
Commands == {"on", "off", "off_set", "off_put"}
Places == {"out", "ioctl", "free", "free_bad", "freq", "freq_bad", "retry"} \cup Commands

\* What spoils the counts: a put after a get that failed ("stolen"), two commands
\* of the power node at once, one whose get failed, or "off" after a stolen put has
\* taken what it subtracts ("cmdline"), and users that probe or remove does not
\* expect ("probe", "remove").
Fouls == {"stolen", "cmdline", "probe", "remove"}

TypeOK ==
    /\ stage \in Stages
    /\ power_refcount \in Int
    /\ cmdline_power_refcount \in Nat
    /\ power_put_delay \in {0, 1}
    /\ on \in [Present -> Int]
    /\ queued \in {"no", "yes", "cancelled"}
    /\ worker \in {"idle", "running", "retry"}
    /\ pc \in [Threads -> Places]
    /\ pm \in {"awake", "got", "retry", "asleep"}
    /\ faults \in 0 .. MaxFaults
    /\ fouls \subseteq Fouls

Init ==
    /\ stage = "absent"
    /\ power_refcount = 0
    /\ cmdline_power_refcount = 0
    /\ power_put_delay = 0
    /\ on = [s \in Present |-> 0]
    /\ queued = "no"
    /\ worker = "idle"
    /\ pc = [t \in Threads |-> "out"]
    /\ pm = "awake"
    /\ faults = 0
    /\ fouls = {}

Goto(t, p) == pc' = [pc EXCEPT ![t] = p]
FoulIf(bad, f) == fouls' = IF bad THEN fouls \cup {f} ELSE fouls

-----------------------------------------------------------------------------
(* The supplies *)

\* The order in which rknpu_power_on() enables them.
Rank == [vdd |-> 1, mem |-> 2, clk |-> 3, npu0 |-> 4, npu1 |-> 5, npu2 |-> 6, dev |-> 7]

\* What is enabled when enabling f fails (pm_runtime_get_sync() has counted the
\* device even then).
Enabled(f) == {s \in Present : Rank[s] < Rank[f]} \cup ({f} \cap {"dev"})

\* The local flags that are set when enabling f fails: each is set behind its own
\* step, which is skipped when the SoC does not have the supply.
Flags(f) ==
    {flag \in {"vdd_enabled", "mem_enabled", "clk_enabled", "got_npu0", "got_npu1", "got_npu2"} :
        \/ flag = "vdd_enabled" /\ "vdd" \in Present /\ f # "vdd"
        \/ flag = "mem_enabled" /\ "mem" \in Present /\ f \notin {"vdd", "mem"}
        \/ flag = "clk_enabled" /\ f \in {"npu0", "npu1", "npu2", "dev"}
        \/ /\ multiple_domains
           /\ \/ flag = "got_npu0" /\ "npu0" \in Present /\ f \in {"npu1", "npu2", "dev"}
              \/ flag = "got_npu1" /\ "npu1" \in Present /\ f \in {"npu2", "dev"}
              \/ flag = "got_npu2" /\ "npu2" \in Present /\ f = "dev"}

\* Mutant: the error path forgets the clocks.
UndoneMutant(f) == Enabled(f) \ {"clk"}

\* What the error path gives back: pm_runtime_put_noidle() where the device itself
\* fails, then what the flags name.  (devfreq_lock is taken and released within a
\* step here.)
Undone(f) ==
    {s \in Present :
        \/ s = "dev" /\ f = "dev"
        \/ s = "npu2" /\ "got_npu2" \in Flags(f)
        \/ s = "npu1" /\ "got_npu1" \in Flags(f)
        \/ s = "npu0" /\ "got_npu0" \in Flags(f)
        \/ s = "clk" /\ "clk_enabled" \in Flags(f)
        \/ s = "mem" /\ "mem_enabled" \in Flags(f)
        \/ s = "vdd" /\ "vdd_enabled" \in Flags(f)}

rknpu_power_on(ok) ==
    \/ /\ ok
       /\ on' = [s \in Present |-> on[s] + 1]
       /\ UNCHANGED faults
    \/ /\ ~ok
       /\ faults < MaxFaults
       /\ faults' = faults + 1
       /\ \E f \in Present :
              on' = [s \in Present |-> on[s] + (IF s \in Enabled(f) THEN 1 ELSE 0)
                                             - (IF s \in Undone(f) THEN 1 ELSE 0)]

\* Fails, with the device taken again, when the IOMMU stays enabled too long.
rknpu_power_off(ok) ==
    \/ /\ ok
       /\ on' = [s \in Present |-> on[s] - 1]
       /\ UNCHANGED faults
    \/ /\ ~ok
       /\ multiple_domains
       /\ faults < MaxFaults
       /\ faults' = faults + 1
       /\ UNCHANGED on

-----------------------------------------------------------------------------
(* The reference count, under power_lock *)

DecIfPositive(n) == IF n > 0 THEN n - 1 ELSE n

\* Mutant: a failed power-on stays counted.
rknpu_power_getMutant(ok) ==
    /\ IF power_refcount = 0 THEN rknpu_power_on(ok) ELSE ok /\ UNCHANGED supply
    /\ power_refcount' = power_refcount + 1

rknpu_power_get(ok) ==
    /\ IF power_refcount = 0 THEN rknpu_power_on(ok) ELSE ok /\ UNCHANGED supply
    /\ power_refcount' = IF ok THEN power_refcount + 1 ELSE power_refcount

\* The section of rknpu_power_put() and of the delayed work.
Drop(ok) ==
    /\ IF power_refcount = 1 THEN rknpu_power_off(ok) ELSE ok /\ UNCHANGED supply
    /\ power_refcount' = IF ok THEN DecIfPositive(power_refcount) ELSE power_refcount

HasQueue == stage \in {"queue", "ready"}

queue_delayed_work ==
    /\ queued' = IF HasQueue /\ queued = "no" THEN "yes" ELSE queued
    /\ FoulIf(~HasQueue, IF stage \in {"unqueued", "nonodes"} THEN "remove" ELSE "probe")

\* The last reference is not dropped but handed to the delayed work.
rknpu_power_put_delay(ok) ==
    \/ /\ power_put_delay = 0
       /\ Drop(ok)
       /\ UNCHANGED <<queued, fouls>>
    \/ /\ power_put_delay # 0
       /\ ok
       /\ IF power_refcount = 1
          THEN queue_delayed_work /\ UNCHANGED power_refcount
          ELSE power_refcount' = DecIfPositive(power_refcount) /\ UNCHANGED <<queued, fouls>>
       /\ UNCHANGED supply

-----------------------------------------------------------------------------
(* The delayed work *)

\* The timer fires and the work is no longer pending; the workqueue is freezable.
WorkStarts ==
    /\ queued = "yes"
    /\ worker = "idle"
    /\ pm = "awake"
    /\ queued' = "no"
    /\ worker' = "running"
    /\ UNCHANGED <<stage, counts, power_put_delay, supply, pc, pm, fouls>>

\* Mutant: a failed power-off is not tried again.
rknpu_power_off_delay_workMutant ==
    /\ worker = "running"
    /\ \E ok \in BOOLEAN : Drop(ok)
    /\ worker' = "idle"
    /\ UNCHANGED <<stage, cmdline_power_refcount, power_put_delay, queued, pc, pm, fouls>>

rknpu_power_off_delay_work ==
    /\ worker = "running"
    /\ \E ok \in BOOLEAN :
           /\ Drop(ok)
           /\ worker' = IF ok THEN "idle" ELSE "retry"
    /\ UNCHANGED <<stage, cmdline_power_refcount, power_put_delay, queued, pc, pm, fouls>>

WorkRetries ==
    /\ worker = "retry"
    /\ \E ok \in BOOLEAN :
           /\ rknpu_power_put_delay(ok)
           /\ worker' = IF ok THEN "idle" ELSE "retry"
    /\ UNCHANGED <<stage, cmdline_power_refcount, power_put_delay, pc, pm>>

-----------------------------------------------------------------------------
(* Users of the device *)

\* DRM calls come from when the device is registered until it is removed.
Registered == stage # "absent"
Nodes == stage \in {"ready", "unqueued"}
Starts(t) == pc[t] = "out" /\ pm = "awake"

\* The wrapper of every ioctl: no ioctl without power.
IoctlGets(t) ==
    /\ Starts(t) /\ Registered
    /\ \E ok \in BOOLEAN :
           /\ rknpu_power_get(ok)
           /\ Goto(t, IF ok THEN "ioctl" ELSE "out")
    /\ UNCHANGED <<stage, cmdline_power_refcount, power_put_delay, work, pm, fouls>>

\* rknpu_gem_free_object() ignores what rknpu_power_get() returns.
FreeGets(t) ==
    /\ Starts(t) /\ Registered
    /\ \E ok \in BOOLEAN :
           /\ rknpu_power_get(ok)
           /\ Goto(t, IF ok THEN "free" ELSE "free_bad")
           /\ FoulIf(~ok, "stolen")
    /\ UNCHANGED <<stage, cmdline_power_refcount, power_put_delay, work, pm>>

\* So do rknpu_freq_show() and rknpu_freq_set().
FreqGets(t) ==
    /\ Starts(t) /\ Nodes
    /\ \E ok \in BOOLEAN :
           /\ rknpu_power_get(ok)
           /\ Goto(t, IF ok THEN "freq" ELSE "freq_bad")
           /\ FoulIf(~ok, "stolen")
    /\ UNCHANGED <<stage, cmdline_power_refcount, power_put_delay, work, pm>>

\* The end of an ioctl, of rknpu_gem_free_object(), and the call that follows a
\* failed power-off, which may fail in turn.
PutsDelayed(t) ==
    /\ pc[t] \in {"ioctl", "free", "free_bad", "retry"}
    /\ \E ok \in BOOLEAN :
           /\ rknpu_power_put_delay(ok)
           /\ Goto(t, IF ok THEN "out" ELSE "retry")
    /\ UNCHANGED <<stage, cmdline_power_refcount, power_put_delay, worker, pm>>

\* rknpu_power_put() of the frequency nodes and of the power node's "off".
Puts(t) ==
    /\ pc[t] \in {"freq", "freq_bad", "off_put"}
    /\ \E ok \in BOOLEAN :
           /\ Drop(ok)
           /\ Goto(t, IF ok THEN "out" ELSE "retry")
    /\ UNCHANGED <<stage, cmdline_power_refcount, power_put_delay, work, pm, fouls>>

-----------------------------------------------------------------------------
(* The power node of debugfs, outside power_lock *)

Overlaps(t) == \E u \in Threads \ {t} : pc[u] \in Commands

OnCounts(t) ==
    /\ Starts(t) /\ Nodes
    /\ cmdline_power_refcount < MaxOn
    /\ cmdline_power_refcount' = cmdline_power_refcount + 1
    /\ Goto(t, "on")
    /\ FoulIf(Overlaps(t), "cmdline")
    /\ UNCHANGED <<stage, power_refcount, power_put_delay, supply, work, pm>>

OnGets(t) ==
    /\ pc[t] = "on"
    /\ \E ok \in BOOLEAN : rknpu_power_get(ok) /\ FoulIf(~ok, "cmdline")
    /\ Goto(t, "out")
    /\ UNCHANGED <<stage, cmdline_power_refcount, power_put_delay, work, pm>>

\* Mutant: a plain decrement instead of atomic_dec_if_positive().
OffClaimsMutant(t) ==
    /\ Starts(t) /\ Nodes
    /\ power_refcount > 0
    /\ cmdline_power_refcount' = cmdline_power_refcount - 1
    /\ Goto(t, "off")
    /\ FoulIf(Overlaps(t), "cmdline")
    /\ UNCHANGED <<stage, power_refcount, power_put_delay, supply, work, pm>>

OffClaims(t) ==
    /\ Starts(t) /\ Nodes
    /\ power_refcount > 0
    /\ cmdline_power_refcount > 0
    /\ cmdline_power_refcount' = cmdline_power_refcount - 1
    /\ Goto(t, "off")
    /\ FoulIf(Overlaps(t), "cmdline")
    /\ UNCHANGED <<stage, power_refcount, power_put_delay, supply, work, pm>>

\* Mutant: the count is read before the decrement.
OffSubtractsMutant(t) ==
    /\ pc[t] = "off"
    /\ power_refcount' = power_refcount - (cmdline_power_refcount + 1)
    /\ Goto(t, "off_set")
    /\ UNCHANGED <<stage, cmdline_power_refcount, power_put_delay, supply, work, pm, fouls>>

OffSubtracts(t) ==
    /\ pc[t] = "off"
    /\ power_refcount' = power_refcount - cmdline_power_refcount
    /\ FoulIf("stolen" \in fouls /\ power_refcount' <= 0, "cmdline")
    /\ Goto(t, "off_set")
    /\ UNCHANGED <<stage, cmdline_power_refcount, power_put_delay, supply, work, pm>>

OffClears(t) ==
    /\ pc[t] = "off_set"
    /\ cmdline_power_refcount' = 0
    /\ Goto(t, "off_put")
    /\ UNCHANGED <<stage, power_refcount, power_put_delay, supply, work, pm, fouls>>

\* The delayms node.
rknpu_power_put_delay_set ==
    /\ Nodes /\ pm = "awake"
    /\ power_put_delay' = 1 - power_put_delay
    /\ UNCHANGED <<stage, counts, supply, work, pc, pm, fouls>>

-----------------------------------------------------------------------------
(* Probe *)

\* rknpu_dev is allocated afresh and, last of this step, DRM knows the device.
\* What fails before that leaves nothing behind.
ProbeRegisters ==
    /\ stage = "absent"
    /\ \A t \in Threads : pc[t] = "out"
    /\ worker = "idle"
    /\ stage' = "registered"
    /\ power_refcount' = 0
    /\ cmdline_power_refcount' = 0
    /\ power_put_delay' = 0
    /\ queued' = "no"
    /\ UNCHANGED <<supply, worker, pc, pm, fouls>>

\* An ioctl may already be in, although probe does not count its own use.
Early == power_refcount # 0 \/ queued # "no" \/ worker # "idle"
         \/ \E t \in Threads : pc[t] # "out"

\* rknpu_fence_context_alloc() fails, or rknpu_power_on() does.
ProbeFails ==
    /\ stage = "registered"
    /\ UNCHANGED supply \/ rknpu_power_on(FALSE)
    /\ stage' = "absent"
    /\ FoulIf(Early, "probe")
    /\ UNCHANGED <<counts, power_put_delay, work, pc, pm>>

ProbePowersOn ==
    /\ stage = "registered"
    /\ rknpu_power_on(TRUE)
    /\ stage' = "powered"
    /\ FoulIf(Early, "probe")
    /\ UNCHANGED <<counts, power_put_delay, work, pc, pm>>

ProbeSetsDelay ==
    /\ stage = "powered"
    /\ power_put_delay' = 1
    /\ stage' = "delayed"
    /\ UNCHANGED <<counts, supply, work, pc, pm, fouls>>

ProbeCreatesQueue ==
    /\ stage = "delayed"
    /\ stage' = "queue"
    /\ UNCHANGED <<counts, power_put_delay, supply, work, pc, pm, fouls>>

\* No workqueue, or (err_remove_wq) no memory manager for the SRAM; what the
\* power-off returns is ignored.
ProbeUnwinds ==
    /\ stage \in {"delayed", "queue"}
    /\ worker = "idle"
    /\ \E ok \in BOOLEAN :
           /\ rknpu_power_off(ok)
           /\ FoulIf(Early \/ ~ok, "probe")
    /\ stage' = "absent"
    /\ queued' = "no"
    /\ UNCHANGED <<counts, power_put_delay, worker, pc, pm>>

\* Power off, counts to zero, debugfs nodes.
ProbeEnds ==
    /\ stage = "queue"
    /\ \E ok \in BOOLEAN :
           /\ rknpu_power_off(ok)
           /\ FoulIf(Early \/ ~ok, "probe")
    /\ stage' = "ready"
    /\ power_refcount' = 0
    /\ cmdline_power_refcount' = 0
    /\ UNCHANGED <<power_put_delay, work, pc, pm>>

-----------------------------------------------------------------------------
(* Remove *)

\* cancel_delayed_work_sync() waits for the work function; a work that is
\* cancelled leaves its reference counted.
RemoveCancels ==
    /\ stage = "ready" /\ pm = "awake"
    /\ worker = "idle"
    /\ stage' = "unqueued"
    /\ queued' = IF queued = "yes" THEN "cancelled" ELSE queued
    /\ UNCHANGED <<counts, power_put_delay, supply, worker, pc, pm, fouls>>

\* rknpu_debugger_remove() waits for the calls that are in a node.
RemoveNodes ==
    /\ stage = "unqueued"
    /\ \A t \in Threads : pc[t] \notin Commands \cup {"freq", "freq_bad"}
    /\ stage' = "nonodes"
    /\ UNCHANGED <<counts, power_put_delay, supply, work, pc, pm, fouls>>

\* One power-off, however many references are left.
RemoveEnds ==
    /\ stage = "nonodes"
    /\ \E ok \in BOOLEAN :
           /\ IF power_refcount > 0 THEN rknpu_power_off(ok) ELSE ok /\ UNCHANGED supply
           /\ FoulIf(~ok \/ \E t \in Threads : pc[t] # "out", "remove")
    /\ stage' = "absent"
    /\ UNCHANGED <<counts, power_put_delay, work, pc, pm>>

-----------------------------------------------------------------------------
(* System sleep.  User tasks and the freezable workqueue are frozen first. *)

SuspendGets ==
    /\ stage = "ready" /\ pm = "awake"
    /\ worker = "idle"
    /\ \A t \in Threads : pc[t] = "out"
    /\ \E ok \in BOOLEAN :
           /\ rknpu_power_get(ok)
           /\ pm' = IF ok THEN "got" ELSE "awake"
    /\ UNCHANGED <<stage, cmdline_power_refcount, power_put_delay, work, pc, fouls>>

\* pm_runtime_force_suspend() succeeds, or fails and the reference is put back.
SuspendEnds ==
    /\ pm = "got"
    /\ \/ pm' = "asleep" /\ UNCHANGED <<power_refcount, supply>>
       \/ \E ok \in BOOLEAN : Drop(ok) /\ pm' = IF ok THEN "awake" ELSE "retry"
    /\ UNCHANGED <<stage, cmdline_power_refcount, power_put_delay, work, pc, fouls>>

\* Also the retry after a failed power-off in either callback.
Resume ==
    /\ pm \in {"asleep", "retry"}
    /\ \E ok \in BOOLEAN :
           /\ rknpu_power_put_delay(ok)
           /\ pm' = IF ok THEN "awake" ELSE "retry"
    /\ UNCHANGED <<stage, cmdline_power_refcount, power_put_delay, worker, pc>>

-----------------------------------------------------------------------------

\* What a thread that is inside does next.
Continues(t) ==
    \/ PutsDelayed(t)
    \/ Puts(t)
    \/ OnGets(t)
    \/ OffSubtracts(t)
    \/ OffClears(t)

Enters(t) ==
    \/ IoctlGets(t)
    \/ FreeGets(t)
    \/ FreqGets(t)
    \/ OnCounts(t)
    \/ OffClaims(t)

WorkSteps == WorkStarts \/ rknpu_power_off_delay_work \/ WorkRetries

Probes ==
    \/ ProbeRegisters
    \/ ProbeFails
    \/ ProbePowersOn
    \/ ProbeSetsDelay
    \/ ProbeCreatesQueue
    \/ ProbeUnwinds
    \/ ProbeEnds

Removes == RemoveCancels \/ RemoveNodes \/ RemoveEnds

Next ==
    \/ \E t \in Threads : Enters(t) \/ Continues(t)
    \/ WorkSteps
    \/ rknpu_power_put_delay_set
    \/ Probes
    \/ Removes
    \/ SuspendGets
    \/ SuspendEnds
    \/ Resume

Spec == Init /\ [][Next]_vars

\* Threads inside go on, and so does the work; nobody need ever come in.
FairSpec ==
    /\ Spec
    /\ \A t \in Threads : WF_vars(Continues(t))
    /\ WF_vars(WorkSteps)

-----------------------------------------------------------------------------
(* Properties *)

Holders == {t \in Threads : pc[t] \in {"ioctl", "free", "freq", "retry"}}

In(p) == \E t \in Threads : pc[t] = p

\* The references the power node holds while one command at most is under way.
CmdlineRefs ==
    IF In("off_set") THEN 1
    ELSE cmdline_power_refcount
         + (IF In("off") \/ In("off_put") THEN 1 ELSE 0)
         - (IF In("on") THEN 1 ELSE 0)

WorkRefs == (IF queued # "no" THEN 1 ELSE 0) + (IF worker # "idle" THEN 1 ELSE 0)
SleepRefs == IF pm # "awake" THEN 1 ELSE 0

\* power_refcount is exact: one for every thread inside an ioctl, a free or a
\* frequency node, for the delayed work whether it waits, runs, retries or was
\* cancelled, for system sleep, and for every "on" of the power node - through
\* failed power transitions and their retries, and the power node's unlocked
\* arithmetic (rknpu_drv.c:353-419, rknpu_debugger.c:109-120).
RefcountExact ==
    (fouls = {} /\ stage # "absent") =>
        power_refcount = Cardinality(Holders) + CmdlineRefs + WorkRefs + SleepRefs

ProbeRefs == IF stage \in {"powered", "delayed", "queue"} THEN 1 ELSE 0

\* Every supply is enabled exactly once while power_refcount is positive (and
\* once by probe), and not at all otherwise: no failed power-on leaves a clock or
\* a domain on, no order of puts switches off twice, and a removed driver leaves
\* nothing on.  Even a stolen reference does not break this
\* (rknpu_drv.c:963-1171, 1657-1717).
SuppliesMatch ==
    fouls \subseteq {"stolen"} =>
        \A s \in Present :
            on[s] = ProbeRefs + (IF stage # "absent" /\ power_refcount > 0 THEN 1 ELSE 0)

Idle ==
    /\ stage = "ready" /\ pm = "awake"
    /\ \A t \in Threads : pc[t] = "out"
    /\ cmdline_power_refcount = 0

\* When nobody uses the NPU any more it is switched off for good: the delayed
\* power-off is never lost, whatever failed before
\* (rknpu_drv.c:353-369, 404-419).
IdlePowersOff == <>[]Idle => <>[](fouls # {} \/ \A s \in Present : on[s] = 0)

-----------------------------------------------------------------------------
(* What the component promises (PowerPromise), and how it keeps it. *)

Users ==
    {t \in Threads : pc[t] \in {"ioctl", "free", "freq"}}
        \cup (IF stage # "absent" /\ pm \in {"got", "asleep"} THEN {"sleep"} ELSE {})
        \cup (IF stage # "absent" /\ CmdlineRefs > 0 THEN {"cmdline"} ELSE {})

Promise == INSTANCE PowerPromise
           WITH Clients <- Threads \cup {"sleep", "cmdline"},
                users <- Users,
                powered <- \A s \in Present : on[s] > 0,
                kept <- fouls = {}

\* RknpuPower implements PowerPromise: nobody who was let in ever loses power,
\* in any order of gets, puts, delayed power-offs and failures.
ImplementsPromise == Promise!Spec
=============================================================================

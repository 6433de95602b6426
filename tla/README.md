# A TLA+ model of the RKNPU kernel module

The repository is a Linux driver for the Rockchip NPU (one to three cores). This
directory holds TLA+ modules that model it, the TLC configurations that check
them, and proofs checked by TLAPS. `PROJECT.json` lists components, runs, the
map from definitions to source lines, findings, hazards and theorems.

## The system

| Part | State it keeps | Operations | Interacts with |
|---|---|---|---|
| Job path (`rknpu_job.c`) | per core: `todo_list`, the `job` slot, `task_num`; per job: `run_count`, `interrupt_count`, `submit_count[]`, `int_mask[]`, `irq_entry[]`, `flags`, `ret`, the out-fence | `rknpu_submit`, `rknpu_job_schedule`, `rknpu_job_next`, `rknpu_job_commit`, `rknpu_irq_handler`, `rknpu_job_done` | hardware registers, interrupts, system workqueue, wait queues |
| Job failure (`rknpu_job.c`) | the same | `rknpu_job_wait`, `rknpu_job_abort`, `rknpu_job_timeout_clean` | soft reset, IOMMU reference |
| Soft reset (`rknpu_reset.c`) | `reset_lock`, `soft_reseting` | `rknpu_soft_reset` | every core, all waiting submitters, IOMMU |
| IOMMU domains (`rknpu_iommu.c`) | `iommu_domains[]`, `iommu_domain_id`, `iommu_domain_refcount` | get-and-switch, put, free | job schedule, done and abort; GEM; reset |
| Power (`rknpu_drv.c`) | `power_refcount`, `cmdline_power_refcount`, the delayed work | get, put, put_delay, work, debugfs on/off, on/off with unwinding | every ioctl, probe and remove |
| GEM (`rknpu_gem.c`) | objects, pages, mappings, SRAM and NBUF parts | create, map, destroy, sync, mmap | IOMMU domains, job task objects |
| Fences (`rknpu_fence.c`) | context, sequence number | alloc, fd | job path |
| debugfs, devfreq, timer | statistics, frequency | show/set | power, device |

What is hard: a job of several cores is popped by several racing
`rknpu_job_next()` calls (submitters and interrupt handlers) and retired by
several racing handlers; a wait can expire at any point of this; a reset wakes
everybody and stops the engines in the middle of a job; an asynchronous
submission sweeps jobs of others. Power is counted by every ioctl, by freed
buffers, debugfs and sleep, and switched off later by a work item that inherits
the last reference; switching it on or off can fail half way. A domain switch
waits until nobody uses the current domain, may fail at each attach, and a reset
does the same detach and attach without the lock. A buffer is built from up to six
resources any of which may be missing. What makes each part correct is written
down as the properties below.

## Modules

* `RknpuJob` - the job path with hardware that answers and waits that do not
  expire.
* `GangQueue` - what the scheduler promises to those who submit jobs; `RknpuJob`
  implements it.
* `RknpuRecovery` (extends `RknpuJob`) - expiring waits, hung engines, invalid interrupt
  statuses, failing domain switches, abort, soft reset, the stale-job sweep.
* `RknpuPower` - the power reference count with all its users, the delayed
  power-off, the supplies, probe, remove, suspend and resume.
* `PowerPromise` - what a client of the power component may rely on; `RknpuPower`
  implements it.
* `RknpuIommu` - IOMMU domains: references, switching, freeing, and the reset.
* `RknpuGem` - buffers: resources, references, SRAM, cache synchronisation.
* `MCRknpuJob`, `MCRknpuRecovery`, `MCRknpuPower`, `MCRknpuIommu`, `MCRknpuGem` -
  instances for TLC.
* `RknpuJob_proofs` (types, kicks, queue order), `RknpuGang_proofs` (gang start,
  completion, freeing, the queue of gangs), `RknpuRecovery_proofs`,
  `RknpuUnlink_proofs` (lists, slots and clean-ups under faults),
  `RknpuLoad_proofs` (`task_num`), `RknpuPower_proofs`, `RknpuIommu_proofs`,
  `RknpuGem_proofs` - theorems and their proofs.

### Build configuration

The repository's `Kbuild` selects DRM GEM, debugfs and fences. `CONFIG_NO_GKI` and
`CONFIG_ROCKCHIP_RKNPU_SRAM` are left to whoever builds for a vendor kernel:
without the first, domain switching is a set of stubs and there is no NBUF; without
the second there is no SRAM. `RknpuIommu`, and the cache parts in `RknpuGem`, model
the code as a build with both options compiles it; a build without them is the
special case of one domain, and of requests without a cache part.

### The job path: state and atomicity

Variables carry the names of the C fields. A section under `irq_lock` is one
action; whatever happens between two sections interleaves. The threads are one
submitter per job (`pc[j]`), one interrupt handler per core (`irq[c]`, with its
local `job` pointer `ijob[c]`), and the workqueue. Both kinds of threads call
`rknpu_job_next()`: `next[t]` are the cores a thread still has to call it for,
`cur[t]`/`at[t]` the job it has popped and from where, and `com[t]` the cores it
still has to commit; `checked` are the threads that are past the test of
`soft_reseting`, which `rknpu_job_next()` makes before it takes `irq_lock`. `hw[c]`
is the job the engine of core `c` executes, `line[c]` its interrupt, `ran` a history
variable that counts completed hardware runs.

| C function | Actions |
|---|---|
| `rknpu_submit` | `SubmitFails`, `Submit`, `Scheduled`, `Returns`, `CheckFails` |
| `rknpu_job_schedule` | `PickCore`, `Enqueue`, `ScheduleFails` |
| `rknpu_job_next` | `JobNextChecks` (the test of `soft_reseting`, `Deterred`), `JobNextReturns`, `JobNextPops`, `JobNextCounts` |
| `rknpu_job_commit`, `_subcore_commit(_pc)` | `CommitCore` |
| `rknpu_irq_handler` | `IrqEnters`, `IrqWithoutJob`, `IrqInvalid` |
| `rknpu_job_done` | `DoneRecommits`, `DoneLastSegment`, `DoneRetires`, `DoneNotLastCore`, `DoneLastCore`, `DoneSignals`, `DoneWakes` |
| `rknpu_job_wait` | `WaitSleeps`, `WaitEnds`, `WaitSucceeds`, `WaitExpires`, `WaitNeverCommitted`, `WaitDequeues`, `WaitFails` |
| `rknpu_job_abort` | `AbortClears`, `AbortFrees` |
| `rknpu_job_cleanup_work` | `CleanupWork` |
| `rknpu_soft_reset` | `ResetSkipped`, `ResetBegins` (trylock), `ResetMarks` (sets the flag), `ResetHits`, `ResetErrs`, `ResetEnds` (clears the flag), `ResetUnlocks`; called by `RKNPU_ACT_RESET` or debugfs: `UserResetBegins`, `UserResetMarks`, `UserResetHits`, `UserResetEnds`, `UserResetUnlocks` |
| `rknpu_job_timeout_clean` | `CleanNothing`, `CleanExpired`, `CleanUnlinks`, `CleanDrains`, `CleanNextCore` |
| the NPU core (external) | `HwFinishes`, `HwGlitches` |

### Abstractions

* Time is abstract: a wait may expire, and a job be found expired, at any moment.
  This includes the sweep's comparison of microseconds with milliseconds. The up
  to three rounds of the wait loop are one step: they change nothing that others
  see.
* A task has no contents; all tasks of a job share one interrupt mask, so a status
  is good or bad. Segments (`max_submit_number` tasks each) are counted.
* Starting an engine that is busy replaces what it executes.
* `rknpu_schedule_core_index()` reads all load figures at one moment; the choice
  is still stale when the job is queued.
* `SleepsCover` is the assumption behind the `msleep(100)` of abort and reset:
  no handler or `rknpu_job_next()` call that uses the job is in progress when the
  sleep ends. The code relies on it without saying so; the recovery runs assume
  it, which makes their violations the stronger.
* After the sweep has followed a null pointer the model records it (`oops`) and
  goes on.
* Three reads of a job that may already be freed are left out: a handler that reads
  `job->fence` and `job->flags` of a blocking job after it has set
  `RKNPU_JOB_DONE` (the submitter can see the flag without a wake-up, when its
  wait tests the condition); `job->args->core_mask` of an asynchronous job in the
  loop of `rknpu_job_schedule()` that calls `rknpu_job_next()`
  (`rknpu_job.c:562-565`: the first call may start the job, which completes before
  the loop looks again); and `ret = job->ret` of an asynchronous job after
  `rknpu_job_schedule()`. All are listed as hazards; `ReferencedIsLive` excludes
  the first, and the model keeps the mask and the result in the submitter.
* `rknpu_job_next()` tests `soft_reseting` and then takes `irq_lock`. The two are
  separate steps only while a reset has `reset_lock` and is about to set the flag
  (`JobNextChecks`). At any other time a test that finds the flag clear and a
  locked section later on are equivalent to both happening at the later moment.
* The IOMMU domain reference of a job is tracked in `RknpuIommu`; here the switch
  is a call that succeeds or fails.
* The user may ask for a reset any number of times, one after the other
  (`UserResets`, `asked`).

### Power, probe, remove and sleep (`RknpuPower`)

Variables carry the names of the C fields; `on[s]` is how often supply `s` (the
regulators `vdd` and `mem`, the clocks, the power domains `npu0` to `npu2` and the
device's own runtime-PM count) is enabled. A section under `power_lock` is one
action. `queued` and `worker` are the delayed work, `pc[t]` the threads, `pm`
system sleep and `stage` how far probe or remove has come.

| C function | Actions and operators |
|---|---|
| `rknpu_power_on`, `rknpu_power_off` | the operators of that name; `Rank` and `Enabled` are the order, `Flags` the local variables that record it (`vdd_enabled`, ..., `got_npu2`), `Undone` what the error labels give back by them |
| `rknpu_power_get`, `_put`, `_put_delay` | `rknpu_power_get`, `Drop`, `rknpu_power_put_delay`, used by the actions below |
| `rknpu_power_off_delay_work` | `WorkStarts`, `rknpu_power_off_delay_work`, `WorkRetries` |
| `RKNPU_IOCTL` | `IoctlGets`, `PutsDelayed` |
| `rknpu_gem_free_object` | `FreeGets`, `PutsDelayed` |
| `rknpu_freq_show`, `rknpu_freq_set` | `FreqGets`, `Puts` |
| `rknpu_power_set` (debugfs) | `OnCounts`, `OnGets`, `OffClaims`, `OffSubtracts`, `OffClears`, `Puts` |
| `rknpu_power_put_delay_set` | the action of that name |
| `rknpu_probe` | `ProbeRegisters`, `ProbeFails`, `ProbePowersOn`, `ProbeSetsDelay`, `ProbeCreatesQueue`, `ProbeUnwinds`, `ProbeEnds` |
| `rknpu_remove` | `RemoveCancels`, `RemoveNodes`, `RemoveEnds` |
| `rknpu_suspend`, `rknpu_resume` | `SuspendGets`, `SuspendEnds`, `Resume` |

A power-off that fails makes `rknpu_power_put()` call `rknpu_power_put_delay()`;
the call that follows is a step of its own (`"retry"`). The delay is zero or not.
The ghost `fouls` records what breaks the protocol between callers; each property
says which of them it excuses:

* `"stolen"`: `rknpu_gem_free_object()` and the frequency nodes ignore a failed
  `rknpu_power_get()` and drop a reference that belongs to somebody else.
* `"cmdline"`: two commands of the power node overlap; `off` reads and subtracts
  two counters without the lock. Or its `on` was counted although it failed.
* `"probe"`: the DRM device is registered (`rknpu_drv.c:1507`) before probe has
  created the workqueue and reset the counts (the driver data is there, it is stored
  at 1394): an early ioctl is counted away, or queues on no workqueue.
* `"remove"`: the workqueue is destroyed before the DRM device is unregistered: a
  late put queues on it.

Not modelled: with a delay of zero, a power-off that keeps failing makes
`rknpu_power_put()` and `rknpu_power_put_delay()` call each other without bound;
the model has the retries, not the stack they need.

### IOMMU domains (`RknpuIommu`)

The code is that of a build with `CONFIG_NO_GKI`; without it every function is a
stub. A domain is its index. `domain` and `default_domain` are the fields of the
IOMMU group, `hw` the domain the hardware walks; `op[t]` is what a thread does, for
whom (`job`, `call`, `destroy`, which asks three times, `free`) and for which
domain.

| C function | Actions |
|---|---|
| `rknpu_iommu_domain_get_and_switch` | `GetCurrent`, `GetSwitches`, `GetFails`; `Succeed`, `Fail` are its two ends |
| `rknpu_iommu_switch_domain` | `SwitchDetaches`, `SwitchAllocFails`, `SwitchAttaches`, `SwitchAttachFails`, `SwitchReattaches`, `SwitchCommits` |
| `rknpu_iommu_domain_put`, in `rknpu_job_done`, GEM and the action ioctl | `Puts` |
| the same in `rknpu_job_abort` | `Aborts`, `PutsTwice` |
| `rknpu_job_timeout_clean` | `Swept` |
| `rknpu_iommu_free_domains` | `FreesDomains` |
| `rknpu_soft_reset` | `ResetAsked`, `ResetSkips`, `ResetReads`, `ResetDetaches`, `ResetAttaches` |

The bounded wait of the switch is abstract: a caller that finds the domain in use
may give up. The IOMMU core is external: detaching returns the device to the
group's default domain, attaching needs it there, a failed attach leaves no
translation. What spoils the picture is counted or marked, and the properties hold
until then:

* `unpaired`: abort drops the domain reference of a job that never got it, or of
  one whose interrupt also drops it. `lost`: the sweep never drops it.
* `torn`: an attach that failed for good - the attach of a *new* domain is not
  undone (`rknpu_iommu.c:153-160`), that of a known one is - or a reset that ran
  into a switch, after which the IOMMU core may be on another domain than
  `iommu_domain_id`.

### Buffers (`RknpuGem`)

A buffer is a cache part (SRAM chunks, or NBUF pages in the blocks of its core)
followed by pages of memory; sizes are in pages. `held` are the resources it has,
`refs` its reference count, `over` how many references too many were dropped, `segs`
the segments of its scatter list and `nents` how many the mapping left. A creation is
a few actions, since nobody else knows the buffer before it has a handle.

| C function | Actions and operators |
|---|---|
| `rknpu_gem_object_create` | `CreateStarts`, `SramAllocs`, `Allocs`, `AllocFails` |
| `rknpu_gem_get_pages`, `rknpu_gem_alloc_buf`, `rknpu_gem_alloc_buf_with_cache` | `PagesPath`, `DmaPath`, `CachePath`, with `PagesUnwind`, `DmaUnwind`, `CacheUnwind`; `MapCalls` are the calls of `rknpu_iommu_map_with_cache_sgt`, one for each block, `Acquired` what there is when one fails |
| `rknpu_gem_create_ioctl`, `rknpu_gem_handle_create` | `CreateFinds`, `HandleCreates`, `CreatorPuts`, `Fills` |
| `rknpu_gem_object_destroy`, `rknpu_gem_put_pages`, `_free_buf`, `_free_buf_with_cache` | `Destroy`, `Released`, `PutPages`, `FreeBuf`, `FreeCache` |
| `rknpu_gem_destroy_ioctl` | `DestroyFinds`, `DestroySwitches`, `DestroyDeletes` |
| `rknpu_gem_prime_import_sg_table` | `Imports` |
| `.export = drm_gem_prime_export` | `Exports`, `ExportReopens`, `ExportReleases` |
| `rknpu_gem_mmap_obj` and below | `Mmaps`, `MmapFails` |
| `rknpu_gem_sync_ioctl`, `rknpu_cache_sync`, `rknpu_cache_sync_with_sg` | `SyncCasts` (the address is the user's, unchecked), `Syncs`; `Reached`, `SyncCache`, `SyncBlock`, `SyncSegment` compute the pages |
| DRM (external) | `HandleCloses`, `Munmaps` |

Where the code departs from what its callers would expect, the model has the
departure and a property names it as its exception:

* A contiguous allocation that falls back to a scattered one sets the flag by which
  it is freed (`rknpu_gem.c:225`, `310`): `fellback`, excused by
  `EverythingReleased`. Such a buffer cannot be mapped either.
* A destruction that cannot switch to the buffer's domain in three attempts
  releases nothing (`lost` for its SRAM).
* When a block of the cache part cannot be mapped, the blocks before it stay mapped
  while their IOVA is given back (`rknpu_gem.c:459-462`, `569-571`):
  `"cache_blocks"`, the one leak that `EverythingReleased` allows, and only where
  the cache part comes in several blocks.
* `rknpu_gem_object_find()` returns a pointer without a reference, against its
  comment; the run `gem_find` shows the consequence. The create call reads the
  buffer after giving up its own reference, and `rknpu_gem_sync_ioctl()` takes any
  address the user passes; in the model a pointer without a reference may be to a
  freed buffer, and what is read through it is not followed.
* A mapping that fails drops its reference twice where DRM calls through
  `obj->funcs` (`rknpu_gem.c:1411`, kernels from 6.1 on, `funcs_mmap`). The second
  put takes a reference that is in use (`over`), so the buffer may be freed under
  its handle or a mapping; it is `broken` from then on and not used further.
  `RefsExact` counts these puts. A mapping smaller than the cache part counts its
  pages below zero (`rknpu_gem.c:1159`) and is `broken` as well.
* A synchronisation is not what was asked for when it starts inside the cache part
  (the offset is not used), when it runs past an NBUF part smaller than its blocks,
  when the mapping merged segments (`nents`), and for a cache part without
  `RKNPU_MEM_NON_CONTIGUOUS`: `Served` says so.
* An exported buffer has one dma-buf, with one reference to it; a handle keeps the
  dma-buf, which can outlive the handle and be opened again (what DRM does).
* Destruction gives SRAM back to the allocator before it unmaps it
  (`rknpu_gem.c:881`); the model does both in one step.

## Runs

Passing runs:

| Run | Instance | Properties |
|---|---|---|
| `job_mixed` | 2 cores, 2 jobs: both cores with one and two segments, core 1, the driver's choice; blocking and asynchronous, with and without fence; with fairness | `TypeOK`, `DoneMeansRun`, `ReferencedIsLive`, `TaskNumExact`, `FreedOnce`, `EveryJobCompletes` |
| `job_gang` | 2 cores, 3 jobs for both cores or the less loaded one | `GangStarted`, `NoLostKick`, `ConsistentOrder`, `ImplementsGangQueue` |
| `recovery_one_core` | 1 core, 2 jobs (two segments, asynchronous, or without a task object), every fault, with fairness | `RTypeOK`, `QueuedIsLive`, `StaleSlotHasIrqEntry`, `TaskNumCovers`, `EverySubmitReturns` |
| `recovery_drain` | 1 core, 3 asynchronous jobs of which 2 are in the driver at a time, expiring jobs, resets the user asks for | `QueuedIsLive`, `CleanupIsUnlinked`, `ResetExclusive` |
| `power` | 3 threads, all 7 supplies, several power domains, 2 failing transitions, 2 `on` commands, with fairness | `TypeOK`, `RefcountExact`, `SuppliesMatch`, `IdlePowersOff`, `ImplementsPromise` |
| `iommu` | 2 threads, 2 domains and an invalid one, 2 failing attaches, 1 unpaired reference, with fairness | `TypeOK`, `RefcountExact`, `HoldersAreTranslated`, `Agreement`, `EveryGetReturns` |
| `gem` | 2 threads, 2 buffers, SRAM of 2 chunks, NBUF of 2 blocks, one mapping and one dma-buf | `TypeOK`, `RefsExact`, `EverythingReleased`, `SramConserved`, `SyncExact` |

* `DoneMeansRun`: `RKNPU_JOB_DONE` is set only when every core has executed every
  segment, and no segment is executed twice.
* `ReferencedIsLive`: no list, slot, engine, `rknpu_job_next()` call or handler
  refers to a freed job (but see above).
* `TaskNumExact`: `task_num` is the number of tasks of the jobs a core has queued or
  holds, through all interleavings.
* `FreedOnce`: of the three places that free a job none finds it freed, or not done.
* `ImplementsGangQueue`: `RknpuJob` implements `GangQueue` - every core has one
  queue, a job joins those of its cores at once and at their ends, starts once as
  the first of each, is let go by its cores in order and after its start, completes
  once when all have let it go, and only then signals its fence. The mapping takes
  as queue of a core its slot followed by its list, as start the first core that is
  programmed (`int_mask`), as completion `RKNPU_JOB_DONE`.
* `GangStarted`: hardware runs the job its slot names, after all cores have it.
* `NoLostKick`: a free core with a queued job has a `rknpu_job_next()` call coming.
* `ConsistentOrder`: no two jobs are queued in opposite orders on two cores.
* `EveryJobCompletes`: submissions return, jobs are freed, fences signalled.
* `QueuedIsLive`, `CleanupIsUnlinked`: giving up and sweeping leave no freed job
  on a list, and hand to the clean-up only what is in no slot and on no list.
* `StaleSlotHasIrqEntry`: a slot can name a freed job only by the one exception
  that `rknpu_job_abort()` makes.
* `TaskNumCovers`: failures may leave `task_num` too high, never too low.
* `ResetExclusive`: resets never overlap, whoever asked for them; from where one has
  set `soft_reseting` to where it clears it nobody else does, and no reset that
  succeeds leaves it set. (Between trylock and setting it, and between clearing it
  and unlock, `rknpu_job_next()` is not held off.)
* `EverySubmitReturns`: no ioctl hangs, whatever the hardware does.
* `RefcountExact` (power): `power_refcount` is the number of those who use the NPU,
  the delayed work, sleep and the power node included.
* `SuppliesMatch`: every supply is enabled once while the count is positive and not
  at all otherwise, through half-done transitions (what was enabled against what the
  flags say), probe and remove.
* `IdlePowersOff`: an NPU nobody uses is switched off and stays off.
* `ImplementsPromise`: `RknpuPower` implements `PowerPromise` - a client that was
  let in has power until it leaves. The mapping takes as clients the threads in an
  ioctl, a free or a frequency node, sleep and the power node; as `powered` that
  every supply is on; as `kept` that `fouls` is empty.
* `RefcountExact` (IOMMU): the domain count is its holders, less `unpaired`, plus
  `lost`: no error path of the switch touches it.
* `HoldersAreTranslated`: whoever holds a domain works in the one it asked for.
* `Agreement`: between switches the driver, the IOMMU core and the hardware name
  the same domain, and it has not been freed.
* `EveryGetReturns`: a call for a domain is answered; no error path keeps the lock.
* `RefsExact`: a buffer's reference count is its creator, its handle, its dma-buf and
  its mappings, less the second puts of failed mmaps, and it lives as long as this
  count is positive.
* `EverythingReleased`: every error path and every destruction releases what the
  buffer holds and nothing else, with the exceptions above.
* `SramConserved`: every chunk is free or belongs to one buffer.
* `SyncExact`: a synchronisation reaches the pages from offset to offset + size of
  the device's view and no other; the reference definition is `PageAt`.

Runs that show a disagreement with a comment of the code:

* `recovery_dangling` - an invalid interrupt sets `irq_entry`; the job times out;
  abort spares the slot and frees the job.
* `recovery_second_core` - two blocking jobs for core 1; the queued one times out
  and is searched for on core 0's list (`i < job->use_core_num`).
* `recovery_sweep` - an asynchronous job for core 1 expires; the sweep unlinks it
  through its never initialised list head for core 0.
* `recovery_gang_sweep` - the drain loop cleans up a job that a second core has
  popped already.
* `gem_find` - "with this function call, gem object reference count would be
  increased" (`rknpu_gem.h:121-125`): `rknpu_gem_object_find()` drops the reference
  again, another thread closes the handle, and the buffer that was found is gone
  while the caller works with it (`FoundIsLive`).

### Bounds

The bounds are `num_irqs`, `max_submit_number` and the set `Jobs` in each `.cfg`,
and the submissions of the MC modules. Two jobs suffice for every pairwise race
(queue against retire, time-out against interrupt, reset against reset), three
for a job that holds a core, one behind it and one that sweeps or completes;
two cores for the gang races. No run has three cores: masks of two and of three
cores differ in which entry of the task table a core uses, which `Args` covers by
giving every core its own number of tasks; the theorems are for any number of cores.
`recovery_drain` follows states in which at most two of the three submissions are in
the driver (`CONSTRAINT TwoThreads`), which with the user's reset is three threads.
`max_submit_number = 2` with three tasks gives a full and a
partial segment. Jobs are symmetric; cores are not (loops run upwards, core 0 has
the wait queue of multi-core jobs). `CHECK_DEADLOCK FALSE` is set for the recovery
runs (asynchronous jobs queued behind an aborted one, or left by a failed reset,
stay where they are until the next submission), for `iommu` (a job whose unpaired
put would exceed `MaxSpoiled` stops) and for `gem` (an identity is used once).

`power`: three threads give two users and one that comes or goes between them;
two failures make a failed retry. States with a foul other than `"stolen"` are not
followed (`CONSTRAINT Unspoiled`): fouls are never taken back and every property
excuses them. `iommu`: a holder and a switcher, or a switcher and a reset, are two
threads; two failed attaches are a switch whose reattach fails too. `gem`: creation
against destruction of another's buffer, two creations for one SRAM; the buffers
are plain, scattered, with SRAM (one limited by the user) and with NBUF in one and
in two blocks, in one or two segments. At most one buffer at a time is mapped or
exported (`OneShared`) and once (`MaxVmas`): the references of two buffers do not
meet. What follows a leak, or a synchronisation that names no buffer in use, is not
explored (`Worthwhile`). `ULong` stands for 2^64. The failing branch
of a reset the user asks for is not explored (`ResetFails` is off in
`recovery_drain`), that of a submitter's is; and `EverySubmitReturns` is checked
without a user's reset.

### Fairness

`Fairness` gives weak fairness to each submitter, each `rknpu_job_next()` call,
each handler, the clean-up work and the hardware: the scheduler runs runnable
threads, interrupts are delivered, a healthy engine finishes. User space need not
submit. `RFairness` drops the hardware and adds the timers; the steps that follow
an `msleep(100)` get strong fairness, since the sleep ends although interrupts
that use the job may keep coming.

In `RknpuPower` threads that are inside go on and the workqueue runs; nobody need
come in, sleep or remove the driver. In `RknpuIommu` every caller goes on once it
has or waits for nothing; the polling loop of a get gets strong fairness, because
it looks again every 10 to 100 us and a mutex is handed to a long-waiting caller.
`RknpuGem` has no liveness property.

## Proofs

Every theorem is for all values of the constants that the named assumption of its
module allows: any number of cores, jobs, threads, domains, buffers, failures. The
assumptions say what the constants are (that cores, jobs and `NoJob` are different
things, that there is a core, that a set is finite, that the power node and system
sleep are not threads) and restrict no behaviour; TLC evaluates them in the runs.
Each invariant is proved inductive with one lemma per action or kind of action.

**Queues** (`RknpuJob_proofs`), from `ConstantsAssumption`:

* `TypeCorrect`: `Spec => []TypeOK`. `TypeOK` is inductive; it includes that a
  handler has a job pointer exactly while it works on one, without which the
  counters would be indexed by a null pointer.
* `KickIsNeverLost`: `Spec => []NoLostKick`. The strengthening `KickInv` says that
  no reset is under way, that a submitter outside `rknpu_job_schedule()` has no
  call of `rknpu_job_next()` left (so that queuing a job overwrites none), and
  that a handler calls it for its own core only. The two steps that matter are
  `Enqueue`, which promises a call for each core whose list it extends, and
  `DoneRetires`, which frees a slot while the handler still has its own call
  ahead.
* `OrderIsConsistent`: `Spec => []ConsistentOrder`. The strengthening `OrderInv`
  says that a job that has not been queued is on no list and in no slot, so that
  `list_add_tail()` puts it behind everything on all its cores at once; popping a
  head and retiring a job create no new precedence.

**Gangs and the life of a job** (`RknpuGang_proofs`, extends the former). None of
its properties is inductive, because they depend on two atomic counters whose
meaning no variable states. The invariant `IInv` gives it: `run_count` is the number
of `Uncounted` cores (still queued, or popped and not yet counted down), and
`interrupt_count` the number of `Unretired` ones (still queued, in a slot, or in a
handler before its decrement) - `CountInv`. This needs that a job is at most once on
each list and never in a list and the slot of one core (`ListInv`), that at most one
thread has popped or commits a core (`ThreadInv`), that a core is being committed,
executing, interrupting or being retired, one at a time and for the job in its slot
(`CoreInv`), and that `submit_count` is `ran` less the interrupt not yet handled
(`RunInv`).

* `GangsStartTogether`: `Spec => []GangStarted`. Of the racing `rknpu_job_next()`
  calls only the one that brings `run_count` to zero commits, so whatever is
  committed is in the slots of all its cores (`GangInv`).
* `DoneJobsHaveRun`: `Spec => []DoneMeansRun`. `interrupt_count` is zero only when
  no core is `Unretired`, and a core is retired with `submit_count` at its end.
* `NoUseAfterFree`: `Spec => []ReferencedIsLive`, when every submission is
  asynchronous or has `RKNPU_JOB_PC`. `FreeInv`: a job is freed by its submitter or
  by the one work item its last handler queues, after `RKNPU_JOB_DONE`, and then no
  core is `Unretired`. The hypothesis is needed: a blocking submission without
  `RKNPU_JOB_PC` is not waited for (`rknpu_job.c:868`, a listed hazard).
* `JobsAreFreedOnce`: `Spec => FreedOnce`, an action property under the same
  hypothesis. `OwnedInv` adds who is still to free a job: the queued work item of an
  asynchronous one, the submitter of a blocking one up to its return; the job is
  live as long as either exists, and never do both.
* `GangQueueImplemented`: `Spec => ImplementsGangQueue`, the refinement, without
  hypotheses. Popping is a stutter (the job only moves from the list to the slot in
  front of it), the first commit of a job is the abstract start - the gang
  invariant says that all its cores then hold it - and further commits, recommits
  and pops change nothing abstract. `FenceInv` says that only done
  jobs have signalled their fence.

**The load of a core** (`RknpuLoad_proofs`). `task_num` is compared with a sum over a
set of jobs. A sum is recursive and out of the prover's reach; the number of tasks is
not: `TasksOf` is the set of the tasks themselves, as pairs of a job and a number,
and the sum is its cardinality.

* `LoadIsExact`: `Spec => []TaskNumExact`. A job joins a core it is not on, a pop
  moves it within the core, and the handler that retires it has it in its slot
  (`CoreInv`), so that each step adds or removes exactly the tasks of one job.
* `LoadIsNeverTooLow`: `RSpec => []TaskNumCovers`, for all masks, submissions and
  faults. The sweep and the time-out of a queued job remove jobs and give nothing
  back; a handler that has taken a job gives its tasks back even if the job has left
  the slot meanwhile. `CoverInv` therefore counts the job a handler is about to
  retire with those the core holds (`Owed`). That abort and handler do not both give
  back is `PlaceInv`: whatever a handler has taken is in `irq_entry`, and abort
  leaves those slots alone.

**Failures** (`RknpuRecovery_proofs`), with every fault of the model in any number:

* `RTypeCorrect`: `RSpec => []RTypeOK`, and `ResetsExclude`: `RSpec =>
  []ResetExclusive`. `ResetInv` says that whoever is between trylock and unlock is
  the owner of `reset_lock`, and that the flag is set from where the owner has set it
  to where it clears it, and otherwise only after a failed line. They go together
  with `SweepInv`: an asynchronous submission
  never waits and never times out, so it comes to a reset only through the sweep,
  with the expired job and its core in hand; without that the sweep's pointers have
  no type.
* `OrderSurvivesRecovery`: `RSpec => []ConsistentOrder`. Time-outs, aborts and the
  sweep only remove entries, on some cores and not on others, and what remains
  keeps its order (`Without`).

**Lists, slots and clean-ups under faults** (`RknpuUnlink_proofs`). Of the gang
invariant nothing survives a time-out: counters are wrong, jobs leave some of their
cores, handlers work on jobs that are gone. `UInv` is what remains for all masks and
faults: no list has a job twice, a core queues, holds or handles only jobs of its own
and each in one place, and nobody has seen a job that is not yet queued. On it rest

* `CleanedJobsAreUnlinked`: `RSpec => []CleanupIsUnlinked`, if no job uses two cores
  (`NoGangs`). The drain loop takes a job from a list; with a second core it could
  be in that core's slot, which is what `recovery_gang_sweep` shows.
* `QueuedJobsAreLive`: `RSpec => []QueuedIsLive`, if blocking submissions set
  `RKNPU_JOB_PC` (`BlockingIsWaitedFor`) and the first `use_core_num` cores are the
  cores of the mask (`DequeueCoversMask`). Both hypotheses are about the code: the
  first is the hazard at `rknpu_job.c:868`, the second what the loop at
  `rknpu_job.c:233` takes for granted and `recovery_second_core` refutes. `LInv`
  follows a job that is still queued: it is not committed, not done, and its
  submitter has not passed the dequeue. That it is not committed rests on
  `CountedInv`: `run_count` is at least the number of cores that have still to count
  down, no longer equal to it, since the sweep takes jobs from lists and counts
  nothing.
* `StaleSlotsWereHandled`: `RSpec => []StaleSlotHasIrqEntry` under the three
  hypotheses: a job that is freed has left its slot, or its core is in `irq_entry`.
* `OneCoreDeviceIsSafe`: for `num_irqs = 1` the hypotheses on masks hold for every
  submission, and the three properties with them.

None of them assumes that a sleep outlasts anybody (`SleepsCover` may be false).

**Power** (`RknpuPower_proofs`), from `PowerAssumption`:

* `TypeCorrect`, `CountIsExact` (`[]RefcountExact`) and `SuppliesFollowCount`
  (`[]SuppliesMatch`) from one invariant. `StageInv` ties the delayed work, sleep
  and the debugfs nodes to how far probe or remove has come; `CallerInv` says what
  holds until a foul: nobody is left in a removed driver, the power node runs one
  command at a time, nobody puts what it did not get. That the supplies follow the
  count is proved once for `rknpu_power_on()`, `rknpu_power_off()`, get and put,
  over every point at which they can fail, and then used by all actions. The lemma
  `UnwindingExact` shows that the labels, going by the flags, give back what was
  enabled, wherever `rknpu_power_on()` fails.
* `KeepsPromise`: `Spec => ImplementsPromise`, the refinement. A step changes at
  most one client; whoever is a client after it is counted (`RefcountExact`), so the
  count is positive and every supply is on (`SuppliesMatch`).

**IOMMU domains** (`RknpuIommu_proofs`):

* `TypeCorrect`, `CountIsExact` (`[]RefcountExact`), `HoldersTranslate`
  (`[]HoldersAreTranslated`), `DomainsAgree` (`[]Agreement`). `LockInv` says who has
  which lock, `UseInv` that while puts pair up nobody holds a domain during a switch
  (the switch starts at a count of zero, and the count is exact) and that the
  current domain is allocated and every holder's. `AgreeInv` says that until
  something is torn switch and reset exclude each other - which no lock ensures, so
  this is where `torn` is needed - and what each step between detach and commit has
  moved already.

**Buffers** (`RknpuGem_proofs`), from `GemAssumption`:

* `TypeCorrect`, `RefsAreExact` (`[]RefsExact`), `ResourcesBalance`
  (`[]EverythingReleased`), `SramIsConserved` (`[]SramConserved`) from the invariant
  `GInv`. `BufferInv` says of each buffer that it has at most one creator, that
  `refs` and `over` together count creator, handle, dma-buf and mappings (`Uses`),
  and that it holds exactly what `Released` will give back once its path is complete
  (`Made`); `StageInv` what a creator may rely on at each step: that nobody else can
  reach a buffer before it has a handle. `PutKeeps` is the one lemma about dropping
  a reference, used for creator, handle, dma-buf, mapping and the second put of a
  failed mmap; a buffer that is destroyed with `over > 0` is `broken`, which is the
  only exemption `RefsExact` needs.
* The lemma `UnwindComplete` goes through every acquisition of the three paths and
  shows that its error label releases what was acquired before, `OnlyBlocksStay`
  that with the calls for single blocks counted only blocks remain, and only if
  there are several; `PathComplete` shows that the releasing function is chosen to
  match the path.

What stays with TLC:

* Liveness (`EveryJobCompletes`, `EverySubmitReturns`, `IdlePowersOff`,
  `EveryGetReturns`): fairness and `ENABLED` are out of the prover's reach.
* `SyncExact`: the loops over blocks and segments are folds over sequences, and what
  a fold computes for every sequence would need induction over data.

## Plan

Done: the job path and its failures, soft reset, power with probe, remove and
sleep, IOMMU domains, buffers; every safety property of the runs but `SyncExact` as a
theorem, and both refinements. Open:

1. What of `GangQueue` survives recovery: an abstract queue from which jobs may also
   be withdrawn.
2. Action properties for buffers and domains like `FreedOnce` for jobs.

## Not modelled

* devfreq: the driver's part is a table and a target callback; what it does is in
  the clock and regulator frameworks.
* The busy-time timer and the load node: statistics that nothing depends on.
* Register getters and setters of the action ioctl, hardware version, bandwidth
  and priority counters: one register access under a lock each.
* Fence contexts and sequence numbers: handed to the DMA-fence framework.
* `rknpu_iommu_dma_alloc_iova()` and its counterpart are declared
  (`rknpu_iommu.h:45`) and called, and defined nowhere in the repository; `RknpuGem`
  has the IOVA as a resource whose acquisition may fail.
* `rknpu_mm.c`, the SRAM allocator, is not part of the repository; `RknpuGem` has
  it as a set of chunks.
* `RKNPU_MEM_*` attributes that only choose page protection or allocation flags,
  and the DMA-heap variant of the memory calls: the build does not select it and
  its `rknpu_mem.c` is not part of the repository.
* The vendor stubs under `include/compat`.

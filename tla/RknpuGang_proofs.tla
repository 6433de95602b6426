-------------------------- MODULE RknpuGang_proofs --------------------------
(***************************************************************************)
(* Theorems about RknpuJob, for any number of cores and jobs: a gang is    *)
(* started when its last core has popped it, a job that is done has run    *)
(* everywhere, and what is referred to is not freed.                       *)
(***************************************************************************)
EXTENDS RknpuJob_proofs

-----------------------------------------------------------------------------
(* The invariant *)

\* rknpu_job_schedule() has queued the job.
Enqueued(j) == mem[j] # "none" /\ pc[j] \notin {"new", "clean", "schedule"}

\* The hardware runs of a job on a core: at least one.
Runs(j, c) == IF Segments(j, c) = 0 THEN 1 ELSE Segments(j, c)

\* A thread has popped j from the list of c and not yet decremented run_count.
Popped(j, c) == \E t \in Threads : cur[t] = j /\ com[t] = {} /\ at[t] = c

\* The cores that run_count still counts, and those that interrupt_count does.
Uncounted(j) ==
    IF Enqueued(j) THEN {c \in mask[j] : InTodo(j, c) \/ Popped(j, c)} ELSE mask[j]

Unretired(j) ==
    IF Enqueued(j)
    THEN {c \in mask[j] : \/ InTodo(j, c) \/ slot[c] = j
                          \/ irq[c] = "complete" /\ ijob[c] = j}
    ELSE mask[j]

\* A job is on a list or in a slot only of a core of its mask and once it is
\* queued, and at most once per core.
ListInv ==
    /\ \A j \in Jobs : pc[j] = "new" => mem[j] = "none"
    /\ \A j \in Jobs : pc[j] \notin {"new", "returned"} => mem[j] # "none"
    /\ \A j \in Jobs, c \in Cores : InTodo(j, c) => Enqueued(j) /\ c \in mask[j] /\ slot[c] # j
    /\ \A c \in Cores : slot[c] # NoJob => Enqueued(slot[c]) /\ c \in mask[slot[c]]
    /\ \A c \in Cores : \A m, n \in 1 .. Len(todo[c]) : todo[c][m] = todo[c][n] => m = n

\* A thread that pops or commits does so for the job in the slot, alone.
ThreadInv ==
    /\ \A t \in Threads : com[t] # {} => cur[t] # NoJob
    /\ \A c \in Cores : irq[c] # "idle" => Outside(c)
    /\ \A t \in Threads : cur[t] # NoJob /\ com[t] = {} => slot[at[t]] = cur[t]
    /\ \A t, u \in Threads :
          cur[t] # NoJob /\ com[t] = {} /\ cur[u] # NoJob /\ com[u] = {} /\ at[t] = at[u] => t = u
    /\ \A t, u \in Threads, c \in Cores : c \in com[t] /\ c \in com[u] => t = u

\* A core is being committed, runs, has its interrupt pending, or is retired: one
\* at a time, and for the job in its slot.
CoreInv ==
    \A c \in Cores :
        /\ \A t \in Threads : c \in com[t] =>
              slot[c] = cur[t] /\ hw[c] = NoJob /\ line[c] = "low" /\ irq[c] # "retire"
        /\ hw[c] # NoJob =>
              slot[c] = hw[c] /\ c \in int_mask[hw[c]] /\ line[c] = "low" /\ irq[c] # "retire"
        /\ line[c] # "low" =>
              /\ line[c] = "good" /\ irq[c] # "retire"
              /\ slot[c] # NoJob /\ c \in int_mask[slot[c]]
        /\ irq[c] = "status" => line[c] = "good" /\ ijob[c] = slot[c]
        /\ irq[c] = "retire" => ijob[c] = slot[c] /\ c \in int_mask[slot[c]]
        /\ irq[c] \in {"complete", "signal", "wake"} =>
              /\ Enqueued(ijob[c]) /\ c \in mask[ijob[c]]
              /\ slot[c] # ijob[c] /\ ~InTodo(ijob[c], c)

\* The hardware runs of a job are what submit_count says, plus the one whose
\* interrupt is not yet handled; and no core of a job starts before all have it.
RunInv ==
    \A j \in Jobs, c \in Cores :
        /\ c \notin int_mask[j] => ran[j][c] = 0 /\ submit_count[j][c] = 0
        /\ c \in int_mask[j] => Enqueued(j) /\ Uncounted(j) = {}
        /\ ran[j][c] <= Runs(j, c)
        /\ slot[c] = j /\ (hw[c] = j \/ \E t \in Threads : c \in com[t]) =>
              ran[j][c] = submit_count[j][c] /\ submit_count[j][c] < Runs(j, c)
        /\ slot[c] = j /\ line[c] # "low" =>
              ran[j][c] = submit_count[j][c] + 1 /\ submit_count[j][c] < Runs(j, c)
        /\ slot[c] = j /\ irq[c] = "retire" =>
              ran[j][c] = Runs(j, c) /\ submit_count[j][c] = Runs(j, c)
        /\ Enqueued(j) /\ c \in mask[j] /\ ~InTodo(j, c) /\ slot[c] # j =>
              ran[j][c] = Runs(j, c) /\ submit_count[j][c] = Runs(j, c)

\* Only a job that every core of its mask has popped is committed.
GangInv ==
    \A t \in Threads : com[t] # {} => Uncounted(cur[t]) = {}

\* The atomic counters, and what they protect.
CountInv ==
    /\ \A j \in Jobs : mem[j] # "none" =>
          /\ run_count[j] = Cardinality(Uncounted(j))
          /\ interrupt_count[j] = Cardinality(Unretired(j))
    /\ \A j \in Jobs : done[j] => Enqueued(j) /\ Unretired(j) = {}
    /\ \A c \in Cores : irq[c] \in {"signal", "wake"} => done[ijob[c]]
    /\ \A j \in Jobs : work[j] => done[j]

\* Who frees a job, when every submission is asynchronous or waited for.
FreeInv ==
    /\ \A j \in Jobs : args[j].nonblock \/ args[j].pc
    /\ \A j \in Jobs : pc[j] \in {"wait", "asleep", "woken"} => ~args[j].nonblock
    /\ \A j \in Jobs : pc[j] = "check" => args[j].nonblock
    /\ \A c, d \in Cores : irq[c] = "signal" /\ irq[d] = "signal" /\ ijob[c] = ijob[d] => c = d
    /\ \A j \in Jobs : work[j] => args[j].nonblock
    /\ \A j \in Jobs : mem[j] = "freed" => done[j]
    /\ \A j \in Jobs, c \in Cores :
          irq[c] = "signal" /\ ijob[c] = j => ~work[j] /\ (args[j].nonblock => mem[j] = "live")

\* A submitter that has its job and has not looked at the outcome.
Unreturned == {"clean", "schedule", "queued", "wait", "asleep", "woken"}

\* A job that is still to be freed, by the work item or by a submitter that waits.
OwnedInv ==
    /\ \A j \in Jobs : work[j] => mem[j] = "live"
    /\ \A j \in Jobs :
          ~args[j].nonblock /\ pc[j] \in Unreturned => mem[j] = "live"

IInv == TypeOK /\ ListInv /\ ThreadInv /\ CoreInv /\ RunInv /\ GangInv /\ CountInv

-----------------------------------------------------------------------------
(* Numbers, sets of cores, and steps that touch none of them *)

\* A core has at least one hardware run per job, and as many as it has segments.
LEMMA RunsProperties ==
  ASSUME TypeOK, NEW j \in Jobs, NEW c \in Cores
  PROVE  /\ Segments(j, c) \in Nat /\ Runs(j, c) \in Nat
         /\ Runs(j, c) >= 1 /\ Runs(j, c) >= Segments(j, c)
         /\ Segments(j, c) # 0 => Runs(j, c) = Segments(j, c)
<1>1. TaskNumber(j, c) \in Nat /\ max_submit_number \in Nat \ {0}
  BY ConstantsAssumption DEF TypeOK, TaskNumber, SubmitArgs
<1>2. Segments(j, c) \in Nat
  BY <1>1 DEF Segments
<1>3. QED
  BY <1>2 DEF Runs

\* Masks, and so what is left to count or to retire, are finite.
LEMMA CoreSets ==
  ASSUME TypeOK, NEW j \in Jobs
  PROVE  /\ IsFiniteSet(Uncounted(j)) /\ Uncounted(j) \subseteq mask[j]
         /\ IsFiniteSet(Unretired(j)) /\ Unretired(j) \subseteq mask[j]
         /\ mask[j] \subseteq Cores
<1>1. mask[j] \subseteq Cores
  BY DEF TypeOK
<1>2. IsFiniteSet(Cores)
  BY ConstantsAssumption, FS_Interval DEF Cores
<1>3. Uncounted(j) \subseteq mask[j] /\ Unretired(j) \subseteq mask[j]
  BY DEF Uncounted, Unretired
<1>4. QED
  BY <1>1, <1>2, <1>3, FS_Subset

\* A finite set of cores with c loses one when c leaves; it has one element only
\* if it is {c}, and none if it is empty.
LEMMA LosesOne ==
  ASSUME NEW S, IsFiniteSet(S), NEW c \in S
  PROVE  /\ Cardinality(S) \in Nat /\ Cardinality(S) >= 1
         /\ Cardinality(S \ {c}) = Cardinality(S) - 1
         /\ Cardinality(S) = 1 => S = {c}
<1>1. Cardinality(S) \in Nat /\ Cardinality(S \ {c}) = Cardinality(S) - 1
      /\ IsFiniteSet(S \ {c}) /\ Cardinality(S \ {c}) \in Nat
  BY FS_RemoveElement, FS_CardinalityType
<1>2. Cardinality(S) = 1 => S \ {c} = {}
  BY <1>1, FS_EmptySet
<1>3. QED
  BY <1>1, <1>2

\* list_add_tail().
LEMMA AppendProperties ==
  ASSUME NEW s \in Seq(Jobs), NEW j \in Jobs, NEW u, u = Append(s, j)
  PROVE  /\ Len(s) \in Nat /\ Len(u) = Len(s) + 1
         /\ \A i \in 1 .. Len(s) : u[i] = s[i]
         /\ u[Len(s) + 1] = j
  OBVIOUS

\* What a step does not change: lists, slots, threads that pop and commit.
LEMMA UncountedSame ==
  ASSUME UNCHANGED mask,
         \A k \in Jobs : Enqueued(k)' <=> Enqueued(k),
         \A k \in Jobs, c \in Cores : InTodo(k, c)' <=> InTodo(k, c),
         \A k \in Jobs, c \in Cores : Popped(k, c)' <=> Popped(k, c),
         TypeOK
  PROVE  \A k \in Jobs : Uncounted(k)' = Uncounted(k)
<1> TAKE k \in Jobs
<1>1. mask[k] \subseteq Cores
  BY DEF TypeOK
<1>2. QED
  BY <1>1 DEF Uncounted

\* The same for what is left to retire.
LEMMA UnretiredSame ==
  ASSUME UNCHANGED <<mask, slot>>,
         \A k \in Jobs : Enqueued(k)' <=> Enqueued(k),
         \A k \in Jobs, c \in Cores : InTodo(k, c)' <=> InTodo(k, c),
         \A k \in Jobs, c \in Cores :
            (irq'[c] = "complete" /\ ijob'[c] = k) <=> (irq[c] = "complete" /\ ijob[c] = k),
         TypeOK
  PROVE  \A k \in Jobs : Unretired(k)' = Unretired(k)
<1> TAKE k \in Jobs
<1>1. mask[k] \subseteq Cores
  BY DEF TypeOK
<1>2. QED
  BY <1>1 DEF Unretired

\* The same for one job.
LEMMA UnretiredOf ==
  ASSUME NEW k \in Jobs, mask'[k] = mask[k], mask[k] \subseteq Cores,
         Enqueued(k)' <=> Enqueued(k),
         \A d \in Cores : (InTodo(k, d)' <=> InTodo(k, d)) /\ slot'[d] = slot[d],
         \A d \in Cores :
            (irq'[d] = "complete" /\ ijob'[d] = k) <=> (irq[d] = "complete" /\ ijob[d] = k)
  PROVE  Unretired(k)' = Unretired(k)
  BY DEF Unretired

\* What the operators below depend on.
LEMMA SameOps ==
  ASSUME NEW k \in Jobs, NEW c \in Cores
  PROVE  /\ UNCHANGED todo => (InTodo(k, c)' <=> InTodo(k, c))
         /\ UNCHANGED <<cur, com, at>> => (Popped(k, c)' <=> Popped(k, c))
         /\ UNCHANGED args => Runs(k, c)' = Runs(k, c) /\ Segments(k, c)' = Segments(k, c)
  BY DEF InTodo, Popped, Runs, Segments, TaskNumber

\* ListInv speaks of nothing else.
LEMMA ListSame ==
  ASSUME ListInv, UNCHANGED <<todo, slot, mask, mem, pc>>
  PROVE  ListInv'
  BY DEF ListInv, Enqueued, InTodo

core == <<todo, slot, mask, args, cur, com, at, irq, ijob, hw, line, int_mask, ran>>

\* A step of a submitter, or a rknpu_job_next() call that finds nothing to start.
LEMMA GangFrame ==
  ASSUME IInv, TypeOK', UNCHANGED <<core, submit_count, run_count, interrupt_count, done>>,
         \A k \in Jobs :
            /\ mem'[k] = "none" <=> mem[k] = "none"
            /\ Enqueued(k)' <=> Enqueued(k)
            /\ pc'[k] = "new" => pc[k] = "new"
            /\ mem[k] = "none" => pc'[k] \in {"new", "returned"}
            /\ work'[k] => work[k],
         \A c \in Cores : irq[c] # "idle" => Outside(c)'
  PROVE  IInv'
<1>0. /\ TypeOK /\ ListInv /\ ThreadInv /\ CoreInv /\ RunInv /\ GangInv /\ CountInv
      /\ UNCHANGED <<todo, slot, mask, args, cur, com, at, irq, ijob, hw, line, int_mask, ran>>
  BY DEF IInv, core
<1>1. \A k \in Jobs, c \in Cores :
         /\ InTodo(k, c)' <=> InTodo(k, c)
         /\ Popped(k, c)' <=> Popped(k, c)
         /\ Runs(k, c)' = Runs(k, c)
  BY <1>0, SameOps
<1>2. \A k \in Jobs : Uncounted(k)' = Uncounted(k) /\ Unretired(k)' = Unretired(k)
  BY <1>0, <1>1, UncountedSame, UnretiredSame
<1>t. /\ slot \in [Cores -> Jobs \cup {NoJob}] /\ ijob \in [Cores -> Jobs \cup {NoJob}]
      /\ cur \in [Threads -> Jobs \cup {NoJob}]
      /\ \A c \in Cores : irq[c] = "idle" <=> ijob[c] = NoJob
  BY <1>0 DEF TypeOK
<1>3. ListInv'
  BY <1>0, <1>1, <1>t DEF ListInv
<1>4. ThreadInv'
  BY <1>0 DEF ThreadInv
<1>5. CoreInv'
  BY <1>0, <1>1, <1>t DEF CoreInv
<1>6. RunInv'
  BY <1>0, <1>1, <1>2 DEF RunInv
<1>7. GangInv'
  BY <1>0, <1>2, <1>t DEF GangInv, ThreadInv
<1>8. CountInv'
  BY <1>0, <1>2, <1>t DEF CountInv
<1>9. QED
  BY <1>3, <1>4, <1>5, <1>6, <1>7, <1>8 DEF IInv

-----------------------------------------------------------------------------
(* The submitter *)

\* The steps of a submitter that queue nothing.
LEMMA SubmitterKeeps ==
  ASSUME IInv, NEW j \in Jobs, TypeOK',
         \/ SubmitFails(j) \/ CleanNothing(j) \/ Scheduled(j) \/ WaitSleeps(j) \/ WaitEnds(j)
         \/ WaitSucceeds(j) \/ Returns(j) \/ CleanupWork(j)
  PROVE  IInv'
<1>0. /\ pc \in [Jobs -> PcValues] /\ mem \in [Jobs -> {"none", "live", "freed"}]
      /\ work \in [Jobs -> BOOLEAN]
      /\ ListInv /\ ThreadInv /\ CountInv
  BY DEF IInv, TypeOK
<1>1. UNCHANGED <<core, submit_count, run_count, interrupt_count, done, next>>
  BY DEF SubmitFails, CleanNothing, Scheduled, WaitSleeps, WaitEnds, WaitSucceeds, Returns,
         CleanupWork, core, subcore, counts, result, alloc, dispatch, handler, device
<1>2. \A c \in Cores : irq[c] # "idle" => Outside(c)'
  BY <1>0, <1>1 DEF ThreadInv, Outside, core
<1>3. \A k \in Jobs :
         /\ mem'[k] = "none" <=> mem[k] = "none"
         /\ Enqueued(k)' <=> Enqueued(k)
         /\ pc'[k] = "new" => pc[k] = "new"
         /\ mem[k] = "none" => pc'[k] \in {"new", "returned"}
         /\ work'[k] => work[k]
  <2>1. CASE SubmitFails(j) \/ CleanNothing(j) \/ Scheduled(j) \/ WaitSleeps(j) \/ WaitEnds(j)
    BY <1>0, <2>1 DEF SubmitFails, CleanNothing, Scheduled, WaitSleeps, WaitEnds, Enqueued,
                      ListInv, alloc
  <2>2. CASE WaitSucceeds(j) \/ Returns(j)
    BY <1>0, <2>2 DEF WaitSucceeds, Returns, Enqueued, ListInv
  <2>3. CASE CleanupWork(j)
    BY <1>0, <2>3 DEF CleanupWork, Enqueued, ListInv, CountInv
  <2>4. QED
    BY <2>1, <2>2, <2>3
<1>4. QED
  BY <1>1, <1>2, <1>3, GangFrame

\* rknpu_job_alloc() and PickCore: the counters are set to the number of cores.
LEMMA CountersSet ==
  ASSUME IInv, TypeOK', NEW j \in Jobs, ~Enqueued(j), pc'[j] \in {"clean", "schedule"},
         mem'[j] # "none",
         \A k \in Jobs \ {j} :
            /\ pc'[k] = pc[k] /\ mem'[k] = mem[k] /\ mask'[k] = mask[k]
            /\ run_count'[k] = run_count[k] /\ interrupt_count'[k] = interrupt_count[k],
         run_count'[j] = Cardinality(mask'[j]), interrupt_count'[j] = Cardinality(mask'[j]),
         UNCHANGED <<todo, slot, args, dispatch, handler, device, submit_count, done, work>>
  PROVE  IInv'
<1>0. /\ TypeOK /\ ListInv /\ ThreadInv /\ CoreInv /\ RunInv /\ GangInv /\ CountInv
      /\ UNCHANGED <<todo, slot, args, next, cur, com, at, irq, ijob, hw, line, int_mask, ran,
                     submit_count, done, work>>
  BY DEF IInv, dispatch, handler, device
<1>t. /\ slot \in [Cores -> Jobs \cup {NoJob}] /\ ijob \in [Cores -> Jobs \cup {NoJob}]
      /\ cur \in [Threads -> Jobs \cup {NoJob}] /\ at \in [Threads -> Cores]
      /\ mask \in [Jobs -> SUBSET Cores]
      /\ \A c \in Cores : irq[c] = "idle" <=> ijob[c] = NoJob
  BY <1>0 DEF TypeOK
<1>1. \A k \in Jobs, c \in Cores :
         /\ InTodo(k, c)' <=> InTodo(k, c)
         /\ Popped(k, c)' <=> Popped(k, c)
         /\ Runs(k, c)' = Runs(k, c)
  BY <1>0, SameOps
<1>2. \A k \in Jobs : Enqueued(k)' <=> Enqueued(k)
  BY DEF Enqueued
<1>3. \A k \in Jobs \ {j} : Uncounted(k)' = Uncounted(k) /\ Unretired(k)' = Unretired(k)
  <2> TAKE k \in Jobs \ {j}
  <2>1. mask'[k] = mask[k] /\ mask[k] \subseteq Cores
    BY <1>t
  <2>2. QED
    BY <1>0, <1>1, <1>2, <2>1 DEF Uncounted, Unretired
<1>4. Uncounted(j)' = mask'[j] /\ Unretired(j)' = mask'[j]
  BY <1>2 DEF Uncounted, Unretired
<1>5. /\ \A c \in Cores : slot[c] # j /\ ~InTodo(j, c) /\ c \notin int_mask[j]
      /\ \A c \in Cores : irq[c] # "idle" => ijob[c] # j
      /\ \A t \in Threads : cur[t] # NoJob => cur[t] # j
  <2>1. \A c \in Cores : slot[c] # j /\ ~InTodo(j, c) /\ c \notin int_mask[j]
    BY <1>0, ConstantsAssumption DEF ListInv, RunInv
  <2>2. \A c \in Cores : irq[c] # "idle" => ijob[c] # j
    BY <1>0, <2>1 DEF CoreInv, TypeOK, IrqValues
  <2>3. ASSUME NEW t \in Threads, cur[t] # NoJob
        PROVE  cur[t] # j
    <3>1. CASE com[t] = {}
      BY <1>0, <1>t, <2>1, <2>3, <3>1 DEF ThreadInv
    <3>2. CASE com[t] # {}
      <4>1. PICK c \in Cores : c \in com[t]
        BY <1>0, <3>2 DEF TypeOK
      <4>2. QED
        BY <1>0, <2>1, <4>1 DEF CoreInv
    <3>3. QED
      BY <3>1, <3>2
  <2>4. QED
    BY <2>1, <2>2, <2>3
<1>6. ListInv'
  BY <1>0, <1>1, <1>2, <1>5, <1>t DEF ListInv
<1>7. ThreadInv'
  BY <1>0 DEF ThreadInv, Outside
<1>8. CoreInv'
  BY <1>0, <1>1, <1>2, <1>5, <1>t DEF CoreInv
<1>9. RunInv'
  BY <1>0, <1>1, <1>2, <1>3, <1>5 DEF RunInv
<1>10. GangInv'
  BY <1>0, <1>3, <1>5, <1>t DEF GangInv, ThreadInv
<1>11. CountInv'
  BY <1>0, <1>2, <1>3, <1>4, <1>t DEF CountInv
<1>12. QED
  BY <1>6, <1>7, <1>8, <1>9, <1>10, <1>11 DEF IInv

\* rknpu_job_alloc().
LEMMA SubmitKeeps ==
  ASSUME IInv, TypeOK', NEW j \in Jobs, Submit(j)
  PROVE  IInv'
<1>1. /\ pc \in [Jobs -> PcValues] /\ mem \in [Jobs -> {"none", "live", "freed"}]
      /\ run_count \in [Jobs -> Int] /\ interrupt_count \in [Jobs -> Int]
  BY DEF IInv, TypeOK
<1>2. ~Enqueued(j)
  BY DEF Submit, Enqueued
<1>3. /\ pc'[j] \in {"clean", "schedule"} /\ mem'[j] # "none"
      /\ mask' = mask
      /\ run_count'[j] = Cardinality(mask[j]) /\ interrupt_count'[j] = Cardinality(mask[j])
      /\ \A k \in Jobs \ {j} :
            /\ pc'[k] = pc[k] /\ mem'[k] = mem[k]
            /\ run_count'[k] = run_count[k] /\ interrupt_count'[k] = interrupt_count[k]
  BY <1>1 DEF Submit
<1>4. UNCHANGED <<todo, slot, args, dispatch, handler, device, submit_count, done, work>>
  BY DEF Submit, subcore
<1>5. QED
  BY <1>2, <1>3, <1>4, CountersSet

\* RKNPU_CORE_AUTO_MASK.
LEMMA PickCoreKeeps ==
  ASSUME IInv, TypeOK', NEW j \in Jobs, PickCore(j)
  PROVE  IInv'
<1>1. /\ pc \in [Jobs -> PcValues] /\ mask \in [Jobs -> SUBSET Cores]
      /\ run_count \in [Jobs -> Int] /\ interrupt_count \in [Jobs -> Int]
      /\ ListInv
  BY DEF IInv, TypeOK
<1>2. /\ ~Enqueued(j) /\ mem'[j] # "none" /\ pc'[j] = "schedule"
      /\ mem' = mem /\ pc' = pc
  BY <1>1 DEF PickCore, Enqueued, ListInv, alloc
<1>3. PICK c \in Cores : mask' = [mask EXCEPT ![j] = {c}]
  BY DEF PickCore
<1>4. Cardinality({c}) = 1
  BY FS_Singleton
<1>5. /\ run_count'[j] = Cardinality(mask'[j]) /\ interrupt_count'[j] = Cardinality(mask'[j])
      /\ \A k \in Jobs \ {j} :
            /\ mask'[k] = mask[k]
            /\ run_count'[k] = run_count[k] /\ interrupt_count'[k] = interrupt_count[k]
  BY <1>1, <1>3, <1>4 DEF PickCore
<1>6. UNCHANGED <<todo, slot, args, dispatch, handler, device, submit_count, done, work>>
  BY DEF PickCore, subcore, result, alloc
<1>7. QED
  BY <1>2, <1>5, <1>6, CountersSet

\* The job joins the lists of the cores of its mask.
LEMMA EnqueueKeeps ==
  ASSUME IInv, TypeOK', NEW j \in Jobs, Enqueue(j)
  PROVE  IInv'
<1>0. /\ TypeOK /\ ListInv /\ ThreadInv /\ CoreInv /\ RunInv /\ GangInv /\ CountInv
      /\ UNCHANGED <<slot, mask, args, cur, com, at, irq, ijob, hw, line, int_mask, ran, mem,
                     submit_count, run_count, interrupt_count, done, work>>
  BY DEF IInv, Enqueue, counts, result, alloc, handler, device
<1>t. /\ slot \in [Cores -> Jobs \cup {NoJob}] /\ ijob \in [Cores -> Jobs \cup {NoJob}]
      /\ cur \in [Threads -> Jobs \cup {NoJob}] /\ at \in [Threads -> Cores]
      /\ mask \in [Jobs -> SUBSET Cores] /\ pc \in [Jobs -> PcValues]
      /\ todo \in [Cores -> Seq(Jobs)] /\ next \in [Threads -> SUBSET Cores]
      /\ \A c \in Cores : irq[c] = "idle" <=> ijob[c] = NoJob
  BY <1>0 DEF TypeOK
<1>1. /\ ~Enqueued(j) /\ mem[j] # "none" /\ Enqueued(j)'
      /\ \A k \in Jobs \ {j} : Enqueued(k)' <=> Enqueued(k)
  BY <1>0, <1>t DEF Enqueue, Enqueued, ListInv
<1>2. /\ \A c \in Cores : slot[c] # j /\ ~InTodo(j, c) /\ c \notin int_mask[j]
      /\ \A c \in Cores : irq[c] # "idle" => ijob[c] # j
  <2>1. \A c \in Cores : slot[c] # j /\ ~InTodo(j, c) /\ c \notin int_mask[j]
    BY <1>0, <1>1, ConstantsAssumption DEF ListInv, RunInv
  <2>2. \A c \in Cores : irq[c] # "idle" => ijob[c] # j
    BY <1>0, <1>1, <2>1 DEF CoreInv, TypeOK, IrqValues
  <2>3. QED
    BY <2>1, <2>2
<1>3. \A t \in Threads : cur[t] # j
  <2> SUFFICES ASSUME NEW t \in Threads, cur[t] = j
               PROVE  FALSE
    OBVIOUS
  <2>1. CASE com[t] = {}
    BY <1>0, <1>t, <1>2, <2>1, ConstantsAssumption DEF ThreadInv
  <2>2. CASE com[t] # {}
    <3>1. PICK c \in Cores : c \in com[t]
      BY <1>0, <2>2 DEF TypeOK
    <3>2. QED
      BY <1>0, <1>2, <3>1 DEF CoreInv
  <2>3. QED
    BY <2>1, <2>2
<1>4. \A c \in Cores :
         /\ c \in mask[j] => todo'[c] = Append(todo[c], j)
         /\ c \notin mask[j] => todo'[c] = todo[c]
  BY DEF Enqueue
<1>a. ASSUME NEW c \in Cores, c \in mask[j]
      PROVE  /\ Len(todo[c]) \in Nat /\ Len(todo'[c]) = Len(todo[c]) + 1
             /\ \A i \in 1 .. Len(todo[c]) : todo'[c][i] = todo[c][i]
             /\ todo'[c][Len(todo[c]) + 1] = j
  <2>1. todo[c] \in Seq(Jobs) /\ todo'[c] = Append(todo[c], j)
    BY <1>4, <1>t, <1>a
  <2>2. QED
    BY <2>1, AppendProperties
<1>5. \A k \in Jobs \ {j}, c \in Cores : InTodo(k, c)' <=> InTodo(k, c)
  <2> TAKE k \in Jobs \ {j}, c \in Cores
  <2>1. CASE c \notin mask[j]
    BY <1>4, <2>1 DEF InTodo
  <2>2. CASE c \in mask[j]
    <3>1. /\ Len(todo[c]) \in Nat /\ Len(todo'[c]) = Len(todo[c]) + 1
          /\ \A i \in 1 .. Len(todo[c]) : todo'[c][i] = todo[c][i]
          /\ todo'[c][Len(todo[c]) + 1] = j
      BY <1>a, <2>2
    <3>2. QED
      BY <3>1 DEF InTodo
  <2>3. QED
    BY <2>1, <2>2
<1>6. \A c \in Cores : InTodo(j, c)' <=> c \in mask[j]
  <2> TAKE c \in Cores
  <2>1. CASE c \notin mask[j]
    BY <1>2, <1>4, <2>1 DEF InTodo
  <2>2. CASE c \in mask[j]
    <3>1. /\ Len(todo[c]) \in Nat /\ Len(todo'[c]) = Len(todo[c]) + 1
          /\ todo'[c][Len(todo[c]) + 1] = j
      BY <1>a, <2>2
    <3>2. Len(todo[c]) + 1 \in 1 .. Len(todo'[c])
      BY <3>1
    <3>3. QED
      BY <2>2, <3>1, <3>2 DEF InTodo
  <2>3. QED
    BY <2>1, <2>2
<1>7. \A k \in Jobs, c \in Cores : (Popped(k, c)' <=> Popped(k, c)) /\ Runs(k, c)' = Runs(k, c)
  BY <1>0, SameOps
<1>8. \A k \in Jobs : Uncounted(k)' = Uncounted(k) /\ Unretired(k)' = Unretired(k)
  <2>1. ASSUME NEW k \in Jobs \ {j}
        PROVE  Uncounted(k)' = Uncounted(k) /\ Unretired(k)' = Unretired(k)
    <3>1. mask'[k] = mask[k] /\ mask[k] \subseteq Cores
      BY <1>0, <1>t
    <3>2. QED
      BY <1>0, <1>1, <1>5, <1>7, <3>1 DEF Uncounted, Unretired
  <2>2. Uncounted(j)' = mask[j] /\ Unretired(j)' = mask[j]
    <3>1. mask'[j] = mask[j] /\ mask[j] \subseteq Cores
      BY <1>0, <1>t
    <3>2. QED
      BY <1>1, <1>6, <3>1 DEF Uncounted, Unretired
  <2>3. Uncounted(j) = mask[j] /\ Unretired(j) = mask[j]
    BY <1>1 DEF Uncounted, Unretired
  <2>4. QED
    BY <2>1, <2>2, <2>3
<1>9. ListInv'
  <2>1. \A k \in Jobs : pc'[k] = "new" => mem'[k] = "none"
    BY <1>0, <1>t DEF Enqueue, ListInv
  <2>2. \A k \in Jobs : pc'[k] \notin {"new", "returned"} => mem'[k] # "none"
    BY <1>0, <1>1, <1>t DEF Enqueue, ListInv
  <2>3. \A k \in Jobs, c \in Cores :
           InTodo(k, c)' => Enqueued(k)' /\ c \in mask'[k] /\ slot'[c] # k
    BY <1>0, <1>1, <1>2, <1>5, <1>6 DEF ListInv
  <2>4. \A c \in Cores : slot'[c] # NoJob => Enqueued(slot[c])' /\ c \in mask'[slot'[c]]
    BY <1>0, <1>1, <1>2, <1>t DEF ListInv
  <2>5. ASSUME NEW c \in Cores, NEW m \in 1 .. Len(todo'[c]), NEW n \in 1 .. Len(todo'[c]),
               todo'[c][m] = todo'[c][n]
        PROVE  m = n
    <3>1. CASE c \notin mask[j]
      BY <1>0, <1>4, <2>5, <3>1 DEF ListInv
    <3>2. CASE c \in mask[j]
      <4>1. /\ Len(todo[c]) \in Nat /\ Len(todo'[c]) = Len(todo[c]) + 1
            /\ \A i \in 1 .. Len(todo[c]) : todo'[c][i] = todo[c][i]
            /\ todo'[c][Len(todo[c]) + 1] = j
        BY <1>a, <3>2
      <4>2. \A i \in 1 .. Len(todo[c]) : todo[c][i] # j
        BY <1>2 DEF InTodo
      <4>3. \A p, q \in 1 .. Len(todo[c]) : todo[c][p] = todo[c][q] => p = q
        BY <1>0 DEF ListInv
      <4>4. /\ m \in 1 .. Len(todo[c]) \/ m = Len(todo[c]) + 1
            /\ n \in 1 .. Len(todo[c]) \/ n = Len(todo[c]) + 1
        BY <4>1
      <4>5. CASE m \in 1 .. Len(todo[c]) /\ n \in 1 .. Len(todo[c])
        BY <2>5, <4>1, <4>3, <4>5
      <4>6. CASE m = Len(todo[c]) + 1 /\ n \in 1 .. Len(todo[c])
        BY <2>5, <4>1, <4>2, <4>6
      <4>7. CASE m \in 1 .. Len(todo[c]) /\ n = Len(todo[c]) + 1
        BY <2>5, <4>1, <4>2, <4>7
      <4>8. QED
        BY <4>4, <4>5, <4>6, <4>7
    <3>3. QED
      BY <3>1, <3>2
  <2>6. QED
    BY <1>0, <2>1, <2>2, <2>3, <2>4, <2>5 DEF ListInv
<1>10. ThreadInv'
  <2>1. \A c \in Cores : next'[c] = next[c]
    BY <1>t, ThreadsDisjoint DEF Enqueue, Threads
  <2>2. QED
    BY <1>0, <2>1 DEF ThreadInv, Outside
<1>11. CoreInv'
  BY <1>0, <1>1, <1>2, <1>5, <1>t DEF CoreInv
<1>12. RunInv'
  BY <1>0, <1>1, <1>2, <1>5, <1>6, <1>7, <1>8 DEF RunInv
<1>13. GangInv'
  BY <1>0, <1>8, <1>t DEF GangInv, ThreadInv
<1>14. CountInv'
  BY <1>0, <1>1, <1>8, <1>t DEF CountInv
<1>15. QED
  BY <1>9, <1>10, <1>11, <1>12, <1>13, <1>14 DEF IInv

-----------------------------------------------------------------------------
(* rknpu_job_next() and rknpu_job_commit() *)

\* A rknpu_job_next() call that starts nothing.
LEMMA JobNextReturnsKeeps ==
  ASSUME IInv, TypeOK', NEW t \in Threads, NEW c \in Cores, JobNextReturns(t, c)
  PROVE  IInv'
<1>1. UNCHANGED <<core, submit_count, run_count, interrupt_count, done, mem, pc, work>>
  BY DEF JobNextReturns, core, subcore, counts, result, alloc, handler, device
<1>2. \A d \in Cores : irq[d] # "idle" => Outside(d)'
  <2>1. \A d \in Cores : irq[d] # "idle" => Outside(d)
    BY DEF IInv, ThreadInv
  <2>2. \A d \in Threads : next'[d] \subseteq next[d] /\ cur'[d] = cur[d]
    BY DEF JobNextReturns, IInv, TypeOK
  <2>3. QED
    BY <2>1, <2>2 DEF Outside, Threads
<1>3. \A k \in Jobs :
         /\ mem'[k] = "none" <=> mem[k] = "none"
         /\ Enqueued(k)' <=> Enqueued(k)
         /\ pc'[k] = "new" => pc[k] = "new"
         /\ mem[k] = "none" => pc'[k] \in {"new", "returned"}
         /\ work'[k] => work[k]
  BY <1>1 DEF Enqueued, IInv, ListInv
<1>4. QED
  BY <1>1, <1>2, <1>3, GangFrame

\* The head of a list and the rest of it.
LEMMA TailProperties ==
  ASSUME NEW s \in Seq(Jobs), s # <<>>, NEW u, u = Tail(s)
  PROVE  /\ Len(s) \in Nat /\ Len(s) >= 1 /\ Len(u) = Len(s) - 1
         /\ \A i \in 1 .. Len(s) - 1 : u[i] = s[i + 1]
         /\ Head(s) = s[1] /\ Head(s) \in Jobs
  OBVIOUS

\* The head of a list becomes the core's job: run_count still counts the core.
LEMMA JobNextPopsKeeps ==
  ASSUME IInv, TypeOK', NEW t \in Threads, NEW c \in Cores, JobNextPops(t, c)
  PROVE  IInv'
<1>0. /\ TypeOK /\ ListInv /\ ThreadInv /\ CoreInv /\ RunInv /\ GangInv /\ CountInv
      /\ UNCHANGED <<mask, args, com, irq, ijob, hw, line, int_mask, ran, mem, pc,
                     submit_count, run_count, interrupt_count, done, work>>
  BY DEF IInv, JobNextPops, counts, result, alloc, handler, device
<1>t. /\ slot \in [Cores -> Jobs \cup {NoJob}] /\ ijob \in [Cores -> Jobs \cup {NoJob}]
      /\ cur \in [Threads -> Jobs \cup {NoJob}] /\ at \in [Threads -> Cores]
      /\ mask \in [Jobs -> SUBSET Cores] /\ com \in [Threads -> SUBSET Cores]
      /\ todo \in [Cores -> Seq(Jobs)] /\ next \in [Threads -> SUBSET Cores]
      /\ \A d \in Cores : irq[d] = "idle" <=> ijob[d] = NoJob
  BY <1>0 DEF TypeOK
<1>h. cur[t] = NoJob /\ c \in next[t] /\ slot[c] = NoJob /\ todo[c] # <<>>
  BY DEF JobNextPops, NothingToStart, First
<1>j. PICK j \in Jobs : j = Head(todo[c])
  <2>1. todo[c] \in Seq(Jobs) /\ todo[c] # <<>>
    BY <1>h, <1>t
  <2>2. QED
    BY <2>1, TailProperties
<1>1. /\ cur[t] = NoJob /\ c \in next[t] /\ slot[c] = NoJob /\ todo[c] # <<>>
      /\ slot' = [slot EXCEPT ![c] = j] /\ todo' = [todo EXCEPT ![c] = Tail(todo[c])]
      /\ cur' = [cur EXCEPT ![t] = j] /\ at' = [at EXCEPT ![t] = c]
      /\ next' = [next EXCEPT ![t] = next[t] \ {c}]
  BY <1>h, <1>j DEF JobNextPops
<1>2. /\ Len(todo[c]) \in Nat /\ Len(todo[c]) >= 1 /\ Len(todo'[c]) = Len(todo[c]) - 1
      /\ \A i \in 1 .. Len(todo[c]) - 1 : todo'[c][i] = todo[c][i + 1]
      /\ j = todo[c][1] /\ j \in Jobs
  <2>1. todo[c] \in Seq(Jobs) /\ todo[c] # <<>> /\ todo'[c] = Tail(todo[c])
    BY <1>1, <1>t
  <2>2. QED
    BY <1>j, <2>1, TailProperties
<1>3. InTodo(j, c) /\ ~InTodo(j, c)'
  <2>1. 1 \in 1 .. Len(todo[c]) /\ todo[c][1] = j
    BY <1>2
  <2>2. \A i \in 1 .. Len(todo[c]) : todo[c][i] = j => i = 1
    BY <1>0, <2>1 DEF ListInv
  <2>3. ASSUME NEW i \in 1 .. Len(todo'[c]), todo'[c][i] = j
        PROVE  FALSE
    <3>1. i \in 1 .. Len(todo[c]) - 1 /\ i + 1 \in 1 .. Len(todo[c]) /\ i + 1 # 1
      BY <1>2
    <3>2. todo[c][i + 1] = j
      BY <1>2, <2>3, <3>1
    <3>3. QED
      BY <2>2, <3>1, <3>2
  <2>4. QED
    BY <2>1, <2>3 DEF InTodo
<1>4. \A k \in Jobs, d \in Cores :
         InTodo(k, d)' <=> InTodo(k, d) /\ ~(k = j /\ d = c)
  <2> SUFFICES ASSUME NEW k \in Jobs, NEW d \in Cores, ~(k = j /\ d = c)
               PROVE  InTodo(k, d)' <=> InTodo(k, d)
    BY <1>3
  <2>1. CASE d # c
    <3>1. todo'[d] = todo[d]
      BY <1>1, <1>t, <2>1
    <3>2. QED
      BY <3>1 DEF InTodo
  <2>2. CASE d = c /\ k # j
    <3>1. ASSUME NEW i \in 1 .. Len(todo[c]), todo[c][i] = k
          PROVE  InTodo(k, c)'
      <4>1. i - 1 \in 1 .. Len(todo[c]) - 1 /\ (i - 1) + 1 = i
        BY <1>2, <2>2, <3>1
      <4>2. i - 1 \in 1 .. Len(todo'[c]) /\ todo'[c][i - 1] = k
        BY <1>2, <3>1, <4>1
      <4>3. QED
        BY <4>2 DEF InTodo
    <3>2. ASSUME NEW i \in 1 .. Len(todo'[c]), todo'[c][i] = k
          PROVE  InTodo(k, c)
      <4>1. i \in 1 .. Len(todo[c]) - 1 /\ i + 1 \in 1 .. Len(todo[c])
        BY <1>2
      <4>2. todo[c][i + 1] = k
        BY <1>2, <3>2, <4>1
      <4>3. QED
        BY <4>1, <4>2 DEF InTodo
    <3>3. QED
      BY <2>2, <3>1, <3>2 DEF InTodo
  <2>3. QED
    BY <2>1, <2>2
<1>5. com[t] = {}
  BY <1>0, <1>1 DEF ThreadInv
<1>6. \A k \in Jobs, d \in Cores : Popped(k, d)' <=> Popped(k, d) \/ (k = j /\ d = c)
  <2>1. \A u \in Threads \ {t} : cur'[u] = cur[u] /\ at'[u] = at[u] /\ com'[u] = com[u]
    BY <1>0, <1>1, <1>t
  <2>2. cur'[t] = j /\ at'[t] = c /\ com'[t] = {} /\ cur[t] \notin Jobs
    BY <1>0, <1>1, <1>5, <1>t, ConstantsAssumption
  <2>3. QED
    BY <2>1, <2>2 DEF Popped
<1>7. /\ \A k \in Jobs : Enqueued(k)' <=> Enqueued(k)
      /\ \A k \in Jobs, d \in Cores : Runs(k, d)' = Runs(k, d)
  BY <1>0, SameOps DEF Enqueued
<1>8. slot'[c] = j /\ \A d \in Cores \ {c} : slot'[d] = slot[d]
  BY <1>1, <1>t
<1>9. \A k \in Jobs : Uncounted(k)' = Uncounted(k) /\ Unretired(k)' = Unretired(k)
  <2> TAKE k \in Jobs
  <2>1. mask'[k] = mask[k] /\ mask[k] \subseteq Cores
    BY <1>0, <1>t
  <2>2. \A d \in Cores :
           (InTodo(k, d)' \/ Popped(k, d)') <=> (InTodo(k, d) \/ Popped(k, d))
    BY <1>3, <1>4, <1>6
  <2>3. \A d \in Cores : (InTodo(k, d)' \/ slot'[d] = k) <=> (InTodo(k, d) \/ slot[d] = k)
    BY <1>1, <1>3, <1>4, <1>8, ConstantsAssumption
  <2>4. Uncounted(k)' = Uncounted(k)
    BY <1>7, <2>1, <2>2 DEF Uncounted
  <2>5. Unretired(k)' = Unretired(k)
    BY <1>0, <1>7, <2>1, <2>3 DEF Unretired
  <2>6. QED
    BY <2>4, <2>5
<1>10. /\ hw[c] = NoJob /\ line[c] = "low" /\ irq[c] \notin {"status", "retire"}
       /\ \A u \in Threads : c \notin com[u]
  BY <1>0, <1>1, <1>t DEF CoreInv, ThreadInv
<1>11. ListInv'
  <2>1. \A k \in Jobs, d \in Cores :
           InTodo(k, d)' => Enqueued(k)' /\ d \in mask'[k] /\ slot'[d] # k
    BY <1>0, <1>4, <1>7, <1>8 DEF ListInv
  <2>2. \A d \in Cores : slot'[d] # NoJob => Enqueued(slot[d])' /\ d \in mask'[slot'[d]]
    <3>1. Enqueued(j)' /\ c \in mask'[j]
      BY <1>0, <1>2, <1>3, <1>7 DEF ListInv
    <3>2. \A d \in Cores \ {c} : slot[d] # NoJob => Enqueued(slot[d])' /\ d \in mask'[slot[d]]
      BY <1>0, <1>7, <1>8, <1>t DEF ListInv
    <3>3. QED
      BY <1>8, <3>1, <3>2 DEF Enqueued
  <2>3. ASSUME NEW d \in Cores, NEW m \in 1 .. Len(todo'[d]), NEW n \in 1 .. Len(todo'[d]),
               todo'[d][m] = todo'[d][n]
        PROVE  m = n
    <3>1. CASE d # c
      <4>1. todo'[d] = todo[d]
        BY <1>1, <1>t, <3>1
      <4>2. QED
        BY <1>0, <2>3, <4>1 DEF ListInv
    <3>2. CASE d = c
      <4>0. /\ Len(todo[c]) \in Nat /\ Len(todo'[c]) = Len(todo[c]) - 1
            /\ m \in 1 .. Len(todo'[c]) /\ n \in 1 .. Len(todo'[c])
        BY <1>2, <3>2
      <4>1. m + 1 \in 1 .. Len(todo[c]) /\ n + 1 \in 1 .. Len(todo[c])
            /\ m \in 1 .. Len(todo[c]) - 1 /\ n \in 1 .. Len(todo[c]) - 1
        BY <4>0
      <4>2. todo[c][m + 1] = todo[c][n + 1]
        BY <1>2, <2>3, <3>2, <4>1
      <4>3. m + 1 = n + 1
        BY <1>0, <4>1, <4>2 DEF ListInv
      <4>4. QED
        BY <4>1, <4>3
    <3>3. QED
      BY <3>1, <3>2
  <2>4. QED
    BY <1>0, <2>1, <2>2, <2>3 DEF ListInv
<1>12. ThreadInv'
  <2>1. \A u \in Threads : com'[u] # {} => cur'[u] # NoJob
    BY <1>0, <1>1, <1>5, <1>t DEF ThreadInv
  <2>2. \A d \in Cores : irq'[d] # "idle" => Outside(d)'
    <3>1. ASSUME NEW d \in Cores, irq[d] # "idle"
          PROVE  d # t /\ Outside(d)
      BY <1>0, <1>1, <3>1 DEF ThreadInv, Outside
    <3>2. \A d \in Cores \ {t} : next'[d] = next[d] /\ cur'[d] = cur[d]
      BY <1>1, <1>t DEF Threads
    <3>3. QED
      BY <1>0, <3>1, <3>2 DEF Outside
  <2>3. \A u \in Threads : cur'[u] # NoJob /\ com'[u] = {} => slot'[at'[u]] = cur'[u]
    <3>1. ASSUME NEW u \in Threads \ {t}, cur[u] # NoJob, com[u] = {}
          PROVE  slot'[at[u]] = cur[u]
      BY <1>0, <1>1, <1>8, <1>t, <3>1 DEF ThreadInv
    <3>2. QED
      BY <1>0, <1>1, <1>8, <1>t, <3>1
  <2>4. \A u, v \in Threads :
           cur'[u] # NoJob /\ com'[u] = {} /\ cur'[v] # NoJob /\ com'[v] = {} /\ at'[u] = at'[v]
           => u = v
    <3>1. \A u \in Threads : cur[u] # NoJob /\ com[u] = {} => at[u] # c
      BY <1>0, <1>1 DEF ThreadInv
    <3>2. QED
      BY <1>0, <1>1, <1>t, <3>1 DEF ThreadInv
  <2>5. QED
    BY <1>0, <2>1, <2>2, <2>3, <2>4 DEF ThreadInv
<1>13. CoreInv'
  <2> SUFFICES ASSUME NEW d \in Cores
               PROVE  CoreInv!(d)'
    BY DEF CoreInv
  <2>1. CoreInv!(d)
    BY <1>0 DEF CoreInv
  <2>2. \A u \in Threads : d \in com'[u] => cur'[u] = cur[u] /\ d # c
    BY <1>0, <1>1, <1>5, <1>10, <1>t
  <2>3. irq[d] \in {"complete", "signal", "wake"} =>
           /\ Enqueued(ijob[d])' /\ ~InTodo(ijob[d], d)' /\ slot'[d] # ijob[d]
    BY <1>0, <1>3, <1>4, <1>7, <1>8, <1>t, <2>1
  <2>4. CASE d = c
    BY <1>0, <1>10, <2>2, <2>1, <2>3, <2>4 DEF Enqueued, InTodo
  <2>5. CASE d # c
    BY <1>0, <1>8, <2>1, <2>2, <2>3, <2>5 DEF Enqueued, InTodo
  <2>6. QED
    BY <2>4, <2>5
<1>14. RunInv'
  <2> SUFFICES ASSUME NEW k \in Jobs, NEW d \in Cores
               PROVE  RunInv!(k, d)'
    BY DEF RunInv
  <2>1. RunInv!(k, d)
    BY <1>0 DEF RunInv
  <2>2. CASE d = c
    BY <1>0, <1>1, <1>3, <1>4, <1>7, <1>8, <1>9, <1>10, <2>1, <2>2, ConstantsAssumption
  <2>3. CASE d # c
    BY <1>0, <1>4, <1>7, <1>8, <1>9, <2>1, <2>3
  <2>4. QED
    BY <2>2, <2>3
<1>15. GangInv'
  BY <1>0, <1>1, <1>5, <1>9, <1>t DEF GangInv, ThreadInv
<1>16. CountInv'
  BY <1>0, <1>7, <1>9, <1>t DEF CountInv
<1>17. QED
  BY <1>11, <1>12, <1>13, <1>14, <1>15, <1>16 DEF IInv

\* atomic_dec_and_test(&job->run_count): the core is no longer counted, and the
\* last one finds the job in the slots of all cores and none of them started.
LEMMA JobNextCountsKeeps ==
  ASSUME IInv, TypeOK', NEW t \in Threads, JobNextCounts(t)
  PROVE  IInv'
<1>0. /\ TypeOK /\ ListInv /\ ThreadInv /\ CoreInv /\ RunInv /\ GangInv /\ CountInv
      /\ UNCHANGED <<todo, slot, mask, args, next, irq, ijob, hw, line, int_mask, ran, mem, pc,
                     submit_count, interrupt_count, done, work>>
  BY DEF IInv, JobNextCounts, subcore, result, alloc, handler, device
<1>t. /\ slot \in [Cores -> Jobs \cup {NoJob}] /\ ijob \in [Cores -> Jobs \cup {NoJob}]
      /\ cur \in [Threads -> Jobs \cup {NoJob}] /\ at \in [Threads -> Cores]
      /\ mask \in [Jobs -> SUBSET Cores] /\ com \in [Threads -> SUBSET Cores]
      /\ run_count \in [Jobs -> Int]
      /\ \A d \in Cores : irq[d] = "idle" <=> ijob[d] = NoJob
      /\ NoJob \notin Jobs
  BY <1>0, ConstantsAssumption DEF TypeOK
<1>j. PICK j \in Jobs : j = cur[t]
  BY <1>t DEF JobNextCounts
<1>c. PICK c \in Cores : c = at[t]
  BY <1>t
<1>s. PICK S : S = IF run_count[j] = 1 THEN CommitCores(mask[j]) ELSE {}
  OBVIOUS
<1>1. /\ com[t] = {} /\ S \subseteq mask[j] /\ (S # {} => run_count[j] = 1)
      /\ run_count' = [run_count EXCEPT ![j] = run_count[j] - 1]
      /\ com' = [com EXCEPT ![t] = S]
      /\ cur' = [cur EXCEPT ![t] = IF S = {} THEN NoJob ELSE j]
  BY <1>j, <1>s DEF JobNextCounts, CommitCores
<1>a. \A u \in Threads \ {t} : cur'[u] = cur[u] /\ at'[u] = at[u] /\ com'[u] = com[u]
  BY <1>1, <1>t DEF JobNextCounts
<1>b. cur'[t] = (IF S = {} THEN NoJob ELSE j) /\ com'[t] = S
  BY <1>1, <1>t
<1>2. slot[c] = j /\ Enqueued(j) /\ c \in mask[j] /\ ~InTodo(j, c) /\ Popped(j, c)
  <2>1. slot[c] = j
    BY <1>0, <1>1, <1>j, <1>c, <1>t DEF ThreadInv
  <2>2. Enqueued(j) /\ c \in mask[j]
    BY <1>0, <1>t, <2>1 DEF ListInv
  <2>3. ~InTodo(j, c)
    BY <1>0, <2>1 DEF ListInv
  <2>4. Popped(j, c)
    BY <1>1, <1>j, <1>c DEF Popped
  <2>5. QED
    BY <2>1, <2>2, <2>3, <2>4
<1>3. \A k \in Jobs, d \in Cores : Popped(k, d)' <=> Popped(k, d) /\ ~(k = j /\ d = c)
  <2> TAKE k \in Jobs, d \in Cores
  <2>1. ASSUME NEW u \in Threads, cur'[u] = k, com'[u] = {}, at'[u] = d
        PROVE  Popped(k, d) /\ ~(k = j /\ d = c)
    <3>1. u # t
      BY <1>b, <1>t, <2>1
    <3>2. cur[u] = k /\ com[u] = {} /\ at[u] = d
      BY <1>a, <2>1, <3>1
    <3>3. ~(k = j /\ d = c)
      BY <1>0, <1>1, <1>c, <1>j, <1>t, <3>1, <3>2 DEF ThreadInv
    <3>4. QED
      BY <3>2, <3>3 DEF Popped
  <2>2. ASSUME NEW u \in Threads, cur[u] = k, com[u] = {}, at[u] = d, ~(k = j /\ d = c)
        PROVE  Popped(k, d)'
    <3>1. u # t
      BY <1>c, <1>j, <2>2
    <3>2. QED
      BY <1>a, <2>2, <3>1 DEF Popped
  <2>3. QED
    BY <2>1, <2>2 DEF Popped
<1>4. /\ \A k \in Jobs : Enqueued(k)' <=> Enqueued(k)
      /\ \A k \in Jobs, d \in Cores :
            (InTodo(k, d)' <=> InTodo(k, d)) /\ Runs(k, d)' = Runs(k, d)
  BY <1>0, SameOps DEF Enqueued
<1>5. \A k \in Jobs : Unretired(k)' = Unretired(k)
  BY <1>0, <1>4, UnretiredSame
<1>6. c \in Uncounted(j) /\ Uncounted(j)' = Uncounted(j) \ {c}
  <2>1. mask'[j] = mask[j] /\ mask[j] \subseteq Cores
    BY <1>0, <1>t
  <2>2. c \in Uncounted(j)
    BY <1>2 DEF Uncounted
  <2>3. \A d \in Cores :
           (InTodo(j, d)' \/ Popped(j, d)') <=> ((InTodo(j, d) \/ Popped(j, d)) /\ d # c)
    BY <1>2, <1>3, <1>4
  <2>4. Uncounted(j)' = Uncounted(j) \ {c}
    BY <1>2, <1>4, <2>1, <2>3 DEF Uncounted
  <2>5. QED
    BY <2>2, <2>4
<1>7. \A k \in Jobs \ {j} : Uncounted(k)' = Uncounted(k)
  <2> TAKE k \in Jobs \ {j}
  <2>1. mask'[k] = mask[k] /\ mask[k] \subseteq Cores
    BY <1>0, <1>t
  <2>2. QED
    BY <1>3, <1>4, <2>1 DEF Uncounted
<1>8. run_count[j] = Cardinality(Uncounted(j)) /\ IsFiniteSet(Uncounted(j))
  BY <1>0, <1>2, CoreSets DEF CountInv, Enqueued
<1>9. /\ run_count'[j] = Cardinality(Uncounted(j) \ {c})
      /\ S # {} => Uncounted(j) = {c}
  BY <1>1, <1>6, <1>8, <1>t, LosesOne
<1>10. \A d \in Cores : d \notin int_mask[j]
  BY <1>0, <1>6 DEF RunInv
<1>11. ASSUME NEW d \in S
       PROVE  /\ d \in Cores /\ slot[d] = j /\ hw[d] = NoJob /\ line[d] = "low"
              /\ irq[d] # "retire" /\ ran[j][d] = 0 /\ submit_count[j][d] = 0
              /\ \A u \in Threads : d \notin com[u]
  <2>1. d \in Cores /\ d \in mask[j] /\ d \notin int_mask[j]
    BY <1>1, <1>10, <1>11, <1>t
  <2>2. ~InTodo(j, d)
    <3>1. InTodo(j, d) => d \in Uncounted(j)
      BY <1>2, <2>1 DEF Uncounted
    <3>2. QED
      BY <1>2, <1>9, <1>11, <3>1
  <2>3. ran[j][d] = 0 /\ submit_count[j][d] = 0
    BY <1>0, <2>1 DEF RunInv
  <2>4. slot[d] = j
    <3>1. Runs(j, d) \in Nat /\ Runs(j, d) >= 1
      BY <1>0, <2>1, RunsProperties
    <3>2. QED
      BY <1>0, <1>2, <2>1, <2>2, <2>3, <3>1 DEF RunInv
  <2>5. hw[d] = NoJob /\ line[d] = "low" /\ irq[d] # "retire"
    BY <1>0, <2>1, <2>4 DEF CoreInv
  <2>6. ASSUME NEW u \in Threads, d \in com[u]
        PROVE  FALSE
    <3>1. cur[u] = j /\ com[u] # {}
      BY <1>0, <2>1, <2>4, <2>6 DEF CoreInv
    <3>2. QED
      BY <1>0, <1>6, <3>1 DEF GangInv
  <2>7. QED
    BY <2>1, <2>3, <2>4, <2>5, <2>6
<1>12. ListInv'
  BY <1>0, ListSame
<1>13. ThreadInv'
  <2>1. \A u \in Threads : com'[u] # {} => cur'[u] # NoJob
    BY <1>0, <1>a, <1>b, <1>t DEF ThreadInv
  <2>2. ASSUME NEW d \in Cores, irq'[d] # "idle"
        PROVE  Outside(d)'
    <3>1. Outside(d) /\ d # t /\ d \in Threads
      BY <1>0, <1>j, <1>t, <2>2 DEF ThreadInv, Outside, Threads
    <3>2. QED
      BY <1>0, <1>a, <3>1 DEF Outside
  <2>3. \A u \in Threads : cur'[u] # NoJob /\ com'[u] = {} =>
           u # t /\ cur[u] # NoJob /\ com[u] = {} /\ at'[u] = at[u] /\ cur'[u] = cur[u]
    BY <1>a, <1>b
  <2>4. \A u \in Threads : cur'[u] # NoJob /\ com'[u] = {} => slot'[at'[u]] = cur'[u]
    BY <1>0, <2>3 DEF ThreadInv
  <2>5. \A u, v \in Threads :
           cur'[u] # NoJob /\ com'[u] = {} /\ cur'[v] # NoJob /\ com'[v] = {} /\ at'[u] = at'[v]
           => u = v
    BY <1>0, <2>3 DEF ThreadInv
  <2>6. \A u, v \in Threads, d \in Cores : d \in com'[u] /\ d \in com'[v] => u = v
    BY <1>0, <1>11, <1>a, <1>b DEF ThreadInv
  <2>7. QED
    BY <2>1, <2>2, <2>4, <2>5, <2>6 DEF ThreadInv
<1>14. CoreInv'
  <2>1. ASSUME NEW d \in Cores, NEW u \in Threads, d \in com'[u]
        PROVE  slot[d] = cur'[u] /\ hw[d] = NoJob /\ line[d] = "low" /\ irq[d] # "retire"
    <3>1. CASE u = t
      BY <1>11, <1>b, <2>1, <3>1
    <3>2. CASE u # t
      BY <1>0, <1>a, <2>1, <3>2 DEF CoreInv
    <3>3. QED
      BY <3>1, <3>2
  <2>2. QED
    BY <1>0, <1>4, <1>t, <2>1 DEF CoreInv
<1>15. RunInv'
  <2> SUFFICES ASSUME NEW k \in Jobs, NEW d \in Cores
               PROVE  RunInv!(k, d)'
    BY DEF RunInv
  <2>1. RunInv!(k, d)
    BY <1>0 DEF RunInv
  <2>2. d \in int_mask[k] => Enqueued(k)' /\ Uncounted(k)' = {}
    BY <1>4, <1>7, <1>10, <2>1
  <2>3. Runs(k, d) \in Nat /\ Runs(k, d) >= 1
    BY <1>0, RunsProperties
  <2>4. ASSUME NEW u \in Threads, slot[d] = k, d \in com'[u]
        PROVE  ran[k][d] = submit_count[k][d] /\ submit_count[k][d] < Runs(k, d)
    <3>1. CASE u = t
      BY <1>11, <1>b, <2>3, <2>4, <3>1
    <3>2. CASE u # t
      BY <1>a, <2>1, <2>4, <3>2
    <3>3. QED
      BY <3>1, <3>2
  <2>5. QED
    BY <1>0, <1>4, <2>1, <2>2, <2>4
<1>16. GangInv'
  <2> SUFFICES ASSUME NEW u \in Threads, com'[u] # {}
               PROVE  Uncounted(cur[u])' = {}
    BY DEF GangInv
  <2>1. CASE u = t
    BY <1>6, <1>9, <1>b, <2>1
  <2>2. CASE u # t
    <3>1. PICK k \in Jobs : k = cur[u]
      BY <1>0, <1>a, <1>t, <2>2 DEF ThreadInv
    <3>2. Uncounted(k) = {} /\ k # j
      BY <1>0, <1>6, <1>a, <2>2, <3>1 DEF GangInv
    <3>3. Uncounted(k)' = {} /\ cur'[u] = k
      BY <1>7, <1>a, <2>2, <3>1, <3>2
    <3>4. QED
      BY <3>3
  <2>3. QED
    BY <2>1, <2>2
<1>17. CountInv'
  <2>1. \A k \in Jobs \ {j} : run_count'[k] = run_count[k]
    BY <1>1, <1>t
  <2>2. ASSUME NEW k \in Jobs, mem'[k] # "none"
        PROVE  /\ run_count'[k] = Cardinality(Uncounted(k)')
               /\ interrupt_count'[k] = Cardinality(Unretired(k)')
    <3>1. interrupt_count'[k] = Cardinality(Unretired(k)')
      BY <1>0, <1>5, <2>2 DEF CountInv
    <3>2. CASE k = j
      BY <1>6, <1>9, <3>1, <3>2
    <3>3. CASE k # j
      BY <1>0, <1>7, <2>1, <2>2, <3>1, <3>3 DEF CountInv
    <3>4. QED
      BY <3>2, <3>3
  <2>3. \A k \in Jobs : done'[k] => Enqueued(k)' /\ Unretired(k)' = {}
    BY <1>0, <1>4, <1>5 DEF CountInv
  <2>4. QED
    BY <1>0, <2>2, <2>3 DEF CountInv
<1>18. QED
  BY <1>12, <1>13, <1>14, <1>15, <1>16, <1>17 DEF IInv

\* rknpu_job_subcore_commit() starts a core whose job every core has popped, or
\* refuses.
LEMMA CommitCoreKeeps ==
  ASSUME IInv, TypeOK', NEW t \in Threads, NEW c \in Cores, CommitCore(t, c)
  PROVE  IInv'
<1>0. /\ TypeOK /\ ListInv /\ ThreadInv /\ CoreInv /\ RunInv /\ GangInv /\ CountInv
      /\ UNCHANGED <<todo, slot, mask, args, next, at, irq, ijob, ran, mem, pc,
                     submit_count, run_count, interrupt_count, done, work>>
  BY DEF IInv, CommitCore, subcore, counts, alloc, handler
<1>t. /\ slot \in [Cores -> Jobs \cup {NoJob}] /\ ijob \in [Cores -> Jobs \cup {NoJob}]
      /\ cur \in [Threads -> Jobs \cup {NoJob}] /\ at \in [Threads -> Cores]
      /\ com \in [Threads -> SUBSET Cores] /\ int_mask \in [Jobs -> SUBSET Cores]
      /\ hw \in [Cores -> Jobs \cup {NoJob}] /\ line \in [Cores -> {"low", "good", "bad"}]
      /\ \A d \in Cores : irq[d] = "idle" <=> ijob[d] = NoJob
      /\ NoJob \notin Jobs
  BY <1>0, ConstantsAssumption DEF TypeOK
<1>j. PICK j \in Jobs : j = cur[t]
  BY <1>t DEF CommitCore
<1>1. /\ c \in com[t] /\ com' = [com EXCEPT ![t] = com[t] \ {c}]
      /\ cur' = [cur EXCEPT ![t] = IF com[t] = {c} THEN NoJob ELSE j]
  BY <1>j DEF CommitCore, First
<1>a. \A u \in Threads \ {t} : cur'[u] = cur[u] /\ com'[u] = com[u]
  BY <1>1, <1>t
<1>b. cur'[t] = (IF com[t] = {c} THEN NoJob ELSE j) /\ com'[t] = com[t] \ {c}
  BY <1>1, <1>t
<1>2. /\ slot[c] = j /\ hw[c] = NoJob /\ line[c] = "low" /\ irq[c] # "retire"
      /\ Uncounted(j) = {}
      /\ ran[j][c] = submit_count[j][c] /\ submit_count[j][c] < Runs(j, c)
  <2>1. slot[c] = j /\ hw[c] = NoJob /\ line[c] = "low" /\ irq[c] # "retire"
    BY <1>0, <1>1, <1>j DEF CoreInv
  <2>2. Uncounted(j) = {}
    BY <1>0, <1>1, <1>j DEF GangInv
  <2>3. ran[j][c] = submit_count[j][c] /\ submit_count[j][c] < Runs(j, c)
    BY <1>0, <1>1, <2>1 DEF RunInv
  <2>4. QED
    BY <2>1, <2>2, <2>3
<1>3. Enqueued(j)
  BY <1>0, <1>2, <1>t DEF ListInv
<1>4. /\ line' = line
      /\ \A d \in Cores \ {c} : hw'[d] = hw[d]
      /\ hw'[c] = NoJob \/ (hw'[c] = j /\ c \in int_mask'[j])
      /\ \A k \in Jobs \ {j} : int_mask'[k] = int_mask[k]
      /\ int_mask'[j] = int_mask[j] \/ int_mask'[j] = int_mask[j] \cup {c}
  <2>1. CASE CommitFails(cur[t])
    BY <1>2, <1>t, <2>1 DEF CommitCore
  <2>2. CASE ~CommitFails(cur[t])
    <3>1. /\ hw' = [hw EXCEPT ![c] = j] /\ line' = [line EXCEPT ![c] = "low"]
          /\ int_mask' = [int_mask EXCEPT ![j] = int_mask[j] \cup {c}]
      BY <1>j, <2>2 DEF CommitCore, StartCore
    <3>2. line' = line
      BY <1>2, <1>t, <3>1
    <3>3. QED
      BY <1>t, <3>1, <3>2
  <2>3. QED
    BY <2>1, <2>2
<1>5. \A k \in Jobs, d \in Cores : Popped(k, d)' <=> Popped(k, d)
  <2> TAKE k \in Jobs, d \in Cores
  <2>1. com[t] # {} /\ ~(cur'[t] = k /\ com'[t] = {})
    BY <1>1, <1>b, <1>t
  <2>2. \A u \in Threads :
           (cur'[u] = k /\ com'[u] = {} /\ at'[u] = d) <=> (cur[u] = k /\ com[u] = {} /\ at[u] = d)
    BY <1>0, <1>a, <2>1
  <2>3. QED
    BY <2>2 DEF Popped
<1>6. /\ \A k \in Jobs : Enqueued(k)' <=> Enqueued(k)
      /\ \A k \in Jobs, d \in Cores :
            (InTodo(k, d)' <=> InTodo(k, d)) /\ Runs(k, d)' = Runs(k, d)
  BY <1>0, SameOps DEF Enqueued
<1>7. \A k \in Jobs : Uncounted(k)' = Uncounted(k) /\ Unretired(k)' = Unretired(k)
  BY <1>0, <1>5, <1>6, UncountedSame, UnretiredSame
<1>8. \A u \in Threads, d \in Cores :
         d \in com'[u] => d \in com[u] /\ cur'[u] = cur[u] /\ d # c
  BY <1>0, <1>1, <1>a, <1>b, <1>j DEF ThreadInv
<1>9. ListInv'
  BY <1>0, ListSame
<1>10. ThreadInv'
  <2>1. \A u \in Threads : com'[u] # {} => cur'[u] # NoJob
    BY <1>0, <1>a, <1>b, <1>t DEF ThreadInv
  <2>2. ASSUME NEW d \in Cores, irq'[d] # "idle"
        PROVE  Outside(d)'
    <3>1. Outside(d) /\ d # t /\ d \in Threads
      BY <1>0, <1>j, <1>t, <2>2 DEF ThreadInv, Outside, Threads
    <3>2. QED
      BY <1>0, <1>a, <3>1 DEF Outside
  <2>3. \A u \in Threads : cur'[u] # NoJob /\ com'[u] = {} =>
           cur[u] # NoJob /\ com[u] = {} /\ at'[u] = at[u] /\ cur'[u] = cur[u]
    BY <1>0, <1>1, <1>a, <1>b
  <2>4. QED
    BY <1>0, <1>8, <2>1, <2>2, <2>3 DEF ThreadInv
<1>11. CoreInv'
  <2> SUFFICES ASSUME NEW d \in Cores
               PROVE  CoreInv!(d)'
    BY DEF CoreInv
  <2>1. CoreInv!(d)
    BY <1>0 DEF CoreInv
  <2>2. irq[d] \in {"complete", "signal", "wake"} =>
           /\ Enqueued(ijob[d])' /\ ~InTodo(ijob[d], d)'
    BY <1>0, <1>6, <1>t, <2>1
  <2>3. \A k \in Jobs : int_mask[k] \subseteq int_mask'[k]
    BY <1>4
  <2>4. \A u \in Threads : d \in com'[u] =>
           slot'[d] = cur'[u] /\ hw'[d] = NoJob /\ line'[d] = "low" /\ irq'[d] # "retire"
    BY <1>0, <1>4, <1>8, <2>1
  <2>5. hw'[d] # NoJob =>
           slot'[d] = hw'[d] /\ d \in int_mask'[hw'[d]] /\ line'[d] = "low" /\ irq'[d] # "retire"
    BY <1>0, <1>2, <1>4, <1>t, <2>1, <2>3
  <2>6. line'[d] # "low" =>
              /\ line'[d] = "good" /\ irq'[d] # "retire"
              /\ slot'[d] # NoJob /\ d \in int_mask'[slot'[d]]
    BY <1>0, <1>4, <1>t, <2>1, <2>3
  <2>7. irq'[d] = "retire" => ijob'[d] = slot'[d] /\ d \in int_mask'[slot'[d]]
    BY <1>0, <1>t, <2>1, <2>3
  <2>8. QED
    BY <1>0, <1>4, <2>1, <2>2, <2>4, <2>5, <2>6, <2>7
<1>12. RunInv'
  <2> SUFFICES ASSUME NEW k \in Jobs, NEW d \in Cores
               PROVE  RunInv!(k, d)'
    BY DEF RunInv
  <2>1. RunInv!(k, d)
    BY <1>0 DEF RunInv
  <2>2. d \in int_mask'[k] => d \in int_mask[k] \/ (k = j /\ d = c)
    BY <1>4
  <2>3. d \in int_mask'[k] => Enqueued(k)' /\ Uncounted(k)' = {}
    BY <1>2, <1>3, <1>6, <1>7, <2>1, <2>2
  <2>4. d \notin int_mask'[k] => d \notin int_mask[k]
    BY <1>4
  <2>5. slot[d] = k /\ (hw'[d] = k \/ \E u \in Threads : d \in com'[u]) =>
           ran[k][d] = submit_count[k][d] /\ submit_count[k][d] < Runs(k, d)
    BY <1>2, <1>4, <1>8, <1>t, <2>1
  <2>6. QED
    BY <1>0, <1>4, <1>6, <2>1, <2>3, <2>4, <2>5
<1>13. GangInv'
  <2> SUFFICES ASSUME NEW u \in Threads, com'[u] # {}
               PROVE  Uncounted(cur[u])' = {}
    BY DEF GangInv
  <2>1. com[u] # {} /\ cur'[u] = cur[u]
    BY <1>1, <1>a, <1>b, <1>j
  <2>2. PICK k \in Jobs : k = cur[u]
    BY <1>0, <1>t, <2>1 DEF ThreadInv
  <2>3. Uncounted(k)' = {} /\ cur'[u] = k
    BY <1>0, <1>7, <2>1, <2>2 DEF GangInv
  <2>4. QED
    BY <2>3
<1>14. CountInv'
  BY <1>0, <1>6, <1>7, <1>t DEF CountInv
<1>15. QED
  BY <1>9, <1>10, <1>11, <1>12, <1>13, <1>14 DEF IInv

-----------------------------------------------------------------------------
(* The hardware and the interrupt handler *)

\* A core finishes a run that its slot's job has not yet counted.
LEMMA HwFinishesKeeps ==
  ASSUME IInv, TypeOK', NEW c \in Cores, HwFinishes(c)
  PROVE  IInv'
<1>0. /\ TypeOK /\ ListInv /\ ThreadInv /\ CoreInv /\ RunInv /\ GangInv /\ CountInv
      /\ UNCHANGED <<todo, slot, mask, args, next, cur, com, at, irq, ijob, int_mask, mem, pc,
                     submit_count, run_count, interrupt_count, done, work>>
  BY DEF IInv, HwFinishes, subcore, counts, result, alloc, dispatch, handler
<1>t. /\ slot \in [Cores -> Jobs \cup {NoJob}] /\ ijob \in [Cores -> Jobs \cup {NoJob}]
      /\ cur \in [Threads -> Jobs \cup {NoJob}]
      /\ hw \in [Cores -> Jobs \cup {NoJob}] /\ line \in [Cores -> {"low", "good", "bad"}]
      /\ ran \in [Jobs -> [Cores -> Nat]] /\ submit_count \in [Jobs -> [Cores -> Nat]]
      /\ \A d \in Cores : irq[d] = "idle" <=> ijob[d] = NoJob
      /\ NoJob \notin Jobs
  BY <1>0, ConstantsAssumption DEF TypeOK
<1>j. PICK j \in Jobs : j = hw[c]
  BY <1>t DEF HwFinishes
<1>1. /\ ran' = [ran EXCEPT ![j][c] = ran[j][c] + 1]
      /\ hw' = [hw EXCEPT ![c] = NoJob] /\ line' = [line EXCEPT ![c] = "good"]
  BY <1>j DEF HwFinishes
<1>a. /\ ran'[j][c] = ran[j][c] + 1
      /\ \A k \in Jobs, d \in Cores : ~(k = j /\ d = c) => ran'[k][d] = ran[k][d]
      /\ hw'[c] = NoJob /\ line'[c] = "good"
      /\ \A d \in Cores \ {c} : hw'[d] = hw[d] /\ line'[d] = line[d]
  BY <1>1, <1>t
<1>2. /\ slot[c] = j /\ c \in int_mask[j] /\ line[c] = "low" /\ irq[c] \notin {"status", "retire"}
      /\ \A u \in Threads : c \notin com[u]
  BY <1>0, <1>j, <1>t DEF CoreInv
<1>3. ran[j][c] = submit_count[j][c] /\ submit_count[j][c] < Runs(j, c)
  BY <1>0, <1>2, <1>j DEF RunInv
<1>4. /\ \A k \in Jobs : Enqueued(k)' <=> Enqueued(k)
      /\ \A k \in Jobs, d \in Cores :
            /\ InTodo(k, d)' <=> InTodo(k, d)
            /\ Popped(k, d)' <=> Popped(k, d)
            /\ Runs(k, d)' = Runs(k, d)
  BY <1>0, SameOps DEF Enqueued
<1>5. \A k \in Jobs : Uncounted(k)' = Uncounted(k) /\ Unretired(k)' = Unretired(k)
  BY <1>0, <1>4, UncountedSame, UnretiredSame
<1>6. ListInv'
  BY <1>0, ListSame
<1>7. ThreadInv'
  BY <1>0 DEF ThreadInv, Outside
<1>8. CoreInv'
  <2> SUFFICES ASSUME NEW d \in Cores
               PROVE  CoreInv!(d)'
    BY DEF CoreInv
  <2>1. CoreInv!(d)
    BY <1>0 DEF CoreInv
  <2>2. irq[d] \in {"complete", "signal", "wake"} =>
           /\ Enqueued(ijob[d])' /\ ~InTodo(ijob[d], d)'
    BY <1>0, <1>4, <1>t, <2>1
  <2>3. CASE d = c
    BY <1>0, <1>2, <1>a, <1>t, <2>1, <2>2, <2>3
  <2>4. CASE d # c
    BY <1>0, <1>a, <2>1, <2>2, <2>4
  <2>5. QED
    BY <2>3, <2>4
<1>9. RunInv'
  <2> SUFFICES ASSUME NEW k \in Jobs, NEW d \in Cores
               PROVE  RunInv!(k, d)'
    BY DEF RunInv
  <2>1. RunInv!(k, d)
    BY <1>0 DEF RunInv
  <2>2. CASE k = j /\ d = c
    <3>1. Runs(j, c) \in Nat /\ ran[j][c] \in Nat /\ submit_count[j][c] \in Nat
      BY <1>0, <1>t, RunsProperties
    <3>2. QED
      BY <1>0, <1>2, <1>3, <1>4, <1>5, <1>a, <1>t, <2>1, <2>2, <3>1
  <2>3. CASE d = c /\ k # j
    BY <1>0, <1>2, <1>4, <1>5, <1>a, <2>1, <2>3
  <2>4. CASE d # c
    BY <1>0, <1>4, <1>5, <1>a, <2>1, <2>4
  <2>5. QED
    BY <2>2, <2>3, <2>4
<1>10. GangInv'
  BY <1>0, <1>5, <1>t DEF GangInv, ThreadInv
<1>11. CountInv'
  BY <1>0, <1>4, <1>5, <1>t DEF CountInv
<1>12. QED
  BY <1>6, <1>7, <1>8, <1>9, <1>10, <1>11 DEF IInv

\* The handler takes the job of the slot.
LEMMA IrqEntersKeeps ==
  ASSUME IInv, TypeOK', NEW c \in Cores, IrqEnters(c)
  PROVE  IInv'
<1>0. /\ TypeOK /\ ListInv /\ ThreadInv /\ CoreInv /\ RunInv /\ GangInv /\ CountInv
      /\ UNCHANGED <<todo, slot, mask, args, next, cur, com, at, hw, line, ran, int_mask, mem, pc,
                     submit_count, run_count, interrupt_count, done, work>>
  BY DEF IInv, IrqEnters, subcore, counts, result, alloc, dispatch, device
<1>t. /\ slot \in [Cores -> Jobs \cup {NoJob}] /\ ijob \in [Cores -> Jobs \cup {NoJob}]
      /\ cur \in [Threads -> Jobs \cup {NoJob}] /\ irq \in [Cores -> IrqValues]
      /\ line \in [Cores -> {"low", "good", "bad"}]
      /\ \A d \in Cores : irq[d] = "idle" <=> ijob[d] = NoJob
      /\ NoJob \notin Jobs
  BY <1>0, ConstantsAssumption DEF TypeOK
<1>1. /\ irq[c] = "idle" /\ line[c] # "low" /\ slot[c] # NoJob /\ Outside(c)
      /\ irq'[c] = "status" /\ ijob'[c] = slot[c]
      /\ \A d \in Cores \ {c} : irq'[d] = irq[d] /\ ijob'[d] = ijob[d]
  BY <1>t DEF IrqEnters
<1>2. line[c] = "good"
  BY <1>0, <1>1 DEF CoreInv
<1>4. /\ \A k \in Jobs : Enqueued(k)' <=> Enqueued(k)
      /\ \A k \in Jobs, d \in Cores :
            /\ InTodo(k, d)' <=> InTodo(k, d)
            /\ Popped(k, d)' <=> Popped(k, d)
            /\ Runs(k, d)' = Runs(k, d)
            /\ (irq'[d] = "complete" /\ ijob'[d] = k) <=> (irq[d] = "complete" /\ ijob[d] = k)
  BY <1>0, <1>1, SameOps DEF Enqueued
<1>5. \A k \in Jobs : Uncounted(k)' = Uncounted(k) /\ Unretired(k)' = Unretired(k)
  BY <1>0, <1>4, UncountedSame, UnretiredSame
<1>6. ListInv'
  BY <1>0, ListSame
<1>7. ThreadInv'
  BY <1>0, <1>1 DEF ThreadInv, Outside
<1>8. CoreInv'
  <2> SUFFICES ASSUME NEW d \in Cores
               PROVE  CoreInv!(d)'
    BY DEF CoreInv
  <2>1. CoreInv!(d)
    BY <1>0 DEF CoreInv
  <2>2. CASE d = c
    BY <1>0, <1>1, <1>2, <2>1, <2>2
  <2>3. CASE d # c
    <3>1. irq[d] \in {"complete", "signal", "wake"} =>
             /\ Enqueued(ijob[d])' /\ ~InTodo(ijob[d], d)'
      BY <1>0, <1>1, <1>4, <1>t, <2>1, <2>3
    <3>2. QED
      BY <1>0, <1>1, <2>1, <2>3, <3>1
  <2>4. QED
    BY <2>2, <2>3
<1>9. RunInv'
  <2> SUFFICES ASSUME NEW k \in Jobs, NEW d \in Cores
               PROVE  RunInv!(k, d)'
    BY DEF RunInv
  <2>1. RunInv!(k, d)
    BY <1>0 DEF RunInv
  <2>2. irq'[d] = "retire" => irq[d] = "retire"
    BY <1>1
  <2>3. QED
    BY <1>0, <1>4, <1>5, <2>1, <2>2
<1>10. GangInv'
  BY <1>0, <1>5, <1>t DEF GangInv, ThreadInv
<1>11. CountInv'
  <2>1. \A d \in Cores : irq'[d] \in {"signal", "wake"} => irq[d] = irq'[d] /\ ijob'[d] = ijob[d]
    BY <1>1
  <2>2. QED
    BY <1>0, <1>4, <1>5, <1>t, <2>1 DEF CountInv
<1>12. QED
  BY <1>6, <1>7, <1>8, <1>9, <1>10, <1>11 DEF IInv

\* What the handler knows when it looks at the status of its interrupt.
LEMMA StatusFacts ==
  ASSUME IInv, NEW c \in Cores, irq[c] = "status"
  PROVE  \E j \in Jobs :
            /\ ijob[c] = j /\ slot[c] = j /\ c \in int_mask[j] /\ hw[c] = NoJob
            /\ Uncounted(j) = {} /\ Outside(c) /\ com[c] = {}
            /\ \A u \in Threads : c \notin com[u]
            /\ ran[j][c] = submit_count[j][c] + 1 /\ submit_count[j][c] < Runs(j, c)
<1>0. TypeOK /\ ThreadInv /\ CoreInv /\ RunInv
  BY DEF IInv
<1>t. /\ ijob \in [Cores -> Jobs \cup {NoJob}] /\ NoJob \notin Jobs
      /\ \A d \in Cores : irq[d] = "idle" <=> ijob[d] = NoJob
      /\ \A d \in Cores : d \in Threads
  BY <1>0, ConstantsAssumption DEF TypeOK, Threads
<1>j. PICK j \in Jobs : j = ijob[c]
  BY <1>t
<1>1. line[c] = "good" /\ slot[c] = j /\ c \in int_mask[j]
  BY <1>0, <1>j DEF CoreInv
<1>2. hw[c] = NoJob /\ \A u \in Threads : c \notin com[u]
  BY <1>0, <1>1 DEF CoreInv
<1>3. Uncounted(j) = {} /\ ran[j][c] = submit_count[j][c] + 1 /\ submit_count[j][c] < Runs(j, c)
  BY <1>0, <1>1 DEF RunInv
<1>4. Outside(c)
  BY <1>0 DEF ThreadInv
<1>5. com[c] = {}
  BY <1>0, <1>4, <1>t DEF ThreadInv, Outside
<1>6. QED
  BY <1>1, <1>2, <1>3, <1>4, <1>5, <1>j

\* The next segment of the job is committed to this core.
LEMMA DoneRecommitsKeeps ==
  ASSUME IInv, TypeOK', NEW c \in Cores, DoneRecommits(c)
  PROVE  IInv'
<1>0. /\ TypeOK /\ ListInv /\ ThreadInv /\ CoreInv /\ RunInv /\ GangInv /\ CountInv
      /\ UNCHANGED <<todo, slot, mask, args, next, at, hw, ran, int_mask, mem, pc,
                     run_count, interrupt_count, done, work>>
  BY DEF IInv, DoneRecommits, subcore, result, alloc
<1>t. /\ slot \in [Cores -> Jobs \cup {NoJob}] /\ ijob \in [Cores -> Jobs \cup {NoJob}]
      /\ cur \in [Threads -> Jobs \cup {NoJob}] /\ irq \in [Cores -> IrqValues]
      /\ line \in [Cores -> {"low", "good", "bad"}] /\ com \in [Threads -> SUBSET Cores]
      /\ ran \in [Jobs -> [Cores -> Nat]] /\ submit_count \in [Jobs -> [Cores -> Nat]]
      /\ \A d \in Cores : irq[d] = "idle" <=> ijob[d] = NoJob
      /\ NoJob \notin Jobs /\ \A d \in Cores : d \in Threads
  BY <1>0, ConstantsAssumption DEF TypeOK, Threads
<1>j. PICK j \in Jobs :
            /\ ijob[c] = j /\ slot[c] = j /\ c \in int_mask[j] /\ hw[c] = NoJob
            /\ Uncounted(j) = {} /\ Outside(c) /\ com[c] = {}
            /\ \A u \in Threads : c \notin com[u]
            /\ ran[j][c] = submit_count[j][c] + 1 /\ submit_count[j][c] < Runs(j, c)
  BY StatusFacts DEF DoneRecommits
<1>1. /\ submit_count[j][c] + 1 < Segments(j, c)
      /\ submit_count'[j][c] = submit_count[j][c] + 1
      /\ \A k \in Jobs, d \in Cores :
            ~(k = j /\ d = c) => submit_count'[k][d] = submit_count[k][d]
      /\ line'[c] = "low" /\ irq'[c] = "idle" /\ ijob'[c] = NoJob
      /\ cur'[c] = j /\ com'[c] = {c}
      /\ \A d \in Cores \ {c} : line'[d] = line[d] /\ irq'[d] = irq[d] /\ ijob'[d] = ijob[d]
      /\ \A u \in Threads \ {c} : cur'[u] = cur[u] /\ com'[u] = com[u]
  BY <1>j, <1>t DEF DoneRecommits
<1>2. \A k \in Jobs, d \in Cores : Popped(k, d)' <=> Popped(k, d)
  <2> TAKE k \in Jobs, d \in Cores
  <2>1. cur[c] # k /\ com'[c] # {}
    BY <1>1, <1>j, <1>t DEF Outside
  <2>2. \A u \in Threads :
           (cur'[u] = k /\ com'[u] = {} /\ at'[u] = d) <=> (cur[u] = k /\ com[u] = {} /\ at[u] = d)
    BY <1>0, <1>1, <2>1
  <2>3. QED
    BY <2>2 DEF Popped
<1>4. /\ \A k \in Jobs : Enqueued(k)' <=> Enqueued(k)
      /\ \A k \in Jobs, d \in Cores :
            /\ InTodo(k, d)' <=> InTodo(k, d)
            /\ Runs(k, d)' = Runs(k, d)
            /\ (irq'[d] = "complete" /\ ijob'[d] = k) <=> (irq[d] = "complete" /\ ijob[d] = k)
  <2>1. irq[c] = "status"
    BY DEF DoneRecommits
  <2>2. QED
    BY <1>0, <1>1, <2>1, SameOps DEF Enqueued
<1>5. \A k \in Jobs : Uncounted(k)' = Uncounted(k) /\ Unretired(k)' = Unretired(k)
  BY <1>0, <1>2, <1>4, UncountedSame, UnretiredSame
<1>6. ListInv'
  BY <1>0, ListSame
<1>7. ThreadInv'
  <2>1. \A u \in Threads : com'[u] # {} => cur'[u] # NoJob
    BY <1>0, <1>1, <1>t DEF ThreadInv
  <2>2. \A d \in Cores : irq'[d] # "idle" => Outside(d)'
    BY <1>0, <1>1, <1>t DEF ThreadInv, Outside
  <2>3. \A u \in Threads : cur'[u] # NoJob /\ com'[u] = {} =>
           cur[u] # NoJob /\ com[u] = {} /\ at'[u] = at[u] /\ cur'[u] = cur[u]
    BY <1>0, <1>1
  <2>4. \A u, v \in Threads, d \in Cores : d \in com'[u] /\ d \in com'[v] => u = v
    BY <1>0, <1>1, <1>j DEF ThreadInv
  <2>5. QED
    BY <1>0, <2>1, <2>2, <2>3, <2>4 DEF ThreadInv
<1>8. CoreInv'
  <2> SUFFICES ASSUME NEW d \in Cores
               PROVE  CoreInv!(d)'
    BY DEF CoreInv
  <2>1. CoreInv!(d)
    BY <1>0 DEF CoreInv
  <2>2. CASE d = c
    <3>1. \A u \in Threads : d \in com'[u] => slot'[d] = cur'[u]
      BY <1>0, <1>1, <1>j, <2>2
    <3>2. QED
      BY <1>0, <1>1, <1>j, <2>1, <2>2, <3>1
  <2>3. CASE d # c
    <3>1. irq[d] \in {"complete", "signal", "wake"} =>
             /\ Enqueued(ijob[d])' /\ ~InTodo(ijob[d], d)'
      BY <1>0, <1>1, <1>4, <1>t, <2>1, <2>3
    <3>2. \A u \in Threads : d \in com'[u] => d \in com[u] /\ cur'[u] = cur[u]
      BY <1>1, <2>3
    <3>3. QED
      BY <1>0, <1>1, <2>1, <2>3, <3>1, <3>2
  <2>4. QED
    BY <2>2, <2>3
<1>9. RunInv'
  <2> SUFFICES ASSUME NEW k \in Jobs, NEW d \in Cores
               PROVE  RunInv!(k, d)'
    BY DEF RunInv
  <2>1. RunInv!(k, d)
    BY <1>0 DEF RunInv
  <2>2. CASE k = j /\ d = c
    <3>1. /\ Runs(j, c) \in Nat /\ ran[j][c] \in Nat /\ submit_count[j][c] \in Nat
          /\ Segments(j, c) \in Nat /\ Runs(j, c) >= Segments(j, c)
      BY <1>0, <1>t, RunsProperties
    <3>2. ran[j][c] = submit_count'[j][c] /\ submit_count'[j][c] < Runs(j, c)
      BY <1>1, <1>j, <3>1
    <3>3. QED
      BY <1>0, <1>1, <1>4, <1>5, <1>j, <2>1, <2>2, <3>2
  <2>3. CASE d = c /\ k # j
    BY <1>0, <1>1, <1>4, <1>5, <1>j, <2>1, <2>3
  <2>4. CASE d # c
    <3>2. \A u \in Threads : d \in com'[u] => d \in com[u]
      BY <1>1, <2>4
    <3>3. QED
      BY <1>0, <1>1, <1>4, <1>5, <2>1, <2>4, <3>2
  <2>5. QED
    BY <2>2, <2>3, <2>4
<1>10. GangInv'
  <2> SUFFICES ASSUME NEW u \in Threads, com'[u] # {}
               PROVE  Uncounted(cur[u])' = {}
    BY DEF GangInv
  <2>1. CASE u = c
    <3>1. cur'[u] = j /\ Uncounted(j)' = {}
      BY <1>1, <1>5, <1>j, <2>1
    <3>2. QED
      BY <3>1
  <2>2. CASE u # c
    <3>1. cur'[u] = cur[u] /\ com'[u] = com[u]
      BY <1>1, <2>2
    <3>2. PICK k \in Jobs : k = cur[u]
      BY <1>0, <1>t, <3>1 DEF ThreadInv
    <3>3. Uncounted(k)' = {}
      BY <1>0, <1>5, <3>1, <3>2 DEF GangInv
    <3>4. QED
      BY <3>1, <3>2, <3>3
  <2>3. QED
    BY <2>1, <2>2
<1>11. CountInv'
  <2>1. \A d \in Cores : irq'[d] \in {"signal", "wake"} => irq[d] = irq'[d] /\ ijob'[d] = ijob[d]
    BY <1>1
  <2>2. QED
    BY <1>0, <1>4, <1>5, <1>t, <2>1 DEF CountInv
<1>12. QED
  BY <1>6, <1>7, <1>8, <1>9, <1>10, <1>11 DEF IInv

\* The last segment of this core has run.
LEMMA DoneLastSegmentKeeps ==
  ASSUME IInv, TypeOK', NEW c \in Cores, DoneLastSegment(c)
  PROVE  IInv'
<1>0. /\ TypeOK /\ ListInv /\ ThreadInv /\ CoreInv /\ RunInv /\ GangInv /\ CountInv
      /\ UNCHANGED <<todo, slot, mask, args, next, cur, com, at, hw, ran, int_mask, mem, pc, ijob,
                     run_count, interrupt_count, done, work>>
  BY DEF IInv, DoneLastSegment, subcore, result, alloc, dispatch
<1>t. /\ slot \in [Cores -> Jobs \cup {NoJob}] /\ ijob \in [Cores -> Jobs \cup {NoJob}]
      /\ cur \in [Threads -> Jobs \cup {NoJob}] /\ irq \in [Cores -> IrqValues]
      /\ line \in [Cores -> {"low", "good", "bad"}]
      /\ ran \in [Jobs -> [Cores -> Nat]] /\ submit_count \in [Jobs -> [Cores -> Nat]]
      /\ \A d \in Cores : irq[d] = "idle" <=> ijob[d] = NoJob
      /\ NoJob \notin Jobs
  BY <1>0, ConstantsAssumption DEF TypeOK
<1>j. PICK j \in Jobs :
            /\ ijob[c] = j /\ slot[c] = j /\ c \in int_mask[j] /\ hw[c] = NoJob
            /\ Uncounted(j) = {} /\ Outside(c) /\ com[c] = {}
            /\ \A u \in Threads : c \notin com[u]
            /\ ran[j][c] = submit_count[j][c] + 1 /\ submit_count[j][c] < Runs(j, c)
  BY StatusFacts DEF DoneLastSegment
<1>1. /\ submit_count[j][c] + 1 >= Segments(j, c)
      /\ submit_count'[j][c] = submit_count[j][c] + 1
      /\ \A k \in Jobs, d \in Cores :
            ~(k = j /\ d = c) => submit_count'[k][d] = submit_count[k][d]
      /\ line'[c] = "low" /\ irq'[c] = "retire" /\ irq[c] = "status"
      /\ \A d \in Cores \ {c} : line'[d] = line[d] /\ irq'[d] = irq[d]
  BY <1>j, <1>t DEF DoneLastSegment
<1>4. /\ \A k \in Jobs : Enqueued(k)' <=> Enqueued(k)
      /\ \A k \in Jobs, d \in Cores :
            /\ InTodo(k, d)' <=> InTodo(k, d)
            /\ Popped(k, d)' <=> Popped(k, d)
            /\ Runs(k, d)' = Runs(k, d)
            /\ (irq'[d] = "complete" /\ ijob'[d] = k) <=> (irq[d] = "complete" /\ ijob[d] = k)
  BY <1>0, <1>1, SameOps DEF Enqueued
<1>5. \A k \in Jobs : Uncounted(k)' = Uncounted(k) /\ Unretired(k)' = Unretired(k)
  BY <1>0, <1>4, UncountedSame, UnretiredSame
<1>6. ListInv'
  BY <1>0, ListSame
<1>7. ThreadInv'
  BY <1>0, <1>1, <1>j DEF ThreadInv, Outside
<1>8. CoreInv'
  <2> SUFFICES ASSUME NEW d \in Cores
               PROVE  CoreInv!(d)'
    BY DEF CoreInv
  <2>1. CoreInv!(d)
    BY <1>0 DEF CoreInv
  <2>2. CASE d = c
    BY <1>0, <1>1, <1>j, <2>1, <2>2
  <2>3. CASE d # c
    <3>1. irq[d] \in {"complete", "signal", "wake"} =>
             /\ Enqueued(ijob[d])' /\ ~InTodo(ijob[d], d)'
      BY <1>0, <1>4, <1>t, <2>1, <2>3
    <3>2. QED
      BY <1>0, <1>1, <2>1, <2>3, <3>1
  <2>4. QED
    BY <2>2, <2>3
<1>9. RunInv'
  <2> SUFFICES ASSUME NEW k \in Jobs, NEW d \in Cores
               PROVE  RunInv!(k, d)'
    BY DEF RunInv
  <2>1. RunInv!(k, d)
    BY <1>0 DEF RunInv
  <2>2. CASE k = j /\ d = c
    <3>1. /\ Runs(j, c) \in Nat /\ ran[j][c] \in Nat /\ submit_count[j][c] \in Nat
          /\ Segments(j, c) \in Nat /\ (Segments(j, c) # 0 => Runs(j, c) = Segments(j, c))
      BY <1>0, <1>t, RunsProperties
    <3>2. Segments(j, c) = 0 => Runs(j, c) = 1
      BY DEF Runs
    <3>3. ran[j][c] = Runs(j, c) /\ submit_count'[j][c] = Runs(j, c)
      BY <1>1, <1>j, <3>1, <3>2
    <3>4. QED
      BY <1>0, <1>1, <1>4, <1>5, <1>j, <1>t, <2>1, <2>2, <3>3
  <2>3. CASE d = c /\ k # j
    BY <1>0, <1>1, <1>4, <1>5, <1>j, <2>1, <2>3
  <2>4. CASE d # c
    BY <1>0, <1>1, <1>4, <1>5, <2>1, <2>4
  <2>5. QED
    BY <2>2, <2>3, <2>4
<1>10. GangInv'
  BY <1>0, <1>5, <1>t DEF GangInv, ThreadInv
<1>11. CountInv'
  <2>1. \A d \in Cores : irq'[d] \in {"signal", "wake"} => irq[d] = irq'[d]
    BY <1>1
  <2>2. QED
    BY <1>0, <1>4, <1>5, <1>t, <2>1 DEF CountInv
<1>12. QED
  BY <1>6, <1>7, <1>8, <1>9, <1>10, <1>11 DEF IInv

\* The core is free again; the handler still owes the decrement of interrupt_count.
LEMMA DoneRetiresKeeps ==
  ASSUME IInv, TypeOK', NEW c \in Cores, DoneRetires(c)
  PROVE  IInv'
<1>0. /\ TypeOK /\ ListInv /\ ThreadInv /\ CoreInv /\ RunInv /\ GangInv /\ CountInv
      /\ UNCHANGED <<todo, mask, args, next, cur, com, at, hw, line, ran, int_mask, mem, pc, ijob,
                     submit_count, run_count, interrupt_count, done, work>>
  BY DEF IInv, DoneRetires, counts, result, alloc, dispatch, device
<1>t. /\ slot \in [Cores -> Jobs \cup {NoJob}] /\ ijob \in [Cores -> Jobs \cup {NoJob}]
      /\ cur \in [Threads -> Jobs \cup {NoJob}] /\ irq \in [Cores -> IrqValues]
      /\ at \in [Threads -> Cores] /\ mask \in [Jobs -> SUBSET Cores]
      /\ \A d \in Cores : irq[d] = "idle" <=> ijob[d] = NoJob
      /\ NoJob \notin Jobs
  BY <1>0, ConstantsAssumption DEF TypeOK
<1>1. /\ irq[c] = "retire" /\ irq'[c] = "complete" /\ slot'[c] = NoJob
      /\ \A d \in Cores \ {c} : slot'[d] = slot[d] /\ irq'[d] = irq[d]
  BY <1>t DEF DoneRetires
<1>j. PICK j \in Jobs : j = ijob[c]
  BY <1>1, <1>t
<1>2. /\ slot[c] = j /\ c \in int_mask[j] /\ hw[c] = NoJob /\ line[c] = "low"
      /\ \A u \in Threads : c \notin com[u]
  BY <1>0, <1>1, <1>j DEF CoreInv
<1>3. Enqueued(j) /\ c \in mask[j] /\ ~InTodo(j, c) /\ Uncounted(j) = {}
  <2>1. Enqueued(j) /\ c \in mask[j]
    BY <1>0, <1>2, <1>t DEF ListInv
  <2>2. ~InTodo(j, c)
    BY <1>0, <1>2 DEF ListInv
  <2>3. Uncounted(j) = {}
    BY <1>0, <1>2 DEF RunInv
  <2>4. QED
    BY <2>1, <2>2, <2>3
<1>4. \A u \in Threads : cur[u] # NoJob /\ com[u] = {} => at[u] # c
  <2> SUFFICES ASSUME NEW u \in Threads, cur[u] # NoJob, com[u] = {}, at[u] = c
               PROVE  FALSE
    OBVIOUS
  <2>1. cur[u] = j
    BY <1>0, <1>2 DEF ThreadInv
  <2>2. Popped(j, c)
    BY <2>1 DEF Popped
  <2>3. c \in Uncounted(j)
    BY <1>3, <2>2 DEF Uncounted
  <2>4. QED
    BY <1>3, <2>3
<1>5. /\ \A k \in Jobs : Enqueued(k)' <=> Enqueued(k)
      /\ \A k \in Jobs, d \in Cores :
            /\ InTodo(k, d)' <=> InTodo(k, d)
            /\ Popped(k, d)' <=> Popped(k, d)
            /\ Runs(k, d)' = Runs(k, d)
  BY <1>0, SameOps DEF Enqueued
<1>6. \A k \in Jobs : Uncounted(k)' = Uncounted(k)
  BY <1>0, <1>5, UncountedSame
<1>7. \A k \in Jobs : Unretired(k)' = Unretired(k)
  <2> TAKE k \in Jobs
  <2>1. mask'[k] = mask[k] /\ mask[k] \subseteq Cores
    BY <1>0, <1>t
  <2>2. \A d \in Cores :
           (slot'[d] = k \/ (irq'[d] = "complete" /\ ijob'[d] = k))
           <=> (slot[d] = k \/ (irq[d] = "complete" /\ ijob[d] = k))
    BY <1>0, <1>1, <1>2, <1>j, <1>t
  <2>3. QED
    BY <1>5, <2>1, <2>2 DEF Unretired
<1>8. ListInv'
  <2>1. \A k \in Jobs, d \in Cores :
           InTodo(k, d)' => Enqueued(k)' /\ d \in mask'[k] /\ slot'[d] # k
    BY <1>0, <1>1, <1>5, <1>t DEF ListInv
  <2>2. ASSUME NEW d \in Cores, slot'[d] # NoJob
        PROVE  Enqueued(slot[d])' /\ d \in mask'[slot'[d]]
    <3>1. PICK k \in Jobs : k = slot[d] /\ slot'[d] = k
      BY <1>1, <1>t, <2>2
    <3>2. Enqueued(k)' /\ d \in mask'[k]
      BY <1>0, <1>5, <1>t, <3>1 DEF ListInv
    <3>3. QED
      BY <3>1, <3>2
  <2>3. QED
    BY <1>0, <2>1, <2>2 DEF ListInv
<1>9. ThreadInv'
  <2>1. \A d \in Cores : irq'[d] # "idle" => irq[d] # "idle"
    BY <1>1
  <2>2. \A u \in Threads : cur[u] # NoJob /\ com[u] = {} => slot'[at[u]] = cur[u]
    BY <1>0, <1>1, <1>4, <1>t DEF ThreadInv
  <2>3. QED
    BY <1>0, <2>1, <2>2 DEF ThreadInv, Outside
<1>10. CoreInv'
  <2> SUFFICES ASSUME NEW d \in Cores
               PROVE  CoreInv!(d)'
    BY DEF CoreInv
  <2>1. CoreInv!(d)
    BY <1>0 DEF CoreInv
  <2>2. CASE d = c
    <3>1. Enqueued(ijob[c])' /\ ~InTodo(ijob[c], c)' /\ c \in mask'[ijob[c]]
      BY <1>0, <1>3, <1>5, <1>j
    <3>2. QED
      BY <1>0, <1>1, <1>2, <1>j, <1>t, <2>2, <3>1
  <2>3. CASE d # c
    <3>1. irq[d] \in {"complete", "signal", "wake"} =>
             /\ Enqueued(ijob[d])' /\ ~InTodo(ijob[d], d)'
      BY <1>0, <1>5, <1>t, <2>1, <2>3
    <3>2. QED
      BY <1>0, <1>1, <2>1, <2>3, <3>1
  <2>4. QED
    BY <2>2, <2>3
<1>11. RunInv'
  <2> SUFFICES ASSUME NEW k \in Jobs, NEW d \in Cores
               PROVE  RunInv!(k, d)'
    BY DEF RunInv
  <2>1. RunInv!(k, d)
    BY <1>0 DEF RunInv
  <2>2. CASE k = j /\ d = c
    <3>1. ran[j][c] = Runs(j, c) /\ submit_count[j][c] = Runs(j, c)
      BY <1>1, <1>2, <2>1, <2>2
    <3>2. QED
      BY <1>0, <1>1, <1>5, <1>6, <1>t, <2>1, <2>2, <3>1
  <2>3. CASE d = c /\ k # j
    BY <1>0, <1>1, <1>2, <1>5, <1>6, <1>t, <2>1, <2>3
  <2>4. CASE d # c
    BY <1>0, <1>1, <1>5, <1>6, <2>1, <2>4
  <2>5. QED
    BY <2>2, <2>3, <2>4
<1>12. GangInv'
  BY <1>0, <1>6, <1>t DEF GangInv, ThreadInv
<1>13. CountInv'
  <2>1. \A d \in Cores : irq'[d] \in {"signal", "wake"} => irq[d] = irq'[d]
    BY <1>1
  <2>2. QED
    BY <1>0, <1>5, <1>6, <1>7, <1>t, <2>1 DEF CountInv
<1>14. QED
  BY <1>8, <1>9, <1>10, <1>11, <1>12, <1>13 DEF IInv

\* The handler of c after the core is free: of the invariant only the counters
\* of the job are concerned.
LEMMA HandlerFrame ==
  ASSUME IInv, TypeOK', NEW c \in Cores, NEW i \in {"signal", "wake", "idle"},
         irq[c] \in {"complete", "signal", "wake"}, irq' = [irq EXCEPT ![c] = i],
         IF i = "idle" THEN ijob' = [ijob EXCEPT ![c] = NoJob]
                       ELSE UNCHANGED <<ijob, next>>,
         \A d \in Cores \ {c} : next'[d] = next[d],
         UNCHANGED <<todo, slot, mask, args, cur, com, at, hw, line, ran, int_mask, mem,
                     submit_count, run_count>>,
         \A k \in Jobs :
            /\ Enqueued(k)' <=> Enqueued(k)
            /\ pc'[k] = "new" <=> pc[k] = "new"
            /\ pc'[k] = "returned" <=> pc[k] = "returned"
  PROVE  /\ ListInv' /\ ThreadInv' /\ CoreInv' /\ RunInv' /\ GangInv'
         /\ \A k \in Jobs : Uncounted(k)' = Uncounted(k)
         /\ \A k \in Jobs :
               IF irq[c] = "complete" /\ ijob[c] = k THEN Unretired(k)' = Unretired(k) \ {c}
                                                     ELSE Unretired(k)' = Unretired(k)
<1>0. TypeOK /\ ListInv /\ ThreadInv /\ CoreInv /\ RunInv /\ GangInv /\ CountInv
  BY DEF IInv
<1>t. /\ slot \in [Cores -> Jobs \cup {NoJob}] /\ ijob \in [Cores -> Jobs \cup {NoJob}]
      /\ cur \in [Threads -> Jobs \cup {NoJob}] /\ irq \in [Cores -> IrqValues]
      /\ mask \in [Jobs -> SUBSET Cores]
      /\ \A d \in Cores : irq[d] = "idle" <=> ijob[d] = NoJob
      /\ NoJob \notin Jobs
  BY <1>0, ConstantsAssumption DEF TypeOK
<1>1. /\ irq'[c] = i /\ (i # "idle" => ijob'[c] = ijob[c] /\ next'[c] = next[c])
      /\ \A d \in Cores \ {c} : irq'[d] = irq[d] /\ ijob'[d] = ijob[d]
  BY <1>t
<1>2. \A k \in Jobs, d \in Cores :
            /\ InTodo(k, d)' <=> InTodo(k, d)
            /\ Popped(k, d)' <=> Popped(k, d)
            /\ Runs(k, d)' = Runs(k, d)
  BY SameOps
<1>3. \A k \in Jobs : Uncounted(k)' = Uncounted(k)
  BY <1>0, <1>2, UncountedSame
<1>4. ASSUME NEW k \in Jobs
      PROVE  IF irq[c] = "complete" /\ ijob[c] = k THEN Unretired(k)' = Unretired(k) \ {c}
                                                    ELSE Unretired(k)' = Unretired(k)
  <2>1. mask'[k] = mask[k] /\ mask[k] \subseteq Cores
    BY <1>t
  <2>2. \A d \in Cores \ {c} :
           (irq'[d] = "complete" /\ ijob'[d] = k) <=> (irq[d] = "complete" /\ ijob[d] = k)
    BY <1>1
  <2>3. CASE irq[c] = "complete" /\ ijob[c] = k
    <3>1. Enqueued(k) /\ slot[c] # k /\ ~InTodo(k, c) /\ irq'[c] # "complete"
      BY <1>0, <1>1, <2>3 DEF CoreInv
    <3>2. Unretired(k)' = Unretired(k) \ {c}
      BY <1>2, <2>1, <2>2, <3>1 DEF Unretired
    <3>3. QED
      BY <2>3, <3>2
  <2>4. CASE ~(irq[c] = "complete" /\ ijob[c] = k)
    <3>1. irq'[c] # "complete"
      BY <1>1
    <3>2. \A d \in Cores :
             (irq'[d] = "complete" /\ ijob'[d] = k) <=> (irq[d] = "complete" /\ ijob[d] = k)
      BY <2>2, <2>4, <3>1
    <3>3. \A d \in Cores : (InTodo(k, d)' <=> InTodo(k, d)) /\ slot'[d] = slot[d]
      BY <1>2
    <3>4. Unretired(k)' = Unretired(k)
      BY <2>1, <3>2, <3>3, UnretiredOf
    <3>5. QED
      BY <2>4, <3>4
  <2>5. QED
    BY <2>3, <2>4
<1>5. ListInv'
  BY <1>0, <1>2, <1>t DEF ListInv
<1>6. ThreadInv'
  BY <1>0, <1>1 DEF ThreadInv, Outside
<1>7. CoreInv'
  <2> SUFFICES ASSUME NEW d \in Cores
               PROVE  CoreInv!(d)'
    BY DEF CoreInv
  <2>1. CoreInv!(d)
    BY <1>0 DEF CoreInv
  <2>2. /\ irq'[d] = "status" => irq[d] = "status" /\ ijob'[d] = ijob[d]
        /\ irq'[d] = "retire" => irq[d] = "retire" /\ ijob'[d] = ijob[d]
    BY <1>1
  <2>3. irq'[d] \in {"complete", "signal", "wake"} =>
           /\ irq[d] \in {"complete", "signal", "wake"} /\ ijob'[d] = ijob[d]
    BY <1>1
  <2>4. ASSUME irq'[d] \in {"complete", "signal", "wake"}
        PROVE  /\ Enqueued(ijob[d])' /\ d \in mask'[ijob'[d]]
               /\ slot'[d] # ijob'[d] /\ ~InTodo(ijob[d], d)'
    <3>1. PICK k \in Jobs : k = ijob[d] /\ ijob'[d] = k
      BY <1>t, <2>3, <2>4
    <3>2. Enqueued(k)' /\ d \in mask[k] /\ slot[d] # k /\ ~InTodo(k, d)'
      BY <1>2, <2>1, <2>3, <2>4, <3>1
    <3>3. QED
      BY <3>1, <3>2
  <2>5. QED
    BY <2>1, <2>2, <2>4
<1>8. RunInv'
  <2> SUFFICES ASSUME NEW k \in Jobs, NEW d \in Cores
               PROVE  RunInv!(k, d)'
    BY DEF RunInv
  <2>1. RunInv!(k, d)
    BY <1>0 DEF RunInv
  <2>2. irq'[d] = "retire" => irq[d] = "retire"
    BY <1>1
  <2>3. QED
    BY <1>2, <1>3, <2>1, <2>2
<1>9. GangInv'
  BY <1>0, <1>3, <1>t DEF GangInv, ThreadInv
<1>10. QED
  BY <1>3, <1>4, <1>5, <1>6, <1>7, <1>8, <1>9

\* atomic_dec_and_test(&job->interrupt_count): the core is no longer counted.
LEMMA CompleteCounts ==
  ASSUME IInv, NEW c \in Cores, irq[c] = "complete"
  PROVE  \E j \in Jobs :
            /\ ijob[c] = j /\ mem[j] # "none" /\ Enqueued(j) /\ ~done[j] /\ ~work[j]
            /\ c \in Unretired(j)
            /\ Cardinality(Unretired(j) \ {c}) = interrupt_count[j] - 1
            /\ interrupt_count[j] = 1 => Unretired(j) = {c}
<1>0. TypeOK /\ CoreInv /\ CountInv
  BY DEF IInv
<1>j. PICK j \in Jobs : j = ijob[c]
  BY <1>0 DEF TypeOK
<1>1. Enqueued(j) /\ mem[j] # "none" /\ c \in mask[j]
  BY <1>0, <1>j DEF CoreInv, Enqueued
<1>2. c \in Unretired(j)
  BY <1>1, <1>j DEF Unretired
<1>3. ~done[j] /\ ~work[j] /\ interrupt_count[j] = Cardinality(Unretired(j))
  BY <1>0, <1>1, <1>2 DEF CountInv
<1>4. IsFiniteSet(Unretired(j))
  BY <1>0, CoreSets
<1>5. QED
  BY <1>1, <1>2, <1>3, <1>4, <1>j, LosesOne

\* The cores before the last only decrement the counter.
LEMMA DoneNotLastCoreKeeps ==
  ASSUME IInv, TypeOK', NEW c \in Cores, DoneNotLastCore(c)
  PROVE  IInv'
<1>0. /\ TypeOK /\ CountInv
      /\ UNCHANGED <<todo, slot, mask, args, cur, com, at, hw, line, ran, int_mask, mem, pc,
                     submit_count, run_count, done, work>>
  BY DEF IInv, DoneNotLastCore, subcore, result, alloc, device
<1>t. /\ irq \in [Cores -> IrqValues] /\ ijob \in [Cores -> Jobs \cup {NoJob}]
      /\ next \in [Threads -> SUBSET Cores] /\ interrupt_count \in [Jobs -> Int]
      /\ \A d \in Cores : d \in Threads
      /\ \A d \in Cores : irq[d] = "idle" <=> ijob[d] = NoJob
  BY <1>0 DEF TypeOK, Threads
<1>j. PICK j \in Jobs :
            /\ ijob[c] = j /\ mem[j] # "none" /\ Enqueued(j) /\ ~done[j] /\ ~work[j]
            /\ c \in Unretired(j)
            /\ Cardinality(Unretired(j) \ {c}) = interrupt_count[j] - 1
            /\ interrupt_count[j] = 1 => Unretired(j) = {c}
  BY CompleteCounts DEF DoneNotLastCore
<1>1. /\ irq[c] = "complete" /\ irq' = [irq EXCEPT ![c] = "idle"]
      /\ ijob' = [ijob EXCEPT ![c] = NoJob]
      /\ interrupt_count' = [interrupt_count EXCEPT ![j] = interrupt_count[j] - 1]
      /\ \A d \in Cores \ {c} : next'[d] = next[d]
  BY <1>j, <1>t DEF DoneNotLastCore
<1>2. \A k \in Jobs : Enqueued(k)' <=> Enqueued(k)
  BY <1>0 DEF Enqueued
<1>3. /\ ListInv' /\ ThreadInv' /\ CoreInv' /\ RunInv' /\ GangInv'
      /\ \A k \in Jobs : Uncounted(k)' = Uncounted(k)
      /\ \A k \in Jobs :
            IF irq[c] = "complete" /\ ijob[c] = k THEN Unretired(k)' = Unretired(k) \ {c}
                                                  ELSE Unretired(k)' = Unretired(k)
  BY <1>0, <1>1, <1>2, HandlerFrame
<1>4. /\ Unretired(j)' = Unretired(j) \ {c}
      /\ \A k \in Jobs \ {j} : Unretired(k)' = Unretired(k)
  BY <1>1, <1>3, <1>j
<1>5. CountInv'
  <2>1. \A d \in Cores : irq'[d] \in {"signal", "wake"} => irq[d] = irq'[d] /\ ijob'[d] = ijob[d]
    BY <1>1, <1>t
  <2>2. ASSUME NEW k \in Jobs, mem'[k] # "none"
        PROVE  /\ run_count'[k] = Cardinality(Uncounted(k)')
               /\ interrupt_count'[k] = Cardinality(Unretired(k)')
    <3>1. run_count'[k] = Cardinality(Uncounted(k)')
      BY <1>0, <1>3, <2>2 DEF CountInv
    <3>2. CASE k = j
      BY <1>1, <1>4, <1>j, <1>t, <3>1, <3>2
    <3>3. CASE k # j
      BY <1>0, <1>1, <1>4, <1>t, <2>2, <3>1, <3>3 DEF CountInv
    <3>4. QED
      BY <3>2, <3>3
  <2>3. \A k \in Jobs : done'[k] => Enqueued(k)' /\ Unretired(k)' = {}
    BY <1>0, <1>2, <1>4, <1>j DEF CountInv
  <2>4. QED
    BY <1>0, <2>1, <2>2, <2>3 DEF CountInv
<1>6. QED
  BY <1>3, <1>5 DEF IInv

\* The last core completes the job: no other core has it any more.
LEMMA DoneLastCoreKeeps ==
  ASSUME IInv, TypeOK', NEW c \in Cores, DoneLastCore(c)
  PROVE  IInv'
<1>0. /\ TypeOK /\ CountInv
      /\ UNCHANGED <<todo, slot, mask, args, cur, com, at, next, hw, line, ran, int_mask, mem, pc,
                     ijob, submit_count, run_count, work>>
  BY DEF IInv, DoneLastCore, subcore, alloc, device, dispatch
<1>t. /\ irq \in [Cores -> IrqValues] /\ ijob \in [Cores -> Jobs \cup {NoJob}]
      /\ interrupt_count \in [Jobs -> Int] /\ done \in [Jobs -> BOOLEAN]
      /\ \A d \in Cores : irq[d] = "idle" <=> ijob[d] = NoJob
  BY <1>0 DEF TypeOK
<1>j. PICK j \in Jobs :
            /\ ijob[c] = j /\ mem[j] # "none" /\ Enqueued(j) /\ ~done[j] /\ ~work[j]
            /\ c \in Unretired(j)
            /\ Cardinality(Unretired(j) \ {c}) = interrupt_count[j] - 1
            /\ interrupt_count[j] = 1 => Unretired(j) = {c}
  BY CompleteCounts DEF DoneLastCore
<1>1. /\ irq[c] = "complete" /\ irq' = [irq EXCEPT ![c] = "signal"]
      /\ interrupt_count[j] = 1
      /\ interrupt_count' = [interrupt_count EXCEPT ![j] = 0]
      /\ done' = [done EXCEPT ![j] = TRUE]
  BY <1>j DEF DoneLastCore
<1>2. \A k \in Jobs : Enqueued(k)' <=> Enqueued(k)
  BY <1>0 DEF Enqueued
<1>3. /\ ListInv' /\ ThreadInv' /\ CoreInv' /\ RunInv' /\ GangInv'
      /\ \A k \in Jobs : Uncounted(k)' = Uncounted(k)
      /\ \A k \in Jobs :
            IF irq[c] = "complete" /\ ijob[c] = k THEN Unretired(k)' = Unretired(k) \ {c}
                                                  ELSE Unretired(k)' = Unretired(k)
  BY <1>0, <1>1, <1>2, HandlerFrame
<1>4. /\ Unretired(j)' = {} /\ Unretired(j) \ {c} = {}
      /\ \A k \in Jobs \ {j} : Unretired(k)' = Unretired(k)
  BY <1>1, <1>3, <1>j
<1>5. CountInv'
  <2>1. \A d \in Cores : irq'[d] \in {"signal", "wake"} => done'[ijob'[d]]
    <3> SUFFICES ASSUME NEW d \in Cores, irq'[d] \in {"signal", "wake"}
                 PROVE  done'[ijob'[d]]
      OBVIOUS
    <3>1. CASE d = c
      BY <1>0, <1>1, <1>j, <1>t, <3>1
    <3>2. CASE d # c
      <4>1. irq[d] \in {"signal", "wake"} /\ ijob[d] \in Jobs
        BY <1>1, <1>t, <3>2
      <4>2. done[ijob[d]]
        BY <1>0, <4>1 DEF CountInv
      <4>3. QED
        BY <1>0, <1>1, <1>t, <4>1, <4>2
    <3>3. QED
      BY <3>1, <3>2
  <2>2. ASSUME NEW k \in Jobs, mem'[k] # "none"
        PROVE  /\ run_count'[k] = Cardinality(Uncounted(k)')
               /\ interrupt_count'[k] = Cardinality(Unretired(k)')
    <3>1. run_count'[k] = Cardinality(Uncounted(k)')
      BY <1>0, <1>3, <2>2 DEF CountInv
    <3>2. CASE k = j
      <4>1. interrupt_count'[j] = interrupt_count[j] - 1
        BY <1>1, <1>t
      <4>2. QED
        BY <1>4, <1>j, <3>1, <3>2, <4>1
    <3>3. CASE k # j
      BY <1>0, <1>1, <1>4, <1>t, <2>2, <3>1, <3>3 DEF CountInv
    <3>4. QED
      BY <3>2, <3>3
  <2>3. \A k \in Jobs : done'[k] => Enqueued(k)' /\ Unretired(k)' = {}
    BY <1>0, <1>1, <1>2, <1>4, <1>j, <1>t DEF CountInv
  <2>4. \A k \in Jobs : work'[k] => done'[k]
    BY <1>0, <1>1, <1>t DEF CountInv
  <2>5. QED
    BY <2>1, <2>2, <2>3, <2>4 DEF CountInv
<1>6. QED
  BY <1>3, <1>5 DEF IInv

\* The completed job's clean-up is queued.
LEMMA DoneSignalsKeeps ==
  ASSUME IInv, TypeOK', NEW c \in Cores, DoneSignals(c)
  PROVE  IInv'
<1>0. /\ TypeOK /\ CountInv
      /\ UNCHANGED <<todo, slot, mask, args, cur, com, at, next, hw, line, ran, int_mask, mem, pc,
                     ijob, submit_count, run_count, interrupt_count, done>>
  BY DEF IInv, DoneSignals, subcore, counts, device, dispatch
<1>t. /\ irq \in [Cores -> IrqValues] /\ ijob \in [Cores -> Jobs \cup {NoJob}]
      /\ work \in [Jobs -> BOOLEAN]
      /\ \A d \in Cores : irq[d] = "idle" <=> ijob[d] = NoJob
  BY <1>0 DEF TypeOK
<1>1. /\ irq[c] = "signal" /\ irq' = [irq EXCEPT ![c] = "wake"] /\ done[ijob[c]]
      /\ \A k \in Jobs : work'[k] => work[k] \/ k = ijob[c]
  BY <1>0, <1>t DEF DoneSignals, CountInv
<1>2. \A k \in Jobs : Enqueued(k)' <=> Enqueued(k)
  BY <1>0 DEF Enqueued
<1>3. /\ ListInv' /\ ThreadInv' /\ CoreInv' /\ RunInv' /\ GangInv'
      /\ \A k \in Jobs : Uncounted(k)' = Uncounted(k)
      /\ \A k \in Jobs :
            IF irq[c] = "complete" /\ ijob[c] = k THEN Unretired(k)' = Unretired(k) \ {c}
                                                  ELSE Unretired(k)' = Unretired(k)
  BY <1>0, <1>1, <1>2, HandlerFrame
<1>4. \A k \in Jobs : Unretired(k)' = Unretired(k)
  BY <1>1, <1>3
<1>5. CountInv'
  <2>1. \A d \in Cores : irq'[d] \in {"signal", "wake"} => irq[d] \in {"signal", "wake"}
    BY <1>1, <1>t
  <2>2. \A k \in Jobs : work'[k] => done[k]
    BY <1>0, <1>1 DEF CountInv
  <2>3. QED
    BY <1>0, <1>2, <1>3, <1>4, <2>1, <2>2 DEF CountInv
<1>6. QED
  BY <1>3, <1>5 DEF IInv

\* The sleepers are woken.
LEMMA DoneWakesKeeps ==
  ASSUME IInv, TypeOK', NEW c \in Cores, DoneWakes(c)
  PROVE  IInv'
<1>0. /\ TypeOK /\ CountInv
      /\ UNCHANGED <<todo, slot, mask, args, cur, com, at, hw, line, ran, int_mask, mem,
                     submit_count, run_count, interrupt_count, done, work>>
  BY DEF IInv, DoneWakes, subcore, counts, result, alloc, device
<1>t. /\ irq \in [Cores -> IrqValues] /\ ijob \in [Cores -> Jobs \cup {NoJob}]
      /\ next \in [Threads -> SUBSET Cores] /\ \A d \in Cores : d \in Threads
      /\ \A d \in Cores : irq[d] = "idle" <=> ijob[d] = NoJob
  BY <1>0 DEF TypeOK, Threads
<1>1. /\ irq[c] = "wake" /\ irq' = [irq EXCEPT ![c] = "idle"]
      /\ ijob' = [ijob EXCEPT ![c] = NoJob]
      /\ \A d \in Cores \ {c} : next'[d] = next[d]
      /\ \A k \in Jobs : pc'[k] = pc[k] \/ (pc[k] = "asleep" /\ pc'[k] = "wait")
  BY <1>t DEF DoneWakes, Woken
<1>2. \A k \in Jobs :
         /\ Enqueued(k)' <=> Enqueued(k)
         /\ pc'[k] = "new" <=> pc[k] = "new"
         /\ pc'[k] = "returned" <=> pc[k] = "returned"
  BY <1>0, <1>1 DEF Enqueued
<1>3. /\ ListInv' /\ ThreadInv' /\ CoreInv' /\ RunInv' /\ GangInv'
      /\ \A k \in Jobs : Uncounted(k)' = Uncounted(k)
      /\ \A k \in Jobs :
            IF irq[c] = "complete" /\ ijob[c] = k THEN Unretired(k)' = Unretired(k) \ {c}
                                                  ELSE Unretired(k)' = Unretired(k)
  BY <1>0, <1>1, <1>2, HandlerFrame
<1>4. \A k \in Jobs : Unretired(k)' = Unretired(k)
  BY <1>1, <1>3
<1>5. CountInv'
  <2>1. \A d \in Cores : irq'[d] \in {"signal", "wake"} => irq[d] = irq'[d] /\ ijob'[d] = ijob[d]
    BY <1>1, <1>t
  <2>2. QED
    BY <1>0, <1>2, <1>3, <1>4, <2>1 DEF CountInv
<1>6. QED
  BY <1>3, <1>5 DEF IInv

-----------------------------------------------------------------------------
(* The theorems *)

\* The invariant holds at first.
LEMMA GangInit == Init => IInv
<1> SUFFICES ASSUME Init
             PROVE  IInv
  OBVIOUS
<1>1. TypeOK
  BY TypeInit
<1>2. \A c \in Cores : todo[c] = <<>> /\ slot[c] = NoJob /\ hw[c] = NoJob /\ irq[c] = "idle"
                       /\ line[c] = "low"
  BY DEF Init
<1>3. /\ \A j \in Jobs : mem[j] = "none" /\ pc[j] = "new" /\ ~done[j] /\ int_mask[j] = {}
      /\ \A j \in Jobs : ~work[j]
      /\ \A j \in Jobs, c \in Cores : ran[j][c] = 0 /\ submit_count[j][c] = 0
      /\ \A t \in Threads : cur[t] = NoJob /\ com[t] = {}
  BY DEF Init
<1>4. \A j \in Jobs, c \in Cores : ~InTodo(j, c) /\ Runs(j, c) \in Nat
  BY <1>1, <1>2, RunsProperties DEF InTodo
<1>5. ListInv
  BY <1>2, <1>3, <1>4 DEF ListInv
<1>6. ThreadInv
  BY <1>2, <1>3 DEF ThreadInv
<1>7. CoreInv
  BY <1>2, <1>3 DEF CoreInv
<1>8. RunInv
  <2>1. \A j \in Jobs, c \in Cores : slot[c] # j /\ ~Enqueued(j) /\ 0 <= Runs(j, c)
    BY <1>2, <1>3, <1>4, ConstantsAssumption DEF Enqueued
  <2>2. QED
    BY <1>3, <2>1 DEF RunInv
<1>9. GangInv
  BY <1>3 DEF GangInv
<1>10. CountInv
  BY <1>2, <1>3 DEF CountInv
<1>11. QED
  BY <1>1, <1>5, <1>6, <1>7, <1>8, <1>9, <1>10 DEF IInv

\* A step that changes nothing.
LEMMA GangStutter ==
  ASSUME IInv, UNCHANGED vars
  PROVE  IInv'
<1>1. UNCHANGED <<core, submit_count, run_count, interrupt_count, done, work, mem, pc, next>>
  BY DEF vars, core, subcore, counts, result, alloc, dispatch, handler, device
<1>2. TypeOK'
  BY TypeStep DEF IInv
<1>3. \A k \in Jobs :
         /\ Enqueued(k)' <=> Enqueued(k)
         /\ mem[k] = "none" => pc'[k] \in {"new", "returned"}
  BY <1>1 DEF Enqueued, IInv, ListInv
<1>4. \A c \in Cores : irq[c] # "idle" => Outside(c)'
  BY <1>1 DEF IInv, ThreadInv, Outside, core
<1>5. QED
  BY <1>1, <1>2, <1>3, <1>4, GangFrame

\* Every step keeps it.
LEMMA GangStep == IInv /\ [Next]_vars => IInv'
<1> SUFFICES ASSUME IInv, [Next]_vars
             PROVE  IInv'
  OBVIOUS
<1>0. TypeOK'
  BY TypeStep DEF IInv
<1>1. ASSUME NEW j \in Jobs,
             SubmitFails(j) \/ Submit(j) \/ SubmitterStep(j) \/ CleanupWork(j)
      PROVE  IInv'
  BY <1>0, <1>1, SubmitterKeeps, SubmitKeeps, PickCoreKeeps, EnqueueKeeps DEF SubmitterStep
<1>2. ASSUME NEW t \in Threads, DispatchStep(t)
      PROVE  IInv'
  BY <1>0, <1>2, JobNextReturnsKeeps, JobNextPopsKeeps, JobNextCountsKeeps, CommitCoreKeeps
     DEF DispatchStep
<1>3. ASSUME NEW c \in Cores, HwFinishes(c) \/ HandlerStep(c)
      PROVE  IInv'
  BY <1>0, <1>3, HwFinishesKeeps, IrqEntersKeeps, DoneRecommitsKeeps, DoneLastSegmentKeeps,
     DoneRetiresKeeps, DoneNotLastCoreKeeps, DoneLastCoreKeeps, DoneSignalsKeeps, DoneWakesKeeps
     DEF HandlerStep
<1>4. CASE UNCHANGED vars
  BY <1>4, GangStutter
<1>5. QED
  BY <1>1, <1>2, <1>3, <1>4 DEF Next, AllReturned

\* A started core has its gang: all popped it, and none lost it before running it.
LEMMA GangImplies == IInv => GangStarted
<1> SUFFICES ASSUME IInv, NEW c \in Cores, hw[c] # NoJob, NEW d \in mask[hw[c]]
             PROVE  /\ slot[c] = hw[c]
                    /\ ~InTodo(hw[c], d) /\ (slot[d] = hw[c] \/ RanAll(hw[c], d))
  BY DEF GangStarted, IInv, CoreInv
<1>0. TypeOK /\ CoreInv /\ RunInv
  BY DEF IInv
<1>j. PICK j \in Jobs : j = hw[c]
  BY <1>0 DEF TypeOK
<1>1. slot[c] = j /\ c \in int_mask[j]
  BY <1>0, <1>j DEF CoreInv
<1>2. Enqueued(j) /\ Uncounted(j) = {}
  BY <1>0, <1>1 DEF RunInv
<1>3. d \in mask[j] /\ d \in Cores
  BY <1>0, <1>j DEF TypeOK
<1>4. ~InTodo(j, d)
  BY <1>2, <1>3 DEF Uncounted
<1>5. slot[d] # j => RanAll(j, d)
  <2>1. Runs(j, d) \in Nat /\ Runs(j, d) >= 1 /\ Runs(j, d) >= Segments(j, d)
    BY <1>0, <1>3, RunsProperties
  <2>2. slot[d] # j => ran[j][d] = Runs(j, d)
    BY <1>0, <1>2, <1>3, <1>4 DEF RunInv
  <2>3. QED
    BY <2>1, <2>2 DEF RanAll
<1>6. QED
  BY <1>1, <1>4, <1>5, <1>j

\* For any number of cores and jobs, any masks and any interleaving of the
\* rknpu_job_next() calls: a core executes only the job of its slot, and only when
\* every core of the job's mask has popped it.
THEOREM GangsStartTogether == Spec => []GangStarted
  BY GangInit, GangStep, GangImplies, PTL DEF Spec

\* A job that is done has run everywhere, and no core ran too often.
LEMMA RunImplies == IInv => DoneMeansRun
<1> SUFFICES ASSUME IInv, NEW j \in Jobs, NEW c \in Cores
             PROVE  /\ done[j] /\ c \in mask[j] => RanAll(j, c)
                    /\ ran[j][c] <= (IF Segments(j, c) = 0 THEN 1 ELSE Segments(j, c))
  BY DEF DoneMeansRun
<1>0. TypeOK /\ RunInv /\ CountInv
  BY DEF IInv
<1>1. ran[j][c] <= Runs(j, c)
  BY <1>0 DEF RunInv
<1>2. ASSUME done[j], c \in mask[j]
      PROVE  RanAll(j, c)
  <2>1. Enqueued(j) /\ Unretired(j) = {}
    BY <1>0, <1>2 DEF CountInv
  <2>2. ~InTodo(j, c) /\ slot[c] # j
    BY <1>2, <2>1 DEF Unretired
  <2>3. ran[j][c] = Runs(j, c)
    BY <1>0, <1>2, <2>1, <2>2 DEF RunInv
  <2>4. Runs(j, c) \in Nat /\ Runs(j, c) >= 1 /\ Runs(j, c) >= Segments(j, c)
    BY <1>0, RunsProperties
  <2>5. QED
    BY <2>3, <2>4 DEF RanAll
<1>3. QED
  BY <1>1, <1>2 DEF Runs

\* RKNPU_JOB_DONE is set only after every core of the mask has executed every
\* segment of the job, and no core executes a segment twice.
THEOREM DoneJobsHaveRun == Spec => []DoneMeansRun
  BY GangInit, GangStep, RunImplies, PTL DEF Spec

-----------------------------------------------------------------------------
(* What is referred to is not freed *)

\* What FreeInv speaks of, when no handler completes or signals a job.
LEMMA FreeFrame ==
  ASSUME TypeOK, FreeInv, UNCHANGED args,
         \A k \in Jobs :
            /\ pc'[k] \in {"wait", "asleep", "woken"} =>
                  pc[k] \in {"wait", "asleep", "woken"} \/ ~args[k].nonblock
            /\ pc'[k] = "check" => pc[k] = "check" \/ args[k].nonblock
            /\ work'[k] => work[k]
            /\ done[k] => done'[k]
            /\ mem'[k] = "freed" => mem[k] = "freed" \/ done[k]
            /\ mem'[k] = mem[k] \/ mem'[k] = "live" \/ ~args[k].nonblock \/ work[k],
         \A c \in Cores : irq'[c] = "signal" => irq[c] = "signal" /\ ijob'[c] = ijob[c]
  PROVE  FreeInv'
<1>1. ASSUME NEW c \in Cores, irq'[c] = "signal"
      PROVE  ijob[c] \in Jobs
  BY <1>1 DEF TypeOK
<1>2. /\ \A j \in Jobs : args'[j].nonblock \/ args'[j].pc
      /\ \A j \in Jobs : pc'[j] \in {"wait", "asleep", "woken"} => ~args'[j].nonblock
      /\ \A j \in Jobs : pc'[j] = "check" => args'[j].nonblock
      /\ \A j \in Jobs : work'[j] => args'[j].nonblock
      /\ \A j \in Jobs : mem'[j] = "freed" => done'[j]
  BY DEF FreeInv
<1>3. \A c, d \in Cores : irq'[c] = "signal" /\ irq'[d] = "signal" /\ ijob'[c] = ijob'[d] => c = d
  BY DEF FreeInv
<1>4. \A j \in Jobs, c \in Cores : irq'[c] = "signal" /\ ijob'[c] = j =>
         ~work'[j] /\ (args'[j].nonblock => mem'[j] = "live")
  BY DEF FreeInv
<1>5. QED
  BY <1>2, <1>3, <1>4 DEF FreeInv

\* A job is freed by the one who waited for it, or by the clean-up of its completion.
LEMMA FreeSubmitter ==
  ASSUME IInv, FreeInv, NEW j \in Jobs,
         SubmitFails(j) \/ Submit(j) \/ SubmitterStep(j) \/ CleanupWork(j)
  PROVE  FreeInv'
<1>0. /\ TypeOK /\ CountInv
      /\ pc \in [Jobs -> PcValues] /\ mem \in [Jobs -> {"none", "live", "freed"}]
      /\ work \in [Jobs -> BOOLEAN]
  BY DEF IInv, TypeOK
<1>1. UNCHANGED <<args, done, irq, ijob>>
  BY DEF SubmitFails, Submit, SubmitterStep, CleanupWork, CleanNothing, PickCore, Enqueue,
         Scheduled, WaitSleeps, WaitEnds, WaitSucceeds, Returns, result, alloc, handler
<1>2. \A k \in Jobs \ {j} : pc'[k] = pc[k] /\ mem'[k] = mem[k] /\ work'[k] = work[k]
  BY <1>0 DEF SubmitFails, Submit, SubmitterStep, CleanupWork, CleanNothing, PickCore, Enqueue,
         Scheduled, WaitSleeps, WaitEnds, WaitSucceeds, Returns, alloc
<1>3. /\ pc'[j] \in {"wait", "asleep", "woken"} =>
            pc[j] \in {"wait", "asleep", "woken"} \/ ~args[j].nonblock
      /\ pc'[j] = "check" => pc[j] = "check" \/ args[j].nonblock
  <2>1. CASE SubmitFails(j) \/ Submit(j) \/ CleanupWork(j)
    BY <1>0, <2>1 DEF SubmitFails, Submit, CleanupWork
  <2>2. CASE Scheduled(j)
    BY <1>0, <2>2 DEF Scheduled, FreeInv
  <2>3. CASE \/ CleanNothing(j) \/ PickCore(j) \/ Enqueue(j) \/ WaitSleeps(j) \/ WaitEnds(j)
             \/ WaitSucceeds(j) \/ Returns(j)
    BY <1>0, <2>3 DEF CleanNothing, PickCore, Enqueue, WaitSleeps, WaitEnds, WaitSucceeds, Returns
  <2>4. QED
    BY <2>1, <2>2, <2>3 DEF SubmitterStep
<1>4. work'[j] => work[j]
  BY <1>0 DEF SubmitFails, Submit, SubmitterStep, CleanupWork, CleanNothing, PickCore, Enqueue,
         Scheduled, WaitSleeps, WaitEnds, WaitSucceeds, Returns, alloc
<1>5. /\ mem'[j] = "freed" => mem[j] = "freed" \/ done[j]
      /\ mem'[j] = mem[j] \/ mem'[j] = "live" \/ ~args[j].nonblock \/ work[j]
  <2>1. CASE WaitSucceeds(j)
    BY <1>0, <2>1 DEF WaitSucceeds, FreeInv
  <2>2. CASE Returns(j)
    BY <1>0, <2>2 DEF Returns, FreeInv
  <2>3. CASE CleanupWork(j)
    BY <1>0, <2>3 DEF CleanupWork, CountInv
  <2>4. CASE \/ SubmitFails(j) \/ Submit(j) \/ CleanNothing(j) \/ PickCore(j) \/ Enqueue(j)
             \/ Scheduled(j) \/ WaitSleeps(j) \/ WaitEnds(j)
    BY <1>0, <2>4 DEF SubmitFails, Submit, CleanNothing, PickCore, Enqueue, Scheduled, WaitSleeps,
                      WaitEnds, alloc
  <2>5. QED
    BY <2>1, <2>2, <2>3, <2>4 DEF SubmitterStep
<1>6. QED
  BY <1>0, <1>1, <1>2, <1>3, <1>4, <1>5, FreeFrame

\* The last core to retire a job finds it not yet done, so not freed; it alone
\* signals, and it queues the clean-up of an asynchronous job once.
LEMMA FreeHandler ==
  ASSUME IInv, FreeInv, NEW c \in Cores, DoneLastCore(c) \/ DoneSignals(c)
  PROVE  FreeInv'
<1>0. /\ TypeOK /\ CountInv
      /\ UNCHANGED <<args, pc, mem, ijob>>
  BY DEF IInv, DoneLastCore, DoneSignals, alloc
<1>t. /\ irq \in [Cores -> IrqValues] /\ ijob \in [Cores -> Jobs \cup {NoJob}]
      /\ work \in [Jobs -> BOOLEAN] /\ done \in [Jobs -> BOOLEAN]
      /\ mem \in [Jobs -> {"none", "live", "freed"}]
      /\ \A d \in Cores : irq[d] = "idle" <=> ijob[d] = NoJob
  BY <1>0 DEF TypeOK
<1>1. CASE DoneLastCore(c)
  <2>j. PICK j \in Jobs : ijob[c] = j /\ mem[j] # "none" /\ ~done[j] /\ ~work[j]
    BY <1>1, CompleteCounts DEF DoneLastCore
  <2>1. /\ work' = work /\ \A k \in Jobs : done[k] => done'[k]
        /\ irq'[c] = "signal" /\ \A d \in Cores \ {c} : irq'[d] = irq[d]
    BY <1>1, <1>t, <2>j DEF DoneLastCore, alloc
  <2>2. mem[j] = "live"
    BY <1>t, <2>j DEF FreeInv
  <2>3. \A d \in Cores \ {c} : irq[d] = "signal" => ijob[d] # j
    BY <1>0, <2>j DEF CountInv
  <2>4. \A d, e \in Cores : irq'[d] = "signal" /\ irq'[e] = "signal" /\ ijob'[d] = ijob'[e] => d = e
    BY <1>0, <2>1, <2>3, <2>j DEF FreeInv
  <2>5. \A k \in Jobs, d \in Cores : irq'[d] = "signal" /\ ijob'[d] = k =>
           ~work'[k] /\ (args'[k].nonblock => mem'[k] = "live")
    BY <1>0, <2>1, <2>2, <2>j DEF FreeInv
  <2>6. QED
    BY <1>0, <2>1, <2>4, <2>5 DEF FreeInv
<1>2. CASE DoneSignals(c)
  <2>j. PICK j \in Jobs : ijob[c] = j /\ irq[c] = "signal"
    BY <1>2, <1>t DEF DoneSignals
  <2>1. /\ done' = done /\ irq'[c] = "wake" /\ \A d \in Cores \ {c} : irq'[d] = irq[d]
        /\ work'[j] = (work[j] \/ args[j].nonblock)
        /\ \A k \in Jobs \ {j} : work'[k] = work[k]
    BY <1>2, <1>t, <2>j DEF DoneSignals
  <2>2. \A d \in Cores : irq'[d] = "signal" => d # c /\ irq[d] = "signal" /\ ijob[d] # j
    BY <2>1, <2>j DEF FreeInv
  <2>3. \A k \in Jobs : work'[k] => args[k].nonblock
    BY <2>1 DEF FreeInv
  <2>4. \A k \in Jobs, d \in Cores : irq'[d] = "signal" /\ ijob'[d] = k =>
           ~work'[k] /\ (args'[k].nonblock => mem'[k] = "live")
    BY <1>0, <2>1, <2>2 DEF FreeInv
  <2>5. QED
    BY <1>0, <2>1, <2>2, <2>3, <2>4 DEF FreeInv
<1>3. QED
  BY <1>1, <1>2

\* Every step keeps FreeInv.
LEMMA FreeStep == IInv /\ FreeInv /\ [Next]_vars => FreeInv'
<1> SUFFICES ASSUME IInv, FreeInv, [Next]_vars
             PROVE  FreeInv'
  OBVIOUS
<1>0. /\ TypeOK /\ irq \in [Cores -> IrqValues] /\ ijob \in [Cores -> Jobs \cup {NoJob}]
  BY DEF IInv, TypeOK
<1>1. ASSUME NEW j \in Jobs,
             SubmitFails(j) \/ Submit(j) \/ SubmitterStep(j) \/ CleanupWork(j)
      PROVE  FreeInv'
  BY <1>1, FreeSubmitter
<1>2. CASE \/ UNCHANGED vars
           \/ \E t \in Threads : DispatchStep(t)
           \/ \E c \in Cores : HwFinishes(c)
  <2>1. UNCHANGED <<args, done, irq, ijob, pc, mem, work>>
    BY <1>2 DEF vars, DispatchStep, JobNextReturns, JobNextPops, JobNextCounts, CommitCore,
                HwFinishes, result, alloc, handler
  <2>2. QED
    BY <1>0, <2>1, FreeFrame
<1>3. ASSUME NEW c \in Cores, DoneLastCore(c) \/ DoneSignals(c)
      PROVE  FreeInv'
  BY <1>3, FreeHandler
<1>4. ASSUME NEW c \in Cores,
             \/ IrqEnters(c) \/ DoneRecommits(c) \/ DoneLastSegment(c) \/ DoneRetires(c)
             \/ DoneNotLastCore(c) \/ DoneWakes(c)
      PROVE  FreeInv'
  <2>1. UNCHANGED <<args, done, mem, work>>
    BY <1>4 DEF IrqEnters, DoneRecommits, DoneLastSegment, DoneRetires, DoneNotLastCore, DoneWakes,
                result, alloc
  <2>2. \A k \in Jobs : pc'[k] = pc[k] \/ (pc[k] = "asleep" /\ pc'[k] = "wait")
    BY <1>4 DEF IrqEnters, DoneRecommits, DoneLastSegment, DoneRetires, DoneNotLastCore, DoneWakes,
                Woken
  <2>3. \A d \in Cores : irq'[d] = "signal" => irq[d] = "signal" /\ ijob'[d] = ijob[d]
    BY <1>0, <1>4 DEF IrqEnters, DoneRecommits, DoneLastSegment, DoneRetires, DoneNotLastCore,
                      DoneWakes
  <2>4. QED
    BY <1>0, <2>1, <2>2, <2>3, FreeFrame
<1>5. QED
  BY <1>1, <1>2, <1>3, <1>4 DEF Next, HandlerStep, AllReturned

\* What is referred to is on a list, in a slot or in a handler that has not yet
\* decremented interrupt_count: the job is not done, and only done jobs are freed.
LEMMA LiveImplies == IInv /\ FreeInv => ReferencedIsLive
<1> SUFFICES ASSUME IInv, FreeInv
             PROVE  ReferencedIsLive
  OBVIOUS
<1>0. TypeOK /\ ListInv /\ ThreadInv /\ CoreInv /\ CountInv
  BY DEF IInv
<1>t. /\ slot \in [Cores -> Jobs \cup {NoJob}] /\ ijob \in [Cores -> Jobs \cup {NoJob}]
      /\ cur \in [Threads -> Jobs \cup {NoJob}] /\ at \in [Threads -> Cores]
      /\ com \in [Threads -> SUBSET Cores] /\ mem \in [Jobs -> {"none", "live", "freed"}]
      /\ \A d \in Cores : irq[d] = "idle" <=> ijob[d] = NoJob
      /\ NoJob \notin Jobs
  BY <1>0, ConstantsAssumption DEF TypeOK
<1>1. ASSUME NEW j \in Jobs, NEW c \in Unretired(j), Enqueued(j)
      PROVE  mem[j] = "live"
  BY <1>0, <1>1, <1>t DEF CountInv, FreeInv, Enqueued
<1>2. ASSUME NEW j \in Jobs, NEW c \in Cores, InTodo(j, c) \/ slot[c] = j
      PROVE  mem[j] = "live"
  <2>1. Enqueued(j) /\ c \in mask[j]
    BY <1>0, <1>2, <1>t DEF ListInv
  <2>2. c \in Unretired(j)
    BY <1>2, <2>1 DEF Unretired
  <2>3. QED
    BY <1>1, <2>1, <2>2
<1>3. ASSUME NEW j \in Jobs, NEW c \in Cores, hw[c] = j
      PROVE  mem[j] = "live"
  BY <1>0, <1>2, <1>3, <1>t DEF CoreInv
<1>4. ASSUME NEW t \in Threads, cur[t] # NoJob
      PROVE  mem[cur[t]] = "live"
  <2>j. PICK j \in Jobs : j = cur[t]
    BY <1>4, <1>t
  <2>1. CASE com[t] = {}
    <3>1. slot[at[t]] = j /\ at[t] \in Cores
      BY <1>0, <1>4, <1>t, <2>1, <2>j DEF ThreadInv
    <3>2. QED
      BY <1>2, <2>j, <3>1
  <2>2. CASE com[t] # {}
    <3>1. PICK c \in Cores : c \in com[t]
      BY <1>t, <2>2
    <3>2. slot[c] = j
      BY <1>0, <2>j, <3>1 DEF CoreInv
    <3>3. QED
      BY <1>2, <2>j, <3>2
  <2>3. QED
    BY <2>1, <2>2
<1>5. ASSUME NEW c \in Cores, irq[c] \in {"status", "retire", "complete"}
      PROVE  mem[ijob[c]] = "live"
  <2>j. PICK j \in Jobs : j = ijob[c]
    BY <1>5, <1>t
  <2>1. CASE irq[c] \in {"status", "retire"}
    <3>1. slot[c] = j
      BY <1>0, <2>1, <2>j DEF CoreInv
    <3>2. QED
      BY <1>2, <2>j, <3>1
  <2>2. CASE irq[c] = "complete"
    <3>1. Enqueued(j) /\ c \in mask[j]
      BY <1>0, <2>2, <2>j DEF CoreInv
    <3>2. c \in Unretired(j)
      BY <2>2, <2>j, <3>1 DEF Unretired
    <3>3. QED
      BY <1>1, <2>j, <3>1, <3>2
  <2>3. QED
    BY <1>5, <2>1, <2>2
<1>6. ASSUME NEW c \in Cores, irq[c] = "signal", args[ijob[c]].nonblock
      PROVE  mem[ijob[c]] = "live"
  BY <1>6, <1>t DEF FreeInv
<1>7. QED
  BY <1>2, <1>3, <1>4, <1>5, <1>6 DEF ReferencedIsLive

\* When every submission is asynchronous or waited for (RKNPU_JOB_PC), no list,
\* slot, engine, rknpu_job_next() call or interrupt handler refers to a freed job.
THEOREM NoUseAfterFree ==
  ASSUME \A a \in Args : a.nonblock \/ a.pc
  PROVE  Spec => []ReferencedIsLive
<1>1. Init => FreeInv
  <2> SUFFICES ASSUME Init
               PROVE  FreeInv
    OBVIOUS
  <2>1. /\ \A j \in Jobs : args[j] \in Args /\ mem[j] = "none" /\ pc[j] = "new"
        /\ \A j \in Jobs : ~work[j]
        /\ \A c \in Cores : irq[c] = "idle"
    BY DEF Init
  <2>2. QED
    BY <2>1 DEF FreeInv
<1>2. QED
  BY <1>1, GangInit, GangStep, FreeStep, LiveImplies, PTL DEF Spec
-----------------------------------------------------------------------------
(* Who frees a job *)

\* What OwnedInv speaks of, when no job is freed and no clean-up queued.
LEMMA OwnedFrame ==
  ASSUME OwnedInv, UNCHANGED args,
         \A k \in Jobs : mem[k] = "live" => mem'[k] = "live",
         \A k \in Jobs : work'[k] => work[k],
         \A k \in Jobs : pc'[k] \in Unreturned => pc[k] \in Unreturned \/ mem'[k] = "live"
  PROVE  OwnedInv'
  BY DEF OwnedInv

\* A job is freed by the one who owns it: a blocking job by its submitter, an
\* asynchronous one by the work item.
LEMMA OwnedStep == IInv /\ FreeInv /\ OwnedInv /\ [Next]_vars => OwnedInv'
<1> SUFFICES ASSUME IInv, FreeInv, OwnedInv, [Next]_vars
             PROVE  OwnedInv'
  OBVIOUS
<1>t. /\ pc \in [Jobs -> PcValues] /\ mem \in [Jobs -> {"none", "live", "freed"}]
      /\ work \in [Jobs -> BOOLEAN] /\ ijob \in [Cores -> Jobs \cup {NoJob}]
      /\ \A d \in Cores : irq[d] = "idle" <=> ijob[d] = NoJob
  BY DEF IInv, TypeOK
<1>1. ASSUME NEW j \in Jobs,
             \/ SubmitFails(j) \/ Submit(j) \/ CleanNothing(j) \/ PickCore(j) \/ Enqueue(j)
             \/ Scheduled(j) \/ WaitSleeps(j) \/ WaitEnds(j)
      PROVE  OwnedInv'
  <2>1. /\ UNCHANGED <<args, work>>
        /\ \A k \in Jobs : mem[k] = "live" => mem'[k] = "live"
    BY <1>1, <1>t DEF SubmitFails, Submit, CleanNothing, PickCore, Enqueue, Scheduled, WaitSleeps,
                      WaitEnds, alloc
  <2>2. ASSUME NEW k \in Jobs, pc'[k] \in Unreturned
        PROVE  pc[k] \in Unreturned \/ mem'[k] = "live"
    <3>1. CASE Submit(j)
      BY <1>t, <2>2, <3>1 DEF Submit
    <3>2. CASE \/ SubmitFails(j) \/ CleanNothing(j) \/ PickCore(j) \/ Enqueue(j)
               \/ Scheduled(j) \/ WaitSleeps(j) \/ WaitEnds(j)
      BY <1>t, <2>2, <3>2 DEF Unreturned, SubmitFails, CleanNothing, PickCore, Enqueue, Scheduled,
                              WaitSleeps, WaitEnds
    <3>3. QED
      BY <1>1, <3>1, <3>2
  <2>3. QED
    BY <2>1, <2>2, OwnedFrame
<1>2. ASSUME NEW j \in Jobs, WaitSucceeds(j)
      PROVE  OwnedInv'
  <2>1. pc[j] = "woken" /\ ~args[j].nonblock /\ ~work[j]
    BY <1>2 DEF WaitSucceeds, FreeInv
  <2>2. /\ UNCHANGED <<args, work>> /\ pc' = [pc EXCEPT ![j] = "returned"]
        /\ mem' = [mem EXCEPT ![j] = "freed"]
    BY <1>2 DEF WaitSucceeds
  <2>3. QED
    BY <1>t, <2>1, <2>2 DEF OwnedInv, Unreturned
<1>3. ASSUME NEW j \in Jobs, Returns(j)
      PROVE  OwnedInv'
  <2>1. pc[j] = "check" /\ args[j].nonblock
    BY <1>3 DEF Returns, FreeInv
  <2>2. UNCHANGED <<args, work, mem>> /\ pc' = [pc EXCEPT ![j] = "returned"]
    BY <1>3, <1>t, <2>1 DEF Returns
  <2>3. QED
    BY <1>t, <2>2 DEF OwnedInv, Unreturned
<1>4. ASSUME NEW j \in Jobs, CleanupWork(j)
      PROVE  OwnedInv'
  <2>1. work[j] /\ args[j].nonblock
    BY <1>4 DEF CleanupWork, FreeInv
  <2>2. /\ UNCHANGED <<args, pc>> /\ work' = [work EXCEPT ![j] = FALSE]
        /\ mem' = [mem EXCEPT ![j] = "freed"]
    BY <1>4 DEF CleanupWork
  <2>3. QED
    BY <1>t, <2>1, <2>2 DEF OwnedInv
<1>5. CASE \/ UNCHANGED vars
           \/ \E t \in Threads : DispatchStep(t)
           \/ \E c \in Cores : HwFinishes(c)
  <2>1. UNCHANGED <<args, pc, mem, work>>
    BY <1>5 DEF vars, DispatchStep, JobNextReturns, JobNextPops, JobNextCounts, CommitCore,
                HwFinishes, alloc
  <2>2. QED
    BY <2>1, OwnedFrame
<1>6. ASSUME NEW c \in Cores,
             \/ IrqEnters(c) \/ DoneRecommits(c) \/ DoneLastSegment(c) \/ DoneRetires(c)
             \/ DoneNotLastCore(c) \/ DoneLastCore(c) \/ DoneWakes(c)
      PROVE  OwnedInv'
  <2>1. UNCHANGED <<args, mem, work>>
    BY <1>6 DEF IrqEnters, DoneRecommits, DoneLastSegment, DoneRetires, DoneNotLastCore,
                DoneLastCore, DoneWakes, alloc
  <2>2. \A k \in Jobs : pc'[k] = pc[k] \/ (pc[k] = "asleep" /\ pc'[k] = "wait")
    BY <1>6 DEF IrqEnters, DoneRecommits, DoneLastSegment, DoneRetires, DoneNotLastCore,
                DoneLastCore, DoneWakes, Woken
  <2>3. QED
    BY <2>1, <2>2, OwnedFrame DEF Unreturned
<1>7. ASSUME NEW c \in Cores, DoneSignals(c)
      PROVE  OwnedInv'
  <2>1. irq[c] = "signal" /\ UNCHANGED <<args, mem, pc>>
    BY <1>7 DEF DoneSignals
  <2>j. PICK i \in Jobs : i = ijob[c]
    BY <1>t, <2>1
  <2>2. args[i].nonblock => mem[i] = "live"
    BY <2>1, <2>j DEF FreeInv
  <2>3. work' = [work EXCEPT ![i] = @ \/ args[i].nonblock]
    BY <1>7, <2>j DEF DoneSignals
  <2>4. QED
    BY <1>t, <2>1, <2>2, <2>3 DEF OwnedInv
<1>8. QED
  BY <1>1, <1>2, <1>3, <1>4, <1>5, <1>6, <1>7 DEF Next, SubmitterStep, HandlerStep, AllReturned

\* When every submission is asynchronous or waited for (RKNPU_JOB_PC), a job is freed
\* at most once, and only when it is done.
THEOREM JobsAreFreedOnce ==
  ASSUME \A a \in Args : a.nonblock \/ a.pc
  PROVE  Spec => FreedOnce
<1>1. Init => FreeInv /\ OwnedInv
  <2> SUFFICES ASSUME Init
               PROVE  FreeInv /\ OwnedInv
    OBVIOUS
  <2>1. /\ \A j \in Jobs : args[j] \in Args /\ mem[j] = "none" /\ pc[j] = "new"
        /\ \A j \in Jobs : ~work[j]
        /\ \A c \in Cores : irq[c] = "idle"
    BY DEF Init
  <2>2. QED
    BY <2>1 DEF FreeInv, OwnedInv, Unreturned
<1>2. ASSUME IInv, FreeInv, OwnedInv, NEW j \in Jobs, Frees(j)
      PROVE  mem[j] = "live" /\ done[j]
  <2>1. CASE WaitSucceeds(j)
    BY <1>2, <2>1 DEF WaitSucceeds, FreeInv, OwnedInv, Unreturned
  <2>2. CASE Returns(j) /\ ~args[j].nonblock
    BY <1>2, <2>2 DEF Returns, FreeInv
  <2>3. CASE CleanupWork(j)
    BY <1>2, <2>3 DEF CleanupWork, OwnedInv, IInv, CountInv
  <2>4. QED
    BY <1>2, <2>1, <2>2, <2>3 DEF Frees
<1>3. IInv /\ FreeInv /\ OwnedInv => \A j \in Jobs : Frees(j) => mem[j] = "live" /\ done[j]
  BY <1>2
<1>4. QED
  BY <1>1, <1>3, GangInit, GangStep, FreeStep, OwnedStep, PTL DEF Spec, FreedOnce

-----------------------------------------------------------------------------
(* The queue of gangs *)

\* A queue with the job in the slot before the list.
LEMMA QueueProperties ==
  ASSUME NEW s \in Seq(Jobs), NEW j \in Jobs, NEW u, u = <<j>> \o s
  PROVE  /\ u # <<>> /\ Len(u) = Len(s) + 1 /\ Len(s) \in Nat
         /\ u[1] = j /\ Head(u) = j /\ Tail(u) = s
         /\ \A i \in 1 .. Len(s) : u[i + 1] = s[i]
  OBVIOUS

\* Taking a job from the list into the slot leaves the queue as it was.
LEMMA HeadToSlot ==
  ASSUME NEW s \in Seq(Jobs), s # <<>>
  PROVE  <<Head(s)>> \o Tail(s) = s /\ Head(s) \in Jobs
  OBVIOUS

\* What is added to the list is added to the queue.
LEMMA AppendToQueue ==
  ASSUME NEW s \in Seq(Jobs), NEW j \in Jobs, NEW k \in Jobs
  PROVE  <<k>> \o Append(s, j) = Append(<<k>> \o s, j)
  OBVIOUS

\* A queue holds the job of the slot and those of the list.
LEMMA OnQueue ==
  ASSUME TypeOK, NEW j \in Jobs, NEW c \in Cores
  PROVE  /\ Gangs!On(j, c) <=> slot[c] = j \/ InTodo(j, c)
         /\ slot[c] = j => Queue[c][1] = j
<1>1. Gangs!On(j, c) <=> \E i \in 1 .. Len(Queue[c]) : Queue[c][i] = j
  BY DEF Gangs!On
<1>2. PICK s \in Seq(Jobs) : s = todo[c]
  BY DEF TypeOK
<1>3. CASE slot[c] = NoJob
  BY <1>1, <1>3, ConstantsAssumption DEF Queue, InTodo
<1>4. CASE slot[c] # NoJob
  <2>1. PICK k \in Jobs : k = slot[c]
    BY <1>4 DEF TypeOK
  <2>2. PICK u : u = <<k>> \o s
    OBVIOUS
  <2>3. Queue[c] = u
    BY <1>2, <1>4, <2>1, <2>2 DEF Queue
  <2>4. /\ Len(u) = Len(s) + 1 /\ Len(s) \in Nat /\ u[1] = k
        /\ \A i \in 1 .. Len(s) : u[i + 1] = s[i]
    BY <2>2, QueueProperties
  <2>5. (\E i \in 1 .. Len(u) : u[i] = j) <=> k = j \/ \E i \in 1 .. Len(s) : s[i] = j
    <3>1. ASSUME NEW i \in 1 .. Len(u)
          PROVE  i = 1 \/ (i - 1 \in 1 .. Len(s) /\ u[i] = s[i - 1])
      <4>1. CASE i # 1
        <5>1. i - 1 \in 1 .. Len(s) /\ (i - 1) + 1 = i
          BY <2>4, <4>1
        <5>2. QED
          BY <2>4, <5>1
      <4>2. QED
        BY <4>1
    <3>2. ASSUME NEW i \in 1 .. Len(s)
          PROVE  i + 1 \in 1 .. Len(u) /\ u[i + 1] = s[i]
      BY <2>4
    <3>3. 1 \in 1 .. Len(u)
      BY <2>4
    <3>4. ASSUME \E i \in 1 .. Len(u) : u[i] = j
          PROVE  k = j \/ \E i \in 1 .. Len(s) : s[i] = j
      <4>1. PICK i \in 1 .. Len(u) : u[i] = j
        BY <3>4
      <4>2. CASE i = 1
        BY <2>4, <4>1, <4>2
      <4>3. CASE i - 1 \in 1 .. Len(s) /\ u[i] = s[i - 1]
        BY <4>1, <4>3
      <4>4. QED
        BY <3>1, <4>2, <4>3
    <3>5. ASSUME k = j \/ \E i \in 1 .. Len(s) : s[i] = j
          PROVE  \E i \in 1 .. Len(u) : u[i] = j
      <4>1. CASE k = j
        BY <2>4, <3>3, <4>1
      <4>2. CASE \E i \in 1 .. Len(s) : s[i] = j
        BY <3>2, <4>2
      <4>3. QED
        BY <3>5, <4>1, <4>2
    <3>6. QED
      BY <3>4, <3>5
  <2>6. Gangs!On(j, c) <=> k = j \/ \E i \in 1 .. Len(s) : s[i] = j
    BY <1>1, <2>3, <2>5
  <2>7. InTodo(j, c) <=> \E i \in 1 .. Len(s) : s[i] = j
    BY <1>2 DEF InTodo
  <2>8. slot[c] = j => Queue[c][1] = j
    BY <2>1, <2>3, <2>4
  <2>9. QED
    BY <2>1, <2>6, <2>7, <2>8
<1>5. QED
  BY <1>3, <1>4

\* A fence is signalled for a completed job.
FenceInv == \A j \in Jobs : fence[j] = "signalled" => done[j]

\* Steps that change no queue and start, complete and signal nothing.
LEMMA QueueStutters ==
  ASSUME TypeOK, IInv, FenceInv,
         todo' = todo, slot' = slot, done' = done, int_mask' = int_mask,
         \/ fence' = fence
         \/ \E j \in Jobs : Submit(j)
  PROVE  UNCHANGED Gangs!vars /\ FenceInv'
<1>1. Queue' = Queue /\ Started' = Started /\ Completed' = Completed
  BY DEF Queue, Started, Completed
<1>2. CASE fence' = fence
  BY <1>1, <1>2 DEF Signalled, FenceInv, Gangs!vars
<1>3. ASSUME NEW j \in Jobs, Submit(j)
      PROVE  UNCHANGED Gangs!vars /\ FenceInv'
  <2>1. ~done[j]
    BY <1>3 DEF Submit, IInv, CountInv, Enqueued
  <2>2. /\ fence'[j] # "signalled" /\ fence[j] # "signalled"
        /\ \A k \in Jobs : k # j => fence'[k] = fence[k]
    BY <1>3, <2>1 DEF Submit, FenceInv, TypeOK
  <2>3. \A k \in Jobs : fence'[k] = "signalled" <=> fence[k] = "signalled"
    BY <2>2
  <2>4. Signalled' = Signalled
    BY <2>3 DEF Signalled
  <2>5. FenceInv'
    BY <2>3 DEF FenceInv
  <2>6. QED
    BY <1>1, <2>4, <2>5 DEF Gangs!vars
<1>4. QED
  BY <1>2, <1>3

\* rknpu_job_schedule() is the submission.
LEMMA EnqueueSubmits ==
  ASSUME TypeOK, IInv, FenceInv, NEW j \in Jobs, Enqueue(j)
  PROVE  Gangs!Submit(j, mask[j]) /\ mask[j] \in SUBSET Cores /\ FenceInv'
<1>1. UNCHANGED <<slot, done, fence, int_mask>> /\ mask[j] # {} /\ mask[j] \in SUBSET Cores
  BY DEF Enqueue, result, device, TypeOK
<1>2. Started' = Started /\ Completed' = Completed /\ Signalled' = Signalled /\ FenceInv'
  BY <1>1 DEF Started, Completed, Signalled, FenceInv
<1>3. ~Enqueued(j)
  BY DEF Enqueued, Enqueue
<1>4. \A c \in Cores : ~Gangs!On(j, c)
  BY <1>3, OnQueue, ConstantsAssumption DEF IInv, ListInv
<1>5. j \notin Started
  BY <1>3 DEF IInv, RunInv, Started, TypeOK
<1>6. Queue' = [c \in Cores |-> IF c \in mask[j] THEN Append(Queue[c], j) ELSE Queue[c]]
  <2>1. ASSUME NEW c \in Cores
        PROVE  Queue'[c] = IF c \in mask[j] THEN Append(Queue[c], j) ELSE Queue[c]
    <3>1. PICK s \in Seq(Jobs) : s = todo[c]
      BY DEF TypeOK
    <3>2. todo'[c] = IF c \in mask[j] THEN Append(s, j) ELSE s
      BY <3>1 DEF Enqueue
    <3>3. CASE slot[c] = NoJob
      BY <1>1, <3>1, <3>2, <3>3 DEF Queue
    <3>4. CASE slot[c] # NoJob
      <4>1. PICK k \in Jobs : k = slot[c]
        BY <3>4 DEF TypeOK
      <4>2. <<k>> \o Append(s, j) = Append(<<k>> \o s, j)
        BY AppendToQueue
      <4>3. Queue[c] = <<k>> \o s
        BY <3>1, <3>4, <4>1 DEF Queue
      <4>4. Queue'[c] = <<k>> \o (IF c \in mask[j] THEN Append(s, j) ELSE s)
        BY <1>1, <3>2, <3>4, <4>1 DEF Queue
      <4>5. QED
        BY <4>2, <4>3, <4>4
    <3>5. QED
      BY <3>3, <3>4
  <2>2. QED
    BY <2>1 DEF Queue
<1>7. QED
  BY <1>1, <1>2, <1>4, <1>5, <1>6 DEF Gangs!Submit

\* rknpu_job_next() changes no queue.
LEMMA PopsStutter ==
  ASSUME TypeOK, FenceInv, NEW t \in Threads, NEW d \in Cores, JobNextPops(t, d)
  PROVE  UNCHANGED Gangs!vars /\ FenceInv'
<1>1. UNCHANGED <<done, fence, int_mask>> /\ slot[d] = NoJob /\ todo[d] # <<>>
  BY DEF JobNextPops, NothingToStart, result, device
<1>2. Started' = Started /\ Completed' = Completed /\ Signalled' = Signalled /\ FenceInv'
  BY <1>1 DEF Started, Completed, Signalled, FenceInv
<1>3. PICK s \in Seq(Jobs) : s = todo[d]
  BY DEF TypeOK
<1>4. <<Head(s)>> \o Tail(s) = s /\ Head(s) \in Jobs
  BY <1>1, <1>3, HeadToSlot
<1>5. PICK h \in Jobs : h = Head(s)
  BY <1>4
<1>6. PICK u : u = Tail(s)
  OBVIOUS
<1>7. slot' = [slot EXCEPT ![d] = h] /\ todo' = [todo EXCEPT ![d] = u]
  BY <1>3, <1>5, <1>6 DEF JobNextPops
<1>8. ASSUME NEW c \in Cores
      PROVE  Queue'[c] = Queue[c]
  <2>1. CASE c = d
    <3>1. slot'[c] = h /\ todo'[c] = u /\ h # NoJob
      BY <1>7, <2>1, ConstantsAssumption DEF TypeOK
    <3>2. Queue'[c] = <<h>> \o u
      BY <3>1 DEF Queue
    <3>3. Queue[c] = s
      BY <1>1, <1>3, <2>1 DEF Queue
    <3>4. QED
      BY <1>4, <1>5, <1>6, <3>2, <3>3
  <2>2. CASE c # d
    <3>1. slot'[c] = slot[c] /\ todo'[c] = todo[c]
      BY <1>7, <2>2 DEF TypeOK
    <3>2. QED
      BY <3>1 DEF Queue
  <2>3. QED
    BY <2>1, <2>2
<1>9. Queue' = Queue
  BY <1>8 DEF Queue
<1>10. QED
  BY <1>2, <1>9 DEF Gangs!vars

\* The first commit of a job is its start, and further ones are no step.
LEMMA CommitStarts ==
  ASSUME TypeOK, IInv, FenceInv, NEW t \in Threads, NEW c \in Cores, CommitCore(t, c)
  PROVE  (UNCHANGED Gangs!vars \/ \E h \in Jobs : Gangs!Start(h)) /\ FenceInv'
<1>1. UNCHANGED <<todo, slot, done, fence>>
  BY DEF CommitCore, subcore
<1>2. Queue' = Queue /\ Completed' = Completed /\ Signalled' = Signalled /\ FenceInv'
  BY <1>1 DEF Queue, Completed, Signalled, FenceInv
<1>3. PICK h \in Jobs : h = cur[t]
  BY DEF CommitCore, TypeOK
<1>4. c \in com[t]
  BY DEF CommitCore, First
<1>5. CASE int_mask' = int_mask
  BY <1>2, <1>5 DEF Started, Gangs!vars
<1>6. CASE int_mask' = [int_mask EXCEPT ![h] = int_mask[h] \cup {c}]
  <2>1. /\ int_mask'[h] # {}
        /\ \A k \in Jobs : k # h => int_mask'[k] = int_mask[k]
    BY <1>6 DEF TypeOK
  <2>2. Started' = Started \cup {h}
    BY <2>1 DEF Started
  <2>3. CASE h \in Started
    <3>1. Started' = Started
      BY <2>2, <2>3
    <3>2. QED
      BY <1>2, <3>1 DEF Gangs!vars
  <2>4. CASE h \notin Started
    <3>1. slot[c] = h
      BY <1>3, <1>4 DEF IInv, CoreInv
    <3>2. Gangs!On(h, c)
      BY <3>1, OnQueue
    <3>3. \A d \in Cores : ~InTodo(h, d)
      <4>1. Uncounted(h) = {} /\ Enqueued(h)
        BY <1>3, <1>4, <3>1, ConstantsAssumption DEF IInv, GangInv, ListInv
      <4>2. \A d \in Cores : InTodo(h, d) => d \in mask[h]
        BY DEF IInv, ListInv
      <4>3. QED
        BY <4>1, <4>2 DEF Uncounted
    <3>4. \A d \in Cores : Gangs!On(h, d) => Queue[d][1] = h
      BY <3>3, OnQueue
    <3>5. Gangs!Start(h)
      BY <1>2, <2>2, <2>4, <3>2, <3>4 DEF Gangs!Start
    <3>6. QED
      BY <1>2, <3>5
  <2>5. QED
    BY <2>3, <2>4
<1>7. QED
  BY <1>3, <1>5, <1>6 DEF CommitCore, StartCore

\* rknpu_job_done() lets the core's job go.
LEMMA DoneRetiresQueue ==
  ASSUME TypeOK, IInv, FenceInv, NEW d \in Cores, DoneRetires(d)
  PROVE  Gangs!Retire(d) /\ FenceInv'
<1>1. UNCHANGED <<todo, done, fence, int_mask>> /\ slot' = [slot EXCEPT ![d] = NoJob]
  BY DEF DoneRetires, result, device
<1>2. Started' = Started /\ Completed' = Completed /\ Signalled' = Signalled /\ FenceInv'
  BY <1>1 DEF Started, Completed, Signalled, FenceInv
<1>3. PICK h \in Jobs : h = ijob[d]
  BY DEF DoneRetires, TypeOK
<1>4. slot[d] = h /\ d \in int_mask[h]
  BY <1>3 DEF DoneRetires, IInv, CoreInv
<1>5. h \in Started
  BY <1>4 DEF Started
<1>6. PICK s \in Seq(Jobs) : s = todo[d]
  BY DEF TypeOK
<1>7. PICK u : u = <<h>> \o s
  OBVIOUS
<1>8. u # <<>> /\ Head(u) = h /\ Tail(u) = s
  BY <1>7, QueueProperties
<1>9. Queue[d] = u
  BY <1>4, <1>6, <1>7, ConstantsAssumption DEF Queue
<1>10. Queue' = [Queue EXCEPT ![d] = s]
  <2>1. slot'[d] = NoJob /\ \A c \in Cores : c # d => slot'[c] = slot[c]
    BY <1>1 DEF TypeOK
  <2>2. Queue'[d] = s
    BY <1>1, <1>6, <2>1 DEF Queue
  <2>3. \A c \in Cores : c # d => Queue'[c] = Queue[c]
    BY <1>1, <2>1 DEF Queue
  <2>4. QED
    BY <2>2, <2>3 DEF Queue
<1>11. QED
  BY <1>2, <1>5, <1>8, <1>9, <1>10 DEF Gangs!Retire

\* The last handler completes the job.
LEMMA DoneLastCoreCompletes ==
  ASSUME TypeOK, IInv, FenceInv, NEW d \in Cores, DoneLastCore(d)
  PROVE  (\E h \in Jobs : Gangs!Complete(h)) /\ FenceInv'
<1>1. UNCHANGED <<todo, slot, fence, int_mask>>
  BY DEF DoneLastCore, subcore, device
<1>2. Queue' = Queue /\ Started' = Started /\ Signalled' = Signalled
  BY <1>1 DEF Queue, Started, Signalled
<1>3. PICK h \in Jobs : h = ijob[d]
  BY DEF DoneLastCore, TypeOK
<1>4. done'[h] /\ \A k \in Jobs : k # h => done'[k] = done[k]
  BY <1>3 DEF DoneLastCore, TypeOK
<1>5. FenceInv'
  BY <1>1, <1>4 DEF FenceInv
<1>6. Completed' = Completed \cup {h}
  BY <1>4 DEF Completed
<1>7. Enqueued(h) /\ d \in mask[h] /\ slot[d] # h /\ ~InTodo(h, d) /\ irq[d] = "complete"
  BY <1>3 DEF DoneLastCore, IInv, CoreInv
<1>8. d \in Unretired(h)
  BY <1>3, <1>7 DEF Unretired
<1>9. h \notin Completed
  BY <1>8 DEF Completed, IInv, CountInv
<1>10. h \in Started
  <2>1. ran[h][d] = Runs(h, d)
    BY <1>7 DEF IInv, RunInv
  <2>2. Runs(h, d) >= 1 /\ Runs(h, d) \in Nat
    BY RunsProperties
  <2>3. d \in int_mask[h]
    BY <2>1, <2>2 DEF IInv, RunInv
  <2>4. QED
    BY <2>3 DEF Started
<1>11. Unretired(h) = {d}
  <2>1. PICK U : U = Unretired(h)
    OBVIOUS
  <2>2. IsFiniteSet(U)
    BY <2>1, CoreSets
  <2>3. Cardinality(U) = 1
    BY <1>3, <1>7, <2>1 DEF DoneLastCore, IInv, CountInv, Enqueued
  <2>4. QED
    BY <1>8, <2>1, <2>2, <2>3, LosesOne
<1>12. \A c \in Cores : ~Gangs!On(h, c)
  <2>1. \A c \in Cores : slot[c] = h \/ InTodo(h, c) => c \in Unretired(h)
    BY <1>7, ConstantsAssumption DEF Unretired, IInv, ListInv
  <2>2. QED
    BY <1>7, <1>11, <2>1, OnQueue
<1>13. Gangs!Complete(h)
  BY <1>2, <1>6, <1>9, <1>10, <1>12 DEF Gangs!Complete
<1>14. QED
  BY <1>5, <1>13

\* The last handler signals the fence.
LEMMA DoneSignalsFence ==
  ASSUME TypeOK, IInv, FenceInv, NEW d \in Cores, DoneSignals(d)
  PROVE  (UNCHANGED Gangs!vars \/ \E h \in Jobs : Gangs!Signal(h)) /\ FenceInv'
<1>1. UNCHANGED <<todo, slot, done, int_mask>>
  BY DEF DoneSignals, subcore, device
<1>2. Queue' = Queue /\ Started' = Started /\ Completed' = Completed
  BY <1>1 DEF Queue, Started, Completed
<1>3. PICK h \in Jobs : h = ijob[d]
  BY DEF DoneSignals, TypeOK
<1>4. done[h]
  BY <1>3 DEF DoneSignals, IInv, CountInv
<1>5. /\ fence'[h] = IF fence[h] = "pending" THEN "signalled" ELSE fence[h]
      /\ \A k \in Jobs : k # h => fence'[k] = fence[k]
  BY <1>3 DEF DoneSignals, TypeOK
<1>6. FenceInv'
  BY <1>1, <1>4, <1>5 DEF FenceInv
<1>7. CASE fence[h] = "pending"
  <2>1. h \notin Signalled /\ h \in Completed /\ Signalled' = Signalled \cup {h}
    BY <1>4, <1>5, <1>7 DEF Signalled, Completed
  <2>2. Gangs!Signal(h)
    BY <1>2, <2>1 DEF Gangs!Signal
  <2>3. QED
    BY <1>6, <2>2
<1>8. CASE fence[h] # "pending"
  <2>1. Signalled' = Signalled
    BY <1>5, <1>8 DEF Signalled
  <2>2. QED
    BY <1>2, <1>6, <2>1 DEF Gangs!vars
<1>9. QED
  BY <1>7, <1>8

\* Every step of RknpuJob is a step of GangQueue, or none.
LEMMA GangQueueStep ==
  ASSUME IInv, FenceInv, [Next]_vars
  PROVE  [Gangs!Next]_(Gangs!vars) /\ FenceInv'
<1>0. TypeOK
  BY DEF IInv
<1>1. ASSUME NEW j \in Jobs, Enqueue(j)
      PROVE  [Gangs!Next]_(Gangs!vars) /\ FenceInv'
  BY <1>0, <1>1, EnqueueSubmits DEF Gangs!Next
<1>2. ASSUME NEW t \in Threads, NEW c \in Cores, JobNextPops(t, c)
      PROVE  [Gangs!Next]_(Gangs!vars) /\ FenceInv'
  BY <1>0, <1>2, PopsStutter
<1>3. ASSUME NEW t \in Threads, NEW c \in Cores, CommitCore(t, c)
      PROVE  [Gangs!Next]_(Gangs!vars) /\ FenceInv'
  BY <1>0, <1>3, CommitStarts DEF Gangs!Next
<1>4. ASSUME NEW c \in Cores, DoneRetires(c)
      PROVE  [Gangs!Next]_(Gangs!vars) /\ FenceInv'
  BY <1>0, <1>4, DoneRetiresQueue DEF Gangs!Next
<1>5. ASSUME NEW c \in Cores, DoneLastCore(c)
      PROVE  [Gangs!Next]_(Gangs!vars) /\ FenceInv'
  BY <1>0, <1>5, DoneLastCoreCompletes DEF Gangs!Next
<1>6. ASSUME NEW c \in Cores, DoneSignals(c)
      PROVE  [Gangs!Next]_(Gangs!vars) /\ FenceInv'
  BY <1>0, <1>6, DoneSignalsFence DEF Gangs!Next
<1>7. ASSUME NEW j \in Jobs, SubmitFails(j) \/ Submit(j) \/ CleanupWork(j)
             \/ (SubmitterStep(j) /\ ~Enqueue(j))
      PROVE  UNCHANGED Gangs!vars /\ FenceInv'
  <2>1. UNCHANGED <<todo, slot, done, int_mask>>
    BY <1>7
    DEF SubmitFails, Submit, CleanupWork, SubmitterStep, CleanNothing, PickCore, Scheduled,
        WaitSleeps, WaitEnds, WaitSucceeds, Returns, subcore, result, device
  <2>2. fence' = fence \/ Submit(j)
    BY <1>7
    DEF SubmitFails, CleanupWork, SubmitterStep, CleanNothing, PickCore, Scheduled,
        WaitSleeps, WaitEnds, WaitSucceeds, Returns, result
  <2>3. QED
    BY <1>0, <2>1, <2>2, QueueStutters
<1>8. ASSUME NEW t \in Threads, NEW c \in Cores, JobNextReturns(t, c) \/ JobNextCounts(t)
      PROVE  UNCHANGED Gangs!vars /\ FenceInv'
  BY <1>0, <1>8, QueueStutters DEF JobNextReturns, JobNextCounts, subcore, result, device
<1>9. ASSUME NEW c \in Cores, \/ HwFinishes(c) \/ IrqEnters(c) \/ DoneRecommits(c)
             \/ DoneLastSegment(c) \/ DoneNotLastCore(c) \/ DoneWakes(c)
      PROVE  UNCHANGED Gangs!vars /\ FenceInv'
  BY <1>0, <1>9, QueueStutters
  DEF HwFinishes, IrqEnters, DoneRecommits, DoneLastSegment, DoneNotLastCore, DoneWakes,
      subcore, result, device
<1>10. CASE UNCHANGED vars
  BY <1>0, <1>10, QueueStutters DEF vars, subcore, result, device
<1>11. ASSUME NEW t \in Threads, DispatchStep(t)
       PROVE  [Gangs!Next]_(Gangs!vars) /\ FenceInv'
  BY <1>2, <1>3, <1>8, <1>11, ZeroIsCore DEF DispatchStep
<1>12. ASSUME NEW c \in Cores, HwFinishes(c) \/ HandlerStep(c)
       PROVE  [Gangs!Next]_(Gangs!vars) /\ FenceInv'
  BY <1>4, <1>5, <1>6, <1>9, <1>12 DEF HandlerStep
<1>13. ASSUME NEW j \in Jobs, SubmitFails(j) \/ Submit(j) \/ SubmitterStep(j) \/ CleanupWork(j)
       PROVE  [Gangs!Next]_(Gangs!vars) /\ FenceInv'
  BY <1>1, <1>7, <1>13 DEF SubmitterStep
<1>14. QED
  BY <1>10, <1>11, <1>12, <1>13 DEF Next, AllReturned

\* rknpu_job_schedule(), rknpu_job_next(), rknpu_job_commit() and rknpu_job_done()
\* implement the queue of gangs, for any number of cores and jobs, all masks and
\* arguments: a job starts only when it is the first of all its cores' queues, cores
\* serve their queues in order, and a job completes once, when all have let it go.
THEOREM GangQueueImplemented == Spec => ImplementsGangQueue
<1>1. Init => Gangs!Init /\ FenceInv
  <2> SUFFICES ASSUME Init
               PROVE  Gangs!Init /\ FenceInv
    OBVIOUS
  <2>1. \A j \in Jobs : int_mask[j] = {} /\ ~done[j] /\ fence[j] # "signalled"
    BY DEF Init
  <2>2. Started = {} /\ Completed = {} /\ Signalled = {} /\ FenceInv
    BY <2>1 DEF Started, Completed, Signalled, FenceInv
  <2>3. Queue = [c \in Cores |-> <<>>]
    BY DEF Init, Queue
  <2>4. QED
    BY <2>2, <2>3 DEF Gangs!Init
<1>2. IInv /\ FenceInv /\ [Next]_vars => [Gangs!Next]_(Gangs!vars) /\ IInv' /\ FenceInv'
  BY GangQueueStep, GangStep
<1>3. QED
  BY <1>1, <1>2, GangInit, PTL DEF Spec, ImplementsGangQueue, Gangs!Spec
=============================================================================

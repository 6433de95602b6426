-------------------------- MODULE RknpuLoad_proofs --------------------------
(***************************************************************************)
(* Theorems about task_num, the load rknpu_schedule_core_index() balances  *)
(* by: exact on the job path, and never too low whatever fails.  The sum   *)
(* over the jobs of a core is the cardinality of the set of their tasks,   *)
(* which makes it a matter of finite sets and not of recursion.            *)
(***************************************************************************)
EXTENDS RknpuUnlink_proofs

-----------------------------------------------------------------------------
(* Sets of tasks *)

\* The tasks of one more job.
LEMMA TasksAdd ==
  ASSUME TypeOK, NEW S \in SUBSET Jobs, NEW c \in Cores, NEW j \in Jobs, j \notin S,
         IsFiniteSet(TasksOf(S, c))
  PROVE  /\ IsFiniteSet(TasksOf(S \cup {j}, c))
         /\ Cardinality(TasksOf(S \cup {j}, c)) = Cardinality(TasksOf(S, c)) + TaskNumber(j, c)
<1>1. TaskNumber(j, c) \in Nat
  BY ConstantsAssumption DEF TypeOK, TaskNumber, SubmitArgs
<1>2. PICK n \in Nat : n = TaskNumber(j, c)
  BY <1>1
<1>3. PICK A : A = TasksOf(S, c)
  OBVIOUS
<1>4. PICK B : B = {j} \X (1 .. n)
  OBVIOUS
<1>5. IsFiniteSet(1 .. n) /\ Cardinality(1 .. n) = n
  BY FS_Interval
<1>6. IsFiniteSet({j}) /\ Cardinality({j}) = 1
  BY FS_Singleton
<1>7. IsFiniteSet(B) /\ Cardinality(B) = n
  <2>1. IsFiniteSet(B) /\ Cardinality(B) = Cardinality({j}) * Cardinality(1 .. n)
    BY <1>4, <1>5, <1>6, FS_Product
  <2>2. Cardinality(B) = 1 * n
    BY <1>5, <1>6, <2>1
  <2>3. QED
    BY <2>1, <2>2
<1>8. TasksOf(S \cup {j}, c) = A \cup B
  BY <1>2, <1>3, <1>4 DEF TasksOf
<1>9. A \cap B = {}
  BY <1>3, <1>4 DEF TasksOf
<1>10. Cardinality(A \cap B) = 0
  BY <1>9, FS_EmptySet
<1>11. IsFiniteSet(A) /\ Cardinality(A) \in Nat
  BY <1>3, FS_CardinalityType
<1>12. IsFiniteSet(A \cup B) /\ Cardinality(A \cup B) = Cardinality(A) + Cardinality(B) - 0
  BY <1>7, <1>10, <1>11, FS_Union
<1>13. Cardinality(A \cup B) = Cardinality(A) + n
  BY <1>7, <1>11, <1>12
<1>14. QED
  BY <1>2, <1>3, <1>8, <1>12, <1>13

\* The tasks of fewer jobs.
LEMMA TasksDrop ==
  ASSUME NEW S, NEW R \in SUBSET S, NEW c \in Cores, IsFiniteSet(TasksOf(S, c))
  PROVE  /\ IsFiniteSet(TasksOf(R, c))
         /\ Cardinality(TasksOf(R, c)) \in Nat /\ Cardinality(TasksOf(S, c)) \in Nat
         /\ Cardinality(TasksOf(R, c)) <= Cardinality(TasksOf(S, c))
<1>1. TasksOf(R, c) \subseteq TasksOf(S, c)
  BY DEF TasksOf
<1>2. /\ IsFiniteSet(TasksOf(R, c))
      /\ Cardinality(TasksOf(R, c)) <= Cardinality(TasksOf(S, c))
  BY <1>1, FS_Subset
<1>3. QED
  BY <1>2, FS_CardinalityType

\* The tasks of one job less.
LEMMA TasksRemove ==
  ASSUME TypeOK, NEW S \in SUBSET Jobs, NEW c \in Cores, NEW j \in S, IsFiniteSet(TasksOf(S, c))
  PROVE  /\ IsFiniteSet(TasksOf(S \ {j}, c))
         /\ Cardinality(TasksOf(S \ {j}, c)) = Cardinality(TasksOf(S, c)) - TaskNumber(j, c)
<1>1. PICK R \in SUBSET Jobs : R = S \ {j}
  OBVIOUS
<1>2. /\ IsFiniteSet(TasksOf(R, c))
      /\ Cardinality(TasksOf(R, c)) \in Nat /\ Cardinality(TasksOf(S, c)) \in Nat
  BY <1>1, TasksDrop
<1>3. j \in Jobs /\ j \notin R /\ S = R \cup {j}
  BY <1>1
<1>4. Cardinality(TasksOf(R \cup {j}, c)) = Cardinality(TasksOf(R, c)) + TaskNumber(j, c)
  BY <1>2, <1>3, TasksAdd
<1>5. TaskNumber(j, c) \in Nat
  BY <1>3, ConstantsAssumption DEF TypeOK, TaskNumber, SubmitArgs
<1>6. Cardinality(TasksOf(S, c)) = Cardinality(TasksOf(R, c)) + TaskNumber(j, c)
  BY <1>3, <1>4
<1>7. Cardinality(TasksOf(R, c)) = Cardinality(TasksOf(S, c)) - TaskNumber(j, c)
  BY <1>2, <1>5, <1>6
<1>8. QED
  BY <1>1, <1>2, <1>7

-----------------------------------------------------------------------------
(* The job path: the load is exact *)

LoadInv ==
    \A c \in Cores :
        IsFiniteSet(TasksOf(Held(c), c)) /\ task_num[c] = Cardinality(TasksOf(Held(c), c))

\* What a step may do to the jobs and the load of a core.
LoadStep(c) ==
    \/ Held(c)' = Held(c) /\ task_num'[c] = task_num[c]
    \/ \E j \in Jobs : /\ j \notin Held(c) /\ Held(c)' = Held(c) \cup {j}
                       /\ task_num'[c] = task_num[c] + TaskNumber(j, c)
    \/ \E j \in Held(c) : /\ Held(c)' = Held(c) \ {j}
                          /\ task_num'[c] = task_num[c] - TaskNumber(j, c)

\* Such a step keeps the load exact.
LEMMA LoadKept ==
  ASSUME TypeOK, LoadInv, args' = args, \A c \in Cores : LoadStep(c)
  PROVE  LoadInv'
<1> SUFFICES ASSUME NEW c \in Cores
             PROVE  /\ IsFiniteSet(TasksOf(Held(c), c)')
                    /\ task_num'[c] = Cardinality(TasksOf(Held(c), c)')
  BY DEF LoadInv
<1>1. PICK S \in SUBSET Jobs : S = Held(c)
  BY DEF Held
<1>2. PICK R : R = Held(c)'
  OBVIOUS
<1>3. TasksOf(Held(c), c)' = TasksOf(R, c)
  BY <1>2 DEF TasksOf, TaskNumber
<1>4. IsFiniteSet(TasksOf(S, c)) /\ task_num[c] = Cardinality(TasksOf(S, c))
  BY <1>1 DEF LoadInv
<1>5. CASE R = S /\ task_num'[c] = task_num[c]
  BY <1>3, <1>4, <1>5
<1>6. ASSUME NEW j \in Jobs, j \notin S, R = S \cup {j},
             task_num'[c] = task_num[c] + TaskNumber(j, c)
      PROVE  IsFiniteSet(TasksOf(R, c)) /\ task_num'[c] = Cardinality(TasksOf(R, c))
  BY <1>4, <1>6, TasksAdd
<1>7. ASSUME NEW j \in S, R = S \ {j}, task_num'[c] = task_num[c] - TaskNumber(j, c)
      PROVE  IsFiniteSet(TasksOf(R, c)) /\ task_num'[c] = Cardinality(TasksOf(R, c))
  BY <1>4, <1>7, TasksRemove
<1>8. QED
  BY <1>1, <1>2, <1>3, <1>5, <1>6, <1>7 DEF LoadStep

\* rknpu_job_schedule() adds the job and its tasks to every core of its mask.
LEMMA EnqueueAdds ==
  ASSUME TypeOK, NEW j \in Jobs, Enqueue(j), NEW c \in Cores
  PROVE  /\ c \in mask[j] => /\ Held(c)' = Held(c) \cup {j}
                             /\ task_num'[c] = task_num[c] + TaskNumber(j, c)
         /\ c \notin mask[j] => Held(c)' = Held(c) /\ task_num'[c] = task_num[c]
<1>1. todo'[c] = IF c \in mask[j] THEN Append(todo[c], j) ELSE todo[c]
  BY DEF Enqueue
<1>2. slot' = slot
  BY DEF Enqueue
<1>3. CASE c \in mask[j]
  <2>1. PICK s \in Seq(Jobs) : s = todo[c]
    BY DEF TypeOK
  <2>2. PICK u : u = Append(s, j)
    OBVIOUS
  <2>3. /\ Len(u) = Len(s) + 1 /\ Len(s) \in Nat
        /\ \A i \in 1 .. Len(s) : u[i] = s[i]
        /\ u[Len(s) + 1] = j
    BY <2>2, AppendProperties
  <2>4. \A k \in Jobs :
           (\E i \in 1 .. Len(u) : u[i] = k) <=> (\E i \in 1 .. Len(s) : s[i] = k) \/ k = j
    BY <2>3
  <2>5. \A k \in Jobs : InTodo(k, c)' <=> InTodo(k, c) \/ k = j
    BY <1>1, <1>3, <2>1, <2>2, <2>4 DEF InTodo
  <2>6. Held(c)' = Held(c) \cup {j}
    BY <1>2, <2>5 DEF Held
  <2>7. task_num'[c] = task_num[c] + TaskNumber(j, c)
    BY <1>3 DEF Enqueue
  <2>8. QED
    BY <1>3, <2>6, <2>7
<1>4. CASE c \notin mask[j]
  <2>1. Held(c)' = Held(c)
    BY <1>1, <1>2, <1>4 DEF Held, InTodo
  <2>2. task_num'[c] = task_num[c]
    BY <1>4 DEF Enqueue
  <2>3. QED
    BY <1>4, <2>1, <2>2
<1>5. QED
  BY <1>3, <1>4

\* rknpu_job_next() moves a job from the list to the slot, which was empty.
LEMMA PopsLoad ==
  ASSUME TypeOK, NEW t \in Threads, NEW d \in Cores, JobNextPops(t, d), NEW c \in Cores
  PROVE  Held(c)' = Held(c) /\ task_num'[c] = task_num[c]
<1>1. task_num' = task_num /\ slot[d] = NoJob /\ todo[d] # <<>>
  BY DEF JobNextPops, NothingToStart
<1>2. PICK s \in Seq(Jobs) : s = todo[d]
  BY DEF TypeOK
<1>3. PICK u : u = Tail(s)
  OBVIOUS
<1>4. /\ Len(s) \in Nat /\ Len(s) >= 1 /\ Len(u) = Len(s) - 1
      /\ \A i \in 1 .. Len(s) - 1 : u[i] = s[i + 1]
      /\ Head(s) = s[1]
  BY <1>1, <1>2, <1>3, TailProperties
<1>5. /\ slot' = [slot EXCEPT ![d] = s[1]] /\ todo' = [todo EXCEPT ![d] = u]
  BY <1>2, <1>3, <1>4 DEF JobNextPops
<1>6. CASE c # d
  <2>1. slot'[c] = slot[c] /\ todo'[c] = todo[c]
    BY <1>5, <1>6 DEF TypeOK
  <2>2. QED
    BY <1>1, <2>1 DEF Held, InTodo
<1>7. CASE c = d
  <2>1. slot'[c] = s[1] /\ todo'[c] = u
    BY <1>5, <1>7 DEF TypeOK
  <2>2. \A k : (\E i \in 1 .. Len(s) : s[i] = k) <=> (\E i \in 1 .. Len(u) : u[i] = k) \/ s[1] = k
    <3>1. ASSUME NEW i \in 1 .. Len(s)
          PROVE  i = 1 \/ (i - 1 \in 1 .. Len(u) /\ u[i - 1] = s[i])
      BY <1>4
    <3>2. ASSUME NEW i \in 1 .. Len(u)
          PROVE  i + 1 \in 1 .. Len(s) /\ u[i] = s[i + 1]
      BY <1>4
    <3>3. 1 \in 1 .. Len(s)
      BY <1>4
    <3>4. QED
      BY <3>1, <3>2, <3>3
  <2>3. \A k \in Jobs : slot[c] # k
    BY <1>1, <1>7, ConstantsAssumption
  <2>4. \A k \in Jobs : InTodo(k, c) <=> InTodo(k, c)' \/ slot'[c] = k
    BY <1>2, <1>7, <2>1, <2>2 DEF InTodo
  <2>5. QED
    BY <1>1, <2>3, <2>4 DEF Held
<1>8. QED
  BY <1>6, <1>7

\* rknpu_job_done() takes the job out of the slot, and its tasks off the load.
LEMMA RetiresLoad ==
  ASSUME IInv, NEW d \in Cores, DoneRetires(d), NEW c \in Cores
  PROVE  LoadStep(c)
<1>0. TypeOK
  BY DEF IInv
<1>1. PICK h \in Jobs : h = ijob[d]
  <2>1. irq[d] # "idle"
    BY DEF DoneRetires
  <2>2. QED
    BY <1>0, <2>1 DEF TypeOK
<1>2. slot[d] = h /\ ~InTodo(h, d)
  BY <1>1 DEF IInv, CoreInv, ListInv, DoneRetires
<1>3. /\ todo' = todo /\ slot' = [slot EXCEPT ![d] = NoJob]
      /\ task_num' = [task_num EXCEPT ![d] = task_num[d] - TaskNumber(h, d)]
  BY <1>1 DEF DoneRetires
<1>4. CASE c = d
  <2>1. slot'[c] = NoJob /\ task_num'[c] = task_num[c] - TaskNumber(h, c)
    BY <1>0, <1>3, <1>4 DEF TypeOK
  <2>2. \A k \in Jobs : InTodo(k, c)' = InTodo(k, c)
    BY <1>3 DEF InTodo
  <2>3. h \in Held(c) /\ Held(c)' = Held(c) \ {h}
    BY <1>2, <1>4, <2>1, <2>2, ConstantsAssumption DEF Held
  <2>4. QED
    BY <2>1, <2>3 DEF LoadStep
<1>5. CASE c # d
  BY <1>0, <1>3, <1>5 DEF TypeOK, LoadStep, Held, InTodo
<1>6. QED
  BY <1>4, <1>5

\* Every step keeps the load exact.
LEMMA LoadInvStep ==
  ASSUME IInv, LoadInv, [Next]_vars
  PROVE  LoadInv'
<1>0. TypeOK
  BY DEF IInv
<1>1. args' = args
  BY DEF Next, SubmitFails, Submit, SubmitterStep, CleanNothing, PickCore, Enqueue, Scheduled,
         WaitSleeps, WaitEnds, WaitSucceeds, Returns, CleanupWork, DispatchStep, JobNextReturns,
         JobNextPops, JobNextCounts, CommitCore, HwFinishes, HandlerStep, IrqEnters,
         DoneRecommits, DoneLastSegment, DoneRetires, DoneNotLastCore, DoneLastCore,
         DoneSignals, DoneWakes, AllReturned, vars, alloc
<1>2. ASSUME NEW j \in Jobs, Enqueue(j)
      PROVE  LoadInv'
  <2>1. \A c \in Cores : ~InTodo(j, c) /\ slot[c] # j
    <3>1. ~Enqueued(j)
      BY <1>2 DEF Enqueued, Enqueue
    <3>2. QED
      BY <3>1, ConstantsAssumption DEF IInv, ListInv
  <2>2. \A c \in Cores : j \notin Held(c)
    BY <2>1 DEF Held
  <2>3. \A c \in Cores : LoadStep(c)
    BY <1>0, <1>2, <2>2, EnqueueAdds DEF LoadStep
  <2>4. QED
    BY <1>0, <1>1, <2>3, LoadKept
<1>3. ASSUME NEW t \in Threads, NEW d \in Cores, JobNextPops(t, d)
      PROVE  LoadInv'
  BY <1>0, <1>1, <1>3, PopsLoad, LoadKept DEF LoadStep
<1>4. ASSUME NEW d \in Cores, DoneRetires(d)
      PROVE  LoadInv'
  BY <1>0, <1>1, <1>4, RetiresLoad, LoadKept
<1>5. CASE UNCHANGED subcore
  <2>1. \A c \in Cores : LoadStep(c)
    BY <1>5 DEF subcore, LoadStep, Held, InTodo
  <2>2. QED
    BY <1>0, <1>1, <2>1, LoadKept
<1>6. \/ UNCHANGED subcore \/ \E j \in Jobs : Enqueue(j)
      \/ \E t \in Threads, d \in Cores : JobNextPops(t, d)
      \/ \E d \in Cores : DoneRetires(d)
  BY DEF Next, SubmitFails, Submit, SubmitterStep, CleanNothing, PickCore, Scheduled,
         WaitSleeps, WaitEnds, WaitSucceeds, Returns, CleanupWork, DispatchStep, JobNextReturns,
         JobNextCounts, CommitCore, HwFinishes, HandlerStep, IrqEnters, DoneRecommits,
         DoneLastSegment, DoneNotLastCore, DoneLastCore, DoneSignals, DoneWakes, AllReturned,
         vars, subcore
<1>7. QED
  BY <1>2, <1>3, <1>4, <1>5, <1>6

\* rknpu_job_schedule(), rknpu_job_done(): the load of every core is the number of
\* tasks of the jobs it has queued or holds, for any cores, jobs and arguments.
THEOREM LoadIsExact == Spec => []TaskNumExact
<1>1. Init => LoadInv
  <2> SUFFICES ASSUME Init, NEW c \in Cores
               PROVE  /\ IsFiniteSet(TasksOf(Held(c), c))
                      /\ task_num[c] = Cardinality(TasksOf(Held(c), c))
    BY DEF LoadInv
  <2>1. todo[c] = <<>> /\ slot[c] = NoJob /\ task_num[c] = 0
    BY DEF Init
  <2>2. Held(c) = {}
    BY <2>1, ConstantsAssumption DEF Held, InTodo
  <2>3. TasksOf(Held(c), c) = {}
    BY <2>2 DEF TasksOf
  <2>4. IsFiniteSet({}) /\ Cardinality({}) = 0
    BY FS_EmptySet
  <2>5. QED
    BY <2>1, <2>3, <2>4
<1>2. IInv /\ LoadInv /\ [Next]_vars => IInv' /\ LoadInv'
  BY GangStep, LoadInvStep
<1>3. LoadInv => TaskNumExact
  BY DEF LoadInv, TaskNumExact
<1>4. QED
  BY <1>1, <1>2, <1>3, GangInit, PTL DEF Spec

-----------------------------------------------------------------------------
(* With failures: the load is never too low *)

\* The handler of c has job j and has not given its tasks back.
Handling(j, c) == irq[c] \in {"status", "retire"} /\ ijob[c] = j

\* The jobs whose tasks the load of c must still count: a handler will give back those
\* of its job even if a sweep has taken the job out of the slot.
Owed(c) == Held(c) \cup {j \in Jobs : Handling(j, c)}

CoverInv ==
    \A c \in Cores :
        IsFiniteSet(TasksOf(Owed(c), c)) /\ task_num[c] >= Cardinality(TasksOf(Owed(c), c))

\* What a step may do to the jobs and the load of a core.
CoverStep(c) ==
    \/ Owed(c)' \subseteq Owed(c) /\ task_num'[c] = task_num[c]
    \/ \E j \in Jobs : /\ j \notin Owed(c) /\ Owed(c)' = Owed(c) \cup {j}
                       /\ task_num'[c] = task_num[c] + TaskNumber(j, c)
    \/ \E j \in Owed(c) : /\ Owed(c)' \subseteq Owed(c) \ {j}
                          /\ task_num'[c] = task_num[c] - TaskNumber(j, c)

\* Such a step keeps the load high enough.
LEMMA CoverKept ==
  ASSUME TypeOK, CoverInv, args' = args, \A c \in Cores : CoverStep(c)
  PROVE  CoverInv'
<1> SUFFICES ASSUME NEW c \in Cores
             PROVE  /\ IsFiniteSet(TasksOf(Owed(c), c)')
                    /\ task_num'[c] >= Cardinality(TasksOf(Owed(c), c)')
  BY DEF CoverInv
<1>1. PICK S \in SUBSET Jobs : S = Owed(c)
  BY DEF Owed, Held
<1>2. PICK R : R = Owed(c)'
  OBVIOUS
<1>3. TasksOf(Owed(c), c)' = TasksOf(R, c)
  BY <1>2 DEF TasksOf, TaskNumber
<1>4. IsFiniteSet(TasksOf(S, c)) /\ task_num[c] >= Cardinality(TasksOf(S, c)) /\ task_num[c] \in Int
  BY <1>1 DEF CoverInv, TypeOK
<1>5. ASSUME R \subseteq S, task_num'[c] = task_num[c]
      PROVE  IsFiniteSet(TasksOf(R, c)) /\ task_num'[c] >= Cardinality(TasksOf(R, c))
  <2>1. /\ IsFiniteSet(TasksOf(R, c))
        /\ Cardinality(TasksOf(R, c)) \in Nat /\ Cardinality(TasksOf(S, c)) \in Nat
        /\ Cardinality(TasksOf(R, c)) <= Cardinality(TasksOf(S, c))
    BY <1>4, <1>5, TasksDrop
  <2>2. QED
    BY <1>4, <1>5, <2>1
<1>6. \A j \in Jobs : TaskNumber(j, c) \in Nat
  BY ConstantsAssumption DEF TypeOK, TaskNumber, SubmitArgs
<1>7. Cardinality(TasksOf(S, c)) \in Nat
  BY <1>4, FS_CardinalityType
<1>8. ASSUME NEW j \in Jobs, j \notin S, R = S \cup {j},
             task_num'[c] = task_num[c] + TaskNumber(j, c)
      PROVE  IsFiniteSet(TasksOf(R, c)) /\ task_num'[c] >= Cardinality(TasksOf(R, c))
  <2>1. /\ IsFiniteSet(TasksOf(R, c))
        /\ Cardinality(TasksOf(R, c)) = Cardinality(TasksOf(S, c)) + TaskNumber(j, c)
    BY <1>4, <1>8, TasksAdd
  <2>2. QED
    BY <1>4, <1>6, <1>7, <1>8, <2>1
<1>9. ASSUME NEW j \in S, R \subseteq S \ {j}, task_num'[c] = task_num[c] - TaskNumber(j, c)
      PROVE  IsFiniteSet(TasksOf(R, c)) /\ task_num'[c] >= Cardinality(TasksOf(R, c))
  <2>1. PICK Q : Q = S \ {j}
    OBVIOUS
  <2>2. /\ IsFiniteSet(TasksOf(Q, c))
        /\ Cardinality(TasksOf(Q, c)) = Cardinality(TasksOf(S, c)) - TaskNumber(j, c)
    BY <1>4, <2>1, TasksRemove
  <2>3. /\ IsFiniteSet(TasksOf(R, c))
        /\ Cardinality(TasksOf(R, c)) \in Nat /\ Cardinality(TasksOf(Q, c)) \in Nat
        /\ Cardinality(TasksOf(R, c)) <= Cardinality(TasksOf(Q, c))
    BY <1>9, <2>1, <2>2, TasksDrop
  <2>4. TaskNumber(j, c) \in Nat
    BY <1>6
  <2>5. QED
    BY <1>4, <1>7, <1>9, <2>2, <2>3, <2>4
<1>10. QED
  BY <1>1, <1>2, <1>3, <1>5, <1>8, <1>9 DEF CoverStep

\* Who changes the load.
LEMMA LoadSteps ==
  ASSUME [RNext]_rvars
  PROVE  \/ task_num' = task_num
         \/ \E j \in Jobs : Enqueue(j) \/ AbortClears(j)
         \/ \E c \in Cores : DoneRetires(c)
BY DEF RNext, Next, SubmitFails, Submit, SubmitterStep, CleanNothing, PickCore, Scheduled,
       WaitSleeps, WaitEnds, WaitSucceeds, Returns, CleanupWork, DispatchStep, JobNextReturns,
       JobNextPops, JobNextCounts, CommitCore, HwFinishes, HandlerStep, IrqEnters, DoneRecommits,
       DoneLastSegment, DoneNotLastCore, DoneLastCore, DoneSignals, DoneWakes, AllReturned,
       ScheduleFails, WaitExpires, RecoveryStep, WaitNeverCommitted, WaitDequeues, WaitFails,
       CheckFails, AbortFrees, ResetSkipped, ResetBegins, ResetMarks, ResetHits, ResetErrs,
       ResetEnds, ResetUnlocks, CleanUnlinks, CleanDrains, CleanNextCore, CleanExpired,
       HwGlitches, RHandlerStep, IrqWithoutJob, IrqInvalid, JobNextChecks, UserReset,
       UserResetBegins, UserResetMarks, UserResetHits, UserResetEnds, UserResetUnlocks,
       rvars, vars, subcore

\* No handler takes up a job.
NoNewHandling == \A j \in Jobs, c \in Cores : Handling(j, c)' => Handling(j, c)

\* Who takes up a job: the interrupt handler on entry.
LEMMA HandlingSteps ==
  ASSUME UInv, [RNext]_rvars
  PROVE  NoNewHandling \/ \E c \in Cores : IrqEnters(c)
<1>1. ASSUME NEW c \in Cores, irq' = [irq EXCEPT ![c] = irq'[c]],
             ijob' = [ijob EXCEPT ![c] = ijob'[c]],
             irq'[c] \notin {"status", "retire"} \/ (irq[c] = "status" /\ ijob' = ijob)
      PROVE  NoNewHandling
  BY <1>1, UTypes DEF NoNewHandling, Handling
<1>2. ASSUME NEW c \in Cores, RHandlerStep(c) \/ HandlerStep(c), ~IrqEnters(c)
      PROVE  NoNewHandling
  <2>1. CASE IrqWithoutJob(c)
    BY <2>1 DEF IrqWithoutJob, handler, NoNewHandling, Handling
  <2>2. CASE IrqInvalid(c) \/ DoneRecommits(c) \/ DoneNotLastCore(c) \/ DoneWakes(c)
    BY <1>1, <2>2, UTypes DEF IrqInvalid, DoneRecommits, DoneNotLastCore, DoneWakes
  <2>3. CASE DoneLastSegment(c) \/ DoneRetires(c) \/ DoneLastCore(c) \/ DoneSignals(c)
    BY <1>1, <2>3, UTypes DEF DoneLastSegment, DoneRetires, DoneLastCore, DoneSignals
  <2>4. QED
    BY <1>2, <2>1, <2>2, <2>3 DEF RHandlerStep, HandlerStep
<1>3. CASE irq' = irq /\ ijob' = ijob
  BY <1>3 DEF NoNewHandling, Handling
<1>4. ASSUME Next, ~\E c \in Cores : HandlerStep(c)
      PROVE  irq' = irq /\ ijob' = ijob
  BY <1>4
  DEF Next, SubmitFails, Submit, SubmitterStep, CleanNothing, PickCore, Enqueue, Scheduled,
      WaitSleeps, WaitEnds, WaitSucceeds, Returns, CleanupWork, DispatchStep, JobNextReturns,
      JobNextPops, JobNextCounts, CommitCore, HwFinishes, AllReturned, vars, handler
<1>5. ASSUME [RNext]_rvars, ~Next, ~\E c \in Cores : RHandlerStep(c)
      PROVE  irq' = irq /\ ijob' = ijob
  BY <1>5
  DEF RNext, ScheduleFails, WaitExpires, RecoveryStep, WaitNeverCommitted, WaitDequeues,
      WaitFails, CheckFails, AbortClears, AbortFrees, ResetSkipped, ResetBegins, ResetMarks,
      ResetHits, ResetErrs, ResetEnds, ResetUnlocks, CleanUnlinks, CleanDrains, CleanNextCore,
      CleanExpired, HwGlitches, JobNextChecks, UserReset, UserResetBegins, UserResetMarks,
      UserResetHits, UserResetEnds, UserResetUnlocks, rvars, vars, handler
<1>6. QED
  BY <1>2, <1>3, <1>4, <1>5

\* Every step keeps the load high enough.
LEMMA CoverInvStep ==
  ASSUME UInv, CoverInv, [RNext]_rvars
  PROVE  CoverInv'
<1>0. TypeOK /\ args' = args
  BY UTypes, MaskSteps
<1>1. ASSUME NEW j \in Jobs, Enqueue(j)
      PROVE  CoverInv'
  <2>1. \A c \in Cores : ~InTodo(j, c) /\ slot[c] # j /\ ~Handling(j, c)
    BY <1>1 DEF Enqueue, UInv, FreshInv, NotQueuedYet, Early, Unseen, Handling
  <2>2. irq' = irq /\ ijob' = ijob
    BY <1>1 DEF Enqueue, handler
  <2>3. ASSUME NEW c \in Cores
        PROVE  CoverStep(c)
    <3>1. j \notin Owed(c)
      BY <2>1 DEF Owed, Held
    <3>2. CASE c \in mask[j]
      <4>1. Held(c)' = Held(c) \cup {j} /\ task_num'[c] = task_num[c] + TaskNumber(j, c)
        BY <1>0, <1>1, <2>1, <3>2, EnqueueAdds
      <4>2. Owed(c)' = Owed(c) \cup {j}
        BY <2>2, <4>1 DEF Owed, Handling
      <4>3. QED
        BY <3>1, <4>1, <4>2 DEF CoverStep
    <3>3. CASE c \notin mask[j]
      <4>1. Held(c)' = Held(c) /\ task_num'[c] = task_num[c]
        BY <1>0, <1>1, <2>1, <3>3, EnqueueAdds
      <4>2. Owed(c)' = Owed(c)
        BY <2>2, <4>1 DEF Owed, Handling
      <4>3. QED
        BY <4>1, <4>2 DEF CoverStep
    <3>4. QED
      BY <3>2, <3>3
  <2>4. QED
    BY <1>0, <2>3, CoverKept
<1>2. ASSUME NEW t \in Threads, NEW d \in Cores, JobNextPops(t, d)
      PROVE  CoverInv'
  <2>1. irq' = irq /\ ijob' = ijob
    BY <1>2 DEF JobNextPops, handler
  <2>2. \A c \in Cores : Held(c)' = Held(c) /\ task_num'[c] = task_num[c]
    BY <1>0, <1>2, PopsLoad
  <2>3. \A c \in Cores : CoverStep(c)
    BY <2>1, <2>2 DEF CoverStep, Owed, Handling
  <2>4. QED
    BY <1>0, <2>3, CoverKept
<1>3. ASSUME NEW d \in Cores, IrqEnters(d)
      PROVE  CoverInv'
  <2>1. UNCHANGED <<todo, slot, task_num>>
    BY <1>3 DEF IrqEnters, subcore
  <2>2. \A c \in Cores : Held(c)' = Held(c)
    BY <2>1 DEF Held, InTodo
  <2>3. \A j \in Jobs, c \in Cores : Handling(j, c)' => Handling(j, c) \/ slot[c] = j
    BY <1>3, UTypes DEF IrqEnters, Handling
  <2>4. \A c \in Cores : Owed(c)' \subseteq Owed(c)
    BY <2>2, <2>3 DEF Owed, Held
  <2>5. QED
    BY <1>0, <2>1, <2>4, CoverKept DEF CoverStep
<1>4. ASSUME Shrinks, NoNewHandling, NEW c \in Cores
      PROVE  Owed(c)' \subseteq Owed(c)
  BY <1>4, ConstantsAssumption DEF Shrinks, NoNewHandling, Owed, Held
<1>5. ASSUME Shrinks, NoNewHandling, NEW d \in Cores, DoneRetires(d)
      PROVE  CoverInv'
  <2>1. PICK h \in Jobs : h = ijob[d]
    <3>1. irq[d] # "idle"
      BY <1>5 DEF DoneRetires
    <3>2. QED
      BY <1>0, <3>1, UTypes DEF TypeOK
  <2>2. /\ task_num' = [task_num EXCEPT ![d] = task_num[d] - TaskNumber(h, d)]
        /\ irq'[d] = "complete" /\ slot'[d] = NoJob /\ todo' = todo
    BY <1>5, <2>1, UTypes DEF DoneRetires
  <2>3. Handling(h, d)
    BY <1>5, <2>1 DEF DoneRetires, Handling
  <2>4. ~InTodo(h, d)
    BY <2>1 DEF UInv, PlaceInv
  <2>5. h \in Owed(d) /\ h \notin Owed(d)'
    <3>1. ~InTodo(h, d)' /\ slot'[d] # h /\ ~Handling(h, d)'
      BY <2>2, <2>4, ConstantsAssumption DEF InTodo, Handling
    <3>2. QED
      BY <2>3, <3>1 DEF Owed, Held
  <2>6. ASSUME NEW c \in Cores
        PROVE  CoverStep(c)
    <3>1. Owed(c)' \subseteq Owed(c)
      BY <1>4, <1>5
    <3>2. CASE c = d
      <4>1. task_num'[c] = task_num[c] - TaskNumber(h, c)
        BY <1>0, <2>2, <3>2 DEF TypeOK
      <4>2. QED
        BY <2>5, <3>1, <3>2, <4>1 DEF CoverStep
    <3>3. CASE c # d
      <4>1. task_num'[c] = task_num[c]
        BY <1>0, <2>2, <3>3 DEF TypeOK
      <4>2. QED
        BY <3>1, <4>1 DEF CoverStep
    <3>4. QED
      BY <3>2, <3>3
  <2>7. QED
    BY <1>0, <2>6, CoverKept
<1>6. ASSUME Shrinks, NoNewHandling, NEW j \in Jobs, AbortClears(j)
      PROVE  CoverInv'
  <2>1. PICK mine \in SUBSET Cores : mine = {c \in mask[j] : slot[c] = j /\ c \notin irq_entry[j]}
    BY UTypes
  <2>2. \A c \in Cores : /\ slot'[c] = IF c \in mine THEN NoJob ELSE slot[c]
                         /\ task_num'[c] = IF c \in mine THEN task_num[c] - TaskNumber(j, c)
                                           ELSE task_num[c]
    BY <1>6, <2>1 DEF AbortClears
  <2>3. UNCHANGED <<todo, irq, ijob>>
    BY <1>6 DEF AbortClears, handler
  <2>4. ASSUME NEW c \in Cores
        PROVE  CoverStep(c)
    <3>1. Owed(c)' \subseteq Owed(c)
      BY <1>4, <1>6
    <3>2. CASE c \in mine
      <4>1. slot[c] = j /\ ~InTodo(j, c) /\ ~Handling(j, c)
        BY <2>1, <3>2 DEF UInv, PlaceInv, Handling
      <4>2. slot'[c] # j /\ ~InTodo(j, c)' /\ ~Handling(j, c)'
        BY <2>2, <2>3, <3>2, <4>1, ConstantsAssumption DEF InTodo, Handling
      <4>3. j \in Owed(c) /\ j \notin Owed(c)'
        BY <4>1, <4>2 DEF Owed, Held
      <4>4. QED
        BY <2>2, <3>1, <3>2, <4>3 DEF CoverStep
    <3>3. CASE c \notin mine
      BY <2>2, <3>1, <3>3 DEF CoverStep
    <3>4. QED
      BY <3>2, <3>3
  <2>5. QED
    BY <1>0, <2>4, CoverKept
<1>7. CASE Shrinks /\ NoNewHandling /\ task_num' = task_num
  <2>1. \A c \in Cores : CoverStep(c)
    BY <1>4, <1>7 DEF CoverStep
  <2>2. QED
    BY <1>0, <2>1, CoverKept
<1>8. QED
  BY <1>1, <1>2, <1>3, <1>5, <1>6, <1>7, ShrinkingSteps, HandlingSteps, LoadSteps

\* rknpu_job_abort(), rknpu_job_timeout_clean(), rknpu_job_done(): whatever fails, and
\* even if the sleeps do not outlast the handlers, the load of a core is never less
\* than the tasks of the jobs it has queued or holds: no task is given back twice.
THEOREM LoadIsNeverTooLow == RSpec => []TaskNumCovers
<1>1. RInit => CoverInv
  <2> SUFFICES ASSUME RInit, NEW c \in Cores
               PROVE  /\ IsFiniteSet(TasksOf(Owed(c), c))
                      /\ task_num[c] >= Cardinality(TasksOf(Owed(c), c))
    BY DEF CoverInv
  <2>1. todo[c] = <<>> /\ slot[c] = NoJob /\ task_num[c] = 0 /\ irq[c] = "idle"
    BY DEF RInit, Init
  <2>2. Owed(c) = {}
    BY <2>1, ConstantsAssumption DEF Owed, Held, InTodo, Handling
  <2>3. TasksOf(Owed(c), c) = {}
    BY <2>2 DEF TasksOf
  <2>4. IsFiniteSet({}) /\ Cardinality({}) = 0
    BY FS_EmptySet
  <2>5. QED
    BY <2>1, <2>3, <2>4
<1>2. UInv /\ CoverInv /\ [RNext]_rvars => UInv' /\ CoverInv'
  BY UStep, CoverInvStep
<1>3. UInv /\ CoverInv => TaskNumCovers
  <2> SUFFICES ASSUME UInv, CoverInv, NEW c \in Cores
               PROVE  task_num[c] >= Cardinality(TasksOf(Held(c), c))
    BY DEF TaskNumCovers
  <2>1. Held(c) \subseteq Owed(c)
    BY DEF Owed
  <2>2. /\ Cardinality(TasksOf(Held(c), c)) <= Cardinality(TasksOf(Owed(c), c))
        /\ Cardinality(TasksOf(Held(c), c)) \in Nat /\ Cardinality(TasksOf(Owed(c), c)) \in Nat
    BY <2>1, TasksDrop DEF CoverInv
  <2>3. task_num[c] \in Int /\ task_num[c] >= Cardinality(TasksOf(Owed(c), c))
    BY UTypes DEF TypeOK, CoverInv
  <2>4. QED
    BY <2>2, <2>3
<1>4. QED
  BY <1>1, <1>2, <1>3, UInit, PTL DEF RSpec
=============================================================================

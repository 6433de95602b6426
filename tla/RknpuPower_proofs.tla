-------------------------- MODULE RknpuPower_proofs --------------------------
(***************************************************************************)
(* Theorems about RknpuPower, for any number of threads, any SoC and any   *)
(* number of failures: power_refcount is exact, the supplies match it, and *)
(* the component implements PowerPromise.                                  *)
(***************************************************************************)
EXTENDS RknpuPower, FiniteSetTheorems, TLAPS

-----------------------------------------------------------------------------
(* The inductive invariant *)

\* What the stage of probe and remove says: the work is pending or running only
\* while there is a workqueue, a cancelled work means remove, the system sleeps
\* only when probe has ended, and the debugfs nodes exist while someone is in one.
StageInv ==
    /\ queued = "yes" \/ worker # "idle" => HasQueue
    /\ queued = "cancelled" => stage \in {"unqueued", "nonodes", "absent"}
    /\ pm # "awake" => stage = "ready"
    /\ \A t \in Threads : pc[t] \in Commands \cup {"freq", "freq_bad"} => Nodes

\* What is true until the counts are spoiled: nobody is left in a removed driver,
\* the power node runs one command at a time, whose "on" is in
\* cmdline_power_refcount, and nobody puts a reference it did not get.
CallerInv ==
    /\ (stage = "absent" /\ fouls \subseteq {"stolen"}) => \A t \in Threads : pc[t] = "out"
    /\ "cmdline" \notin fouls =>
           \A t, u \in Threads : pc[t] \in Commands /\ pc[u] \in Commands => t = u
    /\ "cmdline" \notin fouls =>
           \A t \in Threads : pc[t] = "on" => cmdline_power_refcount > 0
    /\ "stolen" \notin fouls => \A t \in Threads : pc[t] \notin {"free_bad", "freq_bad"}

IInv == TypeOK /\ StageInv /\ CallerInv /\ RefcountExact /\ SuppliesMatch

-----------------------------------------------------------------------------
(* What the operators under power_lock do *)

\* What a count of n asks of the supplies.
Power(n) == IF n > 0 THEN 1 ELSE 0

\* The supplies follow power_refcount.
Follows ==
    /\ power_refcount' \in Int
    /\ on' \in [Present -> Int]
    /\ faults' \in 0 .. MaxFaults
    /\ \A s \in Present :
           on'[s] = on[s] + Power(power_refcount') - Power(power_refcount)

\* The error path of rknpu_power_on() gives back what is enabled, wherever it fails.
LEMMA UnwindingExact ==
  ASSUME NEW f \in Present, NEW s \in Present
  PROVE  s \in Enabled(f) <=> s \in Undone(f)
<1>1. /\ f \in {"vdd", "mem", "clk", "npu0", "npu1", "npu2", "dev"}
      /\ s \in {"vdd", "mem", "clk", "npu0", "npu1", "npu2", "dev"}
  BY PowerAssumption
<1>2. f \in {"npu0", "npu1", "npu2"} \/ s \in {"npu0", "npu1", "npu2"} => multiple_domains
  BY PowerAssumption
<1>3. s \in Enabled(f) <=> Rank[s] < Rank[f] \/ (s = "dev" /\ f = "dev")
  BY <1>1 DEF Enabled, Rank
<1>4. CASE s = "vdd" \/ s = "mem" \/ s = "clk"
  BY <1>1, <1>3, <1>4 DEF Undone, Flags, Rank
<1>5. CASE s = "npu0" \/ s = "npu1" \/ s = "npu2" \/ s = "dev"
  BY <1>1, <1>2, <1>3, <1>5 DEF Undone, Flags, Rank
<1>6. QED
  BY <1>1, <1>4, <1>5

\* rknpu_power_on() enables everything or, when it fails, nothing in the end.
LEMMA PowerOnEffect ==
  ASSUME TypeOK, NEW ok \in BOOLEAN, rknpu_power_on(ok)
  PROVE  /\ on' \in [Present -> Int]
         /\ faults' \in 0 .. MaxFaults
         /\ \A s \in Present : on'[s] = on[s] + (IF ok THEN 1 ELSE 0)
<1>1. CASE ok
  BY <1>1 DEF rknpu_power_on, TypeOK
<1>2. CASE ~ok
  <2>1. PICK f \in Present :
           on' = [s \in Present |-> on[s] + (IF s \in Enabled(f) THEN 1 ELSE 0)
                                          - (IF s \in Undone(f) THEN 1 ELSE 0)]
    BY <1>2 DEF rknpu_power_on
  <2>2. \A s \in Present : on'[s] = on[s] /\ on[s] \in Int
    BY <2>1, UnwindingExact DEF TypeOK
  <2>3. on' \in [Present -> Int]
    BY <2>1, <2>2
  <2>4. faults' \in 0 .. MaxFaults
    BY <1>2, PowerAssumption DEF rknpu_power_on, TypeOK
  <2>5. QED
    BY <1>2, <2>2, <2>3, <2>4
<1>3. QED
  BY <1>1, <1>2

\* rknpu_power_off() disables everything or, when it fails, nothing.
LEMMA PowerOffEffect ==
  ASSUME TypeOK, NEW ok \in BOOLEAN, rknpu_power_off(ok)
  PROVE  /\ on' \in [Present -> Int]
         /\ faults' \in 0 .. MaxFaults
         /\ \A s \in Present : on'[s] = on[s] - (IF ok THEN 1 ELSE 0)
<1>1. CASE ok
  BY <1>1 DEF rknpu_power_off, TypeOK
<1>2. CASE ~ok
  BY <1>2, PowerAssumption DEF rknpu_power_off, TypeOK
<1>3. QED
  BY <1>1, <1>2

\* rknpu_power_get() counts if it succeeds, and the first get powers on.
LEMMA GetEffect ==
  ASSUME TypeOK, NEW ok \in BOOLEAN, rknpu_power_get(ok)
  PROVE  Follows /\ power_refcount' = IF ok THEN power_refcount + 1 ELSE power_refcount
<1>1. CASE power_refcount = 0
  BY <1>1, PowerOnEffect DEF rknpu_power_get, Follows, Power, TypeOK
<1>2. CASE power_refcount # 0
  BY <1>2 DEF rknpu_power_get, Follows, Power, TypeOK, supply
<1>3. QED
  BY <1>1, <1>2

\* Drop() takes one off a positive count unless the power-off fails, and the last
\* one powers off.
LEMMA DropEffect ==
  ASSUME TypeOK, NEW ok \in BOOLEAN, Drop(ok)
  PROVE  /\ Follows
         /\ power_refcount' = IF ok THEN DecIfPositive(power_refcount) ELSE power_refcount
<1>1. CASE power_refcount = 1
  BY <1>1, PowerOffEffect DEF Drop, DecIfPositive, Follows, Power, TypeOK
<1>2. CASE power_refcount # 1
  BY <1>2 DEF Drop, DecIfPositive, Follows, Power, TypeOK, supply
<1>3. QED
  BY <1>1, <1>2

\* The last reference is passed on: the count stays, and the work has it unless
\* there is no workqueue, which is a foul.
HandsOver ==
    /\ power_refcount = 1 /\ power_refcount' = 1
    /\ queued' = IF HasQueue /\ queued = "no" THEN "yes" ELSE queued
    /\ fouls \subseteq fouls' /\ fouls' \subseteq fouls \cup {"remove", "probe"}
    /\ HasQueue \/ fouls' \cap {"remove", "probe"} # {}

\* rknpu_power_put_delay() drops the reference or hands it over.
LEMMA PutDelayEffect ==
  ASSUME TypeOK, NEW ok \in BOOLEAN, rknpu_power_put_delay(ok)
  PROVE  /\ Follows
         /\ queued' \in {"no", "yes", "cancelled"}
         /\ queued' = queued \/ (queued' = "yes" /\ HasQueue)
         /\ fouls \subseteq fouls' /\ fouls' \subseteq fouls \cup {"remove", "probe"}
         /\ \/ ok /\ HandsOver
            \/ /\ power_refcount' = IF ok THEN DecIfPositive(power_refcount)
                                          ELSE power_refcount
               /\ UNCHANGED <<queued, fouls>>
<1>1. CASE power_put_delay = 0
  BY <1>1, DropEffect DEF rknpu_power_put_delay, TypeOK
<1>2. CASE power_put_delay # 0 /\ power_refcount = 1
  <2>1. queue_delayed_work /\ power_refcount' = 1 /\ ok /\ on' = on /\ faults' = faults
    BY <1>2 DEF rknpu_power_put_delay, supply
  <2>2. Follows
    BY <1>2, <2>1 DEF Follows, Power, TypeOK
  <2>3. HandsOver
    BY <1>2, <2>1 DEF HandsOver, queue_delayed_work, FoulIf
  <2>4. QED
    BY <2>1, <2>2, <2>3 DEF HandsOver, TypeOK
<1>3. CASE power_put_delay # 0 /\ power_refcount # 1
  BY <1>3 DEF rknpu_power_put_delay, Follows, Power, DecIfPositive, TypeOK, supply
<1>4. QED
  BY <1>1, <1>2, <1>3

-----------------------------------------------------------------------------
(* Types and stages *)

\* Every step keeps the types and what the stage says.
LEMMA TypeStep ==
  ASSUME TypeOK, StageInv, Next
  PROVE  TypeOK' /\ StageInv'
<1> DEFINE Goal == TypeOK' /\ StageInv'
<1> USE PowerAssumption
<1>1. ASSUME NEW t \in Threads, IoctlGets(t)
      PROVE  Goal
  BY <1>1, GetEffect
  DEF IoctlGets, Starts, Goto, work, TypeOK, StageInv, Follows, HasQueue, Nodes, Stages,
      Places, Commands, Fouls
<1>2. ASSUME NEW t \in Threads, FreeGets(t)
      PROVE  Goal
  BY <1>2, GetEffect
  DEF FreeGets, Starts, Goto, FoulIf, work, TypeOK, StageInv, Follows, HasQueue, Nodes,
      Stages, Places, Commands, Fouls
<1>3. ASSUME NEW t \in Threads, FreqGets(t)
      PROVE  Goal
  BY <1>3, GetEffect
  DEF FreqGets, Starts, Goto, FoulIf, work, TypeOK, StageInv, Follows, HasQueue, Nodes,
      Stages, Places, Commands, Fouls
<1>4. ASSUME NEW t \in Threads, OnCounts(t)
      PROVE  Goal
  BY <1>4
  DEF OnCounts, Starts, Goto, FoulIf, supply, work, TypeOK, StageInv, Follows, HasQueue,
      Nodes, Stages, Places, Commands, Fouls
<1>5. ASSUME NEW t \in Threads, OffClaims(t)
      PROVE  Goal
  BY <1>5
  DEF OffClaims, Starts, Goto, FoulIf, supply, work, TypeOK, StageInv, Follows, HasQueue,
      Nodes, Stages, Places, Commands, Fouls
<1>6. ASSUME NEW t \in Threads, PutsDelayed(t)
      PROVE  Goal
  <2>1. PICK ok \in BOOLEAN : rknpu_power_put_delay(ok) /\ Goto(t, IF ok THEN "out" ELSE "retry")
    BY <1>6 DEF PutsDelayed
  <2>2. QED
    BY <1>6, <2>1, PutDelayEffect
    DEF PutsDelayed, Goto, TypeOK, StageInv, Follows, HasQueue, Nodes, Stages, Places, Commands,
        Fouls
<1>7. ASSUME NEW t \in Threads, Puts(t)
      PROVE  Goal
  BY <1>7, DropEffect
  DEF Puts, Goto, work, TypeOK, StageInv, Follows, HasQueue, Nodes, Stages, Places,
      Commands, Fouls
<1>8. ASSUME NEW t \in Threads, OnGets(t)
      PROVE  Goal
  BY <1>8, GetEffect
  DEF OnGets, Goto, FoulIf, work, TypeOK, StageInv, Follows, HasQueue, Nodes, Stages,
      Places, Commands, Fouls
<1>9. ASSUME NEW t \in Threads, OffSubtracts(t)
      PROVE  Goal
  BY <1>9
  DEF OffSubtracts, Goto, FoulIf, supply, work, TypeOK, StageInv, Follows, HasQueue, Nodes,
      Stages, Places, Commands, Fouls
<1>10. ASSUME NEW t \in Threads, OffClears(t)
       PROVE  Goal
  BY <1>10
  DEF OffClears, Goto, supply, work, TypeOK, StageInv, Follows, HasQueue, Nodes, Stages,
      Places, Commands, Fouls
<1>11. CASE WorkStarts
  BY <1>11
  DEF WorkStarts, counts, supply, TypeOK, StageInv, Follows, HasQueue, Nodes, Stages,
      Places, Commands, Fouls
<1>12. CASE rknpu_power_off_delay_work
  BY <1>12, DropEffect
  DEF rknpu_power_off_delay_work, TypeOK, StageInv, Follows, HasQueue, Nodes, Stages,
      Places, Commands, Fouls
<1>13. CASE WorkRetries
  <2>1. PICK ok \in BOOLEAN : rknpu_power_put_delay(ok) /\ worker' = IF ok THEN "idle" ELSE "retry"
    BY <1>13 DEF WorkRetries
  <2>2. QED
    BY <1>13, <2>1, PutDelayEffect
    DEF WorkRetries, TypeOK, StageInv, Follows, HasQueue, Nodes, Stages, Places, Commands,
        Fouls
<1>14. CASE rknpu_power_put_delay_set
  BY <1>14
  DEF rknpu_power_put_delay_set, counts, supply, work, TypeOK, StageInv, Follows, HasQueue,
      Nodes, Stages, Places, Commands, Fouls
<1>15. CASE ProbeRegisters
  BY <1>15
  DEF ProbeRegisters, supply, TypeOK, StageInv, Follows, HasQueue, Nodes, Stages, Places,
      Commands, Fouls
<1>16. CASE ProbeFails
  BY <1>16, PowerOnEffect
  DEF ProbeFails, FoulIf, counts, supply, work, TypeOK, StageInv, Follows, HasQueue, Nodes,
      Stages, Places, Commands, Fouls
<1>17. CASE ProbePowersOn
  BY <1>17, PowerOnEffect
  DEF ProbePowersOn, FoulIf, counts, work, TypeOK, StageInv, Follows, HasQueue, Nodes,
      Stages, Places, Commands, Fouls
<1>18. CASE ProbeSetsDelay
  BY <1>18
  DEF ProbeSetsDelay, counts, supply, work, TypeOK, StageInv, Follows, HasQueue, Nodes,
      Stages, Places, Commands, Fouls
<1>19. CASE ProbeCreatesQueue
  BY <1>19
  DEF ProbeCreatesQueue, counts, supply, work, TypeOK, StageInv, Follows, HasQueue, Nodes,
      Stages, Places, Commands, Fouls
<1>20. CASE ProbeUnwinds
  BY <1>20, PowerOffEffect
  DEF ProbeUnwinds, FoulIf, counts, TypeOK, StageInv, Follows, HasQueue, Nodes, Stages,
      Places, Commands, Fouls
<1>21. CASE ProbeEnds
  BY <1>21, PowerOffEffect
  DEF ProbeEnds, FoulIf, work, TypeOK, StageInv, Follows, HasQueue, Nodes, Stages, Places,
      Commands, Fouls
<1>22. CASE RemoveCancels
  BY <1>22
  DEF RemoveCancels, counts, supply, TypeOK, StageInv, Follows, HasQueue, Nodes, Stages,
      Places, Commands, Fouls
<1>23. CASE RemoveNodes
  BY <1>23
  DEF RemoveNodes, counts, supply, work, TypeOK, StageInv, Follows, HasQueue, Nodes, Stages,
      Places, Commands, Fouls
<1>24. CASE RemoveEnds
  BY <1>24, PowerOffEffect
  DEF RemoveEnds, FoulIf, counts, supply, work, TypeOK, StageInv, Follows, HasQueue, Nodes,
      Stages, Places, Commands, Fouls
<1>25. CASE SuspendGets
  BY <1>25, GetEffect
  DEF SuspendGets, work, TypeOK, StageInv, Follows, HasQueue, Nodes, Stages, Places,
      Commands, Fouls
<1>26. CASE SuspendEnds
  BY <1>26, DropEffect
  DEF SuspendEnds, supply, work, TypeOK, StageInv, Follows, HasQueue, Nodes, Stages, Places,
      Commands, Fouls
<1>27. CASE Resume
  <2>1. PICK ok \in BOOLEAN : rknpu_power_put_delay(ok) /\ pm' = IF ok THEN "awake" ELSE "retry"
    BY <1>27 DEF Resume
  <2>2. QED
    BY <1>27, <2>1, PutDelayEffect
    DEF Resume, TypeOK, StageInv, Follows, HasQueue, Nodes, Stages, Places, Commands,
        Fouls
<1>28. QED
  BY <1>1, <1>2, <1>3, <1>4, <1>5, <1>6, <1>7, <1>8, <1>9, <1>10, <1>11, <1>12, <1>13,
     <1>14, <1>15, <1>16, <1>17, <1>18, <1>19, <1>20, <1>21, <1>22, <1>23, <1>24, <1>25,
     <1>26, <1>27
  DEF Next, Enters, Continues, WorkSteps, Probes, Removes

-----------------------------------------------------------------------------
(* The callers *)

\* Every step keeps CallerInv: what would break it is a foul, and fouls stay.
LEMMA CallerStep ==
  ASSUME TypeOK, StageInv, CallerInv, Next
  PROVE  CallerInv' /\ fouls \subseteq fouls'
<1> DEFINE Goal == CallerInv' /\ fouls \subseteq fouls'
<1> USE PowerAssumption
<1>1. ASSUME NEW t \in Threads, IoctlGets(t)
      PROVE  Goal
  BY <1>1 DEF IoctlGets, Starts, Registered, Goto, TypeOK, StageInv, CallerInv, Commands, Places
<1>2. ASSUME NEW t \in Threads, FreeGets(t)
      PROVE  Goal
  BY <1>2
  DEF FreeGets, Starts, Registered, Goto, FoulIf, TypeOK, StageInv, CallerInv, Commands,
      Places
<1>3. ASSUME NEW t \in Threads, FreqGets(t)
      PROVE  Goal
  BY <1>3
  DEF FreqGets, Starts, Nodes, Goto, FoulIf, TypeOK, StageInv, CallerInv, Commands, Places
<1>4. ASSUME NEW t \in Threads, OnCounts(t)
      PROVE  Goal
  BY <1>4
  DEF OnCounts, Starts, Nodes, Goto, FoulIf, Overlaps, TypeOK, StageInv, CallerInv,
      Commands, Places
<1>5. ASSUME NEW t \in Threads, OffClaims(t)
      PROVE  Goal
  BY <1>5
  DEF OffClaims, Starts, Nodes, Goto, FoulIf, Overlaps, TypeOK, StageInv, CallerInv,
      Commands, Places
<1>6. ASSUME NEW t \in Threads, PutsDelayed(t)
      PROVE  Goal
  BY <1>6, PutDelayEffect DEF PutsDelayed, Goto, TypeOK, StageInv, CallerInv, Commands, Places
<1>7. ASSUME NEW t \in Threads, Puts(t)
      PROVE  Goal
  BY <1>7 DEF Puts, Goto, TypeOK, StageInv, CallerInv, Commands, Places
<1>8. ASSUME NEW t \in Threads, OnGets(t)
      PROVE  Goal
  BY <1>8 DEF OnGets, Goto, FoulIf, TypeOK, StageInv, CallerInv, Commands, Places
<1>9. ASSUME NEW t \in Threads, OffSubtracts(t)
      PROVE  Goal
  BY <1>9 DEF OffSubtracts, Goto, FoulIf, TypeOK, StageInv, CallerInv, Commands, Places
<1>10. ASSUME NEW t \in Threads, OffClears(t)
       PROVE  Goal
  BY <1>10 DEF OffClears, Goto, TypeOK, StageInv, CallerInv, Commands, Places
<1>11. CASE WorkStarts
  BY <1>11 DEF WorkStarts, counts, TypeOK, StageInv, CallerInv, Commands, Places
<1>12. CASE rknpu_power_off_delay_work
  BY <1>12 DEF rknpu_power_off_delay_work, TypeOK, StageInv, CallerInv, Commands, Places
<1>13. CASE WorkRetries
  BY <1>13, PutDelayEffect DEF WorkRetries, TypeOK, StageInv, CallerInv, Commands, Places
<1>14. CASE rknpu_power_put_delay_set
  BY <1>14 DEF rknpu_power_put_delay_set, counts, TypeOK, StageInv, CallerInv, Commands, Places
<1>15. CASE ProbeRegisters
  BY <1>15 DEF ProbeRegisters, TypeOK, StageInv, CallerInv, Commands, Places
<1>16. CASE ProbeFails
  BY <1>16 DEF ProbeFails, FoulIf, Early, counts, TypeOK, StageInv, CallerInv, Commands, Places
<1>17. CASE ProbePowersOn
  BY <1>17 DEF ProbePowersOn, FoulIf, counts, TypeOK, StageInv, CallerInv, Commands, Places
<1>18. CASE ProbeSetsDelay
  BY <1>18 DEF ProbeSetsDelay, counts, TypeOK, StageInv, CallerInv, Commands, Places
<1>19. CASE ProbeCreatesQueue
  BY <1>19 DEF ProbeCreatesQueue, counts, TypeOK, StageInv, CallerInv, Commands, Places
<1>20. CASE ProbeUnwinds
  BY <1>20
  DEF ProbeUnwinds, FoulIf, Early, counts, TypeOK, StageInv, CallerInv, Commands, Places
<1>21. CASE ProbeEnds
  BY <1>21 DEF ProbeEnds, FoulIf, Nodes, TypeOK, StageInv, CallerInv, Commands, Places
<1>22. CASE RemoveCancels
  BY <1>22 DEF RemoveCancels, counts, TypeOK, StageInv, CallerInv, Commands, Places
<1>23. CASE RemoveNodes
  BY <1>23 DEF RemoveNodes, counts, TypeOK, StageInv, CallerInv, Commands, Places
<1>24. CASE RemoveEnds
  BY <1>24 DEF RemoveEnds, FoulIf, counts, TypeOK, StageInv, CallerInv, Commands, Places
<1>25. CASE SuspendGets
  BY <1>25 DEF SuspendGets, TypeOK, StageInv, CallerInv, Commands, Places
<1>26. CASE SuspendEnds
  BY <1>26 DEF SuspendEnds, TypeOK, StageInv, CallerInv, Commands, Places
<1>27. CASE Resume
  BY <1>27, PutDelayEffect DEF Resume, TypeOK, StageInv, CallerInv, Commands, Places
<1>28. QED
  BY <1>1, <1>2, <1>3, <1>4, <1>5, <1>6, <1>7, <1>8, <1>9, <1>10, <1>11, <1>12, <1>13,
     <1>14, <1>15, <1>16, <1>17, <1>18, <1>19, <1>20, <1>21, <1>22, <1>23, <1>24, <1>25,
     <1>26, <1>27
  DEF Next, Enters, Continues, WorkSteps, Probes, Removes

-----------------------------------------------------------------------------
(* Counting *)

\* The holders are finitely many, before and after a step.
LEMMA HoldersFinite ==
  /\ IsFiniteSet(Holders) /\ Cardinality(Holders) \in Nat
  /\ IsFiniteSet(Holders') /\ Cardinality(Holders') \in Nat
<1>1. Holders \subseteq Threads /\ Holders' \subseteq Threads
  BY DEF Holders
<1>2. QED
  BY <1>1, PowerAssumption, FS_Subset, FS_CardinalityType

\* What a thread at place p counts for in power_refcount.
Share(p) == IF p \in {"ioctl", "free", "freq", "retry"} THEN 1 ELSE 0

\* The number of holders follows the one thread that moves.
LEMMA HoldersCount ==
  ASSUME NEW t \in Threads, \A u \in Threads \ {t} : pc'[u] = pc[u]
  PROVE  Cardinality(Holders') = Cardinality(Holders) + Share(pc'[t]) - Share(pc[t])
<1>1. CASE Share(pc'[t]) = Share(pc[t])
  <2>1. Holders' = Holders
    BY <1>1 DEF Holders, Share
  <2>2. QED
    BY <1>1, <2>1, HoldersFinite DEF Share
<1>2. CASE Share(pc'[t]) = 1 /\ Share(pc[t]) = 0
  <2>1. Holders' = Holders \cup {t} /\ t \notin Holders
    BY <1>2 DEF Holders, Share
  <2>2. Cardinality(Holders \cup {t}) = Cardinality(Holders) + 1
    BY <2>1, HoldersFinite, FS_AddElement
  <2>3. QED
    BY <1>2, <2>1, <2>2, HoldersFinite
<1>3. CASE Share(pc'[t]) = 0 /\ Share(pc[t]) = 1
  <2>1. Holders' = Holders \ {t} /\ t \in Holders
    BY <1>3 DEF Holders, Share
  <2>2. Cardinality(Holders \ {t}) = Cardinality(Holders) - 1
    BY <2>1, HoldersFinite, FS_RemoveElement
  <2>3. QED
    BY <1>3, <2>1, <2>2, HoldersFinite
<1>4. QED
  BY <1>1, <1>2, <1>3 DEF Share

\* Nobody holds anything when all are outside.
LEMMA NoHolders ==
  ASSUME TypeOK, \A t \in Threads : pc[t] = "out"
  PROVE  Cardinality(Holders) = 0 /\ CmdlineRefs = cmdline_power_refcount
<1>1. Holders = {}
  BY DEF Holders
<1>2. QED
  BY <1>1, FS_EmptySet DEF CmdlineRefs, In, TypeOK

\* CmdlineRefs for threads at places f and a count of n.
CmdlineAt(f, n) ==
    IF \E t \in Threads : f[t] = "off_set" THEN 1
    ELSE n + (IF \E t \in Threads : f[t] \in {"off", "off_put"} THEN 1 ELSE 0)
           - (IF \E t \in Threads : f[t] = "on" THEN 1 ELSE 0)

\* The definition of CmdlineRefs, before and after a step.
LEMMA CmdlineUnfold ==
  /\ CmdlineRefs = CmdlineAt(pc, cmdline_power_refcount)
  /\ CmdlineRefs' = CmdlineAt(pc', cmdline_power_refcount')
  BY DEF CmdlineRefs, CmdlineAt, In

\* Without a command under way the power node holds what it has counted,
LEMMA CmdlineNone ==
  ASSUME NEW f, NEW n \in Int, \A t \in Threads : f[t] \notin Commands
  PROVE  CmdlineAt(f, n) = n
  BY DEF CmdlineAt, Commands

\* and with one what that command has counted or uncounted in advance.
LEMMA CmdlineOne ==
  ASSUME NEW f, NEW n \in Int, NEW t \in Threads, f[t] \in Commands,
         \A u \in Threads : f[u] \in Commands => u = t
  PROVE  CmdlineAt(f, n) = IF f[t] = "off_set" THEN 1
                           ELSE IF f[t] = "on" THEN n - 1 ELSE n + 1
  BY DEF CmdlineAt, Commands

\* What the power node holds is never negative.
LEMMA CmdlineNat ==
  ASSUME TypeOK, CallerInv, "cmdline" \notin fouls
  PROVE  CmdlineRefs \in Nat
<1>1. CASE \A t \in Threads : pc[t] \notin Commands
  BY <1>1, CmdlineUnfold, CmdlineNone DEF TypeOK
<1>2. CASE \E t \in Threads : pc[t] \in Commands
  <2>1. PICK t \in Threads : pc[t] \in Commands
    BY <1>2
  <2>2. \A u \in Threads : pc[u] \in Commands => u = t
    BY <2>1 DEF CallerInv
  <2>3. pc[t] = "on" => cmdline_power_refcount > 0
    BY DEF CallerInv
  <2>4. QED
    BY <2>1, <2>2, <2>3, CmdlineUnfold, CmdlineOne DEF TypeOK
<1>3. QED
  BY <1>1, <1>2

\* A step of someone who runs no command leaves it alone.
LEMMA CmdlineSame ==
  ASSUME cmdline_power_refcount' = cmdline_power_refcount,
         \A t \in Threads : pc'[t] # pc[t] => pc'[t] \notin Commands /\ pc[t] \notin Commands
  PROVE  CmdlineRefs' = CmdlineRefs
  BY DEF CmdlineRefs, In, Commands

-----------------------------------------------------------------------------
(* The reference count *)

\* A step of thread t that runs no command keeps the count exact if the count, the
\* work's references and the thread's own share balance.
LEMMA ExactMove ==
  ASSUME TypeOK, RefcountExact, fouls = {}, stage # "absent",
         NEW t \in Threads, \A u \in Threads \ {t} : pc'[u] = pc[u],
         pc[t] \notin Commands, pc'[t] \notin Commands,
         UNCHANGED <<cmdline_power_refcount, pm>>, CmdlineRefs \in Int,
         power_refcount' = power_refcount + Share(pc'[t]) - Share(pc[t]) + WorkRefs' - WorkRefs
  PROVE  RefcountExact'
<1>1. CmdlineRefs' = CmdlineRefs
  BY CmdlineSame
<1>2. Cardinality(Holders') = Cardinality(Holders) + Share(pc'[t]) - Share(pc[t])
  BY HoldersCount
<1>3. SleepRefs' = SleepRefs /\ SleepRefs \in Int /\ WorkRefs \in Int /\ WorkRefs' \in Int
  BY DEF SleepRefs, WorkRefs
<1>4. Share(pc'[t]) \in Int /\ Share(pc[t]) \in Int
  BY DEF Share
<1>5. QED
  BY <1>1, <1>2, <1>3, <1>4, HoldersFinite DEF RefcountExact

\* A step of the work, of sleep or of probe and remove, likewise.
LEMMA ExactStay ==
  ASSUME TypeOK, RefcountExact, fouls = {}, stage # "absent",
         UNCHANGED <<pc, cmdline_power_refcount>>, CmdlineRefs \in Int,
         power_refcount' = power_refcount + WorkRefs' - WorkRefs + SleepRefs' - SleepRefs
  PROVE  RefcountExact'
<1>1. CmdlineRefs' = CmdlineRefs /\ Holders' = Holders
  BY DEF CmdlineRefs, In, Holders
<1>2. /\ SleepRefs \in Int /\ SleepRefs' \in Int
      /\ WorkRefs \in Int /\ WorkRefs' \in Int
  BY DEF SleepRefs, WorkRefs
<1>3. QED
  BY <1>1, <1>2, HoldersFinite DEF RefcountExact

\* The owner of a reference - a thread, the work or sleep - that calls
\* rknpu_power_put_delay() gives up just this one reference, to the work if it is
\* the last: the work has none then.
LEMMA ExactPut ==
  ASSUME TypeOK, RefcountExact, fouls = {}, fouls' = {}, stage # "absent",
         CmdlineRefs \in Nat, NEW ok \in BOOLEAN, rknpu_power_put_delay(ok),
         \/ Cardinality(Holders) > 0
         \/ worker # "idle"
         \/ pm # "awake"
  PROVE  LET Pending(q) == IF q # "no" THEN 1 ELSE 0
         IN  power_refcount' = power_refcount + Pending(queued') - Pending(queued)
                                 - (IF ok THEN 1 ELSE 0)
<1>1. power_refcount > 0 /\ (power_refcount = 1 /\ Cardinality(Holders) > 0 => queued = "no")
      /\ (power_refcount = 1 /\ (worker # "idle" \/ pm # "awake") => queued = "no")
  BY HoldersFinite DEF RefcountExact, WorkRefs, SleepRefs, TypeOK
<1>2. CASE ok /\ HandsOver
  BY <1>1, <1>2 DEF HandsOver, TypeOK
<1>3. CASE /\ power_refcount' = IF ok THEN DecIfPositive(power_refcount) ELSE power_refcount
           /\ UNCHANGED <<queued, fouls>>
  BY <1>1, <1>3 DEF DecIfPositive, TypeOK
<1>4. QED
  BY <1>2, <1>3, PutDelayEffect

\* Every step keeps the count exact.
LEMMA ExactStep ==
  ASSUME TypeOK, StageInv, CallerInv, RefcountExact, Next, TypeOK', CallerInv'
  PROVE  RefcountExact'
<1> USE PowerAssumption
<1> SUFFICES ASSUME fouls' = {}, stage' # "absent"
             PROVE  RefcountExact'
  BY DEF RefcountExact
<1>f. fouls = {}
  BY CallerStep
<1>c. CmdlineRefs \in Nat
  BY <1>f, CmdlineNat
<1>1. ASSUME NEW t \in Threads, IoctlGets(t)
      PROVE  RefcountExact'
  <2>1. PICK ok \in BOOLEAN : rknpu_power_get(ok) /\ Goto(t, IF ok THEN "ioctl" ELSE "out")
    BY <1>1 DEF IoctlGets
  <2>2. /\ pc[t] = "out" /\ pc'[t] = IF ok THEN "ioctl" ELSE "out"
        /\ \A u \in Threads \ {t} : pc'[u] = pc[u]
    BY <1>1, <2>1 DEF IoctlGets, Starts, Goto, TypeOK
  <2>3. power_refcount' = power_refcount + Share(pc'[t]) - Share(pc[t])
    BY <2>2, <2>1, GetEffect DEF Share, TypeOK
  <2>4. stage # "absent" /\ UNCHANGED <<cmdline_power_refcount, pm, queued, worker>>
    BY <1>1 DEF IoctlGets, Registered, work
  <2>5. QED
    BY <1>c, <1>f, <2>2, <2>3, <2>4, ExactMove DEF Commands, Share, WorkRefs, TypeOK
<1>2. ASSUME NEW t \in Threads, FreeGets(t)
      PROVE  RefcountExact'
  <2>1. PICK ok \in BOOLEAN : rknpu_power_get(ok) /\ Goto(t, IF ok THEN "free" ELSE "free_bad")
                             /\ FoulIf(~ok, "stolen")
    BY <1>2 DEF FreeGets
  <2>2. /\ pc[t] = "out" /\ pc'[t] = IF ok THEN "free" ELSE "free_bad"
        /\ \A u \in Threads \ {t} : pc'[u] = pc[u]
    BY <1>2, <2>1 DEF FreeGets, Starts, Goto, TypeOK
  <2>3. ok
    BY <1>f, <2>1 DEF FoulIf
  <2>4. power_refcount' = power_refcount + 1 /\ pc'[t] = "free"
    BY <2>1, <2>2, <2>3, GetEffect
  <2>5. power_refcount' = power_refcount + Share(pc'[t]) - Share(pc[t])
    BY <2>2, <2>4 DEF Share, TypeOK
  <2>6. stage # "absent" /\ UNCHANGED <<cmdline_power_refcount, pm, queued, worker>>
    BY <1>2 DEF FreeGets, Registered, work
  <2>7. QED
    BY <1>c, <1>f, <2>2, <2>5, <2>6, ExactMove DEF Commands, Share, WorkRefs, TypeOK
<1>3. ASSUME NEW t \in Threads, FreqGets(t)
      PROVE  RefcountExact'
  <2>1. PICK ok \in BOOLEAN : rknpu_power_get(ok) /\ Goto(t, IF ok THEN "freq" ELSE "freq_bad")
                             /\ FoulIf(~ok, "stolen")
    BY <1>3 DEF FreqGets
  <2>2. /\ pc[t] = "out" /\ pc'[t] = IF ok THEN "freq" ELSE "freq_bad"
        /\ \A u \in Threads \ {t} : pc'[u] = pc[u]
    BY <1>3, <2>1 DEF FreqGets, Starts, Goto, TypeOK
  <2>3. ok
    BY <1>f, <2>1 DEF FoulIf
  <2>4. power_refcount' = power_refcount + 1 /\ pc'[t] = "freq"
    BY <2>1, <2>2, <2>3, GetEffect
  <2>5. power_refcount' = power_refcount + Share(pc'[t]) - Share(pc[t])
    BY <2>2, <2>4 DEF Share, TypeOK
  <2>6. stage # "absent" /\ UNCHANGED <<cmdline_power_refcount, pm, queued, worker>>
    BY <1>3 DEF FreqGets, Nodes, work
  <2>7. QED
    BY <1>c, <1>f, <2>2, <2>5, <2>6, ExactMove DEF Commands, Share, WorkRefs, TypeOK
<1>4. ASSUME NEW t \in Threads, OnCounts(t) \/ OffClaims(t)
      PROVE  RefcountExact'
  <2>1. /\ pc[t] = "out" /\ pc'[t] \in {"on", "off"}
        /\ \A u \in Threads \ {t} : pc'[u] = pc[u]
    BY <1>4 DEF OnCounts, OffClaims, Starts, Goto, TypeOK
  <2>2. \A u \in Threads : pc[u] \notin Commands
    BY <1>4, <1>f, <2>1 DEF OnCounts, OffClaims, FoulIf, Overlaps, Commands
  <2>3. CmdlineRefs = cmdline_power_refcount
    BY <2>2, CmdlineUnfold, CmdlineNone DEF TypeOK
  <2>4. CmdlineRefs' = IF pc'[t] = "on" THEN cmdline_power_refcount' - 1
                                        ELSE cmdline_power_refcount' + 1
    <3>1. pc'[t] \in Commands /\ \A u \in Threads : pc'[u] \in Commands => u = t
      BY <2>1, <2>2 DEF Commands
    <3>2. QED
      BY <2>1, <3>1, CmdlineUnfold, CmdlineOne DEF TypeOK
  <2>5. CmdlineRefs' = CmdlineRefs
    <3>1. CASE OnCounts(t)
      BY <2>3, <2>4, <3>1 DEF OnCounts, Goto, TypeOK
    <3>2. CASE OffClaims(t)
      BY <2>3, <2>4, <3>2 DEF OffClaims, Goto, TypeOK
    <3>3. QED
      BY <1>4, <3>1, <3>2
  <2>6. Cardinality(Holders') = Cardinality(Holders)
    BY <2>1, HoldersCount, HoldersFinite DEF Share
  <2>7. /\ stage # "absent" /\ power_refcount' = power_refcount
        /\ WorkRefs' = WorkRefs /\ SleepRefs' = SleepRefs
    BY <1>4 DEF OnCounts, OffClaims, Nodes, work, WorkRefs, SleepRefs
  <2>8. QED
    BY <1>f, <2>5, <2>6, <2>7 DEF RefcountExact
<1>5. ASSUME NEW t \in Threads, PutsDelayed(t)
      PROVE  RefcountExact'
  <2>1. PICK ok \in BOOLEAN :
           rknpu_power_put_delay(ok) /\ Goto(t, IF ok THEN "out" ELSE "retry")
    BY <1>5 DEF PutsDelayed
  <2>2. /\ pc[t] \in {"ioctl", "free", "retry"}
        /\ pc'[t] = IF ok THEN "out" ELSE "retry"
        /\ \A u \in Threads \ {t} : pc'[u] = pc[u]
    BY <1>5, <1>f, <2>1 DEF PutsDelayed, Goto, CallerInv, TypeOK
  <2>3. /\ stage # "absent" /\ UNCHANGED <<cmdline_power_refcount, pm, worker>>
    BY <1>5 DEF PutsDelayed
  <2>4. Cardinality(Holders) > 0
    <3>1. t \in Holders
      BY <2>2 DEF Holders
    <3>2. QED
      BY <3>1, HoldersFinite, FS_EmptySet
  <2>5. power_refcount' = power_refcount + Share(pc'[t]) - Share(pc[t]) + WorkRefs' - WorkRefs
    BY <1>c, <1>f, <2>1, <2>2, <2>3, <2>4, ExactPut DEF Share, WorkRefs, TypeOK
  <2>6. QED
    BY <1>c, <1>f, <2>2, <2>3, <2>5, ExactMove DEF Commands
<1>6. ASSUME NEW t \in Threads, Puts(t)
      PROVE  RefcountExact'
  <2>1. PICK ok \in BOOLEAN : Drop(ok) /\ Goto(t, IF ok THEN "out" ELSE "retry")
    BY <1>6 DEF Puts
  <2>2. /\ pc[t] \in {"freq", "off_put"} /\ pc'[t] = IF ok THEN "out" ELSE "retry"
        /\ \A u \in Threads \ {t} : pc'[u] = pc[u]
    BY <1>6, <1>f, <2>1 DEF Puts, Goto, CallerInv, TypeOK
  <2>3. /\ stage # "absent" /\ UNCHANGED <<cmdline_power_refcount, pm>> /\ WorkRefs' = WorkRefs
        /\ SleepRefs' = SleepRefs
    BY <1>6 DEF Puts, work, WorkRefs, SleepRefs
  <2>4. Cardinality(Holders') = Cardinality(Holders) + Share(pc'[t]) - Share(pc[t])
    BY <2>2, HoldersCount
  <2>5. power_refcount' = IF ok THEN DecIfPositive(power_refcount) ELSE power_refcount
    BY <2>1, DropEffect
  <2>6. WorkRefs \in Nat /\ SleepRefs \in Nat
    BY DEF WorkRefs, SleepRefs
  <2>7. CASE pc[t] = "freq"
    <3>1. CmdlineRefs' = CmdlineRefs
      BY <2>2, <2>3, <2>7, CmdlineSame DEF Commands
    <3>2. QED
      BY <1>c, <1>f, <2>2, <2>3, <2>4, <2>5, <2>6, <2>7, <3>1, HoldersFinite
      DEF RefcountExact, DecIfPositive, Share
  <2>8. CASE pc[t] = "off_put"
    <3>1. \A u \in Threads : pc[u] \in Commands => u = t
      BY <1>f, <2>8 DEF CallerInv, Commands
    <3>2. CmdlineRefs = cmdline_power_refcount + 1
      BY <2>8, <3>1, CmdlineUnfold, CmdlineOne DEF TypeOK, Commands
    <3>3. \A u \in Threads : pc'[u] \notin Commands
      BY <2>2, <3>1 DEF Commands
    <3>4. CmdlineRefs' = cmdline_power_refcount
      BY <2>3, <3>3, CmdlineUnfold, CmdlineNone DEF TypeOK
    <3>5. QED
      BY <1>f, <2>2, <2>3, <2>4, <2>5, <2>6, <2>8, <3>2, <3>4, HoldersFinite
      DEF RefcountExact, DecIfPositive, Share, TypeOK
  <2>9. QED
    BY <2>2, <2>7, <2>8
<1>7. ASSUME NEW t \in Threads, OnGets(t)
      PROVE  RefcountExact'
  <2>1. PICK ok \in BOOLEAN : rknpu_power_get(ok) /\ FoulIf(~ok, "cmdline")
    BY <1>7 DEF OnGets
  <2>2. ok /\ power_refcount' = power_refcount + 1
    BY <2>1, GetEffect DEF FoulIf
  <2>3. /\ pc[t] = "on" /\ pc'[t] = "out" /\ \A u \in Threads \ {t} : pc'[u] = pc[u]
    BY <1>7 DEF OnGets, Goto, TypeOK
  <2>4. /\ stage # "absent" /\ UNCHANGED cmdline_power_refcount
        /\ WorkRefs' = WorkRefs /\ SleepRefs' = SleepRefs
    BY <1>7 DEF OnGets, work, WorkRefs, SleepRefs
  <2>5. \A u \in Threads : pc[u] \in Commands => u = t
    BY <1>f, <2>3 DEF CallerInv, Commands
  <2>6. CmdlineRefs = cmdline_power_refcount - 1
    BY <2>3, <2>5, CmdlineUnfold, CmdlineOne DEF TypeOK, Commands
  <2>7. \A u \in Threads : pc'[u] \notin Commands
    BY <2>3, <2>5 DEF Commands
  <2>8. CmdlineRefs' = cmdline_power_refcount
    BY <2>4, <2>7, CmdlineUnfold, CmdlineNone DEF TypeOK
  <2>9. Cardinality(Holders') = Cardinality(Holders)
    BY <2>3, HoldersCount, HoldersFinite DEF Share
  <2>10. WorkRefs \in Nat /\ SleepRefs \in Nat
    BY DEF WorkRefs, SleepRefs
  <2>11. QED
    BY <1>f, <2>2, <2>4, <2>6, <2>8, <2>9, <2>10, HoldersFinite DEF RefcountExact, TypeOK
<1>8. ASSUME NEW t \in Threads, OffSubtracts(t) \/ OffClears(t)
      PROVE  RefcountExact'
  <2>1. /\ pc[t] \in {"off", "off_set"}
        /\ pc'[t] = IF pc[t] = "off" THEN "off_set" ELSE "off_put"
        /\ \A u \in Threads \ {t} : pc'[u] = pc[u]
    BY <1>8 DEF OffSubtracts, OffClears, Goto, TypeOK
  <2>2. \A u \in Threads : pc[u] \in Commands => u = t
    BY <1>f, <2>1 DEF CallerInv, Commands
  <2>3. \A u \in Threads : pc'[u] \in Commands => u = t
    BY <2>1, <2>2
  <2>4. CmdlineRefs = IF pc[t] = "off" THEN cmdline_power_refcount + 1 ELSE 1
    BY <2>1, <2>2, CmdlineUnfold, CmdlineOne DEF TypeOK, Commands
  <2>5. CmdlineRefs' = IF pc[t] = "off" THEN 1 ELSE cmdline_power_refcount' + 1
    BY <2>1, <2>3, CmdlineUnfold, CmdlineOne DEF TypeOK, Commands
  <2>6. IF pc[t] = "off" THEN power_refcount' = power_refcount - cmdline_power_refcount
                         ELSE power_refcount' = power_refcount /\ cmdline_power_refcount' = 0
    BY <1>8, <2>1 DEF OffSubtracts, OffClears
  <2>7. Cardinality(Holders') = Cardinality(Holders)
    BY <2>1, HoldersCount, HoldersFinite DEF Share
  <2>8. /\ stage # "absent" /\ WorkRefs' = WorkRefs /\ SleepRefs' = SleepRefs
        /\ WorkRefs \in Nat /\ SleepRefs \in Nat
    BY <1>8 DEF OffSubtracts, OffClears, work, WorkRefs, SleepRefs
  <2>9. QED
    BY <1>f, <2>4, <2>5, <2>6, <2>7, <2>8, HoldersFinite DEF RefcountExact, TypeOK
<1>9. CASE WorkStarts
  BY <1>9, <1>c, <1>f, ExactStay DEF WorkStarts, counts, WorkRefs, SleepRefs, TypeOK
<1>10. CASE rknpu_power_off_delay_work
  <2>1. PICK ok \in BOOLEAN : Drop(ok) /\ worker' = IF ok THEN "idle" ELSE "retry"
    BY <1>10 DEF rknpu_power_off_delay_work
  <2>2. power_refcount > 0
    BY <1>10, <1>c, <1>f, HoldersFinite
    DEF rknpu_power_off_delay_work, RefcountExact, WorkRefs, SleepRefs, TypeOK
  <2>3. power_refcount' = power_refcount - (IF ok THEN 1 ELSE 0)
    BY <2>1, <2>2, DropEffect DEF DecIfPositive, TypeOK
  <2>4. QED
    BY <1>10, <1>c, <1>f, <2>1, <2>3, ExactStay
    DEF rknpu_power_off_delay_work, WorkRefs, SleepRefs, TypeOK
<1>11. CASE WorkRetries
  <2>1. PICK ok \in BOOLEAN :
           rknpu_power_put_delay(ok) /\ worker' = IF ok THEN "idle" ELSE "retry"
    BY <1>11 DEF WorkRetries
  <2>2. power_refcount' = power_refcount + WorkRefs' - WorkRefs
    BY <1>11, <1>c, <1>f, <2>1, ExactPut DEF WorkRetries, WorkRefs, TypeOK
  <2>3. QED
    BY <1>11, <1>c, <1>f, <2>2, ExactStay DEF WorkRetries, WorkRefs, SleepRefs, TypeOK
<1>12. CASE rknpu_power_put_delay_set
  BY <1>12, <1>c, <1>f, ExactStay
  DEF rknpu_power_put_delay_set, counts, work, WorkRefs, SleepRefs, TypeOK
<1>13. CASE ProbeRegisters
  <2>1. Holders' = {} /\ CmdlineRefs' = 0 /\ WorkRefs' = 0
    BY <1>13 DEF ProbeRegisters, Holders, CmdlineRefs, In, WorkRefs
  <2>2. SleepRefs' = 0
    BY <1>13 DEF ProbeRegisters, StageInv, SleepRefs
  <2>3. QED
    BY <1>13, <2>1, <2>2, FS_EmptySet DEF ProbeRegisters, RefcountExact
<1>14. CASE ProbeFails
  BY <1>14 DEF ProbeFails
<1>15. CASE ProbePowersOn
  BY <1>15, <1>c, <1>f, ExactStay
  DEF ProbePowersOn, counts, work, WorkRefs, SleepRefs, TypeOK
<1>16. CASE ProbeSetsDelay
  BY <1>16, <1>c, <1>f, ExactStay
  DEF ProbeSetsDelay, counts, work, WorkRefs, SleepRefs, TypeOK
<1>17. CASE ProbeCreatesQueue
  BY <1>17, <1>c, <1>f, ExactStay
  DEF ProbeCreatesQueue, counts, work, WorkRefs, SleepRefs, TypeOK
<1>18. CASE ProbeUnwinds
  BY <1>18 DEF ProbeUnwinds
<1>19. CASE ProbeEnds
  <2>1. queued = "no" /\ worker = "idle" /\ \A t \in Threads : pc[t] = "out"
    BY <1>19 DEF ProbeEnds, FoulIf, Early
  <2>2. pm = "awake"
    BY <1>19 DEF ProbeEnds, StageInv
  <2>3. Holders' = {} /\ CmdlineRefs' = 0 /\ WorkRefs' = 0 /\ SleepRefs' = 0
    BY <1>19, <2>1, <2>2
    DEF ProbeEnds, work, Holders, CmdlineRefs, In, WorkRefs, SleepRefs
  <2>4. QED
    BY <1>19, <2>3, FS_EmptySet DEF ProbeEnds, RefcountExact
<1>20. CASE RemoveCancels
  BY <1>20, <1>c, <1>f, ExactStay
  DEF RemoveCancels, counts, WorkRefs, SleepRefs, TypeOK
<1>21. CASE RemoveNodes
  BY <1>21, <1>c, <1>f, ExactStay
  DEF RemoveNodes, counts, work, WorkRefs, SleepRefs, TypeOK
<1>22. CASE RemoveEnds
  BY <1>22 DEF RemoveEnds
<1>23. CASE SuspendGets
  <2>1. PICK ok \in BOOLEAN : rknpu_power_get(ok) /\ pm' = IF ok THEN "got" ELSE "awake"
    BY <1>23 DEF SuspendGets
  <2>2. QED
    BY <1>23, <1>c, <1>f, <2>1, GetEffect, ExactStay
    DEF SuspendGets, work, WorkRefs, SleepRefs, TypeOK
<1>24. CASE SuspendEnds
  <2>1. power_refcount > 0 /\ stage # "absent"
    BY <1>24, <1>c, <1>f, HoldersFinite
    DEF SuspendEnds, StageInv, RefcountExact, WorkRefs, SleepRefs, TypeOK
  <2>2. CASE pm' = "asleep" /\ UNCHANGED <<power_refcount, supply>>
    BY <1>24, <1>c, <1>f, <2>1, <2>2, ExactStay
    DEF SuspendEnds, work, WorkRefs, SleepRefs, TypeOK
  <2>3. ASSUME NEW ok \in BOOLEAN, Drop(ok), pm' = IF ok THEN "awake" ELSE "retry"
        PROVE  RefcountExact'
    <3>1. power_refcount' = power_refcount - (IF ok THEN 1 ELSE 0)
      BY <2>1, <2>3, DropEffect DEF DecIfPositive, TypeOK
    <3>2. QED
      BY <1>24, <1>c, <1>f, <2>1, <2>3, <3>1, ExactStay
      DEF SuspendEnds, work, WorkRefs, SleepRefs, TypeOK
  <2>4. QED
    BY <1>24, <2>2, <2>3 DEF SuspendEnds
<1>25. CASE Resume
  <2>1. PICK ok \in BOOLEAN :
           rknpu_power_put_delay(ok) /\ pm' = IF ok THEN "awake" ELSE "retry"
    BY <1>25 DEF Resume
  <2>2. stage # "absent"
    BY <1>25 DEF Resume
  <2>3. power_refcount' = power_refcount + WorkRefs' - WorkRefs + SleepRefs' - SleepRefs
    BY <1>25, <1>c, <1>f, <2>1, <2>2, ExactPut DEF Resume, WorkRefs, SleepRefs, TypeOK
  <2>4. QED
    BY <1>25, <1>c, <1>f, <2>2, <2>3, ExactStay DEF Resume, TypeOK
<1>26. QED
  BY <1>1, <1>2, <1>3, <1>4, <1>5, <1>6, <1>7, <1>8, <1>9, <1>10, <1>11, <1>12, <1>13, <1>14,
     <1>15, <1>16, <1>17, <1>18, <1>19, <1>20, <1>21, <1>22, <1>23, <1>24, <1>25
  DEF Next, Enters, Continues, WorkSteps, Probes, Removes

-----------------------------------------------------------------------------
(* The supplies *)

\* A section under power_lock of a registered driver keeps the supplies right.
LEMMA SupplyFollows ==
  ASSUME TypeOK, SuppliesMatch, fouls \subseteq {"stolen"}, stage # "absent", stage' = stage,
         Follows
  PROVE  SuppliesMatch'
  BY DEF SuppliesMatch, Follows, Power, ProbeRefs, TypeOK

\* So does a step that leaves count, supplies and stage alone, or takes the stage
\* from one to another that asks the same of the supplies.
LEMMA SupplyStays ==
  ASSUME TypeOK, SuppliesMatch, fouls \subseteq {"stolen"}, UNCHANGED <<power_refcount, on>>,
         stage' = "absent" <=> stage = "absent", ProbeRefs' = ProbeRefs
  PROVE  SuppliesMatch'
  BY DEF SuppliesMatch

\* Every step keeps the supplies right.
LEMMA SupplyStep ==
  ASSUME TypeOK, StageInv, CallerInv, RefcountExact, SuppliesMatch, Next, TypeOK'
  PROVE  SuppliesMatch'
<1> USE PowerAssumption
<1> SUFFICES ASSUME fouls' \subseteq {"stolen"}
             PROVE  SuppliesMatch'
  BY DEF SuppliesMatch
<1>f. fouls \subseteq {"stolen"}
  BY CallerStep
<1>o. \A s \in Present : on[s] = ProbeRefs + (IF stage # "absent" /\ power_refcount > 0
                                              THEN 1 ELSE 0)
  BY <1>f DEF SuppliesMatch
<1>1. ASSUME NEW t \in Threads, IoctlGets(t) \/ FreeGets(t) \/ FreqGets(t)
      PROVE  SuppliesMatch'
  <2>1. stage # "absent" /\ stage' = stage
    BY <1>1 DEF IoctlGets, FreeGets, FreqGets, Starts, Registered, Nodes
  <2>2. \E ok \in BOOLEAN : rknpu_power_get(ok)
    BY <1>1 DEF IoctlGets, FreeGets, FreqGets
  <2>3. QED
    BY <1>f, <2>1, <2>2, GetEffect, SupplyFollows
<1>2. ASSUME NEW t \in Threads, OnCounts(t) \/ OffClaims(t) \/ OffClears(t)
      PROVE  SuppliesMatch'
  BY <1>2, <1>f, SupplyStays DEF OnCounts, OffClaims, OffClears, supply, ProbeRefs
<1>3. ASSUME NEW t \in Threads, PutsDelayed(t) \/ Puts(t) \/ OnGets(t)
      PROVE  SuppliesMatch'
  <2>1. stage # "absent" /\ stage' = stage
    BY <1>3, <1>f DEF PutsDelayed, Puts, OnGets, CallerInv
  <2>2. \E ok \in BOOLEAN : rknpu_power_get(ok) \/ Drop(ok) \/ rknpu_power_put_delay(ok)
    BY <1>3 DEF PutsDelayed, Puts, OnGets
  <2>3. QED
    BY <1>f, <2>1, <2>2, GetEffect, DropEffect, PutDelayEffect, SupplyFollows
<1>4. ASSUME NEW t \in Threads, OffSubtracts(t)
      PROVE  SuppliesMatch'
  <2>1. pc[t] = "off" /\ stage # "absent" /\ stage' = stage /\ on' = on /\ faults' = faults
    BY <1>4, <1>f DEF OffSubtracts, CallerInv, supply
  <2>2. power_refcount' = power_refcount - cmdline_power_refcount
    BY <1>4 DEF OffSubtracts
  <2>3. power_refcount' > 0
    <3>1. CASE fouls = {}
      <4>1. \A u \in Threads : pc[u] \in Commands => u = t
        BY <2>1, <3>1 DEF CallerInv, Commands
      <4>2. CmdlineRefs = cmdline_power_refcount + 1
        BY <2>1, <4>1, CmdlineUnfold, CmdlineOne DEF TypeOK, Commands
      <4>3. WorkRefs \in Nat /\ SleepRefs \in Nat
        BY DEF WorkRefs, SleepRefs
      <4>4. QED
        BY <2>1, <2>2, <3>1, <4>2, <4>3, HoldersFinite DEF RefcountExact, TypeOK
    <3>2. CASE "stolen" \in fouls
      <4>1. ~(power_refcount' <= 0)
        BY <1>4, <3>2 DEF OffSubtracts, FoulIf
      <4>2. QED
        BY <4>1 DEF TypeOK
    <3>3. QED
      BY <1>f, <3>1, <3>2
  <2>4. Follows
    BY <2>1, <2>2, <2>3 DEF Follows, Power, TypeOK
  <2>5. QED
    BY <1>f, <2>1, <2>4, SupplyFollows
<1>5. CASE WorkStarts
  BY <1>5, <1>f, SupplyStays DEF WorkStarts, counts, supply, ProbeRefs
<1>6. CASE rknpu_power_off_delay_work
  BY <1>6, <1>f, DropEffect, SupplyFollows DEF rknpu_power_off_delay_work, StageInv, HasQueue
<1>7. CASE WorkRetries
  BY <1>7, <1>f, PutDelayEffect, SupplyFollows DEF WorkRetries, StageInv, HasQueue
<1>8. CASE rknpu_power_put_delay_set
  BY <1>8, <1>f, SupplyStays DEF rknpu_power_put_delay_set, counts, supply, ProbeRefs
<1>9. CASE ProbeRegisters
  BY <1>9, <1>o DEF ProbeRegisters, supply, SuppliesMatch, ProbeRefs
<1>10. CASE ProbeFails
  <2>1. power_refcount = 0 /\ \A s \in Present : on'[s] = on[s]
    <3>1. power_refcount = 0
      BY <1>10 DEF ProbeFails, FoulIf, Early
    <3>2. CASE UNCHANGED supply
      BY <3>1, <3>2 DEF supply
    <3>3. CASE rknpu_power_on(FALSE)
      <4>1. \A s \in Present : on'[s] = on[s] + 0
        BY <3>3, PowerOnEffect, Zenon
      <4>2. QED
        BY <3>1, <4>1 DEF TypeOK
    <3>4. QED
      BY <1>10, <3>2, <3>3 DEF ProbeFails
  <2>2. QED
    BY <1>10, <1>o, <2>1 DEF ProbeFails, SuppliesMatch, ProbeRefs
<1>11. CASE ProbePowersOn
  <2>1. power_refcount' = 0 /\ power_refcount = 0
    BY <1>11 DEF ProbePowersOn, FoulIf, Early, counts
  <2>2. \A s \in Present : on'[s] = on[s] + 1
    BY <1>11, PowerOnEffect DEF ProbePowersOn
  <2>3. QED
    BY <1>11, <1>o, <2>1, <2>2 DEF ProbePowersOn, SuppliesMatch, ProbeRefs
<1>12. CASE ProbeSetsDelay
  BY <1>12, <1>f, SupplyStays DEF ProbeSetsDelay, counts, supply, ProbeRefs
<1>13. CASE ProbeCreatesQueue
  BY <1>13, <1>f, SupplyStays DEF ProbeCreatesQueue, counts, supply, ProbeRefs
<1>14. CASE ProbeUnwinds \/ ProbeEnds
  <2>1. PICK ok \in BOOLEAN : rknpu_power_off(ok) /\ FoulIf(Early \/ ~ok, "probe")
    BY <1>14 DEF ProbeUnwinds, ProbeEnds
  <2>2. ok /\ power_refcount = 0
    BY <2>1 DEF FoulIf, Early
  <2>3. \A s \in Present : on'[s] = on[s] - 1
    BY <2>1, <2>2, PowerOffEffect
  <2>4. /\ stage \in {"delayed", "queue"} /\ stage' \in {"absent", "ready"}
        /\ power_refcount' = 0
    BY <1>14, <2>2 DEF ProbeUnwinds, ProbeEnds, counts
  <2>5. QED
    BY <1>o, <2>2, <2>3, <2>4 DEF SuppliesMatch, ProbeRefs
<1>15. CASE RemoveCancels
  BY <1>15, <1>f, SupplyStays DEF RemoveCancels, counts, supply, ProbeRefs
<1>16. CASE RemoveNodes
  BY <1>16, <1>f, SupplyStays DEF RemoveNodes, counts, supply, ProbeRefs
<1>17. CASE RemoveEnds
  <2>1. PICK ok \in BOOLEAN :
           /\ IF power_refcount > 0 THEN rknpu_power_off(ok) ELSE ok /\ UNCHANGED supply
           /\ FoulIf(~ok \/ \E t \in Threads : pc[t] # "out", "remove")
    BY <1>17 DEF RemoveEnds
  <2>2. ok
    BY <2>1 DEF FoulIf
  <2>3. \A s \in Present : on'[s] = on[s] - Power(power_refcount)
    <3>1. CASE power_refcount > 0
      <4>1. rknpu_power_off(ok)
        BY <2>1, <3>1
      <4>2. QED
        BY <2>2, <3>1, <4>1, PowerOffEffect DEF Power
    <3>2. CASE ~(power_refcount > 0)
      BY <2>1, <3>2 DEF Power, supply, TypeOK
    <3>3. QED
      BY <3>1, <3>2
  <2>4. QED
    BY <1>17, <1>o, <2>3 DEF RemoveEnds, SuppliesMatch, ProbeRefs, Power
<1>18. CASE SuspendGets
  BY <1>18, <1>f, GetEffect, SupplyFollows DEF SuspendGets
<1>19. CASE SuspendEnds
  <2>1. stage # "absent" /\ stage' = stage
    BY <1>19 DEF SuspendEnds, StageInv
  <2>2. CASE UNCHANGED <<power_refcount, supply>>
    BY <1>f, <2>1, <2>2, SupplyStays DEF supply, ProbeRefs
  <2>3. CASE \E ok \in BOOLEAN : Drop(ok)
    BY <1>f, <2>1, <2>3, DropEffect, SupplyFollows
  <2>4. QED
    BY <1>19, <2>2, <2>3 DEF SuspendEnds
<1>20. CASE Resume
  BY <1>20, <1>f, PutDelayEffect, SupplyFollows DEF Resume, StageInv
<1>21. QED
  BY <1>1, <1>2, <1>3, <1>4, <1>5, <1>6, <1>7, <1>8, <1>9, <1>10, <1>11, <1>12, <1>13, <1>14,
     <1>15, <1>16, <1>17, <1>18, <1>19, <1>20
  DEF Next, Enters, Continues, WorkSteps, Probes, Removes

-----------------------------------------------------------------------------
(* The theorems *)

\* The initial state satisfies the inductive invariant.
LEMMA InvInit == Init => IInv
<1> SUFFICES ASSUME Init
             PROVE  IInv
  OBVIOUS
<1>1. TypeOK
  BY PowerAssumption DEF Init, TypeOK, Stages, Places
<1>2. StageInv /\ CallerInv
  BY DEF Init, StageInv, CallerInv, Commands
<1>3. RefcountExact /\ SuppliesMatch
  BY DEF Init, RefcountExact, SuppliesMatch, ProbeRefs
<1>4. QED
  BY <1>1, <1>2, <1>3 DEF IInv

\* Every step, and every step that changes nothing, keeps the inductive invariant.
LEMMA InvStep == IInv /\ [Next]_vars => IInv'
<1> SUFFICES ASSUME IInv, [Next]_vars
             PROVE  IInv'
  OBVIOUS
<1>1. CASE Next
  <2>1. TypeOK' /\ StageInv'
    BY <1>1, TypeStep DEF IInv
  <2>2. CallerInv'
    BY <1>1, CallerStep DEF IInv
  <2>3. RefcountExact'
    BY <1>1, <2>1, <2>2, ExactStep DEF IInv
  <2>4. SuppliesMatch'
    BY <1>1, <2>1, SupplyStep DEF IInv
  <2>5. QED
    BY <2>1, <2>2, <2>3, <2>4 DEF IInv
<1>2. CASE UNCHANGED vars
  <2>1. TypeOK' /\ StageInv' /\ CallerInv'
    BY <1>2 DEF IInv, TypeOK, StageInv, CallerInv, HasQueue, Nodes, vars, counts, supply, work
  <2>2. RefcountExact' /\ SuppliesMatch'
    BY <1>2 DEF IInv, RefcountExact, SuppliesMatch, Holders, CmdlineRefs, In, WorkRefs,
                SleepRefs, ProbeRefs, vars, counts, supply, work
  <2>3. QED
    BY <2>1, <2>2 DEF IInv
<1>3. QED
  BY <1>1, <1>2

\* Every behaviour of the power component satisfies the inductive invariant.
LEMMA Invariance == Spec => []IInv
  BY InvInit, InvStep, PTL DEF Spec

\* The type invariant holds in every reachable state; cmdline_power_refcount in
\* particular never becomes negative, whatever commands overlap.
THEOREM TypeCorrect == Spec => []TypeOK
<1>1. IInv => TypeOK
  BY DEF IInv
<1>2. QED
  BY <1>1, Invariance, PTL

\* power_refcount is the sum of what ioctls, frees, frequency nodes, the delayed
\* work, system sleep and the power node hold, until a caller spoils the counts
\* (rknpu_drv.c:353-419, rknpu_debugger.c:109-120).
THEOREM CountIsExact == Spec => []RefcountExact
<1>1. IInv => RefcountExact
  BY DEF IInv
<1>2. QED
  BY <1>1, Invariance, PTL

\* Every supply is on exactly as often as power_refcount and probe ask for, even
\* after a reference was stolen (rknpu_drv.c:963-1171, 1657-1717).
THEOREM SuppliesFollowCount == Spec => []SuppliesMatch
<1>1. IInv => SuppliesMatch
  BY DEF IInv
<1>2. QED
  BY <1>1, Invariance, PTL

-----------------------------------------------------------------------------
(* The refinement of PowerPromise *)

AllClients == Threads \cup {"sleep", "cmdline"}
Powered == \A s \in Present : on[s] > 0
Inside == {"ioctl", "free", "freq"}

\* Who the users are, before and after a step.
LEMMA UsersAre ==
  /\ Users \subseteq AllClients /\ Users' \subseteq AllClients
  /\ \A t \in Threads : t \in Users <=> pc[t] \in Inside
  /\ \A t \in Threads : t \in Users' <=> pc'[t] \in Inside
  /\ "sleep" \in Users <=> stage # "absent" /\ pm \in {"got", "asleep"}
  /\ "sleep" \in Users' <=> stage' # "absent" /\ pm' \in {"got", "asleep"}
  /\ "cmdline" \in Users <=> stage # "absent" /\ CmdlineRefs > 0
  /\ "cmdline" \in Users' <=> stage' # "absent" /\ CmdlineRefs' > 0
  BY PowerAssumption DEF Users, AllClients, Inside

\* Who is let in has power, and a removed driver has none.
LEMMA UsersPowered ==
  IInv /\ fouls = {} => /\ Users # {} => Powered
                        /\ stage = "absent" => Users = {} /\ ~Powered
<1> SUFFICES ASSUME IInv, fouls = {}
             PROVE  /\ Users # {} => Powered
                    /\ stage = "absent" => Users = {} /\ ~Powered
  OBVIOUS
<1>1. /\ CmdlineRefs \in Nat /\ WorkRefs \in Nat /\ SleepRefs \in Nat
      /\ Cardinality(Holders) \in Nat
  BY CmdlineNat, HoldersFinite DEF IInv, WorkRefs, SleepRefs
<1>2. CASE stage = "absent"
  <2>1. Users = {}
    BY <1>2 DEF IInv, CallerInv, Users
  <2>2. on["clk"] = 0
    BY <1>2, PowerAssumption DEF IInv, SuppliesMatch, ProbeRefs
  <2>3. QED
    BY <2>1, <2>2, PowerAssumption DEF Powered
<1>3. CASE stage # "absent" /\ Users # {}
  <2>1. Cardinality(Holders) > 0 \/ CmdlineRefs > 0 \/ SleepRefs > 0
    <3>1. CASE \E t \in Threads : t \in Users
      <4>1. Holders # {}
        BY <3>1, UsersAre DEF Holders, Inside
      <4>2. QED
        BY <1>1, <4>1, HoldersFinite, FS_EmptySet
    <3>2. CASE "sleep" \in Users
      BY <3>2, UsersAre DEF SleepRefs
    <3>3. CASE "cmdline" \in Users
      BY <3>3, UsersAre
    <3>4. QED
      BY <1>3, <3>1, <3>2, <3>3, UsersAre DEF AllClients
  <2>2. power_refcount > 0
    BY <1>1, <1>3, <2>1 DEF IInv, RefcountExact
  <2>3. \A s \in Present : on[s] = ProbeRefs + 1
    BY <1>3, <2>2 DEF IInv, SuppliesMatch
  <2>4. ProbeRefs \in Nat
    BY DEF ProbeRefs
  <2>5. QED
    BY <1>3, <2>3, <2>4 DEF Powered
<1>4. QED
  BY <1>2, <1>3

\* The same after a step.
LEMMA UsersPoweredNext ==
  (IInv /\ fouls = {})' => /\ (Users # {})' => Powered'
                           /\ stage' = "absent" => Users' = {} /\ ~Powered'
<1>1. (IInv /\ fouls = {} => /\ Users # {} => Powered
                             /\ stage = "absent" => Users = {} /\ ~Powered)'
  BY UsersPowered, PTL
<1>2. QED
  BY <1>1

\* At most the client c comes or goes.
OnlyChange(c) ==
    /\ c \in AllClients
    /\ \A d \in AllClients \ {c} : d \in Users' <=> d \in Users

\* A step that changes neither commands nor sleep changes at most one thread's use.
LEMMA ThreadChange ==
  ASSUME NEW t \in Threads, \A u \in Threads \ {t} : pc'[u] = pc[u],
         pc[t] \notin Commands, pc'[t] \notin Commands,
         UNCHANGED <<stage, cmdline_power_refcount, pm>>
  PROVE  OnlyChange(t)
<1>1. CmdlineRefs' = CmdlineRefs
  BY CmdlineSame
<1>2. QED
  BY <1>1, UsersAre DEF OnlyChange, AllClients

\* A command changes at most the power node's use.
LEMMA CommandChange ==
  ASSUME NEW t \in Threads, \A u \in Threads \ {t} : pc'[u] = pc[u],
         pc[t] \notin Inside, pc'[t] \notin Inside, UNCHANGED <<stage, pm>>
  PROVE  OnlyChange("cmdline")
  BY UsersAre DEF OnlyChange, AllClients

\* A step of nobody changes at most the use of system sleep.
LEMMA SleepChange ==
  ASSUME UNCHANGED <<pc, cmdline_power_refcount>>, stage # "absent", stage' # "absent"
  PROVE  OnlyChange("sleep")
<1>1. CmdlineRefs' = CmdlineRefs
  BY DEF CmdlineRefs, In
<1>2. QED
  BY <1>1, UsersAre DEF OnlyChange, AllClients

\* No step of a driver that stays registered changes more than one client's use.
LEMMA UserStep ==
  ASSUME IInv, Next, fouls' = {}, stage' # "absent"
  PROVE  \E c : OnlyChange(c)
<1>f. fouls = {}
  BY CallerStep DEF IInv
<1> USE DEF IInv
<1>1. ASSUME NEW t \in Threads,
             IoctlGets(t) \/ FreeGets(t) \/ FreqGets(t) \/ PutsDelayed(t)
      PROVE  \E c : OnlyChange(c)
  <2>1. /\ pc[t] \notin Commands /\ pc'[t] \notin Commands
        /\ \A u \in Threads \ {t} : pc'[u] = pc[u]
    BY <1>1 DEF IoctlGets, FreeGets, FreqGets, PutsDelayed, Starts, Goto, TypeOK, Commands
  <2>2. UNCHANGED <<stage, cmdline_power_refcount, pm>>
    BY <1>1 DEF IoctlGets, FreeGets, FreqGets, PutsDelayed
  <2>3. QED
    BY <2>1, <2>2, ThreadChange
<1>2. ASSUME NEW t \in Threads, Puts(t)
      PROVE  \E c : OnlyChange(c)
  <2>1. /\ pc[t] \in {"freq", "freq_bad", "off_put"} /\ pc'[t] \in {"out", "retry"}
        /\ \A u \in Threads \ {t} : pc'[u] = pc[u]
        /\ UNCHANGED <<stage, cmdline_power_refcount, pm>>
    BY <1>2 DEF Puts, Goto, TypeOK
  <2>2. CASE pc[t] = "off_put"
    BY <2>1, <2>2, CommandChange DEF Inside
  <2>3. CASE pc[t] # "off_put"
    BY <2>1, <2>3, ThreadChange DEF Commands
  <2>4. QED
    BY <2>2, <2>3
<1>3. ASSUME NEW t \in Threads,
             OnCounts(t) \/ OffClaims(t) \/ OnGets(t) \/ OffSubtracts(t) \/ OffClears(t)
      PROVE  \E c : OnlyChange(c)
  <2>1. /\ pc[t] \notin Inside /\ pc'[t] \notin Inside
        /\ \A u \in Threads \ {t} : pc'[u] = pc[u]
    BY <1>3 DEF OnCounts, OffClaims, OnGets, OffSubtracts, OffClears, Starts, Goto, TypeOK,
                Inside
  <2>2. UNCHANGED <<stage, pm>>
    BY <1>3 DEF OnCounts, OffClaims, OnGets, OffSubtracts, OffClears
  <2>3. QED
    BY <2>1, <2>2, CommandChange
<1>4. CASE WorkSteps
  <2>1. stage' = stage /\ UNCHANGED <<pc, cmdline_power_refcount>>
    BY <1>4 DEF WorkSteps, WorkStarts, rknpu_power_off_delay_work, WorkRetries, counts
  <2>2. QED
    BY <2>1, SleepChange
<1>5. CASE \/ rknpu_power_put_delay_set \/ ProbePowersOn \/ ProbeSetsDelay
           \/ ProbeCreatesQueue \/ RemoveCancels \/ RemoveNodes
  <2>1. stage # "absent" /\ UNCHANGED <<pc, cmdline_power_refcount>>
    BY <1>5 DEF rknpu_power_put_delay_set, ProbePowersOn, ProbeSetsDelay, ProbeCreatesQueue,
                RemoveCancels, RemoveNodes, Nodes, counts
  <2>2. QED
    BY <2>1, SleepChange
<1>6. CASE ProbeRegisters
  <2>1. \A t \in Threads : pc[t] = "out" /\ pc'[t] = "out"
    BY <1>6 DEF ProbeRegisters
  <2>2. stage = "absent" /\ pm' = "awake" /\ cmdline_power_refcount' = 0
    BY <1>6 DEF ProbeRegisters, StageInv
  <2>3. QED
    BY <2>1, <2>2, UsersAre DEF OnlyChange, AllClients, Inside
<1>7. CASE ProbeEnds
  <2>1. \A t \in Threads : pc[t] = "out" /\ pc'[t] = "out"
    BY <1>7 DEF ProbeEnds, FoulIf, Early
  <2>2. pm = "awake" /\ pm' = "awake"
    BY <1>7 DEF ProbeEnds, StageInv
  <2>3. QED
    BY <2>1, <2>2, UsersAre DEF OnlyChange, AllClients, Inside
<1>8. CASE SuspendGets \/ SuspendEnds \/ Resume
  <2>1. stage' = stage /\ UNCHANGED <<pc, cmdline_power_refcount>>
    BY <1>8 DEF SuspendGets, SuspendEnds, Resume
  <2>2. QED
    BY <2>1, SleepChange
<1>9. CASE ProbeFails \/ ProbeUnwinds \/ RemoveEnds
  BY <1>9 DEF ProbeFails, ProbeUnwinds, RemoveEnds
<1>10. QED
  BY <1>1, <1>2, <1>3, <1>4, <1>5, <1>6, <1>7, <1>8, <1>9
  DEF Next, Enters, Continues, Probes, Removes

\* A step of the power component is a step of the promise, or none: a client that
\* comes or stays has power by the invariant of the state after the step, and a
\* step that spoils the counts is the breach the promise allows.
LEMMA PromiseStep ==
  ASSUME IInv, IInv', [Next]_vars
  PROVE  [Promise!Next]_(Promise!vars)
<1>0. Users' \subseteq AllClients /\ Powered' \in BOOLEAN /\ Powered \in BOOLEAN
  BY UsersAre DEF Powered
<1>1. CASE UNCHANGED vars
  BY <1>1 DEF Promise!vars, vars, counts, supply, work, Users, CmdlineRefs, In
<1>2. CASE Next /\ fouls' # {}
  BY <1>0, <1>2 DEF Promise!Next, Promise!Breach, AllClients, Powered
<1>3. CASE Next /\ fouls' = {}
  <2>1. fouls = {}
    BY <1>3, CallerStep DEF IInv
  <2>2. Users # {} => Powered
    BY <2>1, UsersPowered
  <2>3. Users' # {} => Powered'
    BY <1>3, UsersPoweredNext
  <2>4. CASE stage' = "absent"
    <3>1. Users' = {} /\ ~Powered'
      BY <1>3, <2>4, UsersPoweredNext
    <3>2. Promise!Remove
      BY <1>3, <2>1, <3>1 DEF Promise!Remove, Powered
    <3>3. QED
      BY <2>1, <3>2 DEF Promise!Next
  <2>5. CASE stage' # "absent"
    <3>1. PICK c : OnlyChange(c)
      BY <1>3, <2>5, UserStep
    <3>2. CASE c \in Users' /\ c \notin Users
      <4>1. Users' = Users \cup {c}
        BY <3>1, <3>2, UsersAre DEF OnlyChange
      <4>2. Promise!Enter(c)
        BY <1>3, <2>1, <2>3, <4>1 DEF Promise!Enter, Powered
      <4>3. QED
        BY <2>1, <3>1, <4>2 DEF Promise!Next, OnlyChange, AllClients
    <3>3. CASE c \notin Users' /\ c \in Users
      <4>1. Users' = Users \ {c}
        BY <3>1, <3>3, UsersAre DEF OnlyChange
      <4>2. Promise!Leave(c)
        BY <1>0, <1>3, <2>1, <2>3, <3>3, <4>1 DEF Promise!Leave, Powered
      <4>3. QED
        BY <2>1, <3>1, <4>2 DEF Promise!Next, OnlyChange, AllClients
    <3>4. CASE c \in Users' <=> c \in Users
      <4>1. Users' = Users
        BY <3>1, <3>4, UsersAre DEF OnlyChange
      <4>2. CASE Powered' = Powered
        BY <1>3, <2>1, <4>1, <4>2 DEF Promise!vars, Powered
      <4>3. CASE Powered' # Powered
        <5>1. Users = {}
          BY <1>0, <2>2, <2>3, <4>1, <4>3
        <5>2. Promise!Switch
          BY <1>0, <1>3, <2>1, <4>1, <4>3, <5>1 DEF Promise!Switch, Powered
        <5>3. QED
          BY <2>1, <5>2 DEF Promise!Next
      <4>4. QED
        BY <4>2, <4>3
    <3>5. QED
      BY <3>2, <3>3, <3>4
  <2>6. QED
    BY <2>4, <2>5
<1>4. QED
  BY <1>1, <1>2, <1>3

\* RknpuPower implements PowerPromise: in every order of gets, puts, delayed
\* power-offs, probes, removes, suspends and failures, nobody who was let in loses
\* power before it leaves (rknpu_drv.c:353-419, 963-1171, 1657-1717).
THEOREM KeepsPromise == Spec => ImplementsPromise
<1>1. Init => Promise!Init
  <2> SUFFICES ASSUME Init
               PROVE  Promise!Init
    OBVIOUS
  <2>1. Users = {}
    BY DEF Init, Users
  <2>2. on["clk"] = 0
    BY PowerAssumption DEF Init
  <2>3. (\A s \in Present : on[s] > 0) = FALSE
    BY <2>2, PowerAssumption
  <2>4. QED
    BY <2>1, <2>3 DEF Init, Promise!Init
<1>2. IInv /\ IInv' /\ [Next]_vars => [Promise!Next]_(Promise!vars)
  BY PromiseStep
<1>3. QED
  BY <1>1, <1>2, Invariance, PTL DEF Spec, ImplementsPromise, Promise!Spec
=============================================================================

-------------------------- MODULE RknpuIommu_proofs --------------------------
(***************************************************************************)
(* Theorems about RknpuIommu, for any number of threads and domains and    *)
(* any number of failures: the reference count is exact, who holds a       *)
(* domain works in it, and driver, IOMMU core and hardware agree.          *)
(***************************************************************************)
EXTENDS RknpuIommu, FiniteSetTheorems, TLAPS

-----------------------------------------------------------------------------
(* The inductive invariant *)

\* Who is inside a switch or a reset has its lock, and nobody else has it; a
\* switch is to a valid domain, a reset has read one, and a free is of domain 0.
LockInv ==
    /\ \A t \in Threads : op[t].pc \in Switching <=> domain_lock = t
    /\ \A t \in Threads : op[t].pc \in Resetting <=> reset_lock = t
    /\ \A t \in Threads : op[t].pc \in Switching => op[t].want \in Domains
    /\ reset_lock # NoThread => rdomain \in Domains
    /\ \A t \in Threads : op[t].pc = "freeing" => op[t].kind = "free"
    /\ \A t \in Threads : op[t].kind = "free" => op[t].want = 0

\* While puts and gets pair up, nobody holds a domain during a switch, and the
\* current domain is allocated and the one that every holder asked for.
UseInv ==
    unpaired = 0 =>
        /\ domain_lock # NoThread => Holders = {}
        /\ \A t \in Holders : op[t].want = iommu_domain_id
        /\ iommu_domain_id \in iommu_domains

\* Until something is torn, a switch and a reset exclude each other, and only the
\* steps of a switch between its attach and its end part the domains.
AgreeInv ==
    (unpaired = 0 /\ ~torn) =>
        /\ domain_lock = NoThread \/ reset_lock = NoThread
        /\ default_domain = iommu_domain_id
        /\ domain_lock = NoThread => domain = iommu_domain_id /\ hw = iommu_domain_id
        /\ reset_lock # NoThread => rdomain = iommu_domain_id
        /\ \A t \in Threads :
               /\ op[t].pc \in {"detach", "attach"} =>
                      domain = iommu_domain_id /\ hw = iommu_domain_id
               /\ op[t].pc = "reattach" => domain = iommu_domain_id
               /\ op[t].pc = "commit" => domain = op[t].want /\ hw = op[t].want

IInv == TypeOK /\ LockInv /\ RefcountExact /\ UseInv /\ AgreeInv

-----------------------------------------------------------------------------
(* What the operators on a thread's record do *)

\* The records of the threads.
OpTypes == [pc : Places, kind : Kinds, want : Domains \cup {BadDomain}, tries : 0 .. 2]

\* Only t's record changes, and it stays a record of OpTypes.
Moves(t) ==
    /\ op' \in [Threads -> OpTypes]
    /\ \A u \in Threads \ {t} : op'[u] = op[u]

\* Goto() changes nothing but the place of its thread.
LEMMA GotoMoves ==
  ASSUME TypeOK, NEW t \in Threads, NEW p \in Places, Goto(t, p)
  PROVE  /\ Moves(t)
         /\ op'[t].pc = p /\ op'[t].kind = op[t].kind /\ op'[t].want = op[t].want
  BY DEF TypeOK, OpTypes, Goto, Moves

\* Return() leaves no trace of the call.
LEMMA ReturnMoves ==
  ASSUME TypeOK, NEW t \in Threads, Return(t)
  PROVE  Moves(t) /\ op'[t] = Out
<1>1. Out \in OpTypes
  BY IommuAssumption DEF Out, OpTypes, Places, Kinds
<1>2. QED
  BY <1>1 DEF TypeOK, OpTypes, Return, Moves

\* A call that fails ends up outside every section, without a domain.
LEMMA FailMoves ==
  ASSUME TypeOK, NEW t \in Threads, Fail(t)
  PROVE  /\ Moves(t)
         /\ op'[t].pc \in {"denied", "poll", "out"}
         /\ \/ op'[t] = Out
            \/ op'[t].kind = op[t].kind /\ op'[t].want = op[t].want
<1>1. CASE Goto(t, "denied")
  BY <1>1, GotoMoves DEF Places
<1>2. CASE /\ op[t].tries + 1 < 3
           /\ op' = [op EXCEPT ![t].pc = "poll", ![t].tries = @ + 1]
  <2>1. op[t] \in OpTypes /\ op[t].tries + 1 \in 0 .. 2
    BY <1>2 DEF TypeOK, OpTypes
  <2>2. op'[t] = [op[t] EXCEPT !.pc = "poll", !.tries = @ + 1]
    BY <1>2 DEF TypeOK, OpTypes
  <2>3. op'[t] \in OpTypes /\ op'[t].pc = "poll" /\ op'[t].kind = op[t].kind
        /\ op'[t].want = op[t].want
    BY <2>1, <2>2 DEF OpTypes, Places
  <2>4. QED
    BY <1>2, <2>3 DEF TypeOK, OpTypes, Moves
<1>3. CASE Return(t)
  BY <1>3, ReturnMoves DEF Out
<1>4. QED
  BY <1>1, <1>2, <1>3 DEF Fail

\* A call that succeeds takes one reference and holds its domain.
LEMMA SucceedMoves ==
  ASSUME TypeOK, NEW t \in Threads, Succeed(t)
  PROVE  /\ Moves(t)
         /\ op'[t].pc \in Holding
         /\ op'[t].kind = op[t].kind /\ op'[t].want = op[t].want
         /\ op'[t].pc = "freeing" => op[t].kind = "free"
         /\ iommu_domain_refcount' = iommu_domain_refcount + 1
<1> DEFINE p == CASE op[t].kind = "job" -> "job"
                  [] op[t].kind = "free" -> "freeing"
                  [] OTHER -> "use"
<1>1. Goto(t, p)
  BY DEF Succeed
<1>2. p \in Holding /\ (p = "freeing" => op[t].kind = "free")
  BY DEF Holding
<1>3. p \in Places
  BY <1>2 DEF Places
<1> HIDE DEF p
<1>4. QED
  BY <1>1, <1>2, <1>3, GotoMoves DEF Succeed

-----------------------------------------------------------------------------
(* Counting *)

\* The holders are finitely many.
LEMMA HoldersFinite == IsFiniteSet(Holders) /\ Cardinality(Holders) \in Nat
  BY IommuAssumption, FS_Subset, FS_CardinalityType DEF Holders

\* The number of holders follows the one thread that moves.
LEMMA HoldersCount ==
  ASSUME NEW t \in Threads, \A u \in Threads \ {t} : op'[u].pc = op[u].pc
  PROVE  Cardinality(Holders') = Cardinality(Holders)
             + (IF op'[t].pc \in Holding THEN 1 ELSE 0)
             - (IF op[t].pc \in Holding THEN 1 ELSE 0)
<1>1. CASE op'[t].pc \in Holding /\ op[t].pc \in Holding
  <2>1. Holders' = Holders
    BY <1>1 DEF Holders
  <2>2. QED
    BY <1>1, <2>1, HoldersFinite
<1>2. CASE op'[t].pc \notin Holding /\ op[t].pc \notin Holding
  <2>1. Holders' = Holders
    BY <1>2 DEF Holders
  <2>2. QED
    BY <1>2, <2>1, HoldersFinite
<1>3. CASE op'[t].pc \in Holding /\ op[t].pc \notin Holding
  <2>1. Holders' = Holders \cup {t} /\ t \notin Holders
    BY <1>3 DEF Holders
  <2>2. Cardinality(Holders \cup {t}) = Cardinality(Holders) + 1
    BY <2>1, HoldersFinite, FS_AddElement
  <2>3. QED
    BY <1>3, <2>1, <2>2, HoldersFinite
<1>4. CASE op'[t].pc \notin Holding /\ op[t].pc \in Holding
  <2>1. Holders' = Holders \ {t} /\ t \in Holders
    BY <1>4 DEF Holders
  <2>2. Cardinality(Holders \ {t}) = Cardinality(Holders) - 1
    BY <2>1, HoldersFinite, FS_RemoveElement
  <2>3. QED
    BY <1>4, <2>1, <2>2, HoldersFinite
<1>5. QED
  BY <1>1, <1>2, <1>3, <1>4

\* An attach, whether it succeeds or fails, leaves values of the right types.
LEMMA AttachTypes ==
  ASSUME TypeOK, NEW d \in Domains, AttachOk(d) \/ AttachFails
  PROVE  domain' \in Domains /\ hw' \in Domains \cup {None} /\ faults' \in 0 .. MaxFaults
<1>1. CASE AttachOk(d)
  BY <1>1 DEF AttachOk, TypeOK
<1>2. CASE AttachFails
  BY <1>2, IommuAssumption DEF AttachFails, TypeOK
<1>3. QED
  BY <1>1, <1>2

-----------------------------------------------------------------------------
(* Types and locks *)

\* Every step keeps the types and the two locks' meaning.
LEMMA TypeLockStep ==
  ASSUME TypeOK, LockInv, NEW t \in Threads, Call(t) \/ ResetAsked(t) \/ Continues(t)
  PROVE  TypeOK' /\ LockInv'
<1> USE IommuAssumption
<1>1. CASE Call(t)
  <2>1. PICK k \in Kinds, d \in Domains \cup {BadDomain} :
           /\ k = "free" => d = 0
           /\ op' = [op EXCEPT ![t] = [pc |-> "poll", kind |-> k, want |-> d, tries |-> 0]]
    BY <1>1 DEF Call
  <2>2. Moves(t) /\ op'[t] = [pc |-> "poll", kind |-> k, want |-> d, tries |-> 0]
    BY <2>1 DEF TypeOK, OpTypes, Moves, Places
  <2>3. QED
    BY <1>1, <2>1, <2>2
    DEF Call, TypeOK, LockInv, OpTypes, Moves, Switching, Resetting, driver, locks, group, spoilt
<1>2. CASE GetCurrent(t)
  BY <1>2, SucceedMoves DEF GetCurrent, TypeOK, LockInv, OpTypes, Moves, Switching,
         Resetting, Holding, driver, locks, group, spoilt
<1>3. CASE GetSwitches(t)
  BY <1>3, GotoMoves DEF GetSwitches, Places, TypeOK, LockInv, OpTypes, Moves, Switching,
         Resetting, Holding, driver, locks, group, spoilt
<1>4. CASE GetFails(t)
  BY <1>4, FailMoves DEF GetFails, Out, TypeOK, LockInv, OpTypes, Moves, Switching,
         Resetting, Holding, driver, locks, group, spoilt
<1>5. CASE SwitchDetaches(t)
  BY <1>5, GotoMoves DEF SwitchDetaches, iommu_detach_device, Places, TypeOK, LockInv,
         OpTypes, Moves, Switching, Resetting, Holding, driver, locks, group, spoilt
<1>6. CASE SwitchAllocFails(t)
  BY <1>6, FailMoves DEF SwitchAllocFails, Unlock, Out, TypeOK, LockInv, OpTypes, Moves,
         Switching, Resetting, Holding, driver, locks, group, spoilt
<1>7. CASE SwitchAttaches(t)
  BY <1>7, GotoMoves DEF SwitchAttaches, AttachOk, Places, TypeOK, LockInv, OpTypes, Moves,
         Switching, Resetting, Holding, driver, locks, group, spoilt
<1>8. CASE SwitchAttachFails(t)
  <2>1. domain' \in Domains /\ hw' \in Domains \cup {None} /\ faults' \in 0 .. MaxFaults
    BY <1>8, AttachTypes DEF SwitchAttachFails, TypeOK
  <2>2. CASE op[t].want \in iommu_domains
    <3>1. Goto(t, "reattach") /\ UNCHANGED <<domain_lock, torn>>
      BY <1>8, <2>2 DEF SwitchAttachFails
    <3>2. Moves(t) /\ op'[t].pc = "reattach" /\ op'[t].kind = op[t].kind
          /\ op'[t].want = op[t].want
      BY <3>1, GotoMoves DEF Places, Switching
    <3>3. QED
      BY <1>8, <2>1, <3>1, <3>2
      DEF SwitchAttachFails, TypeOK, LockInv, OpTypes, Moves, Switching, Resetting, driver,
          spoilt
  <2>3. CASE op[t].want \notin iommu_domains
    <3>1. Fail(t) /\ domain_lock' = NoThread /\ torn' = TRUE
      BY <1>8, <2>3 DEF SwitchAttachFails, Unlock
    <3>2. QED
      BY <1>8, <2>1, <3>1, FailMoves
      DEF SwitchAttachFails, TypeOK, LockInv, OpTypes, Moves, Out, Switching, Resetting, driver,
          spoilt
  <2>4. QED
    BY <2>2, <2>3
<1>9. CASE SwitchReattaches(t)
  <2>1. domain' \in Domains /\ hw' \in Domains \cup {None} /\ faults' \in 0 .. MaxFaults
    BY <1>9, AttachTypes DEF SwitchReattaches, TypeOK
  <2>2. torn' \in BOOLEAN
    BY <1>9 DEF SwitchReattaches, TypeOK
  <2>3. QED
    BY <1>9, <2>1, <2>2, FailMoves
    DEF SwitchReattaches, Unlock, Out, TypeOK, LockInv, OpTypes, Moves, Switching, Resetting,
        driver, spoilt
<1>10. CASE SwitchCommits(t)
  BY <1>10, SucceedMoves DEF SwitchCommits, Unlock, TypeOK, LockInv, OpTypes, Moves,
         Switching, Resetting, Holding, driver, locks, group, spoilt
<1>11. CASE Puts(t)
  BY <1>11, ReturnMoves DEF Puts, rknpu_iommu_domain_put, Out, TypeOK, LockInv, OpTypes,
         Moves, Switching, Resetting, Holding, driver, locks, group, spoilt
<1>12. CASE Swept(t)
  BY <1>12, ReturnMoves DEF Swept, Out, TypeOK, LockInv, OpTypes, Moves, Switching,
         Resetting, Holding, driver, locks, group, spoilt
<1>13. CASE Aborts(t)
  BY <1>13, GotoMoves DEF Aborts, rknpu_iommu_domain_put, Places, TypeOK, LockInv, OpTypes,
         Moves, Switching, Resetting, Holding, driver, locks, group, spoilt
<1>14. CASE PutsTwice(t)
  <2>1. CASE Return(t)
    BY <1>14, <2>1, ReturnMoves
    DEF PutsTwice, rknpu_iommu_domain_put, Out, TypeOK, LockInv, OpTypes, Moves, Switching,
        Resetting, locks, group
  <2>2. CASE Goto(t, "aborted")
    <3>1. /\ Moves(t) /\ op'[t].pc = "aborted"
          /\ op'[t].kind = op[t].kind /\ op'[t].want = op[t].want
      BY <2>2, GotoMoves DEF Places
    <3>2. QED
      BY <1>14, <3>1
      DEF PutsTwice, rknpu_iommu_domain_put, TypeOK, LockInv, OpTypes, Moves, Switching,
          Resetting, locks, group
  <2>3. QED
    BY <1>14, <2>1, <2>2 DEF PutsTwice
<1>15. CASE FreesDomains(t)
  BY <1>15, ReturnMoves DEF FreesDomains, iommu_detach_device, rknpu_iommu_domain_put, Out,
         TypeOK, LockInv, OpTypes, Moves, Switching, Resetting, Holding, driver, locks, group,
         spoilt
<1>16. CASE ResetAsked(t)
  BY <1>16, GotoMoves DEF ResetAsked, Places, TypeOK, LockInv, OpTypes, Moves, Switching,
         Resetting, Holding, driver, locks, group, spoilt
<1>17. CASE ResetSkips(t)
  BY <1>17, ReturnMoves DEF ResetSkips, Out, TypeOK, LockInv, OpTypes, Moves, Switching,
         Resetting, Holding, driver, locks, group, spoilt
<1>18. CASE ResetReads(t)
  BY <1>18, GotoMoves DEF ResetReads, Places, TypeOK, LockInv, OpTypes, Moves, Switching,
         Resetting, Holding, driver, locks, group, spoilt
<1>19. CASE ResetDetaches(t)
  BY <1>19, GotoMoves DEF ResetDetaches, iommu_detach_device, Places, TypeOK, LockInv,
         OpTypes, Moves, Switching, Resetting, Holding, driver, locks, group, spoilt
<1>20. CASE ResetAttaches(t)
  <2>1. rdomain \in Domains
    BY <1>20 DEF ResetAttaches, LockInv, Resetting
  <2>2. domain' \in Domains /\ hw' \in Domains \cup {None} /\ faults' \in 0 .. MaxFaults
    BY <1>20, <2>1, AttachTypes DEF ResetAttaches
  <2>3. torn' \in BOOLEAN
    BY <1>20 DEF ResetAttaches, TypeOK
  <2>4. QED
    BY <1>20, <2>2, <2>3, ReturnMoves
    DEF ResetAttaches, Out, TypeOK, LockInv, OpTypes, Moves, Switching, Resetting, driver, spoilt
<1>21. QED
  BY <1>1, <1>2, <1>3, <1>4, <1>5, <1>6, <1>7, <1>8, <1>9, <1>10, <1>11, <1>12, <1>13,
         <1>14, <1>15, <1>16, <1>17, <1>18, <1>19, <1>20 DEF Continues, Get, Switch, Leave, Reset

-----------------------------------------------------------------------------
(* The reference count *)

\* Every step keeps the count exact: it changes by what the holders, the gets that
\* are lost and the puts that have no get change by.
LEMMA RefcountStep ==
  ASSUME TypeOK, RefcountExact, NEW t \in Threads, Call(t) \/ ResetAsked(t) \/ Continues(t)
  PROVE  RefcountExact'
<1> DEFINE Delta == (IF op'[t].pc \in Holding THEN 1 ELSE 0)
                    - (IF op[t].pc \in Holding THEN 1 ELSE 0)
<1>a. ASSUME Moves(t), iommu_domain_refcount' - lost' + unpaired'
                         = iommu_domain_refcount - lost + unpaired + Delta,
             iommu_domain_refcount' \in Int, lost' \in Int, unpaired' \in Int
      PROVE  RefcountExact'
  <2>1. Cardinality(Holders') = Cardinality(Holders) + Delta
    BY <1>a, HoldersCount DEF Moves
  <2>2. Delta \in Int
    OBVIOUS
  <2> HIDE DEF Delta
  <2>3. QED
    BY <1>a, <2>1, <2>2, HoldersFinite DEF RefcountExact, TypeOK
<1>1. CASE Call(t)
  <2>1. Moves(t) /\ op'[t].pc = "poll"
    BY <1>1, IommuAssumption DEF Call, TypeOK, OpTypes, Moves, Places
  <2>2. QED
    BY <1>1, <1>a, <2>1 DEF Call, TypeOK, Holding, driver, spoilt
<1>2. CASE GetCurrent(t)
  BY <1>2, <1>a, SucceedMoves DEF GetCurrent, spoilt, TypeOK, Holding
<1>3. CASE GetSwitches(t)
  BY <1>3, <1>a, GotoMoves
  DEF GetSwitches, Places, driver, spoilt, TypeOK, Holding, Switching, Resetting
<1>4. CASE GetFails(t)
  BY <1>4, <1>a, FailMoves DEF GetFails, driver, spoilt, TypeOK, Holding
<1>5. CASE SwitchDetaches(t)
  BY <1>5, <1>a, GotoMoves
  DEF SwitchDetaches, Places, driver, spoilt, TypeOK, Holding, Switching, Resetting
<1>6. CASE SwitchAllocFails(t)
  BY <1>6, <1>a, FailMoves DEF SwitchAllocFails, driver, spoilt, TypeOK, Holding
<1>7. CASE SwitchAttaches(t)
  BY <1>7, <1>a, GotoMoves
  DEF SwitchAttaches, Places, driver, spoilt, TypeOK, Holding, Switching, Resetting
<1>8. CASE SwitchAttachFails(t)
  <2>1. CASE Goto(t, "reattach")
    BY <1>8, <1>a, <2>1, GotoMoves
    DEF SwitchAttachFails, Places, driver, spoilt, TypeOK, Holding, Switching, Resetting
  <2>2. CASE Fail(t)
    BY <1>8, <1>a, <2>2, FailMoves
    DEF SwitchAttachFails, Places, driver, spoilt, TypeOK, Holding, Switching, Resetting
  <2>3. QED
    BY <1>8, <2>1, <2>2 DEF SwitchAttachFails
<1>9. CASE SwitchReattaches(t)
  BY <1>9, <1>a, FailMoves DEF SwitchReattaches, driver, spoilt, TypeOK, Holding
<1>10. CASE SwitchCommits(t)
  BY <1>10, <1>a, SucceedMoves DEF SwitchCommits, spoilt, TypeOK, Holding
<1>11. CASE Puts(t)
  BY <1>11, <1>a, ReturnMoves DEF Puts, rknpu_iommu_domain_put, Out, spoilt, TypeOK, Holding
<1>12. CASE Swept(t)
  BY <1>12, <1>a, ReturnMoves DEF Swept, Out, driver, TypeOK, Holding
<1>13. CASE Aborts(t)
  BY <1>13, <1>a, GotoMoves
  DEF Aborts, rknpu_iommu_domain_put, Places, spoilt, TypeOK, Holding, Switching, Resetting
<1>14. CASE PutsTwice(t)
  <2>1. CASE Goto(t, "aborted")
    BY <1>14, <1>a, <2>1, GotoMoves
    DEF PutsTwice, rknpu_iommu_domain_put, Out, Places, TypeOK, Holding, Switching,
        Resetting
  <2>2. CASE Return(t)
    BY <1>14, <1>a, <2>2, ReturnMoves
    DEF PutsTwice, rknpu_iommu_domain_put, Out, Places, TypeOK, Holding, Switching,
        Resetting
  <2>3. QED
    BY <1>14, <2>1, <2>2 DEF PutsTwice
<1>15. CASE FreesDomains(t)
  BY <1>15, <1>a, ReturnMoves
  DEF FreesDomains, rknpu_iommu_domain_put, Out, spoilt, TypeOK, Holding
<1>16. CASE ResetAsked(t)
  BY <1>16, <1>a, GotoMoves
  DEF ResetAsked, Places, driver, spoilt, TypeOK, Holding, Switching, Resetting
<1>17. CASE ResetSkips(t)
  BY <1>17, <1>a, ReturnMoves DEF ResetSkips, Out, driver, spoilt, TypeOK, Holding
<1>18. CASE ResetReads(t)
  BY <1>18, <1>a, GotoMoves
  DEF ResetReads, Places, driver, spoilt, TypeOK, Holding, Switching, Resetting
<1>19. CASE ResetDetaches(t)
  BY <1>19, <1>a, GotoMoves
  DEF ResetDetaches, Places, driver, spoilt, TypeOK, Holding, Switching, Resetting
<1>20. CASE ResetAttaches(t)
  BY <1>20, <1>a, ReturnMoves DEF ResetAttaches, Out, driver, spoilt, TypeOK, Holding
<1>21. QED
  BY <1>1, <1>2, <1>3, <1>4, <1>5, <1>6, <1>7, <1>8, <1>9, <1>10, <1>11, <1>12, <1>13,
     <1>14, <1>15, <1>16, <1>17, <1>18, <1>19, <1>20
  DEF Continues, Get, Switch, Leave, Reset

-----------------------------------------------------------------------------
(* The domain in use *)

\* Every step keeps UseInv: a switch begins only when the exact count is zero, and
\* nobody is given a domain before it has ended.
LEMMA UseStep ==
  ASSUME TypeOK, LockInv, RefcountExact, UseInv, NEW t \in Threads,
         Call(t) \/ ResetAsked(t) \/ Continues(t)
  PROVE  UseInv'
<1> USE IommuAssumption
<1>1. CASE Call(t)
  <2>1. Moves(t) /\ op'[t].pc = "poll"
    BY <1>1, IommuAssumption DEF Call, TypeOK, OpTypes, Moves, Places
  <2>2. QED
    BY <1>1, <2>1
    DEF Call, TypeOK, LockInv, UseInv, Holders, Holding, Switching, Resetting, Moves,
        driver, locks, group, spoilt
<1>2. CASE GetCurrent(t)
  BY <1>2, SucceedMoves
  DEF GetCurrent, locks, spoilt, TypeOK, LockInv, UseInv, Holders, Holding, Switching,
      Resetting, Moves
<1>3. CASE GetSwitches(t)
  <2>1. unpaired = 0 => Holders = {}
    <3>1. unpaired = 0 => Cardinality(Holders) = 0
      BY <1>3, HoldersFinite DEF GetSwitches, RefcountExact, TypeOK
    <3>2. QED
      BY <3>1, HoldersFinite, FS_EmptySet
  <2>2. Moves(t) /\ op'[t].pc = "detach" /\ op[t].pc = "poll"
    BY <1>3, GotoMoves DEF GetSwitches, Places, Switching
  <2>3. Holders' = Holders
    BY <2>2 DEF Holders, Holding, Moves
  <2>4. QED
    BY <1>3, <2>1, <2>2, <2>3 DEF GetSwitches, UseInv, Holders, Moves, driver, spoilt
<1>4. CASE GetFails(t)
  BY <1>4, FailMoves
  DEF GetFails, driver, locks, spoilt, TypeOK, LockInv, UseInv, Holders, Holding, Switching,
      Resetting, Moves
<1>5. CASE SwitchDetaches(t)
  BY <1>5, GotoMoves
  DEF SwitchDetaches, Places, driver, locks, spoilt, TypeOK, LockInv, UseInv, Holders,
      Holding, Switching, Resetting, Moves
<1>6. CASE SwitchAllocFails(t)
  BY <1>6, FailMoves
  DEF SwitchAllocFails, Unlock, driver, spoilt, TypeOK, LockInv, UseInv, Holders, Holding,
      Switching, Resetting, Moves
<1>7. CASE SwitchAttaches(t)
  BY <1>7, GotoMoves
  DEF SwitchAttaches, Places, driver, locks, spoilt, TypeOK, LockInv, UseInv, Holders,
      Holding, Switching, Resetting, Moves
<1>8. CASE SwitchAttachFails(t)
  <2>1. CASE Goto(t, "reattach") /\ UNCHANGED <<domain_lock, torn>>
    BY <1>8, <2>1, GotoMoves
    DEF SwitchAttachFails, Unlock, Places, driver, spoilt, TypeOK, LockInv, UseInv, Holders,
        Holding, Switching, Resetting, Moves
  <2>2. CASE Unlock /\ Fail(t) /\ torn' = TRUE
    BY <1>8, <2>2, FailMoves
    DEF SwitchAttachFails, Unlock, Places, driver, spoilt, TypeOK, LockInv, UseInv, Holders,
        Holding, Switching, Resetting, Moves
  <2>3. QED
    BY <1>8, <2>1, <2>2 DEF SwitchAttachFails
<1>9. CASE SwitchReattaches(t)
  BY <1>9, FailMoves
  DEF SwitchReattaches, Unlock, driver, spoilt, TypeOK, LockInv, UseInv, Holders, Holding,
      Switching, Resetting, Moves
<1>10. CASE SwitchCommits(t)
  BY <1>10, SucceedMoves
  DEF SwitchCommits, Unlock, spoilt, TypeOK, LockInv, UseInv, Holders, Holding, Switching,
      Resetting, Moves
<1>11. CASE Puts(t)
  BY <1>11, ReturnMoves
  DEF Puts, Out, locks, spoilt, TypeOK, LockInv, UseInv, Holders, Holding, Switching,
      Resetting, Moves
<1>12. CASE Swept(t)
  BY <1>12, ReturnMoves
  DEF Swept, Out, driver, locks, TypeOK, LockInv, UseInv, Holders, Holding, Switching,
      Resetting, Moves
<1>13. CASE Aborts(t)
  BY <1>13, GotoMoves
  DEF Aborts, Places, locks, spoilt, TypeOK, LockInv, UseInv, Holders, Holding, Switching,
      Resetting, Moves
<1>14. CASE PutsTwice(t)
  BY <1>14 DEF PutsTwice, TypeOK, UseInv
<1>15. CASE FreesDomains(t)
  BY <1>15, ReturnMoves
  DEF FreesDomains, Out, locks, spoilt, TypeOK, LockInv, UseInv, Holders, Holding,
      Switching, Resetting, Moves
<1>16. CASE ResetAsked(t)
  BY <1>16, GotoMoves
  DEF ResetAsked, Places, driver, locks, spoilt, TypeOK, LockInv, UseInv, Holders, Holding,
      Switching, Resetting, Moves
<1>17. CASE ResetSkips(t)
  BY <1>17, ReturnMoves
  DEF ResetSkips, Out, driver, locks, spoilt, TypeOK, LockInv, UseInv, Holders, Holding,
      Switching, Resetting, Moves
<1>18. CASE ResetReads(t)
  BY <1>18, GotoMoves
  DEF ResetReads, Places, driver, spoilt, TypeOK, LockInv, UseInv, Holders, Holding,
      Switching, Resetting, Moves
<1>19. CASE ResetDetaches(t)
  BY <1>19, GotoMoves
  DEF ResetDetaches, Places, driver, locks, spoilt, TypeOK, LockInv, UseInv, Holders,
      Holding, Switching, Resetting, Moves
<1>20. CASE ResetAttaches(t)
  BY <1>20, ReturnMoves
  DEF ResetAttaches, Out, driver, spoilt, TypeOK, LockInv, UseInv, Holders, Holding,
      Switching, Resetting, Moves
<1>21. QED
  BY <1>1, <1>2, <1>3, <1>4, <1>5, <1>6, <1>7, <1>8, <1>9, <1>10, <1>11, <1>12, <1>13,
     <1>14, <1>15, <1>16, <1>17, <1>18, <1>19, <1>20
  DEF Continues, Get, Switch, Leave, Reset

-----------------------------------------------------------------------------
(* The domain the core and the hardware have *)

\* Every step keeps AgreeInv, each failed attach that is not undone and each reset
\* that meets a switch being noted in torn.
LEMMA AgreeStep ==
  ASSUME TypeOK, LockInv, UseInv, AgreeInv, NEW t \in Threads,
         Call(t) \/ ResetAsked(t) \/ Continues(t)
  PROVE  AgreeInv'
<1> USE IommuAssumption
<1>1. CASE Call(t)
  <2>1. Moves(t) /\ op'[t].pc = "poll"
    BY <1>1, IommuAssumption DEF Call, TypeOK, OpTypes, Moves, Places
  <2>2. QED
    BY <1>1, <2>1
    DEF Call, TypeOK, LockInv, AgreeInv, Switching, Resetting, Moves, driver, locks, group,
        spoilt
<1>2. CASE GetCurrent(t)
  BY <1>2, SucceedMoves
  DEF GetCurrent, locks, group, spoilt, TypeOK, LockInv, AgreeInv, Switching, Resetting,
      Moves
<1>3. CASE GetSwitches(t)
  <2>1. Moves(t) /\ op'[t].pc = "detach" /\ op[t].pc = "poll"
    BY <1>3, GotoMoves DEF GetSwitches, Places, Switching
  <2>2. torn' = (torn \/ reset_lock # NoThread)
    BY <1>3 DEF GetSwitches, LockInv, TypeOK
  <2>3. QED
    BY <1>3, <2>1, <2>2
    DEF GetSwitches, TypeOK, LockInv, AgreeInv, Switching, Resetting, Moves, driver, group, spoilt
<1>4. CASE GetFails(t)
  BY <1>4, FailMoves
  DEF GetFails, driver, locks, group, spoilt, TypeOK, LockInv, AgreeInv, Switching,
      Resetting, Moves
<1>5. CASE SwitchDetaches(t)
  BY <1>5, GotoMoves
  DEF SwitchDetaches, iommu_detach_device, Places, driver, locks, spoilt, TypeOK, LockInv,
      AgreeInv, Switching, Resetting, Moves
<1>6. CASE SwitchAllocFails(t)
  BY <1>6, FailMoves
  DEF SwitchAllocFails, Unlock, driver, group, spoilt, TypeOK, LockInv, AgreeInv, Switching,
      Resetting, Moves
<1>7. CASE SwitchAttaches(t)
  BY <1>7, GotoMoves
  DEF SwitchAttaches, AttachOk, Places, driver, locks, spoilt, TypeOK, LockInv, AgreeInv,
      Switching, Resetting, Moves
<1>8. CASE SwitchAttachFails(t)
  <2>1. CASE Goto(t, "reattach") /\ UNCHANGED <<domain_lock, torn>>
    BY <1>8, <2>1, GotoMoves
    DEF SwitchAttachFails, AttachFails, Unlock, Places, driver, spoilt, TypeOK, LockInv,
        AgreeInv, Switching, Resetting, Moves
  <2>2. CASE Unlock /\ Fail(t) /\ torn' = TRUE
    BY <1>8, <2>2, FailMoves
    DEF SwitchAttachFails, AttachFails, Unlock, Places, driver, spoilt, TypeOK, LockInv,
        AgreeInv, Switching, Resetting, Moves
  <2>3. QED
    BY <1>8, <2>1, <2>2 DEF SwitchAttachFails
<1>9. CASE SwitchReattaches(t)
  BY <1>9, FailMoves
  DEF SwitchReattaches, AttachOk, AttachFails, Unlock, driver, spoilt, TypeOK, LockInv,
      AgreeInv, Switching, Resetting, Moves
<1>10. CASE SwitchCommits(t)
  BY <1>10, SucceedMoves
  DEF SwitchCommits, Unlock, spoilt, TypeOK, LockInv, AgreeInv, Switching, Resetting, Moves
<1>11. CASE Puts(t)
  BY <1>11, ReturnMoves
  DEF Puts, Out, locks, group, spoilt, TypeOK, LockInv, AgreeInv, Switching, Resetting,
      Moves
<1>12. CASE Swept(t)
  BY <1>12, ReturnMoves
  DEF Swept, Out, driver, locks, group, TypeOK, LockInv, AgreeInv, Switching, Resetting,
      Moves
<1>13. CASE Aborts(t)
  BY <1>13, GotoMoves
  DEF Aborts, Places, locks, group, spoilt, TypeOK, LockInv, AgreeInv, Switching, Resetting,
      Moves
<1>14. CASE PutsTwice(t)
  BY <1>14 DEF PutsTwice, TypeOK, AgreeInv
<1>15. CASE FreesDomains(t)
  <2>1. Moves(t) /\ op'[t].pc = "out"
    BY <1>15, ReturnMoves DEF FreesDomains, Out
  <2>2. unpaired = 0 => domain_lock = NoThread
    BY <1>15 DEF FreesDomains, UseInv, Holders, Holding
  <2>3. QED
    BY <1>15, <2>1, <2>2
    DEF FreesDomains, iommu_detach_device, TypeOK, LockInv, AgreeInv, Switching, Moves, locks,
        spoilt
<1>16. CASE ResetAsked(t)
  BY <1>16, GotoMoves
  DEF ResetAsked, Places, driver, locks, group, spoilt, TypeOK, LockInv, AgreeInv,
      Switching, Resetting, Moves
<1>17. CASE ResetSkips(t)
  BY <1>17, ReturnMoves
  DEF ResetSkips, Out, driver, locks, group, spoilt, TypeOK, LockInv, AgreeInv, Switching,
      Resetting, Moves
<1>18. CASE ResetReads(t)
  BY <1>18, GotoMoves
  DEF ResetReads, Places, driver, group, spoilt, TypeOK, LockInv, AgreeInv, Switching,
      Resetting, Moves
<1>19. CASE ResetDetaches(t)
  BY <1>19, GotoMoves
  DEF ResetDetaches, iommu_detach_device, Places, driver, locks, spoilt, TypeOK, LockInv,
      AgreeInv, Switching, Resetting, Moves
<1>20. CASE ResetAttaches(t)
  BY <1>20, ReturnMoves
  DEF ResetAttaches, AttachOk, AttachFails, Out, driver, spoilt, TypeOK, LockInv, AgreeInv,
      Switching, Resetting, Moves
<1>21. QED
  BY <1>1, <1>2, <1>3, <1>4, <1>5, <1>6, <1>7, <1>8, <1>9, <1>10, <1>11, <1>12, <1>13,
     <1>14, <1>15, <1>16, <1>17, <1>18, <1>19, <1>20
  DEF Continues, Get, Switch, Leave, Reset

-----------------------------------------------------------------------------
(* The theorems *)

\* The initial state satisfies the inductive invariant.
LEMMA InvInit == Init => IInv
<1> SUFFICES ASSUME Init
             PROVE  IInv
  OBVIOUS
<1>1. TypeOK
  <2>1. Out \in OpTypes
    BY IommuAssumption DEF Out, OpTypes, Places, Kinds
  <2>2. op \in [Threads -> OpTypes]
    BY <2>1 DEF Init
  <2>3. /\ iommu_domain_id \in Domains /\ iommu_domains \subseteq Domains
        /\ domain \in Domains /\ default_domain \in Domains /\ hw \in Domains
        /\ faults \in 0 .. MaxFaults
    BY IommuAssumption DEF Init
  <2>4. /\ iommu_domain_refcount = 0 /\ domain_lock = NoThread /\ reset_lock = NoThread
        /\ rdomain = None /\ unpaired = 0 /\ lost = 0 /\ torn = FALSE
    BY DEF Init
  <2>5. iommu_domain_refcount \in Int /\ unpaired \in Nat /\ lost \in Nat
    BY <2>4
  <2>6. QED
    BY ONLY <2>2, <2>3, <2>4, <2>5, Zenon DEF TypeOK, OpTypes
<1>2. \A t \in Threads : op[t].pc = "out" /\ op[t].kind = "call"
  BY DEF Init, Out
<1>3. Holders = {}
  BY <1>2 DEF Holders, Holding
<1>4. LockInv
  BY <1>2, IommuAssumption DEF LockInv, Init, Switching, Resetting
<1>5. RefcountExact
  BY <1>3, FS_EmptySet DEF RefcountExact, Init
<1>6. UseInv /\ AgreeInv
  BY <1>2, <1>3 DEF UseInv, AgreeInv, Init
<1>7. QED
  BY <1>1, <1>4, <1>5, <1>6 DEF IInv

\* Every step, and every step that changes nothing, keeps the inductive invariant.
LEMMA InvStep == IInv /\ [Next]_vars => IInv'
<1> SUFFICES ASSUME IInv, [Next]_vars
             PROVE  IInv'
  OBVIOUS
<1>1. ASSUME NEW t \in Threads, Call(t) \/ ResetAsked(t) \/ Continues(t)
      PROVE  IInv'
  BY <1>1, TypeLockStep, RefcountStep, UseStep, AgreeStep DEF IInv
<1>2. CASE UNCHANGED vars
  BY <1>2 DEF IInv, TypeOK, LockInv, RefcountExact, UseInv, AgreeInv, Holders, vars, driver,
              locks, group, spoilt
<1>3. QED
  BY <1>1, <1>2 DEF Next

\* Every behaviour of the IOMMU component satisfies the inductive invariant.
LEMMA Invariance == Spec => []IInv
  BY InvInit, InvStep, PTL DEF Spec

\* The type invariant holds in every reachable state: in particular a reset always
\* attaches a domain it has read, and a switch never commits an invalid one.
THEOREM TypeCorrect == Spec => []TypeOK
<1>1. IInv => TypeOK
  BY DEF IInv
<1>2. QED
  BY <1>1, Invariance, PTL

\* iommu_domain_refcount counts the holders exactly, but for the puts and gets of
\* failed jobs that do not pair up, in every interleaving of callers, failed
\* attaches and resets (rknpu_iommu.c:183-235).
THEOREM CountIsExact == Spec => []RefcountExact
<1>1. IInv => RefcountExact
  BY DEF IInv
<1>2. QED
  BY <1>1, Invariance, PTL

\* While puts and gets pair up, who holds a domain works in the one it asked for,
\* and unless an attach failed for good or a reset met a switch the hardware walks
\* that domain's tables (rknpu_iommu.c:87-228, rknpu_reset.c:141-147).
THEOREM HoldersTranslate == Spec => []HoldersAreTranslated
<1>1. IInv => HoldersAreTranslated
  <2> SUFFICES ASSUME IInv, unpaired = 0, NEW t \in Holders
               PROVE  op[t].want = iommu_domain_id /\ (torn \/ hw = op[t].want)
    BY DEF HoldersAreTranslated
  <2>1. op[t].want = iommu_domain_id /\ domain_lock = NoThread
    BY DEF IInv, UseInv
  <2>2. QED
    BY <2>1 DEF IInv, AgreeInv, TypeOK
<1>2. QED
  BY <1>1, Invariance, PTL

\* Under the same conditions driver, IOMMU core and hardware agree on the domain,
\* an allocated one, whenever no switch is under way (rknpu_iommu.c:87-181, 237-259).
THEOREM DomainsAgree == Spec => []Agreement
<1>1. IInv => Agreement
  BY DEF IInv, UseInv, AgreeInv, Agreement, TypeOK
<1>2. QED
  BY <1>1, Invariance, PTL
=============================================================================

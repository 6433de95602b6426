----------------------------- MODULE RknpuIommu -----------------------------
(***************************************************************************)
(* IOMMU domain switching (rknpu_iommu.c) and its users: jobs hold their   *)
(* domain from rknpu_job_schedule() until they are done or aborted, GEM    *)
(* calls and the action ioctl for the length of the call, and a soft reset *)
(* detaches and attaches the domain without domain_lock (rknpu_reset.c).   *)
(* The code is what a build with CONFIG_NO_GKI compiles; without it every  *)
(* function here is a stub that returns 0.                                 *)
(*                                                                         *)
(* A domain is named by its index in iommu_domains.  What is outside the   *)
(* driver is the IOMMU core's group and the hardware: a call into it is    *)
(* atomic, may fail, and a failed attach leaves no translation.            *)
(***************************************************************************)
EXTENDS Integers, FiniteSets

CONSTANTS
    Threads,             \* callers: submitters, GEM calls, action ioctls, remove
    NoThread,
    Domains,             \* valid domain ids, 0 among them
    BadDomain,           \* an id outside 0 .. RKNPU_MAX_IOMMU_DOMAIN_NUM - 1
    None,                \* no domain
    MaxFaults,           \* bound: attaches that fail
    MaxSpoiled           \* bound: puts and gets of jobs that do not pair up

ASSUME IommuAssumption ==
    /\ IsFiniteSet(Threads)
    /\ NoThread \notin Threads
    /\ 0 \in Domains
    /\ BadDomain \notin Domains
    /\ None \notin Domains \cup {BadDomain}
    /\ MaxFaults \in Nat
    /\ MaxSpoiled \in Nat

VARIABLES
    iommu_domain_id,         \* rknpu_dev->iommu_domain_id
    iommu_domain_refcount,   \* rknpu_dev->iommu_domain_refcount
    iommu_domains,           \* the indices whose entry is not NULL
    domain_lock,             \* who holds it across a switch, or NoThread
    reset_lock,              \* who resets, or NoThread
    op,                      \* what each thread does: step, user, domain, retries
    domain, default_domain,  \* of the device's iommu_group
    hw,                      \* the domain whose tables the hardware walks, or None
    rdomain,                 \* the domain the reset has read
    faults,                  \* attaches that have failed
    unpaired, lost,          \* ghosts: puts without a get, gets that are never put
    torn                     \* ghost: an attach failed for good, or a reset and a
                             \* switch have overlapped

driver == <<iommu_domain_id, iommu_domain_refcount, iommu_domains>>
locks == <<domain_lock, reset_lock>>
group == <<domain, default_domain>>
spoilt == <<unpaired, lost>>
vars == <<driver, locks, op, group, hw, rdomain, faults, spoilt, torn>>

\* Users: a job; SET_IOMMU_DOMAIN_ID and the GEM calls, which ask once; the GEM
\* calls that destroy, which ask three times; rknpu_iommu_free_domains().
Kinds == {"job", "call", "destroy", "free"}
Switching == {"detach", "attach", "reattach", "commit"}
Resetting == {"r_detach", "r_attach"}
Holding == {"job", "use", "freeing"}
Places ==
    {"out", "poll", "denied", "aborting", "aborted"} \cup Switching \cup Resetting \cup Holding

TypeOK ==
    /\ iommu_domain_id \in Domains
    /\ iommu_domain_refcount \in Int
    /\ iommu_domains \subseteq Domains
    /\ domain_lock \in Threads \cup {NoThread}
    /\ reset_lock \in Threads \cup {NoThread}
    /\ op \in [Threads -> [pc : Places, kind : Kinds, want : Domains \cup {BadDomain},
                           tries : 0 .. 2]]
    /\ domain \in Domains
    /\ default_domain \in Domains
    /\ hw \in Domains \cup {None}
    /\ rdomain \in Domains \cup {None}
    /\ faults \in 0 .. MaxFaults
    /\ unpaired \in Nat /\ lost \in Nat
    /\ torn \in BOOLEAN

Out == [pc |-> "out", kind |-> "call", want |-> 0, tries |-> 0]

\* After rknpu_iommu_init_domain(): domain 0 is the one the core has attached.
Init ==
    /\ iommu_domain_id = 0
    /\ iommu_domain_refcount = 0
    /\ iommu_domains = {0}
    /\ domain_lock = NoThread
    /\ reset_lock = NoThread
    /\ op = [t \in Threads |-> Out]
    /\ domain = 0
    /\ default_domain = 0
    /\ hw = 0
    /\ rdomain = None
    /\ faults = 0
    /\ unpaired = 0 /\ lost = 0
    /\ torn = FALSE

Goto(t, p) == op' = [op EXCEPT ![t].pc = p]
Return(t) == op' = [op EXCEPT ![t] = Out]

-----------------------------------------------------------------------------
(* The IOMMU core: detaching returns the device to the default domain, and  *)
(* only a device in its default domain can be attached.                     *)

iommu_detach_device ==
    /\ domain' = default_domain
    /\ hw' = IF domain = default_domain THEN hw ELSE default_domain

AttachOk(d) == domain = default_domain /\ domain' = d /\ hw' = d /\ UNCHANGED faults

AttachFails ==
    /\ UNCHANGED domain
    /\ \/ domain # default_domain /\ UNCHANGED <<hw, faults>>
       \/ domain = default_domain /\ faults < MaxFaults /\ hw' = None /\ faults' = faults + 1

-----------------------------------------------------------------------------
(* rknpu_iommu_domain_get_and_switch() *)

\* Mutant: one time too many.
FailMutant(t) ==
    \/ op[t].kind = "job" /\ Goto(t, "denied")
    \/ /\ op[t].kind = "destroy" /\ op[t].tries < 3
       /\ op' = [op EXCEPT ![t].pc = "poll", ![t].tries = @ + 1]
    \/ /\ op[t].kind # "job"
       /\ op[t].kind # "destroy" \/ op[t].tries >= 3
       /\ Return(t)

\* The call has failed: a job is aborted all the same, a destroying call asks
\* again at most twice.
Fail(t) ==
    \/ op[t].kind = "job" /\ Goto(t, "denied")
    \/ /\ op[t].kind = "destroy" /\ op[t].tries + 1 < 3
       /\ op' = [op EXCEPT ![t].pc = "poll", ![t].tries = @ + 1]
    \/ /\ op[t].kind # "job"
       /\ op[t].kind # "destroy" \/ op[t].tries + 1 >= 3
       /\ Return(t)

Succeed(t) ==
    /\ iommu_domain_refcount' = iommu_domain_refcount + 1
    /\ Goto(t, CASE op[t].kind = "job" -> "job"
                 [] op[t].kind = "free" -> "freeing"
                 [] OTHER -> "use")

\* One round of the loop, under domain_lock: the domain is the current one,
GetCurrent(t) ==
    /\ op[t].pc = "poll" /\ domain_lock = NoThread
    /\ op[t].want = iommu_domain_id
    /\ Succeed(t)
    /\ UNCHANGED <<iommu_domain_id, iommu_domains, locks, group, hw, rdomain,
                   faults, spoilt, torn>>

\* Mutant: the current domain's users are not asked.
GetSwitchesMutant(t) ==
    /\ op[t].pc = "poll" /\ domain_lock = NoThread
    /\ op[t].want \in Domains \ {iommu_domain_id}
    /\ domain = iommu_domain_id
    /\ domain_lock' = t
    /\ Goto(t, "detach")
    /\ torn' = (torn \/ \E u \in Threads : op[u].pc \in Resetting)
    /\ UNCHANGED <<driver, reset_lock, group, hw, rdomain, faults, spoilt>>

\* or nobody uses the current one and the switch begins, with the lock held,
GetSwitches(t) ==
    /\ op[t].pc = "poll" /\ domain_lock = NoThread
    /\ op[t].want \in Domains \ {iommu_domain_id}
    /\ iommu_domain_refcount = 0
    /\ domain = iommu_domain_id
    /\ domain_lock' = t
    /\ Goto(t, "detach")
    /\ torn' = (torn \/ \E u \in Threads : op[u].pc \in Resetting)
    /\ UNCHANGED <<driver, reset_lock, group, hw, rdomain, faults, spoilt>>

\* or the switch is refused at once, or somebody uses the current domain and the
\* caller polls again until its time is up.
GetFails(t) ==
    /\ op[t].pc = "poll" /\ domain_lock = NoThread
    /\ op[t].want # iommu_domain_id
    /\ \/ iommu_domain_refcount # 0
       \/ op[t].want \notin Domains
       \/ domain # iommu_domain_id
    /\ Fail(t)
    /\ UNCHANGED <<driver, locks, group, hw, rdomain, faults, spoilt, torn>>

-----------------------------------------------------------------------------
(* rknpu_iommu_switch_domain(), from the call that detaches the old domain *)

Unlock == domain_lock' = NoThread

SwitchDetaches(t) ==
    /\ op[t].pc = "detach"
    /\ iommu_detach_device
    /\ Goto(t, "attach")
    /\ UNCHANGED <<driver, locks, default_domain, rdomain, faults, spoilt, torn>>

\* A domain that is new must be allocated first.
SwitchAllocFails(t) ==
    /\ op[t].pc = "detach"
    /\ op[t].want \notin iommu_domains
    /\ Unlock
    /\ Fail(t)
    /\ UNCHANGED <<driver, reset_lock, group, hw, rdomain, faults, spoilt, torn>>

SwitchAttaches(t) ==
    /\ op[t].pc = "attach"
    /\ AttachOk(op[t].want)
    /\ Goto(t, "commit")
    /\ UNCHANGED <<driver, locks, default_domain, rdomain, spoilt, torn>>

\* Mutant: the error path of a new domain returns with domain_lock held.
SwitchAttachFailsMutant(t) ==
    /\ op[t].pc = "attach"
    /\ AttachFails
    /\ IF op[t].want \in iommu_domains
       THEN Goto(t, "reattach") /\ UNCHANGED torn
       ELSE Fail(t) /\ torn' = TRUE
    /\ UNCHANGED <<driver, locks, default_domain, rdomain, spoilt>>

\* The old domain is attached again only if the new one had been in use before.
SwitchAttachFails(t) ==
    /\ op[t].pc = "attach"
    /\ AttachFails
    /\ IF op[t].want \in iommu_domains
       THEN Goto(t, "reattach") /\ UNCHANGED <<domain_lock, torn>>
       ELSE Unlock /\ Fail(t) /\ torn' = TRUE
    /\ UNCHANGED <<driver, reset_lock, default_domain, rdomain, spoilt>>

SwitchReattaches(t) ==
    /\ op[t].pc = "reattach"
    /\ \/ AttachOk(iommu_domain_id) /\ UNCHANGED torn
       \/ AttachFails /\ torn' = TRUE
    /\ Unlock
    /\ Fail(t)
    /\ UNCHANGED <<driver, reset_lock, default_domain, rdomain, spoilt>>

\* Mutant: the group's default domain stays.
SwitchCommitsMutant(t) ==
    /\ op[t].pc = "commit"
    /\ iommu_domain_id' = op[t].want
    /\ iommu_domains' = iommu_domains \cup {op[t].want}
    /\ Succeed(t)
    /\ Unlock
    /\ UNCHANGED <<reset_lock, group, hw, rdomain, faults, spoilt, torn>>

\* The new domain becomes the group's default, so that the core accepts the next
\* switch, and the caller has it.
SwitchCommits(t) ==
    /\ op[t].pc = "commit"
    /\ iommu_domain_id' = op[t].want
    /\ iommu_domains' = iommu_domains \cup {op[t].want}
    /\ default_domain' = op[t].want
    /\ Succeed(t)
    /\ Unlock
    /\ UNCHANGED <<reset_lock, domain, hw, rdomain, faults, spoilt, torn>>

-----------------------------------------------------------------------------
(* The users *)

Call(t) ==
    /\ op[t].pc = "out"
    /\ \E k \in Kinds, d \in Domains \cup {BadDomain} :
           /\ k = "free" => d = 0 /\ \A u \in Threads : op[u].kind # "free"
           /\ op' = [op EXCEPT ![t] = [pc |-> "poll", kind |-> k, want |-> d, tries |-> 0]]
    /\ UNCHANGED <<driver, locks, group, hw, rdomain, faults, spoilt, torn>>

rknpu_iommu_domain_put == iommu_domain_refcount' = iommu_domain_refcount - 1

\* The end of an action ioctl or a GEM call, and rknpu_job_done().
Puts(t) ==
    /\ op[t].pc \in {"use", "job"}
    /\ rknpu_iommu_domain_put
    /\ Return(t)
    /\ UNCHANGED <<iommu_domain_id, iommu_domains, locks, group, hw, rdomain, faults,
                   spoilt, torn>>

\* The sweep of expired jobs frees a job and forgets its domain.
Swept(t) ==
    /\ op[t].pc = "job"
    /\ unpaired + lost < MaxSpoiled
    /\ lost' = lost + 1
    /\ Return(t)
    /\ UNCHANGED <<driver, locks, group, hw, rdomain, faults, unpaired, torn>>

\* rknpu_job_abort() of a job that holds its domain,
Aborts(t) ==
    /\ op[t].pc = "job"
    /\ rknpu_iommu_domain_put
    /\ Goto(t, "aborting")
    /\ UNCHANGED <<iommu_domain_id, iommu_domains, locks, group, hw, rdomain, faults,
                   spoilt, torn>>

\* of one that was never given it, and the interrupt of a job being aborted.
PutsTwice(t) ==
    /\ op[t].pc \in {"denied", "aborting"}
    /\ unpaired + lost < MaxSpoiled
    /\ rknpu_iommu_domain_put
    /\ unpaired' = unpaired + 1
    /\ IF op[t].pc = "denied" THEN Return(t) ELSE Goto(t, "aborted")
    /\ UNCHANGED <<iommu_domain_id, iommu_domains, locks, group, hw, rdomain, faults,
                   lost, torn>>

\* Mutant: the reference is not put.
FreesDomainsMutant(t) ==
    /\ op[t].pc = "freeing"
    /\ iommu_domains' = iommu_domains \cap {0}
    /\ IF iommu_domains = {0} THEN UNCHANGED <<domain, hw>> ELSE iommu_detach_device
    /\ Return(t)
    /\ UNCHANGED <<iommu_domain_id, iommu_domain_refcount, locks, default_domain, rdomain,
                   faults, spoilt, torn>>

\* rknpu_iommu_free_domains(), with a reference to domain 0.
FreesDomains(t) ==
    /\ op[t].pc = "freeing"
    /\ iommu_domains' = iommu_domains \cap {0}
    /\ IF iommu_domains = {0} THEN UNCHANGED <<domain, hw>> ELSE iommu_detach_device
    /\ rknpu_iommu_domain_put
    /\ Return(t)
    /\ UNCHANGED <<iommu_domain_id, locks, default_domain, rdomain, faults, spoilt, torn>>

-----------------------------------------------------------------------------
(* rknpu_soft_reset(), without domain_lock *)

\* RKNPU_ACT_RESET and the reset node of debugfs: as after an abort.
ResetAsked(t) ==
    /\ op[t].pc = "out"
    /\ Goto(t, "aborted")
    /\ UNCHANGED <<driver, locks, group, hw, rdomain, faults, spoilt, torn>>

ResetSkips(t) ==
    /\ op[t].pc \in {"aborting", "aborted"}
    /\ Return(t)
    /\ UNCHANGED <<driver, locks, group, hw, rdomain, faults, spoilt, torn>>

ResetReads(t) ==
    /\ op[t].pc \in {"aborting", "aborted"}
    /\ reset_lock = NoThread
    /\ reset_lock' = t
    /\ rdomain' = domain
    /\ Goto(t, "r_detach")
    /\ torn' = (torn \/ domain_lock # NoThread)
    /\ UNCHANGED <<driver, domain_lock, group, hw, faults, spoilt>>

ResetDetaches(t) ==
    /\ op[t].pc = "r_detach"
    /\ iommu_detach_device
    /\ Goto(t, "r_attach")
    /\ UNCHANGED <<driver, locks, default_domain, rdomain, faults, spoilt, torn>>

ResetAttaches(t) ==
    /\ op[t].pc = "r_attach"
    /\ \/ AttachOk(rdomain) /\ UNCHANGED torn
       \/ AttachFails /\ torn' = TRUE
    /\ reset_lock' = NoThread
    /\ rdomain' = None
    /\ Return(t)
    /\ UNCHANGED <<driver, domain_lock, default_domain, spoilt>>

-----------------------------------------------------------------------------

Get(t) == GetCurrent(t) \/ GetSwitches(t) \/ GetFails(t)

Switch(t) ==
    \/ SwitchDetaches(t)
    \/ SwitchAllocFails(t)
    \/ SwitchAttaches(t)
    \/ SwitchAttachFails(t)
    \/ SwitchReattaches(t)
    \/ SwitchCommits(t)

Leave(t) == Puts(t) \/ Swept(t) \/ Aborts(t) \/ PutsTwice(t) \/ FreesDomains(t)

Reset(t) == ResetSkips(t) \/ ResetReads(t) \/ ResetDetaches(t) \/ ResetAttaches(t)

Continues(t) == Get(t) \/ Switch(t) \/ Leave(t) \/ Reset(t)

Next == \E t \in Threads : Call(t) \/ ResetAsked(t) \/ Continues(t)

Spec == Init /\ [][Next]_vars

\* Every caller goes on; the loop of the get looks again every 10 to 100 us and
\* its time is bounded, so a caller that keeps finding the lock free gets there.
FairSpec == Spec /\ \A t \in Threads : WF_vars(Switch(t) \/ Leave(t) \/ Reset(t)) /\ SF_vars(Get(t))

-----------------------------------------------------------------------------
(* Properties *)

Holders == {t \in Threads : op[t].pc \in Holding}

\* The count is what the holders add up to, less the puts that had no get and
\* plus the gets that nobody puts: every error path of the switch leaves it alone
\* (rknpu_iommu.c:183-235, rknpu_job.c:495, 547, 575).
RefcountExact == iommu_domain_refcount = Cardinality(Holders) + lost - unpaired

\* As long as puts and gets pair up, whoever holds a domain works in the domain
\* it asked for; and unless an attach failed for good or a reset ran into a
\* switch, that is the domain whose tables the hardware walks
\* (rknpu_iommu.c:87-228, rknpu_reset.c:141-147).
HoldersAreTranslated ==
    unpaired = 0 =>
        \A t \in Holders : op[t].want = iommu_domain_id /\ (torn \/ hw = op[t].want)

\* Under the same conditions the driver, the IOMMU core and the hardware agree on
\* the domain whenever no switch is under way, through failed attaches that were
\* undone, and it is one of iommu_domains: none that rknpu_iommu_free_domains()
\* has freed is still walked
\* (rknpu_iommu.c:87-181, 237-259).
Agreement ==
    (unpaired = 0 /\ ~torn /\ domain_lock = NoThread) =>
        /\ iommu_domain_id = domain
        /\ domain = default_domain
        /\ hw = domain
        /\ domain \in iommu_domains

\* Every call for a domain is answered: it waits for a bounded time and no error
\* path keeps domain_lock (rknpu_iommu.c:191-228).
EveryGetReturns == \A t \in Threads : op[t].pc \in {"poll"} \cup Switching
                       ~> op[t].pc \notin {"poll"} \cup Switching
=============================================================================

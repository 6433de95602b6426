-------------------------- MODULE MCRknpuRecovery --------------------------
(***************************************************************************)
(* Instances of RknpuRecovery for TLC: one core (as RK3566 has) with every *)
(* fault, and two cores with expiring waits.                               *)
(***************************************************************************)
EXTENDS RknpuRecovery, TLC

Job(m, t, nb, o) ==
    [mask |-> m, tasks |-> [c \in Cores |-> t], nonblock |-> nb, pc |-> TRUE, obj |-> o,
     fence |-> nb]

\* Three submissions, of which two are in the driver at a time: with the user's reset
\* that is three threads.
TwoThreads == Cardinality({j \in Jobs : pc[j] \notin {"new", "returned"}}) <= 2

Symmetry == Permutations(Jobs)

\* max_submit_number is 2: three tasks make two segments.
OneCoreArgs == {Job({0}, 3, FALSE, TRUE), Job({0}, 1, TRUE, TRUE)}

\* The same with a job that has no task object, which is never committed.
OneCoreBadArgs == OneCoreArgs \cup {Job({0}, 1, FALSE, FALSE)}

\* Blocking jobs of one segment.
OneCoreBlocking == {Job({0}, 1, FALSE, TRUE)}

\* Two cores: blocking jobs for core 1, and asynchronous ones.
SecondCoreBlocking == {Job({1}, 1, FALSE, TRUE)}
SecondCoreAsync == {Job({1}, 1, TRUE, TRUE)}

\* Asynchronous jobs that use every core.
AllCoresAsync == {Job(Cores, 1, TRUE, TRUE)}
=============================================================================

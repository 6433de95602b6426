----------------------------- MODULE GangQueue -----------------------------
(***************************************************************************)
(* What the scheduler of the NPU promises to those who submit jobs, when   *)
(* nothing fails.  Every core has a queue.  A job joins the queues of all  *)
(* its cores at once, at their ends; it starts once, when it is the first  *)
(* of each; each core serves its queue in order and lets a job go only     *)
(* after its start; the job is complete, once, when all cores have let it  *)
(* go; and its fence is signalled after that.                              *)
(***************************************************************************)
EXTENDS Naturals, Sequences

CONSTANTS Jobs, Cores

VARIABLES
    queue,               \* the jobs each core has still to serve
    started,             \* the jobs that were started
    completed,           \* the jobs that were reported complete
    signalled            \* the jobs whose out-fence was signalled

vars == <<queue, started, completed, signalled>>

On(j, c) == \E i \in 1 .. Len(queue[c]) : queue[c][i] = j

Init ==
    /\ queue = [c \in Cores |-> <<>>]
    /\ started = {} /\ completed = {} /\ signalled = {}

\* Job j is submitted for the cores of m.
Submit(j, m) ==
    /\ m # {}
    /\ j \notin started
    /\ \A c \in Cores : ~On(j, c)
    /\ queue' = [c \in Cores |-> IF c \in m THEN Append(queue[c], j) ELSE queue[c]]
    /\ UNCHANGED <<started, completed, signalled>>

\* All or nothing.
Start(j) ==
    /\ j \notin started
    /\ \E c \in Cores : On(j, c)
    /\ \A c \in Cores : On(j, c) => queue[c][1] = j
    /\ started' = started \cup {j}
    /\ UNCHANGED <<queue, completed, signalled>>

\* Core c has done its part of the job it serves.
Retire(c) ==
    /\ queue[c] # <<>>
    /\ Head(queue[c]) \in started
    /\ queue' = [queue EXCEPT ![c] = Tail(@)]
    /\ UNCHANGED <<started, completed, signalled>>

Complete(j) ==
    /\ j \in started \ completed
    /\ \A c \in Cores : ~On(j, c)
    /\ completed' = completed \cup {j}
    /\ UNCHANGED <<queue, started, signalled>>

Signal(j) ==
    /\ j \in completed \ signalled
    /\ signalled' = signalled \cup {j}
    /\ UNCHANGED <<queue, started, completed>>

Next ==
    \/ \E j \in Jobs : Start(j) \/ Complete(j) \/ Signal(j)
    \/ \E j \in Jobs, m \in SUBSET Cores : Submit(j, m)
    \/ \E c \in Cores : Retire(c)

Spec == Init /\ [][Next]_vars
=============================================================================

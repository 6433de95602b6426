----------------------------- MODULE MCRknpuJob -----------------------------
(***************************************************************************)
(* Instances of RknpuJob for TLC, on two cores: jobs for one, for both and *)
(* for the core the driver picks; blocking and asynchronous; of one and of *)
(* two segments.                                                           *)
(***************************************************************************)
EXTENDS RknpuJob, TLC

Job(m, t0, t1, nb, f) ==
    [mask |-> m, tasks |-> [c \in Cores |-> IF c = 0 THEN t0 ELSE t1], nonblock |-> nb,
     pc |-> TRUE, obj |-> TRUE, fence |-> f]

\* max_submit_number is 2 in the instances: three tasks make two segments.
MixedArgs == {Job({0, 1}, 1, 3, FALSE, FALSE), Job(Cores, 1, 1, TRUE, TRUE),
              Job({1}, 2, 1, FALSE, TRUE), Job({}, 1, 1, TRUE, FALSE)}

\* Three jobs that compete: some for both cores, some for the less loaded one.
GangArgs == {Job({0, 1}, 1, 1, FALSE, FALSE), Job({}, 1, 1, FALSE, FALSE)}

Symmetry == Permutations(Jobs)
=============================================================================

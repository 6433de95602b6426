---------------------------- MODULE MCRknpuPower ----------------------------
(***************************************************************************)
(* An instance of RknpuPower for TLC: RK3588, with several power domains,   *)
(* so that switching off can fail as well.                                 *)
(***************************************************************************)
EXTENDS RknpuPower

Supplies == {"vdd", "mem", "clk", "npu0", "npu1", "npu2", "dev"}

\* Fouls are never taken back and every property excuses a state with a foul
\* other than "stolen", so such a state need not be followed.
Unspoiled == fouls \subseteq {"stolen"}
=============================================================================

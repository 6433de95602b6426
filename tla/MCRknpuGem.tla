----------------------------- MODULE MCRknpuGem -----------------------------
(***************************************************************************)
(* An instance of RknpuGem for TLC: two threads and two buffers, an SRAM   *)
(* of two chunks and an NBUF whose pages come in two blocks, as on RK3576. *)
(***************************************************************************)
EXTENDS RknpuGem, TLC

Ask(try, size, noncontig, kmap) ==
    [try |-> try, size |-> size, sram_size |-> 0, noncontig |-> noncontig, kmap |-> kmap]

AllRequests == {Ask("no", 2, TRUE, TRUE), Ask("no", 2, FALSE, FALSE), Ask("sram", 2, TRUE, FALSE),
                Ask("nbuf", 3, TRUE, FALSE), Ask("nbuf", 1, TRUE, FALSE),
                [Ask("sram", 3, TRUE, FALSE) EXCEPT !.sram_size = 1]}

AllShapes == [n \in 1 .. 3 |-> IF n = 1 THEN {<<1>>} ELSE {<<n>>, <<1, n - 1>>}]

Chunks == 4 .. 5

\* RK3576, core 0: a block at the start of the NBUF and one further on.
Blocks == <<[offset |-> 0, length |-> 1], [offset |-> 3, length |-> 1]>>

\* Leaks are never taken back and nothing depends on them; a synchronisation that
\* finds no buffer in use does nothing here.  What follows either need not be explored.
Worthwhile ==
    /\ leaks = {}
    /\ \A t \in Threads : op[t].pc = "sync" => Sound(op[t].b) /\ obj[op[t].b].segs # <<>>

\* Only one buffer at a time is mapped or exported.
Shared(b) == obj[b].exported \/ obj[b].vmas > 0 \/ obj[b].over > 0
OneShared == \A b, c \in Objs : Shared(b) /\ Shared(c) => b = c

Symmetry == Permutations(Objs) \cup Permutations(Threads)
=============================================================================

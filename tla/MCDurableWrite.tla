--------------------------- MODULE MCDurableWrite ---------------------------
(* DurableWrite with the operations of one file and of two.                *)
EXTENDS DurableWrite, TLC

MCJobs == {<<"root">>, <<"rotations", "root">>}

Symmetry == Permutations(Procs) \cup Permutations(Pids)
=============================================================================

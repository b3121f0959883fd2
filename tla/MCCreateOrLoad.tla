--------------------------- MODULE MCCreateOrLoad ---------------------------
(* Finite instances of CreateOrLoad.                                       *)
EXTENDS CreateOrLoad, TLC

Symmetry == Permutations(Procs)
=============================================================================

----------------------------- MODULE MCReceiver -----------------------------
(* Finite instances of Receiver.                                           *)
EXTENDS Receiver, TLC

Symmetry == Permutations(Successors)
=============================================================================

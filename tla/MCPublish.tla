----------------------------- MODULE MCPublish -----------------------------
(* Publish on a small instance: the operations on roots and delegations,   *)
(* with what the key directory promises by itself.                         *)
EXTENDS Publish, TLC

Symmetry == Permutations(Procs)

PublishCalls == {"init", "rotate_root", "renew", "renew_if_due", "load"}
=============================================================================

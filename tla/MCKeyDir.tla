----------------------------- MODULE MCKeyDir -----------------------------
(* KeyDir on small instances: the operations each run lets the processes   *)
(* call.  The roots are checked with the receiver's, in MCPublish.         *)
EXTENDS KeyDirInductive, TLC

Symmetry == Permutations(Procs)

DeviceCalls == {"init", "rotate_device", "renew", "renew_if_due", "load"}
\* What writes into a directory with or without agent_id, and every reader.
LockCalls == {"init", "save", "rotate_device", "load", "load_verified", "load_device"}
=============================================================================

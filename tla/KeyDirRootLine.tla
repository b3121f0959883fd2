--------------------------- MODULE KeyDirRootLine ---------------------------
(***************************************************************************)
(* The key directory implements RootLine: the line of the identity in the  *)
(* directory is its genesis and the roots installed after it.  A rotation  *)
(* joins the line when rotate_root writes the root file, its last write;   *)
(* until then it is pending and may still be replaced.                     *)
(***************************************************************************)
EXTENDS KeyDir

\* The roots of an identity's files, genesis first, without a pending one.
RootsOf(d) == <<d.id>> \o [i \in 1..Len(Unpended(d)) |-> Unpended(d)[i].new]

\* A directory that is not committed holds no identity.
OwnerLine == [id \in Keys |-> IF Committed /\ disk.id = id THEN RootsOf(disk) ELSE <<>>]

Promise == INSTANCE RootLine WITH Ids <- Keys, Roots <- Keys, line <- OwnerLine

\* Whatever crashes, fails and is retried, the roots an identity has installed
\* only grow at their end.
ImplementsRootLine == Promise!Spec
=============================================================================

------------------------------ MODULE RootLine ------------------------------
(***************************************************************************)
(* What a root chain promises.  A principal is named by its genesis key;   *)
(* its line is the succession of its roots from that key.  A line only     *)
(* ever grows at its end: it is never rewritten, shortened or forked, and  *)
(* no root comes back.  Receiver and KeyDir are each shown to implement    *)
(* this specification.                                                     *)
(***************************************************************************)
EXTENDS Naturals, Sequences, SequencesExt

CONSTANTS
    Ids,        \* genesis keys of the principals
    Roots       \* every key a line may hold

VARIABLE line   \* the line of each principal, empty while it is unknown

IsLine(id, l) == /\ l \in Seq(Roots)
                 /\ l # <<>> => l[1] = id
                 /\ \A i, j \in 1..Len(l) : l[i] = l[j] => i = j

\* A principal may be known, at first, by its genesis key.
Init == \A id \in Ids : line[id] \in {<<>>, <<id>>}

Extend == \A id \in Ids : IsLine(id, line'[id]) /\ IsPrefix(line[id], line'[id])

Spec == Init /\ [][Extend]_line
=============================================================================

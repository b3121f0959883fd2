------------------------------ MODULE Publish -------------------------------
(***************************************************************************)
(* The key directory of an agent and a receiver of the registry that lists *)
(* it.  Each process publishes the IdentityKeys it holds: the authority    *)
(* lists the agent with the root and the rotations of that value, and the  *)
(* receiver runs check_registry's and check_successor's checks on the      *)
(* entry.  A value may be old by then, or have been loaded between the two *)
(* writes of rotate_root, and the entry may be removed and listed again.   *)
(***************************************************************************)
EXTENDS KeyDirRootLine

VARIABLE accepted   \* the receiver's AcceptedChains

\* The receiver's checks.  Its other state plays no part here.
R == INSTANCE Receiver
     WITH Authority <- MaxKeys + 1, Principals <- Keys, Successors <- {},
          None <- NoKey, MaxRotations <- 0,
          chain <- <<MaxKeys + 1>>, resolver <- NoKey, latest <- NoKey,
          todo <- {}, shown <- {}

\* The registry entry for a self-rooted agent holding these keys.
Entry(keys) == [kind |-> "agent", current |-> keys.root, rotations |-> keys.rotations]

Deliver(p) ==
    LET id == mem[p].id
        registry == [i \in {id} |-> Entry(mem[p])]
        entries == R!VerifiedEntries(registry)
    IN  /\ mem[p] # Blank
        /\ R!CheckEntry(id, registry[id])
        /\ R!CheckSuccessor(entries, accepted)
        /\ accepted' = R!Updated(entries, accepted)
        /\ UNCHANGED vars

PublishInit == Init /\ accepted = <<>>

PublishNext == \/ Next /\ accepted' = accepted
               \/ \E p \in Procs : Deliver(p)

PublishSpec == PublishInit /\ [][PublishNext]_<<vars, accepted>>

-----------------------------------------------------------------------------

\* A receiver never takes a root the owner has not installed for good, so no
\* crash, retry or late entry ever leaves it with a chain that forks from the
\* owner's and locks the owner out.
ReceiverFollowsOwner ==
    \A id \in DOMAIN accepted :
        /\ Committed /\ id = disk.id
        /\ Len(accepted[id].roots) <= Len(OwnerLine[id])
        /\ \A i \in 1..Len(accepted[id].roots) : accepted[id].roots[i] = OwnerLine[id][i]
=============================================================================

-------------------------- MODULE KeyDirInductive --------------------------
(***************************************************************************)
(* The inductive invariants behind the theorems of KeyDirProofs: IInv and  *)
(* what is added to it, for instances in which nobody calls save, and      *)
(* LockedInv, for all.  They are here, apart from the proofs, so that TLC  *)
(* can check them too.                                                     *)
(***************************************************************************)
EXTENDS KeyDir

NoSave == "save" \notin Calls

-----------------------------------------------------------------------------
(* The locks.                                                              *)

Writing(p) == pc[p] \in AgentFiles \/ (pc[p] = "return" /\ op[p] \notin Shared)
Reading(p) == \/ pc[p] \in {"read_keys", "read_lists"}
              \/ pc[p] = "return" /\ op[p] \in Shared

\* A writer is alone, readers share.
LockInv ==
    /\ \A p \in Procs : Writing(p) => holder = p
    /\ \A p \in Procs : Reading(p) => p \in readers
    /\ holder # NoProc => readers = {}

-----------------------------------------------------------------------------
(* The directory.                                                          *)

\* Nothing but the leftovers of an init exists before agent_id does.
FilesOK ==
    /\ Committed => files = AgentFiles
    /\ "device" \notin files => disk.device = NoKey
    /\ ~Committed => /\ disk.rotations = <<>>
                     /\ \A k \in Keys : left[k] = Never
                     /\ \A p \in Procs : mem[p] = Blank

\* Each root is signed by the one before it and is younger than all of them.
Chained(genesis, rotations) ==
    /\ \A i \in 1..Len(rotations) :
          /\ rotations[i].old = IF i = 1 THEN genesis ELSE rotations[i - 1].new
          /\ genesis < rotations[i].new
          /\ rotations[i].new <= made
    /\ \A i, j \in 1..Len(rotations) :
          i < j => rotations[i].new < rotations[j].new

ChainOK ==
    Committed => /\ disk.id <= made
                 /\ Chained(disk.id, disk.rotations)
                 /\ HeadOf(disk.id, Unpended(disk)) = disk.root

\* Every replaced device is listed as retired, not later than it was replaced.
Lists(history) == \A k \in Keys : left[k] # Never => history[k] <= left[k]

DevicesOK ==
    /\ disk.device <= made
    /\ Lists(disk.history)
    /\ \A k \in Keys : left[k] # Never =>
          k # disk.device /\ k <= made /\ left[k] <= now

DirInv == FilesOK /\ ChainOK /\ DevicesOK

-----------------------------------------------------------------------------
(* A process: what it is about to write.                                   *)

\* The operations that write each file.
Writers(f) == CASE f = "root"      -> {"init", "rotate_root"}
                [] f = "device"    -> {"init", "rotate_device"}
                [] f = "deleg"     -> {"init", "rotate_device", "renew", "renew_if_due"}
                [] f = "history"   -> {"init", "rotate_device"}
                [] f = "rotations" -> {"init", "rotate_root"}
                [] f = "id"        -> {"init"}

\* The files init has written when it is about to write f.
BeforeInInit(f) ==
    CASE f = "root"      -> {}
      [] f = "device"    -> {"root"}
      [] f = "deleg"     -> {"root", "device"}
      [] f = "history"   -> {"root", "device", "deleg"}
      [] f = "rotations" -> {"root", "device", "deleg", "history"}
      [] f = "id"        -> {"root", "device", "deleg", "history", "rotations"}

\* Where an operation can be, and on what kind of directory: init on one with
\* nothing but its own files, everything else on a committed one.
ProgressInv(p) ==
    /\ op[p] # "save"
    /\ op[p] = "none" <=> pc[p] = "idle"
    /\ pc[p] \in {"read_keys", "read_lists"} => op[p] \in Shared
    /\ pc[p] \in AgentFiles => op[p] \in Writers(pc[p])
    /\ pc[p] \in AgentFiles =>
          IF op[p] = "init" THEN files = BeforeInInit(pc[p]) ELSE Committed
    /\ pc[p] \in {"read_lists", "return"} => Committed
    /\ op[p] = "renew_if_due" => Committed

\* init writes an identity that agrees with itself.
InitInv(p) ==
    op[p] = "init" =>
        /\ buf[p].rotations = <<>>
        /\ \A k \in Keys : buf[p].history[k] = Never
        /\ buf[p].id = buf[p].root
        /\ buf[p].root <= made
        /\ buf[p].device <= made
        /\ buf[p].deleg.root = buf[p].root
        /\ buf[p].deleg.device = buf[p].device
        /\ pc[p] \in AgentFiles \ {"root"} => disk.root = buf[p].root
        /\ pc[p] \in AgentFiles \ {"root", "device"} => disk.device = buf[p].device

\* `rotations` is the chain of the directory with one rotation more, from the
\* root on disk to `root`.
Extends(rotations, root) ==
    /\ Chained(disk.id, rotations)
    /\ rotations # <<>>
    /\ rotations[Len(rotations)].old = disk.root
    /\ rotations[Len(rotations)].new = root

RotateRootInv(p) ==
    op[p] = "rotate_root" =>
        /\ pc[p] \in {"rotations", "root"} => Extends(buf[p].rotations, buf[p].root)
        /\ pc[p] = "root" => disk.rotations = buf[p].rotations

RotateDeviceInv(p) ==
    op[p] = "rotate_device" =>
        /\ pc[p] \in {"history", "device"} =>
              /\ Lists(buf[p].history)
              /\ disk.device \in Keys => buf[p].history[disk.device] <= now
              /\ disk.device < buf[p].device /\ buf[p].device <= made
              /\ \A k \in Keys : left[k] # Never => k < buf[p].device
              /\ buf[p].deleg.root = disk.root
              /\ buf[p].deleg.device = buf[p].device
        /\ pc[p] = "device" => disk.history = buf[p].history

\* The delegation about to be written names what is on disk.
DelegationInv(p) ==
    /\ at[p] <= now
    /\ pc[p] = "deleg" => /\ buf[p].deleg.root = disk.root
                          /\ buf[p].deleg.device = disk.device
    /\ op[p] = "renew_if_due" => /\ buf[p].deleg.root = buf[p].root
                                 /\ buf[p].deleg.device = buf[p].device

ProcInv(p) == /\ ProgressInv(p) /\ InitInv(p) /\ RotateRootInv(p)
              /\ RotateDeviceInv(p) /\ DelegationInv(p)

-----------------------------------------------------------------------------

\* The code's promises hold because one lock holder writes at a time, and
\* because what it is about to write was computed from what is on disk.
IInv == TypeOK /\ LockInv /\ DirInv /\ \A p \in Procs : ProcInv(p)

-----------------------------------------------------------------------------
(* The roots that are handed out.                                          *)

\* The identity of d is the directory's, and its roots, without a pending
\* rotation, are the first of the directory's roots.
Behind(d) ==
    /\ Committed
    /\ d.id = disk.id
    /\ Len(Unpended(d)) <= Len(Unpended(disk))
    /\ \A i \in 1..Len(Unpended(d)) : d.rotations[i] = disk.rotations[i]

\* What a process holds, or is about to hand back, is behind the directory;
\* and what rotate_root is about to write only replaces a pending rotation.
HandedOutInv(p) ==
    /\ mem[p] # Blank => Behind(mem[p])
    /\ op[p] = "renew_if_due" => Behind(buf[p])
    /\ op[p] = "init" => buf[p].id \in Keys
    /\ op[p] = "init" /\ pc[p] = "return" => Behind(buf[p])
    /\ op[p] = "rotate_root" /\ pc[p] = "rotations" =>
          buf[p].rotations = Append(Unpended(disk), [old |-> disk.root, new |-> buf[p].root])

HeldInv == /\ Committed => disk.id \in Keys
           /\ \A p \in Procs : HandedOutInv(p)

-----------------------------------------------------------------------------
(* What a reader without a lock relies on: a root that is installed was    *)
(* generated before, a delegation is never signed by a root that is yet to *)
(* be installed, init leaves its delegation alone, and a retirement date   *)
(* never moves to a later time.                                            *)

SignedInv ==
    /\ disk.root <= made
    /\ Committed => disk.deleg.root <= disk.root
    /\ \A p \in Procs :
          /\ op[p] = "init" /\ pc[p] \in {"history", "rotations", "id"} =>
                disk.deleg = buf[p].deleg
          /\ op[p] = "rotate_device" /\ pc[p] = "history" =>
                \A k \in Keys : buf[p].history[k] <= disk.history[k]

-----------------------------------------------------------------------------
(* With save among the calls.  save puts a value of any age and origin over *)
(* whatever is there, so nothing above about chains and devices is left.  *)
(* What is left is what the lock alone gives: a directory with agent_id is *)
(* complete, and a call that holds a lock has on disk what it has read,    *)
(* but for the files it has not written yet.                               *)

MarkerInv == Committed => files = AgentFiles

\* The calls that replace files of a directory they found complete.
OnCommitted == {"renew", "rotate_device", "rotate_root"}

\* Where a call can be, and what is there when it writes: init on a directory
\* with nothing but its own files, save on one with at least those.
StageInv(p) ==
    /\ op[p] = "none" <=> pc[p] = "idle"
    /\ pc[p] \in {"read_keys", "read_lists"} => op[p] \in Shared
    /\ pc[p] \in AgentFiles =>
          /\ op[p] \in Writers(pc[p]) \cup {"save"}
          /\ op[p] = "init" => files = BeforeInInit(pc[p])
          /\ op[p] = "save" => BeforeInInit(pc[p]) \subseteq files
          /\ op[p] \in OnCommitted => Committed

\* A load under way.
ReadInv(p) ==
    /\ pc[p] \in {"read_lists", "return"} /\ op[p] \in Shared =>
          /\ buf[p].device = disk.device
          /\ buf[p].deleg = disk.deleg
          /\ buf[p].id = disk.id
          /\ op[p] # "load_device" => buf[p].root = disk.root
    /\ pc[p] = "return" /\ op[p] \in {"load", "load_verified"} => buf[p] = disk

\* renew and rotate_device write their files in the order history, device,
\* delegation.
RepairInv(p) ==
    op[p] \in {"renew", "rotate_device"} /\ pc[p] \in AgentFiles \cup {"return"} =>
        /\ DelegationIsCurrent(buf[p])
        /\ buf[p].root = disk.root
        /\ buf[p].rotations = disk.rotations
        /\ buf[p].id = disk.id
        /\ pc[p] # "history" => buf[p].history = disk.history
        /\ pc[p] \notin {"history", "device"} => buf[p].device = disk.device
        /\ pc[p] = "return" => buf[p].deleg = disk.deleg

LockedInv == /\ TypeOK /\ LockInv /\ MarkerInv
             /\ \A p \in Procs : StageInv(p) /\ ReadInv(p) /\ RepairInv(p)
=============================================================================

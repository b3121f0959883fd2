------------------------------- MODULE KeyDir -------------------------------
(***************************************************************************)
(* The agent key directory of identity-keyfile: six files that several     *)
(* processes read and rewrite one at a time under an advisory lock, with   *)
(* a process dying, or a write failing, between any two of them.           *)
(*                                                                         *)
(* One writer is: start (arguments captured), lock, read everything and    *)
(* compute the new contents in memory, then one atomic rename per file in  *)
(* the order of the code, then return.  Keys are numbers handed out in the *)
(* order they are generated; a signature is the key number that made it.   *)
(* The lock is one lock: module CreateOrLoad models what happens to it as  *)
(* an inode.                                                               *)
(***************************************************************************)
EXTENDS Integers, Sequences, FiniteSets

CONSTANTS
    Procs,      \* processes using the directory
    NoProc,     \* "nobody": the holder of a free exclusive lock
    Calls,      \* the operations the processes of this instance call
    MaxKeys,    \* bound: how many keys are ever generated
    MaxTime,    \* bound: the last second of the clock
    Ttl,        \* lifetime of a delegation (0 < Ttl, the code caps it at 31 days)
    Margin      \* margin given to renew_if_due

\* The operations of the directory.  save overwrites without checking.
Ops == {"init", "save", "load", "load_verified", "load_device",
        "renew", "rotate_device", "rotate_root", "renew_if_due"}
Shared == {"load", "load_verified", "load_device"}

ASSUME ProcsAssumption == NoProc \notin Procs
ASSUME CallsAssumption == Calls \subseteq Ops
ASSUME BoundsAssumption == /\ MaxKeys \in Nat /\ MaxTime \in Nat
                           /\ Ttl \in Nat \ {0} /\ Margin \in Nat

NoKey == 0
Keys == 1..MaxKeys
Times == 0..MaxTime
Never == MaxTime + 1        \* the retirement time of a device that is not retired

VARIABLES
    disk,       \* contents of the six files
    files,      \* which of them exist
    holder,     \* the process holding the exclusive flock, or NoProc
    readers,    \* the processes holding the shared flock
    now,        \* the wall clock the callers read
    made,       \* how many keys have been generated
    pc,         \* where each process is; the name of a file: about to write it
    op,         \* the operation it runs
    at,         \* the `now` argument of that operation
    buf,        \* what it has read, or is writing
    mem,        \* the IdentityKeys value it holds (Blank: none)
    left        \* history variable: when a device key stopped being the device

vars == <<disk, files, holder, readers, now, made, pc, op, at, buf, mem, left>>
locals == <<pc, op, at, buf>>

-----------------------------------------------------------------------------
(* The files.                                                              *)

Delegations == [root : Nat, device : Nat, at : Nat]
Links == [old : Nat, new : Nat]

\* The six files of an agent directory.
AgentFiles == {"root", "device", "deleg", "history", "rotations", "id"}
Mandatory == {"root", "device", "deleg", "id"}

Contents == [root : Nat, device : Nat, deleg : Delegations,
             history : [Keys -> Nat], rotations : Seq(Links), id : Nat]

\* A missing history or rotations file reads as empty.
Blank == [root |-> NoKey, device |-> NoKey,
          deleg |-> [root |-> NoKey, device |-> NoKey, at |-> 0],
          history |-> [k \in Keys |-> Never], rotations |-> <<>>, id |-> NoKey]

\* Mutant: the window ends, instead of starts, at the time of the call.
DelegateBefore(root, device, t) == [root |-> root, device |-> device, at |-> t - Ttl]

\* delegate_device: `root` delegates `device` over [t, t + Ttl].
Delegate(root, device, t) == [root |-> root, device |-> device, at |-> t]

\* Mutant: a device retires when its last delegation would have ended.
RetireAtExpiry(history, device, t) == [history EXCEPT ![device] = t + Ttl]

\* retire: a device already listed keeps the earlier time.
Retire(history, device, t) ==
    [history EXCEPT ![device] = IF @ < t THEN @ ELSE t]

HeadOf(genesis, rotations) ==
    IF rotations = <<>> THEN genesis ELSE rotations[Len(rotations)].new

\* The last rotation was written by an attempt that never installed its root.
Pending(d) == /\ d.rotations # <<>>
              /\ d.rotations[Len(d.rotations)].old = d.root

\* The chain a new rotation extends: a pending entry is replaced.
Unpended(d) == IF Pending(d)
               THEN SubSeq(d.rotations, 1, Len(d.rotations) - 1)
               ELSE d.rotations

\* check_delegation: the delegation names the device's signing key.
Matches(d) == d.deleg.device = d.device

\* delegation_is_current
DelegationIsCurrent(d) == d.deleg.root = d.root /\ Matches(d)

\* rotation_roots: each rotation is signed by the root before it, and no
\* root comes twice.
IsChain(genesis, rotations) ==
    /\ \A i \in 1..Len(rotations) :
          rotations[i].old = IF i = 1 THEN genesis ELSE rotations[i - 1].new
    /\ \A i \in 1..Len(rotations) : rotations[i].new # genesis
    /\ \A i, j \in 1..Len(rotations) :
          i # j => rotations[i].new # rotations[j].new

\* verify_identity, for the one identity this directory ever holds.
Verified(d) == /\ IsChain(d.id, d.rotations)
               /\ HeadOf(d.id, d.rotations) = d.root
               /\ DelegationIsCurrent(d)

\* device_keys_at
DeviceKeysAt(d, t) ==
    {d.device} \cup {k \in Keys : d.history[k] # Never /\ t <= d.history[k]}

\* renewal_due
Due(deleg, t) == deleg.at + Ttl - t <= Margin

-----------------------------------------------------------------------------
(* Starting a call.                                                        *)

Begin(p, o, b) ==
    /\ o \in Calls
    /\ pc[p] = "idle"
    /\ pc' = [pc EXCEPT ![p] = "wait"]
    /\ op' = [op EXCEPT ![p] = o]
    /\ at' = [at EXCEPT ![p] = now]
    /\ buf' = [buf EXCEPT ![p] = b]
    /\ UNCHANGED <<disk, files, holder, readers, now, mem, left>>

\* A new identity: its root delegates its device, and it has no past.
NewIdentity(root, device, t) ==
    [Blank EXCEPT !.root = root, !.device = device,
                  !.deleg = Delegate(root, device, t), !.id = root]

\* init generates its root and device, and signs, before it takes the lock.
StartInit(p) ==
    LET root == made + 1
        device == made + 2
    IN  /\ device \in Keys
        /\ made' = device
        /\ Begin(p, "init", NewIdentity(root, device, now))

\* init in another directory, which gives p a value that this directory knows
\* nothing of.  Only save can bring such a value here.
InitElsewhere(p) ==
    LET root == made + 1
        device == made + 2
    IN  /\ "save" \in Calls
        /\ pc[p] = "idle"
        /\ device \in Keys
        /\ made' = device
        /\ mem' = [mem EXCEPT ![p] = NewIdentity(root, device, now)]
        /\ UNCHANGED <<disk, files, holder, readers, now, locals, left>>

\* load, load_verified, renew and the rotations only take their arguments.
Start(p) ==
    /\ \E o \in Ops \ {"init", "save", "renew_if_due"} : Begin(p, o, Blank)
    /\ made' = made

\* save writes the value the process holds, whatever its age and wherever it is
\* from, into a directory that may be new, half made or another agent's.
StartSave(p) ==
    /\ mem[p] # Blank
    /\ Begin(p, "save", mem[p])
    /\ made' = made

\* renew_if_due decides and signs from memory, before it takes the lock.
StartRenewIfDue(p) ==
    /\ mem[p] # Blank
    /\ Due(mem[p].deleg, now)
    /\ Begin(p, "renew_if_due",
             [mem[p] EXCEPT !.deleg = Delegate(mem[p].root, mem[p].device, now)])
    /\ made' = made

\* renew_if_due with no directory: only the value in memory changes.
RenewInMemory(p) ==
    /\ "renew_if_due" \in Calls
    /\ pc[p] = "idle"
    /\ mem[p] # Blank
    /\ Due(mem[p].deleg, now)
    /\ mem' = [mem EXCEPT ![p].deleg = Delegate(mem[p].root, mem[p].device, now)]
    /\ UNCHANGED <<disk, files, holder, readers, now, made, locals, left>>

-----------------------------------------------------------------------------
(* Ending a call: the lock is released when its file is dropped.           *)

\* Mutant: the lock file outlives the call.
Leak(p) == /\ holder' = holder
           /\ readers' = readers \ {p}

Unlock(p) == /\ holder' = IF holder = p THEN NoProc ELSE holder
             /\ readers' = readers \ {p}

End(p) ==
    /\ Unlock(p)
    /\ pc' = [pc EXCEPT ![p] = "idle"]
    /\ op' = [op EXCEPT ![p] = "none"]
    /\ at' = [at EXCEPT ![p] = 0]
    /\ buf' = [buf EXCEPT ![p] = Blank]
    /\ UNCHANGED <<disk, files, now, left>>

\* The call returns an error; a value the caller holds stays as it was.
Refuse(p) == End(p) /\ UNCHANGED <<made, mem>>

-----------------------------------------------------------------------------
(* Taking the exclusive lock and computing what to write.                  *)

ExclusiveFree == holder = NoProc /\ readers = {}

\* p holds the lock, will write `b`, and writes file `first` first.
Lock(p, first, b) ==
    /\ holder' = p
    /\ pc' = [pc EXCEPT ![p] = first]
    /\ buf' = [buf EXCEPT ![p] = b]
    /\ UNCHANGED <<disk, files, readers, now, op, at, mem, left>>

\* load_files: history and rotations may be missing, the others may not.
Loadable == Mandatory \subseteq files

LockInit(p) ==
    /\ op[p] = "init"
    /\ \/ files # {} /\ Refuse(p)                       \* AlreadyInitialised
       \/ files = {} /\ Lock(p, "root", buf[p]) /\ made' = made

LockSave(p) ==
    /\ op[p] = "save"
    /\ Lock(p, "root", buf[p])
    /\ made' = made

\* Mutant: renew re-signs for the device the old delegation names.
LockRenewSameDevice(p) ==
    /\ op[p] = "renew"
    /\ Loadable
    /\ Lock(p, "deleg",
            [disk EXCEPT !.deleg = Delegate(disk.root, disk.deleg.device, at[p])])
    /\ made' = made

LockRenew(p) ==
    /\ op[p] = "renew"
    /\ \/ ~Loadable /\ Refuse(p)
       \/ /\ Loadable
          /\ Lock(p, "deleg",
                  [disk EXCEPT !.deleg = Delegate(disk.root, disk.device, at[p])])
          /\ made' = made

LockRotateDevice(p) ==
    LET device == made + 1
    IN  /\ op[p] = "rotate_device"
        /\ \/ ~Loadable /\ Refuse(p)
           \/ /\ Loadable
              /\ device \in Keys
              /\ made' = device
              /\ Lock(p, "history",
                      [disk EXCEPT !.history = Retire(@, disk.device, at[p]),
                                   !.device = device,
                                   !.deleg = Delegate(disk.root, device, at[p])])

\* Mutants: rotate_root extends the chain past a pending rotation, or drops
\* the last rotation whether it is pending or not.
RotateRootTo(p, rotations) ==
    LET root == made + 1
    IN  /\ op[p] = "rotate_root"
        /\ Loadable /\ Matches(disk)
        /\ root \in Keys
        /\ made' = root
        /\ Lock(p, "rotations",
                [disk EXCEPT !.rotations = Append(rotations, [old |-> disk.root, new |-> root]),
                             !.root = root])
LockRotateRootForking(p) == RotateRootTo(p, disk.rotations)
LockRotateRootPopping(p) ==
    RotateRootTo(p, SubSeq(disk.rotations, 1, Len(disk.rotations) - 1))

LockRotateRoot(p) ==
    LET root == made + 1
    IN  /\ op[p] = "rotate_root"
        /\ \/ ~(Loadable /\ Matches(disk)) /\ Refuse(p)
           \/ /\ Loadable /\ Matches(disk)
              /\ root \in Keys
              /\ made' = root
              /\ Lock(p, "rotations",
                      [disk EXCEPT !.rotations = Append(Unpended(disk),
                                       [old |-> disk.root, new |-> root]),
                                   !.root = root])

\* Mutant: renew_if_due writes whatever it signed.
LockRenewIfDueUnchecked(p) ==
    /\ op[p] = "renew_if_due"
    /\ Lock(p, "deleg", buf[p])
    /\ made' = made

\* Only the root and device on disk are compared with memory.
LockRenewIfDue(p) ==
    LET same == /\ {"root", "device"} \subseteq files
                /\ disk.root = buf[p].root
                /\ disk.device = buf[p].device
    IN  /\ op[p] = "renew_if_due"
        /\ \/ ~same /\ Refuse(p)                        \* DelegationMismatch
           \/ same /\ Lock(p, "deleg", buf[p]) /\ made' = made

LockExclusive(p) ==
    /\ pc[p] = "wait"
    /\ ExclusiveFree
    /\ \/ LockInit(p) \/ LockSave(p) \/ LockRenew(p)
       \/ LockRotateDevice(p) \/ LockRotateRoot(p) \/ LockRenewIfDue(p)

-----------------------------------------------------------------------------
(* Writing, one atomic rename per step, in the order of the code.          *)

\* Mutant: agent_id is written before the lists.
NextFileEarlyId(o, f) ==
    CASE f = "root"      -> IF o = "rotate_root" THEN "return" ELSE "device"
      [] f = "device"    -> "deleg"
      [] f = "deleg"     -> IF o \in {"init", "save"} THEN "id" ELSE "return"
      [] f = "id"        -> "history"
      [] f = "history"   -> IF o = "rotate_device" THEN "device" ELSE "rotations"
      [] f = "rotations" -> IF o = "rotate_root" THEN "root" ELSE "return"

NextFile(o, f) ==
    CASE f = "root"      -> IF o = "rotate_root" THEN "return" ELSE "device"
      [] f = "device"    -> "deleg"
      [] f = "deleg"     -> IF o \in {"init", "save"} THEN "history" ELSE "return"
      [] f = "history"   -> IF o = "rotate_device" THEN "device" ELSE "rotations"
      [] f = "rotations" -> IF o = "rotate_root" THEN "root" ELSE "id"
      [] f = "id"        -> "return"

Wrote(p, f) ==
    /\ pc[p] = f
    /\ files' = files \cup {f}
    /\ pc' = [pc EXCEPT ![p] = NextFile(op[p], f)]
    /\ UNCHANGED <<holder, readers, now, made, op, at, buf, mem>>

WriteRoot(p) == /\ Wrote(p, "root")
                /\ disk' = [disk EXCEPT !.root = buf[p].root]
                /\ left' = left

WriteDevice(p) ==
    /\ Wrote(p, "device")
    /\ disk' = [disk EXCEPT !.device = buf[p].device]
    /\ left' = IF disk.device \in Keys \ {buf[p].device}
               THEN [left EXCEPT ![disk.device] = now] ELSE left

WriteDelegation(p) == /\ Wrote(p, "deleg")
                      /\ disk' = [disk EXCEPT !.deleg = buf[p].deleg]
                      /\ left' = left

WriteHistory(p) == /\ Wrote(p, "history")
                   /\ disk' = [disk EXCEPT !.history = buf[p].history]
                   /\ left' = left

WriteRotations(p) == /\ Wrote(p, "rotations")
                     /\ disk' = [disk EXCEPT !.rotations = buf[p].rotations]
                     /\ left' = left

WritePrincipalId(p) == /\ Wrote(p, "id")
                       /\ disk' = [disk EXCEPT !.id = buf[p].id]
                       /\ left' = left

Write(p) == \/ WriteRoot(p) \/ WriteDevice(p) \/ WriteDelegation(p)
            \/ WriteHistory(p) \/ WriteRotations(p) \/ WritePrincipalId(p)

-----------------------------------------------------------------------------
(* Reading under the shared lock.  The file reads are grouped in two       *)
(* steps, enough for a reader to be torn if the lock did not hold writers. *)

\* Mutant: a load does not wait for a writer.
LockSharedAnyway(p) ==
    /\ pc[p] = "wait"
    /\ op[p] \in Shared
    /\ readers' = readers \cup {p}
    /\ pc' = [pc EXCEPT ![p] = "read_keys"]
    /\ UNCHANGED <<disk, files, holder, now, made, op, at, buf, mem, left>>

LockShared(p) ==
    /\ pc[p] = "wait"
    /\ op[p] \in Shared
    /\ holder = NoProc
    /\ readers' = readers \cup {p}
    /\ pc' = [pc EXCEPT ![p] = "read_keys"]
    /\ UNCHANGED <<disk, files, holder, now, made, op, at, buf, mem, left>>

\* DeviceKeys::load never looks at the root or rotations files.
ReadKeys(p) ==
    LET wanted == IF op[p] = "load_device" THEN Mandatory \ {"root"} ELSE Mandatory
    IN  /\ pc[p] = "read_keys"
        /\ \/ ~(wanted \subseteq files) /\ Refuse(p)    \* Missing
           \/ /\ wanted \subseteq files
              /\ buf' = [buf EXCEPT ![p] = [Blank EXCEPT
                            !.root = IF "root" \in wanted THEN disk.root ELSE NoKey,
                            !.device = disk.device,
                            !.deleg = disk.deleg,
                            !.id = disk.id]]
              /\ pc' = [pc EXCEPT ![p] = "read_lists"]
              /\ UNCHANGED <<disk, files, holder, readers, now, made, op, at, mem, left>>

ReadLists(p) ==
    /\ pc[p] = "read_lists"
    /\ buf' = [buf EXCEPT ![p].history = disk.history,
                          ![p].rotations = IF op[p] = "load_device"
                                           THEN <<>> ELSE disk.rotations]
    /\ pc' = [pc EXCEPT ![p] = "return"]
    /\ UNCHANGED <<disk, files, holder, readers, now, made, op, at, mem, left>>

-----------------------------------------------------------------------------

\* What the caller holds after the call: init, the loads and the renewals
\* hand back IdentityKeys; a load that fails its check hands back nothing;
\* rotate_root, save and DeviceKeys::load leave an older value in place.
Returned(p) ==
    IF \/ op[p] \in {"init", "renew", "rotate_device", "renew_if_due"}
       \/ op[p] = "load" /\ Matches(buf[p])
       \/ op[p] = "load_verified" /\ Verified(buf[p])
    THEN buf[p] ELSE mem[p]

Return(p) ==
    /\ pc[p] = "return"
    /\ mem' = [mem EXCEPT ![p] = Returned(p)]
    /\ End(p)
    /\ made' = made

\* An I/O error: before a rename (nothing written), or in the fsync after it
\* (written, but reported as an error).
IoError(p) == pc[p] # "idle" /\ Refuse(p)

\* The process dies: the kernel drops its lock, its memory is gone.
Crash(p) == /\ pc[p] # "idle" \/ mem[p] # Blank
            /\ End(p)
            /\ mem' = [mem EXCEPT ![p] = Blank]
            /\ made' = made

\* The documented way out of a directory that has no agent_id: with nobody
\* using it, remove it.
RemoveStuck ==
    /\ files # {} /\ "id" \notin files
    /\ \A p \in Procs : pc[p] = "idle"
    /\ disk' = Blank
    /\ files' = {}
    /\ UNCHANGED <<holder, readers, now, made, locals, mem, left>>

Tick == /\ now < MaxTime
        /\ now' = now + 1
        /\ UNCHANGED <<disk, files, holder, readers, made, locals, mem, left>>

-----------------------------------------------------------------------------

Init ==
    /\ disk = Blank
    /\ files = {}
    /\ holder = NoProc
    /\ readers = {}
    /\ now = 0
    /\ made = 0
    /\ pc = [p \in Procs |-> "idle"]
    /\ op = [p \in Procs |-> "none"]
    /\ at = [p \in Procs |-> 0]
    /\ buf = [p \in Procs |-> Blank]
    /\ mem = [p \in Procs |-> Blank]
    /\ left = [k \in Keys |-> Never]

\* A step a running process takes by itself once it has its lock.
Run(p) == Write(p) \/ ReadKeys(p) \/ ReadLists(p) \/ Return(p)

Step(p) ==
    \/ StartInit(p) \/ Start(p) \/ StartSave(p) \/ StartRenewIfDue(p)
    \/ InitElsewhere(p) \/ RenewInMemory(p)
    \/ LockExclusive(p) \/ LockShared(p)
    \/ Run(p)
    \/ IoError(p) \/ Crash(p)

Next == (\E p \in Procs : Step(p)) \/ RemoveStuck \/ Tick

Spec == Init /\ [][Next]_vars

\* A process that holds its lock keeps running until it returns, fails or
\* dies; nothing makes a process call anything, and flock promises no order
\* among the waiting.
FairSpec == Spec /\ \A p \in Procs : WF_vars(Run(p))

-----------------------------------------------------------------------------
(* Properties.                                                             *)

\* agent_id is the commit marker.
Committed == "id" \in files

\* Every variable has its type, and the clock and key bounds are respected.
TypeOK ==
    /\ disk \in Contents
    /\ files \subseteq AgentFiles
    /\ holder \in Procs \cup {NoProc}
    /\ readers \subseteq Procs
    /\ now \in Times
    /\ made \in 0..MaxKeys
    /\ pc \in [Procs -> AgentFiles \cup {"idle", "wait", "read_keys", "read_lists", "return"}]
    /\ op \in [Procs -> Ops \cup {"none"}]
    /\ at \in [Procs -> Times]
    /\ buf \in [Procs -> Contents]
    /\ mem \in [Procs -> Contents]
    /\ left \in [Keys -> Nat]

\* init and save write agent_id last, so a directory that has agent_id has every
\* other file: wherever a crash or an I/O error falls, whatever init or save
\* comes second, and also when save goes over what another call left half made.
CommitMarker == Committed => files = AgentFiles

\* Whatever crashes, fails and is retried, the rotations on disk are a chain
\* of distinct roots from the genesis in agent_id to the root on disk, with at
\* most one rotation too many: the pending one of an unfinished rotate_root.
ChainReachesRoot ==
    Committed =>
        /\ IsChain(disk.id, disk.rotations)
        /\ HeadOf(disk.id, Unpended(disk)) = disk.root

\* A device key that was ever replaced is in the history (it is never lost,
\* whichever write of rotate_device a crash falls before), and from the second
\* after its replacement on device_keys_at no longer returns it.
RetiredKeysFailClosed ==
    \A k \in Keys : left[k] # Never =>
        /\ k \in DeviceKeysAt(disk, 0)
        /\ \A t \in Times : t > left[k] => k \notin DeviceKeysAt(disk, t)

\* Whoever writes delegation.json, it names the root and the device on disk at
\* that moment: a value in memory that another process has rotated under
\* never puts an old root or device back.
DelegationWritesAreCurrent ==
    [][disk'.deleg # disk.deleg => DelegationIsCurrent(disk') \/ disk' = Blank]_vars

\* renew repairs every crash state: when it or rotate_device returns, the
\* delegation on disk is current and the value returned is what is on disk.
RenewRepairs ==
    \A p \in Procs :
        pc[p] = "return" /\ op[p] \in {"renew", "rotate_device"} =>
            DelegationIsCurrent(disk) /\ buf[p] = disk

\* A load reads one state of the directory: while it runs, what it has read so
\* far is what is on disk.
SnapshotReads ==
    \A p \in Procs :
        /\ pc[p] \in {"read_lists", "return"} /\ op[p] \in Shared =>
             /\ buf[p].device = disk.device
             /\ buf[p].deleg = disk.deleg
             /\ buf[p].id = disk.id
        /\ pc[p] = "return" /\ op[p] \in {"load", "load_verified"} => buf[p] = disk

\* A value held in memory only ever lags behind the directory: its identity
\* is the one on disk, and its roots, without a pending rotation, are the
\* first roots of the directory's chain, so publishing them never forks it.
HeldRootsArePrefix ==
    \A p \in Procs : mem[p] # Blank =>
        /\ Committed
        /\ mem[p].id = disk.id
        /\ Len(Unpended(mem[p])) <= Len(Unpended(disk))
        /\ \A i \in 1..Len(Unpended(mem[p])) :
              mem[p].rotations[i] = disk.rotations[i]

\* A process that is running lets go of the exclusive lock.
LockReleased == \A p \in Procs : holder = p ~> holder # p
=============================================================================

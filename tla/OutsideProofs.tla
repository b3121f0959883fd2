--------------------------- MODULE OutsideProofs ---------------------------
(***************************************************************************)
(* Theorems about what others see of a directory of KeyDir, for any number *)
(* of processes, keys and seconds.                                         *)
(*                                                                         *)
(* First UnlockedReads: what a reader without the lock gets when nobody    *)
(* calls save.  Then KeyDirRootLine and Publish: what the directory of a   *)
(* self-rooted agent, and a receiver of the registry that lists it, make   *)
(* of the agent's roots.                                                   *)
(***************************************************************************)
EXTENDS UnlockedReads, Publish, KeyDirProofs

-----------------------------------------------------------------------------
(* What one step does to the files of a committed directory.               *)

Same(fields) == \A f \in fields : disk'[f] = disk[f]

\* rotate_root's first write: the chain has one rotation too many after it.
RotationsWritten == Same(AgentFiles \ {"rotations"}) /\ Pending(disk')

\* Its second: the root is younger than the one it replaces.
RootWritten == Same(AgentFiles \ {"root"}) /\ disk.root < disk'.root

DeviceWritten == Same(AgentFiles \ {"device"}) /\ disk.device < disk'.device

DelegationWritten == /\ Same(AgentFiles \ {"deleg"})
                     /\ disk'.deleg.root = disk.root
                     /\ disk'.deleg.device = disk.device

HistoryWritten == /\ Same(AgentFiles \ {"history"})
                  /\ \A k \in Keys : disk'.history[k] <= disk.history[k]

\* The last rotation of the chain a rotate_root is writing is a proper one.
LEMMA LastRotationIsYounger ==
  ASSUME NEW d \in Contents, NEW root, Chained(d.id, d.rotations), d.rotations # <<>>,
         d.rotations[Len(d.rotations)].new = root
  PROVE  d.rotations[Len(d.rotations)].old < root
  <1> DEFINE ds == d.rotations
  <1>1. Len(ds) \in Nat \ {0} /\ ds \in Seq(Links) /\ d.id \in Nat
    BY UnpendedMeans, EmptySeq DEF Contents
  <1>2. ds[Len(ds)].new \in Nat /\ ds[Len(ds)].old \in Nat
    BY <1>1, LinkType
  <1>3. CASE Len(ds) = 1
    BY <1>1, <1>2, <1>3 DEF Chained
  <1>4. CASE Len(ds) # 1
    <2>1. Len(ds) - 1 \in 1..Len(ds) /\ Len(ds) \in 1..Len(ds) /\ Len(ds) - 1 < Len(ds)
      <3>1. \A n \in Nat \ {0} : n # 1 => n - 1 \in 1..n /\ n \in 1..n /\ n - 1 < n
        OBVIOUS
      <3>2. QED
        BY <1>1, <1>4, <3>1
    <2>2. ds[Len(ds) - 1].new \in Nat
      BY <1>1, <2>1, LinkType
    <2>3. ds[Len(ds)].old = ds[Len(ds) - 1].new /\ ds[Len(ds) - 1].new < ds[Len(ds)].new
      BY <1>4, <2>1 DEF Chained
    <2>4. QED
      BY <1>2, <2>2, <2>3
  <1>5. QED
    BY <1>3, <1>4

LEMMA CommittedStep ==
  ASSUME IInv, IInv', HeldInv, SignedInv, [Next]_vars, Committed
  PROVE  /\ Committed' /\ files' = files
         /\ \/ disk' = disk
            \/ RotationsWritten \/ RootWritten \/ DeviceWritten
            \/ DelegationWritten \/ HistoryWritten
  <1>a. TypeOK /\ TypeOK' /\ disk \in Contents /\ disk' \in Contents /\ LockInv
    BY DEF IInv, TypeOK
  <1>b. Committed'
    BY LineGrows DEF LineKept
  <1>c. files' = files
    BY <1>b DEF IInv, DirInv, FilesOK
  <1>1. CASE UNCHANGED vars \/ Tick
    BY <1>1, <1>b, <1>c DEF vars, Tick
  <1>2. CASE RemoveStuck
    BY <1>2 DEF RemoveStuck, Committed
  <1>3. ASSUME NEW p \in Procs, Step(p), ~Write(p) PROVE disk' = disk
    BY <1>3, OnlyWrites
  <1>4. ASSUME NEW p \in Procs, Write(p)
        PROVE  \/ RotationsWritten \/ RootWritten \/ DeviceWritten
               \/ DelegationWritten \/ HistoryWritten
    <2>a. /\ ProgressInv(p) /\ RotateRootInv(p) /\ RotateDeviceInv(p) /\ DelegationInv(p)
          /\ HandedOutInv(p) /\ buf[p] \in Contents
          /\ buf' = buf /\ op' = op /\ pc[p] \in AgentFiles
      BY <1>4, <1>a DEF IInv, ProcInv, HeldInv, TypeOK, Write, WriteRoot, WriteDevice,
           WriteDelegation, WriteHistory, WriteRotations, WritePrincipalId, Wrote, AgentFiles
    <2>b. op[p] \in Writers(pc[p]) \ {"init"}
      <3>1. ASSUME op[p] = "init" PROVE FALSE
        <4>1. files = BeforeInInit(pc[p])
          BY <2>a, <3>1 DEF ProgressInv
        <4>2. "id" \notin files
          BY <2>a, <4>1, BeforeInInitIs DEF AgentFiles
        <4>3. QED
          BY <4>2 DEF Committed
      <3>2. QED
        BY <2>a, <3>1 DEF ProgressInv
    <2>1. CASE WritePrincipalId(p)
      BY <2>1, <2>b, WritersAre DEF WritePrincipalId, Wrote
    <2>2. CASE WriteDelegation(p)
      <3>1. disk' = [disk EXCEPT !.deleg = buf[p].deleg] /\ pc[p] = "deleg"
        BY <2>2 DEF WriteDelegation, Wrote
      <3>2. disk'.deleg = buf[p].deleg /\ Same(AgentFiles \ {"deleg"})
        BY <1>a, <3>1 DEF Contents, Same, AgentFiles
      <3>3. QED
        BY <2>a, <3>1, <3>2 DEF DelegationWritten, DelegationInv
    <2>3. CASE WriteDevice(p)
      <3>1. disk' = [disk EXCEPT !.device = buf[p].device] /\ pc[p] = "device"
        BY <2>3 DEF WriteDevice, Wrote
      <3>2. disk'.device = buf[p].device /\ Same(AgentFiles \ {"device"})
        BY <1>a, <3>1 DEF Contents, Same, AgentFiles
      <3>3. op[p] = "rotate_device"
        BY <2>b, <3>1, WritersAre
      <3>4. QED
        BY <2>a, <3>1, <3>2, <3>3 DEF DeviceWritten, RotateDeviceInv
    <2>4. CASE WriteHistory(p)
      <3>1. disk' = [disk EXCEPT !.history = buf[p].history] /\ pc[p] = "history"
        BY <2>4 DEF WriteHistory, Wrote
      <3>2. disk'.history = buf[p].history /\ Same(AgentFiles \ {"history"})
        BY <1>a, <3>1 DEF Contents, Same, AgentFiles
      <3>3. op[p] = "rotate_device"
        BY <2>b, <3>1, WritersAre
      <3>4. QED
        BY <3>1, <3>2, <3>3 DEF HistoryWritten, SignedInv
    <2>5. CASE WriteRotations(p)
      <3>1. disk' = [disk EXCEPT !.rotations = buf[p].rotations] /\ pc[p] = "rotations"
        BY <2>5 DEF WriteRotations, Wrote
      <3>2. disk'.rotations = buf[p].rotations /\ Same(AgentFiles \ {"rotations"})
        BY <1>a, <3>1 DEF Contents, Same, AgentFiles
      <3>3. op[p] = "rotate_root" /\ disk'.root = disk.root
        BY <2>b, <3>1, <3>2, WritersAre DEF Same, AgentFiles
      <3>4. Pending(disk')
        BY <2>a, <3>1, <3>2, <3>3 DEF RotateRootInv, Extends, Pending
      <3>5. QED
        BY <3>2, <3>4 DEF RotationsWritten
    <2>6. CASE WriteRoot(p)
      <3>1. disk' = [disk EXCEPT !.root = buf[p].root] /\ pc[p] = "root"
        BY <2>6 DEF WriteRoot, Wrote
      <3>2. disk'.root = buf[p].root /\ Same(AgentFiles \ {"root"})
        BY <1>a, <3>1 DEF Contents, Same, AgentFiles
      <3>3. Extends(disk.rotations, buf[p].root)
        BY <2>a, <2>b, <3>1, WritersAre DEF RotateRootInv
      <3>4. disk.root < buf[p].root
        BY <1>a, <3>3, LastRotationIsYounger DEF Extends
      <3>5. QED
        BY <3>2, <3>4 DEF RootWritten
    <2>7. QED
      BY <1>4, <2>1, <2>2, <2>3, <2>4, <2>5, <2>6 DEF Write
  <1>5. QED
    BY <1>1, <1>2, <1>3, <1>4, <1>b, <1>c DEF Next

-----------------------------------------------------------------------------
(* What one step does to the files before agent_id is there.               *)

\* A process's init writes its next file.
InitWrites(p) ==
  /\ op[p] = "init" /\ pc[p] \in AgentFiles
  /\ files = BeforeInInit(pc[p]) /\ files' = files \cup {pc[p]}
  /\ disk'[pc[p]] = buf[p][pc[p]] /\ Same(AgentFiles \ {pc[p]})
  /\ made' = made /\ op' = op /\ buf' = buf

\* Keys are generated in one order.
LEMMA KeysAreMade ==
  ASSUME IInv, IInv', [Next]_vars
  PROVE  /\ made <= made'
         /\ \A q \in Procs : op'[q] = "init" =>
               \/ op[q] = "init" /\ buf'[q] = buf[q]
               \/ made < buf'[q].root
  <1>a. TypeOK /\ TypeOK' /\ made \in Nat /\ made' \in Nat
    BY DEF IInv, TypeOK
  <1>1. CASE UNCHANGED vars \/ Tick \/ RemoveStuck
    BY <1>1, <1>a DEF vars, Tick, RemoveStuck, locals
  <1>2. ASSUME NEW p \in Procs, Step(p)
        PROVE  /\ made <= made'
               /\ op'[p] = "init" => \/ op[p] = "init" /\ buf'[p] = buf[p]
                                     \/ made < buf'[p].root
    <2>a. /\ op = [r \in Procs |-> op[r]] /\ buf = [r \in Procs |-> buf[r]]
          /\ pc = [r \in Procs |-> pc[r]]
      BY <1>a DEF TypeOK
    <2>1. CASE StartInit(p)
      <3>1. buf'[p] = NewIdentity(made + 1, made + 2, now)
        BY <2>a, <2>1 DEF StartInit, Begin
      <3>2. buf'[p].root = made + 1
        BY <3>1, BlankType DEF NewIdentity, Contents
      <3>3. QED
        BY <1>a, <2>1, <3>2 DEF StartInit
    <2>2. CASE Start(p) \/ StartSave(p) \/ StartRenewIfDue(p)
      BY <1>a, <2>a, <2>2 DEF Start, StartSave, StartRenewIfDue, Begin
    <2>3. CASE RenewInMemory(p) \/ InitElsewhere(p) \/ LockShared(p) \/ Write(p)
      BY <1>a, <2>a, <2>3 DEF RenewInMemory, InitElsewhere, locals, LockShared, Write, WriteRoot,
           WriteDevice, WriteDelegation, WriteHistory, WriteRotations, WritePrincipalId, Wrote
    <2>4. CASE Refuse(p) \/ Return(p) \/ IoError(p) \/ Crash(p)
      BY <1>a, <2>a, <2>4 DEF Return, IoError, Crash, Refuse, End
    <2>5. CASE LockExclusive(p) /\ ~Refuse(p)
      <3>1. made <= made'
        BY <1>a, <2>5 DEF LockExclusive, LockInit, LockSave, LockRenew, LockRotateDevice,
                          LockRotateRoot, LockRenewIfDue
      <3>2. op' = op
        BY <2>5 DEF LockExclusive, LockInit, LockSave, LockRenew, LockRotateDevice,
                    LockRotateRoot, LockRenewIfDue, Lock
      <3>3. op[p] = "init" => buf'[p] = buf[p]
        BY <2>a, <2>5 DEF LockExclusive, LockInit, LockSave, LockRenew, LockRotateDevice,
                          LockRotateRoot, LockRenewIfDue, Lock
      <3>4. QED
        BY <3>1, <3>2, <3>3
    <2>6. CASE (ReadKeys(p) \/ ReadLists(p)) /\ ~Refuse(p)
      <3>1. made' = made /\ op' = op /\ pc[p] \in {"read_keys", "read_lists"}
        BY <2>6 DEF ReadKeys, ReadLists
      <3>2. op[p] # "init"
        BY <3>1 DEF IInv, ProcInv, ProgressInv, Shared
      <3>3. QED
        BY <1>a, <3>1, <3>2
    <2>7. QED
      BY <1>2, <2>1, <2>2, <2>3, <2>4, <2>5, <2>6 DEF Step, Run
  <1>3. ASSUME NEW p \in Procs, Step(p), NEW q \in Procs, op'[q] = "init"
        PROVE  \/ op[q] = "init" /\ buf'[q] = buf[q]
               \/ made < buf'[q].root
    BY <1>2, <1>3, <1>a, OthersRest
  <1>4. QED
    BY <1>1, <1>2, <1>3 DEF Next

LEMMA UncommittedStep ==
  ASSUME IInv, IInv', [Next]_vars, ~Committed
  PROVE  \/ disk' = disk /\ files' = files
         \/ files' = {} /\ made' = made /\ \A q \in Procs : op'[q] = "none"
         \/ \E p \in Procs : InitWrites(p)
  <1>a. TypeOK /\ disk \in Contents
    BY DEF IInv, TypeOK
  <1>1. CASE UNCHANGED vars \/ Tick
    BY <1>1 DEF vars, Tick
  <1>2. CASE RemoveStuck
    BY <1>2 DEF RemoveStuck, IInv, ProcInv, ProgressInv, locals
  <1>3. ASSUME NEW p \in Procs, Step(p), ~Write(p) PROVE disk' = disk /\ files' = files
    BY <1>3, OnlyWrites
  <1>4. ASSUME NEW p \in Procs, Write(p) PROVE InitWrites(p)
    <2>1. /\ files' = files \cup {pc[p]} /\ made' = made /\ op' = op /\ buf' = buf
          /\ pc[p] \in AgentFiles
          /\ disk'[pc[p]] = buf[p][pc[p]] /\ Same(AgentFiles \ {pc[p]})
      BY <1>4, <1>a DEF Write, WriteRoot, WriteDevice, WriteDelegation, WriteHistory,
           WriteRotations, WritePrincipalId, Wrote, AgentFiles, Contents, Same
    <2>2. op[p] = "init" /\ files = BeforeInInit(pc[p])
      BY <2>1 DEF IInv, ProcInv, ProgressInv
    <2>3. QED
      BY <2>1, <2>2 DEF InitWrites
  <1>5. QED
    BY <1>1, <1>2, <1>3, <1>4 DEF Next

-----------------------------------------------------------------------------
(* The delegation on disk, and the retirement dates.                       *)

LEMMA SignedInit == Init => SignedInv
  BY DEF Init, SignedInv, Committed, Blank, NoKey

\* The clause of SignedInv about one process.
SignedBy(p) ==
  /\ op[p] = "init" /\ pc[p] \in {"history", "rotations", "id"} =>
        disk.deleg = buf[p].deleg
  /\ op[p] = "rotate_device" /\ pc[p] = "history" =>
        \A k \in Keys : buf[p].history[k] <= disk.history[k]

\* A retirement date is only ever brought forward.
LEMMA RetireIsEarlier ==
  ASSUME NEW history \in [Keys -> Nat], NEW device, NEW t \in Nat, NEW k \in Keys
  PROVE  Retire(history, device, t)[k] <= history[k]
  BY DEF Retire

LEMMA SignedByStepper ==
  ASSUME IInv, IInv', SignedInv, NEW p \in Procs, Step(p)
  PROVE  SignedBy(p)'
  <1>a. /\ TypeOK /\ TypeOK' /\ disk \in Contents /\ disk' \in Contents /\ buf[p] \in Contents
        /\ ProgressInv(p) /\ SignedBy(p)
    BY DEF IInv, ProcInv, TypeOK, SignedInv, SignedBy
  <1>1. CASE Write(p)
    <2>a. /\ pc[p] \in AgentFiles /\ pc'[p] = NextFile(op[p], pc[p])
          /\ op' = op /\ buf' = buf
          /\ disk'[pc[p]] = buf[p][pc[p]] /\ Same(AgentFiles \ {pc[p]})
      <3>1. PICK f \in AgentFiles : Wrote(p, f) /\ disk' = [disk EXCEPT ![f] = buf[p][f]]
        BY <1>1 DEF Write, WriteRoot, WriteDevice, WriteDelegation, WriteHistory,
             WriteRotations, WritePrincipalId, AgentFiles
      <3>2. disk'[f] = buf[p][f] /\ Same(AgentFiles \ {f})
        BY <1>a, <3>1 DEF AgentFiles, Contents, Same
      <3>3. pc[p] = f /\ pc'[p] = NextFile(op[p], f) /\ op' = op /\ buf' = buf
        BY <1>a, <3>1 DEF Wrote, TypeOK
      <3>4. QED
        BY <3>2, <3>3
    <2>b. op[p] \in Writers(pc[p])
      BY <1>a, <2>a DEF ProgressInv
    <2>1. ASSUME op[p] = "init", pc'[p] \in {"history", "rotations", "id"}
          PROVE  disk'.deleg = buf[p].deleg
      <3>1. pc[p] \in {"deleg", "history", "rotations"}
        BY <2>a, <2>1, NextFileIs DEF AgentFiles
      <3>2. CASE pc[p] = "deleg"
        BY <2>a, <3>2
      <3>3. CASE pc[p] # "deleg"
        BY <1>a, <2>a, <2>1, <3>1, <3>3 DEF SignedBy, Same, AgentFiles
      <3>4. QED
        BY <3>2, <3>3
    <2>2. ~(op[p] = "rotate_device" /\ pc'[p] = "history")
      BY <2>a, <2>b, NextFileIs, WritersAre DEF AgentFiles
    <2>3. QED
      BY <2>a, <2>1, <2>2 DEF SignedBy
  <1>2. CASE LockExclusive(p) /\ ~Refuse(p)
    <2>1. CASE LockRotateDevice(p)
      <3>1. /\ op'[p] = "rotate_device" /\ disk' = disk
            /\ buf'[p] = [disk EXCEPT !.history = Retire(@, disk.device, at[p]),
                                      !.device = made + 1,
                                      !.deleg = Delegate(disk.root, made + 1, at[p])]
        BY <1>2, <1>a, <2>1 DEF LockRotateDevice, Lock, TypeOK
      <3>2. buf'[p].history = Retire(disk.history, disk.device, at[p])
        BY <1>a, <3>1 DEF Contents
      <3>3. disk.history \in [Keys -> Nat] /\ at[p] \in Nat
        BY <1>a, BoundsAssumption DEF Contents, TypeOK, Times
      <3>4. QED
        BY <3>1, <3>2, <3>3, RetireIsEarlier DEF SignedBy
    <2>2. CASE ~LockRotateDevice(p)
      <3>1. /\ op'[p] = op[p] /\ op[p] # "rotate_device"
            /\ op[p] = "init" => pc'[p] = "root"
        BY <1>2, <1>a, <2>2 DEF LockExclusive, LockInit, LockSave, LockRenew,
             LockRotateRoot, LockRenewIfDue, Lock, TypeOK
      <3>2. QED
        BY <3>1 DEF SignedBy
    <2>3. QED
      BY <2>1, <2>2
  <1>3. CASE ~Write(p) /\ ~(LockExclusive(p) /\ ~Refuse(p))
    <2>1. pc'[p] \in {"idle", "wait", "read_keys", "read_lists", "return"}
      BY <1>3, <1>a DEF Step, Run, StartInit, Start, StartSave, StartRenewIfDue, Begin,
           RenewInMemory, InitElsewhere, locals, LockShared, ReadKeys, ReadLists, Return, IoError,
           Crash, Refuse, End, TypeOK
    <2>2. QED
      BY <2>1 DEF SignedBy
  <1>4. QED
    BY <1>1, <1>2, <1>3

LEMMA SignedNext ==
  ASSUME IInv, IInv', HeldInv, SignedInv, [Next]_vars
  PROVE  SignedInv'
  <1>a. /\ TypeOK /\ TypeOK' /\ LockInv /\ disk \in Contents /\ disk' \in Contents
    BY DEF IInv, TypeOK
  <1>1. ASSUME Committed' PROVE disk'.deleg.root <= disk'.root
    <2>1. CASE Committed
      <3>1. disk.deleg.root <= disk.root /\ disk.deleg.root \in Nat /\ disk.root \in Nat
            /\ disk'.root \in Nat
        BY <1>a, <2>1 DEF SignedInv, Contents, Delegations
      <3>2. \/ disk' = disk
            \/ RotationsWritten \/ RootWritten \/ DeviceWritten
            \/ DelegationWritten \/ HistoryWritten
        BY <2>1, CommittedStep
      <3>3. QED
        BY <3>1, <3>2 DEF RotationsWritten, RootWritten, DeviceWritten,
             DelegationWritten, HistoryWritten, Same, AgentFiles
    <2>2. CASE ~Committed
      <3>1. PICK p \in Procs : InitWrites(p)
        BY <1>1, <2>2, UncommittedStep DEF Committed
      <3>2. pc[p] = "id"
        BY <1>1, <2>2, <3>1 DEF InitWrites, Committed
      <3>3. disk'.deleg = disk.deleg /\ disk'.root = disk.root
        BY <3>1, <3>2 DEF InitWrites, Same, AgentFiles
      <3>4. disk.deleg = buf[p].deleg /\ disk.root = buf[p].root
            /\ buf[p].deleg.root = buf[p].root
        BY <3>1, <3>2 DEF InitWrites, SignedInv, IInv, ProcInv, InitInv, AgentFiles
      <3>5. disk.root \in Nat
        BY <1>a DEF Contents
      <3>6. QED
        BY <3>3, <3>4, <3>5
    <2>3. QED
      BY <2>1, <2>2
  <1>2. ASSUME NEW q \in Procs PROVE SignedBy(q)'
    <2>a. SignedBy(q)
      BY DEF SignedInv, SignedBy
    <2>1. CASE Step(q)
      BY <2>1, SignedByStepper
    <2>2. ASSUME NEW p \in Procs \ {q}, Step(p) PROVE SignedBy(q)'
      <3>1. pc'[q] = pc[q] /\ op'[q] = op[q] /\ buf'[q] = buf[q]
        BY <1>a, <2>2, OthersRest
      <3>2. Writing(q) => disk' = disk
        BY <1>a, <2>2, OnlyWrites, WriterIsAlone
      <3>3. QED
        BY <2>a, <3>1, <3>2 DEF SignedBy, Writing, AgentFiles
    <2>3. CASE RemoveStuck
      <3>1. pc'[q] = "idle"
        BY <2>3 DEF RemoveStuck, locals
      <3>2. QED
        BY <3>1 DEF SignedBy
    <2>4. CASE Tick \/ UNCHANGED vars
      BY <2>a, <2>4 DEF Tick, vars, locals, SignedBy
    <2>5. QED
      BY <2>1, <2>2, <2>3, <2>4 DEF Next
  <1>3. disk'.root <= made'
    <2>a. disk.root <= made /\ made <= made' /\ made \in Nat /\ made' \in Nat
          /\ disk.root \in Nat /\ disk'.root \in Nat
      BY <1>a, KeysAreMade DEF SignedInv, TypeOK, Contents
    <2>1. CASE disk'.root = disk.root
      BY <2>a, <2>1
    <2>2. ASSUME NEW p \in Procs, WriteRoot(p) PROVE disk'.root <= made'
      <3>1. pc[p] = "root" /\ disk'.root = buf[p].root /\ made' = made
        BY <1>a, <2>2 DEF WriteRoot, Wrote, Contents
      <3>2. ProgressInv(p) /\ InitInv(p) /\ RotateRootInv(p)
        BY DEF IInv, ProcInv
      <3>3. CASE op[p] = "init"
        BY <3>1, <3>2, <3>3 DEF InitInv
      <3>4. CASE op[p] = "rotate_root"
        <4>1. Extends(disk.rotations, buf[p].root)
          BY <3>1, <3>2, <3>4 DEF RotateRootInv
        <4>2. Len(disk.rotations) \in 1..Len(disk.rotations)
          BY <1>a, <4>1, UnpendedMeans, EmptySeq DEF Extends
        <4>3. QED
          BY <3>1, <4>1, <4>2 DEF Extends, Chained
      <3>5. QED
        BY <3>1, <3>2, <3>3, <3>4, WritersAre DEF ProgressInv, AgentFiles
    <2>3. CASE RemoveStuck
      BY <2>a, <2>3 DEF RemoveStuck, Blank, NoKey
    <2>4. ASSUME NEW p \in Procs, Step(p), ~WriteRoot(p) PROVE disk'.root = disk.root
      <3>1. CASE Write(p)
        BY <1>a, <2>4, <3>1 DEF Write, WriteDevice, WriteDelegation, WriteHistory,
             WriteRotations, WritePrincipalId, Contents
      <3>2. CASE ~Write(p)
        BY <2>4, <3>2, OnlyWrites
      <3>3. QED
        BY <3>1, <3>2
    <2>5. CASE Tick \/ UNCHANGED vars
      BY <2>a, <2>5 DEF Tick, vars
    <2>6. QED
      BY <2>1, <2>2, <2>3, <2>4, <2>5 DEF Next
  <1>4. QED
    BY <1>1, <1>2, <1>3 DEF SignedInv, SignedBy

LEMMA SignedInvariance == NoSave => (Spec => []SignedInv)
  <1>1. SUFFICES ASSUME NoSave PROVE Spec => []SignedInv
    OBVIOUS
  <1>2. (Spec => []IInv) /\ (Spec => []HeldInv)
    BY <1>1, Invariance, HeldInvariance
  <1>3. QED
    BY <1>2, SignedInit, SignedNext, PTL DEF Spec

-----------------------------------------------------------------------------
(* The files a reader has opened: the first ones of its list.              *)

LEMMA FilesAre ==
  /\ Len(FilesOf("read_principal")) = 3 /\ Len(FilesOf("load_verified")) = 6
  /\ FilesOf("read_principal")[1] = "id"
  /\ FilesOf("read_principal")[2] = "deleg"
  /\ FilesOf("read_principal")[3] = "rotations"
  /\ FilesOf("load_verified")[1] = "root"
  /\ FilesOf("load_verified")[2] = "device"
  /\ FilesOf("load_verified")[3] = "deleg"
  /\ FilesOf("load_verified")[4] = "id"
  /\ FilesOf("load_verified")[5] = "history"
  /\ FilesOf("load_verified")[6] = "rotations"
  /\ FilesOf("read_principal") \in Seq(AgentFiles)
  /\ FilesOf("load_verified") \in Seq(AgentFiles)
  BY DEF FilesOf, AgentFiles

LEMMA SuffixMeans ==
  ASSUME NEW S, NEW s \in Seq(S), NEW n \in 1..Len(s)
  PROVE  /\ Len(SubSeq(s, n, Len(s))) = Len(s) - n + 1
         /\ Head(SubSeq(s, n, Len(s))) = s[n]
         /\ n < Len(s) => Tail(SubSeq(s, n, Len(s))) = SubSeq(s, n + 1, Len(s))
  <1>1. Len(s) \in Nat
    OBVIOUS
  <1>2. SubSeq(s, n, Len(s)) = [i \in 1..(Len(s) - n + 1) |-> s[i + n - 1]]
    BY <1>1
  <1>3. SubSeq(s, n, Len(s)) \in Seq(S) /\ Len(SubSeq(s, n, Len(s))) = Len(s) - n + 1
    BY <1>1, SubSeqProperties
  <1>4. Head(SubSeq(s, n, Len(s))) = s[n]
    BY <1>1, <1>2, <1>3
  <1>5. ASSUME n < Len(s)
        PROVE  Tail(SubSeq(s, n, Len(s))) = SubSeq(s, n + 1, Len(s))
    <2>1. SubSeq(s, n + 1, Len(s)) = [i \in 1..(Len(s) - n) |-> s[i + n]]
      BY <1>1, <1>5
    <2>2. Tail(SubSeq(s, n, Len(s))) = [i \in 1..(Len(s) - n) |-> s[i + n]]
      BY <1>1, <1>2, <1>3, <1>5
    <2>3. QED
      BY <2>1, <2>2
  <1>6. QED
    BY <1>3, <1>4, <1>5

\* Before its n-th file.
At(n) ==
  /\ n \in 1..Len(FilesOf(call))
  /\ todo = SubSeq(FilesOf(call), n, Len(FilesOf(call)))
  /\ Len(todo) = Len(FilesOf(call)) - n + 1
  /\ Head(todo) = FilesOf(call)[n]
  /\ n < Len(FilesOf(call)) => Tail(todo) = SubSeq(FilesOf(call), n + 1, Len(FilesOf(call)))
  /\ Opened = {FilesOf(call)[i] : i \in 1..(n - 1)}

LEMMA SomewhereIn ==
  ASSUME call \in {"read_principal", "load_verified"},
         NEW n \in 1..Len(FilesOf(call)),
         todo = SubSeq(FilesOf(call), n, Len(FilesOf(call)))
  PROVE  At(n)
  <1>1. FilesOf(call) \in Seq(AgentFiles) /\ Len(FilesOf(call)) \in Nat
    BY FilesAre
  <1>2. /\ Len(todo) = Len(FilesOf(call)) - n + 1
        /\ Head(todo) = FilesOf(call)[n]
        /\ n < Len(FilesOf(call)) => Tail(todo) = SubSeq(FilesOf(call), n + 1, Len(FilesOf(call)))
    BY <1>1, SuffixMeans
  <1>3. Len(FilesOf(call)) - Len(todo) = n - 1
    BY <1>1, <1>2
  <1>4. Opened = {FilesOf(call)[i] : i \in 1..(n - 1)}
    BY <1>3 DEF Opened
  <1>5. QED
    BY <1>2, <1>4 DEF At

\* What is behind a reader, by the position it is at.
LEMMA LoadAt ==
  ASSUME call = "load_verified", NEW n, At(n)
  PROVE  /\ n \in 1..6
         /\ "root" \in Opened <=> n > 1
         /\ "device" \in Opened <=> n > 2
         /\ "deleg" \in Opened <=> n > 3
         /\ "id" \in Opened <=> n > 4
         /\ "history" \in Opened <=> n > 5
         /\ Len(todo) = 7 - n
         /\ n = 1 => Head(todo) = "root"
         /\ n = 2 => Head(todo) = "device"
         /\ n = 3 => Head(todo) = "deleg"
         /\ n = 4 => Head(todo) = "id"
         /\ n = 5 => Head(todo) = "history"
         /\ n = 6 => Head(todo) = "rotations"
  <1> DEFINE fs == FilesOf("load_verified")
  <1>1. /\ Len(fs) = 6 /\ fs[1] = "root" /\ fs[2] = "device" /\ fs[3] = "deleg"
        /\ fs[4] = "id" /\ fs[5] = "history" /\ fs[6] = "rotations"
    BY FilesAre
  <1>2. n \in 1..6 /\ Opened = {fs[i] : i \in 1..(n - 1)} /\ Len(todo) = 7 - n
        /\ Head(todo) = fs[n]
    BY <1>1 DEF At
  <1> HIDE DEF fs
  <1>3. \A i \in 1..6 : fs[i] \in Opened <=> i < n
    <2>1. ASSUME NEW i \in 1..6, NEW j \in 1..6, fs[i] = fs[j] PROVE i = j
      BY <1>1, <2>1
    <2>2. \A i \in 1..6 : i < n => fs[i] \in Opened
      BY <1>2
    <2>3. ASSUME NEW i \in 1..6, fs[i] \in Opened PROVE i < n
      <3>1. PICK j \in 1..(n - 1) : fs[i] = fs[j]
        BY <1>2, <2>3
      <3>2. j \in 1..6 /\ j < n
        BY <1>2
      <3>3. QED
        BY <2>1, <3>1, <3>2
    <2>4. QED
      BY <2>2, <2>3
  <1>4. QED
    BY <1>1, <1>2, <1>3

LEMMA PrincipalAt ==
  ASSUME call = "read_principal", NEW n, At(n)
  PROVE  /\ n \in 1..3
         /\ "id" \in Opened <=> n > 1
         /\ "deleg" \in Opened <=> n > 2
         /\ "root" \notin Opened /\ "device" \notin Opened /\ "history" \notin Opened
         /\ Len(todo) = 4 - n
         /\ n = 1 => Head(todo) = "id"
         /\ n = 2 => Head(todo) = "deleg"
         /\ n = 3 => Head(todo) = "rotations"
  <1> DEFINE fs == FilesOf("read_principal")
  <1>1. Len(fs) = 3 /\ fs[1] = "id" /\ fs[2] = "deleg" /\ fs[3] = "rotations"
    BY FilesAre
  <1>2. n \in 1..3 /\ Opened = {fs[i] : i \in 1..(n - 1)} /\ Len(todo) = 4 - n
        /\ Head(todo) = fs[n]
    BY <1>1 DEF At
  <1> HIDE DEF fs
  <1>3. \A i \in 1..3 : fs[i] \in Opened <=> i < n
    BY <1>1, <1>2
  <1>4. Opened \subseteq {"id", "deleg"}
    BY <1>1, <1>2
  <1>5. QED
    BY <1>1, <1>2, <1>3, <1>4

LEMMA ReaderIsAt ==
  ASSUME CallInv, call # "none"
  PROVE  \E n : At(n)
  BY SomewhereIn DEF CallInv

-----------------------------------------------------------------------------
(* A call goes on to its next file.                                        *)

GoesOn == /\ call # "none" /\ Len(todo) # 1
          /\ Head(todo) \notin Mandatory \ files
          /\ got' = ReadNext /\ todo' = Tail(todo)
          /\ UNCHANGED <<vars, call, answer, sound, moments>>

LEMMA OpenedGrows ==
  ASSUME NEW n, At(n), call \in {"read_principal", "load_verified"}, Len(todo) # 1,
         todo' = Tail(todo), call' = call
  PROVE  /\ n + 1 \in 1..Len(FilesOf(call'))
         /\ todo' = SubSeq(FilesOf(call'), n + 1, Len(FilesOf(call')))
         /\ Opened' = Opened \cup {Head(todo)}
  <1>1. FilesOf(call) \in Seq(AgentFiles) /\ Len(FilesOf(call)) \in Nat
    BY FilesAre
  <1>2. n \in 1..Len(FilesOf(call)) /\ n < Len(FilesOf(call))
    BY <1>1 DEF At
  <1>3. /\ todo' = SubSeq(FilesOf(call), n + 1, Len(FilesOf(call)))
        /\ n + 1 \in 1..Len(FilesOf(call))
    BY <1>1, <1>2 DEF At
  <1>4. Len(todo') = Len(FilesOf(call)) - (n + 1) + 1
    BY <1>1, <1>3, SuffixMeans
  <1>5. Len(FilesOf(call)) - Len(todo') = n
    BY <1>1, <1>2, <1>4
  <1>6. Opened' = {FilesOf(call)[i] : i \in 1..n}
    BY <1>5 DEF Opened
  <1>7. Opened = {FilesOf(call)[i] : i \in 1..(n - 1)} /\ Head(todo) = FilesOf(call)[n]
    BY DEF At
  <1>8. 1..n = 1..(n - 1) \cup {n}
    BY <1>2
  <1>9. QED
    BY <1>3, <1>6, <1>7, <1>8

\* What is read of one file, with everything read before.
LEMMA ReadNextMeans ==
  ASSUME TypeOK, got \in Contents, Head(todo) \in AgentFiles
  PROVE  /\ ReadNext \in Contents
         /\ ReadNext[Head(todo)] = disk[Head(todo)]
         /\ \A f \in AgentFiles \ {Head(todo)} : ReadNext[f] = got[f]
  BY DEF ReadNext, TypeOK, Contents, AgentFiles

LEMMA GoesOnKeeps ==
  ASSUME IInv, SignedInv, ReaderInv, GoesOn
  PROVE  ReaderInv'
  <1> DEFINE f == Head(todo)
  <1>a. /\ TypeOK /\ disk \in Contents /\ got \in Contents /\ made \in Nat
        /\ call \in {"read_principal", "load_verified"}
        /\ disk' = disk /\ files' = files /\ made' = made /\ op' = op /\ buf' = buf
        /\ call' = call /\ sound' = sound /\ moments' = moments /\ got' = ReadNext
    BY DEF IInv, TypeOK, ReaderInv, CallInv, GoesOn, vars
  <1>b. PICK n : At(n)
    BY ReaderIsAt DEF ReaderInv, GoesOn
  <1>c. /\ Opened' = Opened \cup {f}
        /\ n + 1 \in 1..Len(FilesOf(call'))
        /\ todo' = SubSeq(FilesOf(call'), n + 1, Len(FilesOf(call')))
    BY <1>a, <1>b, OpenedGrows DEF GoesOn
  <1>i. Len(todo) # 1 /\ Head(todo) = f
    BY DEF GoesOn
  <1>d. /\ f \in AgentFiles /\ f \notin Opened
        /\ call = "read_principal" => f \in {"id", "deleg"}
        /\ f = "root" => "device" \notin Opened /\ "deleg" \notin Opened
        /\ f = "device" => "deleg" \notin Opened
        /\ call = "load_verified" /\ f \in {"device", "deleg"} => "history" \notin Opened
    <2> HIDE DEF f
    <2>1. CASE call = "load_verified"
      <3>1. /\ n \in 1..6 /\ Len(todo) = 7 - n
            /\ "root" \in Opened <=> n > 1
            /\ "device" \in Opened <=> n > 2
            /\ "deleg" \in Opened <=> n > 3
            /\ "id" \in Opened <=> n > 4
            /\ "history" \in Opened <=> n > 5
            /\ n = 1 => f = "root"
            /\ n = 2 => f = "device"
            /\ n = 3 => f = "deleg"
            /\ n = 4 => f = "id"
            /\ n = 5 => f = "history"
        BY <1>b, <1>i, <2>1, LoadAt
      <3>2. n = 1 \/ n = 2 \/ n = 3 \/ n = 4 \/ n = 5
        BY <1>i, <3>1
      <3>3. QED
        BY <2>1, <3>1, <3>2 DEF AgentFiles
    <2>2. CASE call = "read_principal"
      <3>1. /\ n \in 1..3 /\ Len(todo) = 4 - n
            /\ "id" \in Opened <=> n > 1
            /\ "deleg" \in Opened <=> n > 2
            /\ "root" \notin Opened /\ "device" \notin Opened /\ "history" \notin Opened
            /\ n = 1 => f = "id"
            /\ n = 2 => f = "deleg"
        BY <1>b, <1>i, <2>2, PrincipalAt
      <3>2. n = 1 \/ n = 2
        BY <1>i, <3>1
      <3>3. QED
        BY <2>2, <3>1, <3>2 DEF AgentFiles
    <2>3. QED
      BY <1>a, <2>1, <2>2
  <1>e. f \in Mandatory => f \in files
    BY DEF GoesOn
  <1>f. /\ got' \in Contents /\ got'[f] = disk[f]
        /\ \A g \in AgentFiles \ {f} : got'[g] = got[g]
    BY <1>a, <1>d, ReadNextMeans
  <1>g. /\ \A g \in AgentFiles : g \in Opened => g # f /\ got'[g] = got[g]
        /\ \A g \in AgentFiles : g \in Opened' =>
              g \in Opened \/ (g = f /\ got'[g] = disk[g])
    <2> HIDE DEF f
    <2>1. QED
      BY <1>c, <1>d, <1>f
  <1>h. "root" \in AgentFiles /\ "device" \in AgentFiles /\ "deleg" \in AgentFiles
        /\ "id" \in AgentFiles /\ "history" \in AgentFiles
        /\ Mandatory = {"root", "device", "deleg", "id"}
    BY DEF AgentFiles, Mandatory
  <1> HIDE DEF f
  <1>1. CallInv'
    <2>1. call = "read_principal" \/ "id" \in Opened' => Committed
      BY <1>a, <1>e, <1>g, <1>h DEF ReaderInv, CallInv, Committed
    <2>2. "id" \in Opened' => got'.id = disk.id
      BY <1>a, <1>g, <1>h DEF ReaderInv, CallInv
    <2>3. moments \subseteq Contents /\ disk \in moments
      BY DEF ReaderInv, CallInv, GoesOn
    <2>4. QED
      BY <1>a, <1>c, <1>f, <2>1, <2>2, <2>3 DEF CallInv, Committed
  <1>2. SoundInv'
    <2> SUFFICES ASSUME sound PROVE SoundInv'
      BY <1>a DEF SoundInv
    <2>1. /\ IsVerified
          /\ "root" \in Opened => got.root = disk.root
          /\ "device" \in Opened => got.device = disk.device
          /\ "deleg" \in Opened => /\ got.deleg.root = disk.deleg.root
                                   /\ got.deleg.device = disk.deleg.device
      BY DEF ReaderInv, SoundInv, GoesOn
    <2>2. IsVerified'
      BY <1>a, <2>1 DEF IsVerified, Committed
    <2>3. /\ "root" \in Opened' => got'.root = disk.root
          /\ "device" \in Opened' => got'.device = disk.device
          /\ "deleg" \in Opened' => /\ got'.deleg.root = disk.deleg.root
                                    /\ got'.deleg.device = disk.deleg.device
      BY <2>1, <1>g, <1>h
    <2>4. QED
      BY <1>a, <2>2, <2>3 DEF SoundInv
  <1>3. RootInv'
    <2>1. ASSUME call = "load_verified", "root" \in Opened'
          PROVE  /\ got'.root <= made
                 /\ IF "root" \in files
                    THEN got'.root <= disk.root
                    ELSE \A p \in Procs : op[p] = "init" => got'.root < buf[p].root
      <3>1. CASE f = "root"
        <4>1. got'.root = disk.root /\ "root" \in files
          BY <1>e, <1>f, <1>h, <3>1
        <4>2. disk.root \in Nat
          BY <1>a DEF Contents
        <4>3. QED
          BY <4>1, <4>2 DEF SignedInv
      <3>2. CASE f # "root"
        BY <1>g, <1>h, <2>1, <3>2 DEF ReaderInv, RootInv
      <3>3. QED
        BY <3>1, <3>2
    <2>2. ASSUME call = "read_principal", "deleg" \in Opened'
          PROVE  got'.deleg.root <= disk.root
      <3>1. CASE f = "deleg"
        BY <1>f, <2>2, <3>1 DEF ReaderInv, CallInv, GoesOn, SignedInv
      <3>2. CASE f # "deleg"
        BY <1>g, <1>h, <2>2, <3>2 DEF ReaderInv, RootInv
      <3>3. QED
        BY <3>1, <3>2
    <2>3. QED
      BY <1>a, <2>1, <2>2 DEF RootInv
  <1>4. LeftoverInv'
    <2> SUFFICES ASSUME call = "load_verified", ~Committed, "root" \in Opened', "root" \in files,
                        got'.root = disk.root
                 PROVE  /\ "device" \in Opened' => "device" \in files /\ got'.device = disk.device
                        /\ "deleg" \in Opened' => "deleg" \in files /\ got'.deleg = disk.deleg
      BY <1>a DEF LeftoverInv, Committed
    <2>1. CASE f = "root"
      BY <1>c, <1>d, <2>1
    <2>2. CASE f # "root"
      <3>1. "root" \in Opened /\ got.root = disk.root
        BY <1>g, <1>h, <2>2
      <3>2. /\ "device" \in Opened => "device" \in files /\ got.device = disk.device
            /\ "deleg" \in Opened => "deleg" \in files /\ got.deleg = disk.deleg
        BY <3>1 DEF ReaderInv, LeftoverInv
      <3>3. QED
        BY <3>2, <1>e, <1>g, <1>h
    <2>3. QED
      BY <2>1, <2>2
  <1>5. MomentInv'
    <2>1. ASSUME call = "load_verified", "device" \in Opened', Settled(got.root)',
                 (Delegation.device = got.device)'
          PROVE  \E m \in moments : Fits(m, Delegation)'
      <3>1. Committed /\ disk.root = got'.root
        BY <1>a, <2>1 DEF Settled, Committed
      <3>2. CASE f = "device"
        <4>1. "deleg" \notin Opened' /\ "history" \notin Opened'
          <5>1. "deleg" \notin Opened /\ "history" \notin Opened
            BY <1>d, <2>1, <3>2
          <5>2. QED
            BY <1>c, <3>2, <5>1
        <4>2. Delegation' = disk.deleg /\ got'.device = disk.device
          BY <1>a, <1>f, <3>2, <4>1 DEF Delegation
        <4>3. \A k \in Keys : disk.history[k] \in Nat
          BY <1>a DEF Contents
        <4>4. Fits(disk, Delegation)'
          BY <1>a, <3>1, <4>1, <4>2, <4>3 DEF Fits
        <4>5. QED
          BY <1>a, <4>4 DEF ReaderInv, CallInv, GoesOn, Fits
      <3>3. CASE f # "device"
        <4>1. "device" \in Opened /\ f # "root" /\ got'.root = got.root
              /\ got'.device = got.device
          BY <1>d, <1>f, <1>g, <1>h, <2>1, <3>3
        <4>2. Delegation' = Delegation
          BY <1>a, <1>c, <1>f, <1>g, <1>h DEF Delegation
        <4>3. Settled(got.root) /\ Delegation.device = got.device
          BY <1>a, <2>1, <4>1, <4>2 DEF Settled, Committed
        <4>4. PICK m \in moments : Fits(m, Delegation)
          BY <2>1, <4>1, <4>3 DEF ReaderInv, MomentInv
        <4>5. \A k \in Keys : "history" \in Opened' => got'.history[k] <= m.history[k]
          BY <1>g, <1>h, <4>4 DEF Fits
        <4>6. Fits(m, Delegation)'
          BY <1>a, <4>1, <4>2, <4>4, <4>5 DEF Fits
        <4>7. QED
          BY <4>6
      <3>4. QED
        BY <3>2, <3>3
    <2>2. ASSUME call = "read_principal", "deleg" \in Opened', Settled(got.deleg.root)'
          PROVE  \E m \in moments : /\ m.id = disk.id /\ m.deleg = got'.deleg
                                     /\ m.rotations = disk.rotations
      <3>1. CASE f = "deleg"
        BY <1>f, <3>1 DEF ReaderInv, CallInv, GoesOn
      <3>2. CASE f # "deleg"
        <4>1. "deleg" \in Opened /\ got'.deleg = got.deleg
          BY <1>g, <1>h, <2>2, <3>2
        <4>2. Settled(got.deleg.root)
          BY <1>a, <2>2, <4>1 DEF Settled, Committed
        <4>3. QED
          BY <2>2, <4>1, <4>2 DEF ReaderInv, MomentInv
      <3>3. QED
        BY <3>1, <3>2
    <2>3. QED
      BY <1>a, <2>1, <2>2 DEF MomentInv
  <1>6. QED
    BY <1>1, <1>2, <1>3, <1>4, <1>5 DEF ReaderInv

-----------------------------------------------------------------------------
(* A call begins, or ends.                                                 *)

LEMMA IdleReader ==
  ASSUME call = "none", got \in Contents, moments \subseteq Contents
  PROVE  ReaderInv
  BY DEF ReaderInv, CallInv, SoundInv, RootInv, LeftoverInv, MomentInv

LEMMA CallKeeps ==
  ASSUME IInv, ReaderInv, NEW c \in {"read_principal", "load_verified"}, Call(c),
         UNCHANGED vars
  PROVE  ReaderInv'
  <1>a. disk \in Contents
    BY DEF IInv, TypeOK
  <1>1. CASE c = "read_principal" /\ ~Committed
    <2>1. call' = "none" /\ got' \in Contents /\ moments' \subseteq Contents
      BY <1>1 DEF Call, ReaderInv, CallInv
    <2>2. QED
      BY <2>1, IdleReader DEF ReaderInv, CallInv, SoundInv, RootInv, LeftoverInv, MomentInv
  <1>2. CASE ~(c = "read_principal" /\ ~Committed)
    <2>1. /\ call' = c /\ todo' = FilesOf(c) /\ got' = Blank
          /\ sound' = IsVerified /\ moments' = {disk} /\ disk' = disk /\ files' = files
      BY <1>2 DEF Call, vars
    <2>2. FilesOf(c) \in Seq(AgentFiles) /\ Len(FilesOf(c)) \in Nat \ {0}
      BY FilesAre
    <2>3. todo' = SubSeq(FilesOf(c), 1, Len(FilesOf(c))) /\ 1 \in 1..Len(FilesOf(c))
      <3>1. SubSeq(FilesOf(c), 1, Len(FilesOf(c))) = FilesOf(c)
        BY <2>2
      <3>2. QED
        BY <2>1, <2>2, <3>1
    <2>4. Opened' = {}
      <3>1. Len(FilesOf(call')) - Len(todo') = 0
        BY <2>1, <2>2
      <3>2. QED
        BY <3>1 DEF Opened
    <2>5. CallInv'
      BY <1>a, <1>2, <2>1, <2>3, <2>4, BlankType DEF CallInv, Committed
    <2>6. SoundInv'
      BY <2>1, <2>4 DEF SoundInv, IsVerified, Committed
    <2>7. RootInv' /\ LeftoverInv' /\ MomentInv'
      BY <2>4 DEF RootInv, LeftoverInv, MomentInv
    <2>8. QED
      BY <2>5, <2>6, <2>7 DEF ReaderInv
  <1>3. QED
    BY <1>1, <1>2

-----------------------------------------------------------------------------
(* The directory changes under a reader.                                   *)

\* A value that verifies ends its chain at its root: nothing is pending.
LEMMA VerifiedIsNotPending ==
  ASSUME NEW d \in Contents, IsChain(d.id, d.rotations),
         HeadOf(d.id, d.rotations) = d.root
  PROVE  ~Pending(d)
  <1> DEFINE rs == d.rotations
  <1> SUFFICES ASSUME rs # <<>> PROVE rs[Len(rs)].old # rs[Len(rs)].new
    BY DEF Pending, HeadOf
  <1>1. Len(rs) \in Nat \ {0}
    BY UnpendedMeans, EmptySeq
  <1>2. Len(rs) \in 1..Len(rs)
    BY <1>1
  <1>3. CASE Len(rs) = 1
    BY <1>2, <1>3 DEF IsChain
  <1>4. CASE Len(rs) # 1
    <2>1. Len(rs) - 1 \in 1..Len(rs) /\ Len(rs) - 1 # Len(rs)
      <3>1. \A n \in Nat \ {0} : n # 1 => n - 1 \in 1..n /\ n - 1 # n
        OBVIOUS
      <3>2. QED
        BY <1>1, <1>4, <3>1
    <2>2. QED
      BY <1>2, <1>4, <2>1 DEF IsChain
  <1>5. QED
    BY <1>3, <1>4

\* A step between two states that verify changes neither root nor device, and
\* nothing of the delegation but its window.
LEMMA VerifiedKeeps ==
  ASSUME IInv, IInv', HeldInv, SignedInv, [Next]_vars, IsVerified, IsVerified'
  PROVE  /\ disk'.root = disk.root /\ disk'.device = disk.device
         /\ disk'.deleg.root = disk.deleg.root /\ disk'.deleg.device = disk.deleg.device
  <1>a. disk \in Contents /\ disk' \in Contents
    BY DEF IInv, TypeOK
  <1>b. /\ Committed /\ disk.deleg.root = disk.root /\ disk.deleg.device = disk.device
        /\ disk'.deleg.root = disk'.root /\ disk'.deleg.device = disk'.device
    BY DEF IsVerified, Verified, DelegationIsCurrent, Matches
  <1>c. ~Pending(disk')
    BY <1>a, VerifiedIsNotPending DEF IsVerified, Verified
  <1>d. disk.root \in Nat /\ disk'.root \in Nat /\ disk.device \in Nat /\ disk'.device \in Nat
    BY <1>a DEF Contents
  <1>1. \/ disk' = disk
        \/ RotationsWritten \/ RootWritten \/ DeviceWritten
        \/ DelegationWritten \/ HistoryWritten
    BY <1>b, CommittedStep
  <1>2. ~RootWritten
    BY <1>b, <1>d DEF RootWritten, Same, AgentFiles
  <1>3. ~DeviceWritten
    BY <1>b, <1>d DEF DeviceWritten, Same, AgentFiles
  <1>4. QED
    BY <1>1, <1>2, <1>3, <1>b, <1>c DEF RotationsWritten, DelegationWritten,
         HistoryWritten, Same, AgentFiles

\* The part of a call that goes on while others act.
Beside == /\ call # "none" /\ [Next]_vars
          /\ sound' = (sound /\ IsVerified')
          /\ moments' = moments \cup {disk'}
          /\ UNCHANGED <<call, todo, got, answer>>

LEMMA BesideOpened ==
  ASSUME Beside
  PROVE  Opened' = Opened
  BY DEF Beside, Opened

LEMMA BesideCall ==
  ASSUME IInv, IInv', HeldInv, SignedInv, CallInv, Beside
  PROVE  CallInv'
  <1>1. disk' \in Contents
    BY DEF IInv, TypeOK
  <1>2. Committed => Committed' /\ disk'.id = disk.id
    BY LineGrows DEF Beside, LineKept
  <1>3. QED
    BY <1>1, <1>2, BesideOpened DEF CallInv, Beside

LEMMA BesideSound ==
  ASSUME IInv, IInv', HeldInv, SignedInv, SoundInv, Beside
  PROVE  SoundInv'
  BY VerifiedKeeps, BesideOpened DEF SoundInv, Beside

\* The root on disk of a committed directory never gets older.
LEMMA RootsGrow ==
  ASSUME IInv, IInv', HeldInv, SignedInv, [Next]_vars, Committed
  PROVE  disk.root <= disk'.root
  <1>1. disk.root \in Nat /\ disk'.root \in Nat
    BY DEF IInv, TypeOK, Contents
  <1>2. QED
    BY <1>1, CommittedStep DEF RotationsWritten, RootWritten, DeviceWritten,
         DelegationWritten, HistoryWritten, Same, AgentFiles

LEMMA BesideRoot ==
  ASSUME IInv, IInv', HeldInv, SignedInv, ReaderInv, Beside
  PROVE  RootInv'
  <1>a. /\ TypeOK /\ got \in Contents /\ got.root \in Nat /\ made \in Nat /\ made' \in Nat
        /\ disk.root \in Nat /\ disk'.root \in Nat /\ got.deleg.root \in Nat
        /\ [Next]_vars
    <2>1. TypeOK /\ TypeOK' /\ got \in Contents /\ [Next]_vars
      BY DEF IInv, ReaderInv, CallInv, Beside
    <2>2. disk \in Contents /\ disk' \in Contents /\ made \in Nat /\ made' \in Nat
      BY <2>1 DEF TypeOK
    <2>3. QED
      BY <2>1, <2>2 DEF Contents, Delegations
  <1>b. \A p \in Procs : buf'[p].root \in Nat
    BY DEF IInv, TypeOK, Contents
  <1>1. ASSUME call = "load_verified", "root" \in Opened
        PROVE  /\ got.root <= made'
               /\ IF "root" \in files'
                  THEN got.root <= disk'.root
                  ELSE \A p \in Procs : op'[p] = "init" => got.root < buf'[p].root
    <2>a. /\ got.root <= made
          /\ IF "root" \in files
             THEN got.root <= disk.root
             ELSE \A p \in Procs : op[p] = "init" => got.root < buf[p].root
      BY <1>1 DEF ReaderInv, RootInv
    <2>1. got.root <= made'
      BY <1>a, <2>a, KeysAreMade
    <2>2. CASE Committed
      <3>1. "root" \in files /\ files' = files
        BY <1>a, <2>2, CommittedStep DEF IInv, DirInv, FilesOK, AgentFiles
      <3>2. QED
        BY <1>a, <2>1, <2>2, <2>a, <3>1, RootsGrow
    <2>3. CASE ~Committed
      <3>1. CASE disk' = disk /\ files' = files
        <4>1. "root" \notin files =>
                 \A p \in Procs : op'[p] = "init" => got.root < buf'[p].root
          BY <1>a, <1>b, <2>a, KeysAreMade
        <4>2. QED
          BY <2>1, <2>a, <3>1, <4>1
      <3>2. CASE files' = {} /\ \A q \in Procs : op'[q] = "none"
        BY <2>1, <3>2
      <3>3. ASSUME NEW p \in Procs, InitWrites(p)
            PROVE  "root" \in files' /\ got.root <= disk'.root
        <4>1. CASE pc[p] = "root"
          <5>1. "root" \notin files
            BY <3>3, <4>1, BeforeInInitIs DEF InitWrites
          <5>2. disk'.root = buf[p].root /\ op[p] = "init" /\ buf' = buf
            BY <3>3, <4>1 DEF InitWrites
          <5>3. QED
            BY <1>a, <1>b, <2>a, <3>3, <4>1, <5>1, <5>2 DEF InitWrites
        <4>2. CASE pc[p] # "root"
          <5>1. "root" \in files
            BY <3>3, <4>2, BeforeInInitIs DEF InitWrites, AgentFiles
          <5>2. disk'.root = disk.root /\ "root" \in files'
            BY <3>3, <4>2, <5>1 DEF InitWrites, Same, AgentFiles
          <5>3. QED
            BY <2>a, <5>1, <5>2
        <4>3. QED
          BY <4>1, <4>2
      <3>4. QED
        BY <1>a, <2>1, <2>3, <3>1, <3>2, <3>3, UncommittedStep
    <2>4. QED
      BY <2>2, <2>3
  <1>2. ASSUME call = "read_principal", "deleg" \in Opened
        PROVE  got.deleg.root <= disk'.root
    BY <1>2, <1>a, RootsGrow DEF ReaderInv, RootInv, CallInv
  <1>3. QED
    BY <1>1, <1>2, BesideOpened DEF RootInv, Beside

LEMMA BesideLeftover ==
  ASSUME IInv, IInv', HeldInv, SignedInv, ReaderInv, Beside
  PROVE  LeftoverInv'
  <1> SUFFICES ASSUME call = "load_verified", ~Committed', "root" \in Opened, "root" \in files',
                      got.root = disk'.root
               PROVE  /\ "device" \in Opened => "device" \in files' /\ got.device = disk'.device
                      /\ "deleg" \in Opened => "deleg" \in files' /\ got.deleg = disk'.deleg
    BY BesideOpened DEF LeftoverInv, Beside
  <1>a. ~Committed /\ [Next]_vars
    BY LineGrows DEF Beside, LineKept
  <1>b. "root" \in files /\ got.root = disk.root =>
           /\ "device" \in Opened => "device" \in files /\ got.device = disk.device
           /\ "deleg" \in Opened => "deleg" \in files /\ got.deleg = disk.deleg
    BY <1>a DEF ReaderInv, LeftoverInv
  <1>1. CASE disk' = disk /\ files' = files
    BY <1>b, <1>1
  <1>2. CASE files' = {}
    BY <1>2
  <1>3. ASSUME NEW p \in Procs, InitWrites(p)
        PROVE  /\ "device" \in Opened => "device" \in files' /\ got.device = disk'.device
               /\ "deleg" \in Opened => "deleg" \in files' /\ got.deleg = disk'.deleg
    <2>1. pc[p] \in AgentFiles /\ pc[p] \notin files /\ (pc[p] # "root" => "root" \in files)
      BY <1>3, BeforeInInitIs DEF InitWrites, AgentFiles
    <2>2. pc[p] # "root"
      <3> SUFFICES ASSUME pc[p] = "root" PROVE FALSE
        OBVIOUS
      <3>1. got.root < buf[p].root /\ disk'.root = buf[p].root
        BY <1>3, <2>1 DEF InitWrites, ReaderInv, RootInv
      <3>2. got.root \in Nat
        BY DEF ReaderInv, CallInv, Contents
      <3>3. QED
        BY <3>1, <3>2
    <2>3. "root" \in files /\ got.root = disk.root
      BY <1>3, <2>1, <2>2 DEF InitWrites, Same, AgentFiles
    <2>4. \A f \in files : f \in files' /\ (f \in AgentFiles => disk'[f] = disk[f])
      BY <1>3, <2>1 DEF InitWrites, Same
    <2>5. QED
      BY <1>b, <2>3, <2>4 DEF AgentFiles
  <1>4. QED
    BY <1>a, <1>1, <1>2, <1>3, UncommittedStep

LEMMA BesideMoment ==
  ASSUME IInv, IInv', HeldInv, SignedInv, ReaderInv, Beside
  PROVE  MomentInv'
  <1>a. /\ disk \in Contents /\ disk' \in Contents /\ got \in Contents
        /\ [Next]_vars /\ got' = got /\ call' = call /\ Opened' = Opened
        /\ moments' = moments \cup {disk'} /\ call \in {"read_principal", "load_verified"}
        /\ LeftoverInv /\ MomentInv /\ CallInv /\ RootInv
    BY BesideOpened DEF IInv, TypeOK, ReaderInv, CallInv, Beside
  <1>b. /\ disk.root \in Nat /\ disk'.root \in Nat
        /\ got.root \in Nat /\ got.deleg.root \in Nat
        /\ \A k \in Keys : disk.history[k] \in Nat /\ disk'.history[k] \in Nat
                           /\ got.history[k] \in Nat
    BY <1>a DEF Contents, Delegations
  <1>c. Committed => \/ disk' = disk
                     \/ RotationsWritten \/ RootWritten \/ DeviceWritten
                     \/ DelegationWritten \/ HistoryWritten
    BY <1>a, CommittedStep
  <1>d. moments \subseteq Contents
    BY <1>a DEF CallInv
  <1>1. ASSUME call = "load_verified", "device" \in Opened, Settled(got.root)',
               (Delegation.device = got.device)'
        PROVE  \E m \in moments' : Fits(m, Delegation)'
    <2>a. /\ Committed' /\ disk'.root = got.root /\ ~Pending(disk')
          /\ "root" \in Opened
          /\ "history" \in Opened => "deleg" \in Opened /\ "id" \in Opened
      <3>1. PICK n : At(n)
        BY <1>1, <1>a, ReaderIsAt
      <3>2. /\ n \in 1..6
            /\ "root" \in Opened <=> n > 1
            /\ "device" \in Opened <=> n > 2
            /\ "deleg" \in Opened <=> n > 3
            /\ "id" \in Opened <=> n > 4
            /\ "history" \in Opened <=> n > 5
        BY <1>1, <3>1, LoadAt
      <3>3. /\ "root" \in Opened
            /\ "history" \in Opened => "deleg" \in Opened /\ "id" \in Opened
        BY <1>1, <3>2
      <3>4. QED
        BY <1>1, <1>a, <3>3 DEF Settled, Pending
    <2>1. ASSUME Committed, disk'.root = disk.root, disk'.rotations = disk.rotations,
                 disk'.id = disk.id, Delegation' = Delegation,
                 \A k \in Keys : disk'.history[k] <= disk.history[k]
          PROVE  \E m \in moments' : Fits(m, Delegation)'
      <3>1. Settled(got.root) /\ Delegation.device = got.device
        BY <1>1, <1>a, <2>1, <2>a DEF Settled, Pending
      <3>2. PICK m \in moments : Fits(m, Delegation)
        BY <1>1, <1>a, <3>1 DEF MomentInv
      <3>3. \A k \in Keys : m.history[k] \in Nat
        BY <1>d, <3>2 DEF Contents
      <3>4. \A k \in Keys : disk'.history[k] <= m.history[k]
        BY <1>b, <2>1, <3>2, <3>3 DEF Fits
      <3>5. Fits(m, Delegation)'
        BY <1>a, <2>1, <3>2, <3>4 DEF Fits
      <3>6. QED
        BY <1>a, <3>5
    <2>2. ASSUME got.device = disk'.device, Delegation' = disk'.deleg, "history" \notin Opened
          PROVE  \E m \in moments' : Fits(m, Delegation)'
      <3>1. ASSUME NEW m, m = disk' PROVE Fits(m, Delegation)'
        BY <1>a, <1>b, <2>2, <2>a, <3>1 DEF Fits
      <3>2. QED
        BY <1>a, <3>1
    <2>3. CASE Committed
      <3>a. "root" \in files
        BY <2>3 DEF IInv, DirInv, FilesOK, AgentFiles
      <3>b. got.root <= disk.root
        BY <1>1, <1>a, <2>a, <3>a DEF RootInv
      <3>1. CASE disk' = disk
        BY <1>a, <1>b, <2>1, <2>3, <3>1 DEF Delegation
      <3>2. CASE RotationsWritten
        BY <2>a, <3>2 DEF RotationsWritten
      <3>3. CASE RootWritten
        BY <1>b, <2>a, <3>3, <3>b DEF RootWritten
      <3>4. CASE DeviceWritten
        <4>1. Delegation' = Delegation
          BY <1>a, <3>4 DEF Delegation, DeviceWritten, Same, AgentFiles
        <4>2. QED
          BY <1>b, <2>1, <2>3, <3>4, <4>1 DEF DeviceWritten, Same, AgentFiles
      <3>5. CASE DelegationWritten
        <4>1. CASE "deleg" \in Opened
          <5>1. Delegation' = Delegation
            BY <1>a, <4>1 DEF Delegation
          <5>2. QED
            BY <1>b, <2>1, <2>3, <3>5, <5>1 DEF DelegationWritten, Same, AgentFiles
        <4>2. CASE "deleg" \notin Opened
          <5>1. Delegation' = disk'.deleg
            BY <1>a, <4>2 DEF Delegation
          <5>2. got.device = disk'.device
            BY <1>1, <1>a, <3>5, <5>1 DEF DelegationWritten, Same, AgentFiles
          <5>3. QED
            BY <2>2, <2>a, <4>2, <5>1, <5>2
        <4>3. QED
          BY <4>1, <4>2
      <3>6. CASE HistoryWritten
        <4>1. Delegation' = Delegation
          BY <1>a, <3>6 DEF Delegation, HistoryWritten, Same, AgentFiles
        <4>2. QED
          BY <2>1, <2>3, <3>6, <4>1 DEF HistoryWritten, Same, AgentFiles
      <3>7. QED
        BY <1>c, <2>3, <3>1, <3>2, <3>3, <3>4, <3>5, <3>6
    <2>4. CASE ~Committed
      <3>1. PICK p \in Procs : InitWrites(p)
        BY <1>a, <2>4, <2>a, UncommittedStep DEF Committed
      <3>2. pc[p] = "id"
        BY <2>4, <2>a, <3>1 DEF InitWrites, Committed
      <3>3. "root" \in files /\ disk'.root = disk.root /\ disk'.device = disk.device
            /\ disk'.deleg = disk.deleg
        BY <3>1, <3>2, BeforeInInitIs DEF InitWrites, Same, AgentFiles
      <3>4. /\ got.device = disk.device
            /\ "deleg" \in Opened => got.deleg = disk.deleg
        BY <1>1, <1>a, <2>4, <2>a, <3>3 DEF LeftoverInv
      <3>5. Delegation' = disk'.deleg
        BY <1>a, <3>3, <3>4 DEF Delegation
      <3>6. "history" \notin Opened
        BY <1>1, <1>a, <2>4, <2>a DEF CallInv
      <3>7. QED
        BY <2>2, <3>3, <3>4, <3>5, <3>6
    <2>5. QED
      BY <2>3, <2>4
  <1>2. ASSUME call = "read_principal", "deleg" \in Opened, Settled(got.deleg.root)'
        PROVE  \E m \in moments' : /\ m.id = disk'.id /\ m.deleg = got.deleg
                                   /\ m.rotations = disk'.rotations
    <2>a. /\ Committed /\ disk'.root = got.deleg.root /\ ~Pending(disk')
          /\ got.deleg.root <= disk.root
      BY <1>2, <1>a DEF Settled, CallInv, RootInv
    <2>1. ASSUME disk'.root = disk.root, disk'.rotations = disk.rotations, disk'.id = disk.id
          PROVE  \E m \in moments' : /\ m.id = disk'.id /\ m.deleg = got.deleg
                                     /\ m.rotations = disk'.rotations
      <3>1. Settled(got.deleg.root)
        BY <2>1, <2>a DEF Settled, Pending
      <3>2. QED
        BY <1>2, <1>a, <2>1, <3>1 DEF MomentInv
    <2>2. ~RotationsWritten
      BY <2>a DEF RotationsWritten
    <2>3. ~RootWritten
      BY <1>b, <2>a DEF RootWritten
    <2>4. QED
      BY <1>c, <2>a, <2>1, <2>2, <2>3 DEF DeviceWritten, DelegationWritten,
           HistoryWritten, Same, AgentFiles
  <1>3. QED
    BY <1>1, <1>2, <1>a DEF MomentInv

-----------------------------------------------------------------------------

\* The last file is read, or one is missing: the call ends.
Ends == \/ Head(todo) \in Mandatory \ files /\ Done("Missing")
        \/ /\ Head(todo) \notin Mandatory \ files /\ Len(todo) = 1
           /\ Done(Verdict(call, ReadNext))

LEMMA OpenIs ==
  ASSUME Open, UNCHANGED vars
  PROVE  call # "none" /\ (GoesOn \/ Ends)
  BY DEF Open, GoesOn, Ends

LEMMA ReaderNext ==
  ASSUME IInv, IInv', HeldInv, SignedInv, ReaderInv,
         [Read \/ Others]_<<vars, reader>>
  PROVE  ReaderInv'
  <1>1. ASSUME NEW c \in {"read_principal", "load_verified"}, Call(c), UNCHANGED vars
        PROVE  ReaderInv'
    BY <1>1, CallKeeps
  <1>2. CASE Open /\ UNCHANGED vars
    <2>1. CASE GoesOn
      BY <2>1, GoesOnKeeps
    <2>2. CASE Ends
      <3>1. call' = "none" /\ got' \in Contents /\ moments' \subseteq Contents
        BY <2>2, BlankType DEF Ends, Done
      <3>2. QED
        BY <3>1 DEF ReaderInv, CallInv, SoundInv, RootInv, LeftoverInv, MomentInv
    <2>3. QED
      BY <1>2, <2>1, <2>2, OpenIs
  <1>3. CASE Others
    <2>1. CASE call = "none"
      <3>1. call' = "none" /\ got' \in Contents /\ moments' \subseteq Contents
        BY <1>3, <2>1 DEF Others, ReaderInv, CallInv
      <3>2. QED
        BY <3>1 DEF ReaderInv, CallInv, SoundInv, RootInv, LeftoverInv, MomentInv
    <2>2. CASE call # "none"
      <3>1. Beside
        BY <1>3, <2>2 DEF Others, Beside
      <3>2. QED
        BY <3>1, BesideCall, BesideSound, BesideRoot, BesideLeftover, BesideMoment
           DEF ReaderInv
    <2>3. QED
      BY <2>1, <2>2
  <1>4. CASE UNCHANGED <<vars, reader>>
    BY <1>4 DEF vars, reader, ReaderInv, CallInv, SoundInv, RootInv, LeftoverInv,
         MomentInv, Opened, Settled, Fits, Delegation, IsVerified, Committed
  <1>5. QED
    BY <1>1, <1>2, <1>3, <1>4 DEF Read

LEMMA ReaderInit == ReadInit => ReaderInv
  BY BlankType DEF ReadInit, ReaderInv, CallInv, SoundInv, RootInv, LeftoverInv, MomentInv

\* A reader changes nothing in the directory.
LEMMA ReadIsNext == [Read \/ Others]_<<vars, reader>> => [Next]_vars
  BY DEF Read, Others

LEMMA ReadDirectory == ReadSpec => Spec
  <1>1. ReadInit => Init
    BY DEF ReadInit
  <1>2. QED
    BY <1>1, ReadIsNext, PTL DEF ReadSpec, Spec

\* What an unlocked reader has read fits the directory it reads.
THEOREM ReaderInvariance ==
  NoSave => (ReadSpec => [](IInv /\ HeldInv /\ SignedInv /\ ReaderInv))
  <1>1. SUFFICES ASSUME NoSave
                 PROVE  ReadSpec => [](IInv /\ HeldInv /\ SignedInv /\ ReaderInv)
    OBVIOUS
  <1>2. (Spec => []IInv) /\ (Spec => []HeldInv) /\ (Spec => []SignedInv)
    BY <1>1, Invariance, HeldInvariance, SignedInvariance
  <1>3. QED
    BY <1>2, ReaderInit, ReaderNext, ReadDirectory, PTL DEF ReadSpec

-----------------------------------------------------------------------------
(* What a call returns.                                                    *)

LEMMA AcceptedMeans ==
  ASSUME NEW c, NEW d
  PROVE  Verdict(c, d) = "ok" <=>
           /\ IsChain(d.id, d.rotations)
           /\ d.deleg.root = HeadOf(d.id, d.rotations)
           /\ c # "read_principal" => /\ HeadOf(d.id, d.rotations) = d.root
                                      /\ Matches(d)
  <1>1. Check(d) = "ok" <=> /\ IsChain(d.id, d.rotations)
                            /\ d.deleg.root = HeadOf(d.id, d.rotations)
    BY DEF Check
  <1>2. CheckLoaded(d) = "ok" <=> /\ IsChain(d.id, d.rotations)
                                  /\ HeadOf(d.id, d.rotations) = d.root
                                  /\ d.deleg.root = d.root
                                  /\ Matches(d)
    BY DEF CheckLoaded
  <1>3. QED
    BY <1>1, <1>2 DEF Verdict

\* A call that reads its last file has read the others in a committed directory.
LEMMA AtTheEnd ==
  ASSUME IInv, ReaderInv, call # "none", Ends
  PROVE  /\ Head(todo) \in Mandatory \ files /\ answer' = "Missing"
         \/ /\ Committed /\ "id" \in Opened /\ "deleg" \in Opened
            /\ call = "load_verified" =>
                  "root" \in Opened /\ "device" \in Opened /\ "history" \in Opened
            /\ ReadNext \in Contents
            /\ ReadNext = [got EXCEPT !.rotations = disk.rotations]
            /\ ReadNext.id = disk.id /\ ReadNext.rotations = disk.rotations
            /\ ReadNext.root = got.root /\ ReadNext.device = got.device
            /\ ReadNext.deleg = got.deleg /\ ReadNext.history = got.history
            /\ answer' = Verdict(call, ReadNext)
  <1> SUFFICES ASSUME Head(todo) \notin Mandatory \ files, Len(todo) = 1,
                      Done(Verdict(call, ReadNext))
               PROVE  /\ Committed /\ "id" \in Opened /\ "deleg" \in Opened
                      /\ call = "load_verified" =>
                            "root" \in Opened /\ "device" \in Opened /\ "history" \in Opened
                      /\ ReadNext \in Contents
                      /\ ReadNext = [got EXCEPT !.rotations = disk.rotations]
                      /\ ReadNext.id = disk.id /\ ReadNext.rotations = disk.rotations
                      /\ ReadNext.root = got.root /\ ReadNext.device = got.device
                      /\ ReadNext.deleg = got.deleg /\ ReadNext.history = got.history
                      /\ answer' = Verdict(call, ReadNext)
    BY DEF Ends, Done
  <1>1. PICK n : At(n)
    BY ReaderIsAt DEF ReaderInv
  <1>2. call \in {"read_principal", "load_verified"} /\ got \in Contents /\ CallInv /\ TypeOK
    BY DEF ReaderInv, CallInv, IInv
  <1>3. /\ "id" \in Opened /\ "deleg" \in Opened /\ Head(todo) = "rotations"
        /\ call = "load_verified" =>
              "root" \in Opened /\ "device" \in Opened /\ "history" \in Opened
    <2>1. CASE call = "load_verified"
      <3>1. /\ n \in 1..6 /\ Len(todo) = 7 - n
            /\ "root" \in Opened <=> n > 1
            /\ "device" \in Opened <=> n > 2
            /\ "deleg" \in Opened <=> n > 3
            /\ "id" \in Opened <=> n > 4
            /\ "history" \in Opened <=> n > 5
            /\ n = 6 => Head(todo) = "rotations"
        BY <1>1, <2>1, LoadAt
      <3>2. n = 6
        <4>1. \A k \in 1..6 : 7 - k = 1 => k = 6
          OBVIOUS
        <4>2. QED
          BY <3>1, <4>1
      <3>3. QED
        BY <3>1, <3>2
    <2>2. CASE call = "read_principal"
      <3>1. /\ n \in 1..3 /\ Len(todo) = 4 - n
            /\ "id" \in Opened <=> n > 1
            /\ "deleg" \in Opened <=> n > 2
            /\ n = 3 => Head(todo) = "rotations"
        BY <1>1, <2>2, PrincipalAt
      <3>2. n = 3
        <4>1. \A k \in 1..3 : 4 - k = 1 => k = 3
          OBVIOUS
        <4>2. QED
          BY <3>1, <4>1
      <3>3. QED
        BY <2>2, <3>1, <3>2
    <2>3. QED
      BY <1>2, <2>1, <2>2
  <1>4. Committed /\ got.id = disk.id
    BY <1>2, <1>3 DEF CallInv
  <1>5. /\ ReadNext \in Contents /\ ReadNext.rotations = disk.rotations
        /\ ReadNext.id = got.id /\ ReadNext.root = got.root /\ ReadNext.device = got.device
        /\ ReadNext.deleg = got.deleg /\ ReadNext.history = got.history
    BY <1>2, <1>3, ReadNextMeans DEF AgentFiles
  <1>6. ReadNext = [got EXCEPT !.rotations = disk.rotations]
    BY <1>3 DEF ReadNext
  <1>7. QED
    BY <1>3, <1>4, <1>5, <1>6 DEF Done

\* A chain that ends at a root no younger than the one installed has nothing
\* pending.
LEMMA InstalledHead ==
  ASSUME IInv, Committed, HeadOf(disk.id, disk.rotations) <= disk.root
  PROVE  ~Pending(disk) /\ HeadOf(disk.id, disk.rotations) = disk.root
  <1>a. /\ disk \in Contents /\ Chained(disk.id, disk.rotations)
        /\ HeadOf(disk.id, Unpended(disk)) = disk.root /\ disk.root \in Nat
    BY DEF IInv, TypeOK, DirInv, ChainOK, Contents
  <1>1. ~Pending(disk)
    <2> SUFFICES ASSUME Pending(disk) PROVE FALSE
      OBVIOUS
    <2> DEFINE rs == disk.rotations
    <2>1. rs # <<>> /\ rs[Len(rs)].old = disk.root
      BY DEF Pending
    <2>2. HeadOf(disk.id, rs) = rs[Len(rs)].new
      BY <2>1 DEF HeadOf
    <2>3. rs[Len(rs)].old < rs[Len(rs)].new
      BY <1>a, <2>1, LastRotationIsYounger
    <2>4. Len(rs) \in 1..Len(rs) /\ rs \in Seq(Links)
      BY <1>a, <2>1, UnpendedMeans, EmptySeq
    <2>5. rs[Len(rs)].new \in Nat
      BY <2>4, LinkType
    <2>6. QED
      BY <1>a, <2>1, <2>2, <2>3, <2>5
  <1>2. QED
    BY <1>a, <1>1 DEF Unpended

LEMMA AcceptedIsSettled ==
  ASSUME IInv, SignedInv, ReaderInv, call # "none", Ends, answer' = "ok"
  PROVE  /\ ReadNext.deleg.root = disk.root /\ Settled(disk.root)
         /\ call = "load_verified" => got.root = disk.root /\ Matches(ReadNext)
  <1>1. /\ Committed /\ "id" \in Opened /\ "deleg" \in Opened
        /\ call = "load_verified" => "root" \in Opened
        /\ ReadNext.id = disk.id /\ ReadNext.rotations = disk.rotations
        /\ ReadNext.root = got.root /\ ReadNext.deleg = got.deleg
        /\ Verdict(call, ReadNext) = "ok"
    BY AtTheEnd
  <1>2. /\ got.deleg.root = HeadOf(disk.id, disk.rotations)
        /\ call = "load_verified" => /\ HeadOf(disk.id, disk.rotations) = got.root
                                     /\ Matches(ReadNext)
    BY <1>1, AcceptedMeans
  <1>3. HeadOf(disk.id, disk.rotations) <= disk.root
    <2>1. "root" \in files
      BY <1>1 DEF IInv, DirInv, FilesOK, AgentFiles
    <2>2. CASE call = "load_verified"
      BY <1>1, <1>2, <2>1, <2>2 DEF ReaderInv, RootInv
    <2>3. CASE call = "read_principal"
      BY <1>1, <1>2, <2>3 DEF ReaderInv, RootInv
    <2>4. QED
      BY <2>2, <2>3 DEF ReaderInv, CallInv
  <1>4. ~Pending(disk) /\ HeadOf(disk.id, disk.rotations) = disk.root
    BY <1>1, <1>3, InstalledHead
  <1>5. QED
    BY <1>1, <1>2, <1>4 DEF Settled

\* A call that returns has read its last file, or missed one.
LEMMA ReturnsIs ==
  ASSUME [Read \/ Others]_<<vars, reader>>, Returns
  PROVE  call # "none" /\ Ends
  <1>1. call # "none" /\ call' = "none"
    BY DEF Returns
  <1>2. Open /\ UNCHANGED vars
    BY <1>1 DEF Read, Others, Call, reader
  <1>3. ~GoesOn
    BY <1>1 DEF GoesOn
  <1>4. QED
    BY <1>2, <1>3, OpenIs

\* NoSpuriousError: a call during which the identity verified all along, as a
\* locked load would find it, accepts it.
THEOREM NoSpuriousErrorHolds == NoSave => (ReadSpec => NoSpuriousError)
  <1>1. ASSUME IInv, ReaderInv, [Read \/ Others]_<<vars, reader>>, Returns, sound
        PROVE  answer' = "ok"
    <2>1. call # "none" /\ Ends
      BY <1>1, ReturnsIs
    <2>2. /\ IsVerified
          /\ "root" \in Opened => got.root = disk.root
          /\ "device" \in Opened => got.device = disk.device
          /\ "deleg" \in Opened => /\ got.deleg.root = disk.deleg.root
                                   /\ got.deleg.device = disk.deleg.device
      BY <1>1, <2>1 DEF ReaderInv, SoundInv
    <2>3. Mandatory \ files = {}
      BY <1>1, <2>2 DEF IsVerified, IInv, DirInv, FilesOK, Mandatory, AgentFiles
    <2>4. /\ "deleg" \in Opened
          /\ call = "load_verified" => "root" \in Opened /\ "device" \in Opened
          /\ ReadNext.id = disk.id /\ ReadNext.rotations = disk.rotations
          /\ ReadNext.root = got.root /\ ReadNext.device = got.device
          /\ ReadNext.deleg = got.deleg
          /\ answer' = Verdict(call, ReadNext)
      BY <1>1, <2>1, <2>3, AtTheEnd
    <2>5. /\ IsChain(disk.id, disk.rotations)
          /\ HeadOf(disk.id, disk.rotations) = disk.root
          /\ disk.deleg.root = disk.root /\ disk.deleg.device = disk.device
      BY <2>2 DEF IsVerified, Verified, DelegationIsCurrent, Matches
    <2>6. call \in {"read_principal", "load_verified"}
      BY <1>1, <2>1 DEF ReaderInv, CallInv
    <2>7. Verdict(call, ReadNext) = "ok"
      BY <2>2, <2>4, <2>5, <2>6, AcceptedMeans DEF Matches
    <2>8. QED
      BY <2>4, <2>7
  <1>2. SUFFICES ASSUME NoSave PROVE ReadSpec => NoSpuriousError
    OBVIOUS
  <1>3. ReadSpec => [](IInv /\ HeldInv /\ SignedInv /\ ReaderInv)
    BY <1>2, ReaderInvariance
  <1>4. QED
    BY <1>1, <1>3, PTL DEF ReadSpec, NoSpuriousError

\* AcceptedRootIsInstalled: the root that signed an accepted delegation is the
\* one installed when the call returns.
THEOREM AcceptedRootIsInstalledHolds == NoSave => (ReadSpec => AcceptedRootIsInstalled)
  <1>1. ASSUME IInv, SignedInv, ReaderInv, [Read \/ Others]_<<vars, reader>>,
               Returns, answer' = "ok"
        PROVE  ReadNext.deleg.root = disk.root
    BY <1>1, ReturnsIs, AcceptedIsSettled
  <1>2. SUFFICES ASSUME NoSave PROVE ReadSpec => AcceptedRootIsInstalled
    OBVIOUS
  <1>3. ReadSpec => [](IInv /\ HeldInv /\ SignedInv /\ ReaderInv)
    BY <1>2, ReaderInvariance
  <1>4. QED
    BY <1>1, <1>3, PTL DEF ReadSpec, AcceptedRootIsInstalled

\* AcceptedIsAMoment: what an unlocked call accepts is what a locked one would
\* have read at one moment of it, but for a history of that moment or later.
THEOREM AcceptedIsAMomentHolds == NoSave => (ReadSpec => AcceptedIsAMoment)
  <1>1. ASSUME IInv, SignedInv, ReaderInv, [Read \/ Others]_<<vars, reader>>,
               Returns, answer' = "ok"
        PROVE  \E m \in moments :
                  \A i \in 1..Len(FilesOf(call)) :
                      LET f == FilesOf(call)[i]
                      IN  IF f = "history"
                          THEN \A k \in Keys : ReadNext.history[k] <= m.history[k]
                          ELSE ReadNext[f] = m[f]
    <2>1. call # "none" /\ Ends /\ call \in {"read_principal", "load_verified"}
      BY <1>1, ReturnsIs DEF ReaderInv, CallInv
    <2>2. /\ "id" \in Opened /\ "deleg" \in Opened
          /\ call = "load_verified" => "device" \in Opened /\ "history" \in Opened
          /\ ReadNext.id = disk.id /\ ReadNext.rotations = disk.rotations
          /\ ReadNext.root = got.root /\ ReadNext.device = got.device
          /\ ReadNext.deleg = got.deleg /\ ReadNext.history = got.history
      BY <1>1, <2>1, AtTheEnd
    <2>3. /\ got.deleg.root = disk.root /\ Settled(disk.root)
          /\ call = "load_verified" => got.root = disk.root /\ got.deleg.device = got.device
      BY <1>1, <2>1, <2>2, AcceptedIsSettled DEF Matches
    <2>4. CASE call = "read_principal"
      <3>1. PICK m \in moments : /\ m.id = disk.id /\ m.deleg = got.deleg
                                 /\ m.rotations = disk.rotations
        BY <1>1, <2>2, <2>3, <2>4 DEF ReaderInv, MomentInv
      <3>2. \A i \in 1..Len(FilesOf(call)) : FilesOf(call)[i] \in {"id", "deleg", "rotations"}
        BY <2>4 DEF FilesOf
      <3>3. \A f \in {"id", "deleg", "rotations"} : f # "history" /\ ReadNext[f] = m[f]
        BY <2>2, <3>1
      <3>4. QED
        BY <3>2, <3>3
    <2>5. CASE call = "load_verified"
      <3>1. PICK m \in moments : Fits(m, Delegation)
        BY <1>1, <2>2, <2>3, <2>5 DEF ReaderInv, MomentInv, Delegation
      <3>2. /\ m.root = got.root /\ m.device = got.device /\ m.deleg = got.deleg
            /\ m.id = disk.id /\ m.rotations = disk.rotations
            /\ \A k \in Keys : got.history[k] <= m.history[k]
        BY <2>2, <2>5, <3>1 DEF Fits, Delegation
      <3>3. \A i \in 1..Len(FilesOf(call)) : FilesOf(call)[i] \in AgentFiles
        BY <2>5 DEF FilesOf, AgentFiles
      <3>4. \A f \in AgentFiles \ {"history"} : ReadNext[f] = m[f]
        BY <2>2, <3>2 DEF AgentFiles
      <3>5. \A k \in Keys : ReadNext.history[k] <= m.history[k]
        BY <2>2, <3>2
      <3>6. QED
        BY <3>3, <3>4, <3>5
    <2>6. QED
      BY <2>1, <2>4, <2>5
  <1>2. SUFFICES ASSUME NoSave PROVE ReadSpec => AcceptedIsAMoment
    OBVIOUS
  <1>3. ReadSpec => [](IInv /\ HeldInv /\ SignedInv /\ ReaderInv)
    BY <1>2, ReaderInvariance
  <1>4. QED
    BY <1>1, <1>3, PTL DEF ReadSpec, AcceptedIsAMoment

-----------------------------------------------------------------------------
(* The directory implements RootLine.                                      *)

USE ProcsAssumption, CallsAssumption, BoundsAssumption

\* The operator of the library, as RootLine sees it, element by element.
LEMMA PrefixMeans ==
  ASSUME NEW S, NEW s \in Seq(S), NEW t \in Seq(S)
  PROVE  Promise!IsPrefix(s, t) <=> (Len(s) <= Len(t) /\ \A i \in 1..Len(s) : s[i] = t[i])
  <1>1. ASSUME Len(s) <= Len(t)
        PROVE  /\ SubSeq(s, 1, Len(s)) = s
               /\ (SubSeq(t, 1, Len(s)) = s) <=> (\A i \in 1..Len(s) : s[i] = t[i])
    <2>1. SubSeq(s, 1, Len(s)) = s
      OBVIOUS
    <2>2. /\ SubSeq(t, 1, Len(s)) \in Seq(S) /\ Len(SubSeq(t, 1, Len(s))) = Len(s)
          /\ \A i \in 1..Len(s) : SubSeq(t, 1, Len(s))[i] = t[i]
      BY <1>1
    <2>3. QED
      BY <2>1, <2>2
  <1>2. QED
    BY <1>1 DEF Promise!IsPrefix

\* The roots of an identity: its genesis, then the root of each rotation.
LEMMA RootsOfMeans ==
  ASSUME NEW d \in Contents
  PROVE  /\ RootsOf(d) \in Seq(Nat) /\ Len(RootsOf(d)) = Len(Unpended(d)) + 1
         /\ RootsOf(d)[1] = d.id
         /\ \A i \in 1..Len(Unpended(d)) : RootsOf(d)[i + 1] = d.rotations[i].new
  <1> DEFINE us == Unpended(d)
             news == [i \in 1..Len(us) |-> us[i].new]
             roots == RootsOf(d)
  <1>1. /\ us \in Seq(Links) /\ Len(us) \in Nat /\ d.id \in Nat
        /\ \A i \in 1..Len(us) : us[i] = d.rotations[i] /\ us[i].new \in Nat
    BY UnpendedMeans, LinkType DEF Contents
  <1>2. roots = <<d.id>> \o news
    BY DEF RootsOf
  <1> HIDE DEF us, roots
  <1>3. news \in Seq(Nat) /\ Len(news) = Len(us) /\ \A i \in 1..Len(us) : news[i] = us[i].new
    <2>1. news \in [1..Len(us) -> Nat]
      BY <1>1
    <2>2. QED
      BY <1>1, <2>1
  <1>4. <<d.id>> \in Seq(Nat) /\ Len(<<d.id>>) = 1 /\ <<d.id>>[1] = d.id
    BY <1>1
  <1> HIDE DEF news
  <1>5. roots \in Seq(Nat) /\ Len(roots) = Len(us) + 1
    BY <1>1, <1>2, <1>3, <1>4
  <1>6. roots[1] = d.id
    BY <1>1, <1>2, <1>3, <1>4, <1>5
  <1>7. \A i \in 1..Len(us) : roots[i + 1] = news[i]
    BY <1>1, <1>2, <1>3, <1>4, <1>5
  <1>8. QED
    BY <1>1, <1>3, <1>5, <1>6, <1>7 DEF us, roots

\* Roots that are each younger than the one before are different keys.
LEMMA RootsAreLine ==
  ASSUME NEW d \in Contents, d.id \in Keys,
         \A i \in 1..Len(d.rotations) : d.id < d.rotations[i].new /\ d.rotations[i].new <= MaxKeys,
         \A i, j \in 1..Len(d.rotations) : i < j => d.rotations[i].new < d.rotations[j].new
  PROVE  RootsOf(d) \in Seq(Keys) /\ Promise!IsLine(d.id, RootsOf(d))
  <1> DEFINE us == Unpended(d)
             roots == RootsOf(d)
  <1>1. d.id \in Nat
    BY DEF Keys
  <1>2. /\ roots \in Seq(Nat) /\ Len(us) \in Nat /\ Len(roots) = Len(us) + 1
        /\ roots[1] = d.id
        /\ \A i \in 1..Len(us) : /\ i \in 1..Len(d.rotations)
                                 /\ roots[i + 1] = d.rotations[i].new
                                 /\ d.rotations[i].new \in Nat
    <2>1. /\ d.rotations \in Seq(Links) /\ Len(us) \in Nat /\ Len(d.rotations) \in Nat
          /\ Len(us) <= Len(d.rotations)
      BY <1>1, UnpendedMeans
    <2>2. \A i \in 1..Len(us) : i \in 1..Len(d.rotations)
      BY <2>1
    <2>3. \A i \in 1..Len(d.rotations) : d.rotations[i].new \in Nat
      BY <2>1, LinkType
    <2>4. QED
      BY <1>1, <2>1, <2>2, <2>3, RootsOfMeans
  <1> HIDE DEF us, roots
  <1>3. \A i \in 1..Len(us) : d.id < roots[i + 1] /\ roots[i + 1] <= MaxKeys
    BY <1>1, <1>2
  <1>4. \A i, j \in 1..Len(us) : i < j => roots[i + 1] < roots[j + 1]
    BY <1>1, <1>2
  <1>5. \A i \in 1..Len(roots) : i = 1 \/ (i - 1 \in 1..Len(us) /\ i = (i - 1) + 1)
    BY <1>2
  <1>6. \A i \in 1..Len(roots) : roots[i] \in Keys
    <2> TAKE i \in 1..Len(roots)
    <2>1. CASE i = 1
      BY <1>1, <1>2, <2>1
    <2>2. CASE i # 1
      <3>1. i - 1 \in 1..Len(us) /\ roots[i] = roots[(i - 1) + 1]
        BY <1>5, <2>2
      <3>2. roots[i] \in Nat /\ d.id < roots[i] /\ roots[i] <= MaxKeys
        BY <1>2, <1>3, <3>1
      <3>3. QED
        BY <1>1, <3>2 DEF Keys
    <2>3. QED
      BY <2>1, <2>2
  <1>7. roots \in Seq(Keys)
    <2>1. Len(roots) \in Nat /\ roots \in [1..Len(roots) -> Nat]
      BY <1>2
    <2>2. roots \in [1..Len(roots) -> Keys]
      BY <1>6, <2>1
    <2>3. QED
      BY <2>1, <2>2
  <1>8. ASSUME NEW i \in 1..Len(roots), NEW j \in 1..Len(roots), i < j
        PROVE  roots[i] < roots[j]
    <2>1. j - 1 \in 1..Len(us) /\ j = (j - 1) + 1 /\ roots[j] = roots[(j - 1) + 1]
      BY <1>2, <1>5, <1>8
    <2>2. CASE i = 1
      BY <1>2, <1>3, <2>1, <2>2
    <2>3. CASE i # 1
      <3>1. i - 1 \in 1..Len(us) /\ i - 1 < j - 1 /\ roots[i] = roots[(i - 1) + 1]
        BY <1>2, <1>5, <1>8, <2>3
      <3>2. QED
        BY <1>4, <2>1, <3>1
    <2>4. QED
      BY <2>2, <2>3
  <1>9. ASSUME NEW i \in 1..Len(roots), NEW j \in 1..Len(roots), roots[i] = roots[j]
        PROVE  i = j
    <2>1. i \in Nat /\ j \in Nat /\ roots[i] \in Nat /\ roots[j] \in Nat
      BY <1>2
    <2>2. ~(i < j) /\ ~(j < i)
      BY <1>8, <1>9, <2>1
    <2>3. QED
      BY <2>1, <2>2
  <1>10. Promise!IsLine(d.id, roots)
    BY <1>2, <1>7, <1>9 DEF Promise!IsLine
  <1>11. QED
    BY <1>1, <1>7, <1>10 DEF roots

\* A step, seen as the line of the one identity the directory ever holds.
LEMMA OwnerLineGrows ==
  ASSUME IInv, IInv', HeldInv, HeldInv', [Next]_vars, NEW id \in Keys
  PROVE  /\ OwnerLine[id] \in Seq(Keys) /\ OwnerLine'[id] \in Seq(Keys)
         /\ Promise!IsLine(id, OwnerLine'[id])
         /\ Len(OwnerLine[id]) <= Len(OwnerLine'[id])
         /\ \A i \in 1..Len(OwnerLine[id]) : OwnerLine[id][i] = OwnerLine'[id][i]
  <1>a. /\ OwnerLine[id] = IF Committed /\ disk.id = id THEN RootsOf(disk) ELSE <<>>
        /\ OwnerLine'[id] = IF Committed' /\ disk'.id = id THEN RootsOf(disk') ELSE <<>>
        /\ <<>> \in Seq(Keys) /\ Len(<<>>) = 0
    BY DEF OwnerLine
  <1>b. disk \in Contents /\ disk' \in Contents
    BY DEF IInv, TypeOK
  <1>c. Committed => RootsOf(disk) \in Seq(Keys)
    <2> SUFFICES ASSUME Committed PROVE RootsOf(disk) \in Seq(Keys)
      OBVIOUS
    <2>1. disk.id \in Keys /\ made \in 0..MaxKeys /\ Chained(disk.id, disk.rotations)
      BY DEF HeldInv, IInv, TypeOK, DirInv, ChainOK
    <2>2. \A i \in 1..Len(disk.rotations) : disk.rotations[i].new \in Nat
      BY <1>b, UnpendedMeans, LinkType
    <2>3. \A i \in 1..Len(disk.rotations) : /\ disk.id < disk.rotations[i].new
                                            /\ disk.rotations[i].new <= MaxKeys
      BY <2>1, <2>2 DEF Chained
    <2>4. QED
      BY <1>b, <2>1, <2>3, RootsAreLine DEF Chained
  <1>d. Committed' => /\ RootsOf(disk') \in Seq(Keys) /\ Promise!IsLine(disk'.id, RootsOf(disk'))
    <2> SUFFICES ASSUME Committed'
                 PROVE  RootsOf(disk') \in Seq(Keys) /\ Promise!IsLine(disk'.id, RootsOf(disk'))
      OBVIOUS
    <2>1. disk'.id \in Keys /\ made' \in 0..MaxKeys /\ Chained(disk.id, disk.rotations)'
      BY DEF HeldInv, IInv, TypeOK, DirInv, ChainOK
    <2>2. \A i \in 1..Len(disk'.rotations) : disk'.rotations[i].new \in Nat
      BY <1>b, UnpendedMeans, LinkType
    <2>3. \A i \in 1..Len(disk'.rotations) : /\ disk'.id < disk'.rotations[i].new
                                             /\ disk'.rotations[i].new <= MaxKeys
      BY <2>1, <2>2 DEF Chained
    <2>4. QED
      BY <1>b, <2>1, <2>3, RootsAreLine DEF Chained
  <1>e. Promise!IsLine(id, <<>>)
    BY <1>a DEF Promise!IsLine
  <1>1. CASE Committed /\ disk.id = id
    <2>1. LineKept
      BY <1>1, LineGrows
    <2>2. OwnerLine[id] = RootsOf(disk) /\ OwnerLine'[id] = RootsOf(disk')
      BY <1>1, <1>a, <2>1 DEF LineKept
    <2> DEFINE us == Unpended(disk)
               vs == Unpended(disk')
    <2>3. /\ Len(us) \in Nat /\ Len(vs) \in Nat /\ Len(us) <= Len(vs)
          /\ \A i \in 1..Len(us) : disk'.rotations[i] = disk.rotations[i]
          /\ disk'.id = disk.id
      BY <1>b, <2>1, UnpendedMeans DEF LineKept
    <2>4. /\ Len(RootsOf(disk)) = Len(us) + 1 /\ RootsOf(disk)[1] = disk.id
          /\ \A i \in 1..Len(us) : RootsOf(disk)[i + 1] = disk.rotations[i].new
          /\ Len(RootsOf(disk')) = Len(vs) + 1 /\ RootsOf(disk')[1] = disk'.id
          /\ \A i \in 1..Len(vs) : RootsOf(disk')[i + 1] = disk'.rotations[i].new
      BY <1>b, RootsOfMeans
    <2> HIDE DEF us, vs
    <2>5. ASSUME NEW i \in 1..Len(RootsOf(disk)) PROVE RootsOf(disk)[i] = RootsOf(disk')[i]
      <3>1. CASE i = 1
        BY <2>3, <2>4, <3>1
      <3>2. CASE i # 1
        <4>1. i - 1 \in 1..Len(us) /\ i - 1 \in 1..Len(vs) /\ i = (i - 1) + 1
          BY <2>3, <2>4, <3>2
        <4>2. RootsOf(disk)[(i - 1) + 1] = RootsOf(disk')[(i - 1) + 1]
          BY <2>3, <2>4, <4>1
        <4>3. QED
          BY <4>1, <4>2
      <3>3. QED
        BY <3>1, <3>2
    <2>6. Len(RootsOf(disk)) <= Len(RootsOf(disk'))
      BY <2>3, <2>4
    <2>7. QED
      BY <1>1, <1>c, <1>d, <2>1, <2>2, <2>3, <2>5, <2>6 DEF LineKept
  <1>2. CASE ~(Committed /\ disk.id = id)
    <2>1. OwnerLine[id] = <<>>
      BY <1>2, <1>a
    <2>2. OwnerLine'[id] \in Seq(Keys) /\ Promise!IsLine(id, OwnerLine'[id])
      BY <1>a, <1>d, <1>e
    <2>3. Len(OwnerLine'[id]) \in Nat /\ OwnerLine[id] \in Seq(Keys) /\ Len(OwnerLine[id]) = 0
      <3>1. \A l \in Seq(Keys) : Len(l) \in Nat
        OBVIOUS
      <3>2. <<>> \in Seq(Keys) /\ Len(<<>>) = 0
        OBVIOUS
      <3>3. OwnerLine[id] \in Seq(Keys) /\ Len(OwnerLine[id]) = 0
        BY <2>1, <3>2
      <3>4. QED
        BY <2>2, <3>1, <3>3
    <2>4. QED
      BY <2>2, <2>3
  <1>3. QED
    BY <1>1, <1>2

\* ImplementsRootLine: the line of the identity is never rewritten, shortened
\* or forked, wherever rotate_root is crashed, failed and retried.
THEOREM ImplementsRootLineHolds == NoSave => (Spec => ImplementsRootLine)
  <1>1. Init => Promise!Init
    BY DEF Init, Promise!Init, OwnerLine, Committed
  <1>2. IInv /\ IInv' /\ HeldInv /\ HeldInv' /\ [Next]_vars => [Promise!Extend]_OwnerLine
    <2> SUFFICES ASSUME IInv, IInv', HeldInv, HeldInv', [Next]_vars, NEW id \in Keys
                 PROVE  /\ Promise!IsLine(id, OwnerLine'[id])
                        /\ Promise!IsPrefix(OwnerLine[id], OwnerLine'[id])
      BY DEF Promise!Extend
    <2>1. QED
      BY OwnerLineGrows, PrefixMeans
  <1>3. SUFFICES ASSUME NoSave PROVE Spec => ImplementsRootLine
    OBVIOUS
  <1>4. (Spec => []IInv) /\ (Spec => []HeldInv)
    BY <1>3, Invariance, HeldInvariance
  <1>5. QED
    BY <1>1, <1>2, <1>4, PTL DEF Spec, ImplementsRootLine, Promise!Spec

-----------------------------------------------------------------------------
(* A receiver of the registry that lists the agent.                        *)

\* What a receiver knows of an id is a beginning of the owner's line.
Follows(id, roots) ==
  /\ Committed /\ id = disk.id
  /\ Len(roots) <= Len(OwnerLine[id])
  /\ \A i \in 1..Len(roots) : roots[i] = OwnerLine[id][i]

\* rotation_roots of a value that ends at its root: the value's own roots, for
\* a value with a pending rotation does not end at its root.
LEMMA CheckedIsNotPending ==
  ASSUME NEW d \in Contents, R!IsChain(d.id, d.rotations),
         d.root = R!Last(R!RotationRoots(d.id, d.rotations))
  PROVE  ~Pending(d) /\ R!RotationRoots(d.id, d.rotations) = RootsOf(d)
  <1> DEFINE rs == d.rotations
             news == [i \in 1..Len(rs) |-> rs[i].new]
             roots == R!RotationRoots(d.id, rs)
  <1>1. /\ rs \in Seq(Links) /\ Len(rs) \in Nat /\ d.id \in Nat
        /\ \A i \in 1..Len(rs) : rs[i].new \in Nat
    BY UnpendedMeans, LinkType DEF Contents
  <1>2. roots = <<d.id>> \o news
    BY DEF R!RotationRoots
  <1>3. news \in Seq(Nat) /\ Len(news) = Len(rs) /\ \A i \in 1..Len(rs) : news[i] = rs[i].new
    <2>1. news \in [1..Len(rs) -> Nat]
      BY <1>1
    <2>2. QED
      BY <1>1, <2>1
  <1>4. R!IsChain(d.id, rs) /\ d.root = R!Last(roots)
    OBVIOUS
  <1> HIDE DEF roots, news
  <1>5. roots \in Seq(Nat) /\ Len(roots) = Len(rs) + 1
    <2>1. <<d.id>> \in Seq(Nat) /\ Len(<<d.id>>) = 1
      BY <1>1
    <2>2. QED
      BY <1>1, <1>2, <1>3, <2>1
  <1>6. \A i \in 1..Len(rs) : roots[i + 1] = rs[i].new
    <2>1. \A i \in 1..Len(rs) : roots[i + 1] = news[i]
      BY <1>1, <1>2, <1>3, <1>5
    <2>2. QED
      BY <1>3, <2>1
  <1>7. rs # <<>> => d.root = rs[Len(rs)].new
    <2> SUFFICES ASSUME rs # <<>> PROVE d.root = rs[Len(rs)].new
      OBVIOUS
    <2>1. Len(rs) \in 1..Len(rs)
      BY <1>1, EmptySeq
    <2>2. d.root = roots[Len(rs) + 1]
      BY <1>4, <1>5 DEF R!Last
    <2>3. QED
      BY <1>6, <2>1, <2>2
  <1>8. rs # <<>> => rs[Len(rs)].old # rs[Len(rs)].new
    <2> SUFFICES ASSUME rs # <<>> PROVE rs[Len(rs)].old # rs[Len(rs)].new
      OBVIOUS
    <2>1. Len(rs) \in 1..Len(rs)
      BY <1>1, EmptySeq
    <2>2. CASE Len(rs) = 1
      BY <1>4, <2>1, <2>2 DEF R!IsChain
    <2>3. CASE Len(rs) # 1
      <3>1. Len(rs) - 1 \in 1..(Len(rs) - 1)
        <4>1. \A n \in Nat : n \in 1..n /\ n # 1 => n - 1 \in 1..(n - 1)
          OBVIOUS
        <4>2. QED
          BY <1>1, <2>1, <2>3, <4>1
      <3>2. QED
        BY <1>4, <2>1, <2>3, <3>1 DEF R!IsChain
    <2>4. QED
      BY <2>2, <2>3
  <1>9. ~Pending(d)
    BY <1>7, <1>8 DEF Pending
  <1>10. Unpended(d) = rs
    BY <1>9 DEF Unpended
  <1>11. RootsOf(d) = <<d.id>> \o news
    BY <1>10 DEF RootsOf, news
  <1>12. QED
    BY <1>2, <1>9, <1>11 DEF roots

\* The chain a receiver takes from an entry follows the owner.
LEMMA EntryFollows ==
  ASSUME IInv, HeldInv, NEW d \in Contents, Behind(d)
  PROVE  /\ Follows(d.id, <<d.id>>)
         /\ R!IsChain(d.id, d.rotations) /\ d.root = R!Last(R!RotationRoots(d.id, d.rotations))
              => Follows(d.id, R!RotationRoots(d.id, d.rotations))
  <1>1. /\ Committed /\ d.id = disk.id /\ disk.id \in Keys /\ disk \in Contents
        /\ Len(Unpended(d)) <= Len(Unpended(disk))
        /\ \A i \in 1..Len(Unpended(d)) : d.rotations[i] = disk.rotations[i]
    BY DEF Behind, HeldInv, IInv, TypeOK
  <1>2. OwnerLine[d.id] = RootsOf(disk)
    BY <1>1 DEF OwnerLine
  <1> DEFINE us == Unpended(d)
             vs == Unpended(disk)
  <1>3. /\ Len(us) \in Nat /\ Len(vs) \in Nat
        /\ Len(RootsOf(d)) = Len(us) + 1 /\ RootsOf(d)[1] = d.id
        /\ \A i \in 1..Len(us) : RootsOf(d)[i + 1] = d.rotations[i].new
        /\ Len(RootsOf(disk)) = Len(vs) + 1 /\ RootsOf(disk)[1] = disk.id
        /\ \A i \in 1..Len(vs) : RootsOf(disk)[i + 1] = disk.rotations[i].new
    BY <1>1, UnpendedMeans, RootsOfMeans
  <1>4. Follows(d.id, <<d.id>>)
    <2>1. Len(<<d.id>>) = 1 /\ <<d.id>>[1] = d.id
      OBVIOUS
    <2>2. QED
      BY <1>1, <1>2, <1>3, <2>1 DEF Follows
  <1>5. Follows(d.id, RootsOf(d))
    <2>1. ASSUME NEW i \in 1..Len(RootsOf(d)) PROVE RootsOf(d)[i] = RootsOf(disk)[i]
      <3>1. CASE i = 1
        BY <1>1, <1>3, <3>1
      <3>2. CASE i # 1
        <4>1. i - 1 \in 1..Len(us) /\ i - 1 \in 1..Len(vs) /\ i = (i - 1) + 1
          BY <1>1, <1>3, <3>2
        <4>2. RootsOf(d)[(i - 1) + 1] = RootsOf(disk)[(i - 1) + 1]
          BY <1>1, <1>3, <4>1
        <4>3. QED
          BY <4>1, <4>2
      <3>3. QED
        BY <3>1, <3>2
    <2>2. Len(RootsOf(d)) <= Len(RootsOf(disk))
      BY <1>1, <1>3
    <2>3. QED
      BY <1>1, <1>2, <2>1, <2>2 DEF Follows
  <1>6. QED
    BY <1>4, <1>5, CheckedIsNotPending

\* A delivery adds at most the chain of the value that was published.
LEMMA DeliverFollows ==
  ASSUME IInv, HeldInv, ReceiverFollowsOwner, NEW p \in Procs, Deliver(p)
  PROVE  ReceiverFollowsOwner'
  <1> DEFINE id == mem[p].id
             e == Entry(mem[p])
             registry == [i \in {id} |-> e]
             entries == R!VerifiedEntries(registry)
  <1>1. /\ mem[p] \in Contents /\ Behind(mem[p])
    BY DEF IInv, TypeOK, HeldInv, HandedOutInv, Deliver
  <1>2. /\ R!CheckEntry(id, e) /\ accepted' = R!Updated(entries, accepted)
        /\ UNCHANGED <<disk, files>>
    BY DEF Deliver, vars
  <1>3. /\ e.kind = "agent" /\ e.current = mem[p].root /\ e.rotations = mem[p].rotations
    BY DEF Entry
  <1>4. /\ DOMAIN entries = {id} \/ DOMAIN entries = {}
        /\ \A i \in DOMAIN entries :
              entries[i].roots = IF R!IsSelfRooted(e)
                                 THEN R!RotationRoots(id, e.rotations) ELSE <<>>
    BY DEF R!VerifiedEntries
  <1> HIDE DEF entries, registry
  <1>5. R!IsSelfRooted(e) => /\ R!IsChain(id, e.rotations)
                             /\ e.current = R!Last(R!RotationRoots(id, e.rotations))
    BY <1>2, <1>3 DEF R!CheckEntry
  <1>6. ASSUME NEW i \in DOMAIN accepted' PROVE Follows(i, accepted'[i].roots)
    <2>1. CASE i \in DOMAIN entries /\ (i \notin DOMAIN accepted \/ entries[i].roots # <<>>)
      <3>1. accepted'[i].roots = (IF entries[i].roots = <<>> THEN <<i>> ELSE entries[i].roots)
            /\ i = id
        BY <1>2, <1>4, <1>6, <2>1 DEF R!Updated, R!AsAccepted
      <3>2. QED
        BY <1>1, <1>3, <1>4, <1>5, <2>1, <3>1, EntryFollows
    <2>2. CASE ~(i \in DOMAIN entries /\ (i \notin DOMAIN accepted \/ entries[i].roots # <<>>))
      <3>1. i \in DOMAIN accepted /\ accepted'[i] = accepted[i]
        BY <1>2, <1>6, <2>2 DEF R!Updated
      <3>2. QED
        BY <3>1 DEF ReceiverFollowsOwner, Follows
    <2>3. QED
      BY <2>1, <2>2
  <1>7. OwnerLine' = OwnerLine
    BY <1>2 DEF OwnerLine, Committed, RootsOf, Unpended, Pending
  <1>8. QED
    BY <1>2, <1>6, <1>7 DEF ReceiverFollowsOwner, Follows, Committed

\* Whatever happens to the directory, what was taken from it stays behind it.
LEMMA DirectoryFollows ==
  ASSUME IInv, IInv', HeldInv, HeldInv', [Next]_vars, ReceiverFollowsOwner,
         accepted' = accepted
  PROVE  ReceiverFollowsOwner'
  <1> SUFFICES ASSUME NEW id \in DOMAIN accepted
               PROVE  /\ Committed' /\ id = disk'.id
                      /\ Len(accepted[id].roots) <= Len(OwnerLine'[id])
                      /\ \A i \in 1..Len(accepted[id].roots) :
                            accepted[id].roots[i] = OwnerLine'[id][i]
    BY DEF ReceiverFollowsOwner
  <1> DEFINE roots == accepted[id].roots
  <1>1. /\ Committed /\ id = disk.id /\ Len(roots) <= Len(OwnerLine[id])
        /\ \A i \in 1..Len(roots) : roots[i] = OwnerLine[id][i]
    BY DEF ReceiverFollowsOwner
  <1>2. id \in Keys /\ LineKept
    BY <1>1, LineGrows DEF HeldInv
  <1>3. /\ OwnerLine[id] \in Seq(Keys) /\ OwnerLine'[id] \in Seq(Keys)
        /\ Len(OwnerLine[id]) <= Len(OwnerLine'[id])
        /\ \A i \in 1..Len(OwnerLine[id]) : OwnerLine[id][i] = OwnerLine'[id][i]
    BY <1>2, OwnerLineGrows
  <1>4. Len(OwnerLine[id]) \in Nat /\ Len(OwnerLine'[id]) \in Nat
    BY <1>3
  <1>5. QED
    BY <1>1, <1>2, <1>3, <1>4 DEF LineKept

\* The receiver changes nothing in the directory.
LEMMA PublishIsNext == [PublishNext]_<<vars, accepted>> => [Next]_vars
  BY DEF PublishNext, Deliver

LEMMA PublishDirectory == PublishSpec => Spec
  <1>1. PublishInit => Init
    BY DEF PublishInit
  <1>2. QED
    BY <1>1, PublishIsNext, PTL DEF PublishSpec, Spec

\* ReceiverFollowsOwner: however late an entry is, and whatever rotate_root was
\* stopped at when the value it was made from was loaded, the receiver takes
\* only roots the owner has installed, in the owner's order.
THEOREM ReceiverFollowsOwnerHolds == NoSave => (PublishSpec => []ReceiverFollowsOwner)
  <1>1. PublishInit => ReceiverFollowsOwner
    <2>1. accepted = <<>> => DOMAIN accepted = {}
      OBVIOUS
    <2>2. QED
      BY <2>1 DEF PublishInit, ReceiverFollowsOwner
  <1>2. ASSUME IInv, IInv', HeldInv, HeldInv', ReceiverFollowsOwner,
               [PublishNext]_<<vars, accepted>>
        PROVE  ReceiverFollowsOwner'
    <2>1. CASE \E p \in Procs : Deliver(p)
      BY <1>2, <2>1, DeliverFollows
    <2>2. CASE accepted' = accepted
      BY <1>2, <2>2, PublishIsNext, DirectoryFollows
    <2>3. QED
      BY <1>2, <2>1, <2>2 DEF PublishNext
  <1>3. SUFFICES ASSUME NoSave PROVE PublishSpec => []ReceiverFollowsOwner
    OBVIOUS
  <1>4. (Spec => []IInv) /\ (Spec => []HeldInv)
    BY <1>3, Invariance, HeldInvariance
  <1>5. QED
    BY <1>1, <1>2, <1>4, PublishDirectory, PTL DEF PublishSpec
=============================================================================

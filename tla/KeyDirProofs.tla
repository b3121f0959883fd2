---------------------------- MODULE KeyDirProofs ----------------------------
(***************************************************************************)
(* Theorems about the agent key directory, for any number of processes,    *)
(* keys and seconds.                                                       *)
(***************************************************************************)
EXTENDS KeyDirInductive, SequenceTheorems, TLAPS

USE ProcsAssumption, CallsAssumption, BoundsAssumption

LEMMA BlankType == Blank \in Contents
  BY DEF Blank, Contents, Delegations, Links, Never, NoKey

LEMMA DelegateType ==
  ASSUME NEW r \in Nat, NEW d \in Nat, NEW t \in Times
  PROVE  Delegate(r, d, t) \in Delegations
  BY DEF Delegate, Delegations, Times

LEMMA RetireType ==
  ASSUME NEW h \in [Keys -> Nat], NEW d \in Nat, NEW t \in Times
  PROVE  Retire(h, d, t) \in [Keys -> Nat]
  <1>1. CASE d \in Keys
    <2>1. (IF h[d] < t THEN h[d] ELSE t) \in Nat
      BY <1>1 DEF Times
    <2>2. QED
      BY <2>1 DEF Retire
  <1>2. CASE d \notin Keys
    <2>1. Retire(h, d, t) = h
      BY <1>2 DEF Retire
    <2>2. QED
      BY <2>1
  <1>3. QED
    BY <1>1, <1>2

LEMMA UnpendedType ==
  ASSUME NEW d \in Contents
  PROVE  Unpended(d) \in Seq(Links)
  BY DEF Unpended, Contents, Pending

LEMMA LinkType ==
  ASSUME NEW rs \in Seq(Links), NEW i \in 1..Len(rs)
  PROVE  rs[i].old \in Nat /\ rs[i].new \in Nat
  <1>1. rs[i] \in Links
    BY ElementOfSeq
  <1>2. QED
    BY <1>1 DEF Links

LEMMA NewIdentityType ==
  ASSUME made \in Nat, now \in Times
  PROVE  NewIdentity(made + 1, made + 2, now) \in Contents
  <1>1. made + 1 \in Nat /\ made + 2 \in Nat
    OBVIOUS
  <1>2. Delegate(made + 1, made + 2, now) \in Delegations
    BY <1>1, DelegateType
  <1>3. QED
    BY <1>1, <1>2, BlankType DEF NewIdentity, Contents

LEMMA TypeInit == Init => TypeOK
  BY BlankType DEF Init, TypeOK, Keys, Times, Never

LEMMA TypeBegin ==
  ASSUME TypeOK, NEW p \in Procs, NEW o \in Ops, NEW b \in Contents, Begin(p, o, b),
         made' \in 0..MaxKeys
  PROVE  TypeOK'
  BY DEF TypeOK, Begin

LEMMA TypeEnd ==
  ASSUME TypeOK, NEW p \in Procs, End(p), made' = made, mem' \in [Procs -> Contents]
  PROVE  TypeOK'
  <1>1. 0 \in Times
    BY DEF Times
  <1>2. holder' \in Procs \cup {NoProc} /\ readers' \subseteq Procs
    BY DEF TypeOK, End, Unlock
  <1>3. QED
    BY <1>1, <1>2, BlankType DEF TypeOK, End

LEMMA TypeLock ==
  ASSUME TypeOK, NEW p \in Procs, NEW f \in AgentFiles, NEW b \in Contents, Lock(p, f, b),
         made' \in 0..MaxKeys
  PROVE  TypeOK'
  BY DEF TypeOK, Lock

LEMMA TypeWrote ==
  ASSUME TypeOK, NEW p \in Procs, NEW f \in AgentFiles, Wrote(p, f),
         disk' \in Contents, left' \in [Keys -> Nat]
  PROVE  TypeOK'
  <1>1. NextFile(op[p], f) \in AgentFiles \cup {"return"}
    BY DEF NextFile, AgentFiles
  <1>2. QED
    BY <1>1 DEF TypeOK, Wrote

(* Every step keeps the types.                                             *)
LEMMA TypeNext ==
  ASSUME TypeOK, [Next]_vars
  PROVE  TypeOK'
  <1>1. ASSUME NEW p \in Procs, StartInit(p) PROVE TypeOK'
    <2> DEFINE b == NewIdentity(made + 1, made + 2, now)
    <2>1. made' \in 0..MaxKeys /\ made \in Nat /\ now \in Times
      BY <1>1 DEF StartInit, TypeOK, Keys
    <2>2. b \in Contents
      BY <2>1, NewIdentityType
    <2>3. Begin(p, "init", b) /\ "init" \in Ops
      BY <1>1 DEF StartInit, Ops
    <2>4. QED
      BY <2>1, <2>2, <2>3, TypeBegin
  <1>2. ASSUME NEW p \in Procs, Start(p) PROVE TypeOK'
    <2>1. PICK o \in Ops \ {"init", "save", "renew_if_due"} : Begin(p, o, Blank)
      BY <1>2 DEF Start
    <2>2. made' \in 0..MaxKeys
      BY <1>2 DEF Start, TypeOK
    <2>3. QED
      BY <2>1, <2>2, BlankType, TypeBegin
  <1>3. ASSUME NEW p \in Procs, StartSave(p) PROVE TypeOK'
    <2>1. mem[p] \in Contents /\ made' \in 0..MaxKeys /\ "save" \in Ops
      BY <1>3 DEF StartSave, TypeOK, Ops
    <2>2. QED
      BY <1>3, <2>1, TypeBegin DEF StartSave
  <1>4. ASSUME NEW p \in Procs, mem[p] # Blank
        PROVE  [mem[p] EXCEPT !.deleg = Delegate(mem[p].root, mem[p].device, now)] \in Contents
    <2>1. mem[p] \in Contents /\ now \in Times
      BY DEF TypeOK
    <2>2. Delegate(mem[p].root, mem[p].device, now) \in Delegations
      BY <2>1, DelegateType DEF Contents
    <2>3. QED
      BY <2>1, <2>2 DEF Contents
  <1>5. ASSUME NEW p \in Procs, StartRenewIfDue(p) PROVE TypeOK'
    <2>1. made' \in 0..MaxKeys /\ "renew_if_due" \in Ops
      BY <1>5 DEF StartRenewIfDue, TypeOK, Ops
    <2>2. QED
      BY <1>4, <1>5, <2>1, TypeBegin DEF StartRenewIfDue
  <1>6. ASSUME NEW p \in Procs, RenewInMemory(p) PROVE TypeOK'
    <2>1. mem' \in [Procs -> Contents]
      BY <1>4, <1>6 DEF RenewInMemory, TypeOK
    <2>2. QED
      BY <1>6, <2>1 DEF RenewInMemory, TypeOK, locals
  <1>18. ASSUME NEW p \in Procs, InitElsewhere(p) PROVE TypeOK'
    <2>1. made' \in 0..MaxKeys /\ made \in Nat /\ now \in Times
      BY <1>18 DEF InitElsewhere, TypeOK, Keys
    <2>2. mem' \in [Procs -> Contents]
      BY <1>18, <2>1, NewIdentityType DEF InitElsewhere, TypeOK
    <2>3. QED
      BY <1>18, <2>1, <2>2 DEF InitElsewhere, TypeOK, locals
  <1>7. ASSUME NEW p \in Procs, Refuse(p) PROVE TypeOK'
    BY <1>7, TypeEnd DEF Refuse, TypeOK
  <1>8. ASSUME NEW p \in Procs, LockExclusive(p) PROVE TypeOK'
    <2>1. CASE LockInit(p) \/ LockSave(p) \/ LockRenewIfDue(p)
      <3>1. CASE Refuse(p)
        BY <1>7, <3>1
      <3>2. CASE \E f \in {"root", "deleg"} : Lock(p, f, buf[p]) /\ made' = made
        <4>1. buf[p] \in Contents /\ "root" \in AgentFiles /\ "deleg" \in AgentFiles
              /\ made' \in 0..MaxKeys
          BY <3>2 DEF TypeOK, AgentFiles
        <4>2. QED
          BY <3>2, <4>1, TypeLock
      <3>3. QED
        BY <2>1, <3>1, <3>2 DEF LockInit, LockSave, LockRenewIfDue
    <2>2. CASE LockRenew(p)
      <3> DEFINE b == [disk EXCEPT !.deleg = Delegate(disk.root, disk.device, at[p])]
      <3>1. b \in Contents
        <4>1. Delegate(disk.root, disk.device, at[p]) \in Delegations
          BY DelegateType DEF TypeOK, Contents
        <4>2. QED
          BY <4>1 DEF TypeOK, Contents
      <3>2. CASE Lock(p, "deleg", b) /\ made' = made
        BY <3>1, <3>2, TypeLock DEF AgentFiles, TypeOK
      <3>3. QED
        BY <2>2, <3>2, <1>7 DEF LockRenew
    <2>3. CASE LockRotateDevice(p)
      <3> DEFINE b == [disk EXCEPT !.history = Retire(@, disk.device, at[p]),
                                   !.device = made + 1,
                                   !.deleg = Delegate(disk.root, made + 1, at[p])]
      <3>1. b \in Contents
        <4>1. made + 1 \in Nat /\ disk.device \in Nat /\ disk.history \in [Keys -> Nat]
              /\ disk.root \in Nat /\ at[p] \in Times
          BY DEF TypeOK, Contents
        <4>2. Delegate(disk.root, made + 1, at[p]) \in Delegations
          BY <4>1, DelegateType
        <4>3. Retire(disk.history, disk.device, at[p]) \in [Keys -> Nat]
          BY <4>1, RetireType
        <4>4. QED
          BY <4>1, <4>2, <4>3 DEF TypeOK, Contents
      <3>2. CASE made + 1 \in Keys /\ made' = made + 1 /\ Lock(p, "history", b)
        <4>1. "history" \in AgentFiles /\ made' \in 0..MaxKeys
          BY <3>2 DEF AgentFiles, TypeOK, Keys
        <4>2. QED
          BY <3>1, <3>2, <4>1, TypeLock
      <3>3. QED
        BY <2>3, <3>2, <1>7 DEF LockRotateDevice
    <2>4. CASE LockRotateRoot(p)
      <3> DEFINE b == [disk EXCEPT !.rotations = Append(Unpended(disk),
                                       [old |-> disk.root, new |-> made + 1]),
                                   !.root = made + 1]
      <3>1. b \in Contents
        <4>1. disk \in Contents /\ made + 1 \in Nat /\ disk.root \in Nat
          BY DEF TypeOK, Contents
        <4>2. Unpended(disk) \in Seq(Links)
          BY <4>1, UnpendedType
        <4>3. Append(Unpended(disk), [old |-> disk.root, new |-> made + 1]) \in Seq(Links)
          BY <4>1, <4>2 DEF Links
        <4>4. QED
          BY <4>1, <4>3 DEF Contents
      <3>2. CASE made + 1 \in Keys /\ made' = made + 1 /\ Lock(p, "rotations", b)
        <4>1. "rotations" \in AgentFiles /\ made' \in 0..MaxKeys
          BY <3>2 DEF AgentFiles, TypeOK, Keys
        <4>2. QED
          BY <3>1, <3>2, <4>1, TypeLock
      <3>3. QED
        BY <2>4, <3>2, <1>7 DEF LockRotateRoot
    <2>5. QED
      BY <1>8, <2>1, <2>2, <2>3, <2>4 DEF LockExclusive
  <1>9. ASSUME NEW p \in Procs, Write(p) PROVE TypeOK'
    <2>1. disk \in Contents /\ buf[p] \in Contents /\ left \in [Keys -> Nat] /\ now \in Nat
      BY DEF TypeOK, Times
    <2>2. disk' \in Contents
      BY <1>9, <2>1 DEF Write, WriteRoot, WriteDevice, WriteDelegation, WriteHistory,
                        WriteRotations, WritePrincipalId, Contents
    <2>3. left' \in [Keys -> Nat]
      BY <1>9, <2>1 DEF Write, WriteRoot, WriteDevice, WriteDelegation, WriteHistory,
                        WriteRotations, WritePrincipalId
    <2>4. \E f \in AgentFiles : Wrote(p, f)
      BY <1>9 DEF Write, WriteRoot, WriteDevice, WriteDelegation, WriteHistory,
                  WriteRotations, WritePrincipalId, AgentFiles
    <2>5. QED
      BY <2>2, <2>3, <2>4, TypeWrote
  <1>10. ASSUME NEW p \in Procs, LockShared(p) PROVE TypeOK'
    BY <1>10 DEF LockShared, TypeOK
  <1>11. ASSUME NEW p \in Procs, ReadKeys(p) PROVE TypeOK'
    <2>1. CASE Refuse(p)
      BY <1>7, <2>1
    <2>2. CASE ~Refuse(p)
      <3>1. PICK r \in {disk.root, NoKey} :
               buf' = [buf EXCEPT ![p] = [Blank EXCEPT !.root = r, !.device = disk.device,
                                          !.deleg = disk.deleg, !.id = disk.id]]
        BY <1>11, <2>2 DEF ReadKeys
      <3> DEFINE b == [Blank EXCEPT !.root = r, !.device = disk.device,
                                    !.deleg = disk.deleg, !.id = disk.id]
      <3>a. b \in Contents
        <4>1. r \in Nat /\ disk.device \in Nat /\ disk.deleg \in Delegations /\ disk.id \in Nat
          BY DEF TypeOK, Contents, NoKey
        <4>2. QED
          BY <4>1, BlankType DEF Contents
      <3>2. buf' \in [Procs -> Contents]
        BY <3>1, <3>a DEF TypeOK
      <3>3. QED
        BY <1>11, <2>2, <3>2 DEF ReadKeys, TypeOK
    <2>3. QED
      BY <2>1, <2>2
  <1>12. ASSUME NEW p \in Procs, ReadLists(p) PROVE TypeOK'
    <2>1. PICK rs \in {disk.rotations, <<>>} :
             buf' = [buf EXCEPT ![p].history = disk.history, ![p].rotations = rs]
      BY <1>12 DEF ReadLists
    <2>2. rs \in Seq(Links) /\ disk.history \in [Keys -> Nat] /\ buf[p] \in Contents
      <3>1. disk.rotations \in Seq(Links)
        BY DEF TypeOK, Contents
      <3>2. <<>> \in Seq(Links)
        OBVIOUS
      <3>3. QED
        BY <3>1, <3>2 DEF TypeOK, Contents
    <2>3. buf' \in [Procs -> Contents]
      <3>1. [buf[p] EXCEPT !.history = disk.history, !.rotations = rs] \in Contents
        BY <2>2 DEF Contents
      <3>2. buf' = [buf EXCEPT ![p] = [buf[p] EXCEPT !.history = disk.history,
                                                     !.rotations = rs]]
        BY <2>1 DEF TypeOK
      <3>3. QED
        BY <3>1, <3>2 DEF TypeOK
    <2>4. QED
      BY <1>12, <2>3 DEF ReadLists, TypeOK
  <1>13. ASSUME NEW p \in Procs, Return(p) PROVE TypeOK'
    <2>1. Returned(p) \in Contents
      BY DEF Returned, TypeOK
    <2>2. mem' \in [Procs -> Contents]
      BY <1>13, <2>1 DEF Return, TypeOK
    <2>3. QED
      BY <1>13, <2>2, TypeEnd DEF Return
  <1>14. ASSUME NEW p \in Procs, Crash(p) PROVE TypeOK'
    <2>1. mem' \in [Procs -> Contents]
      BY <1>14, BlankType DEF Crash, TypeOK
    <2>2. QED
      BY <1>14, <2>1, TypeEnd DEF Crash
  <1>15. CASE RemoveStuck
    BY <1>15, BlankType DEF RemoveStuck, TypeOK, locals
  <1>16. CASE Tick
    BY <1>16 DEF Tick, TypeOK, Times, locals
  <1>17. CASE UNCHANGED vars
    BY <1>17 DEF vars, TypeOK
  <1>19. QED
    BY <1>1, <1>2, <1>3, <1>5, <1>6, <1>18, <1>7, <1>8, <1>9, <1>10, <1>11, <1>12, <1>13,
       <1>14, <1>15, <1>16, <1>17 DEF Next, Step, Run, IoError

(* Every variable keeps its type, for any number of processes and bounds.  *)
THEOREM TypeCorrect == Spec => []TypeOK
  <1>1. Init => TypeOK
    BY TypeInit
  <1>2. TypeOK /\ [Next]_vars => TypeOK'
    BY TypeNext
  <1>3. QED
    BY <1>1, <1>2, PTL DEF Spec

-----------------------------------------------------------------------------
(* The write order, file by file.                                          *)

LEMMA NextFileIs ==
  ASSUME NEW o
  PROVE  /\ NextFile(o, "root") = IF o = "rotate_root" THEN "return" ELSE "device"
         /\ NextFile(o, "device") = "deleg"
         /\ NextFile(o, "deleg") = IF o \in {"init", "save"} THEN "history" ELSE "return"
         /\ NextFile(o, "history") = IF o = "rotate_device" THEN "device" ELSE "rotations"
         /\ NextFile(o, "rotations") = IF o = "rotate_root" THEN "root" ELSE "id"
         /\ NextFile(o, "id") = "return"
  BY DEF NextFile

LEMMA WritersAre ==
  /\ Writers("root") = {"init", "rotate_root"}
  /\ Writers("device") = {"init", "rotate_device"}
  /\ Writers("deleg") = {"init", "rotate_device", "renew", "renew_if_due"}
  /\ Writers("history") = {"init", "rotate_device"}
  /\ Writers("rotations") = {"init", "rotate_root"}
  /\ Writers("id") = {"init"}
  BY DEF Writers

LEMMA BeforeInInitIs ==
  /\ BeforeInInit("root") = {}
  /\ BeforeInInit("device") = {"root"}
  /\ BeforeInInit("deleg") = {"root", "device"}
  /\ BeforeInInit("history") = {"root", "device", "deleg"}
  /\ BeforeInInit("rotations") = {"root", "device", "deleg", "history"}
  /\ BeforeInInit("id") = {"root", "device", "deleg", "history", "rotations"}
  BY DEF BeforeInInit

-----------------------------------------------------------------------------
(* Steps that leave the files alone.                                       *)

\* A step of p alone that writes nothing, and leaves p in good order, keeps
\* the invariant.
LEMMA QuietStep ==
  ASSUME IInv, TypeOK', LockInv', NEW p \in Procs, ProcInv(p)',
         \A q \in Procs \ {p} : pc'[q] = pc[q] /\ op'[q] = op[q] /\ at'[q] = at[q]
                                /\ buf'[q] = buf[q] /\ mem'[q] = mem[q],
         mem'[p] # Blank => Committed,
         UNCHANGED <<disk, files, left, now>>, made <= made'
  PROVE  IInv'
  <1>a. /\ made \in Nat /\ made' \in Nat /\ disk.device \in Nat /\ disk.id \in Nat
        /\ disk.rotations \in Seq(Links)
        /\ \A q \in Procs : /\ buf[q].root \in Nat /\ buf[q].device \in Nat
                            /\ buf[q].rotations \in Seq(Links)
    <2>1. disk \in Contents /\ (\A q \in Procs : buf[q] \in Contents)
          /\ made \in Nat /\ made' \in Nat
      BY DEF IInv, TypeOK
    <2>2. QED
      BY <2>1 DEF Contents
  <1>1. \A g \in Nat, rs \in Seq(Links) : Chained(g, rs) => Chained(g, rs)'
    <2> SUFFICES ASSUME NEW g \in Nat, NEW rs \in Seq(Links), Chained(g, rs)
                 PROVE  Chained(g, rs)'
      OBVIOUS
    <2>1. \A i \in 1..Len(rs) : rs[i].new \in Nat
      BY LinkType
    <2>2. \A i \in 1..Len(rs) : rs[i].new <= made'
      BY <1>a, <2>1 DEF Chained
    <2>3. QED
      BY <2>2 DEF Chained
  <1>2. FilesOK'
    <2>1. FilesOK /\ TypeOK
      BY DEF IInv, DirInv
    <2>2. QED
      BY <2>1 DEF FilesOK, Committed
  <1>3. DevicesOK'
    <2>1. DevicesOK
      BY DEF IInv, DirInv
    <2>2. QED
      BY <1>a, <2>1 DEF DevicesOK, Lists, Keys
  <1>4. ChainOK'
    <2>1. ChainOK
      BY DEF IInv, DirInv
    <2>2. QED
      BY <1>a, <1>1, <2>1 DEF ChainOK, Committed
  <1>5. ASSUME NEW q \in Procs \ {p} PROVE ProcInv(q)'
    <2> ProcInv(q)
      BY DEF IInv
    <2>1. ProgressInv(q)'
      BY DEF ProcInv, ProgressInv, Committed
    <2>2. InitInv(q)'
      BY <1>a DEF ProcInv, InitInv
    <2>3. RotateRootInv(q)'
      BY <1>a, <1>1 DEF ProcInv, RotateRootInv, Extends
    <2>4. RotateDeviceInv(q)'
      BY <1>a DEF ProcInv, RotateDeviceInv, Lists
    <2>5. DelegationInv(q)'
      BY DEF ProcInv, DelegationInv
    <2>6. QED
      BY <2>1, <2>2, <2>3, <2>4, <2>5 DEF ProcInv
  <1>6. QED
    BY <1>2, <1>3, <1>4, <1>5 DEF IInv, DirInv

LEMMA EndStep ==
  ASSUME IInv, TypeOK', NEW p \in Procs, End(p), made' = made,
         \A q \in Procs \ {p} : mem'[q] = mem[q],
         mem'[p] # Blank => Committed
  PROVE  IInv'
  <1>a. TypeOK /\ LockInv
    BY DEF IInv
  <1>b. /\ pc'[p] = "idle" /\ op'[p] = "none" /\ at'[p] = 0
        /\ \A q \in Procs \ {p} : pc'[q] = pc[q] /\ op'[q] = op[q] /\ at'[q] = at[q]
                                  /\ buf'[q] = buf[q]
    BY <1>a DEF End, TypeOK
  <1>1. LockInv'
    <2>1. \A q \in Procs \ {p} : Writing(q)' => Writing(q)
      BY <1>b DEF Writing
    <2>2. \A q \in Procs \ {p} : Reading(q)' => Reading(q)
      BY <1>b DEF Reading
    <2>3. ~Writing(p)' /\ ~Reading(p)'
      BY <1>b DEF Writing, Reading, AgentFiles
    <2>4. holder' = (IF holder = p THEN NoProc ELSE holder) /\ readers' = readers \ {p}
      BY DEF End, Unlock
    <2>5. QED
      BY <1>a, <2>1, <2>2, <2>3, <2>4 DEF LockInv
  <1>2. ProcInv(p)'
    <2>1. now' \in Nat
      BY DEF TypeOK, Times
    <2>2. ProgressInv(p)'
      BY <1>b DEF ProgressInv, AgentFiles
    <2>3. InitInv(p)' /\ RotateRootInv(p)' /\ RotateDeviceInv(p)'
      BY <1>b DEF InitInv, RotateRootInv, RotateDeviceInv
    <2>4. DelegationInv(p)'
      BY <1>b, <2>1 DEF DelegationInv
    <2>5. QED
      BY <2>2, <2>3, <2>4 DEF ProcInv
  <1>3. UNCHANGED <<disk, files, left, now>> /\ made <= made'
    BY <1>a DEF End, TypeOK
  <1>4. QED
    BY <1>b, <1>1, <1>2, <1>3, QuietStep

LEMMA RefuseStep ==
  ASSUME IInv, TypeOK', NEW p \in Procs, Refuse(p)
  PROVE  IInv'
  <1>1. mem[p] # Blank => Committed
    BY DEF IInv, DirInv, FilesOK
  <1>2. QED
    BY <1>1, EndStep DEF Refuse

\* Starting a call: what the invariant asks of a process that waits.
LEMMA BeginStep ==
  ASSUME IInv, TypeOK', NEW p \in Procs, NEW o \in Ops \ {"save"}, NEW b, Begin(p, o, b),
         made <= made',
         o = "init" => /\ b.rotations = <<>> /\ b.id = b.root
                       /\ \A k \in Keys : b.history[k] = Never
                       /\ b.root <= made' /\ b.device <= made'
                       /\ b.deleg.root = b.root /\ b.deleg.device = b.device,
         o = "renew_if_due" => /\ Committed
                               /\ b.deleg.root = b.root /\ b.deleg.device = b.device
  PROVE  IInv'
  <1>a. TypeOK /\ LockInv
    BY DEF IInv
  <1>b. /\ pc[p] = "idle" /\ pc'[p] = "wait" /\ op'[p] = o /\ at'[p] = now /\ buf'[p] = b
        /\ \A q \in Procs \ {p} : pc'[q] = pc[q] /\ op'[q] = op[q] /\ at'[q] = at[q]
                                  /\ buf'[q] = buf[q]
    BY <1>a DEF Begin, TypeOK
  <1>c. UNCHANGED <<disk, files, left, now, mem, holder, readers>>
    BY DEF Begin
  <1>1. LockInv'
    <2>1. \A q \in Procs \ {p} : (Writing(q)' => Writing(q)) /\ (Reading(q)' => Reading(q))
      BY <1>b DEF Writing, Reading
    <2>2. ~Writing(p)' /\ ~Reading(p)'
      BY <1>b DEF Writing, Reading, AgentFiles
    <2>3. QED
      BY <1>a, <1>c, <2>1, <2>2 DEF LockInv
  <1>2. ProcInv(p)'
    <2>1. now \in Nat
      BY <1>a DEF TypeOK, Times
    <2>2. ProgressInv(p)'
      BY <1>b, <1>c DEF ProgressInv, AgentFiles, Ops, Committed
    <2>3. InitInv(p)'
      BY <1>b DEF InitInv, AgentFiles
    <2>4. RotateRootInv(p)' /\ RotateDeviceInv(p)'
      BY <1>b DEF RotateRootInv, RotateDeviceInv
    <2>5. DelegationInv(p)'
      BY <1>b, <1>c, <2>1 DEF DelegationInv
    <2>6. QED
      BY <2>2, <2>3, <2>4, <2>5 DEF ProcInv
  <1>3. mem'[p] # Blank => Committed
    BY <1>c DEF IInv, DirInv, FilesOK
  <1>4. QED
    BY <1>b, <1>c, <1>1, <1>2, <1>3, QuietStep

\* Taking the exclusive lock: it is enough that p is ready to write.
LEMMA LockStep ==
  ASSUME IInv, TypeOK', NEW p \in Procs, NEW f \in AgentFiles, NEW b, Lock(p, f, b),
         pc[p] = "wait", ExclusiveFree, made <= made', ProcInv(p)'
  PROVE  IInv'
  <1>a. TypeOK /\ LockInv
    BY DEF IInv
  <1>b. /\ \A q \in Procs \ {p} : pc'[q] = pc[q] /\ op'[q] = op[q] /\ at'[q] = at[q]
                                  /\ buf'[q] = buf[q] /\ mem'[q] = mem[q]
        /\ pc'[p] = f /\ mem'[p] = mem[p]
    BY <1>a DEF Lock, TypeOK
  <1>c. UNCHANGED <<disk, files, left, now, readers>> /\ holder' = p
    BY DEF Lock
  <1>1. LockInv'
    <2>1. \A q \in Procs \ {p} : (Writing(q)' => Writing(q)) /\ (Reading(q)' => Reading(q))
      BY <1>b DEF Writing, Reading
    <2>2. \A q \in Procs : ~Writing(q) /\ ~Reading(q)
      BY <1>a DEF LockInv, ExclusiveFree
    <2>3. ~Reading(p)'
      BY <1>b DEF Reading, AgentFiles
    <2>4. QED
      BY <1>c, <2>1, <2>2, <2>3 DEF LockInv, ExclusiveFree
  <1>2. mem'[p] # Blank => Committed
    BY <1>b DEF IInv, DirInv, FilesOK
  <1>3. QED
    BY <1>b, <1>c, <1>1, <1>2, QuietStep

LEMMA StartStep ==
  ASSUME IInv, TypeOK', NoSave, NEW p \in Procs,
         StartInit(p) \/ Start(p) \/ StartSave(p) \/ StartRenewIfDue(p)
  PROVE  IInv'
  <1>a. TypeOK /\ made \in Nat
    BY DEF IInv, TypeOK
  <1>1. CASE StartInit(p)
    <2> DEFINE b == NewIdentity(made + 1, made + 2, now)
    <2>1. Begin(p, "init", b) /\ made' = made + 2
      BY <1>1 DEF StartInit
    <2>2. /\ b.rotations = <<>> /\ b.id = made + 1 /\ b.root = made + 1
          /\ b.device = made + 2 /\ b.deleg = Delegate(made + 1, made + 2, now)
          /\ \A k \in Keys : b.history[k] = Never
      BY DEF NewIdentity, Blank
    <2>3. b.deleg.root = b.root /\ b.deleg.device = b.device
      BY <2>2 DEF Delegate
    <2>4. b.root <= made' /\ b.device <= made' /\ made <= made' /\ b.id = b.root
      BY <1>a, <2>1, <2>2
    <2>5. QED
      BY <2>1, <2>2, <2>3, <2>4, BeginStep DEF Ops
  <1>2. CASE Start(p)
    <2>1. PICK o \in Ops \ {"init", "save", "renew_if_due"} : Begin(p, o, Blank)
      BY <1>2 DEF Start
    <2>2. made <= made'
      BY <1>a, <1>2 DEF Start
    <2>3. QED
      BY <2>1, <2>2, BeginStep
  <1>3. CASE StartSave(p)
    BY <1>3 DEF StartSave, Begin, NoSave
  <1>4. CASE StartRenewIfDue(p)
    <2> DEFINE b == [mem[p] EXCEPT !.deleg = Delegate(mem[p].root, mem[p].device, now)]
    <2>1. Begin(p, "renew_if_due", b) /\ made <= made' /\ mem[p] # Blank
      BY <1>a, <1>4 DEF StartRenewIfDue
    <2>2. Committed
      BY <2>1 DEF IInv, DirInv, FilesOK
    <2>3. b.deleg.root = b.root /\ b.deleg.device = b.device
      <3>1. mem[p] \in Contents
        BY <1>a DEF TypeOK
      <3>2. b.deleg = Delegate(mem[p].root, mem[p].device, now)
            /\ b.root = mem[p].root /\ b.device = mem[p].device
        BY <3>1 DEF Contents
      <3>3. QED
        BY <3>2 DEF Delegate
    <2>4. QED
      BY <2>1, <2>2, <2>3, BeginStep DEF Ops
  <1>5. QED
    BY <1>1, <1>2, <1>3, <1>4

LEMMA RenewInMemoryStep ==
  ASSUME IInv, TypeOK', NEW p \in Procs, RenewInMemory(p)
  PROVE  IInv'
  <1>a. TypeOK /\ LockInv
    BY DEF IInv
  <1>1. UNCHANGED <<disk, files, left, now, made, holder, readers, pc, op, at, buf>>
        /\ mem[p] # Blank /\ (\A q \in Procs \ {p} : mem'[q] = mem[q])
    BY <1>a DEF RenewInMemory, locals, TypeOK
  <1>2. Committed
    BY <1>1 DEF IInv, DirInv, FilesOK
  <1>3. LockInv'
    BY <1>a, <1>1 DEF LockInv, Writing, Reading
  <1>4. ProcInv(p)'
    <2>1. ProcInv(p)
      BY DEF IInv
    <2>2. QED
      BY <1>1, <2>1 DEF ProcInv, ProgressInv, InitInv, RotateRootInv, RotateDeviceInv,
                        DelegationInv, Committed, Extends, Chained, Lists
  <1>5. made <= made'
    BY <1>a, <1>1 DEF TypeOK
  <1>6. QED
    BY <1>1, <1>2, <1>3, <1>4, <1>5, QuietStep

\* The shared lock and the reads under it.
LEMMA ReadStep ==
  ASSUME IInv, TypeOK', NEW p \in Procs, LockShared(p) \/ ReadKeys(p) \/ ReadLists(p)
  PROVE  IInv'
  <1>a. TypeOK /\ LockInv /\ ProcInv(p)
    BY DEF IInv
  <1>1. CASE Refuse(p)
    BY <1>1, RefuseStep
  <1>2. CASE ~Refuse(p)
    <2>1. /\ UNCHANGED <<disk, files, left, now, made, holder, op, at, mem>>
          /\ \A q \in Procs \ {p} : pc'[q] = pc[q] /\ buf'[q] = buf[q]
          /\ readers \subseteq readers'
      BY <1>a, <1>2 DEF LockShared, ReadKeys, ReadLists, TypeOK
    <2>2. /\ op[p] \in Shared
          /\ pc'[p] \in {"read_keys", "read_lists", "return"}
          /\ pc'[p] \in {"read_lists", "return"} => Committed
          /\ p \in readers' /\ holder = NoProc
      <3>1. CASE LockShared(p)
        BY <1>a, <3>1 DEF LockShared, TypeOK
      <3>2. CASE ReadKeys(p)
        <4>1. pc[p] = "read_keys" /\ pc'[p] = "read_lists" /\ Committed
          BY <1>a, <1>2, <3>2 DEF ReadKeys, TypeOK, Mandatory, Committed
        <4>2. op[p] \in Shared /\ p \in readers
          BY <1>a, <4>1 DEF ProcInv, ProgressInv, LockInv, Reading
        <4>3. QED
          BY <1>a, <2>1, <4>1, <4>2 DEF LockInv
      <3>3. CASE ReadLists(p)
        <4>1. pc[p] = "read_lists" /\ pc'[p] = "return"
          BY <1>a, <3>3 DEF ReadLists, TypeOK
        <4>2. op[p] \in Shared /\ p \in readers /\ Committed
          BY <1>a, <4>1 DEF ProcInv, ProgressInv, LockInv, Reading
        <4>3. QED
          BY <1>a, <2>1, <4>1, <4>2 DEF LockInv
      <3>4. QED
        BY <3>1, <3>2, <3>3
    <2>3. LockInv'
      <3>1. \A q \in Procs \ {p} : (Writing(q)' => Writing(q)) /\ (Reading(q)' => Reading(q))
        BY <2>1 DEF Writing, Reading
      <3>2. ~Writing(p)'
        BY <2>1, <2>2 DEF Writing, AgentFiles
      <3>3. QED
        BY <1>a, <2>1, <2>2, <3>1, <3>2 DEF LockInv
    <2>4. ProcInv(p)'
      <3>1. ProgressInv(p)'
        BY <1>a, <2>1, <2>2 DEF ProcInv, ProgressInv, Shared, AgentFiles, Committed
      <3>2. InitInv(p)' /\ RotateRootInv(p)' /\ RotateDeviceInv(p)'
        BY <2>1, <2>2 DEF InitInv, RotateRootInv, RotateDeviceInv, Shared
      <3>3. DelegationInv(p)'
        BY <1>a, <2>1, <2>2 DEF ProcInv, DelegationInv, Shared
      <3>4. QED
        BY <3>1, <3>2, <3>3 DEF ProcInv
    <2>5. mem'[p] # Blank => Committed
      BY <2>1 DEF IInv, DirInv, FilesOK
    <2>6. made <= made'
      BY <1>a, <2>1 DEF TypeOK
    <2>7. QED
      BY <2>1, <2>3, <2>4, <2>5, <2>6, QuietStep
  <1>3. QED
    BY <1>1, <1>2

LEMMA ReturnStep ==
  ASSUME IInv, TypeOK', NEW p \in Procs, Return(p)
  PROVE  IInv'
  <1>1. ProcInv(p) /\ pc[p] = "return"
    BY DEF IInv, Return
  <1>2. Committed
    BY <1>1 DEF ProcInv, ProgressInv
  <1>3. \A q \in Procs \ {p} : mem'[q] = mem[q]
    BY DEF Return, IInv, TypeOK
  <1>4. QED
    BY <1>2, <1>3, EndStep DEF Return

LEMMA CrashStep ==
  ASSUME IInv, TypeOK', NEW p \in Procs, Crash(p)
  PROVE  IInv'
  <1>1. mem'[p] = Blank /\ \A q \in Procs \ {p} : mem'[q] = mem[q]
    BY DEF Crash, IInv, TypeOK
  <1>2. QED
    BY <1>1, EndStep DEF Crash

-----------------------------------------------------------------------------
(* Rotations.                                                              *)

\* What rotate_root writes: the chain on disk, without a pending entry, and
\* one rotation from the root on disk to a root younger than everything.
LEMMA RotationExtends ==
  ASSUME TypeOK, ChainOK, Committed, NEW rs,
         rs = Append(Unpended(disk), [old |-> disk.root, new |-> made + 1])
  PROVE  /\ rs \in Seq(Links) /\ Len(rs) \in Nat \ {0} /\ rs # <<>>
         /\ rs[Len(rs)].old = disk.root /\ rs[Len(rs)].new = made + 1
         /\ \A i \in 1..Len(rs) : /\ rs[i].old = IF i = 1 THEN disk.id ELSE rs[i - 1].new
                                  /\ disk.id < rs[i].new /\ rs[i].new <= made + 1
         /\ \A i, j \in 1..Len(rs) : i < j => rs[i].new < rs[j].new
  <1> DEFINE us == Unpended(disk)
  <1>a. /\ made \in Nat /\ disk \in Contents /\ disk.id \in Nat /\ disk.root \in Nat
        /\ disk.rotations \in Seq(Links) /\ disk.id <= made
    BY DEF TypeOK, Contents, ChainOK
  <1>b. us \in Seq(Links) /\ [old |-> disk.root, new |-> made + 1] \in Links
    BY <1>a, UnpendedType DEF Links
  <1>1. Len(us) \in Nat /\ Len(us) <= Len(disk.rotations) /\ Len(disk.rotations) \in Nat
        /\ \A i \in 1..Len(us) : us[i] = disk.rotations[i]
    <2>1. Len(disk.rotations) \in Nat
      BY <1>a, LenProperties
    <2>2. CASE Pending(disk)
      <3>1. us = SubSeq(disk.rotations, 1, Len(disk.rotations) - 1)
        BY <2>2 DEF Unpended
      <3>2. Len(disk.rotations) \in Nat \ {0}
        BY <1>a, <2>2, EmptySeq DEF Pending
      <3>3. \A i \in 1..(Len(disk.rotations) - 1) : disk.rotations[i] \in Links
        BY <1>a, <2>1, ElementOfSeq
      <3>4. Len(us) = Len(disk.rotations) - 1
            /\ \A i \in 1..(Len(disk.rotations) - 1) : us[i] = disk.rotations[i]
        BY <3>1, <3>2, <3>3, SubSeqProperties
      <3>5. QED
        BY <3>2, <3>4
    <2>3. CASE ~Pending(disk)
      BY <2>1, <2>3 DEF Unpended
    <2>4. QED
      BY <2>2, <2>3
  <1>2. /\ \A i \in 1..Len(us) : /\ us[i].old = IF i = 1 THEN disk.id ELSE us[i - 1].new
                                 /\ disk.id < us[i].new /\ us[i].new <= made
        /\ \A i, j \in 1..Len(us) : i < j => us[i].new < us[j].new
    <2> DEFINE ds == disk.rotations
    <2>1. Chained(disk.id, ds)
      BY DEF ChainOK
    <2>2. \A i \in 1..Len(us) : i \in 1..Len(ds) /\ us[i] = ds[i]
                                /\ (i # 1 => i - 1 \in 1..Len(us) /\ us[i - 1] = ds[i - 1])
      BY <1>1
    <2>3. QED
      BY <2>1, <2>2 DEF Chained
  <1>3. IF us = <<>> THEN disk.root = disk.id ELSE disk.root = us[Len(us)].new
    BY DEF ChainOK, HeadOf
  <1>4. /\ rs \in Seq(Links) /\ rs # <<>> /\ Len(rs) = Len(us) + 1
        /\ \A i \in 1..Len(us) : rs[i] = us[i]
        /\ rs[Len(us) + 1] = [old |-> disk.root, new |-> made + 1]
    BY <1>b, AppendProperties
  <1>5. rs[Len(rs)].old = disk.root /\ rs[Len(rs)].new = made + 1
    BY <1>4
  <1>6. us = <<>> <=> Len(us) = 0
    BY <1>b, EmptySeq
  <1>7. \A i \in 1..Len(rs) : /\ rs[i].old = IF i = 1 THEN disk.id ELSE rs[i - 1].new
                              /\ disk.id < rs[i].new /\ rs[i].new <= made + 1
    <2> SUFFICES ASSUME NEW i \in 1..Len(rs)
                 PROVE  /\ rs[i].old = IF i = 1 THEN disk.id ELSE rs[i - 1].new
                        /\ disk.id < rs[i].new /\ rs[i].new <= made + 1
      OBVIOUS
    <2>1. CASE i \in 1..Len(us)
      <3>1. rs[i] = us[i] /\ (i # 1 => rs[i - 1] = us[i - 1]) /\ us[i].new \in Nat
        BY <1>b, <1>1, <1>4, <2>1, LinkType
      <3>2. QED
        BY <1>2, <1>a, <2>1, <3>1
    <2>2. CASE i = Len(us) + 1
      <3>1. rs[i].old = disk.root /\ rs[i].new = made + 1
        BY <1>4, <2>2
      <3>2. i # 1 => rs[i - 1] = us[Len(us)] /\ us # <<>>
        BY <1>1, <1>4, <1>6, <2>2
      <3>3. i = 1 => us = <<>>
        BY <1>1, <1>6, <2>2
      <3>4. QED
        BY <1>3, <1>a, <3>1, <3>2, <3>3
    <2>3. QED
      BY <1>1, <1>4, <2>1, <2>2
  <1>8. \A i, j \in 1..Len(rs) : i < j => rs[i].new < rs[j].new
    <2> SUFFICES ASSUME NEW i \in 1..Len(rs), NEW j \in 1..Len(rs), i < j
                 PROVE  rs[i].new < rs[j].new
      OBVIOUS
    <2>1. i \in 1..Len(us) /\ rs[i] = us[i] /\ us[i].new \in Nat /\ us[i].new <= made
      BY <1>b, <1>1, <1>2, <1>4, LinkType
    <2>2. CASE j \in 1..Len(us)
      BY <1>2, <1>4, <2>1, <2>2
    <2>3. CASE j = Len(us) + 1
      BY <1>4, <1>a, <2>1, <2>3
    <2>4. QED
      BY <1>1, <1>4, <2>2, <2>3
  <1>9. QED
    BY <1>1, <1>4, <1>5, <1>7, <1>8

-----------------------------------------------------------------------------
(* Taking the exclusive lock.                                              *)

LEMMA LockExclusiveStep ==
  ASSUME IInv, TypeOK', NEW p \in Procs, LockExclusive(p)
  PROVE  IInv'
  <1>a. /\ TypeOK /\ LockInv /\ DirInv /\ ProcInv(p) /\ pc[p] = "wait" /\ ExclusiveFree
        /\ made \in Nat /\ disk \in Contents /\ buf[p] \in Contents /\ now \in Nat
        /\ at[p] \in Nat
    BY DEF IInv, TypeOK, LockExclusive, Times
  <1>b. Loadable => Committed
    BY DEF Loadable, Mandatory, Committed
  <1>c. ASSUME NEW f, NEW b, Lock(p, f, b)
        PROVE  /\ pc'[p] = f /\ buf'[p] = b /\ op'[p] = op[p] /\ at'[p] = at[p]
               /\ UNCHANGED <<disk, files, left, now>>
    BY <1>a, <1>c DEF Lock, TypeOK
  <1>1. CASE LockInit(p)
    <2>1. CASE Refuse(p)
      BY <2>1, RefuseStep
    <2>2. CASE files = {} /\ Lock(p, "root", buf[p]) /\ made' = made
      <3>1. /\ pc'[p] = "root" /\ buf'[p] = buf[p] /\ op'[p] = "init" /\ at'[p] = at[p]
            /\ UNCHANGED <<disk, files, left, now>> /\ op[p] = "init"
        BY <1>1, <1>c, <2>2 DEF LockInit
      <3>2. ProgressInv(p)'
        BY <2>2, <3>1, WritersAre, BeforeInInitIs DEF ProgressInv, AgentFiles
      <3>3. InitInv(p)'
        BY <1>a, <2>2, <3>1 DEF ProcInv, InitInv, AgentFiles
      <3>4. RotateRootInv(p)' /\ RotateDeviceInv(p)' /\ DelegationInv(p)'
        BY <1>a, <3>1 DEF ProcInv, RotateRootInv, RotateDeviceInv, DelegationInv
      <3>5. ProcInv(p)'
        BY <3>2, <3>3, <3>4 DEF ProcInv
      <3>6. made <= made' /\ "root" \in AgentFiles
        BY <1>a, <2>2 DEF AgentFiles
      <3>7. QED
        BY <1>a, <2>2, <3>5, <3>6, LockStep
    <2>3. QED
      BY <1>1, <2>1, <2>2 DEF LockInit
  <1>2. CASE LockSave(p)
    BY <1>2, <1>a DEF LockSave, ProcInv, ProgressInv
  <1>3. ASSUME NEW b \in Contents, Lock(p, "deleg", b), made' = made, Committed,
               op[p] \in {"renew", "renew_if_due"},
               b.deleg.root = disk.root, b.deleg.device = disk.device,
               b.root = disk.root, b.device = disk.device
        PROVE  IInv'
    <2>1. /\ pc'[p] = "deleg" /\ buf'[p] = b /\ op'[p] = op[p] /\ at'[p] = at[p]
          /\ UNCHANGED <<disk, files, left, now>>
      BY <1>c, <1>3
    <2>2. ProgressInv(p)'
      BY <1>3, <2>1, WritersAre DEF ProgressInv, AgentFiles, Committed
    <2>3. InitInv(p)' /\ RotateRootInv(p)' /\ RotateDeviceInv(p)'
      BY <1>3, <2>1 DEF InitInv, RotateRootInv, RotateDeviceInv
    <2>4. DelegationInv(p)'
      BY <1>a, <1>3, <2>1 DEF ProcInv, DelegationInv
    <2>5. ProcInv(p)'
      BY <2>2, <2>3, <2>4 DEF ProcInv
    <2>6. made <= made' /\ "deleg" \in AgentFiles
      BY <1>a, <1>3 DEF AgentFiles
    <2>7. QED
      BY <1>a, <1>3, <2>5, <2>6, LockStep
  <1>4. CASE LockRenew(p)
    <2> DEFINE b == [disk EXCEPT !.deleg = Delegate(disk.root, disk.device, at[p])]
    <2>1. CASE Refuse(p)
      BY <2>1, RefuseStep
    <2>2. CASE Loadable /\ Lock(p, "deleg", b) /\ made' = made
      <3>1. /\ b \in Contents /\ b.root = disk.root /\ b.device = disk.device
            /\ b.deleg = Delegate(disk.root, disk.device, at[p])
        <4>1. disk.root \in Nat /\ disk.device \in Nat /\ at[p] \in Times
          BY <1>a DEF Contents, TypeOK
        <4>2. Delegate(disk.root, disk.device, at[p]) \in Delegations
          BY <4>1, DelegateType
        <4>3. QED
          BY <1>a, <4>2 DEF Contents
      <3>2. b.deleg.root = disk.root /\ b.deleg.device = disk.device
        BY <3>1 DEF Delegate
      <3>3. op[p] \in {"renew", "renew_if_due"}
        BY <1>4 DEF LockRenew
      <3>4. QED
        BY <1>b, <1>3, <2>2, <3>1, <3>2, <3>3
    <2>3. QED
      BY <1>4, <2>1, <2>2 DEF LockRenew
  <1>5. CASE LockRenewIfDue(p)
    <2>1. CASE Refuse(p)
      BY <2>1, RefuseStep
    <2>2. CASE /\ disk.root = buf[p].root /\ disk.device = buf[p].device
               /\ Lock(p, "deleg", buf[p]) /\ made' = made
      <3>1. /\ op[p] = "renew_if_due" /\ Committed
            /\ buf[p].deleg.root = disk.root /\ buf[p].deleg.device = disk.device
        BY <1>a, <1>5, <2>2 DEF LockRenewIfDue, ProcInv, ProgressInv, DelegationInv
      <3>2. QED
        BY <1>a, <1>3, <2>2, <3>1
    <2>3. QED
      BY <1>5, <2>1, <2>2 DEF LockRenewIfDue
  <1>6. CASE LockRotateDevice(p)
    <2> DEFINE h == Retire(disk.history, disk.device, at[p])
               b == [disk EXCEPT !.history = Retire(@, disk.device, at[p]),
                                 !.device = made + 1,
                                 !.deleg = Delegate(disk.root, made + 1, at[p])]
    <2>1. CASE Refuse(p)
      BY <2>1, RefuseStep
    <2>2. CASE Loadable /\ made' = made + 1 /\ Lock(p, "history", b)
      <3>1. /\ pc'[p] = "history" /\ buf'[p] = b /\ op'[p] = "rotate_device" /\ at'[p] = at[p]
            /\ UNCHANGED <<disk, files, left, now>> /\ op[p] = "rotate_device"
        BY <1>6, <1>c, <2>2 DEF LockRotateDevice
      <3>2. b.history = h /\ b.device = made + 1
            /\ b.deleg = Delegate(disk.root, made + 1, at[p])
        BY <1>a DEF Contents
      <3>3. b.deleg.root = disk.root /\ b.deleg.device = b.device
        BY <3>2 DEF Delegate
      <3>4. disk.history \in [Keys -> Nat] /\ disk.device \in Nat /\ DevicesOK
            /\ left \in [Keys -> Nat]
        BY <1>a DEF DirInv, Contents, TypeOK
      <3>5. Lists(h)
        BY <3>4 DEF Lists, Retire, DevicesOK
      <3>6. disk.device \in Keys => h[disk.device] <= now
        <4>1. at[p] <= now
          BY <1>a DEF ProcInv, DelegationInv
        <4>2. SUFFICES ASSUME disk.device \in Keys PROVE h[disk.device] <= now
          OBVIOUS
        <4>3. h[disk.device] = IF disk.history[disk.device] < at[p]
                               THEN disk.history[disk.device] ELSE at[p]
          BY <3>4, <4>2 DEF Retire
        <4>4. disk.history[disk.device] \in Nat
          BY <3>4, <4>2
        <4>5. QED
          BY <1>a, <4>1, <4>3, <4>4
      <3>7. /\ disk.device < made + 1
            /\ \A k \in Keys : left[k] # Never => k < made + 1
        BY <1>a, <3>4 DEF DevicesOK, Keys
      <3>8. RotateDeviceInv(p)'
        BY <1>a, <2>2, <3>1, <3>2, <3>3, <3>5, <3>6, <3>7 DEF RotateDeviceInv, Lists
      <3>9. ProgressInv(p)'
        BY <1>b, <2>2, <3>1, WritersAre DEF ProgressInv, AgentFiles, Committed
      <3>10. InitInv(p)' /\ RotateRootInv(p)' /\ DelegationInv(p)'
        BY <1>a, <3>1 DEF InitInv, RotateRootInv, ProcInv, DelegationInv
      <3>11. ProcInv(p)'
        BY <3>8, <3>9, <3>10 DEF ProcInv
      <3>12. made <= made' /\ "history" \in AgentFiles
        BY <1>a, <2>2 DEF AgentFiles
      <3>13. QED
        BY <1>a, <2>2, <3>11, <3>12, LockStep
    <2>3. QED
      BY <1>6, <2>1, <2>2 DEF LockRotateDevice
  <1>7. CASE LockRotateRoot(p)
    <2> DEFINE rs == Append(Unpended(disk), [old |-> disk.root, new |-> made + 1])
               b == [disk EXCEPT !.rotations = rs, !.root = made + 1]
    <2>1. CASE Refuse(p)
      BY <2>1, RefuseStep
    <2>2. CASE Loadable /\ made' = made + 1 /\ Lock(p, "rotations", b)
      <3>1. /\ pc'[p] = "rotations" /\ buf'[p] = b /\ op'[p] = "rotate_root" /\ at'[p] = at[p]
            /\ UNCHANGED <<disk, files, left, now>> /\ op[p] = "rotate_root"
        BY <1>7, <1>c, <2>2 DEF LockRotateRoot
      <3>2. b.rotations = rs /\ b.root = made + 1
        BY <1>a DEF Contents
      <3>3. Committed /\ ChainOK
        BY <1>a, <1>b, <2>2 DEF DirInv
      <3> HIDE DEF rs, b
      <3>4. /\ rs # <<>>
            /\ rs[Len(rs)].old = disk.root /\ rs[Len(rs)].new = made + 1
            /\ \A i \in 1..Len(rs) :
                  /\ rs[i].old = IF i = 1 THEN disk.id ELSE rs[i - 1].new
                  /\ disk.id < rs[i].new /\ rs[i].new <= made + 1
            /\ \A i, j \in 1..Len(rs) : i < j => rs[i].new < rs[j].new
        BY <1>a, <3>3, RotationExtends DEF rs
      <3>5. RotateRootInv(p)'
        <4>1. buf'[p].rotations = rs /\ buf'[p].root = made' /\ made' = made + 1
          BY <2>2, <3>1, <3>2
        <4>2. Chained(disk.id, buf[p].rotations)'
          BY <3>1, <3>4, <4>1 DEF Chained
        <4>3. Extends(buf[p].rotations, buf[p].root)'
          BY <3>1, <3>4, <4>1, <4>2 DEF Extends
        <4>4. QED
          BY <3>1, <4>3 DEF RotateRootInv
      <3>6. ProgressInv(p)'
        BY <3>1, <3>3, WritersAre DEF ProgressInv, AgentFiles, Committed
      <3>7. InitInv(p)' /\ RotateDeviceInv(p)' /\ DelegationInv(p)'
        BY <1>a, <3>1 DEF InitInv, RotateDeviceInv, ProcInv, DelegationInv
      <3>8. ProcInv(p)'
        BY <3>5, <3>6, <3>7 DEF ProcInv
      <3>9. made <= made' /\ "rotations" \in AgentFiles
        BY <1>a, <2>2 DEF AgentFiles
      <3>10. QED
        BY <1>a, <2>2, <3>8, <3>9, LockStep
    <2>3. QED
      BY <1>7, <2>1, <2>2 DEF LockRotateRoot
  <1>8. QED
    BY <1>1, <1>2, <1>4, <1>5, <1>6, <1>7 DEF LockExclusive

-----------------------------------------------------------------------------
(* Writing a file.                                                         *)

\* Everybody but the writer is untouched: nobody else is about to write.
LEMMA WriteFrame ==
  ASSUME IInv, TypeOK', NEW p \in Procs, NEW f \in AgentFiles, Wrote(p, f),
         DirInv', ProcInv(p)'
  PROVE  IInv'
  <1>a. TypeOK /\ LockInv /\ ProcInv(p) /\ pc[p] = f
    BY DEF IInv, Wrote
  <1>b. /\ UNCHANGED <<holder, readers, now, made, op, at, buf, mem>> /\ files \subseteq files'
        /\ \A q \in Procs \ {p} : pc'[q] = pc[q]
        /\ pc'[p] \in AgentFiles \cup {"return"}
    BY <1>a DEF Wrote, TypeOK, NextFile, AgentFiles
  <1>c. op[p] \notin Shared
    BY <1>a, WritersAre DEF ProcInv, ProgressInv, Shared, AgentFiles
  <1>d. holder = p /\ readers = {} /\ p # NoProc
    BY <1>a DEF LockInv, Writing
  <1>1. LockInv'
    <2>1. \A q \in Procs \ {p} : (Writing(q)' => Writing(q)) /\ (Reading(q)' => Reading(q))
      BY <1>b DEF Writing, Reading
    <2>2. ~Reading(p)'
      BY <1>b, <1>c DEF Reading, AgentFiles
    <2>3. QED
      BY <1>a, <1>b, <1>d, <2>1, <2>2 DEF LockInv
  <1>2. ASSUME NEW q \in Procs \ {p} PROVE ProcInv(q)'
    <2>1. ProcInv(q) /\ pc[q] \notin AgentFiles
      BY <1>a, <1>d DEF IInv, LockInv, Writing
    <2>2. Committed => Committed'
      BY <1>b DEF Committed
    <2>3. ProgressInv(q)'
      BY <1>b, <2>1, <2>2 DEF ProcInv, ProgressInv
    <2>4. InitInv(q)'
      BY <1>b, <2>1 DEF ProcInv, InitInv
    <2>5. RotateRootInv(q)' /\ RotateDeviceInv(q)'
      BY <1>b, <2>1 DEF RotateRootInv, RotateDeviceInv, AgentFiles
    <2>6. DelegationInv(q)'
      BY <1>b, <2>1 DEF ProcInv, DelegationInv, AgentFiles
    <2>7. QED
      BY <2>3, <2>4, <2>5, <2>6 DEF ProcInv
  <1>3. QED
    BY <1>1, <1>2 DEF IInv

\* The last link of a chain starts where the rest of the chain ends, and leads
\* somewhere else.
LEMMA LastLink ==
  ASSUME NEW g \in Nat, NEW rs \in Seq(Links), rs # <<>>, Chained(g, rs)
  PROVE  /\ rs[Len(rs)].old # rs[Len(rs)].new
         /\ HeadOf(g, SubSeq(rs, 1, Len(rs) - 1)) = rs[Len(rs)].old
  <1>1. PICK n \in Nat \ {0} : n = Len(rs)
    BY EmptySeq
  <1> DEFINE front == SubSeq(rs, 1, n - 1)
  <1>2. n \in 1..n /\ (n # 1 => n - 1 \in 1..n /\ n - 1 < n) /\ n - 1 \in Nat
    OBVIOUS
  <1>3. rs[n].old = IF n = 1 THEN g ELSE rs[n - 1].new
    BY <1>1, <1>2 DEF Chained
  <1>4. g < rs[n].new /\ (n # 1 => rs[n - 1].new < rs[n].new)
    BY <1>1, <1>2 DEF Chained
  <1>5. rs[n].new \in Nat /\ (n # 1 => rs[n - 1].new \in Nat)
    BY <1>1, <1>2, LinkType
  <1>6. rs[n].old # rs[n].new
    BY <1>3, <1>4, <1>5
  <1>7. /\ front \in Seq(Links) /\ Len(front) = n - 1
        /\ \A i \in 1..(n - 1) : front[i] = rs[i]
    <2>1. \A i \in 1..(n - 1) : rs[i] \in Links
      BY <1>1, ElementOfSeq
    <2>2. Len(front) = IF 1 <= n - 1 THEN n - 1 - 1 + 1 ELSE 0
      BY <2>1, <1>2, SubSeqProperties
    <2>3. Len(front) = n - 1
      BY <2>2
    <2>4. front \in Seq(Links) /\ \A i \in 1 .. (n - 1) - 1 + 1 : front[i] = rs[1 + i - 1]
      BY <2>1, <1>2, SubSeqProperties
    <2>5. QED
      BY <2>3, <2>4
  <1> HIDE DEF front
  <1>8. CASE n = 1
    <2>1. front = <<>>
      BY <1>7, <1>8, EmptySeq
    <2>2. QED
      BY <1>1, <1>3, <1>6, <1>8, <2>1 DEF HeadOf, front
  <1>9. CASE n # 1
    <2>1. front # <<>> /\ front[Len(front)] = rs[n - 1]
      <3>1. n - 1 \in 1..(n - 1) /\ Len(front) # 0
        BY <1>7, <1>9
      <3>2. QED
        BY <1>7, <3>1, EmptySeq
    <2>2. HeadOf(g, front) = rs[n].old
      BY <1>3, <1>9, <2>1 DEF HeadOf
    <2>3. QED
      BY <1>1, <1>6, <2>2 DEF front
  <1>10. QED
    BY <1>8, <1>9

LEMMA WriteRootStep ==
  ASSUME IInv, TypeOK', NEW p \in Procs, WriteRoot(p)
  PROVE  IInv'
  <1>a. /\ TypeOK /\ DirInv /\ ProcInv(p) /\ Wrote(p, "root") /\ pc[p] = "root"
        /\ "root" \in AgentFiles /\ disk \in Contents /\ buf[p] \in Contents /\ made \in Nat
        /\ pc \in [Procs -> AgentFiles \cup {"idle", "wait", "read_keys", "read_lists", "return"}]
    BY DEF IInv, WriteRoot, Wrote, AgentFiles, TypeOK
  <1>b. /\ disk'.root = buf[p].root /\ disk'.device = disk.device /\ disk'.id = disk.id
        /\ disk'.history = disk.history /\ disk'.rotations = disk.rotations
        /\ UNCHANGED <<now, made, op, at, buf, mem, left>> /\ files' = files \cup {"root"}
        /\ pc'[p] = NextFile(op[p], "root")
    BY <1>a DEF WriteRoot, Wrote, Contents
  <1>1. DevicesOK'
    BY <1>a, <1>b DEF DirInv, DevicesOK, Lists
  <1>2. CASE op[p] = "init"
    <2>1. pc'[p] = "device" /\ files = {} /\ files' = {"root"} /\ ~Committed /\ ~Committed'
      BY <1>a, <1>b, <1>2, NextFileIs, BeforeInInitIs DEF ProcInv, ProgressInv, Committed
    <2>2. FilesOK' /\ ChainOK'
      BY <1>a, <1>b, <2>1 DEF DirInv, FilesOK, ChainOK
    <2>3. ProgressInv(p)'
      BY <1>b, <1>2, <2>1, WritersAre, BeforeInInitIs DEF ProgressInv, AgentFiles
    <2>4. InitInv(p)'
      BY <1>a, <1>b, <1>2, <2>1 DEF ProcInv, InitInv, AgentFiles
    <2>5. RotateRootInv(p)' /\ RotateDeviceInv(p)' /\ DelegationInv(p)'
      BY <1>a, <1>b, <1>2, <2>1 DEF ProcInv, RotateRootInv, RotateDeviceInv, DelegationInv
    <2>6. QED
      BY <1>a, <1>1, <2>2, <2>3, <2>4, <2>5, WriteFrame DEF ProcInv, DirInv
  <1>3. CASE op[p] = "rotate_root"
    <2>1. pc'[p] = "return" /\ files' = files /\ Committed /\ files = AgentFiles
      BY <1>a, <1>b, <1>3, NextFileIs DEF ProcInv, ProgressInv, DirInv, FilesOK
    <2>2. FilesOK'
      BY <1>a, <1>b, <2>1 DEF DirInv, FilesOK, Committed, AgentFiles
    <2> DEFINE rs == disk.rotations
               n == Len(rs)
    <2>3. /\ Chained(disk.id, rs) /\ rs # <<>> /\ rs[n].new = buf[p].root
          /\ disk.id <= made /\ rs \in Seq(Links) /\ disk.id \in Nat
      BY <1>a, <1>3, <2>1 DEF ProcInv, RotateRootInv, Extends, DirInv, ChainOK, Contents
    <2>4. rs[n].old # rs[n].new
      BY <2>3, LastLink
    <2>5. ~Pending(disk')
      BY <1>b, <2>3, <2>4 DEF Pending
    <2>6. HeadOf(disk'.id, Unpended(disk')) = disk'.root
      BY <1>b, <2>3, <2>5 DEF HeadOf, Unpended
    <2>7. ChainOK'
      BY <1>b, <2>3, <2>6 DEF ChainOK, Chained
    <2>8. ProgressInv(p)'
      BY <1>b, <1>3, <2>1 DEF ProgressInv, AgentFiles, Committed
    <2>9. InitInv(p)' /\ RotateRootInv(p)' /\ RotateDeviceInv(p)' /\ DelegationInv(p)'
      BY <1>a, <1>b, <1>3, <2>1 DEF ProcInv, InitInv, RotateRootInv, RotateDeviceInv,
                                    DelegationInv
    <2>10. QED
      BY <1>a, <1>1, <2>2, <2>7, <2>8, <2>9, WriteFrame DEF ProcInv, DirInv
  <1>4. QED
    BY <1>a, <1>2, <1>3, WritersAre DEF ProcInv, ProgressInv

LEMMA WriteDeviceStep ==
  ASSUME IInv, TypeOK', NEW p \in Procs, WriteDevice(p)
  PROVE  IInv'
  <1>a. /\ TypeOK /\ DirInv /\ ProcInv(p) /\ Wrote(p, "device") /\ pc[p] = "device"
        /\ "device" \in AgentFiles /\ disk \in Contents /\ buf[p] \in Contents /\ made \in Nat
        /\ left \in [Keys -> Nat] /\ now \in Nat
        /\ pc \in [Procs -> AgentFiles \cup {"idle", "wait", "read_keys", "read_lists", "return"}]
    BY DEF IInv, WriteDevice, Wrote, AgentFiles, TypeOK, Times
  <1>b. /\ disk'.root = disk.root /\ disk'.device = buf[p].device /\ disk'.id = disk.id
        /\ disk'.history = disk.history /\ disk'.rotations = disk.rotations
        /\ UNCHANGED <<now, made, op, at, buf, mem>> /\ files' = files \cup {"device"}
        /\ pc'[p] = "deleg"
        /\ left' = IF disk.device \in Keys \ {buf[p].device}
                   THEN [left EXCEPT ![disk.device] = now] ELSE left
    BY <1>a, NextFileIs DEF WriteDevice, Wrote, Contents
  <1>1. Committed' = Committed /\ ChainOK'
    <2>1. Committed' = Committed
      BY <1>b DEF Committed
    <2>2. QED
      BY <1>a, <1>b, <2>1 DEF DirInv, ChainOK, Chained, HeadOf, Unpended, Pending
  <1>2. CASE op[p] = "init"
    <2>1. files = {"root"} /\ files' = {"root", "device"} /\ ~Committed /\ ~Committed'
          /\ disk.device = NoKey /\ left' = left
      BY <1>a, <1>b, <1>2, BeforeInInitIs DEF ProcInv, ProgressInv, Committed,
                                              DirInv, FilesOK, NoKey, Keys
    <2>2. FilesOK' /\ ChainOK'
      BY <1>a, <1>b, <2>1 DEF DirInv, FilesOK, ChainOK
    <2>3. DevicesOK'
      BY <1>a, <1>b, <1>2, <2>1 DEF DirInv, DevicesOK, FilesOK, ProcInv, InitInv, Lists
    <2>4. ProgressInv(p)'
      BY <1>b, <1>2, <2>1, WritersAre, BeforeInInitIs DEF ProgressInv, AgentFiles
    <2>5. InitInv(p)'
      BY <1>a, <1>b, <1>2, <2>1 DEF ProcInv, InitInv, AgentFiles
    <2>6. DelegationInv(p)'
      BY <1>a, <1>b, <1>2 DEF ProcInv, InitInv, DelegationInv, AgentFiles
    <2>7. RotateRootInv(p)' /\ RotateDeviceInv(p)'
      BY <1>a, <1>b, <1>2 DEF RotateRootInv, RotateDeviceInv
    <2>8. QED
      BY <1>a, <2>2, <2>3, <2>4, <2>5, <2>6, <2>7, WriteFrame DEF ProcInv, DirInv
  <1>3. CASE op[p] = "rotate_device"
    <2>1. files' = files /\ Committed /\ Committed' /\ files = AgentFiles
      BY <1>a, <1>b, <1>3 DEF ProcInv, ProgressInv, DirInv, FilesOK, Committed
    <2>2. FilesOK'
      BY <1>a, <1>b, <2>1 DEF DirInv, FilesOK
    <2>3. DevicesOK'
      <3>1. /\ disk.history = buf[p].history /\ Lists(buf[p].history)
            /\ disk.device \in Keys => buf[p].history[disk.device] <= now
            /\ disk.device < buf[p].device /\ buf[p].device <= made
            /\ \A k \in Keys : left[k] # Never => k < buf[p].device
            /\ disk.device \in Nat /\ buf[p].device \in Nat
        BY <1>a, <1>3 DEF ProcInv, RotateDeviceInv, Contents
      <3>2. \A k \in Keys : left'[k] = IF k = disk.device THEN now ELSE left[k]
        BY <1>a, <1>b, <3>1 DEF Keys
      <3>3. ASSUME NEW k \in Keys, left'[k] # Never
            PROVE  /\ disk'.history[k] <= left'[k]
                   /\ k # disk'.device /\ k <= made' /\ left'[k] <= now'
        <4>1. CASE k = disk.device
          BY <1>a, <1>b, <3>1, <3>2, <4>1
        <4>2. CASE k # disk.device
          <5>1. left[k] # Never /\ left'[k] = left[k]
            BY <3>2, <3>3, <4>2
          <5>2. k < buf[p].device /\ disk.history[k] <= left[k] /\ k <= made /\ left[k] <= now
            BY <1>a, <3>1, <5>1 DEF Lists, DirInv, DevicesOK
          <5>3. QED
            BY <1>b, <3>1, <5>1, <5>2 DEF Keys
        <4>3. QED
          BY <4>1, <4>2
      <3>4. disk'.device <= made'
        BY <1>b, <3>1
      <3>5. QED
        BY <3>3, <3>4 DEF DevicesOK, Lists
    <2>4. ChainOK'
      BY <1>1, <2>1
    <2>5. ProgressInv(p)'
      BY <1>b, <1>3, <2>1, WritersAre DEF ProgressInv, AgentFiles
    <2>6. InitInv(p)' /\ RotateRootInv(p)' /\ RotateDeviceInv(p)'
      BY <1>b, <1>3 DEF InitInv, RotateRootInv, RotateDeviceInv
    <2>7. DelegationInv(p)'
      BY <1>a, <1>b, <1>3 DEF ProcInv, RotateDeviceInv, DelegationInv
    <2>8. QED
      BY <1>a, <2>2, <2>3, <2>4, <2>5, <2>6, <2>7, WriteFrame DEF ProcInv, DirInv
  <1>4. QED
    BY <1>a, <1>2, <1>3, WritersAre DEF ProcInv, ProgressInv

LEMMA WriteDelegationStep ==
  ASSUME IInv, TypeOK', NEW p \in Procs, WriteDelegation(p)
  PROVE  IInv'
  <1>a. /\ TypeOK /\ DirInv /\ ProcInv(p) /\ Wrote(p, "deleg") /\ pc[p] = "deleg"
        /\ "deleg" \in AgentFiles /\ disk \in Contents /\ buf[p] \in Contents
        /\ pc \in [Procs -> AgentFiles \cup {"idle", "wait", "read_keys", "read_lists", "return"}]
    BY DEF IInv, WriteDelegation, Wrote, AgentFiles, TypeOK
  <1>b. /\ disk'.root = disk.root /\ disk'.device = disk.device /\ disk'.id = disk.id
        /\ disk'.history = disk.history /\ disk'.rotations = disk.rotations
        /\ UNCHANGED <<now, made, op, at, buf, mem, left>> /\ files' = files \cup {"deleg"}
        /\ pc'[p] = IF op[p] \in {"init", "save"} THEN "history" ELSE "return"
    BY <1>a, NextFileIs DEF WriteDelegation, Wrote, Contents
  <1>c. op[p] \in {"init", "rotate_device", "renew", "renew_if_due"}
    BY <1>a, WritersAre DEF ProcInv, ProgressInv
  <1>1. Committed' = Committed /\ (Committed => files' = files)
    BY <1>a, <1>b DEF Committed, DirInv, FilesOK
  <1>2. DirInv'
    <2>1. FilesOK'
      BY <1>a, <1>b, <1>1 DEF DirInv, FilesOK
    <2>2. ChainOK'
      BY <1>a, <1>b, <1>1 DEF DirInv, ChainOK, Chained, HeadOf, Unpended, Pending
    <2>3. DevicesOK'
      BY <1>a, <1>b DEF DirInv, DevicesOK, Lists
    <2>4. QED
      BY <2>1, <2>2, <2>3 DEF DirInv
  <1>3. ProcInv(p)'
    <2>1. ProgressInv(p)'
      <3>1. CASE op[p] = "init"
        BY <1>a, <1>b, <1>1, <3>1, WritersAre, BeforeInInitIs DEF ProcInv, ProgressInv, AgentFiles
      <3>2. CASE op[p] # "init"
        BY <1>a, <1>b, <1>c, <1>1, <3>2 DEF ProcInv, ProgressInv, AgentFiles
      <3>3. QED
        BY <3>1, <3>2
    <2>2. InitInv(p)'
      BY <1>a, <1>b DEF ProcInv, InitInv, AgentFiles
    <2>3. RotateRootInv(p)' /\ RotateDeviceInv(p)'
      BY <1>a, <1>b, <1>c DEF RotateRootInv, RotateDeviceInv
    <2>4. DelegationInv(p)'
      BY <1>a, <1>b DEF ProcInv, DelegationInv
    <2>5. QED
      BY <2>1, <2>2, <2>3, <2>4 DEF ProcInv
  <1>4. QED
    BY <1>a, <1>2, <1>3, WriteFrame

LEMMA WriteHistoryStep ==
  ASSUME IInv, TypeOK', NEW p \in Procs, WriteHistory(p)
  PROVE  IInv'
  <1>a. /\ TypeOK /\ DirInv /\ ProcInv(p) /\ Wrote(p, "history") /\ pc[p] = "history"
        /\ "history" \in AgentFiles /\ disk \in Contents /\ buf[p] \in Contents
        /\ pc \in [Procs -> AgentFiles \cup {"idle", "wait", "read_keys", "read_lists", "return"}]
    BY DEF IInv, WriteHistory, Wrote, AgentFiles, TypeOK
  <1>b. /\ disk'.root = disk.root /\ disk'.device = disk.device /\ disk'.id = disk.id
        /\ disk'.history = buf[p].history /\ disk'.rotations = disk.rotations
        /\ UNCHANGED <<now, made, op, at, buf, mem, left>> /\ files' = files \cup {"history"}
        /\ pc'[p] = IF op[p] = "rotate_device" THEN "device" ELSE "rotations"
    BY <1>a, NextFileIs DEF WriteHistory, Wrote, Contents
  <1>c. op[p] \in {"init", "rotate_device"}
    BY <1>a, WritersAre DEF ProcInv, ProgressInv
  <1>1. Committed' = Committed /\ (Committed => files' = files)
    BY <1>a, <1>b DEF Committed, DirInv, FilesOK
  <1>2. DirInv'
    <2>1. FilesOK'
      BY <1>a, <1>b, <1>1 DEF DirInv, FilesOK
    <2>2. ChainOK'
      BY <1>a, <1>b, <1>1 DEF DirInv, ChainOK, Chained, HeadOf, Unpended, Pending
    <2>3. Lists(buf[p].history)
      <3>1. CASE op[p] = "init"
        <4>1. ~Committed
          BY <1>a, <3>1, BeforeInInitIs DEF ProcInv, ProgressInv, Committed
        <4>2. QED
          BY <1>a, <4>1 DEF DirInv, FilesOK, Lists
      <3>2. CASE op[p] = "rotate_device"
        BY <1>a, <3>2 DEF ProcInv, RotateDeviceInv
      <3>3. QED
        BY <1>c, <3>1, <3>2
    <2>4. DevicesOK'
      BY <1>a, <1>b, <2>3 DEF DirInv, DevicesOK, Lists
    <2>5. QED
      BY <2>1, <2>2, <2>4 DEF DirInv
  <1>3. ProcInv(p)'
    <2>1. ProgressInv(p)'
      <3>1. CASE op[p] = "init"
        BY <1>a, <1>b, <1>1, <3>1, WritersAre, BeforeInInitIs DEF ProcInv, ProgressInv, AgentFiles
      <3>2. CASE op[p] = "rotate_device"
        BY <1>a, <1>b, <1>1, <3>2, WritersAre DEF ProcInv, ProgressInv, AgentFiles
      <3>3. QED
        BY <1>c, <3>1, <3>2
    <2>2. InitInv(p)'
      BY <1>a, <1>b, <1>c DEF ProcInv, InitInv, AgentFiles
    <2>3. RotateRootInv(p)'
      BY <1>a, <1>b, <1>c DEF RotateRootInv
    <2>4. RotateDeviceInv(p)'
      BY <1>a, <1>b, <1>c DEF ProcInv, RotateDeviceInv, Lists
    <2>5. DelegationInv(p)'
      BY <1>a, <1>b DEF ProcInv, DelegationInv
    <2>6. QED
      BY <2>1, <2>2, <2>3, <2>4, <2>5 DEF ProcInv
  <1>4. QED
    BY <1>a, <1>2, <1>3, WriteFrame

LEMMA WriteRotationsStep ==
  ASSUME IInv, TypeOK', NEW p \in Procs, WriteRotations(p)
  PROVE  IInv'
  <1>a. /\ TypeOK /\ DirInv /\ ProcInv(p) /\ Wrote(p, "rotations") /\ pc[p] = "rotations"
        /\ "rotations" \in AgentFiles /\ disk \in Contents /\ buf[p] \in Contents
        /\ pc \in [Procs -> AgentFiles \cup {"idle", "wait", "read_keys", "read_lists", "return"}]
    BY DEF IInv, WriteRotations, Wrote, AgentFiles, TypeOK
  <1>b. /\ disk'.root = disk.root /\ disk'.device = disk.device /\ disk'.id = disk.id
        /\ disk'.history = disk.history /\ disk'.rotations = buf[p].rotations
        /\ UNCHANGED <<now, made, op, at, buf, mem, left>> /\ files' = files \cup {"rotations"}
        /\ pc'[p] = IF op[p] = "rotate_root" THEN "root" ELSE "id"
    BY <1>a, NextFileIs DEF WriteRotations, Wrote, Contents
  <1>1. Committed' = Committed /\ (Committed => files' = files)
    BY <1>a, <1>b DEF Committed, DirInv, FilesOK
  <1>2. DevicesOK'
    BY <1>a, <1>b DEF DirInv, DevicesOK, Lists
  <1>3. RotateDeviceInv(p)' /\ DelegationInv(p)'
    BY <1>a, <1>b, WritersAre DEF ProcInv, ProgressInv, RotateDeviceInv, DelegationInv
  <1>4. CASE op[p] = "init"
    <2>1. ~Committed /\ ~Committed' /\ files' = BeforeInInit("id") /\ buf[p].rotations = <<>>
      BY <1>a, <1>1, <1>b, <1>4, BeforeInInitIs DEF ProcInv, ProgressInv, InitInv, Committed
    <2>2. FilesOK' /\ ChainOK'
      BY <1>a, <1>b, <2>1 DEF DirInv, FilesOK, ChainOK
    <2>3. ProgressInv(p)'
      BY <1>b, <1>4, <2>1, WritersAre DEF ProgressInv, AgentFiles
    <2>4. InitInv(p)'
      BY <1>a, <1>b, <1>4 DEF ProcInv, InitInv, AgentFiles
    <2>5. RotateRootInv(p)'
      BY <1>b, <1>4 DEF RotateRootInv
    <2>6. QED
      BY <1>a, <1>2, <1>3, <2>2, <2>3, <2>4, <2>5, WriteFrame DEF ProcInv, DirInv
  <1>5. CASE op[p] = "rotate_root"
    <2>1. Committed /\ files = AgentFiles /\ Committed' /\ pc'[p] = "root"
      BY <1>a, <1>b, <1>1, <1>5 DEF ProcInv, ProgressInv, DirInv, FilesOK
    <2>2. FilesOK'
      BY <1>a, <1>b, <1>1, <2>1 DEF DirInv, FilesOK
    <2>3. /\ Extends(buf[p].rotations, buf[p].root) /\ disk.id <= made
          /\ disk.id \in Nat /\ buf[p].rotations \in Seq(Links)
      BY <1>a, <1>5, <2>1 DEF ProcInv, RotateRootInv, DirInv, ChainOK, Contents
    <2>4. HeadOf(disk'.id, Unpended(disk')) = disk'.root
      <3>1. Pending(disk')
        BY <1>b, <2>3 DEF Pending, Extends
      <3>2. HeadOf(disk.id, SubSeq(buf[p].rotations, 1, Len(buf[p].rotations) - 1)) = disk.root
        BY <2>3, LastLink DEF Extends
      <3>3. QED
        BY <1>b, <3>1, <3>2 DEF Unpended
    <2>5. ChainOK'
      BY <1>b, <2>3, <2>4 DEF ChainOK, Chained, Extends
    <2>6. ProgressInv(p)'
      BY <1>b, <1>5, <2>1, WritersAre DEF ProgressInv, AgentFiles
    <2>7. RotateRootInv(p)'
      BY <1>b, <2>1, <2>3 DEF RotateRootInv, Extends, Chained
    <2>8. InitInv(p)'
      BY <1>b, <1>5 DEF InitInv
    <2>9. QED
      BY <1>a, <1>2, <1>3, <2>2, <2>5, <2>6, <2>7, <2>8, WriteFrame DEF ProcInv, DirInv
  <1>6. QED
    BY <1>a, <1>4, <1>5, WritersAre DEF ProcInv, ProgressInv

\* The commit: agent_id is the last file of init.
LEMMA WritePrincipalIdStep ==
  ASSUME IInv, TypeOK', NEW p \in Procs, WritePrincipalId(p)
  PROVE  IInv'
  <1>a. /\ TypeOK /\ DirInv /\ ProcInv(p) /\ Wrote(p, "id") /\ pc[p] = "id"
        /\ "id" \in AgentFiles /\ disk \in Contents /\ buf[p] \in Contents
        /\ pc \in [Procs -> AgentFiles \cup {"idle", "wait", "read_keys", "read_lists", "return"}]
    BY DEF IInv, WritePrincipalId, Wrote, AgentFiles, TypeOK
  <1>b. /\ disk'.root = disk.root /\ disk'.device = disk.device /\ disk'.id = buf[p].id
        /\ disk'.history = disk.history /\ disk'.rotations = disk.rotations
        /\ UNCHANGED <<now, made, op, at, buf, mem, left>> /\ files' = files \cup {"id"}
        /\ pc'[p] = "return"
    BY <1>a, NextFileIs DEF WritePrincipalId, Wrote, Contents
  <1>1. op[p] = "init" /\ files = BeforeInInit("id")
    BY <1>a, WritersAre DEF ProcInv, ProgressInv
  <1>2. files' = AgentFiles /\ Committed' /\ ~Committed
    BY <1>b, <1>1, BeforeInInitIs DEF AgentFiles, Committed
  <1>3. /\ disk.rotations = <<>> /\ disk.root = buf[p].root /\ buf[p].id = buf[p].root
        /\ buf[p].root <= made
    BY <1>a, <1>1, <1>2 DEF ProcInv, InitInv, DirInv, FilesOK, AgentFiles
  <1>4. DirInv'
    <2>1. FilesOK'
      BY <1>2 DEF FilesOK, AgentFiles
    <2>2. Chained(disk.id, disk.rotations)'
      <3>1. Len(disk'.rotations) = 0
        BY <1>b, <1>3, EmptySeq
      <3>2. QED
        BY <3>1 DEF Chained
    <2>3. HeadOf(disk'.id, Unpended(disk')) = disk'.root
      BY <1>b, <1>3 DEF HeadOf, Unpended, Pending
    <2>4. ChainOK'
      BY <1>b, <1>3, <2>2, <2>3 DEF ChainOK
    <2>5. DevicesOK'
      BY <1>a, <1>b DEF DirInv, DevicesOK, Lists
    <2>6. QED
      BY <2>1, <2>4, <2>5 DEF DirInv
  <1>5. ProcInv(p)'
    <2>1. ProgressInv(p)'
      BY <1>b, <1>1, <1>2 DEF ProgressInv, AgentFiles
    <2>2. InitInv(p)'
      BY <1>a, <1>b DEF ProcInv, InitInv, AgentFiles
    <2>3. RotateRootInv(p)' /\ RotateDeviceInv(p)' /\ DelegationInv(p)'
      BY <1>a, <1>b, <1>1 DEF ProcInv, RotateRootInv, RotateDeviceInv, DelegationInv
    <2>4. QED
      BY <2>1, <2>2, <2>3 DEF ProcInv
  <1>6. QED
    BY <1>a, <1>4, <1>5, WriteFrame

-----------------------------------------------------------------------------
(* The operator and the clock.                                             *)

LEMMA RemoveStuckStep ==
  ASSUME IInv, TypeOK', RemoveStuck
  PROVE  IInv'
  <1>a. /\ TypeOK /\ LockInv /\ DirInv /\ made \in Nat /\ ~Committed
        /\ \A p \in Procs : pc[p] = "idle" /\ op[p] = "none" /\ ProcInv(p)
    BY DEF IInv, TypeOK, RemoveStuck, ProcInv, ProgressInv, Committed
  <1>b. /\ disk' = Blank /\ files' = {} /\ ~Committed'
        /\ UNCHANGED <<holder, readers, now, made, pc, op, at, buf, mem, left>>
    BY DEF RemoveStuck, locals, Committed
  <1>1. LockInv'
    BY <1>a, <1>b DEF LockInv, Writing, Reading, AgentFiles
  <1>2. DirInv'
    <2>1. Blank.rotations = <<>> /\ Blank.device = NoKey
      BY DEF Blank
    <2>2. FilesOK' /\ ChainOK'
      BY <1>a, <1>b, <2>1 DEF DirInv, FilesOK, ChainOK
    <2>3. \A k \in Keys : left'[k] = Never
      BY <1>a, <1>b DEF DirInv, FilesOK
    <2>4. DevicesOK'
      BY <1>a, <1>b, <2>1, <2>3 DEF DevicesOK, Lists, NoKey
    <2>5. QED
      BY <2>2, <2>4 DEF DirInv
  <1>3. ASSUME NEW p \in Procs PROVE ProcInv(p)'
    <2>1. pc'[p] = "idle" /\ op'[p] = "none" /\ at'[p] = at[p] /\ now' = now
      BY <1>a, <1>b
    <2>2. ProgressInv(p)'
      BY <2>1 DEF ProgressInv, AgentFiles
    <2>3. InitInv(p)' /\ RotateRootInv(p)' /\ RotateDeviceInv(p)'
      BY <2>1 DEF InitInv, RotateRootInv, RotateDeviceInv
    <2>4. DelegationInv(p)'
      BY <1>a, <2>1 DEF ProcInv, DelegationInv
    <2>5. QED
      BY <2>2, <2>3, <2>4 DEF ProcInv
  <1>4. QED
    BY <1>1, <1>2, <1>3 DEF IInv

LEMMA TickStep ==
  ASSUME IInv, TypeOK', Tick
  PROVE  IInv'
  <1>a. /\ TypeOK /\ LockInv /\ DirInv /\ now \in Nat /\ now' = now + 1
        /\ UNCHANGED <<disk, files, holder, readers, made, pc, op, at, buf, mem, left>>
    BY DEF IInv, TypeOK, Times, Tick, locals
  <1>1. LockInv'
    BY <1>a DEF LockInv, Writing, Reading
  <1>2. DirInv'
    <2>1. FilesOK' /\ ChainOK'
      BY <1>a DEF DirInv, FilesOK, ChainOK, Committed, Chained, HeadOf, Unpended, Pending
    <2>2. \A k \in Keys : left[k] \in Nat
      BY <1>a DEF TypeOK
    <2>3. DevicesOK'
      BY <1>a, <2>2 DEF DirInv, DevicesOK, Lists
    <2>4. QED
      BY <2>1, <2>3 DEF DirInv
  <1>3. ASSUME NEW p \in Procs PROVE ProcInv(p)'
    <2>a. buf[p] \in Contents /\ at[p] \in Times
      BY <1>a DEF TypeOK
    <2>1. /\ ProcInv(p) /\ at[p] \in Nat /\ buf[p].history \in [Keys -> Nat]
      BY <2>a DEF IInv, Times, Contents
    <2>2. ProgressInv(p)' /\ InitInv(p)'
      BY <1>a, <2>1 DEF ProcInv, ProgressInv, InitInv, Committed
    <2>3. RotateRootInv(p)'
      BY <1>a, <2>1 DEF ProcInv, RotateRootInv, Extends, Chained
    <2>4. RotateDeviceInv(p)'
      <3>1. disk.device \in Keys /\ buf[p].history[disk.device] <= now
              => buf[p].history[disk.device] <= now + 1
        BY <1>a, <2>1
      <3>2. QED
        BY <1>a, <2>1, <3>1 DEF ProcInv, RotateDeviceInv, Lists
    <2>5. DelegationInv(p)'
      BY <1>a, <2>1 DEF ProcInv, DelegationInv
    <2>6. QED
      BY <2>2, <2>3, <2>4, <2>5 DEF ProcInv
  <1>4. QED
    BY <1>1, <1>2, <1>3 DEF IInv

LEMMA StutterStep ==
  ASSUME IInv, TypeOK', UNCHANGED vars
  PROVE  IInv'
  <1>a. UNCHANGED <<disk, files, holder, readers, now, made, pc, op, at, buf, mem, left>>
    BY DEF vars
  <1>1. LockInv'
    BY <1>a DEF IInv, LockInv, Writing, Reading
  <1>2. DirInv'
    BY <1>a DEF IInv, DirInv, FilesOK, ChainOK, DevicesOK, Committed, Chained, HeadOf, Unpended,
                Pending, Lists
  <1>3. ASSUME NEW p \in Procs PROVE ProcInv(p)'
    <2>1. ProcInv(p)
      BY DEF IInv
    <2>2. ProgressInv(p)' /\ InitInv(p)' /\ DelegationInv(p)'
      BY <1>a, <2>1 DEF ProcInv, ProgressInv, InitInv, DelegationInv, Committed
    <2>3. RotateRootInv(p)' /\ RotateDeviceInv(p)'
      BY <1>a, <2>1 DEF ProcInv, RotateRootInv, Extends, Chained, RotateDeviceInv, Lists
    <2>4. QED
      BY <2>2, <2>3 DEF ProcInv
  <1>4. QED
    BY <1>1, <1>2, <1>3 DEF IInv

-----------------------------------------------------------------------------
(* The inductive invariant.                                                *)

LEMMA InvInit == Init => IInv
  <1> SUFFICES ASSUME Init PROVE IInv
    OBVIOUS
  <1>1. TypeOK
    BY TypeInit
  <1>2. LockInv
    BY DEF Init, LockInv, Writing, Reading, AgentFiles
  <1>3. DirInv
    BY DEF Init, DirInv, FilesOK, ChainOK, DevicesOK, Lists, Committed, Blank, NoKey
  <1>4. ASSUME NEW p \in Procs PROVE ProcInv(p)
    BY DEF Init, ProcInv, ProgressInv, InitInv, RotateRootInv, RotateDeviceInv, DelegationInv,
           AgentFiles
  <1>5. QED
    BY <1>1, <1>2, <1>3, <1>4 DEF IInv

LEMMA InvNext ==
  ASSUME NoSave, IInv, [Next]_vars
  PROVE  IInv'
  <1>a. TypeOK'
    BY TypeNext DEF IInv
  <1>1. ASSUME NEW p \in Procs, Step(p) PROVE IInv'
    <2>1. CASE StartInit(p) \/ Start(p) \/ StartSave(p) \/ StartRenewIfDue(p)
      BY <1>a, <2>1, StartStep
    <2>2. CASE RenewInMemory(p) \/ InitElsewhere(p)
      BY <1>a, <2>2, RenewInMemoryStep DEF InitElsewhere, NoSave
    <2>3. CASE LockExclusive(p)
      BY <1>a, <2>3, LockExclusiveStep
    <2>4. CASE LockShared(p) \/ ReadKeys(p) \/ ReadLists(p)
      BY <1>a, <2>4, ReadStep
    <2>5. CASE Write(p)
      BY <1>a, <2>5, WriteRootStep, WriteDeviceStep, WriteDelegationStep, WriteHistoryStep,
         WriteRotationsStep, WritePrincipalIdStep DEF Write
    <2>6. CASE Return(p)
      BY <1>a, <2>6, ReturnStep
    <2>7. CASE IoError(p)
      BY <1>a, <2>7, RefuseStep DEF IoError
    <2>8. CASE Crash(p)
      BY <1>a, <2>8, CrashStep
    <2>9. QED
      BY <1>1, <2>1, <2>2, <2>3, <2>4, <2>5, <2>6, <2>7, <2>8 DEF Step, Run
  <1>2. CASE RemoveStuck
    BY <1>a, <1>2, RemoveStuckStep
  <1>3. CASE Tick
    BY <1>a, <1>3, TickStep
  <1>4. CASE UNCHANGED vars
    BY <1>a, <1>4, StutterStep
  <1>5. QED
    BY <1>1, <1>2, <1>3, <1>4 DEF Next

\* Every reachable state of a directory nobody calls save on satisfies the
\* inductive invariant.
THEOREM Invariance == NoSave => (Spec => []IInv)
  <1>1. Init => IInv
    BY InvInit
  <1>2. NoSave /\ IInv /\ [Next]_vars => IInv'
    BY InvNext
  <1> QED
    <2>1. SUFFICES ASSUME NoSave PROVE Spec => []IInv
      OBVIOUS
    <2>2. IInv /\ [Next]_vars => IInv'
      BY <1>2, <2>1
    <2>3. QED
      BY <1>1, <2>2, PTL DEF Spec

-----------------------------------------------------------------------------
(* What the code promises.                                                 *)

\* A chain whose roots are each younger than the one before it is a chain of
\* distinct roots.
LEMMA ChainedIsChain ==
  ASSUME NEW g \in Nat, NEW rs \in Seq(Links), Chained(g, rs)
  PROVE  IsChain(g, rs)
  <1>1. \A i \in 1..Len(rs) : rs[i].new \in Nat
    BY LinkType
  <1>2. \A i \in 1..Len(rs) : rs[i].new # g
    BY <1>1 DEF Chained
  <1>3. ASSUME NEW i \in 1..Len(rs), NEW j \in 1..Len(rs), i # j
        PROVE  rs[i].new # rs[j].new
    <2>1. i < j \/ j < i
      BY <1>3
    <2>2. QED
      BY <1>1, <2>1 DEF Chained
  <1>4. QED
    BY <1>2, <1>3 DEF Chained, IsChain

\* ChainReachesRoot: however rotate_root is crashed, failed and retried, the
\* rotations on disk lead from agent_id to the root on disk.
THEOREM ChainReachesRootHolds == NoSave => (Spec => []ChainReachesRoot)
  <1>1. IInv => ChainReachesRoot
    <2>1. SUFFICES ASSUME IInv, Committed
                   PROVE  IsChain(disk.id, disk.rotations)
                          /\ HeadOf(disk.id, Unpended(disk)) = disk.root
      BY DEF ChainReachesRoot
    <2>2. disk.id \in Nat /\ disk.rotations \in Seq(Links)
      BY <2>1 DEF IInv, TypeOK, Contents
    <2>3. Chained(disk.id, disk.rotations) /\ HeadOf(disk.id, Unpended(disk)) = disk.root
      BY <2>1 DEF IInv, DirInv, ChainOK
    <2>4. QED
      BY <2>2, <2>3, ChainedIsChain
  <1> QED
    <2>1. SUFFICES ASSUME NoSave PROVE Spec => []ChainReachesRoot
      OBVIOUS
    <2>2. Spec => []IInv
      BY <2>1, Invariance
    <2>3. QED
      BY <1>1, <2>2, PTL

\* RetiredKeysFailClosed: no device key is ever lost by rotate_device, and
\* none is accepted for a second after the one it was replaced in.
THEOREM RetiredKeysFailClosedHolds == NoSave => (Spec => []RetiredKeysFailClosed)
  <1>1. IInv => RetiredKeysFailClosed
    <2>1. SUFFICES ASSUME IInv, NEW k \in Keys, left[k] # Never
                   PROVE  /\ k \in DeviceKeysAt(disk, 0)
                          /\ \A t \in Times : t > left[k] => k \notin DeviceKeysAt(disk, t)
      BY DEF RetiredKeysFailClosed
    <2>2. TypeOK /\ DevicesOK /\ disk \in Contents
      BY <2>1 DEF IInv, DirInv, TypeOK
    <2>3. disk.history[k] \in Nat /\ left[k] \in Nat /\ now \in Times
      BY <2>2 DEF TypeOK, Contents
    <2>4. k # disk.device /\ left[k] <= now /\ disk.history[k] <= left[k]
      BY <2>1, <2>2 DEF DevicesOK, Lists
    <2>5. disk.history[k] # Never
      BY <2>3, <2>4 DEF Never, Times
    <2>6. k \in DeviceKeysAt(disk, 0)
      BY <2>3, <2>5 DEF DeviceKeysAt
    <2>7. ASSUME NEW t \in Times, t > left[k] PROVE k \notin DeviceKeysAt(disk, t)
      BY <2>3, <2>4, <2>7 DEF DeviceKeysAt, Times
    <2>8. QED
      BY <2>6, <2>7
  <1> QED
    <2>1. SUFFICES ASSUME NoSave PROVE Spec => []RetiredKeysFailClosed
      OBVIOUS
    <2>2. Spec => []IInv
      BY <2>1, Invariance
    <2>3. QED
      BY <1>1, <2>2, PTL

\* The delegation file is written by one step, and by the operator's removal.
LEMMA DelegationChanges ==
  ASSUME TypeOK, NEW p \in Procs, Step(p), disk'.deleg # disk.deleg
  PROVE  WriteDelegation(p)
  <1>a. disk \in Contents
    BY DEF TypeOK
  <1>1. CASE StartInit(p) \/ Start(p) \/ StartSave(p) \/ StartRenewIfDue(p) \/ RenewInMemory(p)
             \/ InitElsewhere(p)
    BY <1>1 DEF StartInit, Start, StartSave, StartRenewIfDue, RenewInMemory, InitElsewhere, Begin
  <1>2. CASE LockExclusive(p)
    BY <1>2 DEF LockExclusive, LockInit, LockSave, LockRenew, LockRotateDevice, LockRotateRoot,
                LockRenewIfDue, Lock, Refuse, End
  <1>3. CASE LockShared(p) \/ ReadKeys(p) \/ ReadLists(p) \/ Return(p) \/ IoError(p) \/ Crash(p)
    BY <1>3 DEF LockShared, ReadKeys, ReadLists, Return, IoError, Crash, Refuse, End
  <1>4. CASE WriteRoot(p) \/ WriteDevice(p) \/ WriteHistory(p) \/ WriteRotations(p)
             \/ WritePrincipalId(p)
    BY <1>a, <1>4 DEF WriteRoot, WriteDevice, WriteHistory, WriteRotations, WritePrincipalId,
                      Contents
  <1>5. QED
    BY <1>1, <1>2, <1>3, <1>4 DEF Step, Run, Write

\* DelegationWritesAreCurrent: renew_if_due, which signs from memory before it
\* has the lock, and the other writers never write a delegation that names
\* another root or device than the ones on disk.
THEOREM DelegationWritesAreCurrentHolds == NoSave => (Spec => DelegationWritesAreCurrent)
  <1> DEFINE A == disk'.deleg # disk.deleg => DelegationIsCurrent(disk') \/ disk' = Blank
  <1>1. ASSUME IInv, Next, disk'.deleg # disk.deleg
        PROVE  DelegationIsCurrent(disk') \/ disk' = Blank
    <2>1. CASE RemoveStuck
      BY <2>1 DEF RemoveStuck
    <2>2. CASE Tick
      BY <1>1, <2>2 DEF Tick
    <2>3. ASSUME NEW p \in Procs, Step(p) PROVE DelegationIsCurrent(disk')
      <3>1. TypeOK /\ DelegationInv(p) /\ WriteDelegation(p) /\ disk \in Contents
        BY <1>1, <2>3, DelegationChanges DEF IInv, ProcInv, TypeOK
      <3>2. buf[p].deleg.root = disk.root /\ buf[p].deleg.device = disk.device
        BY <3>1 DEF DelegationInv, WriteDelegation, Wrote
      <3>3. disk' = [disk EXCEPT !.deleg = buf[p].deleg]
        BY <3>1 DEF WriteDelegation
      <3>4. disk'.root = disk.root /\ disk'.device = disk.device /\ disk'.deleg = buf[p].deleg
        BY <3>1, <3>3 DEF Contents
      <3>5. QED
        BY <3>2, <3>4 DEF DelegationIsCurrent, Matches
    <2>4. QED
      BY <1>1, <2>1, <2>2, <2>3 DEF Next
  <1>2. IInv /\ [Next]_vars => [A]_vars
    BY <1>1
  <1> HIDE DEF A
  <1>3. NoSave => (Spec => [][A]_vars)
    <2>1. SUFFICES ASSUME NoSave PROVE Spec => [][A]_vars
      OBVIOUS
    <2>2. Spec => []IInv
      BY <2>1, Invariance
    <2>3. QED
      BY <1>2, <2>2, PTL DEF Spec
  <1> QED
    BY <1>3 DEF A, DelegationWritesAreCurrent

-----------------------------------------------------------------------------
(* With save among the calls.                                              *)

\* A step of p alone that writes nothing.
LEMMA LockedQuiet ==
  ASSUME LockedInv, TypeOK', LockInv', NEW p \in Procs,
         StageInv(p)', ReadInv(p)', RepairInv(p)',
         \A q \in Procs \ {p} : pc'[q] = pc[q] /\ op'[q] = op[q] /\ buf'[q] = buf[q]
                                /\ mem'[q] = mem[q],
         UNCHANGED <<disk, files>>
  PROVE  LockedInv'
  <1>1. MarkerInv'
    BY DEF LockedInv, MarkerInv, Committed
  <1>2. ASSUME NEW q \in Procs \ {p} PROVE StageInv(q)' /\ ReadInv(q)' /\ RepairInv(q)'
    <2>1. StageInv(q) /\ ReadInv(q) /\ RepairInv(q)
      BY DEF LockedInv
    <2>2. QED
      BY <1>2, <2>1 DEF StageInv, ReadInv, RepairInv, Committed
  <1>3. QED
    BY <1>1, <1>2 DEF LockedInv

\* Ending a call.
LEMMA LockedEnd ==
  ASSUME LockedInv, TypeOK', NEW p \in Procs, End(p),
         \A q \in Procs \ {p} : mem'[q] = mem[q]
  PROVE  LockedInv'
  <1>a. TypeOK /\ LockInv
    BY DEF LockedInv
  <1>b. /\ pc'[p] = "idle" /\ op'[p] = "none" /\ UNCHANGED <<disk, files>>
        /\ \A q \in Procs \ {p} : pc'[q] = pc[q] /\ op'[q] = op[q] /\ buf'[q] = buf[q]
    BY <1>a DEF End, TypeOK
  <1>1. LockInv'
    <2>1. \A q \in Procs \ {p} : (Writing(q)' => Writing(q)) /\ (Reading(q)' => Reading(q))
      BY <1>b DEF Writing, Reading
    <2>2. ~Writing(p)' /\ ~Reading(p)'
      BY <1>b DEF Writing, Reading, AgentFiles
    <2>3. holder' = (IF holder = p THEN NoProc ELSE holder) /\ readers' = readers \ {p}
      BY DEF End, Unlock
    <2>4. QED
      BY <1>a, <2>1, <2>2, <2>3 DEF LockInv
  <1>2. StageInv(p)' /\ ReadInv(p)' /\ RepairInv(p)'
    BY <1>b DEF StageInv, ReadInv, RepairInv, AgentFiles, Shared
  <1>3. QED
    BY <1>b, <1>1, <1>2, LockedQuiet

LEMMA LockedRefuse ==
  ASSUME LockedInv, TypeOK', NEW p \in Procs, Refuse(p)
  PROVE  LockedInv'
  BY LockedEnd DEF Refuse

\* Starting a call.
LEMMA LockedStart ==
  ASSUME LockedInv, TypeOK', NEW p \in Procs,
         StartInit(p) \/ Start(p) \/ StartSave(p) \/ StartRenewIfDue(p)
  PROVE  LockedInv'
  <1>a. TypeOK /\ LockInv
    BY DEF LockedInv
  <1>b. PICK o \in Ops, b \in {buf'[p]} : Begin(p, o, b)
    <2>1. \A o, b : Begin(p, o, b) => buf'[p] = b
      BY <1>a DEF Begin, TypeOK
    <2>2. QED
      BY <2>1 DEF StartInit, Start, StartSave, StartRenewIfDue, Ops
  <1>c. /\ pc'[p] = "wait" /\ op'[p] = o
        /\ UNCHANGED <<disk, files, mem, holder, readers>>
        /\ \A q \in Procs \ {p} : pc'[q] = pc[q] /\ op'[q] = op[q] /\ buf'[q] = buf[q]
    BY <1>a, <1>b DEF Begin, TypeOK
  <1>1. LockInv'
    <2>1. \A q \in Procs \ {p} : (Writing(q)' => Writing(q)) /\ (Reading(q)' => Reading(q))
      BY <1>c DEF Writing, Reading
    <2>2. ~Writing(p)' /\ ~Reading(p)'
      BY <1>c DEF Writing, Reading, AgentFiles
    <2>3. QED
      BY <1>a, <1>c, <2>1, <2>2 DEF LockInv
  <1>2. StageInv(p)'
    BY <1>c DEF StageInv, AgentFiles, Ops
  <1>3. ReadInv(p)' /\ RepairInv(p)'
    BY <1>c DEF ReadInv, RepairInv, AgentFiles
  <1>4. QED
    BY <1>a, <1>c, <1>1, <1>2, <1>3, LockedQuiet

\* A call that never comes to the directory.
LEMMA LockedInMemory ==
  ASSUME LockedInv, TypeOK', NEW p \in Procs, RenewInMemory(p) \/ InitElsewhere(p)
  PROVE  LockedInv'
  <1>a. TypeOK /\ LockInv /\ StageInv(p) /\ ReadInv(p) /\ RepairInv(p)
    BY DEF LockedInv
  <1>1. /\ UNCHANGED <<disk, files, holder, readers, pc, op, buf>>
        /\ \A q \in Procs \ {p} : mem'[q] = mem[q]
    BY <1>a DEF RenewInMemory, InitElsewhere, locals, TypeOK
  <1>2. LockInv'
    BY <1>a, <1>1 DEF LockInv, Writing, Reading
  <1>3. StageInv(p)' /\ ReadInv(p)' /\ RepairInv(p)'
    BY <1>a, <1>1 DEF StageInv, ReadInv, RepairInv, Committed
  <1>4. QED
    BY <1>1, <1>2, <1>3, LockedQuiet

\* Taking the exclusive lock.
LEMMA LockedLock ==
  ASSUME LockedInv, TypeOK', NEW p \in Procs, NEW f \in AgentFiles, NEW b, Lock(p, f, b),
         ExclusiveFree, op[p] \in Writers(f) \cup {"save"},
         op[p] = "init" => files = BeforeInInit(f),
         op[p] = "save" => BeforeInInit(f) \subseteq files,
         op[p] \in OnCommitted => Committed,
         op[p] \in {"renew", "rotate_device"} =>
             /\ DelegationIsCurrent(b)
             /\ b.root = disk.root /\ b.rotations = disk.rotations /\ b.id = disk.id
             /\ f # "history" => b.history = disk.history
             /\ f \notin {"history", "device"} => b.device = disk.device
  PROVE  LockedInv'
  <1>a. TypeOK /\ LockInv /\ op[p] \notin Shared /\ op[p] # "none"
    BY WritersAre DEF LockedInv, AgentFiles, Shared
  <1>b. /\ \A q \in Procs \ {p} : pc'[q] = pc[q] /\ op'[q] = op[q] /\ buf'[q] = buf[q]
                                  /\ mem'[q] = mem[q]
        /\ pc'[p] = f /\ mem'[p] = mem[p] /\ buf'[p] = b /\ op'[p] = op[p]
        /\ UNCHANGED <<disk, files, readers>> /\ holder' = p
    BY <1>a DEF Lock, TypeOK
  <1>1. LockInv'
    <2>1. \A q \in Procs \ {p} : (Writing(q)' => Writing(q)) /\ (Reading(q)' => Reading(q))
      BY <1>b DEF Writing, Reading
    <2>2. \A q \in Procs : ~Writing(q) /\ ~Reading(q)
      BY <1>a DEF LockInv, ExclusiveFree
    <2>3. ~Reading(p)'
      BY <1>b DEF Reading, AgentFiles
    <2>4. QED
      BY <1>b, <2>1, <2>2, <2>3 DEF LockInv, ExclusiveFree
  <1>2. StageInv(p)'
    BY <1>a, <1>b DEF StageInv, AgentFiles, Committed, LockedInv
  <1>3. ReadInv(p)'
    BY <1>a, <1>b DEF ReadInv, Shared
  <1>4. RepairInv(p)'
    BY <1>b DEF RepairInv, AgentFiles
  <1>5. QED
    BY <1>b, <1>1, <1>2, <1>3, <1>4, LockedQuiet

LEMMA LockedLockExclusive ==
  ASSUME LockedInv, TypeOK', NEW p \in Procs, LockExclusive(p)
  PROVE  LockedInv'
  <1>a. /\ StageInv(p) /\ ExclusiveFree /\ at[p] \in Times /\ made \in Nat
        /\ disk \in Contents /\ disk.root \in Nat /\ disk.device \in Nat
    BY DEF LockedInv, TypeOK, LockExclusive, Contents
  <1>b. Loadable => Committed
    BY DEF Loadable, Mandatory, Committed
  <1>1. CASE Refuse(p)
    BY <1>1, LockedRefuse
  <1>2. CASE op[p] \in {"init", "save"} /\ Lock(p, "root", buf[p]) /\ (op[p] = "init" => files = {})
    <2>1. /\ op[p] = "init" => files = BeforeInInit("root")
          /\ BeforeInInit("root") \subseteq files
      BY <1>2, BeforeInInitIs
    <2>2. op[p] \in Writers("root") \cup {"save"} /\ "root" \in AgentFiles
      BY <1>2, WritersAre DEF AgentFiles
    <2>3. QED
      BY <1>a, <1>2, <2>1, <2>2, LockedLock DEF OnCommitted
  <1>3. CASE op[p] = "renew_if_due" /\ Lock(p, "deleg", buf[p])
    <2>1. op[p] \in Writers("deleg") /\ "deleg" \in AgentFiles
      BY <1>3, WritersAre DEF AgentFiles
    <2>2. QED
      BY <1>a, <1>3, <2>1, LockedLock DEF OnCommitted
  <1>4. CASE op[p] = "rotate_root" /\ Loadable /\ (\E b : Lock(p, "rotations", b))
    <2>1. Committed /\ op[p] \in Writers("rotations") /\ "rotations" \in AgentFiles
      BY <1>b, <1>4, WritersAre DEF AgentFiles
    <2>2. QED
      BY <1>a, <1>4, <2>1, LockedLock
  <1>5. CASE LockRenew(p) /\ ~Refuse(p)
    <2> DEFINE b == [disk EXCEPT !.deleg = Delegate(disk.root, disk.device, at[p])]
    <2>1. Lock(p, "deleg", b) /\ op[p] = "renew" /\ Committed
      BY <1>b, <1>5 DEF LockRenew
    <2>2. /\ b.root = disk.root /\ b.rotations = disk.rotations /\ b.id = disk.id
          /\ b.history = disk.history /\ b.device = disk.device
          /\ b.deleg = Delegate(disk.root, disk.device, at[p])
      BY <1>a DEF Contents
    <2>3. DelegationIsCurrent(b)
      BY <2>2 DEF DelegationIsCurrent, Matches, Delegate
    <2>4. op[p] \in Writers("deleg") /\ "deleg" \in AgentFiles
      BY <2>1, WritersAre DEF AgentFiles
    <2> HIDE DEF b
    <2>5. QED
      BY <1>a, <2>1, <2>2, <2>3, <2>4, LockedLock
  <1>6. CASE LockRotateDevice(p) /\ ~Refuse(p)
    <2> DEFINE b == [disk EXCEPT !.history = Retire(@, disk.device, at[p]),
                                 !.device = made + 1,
                                 !.deleg = Delegate(disk.root, made + 1, at[p])]
    <2>1. Lock(p, "history", b) /\ op[p] = "rotate_device" /\ Committed
      BY <1>b, <1>6 DEF LockRotateDevice
    <2>2. /\ b.root = disk.root /\ b.rotations = disk.rotations /\ b.id = disk.id
          /\ b.device = made + 1
          /\ b.deleg = Delegate(disk.root, made + 1, at[p])
      BY <1>a DEF Contents
    <2>3. DelegationIsCurrent(b)
      BY <2>2 DEF DelegationIsCurrent, Matches, Delegate
    <2>4. op[p] \in Writers("history") /\ "history" \in AgentFiles
      BY <2>1, WritersAre DEF AgentFiles
    <2> HIDE DEF b
    <2>5. QED
      BY <1>a, <2>1, <2>2, <2>3, <2>4, LockedLock
  <1>7. QED
    BY <1>1, <1>2, <1>3, <1>4, <1>5, <1>6
       DEF LockExclusive, LockInit, LockSave, LockRotateRoot, LockRenewIfDue

\* The shared lock, and the reads under it: no writer has anything to write.
LEMMA LockedRead ==
  ASSUME LockedInv, TypeOK', NEW p \in Procs, LockShared(p) \/ ReadKeys(p) \/ ReadLists(p)
  PROVE  LockedInv'
  <1>a. TypeOK /\ LockInv /\ StageInv(p) /\ ReadInv(p) /\ disk \in Contents
    BY DEF LockedInv, TypeOK
  <1>1. CASE Refuse(p)
    BY <1>1, LockedRefuse
  <1>2. CASE ~Refuse(p)
    <2>1. /\ UNCHANGED <<disk, files, holder, op, mem>>
          /\ \A q \in Procs \ {p} : pc'[q] = pc[q] /\ buf'[q] = buf[q]
          /\ readers \subseteq readers'
      BY <1>a, <1>2 DEF LockShared, ReadKeys, ReadLists, TypeOK
    <2>2. /\ op[p] \in Shared
          /\ pc'[p] \in {"read_keys", "read_lists", "return"}
          /\ p \in readers' /\ holder = NoProc
          /\ ReadInv(p)'
      <3>1. CASE LockShared(p)
        BY <1>a, <3>1 DEF LockShared, TypeOK, ReadInv
      <3>2. CASE ReadKeys(p)
        <4>1. pc[p] = "read_keys" /\ pc'[p] = "read_lists"
          BY <1>a, <1>2, <3>2 DEF ReadKeys, TypeOK
        <4>2. op[p] \in Shared /\ p \in readers
          BY <1>a, <4>1 DEF StageInv, LockInv, Reading
        <4>3. /\ buf'[p].device = disk.device /\ buf'[p].deleg = disk.deleg
              /\ buf'[p].id = disk.id
              /\ op[p] # "load_device" => buf'[p].root = disk.root
          <5>1. PICK r \in {disk.root, NoKey} :
                   /\ buf' = [buf EXCEPT ![p] = [Blank EXCEPT !.root = r,
                         !.device = disk.device, !.deleg = disk.deleg, !.id = disk.id]]
                   /\ op[p] # "load_device" => r = disk.root
            BY <1>2, <3>2 DEF ReadKeys, Mandatory
          <5>2. buf'[p] = [Blank EXCEPT !.root = r, !.device = disk.device,
                                        !.deleg = disk.deleg, !.id = disk.id]
            BY <1>a, <5>1 DEF TypeOK
          <5>3. QED
            BY <5>1, <5>2, BlankType DEF Contents
        <4>4. QED
          BY <1>a, <2>1, <4>1, <4>2, <4>3 DEF LockInv, ReadInv
      <3>3. CASE ReadLists(p)
        <4>1. pc[p] = "read_lists" /\ pc'[p] = "return"
          BY <1>a, <3>3 DEF ReadLists, TypeOK
        <4>2. op[p] \in Shared /\ p \in readers
          BY <1>a, <4>1 DEF StageInv, LockInv, Reading
        <4>3. /\ buf[p] \in Contents
              /\ buf'[p] = [buf[p] EXCEPT !.history = disk.history,
                                          !.rotations = IF op[p] = "load_device"
                                                        THEN <<>> ELSE disk.rotations]
          BY <1>a, <3>3 DEF ReadLists, TypeOK
        <4>4. /\ buf'[p].device = disk.device /\ buf'[p].deleg = disk.deleg
              /\ buf'[p].id = disk.id
              /\ op[p] # "load_device" => buf'[p].root = disk.root
          BY <1>a, <4>1, <4>2, <4>3 DEF ReadInv, Contents
        <4>5. op[p] # "load_device" => buf'[p] = disk
          <5>1. CASE op[p] # "load_device"
            <6>1. buf'[p] = [buf[p] EXCEPT !.history = disk.history,
                                           !.rotations = disk.rotations]
              BY <4>3, <5>1
            <6>2. buf'[p].history = disk.history /\ buf'[p].rotations = disk.rotations
                  /\ buf'[p] \in Contents
              BY <1>a, <4>3, <6>1 DEF Contents
            <6>3. QED
              BY <1>a, <4>4, <5>1, <6>2 DEF Contents
          <5>2. QED
            BY <5>1
        <4>6. QED
          BY <1>a, <2>1, <4>1, <4>2, <4>4, <4>5 DEF LockInv, ReadInv
      <3>4. QED
        BY <3>1, <3>2, <3>3
    <2>3. LockInv'
      <3>1. \A q \in Procs \ {p} : (Writing(q)' => Writing(q)) /\ (Reading(q)' => Reading(q))
        BY <2>1 DEF Writing, Reading
      <3>2. ~Writing(p)'
        BY <2>1, <2>2 DEF Writing, AgentFiles
      <3>3. QED
        BY <1>a, <2>1, <2>2, <3>1, <3>2 DEF LockInv
    <2>4. StageInv(p)'
      BY <1>a, <2>1, <2>2 DEF StageInv, Shared, AgentFiles, Committed
    <2>5. RepairInv(p)'
      BY <2>1, <2>2 DEF RepairInv, Shared
    <2>6. QED
      BY <1>a, <2>1, <2>2, <2>3, <2>4, <2>5, LockedQuiet
  <1>3. QED
    BY <1>1, <1>2

\* Everybody but the writer is outside the lock, so a write disturbs nobody.
LEMMA LockedWrite ==
  ASSUME LockedInv, TypeOK', NEW p \in Procs, Write(p)
  PROVE  LockedInv'
  <1>a. /\ TypeOK /\ LockInv /\ MarkerInv /\ StageInv(p) /\ RepairInv(p)
        /\ disk \in Contents /\ buf[p] \in Contents
    BY DEF LockedInv, TypeOK
  <1>b. PICK f \in AgentFiles : Wrote(p, f)
    BY DEF Write, WriteRoot, WriteDevice, WriteDelegation, WriteHistory, WriteRotations,
           WritePrincipalId, AgentFiles
  <1>c. /\ UNCHANGED <<holder, readers, op, buf, mem>> /\ files' = files \cup {f}
        /\ \A q \in Procs \ {p} : pc'[q] = pc[q]
        /\ pc[p] = f /\ pc'[p] = NextFile(op[p], f)
        /\ pc'[p] \in AgentFiles \cup {"return"}
    BY <1>a, <1>b DEF Wrote, TypeOK, NextFile, AgentFiles
  <1>d. /\ op[p] \in Writers(f) \cup {"save"} /\ op[p] \notin Shared
        /\ op[p] = "init" => files = BeforeInInit(f)
        /\ op[p] = "save" => BeforeInInit(f) \subseteq files
        /\ op[p] \in OnCommitted => Committed
    BY <1>a, <1>c, WritersAre DEF StageInv, Shared, AgentFiles
  <1>e. holder = p /\ readers = {} /\ p # NoProc
    BY <1>a, <1>c DEF LockInv, Writing
  <1>f. \A q \in Procs \ {p} : ~Writing(q) /\ ~Reading(q)
    BY <1>a, <1>e DEF LockInv
  <1>g. op[p] = "init" => files' = (IF f = "id" THEN AgentFiles ELSE BeforeInInit(pc'[p]))
    BY <1>c, <1>d, NextFileIs, BeforeInInitIs DEF AgentFiles
  <1>1. LockInv'
    <2>1. \A q \in Procs \ {p} : ~Writing(q)' /\ ~Reading(q)'
      BY <1>c, <1>f DEF Writing, Reading
    <2>2. ~Reading(p)'
      BY <1>c, <1>d DEF Reading, AgentFiles
    <2>3. QED
      BY <1>c, <1>e, <2>1, <2>2 DEF LockInv
  <1>2. MarkerInv'
    <2>1. CASE f = "id"
      <3>1. BeforeInInit("id") \subseteq files
        BY <1>d, <2>1, WritersAre
      <3>2. QED
        BY <1>a, <1>c, <2>1, <3>1, BeforeInInitIs DEF MarkerInv, AgentFiles, TypeOK
    <2>2. CASE f # "id"
      BY <1>a, <1>c, <2>2 DEF MarkerInv, Committed
    <2>3. QED
      BY <2>1, <2>2
  <1>3. StageInv(p)'
    <2>1. pc'[p] \in AgentFiles => op[p] \in Writers(pc'[p]) \cup {"save"}
      BY <1>c, <1>d, NextFileIs, WritersAre DEF AgentFiles
    <2>2. pc'[p] \in AgentFiles /\ op[p] = "init" => files' = BeforeInInit(pc'[p])
      BY <1>c, <1>g, NextFileIs DEF AgentFiles
    <2>3. pc'[p] \in AgentFiles /\ op[p] = "save" => BeforeInInit(pc'[p]) \subseteq files'
      BY <1>c, <1>d, NextFileIs, BeforeInInitIs DEF AgentFiles
    <2>4. op[p] \in OnCommitted => Committed'
      BY <1>c, <1>d DEF Committed
    <2>5. op[p] # "none"
      BY <1>a, <1>c DEF StageInv, AgentFiles
    <2>6. QED
      BY <1>c, <2>1, <2>2, <2>3, <2>4, <2>5 DEF StageInv, AgentFiles
  <1>4. RepairInv(p)'
    <2> SUFFICES ASSUME op[p] \in {"renew", "rotate_device"} PROVE RepairInv(p)'
      BY <1>c DEF RepairInv
    <2>1. f \in {"history", "device", "deleg"}
      BY <1>d, WritersAre DEF AgentFiles
    <2>2. /\ DelegationIsCurrent(buf[p]) /\ buf[p].root = disk.root
          /\ buf[p].rotations = disk.rotations /\ buf[p].id = disk.id
          /\ f # "history" => buf[p].history = disk.history
          /\ f \notin {"history", "device"} => buf[p].device = disk.device
      BY <1>a, <1>c DEF RepairInv
    <2>3. CASE f = "history"
      <3>1. disk' = [disk EXCEPT !.history = buf[p].history]
        BY <1>c, <2>3 DEF Write, WriteRoot, WriteDevice, WriteDelegation, WriteHistory,
                                WriteRotations, WritePrincipalId, Wrote
      <3>2. op[p] = "rotate_device" /\ pc'[p] = "device"
        BY <1>c, <1>d, <2>3, NextFileIs, WritersAre
      <3>3. disk'.history = buf[p].history /\ disk'.root = disk.root
            /\ disk'.rotations = disk.rotations /\ disk'.id = disk.id
        BY <1>a, <3>1, <3>2 DEF Contents
      <3>4. QED
        BY <1>c, <2>2, <3>2, <3>3 DEF RepairInv
    <2>4. CASE f = "device"
      <3>1. disk' = [disk EXCEPT !.device = buf[p].device]
        BY <1>c, <2>4 DEF Write, WriteRoot, WriteDevice, WriteDelegation, WriteHistory,
                          WriteRotations, WritePrincipalId, Wrote
      <3>2. pc'[p] = "deleg"
        BY <1>c, <2>4, NextFileIs
      <3>3. disk'.device = buf[p].device /\ disk'.root = disk.root
            /\ disk'.history = disk.history
            /\ disk'.rotations = disk.rotations /\ disk'.id = disk.id
        BY <1>a, <3>1 DEF Contents
      <3>4. QED
        BY <1>c, <2>2, <2>4, <3>2, <3>3 DEF RepairInv
    <2>5. CASE f = "deleg"
      <3>1. disk' = [disk EXCEPT !.deleg = buf[p].deleg]
        BY <1>c, <2>5 DEF Write, WriteRoot, WriteDevice, WriteDelegation, WriteHistory,
                          WriteRotations, WritePrincipalId, Wrote
      <3>2. disk'.deleg = buf[p].deleg /\ disk'.device = disk.device /\ disk'.root = disk.root
            /\ disk'.history = disk.history
            /\ disk'.rotations = disk.rotations /\ disk'.id = disk.id
        BY <1>a, <3>1 DEF Contents
      <3>3. QED
        BY <1>c, <2>2, <2>5, <3>2 DEF RepairInv
    <2>6. QED
      BY <2>1, <2>3, <2>4, <2>5
  <1>5. ReadInv(p)'
    BY <1>c, <1>d DEF ReadInv, Shared
  <1>6. ASSUME NEW q \in Procs \ {p} PROVE StageInv(q)' /\ ReadInv(q)' /\ RepairInv(q)'
    <2>1. StageInv(q) /\ pc'[q] = pc[q] /\ op'[q] = op[q] /\ ~Writing(q) /\ ~Reading(q)
      BY <1>c, <1>f DEF LockedInv
    <2>2. pc[q] \notin AgentFiles \cup {"read_keys", "read_lists", "return"}
      BY <2>1 DEF Writing, Reading
    <2>3. StageInv(q)'
      BY <1>c, <2>1, <2>2 DEF StageInv, Committed
    <2>4. ReadInv(q)' /\ RepairInv(q)'
      BY <2>1, <2>2 DEF ReadInv, RepairInv
    <2>5. QED
      BY <2>3, <2>4
  <1>7. QED
    BY <1>1, <1>2, <1>3, <1>4, <1>5, <1>6 DEF LockedInv

LEMMA LockedInit == Init => LockedInv
  <1> SUFFICES ASSUME Init PROVE LockedInv
    OBVIOUS
  <1>1. TypeOK /\ LockInv
    BY InvInit DEF IInv
  <1>2. MarkerInv
    BY DEF Init, MarkerInv, Committed
  <1>3. ASSUME NEW p \in Procs PROVE StageInv(p) /\ ReadInv(p) /\ RepairInv(p)
    BY DEF Init, StageInv, ReadInv, RepairInv, AgentFiles
  <1>4. QED
    BY <1>1, <1>2, <1>3 DEF LockedInv

LEMMA LockedNext ==
  ASSUME LockedInv, [Next]_vars
  PROVE  LockedInv'
  <1>a. TypeOK' /\ TypeOK /\ LockInv /\ MarkerInv
    BY TypeNext DEF LockedInv
  <1>1. ASSUME NEW p \in Procs, Step(p) PROVE LockedInv'
    <2>1. CASE StartInit(p) \/ Start(p) \/ StartSave(p) \/ StartRenewIfDue(p)
      BY <1>a, <2>1, LockedStart
    <2>2. CASE RenewInMemory(p) \/ InitElsewhere(p)
      BY <1>a, <2>2, LockedInMemory
    <2>3. CASE LockExclusive(p)
      BY <1>a, <2>3, LockedLockExclusive
    <2>4. CASE LockShared(p) \/ ReadKeys(p) \/ ReadLists(p)
      BY <1>a, <2>4, LockedRead
    <2>5. CASE Write(p)
      BY <1>a, <2>5, LockedWrite
    <2>6. CASE Return(p)
      <3>1. \A q \in Procs \ {p} : mem'[q] = mem[q]
        BY <1>a, <2>6 DEF Return, TypeOK
      <3>2. QED
        BY <1>a, <2>6, <3>1, LockedEnd DEF Return
    <2>7. CASE IoError(p)
      BY <1>a, <2>7, LockedRefuse DEF IoError
    <2>8. CASE Crash(p)
      <3>1. \A q \in Procs \ {p} : mem'[q] = mem[q]
        BY <1>a, <2>8 DEF Crash, TypeOK
      <3>2. QED
        BY <1>a, <2>8, <3>1, LockedEnd DEF Crash
    <2>9. QED
      BY <1>1, <2>1, <2>2, <2>3, <2>4, <2>5, <2>6, <2>7, <2>8 DEF Step, Run
  <1>2. CASE RemoveStuck
    <2>1. /\ \A p \in Procs : pc[p] = "idle" /\ op[p] = "none"
          /\ UNCHANGED <<holder, readers, pc, op, buf, mem>>
          /\ ~Committed /\ ~Committed'
      BY <1>2 DEF RemoveStuck, locals, Committed, LockedInv, StageInv
    <2>2. LockInv' /\ MarkerInv'
      BY <1>a, <2>1 DEF LockInv, MarkerInv, Writing, Reading
    <2>3. \A p \in Procs : StageInv(p)' /\ ReadInv(p)' /\ RepairInv(p)'
      BY <2>1 DEF StageInv, ReadInv, RepairInv, AgentFiles
    <2>4. QED
      BY <1>a, <2>2, <2>3 DEF LockedInv
  <1>3. CASE Tick \/ UNCHANGED vars
    <2>1. UNCHANGED <<disk, files, holder, readers, pc, op, buf, mem>>
      BY <1>3 DEF Tick, vars, locals
    <2>2. LockInv' /\ MarkerInv'
      BY <1>a, <2>1 DEF LockInv, MarkerInv, Writing, Reading, Committed
    <2>3. ASSUME NEW p \in Procs PROVE StageInv(p)' /\ ReadInv(p)' /\ RepairInv(p)'
      <3>1. StageInv(p) /\ ReadInv(p) /\ RepairInv(p)
        BY DEF LockedInv
      <3>2. QED
        BY <2>1, <3>1 DEF StageInv, ReadInv, RepairInv, Committed
    <2>4. QED
      BY <1>a, <2>2, <2>3 DEF LockedInv
  <1>4. QED
    BY <1>1, <1>2, <1>3 DEF Next

\* Whatever is called, save with any value at any time included.
THEOREM LockedInvariance == Spec => []LockedInv
  <1>1. Init => LockedInv
    BY LockedInit
  <1>2. LockedInv /\ [Next]_vars => LockedInv'
    BY LockedNext
  <1>3. QED
    BY <1>1, <1>2, PTL DEF Spec

\* CommitMarker: init refuses a directory with any agent file, and it and save,
\* which fills whatever it finds, write agent_id last, so a directory that has
\* agent_id has every other file.
THEOREM CommitMarkerHolds == Spec => []CommitMarker
  <1>1. LockedInv => CommitMarker
    BY DEF LockedInv, MarkerInv, CommitMarker
  <1>2. QED
    BY <1>1, LockedInvariance, PTL

\* SnapshotReads: load, load_verified and load_device read the files one by
\* one, and what they have read is what is on disk until they return.
THEOREM SnapshotReadsHolds == Spec => []SnapshotReads
  <1>1. LockedInv => SnapshotReads
    BY DEF LockedInv, ReadInv, SnapshotReads
  <1>2. QED
    BY <1>1, LockedInvariance, PTL

\* RenewRepairs: on any directory they can load, whichever file a crash left
\* behind, renew and rotate_device end with a current delegation on disk and
\* return exactly what is there.
THEOREM RenewRepairsHolds == Spec => []RenewRepairs
  <1>1. LockedInv => RenewRepairs
    <2> SUFFICES ASSUME LockedInv, NEW p \in Procs, pc[p] = "return",
                        op[p] \in {"renew", "rotate_device"}
                 PROVE  DelegationIsCurrent(disk) /\ buf[p] = disk
      BY DEF RenewRepairs
    <2>1. RepairInv(p) /\ buf[p] \in Contents /\ disk \in Contents
      BY DEF LockedInv, TypeOK
    <2>2. /\ buf[p].root = disk.root /\ buf[p].device = disk.device
          /\ buf[p].deleg = disk.deleg /\ buf[p].history = disk.history
          /\ buf[p].rotations = disk.rotations /\ buf[p].id = disk.id
          /\ DelegationIsCurrent(buf[p])
      BY <2>1 DEF RepairInv
    <2>3. buf[p] = disk
      BY <2>1, <2>2 DEF Contents
    <2>4. QED
      BY <2>2, <2>3
  <1>2. QED
    BY <1>1, LockedInvariance, PTL

-----------------------------------------------------------------------------
(* Who changes what.                                                       *)

LEMMA OnlyWrites ==
  ASSUME NEW p \in Procs, Step(p), ~Write(p)
  PROVE  UNCHANGED <<disk, files>>
  BY DEF Step, Run, StartInit, Start, StartSave, StartRenewIfDue, Begin, RenewInMemory,
         InitElsewhere, LockExclusive, LockInit, LockSave, LockRenew, LockRotateDevice, LockRotateRoot,
         LockRenewIfDue, Lock, LockShared, ReadKeys, ReadLists, Return, IoError, Crash,
         Refuse, End

LEMMA OthersRest ==
  ASSUME TypeOK, NEW p \in Procs, Step(p), NEW q \in Procs \ {p}
  PROVE  pc'[q] = pc[q] /\ op'[q] = op[q] /\ buf'[q] = buf[q] /\ mem'[q] = mem[q]
  <1>a. /\ pc = [r \in Procs |-> pc[r]] /\ op = [r \in Procs |-> op[r]]
        /\ buf = [r \in Procs |-> buf[r]] /\ mem = [r \in Procs |-> mem[r]]
    BY DEF TypeOK
  <1>1. CASE StartInit(p) \/ Start(p) \/ StartSave(p) \/ StartRenewIfDue(p) \/ RenewInMemory(p)
             \/ InitElsewhere(p)
    BY <1>a, <1>1 DEF StartInit, Start, StartSave, StartRenewIfDue, Begin, RenewInMemory,
                      InitElsewhere, locals
  <1>2. CASE Refuse(p) \/ Return(p) \/ IoError(p) \/ Crash(p)
    BY <1>a, <1>2 DEF Return, IoError, Crash, Refuse, End
  <1>3. CASE LockExclusive(p)
    <2>1. ASSUME NEW f, NEW b, Lock(p, f, b)
          PROVE  pc'[q] = pc[q] /\ op'[q] = op[q] /\ buf'[q] = buf[q] /\ mem'[q] = mem[q]
      BY <1>a, <2>1 DEF Lock
    <2>2. QED
      BY <1>2, <1>3, <2>1 DEF LockExclusive, LockInit, LockSave, LockRenew, LockRotateDevice,
                              LockRotateRoot, LockRenewIfDue
  <1>4. CASE Write(p) \/ LockShared(p) \/ ((ReadKeys(p) \/ ReadLists(p)) /\ ~Refuse(p))
    BY <1>a, <1>4 DEF Write, WriteRoot, WriteDevice, WriteDelegation, WriteHistory,
                      WriteRotations, WritePrincipalId, Wrote, LockShared, ReadKeys, ReadLists
  <1>5. QED
    BY <1>1, <1>2, <1>3, <1>4 DEF Step, Run

\* While p writes, nobody else is about to write, read or return.
LEMMA WriterIsAlone ==
  ASSUME TypeOK, LockInv, NEW p \in Procs, Write(p), NEW q \in Procs \ {p}
  PROVE  ~Writing(q) /\ ~Reading(q)
  <1>1. pc[p] \in AgentFiles
    BY DEF Write, WriteRoot, WriteDevice, WriteDelegation, WriteHistory, WriteRotations,
           WritePrincipalId, Wrote, AgentFiles
  <1>2. holder = p /\ readers = {}
    BY <1>1 DEF LockInv, Writing
  <1>3. QED
    BY <1>2 DEF LockInv

-----------------------------------------------------------------------------
(* The roots of a directory, without a pending rotation.                   *)

LEMMA UnpendedMeans ==
  ASSUME NEW d \in Contents
  PROVE  /\ d.rotations \in Seq(Links) /\ Unpended(d) \in Seq(Links)
         /\ Len(d.rotations) \in Nat /\ Len(Unpended(d)) \in Nat
         /\ Len(Unpended(d)) <= Len(d.rotations)
         /\ \A i \in 1..Len(Unpended(d)) : Unpended(d)[i] = d.rotations[i]
         /\ ~Pending(d) => Unpended(d) = d.rotations
         /\ Pending(d) => /\ Len(Unpended(d)) = Len(d.rotations) - 1
                          /\ d.rotations # <<>>
                          /\ d.rotations[Len(d.rotations)].old = d.root
  <1>1. d.rotations \in Seq(Links) /\ Len(d.rotations) \in Nat
    BY LenProperties DEF Contents
  <1>2. CASE Pending(d)
    <2>1. Unpended(d) = SubSeq(d.rotations, 1, Len(d.rotations) - 1)
      BY <1>2 DEF Unpended
    <2>2. Len(d.rotations) \in Nat \ {0}
      BY <1>1, <1>2, EmptySeq DEF Pending
    <2>3. \A i \in 1..(Len(d.rotations) - 1) : d.rotations[i] \in Links
      BY <1>1, ElementOfSeq
    <2>4. /\ Len(Unpended(d)) = Len(d.rotations) - 1
          /\ Unpended(d) \in Seq(Links)
          /\ \A i \in 1..(Len(d.rotations) - 1) : Unpended(d)[i] = d.rotations[i]
      BY <2>1, <2>2, <2>3, SubSeqProperties
    <2>5. QED
      BY <1>1, <1>2, <2>2, <2>4 DEF Pending
  <1>3. CASE ~Pending(d)
    BY <1>1, <1>3 DEF Unpended
  <1>4. QED
    BY <1>2, <1>3

\* Only the identity, the root and the rotations count.
LEMMA BehindSame ==
  ASSUME NEW d, NEW e, Behind(e), d.id = e.id, d.root = e.root, d.rotations = e.rotations
  PROVE  Behind(d)
  BY DEF Behind, Unpended, Pending

LEMMA BehindDisk ==
  ASSUME TypeOK, Committed
  PROVE  Behind(disk)
  <1>1. disk \in Contents
    BY DEF TypeOK
  <1>2. Len(Unpended(disk)) \in Nat
    BY <1>1, UnpendedMeans
  <1>3. QED
    BY <1>2 DEF Behind

\* The identity stays and its roots only grow at their end.
LineKept ==
  /\ Committed' /\ disk'.id = disk.id
  /\ Len(Unpended(disk)) <= Len(Unpended(disk'))
  /\ \A i \in 1..Len(Unpended(disk)) : disk'.rotations[i] = disk.rotations[i]

LEMMA BehindStays ==
  ASSUME TypeOK, TypeOK', LineKept, NEW d \in Contents, Behind(d)
  PROVE  Behind(d)'
  <1>1. disk \in Contents /\ disk' \in Contents
    BY DEF TypeOK
  <1>2. Len(Unpended(disk)) \in Nat /\ Len(Unpended(disk')) \in Nat /\ Len(Unpended(d)) \in Nat
    BY <1>1, UnpendedMeans
  <1>3. Committed' /\ d.id = disk'.id
    BY DEF Behind, LineKept
  <1>4. Len(Unpended(d)) <= Len(Unpended(disk'))
    BY <1>2 DEF Behind, LineKept
  <1>5. \A i \in 1..Len(Unpended(d)) : d.rotations[i] = disk'.rotations[i]
    BY <1>2 DEF Behind, LineKept
  <1>6. QED
    BY <1>3, <1>4, <1>5 DEF Behind, Committed, Unpended, Pending

\* rotate_root's two writes: the first replaces at most a pending rotation, the
\* second makes the last rotation one of the directory's roots.  No other step
\* writes to the rotations, the root or the identity of a committed directory.
LEMMA LineGrows ==
  ASSUME IInv, IInv', HeldInv, [Next]_vars, Committed
  PROVE  LineKept
  <1>a. TypeOK /\ TypeOK' /\ disk \in Contents /\ disk' \in Contents /\ LockInv
    BY DEF IInv, TypeOK
  <1>b. Len(Unpended(disk)) \in Nat /\ Len(Unpended(disk')) \in Nat
    BY <1>a, UnpendedMeans
  <1>c. ASSUME Committed', disk'.id = disk.id, disk'.root = disk.root,
               disk'.rotations = disk.rotations
        PROVE  LineKept
    <2>1. Unpended(disk') = Unpended(disk)
      BY <1>c DEF Unpended, Pending
    <2>2. QED
      BY <1>b, <1>c, <2>1 DEF LineKept
  <1>1. CASE UNCHANGED vars \/ Tick
    BY <1>1, <1>c DEF vars, Tick, Committed
  <1>2. CASE RemoveStuck
    BY <1>2 DEF RemoveStuck, Committed
  <1>3. ASSUME NEW p \in Procs, Step(p), ~Write(p) PROVE LineKept
    BY <1>3, <1>c, OnlyWrites DEF Committed
  <1>4. ASSUME NEW p \in Procs, Write(p) PROVE LineKept
    <2>a. /\ ProgressInv(p) /\ RotateRootInv(p) /\ HandedOutInv(p) /\ buf[p] \in Contents
          /\ op[p] # "init" \/ pc[p] \notin AgentFiles
      <3>1. ProgressInv(p) /\ RotateRootInv(p) /\ HandedOutInv(p) /\ buf[p] \in Contents
        BY <1>a DEF IInv, ProcInv, HeldInv, TypeOK
      <3>2. ASSUME op[p] = "init", pc[p] \in AgentFiles PROVE FALSE
        <4>1. files = BeforeInInit(pc[p])
          BY <3>1, <3>2 DEF ProgressInv
        <4>2. "id" \notin files
          BY <3>2, <4>1, BeforeInInitIs DEF AgentFiles
        <4>3. QED
          BY <4>2 DEF Committed
      <3>3. QED
        BY <3>1, <3>2
    <2>b. /\ Committed' /\ op'[p] = op[p] /\ buf' = buf
          /\ pc[p] \in AgentFiles => op[p] \in Writers(pc[p]) \ {"init"}
      BY <1>4, <2>a DEF Write, WriteRoot, WriteDevice, WriteDelegation, WriteHistory,
                  WriteRotations, WritePrincipalId, Wrote, Committed, ProgressInv
    <2>1. CASE WriteDevice(p) \/ WriteDelegation(p) \/ WriteHistory(p)
      BY <1>a, <1>c, <2>1, <2>b DEF WriteDevice, WriteDelegation, WriteHistory, Contents
    <2>2. CASE WritePrincipalId(p)
      BY <2>2, <2>b, WritersAre DEF WritePrincipalId, Wrote, AgentFiles
    <2>3. CASE WriteRotations(p)
      <3>1. pc[p] = "rotations" /\ op[p] = "rotate_root"
        BY <2>3, <2>b, WritersAre DEF WriteRotations, Wrote, AgentFiles
      <3> DEFINE us == Unpended(disk)
                 link == [old |-> disk.root, new |-> buf[p].root]
      <3>2. buf[p].rotations = Append(us, link)
        BY <2>a, <3>1 DEF HandedOutInv
      <3>3. disk'.rotations = buf[p].rotations /\ disk'.root = disk.root /\ disk'.id = disk.id
        BY <1>a, <2>3 DEF WriteRotations, Contents
      <3>4. us \in Seq(Links) /\ link \in Links
        BY <1>a, <2>a, UnpendedType DEF Contents, Links
      <3>5. /\ Len(disk'.rotations) = Len(us) + 1
            /\ \A i \in 1..Len(us) : disk'.rotations[i] = us[i]
        BY <3>2, <3>3, <3>4, AppendProperties
      <3>6. Len(Unpended(disk')) >= Len(disk'.rotations) - 1
        BY <1>a, UnpendedMeans
      <3>7. \A i \in 1..Len(us) : us[i] = disk.rotations[i]
        BY <1>a, UnpendedMeans
      <3>8. Len(us) <= Len(Unpended(disk'))
        BY <1>b, <3>5, <3>6
      <3>9. QED
        BY <2>b, <3>3, <3>5, <3>7, <3>8 DEF LineKept
    <2>4. CASE WriteRoot(p)
      <3>1. pc[p] = "root" /\ op[p] = "rotate_root"
        BY <2>4, <2>b, WritersAre DEF WriteRoot, Wrote, AgentFiles
      <3>2. disk'.rotations = disk.rotations /\ disk'.root = buf[p].root /\ disk'.id = disk.id
        BY <1>a, <2>4 DEF WriteRoot, Contents
      <3> DEFINE ds == disk.rotations
      <3>3. /\ Extends(ds, buf[p].root)
        BY <2>a, <3>1 DEF RotateRootInv
      <3>4. Len(ds) \in Nat \ {0} /\ ds \in Seq(Links) /\ disk.id \in Nat
        BY <1>a, <3>3, UnpendedMeans, EmptySeq DEF Extends, Contents
      <3>5. ds[Len(ds)].new \in Nat /\ ds[Len(ds)].old \in Nat
        BY <3>4, LinkType
      <3>6. ds[Len(ds)].old # ds[Len(ds)].new
        <4>1. CASE Len(ds) = 1
          BY <3>3, <3>4, <3>5, <4>1 DEF Extends, Chained
        <4>2. CASE Len(ds) # 1
          <5>1. Len(ds) - 1 \in 1..Len(ds) /\ Len(ds) \in 1..Len(ds) /\ Len(ds) - 1 < Len(ds)
            <6>1. \A n \in Nat \ {0} : n # 1 => n - 1 \in 1..n /\ n \in 1..n /\ n - 1 < n
              OBVIOUS
            <6>2. QED
              BY <3>4, <4>2, <6>1
          <5>2. ds[Len(ds) - 1].new \in Nat
            BY <3>4, <5>1, LinkType
          <5>3. ds[Len(ds)].old = ds[Len(ds) - 1].new /\ ds[Len(ds) - 1].new < ds[Len(ds)].new
            BY <3>3, <4>2, <5>1 DEF Extends, Chained
          <5>4. QED
            BY <3>5, <5>2, <5>3
        <4>3. QED
          BY <4>1, <4>2
      <3>7. ~Pending(disk')
        BY <3>2, <3>3, <3>6 DEF Pending, Extends
      <3>8. Unpended(disk') = ds
        BY <3>2, <3>7 DEF Unpended
      <3>9. Len(Unpended(disk)) <= Len(ds)
        BY <1>a, UnpendedMeans
      <3>10. QED
        BY <2>b, <3>2, <3>8, <3>9 DEF LineKept
    <2>5. QED
      BY <1>4, <2>1, <2>2, <2>3, <2>4 DEF Write
  <1>5. QED
    BY <1>1, <1>2, <1>3, <1>4 DEF Next

-----------------------------------------------------------------------------
(* What is held and handed back.                                           *)

LEMMA HeldInit == Init => HeldInv
  BY DEF Init, HeldInv, HandedOutInv, Committed

\* The identity in agent_id is a key init generated.
LEMMA IdIsKey ==
  ASSUME IInv, IInv', HeldInv, [Next]_vars, Committed'
  PROVE  disk'.id \in Keys
  <1>a. TypeOK /\ TypeOK' /\ disk \in Contents /\ disk' \in Contents
    BY DEF IInv, TypeOK
  <1>1. CASE Committed
    BY <1>1, LineGrows DEF LineKept, HeldInv
  <1>2. CASE ~Committed
    <2>1. PICK p \in Procs : Write(p)
      <3>1. files' # files
        BY <1>2 DEF Committed
      <3>2. ~RemoveStuck /\ ~Tick /\ ~UNCHANGED vars
        BY <3>1 DEF RemoveStuck, Tick, vars, Committed
      <3>3. QED
        BY <3>1, <3>2, OnlyWrites DEF Next
    <2>2. WritePrincipalId(p)
      BY <1>2, <2>1 DEF Write, WriteRoot, WriteDevice, WriteDelegation, WriteHistory,
                        WriteRotations, Wrote, Committed
    <2>3. pc[p] = "id" /\ disk'.id = buf[p].id
      BY <1>a, <2>2 DEF WritePrincipalId, Wrote, Contents
    <2>4. op[p] = "init"
      BY <2>3, WritersAre DEF IInv, ProcInv, ProgressInv, AgentFiles
    <2>5. QED
      BY <2>3, <2>4 DEF HeldInv, HandedOutInv
  <1>3. QED
    BY <1>1, <1>2

\* A process that does nothing keeps what it has, behind a line that grows.
LEMMA HeldByOthers ==
  ASSUME IInv, IInv', HeldInv, [Next]_vars, NEW q \in Procs,
         pc'[q] = pc[q], op'[q] = op[q], buf'[q] = buf[q], mem'[q] = mem[q],
         Writing(q) => disk' = disk
  PROVE  HandedOutInv(q)'
  <1>a. /\ TypeOK /\ TypeOK' /\ mem[q] \in Contents /\ buf[q] \in Contents
        /\ HandedOutInv(q) /\ ProgressInv(q)
    BY DEF IInv, TypeOK, HeldInv, ProcInv
  <1>1. ASSUME NEW d \in Contents, Behind(d) PROVE Behind(d)'
    <2>1. LineKept
      BY <1>1, LineGrows DEF Behind
    <2>2. QED
      BY <1>a, <1>1, <2>1, BehindStays
  <1>2. mem'[q] # Blank => Behind(mem[q])'
    BY <1>a, <1>1 DEF HandedOutInv
  <1>3. op'[q] = "renew_if_due" => Behind(buf[q])'
    BY <1>a, <1>1 DEF HandedOutInv
  <1>4. op'[q] = "init" /\ pc'[q] = "return" => Behind(buf[q])'
    BY <1>a, <1>1 DEF HandedOutInv
  <1>5. op'[q] = "rotate_root" /\ pc'[q] = "rotations" =>
          buf'[q].rotations = Append(Unpended(disk'), [old |-> disk'.root, new |-> buf'[q].root])
    BY <1>a DEF HandedOutInv, Writing, AgentFiles
  <1>6. QED
    BY <1>a, <1>2, <1>3, <1>4, <1>5 DEF HandedOutInv, Behind, Committed

\* The process that takes a step.
LEMMA HeldByStepper ==
  ASSUME NoSave, IInv, IInv', LockedInv, HeldInv, NEW p \in Procs, Step(p)
  PROVE  HandedOutInv(p)'
  <1>a. /\ TypeOK /\ TypeOK' /\ mem[p] \in Contents /\ buf[p] \in Contents
        /\ disk \in Contents /\ disk' \in Contents
        /\ HandedOutInv(p) /\ ProgressInv(p) /\ InitInv(p) /\ [Next]_vars
    BY DEF IInv, TypeOK, HeldInv, ProcInv, Next
  <1>b. ASSUME NEW d \in Contents, Behind(d) PROVE Behind(d)'
    <2>1. LineKept
      BY <1>a, <1>b, LineGrows DEF Behind
    <2>2. QED
      BY <1>a, <1>b, <2>1, BehindStays
  <1>c. mem'[p] = mem[p] => (mem'[p] # Blank => Behind(mem[p])')
    BY <1>a, <1>b DEF HandedOutInv
  <1>d. ASSUME mem'[p] = mem[p], op'[p] \notin {"renew_if_due", "init", "rotate_root"}
        PROVE  HandedOutInv(p)'
    BY <1>c, <1>d DEF HandedOutInv
  <1>1. CASE StartInit(p)
    <2>1. /\ op'[p] = "init" /\ pc'[p] = "wait" /\ mem'[p] = mem[p]
          /\ buf'[p] = NewIdentity(made + 1, made + 2, now)
          /\ made + 2 \in Keys /\ made \in Nat
      BY <1>a, <1>1 DEF StartInit, Begin, TypeOK
    <2>2. buf'[p].id = made + 1
      BY <2>1, BlankType DEF NewIdentity, Contents, Blank
    <2>3. made + 1 \in Keys
      BY <2>1 DEF Keys
    <2>4. QED
      BY <1>c, <2>1, <2>2, <2>3 DEF HandedOutInv
  <1>2. CASE Start(p) \/ StartSave(p)
    <2>1. mem'[p] = mem[p] /\ op'[p] \notin {"renew_if_due", "init"} /\ pc'[p] = "wait"
      BY <1>a, <1>2 DEF Start, StartSave, Begin, TypeOK
    <2>2. QED
      BY <1>c, <2>1 DEF HandedOutInv
  <1>3. ASSUME mem[p] # Blank
        PROVE  Behind([mem[p] EXCEPT !.deleg = Delegate(mem[p].root, mem[p].device, now)])
    <2>1. Behind(mem[p])
      BY <1>a, <1>3 DEF HandedOutInv
    <2>2. QED
      BY <1>a, <2>1, BehindSame DEF Contents
  <1>4. CASE StartRenewIfDue(p)
    <2>1. /\ mem[p] # Blank /\ mem'[p] = mem[p] /\ op'[p] = "renew_if_due"
          /\ buf'[p] = [mem[p] EXCEPT !.deleg = Delegate(mem[p].root, mem[p].device, now)]
          /\ disk' = disk /\ files' = files
      BY <1>a, <1>4 DEF StartRenewIfDue, Begin, TypeOK
    <2>2. Behind(buf'[p])
      BY <1>3, <2>1
    <2>3. Behind(buf[p])'
      BY <2>1, <2>2 DEF Behind, Committed
    <2>4. QED
      BY <1>c, <2>1, <2>3 DEF HandedOutInv
  <1>5. CASE RenewInMemory(p)
    <2>1. /\ mem[p] # Blank
          /\ mem'[p] = [mem[p] EXCEPT !.deleg = Delegate(mem[p].root, mem[p].device, now)]
          /\ disk' = disk /\ files' = files /\ op'[p] = op[p] /\ pc'[p] = "idle"
          /\ pc[p] = "idle"
      BY <1>a, <1>5 DEF RenewInMemory, locals, TypeOK
    <2>2. Behind(mem'[p])
      BY <1>3, <2>1
    <2>3. Behind(mem[p])'
      BY <2>1, <2>2 DEF Behind, Committed
    <2>4. op'[p] = "none"
      BY <1>a, <2>1 DEF ProgressInv
    <2>5. QED
      BY <2>3, <2>4 DEF HandedOutInv
  <1>6. ASSUME End(p), mem'[p] # Blank => Behind(mem'[p]) PROVE HandedOutInv(p)'
    <2>1. op'[p] = "none" /\ disk' = disk /\ files' = files
      BY <1>a, <1>6 DEF End, TypeOK
    <2>2. mem'[p] # Blank => Behind(mem[p])'
      BY <1>6, <2>1 DEF Behind, Committed
    <2>3. QED
      BY <2>1, <2>2 DEF HandedOutInv
  <1>7. CASE Refuse(p) \/ IoError(p)
    BY <1>a, <1>6, <1>7 DEF Refuse, IoError, HandedOutInv
  <1>8. CASE Crash(p)
    <2>1. mem'[p] = Blank
      BY <1>a, <1>8 DEF Crash, TypeOK
    <2>2. QED
      BY <1>6, <1>8, <2>1 DEF Crash
  <1>9. CASE Return(p)
    <2>1. mem'[p] = Returned(p) /\ pc[p] = "return" /\ Committed /\ End(p)
      BY <1>a, <1>9 DEF Return, TypeOK, ProgressInv
    <2>2. CASE op[p] \in {"init", "renew_if_due"}
      BY <1>a, <1>6, <2>1, <2>2 DEF Returned, HandedOutInv
    <2>3. CASE op[p] \in {"renew", "rotate_device"}
      <3>1. RepairInv(p)
        BY DEF LockedInv
      <3>2. buf[p].id = disk.id /\ buf[p].root = disk.root /\ buf[p].rotations = disk.rotations
        BY <2>1, <2>3, <3>1 DEF RepairInv
      <3>3. Behind(buf[p])
        BY <1>a, <2>1, <3>2, BehindDisk, BehindSame
      <3>4. QED
        BY <1>6, <2>1, <2>3, <3>3 DEF Returned
    <2>4. CASE op[p] \in {"load", "load_verified"}
      <3>1. ReadInv(p)
        BY DEF LockedInv
      <3>2. buf[p] = disk
        BY <2>1, <2>4, <3>1 DEF ReadInv
      <3>3. Behind(buf[p])
        BY <1>a, <2>1, <3>2, BehindDisk
      <3>4. QED
        BY <1>a, <1>6, <2>1, <2>4, <3>3 DEF Returned, HandedOutInv
    <2>5. CASE op[p] \notin {"init", "renew_if_due", "renew", "rotate_device", "load",
                             "load_verified"}
      BY <1>a, <1>6, <2>1, <2>5 DEF Returned, HandedOutInv
    <2>6. QED
      BY <2>2, <2>3, <2>4, <2>5
  <1>10. CASE LockExclusive(p) /\ ~Refuse(p)
    <2>1. ASSUME NEW f, NEW b, Lock(p, f, b)
          PROVE  /\ mem'[p] = mem[p] /\ op'[p] = op[p] /\ pc'[p] = f /\ buf'[p] = b
                 /\ disk' = disk /\ files' = files
      BY <1>a, <2>1 DEF Lock, TypeOK
    <2>2. CASE LockInit(p) \/ LockRenewIfDue(p)
      <3>1. /\ op[p] \in {"init", "renew_if_due"} /\ mem'[p] = mem[p] /\ op'[p] = op[p]
            /\ buf'[p] = buf[p] /\ pc'[p] # "return" /\ disk' = disk /\ files' = files
        BY <1>10, <2>1, <2>2 DEF LockInit, LockRenewIfDue
      <3>2. op'[p] = "renew_if_due" => Behind(buf[p])'
        BY <1>a, <1>b, <3>1 DEF HandedOutInv
      <3>3. QED
        BY <1>a, <1>c, <3>1, <3>2 DEF HandedOutInv
    <2>3. CASE LockSave(p) \/ LockRenew(p) \/ LockRotateDevice(p)
      <3>1. op'[p] = op[p] /\ op[p] \in {"save", "renew", "rotate_device"} /\ mem'[p] = mem[p]
        BY <1>10, <2>1, <2>3 DEF LockSave, LockRenew, LockRotateDevice
      <3>2. QED
        BY <1>d, <3>1
    <2>4. CASE LockRotateRoot(p)
      <3> DEFINE b == [disk EXCEPT !.rotations = Append(Unpended(disk),
                                       [old |-> disk.root, new |-> made + 1]),
                                   !.root = made + 1]
      <3>1. Lock(p, "rotations", b) /\ op[p] = "rotate_root"
        BY <1>10, <2>4 DEF LockRotateRoot
      <3>2. /\ b.root = made + 1
            /\ b.rotations = Append(Unpended(disk), [old |-> disk.root, new |-> made + 1])
        BY <1>a DEF Contents
      <3> HIDE DEF b
      <3>3. /\ mem'[p] = mem[p] /\ op'[p] = "rotate_root" /\ buf'[p] = b /\ disk' = disk
        BY <2>1, <3>1
      <3>4. QED
        BY <1>c, <3>2, <3>3 DEF HandedOutInv
    <2>5. QED
      BY <1>10, <2>2, <2>3, <2>4 DEF LockExclusive
  <1>11. CASE LockShared(p) \/ ((ReadKeys(p) \/ ReadLists(p)) /\ ~Refuse(p))
    <2>1. mem'[p] = mem[p] /\ op'[p] = op[p] /\ op[p] \in Shared
      BY <1>a, <1>11 DEF LockShared, ReadKeys, ReadLists, ProgressInv
    <2>2. QED
      BY <1>d, <2>1 DEF Shared
  <1>12. CASE Write(p)
    <2>1. /\ mem'[p] = mem[p] /\ op'[p] = op[p] /\ buf'[p] = buf[p]
          /\ pc[p] \in AgentFiles /\ pc'[p] = NextFile(op[p], pc[p])
          /\ op[p] \in Writers(pc[p])
      BY <1>a, <1>12 DEF Write, WriteRoot, WriteDevice, WriteDelegation, WriteHistory,
                         WriteRotations, WritePrincipalId, Wrote, ProgressInv, AgentFiles, TypeOK
    <2>2. op'[p] = "renew_if_due" => Behind(buf[p])'
      BY <1>a, <1>b, <2>1 DEF HandedOutInv
    <2>3. ~(op'[p] = "rotate_root" /\ pc'[p] = "rotations")
      BY <2>1, NextFileIs, WritersAre DEF AgentFiles
    <2>4. ASSUME op'[p] = "init", pc'[p] = "return" PROVE Behind(buf[p])'
      <3>1. pc[p] = "id" /\ op[p] = "init"
        BY <2>1, <2>4, NextFileIs, WritersAre DEF AgentFiles
      <3>2. disk'.id = buf[p].id /\ disk'.root = disk.root /\ disk'.rotations = disk.rotations
            /\ Committed'
        BY <1>a, <1>12, <3>1 DEF Write, WriteRoot, WriteDevice, WriteDelegation, WriteHistory,
                                 WriteRotations, WritePrincipalId, Wrote, Contents, Committed
      <3>3. files = BeforeInInit("id")
        BY <1>a, <3>1 DEF ProgressInv, AgentFiles
      <3>4. ~Committed
        BY <3>3, BeforeInInitIs DEF Committed
      <3>5. disk.rotations = <<>> /\ disk.root = buf[p].root /\ buf[p].rotations = <<>>
        BY <1>a, <3>1, <3>4 DEF IInv, DirInv, FilesOK, InitInv, AgentFiles
      <3>6. buf[p].id = disk'.id /\ buf[p].root = disk'.root
            /\ buf[p].rotations = disk'.rotations
        BY <3>2, <3>5
      <3>7. Unpended(buf[p]) = Unpended(disk')
        BY <3>6 DEF Unpended, Pending
      <3>8. Len(Unpended(disk')) \in Nat
        BY <1>a, UnpendedMeans
      <3>9. QED
        BY <2>1, <3>2, <3>6, <3>7, <3>8 DEF Behind, Unpended, Pending
    <2>5. QED
      BY <1>a, <1>c, <2>1, <2>2, <2>3, <2>4 DEF HandedOutInv
  <1>13. ~InitElsewhere(p)
    BY DEF InitElsewhere, NoSave
  <1>14. QED
    BY <1>1, <1>2, <1>4, <1>5, <1>7, <1>8, <1>9, <1>10, <1>11, <1>12, <1>13 DEF Step, Run

LEMMA HeldNext ==
  ASSUME NoSave, IInv, IInv', LockedInv, HeldInv, [Next]_vars
  PROVE  HeldInv'
  <1>a. TypeOK /\ TypeOK' /\ LockInv
    BY DEF IInv
  <1>1. Committed' => disk'.id \in Keys
    BY IdIsKey
  <1>2. ASSUME NEW q \in Procs PROVE HandedOutInv(q)'
    <2>1. CASE Step(q)
      BY <2>1, HeldByStepper
    <2>2. ASSUME NEW p \in Procs \ {q}, Step(p) PROVE HandedOutInv(q)'
      <3>1. pc'[q] = pc[q] /\ op'[q] = op[q] /\ buf'[q] = buf[q] /\ mem'[q] = mem[q]
        BY <1>a, <2>2, OthersRest
      <3>2. Writing(q) => disk' = disk
        BY <1>a, <2>2, OnlyWrites, WriterIsAlone
      <3>3. QED
        BY <3>1, <3>2, HeldByOthers
    <2>3. CASE RemoveStuck \/ Tick \/ UNCHANGED vars
      <3>1. pc'[q] = pc[q] /\ op'[q] = op[q] /\ buf'[q] = buf[q] /\ mem'[q] = mem[q]
        BY <2>3 DEF RemoveStuck, Tick, vars, locals
      <3>2. Writing(q) => disk' = disk
        BY <2>3 DEF RemoveStuck, Tick, vars, Writing, AgentFiles
      <3>3. QED
        BY <3>1, <3>2, HeldByOthers
    <2>4. QED
      BY <2>1, <2>2, <2>3 DEF Next
  <1>3. QED
    BY <1>1, <1>2 DEF HeldInv

\* What is handed out is always behind the directory.
THEOREM HeldInvariance == NoSave => (Spec => []HeldInv)
  <1>1. Init => HeldInv
    BY HeldInit
  <1>2. SUFFICES ASSUME NoSave PROVE Spec => []HeldInv
    OBVIOUS
  <1>3. IInv /\ IInv' /\ LockedInv /\ HeldInv /\ [Next]_vars => HeldInv'
    BY <1>2, HeldNext
  <1>4. Spec => []IInv
    BY <1>2, Invariance
  <1>5. QED
    BY <1>1, <1>3, <1>4, LockedInvariance, PTL DEF Spec

\* HeldRootsArePrefix: however old a value in memory is, and whatever it was
\* renewed to, its roots without a pending rotation begin the directory's.
THEOREM HeldRootsArePrefixHolds == NoSave => (Spec => []HeldRootsArePrefix)
  <1>1. HeldInv => HeldRootsArePrefix
    BY DEF HeldInv, HandedOutInv, Behind, HeldRootsArePrefix
  <1>2. SUFFICES ASSUME NoSave PROVE Spec => []HeldRootsArePrefix
    OBVIOUS
  <1>3. Spec => []HeldInv
    BY <1>2, HeldInvariance
  <1>4. QED
    BY <1>1, <1>3, PTL
=============================================================================

-------------------------- MODULE CreateOrLoadProofs --------------------------
(***************************************************************************)
(* Theorems about CreateOrLoad, for any number of processes, directories   *)
(* and lock files, and for every start.                                    *)
(***************************************************************************)
EXTENDS CreateOrLoad, TLAPS

-----------------------------------------------------------------------------
(* Types.                                                                  *)

LEMMA GotoTyped ==
    ASSUME TypeOK, NEW p \in Procs, NEW here, NEW there \in Points, Goto(p, here, there)
    PROVE  pc[p] = here /\ pc' = [pc EXCEPT ![p] = there] /\ pc' \in [Procs -> Points]
BY DEF TypeOK, Goto

LEMMA CloseTyped ==
    ASSUME TypeOK, NEW p \in Procs, Close(p)
    PROVE  /\ fd' \in [Procs -> LockFiles \cup {None}]
           /\ excl' \in [LockFiles -> Procs \cup {NoProc}]
           /\ shared' \in [LockFiles -> SUBSET Procs]
BY DEF TypeOK, Close

LEMMA FinishTyped ==
    ASSUME TypeOK, NEW p \in Procs, Finish(p)
    PROVE  /\ pc' \in [Procs -> Points] /\ temp' \in [Procs -> Dirs \cup {None}]
           /\ keys' \in [Procs -> Dirs \cup {None}]
           /\ fd' \in [Procs -> LockFiles \cup {None}]
           /\ excl' \in [LockFiles -> Procs \cup {NoProc}]
           /\ shared' \in [LockFiles -> SUBSET Procs]
           /\ UNCHANGED <<dir, content, lock, stale, dirs, locks>>
<1>1. Close(p) /\ UNCHANGED <<dir, content, lock, stale, dirs, locks>>
  BY DEF Finish, tree
<1>2. /\ pc' \in [Procs -> Points] /\ temp' \in [Procs -> Dirs \cup {None}]
      /\ keys' \in [Procs -> Dirs \cup {None}]
  BY DEF Finish, TypeOK, Points
<1> QED
  BY <1>1, <1>2, CloseTyped

LEMMA InitType == Init => TypeOK
BY BoundsAssumption, ProcsAssumption DEF Init, TypeOK, Dirs, LockFiles, First, None, Points

LEMMA StepType ==
    ASSUME TypeOK, TempInv, NEW p \in Procs, Step(p), UNCHANGED start
    PROVE  TypeOK'
<1>1. CASE \/ CallCreateOrLoad(p) \/ Look(p) \/ CallLoad(p) \/ CallWrite(p) \/ LoadFiles(p)
  BY <1>1 DEF CallCreateOrLoad, Look, CallLoad, CallWrite, LoadFiles, Goto, TypeOK, Points,
              tree, flocks
<1>2. CASE Prepare(p)
  <2>1. dirs + 1 \in Dirs
    BY <1>2, BoundsAssumption DEF Prepare, TypeOK, Dirs
  <2> QED
    BY <1>2, <2>1 DEF Prepare, Goto, TypeOK, Points, tree, flocks
<1>3. CASE Unlink(p) \/ Rmdir(p)
  BY <1>3 DEF Unlink, Rmdir, Goto, TypeOK, Points, flocks
<1>4. CASE InitTemp(p)
  <2>1. locks + 1 \in LockFiles
    BY <1>4, BoundsAssumption DEF InitTemp, TypeOK, LockFiles
  <2> QED
    BY <1>4, <2>1 DEF InitTemp, Goto, TypeOK, Points, flocks
<1>5. CASE CommitTemp(p) \/ Rename(p)
  BY <1>5 DEF CommitTemp, Rename, Goto, TypeOK, Points, flocks
<1>6. CASE OpenLock(p)
  <2>1. dir \in Dirs
    BY <1>6 DEF OpenLock, TypeOK
  <2>2. pc' \in [Procs -> Points]
    BY <1>6, GotoTyped DEF OpenLock, Points
  <2>3. CASE lock[dir] # None
    BY <1>6, <2>1, <2>2, <2>3 DEF OpenLock, TypeOK
  <2>4. CASE lock[dir] = None
    <3>1. locks + 1 \in LockFiles
      BY <1>6, <2>4, BoundsAssumption DEF OpenLock, TypeOK, LockFiles
    <3> QED
      BY <1>6, <2>1, <2>2, <2>4, <3>1 DEF OpenLock, TypeOK
  <2> QED
    BY <2>3, <2>4
<1>7. CASE LockShared(p) \/ LockExclusive(p)
  BY <1>7 DEF LockShared, LockExclusive, Goto, TypeOK, Points, tree
<1>8. CASE Created(p) \/ Loaded(p)
  <2>1. Finish(p) /\ returned' = returned \cup {dir} /\ pc[p] \in {"sync", "read"}
    BY <1>8 DEF Created, Loaded, TempInv
  <2>2. dir \in Dirs
    BY <1>8 DEF Created, Loaded, TempInv, Exists, TypeOK
  <2> QED
    BY <2>1, <2>2, FinishTyped DEF TypeOK
<1>9. CASE Written(p) \/ Fail(p)
  BY <1>9, FinishTyped DEF Written, Fail, TypeOK
<1>10. CASE Crash(p)
  BY <1>10, CloseTyped DEF Crash, TypeOK, Points, tree
<1> QED
  BY <1>1, <1>2, <1>3, <1>4, <1>5, <1>6, <1>7, <1>8, <1>9, <1>10 DEF Step

-----------------------------------------------------------------------------
(* What a step may change.                                                 *)

\* A step of p moves p only.
LEMMA OthersStay ==
    ASSUME TypeOK, NEW p \in Procs, Step(p), NEW q \in Procs, q # p
    PROVE  pc'[q] = pc[q] /\ temp'[q] = temp[q] /\ keys'[q] = keys[q] /\ fd'[q] = fd[q]
<1>1. CASE \/ CallCreateOrLoad(p) \/ Look(p) \/ CallLoad(p) \/ CallWrite(p) \/ LoadFiles(p)
           \/ Prepare(p) \/ Unlink(p) \/ Rmdir(p) \/ InitTemp(p) \/ CommitTemp(p) \/ Rename(p)
           \/ LockShared(p) \/ LockExclusive(p)
  BY <1>1 DEF CallCreateOrLoad, Look, CallLoad, CallWrite, LoadFiles, Prepare, Unlink, Rmdir,
              InitTemp, CommitTemp, Rename, LockShared, LockExclusive, Goto, TypeOK, flocks
<1>2. CASE OpenLock(p)
  BY <1>2 DEF OpenLock, Goto, TypeOK
<1>3. CASE Created(p) \/ Loaded(p) \/ Written(p) \/ Fail(p) \/ Crash(p)
  BY <1>3 DEF Created, Loaded, Written, Fail, Crash, Finish, Close, TypeOK
<1> QED
  BY <1>1, <1>2, <1>3 DEF Step

\* A call that ends leaves the tree and drops what it had.
LEMMA EndMeans ==
    ASSUME TypeOK, NEW p \in Procs, Created(p) \/ Loaded(p) \/ Written(p) \/ Fail(p) \/ Crash(p)
    PROVE  /\ pc'[p] = "idle" /\ temp'[p] = None /\ fd'[p] = None
           /\ UNCHANGED <<dir, content, lock, dirs, locks>>
           /\ Close(p)
<1>1. /\ pc' = [pc EXCEPT ![p] = "idle"] /\ temp' = [temp EXCEPT ![p] = None]
      /\ UNCHANGED <<dir, content, lock, dirs, locks>>
      /\ Close(p)
  BY DEF Created, Loaded, Written, Fail, Crash, Finish, tree
<1> QED
  BY <1>1 DEF Close, TypeOK

-----------------------------------------------------------------------------
(* The inductive invariant.                                                *)

LEMMA InitIInv == Init => IInv
<1> SUFFICES ASSUME Init PROVE IInv
  OBVIOUS
<1>1. TypeOK
  BY InitType
<1>2. /\ \A p \in Procs : pc[p] = "idle" /\ temp[p] = None /\ fd[p] = None
      /\ \A l \in LockFiles : shared[l] = {}
      /\ First \in Dirs /\ First = dirs /\ dir \in {None, First}
  BY BoundsAssumption DEF Init, First, Dirs
<1>3. OneIdentity
  BY DEF Init, OneIdentity
<1>4. TempInv
  BY <1>2 DEF TempInv, First
<1>5. PartialInv
  BY <1>2 DEF PartialInv, Init, Clearing, First, None
<1>6. LockInv
  BY <1>2, StartsAssumption DEF LockInv, Init, Clearing, First, None
<1>7. FlockInv
  BY <1>2 DEF FlockInv
<1> QED
  BY <1>1, <1>3, <1>4, <1>5, <1>6, <1>7 DEF IInv

\* No step takes an identity away or puts another one in its place.
LEMMA IdentityStays ==
    ASSUME TypeOK, TempInv, NEW p \in Procs, Step(p), Exists
    PROVE  dir' = dir /\ Exists'
<1>1. dir \in Dirs /\ content[dir] = "complete" /\ ~Vacant /\ dir # None
  BY DEF Exists, Vacant, TypeOK
<1>2. CASE \/ CallCreateOrLoad(p) \/ Look(p) \/ CallLoad(p) \/ CallWrite(p) \/ LoadFiles(p)
           \/ Prepare(p) \/ Unlink(p) \/ Rmdir(p) \/ Rename(p)
           \/ LockShared(p) \/ LockExclusive(p) \/ OpenLock(p)
  BY <1>1, <1>2 DEF CallCreateOrLoad, Look, CallLoad, CallWrite, LoadFiles, Prepare, Unlink, Rmdir,
              Rename, LockShared, LockExclusive, OpenLock, Exists, tree
<1>3. CASE InitTemp(p) \/ CommitTemp(p)
  <2>1. temp[p] # dir
    BY <1>3 DEF InitTemp, CommitTemp, Goto, TempInv
  <2> QED
    BY <1>1, <1>3, <2>1 DEF InitTemp, CommitTemp, Exists, TypeOK
<1>4. CASE Created(p) \/ Loaded(p) \/ Written(p) \/ Fail(p) \/ Crash(p)
  BY <1>4, EndMeans DEF Exists
<1> QED
  BY <1>2, <1>3, <1>4 DEF Step

LEMMA OneIdentityStep ==
    ASSUME IInv, NEW p \in Procs, Step(p)
    PROVE  OneIdentity'
<1>1. TypeOK /\ TempInv /\ OneIdentity
  BY DEF IInv
<1>2. returned' \subseteq returned \cup {dir} /\ (returned' # returned => Exists)
  <2>1. CASE Created(p)
    BY <1>1, <2>1 DEF Created, TempInv
  <2>2. CASE Loaded(p)
    BY <2>2 DEF Loaded
  <2>3. CASE ~Created(p) /\ ~Loaded(p)
    BY <2>3 DEF Step, CallCreateOrLoad, Prepare, Look, Unlink, Rmdir, InitTemp, CommitTemp, Rename,
                CallLoad, CallWrite, OpenLock, LockShared, LockExclusive, LoadFiles, Written, Fail,
                Crash
  <2> QED
    BY <2>1, <2>2, <2>3
<1>3. ASSUME NEW d \in returned' PROVE d = dir' /\ Exists'
  <2>1. d = dir /\ Exists
    BY <1>1, <1>2, <1>3 DEF OneIdentity
  <2> QED
    BY <1>1, <2>1, IdentityStays
<1> QED
  BY <1>3 DEF OneIdentity

LEMMA TempStep ==
    ASSUME IInv, NEW p \in Procs, Step(p)
    PROVE  TempInv'
<1> USE DEF IInv
<1>1. CASE \/ CallCreateOrLoad(p) \/ Look(p) \/ CallLoad(p) \/ CallWrite(p) \/ LoadFiles(p)
           \/ LockShared(p) \/ LockExclusive(p) \/ Unlink(p)
  BY <1>1 DEF CallCreateOrLoad, Look, CallLoad, CallWrite, LoadFiles, LockShared, LockExclusive,
              Unlink, Goto, TypeOK, TempInv, Exists, tree, flocks
<1>2. CASE OpenLock(p)
  BY <1>2 DEF OpenLock, Goto, TypeOK, TempInv, Exists
<1>3. CASE Rmdir(p)
  BY <1>3 DEF Rmdir, Goto, TypeOK, TempInv, Exists, Vacant
<1>4. CASE Prepare(p)
  <2>1. dirs \in Nat /\ dirs' = dirs + 1 /\ dirs + 1 # None
    BY <1>4 DEF Prepare, TypeOK, Dirs, None
  <2>2. /\ temp'[p] = dirs + 1 /\ pc'[p] = "look"
        /\ UNCHANGED <<dir, content>>
    BY <1>4 DEF Prepare, Goto, TypeOK, tree
  <2>3. ASSUME NEW q \in Procs, q # p
        PROVE  temp'[q] = temp[q] /\ pc'[q] = pc[q] /\ keys'[q] = keys[q]
    BY <2>3, OthersStay
  <2>4. \A q \in Procs : temp[q] \in Nat /\ dir \in Nat
    BY DEF TypeOK, Dirs, None
  <2>5. dir' # None => dir' <= dirs' /\ dir' # dirs + 1
    BY <2>1, <2>2, <2>4 DEF TempInv
  <2>6. \A q \in Procs : q # p /\ temp[q] # None => temp[q] <= dirs' /\ temp[q] # dirs + 1
    BY <2>1, <2>4 DEF TempInv
  <2> QED
    BY <2>1, <2>2, <2>3, <2>5, <2>6 DEF TempInv, Exists
<1>5. CASE InitTemp(p) \/ CommitTemp(p)
  <2>1. /\ temp[p] \in Dirs /\ temp[p] # dir /\ temp' = temp /\ UNCHANGED <<dir, dirs>>
        /\ pc[p] \in {"init", "commit"} /\ pc'[p] \in {"commit", "rename"}
        /\ pc'[p] = "rename" => content'[temp[p]] = "complete" /\ keys'[p] = temp[p]
    BY <1>5 DEF InitTemp, CommitTemp, Goto, TempInv, TypeOK
  <2>2. \A d \in Dirs : d # temp[p] => content'[d] = content[d]
    BY <1>5 DEF InitTemp, CommitTemp, TypeOK
  <2>3. Exists' <=> Exists
    BY <2>1, <2>2 DEF Exists, TypeOK
  <2>4. ASSUME NEW q \in Procs, q # p, pc[q] = "rename" PROVE content'[temp[q]] = "complete"
    BY <2>1, <2>2, <2>4 DEF TempInv, TypeOK
  <2>5. ASSUME NEW q \in Procs, q # p PROVE pc'[q] = pc[q] /\ keys'[q] = keys[q]
    BY <2>5, OthersStay
  <2> QED
    BY <2>1, <2>3, <2>4, <2>5 DEF TempInv
<1>6. CASE Rename(p)
  <2>1. /\ temp[p] \in Dirs /\ temp[p] # None
        /\ temp[p] <= dirs /\ content[temp[p]] = "complete"
        /\ keys[p] = temp[p] /\ UNCHANGED <<content, dirs, keys>>
    BY <1>6 DEF Rename, Goto, TempInv, TypeOK
  <2>2. ASSUME NEW q \in Procs, q # p
        PROVE  temp'[q] = temp[q] /\ pc'[q] = pc[q] /\ (temp[q] # None => temp[q] # temp[p])
    BY <2>2, OthersStay DEF TempInv
  <2>3. CASE dir = None \/ Vacant
    <3>1. /\ dir' = temp[p] /\ temp'[p] = None /\ pc'[p] = "sync" /\ ~Exists
      BY <1>6, <2>3 DEF Rename, Goto, TypeOK, Vacant, Exists
    <3>2. Exists'
      BY <2>1, <3>1 DEF Exists, TypeOK
    <3> QED
      BY <2>1, <2>2, <3>1, <3>2 DEF TempInv
  <2>4. CASE ~(dir = None \/ Vacant)
    <3>1. dir' = dir /\ temp' = temp /\ pc'[p] = "open_shared" /\ (Exists' <=> Exists)
      BY <1>6, <2>1, <2>4 DEF Rename, Goto, TypeOK, Exists
    <3> QED
      BY <2>1, <2>2, <3>1 DEF TempInv
  <2> QED
    BY <2>3, <2>4
<1>7. CASE Created(p) \/ Loaded(p) \/ Written(p) \/ Fail(p) \/ Crash(p)
  <2>1. /\ pc'[p] = "idle" /\ temp'[p] = None /\ UNCHANGED <<dir, content, dirs>>
    BY <1>7, EndMeans
  <2>2. ASSUME NEW q \in Procs, q # p
        PROVE  temp'[q] = temp[q] /\ pc'[q] = pc[q] /\ keys'[q] = keys[q]
    BY <2>2, OthersStay
  <2> QED
    BY <2>1, <2>2 DEF TempInv, Exists
<1> QED
  BY <1>1, <1>2, <1>3, <1>4, <1>5, <1>6, <1>7 DEF Step

LEMMA PartialStep ==
    ASSUME IInv, NEW p \in Procs, Step(p)
    PROVE  PartialInv'
<1> USE DEF IInv
<1> SUFFICES ASSUME dir' # None, content'[dir'] = "some"
             PROVE  /\ lock'[dir'] # None
                    /\ \A q \in Procs : pc'[q] \notin Clearing
  BY DEF PartialInv
<1>1. ASSUME dir' = dir, content'[dir] = content[dir],
             lock[dir] # None => lock'[dir] # None, ~OnlyLock => pc'[p] \notin Clearing
      PROVE  /\ lock'[dir'] # None
             /\ \A q \in Procs : pc'[q] \notin Clearing
  <2>1. lock[dir] # None /\ \A q \in Procs : pc[q] \notin Clearing
    BY <1>1 DEF PartialInv
  <2>2. ~OnlyLock
    BY <1>1 DEF OnlyLock
  <2> QED
    BY <1>1, <2>1, <2>2, OthersStay
<1>2. CASE \/ CallCreateOrLoad(p) \/ Look(p) \/ CallLoad(p) \/ CallWrite(p) \/ LoadFiles(p)
           \/ LockShared(p) \/ LockExclusive(p) \/ Prepare(p)
  BY <1>1, <1>2 DEF CallCreateOrLoad, Look, CallLoad, CallWrite, LoadFiles, LockShared,
              LockExclusive, Prepare, Goto, TypeOK, Clearing, tree
<1>3. CASE OpenLock(p)
  <2>1. /\ dir \in Dirs /\ UNCHANGED <<dir, content>> /\ pc'[p] \notin Clearing
    BY <1>3 DEF OpenLock, Goto, TypeOK, Clearing
  <2>2. lock[dir] # None => lock'[dir] # None
    BY <1>3 DEF OpenLock
  <2> QED
    BY <1>1, <2>1, <2>2
<1>4. CASE Unlink(p) \/ Rmdir(p)
  <2>1. pc[p] \in Clearing /\ content' = content /\ dir' \in {dir, None}
    BY <1>4 DEF Unlink, Rmdir, Goto, Clearing
  <2> QED
    BY <2>1 DEF PartialInv
<1>5. CASE InitTemp(p) \/ CommitTemp(p)
  <2>1. temp[p] \in Dirs /\ temp[p] # dir /\ dir' = dir /\ pc'[p] \notin Clearing
    BY <1>5 DEF InitTemp, CommitTemp, Goto, TempInv, TypeOK, Clearing
  <2>2. dir \in Dirs /\ content'[dir] = content[dir] /\ lock'[dir] = lock[dir]
    BY <1>5, <2>1 DEF InitTemp, CommitTemp, TypeOK
  <2> QED
    BY <1>1, <2>1, <2>2
<1>6. CASE Rename(p)
  <2>1. dir' = dir /\ content' = content /\ lock' = lock /\ pc'[p] \notin Clearing
    BY <1>6 DEF Rename, Goto, TempInv, TypeOK, Clearing
  <2> QED
    BY <1>1, <2>1
<1>7. CASE Created(p) \/ Loaded(p) \/ Written(p) \/ Fail(p) \/ Crash(p)
  BY <1>1, <1>7, EndMeans DEF Clearing
<1> QED
  BY <1>2, <1>3, <1>4, <1>5, <1>6, <1>7 DEF Step

InLock == {"lock_shared", "lock_exclusive", "read", "load_files", "write"}

LEMMA LockStep ==
    ASSUME IInv, NEW p \in Procs, Step(p), UNCHANGED start
    PROVE  LockInv'
<1> USE DEF IInv
<1> SUFFICES ASSUME start \notin {"empty", "lock_only"}
             PROVE  /\ dir' # None => content'[dir'] # "none"
                    /\ \A q \in Procs :
                          /\ pc'[q] \notin Clearing
                          /\ pc'[q] \in InLock =>
                                dir' # None /\ fd'[q] # None /\ fd'[q] = lock'[dir']
  BY DEF LockInv, InLock
<1>0. /\ dir # None => content[dir] # "none"
      /\ \A q \in Procs :
            /\ pc[q] \notin Clearing
            /\ pc[q] \in InLock => dir # None /\ fd[q] # None /\ fd[q] = lock[dir]
  BY DEF LockInv, InLock
<1>1. ASSUME \/ dir' = dir /\ (dir # None => content'[dir] # "none")
                           /\ (dir # None /\ lock[dir] # None => lock'[dir] = lock[dir])
             \/ dir = None /\ content'[dir'] # "none",
             pc'[p] \notin Clearing,
             pc'[p] \in InLock => dir' # None /\ fd'[p] # None /\ fd'[p] = lock'[dir']
      PROVE  /\ dir' # None => content'[dir'] # "none"
             /\ \A q \in Procs :
                   /\ pc'[q] \notin Clearing
                   /\ pc'[q] \in InLock =>
                         dir' # None /\ fd'[q] # None /\ fd'[q] = lock'[dir']
  BY <1>0, <1>1, OthersStay
<1>2. CASE \/ CallCreateOrLoad(p) \/ Look(p) \/ CallLoad(p) \/ CallWrite(p) \/ LoadFiles(p)
           \/ LockShared(p) \/ LockExclusive(p) \/ Prepare(p)
  <2>1. dir' = dir /\ content' = content /\ lock' = lock
    BY <1>2 DEF CallCreateOrLoad, Look, CallLoad, CallWrite, LoadFiles, LockShared,
                LockExclusive, Prepare, tree
  <2>2. ~OnlyLock
    BY <1>0 DEF OnlyLock
  <2>3. pc'[p] \notin Clearing /\ (pc'[p] \in InLock => pc[p] \in InLock /\ fd' = fd)
    BY <1>2, <2>2 DEF CallCreateOrLoad, Look, CallLoad, CallWrite, LoadFiles, LockShared,
                LockExclusive, Prepare, Goto, TypeOK, Clearing, InLock, flocks
  <2> QED
    BY <1>0, <1>1, <2>1, <2>3
<1>3. CASE OpenLock(p)
  <2>1. /\ dir \in Dirs /\ dir # None /\ UNCHANGED <<dir, content>> /\ pc'[p] \notin Clearing
    BY <1>3 DEF OpenLock, Goto, TypeOK, Clearing
  <2>2. /\ lock[dir] # None => lock'[dir] = lock[dir]
        /\ fd'[p] = lock'[dir] /\ fd'[p] # None
    BY <1>3, <2>1 DEF OpenLock, TypeOK, None, LockFiles
  <2> QED
    BY <1>0, <1>1, <2>1, <2>2
<1>4. CASE Unlink(p) \/ Rmdir(p)
  BY <1>0, <1>4 DEF Unlink, Rmdir, Goto, Clearing
<1>5. CASE InitTemp(p) \/ CommitTemp(p)
  <2>1. temp[p] \in Dirs /\ temp[p] # dir /\ dir' = dir /\ pc'[p] \notin Clearing \cup InLock
    BY <1>5 DEF InitTemp, CommitTemp, Goto, TempInv, TypeOK, Clearing, InLock
  <2>2. dir # None => content'[dir] = content[dir] /\ lock'[dir] = lock[dir]
    BY <1>5, <2>1 DEF InitTemp, CommitTemp, TypeOK
  <2> QED
    BY <1>0, <1>1, <2>1, <2>2
<1>6. CASE Rename(p)
  <2>1. content' = content /\ lock' = lock /\ pc'[p] \notin Clearing \cup InLock
    BY <1>6 DEF Rename, Goto, TypeOK, Clearing, InLock
  <2>2. dir' = dir \/ (dir = None /\ dir' = temp[p] /\ content[temp[p]] = "complete")
    BY <1>0, <1>6 DEF Rename, Goto, TempInv, Vacant
  <2> QED
    BY <1>0, <1>1, <2>1, <2>2
<1>7. CASE Created(p) \/ Loaded(p) \/ Written(p) \/ Fail(p) \/ Crash(p)
  <2>1. pc'[p] = "idle" /\ UNCHANGED <<dir, content, lock>>
    BY <1>7, EndMeans
  <2> QED
    BY <1>0, <1>1, <2>1 DEF Clearing, InLock
<1> QED
  BY <1>2, <1>3, <1>4, <1>5, <1>6, <1>7 DEF Step

LEMMA FlockStep ==
    ASSUME IInv, NEW p \in Procs, Step(p)
    PROVE  FlockInv'
<1> USE DEF IInv
<1>0. NoProc # p /\ \A q \in Procs : q # NoProc
  BY ProcsAssumption
<1>1. CASE \/ CallCreateOrLoad(p) \/ Look(p) \/ CallLoad(p) \/ CallWrite(p) \/ LoadFiles(p)
           \/ Prepare(p) \/ Unlink(p) \/ Rmdir(p) \/ InitTemp(p) \/ CommitTemp(p) \/ Rename(p)
           \/ OpenLock(p)
  <2>1. excl' = excl /\ shared' = shared
    BY <1>1 DEF CallCreateOrLoad, Look, CallLoad, CallWrite, LoadFiles, Prepare, Unlink, Rmdir,
                InitTemp, CommitTemp, Rename, OpenLock, flocks
  <2>2. \/ pc'[p] \notin InLock
        \/ pc[p] = "load_files" /\ pc'[p] = "write" /\ fd' = fd
        \/ pc'[p] \in {"lock_shared", "lock_exclusive"} /\ fd'[p] # None
    <3>1. CASE OpenLock(p)
      BY <3>1 DEF OpenLock, Goto, TypeOK, InLock, None, LockFiles
    <3>2. CASE ~OpenLock(p)
      BY <1>1, <3>2 DEF CallCreateOrLoad, Look, CallLoad, CallWrite, LoadFiles, Prepare, Unlink,
                  Rmdir, InitTemp, CommitTemp, Rename, Goto, TypeOK, InLock, flocks
    <3> QED
      BY <3>1, <3>2
  <2>3. ASSUME NEW q \in Procs, q # p PROVE pc'[q] = pc[q] /\ fd'[q] = fd[q]
    BY <2>3, OthersStay
  <2> QED
    BY <2>1, <2>2, <2>3 DEF FlockInv, InLock
<1>2. CASE LockShared(p)
  <2>1. /\ pc[p] = "lock_shared" /\ pc'[p] = "read" /\ excl[fd[p]] = NoProc
        /\ excl' = excl /\ fd' = fd /\ shared' = [shared EXCEPT ![fd[p]] = @ \cup {p}]
    BY <1>2 DEF LockShared, Goto, TypeOK
  <2>2. fd[p] # None /\ fd[p] \in LockFiles
    BY <2>1 DEF FlockInv, TypeOK
  <2>3. ASSUME NEW q \in Procs, q # p PROVE pc'[q] = pc[q]
    BY <2>3, OthersStay
  <2>4. \A l \in LockFiles : shared[l] \subseteq shared'[l] /\ (l # fd[p] => shared'[l] = shared[l])
    BY <2>1, <2>2 DEF TypeOK
  <2>5. p \in shared'[fd[p]]
    BY <2>1, <2>2 DEF TypeOK
  <2>6. \A q \in Procs : pc[q] = "read" => fd[q] \in LockFiles
    BY DEF FlockInv, TypeOK
  <2> QED
    BY <2>1, <2>2, <2>3, <2>4, <2>5, <2>6 DEF FlockInv
<1>3. CASE LockExclusive(p)
  <2>1. /\ pc[p] = "lock_exclusive" /\ pc'[p] = "load_files"
        /\ excl[fd[p]] = NoProc /\ shared[fd[p]] = {}
        /\ shared' = shared /\ fd' = fd /\ excl' = [excl EXCEPT ![fd[p]] = p]
    BY <1>3 DEF LockExclusive, Goto, TypeOK
  <2>2. fd[p] # None /\ fd[p] \in LockFiles
    BY <2>1 DEF FlockInv, TypeOK
  <2>3. ASSUME NEW q \in Procs, q # p PROVE pc'[q] = pc[q]
    BY <2>3, OthersStay
  <2>4. excl'[fd[p]] = p /\ \A l \in LockFiles : l # fd[p] => excl'[l] = excl[l]
    BY <2>1, <2>2 DEF TypeOK
  <2>5. \A q \in Procs : pc[q] \in InLock => fd[q] \in LockFiles
    BY DEF FlockInv, TypeOK, InLock
  <2>6. ASSUME NEW q \in Procs, q # p, pc[q] \in {"load_files", "write"}
        PROVE  excl'[fd[q]] = q
    <3>1. excl[fd[q]] = q /\ fd[q] \in LockFiles
      BY <2>5, <2>6 DEF FlockInv, InLock
    <3> QED
      BY <1>0, <2>1, <2>4, <3>1
  <2> QED
    BY <2>1, <2>2, <2>3, <2>4, <2>5, <2>6 DEF FlockInv, InLock
<1>4. CASE Created(p) \/ Loaded(p) \/ Written(p) \/ Fail(p) \/ Crash(p)
  <2>1. pc'[p] = "idle" /\ Close(p)
    BY <1>4, EndMeans
  <2>2. ASSUME NEW q \in Procs, q # p PROVE pc'[q] = pc[q] /\ fd'[q] = fd[q]
    BY <2>2, OthersStay
  <2>3. ASSUME NEW l \in LockFiles
        PROVE  /\ shared'[l] = shared[l] \ {p}
               /\ excl'[l] = IF excl[l] = p THEN NoProc ELSE excl[l]
    BY <2>1 DEF Close
  <2>4. \A q \in Procs : pc[q] \in InLock => fd[q] \in LockFiles
    BY DEF FlockInv, TypeOK, InLock
  <2>5. \A l \in LockFiles : excl'[l] # NoProc => shared'[l] = {}
    BY <2>3 DEF FlockInv
  <2>6. ASSUME NEW q \in Procs, q # p
        PROVE  /\ pc[q] = "read" => q \in shared'[fd[q]]
               /\ pc[q] \in {"load_files", "write"} => excl'[fd[q]] = q
    BY <2>3, <2>4, <2>6 DEF FlockInv, InLock
  <2> QED
    BY <2>1, <2>2, <2>5, <2>6 DEF FlockInv, InLock
<1> QED
  BY <1>1, <1>2, <1>3, <1>4 DEF Step

\* Whatever processes do, and wherever they die, the invariant holds.
THEOREM Invariance == Spec => []IInv
<1>1. ASSUME IInv, Next PROVE IInv'
  <2>1. PICK p \in Procs : Step(p)
    BY <1>1 DEF Next
  <2>2. UNCHANGED start /\ TypeOK /\ TempInv
    BY <1>1 DEF Next, IInv
  <2> QED
    BY <1>1, <2>1, <2>2, StepType, OneIdentityStep, TempStep, PartialStep, LockStep, FlockStep
    DEF IInv
<1>2. ASSUME IInv, UNCHANGED vars PROVE IInv'
  BY <1>2 DEF vars, IInv, TypeOK, OneIdentity, TempInv, PartialInv, LockInv, FlockInv, Exists
<1> QED
  BY InitIInv, <1>1, <1>2, PTL DEF Spec

\* Every variable keeps its type, and the bounds are respected.
THEOREM TypeCorrect == Spec => []TypeOK
<1>1. IInv => TypeOK
  BY DEF IInv
<1> QED
  BY Invariance, <1>1, PTL

\* OneIdentity: whoever starts, dies or clears the directory, everybody who was
\* handed an identity was handed the one at the path.
THEOREM OneIdentityHolds == Spec => []OneIdentity
<1>1. IInv => OneIdentity
  BY DEF IInv
<1> QED
  BY Invariance, <1>1, PTL

\* LockExcludes: from the other starts, who has the lock file of the path open
\* shares it with everybody, so the kernel's flock excludes.
THEOREM LockExcludesHolds == Spec => []LockExcludes
<1>1. IInv => LockExcludes
  <2> SUFFICES ASSUME IInv, start \notin {"empty", "lock_only"},
                      NEW p \in Procs, NEW q \in Procs,
                      pc[p] \in {"load_files", "write"},
                      pc[q] \in {"read", "load_files", "write"}
               PROVE  p = q
    BY DEF LockExcludes
  <2>1. fd[p] = lock[dir] /\ fd[q] = lock[dir]
    BY DEF IInv, LockInv
  <2>2. fd[p] # None /\ excl[fd[p]] = p /\ fd[p] \in LockFiles
    BY DEF IInv, FlockInv, TypeOK
  <2>3. pc[q] # "read"
    <3>1. p # NoProc
      BY ProcsAssumption
    <3> QED
      BY <2>1, <2>2, <3>1 DEF IInv, FlockInv
  <2>4. excl[fd[q]] = q
    BY <2>3 DEF IInv, FlockInv
  <2> QED
    BY <2>1, <2>2, <2>4
<1> QED
  BY Invariance, <1>1, PTL

\* NothingOrComplete: only whole directories are renamed into place, and a half
\* made one that is there has its lock file, which nobody takes away.
THEOREM NothingOrCompleteHolds == Spec => NothingOrComplete
<1> DEFINE A == /\ dir # None /\ content[dir] = "some" =>
                      UNCHANGED <<dir, content[dir], lock[dir]>>
                /\ dir' # None /\ content'[dir'] = "some" =>
                      dir # None /\ content[dir] = "some"
<1>0. ASSUME dir' = dir,
             dir # None => content'[dir] = content[dir]
                           /\ (content[dir] = "some" => lock'[dir] = lock[dir])
      PROVE  A
  BY <1>0
<1> HIDE DEF A
<1>1. ASSUME IInv, NEW p \in Procs, Step(p) PROVE A
  <2>0. TypeOK /\ TempInv /\ PartialInv
    BY <1>1 DEF IInv
  <2>1. CASE \/ CallCreateOrLoad(p) \/ Look(p) \/ CallLoad(p) \/ CallWrite(p) \/ LoadFiles(p)
             \/ LockShared(p) \/ LockExclusive(p) \/ Prepare(p)
    <3>1. dir' = dir /\ content' = content /\ lock' = lock
      BY <2>1 DEF CallCreateOrLoad, Look, CallLoad, CallWrite, LoadFiles, LockShared,
                  LockExclusive, Prepare, tree
    <3> QED
      BY <1>0, <3>1
  <2>2. CASE OpenLock(p)
    <3>1. /\ dir' = dir /\ content' = content
          /\ lock[dir] # None => lock' = lock
      BY <2>2 DEF OpenLock
    <3>2. dir # None /\ content[dir] = "some" => lock[dir] # None
      BY <2>0 DEF PartialInv
    <3> QED
      BY <1>0, <3>1, <3>2
  <2>3. CASE Unlink(p) \/ Rmdir(p)
    <3>1. pc[p] \in Clearing /\ content' = content /\ dir' \in {dir, None}
      BY <2>3 DEF Unlink, Rmdir, Goto, Clearing
    <3>2. ~(dir # None /\ content[dir] = "some")
      BY <2>0, <3>1 DEF PartialInv
    <3> QED
      BY <3>1, <3>2 DEF A
  <2>4. CASE InitTemp(p) \/ CommitTemp(p)
    <3>1. temp[p] \in Dirs /\ temp[p] # dir /\ dir' = dir
      BY <2>0, <2>4 DEF InitTemp, CommitTemp, Goto, TempInv, TypeOK
    <3>2. dir # None => content'[dir] = content[dir] /\ lock'[dir] = lock[dir]
      BY <2>0, <2>4, <3>1 DEF InitTemp, CommitTemp, TypeOK
    <3> QED
      BY <1>0, <3>1, <3>2
  <2>5. CASE Rename(p)
    <3>1. content' = content /\ lock' = lock
      BY <2>5 DEF Rename
    <3>2. CASE dir = None \/ Vacant
      <4>1. content[dir'] = "complete"
        BY <2>0, <2>5, <3>2 DEF Rename, Goto, TempInv
      <4>2. ~(dir # None /\ content[dir] = "some")
        BY <3>2 DEF Vacant
      <4> QED
        BY <3>1, <4>1, <4>2 DEF A
    <3>3. CASE ~(dir = None \/ Vacant)
      <4>1. dir' = dir
        BY <2>5, <3>3 DEF Rename
      <4> QED
        BY <1>0, <3>1, <4>1
    <3> QED
      BY <3>2, <3>3
  <2>6. CASE Created(p) \/ Loaded(p) \/ Written(p) \/ Fail(p) \/ Crash(p)
    BY <1>0, <2>0, <2>6, EndMeans
  <2> QED
    BY <1>1, <2>1, <2>2, <2>3, <2>4, <2>5, <2>6 DEF Step
<1>2. IInv /\ [Next]_vars => [A]_vars
  BY <1>1 DEF Next
<1>3. Spec => [][A]_vars
  BY Invariance, <1>2, PTL DEF Spec
<1> QED
  BY <1>3 DEF A, NothingOrComplete
=============================================================================

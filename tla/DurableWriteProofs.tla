-------------------------- MODULE DurableWriteProofs --------------------------
(***************************************************************************)
(* Theorems about write_private, for any processes, process ids, files and *)
(* numbers of calls.                                                       *)
(***************************************************************************)
EXTENDS DurableWrite, TLAPS

USE DurableAssumption

-----------------------------------------------------------------------------
(* The invariant.                                                          *)


\* What a step leaves of a temporary file.
LEMMA TempFileIs ==
    ASSUME NEW t \in TempFiles
    PROVE  /\ [t EXCEPT !.whole = TRUE] \in TempFiles
           /\ [t EXCEPT !.synced = TRUE] \in TempFiles
           /\ [t EXCEPT !.stuck = TRUE] \in TempFiles
           /\ [t EXCEPT !.by = NoProc] \in TempFiles
           /\ t.call \in Nat /\ t.by \in Procs \cup {NoProc} /\ t.name[3] \in Nat
  BY DEF TempFiles

LEMMA EmptyJob == <<>> \in Seq(Names)
  OBVIOUS

LEMMA InitIInv == Init => IInv
<1> SUFFICES ASSUME Init PROVE IInv
  OBVIOUS
<1>1. TypeInv
  BY EmptyJob DEF Init, TypeInv, InCall
<1>2. RunInv /\ TempInv
  BY DEF Init, RunInv, TempInv
<1>3. CallsOf(log) = {}
  BY DEF Init, CallsOf
<1>4. LogInv
  BY <1>3 DEF Init, LogInv, InCall
<1> QED
  BY <1>1, <1>2, <1>4 DEF IInv

LEMMA TypeStep == ASSUME IInv, Next PROVE TypeInv'
<1>a. /\ TypeInv /\ RunInv
      /\ \A t \in temps : t \in TempFiles
      /\ \A f \in log : f \in Files
  BY DEF IInv, TypeInv
<1>b. ASSUME pc # "idle"
      PROVE  holder \in Procs /\ job # <<>> /\ Head(job) \in Names /\ Tail(job) \in Seq(Names)
  BY <1>a, <1>b DEF TypeInv, RunInv
<1>1. CASE CallWritePrivate
  BY <1>a, <1>1 DEF CallWritePrivate, TypeInv, InCall
<1>2. CASE Open
  <2>1. counter' \in [Procs -> Nat]
    BY <1>a, <1>b, <1>2 DEF Open, TypeInv
  <2> DEFINE n == [name |-> TmpName(holder, Head(job)), call |-> written, by |-> holder,
                   whole |-> FALSE, synced |-> FALSE, stuck |-> FALSE]
  <2>2. pid[holder] \in Pids \cup {NoProc} /\ counter[holder] \in Nat /\ Head(job) \in Names
        /\ holder \in Procs /\ written \in Nat
    BY <1>a, <1>b, <1>2 DEF Open, TypeInv
  <2>3. TmpName(holder, Head(job)) \in Names \X (Pids \cup {NoProc}) \X Nat
    BY <2>2 DEF TmpName
  <2>4. n \in TempFiles
    BY <2>2, <2>3 DEF TempFiles
  <2>5. temps' \subseteq TempFiles
    BY <1>a, <1>2, <2>4 DEF Open
  <2>6. /\ job' \in Seq(Names) /\ holder' \in Procs \cup {NoProc} /\ pc' \in InCall \cup {"idle"}
    BY <1>a, <1>2, EmptyJob DEF Open, GiveUp, TypeInv, InCall
  <2> QED
    BY <1>a, <1>2, <2>1, <2>5, <2>6 DEF Open, TypeInv
<1>3. CASE WriteAll
  <2>1. temps' \subseteq TempFiles
    BY <1>a, <1>3, TempFileIs DEF WriteAll
  <2> QED
    BY <1>a, <1>3, <2>1 DEF WriteAll, TypeInv, InCall
<1>4. CASE SyncAll
  <2>1. temps' \subseteq TempFiles
    BY <1>a, <1>4, TempFileIs DEF SyncAll
  <2> QED
    BY <1>a, <1>4, <2>1 DEF SyncAll, TypeInv, InCall
<1>5. CASE Rename
  <2>1. log' \subseteq Files
    BY <1>a, <1>b, <1>5 DEF Rename, TypeInv, Files, TempFiles
  <2> QED
    BY <1>a, <1>5, <2>1 DEF Rename, TypeInv, InCall
<1>6. CASE StageFails
  <2>1. temps' \subseteq TempFiles
    <3>1. \A t \in temps : [t EXCEPT !.stuck = TRUE] \in TempFiles
      BY <1>a, TempFileIs
    <3>2. CASE temps' = {t \in temps : ~Mine(t)}
      BY <1>a, <3>2
    <3>3. CASE temps' = {IF Mine(t) THEN [t EXCEPT !.stuck = TRUE] ELSE t : t \in temps}
      BY <1>a, <3>1, <3>3
    <3> QED
      BY <1>6, <3>2, <3>3 DEF StageFails
  <2> QED
    BY <1>a, <1>6, <2>1, EmptyJob DEF StageFails, GiveUp, TypeInv
<1>7. CASE SyncDir \/ SyncDirFails
  <2>1. pc # "idle"
    BY <1>7 DEF SyncDir, SyncDirFails
  <2>2. /\ job' \in Seq(Names) /\ holder' \in Procs \cup {NoProc} /\ pc' = "idle"
        /\ unsynced' \in BOOLEAN
    BY <1>a, <1>b, <1>7, <2>1, EmptyJob DEF SyncDir, SyncDirFails, Ok, GiveUp, TypeInv
  <2> QED
    BY <1>a, <1>7, <2>2 DEF SyncDir, SyncDirFails, TypeInv
<1>8. ASSUME NEW p \in Procs, StartProcess(p) PROVE TypeInv'
  BY <1>a, <1>8 DEF StartProcess, TypeInv
<1>9. ASSUME NEW p \in Procs, Begin(p) PROVE TypeInv'
  <2>1. job' \in Seq(Names)
    BY <1>9 DEF Begin
  <2> QED
    BY <1>a, <1>9, <2>1 DEF Begin, TypeInv
<1>c. ASSUME NEW dead PROVE Orphaned(dead) \subseteq TempFiles
  BY <1>a, TempFileIs DEF Orphaned
<1>10. ASSUME NEW p \in Procs, Die(p) PROVE TypeInv'
  <2>1. temps' \subseteq TempFiles
    BY <1>c, <1>10 DEF Die
  <2>2. pid' \in [Procs -> Pids \cup {NoProc}] /\ counter' \in [Procs -> Nat]
    BY <1>a, <1>10 DEF Die, TypeInv
  <2>3. holder' \in Procs \cup {NoProc} /\ job' \in Seq(Names) /\ pc' \in InCall \cup {"idle"}
    BY <1>a, <1>10, EmptyJob DEF Die, GiveUp, TypeInv
  <2>4. unsynced' \in BOOLEAN
    BY <1>a, <1>10 DEF Die, TypeInv
  <2> QED
    BY <1>a, <1>10, <2>1, <2>2, <2>3, <2>4 DEF Die, TypeInv
<1>11. CASE PowerLoss
  <2>1. temps' \subseteq TempFiles
    BY <1>c, <1>11 DEF PowerLoss
  <2>2. log' \subseteq Files
    BY <1>a, <1>11 DEF PowerLoss, AfterPowerLoss, Files
  <2>3. pid' \in [Procs -> Pids \cup {NoProc}] /\ counter' \in [Procs -> Nat]
    BY <1>11 DEF PowerLoss
  <2>4. holder' = NoProc /\ job' \in Seq(Names) /\ pc' = "idle" /\ unsynced' = FALSE
    BY <1>11, EmptyJob DEF PowerLoss, GiveUp
  <2> QED
    BY <1>a, <1>11, <2>1, <2>2, <2>3, <2>4 DEF PowerLoss, TypeInv
<1> QED
  BY <1>1, <1>2, <1>3, <1>4, <1>5, <1>6, <1>7, <1>8, <1>9, <1>10, <1>11 DEF Next

LEMMA RunStep == ASSUME IInv, Next PROVE RunInv'
<1>a. TypeInv /\ RunInv
  BY DEF IInv
<1>1. CASE CallWritePrivate \/ Open \/ WriteAll \/ SyncAll \/ Rename \/ StageFails
           \/ SyncDir \/ SyncDirFails
  BY <1>a, <1>1 DEF CallWritePrivate, Open, WriteAll, SyncAll, Rename, StageFails, SyncDir,
                    SyncDirFails, Ok, GiveUp, RunInv
<1>2. ASSUME NEW p \in Procs, StartProcess(p) PROVE RunInv'
  <2>1. PICK i \in Pids : (\A q \in Procs : pid[q] # i) /\ pid' = [pid EXCEPT ![p] = i]
    BY <1>2 DEF StartProcess
  <2> QED
    BY <1>a, <1>2, <2>1 DEF StartProcess, TypeInv, RunInv
<1>3. ASSUME NEW p \in Procs, Begin(p) PROVE RunInv'
  BY <1>a, <1>3 DEF Begin, RunInv
<1>4. ASSUME NEW p \in Procs, Die(p) PROVE RunInv'
  BY <1>a, <1>4 DEF Die, GiveUp, TypeInv, RunInv
<1>5. CASE PowerLoss
  BY <1>a, <1>5 DEF PowerLoss, GiveUp, RunInv
<1> QED
  BY <1>1, <1>2, <1>3, <1>4, <1>5 DEF Next

\* A temporary file, and the process it is of.
LEMMA TempStep == ASSUME IInv, Next PROVE TempInv'
<1>a. /\ TypeInv /\ RunInv /\ TempInv /\ written \in Nat
      /\ \A t \in temps : t \in TempFiles
      /\ \A t \in temps : t.call \in Nat /\ t.by \in Procs \cup {NoProc} /\ t.name[3] \in Nat
  BY TempFileIs DEF IInv, TypeInv
<1>1. CASE CallWritePrivate
  BY <1>a, <1>1 DEF CallWritePrivate, TempInv, Mine
<1>2. CASE Open
  <2>1. holder \in Procs /\ pid[holder] # NoProc /\ counter[holder] \in Nat /\ pc = "open"
    BY <1>a, <1>2 DEF Open, TypeInv, RunInv
  <2>2. \A q \in Procs : counter'[q] = IF q = holder THEN counter[q] + 1 ELSE counter[q]
    BY <1>a, <1>2, <2>1 DEF Open, TypeInv
  <2>3. \A q \in Procs : counter[q] \in Nat
    BY <1>a DEF TypeInv
  <2>4. ASSUME NEW t \in temps, t.by # NoProc
        PROVE  pid[t.by] # NoProc /\ t.name[2] = pid[t.by] /\ t.name[3] < counter'[t.by]
    BY <1>a, <2>2, <2>3, <2>4 DEF TempInv
  <2>5. CASE temps' = temps
    BY <1>a, <1>2, <2>1, <2>4, <2>5 DEF Open, GiveUp, TempInv, Mine
  <2>6. ASSUME NEW n, n = [name |-> TmpName(holder, Head(job)), call |-> written, by |-> holder,
                           whole |-> FALSE, synced |-> FALSE, stuck |-> FALSE],
               temps' = temps \cup {n}, pc' = "write"
        PROVE  TempInv'
    <3>1. n.by = holder /\ n.call = written /\ n.name[2] = pid[holder]
          /\ n.name[3] = counter[holder]
      BY <2>6 DEF TmpName
    <3> QED
      BY <1>a, <1>2, <2>1, <2>2, <2>3, <2>4, <2>6, <3>1 DEF Open, TempInv
  <2> QED
    BY <1>2, <2>5, <2>6 DEF Open
<1>3. CASE WriteAll
  <2>1. pc = "write" /\ pc' = "sync" /\ UNCHANGED <<pid, counter, holder, written>>
    BY <1>3 DEF WriteAll
  <2>2. ASSUME NEW t \in temps'
        PROVE  \E s \in temps : /\ t.name = s.name /\ t.call = s.call /\ t.by = s.by
                                /\ t.stuck = s.stuck /\ t.synced = s.synced
                                /\ t.whole = IF Mine(s) THEN TRUE ELSE s.whole
    BY <1>a, <1>3 DEF WriteAll, TempFiles
  <2>3. ASSUME NEW t \in temps'
        PROVE  /\ t.by # NoProc => /\ pid'[t.by] # NoProc
                                  /\ t.name[2] = pid'[t.by]
                                  /\ t.name[3] < counter'[t.by]
               /\ t.call <= written'
               /\ Mine(t)' => t.whole /\ (pc' = "rename" => t.synced)
    <3>1. PICK s \in temps : /\ t.name = s.name /\ t.call = s.call /\ t.by = s.by
                             /\ t.stuck = s.stuck /\ t.synced = s.synced
                             /\ t.whole = IF Mine(s) THEN TRUE ELSE s.whole
      BY <2>2
    <3>2. Mine(t)' <=> Mine(s)
      BY <2>1, <3>1 DEF Mine
    <3> QED
      BY <1>a, <2>1, <3>1, <3>2 DEF TempInv
  <2> QED
    BY <2>1, <2>3 DEF TempInv
<1>4. CASE SyncAll
  <2>1. pc = "sync" /\ pc' = "rename" /\ UNCHANGED <<pid, counter, holder, written>>
    BY <1>4 DEF SyncAll
  <2>2. ASSUME NEW t \in temps'
        PROVE  \E s \in temps : /\ t.name = s.name /\ t.call = s.call /\ t.by = s.by
                                /\ t.stuck = s.stuck /\ t.whole = s.whole
                                /\ t.synced = IF Mine(s) THEN TRUE ELSE s.synced
    BY <1>a, <1>4 DEF SyncAll, TempFiles
  <2>3. ASSUME NEW t \in temps'
        PROVE  /\ t.by # NoProc => /\ pid'[t.by] # NoProc
                                  /\ t.name[2] = pid'[t.by]
                                  /\ t.name[3] < counter'[t.by]
               /\ t.call <= written'
               /\ Mine(t)' => t.whole /\ (pc' = "rename" => t.synced)
    <3>1. PICK s \in temps : /\ t.name = s.name /\ t.call = s.call /\ t.by = s.by
                             /\ t.stuck = s.stuck /\ t.whole = s.whole
                             /\ t.synced = IF Mine(s) THEN TRUE ELSE s.synced
      BY <2>2
    <3>2. Mine(t)' <=> Mine(s)
      BY <2>1, <3>1 DEF Mine
    <3> QED
      BY <1>a, <2>1, <3>1, <3>2 DEF TempInv
  <2> QED
    BY <2>1, <2>3 DEF TempInv
<1>5. CASE Rename
  BY <1>a, <1>5 DEF Rename, TempInv, Mine
<1>6. CASE StageFails
  <2>1. pc' = "idle" /\ UNCHANGED <<pid, counter, written>>
    BY <1>6 DEF StageFails, GiveUp
  <2>2. ASSUME NEW t \in temps'
        PROVE  \E s \in temps : t.name = s.name /\ t.call = s.call /\ t.by = s.by
    BY <1>a, <1>6 DEF StageFails, TempFiles
  <2> QED
    BY <1>a, <2>1, <2>2 DEF TempInv
<1>7. CASE SyncDir \/ SyncDirFails
  BY <1>a, <1>7 DEF SyncDir, SyncDirFails, Ok, GiveUp, TempInv, Mine
<1>8. ASSUME NEW p \in Procs, StartProcess(p) PROVE TempInv'
  <2>1. PICK i \in Pids : pid' = [pid EXCEPT ![p] = i]
    BY <1>8 DEF StartProcess
  <2>2. \A t \in temps : t.by # NoProc => t.by # p
    BY <1>a, <1>8 DEF StartProcess, TempInv
  <2> QED
    BY <1>a, <1>8, <2>1, <2>2 DEF StartProcess, TypeInv, TempInv, Mine
<1>9. ASSUME NEW p \in Procs, Begin(p) PROVE TempInv'
  BY <1>a, <1>9 DEF Begin, TempInv, Mine
<1>10. ASSUME NEW p \in Procs, Die(p) PROVE TempInv'
  <2>1. \A q \in Procs \ {p} : pid'[q] = pid[q] /\ counter'[q] = counter[q]
    BY <1>a, <1>10 DEF Die, TypeInv
  <2>2. temps' = Orphaned({p}) /\ written' = written
    BY <1>10 DEF Die
  <2>3. ASSUME NEW t \in temps'
        PROVE  \E s \in temps : /\ t.name = s.name /\ t.call = s.call /\ t.whole = s.whole
                                /\ t.synced = s.synced /\ t.stuck = s.stuck
                                /\ t.by = IF s.by = p THEN NoProc ELSE s.by
    BY <1>a, <2>2 DEF Orphaned, TempFiles
  <2>4. ASSUME NEW t \in temps'
        PROVE  /\ t.by # NoProc => /\ pid'[t.by] # NoProc
                                  /\ t.name[2] = pid'[t.by]
                                  /\ t.name[3] < counter'[t.by]
               /\ t.call <= written'
    <3>1. PICK s \in temps : /\ t.name = s.name /\ t.call = s.call
                             /\ t.by = IF s.by = p THEN NoProc ELSE s.by
      BY <2>3
    <3>2. t.by # NoProc => t.by = s.by /\ t.by \in Procs \ {p}
      BY <1>a, <3>1
    <3> QED
      BY <1>a, <2>1, <2>2, <3>1, <3>2 DEF TempInv
  <2>5. CASE holder = p
    <3>1. pc' = "idle"
      BY <1>10, <2>5 DEF Die, GiveUp
    <3> QED
      BY <2>4, <3>1 DEF TempInv
  <2>6. CASE holder # p
    <3>1. UNCHANGED <<holder, pc>>
      BY <1>10, <2>6 DEF Die
    <3>2. pc \in {"sync", "rename"} => holder # NoProc
      BY <1>a DEF RunInv
    <3>3. ASSUME NEW t \in temps'
          PROVE  /\ pc' = "open" => t.call # written'
                 /\ Mine(t)' /\ pc' \in {"sync", "rename"} => t.whole
                 /\ Mine(t)' /\ pc' = "rename" => t.synced
      <4>1. PICK s \in temps : /\ t.name = s.name /\ t.call = s.call /\ t.whole = s.whole
                               /\ t.synced = s.synced /\ t.stuck = s.stuck
                               /\ t.by = IF s.by = p THEN NoProc ELSE s.by
        BY <2>3
      <4>2. pc' \in {"sync", "rename"} /\ Mine(t)' => Mine(s)
        BY <2>2, <3>1, <3>2, <4>1 DEF Mine
      <4> QED
        BY <1>a, <2>2, <3>1, <4>1, <4>2 DEF TempInv
    <3> QED
      BY <2>4, <3>3 DEF TempInv
  <2> QED
    BY <2>5, <2>6
<1>11. CASE PowerLoss
  <2>1. temps' \subseteq Orphaned(Procs) /\ written' = written /\ pc' = "idle"
    BY <1>11 DEF PowerLoss, GiveUp
  <2>2. ASSUME NEW t \in temps' PROVE t.by = NoProc /\ \E s \in temps : t.call = s.call
    BY <1>a, <2>1 DEF Orphaned, TempFiles
  <2> QED
    BY <1>a, <2>1, <2>2 DEF TempInv
<1> QED
  BY <1>1, <1>2, <1>3, <1>4, <1>5, <1>6, <1>7, <1>8, <1>9, <1>10, <1>11 DEF Next

\* What has been renamed, and how much of it is on the disk.
LEMMA LogStep == ASSUME IInv, Next PROVE LogInv'
<1>a. TypeInv /\ RunInv /\ TempInv /\ LogInv /\ written \in Nat /\ unsynced \in BOOLEAN
  BY DEF IInv, TypeInv
<1>b. \A f \in log : f.call \in Nat
  BY <1>a DEF TypeInv, Files
<1>1. CASE CallWritePrivate
  BY <1>a, <1>b, <1>1 DEF CallWritePrivate, LogInv, CallsOf, InCall
<1>2. CASE Open
  BY <1>a, <1>2 DEF Open, GiveUp, LogInv, CallsOf, InCall
<1>3. CASE WriteAll \/ SyncAll
  BY <1>a, <1>3 DEF WriteAll, SyncAll, LogInv, CallsOf, InCall
<1>4. CASE Rename
  <2>1. PICK t \in temps : /\ Mine(t)
                           /\ log' = log \cup {[name |-> Head(job), call |-> written,
                                                whole |-> t.whole, synced |-> t.synced]}
    BY <1>4 DEF Rename
  <2> DEFINE n == [name |-> Head(job), call |-> written, whole |-> t.whole, synced |-> t.synced]
  <2>2. t.whole /\ t.synced
    BY <1>a, <1>4, <2>1 DEF Rename, TempInv
  <2>3. n.whole /\ n.synced /\ n.call = written
    BY <2>2
  <2>4. CallsOf(log') = CallsOf(log) \cup {written}
    BY <2>1, <2>3 DEF CallsOf
  <2>5. /\ \A f \in log : f.whole /\ f.synced /\ f.call <= written /\ f.call # written
        /\ \A f, g \in log : f.call = g.call => f = g
    BY <1>a, <1>4 DEF Rename, LogInv, InCall
  <2>6. \A f \in log' : f \in log \/ f = n
    BY <2>1
  <2> HIDE DEF n
  <2>7. /\ \A f \in log' : f.whole /\ f.synced /\ f.call <= written
        /\ \A f, g \in log' : f.call = g.call => f = g
    BY <1>a, <2>3, <2>5, <2>6
  <2>8. ~unsynced => CallsOf(log) \subseteq durable
    BY <1>a, <1>4 DEF Rename, LogInv
  <2> QED
    BY <1>a, <1>4, <2>4, <2>7, <2>8 DEF Rename, LogInv, InCall
<1>5. CASE StageFails
  BY <1>a, <1>5 DEF StageFails, GiveUp, LogInv, CallsOf, InCall
<1>6. CASE SyncDir
  <2>1. /\ pc = "sync_dir" /\ pc' = "idle" /\ acked' = acked \cup {written}
        /\ durable' = CallsOf(log) /\ UNCHANGED <<log, written>>
    BY <1>6 DEF SyncDir, Ok
  <2>2. CallsOf(log)' = CallsOf(log)
    BY <2>1 DEF CallsOf
  <2> QED
    BY <1>a, <2>1, <2>2 DEF LogInv, InCall
<1>7. CASE SyncDirFails
  BY <1>a, <1>7 DEF SyncDirFails, GiveUp, LogInv, CallsOf, InCall
<1>8. ASSUME NEW p \in Procs, StartProcess(p) \/ Begin(p) PROVE LogInv'
  BY <1>a, <1>8 DEF StartProcess, Begin, RunInv, LogInv, CallsOf, InCall
<1>9. ASSUME NEW p \in Procs, Die(p) PROVE LogInv'
  <2>1. UNCHANGED <<log, durable, written, acked>>
    BY <1>9 DEF Die
  <2>2. CASE holder = p
    <3>1. pc' = "idle" /\ unsynced' = (unsynced \/ pc = "sync_dir")
      BY <1>9, <2>2 DEF Die, GiveUp
    <3> QED
      BY <1>a, <2>1, <3>1 DEF LogInv, CallsOf, InCall
  <2>3. CASE holder # p
    <3>1. UNCHANGED <<pc, unsynced>>
      BY <1>9, <2>3 DEF Die
    <3> QED
      BY <1>a, <2>1, <3>1 DEF LogInv, CallsOf, InCall
  <2> QED
    BY <2>2, <2>3
<1>10. CASE PowerLoss
  <2>1. PICK kept \in SUBSET (CallsOf(log) \ durable) :
              /\ log' = AfterPowerLoss(durable \cup kept)
              /\ durable' = durable \cup kept
    BY <1>10 DEF PowerLoss
  <2>2. log' = {f \in log : f.call \in durable \cup kept}
    <3>1. ASSUME NEW f \in log PROVE [f EXCEPT !.whole = @ /\ f.synced] = f
      <4>1. f.whole = TRUE /\ f.synced = TRUE /\ f = [f EXCEPT !.whole = f.whole]
        BY <1>a DEF LogInv, TypeInv, Files
      <4> QED
        BY <4>1
    <3> QED
      BY <2>1, <3>1 DEF AfterPowerLoss
  <2>3. CallsOf(log') = durable'
    <3>1. \A c \in durable' : \E f \in log : f.call = c
      BY <1>a, <2>1 DEF CallsOf, LogInv
    <3> QED
      BY <2>1, <2>2, <3>1 DEF CallsOf
  <2>4. pc' = "idle" /\ UNCHANGED <<written, acked>>
    BY <1>10 DEF PowerLoss, GiveUp
  <2>5. CallsOf(log)' = CallsOf(log')
    BY DEF CallsOf
  <2> QED
    BY <1>a, <2>1, <2>2, <2>3, <2>4, <2>5 DEF LogInv, InCall
<1> QED
  BY <1>1, <1>2, <1>3, <1>4, <1>5, <1>6, <1>7, <1>8, <1>9, <1>10 DEF Next

\* However often a process is killed, a step fails or the power goes.
THEOREM Invariance == Spec => []IInv
<1>1. IInv /\ [Next]_vars => IInv'
  <2> SUFFICES ASSUME IInv, [Next]_vars PROVE IInv'
    OBVIOUS
  <2>1. CASE Next
    BY <2>1, TypeStep, RunStep, TempStep, LogStep DEF IInv
  <2>2. CASE UNCHANGED vars
    BY <2>2 DEF vars, IInv, TypeInv, RunInv, TempInv, LogInv, Mine, CallsOf
  <2> QED
    BY <2>1, <2>2
<1> QED
  BY InitIInv, <1>1, PTL DEF Spec

-----------------------------------------------------------------------------
(* What the code promises.                                                 *)

\* FilesAreWhole: the data are synced before the rename, so that there is never
\* a name for a file with some of its data.
THEOREM FilesAreWholeHolds == Spec => []FilesAreWhole
<1>1. IInv => FilesAreWhole
  BY DEF IInv, LogInv, FilesAreWhole
<1> QED
  BY Invariance, <1>1, PTL

\* AcknowledgedSurvives: the directory is synced before the call returns Ok, and
\* what was there before it with it.
THEOREM AcknowledgedSurvivesHolds == Spec => []AcknowledgedSurvives
<1>1. IInv => AcknowledgedSurvives
  BY DEF IInv, LogInv, AcknowledgedSurvives
<1> QED
  BY Invariance, <1>1, PTL

\* OneRenameAtRisk: one writer at a time, and each syncs the directory before
\* the next one renames anything.
THEOREM OneRenameAtRiskHolds == Spec => []OneRenameAtRisk
<1>1. IInv => OneRenameAtRisk
  <2> SUFFICES ASSUME IInv, ~unsynced, NEW f \in log, NEW g \in log,
                      {f.call, g.call} \cap durable = {}
               PROVE  f = g
    BY DEF OneRenameAtRisk
  <2>1. f.call \in CallsOf(log) \ durable /\ g.call \in CallsOf(log) \ durable
    BY DEF CallsOf
  <2>2. f.call = written /\ g.call = written
    BY <2>1 DEF IInv, LogInv
  <2> QED
    BY <2>2 DEF IInv, LogInv
<1> QED
  BY Invariance, <1>1, PTL

\* CollisionsAreOfTheDead: a process id is not used twice at a time, and the
\* counter of a process never comes back to a number.
THEOREM CollisionsAreOfTheDeadHolds == Spec => []CollisionsAreOfTheDead
<1>1. IInv => CollisionsAreOfTheDead
  <2> SUFFICES ASSUME IInv, pc = "open", NEW t \in temps, t.name = TmpName(holder, Head(job)),
                      t.by # NoProc
               PROVE  FALSE
    BY DEF CollisionsAreOfTheDead
  <2>1. holder \in Procs /\ pid[holder] # NoProc /\ t.by \in Procs
    BY DEF IInv, TypeInv, RunInv, TempFiles
  <2>2. /\ pid[t.by] # NoProc /\ t.name[2] = pid[t.by] /\ t.name[3] < counter[t.by]
        /\ t.name[2] = pid[holder] /\ t.name[3] = counter[holder]
    BY DEF IInv, TempInv, TmpName
  <2>3. t.by = holder
    BY <2>1, <2>2 DEF IInv, RunInv
  <2>4. counter[holder] \in Nat
    BY <2>1 DEF IInv, TypeInv
  <2> QED
    BY <2>2, <2>3, <2>4
<1> QED
  BY Invariance, <1>1, PTL
=============================================================================

---------------------------- MODULE DurableWrite ----------------------------
(***************************************************************************)
(* write_private: how one file of a key directory is replaced, and what is *)
(* left of it when a step fails, the process is killed or the machine      *)
(* loses power.  KeyDir takes a write for one atomic step; here it is the  *)
(* six system calls it is made of.                                         *)
(*                                                                         *)
(* Processes write under the exclusive lock, several files one after the   *)
(* other.  Killing a process loses nothing that the kernel has; power loss *)
(* loses the data of files that were not synced and any of the renames     *)
(* since the directory was.                                                *)
(***************************************************************************)
EXTENDS Integers, Sequences

CONSTANTS
    Procs,      \* processes
    NoProc,     \* nobody
    Pids,       \* process ids; one is used again when its process has ended
    Names,      \* the files
    Jobs,       \* the files an operation writes, in order
    MaxWrites,  \* bound: how many calls of write_private there are
    MaxTurns    \* bound: how many processes are started

ASSUME DurableAssumption == /\ NoProc \notin Procs
                            /\ Jobs \subseteq Seq(Names)
                            /\ MaxWrites \in Nat /\ MaxTurns \in Nat

VARIABLES
    pid,        \* the process id of each process, or NoProc: not running
    counter,    \* COUNTER of each process
    holder,     \* who holds the exclusive lock, or NoProc
    job,        \* the files the holder has still to write
    pc,         \* where the holder is in write_private, or "idle"
    log,        \* the files renamed into place, the one of a later call later
    durable,    \* the calls whose renames are on the disk for good
    temps,      \* the temporary files
    written,    \* how many calls of write_private there were
    turns,      \* how many processes were started
    acked,      \* history variable: the calls that returned Ok
    unsynced    \* history variable: a write ended after its rename without a sync

vars == <<pid, counter, holder, job, pc, log, durable, temps, written, turns, acked, unsynced>>

-----------------------------------------------------------------------------
(* One call of write_private by the holder of the lock.                    *)

\* Mutant: no process id in the name.
TmpNameWithoutPid(p, name) == <<name, 0, counter[p]>>

\* .{name}.{pid}.{counter}.tmp
TmpName(p, name) == <<name, pid[p], counter[p]>>

\* The temporary file the call at hand has created.
Mine(t) == t.by = holder /\ t.call = written /\ ~t.stuck

\* The operation stops at the first error, and drops its lock.
GiveUp == /\ holder' = NoProc
          /\ job' = <<>>
          /\ pc' = "idle"

CallWritePrivate ==
    /\ holder # NoProc /\ pc = "idle" /\ job # <<>>
    /\ written < MaxWrites
    /\ written' = written + 1
    /\ pc' = "open"
    /\ UNCHANGED <<pid, counter, holder, job, log, durable, temps, turns, acked, unsynced>>

\* fetch_add, then O_EXCL: an entry of that name, or any error, and the call
\* returns without touching it.
Open ==
    LET tmp == TmpName(holder, Head(job))
    IN  /\ pc = "open"
        /\ counter' = [counter EXCEPT ![holder] = @ + 1]
        /\ \/ /\ \A t \in temps : t.name # tmp
              /\ temps' = temps \cup {[name |-> tmp, call |-> written, by |-> holder,
                                       whole |-> FALSE, synced |-> FALSE, stuck |-> FALSE]}
              /\ pc' = "write"
              /\ UNCHANGED <<holder, job>>
           \/ GiveUp /\ temps' = temps
        /\ UNCHANGED <<pid, log, durable, written, turns, acked, unsynced>>

\* set_permissions and write_all.
WriteAll ==
    /\ pc = "write"
    /\ temps' = {IF Mine(t) THEN [t EXCEPT !.whole = TRUE] ELSE t : t \in temps}
    /\ pc' = "sync"
    /\ UNCHANGED <<pid, counter, holder, job, log, durable, written, turns, acked, unsynced>>

\* Mutant: the data are not synced before the rename.
SyncAllSkipped ==
    /\ pc = "sync"
    /\ pc' = "rename"
    /\ UNCHANGED <<pid, counter, holder, job, log, durable, temps, written, turns, acked, unsynced>>

\* sync_all of the temporary file.
SyncAll ==
    /\ pc = "sync"
    /\ temps' = {IF Mine(t) THEN [t EXCEPT !.synced = TRUE] ELSE t : t \in temps}
    /\ pc' = "rename"
    /\ UNCHANGED <<pid, counter, holder, job, log, durable, written, turns, acked, unsynced>>

Rename ==
    /\ pc = "rename"
    /\ \E t \in temps :
          /\ Mine(t)
          /\ temps' = temps \ {t}
          /\ log' = log \cup {[name |-> Head(job), call |-> written,
                               whole |-> t.whole, synced |-> t.synced]}
    /\ pc' = "sync_dir"
    /\ UNCHANGED <<pid, counter, holder, job, durable, written, turns, acked, unsynced>>

\* A step between the open and the rename fails: the call removes its own
\* temporary file, if it can.
StageFails ==
    /\ pc \in {"write", "sync", "rename"}
    /\ \/ temps' = {t \in temps : ~Mine(t)}
       \/ temps' = {IF Mine(t) THEN [t EXCEPT !.stuck = TRUE] ELSE t : t \in temps}
    /\ GiveUp
    /\ UNCHANGED <<pid, counter, log, durable, written, turns, acked, unsynced>>

\* The call returns Ok; the lock is dropped after the last file.
Ok == /\ acked' = acked \cup {written}
      /\ job' = Tail(job)
      /\ pc' = "idle"
      /\ holder' = IF Tail(job) = <<>> THEN NoProc ELSE holder

CallsOf(files) == {f.call : f \in files}

\* Mutant: Ok without a sync of the directory.
SyncDirSkipped ==
    /\ pc = "sync_dir"
    /\ Ok
    /\ UNCHANGED <<pid, counter, log, durable, temps, written, turns, unsynced>>

\* sync_all of the directory.
SyncDir ==
    /\ pc = "sync_dir"
    /\ Ok
    /\ durable' = CallsOf(log)
    /\ unsynced' = FALSE
    /\ UNCHANGED <<pid, counter, log, temps, written, turns>>

\* The file is in place, and the call returns an error all the same.
SyncDirFails ==
    /\ pc = "sync_dir"
    /\ GiveUp
    /\ unsynced' = TRUE
    /\ UNCHANGED <<pid, counter, log, durable, temps, written, turns, acked>>

-----------------------------------------------------------------------------
(* Processes.                                                              *)

StartProcess(p) ==
    /\ pid[p] = NoProc
    /\ turns < MaxTurns
    /\ turns' = turns + 1
    /\ \E i \in Pids : /\ \A q \in Procs : pid[q] # i
                       /\ pid' = [pid EXCEPT ![p] = i]
    /\ counter' = [counter EXCEPT ![p] = 0]
    /\ UNCHANGED <<holder, job, pc, log, durable, temps, written, acked, unsynced>>

\* Mutant: no lock: an operation takes over from one that has not ended.
BeginUnlocked(p) ==
    /\ pid[p] # NoProc /\ holder # p
    /\ holder' = p
    /\ job' \in Jobs
    /\ pc' = "idle"
    /\ UNCHANGED <<pid, counter, log, durable, temps, written, turns, acked, unsynced>>

\* lock_exclusive, at the start of an operation.
Begin(p) ==
    /\ pid[p] # NoProc
    /\ holder = NoProc
    /\ holder' = p
    /\ job' \in Jobs
    /\ pc' = "idle"
    /\ UNCHANGED <<pid, counter, log, durable, temps, written, turns, acked, unsynced>>

Orphaned(dead) == {IF t.by \in dead THEN [t EXCEPT !.by = NoProc] ELSE t : t \in temps}

\* A process ends, or is killed: its temporary file stays.
Die(p) ==
    /\ pid[p] # NoProc
    /\ pid' = [pid EXCEPT ![p] = NoProc]
    /\ counter' = [counter EXCEPT ![p] = 0]
    /\ temps' = Orphaned({p})
    /\ IF holder = p
       THEN GiveUp /\ unsynced' = (unsynced \/ pc = "sync_dir")
       ELSE UNCHANGED <<holder, job, pc, unsynced>>
    /\ UNCHANGED <<log, durable, written, turns, acked>>

\* The renames of `kept`, and the data that were synced.
AfterPowerLoss(kept) ==
    {[f EXCEPT !.whole = @ /\ f.synced] : f \in {g \in log : g.call \in kept}}

PowerLoss ==
    /\ \E kept \in SUBSET (CallsOf(log) \ durable) :
          /\ log' = AfterPowerLoss(durable \cup kept)
          /\ durable' = durable \cup kept
    /\ \E stay \in SUBSET Orphaned(Procs) : temps' = stay
    /\ pid' = [p \in Procs |-> NoProc]
    /\ counter' = [p \in Procs |-> 0]
    /\ GiveUp
    /\ unsynced' = FALSE
    /\ UNCHANGED <<written, turns, acked>>

-----------------------------------------------------------------------------

Init ==
    /\ pid = [p \in Procs |-> NoProc]
    /\ counter = [p \in Procs |-> 0]
    /\ holder = NoProc
    /\ job = <<>>
    /\ pc = "idle"
    /\ log = {}
    /\ durable = {}
    /\ temps = {}
    /\ written = 0
    /\ turns = 0
    /\ acked = {}
    /\ unsynced = FALSE

Next ==
    \/ CallWritePrivate \/ Open \/ WriteAll \/ SyncAll \/ Rename \/ SyncDir
    \/ StageFails \/ SyncDirFails
    \/ \E p \in Procs : StartProcess(p) \/ Begin(p) \/ Die(p)
    \/ PowerLoss

Spec == Init /\ [][Next]_vars

-----------------------------------------------------------------------------
(* Properties.                                                             *)

\* Whoever opens a file, at any moment and after any loss of power, finds all
\* of one version of it: there is no moment at which a name stands for a file
\* whose data may still be lost.
FilesAreWhole ==
    \A f \in log : (\A g \in log : g.name = f.name => g.call <= f.call) => f.whole

\* A write that returned Ok is never lost, but for a later write of the file.
AcknowledgedSurvives == acked \subseteq CallsOf(log)

\* KeyDir's crashes are the power losses, too: at most one rename is ever at
\* risk, the one being made, so what is left is the directory before or after
\* that write, and never a later write without an earlier one.  The exception
\* is a rename whose write was killed, or failed, before it synced the
\* directory: it stays at risk until the next write of anybody is complete.
OneRenameAtRisk ==
    ~unsynced => \A f, g \in log : {f.call, g.call} \cap durable = {} => f = g

\* A write is turned away by the name of its temporary file only because of
\* what a process that is gone has left behind; a process never stands in its
\* own way or in that of another one that is running, even if it could not
\* remove its temporary file.
CollisionsAreOfTheDead ==
    pc = "open" => \A t \in temps : t.name = TmpName(holder, Head(job)) => t.by = NoProc

-----------------------------------------------------------------------------
(* The inductive invariant.                                                *)

InCall == {"open", "write", "sync", "rename", "sync_dir"}

Files == [name : Names, call : Nat, whole : BOOLEAN, synced : BOOLEAN]
TempFiles == [name : Names \X (Pids \cup {NoProc}) \X Nat, call : Nat,
              by : Procs \cup {NoProc}, whole : BOOLEAN, synced : BOOLEAN, stuck : BOOLEAN]

TypeInv ==
    /\ pid \in [Procs -> Pids \cup {NoProc}]
    /\ counter \in [Procs -> Nat]
    /\ holder \in Procs \cup {NoProc}
    /\ job \in Seq(Names)
    /\ pc \in InCall \cup {"idle"}
    /\ log \subseteq Files
    /\ temps \subseteq TempFiles
    /\ written \in Nat
    /\ unsynced \in BOOLEAN

\* The kernel's side: no two processes that run have one id, and a process
\* that ends drops its lock.
RunInv ==
    /\ \A p, q \in Procs : pid[p] # NoProc /\ pid[p] = pid[q] => p = q
    /\ holder # NoProc => pid[holder] # NoProc
    /\ pc # "idle" => holder # NoProc /\ job # <<>>

\* A temporary file of a process that runs has its id, and a number it has
\* counted past; what the call at hand has made of its own is in step with it.
TempInv ==
    \A t \in temps :
        /\ t.by # NoProc => /\ pid[t.by] # NoProc
                           /\ t.name[2] = pid[t.by]
                           /\ t.name[3] < counter[t.by]
        /\ t.call <= written
        /\ pc = "open" => t.call # written
        /\ Mine(t) /\ pc \in {"sync", "rename"} => t.whole
        /\ Mine(t) /\ pc = "rename" => t.synced

\* Only whole files that are synced have been renamed, one in a call, and only
\* the rename of the call at hand is at risk, unless a sync has failed.
LogInv ==
    /\ \A f \in log : /\ f.whole /\ f.synced
                      /\ f.call <= written
                      /\ pc \in InCall \ {"sync_dir"} => f.call # written
    /\ \A f, g \in log : f.call = g.call => f = g
    /\ pc = "sync_dir" => written \in CallsOf(log)
    /\ durable \subseteq CallsOf(log)
    /\ acked \subseteq durable
    /\ ~unsynced => CallsOf(log) \subseteq durable \cup (IF pc = "sync_dir" THEN {written} ELSE {})

IInv == TypeInv /\ RunInv /\ TempInv /\ LogInv
=============================================================================

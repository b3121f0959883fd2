---------------------------- MODULE CreateOrLoad ----------------------------
(***************************************************************************)
(* IdentityKeys::create_or_load: several processes create, or find, the    *)
(* one identity of a path.  Directories and lock files are inodes here,    *)
(* because that is what the code's steps act on: a rename moves a          *)
(* directory, an unlink takes a lock file away from under the processes    *)
(* that have it open, and every step resolves the path again.              *)
(*                                                                         *)
(* Directories and lock files are numbered as they are made.  The identity *)
(* in a directory is the directory's number: it is made with it.  What the *)
(* writers write inside an identity is module KeyDir's matter.             *)
(***************************************************************************)
EXTENDS Integers, FiniteSets

CONSTANTS
    Procs,      \* processes using the path
    NoProc,     \* "nobody": the holder of a lock file that is not locked
    Starts,     \* what is at the path at the beginning
    MaxDirs,    \* bound: directories ever made
    MaxLocks    \* bound: lock files ever made

ASSUME ProcsAssumption == NoProc \notin Procs
ASSUME StartsAssumption ==
    Starts \subseteq {"absent", "empty", "lock_only", "partial", "identity"}
ASSUME BoundsAssumption == MaxDirs \in Nat \ {0} /\ MaxLocks \in Nat \ {0}

None == 0
Dirs == 1..MaxDirs
LockFiles == 1..MaxLocks
First == 1                  \* the directory, and the lock file, of the beginning

VARIABLES
    dir,        \* the directory at the path, or None
    content,    \* what each directory holds: no agent file, some, or all six
    lock,       \* the lock file in each directory, or None
    temp,       \* the temporary directory each process is filling, or None
    keys,       \* the identity init gave each process to return, or None
    stale,      \* temporary directories whose process died
    dirs,       \* directories made so far
    locks,      \* lock files made so far
    excl,       \* who holds each lock file exclusively
    shared,     \* who holds each lock file shared
    fd,         \* the lock file each process has open, or None
    pc,         \* where each process is
    returned,   \* history variable: the identities handed to callers
    start       \* history variable: what was at the path at the beginning

vars == <<dir, content, lock, temp, keys, stale, dirs, locks, excl, shared, fd, pc, returned,
          start>>
flocks == <<excl, shared, fd>>
tree == <<dir, content, lock>>

-----------------------------------------------------------------------------

\* IdentityKeys::exists
Exists == dir # None /\ content[dir] = "complete"

\* Mutant: any entry named `.lock` will do.
SawLock == dir # None /\ lock[dir] # None

\* Nothing but `.lock` is in the directory.
OnlyLock == dir # None /\ content[dir] = "none" /\ lock[dir] # None

Vacant == dir # None /\ content[dir] = "none" /\ lock[dir] = None

Goto(p, here, there) == pc[p] = here /\ pc' = [pc EXCEPT ![p] = there]

\* Dropping the lock file closes it, and that releases the flock.
Close(p) ==
    /\ fd' = [fd EXCEPT ![p] = None]
    /\ excl' = [l \in LockFiles |-> IF excl[l] = p THEN NoProc ELSE excl[l]]
    /\ shared' = [l \in LockFiles |-> shared[l] \ {p}]

\* A call ends, well or badly: the lock file is dropped, and so is the guard
\* of a temporary directory that was not renamed into place, which removes it.
Finish(p) ==
    /\ pc' = [pc EXCEPT ![p] = "idle"]
    /\ temp' = [temp EXCEPT ![p] = None]
    /\ keys' = [keys EXCEPT ![p] = None]
    /\ Close(p)
    /\ UNCHANGED <<tree, stale, dirs, locks>>

-----------------------------------------------------------------------------
(* create_or_load                                                          *)

CallCreateOrLoad(p) ==
    /\ Goto(p, "idle", IF Exists THEN "open_shared" ELSE "prepare")
    /\ UNCHANGED <<tree, temp, keys, stale, dirs, locks, flocks, returned>>

\* clean_dead_temps, then a fresh sibling directory.
Prepare(p) ==
    /\ Goto(p, "prepare", "look")
    /\ dirs < MaxDirs
    /\ dirs' = dirs + 1
    /\ temp' = [temp EXCEPT ![p] = dirs + 1]
    /\ stale' = {}
    /\ UNCHANGED <<tree, keys, locks, flocks, returned>>

Look(p) ==
    /\ Goto(p, "look", IF OnlyLock THEN "unlink" ELSE "init")
    /\ UNCHANGED <<tree, temp, keys, stale, dirs, locks, flocks, returned>>

\* remove_file(dir/.lock): whatever directory is at the path by now.
Unlink(p) ==
    /\ Goto(p, "unlink", "rmdir")
    /\ lock' = [d \in Dirs |-> IF d = dir THEN None ELSE lock[d]]
    /\ UNCHANGED <<dir, content, temp, keys, stale, dirs, locks, flocks, returned>>

\* Mutant: the directory is removed with what is in it.
RmdirAll(p) ==
    /\ Goto(p, "rmdir", "init")
    /\ dir' = None
    /\ UNCHANGED <<content, lock, temp, keys, stale, dirs, locks, flocks, returned>>

\* remove_dir(dir): a directory that is gone or not empty is no error.
Rmdir(p) ==
    /\ Goto(p, "rmdir", "init")
    /\ dir' = IF Vacant THEN None ELSE dir
    /\ UNCHANGED <<content, lock, temp, keys, stale, dirs, locks, flocks, returned>>

\* init in the temporary directory: its lock file and the first files ...
InitTemp(p) ==
    /\ Goto(p, "init", "commit")
    /\ locks < MaxLocks
    /\ locks' = locks + 1
    /\ lock' = [lock EXCEPT ![temp[p]] = locks + 1]
    /\ content' = [content EXCEPT ![temp[p]] = "some"]
    /\ UNCHANGED <<dir, temp, keys, stale, dirs, flocks, returned>>

\* ... and agent_id, the last one.  p has the keys it made in memory too.
CommitTemp(p) ==
    /\ Goto(p, "commit", "rename")
    /\ content' = [content EXCEPT ![temp[p]] = "complete"]
    /\ keys' = [keys EXCEPT ![p] = temp[p]]
    /\ UNCHANGED <<dir, lock, temp, stale, dirs, locks, flocks, returned>>

\* rename(temp, dir) succeeds when nothing, or an empty directory, is there;
\* with anything else there it is a collision, and the winner is loaded.
Rename(p) ==
    /\ IF dir = None \/ Vacant
       THEN /\ Goto(p, "rename", "sync")
            /\ dir' = temp[p]
            /\ temp' = [temp EXCEPT ![p] = None]
       ELSE Goto(p, "rename", "open_shared") /\ UNCHANGED <<dir, temp>>
    /\ UNCHANGED <<content, lock, keys, stale, dirs, locks, flocks, returned>>

\* The parent is synced, and the keys init made are returned: what is at the
\* path is not looked at again.
Created(p) ==
    /\ pc[p] = "sync"
    /\ returned' = returned \cup {keys[p]}
    /\ Finish(p)

-----------------------------------------------------------------------------
(* Loading and writing under the lock of whatever is at the path.          *)

\* load_verified; and renew, rotate_device, rotate_root, renew_if_due.
CallLoad(p) == /\ Goto(p, "idle", "open_shared")
               /\ UNCHANGED <<tree, temp, keys, stale, dirs, locks, flocks, returned>>

CallWrite(p) == /\ Goto(p, "idle", "open_exclusive")
                /\ UNCHANGED <<tree, temp, keys, stale, dirs, locks, flocks, returned>>

\* open_lock_file: opens dir/.lock, making it when it is not there.
OpenLock(p) ==
    /\ dir # None
    /\ \/ Goto(p, "open_shared", "lock_shared")
       \/ Goto(p, "open_exclusive", "lock_exclusive")
    /\ IF lock[dir] # None
       THEN /\ fd' = [fd EXCEPT ![p] = lock[dir]]
            /\ UNCHANGED <<lock, locks>>
       ELSE /\ locks < MaxLocks
            /\ locks' = locks + 1
            /\ lock' = [lock EXCEPT ![dir] = locks + 1]
            /\ fd' = [fd EXCEPT ![p] = locks + 1]
    /\ UNCHANGED <<dir, content, temp, keys, stale, dirs, excl, shared, returned>>

LockShared(p) ==
    /\ Goto(p, "lock_shared", "read")
    /\ excl[fd[p]] = NoProc
    /\ shared' = [shared EXCEPT ![fd[p]] = @ \cup {p}]
    /\ UNCHANGED <<tree, temp, keys, stale, dirs, locks, excl, fd, returned>>

LockExclusive(p) ==
    /\ Goto(p, "lock_exclusive", "load_files")
    /\ excl[fd[p]] = NoProc /\ shared[fd[p]] = {}
    /\ excl' = [excl EXCEPT ![fd[p]] = p]
    /\ UNCHANGED <<tree, temp, keys, stale, dirs, locks, shared, fd, returned>>

\* A writer reads the identity before it writes; if there is none, it fails.
LoadFiles(p) ==
    /\ Goto(p, "load_files", "write")
    /\ Exists
    /\ UNCHANGED <<tree, temp, keys, stale, dirs, locks, flocks, returned>>

\* The files are read by path.  What is not an identity is an error.
Loaded(p) ==
    /\ pc[p] = "read"
    /\ Exists
    /\ returned' = returned \cup {dir}
    /\ Finish(p)

Written(p) ==
    /\ pc[p] = "write"
    /\ returned' = returned
    /\ Finish(p)

-----------------------------------------------------------------------------

\* Any step of a call can end it with an error: I/O, or a directory that is
\* missing, loose or not an identity.
Fail(p) ==
    /\ pc[p] # "idle"
    /\ returned' = returned
    /\ Finish(p)

\* The process dies.  Its temporary directory stays, under a dead pid.
Crash(p) ==
    /\ pc[p] # "idle"
    /\ pc' = [pc EXCEPT ![p] = "idle"]
    /\ stale' = stale \cup ({temp[p]} \ {None})
    /\ temp' = [temp EXCEPT ![p] = None]
    /\ keys' = [keys EXCEPT ![p] = None]
    /\ Close(p)
    /\ UNCHANGED <<tree, dirs, locks, returned>>

Init ==
    /\ start \in Starts
    /\ dir = IF start = "absent" THEN None ELSE First
    /\ content = [d \in Dirs |->
          IF d # First THEN "none"
          ELSE IF start = "partial" THEN "some"
          ELSE IF start = "identity" THEN "complete" ELSE "none"]
    /\ lock = [d \in Dirs |->
          IF d = First /\ start \in {"lock_only", "partial", "identity"}
          THEN First ELSE None]
    /\ temp = [p \in Procs |-> None]
    /\ keys = [p \in Procs |-> None]
    /\ stale = {}
    /\ dirs = First
    /\ locks = First
    /\ excl = [l \in LockFiles |-> NoProc]
    /\ shared = [l \in LockFiles |-> {}]
    /\ fd = [p \in Procs |-> None]
    /\ pc = [p \in Procs |-> "idle"]
    /\ returned = {}

Step(p) ==
    \/ CallCreateOrLoad(p) \/ Prepare(p) \/ Look(p) \/ Unlink(p) \/ Rmdir(p)
    \/ InitTemp(p) \/ CommitTemp(p) \/ Rename(p) \/ Created(p)
    \/ CallLoad(p) \/ CallWrite(p) \/ OpenLock(p) \/ LockShared(p) \/ LockExclusive(p)
    \/ LoadFiles(p) \/ Loaded(p) \/ Written(p) \/ Fail(p) \/ Crash(p)

Next == (\E p \in Procs : Step(p)) /\ UNCHANGED start

Spec == Init /\ [][Next]_vars

-----------------------------------------------------------------------------
(* Properties.                                                             *)

Points == {"idle", "prepare", "look", "unlink", "rmdir", "init", "commit", "rename", "sync",
           "open_shared", "open_exclusive", "lock_shared", "lock_exclusive", "load_files",
           "read", "write"}

\* Every variable has its type, and the bounds are respected.
TypeOK ==
    /\ dir \in Dirs \cup {None}
    /\ content \in [Dirs -> {"none", "some", "complete"}]
    /\ lock \in [Dirs -> LockFiles \cup {None}]
    /\ temp \in [Procs -> Dirs \cup {None}]
    /\ keys \in [Procs -> Dirs \cup {None}]
    /\ stale \subseteq Dirs
    /\ dirs \in Dirs
    /\ locks \in LockFiles
    /\ excl \in [LockFiles -> Procs \cup {NoProc}]
    /\ shared \in [LockFiles -> SUBSET Procs]
    /\ fd \in [Procs -> LockFiles \cup {None}]
    /\ pc \in [Procs -> Points]
    /\ returned \subseteq Dirs
    /\ start \in Starts

\* Processes starting together, crashing, or clearing the directory never make
\* a second root: everybody who was ever handed an identity was handed the same
\* one, and it is the one at the path.
OneIdentity == \A d \in returned : d = dir /\ Exists

\* A crash leaves nothing or a complete identity: create_or_load never puts a
\* half made directory at the path, and one that was there before it leaves
\* alone, down to its lock file.
NothingOrComplete ==
    [][/\ dir # None /\ content[dir] = "some" => UNCHANGED <<dir, content[dir], lock[dir]>>
       /\ dir' # None /\ content'[dir'] = "some" => dir # None /\ content[dir] = "some"]_vars

\* The operations that write take an exclusive flock for the whole operation, so
\* no two of them are ever writing the same identity.
OneWriter == \A p, q \in Procs : pc[p] = "write" /\ pc[q] = "write" => p = q

\* The lock excludes: an operation that has its flock is alone in the
\* directory, unless everybody in it only reads.  From an empty directory, or
\* one with nothing but .lock, create_or_load may unlink a lock file in use.
LockExcludes ==
    start \notin {"empty", "lock_only"} =>
        \A p, q \in Procs :
            /\ pc[p] \in {"load_files", "write"}
            /\ pc[q] \in {"read", "load_files", "write"}
            => p = q

-----------------------------------------------------------------------------
(* The inductive invariant.                                                *)

\* A temporary directory is nobody else's, and is not at the path; what is about
\* to be renamed is whole, and what was renamed is there, and is what its maker
\* is about to return.
TempInv ==
    /\ dir # None => dir <= dirs
    /\ \A p \in Procs :
          /\ temp[p] # None => temp[p] <= dirs /\ temp[p] # dir
          /\ pc[p] \in {"look", "unlink", "rmdir", "init", "commit", "rename"} => temp[p] # None
          /\ pc[p] = "rename" => content[temp[p]] = "complete" /\ keys[p] = temp[p]
          /\ pc[p] = "sync" => Exists /\ keys[p] = dir
          /\ \A q \in Procs : temp[p] # None /\ temp[p] = temp[q] => p = q

Clearing == {"unlink", "rmdir"}

\* A half made directory has its lock file, so nobody takes it for an empty one.
PartialInv ==
    dir # None /\ content[dir] = "some" =>
        lock[dir] # None /\ \A p \in Procs : pc[p] \notin Clearing

\* Unless the start was empty or lock-only, nothing is ever cleared, and whoever
\* has a lock file open has the one at the path.
LockInv ==
    start \notin {"empty", "lock_only"} =>
        /\ dir # None => content[dir] # "none"
        /\ \A p \in Procs :
              /\ pc[p] \notin Clearing
              /\ pc[p] \in {"lock_shared", "lock_exclusive", "read", "load_files", "write"} =>
                    dir # None /\ fd[p] # None /\ fd[p] = lock[dir]

\* The kernel's side of a flock.
FlockInv ==
    /\ \A l \in LockFiles : excl[l] # NoProc => shared[l] = {}
    /\ \A p \in Procs :
          /\ pc[p] \in {"lock_shared", "lock_exclusive", "read", "load_files", "write"} =>
                fd[p] # None
          /\ pc[p] = "read" => p \in shared[fd[p]]
          /\ pc[p] \in {"load_files", "write"} => excl[fd[p]] = p

IInv == TypeOK /\ OneIdentity /\ TempInv /\ PartialInv /\ LockInv /\ FlockInv
=============================================================================

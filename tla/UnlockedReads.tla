---------------------------- MODULE UnlockedReads ----------------------------
(***************************************************************************)
(* A reader without a lock beside the writers of a key directory: it opens *)
(* its files one after the other, so renewals and rotations may fall       *)
(* between any two of them.  Two calls read like this: read_principal,     *)
(* always, and load_verified in a directory that is read-only for its      *)
(* process, where lock_shared returns None.                                *)
(***************************************************************************)
EXTENDS KeyDir

VARIABLES
    call,       \* the call that runs, or "none"
    todo,       \* the files it has still to open, in order
    got,        \* what it has read
    answer,     \* what the last call returned: "none", "ok" or an error
    sound,      \* history variable: the identity verified all along this call
    moments     \* history variable: the contents of the files during this call

reader == <<call, todo, got, answer, sound, moments>>

\* Mutant: the delegation is read after the rotations it is checked against.
FilesOfDelegationLast(c) == IF c = "read_principal"
                            THEN <<"id", "rotations", "deleg">>
                            ELSE <<"root", "device", "id", "history", "rotations", "deleg">>

\* load_files and read_principal open their files in this order.
FilesOf(c) == IF c = "read_principal"
              THEN <<"id", "deleg", "rotations">>
              ELSE <<"root", "device", "deleg", "id", "history", "rotations">>

\* Mutant: the delegation is checked against the genesis, not the head.
CheckAgainstGenesis(d) ==
    CASE ~IsChain(d.id, d.rotations) -> "PrincipalGenesis"
      [] d.deleg.root # d.id         -> "SigningRoot"
      [] OTHER                       -> "ok"

\* The checks of read_principal, in their order.  The genesis is the one the
\* delegation names: this directory holds one identity only.
Check(d) ==
    CASE ~IsChain(d.id, d.rotations)                -> "PrincipalGenesis"
      [] d.deleg.root # HeadOf(d.id, d.rotations)   -> "SigningRoot"
      [] OTHER                                      -> "ok"

\* Mutant: the chain need not end at the root on disk.
CheckLoadedAnyHead(d) ==
    CASE ~IsChain(d.id, d.rotations)            -> "PrincipalGenesis"
      [] ~Matches(d)                            -> "Device"
      [] OTHER                                  -> "ok"

\* verify_identity.
CheckLoaded(d) ==
    CASE ~IsChain(d.id, d.rotations) \/ HeadOf(d.id, d.rotations) # d.root
                                     -> "PrincipalGenesis"
      [] d.deleg.root # d.root       -> "SigningRoot"
      [] ~Matches(d)                 -> "Device"
      [] OTHER                       -> "ok"

IsVerified == Committed /\ Verified(disk)

\* read_principal of a directory without agent_id: Ok(None).
Call(c) ==
    /\ call = "none"
    /\ IF c = "read_principal" /\ ~Committed
       THEN /\ answer' = "none"
            /\ UNCHANGED <<call, todo, got, sound, moments>>
       ELSE /\ call' = c
            /\ todo' = FilesOf(c)
            /\ got' = Blank
            /\ sound' = IsVerified
            /\ moments' = {disk}
            /\ answer' = answer

Done(a) == /\ call' = "none"
           /\ todo' = <<>>
           /\ answer' = a
           /\ got' = Blank
           /\ sound' = FALSE
           /\ moments' = {}

\* What the reader has read after the next file.  A missing history or
\* rotations file reads as empty, which is what it is on `disk`.
ReadNext == [got EXCEPT ![Head(todo)] = disk[Head(todo)]]

Verdict(c, d) == IF c = "read_principal" THEN Check(d) ELSE CheckLoaded(d)

Open ==
    /\ call # "none"
    /\ IF Head(todo) \in Mandatory \ files THEN Done("Missing")
       ELSE IF Len(todo) = 1 THEN Done(Verdict(call, ReadNext))
       ELSE /\ got' = ReadNext
            /\ todo' = Tail(todo)
            /\ UNCHANGED <<call, answer, sound, moments>>

Read == /\ Open \/ \E c \in {"read_principal", "load_verified"} : Call(c)
        /\ UNCHANGED vars

Others == /\ Next
          /\ sound' = (sound /\ IsVerified')
          /\ moments' = IF call = "none" THEN {} ELSE moments \cup {disk'}
          /\ UNCHANGED <<call, todo, got, answer>>

ReadInit == /\ Init
            /\ call = "none"
            /\ todo = <<>>
            /\ got = Blank
            /\ answer = "none"
            /\ sound = FALSE
            /\ moments = {}

ReadSpec == ReadInit /\ [][Read \/ Others]_<<vars, reader>>

-----------------------------------------------------------------------------

Returns == call # "none" /\ call' = "none"

\* Reading without the lock costs nothing while the identity is in order: if
\* a locked load_verified would have accepted the directory at every moment of
\* the call, however often the delegation was renewed, the call accepts it.
NoSpuriousError == [][Returns /\ sound => answer' = "ok"]_<<vars, reader>>

\* The files are read at different moments, and read_principal never opens the
\* root file; yet the root that signed the delegation of an accepted read is
\* the root installed when the call returns: not one rotated away between its
\* reads, and not a pending one.
AcceptedRootIsInstalled ==
    [][Returns /\ answer' = "ok" => ReadNext.deleg.root = disk.root]_<<vars, reader>>

\* What an unlocked call accepts is what a locked one would have read at some
\* moment of it, in every file it opens but the history; the history is of that
\* moment or of a later one, so it lists whatever was retired by then.
AcceptedIsAMoment ==
    [][Returns /\ answer' = "ok" =>
          \E m \in moments :
              \A i \in 1..Len(FilesOf(call)) :
                  LET f == FilesOf(call)[i]
                  IN  IF f = "history"
                      THEN \A k \in Keys : ReadNext.history[k] <= m.history[k]
                      ELSE ReadNext[f] = m[f]]_<<vars, reader>>

\* The README's crash states: an unfinished rotate_root makes read_principal
\* fail with PrincipalGenesis until it is run again.
UnfinishedRotationIsPrincipalGenesis ==
    Committed /\ Pending(disk) /\ holder = NoProc => Check(disk) = "PrincipalGenesis"

-----------------------------------------------------------------------------
(* The inductive invariant, on top of KeyDir's.                            *)

\* The files the running call has opened.
Opened == {FilesOf(call)[i] : i \in 1..(Len(FilesOf(call)) - Len(todo))}

\* Whoever found agent_id reads a committed directory.
CallInv ==
    /\ got \in Contents
    /\ moments \subseteq Contents
    /\ call \in {"none", "read_principal", "load_verified"}
    /\ call # "none" =>
          /\ \E n \in 1..Len(FilesOf(call)) :
                todo = SubSeq(FilesOf(call), n, Len(FilesOf(call)))
          /\ disk \in moments
          /\ call = "read_principal" \/ "id" \in Opened => Committed
          /\ "id" \in Opened => got.id = disk.id

\* Neither root, device nor chain can change without the identity failing to
\* verify in between, and the delegation only in what Verified does not see.
SoundInv ==
    call # "none" /\ sound =>
        /\ IsVerified
        /\ "root" \in Opened => got.root = disk.root
        /\ "device" \in Opened => got.device = disk.device
        /\ "deleg" \in Opened => /\ got.deleg.root = disk.deleg.root
                                 /\ got.deleg.device = disk.deleg.device

\* Roots are installed in the order they are generated, and a root that was
\* read was installed, by init at least.
RootInv ==
    /\ call = "load_verified" /\ "root" \in Opened =>
          /\ got.root <= made
          /\ IF "root" \in files
             THEN got.root <= disk.root
             ELSE \A p \in Procs : op[p] = "init" => got.root < buf[p].root
    /\ call = "read_principal" /\ "deleg" \in Opened => got.deleg.root <= disk.root

\* An init under way, or left behind, does not change what it has written.
LeftoverInv ==
    call = "load_verified" /\ ~Committed /\ "root" \in Opened /\ "root" \in files
    /\ got.root = disk.root =>
        /\ "device" \in Opened => "device" \in files /\ got.device = disk.device
        /\ "deleg" \in Opened => "deleg" \in files /\ got.deleg = disk.deleg

\* The chain is the one it was since the root (or the delegation it signed)
\* was read: a pending rotation is only replaced, or installed.
Settled(root) == Committed /\ disk.root = root /\ ~Pending(disk)

\* m is the moment load_verified would have read with this delegation.
Fits(m, deleg) ==
    /\ m.root = got.root /\ m.device = got.device /\ m.deleg = deleg
    /\ m.id = disk.id /\ m.rotations = disk.rotations
    /\ \A k \in Keys : /\ disk.history[k] <= m.history[k]
                       /\ "history" \in Opened => got.history[k] <= m.history[k]

\* The delegation that was read, or would be read now.
Delegation == IF "deleg" \in Opened THEN got.deleg ELSE disk.deleg

MomentInv ==
    /\ call = "load_verified" /\ "device" \in Opened /\ Settled(got.root)
       /\ Delegation.device = got.device =>
          \E m \in moments : Fits(m, Delegation)
    /\ call = "read_principal" /\ "deleg" \in Opened /\ Settled(got.deleg.root) =>
          \E m \in moments : /\ m.id = disk.id /\ m.deleg = got.deleg
                             /\ m.rotations = disk.rotations

ReaderInv == CallInv /\ SoundInv /\ RootInv /\ LeftoverInv /\ MomentInv
=============================================================================

# Verification of identity-crypto

TLA+ models of the `identity-crypto` workspace, TLC runs on small instances of
them, and theorems checked by TLAPS. Paths are relative to `src/`, the root of
the repository.

## 1. The system

The workspace has a pure core crate (`src/`) and a crate that stores keys on
disk (`identity-keyfile/`).

| Part | Source | State | Operations |
| --- | --- | --- | --- |
| key directory | `identity-keyfile/src/keys.rs`, `files.rs` | six files, a lock file, the `IdentityKeys` values of the processes | `init`, `save`, `load`, `load_verified`, `DeviceKeys::load`, `renew`, `rotate_device`, `rotate_root`, `renew_if_due` |
| creation | `keys.rs` `create_or_load` | directories and lock files as inodes | `create_or_load`, `clean_dead_temps`, `load_existing` |
| unlocked reads | `keys.rs` `read_principal`, `files.rs` `lock_shared` | what a call has read | `read_principal`; `load`, `load_verified` in a read-only directory |
| file replacement | `files.rs` `write_private` | temporary files, renames, what the disk has | open, write, fsync, rename, fsync of the directory |
| root chains | `src/authority.rs` | none (values) | `rotation_roots`, `AuthorityChain`, `verify_signed_document` |
| accepted chains | `src/accepted.rs` | the set a receiver persists | `check_successor`, `to_proto`, `from_proto` |
| registry | `src/registry.rs` | none (values) | `check_registry` |
| resolver | `src/resolver.rs` | a document's entries, peer revocations | `from_document`, `with_peer_revocation`, `is_frozen`, `is_revoked`, `resolve_name` |
| verification | `src/verify.rs` | none; the caller keeps results | `verify_chain`, `verify_signed_message`, `verify_signed_message_trusted_devices`, `verify_approval`, `verify_peer_revocation` |
| builders | `src/keys.rs` | none | `delegate_device`, `rotation`, `renewal_due`, ... |
| sessions | `src/session.rs` | the credential a caller holds | `mint_session`, `sign_message` |
| encodings | `src/transcripts.rs`, `public_key.rs`, `principal.rs`, `signature.rs`, `wkt.rs` | none | byte layouts, parsing, P-256 |

How they meet: an owner's processes share a key directory and nothing else but
the flock. What they load they publish: the authority copies root and rotations
into an entry of its registry and signs the document. A receiver checks the
document against the authority chain it has persisted, builds a `Resolver` from
it, checks that against its `AcceptedChains`, persists both, and verifies
messages with it. Peer revocations are verified with one resolver and applied
to it later.

What is hard:

* **Concurrency.** Several processes on one directory, an advisory lock taken
  through a path, readers that take no lock, decisions made before the lock
  (`renew_if_due` signs, `now` is read, `create_or_load` lists the directory).
* **Crashes.** Every operation of the key directory writes several files, and
  the receiver writes two things and then changes a third. There is no journal;
  each order of writes is chosen so that what is left behind can be told. Below
  that, one write is six system calls, and power loss may take back a rename.
* **Order.** Documents arrive late, twice and out of order; a principal can be
  removed and added again, so a receiver compares with what it remembers, not
  with the document it has.
* **Time.** Two clocks, windows, skew, renewal before expiry, saturation at the
  ends of `i64`, and answers that are asked again later for an earlier time.

## 2. Modules

| Module | Models | Extends / instances |
| --- | --- | --- |
| `KeyDir` | the key directory, one action per file written or read | |
| `KeyDirInductive` | the inductive invariants `IInv`, `HeldInv`, `SignedInv` and `LockedInv` | `KeyDir` |
| `KeyDirProofs` | theorems about `KeyDir` | `KeyDirInductive`, TLAPS |
| `RootLine` | abstract: a root line only grows at its end | |
| `KeyDirRootLine` | the refinement mapping of the directory to `RootLine` | `KeyDir`, instance of `RootLine` |
| `CreateOrLoad` | `create_or_load` over directory and lock-file inodes; its `IInv` | |
| `CreateOrLoadProofs` | theorems about `CreateOrLoad` | `CreateOrLoad`, TLAPS |
| `UnlockedReads` | `read_principal` and an unlocked `load_verified` beside the writers; its `ReaderInv` | `KeyDir` |
| `DurableWrite` | `write_private`: system calls, their failures, kills, power loss; its `IInv` | |
| `DurableWriteProofs` | theorems about `DurableWrite` | `DurableWrite`, TLAPS |
| `Receiver` | documents, chains, `check_successor`, persistence; its `IInv` | instance of `RootLine` |
| `ReceiverProofs` | theorems about `Receiver` | `Receiver`, TLAPS |
| `Publish` | key directory and receiver together | `KeyDirRootLine`, instance of `Receiver` |
| `OutsideProofs` | theorems about what others see of a key directory: `UnlockedReads`, the refinement of `RootLine`, `Publish` | `UnlockedReads`, `Publish`, `KeyDirProofs` |
| `Registry` | `check_registry` and the resolver's questions, rule by rule | |
| `Verify` | verification over time and across documents; its `IInv` | `Registry` |
| `VerifyProofs` | theorems about `Verify` | `Verify`, TLAPS |
| `Sessions` | a signer and a verifier with two clocks at the width of the integers; its `IInv` | |
| `SessionsProofs` | theorems about `Sessions` | `Sessions`, TLAPS |
| `Transcript` | the bytes of the thirteen signed formats | |
| `TranscriptProofs` | theorems about `Transcript` | `Transcript`, TLAPS |
| `MC*` | the instances TLC checks | one of the above, mostly TLC |

### Correspondence with the code

**KeyDir.** `disk` and `files` are the contents and the existence of the six
files; `holder` and `readers` are the flock; `mem[p]` is the `IdentityKeys`
value process p holds; `buf[p]`, `op[p]`, `at[p]` are the locals of a call,
`pc[p]` the place in it, named after the file about to be written. A call
starts in `StartInit`, `Start`, `StartSave` or `StartRenewIfDue`, with what the
code does before the lock (`init` and `renew_if_due` have signed by then, and
every `now` is of that moment). `save` writes what the process holds into a
directory in any state; `InitElsewhere` gives it a value that was made in another
directory, so that the directory may be new, half made or another agent's.
`LockExclusive` is the lock together with the
reads and the computation under it, which nobody can observe or disturb; then one
action per `rename`, in the order of the code (`NextFile`). `IoError` ends a
call at any point, before or after a rename; `Crash` also empties `mem`. Loads
read in two steps. Keys are numbers, handed out in the order they are
generated; a signature is the number of the key that made it; the encryption
half of a duo goes with its signing half. `Ttl` is legal: a refused one ends the
call before anything is written, as `IoError` does. `left` records when a device
was replaced on disk and is read by properties only.

**CreateOrLoad.** `dir` is the directory the path resolves to; `content`,
`lock` say what is in each directory ever made; `excl`, `shared`, `fd` are
flocks per lock-file inode. `Look` / `Unlink` / `Rmdir` are the lock-only branch
of lines 469-497, `Rename` is rename(2) onto nothing, onto an empty directory or
into a collision. An identity is the number of the directory it was made in;
`keys[p]` is the value p's `init` returned, which `Created` hands out.

**UnlockedReads.** `Call` starts a read, `Open` opens the next file, interleaved
with every step of `KeyDir`: `FilesOf` is the order in which the code opens
them. `read_principal` never takes the lock; `load_verified` reads without it where
`lock_shared` returns `None`, because the directory is read-only for the process.
`moments` are the contents the files had during the call, read by properties only.

**DurableWrite.** One action per system call of `write_private`, each of which may fail
where the code propagates an error; `job` is what an operation has still to write. `log`
is the set of files renamed into place, each with the number of its call, and the file a
name stands for is that of the latest call; `durable` are the calls whose renames a
power loss cannot take. `PowerLoss` keeps any subset of the others, and loses the data
of what was not synced. A temporary file knows by whom and for which call it was made,
so that the same name may stand for a leftover.

**Receiver.** `chain` and `accepted` are what `src/README.md` and the doc
comments tell the receiver to persist, `resolver` what it uses. `Receive` is
`verify_signed_document`, `from_document` and `check_successor` on one document,
all pure, the result in `latest`; `PersistChain`, `PersistAccepted` (in either
order) and `Adopt` are the receiver's own steps, external to the code, and
`Restart` reads the persisted proto back through `from_proto`. A principal's id
is its genesis key. The order of the writes is the receiver's; the model
allows both.

**Publish.** `Deliver(p)`: the value p holds becomes an entry and goes through
the receiver's checks of module `Receiver`.

**Registry.** One operator per group of rules of `check_registry`: `CheckIds`,
`CheckNames`, `CheckAuthority`, and per entry `CheckFields`, `CheckRoots`,
`CheckDevices`, `CheckRevocations`. `KeysOf` is what an entry puts into the `KeySet`, a
key for each use, and `CheckKeys` that none is put in twice. Entries, devices and
revocations are sequences as in the document, because a repetition is one of the things
to refuse; `VerifiedEntry` turns them into sets once the checks have passed.

**Verify.** `resolver` has the peer revocations applied to the document in
force; `waiting` are those the caller has, which may be applied and kept, because
`VerifiedPeerRevocation` can be cloned, and applied again once the document has
been adopted again; `kept` is a message
accepted with `When::Live` and the time and document of that moment, which
stands for both the recorded acceptance and the `VerifiedChain` an approval is
shown for. `When::Accepted` appears in `HistoryStands`, as `VerifyChain` at an
earlier time. Any document may follow any: whether it may is `Receiver`'s
subject. A document that arrives is put through `FromDocumentSucceeds` first.

**Sessions.** `signer` and `verifier` are two clocks, at most `Drift` apart; the
verifier's advances, the signer's may be set forward and back. `Renew` is
`delegate_device` over `[now, now + ttl]`, `MintSession` and `SignMessage` are the
methods of the same name with whatever principal, window and time the caller
passes. `VerifySignedMessage` and `VerifyTrusted` are the two verifiers with
`When::Live`, in the saturating arithmetic of the code (`Clamp`); the spans are computed
without saturation, as the code's `i128` is. `prompt` says that the caller did what
`renewal_due` is for, and `sent` when: they are not in the message.

**Transcript.** One operator per `*_transcript` function, built from operators for the
methods of `Enc`: `Var`, `Fixed`, `Key`, `Opt`, `List`, `Number`. Each gives bytes, or
`Refused` where the code returns an error; `BigEndian` is `to_be_bytes`, in two's
complement. `Input` has what the functions can be given at all, with strings and lists
of any length, absent fields included, and integers of their widths; what they refuse of
it is in the operators. It has the fields no transcript covers too, but for the
`signature` of a record, which is what the transcript is for. `Sign` takes any input of
`Inputs` that has a transcript; `Verify` accepts any input with the same one, which is
what `verify_p256` comes to when signatures are ideal. Two things in `Input` are not
covered, and `Covered` leaves them out: of the signer's chain in a message, everything
but the principal and the session key; and the `signer_rotations` of a document. Both
are made of records that have signatures of their own. The same message is good under
another chain, and the same document with other rotations, as far as this signature
goes; `SignatureCoversOne` says that nothing else is.

## 3. Runs

| Run | Checks | Shows |
| --- | --- | --- |
| `keydir_devices` | `RetiredKeysFailClosed`, `RenewRepairs` | no device key is lost or lives on; `renew` repairs |
| `keydir_locks` | `CommitMarker`, `SnapshotReads`, `LockReleased` | two `init`s, and `save`s into a directory that is new, half made or foreign: `agent_id` stands in a complete one only, a locked read is of one moment, and every way out of a call lets go of the lock |
| `unlocked_reads` | `NoSpuriousError`, `AcceptedRootIsInstalled`, `AcceptedIsAMoment` | reading without the lock neither fails wrongly nor accepts what never was |
| `unlocked_reads_pending` | `UnfinishedRotationIsPrincipalGenesis` | violated: see the findings |
| `create_starts` | `OneIdentity`, `NothingOrComplete`, `LockExcludes` | one identity per path, never half of one, and a flock that excludes unless the start is empty or lock-only |
| `create_lock_only` | `OneWriter` | violated: see the findings |
| `receiver` | `NoForkNoRewind`, `RetiredRootsStayRetired`, `RestartForgetsNothing`, `LatestIsRedeliverable`, `ImplementsRootLine` | order, loss, repetition and crashes never rewind or fork a chain |
| `publish` | `TypeOK`, `ChainReachesRoot`, `HeldRootsArePrefix`, `DelegationWritesAreCurrent`, `ImplementsRootLine`, `ReceiverFollowsOwner` | rotations survive crashes, failures, retries and stale processes, and the owner's crashes never lock it out at a receiver |
| `durable` | `FilesAreWhole`, `AcknowledgedSurvives`, `OneRenameAtRisk`, `CollisionsAreOfTheDead` | one write is atomic and durable, as `KeyDir` takes it to be, with one named exception |
| `verify` | `HistoryStands`, `PeerRevocationsFitTheDocument`, `NothingCutIsAccepted`, `ApprovedAsBound`, `NamesAreUnambiguous`, `CutsLast` | peer revocations, approvals and names across time and documents |
| `sessions` | `TypeOK`, `PromptIsAccepted`, `UnrenewedGoesDark`, `GrantedIsUsable`, `WindowsAreExact`, `TrustedSpeaksForItsOwner` | renewal by margin leaves no gap, and no renewal means an end |
| `transcripts` | `SignatureCoversOne` | a signature is good for one input of one kind, a message's chain and a document's rotations excepted |

### Bounds

* `Procs`: two in the key directory. Under one lock, a third process can only
  do what a second one does at another time; two are enough for a stale value,
  a reader and a writer, and a queue behind a crash. Three in `CreateOrLoad`,
  where the races are three-way: one looks, one unlinks, one renames. One writer
  in `UnlockedReads`: the lock lets one write at a time, so to a reader two
  writers are one that does the calls of both; it holds no lock itself.
* `MaxKeys`: every key generated counts, also by attempts that die. Five in
  `publish` give an `init` (two keys) and three rotations, so a pending
  rotation, its replacement and one more; four in `keydir_devices` two device
  rotations after `init`, and four in `unlocked_reads` two rotations of either kind.
  Four in `keydir_locks` are two identities, whose `init`s may run at the same time
  or one of which a `save` brings from elsewhere, or one identity and two rotations
  of its device.
* `MaxTime`, `Ttl`, `Margin`: in `keydir_devices` the clock has three seconds
  and a delegation lives for one, so that a call can wait across a tick, be
  retried in a later second and expire. In the other runs of the directory time
  plays no part: `MaxTime = 0`, and where `renew_if_due` is called and nothing
  expires, `Margin = Ttl` keeps it due.
* `MaxRotations` with `Successors`: chains of up to three roots, over two
  successor keys, have every prefix, fork and cycle. One principal beside the
  authority is enough for TLC, because the theorems of `ReceiverProofs` state the
  same properties for any number of them.
* `Documents`, `Messages`, `Approvals`, `Revocations` of `MCVerify` are one
  fleet with a case of each rule: three documents that are taken and twenty-eight
  that are refused, each of which breaks one rule of `check_registry` or of the
  carrier and is refused for it.
  A human of the first document is a service in the second, and one that is refused
  would leave it its devices.
  `MaxPeer` = 2 revocations in the document or on their way: one that freezes and
  one that revokes a key, in either order. `Skew` and a clock of a few seconds put
  both ends of every window in reach.
* `MinTime..MaxTime` of `MCSessions` is five bits wide. `Seconds` are at both
  ends, where everything saturates, and around 0, which the code treats as no
  expiry. `Skew` = 2 is exactly `Drift + Delay`, `Margin` = 1 the smallest that
  `MarginAssumption` allows. One message per behaviour: nothing the receiver does
  depends on an earlier one.
* `MaxWrites` = 3 calls and `MaxTurns` = 4 starts of processes in `DurableWrite`,
  with two process ids: an operation of two files and a later one, a process id
  used again after a kill, and again after a power loss.
* `Transcript` runs in base 4, with one-byte lengths and two-byte numbers:
  strings have 0, 1, 2 or 5 bytes, the last not fitting a length and congruent
  to 1. Strings, nonces and numbers are made of the bytes that lengths and marks
  are made of: with any one of them left out of an encoder (a length, a mark, a
  count, the check of a fixed length) two inputs of this set collide, which is how
  it was chosen. Messages come under several chains, and documents with and without
  rotations. The theorem about `Transcript` has no bound of this kind.
* `MaxDirs`, `MaxLocks` of `CreateOrLoad`: inodes ever made. A process that
  would need one more stops there. With the directory at the start, three leave
  two for processes that `init` in one of their own; the third process finds what
  they left, cleans up after them, loads or writes.

Symmetry is declared on processes and keys where nothing orders them; the run
with a liveness property has none.

### Fairness

`FairSpec` of `KeyDir` asks weak fairness of `Run(p)` only: the steps of a
process that has its lock, which wait for nothing. Nothing makes a process call
an operation, and flock promises no order among waiting processes, so nothing
is assumed about getting the lock, and no property says that a waiting process
gets it.

Deadlock is checked in every run but `durable`, which ends when its calls and
processes are used up.

### Findings

1. `create_lock_only`. `create_or_load` decides from a listing that the
   directory holds nothing but `.lock`, and unlinks it (`keys.rs:486-487`) without
   opening or locking it. In between, another process may have finished its own
   `create_or_load`, and a third be about to rotate under the lock file that is
   then unlinked. The next writer makes a new `.lock`, and both hold an
   exclusive flock, on different inodes. The README of the crate says (lines 98-99)
   that the operations that write take the exclusive flock for the whole operation,
   and the starting point is a documented one (lines 59-60), tested by
   `concurrent_create_or_load_from_a_lock_only_directory_agrees`. `create_starts`
   shows that this branch is the only way to it (`LockExcludes`; an empty directory
   becomes a lock-only one when somebody opens its lock), and that it never makes a
   second identity.
2. `unlocked_reads_pending`. In the directory an unfinished `rotate_root`
   leaves behind, `read_principal` never looks at the root on disk; it
   compares the signer of the delegation with the end of the chain and returns
   `SigningRoot` (`keys.rs:670`), where the README (lines 116-117) says
   `PrincipalGenesis`. It refuses either way.

## 4. Proofs

`KeyDirProofs` proves, for any processes, bounds and sets of calls (under the
named assumptions of `KeyDir`):

| Theorem | Statement |
| --- | --- |
| `TypeCorrect` | `Spec => []TypeOK` |
| `LockedInvariance` | `Spec => []LockedInv` |
| `CommitMarkerHolds` | `Spec => []CommitMarker` |
| `SnapshotReadsHolds` | `Spec => []SnapshotReads` |
| `RenewRepairsHolds` | `Spec => []RenewRepairs` |
| `Invariance` | `NoSave => (Spec => []IInv)` |
| `ChainReachesRootHolds` | `NoSave => (Spec => []ChainReachesRoot)` |
| `RetiredKeysFailClosedHolds` | `NoSave => (Spec => []RetiredKeysFailClosed)` |
| `DelegationWritesAreCurrentHolds` | `NoSave => (Spec => DelegationWritesAreCurrent)` |
| `HeldInvariance` | `NoSave => (Spec => []HeldInv)` |
| `HeldRootsArePrefixHolds` | `NoSave => (Spec => []HeldRootsArePrefix)` |

The first half needs nothing but the lock. `LockedInv` says what holds although `save`
may put any value over the directory, old or of another identity: a directory with
`agent_id` is complete (`MarkerInv`, from which `StageInv` has a call that is writing
know which files it has written), because `agent_id` is the last file that `init` and
`save` write, and neither removes one, whatever they go over; what a load has read is
what is on disk (`ReadInv`); and a `renew` or `rotate_device` has on disk what it is
going to return, but for the files it has still to write (`RepairInv`).

`NoSave` is needed for the other half because `save` overwrites the directory with
a value of any age and checks nothing, as its doc comment says; with it, the chain,
the devices and the delegation on disk can be anything a process ever held.

None of the properties is inductive: each speaks of the disk, and what is about
to be written comes from a buffer. `IInv` adds the three things that make it so.
`LockInv`: whoever is between two writes holds the lock, and no reader is
inside. `DirInv`: the directory is in order, in a form a step can be checked
against - `Chained` says that roots grow along the chain, which gives
distinctness, and `DevicesOK` that a device replaced earlier is listed, is
older than `made` and is not the current one. `ProcInv(p)`: what p will write was
computed from what is on disk now - a chain with one more rotation
(`RotateRootInv`), a history that lists the current device (`RotateDeviceInv`), a
delegation of the root and device on disk (`DelegationInv`), an identity that
agrees with itself on a directory with nothing else in it (`InitInv`,
`ProgressInv`). The proof has a lemma per action; `WriteFrame` says that the
others are not disturbed, since nobody else is about to write. `TypeCorrect`
comes first and gives every lemma its types. The one fact about data is
`RotationExtends`: appending to `Unpended(disk)` gives a chain, whether or not a
pending rotation had to go.

`HeldRootsArePrefix` speaks of values in memory, which nothing keeps in step with the
directory. `HeldInv` says of every value a process holds, or is about to be handed,
that it is `Behind` the directory. What makes that last is that `rotate_root` only
ever replaces the pending rotation: the chain it is about to write is
`Unpended(disk)` and one rotation more. A value loaded between the two writes has the
pending rotation, which a retry throws away; hence the property is about the roots
without it.

`OutsideProofs` proves what others may make of those roots:

| Theorem | Statement |
| --- | --- |
| `ImplementsRootLineHolds` | `NoSave => (Spec => ImplementsRootLine)`, the refinement of `RootLine` by `KeyDir` |
| `ReceiverFollowsOwnerHolds` | `NoSave => (PublishSpec => []ReceiverFollowsOwner)` |

For the refinement, under `IInv` each step either leaves the confirmed roots alone or
adds the one that the root file now has; everything but the last write of `rotate_root`
and the last write of `init` is a stutter, the write of the rotations included. For
the receiver: what it accepts has a current root at the end of the rotations, so a
value with a pending rotation is refused and every other one gives the confirmed
roots of its holder, a beginning of the owner's by `HeldInv`; and the owner's only
grow.

`OutsideProofs` also proves, beside any number of writers, all that the run
`unlocked_reads` checks:

| Theorem | Statement |
| --- | --- |
| `ReaderInvariance` | `NoSave => (ReadSpec => [](IInv /\ HeldInv /\ SignedInv /\ ReaderInv))` |
| `NoSpuriousErrorHolds` | `NoSave => (ReadSpec => NoSpuriousError)` |
| `AcceptedRootIsInstalledHolds` | `NoSave => (ReadSpec => AcceptedRootIsInstalled)` |
| `AcceptedIsAMomentHolds` | `NoSave => (ReadSpec => AcceptedIsAMoment)` |

A reader without a lock sees files of different moments, and is right only because
of the order in which writers write and readers read. `SignedInv` has what it
relies on in the writers: roots are installed in the order they are generated, and
no delegation is signed by a root that is yet to be installed. So `RootInv`: the root
that was read (or the one that signed the delegation that was read) is not younger
than the one installed. The call accepts only if that root is the end of the chain,
which it reads later and which never ends before the root installed; then both are
the same and nothing is pending (`Settled`). `MomentInv` says that while the
directory stands like that, one of the moments of the call had everything that was
read; before `agent_id` is there it is `LeftoverInv` that keeps what a half made
directory had. `SoundInv` is the other direction: while the identity is in order
throughout, neither root, device nor chain can change, because each of the two
rotations leaves it out of order between its writes. The lemmas `CommittedStep` and
`UncommittedStep` say what one step of any writer can do to the six files;
everything about the reader follows from them, and not from the writers' code.

`DurableWriteProofs` proves, for any processes, process ids, operations and numbers of
calls, all that the run `durable` checks:

| Theorem | Statement |
| --- | --- |
| `Invariance` | `Spec => []IInv` |
| `FilesAreWholeHolds` | `Spec => []FilesAreWhole` |
| `AcknowledgedSurvivesHolds` | `Spec => []AcknowledgedSurvives` |
| `OneRenameAtRiskHolds` | `Spec => []OneRenameAtRisk` |
| `CollisionsAreOfTheDeadHolds` | `Spec => []CollisionsAreOfTheDead` |

`TempInv` ties a temporary file of a process that runs to its process id and to a
number its counter has passed, which the next name cannot be; a restarted counter
comes with a process id that no running process has. It also says how far the
file of the call at hand is, so that `LogInv` can say that whatever was renamed is
whole and synced. `LogInv` has one rename in a call, and none at risk but that of
the call at hand unless a sync of the directory is missing. The assumption is
`DurableAssumption`.

`ReceiverProofs` proves, for any principals, keys, lengths of chains and numbers
of documents, all that the run `receiver` checks, and type correctness:

| Theorem | Statement |
| --- | --- |
| `Invariance` | `Spec => []IInv` |
| `TypeCorrect` | `Spec => []TypeOK` |
| `NoForkNoRewindHolds` | `Spec => []NoForkNoRewind` |
| `RestartForgetsNothingHolds` | `Spec => []RestartForgetsNothing` |
| `LatestIsRedeliverableHolds` | `Spec => []LatestIsRedeliverable` |
| `RetiredRootsStayRetiredHolds` | `Spec => RetiredRootsStayRetired` |
| `ImplementsRootLineHolds` | `Spec => ImplementsRootLine`, the refinement of `RootLine` |

`NoForkNoRewind` speaks of resolvers long gone; `ShownInv` ties each of them to
what is persisted, which only grows. `LatestInv` and `TodoInv` say what a document
under way and the two writes have to do with each other: whatever was written
before a crash, the document still follows it. `RoundTrips` is there because a
restart reads the chains back from rotations alone. The lemma that carries the
weight is `UpdatedGrows`: the set `check_successor` returns extends the one before,
round-trips, and says what the entries say, keyless ones included. The
assumption is `KeysAssumption`: the authority is no principal of its own registry.

`SessionsProofs` proves, for any width, lifetimes, skew and margins, all that the
run `sessions` checks:

| Theorem | Statement |
| --- | --- |
| `Invariance` | `Spec => []IInv` |
| `TypeCorrect` | `Spec => []TypeOK` |
| `PromptIsAcceptedHolds` | `Spec => []PromptIsAccepted` |
| `UnrenewedGoesDarkHolds` | `Spec => []UnrenewedGoesDark` |
| `GrantedIsUsableHolds` | `Spec => []GrantedIsUsable` |
| `WindowsAreExactHolds` | `Spec => []WindowsAreExact` |
| `TrustedSpeaksForItsOwnerHolds` | `Spec => []TrustedSpeaksForItsOwner` |

They rest on `WidthAssumption` (the constants are integers of the width),
`DevicesAssumption` (a receiver keeps the device lists apart by author, and lists
the device for its owner only) and `MarginAssumption` (`Drift + Delay` is within
the skew and, less one, within both margins). The last one is not in the code: it is
what whoever sets the margins has to see to. `IInv` keeps, for each delegation,
that it was signed within `Drift` of the last renewal, and for a prompt message,
what its windows leave in terms of the moment it was sent.

`CreateOrLoadProofs` proves, for any number of processes and inodes, all that
the run `create_starts` checks:

| Theorem | Statement |
| --- | --- |
| `Invariance` | `Spec => []IInv` |
| `TypeCorrect` | `Spec => []TypeOK` |
| `OneIdentityHolds` | `Spec => []OneIdentity` |
| `LockExcludesHolds` | `Spec => []LockExcludes` |
| `NothingOrCompleteHolds` | `Spec => NothingOrComplete` |

`OneIdentity` says that who has an identity has the one at the path, and needs that
an identity at the path is never replaced. Hence `TempInv`: a temporary directory
is one process's own until it is renamed, and whole by then, and rename(2) puts it
only onto nothing or onto an empty directory. The one operation that takes something
away from the path is the clearing of a lock-only directory; `PartialInv` says that
a half made directory keeps its lock file while nobody is clearing, so the renames
and the rmdir do not find it empty. `LockInv` is what `LockExcludes` hangs on:
from every start but the empty and the lock-only one nobody ever clears, so everyone
who has a lock file open has the one at the path, and the kernel's flock (`FlockInv`)
excludes. The first finding is the reason for the exception. The assumptions are
`ProcsAssumption`, `StartsAssumption` (the five contents a path can have at the
beginning) and `BoundsAssumption`.

`VerifyProofs` proves, for any documents, messages, approvals and revocations and
any clock, all that the run `verify` checks:

| Theorem | Statement |
| --- | --- |
| `Invariance` | `Spec => []IInv` |
| `PeerRevocationsFitTheDocumentHolds` | `Spec => []PeerRevocationsFitTheDocument` |
| `HistoryStandsHolds` | `Spec => []HistoryStands` |
| `ApprovedAsBoundHolds` | `Spec => ApprovedAsBound` |
| `CutsLastHolds` | `Spec => CutsLast` |
| `NothingCutIsAcceptedHolds` | `Spec => NothingCutIsAccepted` |
| `NamesAreUnambiguousHolds` | `Spec => []NamesAreUnambiguous` |

`IInv` ties the resolver to the document it came from and each peer revocation, in force
or waiting, to the document it names. The kept message is tied to its document without
peer revocations, because they are dropped when that document comes again:
`VerifiesUnderFewer` says that whatever verifies with some peer revocations verifies
with fewer, and that revocations of later make no difference to an earlier time.
`NothingCutIsAccepted` needs that the binding `device_current` finds is the only one
with that device key: otherwise the host it looks at need not be the one that was
frozen. `OneBinding` gets that from the rule of `check_registry` that no key occurs
twice (`CheckKeys`), and `VerifiesOnWhatStands` follows the two chains through it.
`ApprovedAsBound` goes back to the document in force in the same way: that the principal
is still a HUMAN follows from its having devices (`CheckFields`), that the current root
delegated both keys from `CheckDevices`, and that no other binding has either of them
from `CheckKeys` (`KeysBoundOnce`). The assumptions are `DigestAssumption`, that an id,
which the code computes as a digest of what is signed, stands for one document;
`SecondsAssumption`, that times are whole seconds; and `BoundsAssumption`.

`TranscriptProofs` proves, for every base, every width and length, and every set of
inputs of the thirteen kinds, what the run `transcripts` checks:

| Theorem | Statement |
| --- | --- |
| `OneInput` | two inputs with the same transcript, if it is not refused, have the same `Covered`: they differ in a message's chain or a document's rotations, if at all |
| `Invariance` | `Spec => []IInv` |
| `SignatureCoversOneHolds` | `Spec => []SignatureCoversOne` |

`IInv` only says that what is accepted has the bytes that were signed; the content is
in `OneInput`. Its argument is about single fields. A field *tells* what it stands for
if no two strings that begin with it are the same, whatever follows, unless what it
stands for is (`Tells`). That is stronger than an encoding that is one-to-one, and it
is what can be put together: fields in a row tell all that each of them tells
(`FieldsTell`, by induction on their number), so a transcript needs a lemma that names
its fields and no case split on where they end. `VarTells` has a string tell by
its length, which fits its width or is refused; `FixedTells` has one whose length is
checked tell by that; `OptTells` goes by the mark, `ListTells` by the count. An integer
tells because of its width: its digits determine its quotients from the last one up
to the number itself (`DigitsTell`), where the last quotient is 0 if it is unsigned
(`UnsignedTells`), and is known from the first digit, the sign, if it is not
(`SignedTells`). Each format then has a lemma of its own, which
lists its fields and what they stand for. Of all that the functions refuse, the
argument needs the lengths only: empty strings and keys that are the same are refused
for other reasons. The tag in front tells the format (`TagTells`). The assumptions are
`WidthsAssumption`, that widths and lengths are at least 1, and `InputsAssumption`,
that `Inputs` is a subset of `Input`. That tags are distinct and none a beginning of
another, which `ALL_TAGS` has a unit test for, is in the model: a tag is one symbol.

These proofs need induction over data, and the library's induction theorems take an
operator as a parameter, which the provers cannot instantiate. `Induction` states the
principle for a set instead: it follows from the least number outside the set
(`LeastNumber`, from `WFMin` and `NatLessThanWellFounded`), and each use defines the set
of numbers for which what is wanted holds.

Only model-checked: `LockReleased` of `KeyDir`, because liveness and fairness are out
of the prover's reach. Every other property of a run that passes is a theorem. The
two properties that the runs with a finding refute are none, of course.

## 5. Not modelled

* Parsing, JSON, hashes, P-256: signatures are ideal, a value signed by a key
  can only come from its holder.
* Permissions and symlinks (`check_dir`): a refused directory is a failed call.
* Digests, audiences, nonces and bodies of messages are equalities that an input
  fails or not; one that fails is refused and changes nothing.
* A plain unlocked `load`, which compares the device and nothing else, may return
  a mixture of two moments in a read-only directory; the properties of
  `UnlockedReads` are about `load_verified` and `read_principal`.
* A rename whose write was killed, or failed, before it synced the directory stays
  at risk while later operations go on (`OneRenameAtRisk` excepts it by name). What
  the operations of `KeyDir` would make of a directory with the earlier of two
  renames gone is not modelled.
* Values with a rotation that come from another directory: `InitElsewhere` brings
  in fresh identities only. What `save` does with a value depends on none of it.
* A plain `init` beside `create_or_load` on one path, and hosts with several pid
  namespaces, where `kill(pid, 0)` asks of the wrong process.
* A delegation that ends at second 0 is granted by `delegate_device` and refused
  by every verifier, which takes 0 for an absent end. `GrantedIsUsable` and
  `IsPrompt` leave this second of 1970 out.
* The bindings of humans, hosts and revocations are in `Verify`, not in `Sessions`,
  and saturation is in `Sessions`, not in `Verify`.
* The check that a registry's keys are all different is modelled within one
  document. Across documents nothing stops a key from moving from one principal
  to another once the first is gone, and the properties of `Receiver` are stated
  per principal for that reason.
* Errors, formatting, timestamps as protobuf messages, code generation, the crate
  roots, the testkits and the vector generator: no behaviour to check.

## 6. Plan

Done, in this order, the most important behaviour first: `KeyDir` with
its invariant and theorems; `CreateOrLoad`; `RootLine` and the two refinements;
`Receiver`; `Publish`; `Verify`; `Transcript`; `Registry`; `Sessions` with its
theorems; `UnlockedReads`; `DurableWrite`; the theorems about `Receiver`,
`CreateOrLoad` and `Verify`; those about `DurableWrite`, `Publish` and
`UnlockedReads`, the rest of those about `KeyDir`; and those about `Transcript`.

Next, models: the directories that a power loss leaves when an earlier rename is
gone and a later one is there, as crash states of `KeyDir`; plain `init` in
`CreateOrLoad`.

Next, proofs: whatever those models change in the invariants of `KeyDir` and
`CreateOrLoad`. For the models that are there, no safety property is left.

------------------------------ MODULE Registry ------------------------------
(***************************************************************************)
(* The principal registry of a signed document, as it arrives, and what    *)
(* becomes of it: Resolver::from_document with decode_carrier and          *)
(* check_registry, and the questions a resolver answers.                   *)
(*                                                                         *)
(* A principal is its genesis key.  An id is a record of the principal it  *)
(* stands for and whether it is written in the one canonical way; an id    *)
(* that cannot be read at all is one whose spelling is not canonical.      *)
(* Signatures are good and keys well formed: what is not is refused.       *)
(***************************************************************************)
EXTENDS Integers, Sequences, FiniteSets, SequencesExt, Functions

CONSTANTS
    None,           \* what is absent
    RegistryType,   \* the document type of registries
    ShortId,        \* ShortId[p]: eight bytes of the digest of p's genesis key
    HexNames        \* the names that are 16 hex characters

\* AllowedHost::Any; it is written in one way, as a canonical id is.
AnyHost == [key |-> "*", canonical |-> TRUE]

-----------------------------------------------------------------------------
(* Roots.                                                                  *)

\* rotation_roots succeeds: each rotation is of this principal, from the root
\* before it, and to a root that did not occur yet.
IsChain(genesis, rotations) ==
    \A i \in DOMAIN rotations :
        /\ rotations[i].principal = genesis
        /\ rotations[i].old = IF i = 1 THEN genesis ELSE rotations[i - 1].new
        /\ rotations[i].new # genesis
        /\ \A j \in 1..(i - 1) : rotations[j].new # rotations[i].new

RotationRoots(genesis, rotations) ==
    <<genesis>> \o [i \in DOMAIN rotations |-> rotations[i].new]

-----------------------------------------------------------------------------
(* Entries.                                                                *)

KnownKinds == {"human", "agent", "daemon", "service"}

IsSelfRooted(e) == \/ e.kind \in KnownKinds \ {"agent"}
                   \/ e.kind = "agent" /\ e.root # None

\* The authority's roots are those of the document's own chain.
RootsOf(d, e) ==
    CASE ~IsSelfRooted(e)       -> <<>>
      [] e.id.key = d.chain[1]  -> d.chain
      [] OTHER                  -> RotationRoots(e.id.key, e.rotations)

\* Mutant: an entry of unknown kind is skipped before its short id is looked at.
CheckIdsKnown(entries) ==
    /\ \A i \in DOMAIN entries : entries[i].id.canonical /\ entries[i].kind # "unspecified"
    /\ \A i, j \in DOMAIN entries :
          /\ {entries[i].kind, entries[j].kind} \subseteq KnownKinds
          /\ ShortId[entries[i].id.key] = ShortId[entries[j].id.key]
          => i = j

\* Ids are canonical, kinds specified, and no two short ids the same; an entry
\* of unknown kind counts.
CheckIds(entries) ==
    /\ \A i \in DOMAIN entries : entries[i].id.canonical /\ entries[i].kind # "unspecified"
    /\ \A i, j \in DOMAIN entries :
          ShortId[entries[i].id.key] = ShortId[entries[j].id.key] => i = j

\* Names are neither empty nor like a short id.
CheckNameForms(entries) ==
    \A i \in DOMAIN entries : entries[i].name \notin HexNames \cup {""}

HoldsName(e) == e.name # None /\ e.kind \in KnownKinds /\ ~e.frozen

\* Mutant: only entries of the same kind compete for a name.
CheckNamesPerKind(entries) ==
    /\ CheckNameForms(entries)
    /\ \A i, j \in DOMAIN entries :
          /\ HoldsName(entries[i]) /\ HoldsName(entries[j])
          /\ entries[i].kind = entries[j].kind /\ entries[i].name = entries[j].name
          => i = j

\* ... and no two entries that are not frozen share one.
CheckNames(entries) ==
    /\ CheckNameForms(entries)
    /\ \A i, j \in DOMAIN entries :
          /\ HoldsName(entries[i]) /\ HoldsName(entries[j])
          /\ entries[i].name = entries[j].name
          => i = j

\* The authority is a HUMAN that is not frozen and lists no rotations.
CheckAuthority(d) ==
    /\ \E i \in DOMAIN d.entries : d.entries[i].id.key = d.chain[1]
                                   /\ d.entries[i].kind \in KnownKinds
    /\ \A i \in DOMAIN d.entries :
          LET e == d.entries[i]
          IN  e.id.key = d.chain[1] /\ e.kind \in KnownKinds
              => e.kind = "human" /\ ~e.frozen /\ e.rotations = <<>>

\* Mutant: a principal of another kind may have devices.
CheckFieldsAnyDevices(e) ==
    /\ e.hosts = <<>> <=> IsSelfRooted(e)
    /\ \A i \in DOMAIN e.hosts : e.hosts[i].canonical

\* Only a HUMAN has devices, only a keyless AGENT has hosts, and it has some.
CheckFields(e) ==
    /\ e.kind # "human" => e.devices = <<>>
    /\ e.hosts = <<>> <=> IsSelfRooted(e)
    /\ \A i \in DOMAIN e.hosts : e.hosts[i].canonical

\* A self-rooted entry shows where its chain of roots ends.
CheckRoots(d, e) ==
    IF IsSelfRooted(e)
    THEN /\ e.root # None /\ e.root.signing # e.root.encryption
         /\ IsChain(e.id.key, e.rotations)
         /\ e.root.signing = Last(RootsOf(d, e))
    ELSE e.rotations = <<>> /\ e.revocations = <<>>

CheckDelegation(del, e, purpose) ==
    /\ del.principal = e.id.key
    /\ del.root = e.root.signing
    /\ del.purpose = purpose
    /\ del.to # 0

\* Every device, and its approval key, is delegated by the entry's current
\* root, and its host is a DAEMON of the same registry.
CheckDevices(d, e) ==
    \A i \in DOMAIN e.devices :
        LET b == e.devices[i]
        IN  /\ CheckDelegation(b.device, e, "device")
            /\ b.approval # None => CheckDelegation(b.approval, e, "approval")
            /\ b.host # None =>
                  /\ b.host.canonical
                  /\ \E j \in DOMAIN d.entries : d.entries[j].id.key = b.host.key
                                                 /\ d.entries[j].kind = "daemon"

DeviceKeys(b) == {b.device.key, b.device.enc}
                 \cup (IF b.approval # None THEN {b.approval.key} ELSE {})

\* `own`: the keys a HUMAN may revoke.
OwnKeys(d, e) == Range(RootsOf(d, e))
                 \cup UNION {DeviceKeys(e.devices[i]) : i \in DOMAIN e.devices}

\* A revocation is of this entry, of a key that is not its current root, by
\* one of its roots or by the key itself.
CheckRevocations(d, e) ==
    \A i \in DOMAIN e.revocations :
        LET r == e.revocations[i]
        IN  /\ r.principal = e.id.key
            /\ r.key # Last(RootsOf(d, e))
            /\ r.by \in Range(RootsOf(d, e)) \cup {r.key}
            /\ e.kind = "human" => r.key \in OwnKeys(d, e)

\* What an entry puts into the KeySet: a key for each use it has for one.
KeysOf(d, e) ==
    LET bound == DOMAIN e.devices
    IN  IF ~IsSelfRooted(e)
        THEN {[use |-> <<"genesis", 1>>, key |-> e.id.key]}
        ELSE {[use |-> <<"root", i>>, key |-> RootsOf(d, e)[i]] : i \in DOMAIN RootsOf(d, e)}
             \cup {[use |-> <<"encryption", 1>>, key |-> e.root.encryption]}
             \cup {[use |-> <<"device", i>>, key |-> e.devices[i].device.key] : i \in bound}
             \cup {[use |-> <<"device_enc", i>>, key |-> e.devices[i].device.enc] : i \in bound}
             \cup {[use |-> <<"approval", i>>, key |-> e.devices[i].approval.key] :
                      i \in {j \in bound : e.devices[j].approval # None}}

\* No key is put in twice, by whichever entries and for whatever uses.
CheckKeys(d) ==
    \A i, j \in DOMAIN d.entries :
        \A k \in KeysOf(d, d.entries[i]), l \in KeysOf(d, d.entries[j]) :
            k.key = l.key => i = j /\ k = l

CheckRegistry(d) ==
    /\ CheckIds(d.entries)
    /\ CheckNames(d.entries)
    /\ CheckAuthority(d)
    /\ \A i \in DOMAIN d.entries :
          LET e == d.entries[i]
          IN  e.kind \in KnownKinds => /\ CheckFields(e)
                                       /\ CheckRoots(d, e)
                                       /\ CheckDevices(d, e)
                                       /\ CheckRevocations(d, e)
    /\ CheckKeys(d)

-----------------------------------------------------------------------------
(* The resolver.                                                           *)

\* decode_carrier: the registry is field 1 of the body, exactly once.
DecodeCarrier(d) == d.carriers = 1

\* VerifiedEntry.  The keys of an entry are all different, so its bindings and
\* its revocations are as good as sets.
VerifiedEntry(d, e) ==
    [kind |-> e.kind, name |-> e.name, frozen |-> e.frozen,
     root |-> IF IsSelfRooted(e) THEN e.root.signing ELSE None,
     revoked |-> {[key |-> r.key, at |-> r.at] : r \in Range(e.revocations)},
     bindings |-> {[device |-> b.device, approval |-> b.approval,
                    host |-> IF b.host = None THEN None ELSE b.host.key] :
                      b \in Range(e.devices)},
     hosts |-> {h.key : h \in Range(e.hosts)}]

\* Entries of unknown kind are left out.
VerifiedEntries(d) ==
    LET known == {e \in Range(d.entries) : e.kind \in KnownKinds}
    IN  [p \in {e.id.key : e \in known} |->
            VerifiedEntry(d, CHOOSE e \in known : e.id.key = p)]

FromDocumentSucceeds(d) ==
    /\ d.type = RegistryType
    /\ DecodeCarrier(d)
    /\ CheckRegistry(d)

\* from_document: no peer revocation survives the document it was for.
FromDocument(d) ==
    [id |-> d.id, authority |-> d.chain[1], entries |-> VerifiedEntries(d),
     allow |-> d.allow, peer |-> {}]

\* Mutant: a peer revocation applies to all of time.
IsFrozenEver(r, p, at) ==
    /\ p \in DOMAIN r.entries
    /\ \/ r.entries[p].frozen
       \/ \E v \in r.peer : v.target = p /\ v.revoked \in {None, r.entries[p].root}

\* is_frozen: by the document, or by a peer revocation of the principal or of
\* its current root.
IsFrozen(r, p, at) ==
    /\ p \in DOMAIN r.entries
    /\ \/ r.entries[p].frozen
       \/ \E v \in r.peer : /\ v.target = p /\ v.at <= at
                            /\ v.revoked \in {None, r.entries[p].root}

\* is_revoked: for this principal only.
IsRevoked(r, p, k, at) ==
    /\ p \in DOMAIN r.entries
    /\ \/ \E x \in r.entries[p].revoked : x.key = k /\ x.at <= at
       \/ \E v \in r.peer : v.target = p /\ v.revoked = k /\ v.at <= at

\* resolve_name: whoever has the name and is not frozen then.
ResolveName(r, name, at) ==
    {p \in DOMAIN r.entries : r.entries[p].name = name /\ ~IsFrozen(r, p, at)}
=============================================================================

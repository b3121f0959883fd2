------------------------------ MODULE Receiver ------------------------------
(***************************************************************************)
(* A receiver of the authority's signed registry documents.  The library   *)
(* checks a document against what the receiver has accepted before         *)
(* (verify_signed_document, Resolver::from_document, check_successor); the *)
(* receiver persists the authority chain and the returned AcceptedChains,  *)
(* then resolves with the new registry.  Documents come late, twice and    *)
(* out of order, the authority and the principals may sign forks, and the  *)
(* receiver crashes between any two of its steps.                          *)
(*                                                                         *)
(* A principal's id is its genesis key.  A document whose signature, or    *)
(* any of whose rotations' signatures, does not verify is refused and      *)
(* changes nothing: documents here are those with good signatures.  The    *)
(* authority's own entry, which must be there and end at the document's    *)
(* chain, stands for its roots.  Devices, names and hosts are left out.    *)
(***************************************************************************)
EXTENDS Naturals, Sequences, SequencesExt, Functions

CONSTANTS
    Authority,      \* the authority's genesis key
    Principals,     \* genesis keys of the others
    Successors,     \* keys that may succeed a root
    None,           \* an absent current_root, resolver or document
    MaxRotations    \* bound: rotations in a list

Keys == {Authority} \cup Principals \cup Successors

ASSUME KeysAssumption == /\ Authority \notin Principals
                         /\ None \notin Keys
                         /\ MaxRotations \in Nat

VARIABLES
    chain,      \* persisted: the roots of the authority, genesis first
    accepted,   \* persisted: the AcceptedChains
    resolver,   \* the entries in use, or None
    latest,     \* the last document that passed every check
    todo,       \* what the receiver still has to do with it
    shown       \* history variable: the lines of the resolvers ever in use

vars == <<chain, accepted, resolver, latest, todo, shown>>

-----------------------------------------------------------------------------
(* Root chains.                                                            *)

Rotations == SeqOf([old : Keys, new : Keys], MaxRotations)

\* Mutant: no RotationCycle check.
IsChainWithCycles(genesis, rotations) ==
    \A i \in 1..Len(rotations) :
        rotations[i].old = IF i = 1 THEN genesis ELSE rotations[i - 1].new

\* rotation_roots succeeds: each rotation is signed by the root before it and
\* names a root that did not occur yet.
IsChain(genesis, rotations) ==
    \A i \in 1..Len(rotations) :
        /\ rotations[i].old = IF i = 1 THEN genesis ELSE rotations[i - 1].new
        /\ rotations[i].new # genesis
        /\ \A j \in 1..(i - 1) : rotations[j].new # rotations[i].new

\* ... and returns the roots, genesis first.
RotationRoots(genesis, rotations) ==
    <<genesis>> \o [i \in 1..Len(rotations) |-> rotations[i].new]

\* The rotation lists rotation_roots takes from each genesis.
Chains == [g \in Keys |-> {r \in Rotations : IsChain(g, r)}]

\* Mutants: any common part will do; a chain must be longer each time.
Overlaps(old, new) == IsPrefix(old, new) \/ IsPrefix(new, old)
ExtendsStrictly(old, new) == Len(old) < Len(new) /\ IsPrefix(old, new)

\* is_prefix_of, and the comparison of check_successor and of StaleRoot and
\* RootFork in verify_signed_document.
Extends(old, new) == Len(old) <= Len(new) /\ SubSeq(new, 1, Len(old)) = old

\* verify_signed_document: the signer is the authority, its chain extends the
\* one accepted, and the chain's head signed.
VerifySignedDocument(signer, rotations, signing) ==
    LET roots == RotationRoots(signer, rotations)
    IN  /\ signer = Authority
        /\ rotations \in Chains[signer]
        /\ Extends(chain, roots)
        /\ signing = Last(roots)

-----------------------------------------------------------------------------
(* check_registry: what it says of kinds, roots and keys.  HUMAN and       *)
(* SERVICE entries are treated as DAEMON entries are; an AGENT may be      *)
(* keyless; the entry of an unknown kind is skipped.                       *)

Kinds == {"agent", "daemon"}
Entries == [kind : Kinds \cup {"unknown"}, current : Keys \cup {None}, rotations : Rotations]

IsSelfRooted(e) == \/ e.kind = "daemon"
                   \/ e.kind = "agent" /\ e.current # None

\* Mutant: the current root may be any root of the chain.
CheckEntryAnyRoot(id, e) ==
    CASE e.kind = "unknown" -> e.current = None /\ e.rotations = <<>>
      [] IsSelfRooted(e)    -> /\ IsChain(id, e.rotations)
                               /\ e.current \in Range(RotationRoots(id, e.rotations))
      [] OTHER              -> e.rotations = <<>>

\* One skipped entry stands for all of them.
CheckEntry(id, e) ==
    CASE e.kind = "unknown" -> e.current = None /\ e.rotations = <<>>
      [] IsSelfRooted(e)    -> /\ IsChain(id, e.rotations)
                               /\ e.current = Last(RotationRoots(id, e.rotations))
      [] OTHER              -> e.rotations = <<>>

CheckedEntries == [id \in Principals |-> {e \in Entries : CheckEntry(id, e)}]

\* The keys an entry adds to the registry's KeySet.
KeysOf(id, e) == IF IsSelfRooted(e) THEN Range(RotationRoots(id, e.rotations)) ELSE {id}

\* Every key at most once in the registry, the authority's roots included.
Distinct(registry, roots) ==
    \A id \in DOMAIN registry :
        /\ KeysOf(id, registry[id]) \cap Range(roots) = {}
        /\ \A other \in DOMAIN registry \ {id} :
              KeysOf(id, registry[id]) \cap KeysOf(other, registry[other]) = {}

\* The VerifiedEntry of each entry: no roots for a host-vouched agent.
VerifiedEntries(registry) ==
    [id \in {p \in DOMAIN registry : registry[p].kind \in Kinds} |->
        [kind |-> registry[id].kind,
         roots |-> IF IsSelfRooted(registry[id])
                   THEN RotationRoots(id, registry[id].rotations) ELSE <<>>,
         rotations |-> registry[id].rotations]]

-----------------------------------------------------------------------------
(* AcceptedChains and check_successor.                                     *)

\* Mutant: a keyless agent is remembered by the roots of its entry: none.
AsAcceptedEmpty(id, e) == [kind |-> e.kind, roots |-> e.roots, rotations |-> e.rotations]

\* A keyless agent's chain is its genesis key alone.
AsAccepted(id, e) ==
    [kind |-> e.kind,
     roots |-> IF e.roots = <<>> THEN <<id>> ELSE e.roots,
     rotations |-> e.rotations]

\* No KindChanged, no RootFork.
CheckSuccessor(entries, known) ==
    \A id \in DOMAIN entries \cap DOMAIN known :
        /\ entries[id].kind = known[id].kind
        /\ entries[id].roots # <<>> => Extends(known[id].roots, entries[id].roots)

\* Mutants: only the entries of this version are remembered; a keyless entry
\* replaces the chain an agent had.
UpdatedForgetting(entries, known) == [id \in DOMAIN entries |-> AsAccepted(id, entries[id])]
UpdatedByKeyless(entries, known) ==
    [id \in DOMAIN known \cup DOMAIN entries |->
        IF id \in DOMAIN entries THEN AsAccepted(id, entries[id]) ELSE known[id]]

\* The set check_successor returns: entries that are gone stay, and a keyless
\* entry does not shorten a chain accepted before.
Updated(entries, known) ==
    [id \in DOMAIN known \cup DOMAIN entries |->
        IF id \in DOMAIN entries /\ (id \notin DOMAIN known \/ entries[id].roots # <<>>)
        THEN AsAccepted(id, entries[id]) ELSE known[id]]

\* to_proto keeps the kind and the rotations; from_proto checks every rotation
\* again and refuses the whole set if one fails.
ToProto(known) == [id \in DOMAIN known |-> [kind |-> known[id].kind,
                                            rotations |-> known[id].rotations]]
FromProto(proto) == [id \in DOMAIN proto |->
                        [kind |-> proto[id].kind,
                         roots |-> RotationRoots(id, proto[id].rotations),
                         rotations |-> proto[id].rotations]]
FromProtoSucceeds(proto) == \A id \in DOMAIN proto : IsChain(id, proto[id].rotations)

-----------------------------------------------------------------------------
(* The receiver.                                                           *)

Steps == {"chain", "accepted", "adopt"}

\* Every registry whose entries check_registry takes one by one.
Registries == {r \in UNION {[S -> UNION Range(CheckedEntries)] : S \in SUBSET Principals} :
                  \A id \in DOMAIN r : r[id] \in CheckedEntries[id]}

\* A document arrives: from anyone, of any age.  On an error nothing changes.
Receive ==
    \E signer \in {Authority} \cup Principals :
    \E rotations \in Chains[signer], signing \in Keys :
        /\ todo = {}
        /\ VerifySignedDocument(signer, rotations, signing)
        /\ \E registry \in Registries :
              LET entries == VerifiedEntries(registry)
              IN  /\ Distinct(registry, RotationRoots(signer, rotations))
                  /\ CheckSuccessor(entries, accepted)
                  /\ latest' = [roots |-> RotationRoots(signer, rotations),
                                entries |-> entries,
                                updated |-> Updated(entries, accepted)]
        /\ todo' = Steps
        /\ UNCHANGED <<chain, accepted, resolver, shown>>

PersistChain ==
    /\ "chain" \in todo
    /\ todo' = todo \ {"chain"}
    /\ chain' = latest.roots
    /\ UNCHANGED <<accepted, resolver, latest, shown>>

PersistAccepted ==
    /\ "accepted" \in todo
    /\ todo' = todo \ {"accepted"}
    /\ accepted' = latest.updated
    /\ UNCHANGED <<chain, resolver, latest, shown>>

Line(id, kind, roots) == [id |-> id, kind |-> kind, roots |-> roots]

\* Both are on disk: the new registry replaces the one in use.
Adopt ==
    /\ todo = {"adopt"}
    /\ todo' = {}
    /\ resolver' = latest.entries
    /\ shown' = shown \cup {Line(Authority, "human", latest.roots)}
                      \cup {Line(id, latest.entries[id].kind, latest.entries[id].roots) :
                               id \in DOMAIN latest.entries}
    /\ UNCHANGED <<chain, accepted, latest>>

\* The process dies and comes back with what it persisted.
Restart ==
    /\ FromProtoSucceeds(ToProto(accepted))
    /\ accepted' = FromProto(ToProto(accepted))
    /\ resolver' = None
    /\ todo' = {}
    /\ UNCHANGED <<chain, latest, shown>>

Init ==
    /\ chain = <<Authority>>
    /\ accepted = <<>>
    /\ resolver = None
    /\ latest = None
    /\ todo = {}
    /\ shown = {}

Next == Receive \/ PersistChain \/ PersistAccepted \/ Adopt \/ Restart

Spec == Init /\ [][Next]_vars

-----------------------------------------------------------------------------
(* Properties.                                                             *)

Rooted == {l \in shown : l.roots # <<>>}
EntryType == [kind : Kinds, roots : Seq(Keys), rotations : Rotations]
IsEntries(f) == DOMAIN f \subseteq Principals /\ \A id \in DOMAIN f : f[id] \in EntryType

\* Every variable has its type.
TypeOK ==
    /\ chain \in Seq(Keys)
    /\ IsEntries(accepted)
    /\ resolver = None \/ IsEntries(resolver)
    /\ \/ latest = None
       \/ /\ latest.roots \in Seq(Keys)
          /\ IsEntries(latest.entries) /\ IsEntries(latest.updated)
    /\ todo \subseteq Steps
    /\ shown \subseteq [id : Keys, kind : Kinds \cup {"human"}, roots : Seq(Keys)]

\* Whatever comes in whatever order, and wherever the receiver dies, removing
\* and adding again an entry included: the chain a resolver in use gives a
\* principal extends every chain any earlier resolver gave it, and no principal
\* ever changes its kind.
NoForkNoRewind ==
    /\ resolver # None =>
          \A l \in Rooted : l.id \in DOMAIN resolver /\ resolver[l.id].roots # <<>>
                               => IsPrefix(l.roots, resolver[l.id].roots)
    /\ \A l, m \in shown : l.id = m.id =>
          l.kind = m.kind /\ (IsPrefix(l.roots, m.roots) \/ IsPrefix(m.roots, l.roots))

\* A root that was succeeded in front of this receiver is never again the
\* current root of any principal it resolves, nor the signer of a document it
\* adopts, so a key that was rotated away because it leaked stays useless.
\* It holds per principal: a key may move from one principal to another.
RetiredRootsStayRetired ==
    [][resolver' \notin {resolver, None} =>
          \A l \in shown, i \in 1..MaxRotations : i < Len(l.roots) =>
              /\ l.id \in DOMAIN resolver' /\ resolver'[l.id].roots # <<>>
                    => Last(resolver'[l.id].roots) # l.roots[i]
              /\ l.id = Authority => Last(chain') # l.roots[i]]_vars

\* What is persisted can be read back, and comes back as it was: a restart
\* neither fails nor forgets the chain of anybody, keyless agents included.
RestartForgetsNothing ==
    /\ FromProtoSucceeds(ToProto(accepted))
    /\ FromProto(ToProto(accepted)) = accepted

\* The last document that passed still passes: sent twice, or sent again after
\* a crash between any two of the receiver's writes, it is not refused.
LatestIsRedeliverable ==
    latest # None =>
        /\ Extends(chain, latest.roots)
        /\ CheckSuccessor(latest.entries, accepted)

\* What the receiver persists of every principal, nothing of one not yet met.
PersistedLine == [id \in {Authority} \cup Principals |->
                     IF id = Authority THEN chain
                     ELSE IF id \in DOMAIN accepted THEN accepted[id].roots
                     ELSE <<>>]

Promise == INSTANCE RootLine
           WITH Ids <- {Authority} \cup Principals, Roots <- Keys, line <- PersistedLine

\* The chains a receiver persists only grow, whatever is delivered to it and
\* wherever it restarts.
ImplementsRootLine == Promise!Spec

-----------------------------------------------------------------------------
(* The inductive invariant.                                                *)

\* From the genesis key, and no root twice.
IsLine(id, roots) == /\ roots # <<>> /\ roots[1] = id
                     /\ \A i, j \in 1..Len(roots) : roots[i] = roots[j] => i = j

\* Everything needed to read the set back is in the rotations.
RoundTrips(known) ==
    /\ known = FromProto(ToProto(known))
    /\ \A id \in DOMAIN known : IsChain(id, known[id].rotations)

\* `known` grows to `updated`: nobody is dropped, changed in kind or rewound.
Grows(known, updated) ==
    \A id \in DOMAIN known : /\ id \in DOMAIN updated
                             /\ updated[id].kind = known[id].kind
                             /\ IsPrefix(known[id].roots, updated[id].roots)

\* The entries of a document say what the set that goes with it says.
Agree(entries, updated) ==
    \A id \in DOMAIN entries : /\ id \in DOMAIN updated
                               /\ updated[id].kind = entries[id].kind
                               /\ entries[id].roots # <<>> =>
                                     updated[id].roots = entries[id].roots

\* Between the receiver's writes, what is on disk is of before the document or
\* of the document, and either way the document may still follow it.
LatestInv ==
    latest # None \/ todo # {} =>
        /\ latest.roots \in Seq(Keys) /\ IsEntries(latest.entries) /\ IsEntries(latest.updated)
        /\ IsLine(Authority, latest.roots) /\ IsPrefix(chain, latest.roots)
        /\ RoundTrips(latest.updated)
        /\ Agree(latest.entries, latest.updated)
        /\ Grows(accepted, latest.updated)

TodoInv ==
    todo # {} => /\ "chain" \notin todo => chain = latest.roots
                 /\ "accepted" \notin todo => accepted = latest.updated

\* What was ever in use is a beginning of what is persisted, and of what the
\* resolver in use says of anybody it has roots of.
ShownInv ==
    \A l \in shown :
        /\ l.id = Authority => l.kind = "human" /\ IsPrefix(l.roots, chain)
        /\ l.id # Authority => /\ l.id \in DOMAIN accepted
                               /\ l.kind = accepted[l.id].kind
                               /\ IsPrefix(l.roots, accepted[l.id].roots)
        /\ resolver # None /\ l.id \in DOMAIN resolver /\ resolver[l.id].roots # <<>> =>
              IsPrefix(l.roots, resolver[l.id].roots)

IInv == /\ TypeOK
        /\ IsLine(Authority, chain) /\ RoundTrips(accepted)
        /\ LatestInv /\ TodoInv /\ ShownInv
=============================================================================

------------------------------- MODULE Verify -------------------------------
(***************************************************************************)
(* A receiver that verifies messages, approvals and peer revocations       *)
(* against the resolver it holds, while its clock moves, documents replace *)
(* one another and verified peer revocations wait to be applied, or to be  *)
(* applied again when the document is adopted again.  What it              *)
(* accepted it records with the time, and may verify again later.          *)
(*                                                                         *)
(* An input that is malformed or badly signed is refused and changes       *)
(* nothing: inputs here are well formed and signed by the keys they name.  *)
(* Session keys, nonces, audiences, digests and bodies are left out, and   *)
(* so is saturation at the ends of i64, which module Sessions has.         *)
(***************************************************************************)
EXTENDS Registry

CONSTANTS
    Documents,      \* the registries that may come into force
    Messages,       \* the messages that arrive
    Approvals,      \* the approvals that arrive
    Revocations,    \* the peer revocations that arrive
    MaxTime,        \* bound: the last second of the clock
    MaxPeer,        \* bound: peer revocations applied to the document or waiting
    Skew,           \* SKEW_SECONDS
    MaxSession,     \* MAX_SESSION_SECONDS
    MaxUnlisted     \* MAX_UNLISTED_DELEGATION_SECONDS

ASSUME BoundsAssumption == {MaxTime, MaxPeer, Skew, MaxSession, MaxUnlisted} \subseteq Nat

\* An id is the digest of what is signed, and times are whole seconds.
ASSUME DigestAssumption ==
    \A d, e \in Documents :
        d.id = e.id /\ FromDocumentSucceeds(d) /\ FromDocumentSucceeds(e)
            => FromDocument(d) = FromDocument(e)
ASSUME SecondsAssumption ==
    \A d \in Documents : \A i \in DOMAIN d.entries : \A j \in DOMAIN d.entries[i].revocations :
        d.entries[i].revocations[j].at \in Int

VARIABLES
    now,        \* the receiver's clock
    resolver,   \* the Resolver: a document and the peer revocations applied to it
    waiting,    \* the VerifiedPeerRevocations the caller has
    kept,       \* a message accepted live, with the time and the document, or None
    approved    \* history variable: the approval accepted last, or None

vars == <<now, resolver, waiting, kept, approved>>

-----------------------------------------------------------------------------
(* verify_chain.                                                           *)

SpanWithin(from, to, max) == from < to /\ to - from <= max

\* Mutant: the host of a human's device is not asked for.
DeviceCurrentAnyHost(r, p, d, at) ==
    LET e == r.entries[p]
    IN  /\ d.principal = p /\ d.root = e.root /\ d.purpose = "device" /\ d.to # 0
        /\ ~IsRevoked(r, p, d.root, at) /\ ~IsRevoked(r, p, d.key, at)
        /\ at <= d.to
        /\ \/ e.kind = "human" /\ \E b \in e.bindings : b.device = d
           \/ e.kind # "human" /\ SpanWithin(d.from, d.to, MaxUnlisted) /\ d.from <= at + Skew

\* device_current: under the current root, not revoked, and in its window.  A
\* human's device must be bound, and its host not frozen.
DeviceCurrent(r, p, d, at) ==
    LET e == r.entries[p]
    IN  /\ d.principal = p /\ d.root = e.root /\ d.purpose = "device" /\ d.to # 0
        /\ ~IsRevoked(r, p, d.root, at) /\ ~IsRevoked(r, p, d.key, at)
        /\ at <= d.to
        /\ \/ /\ e.kind = "human"
              /\ \E b \in e.bindings : b.device = d /\ ~IsFrozen(r, b.host, at)
           \/ /\ e.kind # "human"
              /\ SpanWithin(d.from, d.to, MaxUnlisted) /\ d.from <= at + Skew

CheckCert(c, device, at) ==
    /\ c.device = device
    /\ SpanWithin(c.from, c.to, MaxSession)
    /\ c.from - Skew <= at /\ at <= c.to

VerifySelfRooted(r, m, at) ==
    LET p == m.cert.principal
    IN  /\ m.chain = "self" /\ m.cert.mode = "self"
        /\ p \in DOMAIN r.entries /\ r.entries[p].root # None
        /\ ~IsFrozen(r, p, at)
        /\ DeviceCurrent(r, p, m.device, at)

VerifyHostVouched(r, m, at) ==
    LET daemon == m.device.principal
        agent == m.cert.principal
    IN  /\ m.chain = "host" /\ m.cert.mode = "host" /\ m.cert.host = daemon
        /\ {daemon, agent} \subseteq DOMAIN r.entries
        /\ r.entries[daemon].kind = "daemon"
        /\ m.cert.subject = ShortId[daemon]
        /\ r.entries[agent].kind = "agent" /\ r.entries[agent].root = None
        /\ ~IsFrozen(r, daemon, at) /\ ~IsFrozen(r, agent, at)
        /\ r.entries[agent].hosts \cap {daemon, "*"} # {}
        /\ DeviceCurrent(r, daemon, m.device, at)

VerifyChain(r, m, at) ==
    /\ VerifySelfRooted(r, m, at) \/ VerifyHostVouched(r, m, at)
    /\ CheckCert(m.cert, m.device.key, at)

CheckSkew(issued, at) == issued - at <= Skew /\ at - issued <= Skew

-----------------------------------------------------------------------------
(* The receiver.                                                           *)

Tick == /\ now < MaxTime
        /\ now' = now + 1
        /\ UNCHANGED <<resolver, waiting, kept, approved>>

\* The documents from_document takes.
Registries == {d \in Documents : FromDocumentSucceeds(d)}

Resolvers == {FromDocument(d) : d \in Registries}

\* from_document, of any registry at any time: which document may follow which
\* is the receiver's business.
Adopt(r) == /\ resolver' = r
            /\ UNCHANGED <<now, waiting, kept, approved>>

\* verify_signed_message with When::Live.
Message(m) ==
    /\ VerifyChain(resolver, m, now)
    /\ CheckSkew(m.issued, now)
    /\ kept' = [message |-> m, at |-> now, document |-> resolver.id,
               kind |-> resolver.entries[m.cert.principal].kind]
    /\ UNCHANGED <<now, resolver, waiting, approved>>

\* The device and the approval key share a binding that is still current.
BindingOf(e, a) == \E b \in e.bindings : /\ b.device.key = a.device
                                         /\ b.approval # None /\ b.approval.key = a.key
                                         /\ now <= b.approval.to

\* verify_approval with the VerifiedChain of the message kept: its principal,
\* kind and device are those of that moment, the rest is looked up now.
Approval(a) ==
    /\ kept # None
    /\ a.principal = kept.message.cert.principal /\ kept.kind = "human"
    /\ a.device = kept.message.device.key
    /\ a.principal \in DOMAIN resolver.entries
    /\ ~IsFrozen(resolver, a.principal, now)
    /\ BindingOf(resolver.entries[a.principal], a)
    /\ ~IsRevoked(resolver, a.principal, a.key, now)
    /\ CheckSkew(a.issued, now)
    /\ approved' = a
    /\ UNCHANGED <<now, resolver, waiting, kept>>

\* verify_peer_revocation with When::Live: by an approval key of the
\* authority, of a device not revoked, for the document in force.
PeerRevocation(v) ==
    /\ Cardinality(resolver.peer \cup waiting) < MaxPeer
    /\ resolver.allow
    /\ v.document = resolver.id
    /\ ~IsFrozen(resolver, resolver.authority, now)
    /\ \E b \in resolver.entries[resolver.authority].bindings :
          /\ b.approval # None /\ b.approval.key = v.key
          /\ now <= b.approval.to
          /\ ~IsRevoked(resolver, resolver.authority, b.approval.key, now)
          /\ ~IsRevoked(resolver, resolver.authority, b.device.key, now)
    /\ v.target \in DOMAIN resolver.entries
    /\ v.revoked # None => resolver.entries[v.target].root # None
    /\ CheckSkew(v.issued, now)
    /\ waiting' = waiting \cup {[target |-> v.target, revoked |-> v.revoked,
                                 at |-> now, document |-> v.document]}
    /\ UNCHANGED <<now, resolver, kept, approved>>

\* Mutant: whatever document it was verified against.
WithPeerRevocationOfAnyDocument(v) ==
    /\ resolver' = [resolver EXCEPT !.peer = @ \cup {v}]
    /\ waiting' \in {waiting, waiting \ {v}}
    /\ UNCHANGED <<now, kept, approved>>

\* Mutant: the revocation takes the place of the ones before it.
WithPeerRevocationAlone(v) ==
    /\ v.document = resolver.id
    /\ resolver' = [resolver EXCEPT !.peer = {v}]
    /\ waiting' \in {waiting, waiting \ {v}}
    /\ UNCHANGED <<now, kept, approved>>

\* with_peer_revocation, to which the caller gives the revocation or a copy.
WithPeerRevocation(v) ==
    /\ v.document = resolver.id
    /\ resolver' = [resolver EXCEPT !.peer = @ \cup {v}]
    /\ waiting' \in {waiting, waiting \ {v}}
    /\ UNCHANGED <<now, kept, approved>>

Init ==
    /\ now = 0
    /\ resolver \in Resolvers
    /\ waiting = {}
    /\ kept = None
    /\ approved = None

Next ==
    \/ Tick
    \/ \E r \in Resolvers : Adopt(r)
    \/ \E m \in Messages : Message(m)
    \/ \E a \in Approvals : Approval(a)
    \/ \E v \in Revocations : PeerRevocation(v)
    \/ \E v \in waiting : WithPeerRevocation(v)

Spec == Init /\ [][Next]_vars

-----------------------------------------------------------------------------
(* Properties.                                                             *)

\* What is verified later with the recorded time comes out as it did live, as
\* long as the document is the same: a peer revocation accepted after the
\* message, even one for the message's own device or host, does not reach back.
HistoryStands ==
    /\ kept # None /\ kept.document = resolver.id
    /\ \A v \in resolver.peer : v.at > kept.at
    => VerifyChain(resolver, kept.message, kept.at)

\* The principals a message stands on: who speaks, who vouches, and the
\* daemon a human's device is bound to.
StandsOn(m, entries) ==
    {m.cert.principal, m.device.principal}
    \cup {b.host : b \in {x \in entries[m.device.principal].bindings :
                              x.device.key = m.device.key}}

\* Once a peer revocation is in force, no message is accepted that stands on
\* the principal it freezes, or whose current root it revokes, or on the
\* device key it revokes, by whichever of the two chains it comes.
NothingCutIsAccepted ==
    [][kept' # kept =>
          \A v \in resolver.peer :
              LET m == kept'.message
                  stands == StandsOn(m, resolver.entries)
              IN  v.at <= now =>
                     /\ v.revoked = None => v.target \notin stands
                     /\ v.revoked = resolver.entries[v.target].root => v.target \notin stands
                     /\ v.target = m.device.principal => v.revoked # m.device.key]_vars

\* However late a verified peer revocation is applied, and whatever document
\* came in between, it names a principal of the document in force, and names a
\* key only of one that has keys.
PeerRevocationsFitTheDocument ==
    \A v \in resolver.peer :
        /\ v.target \in DOMAIN resolver.entries
        /\ v.revoked # None => resolver.entries[v.target].root # None

\* Whatever name a caller looks up at whatever time up to now, it finds one
\* principal at most, frozen entries and peer revocations included; and in the
\* document in force no two entries have a short id in common, those of kinds
\* this version does not know and leaves out of the resolver included.
NamesAreUnambiguous ==
    /\ \A p \in DOMAIN resolver.entries, at \in 0..now :
          LET name == resolver.entries[p].name
          IN  name # None => Cardinality(ResolveName(resolver, name, at)) <= 1
    /\ \A d \in Registries :
          d.id = resolver.id =>
              \A i, j \in DOMAIN d.entries :
                  ShortId[d.entries[i].id.key] = ShortId[d.entries[j].id.key] => i = j

\* What was cut off stays cut off until a document is adopted: neither time
\* nor a further peer revocation unfreezes a principal or brings a key back.
CutsLast ==
    [][resolver' \notin Resolvers =>
          \A p \in DOMAIN resolver.entries :
              /\ IsFrozen(resolver, p, now) => IsFrozen(resolver', p, now')
              /\ \A v \in resolver.peer :
                    IsRevoked(resolver, p, v.revoked, now)
                        => IsRevoked(resolver', p, v.revoked, now')]_vars

\* An approval that counts is of a principal that the document in force has as
\* a HUMAN, and its key and device are delegated together by the root that
\* document gives the human and to nobody else; although verify_approval takes
\* principal, kind and device from a chain verified earlier, perhaps under a
\* document where the principal was of another kind or had another root.
ApprovedAsBound ==
    [][approved' # approved =>
          LET p == kept.message.cert.principal
              e == resolver.entries[p]
          IN  /\ e.kind = "human"
              /\ \E b \in e.bindings :
                    /\ b.device.key = kept.message.device.key /\ b.device.root = e.root
                    /\ b.approval # None
                    /\ b.approval.key = approved'.key /\ b.approval.root = e.root
                    /\ \A q \in DOMAIN resolver.entries : \A c \in resolver.entries[q].bindings :
                          DeviceKeys(b) \cap DeviceKeys(c) # {} => q = p /\ c = b]_vars

-----------------------------------------------------------------------------
(* The inductive invariant.                                                *)

\* A peer revocation names what the document has.
Fits(v, r) == /\ v.target \in DOMAIN r.entries
              /\ v.revoked # None => r.entries[v.target].root # None

\* The resolver is a document with peer revocations that fit it; those waiting
\* fit the document they name, whichever is in force; and the message kept
\* verifies under the bare document it was accepted under.
IInv ==
    /\ now \in Nat
    /\ \E r \in Resolvers : resolver = [r EXCEPT !.peer = resolver.peer]
    /\ \A v \in resolver.peer : v.at \in Nat /\ Fits(v, resolver)
    /\ \A v \in waiting : /\ v.at \in Nat
                          /\ \A r \in Resolvers : r.id = v.document => Fits(v, r)
    /\ kept # None =>
          /\ kept.at \in Nat
          /\ \A r \in Resolvers : r.id = kept.document => VerifyChain(r, kept.message, kept.at)
=============================================================================

----------------------------- MODULE VerifyProofs -----------------------------
(***************************************************************************)
(* Theorems about Verify and the checks of Registry it rests on, for any   *)
(* registries, messages, approvals and revocations, and any clock.         *)
(***************************************************************************)
EXTENDS Verify, FiniteSetTheorems, TLAPS

-----------------------------------------------------------------------------
(* Resolvers.                                                              *)

\* What from_document returns.
LEMMA ResolversMeans ==
    ASSUME NEW r \in Resolvers
    PROVE  \E d \in Documents :
              /\ FromDocumentSucceeds(d) /\ r = FromDocument(d)
              /\ r = [id |-> d.id, authority |-> d.chain[1], entries |-> VerifiedEntries(d),
                      allow |-> d.allow, peer |-> {}]
BY DEF Resolvers, Registries, FromDocument

\* One id, one document.
LEMMA SameId ==
    ASSUME NEW r \in Resolvers, NEW s \in Resolvers, r.id = s.id
    PROVE  r = s
<1>1. PICK d \in Documents : FromDocumentSucceeds(d) /\ r = FromDocument(d) /\ r.id = d.id
  BY ResolversMeans
<1>2. PICK e \in Documents : FromDocumentSucceeds(e) /\ s = FromDocument(e) /\ s.id = e.id
  BY ResolversMeans
<1> QED
  BY <1>1, <1>2, DigestAssumption

\* A resolver in use, and the document it is of.
LEMMA ResolverMeans ==
    ASSUME IInv
    PROVE  \E r \in Resolvers :
              /\ r.id = resolver.id /\ r.entries = resolver.entries /\ r.peer = {}
              /\ resolver = [id |-> resolver.id, authority |-> resolver.authority,
                             entries |-> resolver.entries, allow |-> resolver.allow,
                             peer |-> resolver.peer]
<1>1. PICK r \in Resolvers : resolver = [r EXCEPT !.peer = resolver.peer]
  BY DEF IInv
<1> QED
  BY <1>1, ResolversMeans

\* An entry of a resolver is that of one entry of the document.
LEMMA EntryMeans ==
    ASSUME NEW d, NEW p \in DOMAIN VerifiedEntries(d)
    PROVE  \E i \in DOMAIN d.entries :
              /\ d.entries[i].id.key = p /\ d.entries[i].kind \in KnownKinds
              /\ VerifiedEntries(d)[p] = VerifiedEntry(d, d.entries[i])
<1> DEFINE known == {e \in Range(d.entries) : e.kind \in KnownKinds}
           e == CHOOSE x \in known : x.id.key = p
<1>1. \E x \in known : x.id.key = p
  BY DEF VerifiedEntries
<1>2. e \in known /\ e.id.key = p
  BY <1>1
<1>3. VerifiedEntries(d)[p] = VerifiedEntry(d, e)
  BY DEF VerifiedEntries
<1> HIDE DEF e
<1>4. PICK i \in DOMAIN d.entries : e = d.entries[i]
  BY <1>2 DEF Range
<1> QED
  BY <1>2, <1>3, <1>4

-----------------------------------------------------------------------------
(* Fewer peer revocations cut less.                                        *)

LEMMA FewerCuts ==
    ASSUME NEW r, NEW s, NEW at, r.entries = s.entries,
           \A v \in s.peer : v.at <= at => v \in r.peer
    PROVE  /\ \A p : IsFrozen(s, p, at) => IsFrozen(r, p, at)
           /\ \A p, k : IsRevoked(s, p, k, at) => IsRevoked(r, p, k, at)
BY DEF IsFrozen, IsRevoked

\* What verifies under some peer revocations verifies under fewer.
LEMMA VerifiesUnderFewer ==
    ASSUME NEW r, NEW s, NEW m, NEW at, r.entries = s.entries,
           \A v \in s.peer : v.at <= at => v \in r.peer,
           VerifyChain(r, m, at)
    PROVE  VerifyChain(s, m, at)
<1>1. /\ \A p : IsFrozen(s, p, at) => IsFrozen(r, p, at)
      /\ \A p, k : IsRevoked(s, p, k, at) => IsRevoked(r, p, k, at)
  BY FewerCuts
<1>2. ASSUME NEW p, DeviceCurrent(r, p, m.device, at)
      PROVE  DeviceCurrent(s, p, m.device, at)
  BY <1>1, <1>2 DEF DeviceCurrent
<1>3. VerifySelfRooted(r, m, at) => VerifySelfRooted(s, m, at)
  BY <1>1, <1>2 DEF VerifySelfRooted
<1>4. VerifyHostVouched(r, m, at) => VerifyHostVouched(s, m, at)
  BY <1>1, <1>2 DEF VerifyHostVouched
<1> QED
  BY <1>3, <1>4 DEF VerifyChain

-----------------------------------------------------------------------------
(* The inductive invariant.                                                *)

LEMMA ResolversFit ==
    ASSUME NEW r \in Resolvers
    PROVE  r = [r EXCEPT !.peer = r.peer] /\ r.peer = {}
BY ResolversMeans

LEMMA InitIInv == Init => IInv
<1> SUFFICES ASSUME Init PROVE IInv
  OBVIOUS
<1>1. now = 0 /\ resolver \in Resolvers /\ waiting = {} /\ kept = None
  BY DEF Init
<1>2. resolver = [resolver EXCEPT !.peer = resolver.peer] /\ resolver.peer = {}
  BY <1>1, ResolversFit
<1> QED
  BY <1>1, <1>2 DEF IInv

LEMMA AdoptIInv == ASSUME IInv, NEW r \in Resolvers, Adopt(r) PROVE IInv'
<1>1. resolver' = r /\ UNCHANGED <<now, waiting, kept>>
  BY DEF Adopt
<1>2. r = [r EXCEPT !.peer = r.peer] /\ r.peer = {}
  BY ResolversFit
<1>3. (\E q \in Resolvers : resolver = [q EXCEPT !.peer = resolver.peer])'
  BY <1>1, <1>2 DEF Resolvers
<1>4. (\A v \in resolver.peer : v.at \in Nat /\ Fits(v, resolver))'
  BY <1>1, <1>2
<1> QED
  BY <1>1, <1>3, <1>4 DEF IInv, Resolvers, Fits

LEMMA MessageIInv == ASSUME IInv, NEW m \in Messages, Message(m) PROVE IInv'
<1>1. /\ VerifyChain(resolver, m, now)
      /\ kept'.message = m /\ kept'.at = now /\ kept'.document = resolver.id
      /\ UNCHANGED <<now, resolver, waiting>>
  BY DEF Message
<1>2. ASSUME NEW r \in Resolvers, r.id = resolver.id
      PROVE  VerifyChain(r, m, now)
  <2>1. PICK s \in Resolvers : s.id = resolver.id /\ s.entries = resolver.entries /\ s.peer = {}
    BY ResolverMeans
  <2>2. r = s
    BY <1>2, <2>1, SameId
  <2> QED
    BY <1>1, <2>1, <2>2, VerifiesUnderFewer
<1>3. now \in Nat
  BY DEF IInv
<1> QED
  BY <1>1, <1>2, <1>3 DEF IInv, Resolvers, Fits

LEMMA PeerRevocationIInv == ASSUME IInv, NEW v \in Revocations, PeerRevocation(v) PROVE IInv'
<1> DEFINE w == [target |-> v.target, revoked |-> v.revoked, at |-> now, document |-> v.document]
<1>1. /\ v.document = resolver.id /\ Fits(v, resolver)
      /\ waiting' = waiting \cup {w} /\ UNCHANGED <<now, resolver, kept>>
  BY DEF PeerRevocation, Fits
<1>2. w.at \in Nat /\ w.document = resolver.id /\ Fits(w, resolver)
  BY <1>1 DEF IInv, Fits
<1> HIDE DEF w
<1>3. ASSUME NEW r \in Resolvers, r.id = w.document PROVE Fits(w, r)
  <2>1. PICK s \in Resolvers : s.id = resolver.id /\ s.entries = resolver.entries
    BY ResolverMeans
  <2>2. r = s
    BY <1>2, <1>3, <2>1, SameId
  <2> QED
    BY <1>2, <2>1, <2>2 DEF Fits
<1>4. \A x \in waiting' : x.at \in Nat /\ \A r \in Resolvers : r.id = x.document => Fits(x, r)
  BY <1>1, <1>2, <1>3 DEF IInv
<1> QED
  BY <1>1, <1>4 DEF IInv, Resolvers, Fits

LEMMA WithPeerRevocationIInv ==
    ASSUME IInv, NEW v \in waiting, WithPeerRevocation(v)
    PROVE  IInv'
<1>1. /\ v.document = resolver.id
      /\ resolver' = [resolver EXCEPT !.peer = @ \cup {v}]
      /\ waiting' \subseteq waiting /\ UNCHANGED <<now, kept>>
  BY DEF WithPeerRevocation
<1>2. PICK r \in Resolvers :
          /\ r.id = resolver.id /\ r.entries = resolver.entries
          /\ resolver = [id |-> resolver.id, authority |-> resolver.authority,
                         entries |-> resolver.entries, allow |-> resolver.allow,
                         peer |-> resolver.peer]
  BY ResolverMeans
<1>3. /\ resolver'.entries = resolver.entries /\ resolver'.peer = resolver.peer \cup {v}
  BY <1>1, <1>2
<1>4. PICK s \in Resolvers : resolver = [s EXCEPT !.peer = resolver.peer]
  BY DEF IInv
<1>5. resolver' = [s EXCEPT !.peer = resolver'.peer]
  BY <1>1, <1>3, <1>4, ResolversMeans
<1>6. v.at \in Nat /\ Fits(v, resolver)
  BY <1>1, <1>2 DEF IInv, Fits
<1>7. \A x \in resolver'.peer : x.at \in Nat /\ Fits(x, resolver')
  BY <1>3, <1>6 DEF IInv, Fits
<1> QED
  BY <1>1, <1>4, <1>5, <1>7 DEF IInv, Resolvers, Fits

\* Documents, messages and revocations in any order keep the invariant.
THEOREM Invariance == Spec => []IInv
<1>1. ASSUME IInv, Next PROVE IInv'
  <2>1. CASE Tick
    <3>1. now' = now + 1 /\ UNCHANGED <<resolver, waiting, kept>>
      BY <2>1 DEF Tick
    <3> QED
      BY <1>1, <3>1 DEF IInv, Resolvers, Fits
  <2>2. ASSUME NEW a \in Approvals, Approval(a) PROVE IInv'
    <3>1. UNCHANGED <<now, resolver, waiting, kept>>
      BY <2>2 DEF Approval
    <3> QED
      BY <1>1, <3>1 DEF IInv, Resolvers, Fits
  <2> QED
    BY <1>1, <2>1, <2>2, AdoptIInv, MessageIInv, PeerRevocationIInv, WithPeerRevocationIInv
    DEF Next
<1>2. ASSUME IInv, UNCHANGED vars PROVE IInv'
  <2>1. UNCHANGED <<now, resolver, waiting, kept>>
    BY <1>2 DEF vars
  <2> QED
    BY <1>2, <2>1 DEF IInv, Resolvers, Fits
<1> QED
  BY InitIInv, <1>1, <1>2, PTL DEF Spec

-----------------------------------------------------------------------------
(* The properties.                                                         *)

\* PeerRevocationsFitTheDocument: however late one is applied, the id in it ties
\* it to the document it was verified against.
THEOREM PeerRevocationsFitTheDocumentHolds == Spec => []PeerRevocationsFitTheDocument
<1>1. IInv => PeerRevocationsFitTheDocument
  BY DEF IInv, Fits, PeerRevocationsFitTheDocument
<1> QED
  BY Invariance, <1>1, PTL

\* HistoryStands: a peer revocation of after the message does not reach back.
THEOREM HistoryStandsHolds == Spec => []HistoryStands
<1>1. IInv => HistoryStands
  <2> SUFFICES ASSUME IInv, kept # None, kept.document = resolver.id,
                      \A v \in resolver.peer : v.at > kept.at
               PROVE  VerifyChain(resolver, kept.message, kept.at)
    BY DEF HistoryStands
  <2>1. PICK r \in Resolvers : r.id = resolver.id /\ r.entries = resolver.entries
    BY ResolverMeans
  <2>2. VerifyChain(r, kept.message, kept.at)
    BY <2>1 DEF IInv
  <2>3. ASSUME NEW v \in resolver.peer PROVE ~(v.at <= kept.at)
    <3>1. v.at \in Nat /\ kept.at \in Nat /\ v.at > kept.at
      BY DEF IInv
    <3> QED
      BY <3>1
  <2> QED
    BY <2>1, <2>2, <2>3, VerifiesUnderFewer
<1> QED
  BY Invariance, <1>1, PTL

\* Every revocation in force has a time that a clock passes once.
LEMMA RevokedTimes ==
    ASSUME IInv, NEW p \in DOMAIN resolver.entries, NEW x \in resolver.entries[p].revoked
    PROVE  x.at \in Int
<1>1. PICK r \in Resolvers : r.entries = resolver.entries
  BY ResolverMeans
<1>2. PICK d \in Documents : r.entries = VerifiedEntries(d)
  BY ResolversMeans
<1>3. PICK i \in DOMAIN d.entries : r.entries[p] = VerifiedEntry(d, d.entries[i])
  BY <1>1, <1>2, EntryMeans
<1>4. PICK y \in Range(d.entries[i].revocations) : x = [key |-> y.key, at |-> y.at]
  BY <1>1, <1>3 DEF VerifiedEntry
<1>5. PICK j \in DOMAIN d.entries[i].revocations : y = d.entries[i].revocations[j]
  BY <1>4 DEF Range
<1> QED
  BY <1>4, <1>5, SecondsAssumption

\* CutsLast: the clock only advances, and peer revocations are only added.
THEOREM CutsLastHolds == Spec => CutsLast
<1> DEFINE A == resolver' \notin Resolvers =>
                   \A p \in DOMAIN resolver.entries :
                       /\ IsFrozen(resolver, p, now) => IsFrozen(resolver', p, now')
                       /\ \A v \in resolver.peer :
                             IsRevoked(resolver, p, v.revoked, now)
                                 => IsRevoked(resolver', p, v.revoked, now')
<1>1. ASSUME IInv, Next, resolver' \notin Resolvers, NEW p \in DOMAIN resolver.entries
      PROVE  /\ IsFrozen(resolver, p, now) => IsFrozen(resolver', p, now')
             /\ \A k : IsRevoked(resolver, p, k, now) => IsRevoked(resolver', p, k, now')
  <2>1. /\ resolver'.entries = resolver.entries
        /\ resolver.peer \subseteq resolver'.peer
        /\ now' = now \/ now' = now + 1
    <3>1. ASSUME NEW v \in waiting, WithPeerRevocation(v)
          PROVE  /\ resolver'.entries = resolver.entries
                 /\ resolver.peer \subseteq resolver'.peer /\ now' = now
      <4>1. resolver' = [resolver EXCEPT !.peer = @ \cup {v}] /\ now' = now
        BY <3>1 DEF WithPeerRevocation
      <4>2. PICK r \in Resolvers :
                resolver = [id |-> resolver.id, authority |-> resolver.authority,
                            entries |-> resolver.entries, allow |-> resolver.allow,
                            peer |-> resolver.peer]
        BY <1>1, ResolverMeans
      <4> QED
        BY <4>1, <4>2
    <3> QED
      BY <1>1, <3>1 DEF Next, Tick, Adopt, Message, Approval, PeerRevocation
  <2>2. /\ now \in Nat /\ now' \in Nat
        /\ \A v \in resolver.peer : v.at \in Nat
        /\ \A x \in resolver.entries[p].revoked : x.at \in Int
    BY <1>1, <2>1, RevokedTimes DEF IInv
  <2>3. /\ \A v \in resolver.peer : v.at <= now => v.at <= now'
        /\ \A x \in resolver.entries[p].revoked : x.at <= now => x.at <= now'
    BY <2>1, <2>2
  <2> QED
    BY <2>1, <2>3 DEF IsFrozen, IsRevoked
<1>2. IInv /\ [Next]_vars => [A]_vars
  BY <1>1
<1> HIDE DEF A
<1>3. Spec => [][A]_vars
  BY Invariance, <1>2, PTL DEF Spec
<1> QED
  BY <1>3 DEF A, CutsLast

\* The devices of an entry have different keys; only a HUMAN has devices.
LEMMA OneBinding ==
    ASSUME NEW d, FromDocumentSucceeds(d), NEW p \in DOMAIN VerifiedEntries(d)
    PROVE  /\ VerifiedEntries(d)[p].kind # "human" => VerifiedEntries(d)[p].bindings = {}
           /\ \A x, y \in VerifiedEntries(d)[p].bindings :
                 x.device.key = y.device.key => x = y
<1>1. PICK i \in DOMAIN d.entries :
          /\ d.entries[i].kind \in KnownKinds
          /\ VerifiedEntries(d)[p] = VerifiedEntry(d, d.entries[i])
  BY EntryMeans
<1> DEFINE e == d.entries[i]
<1>2. CheckFields(e) /\ CheckKeys(d)
  BY <1>1 DEF FromDocumentSucceeds, CheckRegistry
<1>3. /\ VerifiedEntries(d)[p].kind = e.kind
      /\ \A x \in VerifiedEntries(d)[p].bindings : \E j \in DOMAIN e.devices :
            x = [device |-> e.devices[j].device, approval |-> e.devices[j].approval,
                 host |-> IF e.devices[j].host = None THEN None ELSE e.devices[j].host.key]
  BY <1>1 DEF VerifiedEntry, Range
<1>4. e.kind # "human" => VerifiedEntries(d)[p].bindings = {}
  <2>1. e.kind # "human" => DOMAIN e.devices = {}
    BY <1>2 DEF CheckFields
  <2> QED
    BY <1>3, <2>1
<1>5. ASSUME NEW x \in VerifiedEntries(d)[p].bindings, NEW y \in VerifiedEntries(d)[p].bindings,
             x.device.key = y.device.key
      PROVE  x = y
  <2>1. PICK j \in DOMAIN e.devices :
            x = [device |-> e.devices[j].device, approval |-> e.devices[j].approval,
                 host |-> IF e.devices[j].host = None THEN None ELSE e.devices[j].host.key]
    BY <1>3
  <2>2. PICK k \in DOMAIN e.devices :
            y = [device |-> e.devices[k].device, approval |-> e.devices[k].approval,
                 host |-> IF e.devices[k].host = None THEN None ELSE e.devices[k].host.key]
    BY <1>3
  <2> DEFINE Put(n) == [use |-> <<"device", n>>, key |-> e.devices[n].device.key]
  <2>3. IsSelfRooted(e)
    BY <1>1, <1>4, <1>5 DEF IsSelfRooted, KnownKinds
  <2>4. Put(j) \in KeysOf(d, e) /\ Put(k) \in KeysOf(d, e)
    BY <2>3 DEF KeysOf
  <2>5. Put(j).key = Put(k).key
    BY <1>5, <2>1, <2>2
  <2>6. Put(j) = Put(k)
    BY <1>2, <2>4, <2>5 DEF CheckKeys
  <2>7. j = k
    BY <2>6
  <2> QED
    BY <2>1, <2>2, <2>7
<1> QED
  BY <1>3, <1>4, <1>5

\* Which device of which entry a binding is, and which root delegated its keys.
LEMMA BindingMeans ==
    ASSUME NEW d, FromDocumentSucceeds(d), NEW p \in DOMAIN VerifiedEntries(d),
           NEW b \in VerifiedEntries(d)[p].bindings
    PROVE  \E i \in DOMAIN d.entries : \E j \in DOMAIN d.entries[i].devices :
              /\ d.entries[i].id.key = p /\ IsSelfRooted(d.entries[i])
              /\ VerifiedEntries(d)[p] = VerifiedEntry(d, d.entries[i])
              /\ b = [device |-> d.entries[i].devices[j].device,
                      approval |-> d.entries[i].devices[j].approval,
                      host |-> IF d.entries[i].devices[j].host = None THEN None
                               ELSE d.entries[i].devices[j].host.key]
              /\ VerifiedEntries(d)[p].kind = "human"
              /\ b.device.root = VerifiedEntries(d)[p].root
              /\ b.approval # None => b.approval.root = VerifiedEntries(d)[p].root
<1>1. PICK i \in DOMAIN d.entries :
          /\ d.entries[i].id.key = p /\ d.entries[i].kind \in KnownKinds
          /\ VerifiedEntries(d)[p] = VerifiedEntry(d, d.entries[i])
  BY EntryMeans
<1> DEFINE e == d.entries[i]
<1>2. VerifiedEntries(d)[p].kind = "human" /\ e.kind = "human" /\ IsSelfRooted(e)
  BY <1>1, OneBinding DEF VerifiedEntry, IsSelfRooted, KnownKinds
<1>3. CheckDevices(d, e)
  BY <1>1 DEF FromDocumentSucceeds, CheckRegistry
<1>4. PICK j \in DOMAIN e.devices :
          b = [device |-> e.devices[j].device, approval |-> e.devices[j].approval,
               host |-> IF e.devices[j].host = None THEN None ELSE e.devices[j].host.key]
  BY <1>1 DEF VerifiedEntry, Range
<1>5. /\ e.devices[j].device.root = e.root.signing
      /\ e.devices[j].approval # None => e.devices[j].approval.root = e.root.signing
  BY <1>3 DEF CheckDevices, CheckDelegation
<1>6. VerifiedEntries(d)[p].root = e.root.signing
  BY <1>1, <1>2 DEF VerifiedEntry
<1> QED
  BY <1>1, <1>2, <1>4, <1>5, <1>6

\* No key of a binding is in another binding of the document.
LEMMA KeysBoundOnce ==
    ASSUME NEW d, FromDocumentSucceeds(d),
           NEW p \in DOMAIN VerifiedEntries(d), NEW b \in VerifiedEntries(d)[p].bindings,
           NEW q \in DOMAIN VerifiedEntries(d), NEW c \in VerifiedEntries(d)[q].bindings,
           DeviceKeys(b) \cap DeviceKeys(c) # {}
    PROVE  q = p /\ c = b
<1> DEFINE Of(x, i, j) == x = [device |-> d.entries[i].devices[j].device,
                               approval |-> d.entries[i].devices[j].approval,
                               host |-> IF d.entries[i].devices[j].host = None THEN None
                                        ELSE d.entries[i].devices[j].host.key]
<1>1. PICK i \in DOMAIN d.entries : \E j \in DOMAIN d.entries[i].devices :
          d.entries[i].id.key = p /\ IsSelfRooted(d.entries[i]) /\ Of(b, i, j)
  BY BindingMeans
<1>2. PICK j \in DOMAIN d.entries[i].devices :
          d.entries[i].id.key = p /\ IsSelfRooted(d.entries[i]) /\ Of(b, i, j)
  BY <1>1
<1>3. PICK k \in DOMAIN d.entries : \E l \in DOMAIN d.entries[k].devices :
          d.entries[k].id.key = q /\ IsSelfRooted(d.entries[k]) /\ Of(c, k, l)
  BY BindingMeans
<1>4. PICK l \in DOMAIN d.entries[k].devices :
          d.entries[k].id.key = q /\ IsSelfRooted(d.entries[k]) /\ Of(c, k, l)
  BY <1>3
<1>5. ASSUME NEW x, NEW m \in DOMAIN d.entries, NEW n \in DOMAIN d.entries[m].devices,
             IsSelfRooted(d.entries[m]), Of(x, m, n), NEW key \in DeviceKeys(x)
      PROVE  \E u \in {"device", "device_enc", "approval"} :
                [use |-> <<u, n>>, key |-> key] \in KeysOf(d, d.entries[m])
  <2>1. CASE key = x.device.key
    BY <1>5, <2>1 DEF KeysOf
  <2>2. CASE key = x.device.enc
    BY <1>5, <2>2 DEF KeysOf
  <2>3. CASE x.approval # None /\ key = x.approval.key
    BY <1>5, <2>3 DEF KeysOf
  <2> QED
    BY <1>5, <2>1, <2>2, <2>3 DEF DeviceKeys
<1>6. PICK key : key \in DeviceKeys(b) /\ key \in DeviceKeys(c)
  OBVIOUS
<1>7. PICK u : [use |-> <<u, j>>, key |-> key] \in KeysOf(d, d.entries[i])
  BY <1>2, <1>5, <1>6
<1>8. PICK v : [use |-> <<v, l>>, key |-> key] \in KeysOf(d, d.entries[k])
  BY <1>4, <1>5, <1>6
<1>9. i = k /\ [use |-> <<u, j>>, key |-> key] = [use |-> <<v, l>>, key |-> key]
  BY <1>7, <1>8 DEF FromDocumentSucceeds, CheckRegistry, CheckKeys
<1>10. j = l
  BY <1>9
<1> QED
  BY <1>2, <1>4, <1>9, <1>10

\* ApprovedAsBound: what verify_approval does not look at again, the checks of the
\* document in force have settled.
THEOREM ApprovedAsBoundHolds == Spec => ApprovedAsBound
<1> DEFINE Bound(p, device, key) ==
             LET e == resolver.entries[p]
             IN  /\ e.kind = "human"
                 /\ \E b \in e.bindings :
                       /\ b.device.key = device /\ b.device.root = e.root
                       /\ b.approval # None
                       /\ b.approval.key = key /\ b.approval.root = e.root
                       /\ \A q \in DOMAIN resolver.entries :
                             \A c \in resolver.entries[q].bindings :
                                DeviceKeys(b) \cap DeviceKeys(c) # {} => q = p /\ c = b
           A == approved' # approved =>
                    Bound(kept.message.cert.principal, kept.message.device.key, approved'.key)
<1>1. ASSUME IInv, NEW a, Approval(a)
      PROVE  Bound(a.principal, a.device, a.key)
  <2>1. PICK d \in Documents : FromDocumentSucceeds(d) /\ resolver.entries = VerifiedEntries(d)
    BY <1>1, ResolverMeans, ResolversMeans
  <2>2. a.principal \in DOMAIN resolver.entries
    BY <1>1 DEF Approval
  <2>3. PICK b \in resolver.entries[a.principal].bindings :
            b.device.key = a.device /\ b.approval # None /\ b.approval.key = a.key
    BY <1>1 DEF Approval, BindingOf
  <2>4. /\ resolver.entries[a.principal].kind = "human"
        /\ b.device.root = resolver.entries[a.principal].root
        /\ b.approval.root = resolver.entries[a.principal].root
    BY <2>1, <2>2, <2>3, BindingMeans
  <2>5. \A q \in DOMAIN resolver.entries : \A c \in resolver.entries[q].bindings :
            DeviceKeys(b) \cap DeviceKeys(c) # {} => q = a.principal /\ c = b
    BY <2>1, <2>2, <2>3, KeysBoundOnce
  <2> QED
    BY <2>3, <2>4, <2>5
<1> HIDE DEF Bound
<1>2. ASSUME IInv, Next, approved' # approved PROVE A
  <2>1. PICK a \in Approvals : Approval(a)
    BY <1>2 DEF Next, Tick, Adopt, Message, PeerRevocation, WithPeerRevocation
  <2>2. /\ approved' = a /\ a.device = kept.message.device.key
        /\ a.principal = kept.message.cert.principal
    BY <2>1 DEF Approval
  <2> QED
    BY <1>1, <1>2, <2>1, <2>2
<1>3. IInv /\ [Next]_vars => [A]_vars
  <2>1. IInv /\ Next => A
    BY <1>2
  <2> QED
    BY <2>1
<1> HIDE DEF A
<1>4. Spec => [][A]_vars
  BY Invariance, <1>3, PTL DEF Spec
<1> QED
  BY <1>4 DEF A, Bound, ApprovedAsBound

\* A message that verifies stands on no principal that is frozen, and on a
\* device that is not revoked.
LEMMA VerifiesOnWhatStands ==
    ASSUME IInv, NEW m, NEW at, VerifyChain(resolver, m, at)
    PROVE  /\ \A p \in StandsOn(m, resolver.entries) : ~IsFrozen(resolver, p, at)
           /\ ~IsRevoked(resolver, m.device.principal, m.device.key, at)
<1>1. PICK d \in Documents : FromDocumentSucceeds(d) /\ resolver.entries = VerifiedEntries(d)
  BY ResolverMeans, ResolversMeans
<1> DEFINE daemon == m.device.principal
           bound == {x \in resolver.entries[daemon].bindings : x.device.key = m.device.key}
<1>2. /\ daemon \in DOMAIN resolver.entries
      /\ DeviceCurrent(resolver, daemon, m.device, at)
      /\ ~IsFrozen(resolver, daemon, at) /\ ~IsFrozen(resolver, m.cert.principal, at)
  <2>1. CASE VerifySelfRooted(resolver, m, at)
    BY <2>1 DEF VerifySelfRooted, DeviceCurrent
  <2>2. CASE VerifyHostVouched(resolver, m, at)
    BY <2>2 DEF VerifyHostVouched
  <2> QED
    BY <2>1, <2>2 DEF VerifyChain
<1>3. ASSUME NEW x \in bound PROVE ~IsFrozen(resolver, x.host, at)
  <2>1. resolver.entries[daemon].kind = "human"
    BY <1>1, <1>2, <1>3, OneBinding
  <2>2. PICK b \in resolver.entries[daemon].bindings :
            b.device = m.device /\ ~IsFrozen(resolver, b.host, at)
    BY <1>2, <2>1 DEF DeviceCurrent
  <2>3. x = b
    BY <1>1, <1>2, <1>3, <2>2, OneBinding
  <2> QED
    BY <2>2, <2>3
<1> QED
  BY <1>2, <1>3 DEF StandsOn, DeviceCurrent

\* NothingCutIsAccepted: what is cut off by a peer revocation in force is
\* looked at wherever the chain of a message passes.
THEOREM NothingCutIsAcceptedHolds == Spec => NothingCutIsAccepted
<1> DEFINE A == kept' # kept =>
                    \A v \in resolver.peer :
                        LET m == kept'.message
                            stands == StandsOn(m, resolver.entries)
                        IN  v.at <= now =>
                               /\ v.revoked = None => v.target \notin stands
                               /\ v.revoked = resolver.entries[v.target].root
                                      => v.target \notin stands
                               /\ v.target = m.device.principal => v.revoked # m.device.key
<1>1. ASSUME IInv, Next, kept' # kept, NEW v \in resolver.peer, v.at <= now
      PROVE  /\ v.revoked \in {None, resolver.entries[v.target].root}
                    => v.target \notin StandsOn(kept'.message, resolver.entries)
             /\ v.target = kept'.message.device.principal
                    => v.revoked # kept'.message.device.key
  <2>1. PICK m \in Messages : Message(m)
    BY <1>1 DEF Next, Tick, Adopt, Approval, PeerRevocation, WithPeerRevocation
  <2>2. kept'.message = m /\ VerifyChain(resolver, m, now)
    BY <2>1 DEF Message
  <2>3. v.target \in DOMAIN resolver.entries
    BY <1>1 DEF IInv, Fits
  <2>4. v.revoked \in {None, resolver.entries[v.target].root} => IsFrozen(resolver, v.target, now)
    BY <1>1, <2>3 DEF IsFrozen
  <2>5. IsRevoked(resolver, v.target, v.revoked, now)
    BY <1>1, <2>3 DEF IsRevoked
  <2> QED
    BY <1>1, <2>2, <2>4, <2>5, VerifiesOnWhatStands
<1>2. IInv /\ [Next]_vars => [A]_vars
  <2>1. IInv /\ Next => A
    BY <1>1
  <2> QED
    BY <2>1
<1> HIDE DEF A
<1>3. Spec => [][A]_vars
  BY Invariance, <1>2, PTL DEF Spec
<1> QED
  BY <1>3 DEF A, NothingCutIsAccepted

\* A set all of whose elements are the same has one at most.
LEMMA OneAtMost ==
    ASSUME NEW S, \A x, y \in S : x = y
    PROVE  Cardinality(S) <= 1
<1>1. CASE S = {}
  BY <1>1, FS_EmptySet
<1>2. CASE S # {}
  <2>1. PICK x \in S : S = {x}
    BY <1>2
  <2> QED
    BY <2>1, FS_Singleton
<1> QED
  BY <1>1, <1>2

\* NamesAreUnambiguous: check_registry looks at the names of all entries of known
\* kind and at the short ids of all there are, and everything a resolver lists was
\* in its document.
THEOREM NamesAreUnambiguousHolds == Spec => []NamesAreUnambiguous
<1>1. IInv => NamesAreUnambiguous
  <2> SUFFICES ASSUME IInv PROVE NamesAreUnambiguous
    OBVIOUS
  <2>1. PICK r \in Resolvers : r.entries = resolver.entries
    BY ResolverMeans
  <2>2. PICK d \in Documents : FromDocumentSucceeds(d) /\ r.entries = VerifiedEntries(d)
    BY ResolversMeans
  <2>3. CheckNames(d.entries)
    BY <2>2 DEF FromDocumentSucceeds, CheckRegistry
  <2> DEFINE e == resolver.entries
  <2>4. ASSUME NEW p \in DOMAIN e
        PROVE  \E i \in DOMAIN d.entries :
                  /\ d.entries[i].id.key = p /\ d.entries[i].kind \in KnownKinds
                  /\ e[p].name = d.entries[i].name /\ e[p].frozen = d.entries[i].frozen
    BY <2>1, <2>2, EntryMeans DEF VerifiedEntry
  <2> HIDE DEF e
  <2>5. ASSUME NEW x \in Registries, NEW i \in DOMAIN x.entries, NEW j \in DOMAIN x.entries,
               ShortId[x.entries[i].id.key] = ShortId[x.entries[j].id.key]
        PROVE  i = j
    BY <2>5 DEF Registries, FromDocumentSucceeds, CheckRegistry, CheckIds
  <2>6. ASSUME NEW name, name # None, NEW at,
               NEW p \in ResolveName(resolver, name, at), NEW q \in ResolveName(resolver, name, at)
        PROVE  p = q
    <3>1. /\ p \in DOMAIN e /\ q \in DOMAIN e /\ e[p].name = name /\ e[q].name = name
          /\ ~e[p].frozen /\ ~e[q].frozen
      BY <2>6 DEF ResolveName, IsFrozen, e
    <3>2. PICK i \in DOMAIN d.entries :
              /\ d.entries[i].id.key = p /\ d.entries[i].kind \in KnownKinds
              /\ e[p].name = d.entries[i].name /\ e[p].frozen = d.entries[i].frozen
      BY <2>4, <3>1
    <3>3. PICK j \in DOMAIN d.entries :
              /\ d.entries[j].id.key = q /\ d.entries[j].kind \in KnownKinds
              /\ e[q].name = d.entries[j].name /\ e[q].frozen = d.entries[j].frozen
      BY <2>4, <3>1
    <3>4. HoldsName(d.entries[i]) /\ HoldsName(d.entries[j])
      BY <2>6, <3>1, <3>2, <3>3 DEF HoldsName
    <3>5. i = j
      BY <2>3, <3>1, <3>2, <3>3, <3>4 DEF CheckNames
    <3> QED
      BY <3>2, <3>3, <3>5
  <2>7. ASSUME NEW p \in DOMAIN e, NEW at \in 0..now, e[p].name # None
        PROVE  Cardinality(ResolveName(resolver, e[p].name, at)) <= 1
    BY <2>6, <2>7, OneAtMost
  <2> QED
    BY <2>5, <2>7 DEF NamesAreUnambiguous, e
<1> QED
  BY Invariance, <1>1, PTL
=============================================================================

--------------------------- MODULE ReceiverProofs ---------------------------
(***************************************************************************)
(* Theorems about Receiver, for any principals, keys and lengths of the    *)
(* chains, and for any number of documents.                                *)
(***************************************************************************)
EXTENDS Receiver, TLAPS

-----------------------------------------------------------------------------
(* Prefixes.                                                               *)

\* Both ways of saying it, the code's and the library's, element by element.
LEMMA PrefixMeans ==
    ASSUME NEW S, NEW s \in Seq(S), NEW t \in Seq(S)
    PROVE  /\ IsPrefix(s, t) <=> (Len(s) <= Len(t) /\ \A i \in 1..Len(s) : s[i] = t[i])
           /\ Extends(s, t) <=> IsPrefix(s, t)
<1>1. ASSUME Len(s) <= Len(t)
      PROVE  /\ SubSeq(s, 1, Len(s)) = s
             /\ (SubSeq(t, 1, Len(s)) = s) <=> (\A i \in 1..Len(s) : s[i] = t[i])
  <2>1. SubSeq(s, 1, Len(s)) = s
    OBVIOUS
  <2>2. /\ SubSeq(t, 1, Len(s)) \in Seq(S) /\ Len(SubSeq(t, 1, Len(s))) = Len(s)
        /\ \A i \in 1..Len(s) : SubSeq(t, 1, Len(s))[i] = t[i]
    BY <1>1
  <2> QED
    BY <2>1, <2>2
<1> QED
  BY <1>1 DEF IsPrefix, Extends

LEMMA PrefixReflexive ==
    ASSUME NEW S, NEW s \in Seq(S)
    PROVE  IsPrefix(s, s)
BY PrefixMeans

LEMMA EmptyIsPrefix ==
    ASSUME NEW S, NEW s \in Seq(S), Len(s) = 0, NEW t \in Seq(S)
    PROVE  IsPrefix(s, t)
<1>1. Len(t) \in Nat /\ Len(t) >= 0
  OBVIOUS
<1>2. s = <<>>
  OBVIOUS
<1>3. SubSeq(t, 1, 0) = <<>>
  OBVIOUS
<1> QED
  BY <1>1, <1>2, <1>3 DEF IsPrefix

LEMMA PrefixTransitive ==
    ASSUME NEW S, NEW s \in Seq(S), NEW t \in Seq(S), NEW u \in Seq(S),
           IsPrefix(s, t), IsPrefix(t, u)
    PROVE  IsPrefix(s, u)
<1>1. Len(s) \in Nat /\ Len(t) \in Nat /\ Len(u) \in Nat
  OBVIOUS
<1> QED
  BY <1>1, PrefixMeans

\* Two beginnings of one chain are a beginning of each other.
LEMMA PrefixesCompare ==
    ASSUME NEW S, NEW s \in Seq(S), NEW t \in Seq(S), NEW u \in Seq(S),
           IsPrefix(s, u), IsPrefix(t, u)
    PROVE  IsPrefix(s, t) \/ IsPrefix(t, s)
<1>1. Len(s) \in Nat /\ Len(t) \in Nat
  OBVIOUS
<1> QED
  BY <1>1, PrefixMeans

-----------------------------------------------------------------------------
(* Chains.                                                                 *)

LEMMA SeqOfMeans ==
    ASSUME NEW S, NEW n \in Nat, NEW s \in SeqOf(S, n)
    PROVE  s \in Seq(S) /\ Len(s) \in Nat /\ \A i \in 1..Len(s) : s[i] \in S
<1>1. PICK m \in 0..n : s \in [1..m -> S]
  BY DEF SeqOf
<1>2. m \in Nat
  OBVIOUS
<1>3. s \in Seq(S)
  BY <1>1, <1>2
<1> QED
  BY <1>3

\* What rotation_roots returns: one root more than there are rotations, from
\* the genesis key on, and no root twice if it succeeds.
LEMMA RotationRootsMeans ==
    ASSUME NEW g \in Keys, NEW r \in Rotations
    PROVE  /\ RotationRoots(g, r) \in Seq(Keys)
           /\ RotationRoots(g, r) # <<>>
           /\ RotationRoots(g, r)[1] = g
           /\ IsChain(g, r) => IsLine(g, RotationRoots(g, r))
<1> DEFINE news == [i \in 1..Len(r) |-> r[i].new]
           roots == RotationRoots(g, r)
<1>1. /\ Len(r) \in Nat
      /\ \A i \in 1..Len(r) : r[i].new \in Keys
  <2> DEFINE Rotation == [old : Keys, new : Keys]
  <2>1. r \in SeqOf(Rotation, MaxRotations)
    BY DEF Rotations
  <2>2. \A x \in Rotation : x.new \in Keys
    OBVIOUS
  <2> HIDE DEF Rotation
  <2>3. /\ r \in Seq(Rotation) /\ Len(r) \in Nat
        /\ \A i \in 1..Len(r) : r[i] \in Rotation
    BY <2>1, SeqOfMeans, KeysAssumption
  <2> QED
    BY <2>2, <2>3
<1>2. /\ news \in Seq(Keys) /\ Len(news) = Len(r)
      /\ \A i \in 1..Len(r) : news[i] = r[i].new
  <2>1. news \in [1..Len(r) -> Keys]
    BY <1>1
  <2>2. news \in Seq(Keys) /\ Len(news) = Len(r)
    BY <1>1, <2>1
  <2> QED
    BY <2>2
<1>3. <<g>> \in Seq(Keys) /\ Len(<<g>>) = 1 /\ <<g>>[1] = g
  OBVIOUS
<1>4. roots = <<g>> \o news
  BY DEF RotationRoots
<1> HIDE DEF news, roots
<1>5. roots \in Seq(Keys) /\ Len(roots) = Len(r) + 1
  BY <1>1, <1>2, <1>3, <1>4
<1>6. roots[1] = g /\ \A i \in 2..Len(roots) : roots[i] = r[i - 1].new
  <2>1. roots[1] = <<g>>[1]
    BY <1>1, <1>2, <1>3, <1>4, <1>5
  <2>2. \A i \in 2..Len(roots) : i - 1 \in 1..Len(r) /\ roots[i] = news[i - 1]
    BY <1>1, <1>2, <1>3, <1>4, <1>5
  <2> QED
    BY <1>2, <1>3, <2>1, <2>2
<1>7. roots # <<>>
  BY <1>1, <1>5
<1>8. ASSUME IsChain(g, r), NEW i \in 1..Len(roots), NEW j \in 1..Len(roots), i < j
      PROVE  roots[i] # roots[j]
  <2>1. j \in 2..Len(roots) /\ j - 1 \in 1..Len(r) /\ roots[j] = r[j - 1].new
    BY <1>1, <1>5, <1>6, <1>8
  <2>2. CASE i = 1
    BY <1>6, <1>8, <2>1, <2>2 DEF IsChain
  <2>3. CASE i # 1
    <3>1. i - 1 \in 1..(j - 1 - 1) /\ roots[i] = r[i - 1].new
      BY <1>1, <1>5, <1>6, <1>8, <2>1, <2>3
    <3> QED
      BY <1>8, <2>1, <3>1 DEF IsChain
  <2> QED
    BY <2>2, <2>3
<1>9. IsChain(g, r) => IsLine(g, roots)
  <2> SUFFICES ASSUME IsChain(g, r), NEW i \in 1..Len(roots), NEW j \in 1..Len(roots),
                      roots[i] = roots[j]
               PROVE  i = j
    BY <1>6, <1>7 DEF IsLine
  <2> QED
    BY <1>1, <1>5, <1>8
<1> QED
  BY <1>5, <1>6, <1>7, <1>9 DEF roots

LEMMA NoRotations ==
    ASSUME NEW g \in Keys
    PROVE  /\ <<>> \in Rotations /\ IsChain(g, <<>>)
           /\ RotationRoots(g, <<>>) = <<g>>
<1>1. <<>> \in Rotations
  BY KeysAssumption DEF Rotations, SeqOf
<1>2. IsChain(g, <<>>)
  BY DEF IsChain
<1>3. [i \in 1..Len(<<>>) |-> <<>>[i].new] = <<>>
  OBVIOUS
<1>4. <<g>> \o <<>> = <<g>>
  OBVIOUS
<1> QED
  BY <1>1, <1>2, <1>3, <1>4 DEF RotationRoots

-----------------------------------------------------------------------------
(* Sets of accepted chains.                                                *)

\* What comes back from to_proto and from_proto.
LEMMA RoundTripMeans ==
    ASSUME NEW known
    PROVE  FromProto(ToProto(known)) =
              [id \in DOMAIN known |-> [kind |-> known[id].kind,
                                        roots |-> RotationRoots(id, known[id].rotations),
                                        rotations |-> known[id].rotations]]
BY DEF FromProto, ToProto

\* The chains of a set that round-trips are lines of different roots.
LEMMA RoundTripLines ==
    ASSUME NEW known, IsEntries(known), RoundTrips(known), NEW id \in DOMAIN known
    PROVE  /\ known[id].roots = RotationRoots(id, known[id].rotations)
           /\ known[id].roots \in Seq(Keys) /\ known[id].rotations \in Rotations
           /\ known[id].kind \in Kinds
           /\ IsChain(id, known[id].rotations)
           /\ IsLine(id, known[id].roots)
<1>1. /\ id \in Keys /\ known[id].roots \in Seq(Keys)
      /\ known[id].rotations \in Rotations /\ known[id].kind \in Kinds
  BY DEF IsEntries, EntryType, Keys
<1>2. known[id].roots = RotationRoots(id, known[id].rotations)
  BY RoundTripMeans DEF RoundTrips
<1>3. IsChain(id, known[id].rotations)
  BY DEF RoundTrips
<1> QED
  BY <1>1, <1>2, <1>3, RotationRootsMeans

\* What check_registry and VerifiedEntry make of an entry.
IsVerified(id, e) ==
    /\ e \in EntryType
    /\ IsChain(id, e.rotations)
    /\ \/ e.roots = <<>> /\ e.rotations = <<>>
       \/ e.roots # <<>> /\ e.roots = RotationRoots(id, e.rotations)

LEMMA EntriesAreVerified ==
    ASSUME NEW registry \in Registries
    PROVE  /\ IsEntries(VerifiedEntries(registry))
           /\ \A id \in DOMAIN VerifiedEntries(registry) :
                 IsVerified(id, VerifiedEntries(registry)[id])
<1>1. DOMAIN registry \subseteq Principals
      /\ \A id \in DOMAIN registry : registry[id] \in CheckedEntries[id]
  BY DEF Registries
<1> DEFINE entries == VerifiedEntries(registry)
<1>2. DOMAIN entries \subseteq DOMAIN registry
  BY DEF VerifiedEntries
<1>3. ASSUME NEW id \in DOMAIN entries
      PROVE  IsVerified(id, entries[id])
  <2> DEFINE e == registry[id]
  <2>1. id \in DOMAIN registry /\ id \in Principals /\ id \in Keys
    BY <1>1, <1>2 DEF Keys
  <2>2. e \in Entries /\ CheckEntry(id, e)
    BY <1>1, <2>1 DEF CheckedEntries
  <2>3. e.rotations \in Rotations /\ e.kind \in Kinds
    BY <2>2 DEF Entries, VerifiedEntries
  <2>4. entries[id] = [kind |-> e.kind,
                       roots |-> IF IsSelfRooted(e) THEN RotationRoots(id, e.rotations) ELSE <<>>,
                       rotations |-> e.rotations]
    BY DEF VerifiedEntries
  <2>5. e.kind # "unknown"
    BY <2>3 DEF Kinds
  <2> HIDE DEF e, entries
  <2>6. CASE IsSelfRooted(e)
    <3>1. IsChain(id, e.rotations)
      BY <2>2, <2>5, <2>6 DEF CheckEntry
    <3> QED
      BY <2>1, <2>3, <2>4, <2>6, <3>1, RotationRootsMeans DEF IsVerified, EntryType
  <2>7. CASE ~IsSelfRooted(e)
    <3>1. e.rotations = <<>>
      BY <2>2, <2>5, <2>7 DEF CheckEntry
    <3> QED
      BY <2>1, <2>3, <2>4, <2>7, <3>1, NoRotations DEF IsVerified, EntryType
  <2> QED
    BY <2>6, <2>7
<1> QED
  BY <1>1, <1>2, <1>3 DEF IsEntries, IsVerified

\* check_successor: the set it returns grows from the one before and says what
\* the entries say.
LEMMA UpdatedGrows ==
    ASSUME NEW known, IsEntries(known), RoundTrips(known),
           NEW entries, IsEntries(entries),
           \A id \in DOMAIN entries : IsVerified(id, entries[id]),
           CheckSuccessor(entries, known)
    PROVE  /\ IsEntries(Updated(entries, known))
           /\ RoundTrips(Updated(entries, known))
           /\ Grows(known, Updated(entries, known))
           /\ Agree(entries, Updated(entries, known))
<1> DEFINE updated == Updated(entries, known)
           New(id) == id \in DOMAIN entries /\ (id \notin DOMAIN known \/ entries[id].roots # <<>>)
<1>1. /\ DOMAIN updated = DOMAIN known \cup DOMAIN entries
      /\ DOMAIN updated \subseteq Principals
      /\ updated = [id \in DOMAIN updated |-> updated[id]]
  BY DEF Updated, IsEntries
<1>2. \A id \in DOMAIN updated :
          updated[id] = IF New(id) THEN AsAccepted(id, entries[id]) ELSE known[id]
  BY DEF Updated
<1> HIDE DEF updated
<1>3. ASSUME NEW id \in DOMAIN updated, New(id)
      PROVE  /\ updated[id].kind = entries[id].kind
             /\ updated[id].roots = RotationRoots(id, entries[id].rotations)
             /\ updated[id].rotations = entries[id].rotations
             /\ updated[id] = [kind |-> updated[id].kind, roots |-> updated[id].roots,
                               rotations |-> updated[id].rotations]
             /\ entries[id].roots # <<>> => updated[id].roots = entries[id].roots
             /\ updated[id] \in EntryType
             /\ IsChain(id, updated[id].rotations)
  <2>1. id \in Keys /\ IsVerified(id, entries[id])
    BY <1>1, <1>3 DEF Keys
  <2>2. updated[id] = AsAccepted(id, entries[id])
    BY <1>2, <1>3
  <2>3. entries[id].rotations \in Rotations /\ entries[id].kind \in Kinds
    BY <2>1 DEF IsVerified, EntryType
  <2>4. CASE entries[id].roots = <<>>
    <3>1. entries[id].rotations = <<>>
      BY <2>1, <2>4 DEF IsVerified
    <3>2. updated[id] = [kind |-> entries[id].kind, roots |-> <<id>>,
                         rotations |-> entries[id].rotations]
      BY <2>2, <2>4 DEF AsAccepted
    <3>3. RotationRoots(id, entries[id].rotations) = <<id>>
      BY <2>1, <3>1, NoRotations
    <3> QED
      BY <2>1, <2>3, <2>4, <3>2, <3>3 DEF EntryType, IsVerified
  <2>5. CASE entries[id].roots # <<>>
    <3>1. updated[id] = [kind |-> entries[id].kind, roots |-> entries[id].roots,
                         rotations |-> entries[id].rotations]
      BY <2>2, <2>5 DEF AsAccepted
    <3>2. RotationRoots(id, entries[id].rotations) = entries[id].roots
      BY <2>1, <2>5 DEF IsVerified
    <3> QED
      BY <2>1, <2>3, <2>5, <3>1, <3>2 DEF EntryType, IsVerified
  <2> QED
    BY <2>4, <2>5
<1>4. ASSUME NEW id \in DOMAIN updated, ~New(id)
      PROVE  id \in DOMAIN known /\ updated[id] = known[id]
  BY <1>1, <1>2, <1>4
<1> HIDE DEF New
<1>5. IsEntries(updated)
  BY <1>1, <1>3, <1>4 DEF IsEntries
<1>6. RoundTrips(updated)
  <2> DEFINE back == FromProto(ToProto(updated))
  <2>1. ASSUME NEW id \in DOMAIN updated
        PROVE  /\ IsChain(id, updated[id].rotations)
               /\ updated[id] = [kind |-> updated[id].kind,
                                 roots |-> RotationRoots(id, updated[id].rotations),
                                 rotations |-> updated[id].rotations]
    <3>1. CASE New(id)
      BY <1>3, <3>1
    <3>2. CASE ~New(id)
      <4>1. id \in DOMAIN known /\ updated[id] = known[id]
        BY <1>4, <3>2
      <4>2. known[id] = [kind |-> known[id].kind,
                         roots |-> RotationRoots(id, known[id].rotations),
                         rotations |-> known[id].rotations]
        BY <4>1, RoundTripMeans DEF RoundTrips
      <4> QED
        BY <4>1, <4>2 DEF RoundTrips
    <3> QED
      BY <3>1, <3>2
  <2>2. back = updated
    BY <1>1, <2>1, RoundTripMeans
  <2> QED
    BY <2>1, <2>2 DEF RoundTrips
<1>7. Grows(known, updated)
  <2> SUFFICES ASSUME NEW id \in DOMAIN known
               PROVE  /\ id \in DOMAIN updated /\ updated[id].kind = known[id].kind
                      /\ IsPrefix(known[id].roots, updated[id].roots)
    BY DEF Grows
  <2>1. id \in DOMAIN updated
    BY <1>1
  <2>2. known[id].roots \in Seq(Keys) /\ updated[id].roots \in Seq(Keys)
    BY <1>5, <2>1 DEF IsEntries, EntryType
  <2>3. CASE New(id)
    <3>1. id \in DOMAIN entries /\ entries[id].roots # <<>>
      BY <2>3 DEF New
    <3>2. entries[id].kind = known[id].kind /\ Extends(known[id].roots, entries[id].roots)
      BY <3>1 DEF CheckSuccessor
    <3> QED
      BY <1>3, <2>1, <2>2, <2>3, <3>1, <3>2, PrefixMeans
  <2>4. CASE ~New(id)
    BY <1>4, <2>1, <2>2, <2>4, PrefixReflexive
  <2> QED
    BY <2>3, <2>4
<1>8. Agree(entries, updated)
  <2> SUFFICES ASSUME NEW id \in DOMAIN entries
               PROVE  /\ id \in DOMAIN updated /\ updated[id].kind = entries[id].kind
                      /\ entries[id].roots # <<>> => updated[id].roots = entries[id].roots
    BY DEF Agree
  <2>1. id \in DOMAIN updated
    BY <1>1
  <2>2. CASE New(id)
    BY <1>3, <2>1, <2>2
  <2>3. CASE ~New(id)
    <3>1. id \in DOMAIN known /\ entries[id].roots = <<>> /\ updated[id] = known[id]
      BY <1>4, <2>1, <2>3 DEF New
    <3> QED
      BY <2>1, <3>1 DEF CheckSuccessor
  <2> QED
    BY <2>2, <2>3
<1> QED
  BY <1>5, <1>6, <1>7, <1>8 DEF updated

-----------------------------------------------------------------------------
(* The inductive invariant.                                                *)

LEMMA InitIInv == Init => IInv
<1> SUFFICES ASSUME Init PROVE IInv
  OBVIOUS
<1>1. /\ chain = <<Authority>> /\ accepted = <<>> /\ resolver = None
      /\ latest = None /\ todo = {} /\ shown = {}
  BY DEF Init
<1>2. chain \in Seq(Keys) /\ IsLine(Authority, chain)
  BY <1>1 DEF IsLine, Keys
<1>3. DOMAIN accepted = {}
  BY <1>1
<1>4. FromProto(ToProto(accepted)) = accepted
  <2>1. DOMAIN FromProto(ToProto(accepted)) = {}
    BY <1>3, RoundTripMeans
  <2>2. accepted = [id \in {} |-> <<>>]
    BY <1>1
  <2> QED
    BY <1>3, <2>1, <2>2, RoundTripMeans
<1>5. IsEntries(accepted) /\ RoundTrips(accepted)
  BY <1>3, <1>4 DEF IsEntries, RoundTrips
<1> QED
  BY <1>1, <1>2, <1>5 DEF IInv, TypeOK, LatestInv, TodoInv, ShownInv

\* A document that passes every check continues the chain on disk, and the set
\* that goes with it grows from the one on disk.
LEMMA ReceiveIInv == IInv /\ Receive => IInv'
<1> SUFFICES ASSUME IInv, Receive PROVE IInv'
  OBVIOUS
<1> DEFINE Passes(signer, rotations, signing) ==
              /\ VerifySignedDocument(signer, rotations, signing)
              /\ \E registry \in Registries :
                    LET entries == VerifiedEntries(registry)
                    IN  /\ CheckSuccessor(entries, accepted)
                        /\ latest' = [roots |-> RotationRoots(signer, rotations),
                                      entries |-> entries,
                                      updated |-> Updated(entries, accepted)]
<1>0. PICK signer \in {Authority} \cup Principals :
          \E rotations \in Chains[signer] : \E signing \in Keys :
              Passes(signer, rotations, signing)
  BY DEF Receive
<1>1. PICK rotations \in Chains[signer] : \E signing \in Keys :
          Passes(signer, rotations, signing)
  BY <1>0
<1>2. PICK registry \in Registries :
          /\ CheckSuccessor(VerifiedEntries(registry), accepted)
          /\ latest' = [roots |-> RotationRoots(signer, rotations),
                        entries |-> VerifiedEntries(registry),
                        updated |-> Updated(VerifiedEntries(registry), accepted)]
  BY <1>1
<1>3. todo' = Steps /\ UNCHANGED <<chain, accepted, resolver, shown>>
  BY DEF Receive
<1>4. /\ signer = Authority /\ signer \in Keys
      /\ rotations \in Rotations /\ IsChain(signer, rotations)
      /\ Extends(chain, RotationRoots(signer, rotations))
  BY <1>1 DEF VerifySignedDocument, Chains, Keys
<1>5. chain \in Seq(Keys) /\ IsEntries(accepted) /\ RoundTrips(accepted)
  BY DEF IInv, TypeOK
<1>6. /\ latest'.roots \in Seq(Keys) /\ IsLine(Authority, latest'.roots)
      /\ IsPrefix(chain, latest'.roots)
  BY <1>2, <1>4, <1>5, RotationRootsMeans, PrefixMeans
<1>7. /\ IsEntries(VerifiedEntries(registry))
      /\ \A id \in DOMAIN VerifiedEntries(registry) :
            IsVerified(id, VerifiedEntries(registry)[id])
  BY EntriesAreVerified
<1>8. /\ latest'.entries = VerifiedEntries(registry)
      /\ latest'.updated = Updated(VerifiedEntries(registry), accepted)
  BY <1>2
<1>9. /\ IsEntries(latest'.entries) /\ IsEntries(latest'.updated)
      /\ RoundTrips(latest'.updated)
      /\ Grows(accepted, latest'.updated) /\ Agree(latest'.entries, latest'.updated)
  BY <1>2, <1>5, <1>7, <1>8, UpdatedGrows
<1>10. TypeOK'
  BY <1>3, <1>6, <1>9 DEF IInv, TypeOK, IsEntries
<1>11. LatestInv' /\ TodoInv'
  BY <1>3, <1>6, <1>9 DEF LatestInv, TodoInv, Steps, IsEntries, RoundTrips, Agree, Grows
<1>12. ShownInv'
  BY <1>3 DEF IInv, ShownInv
<1> QED
  BY <1>3, <1>10, <1>11, <1>12 DEF IInv, RoundTrips

\* What the receiver is about to write is there, and in order.
LEMMA AboutToWrite ==
    ASSUME IInv, todo # {}
    PROVE  /\ latest.roots \in Seq(Keys)
           /\ IsEntries(latest.entries) /\ IsEntries(latest.updated)
           /\ IsLine(Authority, latest.roots) /\ IsPrefix(chain, latest.roots)
           /\ RoundTrips(latest.updated)
           /\ Agree(latest.entries, latest.updated)
           /\ Grows(accepted, latest.updated)
           /\ chain \in Seq(Keys) /\ IsEntries(accepted)
BY DEF IInv, LatestInv, TypeOK

\* Every line in use has a sequence of keys.
LEMMA ShownTyped ==
    ASSUME IInv, NEW l \in shown
    PROVE  l.id \in Keys /\ l.roots \in Seq(Keys)
BY DEF IInv, TypeOK

LEMMA PersistChainIInv == IInv /\ PersistChain => IInv'
<1> SUFFICES ASSUME IInv, PersistChain PROVE IInv'
  OBVIOUS
<1>1. /\ "chain" \in todo /\ todo' = todo \ {"chain"} /\ chain' = latest.roots
      /\ UNCHANGED <<accepted, resolver, latest, shown>>
  BY DEF PersistChain
<1>2. /\ latest.roots \in Seq(Keys) /\ IsLine(Authority, latest.roots)
      /\ IsPrefix(chain, latest.roots) /\ chain \in Seq(Keys)
  BY <1>1, AboutToWrite
<1>3. TypeOK'
  BY <1>1, <1>2 DEF IInv, TypeOK, IsEntries
<1>4. IsPrefix(latest.roots, latest.roots)
  BY <1>2, PrefixReflexive
<1>5. LatestInv'
  BY <1>1, <1>4 DEF IInv, LatestInv, IsEntries, RoundTrips, Agree, Grows
<1>6. TodoInv'
  BY <1>1 DEF IInv, TodoInv
<1>7. ASSUME NEW l \in shown, l.id = Authority
      PROVE  l.kind = "human" /\ IsPrefix(l.roots, latest.roots)
  <2>1. IsPrefix(l.roots, chain) /\ l.kind = "human"
    BY <1>7 DEF IInv, ShownInv
  <2> QED
    BY <1>2, <2>1, ShownTyped, PrefixTransitive
<1>8. ShownInv'
  BY <1>1, <1>7 DEF IInv, ShownInv
<1> QED
  BY <1>1, <1>2, <1>3, <1>5, <1>6, <1>8 DEF IInv, RoundTrips

LEMMA PersistAcceptedIInv == IInv /\ PersistAccepted => IInv'
<1> SUFFICES ASSUME IInv, PersistAccepted PROVE IInv'
  OBVIOUS
<1>1. /\ "accepted" \in todo /\ todo' = todo \ {"accepted"} /\ accepted' = latest.updated
      /\ UNCHANGED <<chain, resolver, latest, shown>>
  BY DEF PersistAccepted
<1>2. /\ IsEntries(latest.updated) /\ RoundTrips(latest.updated)
      /\ Grows(accepted, latest.updated) /\ IsEntries(accepted)
  BY <1>1, AboutToWrite
<1>3. TypeOK'
  BY <1>1, <1>2 DEF IInv, TypeOK, IsEntries
<1>4. Grows(latest.updated, latest.updated)
  BY <1>2, PrefixReflexive DEF Grows, IsEntries, EntryType
<1>5. LatestInv'
  BY <1>1, <1>4 DEF IInv, LatestInv, IsEntries, RoundTrips, Agree, Grows
<1>6. TodoInv'
  BY <1>1 DEF IInv, TodoInv
<1>7. ASSUME NEW l \in shown, l.id # Authority
      PROVE  /\ l.id \in DOMAIN latest.updated
             /\ l.kind = latest.updated[l.id].kind
             /\ IsPrefix(l.roots, latest.updated[l.id].roots)
  <2>1. /\ l.id \in DOMAIN accepted /\ l.kind = accepted[l.id].kind
        /\ IsPrefix(l.roots, accepted[l.id].roots)
    BY <1>7 DEF IInv, ShownInv
  <2>2. /\ l.id \in DOMAIN latest.updated /\ latest.updated[l.id].kind = accepted[l.id].kind
        /\ IsPrefix(accepted[l.id].roots, latest.updated[l.id].roots)
    BY <1>2, <2>1 DEF Grows
  <2>3. accepted[l.id].roots \in Seq(Keys) /\ latest.updated[l.id].roots \in Seq(Keys)
    BY <1>2, <2>1, <2>2 DEF IsEntries, EntryType
  <2> QED
    BY <2>1, <2>2, <2>3, ShownTyped, PrefixTransitive
<1>8. ShownInv'
  BY <1>1, <1>7 DEF IInv, ShownInv
<1> QED
  BY <1>1, <1>2, <1>3, <1>5, <1>6, <1>8 DEF IInv, RoundTrips

\* Both writes are done, so the lines the new resolver shows are those on disk.
LEMMA AdoptIInv == IInv /\ Adopt => IInv'
<1> SUFFICES ASSUME IInv, Adopt PROVE IInv'
  OBVIOUS
<1> DEFINE entries == latest.entries
           own == Line(Authority, "human", latest.roots)
           others == {Line(id, entries[id].kind, entries[id].roots) : id \in DOMAIN entries}
<1>1. /\ todo = {"adopt"} /\ todo' = {} /\ resolver' = entries
      /\ shown' = (shown \cup {own}) \cup others
      /\ UNCHANGED <<chain, accepted, latest>>
  BY DEF Adopt
<1>2. chain = latest.roots /\ accepted = latest.updated
  BY <1>1 DEF IInv, TodoInv
<1>3. /\ chain \in Seq(Keys) /\ IsEntries(entries) /\ IsEntries(accepted)
      /\ Agree(entries, accepted)
  BY <1>1, <1>2, AboutToWrite
<1>4. Authority \in Keys /\ Authority \notin DOMAIN entries
  BY <1>3, KeysAssumption DEF IsEntries, Keys
<1>5. /\ own.id = Authority /\ own.kind = "human" /\ own.roots = chain
      /\ own \in [id : Keys, kind : Kinds \cup {"human"}, roots : Seq(Keys)]
  BY <1>2, <1>3, <1>4 DEF Line
<1>6. \A l \in others : \E id \in DOMAIN entries :
          l = Line(id, entries[id].kind, entries[id].roots)
  OBVIOUS
<1> HIDE DEF entries, own, others
<1>7. ASSUME NEW l \in others
      PROVE  /\ l \in [id : Keys, kind : Kinds \cup {"human"}, roots : Seq(Keys)]
             /\ l.id # Authority
             /\ l.id \in DOMAIN accepted /\ l.kind = accepted[l.id].kind
             /\ IsPrefix(l.roots, accepted[l.id].roots)
             /\ l.id \in DOMAIN entries /\ l.roots = entries[l.id].roots
  <2>1. PICK id \in DOMAIN entries : l = Line(id, entries[id].kind, entries[id].roots)
    BY <1>6
  <2>2. l.id = id /\ l.kind = entries[id].kind /\ l.roots = entries[id].roots
    BY <2>1 DEF Line
  <2>3. id \in Keys /\ entries[id].kind \in Kinds /\ entries[id].roots \in Seq(Keys)
    BY <1>3 DEF IsEntries, EntryType, Keys
  <2>4. /\ id \in DOMAIN accepted /\ accepted[id].kind = entries[id].kind
        /\ entries[id].roots # <<>> => accepted[id].roots = entries[id].roots
    BY <1>3 DEF Agree
  <2>5. accepted[id].roots \in Seq(Keys)
    BY <1>3, <2>4 DEF IsEntries, EntryType
  <2>6. IsPrefix(entries[id].roots, accepted[id].roots)
    <3>1. CASE entries[id].roots = <<>>
      <4>1. Len(entries[id].roots) = 0
        BY <3>1
      <4> QED
        BY <2>3, <2>5, <4>1, EmptyIsPrefix
    <3>2. CASE entries[id].roots # <<>>
      BY <2>4, <2>5, <3>2, PrefixReflexive
    <3> QED
      BY <3>1, <3>2
  <2>7. l \in [id : Keys, kind : Kinds \cup {"human"}, roots : Seq(Keys)]
    BY <2>1, <2>3 DEF Line
  <2> QED
    BY <1>4, <2>2, <2>4, <2>6, <2>7
<1>8. TypeOK'
  <2>1. IsEntries(resolver)'
    BY <1>1, <1>3 DEF IsEntries
  <2>2. shown' \subseteq [id : Keys, kind : Kinds \cup {"human"}, roots : Seq(Keys)]
    BY <1>1, <1>5, <1>7 DEF IInv, TypeOK
  <2> QED
    BY <1>1, <2>1, <2>2 DEF IInv, TypeOK, IsEntries
<1>9. LatestInv' /\ TodoInv'
  BY <1>1 DEF IInv, LatestInv, TodoInv, IsEntries, RoundTrips, Agree, Grows
<1>10. ASSUME NEW l \in shown'
       PROVE  /\ l.id = Authority => l.kind = "human" /\ IsPrefix(l.roots, chain)
              /\ l.id # Authority => /\ l.id \in DOMAIN accepted
                                     /\ l.kind = accepted[l.id].kind
                                     /\ IsPrefix(l.roots, accepted[l.id].roots)
  <2>1. CASE l \in shown
    BY <2>1 DEF IInv, ShownInv
  <2>2. CASE l = own
    BY <1>3, <1>5, <2>2, PrefixReflexive
  <2>3. CASE l \in others
    BY <1>7, <2>3
  <2> QED
    BY <1>1, <2>1, <2>2, <2>3
<1>11. ASSUME NEW l \in shown', l.id \in DOMAIN entries, entries[l.id].roots # <<>>
       PROVE  IsPrefix(l.roots, entries[l.id].roots)
  <2>1. l.id # Authority
    BY <1>4, <1>11
  <2>2. accepted[l.id].roots = entries[l.id].roots
    BY <1>3, <1>11 DEF Agree
  <2> QED
    BY <1>10, <2>1, <2>2
<1>12. ShownInv'
  BY <1>1, <1>10, <1>11 DEF ShownInv
<1> QED
  BY <1>1, <1>8, <1>9, <1>12 DEF IInv, RoundTrips

\* What comes back is what was there.
LEMMA RestartIInv == IInv /\ Restart => IInv'
<1> SUFFICES ASSUME IInv, Restart PROVE IInv'
  OBVIOUS
<1>1. /\ accepted' = accepted /\ resolver' = None /\ todo' = {}
      /\ UNCHANGED <<chain, latest, shown>>
  BY DEF Restart, IInv, RoundTrips
<1>2. TypeOK'
  BY <1>1 DEF IInv, TypeOK, IsEntries
<1>3. LatestInv' /\ TodoInv' /\ ShownInv'
  BY <1>1 DEF IInv, LatestInv, TodoInv, ShownInv, IsEntries, RoundTrips, Agree, Grows
<1> QED
  BY <1>1, <1>2, <1>3 DEF IInv, RoundTrips

LEMMA StutterIInv == IInv /\ UNCHANGED vars => IInv'
<1> SUFFICES ASSUME IInv, UNCHANGED vars PROVE IInv'
  OBVIOUS
<1>1. UNCHANGED <<chain, accepted, resolver, latest, todo, shown>>
  BY DEF vars
<1> QED
  BY <1>1 DEF IInv, TypeOK, LatestInv, TodoInv, ShownInv, IsEntries, RoundTrips, Agree, Grows

\* Documents in any order, and restarts anywhere, keep the invariant.
THEOREM Invariance == Spec => []IInv
<1>1. IInv /\ [Next]_vars => IInv'
  BY ReceiveIInv, PersistChainIInv, PersistAcceptedIInv, AdoptIInv, RestartIInv, StutterIInv
  DEF Next
<1> QED
  BY InitIInv, <1>1, PTL DEF Spec

\* Every variable keeps its type.
THEOREM TypeCorrect == Spec => []TypeOK
<1>1. IInv => TypeOK
  BY DEF IInv
<1> QED
  BY Invariance, <1>1, PTL

-----------------------------------------------------------------------------
(* The properties.                                                         *)

\* NoForkNoRewind: what a resolver in use says of a principal continues what
\* any earlier one said, because what is persisted does.
THEOREM NoForkNoRewindHolds == Spec => []NoForkNoRewind
<1>1. IInv => NoForkNoRewind
  <2> SUFFICES ASSUME IInv PROVE NoForkNoRewind
    OBVIOUS
  <2>1. ASSUME resolver # None, NEW l \in Rooted, l.id \in DOMAIN resolver,
               resolver[l.id].roots # <<>>
        PROVE  IsPrefix(l.roots, resolver[l.id].roots)
    BY <2>1 DEF IInv, ShownInv, Rooted
  <2>2. ASSUME NEW l \in shown, NEW m \in shown, l.id = m.id
        PROVE  l.kind = m.kind /\ (IsPrefix(l.roots, m.roots) \/ IsPrefix(m.roots, l.roots))
    <3>1. l.roots \in Seq(Keys) /\ m.roots \in Seq(Keys)
      BY ShownTyped
    <3>2. CASE l.id = Authority
      <4>1. /\ l.kind = "human" /\ IsPrefix(l.roots, chain)
            /\ m.kind = "human" /\ IsPrefix(m.roots, chain)
        BY <2>2, <3>2 DEF IInv, ShownInv
      <4>2. chain \in Seq(Keys)
        BY DEF IInv, TypeOK
      <4> QED
        BY <3>1, <4>1, <4>2, PrefixesCompare
    <3>3. CASE l.id # Authority
      <4>1. /\ l.id \in DOMAIN accepted
            /\ l.kind = accepted[l.id].kind /\ IsPrefix(l.roots, accepted[l.id].roots)
            /\ m.kind = accepted[l.id].kind /\ IsPrefix(m.roots, accepted[l.id].roots)
        BY <2>2, <3>3 DEF IInv, ShownInv
      <4>2. accepted[l.id].roots \in Seq(Keys)
        BY <4>1 DEF IInv, TypeOK, IsEntries, EntryType
      <4> QED
        BY <3>1, <4>1, <4>2, PrefixesCompare
    <3> QED
      BY <3>2, <3>3
  <2> QED
    BY <2>1, <2>2 DEF NoForkNoRewind
<1> QED
  BY Invariance, <1>1, PTL

\* RestartForgetsNothing: from_proto takes what to_proto wrote and gives back
\* the same set.
THEOREM RestartForgetsNothingHolds == Spec => []RestartForgetsNothing
<1>1. IInv => RestartForgetsNothing
  <2> SUFFICES ASSUME IInv PROVE RestartForgetsNothing
    OBVIOUS
  <2>1. /\ accepted = FromProto(ToProto(accepted))
        /\ \A id \in DOMAIN accepted : IsChain(id, accepted[id].rotations)
    BY DEF IInv, RoundTrips
  <2>2. /\ DOMAIN ToProto(accepted) = DOMAIN accepted
        /\ \A id \in DOMAIN accepted :
              ToProto(accepted)[id].rotations = accepted[id].rotations
    BY DEF ToProto
  <2> QED
    BY <2>1, <2>2 DEF RestartForgetsNothing, FromProtoSucceeds
<1> QED
  BY Invariance, <1>1, PTL

\* LatestIsRedeliverable: whichever of the two writes was done before the
\* crash, the document still follows what is on disk.
THEOREM LatestIsRedeliverableHolds == Spec => []LatestIsRedeliverable
<1>1. IInv => LatestIsRedeliverable
  <2> SUFFICES ASSUME IInv, latest # None
               PROVE  /\ Extends(chain, latest.roots)
                      /\ CheckSuccessor(latest.entries, accepted)
    BY DEF LatestIsRedeliverable
  <2>1. /\ latest.roots \in Seq(Keys) /\ IsEntries(latest.entries) /\ IsEntries(latest.updated)
        /\ IsPrefix(chain, latest.roots)
        /\ Agree(latest.entries, latest.updated) /\ Grows(accepted, latest.updated)
        /\ chain \in Seq(Keys) /\ IsEntries(accepted)
    BY DEF IInv, LatestInv, TypeOK
  <2>2. Extends(chain, latest.roots)
    BY <2>1, PrefixMeans
  <2>3. ASSUME NEW id \in DOMAIN latest.entries \cap DOMAIN accepted
        PROVE  /\ latest.entries[id].kind = accepted[id].kind
               /\ latest.entries[id].roots # <<>> =>
                     Extends(accepted[id].roots, latest.entries[id].roots)
    <3>1. /\ latest.updated[id].kind = latest.entries[id].kind
          /\ latest.entries[id].roots # <<>> =>
                latest.updated[id].roots = latest.entries[id].roots
      BY <2>1 DEF Agree
    <3>2. /\ latest.updated[id].kind = accepted[id].kind
          /\ IsPrefix(accepted[id].roots, latest.updated[id].roots)
      BY <2>1 DEF Grows
    <3>3. accepted[id].roots \in Seq(Keys) /\ latest.entries[id].roots \in Seq(Keys)
      BY <2>1 DEF IsEntries, EntryType
    <3> QED
      BY <3>1, <3>2, <3>3, PrefixMeans
  <2> QED
    BY <2>2, <2>3 DEF CheckSuccessor
<1> QED
  BY Invariance, <1>1, PTL

\* A root that has a successor in a beginning of a line is not its last.
LEMMA SucceededIsNotLast ==
    ASSUME NEW id, NEW s \in Seq(Keys), NEW line \in Seq(Keys),
           IsLine(id, line), IsPrefix(s, line), NEW i \in 1..Len(s), i < Len(s)
    PROVE  Last(line) # s[i]
<1>1. Len(s) <= Len(line) /\ s[i] = line[i]
  BY PrefixMeans
<1>2. Len(s) \in Nat /\ Len(line) \in Nat
  OBVIOUS
<1>3. i \in 1..Len(line) /\ Len(line) \in 1..Len(line) /\ i # Len(line)
  BY <1>1, <1>2
<1>4. line[i] # line[Len(line)]
  BY <1>3 DEF IsLine
<1> QED
  BY <1>1, <1>4 DEF Last

\* RetiredRootsStayRetired: a root that was succeeded in front of the receiver
\* is not at the end of any line it adopts, nor of the authority's chain.
THEOREM RetiredRootsStayRetiredHolds == Spec => RetiredRootsStayRetired
<1> DEFINE A == resolver' \notin {resolver, None} =>
                   \A l \in shown, i \in 1..MaxRotations : i < Len(l.roots) =>
                       /\ l.id \in DOMAIN resolver' /\ resolver'[l.id].roots # <<>>
                             => Last(resolver'[l.id].roots) # l.roots[i]
                       /\ l.id = Authority => Last(chain') # l.roots[i]
<1>1. ASSUME IInv, IInv', Next PROVE A
  <2> SUFFICES ASSUME resolver' \notin {resolver, None},
                      NEW l \in shown, NEW i \in 1..MaxRotations, i < Len(l.roots)
               PROVE  /\ l.id \in DOMAIN resolver' /\ resolver'[l.id].roots # <<>>
                            => Last(resolver'[l.id].roots) # l.roots[i]
                      /\ l.id = Authority => Last(chain') # l.roots[i]
    OBVIOUS
  <2>1. Adopt
    BY <1>1 DEF Next, Receive, PersistChain, PersistAccepted, Restart
  <2>2. /\ todo = {"adopt"} /\ resolver' = latest.entries /\ chain' = chain
        /\ accepted' = accepted /\ shown \subseteq shown'
    BY <2>1 DEF Adopt
  <2>3. l.roots \in Seq(Keys) /\ l \in shown' /\ i \in 1..Len(l.roots)
    <3>1. l.roots \in Seq(Keys) /\ l \in shown'
      BY <1>1, <2>2, ShownTyped
    <3>2. Len(l.roots) \in Nat /\ i \in Nat /\ i >= 1
      BY <3>1, KeysAssumption
    <3> QED
      BY <3>1, <3>2
  <2>4. ASSUME l.id \in DOMAIN resolver', resolver'[l.id].roots # <<>>
        PROVE  Last(resolver'[l.id].roots) # l.roots[i]
    <3>1. IsPrefix(l.roots, latest.entries[l.id].roots)
      BY <1>1, <2>2, <2>3, <2>4 DEF IInv, ShownInv
    <3>2. IsEntries(latest.updated) /\ RoundTrips(latest.updated)
          /\ Agree(latest.entries, latest.updated)
      BY <1>1, <2>2, AboutToWrite
    <3>3. l.id \in DOMAIN latest.updated
          /\ latest.updated[l.id].roots = latest.entries[l.id].roots
      BY <2>2, <2>4, <3>2 DEF Agree
    <3>4. latest.entries[l.id].roots \in Seq(Keys) /\ IsLine(l.id, latest.entries[l.id].roots)
      BY <3>2, <3>3, RoundTripLines
    <3> QED
      BY <2>2, <2>3, <3>1, <3>4, SucceededIsNotLast
  <2>5. ASSUME l.id = Authority PROVE Last(chain') # l.roots[i]
    <3>1. chain \in Seq(Keys) /\ IsLine(Authority, chain) /\ IsPrefix(l.roots, chain)
      BY <1>1, <2>5 DEF IInv, TypeOK, ShownInv
    <3> QED
      BY <2>2, <2>3, <3>1, SucceededIsNotLast
  <2> QED
    BY <2>4, <2>5
<1>2. IInv /\ IInv' /\ [Next]_vars => [A]_vars
  BY <1>1
<1> HIDE DEF A
<1>3. Spec => [][A]_vars
  BY Invariance, <1>2, PTL DEF Spec
<1> QED
  BY <1>3 DEF A, RetiredRootsStayRetired

-----------------------------------------------------------------------------
(* The refinement of RootLine.                                             *)

\* No step takes anything back from what is persisted.
LEMMA PersistedGrows ==
    ASSUME IInv, IInv', [Next]_vars
    PROVE  IsPrefix(chain, chain') /\ Grows(accepted, accepted')
<1>1. /\ chain \in Seq(Keys) /\ IsEntries(accepted)
      /\ IsPrefix(chain, chain) /\ Grows(accepted, accepted)
  <2>1. chain \in Seq(Keys) /\ IsEntries(accepted)
    BY DEF IInv, TypeOK
  <2> QED
    BY <2>1, PrefixReflexive DEF Grows, IsEntries, EntryType
<1>2. CASE PersistChain
  <2>1. chain' = latest.roots /\ accepted' = accepted /\ todo # {}
    BY <1>2 DEF PersistChain
  <2> QED
    BY <1>1, <2>1, AboutToWrite
<1>3. CASE PersistAccepted
  <2>1. accepted' = latest.updated /\ chain' = chain /\ todo # {}
    BY <1>3 DEF PersistAccepted
  <2> QED
    BY <1>1, <2>1, AboutToWrite
<1>4. CASE Receive \/ Adopt \/ Restart \/ UNCHANGED vars
  <2>1. chain' = chain /\ accepted' = accepted
    BY <1>4 DEF Receive, Adopt, Restart, vars, IInv, RoundTrips
  <2> QED
    BY <1>1, <2>1
<1> QED
  BY <1>2, <1>3, <1>4 DEF Next

\* The operator of the library, as RootLine sees it.
LEMMA SamePrefix == ASSUME NEW s, NEW t PROVE Promise!IsPrefix(s, t) <=> IsPrefix(s, t)
BY DEF IsPrefix, Promise!IsPrefix

\* ImplementsRootLine: the persisted chains are root lines, of the authority
\* and of every principal ever accepted.
THEOREM ImplementsRootLineHolds == Spec => ImplementsRootLine
<1>1. Init => Promise!Init
  <2> SUFFICES ASSUME Init, NEW id \in {Authority} \cup Principals
               PROVE  PersistedLine[id] \in {<<>>, <<id>>}
    BY DEF Promise!Init
  <2>1. chain = <<Authority>> /\ DOMAIN accepted = {}
    BY DEF Init
  <2> QED
    BY <2>1 DEF PersistedLine
<1>2. IInv /\ IInv' /\ [Next]_vars => [Promise!Extend]_PersistedLine
  <2> SUFFICES ASSUME IInv, IInv', [Next]_vars, NEW id \in {Authority} \cup Principals
               PROVE  /\ Promise!IsLine(id, PersistedLine'[id])
                      /\ IsPrefix(PersistedLine[id], PersistedLine'[id])
    BY SamePrefix DEF Promise!Extend
  <2>1. IsPrefix(chain, chain') /\ Grows(accepted, accepted')
    BY PersistedGrows
  <2>2. /\ IsEntries(accepted) /\ IsEntries(accepted') /\ RoundTrips(accepted')
        /\ chain' \in Seq(Keys) /\ IsLine(Authority, chain')
    <3>1. IsEntries(accepted')
      BY DEF IInv, TypeOK, IsEntries
    <3>2. RoundTrips(accepted')
      BY DEF IInv, RoundTrips
    <3> QED
      BY <3>1, <3>2 DEF IInv, TypeOK
  <2>3. CASE id = Authority
    <3>1. PersistedLine[id] = chain /\ PersistedLine'[id] = chain'
      BY <2>3 DEF PersistedLine
    <3> QED
      BY <2>1, <2>2, <2>3, <3>1 DEF IsLine, Promise!IsLine
  <2>4. CASE id # Authority /\ id \in DOMAIN accepted'
    <3>1. PersistedLine'[id] = accepted'[id].roots
      BY <2>4 DEF PersistedLine
    <3>2. accepted'[id].roots \in Seq(Keys) /\ IsLine(id, accepted'[id].roots)
      BY <2>2, <2>4, RoundTripLines
    <3>3. CASE id \in DOMAIN accepted
      <4>1. PersistedLine[id] = accepted[id].roots
        BY <2>4, <3>3 DEF PersistedLine
      <4> QED
        BY <2>1, <3>1, <3>2, <3>3, <4>1 DEF Grows, IsLine, Promise!IsLine
    <3>4. CASE id \notin DOMAIN accepted
      <4>1. PersistedLine[id] = <<>>
        BY <2>4, <3>4 DEF PersistedLine
      <4>2. <<>> \in Seq(Keys) /\ Len(<<>>) = 0
        OBVIOUS
      <4>3. IsPrefix(<<>>, accepted'[id].roots)
        BY <3>2, <4>2, EmptyIsPrefix
      <4> QED
        BY <3>1, <3>2, <4>1, <4>3 DEF IsLine, Promise!IsLine
    <3> QED
      BY <3>3, <3>4
  <2>5. CASE id # Authority /\ id \notin DOMAIN accepted'
    <3>1. id \notin DOMAIN accepted
      BY <2>1, <2>5 DEF Grows
    <3>2. PersistedLine[id] = <<>> /\ PersistedLine'[id] = <<>>
      BY <2>5, <3>1 DEF PersistedLine
    <3>3. <<>> \in Seq(Keys) /\ Len(<<>>) = 0
      OBVIOUS
    <3>4. IsPrefix(<<>>, <<>>)
      BY <3>3, EmptyIsPrefix
    <3> QED
      BY <3>2, <3>3, <3>4 DEF Promise!IsLine
  <2> QED
    BY <2>3, <2>4, <2>5
<1> QED
  BY Invariance, <1>1, <1>2, PTL DEF Spec, ImplementsRootLine, Promise!Spec
=============================================================================

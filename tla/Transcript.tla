----------------------------- MODULE Transcript -----------------------------
(***************************************************************************)
(* The bytes a signature covers (transcripts.rs): thirteen formats built   *)
(* from the same few field encodings.  A verifier builds the transcript of *)
(* what it is shown and compares, so a signature is good for every input   *)
(* with the same bytes.  This module encodes whole inputs, at small widths *)
(* in a small base, and looks for two that share their bytes.              *)
(*                                                                         *)
(* An input is a record with a "kind" and the fields of that kind.  Bytes  *)
(* are numbers below Base; a tag is one symbol of its own, which is what   *)
(* tags that are distinct and prefix-free come to.  Curve points are not   *)
(* modelled: a public key is any string of the right length, and one of    *)
(* another scheme is refused like one of another length.  A record's own   *)
(* signature is no field of an input: no transcript has it, but that of a  *)
(* delivery attestation has those of the certificates in its messages.     *)
(***************************************************************************)
EXTENDS Integers, Sequences, SequencesExt

CONSTANTS
    None,           \* an absent field
    Refused,        \* the result of an encoding that fails
    Base,           \* the number of byte values
    LenWidth,       \* the width of a length or a count, u32 in the code
    IntWidth,       \* the width of an integer, i64, u64 and i32 in the code
    KeyLength,      \* the length of a public key, 65 in the code
    NonceLength,    \* the length of a message nonce, 16 in the code
    DigestLength,   \* the length of a digest or document id, 32 in the code
    MaxNanos,       \* the largest nanos of an attestation, 999_999_999
    Inputs          \* what may be signed, and shown with a signature

ASSUME WidthsAssumption ==
    /\ {Base, LenWidth, IntWidth, KeyLength, NonceLength, DigestLength} \subseteq Nat \ {0}
    /\ MaxNanos \in Nat

VARIABLES
    signed,     \* the input that was signed, or None
    accepted    \* the input that was accepted with that signature, or None

vars == <<signed, accepted>>

-----------------------------------------------------------------------------
(* Fields.                                                                 *)

\* n without its last i digits.
Quotients(n, width) ==
    LET q[i \in 0..width] == IF i = 0 THEN n ELSE q[i - 1] \div Base IN q

\* Two's complement when n is negative, since \div and % round down.
BigEndian(n, width) == [i \in 1..width |-> Quotients(n, width)[width - i] % Base]

\* What an unsigned and what a signed integer of the width can be.
Unsigned(width) == {n \in Nat : Quotients(n, width)[width] = 0}
Signed(width) == {n \in Int : 2 * Quotients(n, width)[width - 1] \in -Base .. Base - 1}

\* The fields in order, unless the input is refused or a field is.
Enc(ok, fields) ==
    IF ok /\ \A i \in DOMAIN fields : fields[i] # Refused THEN FlattenSeq(fields) ELSE Refused

\* Mutant: the length is cast to its width.
VarWrapping(x) == Enc(TRUE, <<BigEndian(Len(x), LenWidth), x>>)

\* var: a length, then the bytes.  A length that does not fit is refused.
Var(x) == Enc(Len(x) \in Unsigned(LenWidth), <<BigEndian(Len(x), LenWidth), x>>)

Fixed(x, n) == IF Len(x) = n THEN x ELSE Refused

Number(n) == BigEndian(n, IntWidth)

Scheme == <<3>>

\* req and key: a key that is absent or has not the length of one is refused.
Key(k) == Enc(k # None /\ Len(k) = KeyLength, <<Scheme, Var(k)>>)

\* An optional field: 00 if it is absent, or 01 and the field.
Opt(x, field) == IF x = None THEN <<0>> ELSE Enc(TRUE, <<<<1>>, field>>)

\* A count, and each element.
List(fields) == Enc(Len(fields) \in Unsigned(LenWidth),
                    <<BigEndian(Len(fields), LenWidth), Enc(TRUE, fields)>>)

\* The tag and its NUL, then the fields.
Transcript(tag, ok, fields) == Enc(ok, <<<<tag, 0>>, Enc(TRUE, fields)>>)

-----------------------------------------------------------------------------
(* The thirteen transcripts.                                               *)

KeyChallenge(x) ==
    Transcript("key-challenge", x.audience # <<>> /\ x.nonce # <<>>,
               <<Var(x.audience), Var(x.nonce), Key(x.new)>>)

PrincipalRename(x) ==
    Transcript("principal-rename", x.nonce # <<>> /\ x.name # <<>>,
               <<Var(x.nonce), Key(x.principal), Var(x.name)>>)

Device == 2
Approval == 3

KeyDelegation(d) ==
    Transcript("key-delegation",
               /\ d.purpose \in {Device, Approval}
               /\ d.purpose = Device <=> d.encryption # None
               /\ d.root # d.delegated /\ d.encryption \notin {d.root, d.delegated},
               <<Key(d.principal), Key(d.root), <<d.purpose>>, Key(d.delegated),
                 Opt(d.encryption, Key(d.encryption)), Number(d.issued), Number(d.not_after)>>)

KeyRevocation(r) ==
    Transcript("key-revocation", TRUE,
               <<Key(r.principal), Key(r.revoked), Key(r.revoked_by), Number(r.revoked_at)>>)

RootRotation(r) ==
    Transcript("root-rotation", r.old # r.new,
               <<Key(r.principal), Key(r.old), Key(r.new), Number(r.issued)>>)

\* encode_cert_body: a certificate for the principal itself (mode 0), or of a
\* host for one of its subjects (mode 1).
CertBody(c) ==
    Enc(/\ \/ c.mode = 0 /\ c.host = None /\ c.subject = None
           \/ c.mode = 1 /\ c.host # None /\ c.subject \notin {None, <<>>}
        /\ c.device # c.session,
        <<<<c.mode>>, Key(c.principal), Opt(c.host, Key(c.host)), Opt(c.subject, Var(c.subject)),
          Key(c.device), Key(c.session), Number(c.not_before), Number(c.not_after)>>)

SessionDelegation(x) == Transcript("session-delegation", TRUE, <<CertBody(x.cert)>>)

\* Of the signer's chain, only the principal and the session key.
SignedMessage(m) ==
    Transcript("signed-message",
               /\ m.signer # None /\ m.signer.session # None
               /\ m.audience # <<>> /\ m.body_type # <<>>,
               <<Key(m.signer.session.principal), Key(m.signer.session.session), Var(m.audience),
                 Fixed(m.nonce, NonceLength), Number(m.issued),
                 Opt(m.in_reply_to, Fixed(m.in_reply_to, NonceLength)),
                 Var(m.body_type), Var(m.body)>>)

\* All but the signer's rotations.
SignedDocument(d) ==
    Transcript("signed-document", d.document_type # <<>>,
               <<Key(d.signer), Key(d.signing), Var(d.document_type), Number(d.version),
                 Number(d.issued), Number(d.expires), Var(d.body)>>)

ApprovalOf(a) ==
    Transcript("approval", a.approval_key # a.device /\ a.audience # <<>>,
               <<Key(a.principal), Key(a.approval_key), Key(a.device), Var(a.audience),
                 Var(a.request), Fixed(a.digest, DigestLength), <<a.accept>>, Number(a.issued)>>)

PeerRevocation(p) ==
    Transcript("peer-revocation", TRUE,
               <<Key(p.revoker), Key(p.approval_key), Key(p.target), Opt(p.revoked, Key(p.revoked)),
                 Number(p.issued), Fixed(p.document, DigestLength)>>)

AttestedMessage(m) ==
    Enc(m.cert # None,
        <<Var(m.id), Var(m.room), Key(m.author), Var(m.body), CertBody(m.cert),
          Var(m.signature)>>)

DeliveryAttestation(a) ==
    Transcript("delivery-attestation", a.at # None /\ a.at.nanos \in 0..MaxNanos,
               <<List([i \in DOMAIN a.recipients |-> Key(a.recipients[i])]), Var(a.key_id),
                 Number(a.sequence), Number(a.at.seconds), Number(a.at.nanos),
                 List([i \in DOMAIN a.messages |-> AttestedMessage(a.messages[i])])>>)

RequestDigest(i) ==
    Transcript("request-digest",
               /\ i.subject # <<>> /\ i.instance # <<>> /\ i.action # <<>> /\ i.request # <<>>,
               <<Key(i.requester), Key(i.host), Opt(i.subject, Var(i.subject)), Var(i.instance),
                 Var(i.action), Var(i.parameters), Var(i.request), Key(i.target)>>)

Resource(r) == Enc(r.kind # <<>> /\ r.id # <<>>, <<Var(r.kind), Var(r.id)>>)

ClientRequestDigest(i) ==
    Transcript("client-request-digest", i.message_kind # <<>> /\ i.request # <<>>,
               <<Key(i.requester), Opt(i.host, Key(i.host)), Opt(i.resource, Resource(i.resource)),
                 Var(i.message_kind), Var(i.body), Var(i.request), Key(i.target)>>)

Encode(x) ==
    CASE x.kind = "key_challenge"         -> KeyChallenge(x)
      [] x.kind = "principal_rename"      -> PrincipalRename(x)
      [] x.kind = "key_delegation"        -> KeyDelegation(x)
      [] x.kind = "key_revocation"        -> KeyRevocation(x)
      [] x.kind = "root_rotation"         -> RootRotation(x)
      [] x.kind = "session_delegation"    -> SessionDelegation(x)
      [] x.kind = "signed_message"        -> SignedMessage(x)
      [] x.kind = "signed_document"       -> SignedDocument(x)
      [] x.kind = "approval"              -> ApprovalOf(x)
      [] x.kind = "peer_revocation"       -> PeerRevocation(x)
      [] x.kind = "delivery_attestation"  -> DeliveryAttestation(x)
      [] x.kind = "request_digest"        -> RequestDigest(x)
      [] x.kind = "client_request_digest" -> ClientRequestDigest(x)

-----------------------------------------------------------------------------
(* What can be given to the functions of the thirteen transcripts, and     *)
(* what they refuse of it: a string, a key or an integer of any value.     *)

Bytes == Seq(0 .. Base - 1)
MaybeBytes == {None} \cup Bytes
Seconds == Signed(IntWidth)

Certificate ==
    [mode : Nat, principal : MaybeBytes, host : MaybeBytes, subject : MaybeBytes,
     device : MaybeBytes, session : MaybeBytes, not_before : Seconds, not_after : Seconds]

Attestable == [id : Bytes, room : Bytes, author : MaybeBytes, body : Bytes,
               cert : {None} \cup Certificate, signature : Bytes]

KeyChallenges == [kind : {"key_challenge"}, audience : Bytes, nonce : Bytes, new : MaybeBytes]

PrincipalRenames ==
    [kind : {"principal_rename"}, nonce : Bytes, principal : MaybeBytes, name : Bytes]

KeyDelegations ==
    [kind : {"key_delegation"}, principal : MaybeBytes, root : MaybeBytes, purpose : Int,
     delegated : MaybeBytes, encryption : MaybeBytes, issued : Seconds, not_after : Seconds]

KeyRevocations ==
    [kind : {"key_revocation"}, principal : MaybeBytes, revoked : MaybeBytes,
     revoked_by : MaybeBytes, revoked_at : Seconds]

RootRotations ==
    [kind : {"root_rotation"}, principal : MaybeBytes, old : MaybeBytes, new : MaybeBytes,
     issued : Seconds]

SessionDelegations == [kind : {"session_delegation"}, cert : Certificate]

\* The chain of a message: of a principal with a root, or of a host for one of
\* its agents; None when the one or the other is absent.
Signer == [by : {"self_rooted", "host_vouched"}, device : {None} \cup KeyDelegations,
           session : {None} \cup Certificate]

SignedMessages ==
    [kind : {"signed_message"}, signer : {None} \cup Signer, audience : Bytes, nonce : Bytes,
     issued : Seconds, in_reply_to : MaybeBytes, body_type : Bytes, body : Bytes]

SignedDocuments ==
    [kind : {"signed_document"}, signer : MaybeBytes, signing : MaybeBytes, document_type : Bytes,
     version : Unsigned(IntWidth), issued : Seconds, expires : Seconds, body : Bytes,
     signer_rotations : Seq(RootRotations)]

Approvals ==
    [kind : {"approval"}, principal : MaybeBytes, approval_key : MaybeBytes, device : MaybeBytes,
     audience : Bytes, request : Bytes, digest : Bytes, accept : 0..1, issued : Seconds]

PeerRevocations ==
    [kind : {"peer_revocation"}, revoker : MaybeBytes, approval_key : MaybeBytes,
     target : MaybeBytes, revoked : MaybeBytes, issued : Seconds, document : Bytes]

DeliveryAttestations ==
    [kind : {"delivery_attestation"}, recipients : Seq(MaybeBytes), key_id : Bytes,
     sequence : Unsigned(IntWidth), at : {None} \cup [seconds : Seconds, nanos : Seconds],
     messages : Seq(Attestable)]

RequestDigests ==
    [kind : {"request_digest"}, requester : MaybeBytes, host : MaybeBytes, subject : MaybeBytes,
     instance : Bytes, action : Bytes, parameters : Bytes, request : Bytes, target : MaybeBytes]

ClientRequestDigests ==
    [kind : {"client_request_digest"}, requester : MaybeBytes, host : MaybeBytes,
     resource : {None} \cup [kind : Bytes, id : Bytes], message_kind : Bytes, body : Bytes,
     request : Bytes, target : MaybeBytes]

Input == KeyChallenges \cup PrincipalRenames \cup KeyDelegations \cup KeyRevocations
         \cup RootRotations \cup SessionDelegations \cup SignedMessages \cup SignedDocuments
         \cup Approvals \cup PeerRevocations \cup DeliveryAttestations \cup RequestDigests
         \cup ClientRequestDigests

ASSUME InputsAssumption == Inputs \subseteq Input

-----------------------------------------------------------------------------
(* One signature, shown with any input.                                    *)

\* Every input with its bytes.
Shown == {[input |-> x, bytes |-> Encode(x)] : x \in Inputs}

\* sign: whatever has a transcript.
Sign ==
    /\ signed = None
    /\ \E s \in Shown : s.bytes # Refused /\ signed' = s
    /\ UNCHANGED accepted

\* verify_p256 of the signature over the transcript of what is shown.
Verify ==
    /\ signed # None
    /\ \E s \in Shown : s.bytes = signed.bytes /\ accepted' = s.input
    /\ UNCHANGED signed

Init == signed = None /\ accepted = None

Next == Sign \/ Verify

Spec == Init /\ [][Next]_vars

-----------------------------------------------------------------------------
(* Properties.                                                             *)

\* What a signature stands for: the input itself; of a message, all but the
\* chain that leads from its principal to its session key, and of a document
\* all but the rotations that lead from its signer to its signing key.  Those
\* are records with signatures of their own.
Covered(x) ==
    CASE x.kind = "signed_message" ->
           [x EXCEPT !.signer = [principal |-> @.session.principal, session |-> @.session.session]]
      [] x.kind = "signed_document" -> [x EXCEPT !.signer_rotations = <<>>]
      [] OTHER -> x

\* A signature is good for one input, up to the chain of a message and the
\* rotations of a document: nothing of another kind, no other split of the same
\* bytes into fields, no field absent that was present, is accepted with it.
SignatureCoversOne == accepted # None => Covered(accepted) = Covered(signed.input)
=============================================================================

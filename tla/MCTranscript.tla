---------------------------- MODULE MCTranscript ----------------------------
(***************************************************************************)
(* Transcript in base 4, with lengths of one byte and numbers of two.  The *)
(* strings are made of the bytes that lengths, counts, marks and numbers   *)
(* are made of, so that one field can be taken for the beginning of        *)
(* another; Long does not fit a length byte and would wrap to length 1;    *)
(* every field that may be absent, empty or out of range once is.  One     *)
(* message is carried under several chains, one document with and without  *)
(* a rotation.                                                             *)
(***************************************************************************)
EXTENDS Transcript, TLC

Keys == {<<0>>, <<1>>}
MaybeKeys == Keys \cup {None}
Names == {<<>>, <<1>>, <<1, 1>>}
Long == <<1, 1, 1, 1, 1>>
Blobs == Names \cup {Long}
Nonces == {<<0>>, <<1>>, <<2>>, <<1, 1>>}
Times == {-1, 1}

Certs == [mode : 0..2, principal : Keys, host : MaybeKeys, subject : Names \cup {None},
          device : {<<0>>}, session : Keys, not_before : Times, not_after : {1}]

\* Certificates inside other records.
SomeCerts == {c \in Certs : /\ CertBody(c) # Refused
                            /\ c.principal = <<1>> /\ c.not_before = 1
                            /\ c.host \in {None, <<1>>} /\ c.subject \in {None, <<1>>}}

Delegation == [kind |-> "key_delegation", principal |-> <<1>>, root |-> <<1>>, purpose |-> 2,
               delegated |-> <<0>>, encryption |-> <<2>>, issued |-> 1, not_after |-> 1]

Rotation == [kind |-> "root_rotation", principal |-> <<0>>, old |-> <<0>>, new |-> <<1>>,
             issued |-> 1]

Signers == [by : {"self_rooted"}, device : {Delegation}, session : SomeCerts \cup {None}]
           \cup [by : {"host_vouched"}, device : {None}, session : SomeCerts]

Attested == [id : {<<>>, <<1>>}, room : {<<>>, <<1>>}, author : {<<1>>}, body : {<<1>>},
             cert : SomeCerts \cup {None},
             signature : {<<1>>}]

MCInputs == UNION {
    [kind : {"key_challenge"}, audience : Names, nonce : Blobs, new : MaybeKeys \cup Nonces],
    [kind : {"principal_rename"}, nonce : Blobs, principal : Keys, name : Names],
    [kind : {"key_delegation"}, principal : Keys, root : MaybeKeys, purpose : 0..3,
     delegated : MaybeKeys, encryption : MaybeKeys \cup {<<2>>}, issued : Times, not_after : Times],
    [kind : {"key_revocation"}, principal : Keys, revoked : MaybeKeys, revoked_by : Keys,
     revoked_at : Times],
    [kind : {"root_rotation"}, principal : Keys, old : Keys, new : MaybeKeys, issued : Times],
    [kind : {"session_delegation"}, cert : Certs],
    [kind : {"signed_message"}, signer : Signers \cup {None}, audience : Names,
     nonce : Nonces, issued : {1, 4}, in_reply_to : Nonces \cup {None}, body_type : Names, body : Names],
    [kind : {"signed_document"}, signer : Keys, signing : Keys, document_type : Names,
     version : {1, 3}, issued : {1}, expires : Times, body : Blobs,
     signer_rotations : {<<>>, <<Rotation>>}],
    [kind : {"approval"}, principal : {<<1>>}, approval_key : Keys, device : Keys,
     audience : Names, request : Names, digest : {<<1>>, <<1, 1>>}, accept : 0..1, issued : Times],
    [kind : {"peer_revocation"}, revoker : Keys, approval_key : Keys, target : Keys,
     revoked : MaybeKeys, issued : Times, document : {<<1>>, <<1, 1>>}],
    [kind : {"delivery_attestation"}, recipients : SeqOf(Keys, 2), key_id : {<<>>, <<1, 0, 0>>},
     sequence : {1}, at : {None} \cup [seconds : {1}, nanos : {1, 5}],
     messages : SeqOf(Attested, 1)],
    [kind : {"delivery_attestation"}, recipients : {<<>>}, key_id : {<<1>>},
     sequence : {1}, at : [seconds : {1}, nanos : {1}], messages : [1..2 -> Attested]],
    [kind : {"request_digest"}, requester : Keys, host : {<<1>>}, subject : Names \cup {None},
     instance : {<<>>, <<1>>}, action : {<<>>, <<1>>}, parameters : Blobs, request : Blobs, target : {<<1>>}],
    [kind : {"client_request_digest"}, requester : {<<1>>}, host : MaybeKeys,
     resource : {None} \cup [kind : Names, id : Names], message_kind : {<<1>>, <<1, 1>>},
     body : Blobs, request : {<<1>>, Long}, target : Keys]}
=============================================================================

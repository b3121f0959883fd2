------------------------------ MODULE Sessions ------------------------------
(***************************************************************************)
(* A device that signs messages by one clock and a receiver that verifies  *)
(* them by another.  The holder of the root renews the device's delegation *)
(* when it is due, the device mints sessions and signs messages with them; *)
(* the receiver checks both windows and the message's own time, with the   *)
(* resolver (verify_signed_message) or, before there is one, with a list   *)
(* of device keys (verify_signed_message_trusted_devices).                 *)
(*                                                                         *)
(* The principal is of a kind that lists no devices (agent, daemon,        *)
(* service); module Verify has the humans, the hosts and the revocations.  *)
(* Seconds are integers of a width that MinTime and MaxTime stand for, and *)
(* the arithmetic saturates where the code's does.  Signatures are good,   *)
(* audiences match: a message that fails there is refused.                 *)
(***************************************************************************)
EXTENDS Integers

CONSTANTS
    Self,           \* the principal whose root delegates the device
    Principals,     \* the principals a session certificate may name
    Device,         \* the device that signs
    Devices,        \* the device keys a receiver may list
    DevicesOf,      \* AuthorDevices.devices: the list kept for each author
    None,           \* no session, delegation or message
    MinTime,        \* i64::MIN
    MaxTime,        \* i64::MAX
    Seconds,        \* bound: the seconds the receiver's clock goes through
    Skew,           \* SKEW_SECONDS
    MaxSession,     \* MAX_SESSION_SECONDS
    MaxUnlisted,    \* MAX_UNLISTED_DELEGATION_SECONDS
    Ttl,            \* lifetime asked for at each renewal
    Margin,         \* margin of renewal_due
    SessionMargin,  \* the caller stops using a session this close to its end
    Drift,          \* how far the two clocks are apart at most
    Delay,          \* how long a message is under way at most, to be in time
    Offsets         \* bound: how far from its clock a caller's times are

Times == MinTime..MaxTime

ASSUME WidthAssumption ==
    /\ MinTime \in Int /\ MaxTime \in Int
    /\ MinTime < 0 /\ 0 < MaxTime
    /\ Seconds \subseteq Times
    /\ {Skew, MaxSession, MaxUnlisted, Ttl, Margin, SessionMargin, Drift, Delay} \subseteq Nat
    /\ Offsets \subseteq Int

ASSUME DevicesAssumption ==
    /\ Self \in Principals /\ Device \in Devices
    /\ DevicesOf \in [Principals -> SUBSET Devices]
    /\ \A p \in Principals : Device \in DevicesOf[p] => p = Self

\* What a deployment has to see to: a message in time is within the skew, and
\* what is not due for renewal outlives the clocks' difference and the way.
ASSUME MarginAssumption == /\ Drift + Delay <= Skew
                           /\ Drift + Delay <= Margin + 1
                           /\ Drift + Delay <= SessionMargin + 1

VARIABLES
    signer,     \* the clock of the device and of the holder of the root
    verifier,   \* the clock of the receiver
    delegation, \* the device's KeyDelegation
    session,    \* the certificate of its SessionCredential, or None
    message,    \* the message under way, or None
    renewed     \* history variable: the receiver's time of the last renewal

vars == <<signer, verifier, delegation, session, message, renewed>>

-----------------------------------------------------------------------------
(* Arithmetic.                                                             *)

Clamp(t) == IF t < MinTime THEN MinTime ELSE IF t > MaxTime THEN MaxTime ELSE t

\* Mutant: arithmetic that wraps around.
Wrap(t) == ((t - MinTime) % (MaxTime - MinTime + 1)) + MinTime
WrappingSub(a, b) == Wrap(a - b)

\* Mutant: a sum that leaves the width.
UnboundedAdd(a, b) == a + b

SaturatingAdd(a, b) == Clamp(a + b)
SaturatingSub(a, b) == Clamp(a - b)

\* check_session_span and check_unlisted_span compute in i128.
SpanWithin(from, to, max) == from < to /\ to - from <= max

-----------------------------------------------------------------------------
(* The receiver's rules.                                                   *)

\* Mutant: the skew is granted at the end of the window, too.
DeviceWindowLenient(d, at) ==
    /\ d.to # 0
    /\ SpanWithin(d.from, d.to, MaxUnlisted)
    /\ d.from <= SaturatingAdd(at, Skew)
    /\ at <= SaturatingAdd(d.to, Skew)

\* device_current, for a device listed nowhere.
DeviceWindow(d, at) ==
    /\ d.to # 0
    /\ SpanWithin(d.from, d.to, MaxUnlisted)
    /\ d.from <= SaturatingAdd(at, Skew)
    /\ at <= d.to

CertWindow(c, at) ==
    /\ SpanWithin(c.from, c.to, MaxSession)
    /\ SaturatingSub(c.from, Skew) <= at
    /\ at <= c.to

CheckCert(c, device, at) == c.device = device /\ CertWindow(c, at)

\* When::Live: abs_diff is exact.
CheckSkew(issued, at) == issued - at <= Skew /\ at - issued <= Skew

\* verify_signed_message with When::Live: the delegation is the principal's.
VerifySignedMessage(m, at) ==
    /\ m.delegation # None
    /\ m.cert.principal = m.delegation.principal
    /\ DeviceWindow(m.delegation, at)
    /\ CheckCert(m.cert, m.delegation.device, at)
    /\ CheckSkew(m.issued, at)

\* Mutant: the certificate may name anybody.
VerifyTrustedAnyGenesis(m, author, devices, at) ==
    /\ m.cert.device \in devices
    /\ CheckCert(m.cert, m.cert.device, at)
    /\ CheckSkew(m.issued, at)

\* verify_signed_message_trusted_devices: the delegation is not looked at.
VerifyTrusted(m, author, devices, at) ==
    /\ m.cert.principal = author
    /\ m.cert.device \in devices
    /\ CheckCert(m.cert, m.cert.device, at)
    /\ CheckSkew(m.issued, at)

-----------------------------------------------------------------------------
(* The signer.  Bound: it signs one message and is watched no further.     *)

\* Mutant: not due at the margin.
RenewalDueLate(d, t) == SaturatingSub(d.to, t) < Margin

RenewalDue(d, t) == SaturatingSub(d.to, t) <= Margin

Delegation(from, to) == [principal |-> Self, device |-> Device, from |-> from, to |-> to]

\* delegate_device over [now, now + ttl].  The holder of the root may renew
\* whether it is due or not; it is refused at the end of time.
Renew ==
    LET to == SaturatingAdd(signer, Ttl)
    IN  /\ message = None
        /\ SpanWithin(signer, to, MaxUnlisted)
        /\ delegation' = Delegation(signer, to)
        /\ renewed' = verifier
        /\ UNCHANGED <<signer, verifier, session, message>>

\* Mutant: a span may be empty.
MintSessionEmpty(principal, from, to) ==
    /\ message = None
    /\ from <= to /\ to - from <= MaxSession
    /\ session' = [principal |-> principal, device |-> Device, from |-> from, to |-> to]
    /\ UNCHANGED <<signer, verifier, delegation, message, renewed>>

\* mint_session: the caller names any principal and chooses any window.
MintSession(principal, from, to) ==
    /\ message = None
    /\ SpanWithin(from, to, MaxSession)
    /\ session' = [principal |-> principal, device |-> Device, from |-> from, to |-> to]
    /\ UNCHANGED <<signer, verifier, delegation, message, renewed>>

\* The caller renews before it signs: nothing it uses is due, and it signs for
\* its own principal and for now.
IsPrompt(d, issued) ==
    /\ d # None /\ d.to # 0 /\ ~RenewalDue(d, signer)
    /\ session.principal = Self
    /\ session.from <= signer /\ session.to - signer > SessionMargin
    /\ issued = signer

\* SessionCredential::sign_message, with the delegation or, in step 1, none.
\* `sent` and `prompt` are not in the message: they say how it came about.
SignMessage(issued) ==
    /\ message = None
    /\ session # None
    /\ \E d \in {delegation, None} :
          message' = [delegation |-> d, cert |-> session, issued |-> issued,
                      sent |-> verifier, prompt |-> IsPrompt(d, issued)]
    /\ UNCHANGED <<signer, verifier, delegation, session, renewed>>

-----------------------------------------------------------------------------
(* The clocks.                                                             *)

Near(s, v) == s - v <= Drift /\ v - s <= Drift

TickVerifier ==
    /\ verifier + 1 \in Seconds
    /\ Near(signer, verifier + 1)
    /\ verifier' = verifier + 1
    /\ UNCHANGED <<signer, delegation, session, message, renewed>>

\* The signer's clock advances, or is set, forward or back.
SetSigner ==
    /\ signer' \in {t \in Times : Near(t, verifier)}
    /\ UNCHANGED <<verifier, delegation, session, message, renewed>>

Init ==
    /\ verifier \in Seconds
    /\ signer \in {t \in Times : Near(t, verifier)}
    /\ SpanWithin(signer, SaturatingAdd(signer, Ttl), MaxUnlisted)
    /\ delegation = Delegation(signer, SaturatingAdd(signer, Ttl))
    /\ session = None
    /\ message = None
    /\ renewed = verifier

Next ==
    \/ Renew
    \/ \E p \in Principals, from \in {signer + o : o \in Offsets}, to \in Times :
          from \in Times /\ MintSession(p, from, to)
    \/ \E issued \in {signer + o : o \in Offsets} : issued \in Times /\ SignMessage(issued)
    \/ TickVerifier
    \/ SetSigner

Spec == Init /\ [][Next]_vars

-----------------------------------------------------------------------------
(* Properties.                                                             *)

Windows == [principal : Principals, device : Devices, from : Times, to : Times]
Messages == [delegation : Windows \cup {None}, cert : Windows, issued : Times,
             sent : Seconds, prompt : BOOLEAN]

\* Every variable has its type.
TypeOK ==
    /\ signer \in Times
    /\ verifier \in Seconds
    /\ delegation \in Windows
    /\ session \in Windows \cup {None}
    /\ message \in Messages \cup {None}
    /\ renewed \in Seconds

\* Two clocks, one margin: a message signed while nothing is due is accepted
\* at whatever moment it arrives in time, and whatever either clock did.  With
\* the margin of renewal_due inclusive, Drift + Delay - 1 is margin enough.
PromptIsAccepted ==
    message # None /\ message.prompt /\ verifier - message.sent <= Delay
        => VerifySignedMessage(message, verifier)

\* A device whose owner stops renewing goes dark, although the device, or
\* whoever has it, may mint sessions for any time to come and date messages
\* freely: nothing is accepted later than the cap after the last renewal.
UnrenewedGoesDark ==
    message # None /\ VerifySignedMessage(message, verifier)
        => verifier <= renewed + Drift + MaxUnlisted

\* What mint_session and delegate_device grant is of use for every second of it,
\* both ends included: signer and verifier draw the line at the same second.
\* The one exception is a delegation that ends at second 0.
GrantedIsUsable ==
    /\ session # None => \A t \in session.from..session.to : CertWindow(session, t)
    /\ delegation.to # 0 =>
          \A t \in delegation.from..delegation.to : DeviceWindow(delegation, t)

\* Saturation at the ends of time never turns a refusal into an acceptance or
\* the other way round, nor hides that a renewal is due: the rules say what
\* unbounded integers would say.
WindowsAreExact ==
    /\ session # None =>
          (CertWindow(session, verifier) <=>
              /\ SpanWithin(session.from, session.to, MaxSession)
              /\ session.from - Skew <= verifier /\ verifier <= session.to)
    /\ DeviceWindow(delegation, verifier) <=>
          /\ delegation.to # 0 /\ SpanWithin(delegation.from, delegation.to, MaxUnlisted)
          /\ delegation.from <= verifier + Skew /\ verifier <= delegation.to
    /\ Margin < MaxTime =>
          (RenewalDue(delegation, signer) <=> delegation.to - signer <= Margin)

\* Without a registry a message speaks only for the principal its device
\* belongs to, and only if the device meant that principal: the device may sign
\* a certificate that names anybody.
TrustedSpeaksForItsOwner ==
    message # None =>
        \A author \in Principals :
            VerifyTrusted(message, author, DevicesOf[author], verifier)
                => author = Self /\ message.cert.principal = Self

-----------------------------------------------------------------------------
(* The inductive invariant.                                                *)

\* A delegation the holder of the root signed: for the device, within the cap,
\* and, by the receiver's clock, not after its last renewal but for the drift.
SignedByRoot(d) ==
    /\ d.principal = Self /\ d.device = Device
    /\ SpanWithin(d.from, d.to, MaxUnlisted)
    /\ d.from <= renewed + Drift

MintedByDevice(c) == c.device = Device /\ SpanWithin(c.from, c.to, MaxSession)

\* What a prompt message's windows leave, in terms of the moment it was sent.
OutlastsTheWay(m) ==
    /\ m.delegation # None
    /\ m.delegation.to # 0
    /\ m.delegation.from <= m.sent + Drift
    /\ m.issued + Margin < m.delegation.to
    /\ m.cert.principal = Self
    /\ m.cert.from <= m.issued
    /\ m.issued + SessionMargin < m.cert.to
    /\ Near(m.issued, m.sent)

IInv ==
    /\ TypeOK
    /\ Near(signer, verifier)
    /\ renewed <= verifier
    /\ SignedByRoot(delegation)
    /\ session # None => MintedByDevice(session)
    /\ message # None =>
          /\ message.delegation # None => SignedByRoot(message.delegation)
          /\ MintedByDevice(message.cert)
          /\ message.sent <= verifier
          /\ message.prompt => OutlastsTheWay(message)
=============================================================================

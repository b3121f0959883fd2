--------------------------- MODULE SessionsProofs ---------------------------
(***************************************************************************)
(* Theorems about Sessions, for any clocks, widths, lifetimes and margins  *)
(* that satisfy its assumptions.                                           *)
(***************************************************************************)
EXTENDS Sessions, TLAPS

-----------------------------------------------------------------------------
(* Saturating arithmetic.                                                  *)

\* Clamping keeps a second inside the width, and leaves one that is inside.
LEMMA ClampInWidth ==
    ASSUME NEW t \in Int
    PROVE  /\ Clamp(t) \in Times
           /\ t \in Times => Clamp(t) = t
BY WidthAssumption DEF Clamp, Times

\* The start of a delegation's window, seen by a clock that is `n` ahead.
LEMMA StartIsExact ==
    ASSUME NEW from \in Times, NEW t \in Times, NEW n \in Nat
    PROVE  /\ (from <= SaturatingAdd(t, n)) <=> (from <= t + n)
           /\ (SaturatingSub(from, n) <= t) <=> (from - n <= t)
BY WidthAssumption DEF SaturatingAdd, SaturatingSub, Clamp, Times

\* What is not due lasts longer than the margin.
LEMMA NotDueLasts ==
    ASSUME NEW d, d.to \in Times, NEW t \in Times
    PROVE  /\ ~RenewalDue(d, t) => t + Margin < d.to
           /\ Margin < MaxTime => (RenewalDue(d, t) <=> d.to - t <= Margin)
BY WidthAssumption DEF RenewalDue, SaturatingSub, Clamp, Times

-----------------------------------------------------------------------------
(* The inductive invariant.                                                *)

LEMMA InitIInv == Init => IInv
<1> SUFFICES ASSUME Init PROVE IInv
  OBVIOUS
<1>1. signer \in Times /\ verifier \in Seconds /\ verifier \in Int /\ signer \in Int
  BY WidthAssumption DEF Init, Times
<1>2. SaturatingAdd(signer, Ttl) \in Times
  BY <1>1, ClampInWidth, WidthAssumption DEF SaturatingAdd
<1>3. delegation \in Windows
  BY <1>1, <1>2, DevicesAssumption DEF Init, Delegation, Windows
<1>4. Near(signer, verifier)
  BY DEF Init
<1>5. SignedByRoot(delegation)
  BY <1>1, <1>2, <1>4, WidthAssumption DEF Init, SignedByRoot, Delegation, Near, Times
<1> QED
  BY <1>1, <1>3, <1>4, <1>5 DEF Init, IInv, TypeOK

\* A renewal is signed by the signer's clock, which is near the receiver's.
LEMMA RenewIInv == IInv /\ Renew => IInv'
<1> SUFFICES ASSUME IInv, Renew PROVE IInv'
  OBVIOUS
<1>1. /\ signer \in Times /\ verifier \in Seconds /\ renewed \in Seconds
      /\ {signer, verifier, renewed, Drift} \subseteq Int
  BY WidthAssumption DEF IInv, TypeOK, Times
<1>2. SaturatingAdd(signer, Ttl) \in Times
  BY <1>1, ClampInWidth, WidthAssumption DEF SaturatingAdd
<1>3. delegation' \in Windows
  BY <1>1, <1>2, DevicesAssumption DEF Renew, Delegation, Windows
<1>4. TypeOK'
  BY <1>1, <1>3 DEF IInv, TypeOK, Renew
<1>5. SignedByRoot(delegation)'
  BY <1>1, <1>2 DEF IInv, Renew, SignedByRoot, Delegation, Near
<1> QED
  BY <1>1, <1>4, <1>5 DEF IInv, Renew, Near, MintedByDevice

LEMMA MintIInv ==
    ASSUME IInv, NEW p \in Principals, NEW from \in Times, NEW to \in Times,
           MintSession(p, from, to)
    PROVE  IInv'
<1>1. session' \in Windows
  BY DevicesAssumption DEF MintSession, Windows
<1>2. TypeOK'
  BY <1>1 DEF IInv, TypeOK, MintSession
<1>3. MintedByDevice(session)'
  BY DEF MintSession, MintedByDevice
<1> QED
  BY <1>2, <1>3 DEF IInv, MintSession, Near, SignedByRoot

\* A message that is prompt now has the margins left that IInv asks for.
LEMMA SignIInv ==
    ASSUME IInv, NEW issued \in Times, SignMessage(issued)
    PROVE  IInv'
<1>1. PICK d \in {delegation, None} :
          message' = [delegation |-> d, cert |-> session, issued |-> issued,
                      sent |-> verifier, prompt |-> IsPrompt(d, issued)]
  BY DEF SignMessage
<1>2. session # None /\ session \in Windows /\ MintedByDevice(session)
  BY DEF IInv, TypeOK, SignMessage
<1>3. IsPrompt(d, issued) \in BOOLEAN
  BY DEF IsPrompt
<1>4. message' \in Messages
  BY <1>1, <1>2, <1>3 DEF IInv, TypeOK, Messages
<1>5. TypeOK'
  BY <1>4 DEF IInv, TypeOK, SignMessage
<1>6. d # None => SignedByRoot(d)
  BY DEF IInv
<1>7. ASSUME IsPrompt(d, issued)
      PROVE  OutlastsTheWay(message)'
  <2>1. d = delegation /\ d # None /\ delegation \in Windows /\ d.to # 0
    BY <1>7 DEF IsPrompt, IInv, TypeOK
  <2>2. /\ {signer, verifier, renewed, issued} \subseteq Int
        /\ {d.from, d.to, session.from, session.to} \subseteq Times
        /\ signer \in Times
    BY <1>2, <2>1, WidthAssumption DEF IInv, TypeOK, Times, Windows
  <2>3. signer + Margin < d.to
    BY <1>7, <2>2, NotDueLasts DEF IsPrompt
  <2>4. /\ session.principal = Self
        /\ session.from <= signer /\ session.to - signer > SessionMargin /\ issued = signer
    BY <1>7 DEF IsPrompt
  <2>5. d.from <= verifier + Drift
    BY <1>6, <2>1, <2>2, WidthAssumption DEF IInv, SignedByRoot, Times
  <2>6. signer + SessionMargin < session.to
    BY <2>2, <2>4, WidthAssumption DEF Times
  <2> QED
    BY <1>1, <2>1, <2>3, <2>4, <2>5, <2>6 DEF OutlastsTheWay, IInv, Near
<1>8. /\ message'.delegation = d /\ message'.cert = session
      /\ message'.sent = verifier /\ message'.prompt = IsPrompt(d, issued)
  BY <1>1
<1>9. verifier <= verifier
  BY WidthAssumption DEF IInv, TypeOK, Times
<1> QED
  BY <1>2, <1>5, <1>6, <1>7, <1>8, <1>9
  DEF IInv, SignMessage, Near, SignedByRoot, MintedByDevice

LEMMA TickIInv == IInv /\ TickVerifier => IInv'
<1> SUFFICES ASSUME IInv, TickVerifier PROVE IInv'
  OBVIOUS
<1>1. TypeOK'
  BY DEF IInv, TypeOK, TickVerifier
<1>2. {verifier, renewed} \subseteq Int
  BY WidthAssumption DEF IInv, TypeOK, Times
<1>3. renewed' <= verifier'
  BY <1>2 DEF IInv, TickVerifier
<1>4. ASSUME message # None PROVE message.sent <= verifier'
  <2>1. message \in Messages /\ message.sent <= verifier
    BY <1>4 DEF IInv, TypeOK
  <2>2. message.sent \in Seconds
    BY <2>1 DEF Messages
  <2>3. message.sent \in Times
    BY <2>2, WidthAssumption
  <2> QED
    BY <1>2, <2>1, <2>3, WidthAssumption DEF TickVerifier, Times
<1> QED
  BY <1>1, <1>3, <1>4
  DEF IInv, TickVerifier, Near, SignedByRoot, MintedByDevice, OutlastsTheWay

LEMMA SetIInv == IInv /\ SetSigner => IInv'
BY DEF IInv, TypeOK, SetSigner, Near, SignedByRoot, MintedByDevice, OutlastsTheWay

LEMMA StutterIInv == IInv /\ UNCHANGED vars => IInv'
BY DEF IInv, TypeOK, vars, Near, SignedByRoot, MintedByDevice, OutlastsTheWay

\* Every reachable state satisfies IInv.
THEOREM Invariance == Spec => []IInv
<1>1. IInv /\ [Next]_vars => IInv'
  BY RenewIInv, MintIInv, SignIInv, TickIInv, SetIInv, StutterIInv DEF Next
<1> QED
  BY InitIInv, <1>1, PTL DEF Spec

-----------------------------------------------------------------------------
(* The properties.                                                         *)

\* Every variable keeps its type: no sum leaves the width of a second.
THEOREM TypeCorrect == Spec => []TypeOK
<1>1. IInv => TypeOK
  BY DEF IInv
<1> QED
  BY Invariance, <1>1, PTL

\* Both verifiers look at a message with the same certificate check, so the
\* two windows are all that is left to show.
LEMMA PromptFromIInv == IInv => PromptIsAccepted
<1> SUFFICES ASSUME IInv, message # None, message.prompt, verifier - message.sent <= Delay
             PROVE  VerifySignedMessage(message, verifier)
  BY DEF PromptIsAccepted
<1> DEFINE d == message.delegation
           c == message.cert
<1>1. /\ message \in Messages /\ d \in Windows /\ c \in Windows
      /\ OutlastsTheWay(message) /\ SignedByRoot(d) /\ MintedByDevice(c)
  <2>1. message \in Messages /\ OutlastsTheWay(message) /\ MintedByDevice(c)
    BY DEF IInv, TypeOK
  <2>2. d # None /\ SignedByRoot(d)
    BY <2>1 DEF IInv, OutlastsTheWay
  <2> QED
    BY <2>1, <2>2 DEF Messages
<1>2. /\ {d.from, d.to, c.from, c.to, message.issued, verifier} \subseteq Times
      /\ message.sent \in Int /\ message.sent <= verifier
  <2>1. {d.from, d.to, c.from, c.to} \subseteq Times
    BY <1>1 DEF Windows
  <2>2. message.issued \in Times /\ message.sent \in Seconds /\ verifier \in Seconds
    BY <1>1 DEF Messages, IInv, TypeOK
  <2>3. message.sent \in Times /\ verifier \in Times
    BY <2>2, WidthAssumption
  <2>4. message.sent \in Int
    BY <2>3, WidthAssumption DEF Times
  <2> QED
    BY <2>1, <2>2, <2>3, <2>4 DEF IInv
<1>3. /\ {d.from, d.to, c.from, c.to, message.issued, verifier} \subseteq Int
      /\ {Skew, Margin, SessionMargin, Drift, Delay} \subseteq Nat
  BY <1>2, WidthAssumption DEF Times
<1>4. message.issued - message.sent <= Drift /\ message.sent - message.issued <= Drift
  BY <1>1 DEF OutlastsTheWay, Near
<1>5. DeviceWindow(d, verifier)
  <2>1. d.from <= verifier + Skew
    BY <1>1, <1>2, <1>3, MarginAssumption DEF OutlastsTheWay
  <2>2. verifier <= d.to
    BY <1>1, <1>2, <1>3, <1>4, MarginAssumption DEF OutlastsTheWay
  <2>3. d.from <= SaturatingAdd(verifier, Skew)
    BY <1>2, <1>3, <2>1, StartIsExact
  <2> QED
    BY <1>1, <2>2, <2>3 DEF DeviceWindow, SignedByRoot, OutlastsTheWay
<1>6. CertWindow(c, verifier)
  <2>1. c.from - Skew <= verifier
    BY <1>1, <1>2, <1>3, <1>4, MarginAssumption DEF OutlastsTheWay
  <2>2. verifier <= c.to
    BY <1>1, <1>2, <1>3, <1>4, MarginAssumption DEF OutlastsTheWay
  <2>3. SaturatingSub(c.from, Skew) <= verifier
    BY <1>2, <1>3, <2>1, StartIsExact
  <2> QED
    BY <1>1, <2>2, <2>3 DEF CertWindow, MintedByDevice
<1>7. CheckSkew(message.issued, verifier)
  BY <1>2, <1>3, <1>4, MarginAssumption DEF CheckSkew
<1> QED
  BY <1>1, <1>5, <1>6, <1>7
  DEF VerifySignedMessage, CheckCert, SignedByRoot, MintedByDevice, OutlastsTheWay

\* Whatever the clocks do within Drift, a message signed while nothing was due
\* and received in time is accepted, for any width, lifetime and margin.
THEOREM PromptIsAcceptedHolds == Spec => []PromptIsAccepted
BY Invariance, PromptFromIInv, PTL

\* Nothing signed by a device is accepted later than the cap, and the drift,
\* after the last renewal of its delegation.
THEOREM UnrenewedGoesDarkHolds == Spec => []UnrenewedGoesDark
<1>1. IInv => UnrenewedGoesDark
  <2> SUFFICES ASSUME IInv, message # None, VerifySignedMessage(message, verifier)
               PROVE  verifier <= renewed + Drift + MaxUnlisted
    BY DEF UnrenewedGoesDark
  <2> DEFINE d == message.delegation
  <2>1. d # None /\ verifier <= d.to
    BY DEF VerifySignedMessage, DeviceWindow
  <2>2. d \in Windows /\ SignedByRoot(d)
    BY <2>1 DEF IInv, TypeOK, Messages
  <2>3. {d.from, d.to, verifier, renewed, Drift, MaxUnlisted} \subseteq Int
    BY <2>2, WidthAssumption DEF IInv, TypeOK, Windows, Times
  <2> QED
    BY <2>1, <2>2, <2>3 DEF SignedByRoot, SpanWithin
<1> QED
  BY Invariance, <1>1, PTL

\* What is granted is accepted at each of its seconds.
THEOREM GrantedIsUsableHolds == Spec => []GrantedIsUsable
<1>1. ASSUME IInv, session # None, NEW t \in session.from..session.to
      PROVE  CertWindow(session, t)
  <2>1. session \in Windows /\ MintedByDevice(session)
    BY <1>1 DEF IInv, TypeOK
  <2>2. {session.from, session.to, t} \subseteq Times /\ Skew \in Nat
    BY <1>1, <2>1, WidthAssumption DEF Windows, Times
  <2>3. session.from - Skew <= t /\ t <= session.to
    BY <1>1, <2>2, WidthAssumption DEF Times
  <2> QED
    BY <2>1, <2>2, <2>3, StartIsExact DEF CertWindow, MintedByDevice
<1>2. ASSUME IInv, delegation.to # 0, NEW t \in delegation.from..delegation.to
      PROVE  DeviceWindow(delegation, t)
  <2>1. delegation \in Windows /\ SignedByRoot(delegation)
    BY <1>2 DEF IInv, TypeOK
  <2>2. {delegation.from, delegation.to, t} \subseteq Times /\ Skew \in Nat
    BY <1>2, <2>1, WidthAssumption DEF Windows, Times
  <2>3. delegation.from <= t + Skew /\ t <= delegation.to
    BY <1>2, <2>2, WidthAssumption DEF Times
  <2> QED
    BY <1>2, <2>1, <2>2, <2>3, StartIsExact DEF DeviceWindow, SignedByRoot
<1>3. IInv => GrantedIsUsable
  BY <1>1, <1>2 DEF GrantedIsUsable
<1> QED
  BY Invariance, <1>3, PTL

\* Saturating arithmetic decides every window as unbounded integers would.
THEOREM WindowsAreExactHolds == Spec => []WindowsAreExact
<1>1. ASSUME IInv PROVE WindowsAreExact
  <2>1. /\ verifier \in Times /\ signer \in Times /\ Skew \in Nat
        /\ delegation.from \in Times /\ delegation.to \in Times
        /\ session # None => session.from \in Times
    BY <1>1, WidthAssumption DEF IInv, TypeOK, Windows
  <2>2. session # None =>
            (SaturatingSub(session.from, Skew) <= verifier <=> session.from - Skew <= verifier)
    BY <2>1, StartIsExact
  <2>3. delegation.from <= SaturatingAdd(verifier, Skew) <=> delegation.from <= verifier + Skew
    BY <2>1, StartIsExact
  <2>4. Margin < MaxTime =>
            (RenewalDue(delegation, signer) <=> delegation.to - signer <= Margin)
    BY <2>1, NotDueLasts
  <2> QED
    BY <2>2, <2>3, <2>4 DEF WindowsAreExact, CertWindow, DeviceWindow
<1> QED
  BY Invariance, <1>1, PTL

\* A list of devices per author keeps authors apart, whoever the certificates
\* that the devices sign name.
THEOREM TrustedSpeaksForItsOwnerHolds == Spec => []TrustedSpeaksForItsOwner
<1>1. IInv => TrustedSpeaksForItsOwner
  BY DevicesAssumption
  DEF IInv, TrustedSpeaksForItsOwner, VerifyTrusted, MintedByDevice
<1> QED
  BY Invariance, <1>1, PTL
=============================================================================

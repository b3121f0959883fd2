------------------------------ MODULE MCVerify ------------------------------
(***************************************************************************)
(* Verify on a small fleet: the authority "owner" with two devices, the    *)
(* daemon "daemon" the laptop is bound to, a keyless agent "hosted" that   *)
(* daemon vouches for, a self-rooted agent "lone" and a human "guest".     *)
(***************************************************************************)
EXTENDS Verify, TLC

\* "clash" has the short id of "lone".
MCShortId == [p \in {"owner", "daemon", "hosted", "lone", "guest", "clash", "future"} |->
                 IF p = "clash" THEN "id_lone" ELSE "id_" \o p]

Id(p) == [key |-> p, canonical |-> TRUE]

Delegation(p, root, purpose, key, from, to) ==
    [principal |-> p, root |-> root, purpose |-> purpose, key |-> key,
     enc |-> key \o "_enc", from |-> from, to |-> to]
Device(p, root, key, from, to) == Delegation(p, root, "device", key, from, to)

Laptop == Device("owner", "owner2", "laptop", 0, 3)
Phone == Device("owner", "owner2", "phone", 0, 3)
Pad == Device("guest", "guest", "pad", 0, 3)
ApprovalKey == Delegation("owner", "owner2", "approval", "approval", 0, 2)
Pin == Delegation("guest", "guest", "approval", "pin", 0, 2)

Binding(device, host, approval) == [device |-> device, host |-> host, approval |-> approval]

Root(signing) == [signing |-> signing, encryption |-> signing \o "_enc"]
Rotated(p, new) == <<[principal |-> p, old |-> p, new |-> new]>>

Entry(p, kind, name) ==
    [id |-> Id(p), kind |-> kind, name |-> name, frozen |-> FALSE, root |-> None,
     rotations |-> <<>>, devices |-> <<>>, revocations |-> <<>>, hosts |-> <<>>]

Owner(devices) == [Entry("owner", "human", "me") EXCEPT !.root = Root("owner2"),
                                                       !.devices = devices]
Daemon == [Entry("daemon", "daemon", "box") EXCEPT !.root = Root("daemon")]
Daemon2 == [Daemon EXCEPT !.root = Root("daemon2"), !.rotations = Rotated("daemon", "daemon2")]
Keyless(p, name) == [Entry(p, "agent", name) EXCEPT !.hosts = <<Id("daemon")>>]
Lone == [Entry("lone", "agent", "bot") EXCEPT !.root = Root("lone")]
Guest == [Entry("guest", "human", None) EXCEPT !.root = Root("guest"),
                                               !.devices = <<Binding(Pad, None, Pin)>>]

RevokedBy(p, key, by, at) == [principal |-> p, key |-> key, by |-> by, at |-> at]

\* The owner has rotated once.
Fleet(id, entries) ==
    [id |-> id, type |-> "registry", carriers |-> 1, chain |-> <<"owner", "owner2">>,
     allow |-> TRUE, entries |-> entries]

\* First: the laptop is on the daemon and has the approval key.
First == Fleet(1, <<Owner(<<Binding(Laptop, Id("daemon"), ApprovalKey), Binding(Phone, None, None)>>),
                    Daemon, Keyless("hosted", None), Lone, Guest>>)

\* Second: the approval key has moved to the phone, the daemon has a new root,
\* "lone" is frozen, and its name is that of "hosted" and of a kind to come;
\* "guest" is a service.
Second == Fleet(2, <<Owner(<<Binding(Laptop, Id("daemon"), None), Binding(Phone, None, ApprovalKey)>>),
                     Daemon2, Keyless("hosted", "bot"), [Lone EXCEPT !.frozen = TRUE],
                     Entry("future", "unknown", "bot"),
                     [Guest EXCEPT !.kind = "service", !.devices = <<>>]>>)

\* Third: "lone" is keyless, and the daemon revoked a device of its own.
Third == Fleet(3, <<Owner(<<Binding(Laptop, None, ApprovalKey)>>),
                    [Daemon EXCEPT !.revocations = <<RevokedBy("daemon", "box", "daemon", 1)>>],
                    Keyless("lone", "bot")>>)

\* To be refused: each breaks one of the rules.
Refused ==
    LET With(e) == [First EXCEPT !.id = 4, !.entries = Append(@, e)]
        WithOwner(o) == [First EXCEPT !.id = 4, !.entries[1] = o]
        WithDaemon(d) == [First EXCEPT !.id = 4, !.entries[2] = d]
        laptop(d, h, a) == Owner(<<Binding(d, h, a)>>)
    IN  {[First EXCEPT !.id = 4, !.type = "other"],
         [First EXCEPT !.id = 4, !.carriers = 2],
         [First EXCEPT !.id = 4, !.entries = Tail(@)],
         [First EXCEPT !.id = 4, !.chain = <<"owner">>],
         With(Keyless("clash", None)),
         With(Entry("clash", "unknown", None)),
         With(Lone),
         With([Keyless("future", "box") EXCEPT !.id.canonical = FALSE]),
         With(Entry("future", "unspecified", None)),
         With(Keyless("future", "box")),
         With(Keyless("future", "")),
         With(Keyless("future", "0123456789ABCDEF")),
         With([Keyless("future", None) EXCEPT !.hosts = <<>>]),
         With([Entry("future", "service", None) EXCEPT !.root = Root("lone")]),
         With([Entry("future", "service", None) EXCEPT
                   !.root = [signing |-> "future", encryption |-> "laptop"]]),
         [First EXCEPT !.id = 4, !.entries[5] = [Guest EXCEPT !.kind = "service"]],
         WithOwner([Owner(<<>>) EXCEPT !.frozen = TRUE]),
         WithOwner([Owner(<<>>) EXCEPT !.rotations = Rotated("owner", "owner2")]),
         WithOwner([Owner(<<>>) EXCEPT !.revocations = <<RevokedBy("owner", "owner2", "owner", 0)>>]),
         WithOwner([Owner(<<>>) EXCEPT !.revocations = <<RevokedBy("owner", "else", "owner", 0)>>]),
         WithOwner(laptop(Laptop, Id("hosted"), ApprovalKey)),
         WithOwner(laptop([Laptop EXCEPT !.root = "owner"], None, None)),
         WithOwner(laptop([Laptop EXCEPT !.to = 0], None, None)),
         WithOwner(laptop(Laptop, None, Phone)),
         WithOwner(laptop(Laptop, None, [ApprovalKey EXCEPT !.root = "owner"])),
         WithDaemon([Daemon2 EXCEPT !.rotations = Rotated("daemon", "daemon")]),
         WithDaemon([Daemon EXCEPT !.devices = Owner(<<Binding(Laptop, None, None)>>).devices]),
         WithDaemon([Daemon EXCEPT !.revocations = <<RevokedBy("daemon", "box", "owner2", 0)>>])}

MCDocuments == {First, Second, Third} \cup Refused

SelfCert(p, device, from, to) ==
    [mode |-> "self", principal |-> p, device |-> device, host |-> None, subject |-> None,
     from |-> from, to |-> to]
HostCert(p, device, host, from, to) ==
    [mode |-> "host", principal |-> p, device |-> device, host |-> host,
     subject |-> "id_" \o host, from |-> from, to |-> to]

Chain(chain, device, cert, issued) ==
    [chain |-> chain, device |-> device, cert |-> cert, issued |-> issued]

Box(root) == Device("daemon", root, "box", 0, 3)
DaemonRoots == {"daemon", "daemon2"}

\* The laptop and the phone for the owner, the pad for "guest", the daemon under
\* either root, and "lone", one of whose devices starts late and whose other one
\* outlives MaxUnlisted.
SelfMessages ==
    {Chain("self", d, SelfCert("owner", d.key, 0, 2), 1) : d \in {Laptop, Phone}}
    \cup {Chain("self", Pad, SelfCert("guest", "pad", 0, 2), 1)}
    \cup {Chain("self", Box(r), SelfCert("daemon", "box", 1, 3), 2) : r \in DaemonRoots}
    \cup {Chain("self", Device("lone", "lone", "own", w[1], w[2]),
                SelfCert("lone", "own", 1, 2), 1) : w \in {<<2, 4>>, <<0, 4>>}}

\* The daemon under either root for "hosted".
HostMessages ==
    {Chain("host", Box(r), HostCert("hosted", "box", "daemon", 0, 2), 1) : r \in DaemonRoots}

MCMessages == SelfMessages \cup HostMessages

MCApprovals == {[principal |-> "owner", device |-> d, key |-> "approval", issued |-> 1] :
                   d \in {"laptop", "phone"}}
               \cup {[principal |-> "guest", device |-> "pad", key |-> "pin", issued |-> 1]}

MCRevocations ==
    LET Revoke(d, p, k) == [document |-> d, key |-> "approval", target |-> p,
                            revoked |-> k, issued |-> 1]
    IN  {Revoke(1, "daemon", None), Revoke(1, "daemon", "daemon"),
         Revoke(1, "daemon", "box"), Revoke(1, "lone", None), Revoke(1, "lone", "own"),
         Revoke(2, "daemon", "daemon"), Revoke(2, "hosted", None),
         Revoke(3, "owner", "laptop"), Revoke(3, "owner", None)}
=============================================================================

------------------------------- MODULE WgHost -------------------------------
(***************************************************************************)
(* The Linux host as the wg package sees it: WireGuard devices driven over *)
(* netlink and wgctrl, and the iptables rules that serve NAT and port      *)
(* forwards.  Everything here is a function of the old kernel state and of *)
(* the faults the environment injects; WgPanel composes these functions    *)
(* into request handlers.                                                  *)
(*                                                                         *)
(* A fault pattern F says which calls fail while one handler runs:         *)
(*   F.host  subset of HostFaults: netlink, wgctrl and ip_forward calls    *)
(*   F.add   kinds of rules iptables refuses to install                    *)
(*   F.del   kinds of rules iptables fails to check or to delete           *)
(*   F.db    statements the database refuses (used by WgPanel)             *)
(***************************************************************************)
EXTENDS Naturals

CONSTANTS
    Ifaces,     \* interface row ids; the database never reuses an id
    Names,      \* device names
    NameOf,     \* the name each interface row is created with (immutable)
    Peers,      \* peer row ids, one public key each
    Pfs,        \* port-forward row ids
    Addrs,      \* server addresses in CIDR form, e.g. 10.8.0.1/24
    SubnetOf,   \* the network each address denotes (wg.subnetFor)
    Links,      \* uplinks of the host, e.g. eth0
    NoLink,     \* the empty egress string, or no default route
    Ports       \* listen, public and target ports

ASSUME HostAssumption ==
    /\ NameOf \in [Ifaces -> Names]
    /\ Addrs # {} /\ Ports # {} /\ Ifaces # {}
    /\ NoLink \notin Links

-----------------------------------------------------------------------------
(* Devices *)

Configs == Ifaces \X Ports      \* whose private key, which listen port

Device == [exists: BOOLEAN, addrs: SUBSET Addrs,
           conf: Configs \union {<<>>}, peers: SUBSET Peers]

NoDevice == [exists |-> FALSE, addrs |-> {}, conf |-> <<>>, peers |-> {}]

HostFaults == {"link", "addr", "rmlink", "device", "peer", "forwarding"}

\* EnsureLink creates a missing device, then adds the address: the address a
\* device had before is never taken away.
LinkOK(d, F) == (d.exists \/ "link" \notin F.host) /\ "addr" \notin F.host

EnsureLink(d, a, F) ==
    IF ~d.exists /\ "link" \in F.host
      THEN d
      ELSE [d EXCEPT !.exists = TRUE,
                     !.addrs = IF "addr" \in F.host THEN @ ELSE @ \union {a}]

RemoveLink(d, F) == IF "rmlink" \in F.host THEN d ELSE NoDevice

\* Absent devices have nothing to fail on.
RemoveLinkOK(d, F) == d.exists => "rmlink" \notin F.host

\* Seeded fault: the listen port is left out of the configuration.
ConfigureDeviceNoPort(d, c, served) == [d EXCEPT !.conf = <<c[1]>>, !.peers = served]

\* wgctrl with ReplacePeers: key, port and the whole peer set.
ConfigureDevice(d, c, served) == [d EXCEPT !.conf = c, !.peers = served]

\* Seeded fault: the single-peer configuration replaces the peer set.
ConfigurePeerReplacing(d, p) == [d EXCEPT !.peers = {p}]

ConfigurePeer(d, p) == [d EXCEPT !.peers = @ \union {p}]

\* Seeded fault: the peer stays.
RemovePeerNot(d, p) == d

RemovePeer(d, p) == [d EXCEPT !.peers = @ \ {p}]

-----------------------------------------------------------------------------
(* Firewall: a set of rules, each a triple that starts with its kind *)

NatKinds == {"masq", "out", "in", "hub"}
PfKinds  == {"dnat", "accept", "reply", "pfmasq"}

\* The masquerade rule is keyed by subnet and egress only, the others by device.
NatRules(n, a, e) ==
    {<<"masq", SubnetOf[a], e>>, <<"out", n, e>>, <<"in", n, e>>, <<"hub", n, n>>}

\* A forward's interface, public port, target IP and egress never change, and
\* its comment carries its id, so the id and the target port identify its rules.
PfRules(f, t) ==
    {<<"dnat", f, t>>, <<"accept", f, t>>, <<"reply", f, f>>, <<"pfmasq", f, t>>}

\* Rules are installed in this order; the first refusal stops the sequence.
NotAfter ==
    [masq |-> {"masq"},         out    |-> {"masq", "out"},
     in   |-> NatKinds \ {"hub"}, hub  |-> NatKinds,
     dnat |-> {"dnat"},         accept |-> {"dnat", "accept"},
     reply |-> PfKinds \ {"pfmasq"}, pfmasq |-> PfKinds]

EnsureRules(fw, rules, F) ==
    IF "forwarding" \in F.host
      THEN fw
      ELSE fw \union {r \in rules : NotAfter[r[1]] \intersect F.add = {}}

EnsureRulesOK(rules, F) ==
    "forwarding" \notin F.host /\ \A r \in rules : r[1] \notin F.add

\* A check that fails is taken for an absent rule.
DeleteRules(fw, rules, F) == fw \ {r \in rules : r[1] \notin F.del}

\* The uplink SetupNAT and TeardownNAT target when the row names none.
Egress(e, wan) == IF e = NoLink THEN wan ELSE e

SetupNATOK(n, a, e, wan, F) ==
    /\ Egress(e, wan) # NoLink
    /\ EnsureRulesOK(NatRules(n, a, Egress(e, wan)), F)

SetupNAT(fw, n, a, e, wan, F) ==
    IF Egress(e, wan) = NoLink
      THEN fw
      ELSE EnsureRules(fw, NatRules(n, a, Egress(e, wan)), F)

\* Seeded fault: the rules of the current default route are removed instead.
TeardownNATOfRoute(fw, n, a, e, wan, F) == DeleteRules(fw, NatRules(n, a, wan), F)

TeardownNAT(fw, n, a, e, wan, F) ==
    IF Egress(e, wan) = NoLink
      THEN fw
      ELSE DeleteRules(fw, NatRules(n, a, Egress(e, wan)), F)
=============================================================================

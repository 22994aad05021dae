------------------------------ MODULE WgPanel ------------------------------
(***************************************************************************)
(* The WireGuard panel: interface, peer and port-forward handlers, the     *)
(* reconcile and syncPeer helpers, and the bootstrap that runs beside the  *)
(* server after a start.  A request is one step here (WgRequests takes     *)
(* the handlers apart); the bootstrap is one step per interface, because   *)
(* main starts it in a goroutine of its own.                               *)
(*                                                                         *)
(* A request the code rejects (404, 409, 422, or a 500 before the first    *)
(* effect) changes nothing and is a stuttering step: it has no action.     *)
(***************************************************************************)
EXTENDS WgHost

CONSTANTS
    Users, SuperAdmins,   \* panel users; those holding the wildcard
    IPs,                  \* tunnel addresses, as numbers
    HostsOf,              \* the addresses ValidateIPInCIDR accepts under a CIDR
    AddrChoices,          \* bound: the addresses an operator gives an interface,
    EgressChoices,        \* bound: the egress links a request names,
    MasqChoices,          \* bound: the masquerade settings a request asks for,
    PortChoices,          \* bound: the listen, public and target ports it names,
    FaultSets             \* bound: the fault patterns one handler may meet

ASSUME PanelAssumption ==
    /\ Users # {} /\ SuperAdmins \subseteq Users
    /\ IPs \subseteq Nat /\ IPs # {} /\ Peers # {}
    /\ HostsOf \in [Addrs -> SUBSET IPs]
    /\ AddrChoices \in [Ifaces -> SUBSET Addrs]
    /\ EgressChoices \subseteq Links \union {NoLink}
    /\ MasqChoices \subseteq BOOLEAN
    /\ PortChoices \in [listen: SUBSET Ports, public: SUBSET Ports, target: SUBSET Ports]

VARIABLES
    ifaces,   \* wg_interfaces rows
    peers,    \* peers rows
    pfs,      \* port_forwards rows
    dev,      \* kernel devices by name
    fw,       \* iptables rules
    wan,      \* the link of the default route
    todo,     \* interfaces the running bootstrap has still to reconcile
    pfTodo,   \* the running bootstrap has still to re-apply forwards
    owed      \* names whose last full apply was reported as failed (history)

db   == <<ifaces, peers, pfs>>
boot == <<todo, pfTodo>>
vars == <<ifaces, peers, pfs, dev, fw, wan, todo, pfTodo, owed>>

-----------------------------------------------------------------------------
(* Rows *)

RowState == {"none", "active", "trashed", "purged"}

Iface == [st: RowState, on: BOOLEAN, addr: Addrs, masq: BOOLEAN,
          egress: Links \union {NoLink}, port: Ports, owner: Users]
Peer  == [st: RowState, iface: Ifaces, on: BOOLEAN, ip: IPs]
Pf    == [st: {"none", "active", "purged"}, iface: Ifaces, peer: Peers,
          on: BOOLEAN, pub: Ports, tport: Ports, owner: Users]

\* Rows that are not in the table: "none" before the insert, "purged" after the
\* hard delete.  Their other columns hold one arbitrary value.
BlankIface(st) ==
    [st |-> st, on |-> FALSE, addr |-> CHOOSE a \in Addrs : TRUE, masq |-> FALSE,
     egress |-> NoLink, port |-> CHOOSE n \in Ports : TRUE,
     owner |-> CHOOSE u \in Users : TRUE]
BlankPeer(st) ==
    [st |-> st, iface |-> CHOOSE i \in Ifaces : TRUE, on |-> FALSE,
     ip |-> CHOOSE a \in IPs : TRUE]
BlankPf(st) ==
    [st |-> st, iface |-> CHOOSE i \in Ifaces : TRUE,
     peer |-> CHOOSE p \in Peers : TRUE, on |-> FALSE,
     pub |-> CHOOSE n \in Ports : TRUE, tport |-> CHOOSE n \in Ports : TRUE,
     owner |-> CHOOSE u \in Users : TRUE]

InTable(row) == row.st \in {"active", "trashed"}

Rule ==
    (UNION {NatRules(n, a, e) : n \in Names, a \in Addrs, e \in Links})
      \union (UNION {PfRules(f, t) : f \in Pfs, t \in Ports})

\* Every column, device, rule and pending set holds a value of its kind.
TypeOK ==
    /\ ifaces \in [Ifaces -> Iface]
    /\ peers \in [Peers -> Peer]
    /\ pfs \in [Pfs -> Pf]
    /\ dev \in [Names -> Device]
    /\ fw \subseteq Rule
    /\ wan \in Links \union {NoLink}
    /\ todo \subseteq Ifaces
    /\ pfTodo \in BOOLEAN
    /\ owed \subseteq Names

Init ==
    /\ ifaces = [i \in Ifaces |-> BlankIface("none")]
    /\ peers = [p \in Peers |-> BlankPeer("none")]
    /\ pfs = [f \in Pfs |-> BlankPf("none")]
    /\ dev = [n \in Names |-> NoDevice]
    /\ fw = {}
    /\ wan \in Links
    /\ todo = {} /\ pfTodo = FALSE
    /\ owed = {}

-----------------------------------------------------------------------------
(* Queries *)

Active(i) == ifaces[i].st = "active"

\* ownsResource: super admins act on everything, others on what they own.
Owns(u, owner) == u \in SuperAdmins \/ u = owner

\* The peers a full configuration contains, given a peers table.
Served(table, i) ==
    {p \in Peers : table[p].st = "active" /\ table[p].iface = i /\ table[p].on}

Forwards(i)      == {f \in Pfs : pfs[f].st = "active" /\ pfs[f].iface = i}
ForwardsTo(p)    == {f \in Pfs : pfs[f].st = "active" /\ pfs[f].peer = p}
Enabled(S)       == {f \in S : pfs[f].on}
RulesOf(S)       == UNION {PfRules(f, pfs[f].tport) : f \in S}

\* The helpers give up silently when the forwards cannot be loaded.
Found(S, F) == IF "pfload" \in F.db THEN {} ELSE S

\* Seeded faults: nothing is re-applied; disabled forwards are re-applied too.
ReapplyNothing(rules, S, F) == rules
ReapplyAll(rules, S, F) == EnsureRules(rules, RulesOf(Found(S, F)), F)

\* reapplyPortForwards and removePortForwardRules.
Reapply(rules, S, F) == EnsureRules(rules, RulesOf(Found(Enabled(S), F)), F)
Unapply(rules, S, F) == DeleteRules(rules, RulesOf(Found(S, F)), F)

\* What the panel reported on a name: a full apply that worked settles it, a
\* warning or an error leaves it owed.
Report(n, ok) == owed' = IF ok THEN owed \ {n} ELSE owed \union {n}

-----------------------------------------------------------------------------
(* reconcile and syncPeer.  `row' is the interface row the helper reads,   *)
(* `served' the enabled peers preloaded with it.                           *)

Configured(i, F) == LinkOK(dev[NameOf[i]], F) /\ "device" \notin F.host

ReconcileOK(i, row, F) ==
    /\ "load" \notin F.db
    /\ ~row.on => RemoveLinkOK(dev[NameOf[i]], F)
    /\ row.on => Configured(i, F)
    /\ row.on /\ row.masq =>
         /\ SetupNATOK(NameOf[i], row.addr, row.egress, wan, F)
         /\ row.egress = NoLink => "egress" \notin F.db

ReconcileDev(i, row, served, F) ==
    LET d      == dev[NameOf[i]]
        linked == EnsureLink(d, row.addr, F)
    IN  IF "load" \in F.db THEN d
        ELSE IF ~row.on THEN RemoveLink(d, F)
        ELSE IF Configured(i, F)
               THEN ConfigureDevice(linked, <<i, row.port>>, served)
               ELSE linked

ReconcileFw(rules, i, row, F) ==
    IF "load" \in F.db \/ (row.on /\ ~Configured(i, F))
      THEN rules
      ELSE IF row.on /\ row.masq
             THEN SetupNAT(rules, NameOf[i], row.addr, row.egress, wan, F)
             ELSE TeardownNAT(rules, NameOf[i], row.addr, row.egress, wan, F)

\* Seeded fault: the detected egress is not stored.
ResolvedNot(i, row, F) == row

\* applyNAT stores an auto-detected egress in the row.
Resolved(i, row, F) ==
    IF row.on /\ row.masq /\ ReconcileOK(i, row, F)
      THEN [row EXCEPT !.egress = Egress(row.egress, wan)]
      ELSE row

\* syncPeer applies one peer, and answers with an error when the interface row
\* is trashed or gone.
SyncPeerOK(i, F) ==
    /\ "load" \notin F.db
    /\ Active(i)
    /\ ifaces[i].on => LinkOK(dev[NameOf[i]], F) /\ "peer" \notin F.host

SyncPeer(i, p, wanted, F) ==
    LET d      == dev[NameOf[i]]
        linked == EnsureLink(d, ifaces[i].addr, F)
        synced ==
          IF "load" \in F.db \/ ~Active(i) \/ ~ifaces[i].on THEN d
          ELSE IF ~SyncPeerOK(i, F) THEN linked
          ELSE IF wanted THEN ConfigurePeer(linked, p) ELSE RemovePeer(linked, p)
    IN  /\ dev' = [dev EXCEPT ![NameOf[i]] = synced]
        /\ owed' = IF SyncPeerOK(i, F) \/ ~Active(i)
                     THEN owed ELSE owed \union {NameOf[i]}

-----------------------------------------------------------------------------
(* Interface handlers *)

\* The rows a create request can ask for, enabled whatever it says: the insert
\* drops a FALSE on a column whose default is TRUE.
NewIface(u, i) ==
    {[st |-> "active", on |-> TRUE, addr |-> a, masq |-> m, egress |-> e,
      port |-> p, owner |-> u] :
       a \in AddrChoices[i], m \in MasqChoices, e \in EgressChoices,
       p \in PortChoices.listen}

IfaceCreate(u, i, F) ==
    \E row \in NewIface(u, i) :
      /\ ifaces[i].st = "none"
      /\ \A j \in Ifaces : InTable(ifaces[j]) => NameOf[j] # NameOf[i]
      /\ "save" \notin F.db
      /\ ifaces' = [ifaces EXCEPT ![i] = Resolved(i, row, F)]
      /\ dev' = [dev EXCEPT ![NameOf[i]] = ReconcileDev(i, row, {}, F)]
      /\ fw' = ReconcileFw(fw, i, row, F)
      /\ Report(NameOf[i], ReconcileOK(i, row, F))
      /\ UNCHANGED <<peers, pfs, wan, boot>>

\* An update request, and the row it turns a row into.
Edits(i) ==
    [addr: AddrChoices[i], egress: EgressChoices, port: PortChoices.listen,
     masq: MasqChoices, on: BOOLEAN]
Edited(i, e) ==
    [ifaces[i] EXCEPT !.addr = e.addr, !.egress = e.egress, !.port = e.port,
                      !.masq = e.masq, !.on = e.on]

\* The NAT rules of the row as it was; `stuck' are the kinds that stay.
TornDown(i, stuck) ==
    TeardownNAT(fw, NameOf[i], ifaces[i].addr, ifaces[i].egress, wan, [del |-> stuck])
StuckKinds == {F.del : F \in FaultSets}

\* Update: the previous NAT target is torn down before the save, with failures of
\* its own, and forwards are touched only when the interface could be applied.
IfaceUpdate(u, i, F) ==
    \E e \in Edits(i), stuck \in StuckKinds :
      LET row     == Edited(i, e)
          applied == ReconcileFw(TornDown(i, stuck), i, row, F)
          ok      == "save" \notin F.db /\ ReconcileOK(i, row, F)
      IN  /\ Active(i) /\ Owns(u, ifaces[i].owner)
          /\ IF "save" \in F.db
               THEN fw' = TornDown(i, stuck) /\ UNCHANGED <<ifaces, dev>>
               ELSE /\ ifaces' = [ifaces EXCEPT ![i] = Resolved(i, row, F)]
                    /\ dev' = [dev EXCEPT ![NameOf[i]] =
                                 ReconcileDev(i, row, Served(peers, i), F)]
                    /\ fw' = IF ~ok THEN applied
                             ELSE IF row.on THEN Reapply(applied, Forwards(i), F)
                                            ELSE Unapply(applied, Forwards(i), F)
          /\ Report(NameOf[i], ok)
          /\ UNCHANGED <<peers, pfs, wan, boot>>

\* What Delete and Purge take out of the firewall before touching a row.
CutOff(i, F) ==
    TeardownNAT(Unapply(fw, Forwards(i), F),
                NameOf[i], ifaces[i].addr, ifaces[i].egress, wan, F)

IfaceDelete(u, i, F) ==
    /\ Active(i) /\ Owns(u, ifaces[i].owner)
    /\ fw' = CutOff(i, F)
    /\ dev' = [dev EXCEPT ![NameOf[i]] = RemoveLink(@, F)]
    /\ peers' = IF "peers" \in F.db THEN peers
                ELSE [p \in Peers |->
                        IF peers[p].st = "active" /\ peers[p].iface = i
                          THEN [peers[p] EXCEPT !.st = "trashed"] ELSE peers[p]]
    /\ ifaces' = IF {"peers", "row"} \intersect F.db # {} THEN ifaces
                 ELSE [ifaces EXCEPT ![i].st = "trashed"]
    /\ Report(NameOf[i], /\ {"peers", "row"} \intersect F.db = {}
                         /\ RemoveLinkOK(dev[NameOf[i]], F))
    /\ UNCHANGED <<pfs, wan, boot>>

\* Restore brings back every trashed peer of the interface; without them it
\* stops before the kernel is touched.
IfaceRestore(u, i, F) ==
    LET row  == [ifaces[i] EXCEPT !.st = "active"]
        back == [p \in Peers |->
                   IF peers[p].st = "trashed" /\ peers[p].iface = i
                     THEN [peers[p] EXCEPT !.st = "active"] ELSE peers[p]]
        ok   == "peers" \notin F.db /\ ReconcileOK(i, row, F)
        applied == ReconcileFw(fw, i, row, F)
    IN  /\ ifaces[i].st = "trashed" /\ Owns(u, ifaces[i].owner)
        /\ "row" \notin F.db
        /\ IF "peers" \in F.db
             THEN /\ ifaces' = [ifaces EXCEPT ![i] = row]
                  /\ UNCHANGED <<peers, dev, fw>>
             ELSE /\ ifaces' = [ifaces EXCEPT ![i] = Resolved(i, row, F)]
                  /\ peers' = back
                  /\ dev' = [dev EXCEPT ![NameOf[i]] =
                               ReconcileDev(i, row, Served(back, i), F)]
                  /\ fw' = IF ok THEN Reapply(applied, Forwards(i), F) ELSE applied
        /\ Report(NameOf[i], ok)
        /\ UNCHANGED <<pfs, wan, boot>>

\* Purge: forwards go first, then the peers, then the row.
IfacePurge(u, i, F) ==
    /\ InTable(ifaces[i]) /\ Owns(u, ifaces[i].owner)
    /\ fw' = CutOff(i, F)
    /\ pfs' = IF "pfrow" \in F.db THEN pfs
              ELSE [f \in Pfs |-> IF f \in Found(Forwards(i), F)
                                    THEN BlankPf("purged") ELSE pfs[f]]
    /\ dev' = [dev EXCEPT ![NameOf[i]] = RemoveLink(@, F)]
    /\ peers' = IF "peers" \in F.db THEN peers
                ELSE [p \in Peers |-> IF InTable(peers[p]) /\ peers[p].iface = i
                                        THEN BlankPeer("purged") ELSE peers[p]]
    /\ ifaces' = IF {"peers", "row"} \intersect F.db # {} THEN ifaces
                 ELSE [ifaces EXCEPT ![i] = BlankIface("purged")]
    /\ Report(NameOf[i], /\ {"peers", "row"} \intersect F.db = {}
                         /\ RemoveLinkOK(dev[NameOf[i]], F))
    /\ UNCHANGED <<wan, boot>>

\* One full apply of a row that is still active; both Sync and the bootstrap
\* do this and nothing else.
Apply(i, F) ==
    /\ ifaces' = [ifaces EXCEPT ![i] = Resolved(i, @, F)]
    /\ dev' = [dev EXCEPT ![NameOf[i]] =
                 ReconcileDev(i, ifaces[i], Served(peers, i), F)]
    /\ fw' = ReconcileFw(fw, i, ifaces[i], F)
    /\ Report(NameOf[i], ReconcileOK(i, ifaces[i], F))
    /\ UNCHANGED <<peers, pfs, wan>>

IfaceSync(u, i, F) ==
    /\ Active(i) /\ Owns(u, ifaces[i].owner)
    /\ Apply(i, F)
    /\ UNCHANGED boot

-----------------------------------------------------------------------------
(* Peer handlers *)

\* NextFreeIP over the peers preloaded with the interface: the trashed ones are
\* not among them.
Least(S) == CHOOSE a \in S : \A b \in S : a <= b
FreeIPs(i) ==
    HostsOf[ifaces[i].addr]
      \ {peers[p].ip : p \in {q \in Peers : peers[q].st = "active"
                                              /\ peers[q].iface = i}}

\* ensurePeerUnique: trashed rows count.
Taken(i, ip) ==
    \E p \in Peers : InTable(peers[p]) /\ peers[p].iface = i /\ peers[p].ip = ip

PeerCreate(u, i, p, F) ==
    \E auto \in BOOLEAN, ip \in HostsOf[ifaces[i].addr] :
      /\ Active(i) /\ Owns(u, ifaces[i].owner)
      /\ peers[p].st = "none"
      /\ auto => FreeIPs(i) # {} /\ ip = Least(FreeIPs(i))
      /\ ~Taken(i, ip)
      /\ "save" \notin F.db
      /\ peers' = [peers EXCEPT ![p] =
                     [st |-> "active", iface |-> i, on |-> TRUE, ip |-> ip]]
      /\ SyncPeer(i, p, TRUE, F)
      /\ UNCHANGED <<ifaces, pfs, fw, wan, boot>>

\* Seeded fault: the owner is not asked for.
MayActOnAny(u, p) == TRUE

\* The parent is looked up with its trash for the ownership check.
MayActOn(u, p) == Owns(u, ifaces[peers[p].iface].owner)

PeerUpdate(u, p, F) ==
    \E on \in BOOLEAN :
      /\ peers[p].st = "active" /\ MayActOn(u, p)
      /\ "save" \notin F.db
      /\ peers' = [peers EXCEPT ![p].on = on]
      /\ SyncPeer(peers[p].iface, p, on, F)
      /\ UNCHANGED <<ifaces, pfs, fw, wan, boot>>

PeerDelete(u, p, F) ==
    /\ peers[p].st = "active" /\ MayActOn(u, p)
    /\ fw' = Unapply(fw, ForwardsTo(p), F)
    /\ IF "row" \in F.db
         THEN UNCHANGED <<peers, dev, owed>>
         ELSE /\ peers' = [peers EXCEPT ![p].st = "trashed"]
              /\ SyncPeer(peers[p].iface, p, FALSE, F)
    /\ UNCHANGED <<ifaces, pfs, wan, boot>>

\* Seeded fault: the parent is looked up with its trash.
ParentKnown(i) == InTable(ifaces[i])

\* Restore is refused while the parent interface is in the trash.
ParentInService(i) == Active(i)

PeerRestore(u, p, F) ==
    LET i == peers[p].iface
    IN  /\ peers[p].st = "trashed" /\ MayActOn(u, p)
        /\ ParentInService(i)
        /\ "row" \notin F.db
        /\ peers' = [peers EXCEPT ![p].st = "active"]
        /\ SyncPeer(i, p, peers[p].on, F)
        /\ fw' = IF SyncPeerOK(i, F) THEN Reapply(fw, ForwardsTo(p), F) ELSE fw
        /\ UNCHANGED <<ifaces, pfs, wan, boot>>

PeerPurge(u, p, F) ==
    /\ InTable(peers[p]) /\ MayActOn(u, p)
    /\ fw' = Unapply(fw, ForwardsTo(p), F)
    /\ pfs' = IF "pfrow" \in F.db THEN pfs
              ELSE [f \in Pfs |-> IF f \in Found(ForwardsTo(p), F)
                                    THEN BlankPf("purged") ELSE pfs[f]]
    /\ IF "row" \in F.db
         THEN UNCHANGED <<peers, dev, owed>>
         ELSE /\ peers' = [peers EXCEPT ![p] = BlankPeer("purged")]
              /\ SyncPeer(peers[p].iface, p, FALSE, F)
    /\ UNCHANGED <<ifaces, wan, boot>>

-----------------------------------------------------------------------------
(* Port-forward handlers *)

\* reservedPort: a listen port of any interface row, trash included; a failing
\* count lets every port through.  SSH and the panel's own port are not in Ports.
Reserved(port, F) ==
    /\ "reserved" \notin F.db
    /\ \E i \in Ifaces : InTable(ifaces[i]) /\ ifaces[i].port = port

PfCreate(u, p, f, F) ==
    \E pub \in PortChoices.public, tport \in PortChoices.target :
      LET i   == peers[p].iface
          row == [st |-> "active", iface |-> i, peer |-> p, on |-> TRUE,
                  pub |-> pub, tport |-> tport, owner |-> u]
      IN  /\ ~Reserved(pub, F)
          /\ peers[p].st = "active"
          /\ Active(i) /\ Owns(u, ifaces[i].owner)
          /\ Egress(ifaces[i].egress, wan) # NoLink
          /\ pfs[f].st = "none"
          /\ \A g \in Pfs : pfs[g].st = "active" => pfs[g].pub # pub
          /\ "save" \notin F.db
          /\ pfs' = [pfs EXCEPT ![f] = row]
          /\ fw' = EnsureRules(fw, PfRules(f, tport), F)
          /\ UNCHANGED <<ifaces, peers, dev, wan, boot, owed>>

\* The old rules are removed before the save.  Neither the interface nor the
\* peer has to be in service for the new ones to be installed.
PfUpdate(u, f, F) ==
    \E tport \in PortChoices.target, on \in BOOLEAN :
      LET removed == DeleteRules(fw, PfRules(f, pfs[f].tport), F)
      IN  /\ pfs[f].st = "active" /\ Owns(u, pfs[f].owner)
          /\ InTable(ifaces[pfs[f].iface])
          /\ IF "save" \in F.db
               THEN fw' = removed /\ UNCHANGED pfs
               ELSE /\ pfs' = [pfs EXCEPT ![f].tport = tport, ![f].on = on]
                    /\ fw' = IF on THEN EnsureRules(removed, PfRules(f, tport), F)
                                   ELSE removed
          /\ UNCHANGED <<ifaces, peers, dev, wan, boot, owed>>

PfDelete(u, f, F) ==
    /\ pfs[f].st = "active" /\ Owns(u, pfs[f].owner)
    /\ InTable(ifaces[pfs[f].iface])
    /\ fw' = DeleteRules(fw, PfRules(f, pfs[f].tport), F)
    /\ pfs' = IF "row" \in F.db THEN pfs
              ELSE [pfs EXCEPT ![f] = BlankPf("purged")]
    /\ UNCHANGED <<ifaces, peers, dev, wan, boot, owed>>

-----------------------------------------------------------------------------
(* Start-up and environment *)

Wanted == {i \in Ifaces : Active(i) /\ ifaces[i].on}

\* The process starts again and BootstrapRuntime lists the enabled interfaces;
\* a failing list is logged and ends the bootstrap.  A reboot of the host also
\* loses devices and rules.
Start(F, reboot) ==
    /\ IF reboot THEN dev' = [n \in Names |-> NoDevice] /\ fw' = {}
                 ELSE UNCHANGED <<dev, fw>>
    /\ todo' = IF "list" \in F.db THEN {} ELSE Wanted
    /\ pfTodo' = ("list" \notin F.db)
    /\ owed' = IF "list" \in F.db THEN Names ELSE IF reboot THEN {} ELSE owed
    /\ UNCHANGED <<db, wan>>

\* Seeded fault: the bootstrap waits for an interface trashed meanwhile.
BootReconcileWaiting(i, F) ==
    i \in todo /\ todo' = todo \ {i} /\ Active(i) /\ Apply(i, F) /\ UNCHANGED pfTodo

\* Interfaces are reconciled one by one, in no particular order, while requests
\* are served.  One trashed meanwhile is not found, which is only logged.
BootReconcile(i, F) ==
    /\ i \in todo
    /\ todo' = todo \ {i}
    /\ IF Active(i) THEN Apply(i, F)
                    ELSE UNCHANGED <<db, dev, fw, wan, owed>>
    /\ UNCHANGED pfTodo

\* ReapplyAllPortForwards asks for an enabled interface in service; it does not
\* look at the peer.
BootForwards(F) ==
    /\ todo = {} /\ pfTodo
    /\ pfTodo' = FALSE
    /\ fw' = Reapply(fw, {f \in Pfs : pfs[f].st = "active"
                                        /\ pfs[f].iface \in Wanted}, F)
    /\ UNCHANGED <<db, dev, wan, todo, owed>>

\* The host's default route moves, appears or disappears.
RouteChange ==
    /\ wan' \in (Links \union {NoLink}) \ {wan}
    /\ UNCHANGED <<db, dev, fw, boot, owed>>

Request(u, F) ==
    \/ \E i \in Ifaces : \/ IfaceCreate(u, i, F)  \/ IfaceUpdate(u, i, F)
                         \/ IfaceDelete(u, i, F)  \/ IfaceRestore(u, i, F)
                         \/ IfacePurge(u, i, F)   \/ IfaceSync(u, i, F)
    \/ \E i \in Ifaces, p \in Peers : PeerCreate(u, i, p, F)
    \/ \E p \in Peers : \/ PeerUpdate(u, p, F)    \/ PeerDelete(u, p, F)
                        \/ PeerRestore(u, p, F)   \/ PeerPurge(u, p, F)
    \/ \E p \in Peers, f \in Pfs : PfCreate(u, p, f, F)
    \/ \E f \in Pfs : PfUpdate(u, f, F) \/ PfDelete(u, f, F)

System(F) ==
    \/ \E reboot \in BOOLEAN : Start(F, reboot)
    \/ \E i \in Ifaces : BootReconcile(i, F)
    \/ BootForwards(F)

Next ==
    \/ \E F \in FaultSets : System(F) \/ \E u \in Users : Request(u, F)
    \/ RouteChange

Spec == Init /\ [][Next]_vars

\* A bootstrap that has begun goes on: nothing in it waits for a request.
BootStep == \E F \in FaultSets :
              BootForwards(F) \/ \E i \in Ifaces : BootReconcile(i, F)
FairSpec == Spec /\ WF_vars(BootStep)

-----------------------------------------------------------------------------
(* Properties *)

\* Interfaces whose live state the panel vouches for: nothing reported a failed
\* apply on the name and no bootstrap has still to reach it.
Vouched(n) == n \notin owed /\ \A i \in todo : NameOf[i] # n

\* A peer in service always hangs under an interface in service, and a trashed
\* peer under a row that can still be restored: what Delete, Restore and Purge
\* of interfaces and the refusal in the peer's Restore keep together, also when
\* one of their statements fails.
PeersUnderInterface ==
    \A p \in Peers :
      /\ peers[p].st = "active" => Active(peers[p].iface)
      /\ InTable(peers[p]) => InTable(ifaces[peers[p].iface])

\* The device of a name is what the tables ask for: it exists if and only if an
\* enabled interface in service has the name, and then has that interface's key,
\* port and address and exactly its enabled peers.
InSync(n) ==
    /\ dev[n].exists <=> \E i \in Wanted : NameOf[i] = n
    /\ \A i \in Wanted : NameOf[i] = n =>
         /\ dev[n].conf = <<i, ifaces[i].port>>
         /\ ifaces[i].addr \in dev[n].addrs
         /\ dev[n].peers = Served(peers, i)

\* The kernel serves exactly what the tables say, for every name the panel
\* vouches for.  Each handler's mix of full apply, single-peer sync and link
\* removal has to add up to this, whatever fails on the way.
DeviceInSync == \A n \in Names : Vouched(n) => InSync(n)

NatOf(i) == NatRules(NameOf[i], ifaces[i].addr, ifaces[i].egress)

\* Clients of a masqueraded interface have all their NAT rules unless a failure
\* was reported: the rules are torn down and set up around every update.
NatInSync ==
    \A i \in Wanted : ifaces[i].masq /\ Vouched(NameOf[i]) =>
      ifaces[i].egress # NoLink /\ NatOf(i) \subseteq fw

\* No NAT rule outlives its use: each belongs to an enabled, masqueraded
\* interface in service, at the address and the egress its row names, across
\* updates of either, route changes, trash, purge and restarts.
NatNoLeak ==
    \A r \in fw : r[1] \in NatKinds =>
      \E i \in Wanted : ifaces[i].masq /\ r \in NatOf(i)

\* An enabled forward to a peer in service behind an enabled interface in
\* service has all its rules, once the bootstrap is through.
ForwardsInstalled ==
    ~pfTodo =>
      \A f \in Pfs : /\ pfs[f].st = "active" /\ pfs[f].on
                     /\ pfs[f].iface \in Wanted
                     /\ peers[pfs[f].peer].st = "active"
                     => RulesOf({f}) \subseteq fw

\* Every forward rule belongs to a row that still exists, is enabled and has the
\* rule's target port, and that row to an interface and a peer in the tables.
NoOrphanForward ==
    /\ \A r \in fw : r[1] \in PfKinds =>
         \E f \in Pfs : pfs[f].st = "active" /\ pfs[f].on /\ r \in RulesOf({f})
    /\ \A f \in Pfs : pfs[f].st = "active" =>
         /\ InTable(ifaces[pfs[f].iface])
         /\ InTable(peers[pfs[f].peer])
         /\ peers[pfs[f].peer].iface = pfs[f].iface

\* Adding, editing, deleting, restoring or purging one peer leaves every other
\* peer of every device connected or disconnected as it was.
PeerChangesAreIncremental ==
    [][\A p \in Peers :
         /\ ifaces' = ifaces /\ peers'[p] # peers[p]
         /\ \A q \in Peers \ {p} : peers'[q] = peers[q]
         => \A n \in Names : dev'[n].exists =>
              dev'[n].peers \ {p} = dev[n].peers \ {p}]_vars

\* The bootstrap of the last start runs to its end whatever requests come in
\* between.
BootstrapEnds ==
    <>[][~ \E F \in FaultSets, reboot \in BOOLEAN : Start(F, reboot)]_vars
      => <>[](todo = {} /\ ~pfTodo)
=============================================================================

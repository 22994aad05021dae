--------------------------- MODULE WgPanelProofs ---------------------------
(***************************************************************************)
(* Theorems of WgPanel, and of WgHistory about whose rows, devices and     *)
(* rules a request can touch, for every number of interfaces, peers,       *)
(* forwards, users, addresses and links and every set of fault patterns.   *)
(***************************************************************************)
EXTENDS WgHistory, TLAPS

(* Types of what the rows, devices and rules are built from *)

\* Rows before their insert, and purged ones, are rows.
LEMMA BlankTyped ==
    /\ \A st \in RowState : BlankIface(st) \in Iface /\ BlankPeer(st) \in Peer
    /\ \A st \in {"none", "active", "purged"} :
         Pfs # {} => BlankPf(st) \in Pf
  BY HostAssumption, PanelAssumption
  DEF HostAssumption, PanelAssumption, BlankIface, BlankPeer, BlankPf,
      Iface, Peer, Pf

\* Every netlink or wgctrl call, whichever fails, leaves a device.
LEMMA DeviceTyped ==
    ASSUME NEW d \in Device, NEW F
    PROVE  /\ \A a \in Addrs : EnsureLink(d, a, F) \in Device
           /\ RemoveLink(d, F) \in Device
           /\ \A i \in Ifaces, n \in Ports, S \in SUBSET Peers :
                ConfigureDevice(d, <<i, n>>, S) \in Device
           /\ \A p \in Peers : /\ ConfigurePeer(d, p) \in Device
                               /\ RemovePeer(d, p) \in Device
<1> USE DEF Device
<1>1. \A a \in Addrs : EnsureLink(d, a, F) \in Device
  BY DEF EnsureLink
<1>2. RemoveLink(d, F) \in Device
  BY DEF RemoveLink, NoDevice
<1>3. \A i \in Ifaces, n \in Ports, S \in SUBSET Peers :
        ConfigureDevice(d, <<i, n>>, S) \in Device
  BY DEF ConfigureDevice, Configs
<1>4. \A p \in Peers : ConfigurePeer(d, p) \in Device /\ RemovePeer(d, p) \in Device
  BY DEF ConfigurePeer, RemovePeer
<1> QED BY <1>1, <1>2, <1>3, <1>4

\* The rules computed for an interface or a forward are rules.
LEMMA RulesTyped ==
    /\ \A i \in Ifaces, a \in Addrs, e \in Links : NatRules(NameOf[i], a, e) \subseteq Rule
    /\ \A f \in Pfs, t \in Ports : PfRules(f, t) \subseteq Rule
<1>1. ASSUME NEW i \in Ifaces, NEW a \in Addrs, NEW e \in Links
      PROVE  NatRules(NameOf[i], a, e) \subseteq Rule
  <2>1. NameOf[i] \in Names
    BY HostAssumption DEF HostAssumption
  <2> DEFINE S == {NatRules(n, b, g) : n \in Names, b \in Addrs, g \in Links}
  <2>2. NatRules(NameOf[i], a, e) \in S
    BY <2>1
  <2>3. UNION S \subseteq Rule
    BY DEF Rule
  <2> QED BY <2>2, <2>3
<1>2. ASSUME NEW f \in Pfs, NEW t \in Ports
      PROVE  PfRules(f, t) \subseteq Rule
  <2> DEFINE S == {PfRules(g, n) : g \in Pfs, n \in Ports}
  <2>1. PfRules(f, t) \in S
    OBVIOUS
  <2>2. UNION S \subseteq Rule
    BY DEF Rule
  <2> QED BY <2>1, <2>2
<1> QED BY <1>1, <1>2

\* Installing and removing rules, refused or not, leaves a set of rules.
LEMMA FirewallTyped ==
    ASSUME TypeOK, NEW rules \in SUBSET Rule, NEW F
    PROVE  /\ \A S \in SUBSET Rule : EnsureRules(rules, S, F) \subseteq Rule
           /\ \A S : DeleteRules(rules, S, F) \subseteq Rule
           /\ \A S \in SUBSET Pfs : Reapply(rules, S, F) \subseteq Rule
           /\ \A S : Unapply(rules, S, F) \subseteq Rule
           /\ \A i \in Ifaces, row \in Iface : ReconcileFw(rules, i, row, F) \subseteq Rule
           /\ \A i, a, e : TeardownNAT(rules, NameOf[i], a, e, wan, F) \subseteq Rule
<1>1. \A S \in SUBSET Rule : EnsureRules(rules, S, F) \subseteq Rule
  BY DEF EnsureRules
<1>2. \A S : DeleteRules(rules, S, F) \subseteq Rule
  BY DEF DeleteRules
<1>3. ASSUME NEW S \in SUBSET Pfs PROVE Reapply(rules, S, F) \subseteq Rule
  <2> DEFINE T == Found(Enabled(S), F)
  <2>1. T \subseteq Pfs
    BY DEF Found, Enabled
  <2>2. \A f \in T : PfRules(f, pfs[f].tport) \subseteq Rule
    BY <2>1, RulesTyped DEF TypeOK, Pf
  <2>3. RulesOf(T) \subseteq Rule
    BY <2>2 DEF RulesOf
  <2> QED BY <1>1, <2>3 DEF Reapply
<1>4. \A S : Unapply(rules, S, F) \subseteq Rule
  BY <1>2 DEF Unapply
<1>5. \A i, a, e : TeardownNAT(rules, NameOf[i], a, e, wan, F) \subseteq Rule
  BY <1>2 DEF TeardownNAT
<1>6. ASSUME NEW i \in Ifaces, NEW row \in Iface
      PROVE  ReconcileFw(rules, i, row, F) \subseteq Rule
  <2> DEFINE e == Egress(row.egress, wan)
  <2>1. e # NoLink => e \in Links
    BY DEF Egress, TypeOK, Iface
  <2>2. e # NoLink => NatRules(NameOf[i], row.addr, e) \subseteq Rule
    BY <2>1, RulesTyped DEF Iface
  <2>3. SetupNAT(rules, NameOf[i], row.addr, row.egress, wan, F) \subseteq Rule
    BY <1>1, <2>2 DEF SetupNAT
  <2> QED BY <1>5, <2>3 DEF ReconcileFw
<1> QED BY <1>1, <1>2, <1>3, <1>4, <1>5, <1>6

\* What reconcile makes of a device and of a row is a device and a row.
LEMMA ReconcileTyped ==
    ASSUME TypeOK, NEW i \in Ifaces, NEW row \in Iface, NEW F
    PROVE  /\ NameOf[i] \in Names
           /\ \A S \in SUBSET Peers : ReconcileDev(i, row, S, F) \in Device
           /\ Resolved(i, row, F) \in Iface
<1>1. NameOf[i] \in Names /\ dev[NameOf[i]] \in Device
  BY HostAssumption DEF HostAssumption, TypeOK
<1>2. row.addr \in Addrs /\ row.port \in Ports
  BY DEF Iface
<1>3. ASSUME NEW S \in SUBSET Peers
      PROVE  ReconcileDev(i, row, S, F) \in Device
  <2> DEFINE d == dev[NameOf[i]]
             linked == EnsureLink(d, row.addr, F)
  <2>1. linked \in Device /\ RemoveLink(d, F) \in Device
    BY <1>1, <1>2, DeviceTyped
  <2>2. ConfigureDevice(linked, <<i, row.port>>, S) \in Device
    BY <2>1, <1>2, DeviceTyped
  <2> QED BY <2>1, <2>2, <1>1 DEF ReconcileDev
<1>4. Resolved(i, row, F) \in Iface
  BY DEF Resolved, Egress, Iface, TypeOK
<1> QED BY <1>1, <1>3, <1>4

\* syncPeer leaves a device, and reports names only.
LEMMA SyncTyped ==
    ASSUME TypeOK, NEW i \in Ifaces, NEW p \in Peers, NEW wanted, NEW F,
           SyncPeer(i, p, wanted, F)
    PROVE  dev' \in [Names -> Device] /\ owed' \subseteq Names
<1> DEFINE n == NameOf[i]
           linked == EnsureLink(dev[n], ifaces[i].addr, F)
<1>1. n \in Names /\ dev[n] \in Device /\ ifaces[i].addr \in Addrs
  BY HostAssumption DEF HostAssumption, TypeOK, Iface
<1>2. linked \in Device
  BY <1>1, DeviceTyped
<1>3. ConfigurePeer(linked, p) \in Device /\ RemovePeer(linked, p) \in Device
  BY <1>2, DeviceTyped
<1> QED BY <1>1, <1>2, <1>3 DEF SyncPeer, TypeOK

-----------------------------------------------------------------------------
(* Type correctness *)

\* A handler's report adds or removes a name.
LEMMA ReportTyped ==
    ASSUME TypeOK, NEW i \in Ifaces, NEW ok, Report(NameOf[i], ok)
    PROVE  owed' \subseteq Names
  BY HostAssumption DEF HostAssumption, TypeOK, Report

\* What Create inserts and Update edits of an interface is a row.
LEMMA RowsTyped ==
    ASSUME TypeOK, NEW u \in Users, NEW i \in Ifaces
    PROVE  /\ NewIface(u, i) \subseteq Iface
           /\ \A e \in Edits(i) : Edited(i, e) \in Iface
<1> USE PanelAssumption DEF PanelAssumption
<1>1. ASSUME NEW row \in NewIface(u, i) PROVE row \in Iface
  <2>1. PICK a \in AddrChoices[i], m \in MasqChoices, e \in EgressChoices,
             p \in PortChoices.listen :
          row = [st |-> "active", on |-> TRUE, addr |-> a, masq |-> m,
                 egress |-> e, port |-> p, owner |-> u]
    BY DEF NewIface
  <2> QED BY <2>1 DEF Iface, RowState
<1>2. ASSUME NEW e \in Edits(i) PROVE Edited(i, e) \in Iface
  <2>1. ifaces[i] \in Iface
    BY DEF TypeOK
  <2> QED BY <2>1 DEF Edits, Edited, Iface
<1> QED BY <1>1, <1>2

\* The six interface handlers keep every variable well formed.
LEMMA IfaceTyped ==
    ASSUME TypeOK, NEW u \in Users, NEW i \in Ifaces, NEW F,
           \/ IfaceCreate(u, i, F)  \/ IfaceUpdate(u, i, F)
           \/ IfaceDelete(u, i, F)  \/ IfaceRestore(u, i, F)
           \/ IfacePurge(u, i, F)   \/ IfaceSync(u, i, F)
    PROVE  TypeOK'
<1>0. NameOf[i] \in Names /\ ifaces[i] \in Iface /\ dev[NameOf[i]] \in Device
  BY HostAssumption DEF HostAssumption, TypeOK
<1>1. \A S, table : Served(table, i) \subseteq Peers /\ Forwards(i) \subseteq Pfs
  BY DEF Served, Forwards
<1>2. fw \in SUBSET Rule
  BY DEF TypeOK
<1>cut. CutOff(i, F) \subseteq Rule
  BY <1>2, FirewallTyped DEF CutOff
<1>gone. RemoveLink(dev[NameOf[i]], F) \in Device
  BY <1>0, DeviceTyped
<1>3. CASE IfaceCreate(u, i, F)
  <2>1. PICK row \in NewIface(u, i) :
          /\ ifaces' = [ifaces EXCEPT ![i] = Resolved(i, row, F)]
          /\ dev' = [dev EXCEPT ![NameOf[i]] = ReconcileDev(i, row, {}, F)]
          /\ fw' = ReconcileFw(fw, i, row, F)
          /\ Report(NameOf[i], ReconcileOK(i, row, F))
          /\ UNCHANGED <<peers, pfs, wan, boot>>
    BY <1>3 DEF IfaceCreate
  <2>2. row \in Iface
    BY RowsTyped
  <2>3. Resolved(i, row, F) \in Iface /\ ReconcileDev(i, row, {}, F) \in Device
    BY <2>2, ReconcileTyped
  <2>4. ReconcileFw(fw, i, row, F) \subseteq Rule
    BY <1>2, <2>2, FirewallTyped
  <2>5. owed' \subseteq Names
    BY <2>1, ReportTyped
  <2> QED BY <2>1, <2>3, <2>4, <2>5, <1>0 DEF TypeOK, boot
<1>4. CASE IfaceUpdate(u, i, F)
  <2>1. PICK e \in Edits(i), stuck \in StuckKinds :
          LET row     == Edited(i, e)
              applied == ReconcileFw(TornDown(i, stuck), i, row, F)
              ok      == "save" \notin F.db /\ ReconcileOK(i, row, F)
          IN  /\ IF "save" \in F.db
                   THEN fw' = TornDown(i, stuck) /\ UNCHANGED <<ifaces, dev>>
                   ELSE /\ ifaces' = [ifaces EXCEPT ![i] = Resolved(i, row, F)]
                        /\ dev' = [dev EXCEPT ![NameOf[i]] =
                                     ReconcileDev(i, row, Served(peers, i), F)]
                        /\ fw' = IF ~ok THEN applied
                                 ELSE IF row.on THEN Reapply(applied, Forwards(i), F)
                                                ELSE Unapply(applied, Forwards(i), F)
              /\ Report(NameOf[i], ok)
              /\ UNCHANGED <<peers, pfs, wan, boot>>
    BY <1>4 DEF IfaceUpdate
  <2> DEFINE row     == Edited(i, e)
             applied == ReconcileFw(TornDown(i, stuck), i, row, F)
  <2>2. row \in Iface
    BY RowsTyped
  <2>3. TornDown(i, stuck) \in SUBSET Rule
    BY <1>2, FirewallTyped DEF TornDown
  <2>4. Resolved(i, row, F) \in Iface
        /\ ReconcileDev(i, row, Served(peers, i), F) \in Device
    BY <1>1, <2>2, ReconcileTyped
  <2>5. applied \in SUBSET Rule
    BY <2>2, <2>3, FirewallTyped
  <2>6. /\ Reapply(applied, Forwards(i), F) \subseteq Rule
        /\ Unapply(applied, Forwards(i), F) \subseteq Rule
    BY <1>1, <2>5, FirewallTyped
  <2>7. owed' \subseteq Names
    BY <2>1, ReportTyped
  <2>8. fw' \subseteq Rule
    BY <2>1, <2>3, <2>5, <2>6
  <2>9. /\ ifaces' \in [Ifaces -> Iface] /\ dev' \in [Names -> Device]
        /\ UNCHANGED <<peers, pfs, wan, boot>>
    BY <2>1, <2>4, <1>0 DEF TypeOK
  <2> QED BY <2>7, <2>8, <2>9 DEF TypeOK, boot
<1>5. CASE IfaceDelete(u, i, F)
  <2>1. owed' \subseteq Names
    BY <1>5, ReportTyped DEF IfaceDelete
  <2>2. dev' \in [Names -> Device] /\ fw' \subseteq Rule
    BY <1>5, <1>cut, <1>gone DEF IfaceDelete, TypeOK
  <2>3. peers' \in [Peers -> Peer]
    BY <1>5 DEF IfaceDelete, TypeOK, Peer, RowState
  <2>4. ifaces' \in [Ifaces -> Iface]
    BY <1>5 DEF IfaceDelete, TypeOK, Iface, RowState
  <2> QED BY <1>5, <2>1, <2>2, <2>3, <2>4 DEF IfaceDelete, TypeOK, boot
<1>6. CASE IfaceRestore(u, i, F)
  <2> DEFINE row  == [ifaces[i] EXCEPT !.st = "active"]
             back == [p \in Peers |->
                        IF peers[p].st = "trashed" /\ peers[p].iface = i
                          THEN [peers[p] EXCEPT !.st = "active"] ELSE peers[p]]
             applied == ReconcileFw(fw, i, row, F)
  <2>1. row \in Iface
    BY <1>0 DEF Iface, RowState
  <2>2. back \in [Peers -> Peer]
    BY DEF TypeOK, Peer, RowState
  <2>3. Resolved(i, row, F) \in Iface
        /\ ReconcileDev(i, row, Served(back, i), F) \in Device
    BY <1>1, <2>1, ReconcileTyped
  <2>4. applied \in SUBSET Rule
    BY <1>2, <2>1, FirewallTyped
  <2>5. Reapply(applied, Forwards(i), F) \subseteq Rule
    BY <1>1, <2>4, FirewallTyped
  <2>6. owed' \subseteq Names
    BY <1>6, ReportTyped DEF IfaceRestore
  <2>7. fw' \subseteq Rule
    BY <1>6, <1>2, <2>4, <2>5 DEF IfaceRestore
  <2>8. ifaces' \in [Ifaces -> Iface] /\ dev' \in [Names -> Device]
    BY <1>6, <1>0, <2>1, <2>3 DEF IfaceRestore, TypeOK
  <2>9. peers' \in [Peers -> Peer] /\ UNCHANGED <<pfs, wan, boot>>
    BY <1>6, <2>2 DEF IfaceRestore, TypeOK
  <2> QED BY <2>6, <2>7, <2>8, <2>9 DEF TypeOK, boot
<1>7. CASE IfacePurge(u, i, F)
  <2>1. owed' \subseteq Names
    BY <1>7, ReportTyped DEF IfacePurge
  <2>2. dev' \in [Names -> Device] /\ fw' \subseteq Rule
    BY <1>7, <1>cut, <1>gone DEF IfacePurge, TypeOK
  <2>3. peers' \in [Peers -> Peer] /\ ifaces' \in [Ifaces -> Iface]
        /\ pfs' \in [Pfs -> Pf]
    BY <1>7, BlankTyped DEF IfacePurge, TypeOK, RowState
  <2> QED BY <1>7, <2>1, <2>2, <2>3 DEF IfacePurge, TypeOK, boot
<1>8. CASE IfaceSync(u, i, F)
  <2>1. Resolved(i, ifaces[i], F) \in Iface
        /\ ReconcileDev(i, ifaces[i], Served(peers, i), F) \in Device
    BY <1>0, <1>1, ReconcileTyped
  <2>2. ReconcileFw(fw, i, ifaces[i], F) \subseteq Rule
    BY <1>0, <1>2, FirewallTyped
  <2>3. owed' \subseteq Names
    BY <1>8, ReportTyped DEF IfaceSync, Apply
  <2> QED BY <1>0, <1>8, <2>1, <2>2, <2>3 DEF IfaceSync, Apply, TypeOK, boot
<1> QED BY <1>3, <1>4, <1>5, <1>6, <1>7, <1>8

\* The five peer handlers keep every variable well formed.
LEMMA PeerTyped ==
    ASSUME TypeOK, NEW u \in Users, NEW p \in Peers, NEW F,
           \/ \E i \in Ifaces : PeerCreate(u, i, p, F)
           \/ PeerUpdate(u, p, F)    \/ PeerDelete(u, p, F)
           \/ PeerRestore(u, p, F)   \/ PeerPurge(u, p, F)
    PROVE  TypeOK'
<1>0. peers[p].iface \in Ifaces /\ fw \in SUBSET Rule /\ ForwardsTo(p) \subseteq Pfs
  BY DEF TypeOK, Peer, ForwardsTo
<1>1. /\ Reapply(fw, ForwardsTo(p), F) \subseteq Rule
      /\ Unapply(fw, ForwardsTo(p), F) \subseteq Rule
  BY <1>0, FirewallTyped
<1>2. ASSUME NEW i \in Ifaces, PeerCreate(u, i, p, F) PROVE TypeOK'
  <2>1. PICK ip \in HostsOf[ifaces[i].addr] :
          peers' = [peers EXCEPT ![p] =
                      [st |-> "active", iface |-> i, on |-> TRUE, ip |-> ip]]
    BY <1>2 DEF PeerCreate
  <2>2. ip \in IPs
    BY PanelAssumption DEF PanelAssumption, TypeOK, Iface
  <2>3. peers' \in [Peers -> Peer]
    BY <2>1, <2>2 DEF TypeOK, Peer, RowState
  <2>4. SyncPeer(i, p, TRUE, F) /\ UNCHANGED <<ifaces, pfs, fw, wan, boot>>
    BY <1>2 DEF PeerCreate
  <2>5. dev' \in [Names -> Device] /\ owed' \subseteq Names
    BY <2>4, SyncTyped
  <2> QED BY <2>3, <2>4, <2>5 DEF TypeOK, boot
<1>3. CASE PeerUpdate(u, p, F)
  <2>1. PICK on \in BOOLEAN : /\ peers' = [peers EXCEPT ![p].on = on]
                              /\ SyncPeer(peers[p].iface, p, on, F)
                              /\ UNCHANGED <<ifaces, pfs, fw, wan, boot>>
    BY <1>3 DEF PeerUpdate
  <2>2. dev' \in [Names -> Device] /\ owed' \subseteq Names
    BY <1>0, <2>1, SyncTyped
  <2>3. peers' \in [Peers -> Peer]
    BY <2>1 DEF TypeOK, Peer
  <2> QED BY <2>1, <2>2, <2>3 DEF TypeOK, boot
<1>4. CASE PeerDelete(u, p, F)
  <2>1. dev' \in [Names -> Device] /\ owed' \subseteq Names
    BY <1>0, <1>4, SyncTyped DEF PeerDelete, TypeOK
  <2>2. peers' \in [Peers -> Peer]
    BY <1>4, ZenonT(40) DEF PeerDelete, TypeOK, Peer, RowState
  <2> QED BY <1>1, <1>4, <2>1, <2>2 DEF PeerDelete, TypeOK, boot
<1>5. CASE PeerRestore(u, p, F)
  <2>1. dev' \in [Names -> Device] /\ owed' \subseteq Names
    BY <1>0, <1>5, SyncTyped DEF PeerRestore
  <2>2. peers' \in [Peers -> Peer]
    BY <1>5 DEF PeerRestore, TypeOK, Peer, RowState
  <2>3. fw' \subseteq Rule
    BY <1>0, <1>1, <1>5 DEF PeerRestore
  <2> QED BY <1>5, <2>1, <2>2, <2>3 DEF PeerRestore, TypeOK, boot
<1>6. CASE PeerPurge(u, p, F)
  <2>1. dev' \in [Names -> Device] /\ owed' \subseteq Names
    BY <1>0, <1>6, SyncTyped DEF PeerPurge, TypeOK
  <2>2. peers' \in [Peers -> Peer] /\ pfs' \in [Pfs -> Pf]
    BY <1>6, BlankTyped DEF PeerPurge, TypeOK, RowState
  <2> QED BY <1>1, <1>6, <2>1, <2>2 DEF PeerPurge, TypeOK, boot
<1> QED BY <1>2, <1>3, <1>4, <1>5, <1>6

\* The three forward handlers keep every variable well formed.
LEMMA PfTyped ==
    ASSUME TypeOK, NEW u \in Users, NEW f \in Pfs, NEW F,
           \/ \E p \in Peers : PfCreate(u, p, f, F)
           \/ PfUpdate(u, f, F)
           \/ PfDelete(u, f, F)
    PROVE  TypeOK'
<1>0. fw \in SUBSET Rule
  BY DEF TypeOK
<1>1. /\ \A S \in SUBSET Rule : EnsureRules(fw, S, F) \subseteq Rule
      /\ \A S : DeleteRules(fw, S, F) \in SUBSET Rule
  BY <1>0, FirewallTyped
<1>2. \A t \in Ports : PfRules(f, t) \in SUBSET Rule
  BY RulesTyped
<1>3. ASSUME NEW p \in Peers, PfCreate(u, p, f, F) PROVE TypeOK'
  <2>1. PICK pub \in PortChoices.public, tport \in PortChoices.target :
          /\ pfs' = [pfs EXCEPT ![f] =
                       [st |-> "active", iface |-> peers[p].iface, peer |-> p,
                        on |-> TRUE, pub |-> pub, tport |-> tport, owner |-> u]]
          /\ fw' = EnsureRules(fw, PfRules(f, tport), F)
    BY <1>3 DEF PfCreate
  <2>2. pub \in Ports /\ tport \in Ports /\ peers[p].iface \in Ifaces
    BY PanelAssumption DEF PanelAssumption, TypeOK, Peer
  <2>3. pfs' \in [Pfs -> Pf]
    BY <2>1, <2>2 DEF TypeOK, Pf
  <2>4. fw' \subseteq Rule
    BY <1>1, <1>2, <2>1, <2>2
  <2> QED BY <1>3, <2>3, <2>4 DEF PfCreate, TypeOK, boot
<1>4. CASE PfUpdate(u, f, F)
  <2>1. PICK tport \in PortChoices.target, on \in BOOLEAN :
          LET removed == DeleteRules(fw, PfRules(f, pfs[f].tport), F)
          IN  /\ IF "save" \in F.db
                   THEN fw' = removed /\ UNCHANGED pfs
                   ELSE /\ pfs' = [pfs EXCEPT ![f].tport = tport, ![f].on = on]
                        /\ fw' = IF on THEN EnsureRules(removed, PfRules(f, tport), F)
                                       ELSE removed
              /\ UNCHANGED <<ifaces, peers, dev, wan, boot, owed>>
    BY <1>4 DEF PfUpdate
  <2> DEFINE removed == DeleteRules(fw, PfRules(f, pfs[f].tport), F)
  <2>2. tport \in Ports
    BY PanelAssumption DEF PanelAssumption
  <2>3. CASE "save" \in F.db
    BY <2>1, <2>3, <1>1 DEF TypeOK, boot
  <2>4. CASE "save" \notin F.db
    <3>1. pfs' = [pfs EXCEPT ![f].tport = tport, ![f].on = on]
      BY <2>1, <2>4
    <3>2. pfs' \in [Pfs -> Pf]
      BY <2>2, <3>1, ZenonT(40) DEF TypeOK, Pf
    <3>3. removed \in SUBSET Rule
      BY <1>1
    <3> HIDE DEF removed
    <3>4. EnsureRules(removed, PfRules(f, tport), F) \subseteq Rule
      BY <1>2, <2>2, <3>3, FirewallTyped
    <3>5. fw' \subseteq Rule
      BY <2>1, <2>4, <3>3, <3>4 DEF removed
    <3> QED BY <2>1, <3>2, <3>5 DEF TypeOK, boot
  <2> QED BY <2>3, <2>4
<1>5. CASE PfDelete(u, f, F)
  <2>1. pfs' \in [Pfs -> Pf]
    BY <1>5, BlankTyped DEF PfDelete, TypeOK
  <2> QED BY <1>1, <1>5, <2>1 DEF PfDelete, TypeOK, boot
<1> QED BY <1>3, <1>4, <1>5

\* A full apply, as Sync and the bootstrap run it, keeps what it touches well formed.
LEMMA ApplyTyped ==
    ASSUME TypeOK, NEW i \in Ifaces, NEW F, Apply(i, F)
    PROVE  /\ ifaces' \in [Ifaces -> Iface] /\ dev' \in [Names -> Device]
           /\ fw' \subseteq Rule /\ owed' \subseteq Names
           /\ UNCHANGED <<peers, pfs, wan>>
<1>1. ifaces[i] \in Iface /\ fw \in SUBSET Rule /\ Served(peers, i) \subseteq Peers
  BY DEF TypeOK, Served
<1>2. Resolved(i, ifaces[i], F) \in Iface
      /\ ReconcileDev(i, ifaces[i], Served(peers, i), F) \in Device
  BY <1>1, ReconcileTyped
<1>3. ReconcileFw(fw, i, ifaces[i], F) \subseteq Rule
  BY <1>1, FirewallTyped
<1>4. owed' \subseteq Names
  BY ReportTyped DEF Apply
<1> QED BY <1>2, <1>3, <1>4 DEF Apply, TypeOK

\* Starts and the steps of the bootstrap keep every variable well formed.
LEMMA SystemTyped ==
    ASSUME TypeOK, NEW F, System(F)
    PROVE  TypeOK'
<1>1. ASSUME NEW reboot \in BOOLEAN, Start(F, reboot) PROVE TypeOK'
  <2>1. dev' \in [Names -> Device]
    <3>1. NoDevice \in Device
      BY DEF NoDevice, Device
    <3>2. dev' = [n \in Names |-> NoDevice] \/ dev' = dev
      BY <1>1 DEF Start
    <3> QED BY <3>1, <3>2 DEF TypeOK
  <2>2. fw' \subseteq Rule /\ owed' \subseteq Names
    BY <1>1 DEF Start, TypeOK
  <2> QED BY <1>1, <2>1, <2>2 DEF Start, TypeOK, Wanted, db
<1>2. ASSUME NEW i \in Ifaces, BootReconcile(i, F) PROVE TypeOK'
  <2>1. CASE Active(i)
    BY <1>2, <2>1, ApplyTyped DEF BootReconcile, TypeOK
  <2>2. CASE ~Active(i)
    BY <1>2, <2>2 DEF BootReconcile, TypeOK, db
  <2> QED BY <2>1, <2>2
<1>3. CASE BootForwards(F)
  <2> DEFINE S == {f \in Pfs : pfs[f].st = "active" /\ pfs[f].iface \in Wanted}
  <2>1. S \in SUBSET Pfs /\ fw \in SUBSET Rule
    BY DEF TypeOK
  <2>2. Reapply(fw, S, F) \subseteq Rule
    BY <2>1, FirewallTyped
  <2> QED BY <1>3, <2>2 DEF BootForwards, TypeOK, db
<1> QED BY <1>1, <1>2, <1>3 DEF System

\* Every column, device, rule and pending set of the panel keeps a value of its
\* kind through every request, start, bootstrap step and route change.
THEOREM TypeCorrect == Spec => []TypeOK
<1>1. Init => TypeOK
  <2> SUFFICES ASSUME Init PROVE TypeOK
    OBVIOUS
  <2>1. /\ ifaces \in [Ifaces -> Iface] /\ peers \in [Peers -> Peer]
        /\ pfs \in [Pfs -> Pf]
    BY BlankTyped DEF Init, RowState
  <2>2. dev \in [Names -> Device]
    BY DEF Init, Device, NoDevice
  <2> QED BY <2>1, <2>2 DEF Init, TypeOK
<1>2. TypeOK /\ [Next]_vars => TypeOK'
  <2> SUFFICES ASSUME TypeOK, [Next]_vars PROVE TypeOK'
    OBVIOUS
  <2>1. ASSUME NEW F \in FaultSets, System(F) PROVE TypeOK'
    BY <2>1, SystemTyped
  <2>2. ASSUME NEW F \in FaultSets, NEW u \in Users, Request(u, F) PROVE TypeOK'
    BY <2>2, IfaceTyped, PeerTyped, PfTyped DEF Request
  <2>3. CASE RouteChange
    BY <2>3 DEF RouteChange, TypeOK, db, boot
  <2>4. CASE UNCHANGED vars
    BY <2>4 DEF vars, TypeOK
  <2> QED BY <2>1, <2>2, <2>3, <2>4 DEF Next
<1> QED BY <1>1, <1>2, PTL DEF Spec

-----------------------------------------------------------------------------
(* Peers and their interfaces *)

\* Reconciling changes no column of a row but the egress.
LEMMA ResolvedKeeps ==
    ASSUME NEW i \in Ifaces, NEW row \in Iface, NEW F
    PROVE  LET new == Resolved(i, row, F)
           IN  /\ new.st = row.st /\ new.on = row.on /\ new.addr = row.addr
               /\ new.port = row.port /\ new.masq = row.masq
  BY DEF Resolved, Iface

\* A step that moves no peer and takes no interface out of service.
LEMMA PeersStay ==
    ASSUME TypeOK, PeersUnderInterface, UNCHANGED peers,
           \A i \in Ifaces : ifaces'[i].st = ifaces[i].st
                               \/ (ifaces[i].st = "none" /\ ifaces'[i].st = "active")
    PROVE  PeersUnderInterface'
  BY DEF TypeOK, PeersUnderInterface, Peer, InTable, Active

\* A full apply stores at most an egress: no row enters or leaves the trash.
LEMMA ApplyKeepsState ==
    ASSUME TypeOK, NEW i \in Ifaces, NEW F, Apply(i, F)
    PROVE  \A j \in Ifaces : ifaces'[j].st = ifaces[j].st
<1>1. ifaces[i] \in Iface
  BY DEF TypeOK
<1>2. Resolved(i, ifaces[i], F).st = ifaces[i].st
  BY <1>1, ResolvedKeeps
<1> QED BY <1>2 DEF Apply, TypeOK

\* The interface handlers leave no peer in service without its interface.
LEMMA IfacePeersUnder ==
    ASSUME TypeOK, PeersUnderInterface, NEW u \in Users, NEW i \in Ifaces, NEW F,
           \/ IfaceCreate(u, i, F)  \/ IfaceUpdate(u, i, F)
           \/ IfaceDelete(u, i, F)  \/ IfaceRestore(u, i, F)
           \/ IfacePurge(u, i, F)   \/ IfaceSync(u, i, F)
    PROVE  PeersUnderInterface'
<1>0. ifaces[i] \in Iface
  BY DEF TypeOK
<1>1. CASE IfaceCreate(u, i, F)
  <2>1. PICK row \in NewIface(u, i) :
          /\ ifaces[i].st = "none" /\ UNCHANGED peers
          /\ ifaces' = [ifaces EXCEPT ![i] = Resolved(i, row, F)]
    BY <1>1 DEF IfaceCreate
  <2>2. row \in Iface /\ row.st = "active"
    BY RowsTyped DEF NewIface
  <2>3. Resolved(i, row, F).st = "active"
    BY <2>2, ResolvedKeeps
  <2> QED BY <2>1, <2>3, PeersStay DEF TypeOK
<1>2. CASE IfaceUpdate(u, i, F)
  <2>1. PICK e \in Edits(i) :
          /\ UNCHANGED peers
          /\ \/ UNCHANGED ifaces
             \/ ifaces' = [ifaces EXCEPT ![i] = Resolved(i, Edited(i, e), F)]
    BY <1>2 DEF IfaceUpdate
  <2>2. Edited(i, e) \in Iface /\ Edited(i, e).st = ifaces[i].st
    BY <1>0, RowsTyped DEF Edited, Iface
  <2>3. Resolved(i, Edited(i, e), F).st = ifaces[i].st
    BY <2>2, ResolvedKeeps
  <2> QED BY <2>1, <2>3, PeersStay DEF TypeOK
<1>3. CASE IfaceDelete(u, i, F)
  <2>1. CASE "peers" \in F.db
    BY <1>3, <2>1, PeersStay DEF IfaceDelete
  <2>2. CASE "peers" \notin F.db
    <3>1. \A p \in Peers :
            /\ peers'[p].iface = peers[p].iface
            /\ peers'[p].st = IF peers[p].st = "active" /\ peers[p].iface = i
                                THEN "trashed" ELSE peers[p].st
      BY <1>3, <2>2 DEF IfaceDelete, TypeOK, Peer
    <3>2. \A j \in Ifaces : /\ j # i => ifaces'[j] = ifaces[j]
                            /\ ifaces'[i].st \in {"active", "trashed"}
      BY <1>0, <1>3 DEF IfaceDelete, TypeOK, Iface, Active
    <3> QED BY <3>1, <3>2 DEF PeersUnderInterface, TypeOK, Peer, InTable, Active
  <2> QED BY <2>1, <2>2
<1>4. CASE IfaceRestore(u, i, F)
  <2> DEFINE row == [ifaces[i] EXCEPT !.st = "active"]
  <2>1. row \in Iface /\ row.st = "active"
    BY <1>0 DEF Iface, RowState
  <2>2. Resolved(i, row, F).st = "active"
    BY <2>1, ResolvedKeeps
  <2>3. \A j \in Ifaces : /\ j # i => ifaces'[j] = ifaces[j]
                          /\ ifaces'[i].st = "active"
    BY <1>4, <2>1, <2>2 DEF IfaceRestore, TypeOK
  <2>4. \A p \in Peers :
          /\ peers'[p].iface = peers[p].iface
          /\ peers'[p].st = peers[p].st
               \/ (peers[p].st = "trashed" /\ peers[p].iface = i)
    BY <1>4 DEF IfaceRestore, TypeOK, Peer
  <2> QED BY <2>3, <2>4 DEF PeersUnderInterface, TypeOK, Peer, InTable, Active
<1>5. CASE IfacePurge(u, i, F)
  <2>1. CASE "peers" \in F.db
    BY <1>5, <2>1, PeersStay DEF IfacePurge
  <2>2. CASE "peers" \notin F.db
    <3>1. \A p \in Peers :
            IF InTable(peers[p]) /\ peers[p].iface = i
              THEN peers'[p].st = "purged" ELSE peers'[p] = peers[p]
      BY <1>5, <2>2 DEF IfacePurge, TypeOK, BlankPeer
    <3>2. \A j \in Ifaces : j # i => ifaces'[j] = ifaces[j]
      BY <1>5 DEF IfacePurge, TypeOK
    <3> QED BY <3>1, <3>2 DEF PeersUnderInterface, TypeOK, Peer, InTable, Active
  <2> QED BY <2>1, <2>2
<1>6. CASE IfaceSync(u, i, F)
  <2>1. Apply(i, F) /\ UNCHANGED peers
    BY <1>6 DEF IfaceSync, Apply
  <2> QED BY <2>1, ApplyKeepsState, PeersStay
<1> QED BY <1>1, <1>2, <1>3, <1>4, <1>5, <1>6

\* The peer handlers bring no peer back under an interface out of service.
LEMMA PeerPeersUnder ==
    ASSUME TypeOK, PeersUnderInterface, NEW u \in Users, NEW p \in Peers, NEW F,
           \/ \E i \in Ifaces : PeerCreate(u, i, p, F)
           \/ PeerUpdate(u, p, F)    \/ PeerDelete(u, p, F)
           \/ PeerRestore(u, p, F)   \/ PeerPurge(u, p, F)
    PROVE  PeersUnderInterface'
<1> USE DEF PeersUnderInterface, TypeOK, Peer, InTable, Active
<1>1. ASSUME NEW i \in Ifaces, PeerCreate(u, i, p, F) PROVE PeersUnderInterface'
  BY <1>1 DEF PeerCreate
<1>2. CASE PeerUpdate(u, p, F)
  BY <1>2 DEF PeerUpdate
<1>3. CASE PeerDelete(u, p, F)
  BY <1>3 DEF PeerDelete
<1>4. CASE PeerRestore(u, p, F)
  BY <1>4 DEF PeerRestore, ParentInService
<1>5. CASE PeerPurge(u, p, F)
  <2>1. \A q \in Peers : peers'[q] = peers[q] \/ peers'[q].st = "purged"
    <3>1. UNCHANGED peers \/ peers' = [peers EXCEPT ![p] = BlankPeer("purged")]
      BY <1>5 DEF PeerPurge
    <3> QED BY <3>1 DEF BlankPeer
  <2>2. UNCHANGED ifaces
    BY <1>5 DEF PeerPurge
  <2> QED BY <2>1, <2>2
<1> QED BY <1>1, <1>2, <1>3, <1>4, <1>5

\* Starts, the bootstrap, route changes and forward handlers move no peer.
LEMMA OthersPeersUnder ==
    ASSUME TypeOK, PeersUnderInterface, NEW F,
           \/ System(F) \/ RouteChange
           \/ \E u \in Users, p \in Peers, f \in Pfs : PfCreate(u, p, f, F)
           \/ \E u \in Users, f \in Pfs : PfUpdate(u, f, F) \/ PfDelete(u, f, F)
    PROVE  PeersUnderInterface'
<1>1. ASSUME NEW i \in Ifaces, BootReconcile(i, F) PROVE PeersUnderInterface'
  <2>1. CASE Active(i)
    <3>1. Apply(i, F) /\ UNCHANGED peers
      BY <1>1, <2>1 DEF BootReconcile, Apply
    <3> QED BY <3>1, ApplyKeepsState, PeersStay
  <2>2. CASE ~Active(i)
    BY <1>1, <2>2, PeersStay DEF BootReconcile, db
  <2> QED BY <2>1, <2>2
<1>2. CASE UNCHANGED <<ifaces, peers>>
  BY <1>2, PeersStay
<1>3. CASE System(F)
  BY <1>1, <1>2, <1>3 DEF System, Start, BootForwards, db
<1>4. ASSUME NEW u \in Users, NEW p \in Peers, NEW f \in Pfs, PfCreate(u, p, f, F)
      PROVE  PeersUnderInterface'
  BY <1>2, <1>4 DEF PfCreate
<1>5. ASSUME NEW u \in Users, NEW f \in Pfs, PfUpdate(u, f, F) \/ PfDelete(u, f, F)
      PROVE  PeersUnderInterface'
  BY <1>2, <1>5 DEF PfUpdate, PfDelete
<1>6. CASE RouteChange
  BY <1>2, <1>6 DEF RouteChange, db
<1> QED BY <1>3, <1>4, <1>5, <1>6

\* Deleting, restoring and purging interfaces and peers, in any order and with any
\* of their statements failing, leaves no peer in service under an interface that
\* is trashed or gone, and no trashed peer without a row to be restored under.
THEOREM PeersAlwaysUnderInterface == Spec => []PeersUnderInterface
<1>1. Init => PeersUnderInterface
  BY DEF Init, PeersUnderInterface, BlankPeer, InTable
<1>2. TypeOK /\ PeersUnderInterface /\ [Next]_vars => PeersUnderInterface'
  <2> SUFFICES ASSUME TypeOK, PeersUnderInterface, [Next]_vars
               PROVE  PeersUnderInterface'
    OBVIOUS
  <2>1. ASSUME NEW F \in FaultSets, System(F) PROVE PeersUnderInterface'
    BY <2>1, OthersPeersUnder
  <2>2. ASSUME NEW F \in FaultSets, NEW u \in Users, Request(u, F)
        PROVE  PeersUnderInterface'
    BY <2>2, IfacePeersUnder, PeerPeersUnder, OthersPeersUnder DEF Request
  <2>3. CASE RouteChange
    BY <2>3, PeersStay DEF RouteChange, db
  <2>4. CASE UNCHANGED vars
    BY <2>4, PeersStay DEF vars
  <2> QED BY <2>1, <2>2, <2>3, <2>4 DEF Next
<1> QED BY <1>1, <1>2, TypeCorrect, PTL DEF Spec

-----------------------------------------------------------------------------
(* The kernel's devices *)

\* Of the rows in the table at most one has a given name.
UniqueNames ==
    \A i, j \in Ifaces :
      InTable(ifaces[i]) /\ InTable(ifaces[j]) /\ NameOf[i] = NameOf[j] => i = j

\* The bootstrap has still to reach an enabled interface with this name.
Listed(n) == \E i \in todo : i \in Wanted /\ NameOf[i] = n

\* DeviceInSync is not inductive: the bootstrap drops an interface that was
\* trashed meanwhile without looking at its device, so that device has to be
\* right while the interface is still on the bootstrap's list.
Synced == \A n \in Names : n \notin owed /\ ~Listed(n) => InSync(n)

IInv == TypeOK /\ PeersUnderInterface /\ UniqueNames /\ Synced

\* A step that only concerns one name leaves every other name in sync.
LEMMA OtherNames ==
    ASSUME TypeOK, Synced, NEW m \in Names, NEW n \in Names, n # m,
           \A j \in Ifaces : NameOf[j] = n =>
             ifaces'[j] = ifaces[j] /\ Served(peers, j)' = Served(peers, j),
           dev'[n] = dev[n],
           \A j \in Ifaces : NameOf[j] = n => (j \in todo <=> j \in todo'),
           n \in owed <=> n \in owed',
           n \notin owed', ~Listed(n)'
    PROVE  InSync(n)'
<1>1. \A j \in Ifaces : NameOf[j] = n => (j \in Wanted <=> j \in Wanted')
  BY DEF Wanted, Active
<1>2. ~Listed(n)
  BY <1>1 DEF Listed, TypeOK
<1>3. InSync(n)
  BY <1>2 DEF Synced
<1>4. Wanted \subseteq Ifaces /\ Wanted' \subseteq Ifaces
  BY DEF Wanted
<1> QED BY <1>1, <1>3, <1>4 DEF InSync

\* What a full apply that succeeds leaves behind.
LEMMA Reconciled ==
    ASSUME TypeOK, NEW i \in Ifaces, NEW row \in Iface, NEW served \in SUBSET Peers,
           NEW F, ReconcileOK(i, row, F)
    PROVE  LET d == ReconcileDev(i, row, served, F)
           IN  /\ d.exists = row.on
               /\ row.on => /\ d.conf = <<i, row.port>> /\ d.peers = served
                            /\ row.addr \in d.addrs
<1>1. dev[NameOf[i]] \in Device /\ row.on \in BOOLEAN /\ row.addr \in Addrs
  BY HostAssumption DEF HostAssumption, TypeOK, Iface
<1>2. CASE row.on
  <2> DEFINE linked == EnsureLink(dev[NameOf[i]], row.addr, F)
  <2>1. Configured(i, F) /\ "load" \notin F.db
    BY <1>2 DEF ReconcileOK
  <2>2. linked.exists /\ row.addr \in linked.addrs /\ linked \in Device
    BY <1>1, <2>1, DeviceTyped DEF Configured, LinkOK, EnsureLink, Device
  <2>3. ReconcileDev(i, row, served, F)
          = ConfigureDevice(linked, <<i, row.port>>, served)
    BY <1>2, <2>1 DEF ReconcileDev
  <2> HIDE DEF linked
  <2> QED BY <1>2, <2>2, <2>3 DEF ConfigureDevice, Device
<1>3. CASE ~row.on
  <2>1. "load" \notin F.db /\ RemoveLinkOK(dev[NameOf[i]], F)
    BY <1>3 DEF ReconcileOK
  <2>2. ReconcileDev(i, row, served, F) = RemoveLink(dev[NameOf[i]], F)
    BY <1>3, <2>1 DEF ReconcileDev
  <2>3. RemoveLink(dev[NameOf[i]], F).exists = FALSE
    BY <1>1, <2>1 DEF RemoveLinkOK, RemoveLink, NoDevice, Device
  <2> QED BY <1>1, <1>3, <2>2, <2>3
<1> QED BY <1>1, <1>2, <1>3

\* A full apply, or a failure that is reported, of the only row with its name.
LEMMA FullApply ==
    ASSUME TypeOK, UniqueNames, Synced,
           NEW i \in Ifaces, NEW row \in Iface, row.st = "active", NEW F, NEW ok \in BOOLEAN,
           \A j \in Ifaces \ {i} : InTable(ifaces[j]) => NameOf[j] # NameOf[i],
           Report(NameOf[i], ok),
           \A j \in Ifaces \ {i} :
             ifaces'[j] = ifaces[j] /\ Served(peers, j)' = Served(peers, j),
           \A n \in Names \ {NameOf[i]} : dev'[n] = dev[n],
           ok => /\ ReconcileOK(i, row, F)
                 /\ ifaces' = [ifaces EXCEPT ![i] = Resolved(i, row, F)]
                 /\ dev'[NameOf[i]] = ReconcileDev(i, row, Served(peers, i)', F),
           \A j \in Ifaces \ {i} : j \in todo <=> j \in todo'
    PROVE  Synced'
<1> SUFFICES ASSUME NEW n \in Names, n \notin owed', ~Listed(n)'
             PROVE  InSync(n)'
  BY DEF Synced
<1>0. NameOf[i] \in Names
  BY HostAssumption DEF HostAssumption
<1>1. CASE n # NameOf[i]
  <2>1. n \in owed <=> n \in owed'
    BY <1>1 DEF Report
  <2>2. \A j \in Ifaces : NameOf[j] = n =>
          ifaces'[j] = ifaces[j] /\ Served(peers, j)' = Served(peers, j)
    BY <1>1
  <2> QED BY <1>0, <1>1, <2>1, <2>2, OtherNames
<1>2. CASE n = NameOf[i]
  <2> DEFINE S == Served(peers, i)'
             new == Resolved(i, row, F)
             d == ReconcileDev(i, row, S, F)
  <2>1. ok
    BY <1>2 DEF Report
  <2>2. ifaces'[i] = new /\ dev'[n] = d
    BY <1>2, <2>1 DEF TypeOK
  <2>3. new.st = "active" /\ new.on = row.on /\ new.addr = row.addr /\ new.port = row.port
    BY ResolvedKeeps
  <2>4. S \in SUBSET Peers
    BY DEF Served
  <2> HIDE DEF S, new
  <2>5. /\ d.exists = row.on
        /\ row.on => d.conf = <<i, row.port>> /\ d.peers = S /\ row.addr \in d.addrs
    BY <2>1, <2>4, Reconciled
  <2>6. \A j \in Wanted' : NameOf[j] = n => j = i
    BY <1>2 DEF Wanted, Active, InTable
  <2>7. i \in Wanted' <=> row.on
    BY <2>2, <2>3 DEF Wanted, Active
  <2> HIDE DEF d
  <2> QED BY <1>2, <2>2, <2>3, <2>5, <2>6, <2>7 DEF InSync, S
<1> QED BY <1>1, <1>2

\* The link of the only row with its name is gone with the row, or the failure is
\* reported.
LEMMA LinkGone ==
    ASSUME TypeOK, UniqueNames, Synced,
           NEW i \in Ifaces, InTable(ifaces[i]), NEW F, NEW ok \in BOOLEAN,
           Report(NameOf[i], ok),
           \A j \in Ifaces \ {i} :
             ifaces'[j] = ifaces[j] /\ Served(peers, j)' = Served(peers, j),
           dev' = [dev EXCEPT ![NameOf[i]] = RemoveLink(@, F)],
           ok => RemoveLinkOK(dev[NameOf[i]], F) /\ ~Active(i)',
           todo' = todo
    PROVE  Synced'
<1> SUFFICES ASSUME NEW n \in Names, n \notin owed', ~Listed(n)'
             PROVE  InSync(n)'
  BY DEF Synced
<1>0. NameOf[i] \in Names
  BY HostAssumption DEF HostAssumption
<1>1. CASE n # NameOf[i]
  <2>1. (n \in owed <=> n \in owed') /\ dev'[n] = dev[n]
    BY <1>1 DEF Report, TypeOK
  <2>2. \A j \in Ifaces : NameOf[j] = n =>
          ifaces'[j] = ifaces[j] /\ Served(peers, j)' = Served(peers, j)
    BY <1>1
  <2> QED BY <1>0, <1>1, <2>1, <2>2, OtherNames
<1>2. CASE n = NameOf[i]
  <2>1. RemoveLinkOK(dev[n], F) /\ ~Active(i)'
    BY <1>2 DEF Report
  <2>2. dev'[n].exists = FALSE
    BY <1>0, <1>2, <2>1 DEF TypeOK, Device, RemoveLinkOK, RemoveLink, NoDevice
  <2>3. \A j \in Ifaces : j \in Wanted' => NameOf[j] # n
    BY <1>2, <2>1 DEF Wanted, Active, UniqueNames, InTable
  <2> QED BY <2>2, <2>3 DEF InSync, Wanted
<1> QED BY <1>1, <1>2

\* One peer is added to, or taken from, the device and the table alike.
LEMMA SingleSync ==
    ASSUME TypeOK, UniqueNames, Synced,
           NEW i \in Ifaces, NEW p \in Peers, NEW wanted \in BOOLEAN, NEW F,
           SyncPeer(i, p, wanted, F), UNCHANGED <<ifaces, todo>>,
           \A j \in Ifaces \ {i} : Served(peers, j)' = Served(peers, j),
           Active(i) => Served(peers, i)' = IF wanted THEN Served(peers, i) \union {p}
                                            ELSE Served(peers, i) \ {p}
    PROVE  Synced'
<1> SUFFICES ASSUME NEW n \in Names, n \notin owed', ~Listed(n)'
             PROVE  InSync(n)'
  BY DEF Synced
<1>0. NameOf[i] \in Names /\ n \notin owed /\ (n # NameOf[i] => dev'[n] = dev[n])
  BY HostAssumption DEF HostAssumption, SyncPeer, TypeOK
<1>1. CASE n # NameOf[i]
  <2>1. \A j \in Ifaces : NameOf[j] = n =>
          ifaces'[j] = ifaces[j] /\ Served(peers, j)' = Served(peers, j)
    BY <1>1
  <2> QED BY <1>0, <1>1, <2>1, OtherNames
<1>2. CASE n = NameOf[i]
  <2>1. Wanted' = Wanted /\ Wanted \subseteq Ifaces
    BY DEF Wanted, Active
  <2>2. InSync(n)
    BY <1>0, <2>1 DEF Synced, Listed
  <2>3. CASE i \notin Wanted
    <3>1. dev'[n] = dev[n]
      BY <1>0, <1>2, <2>3 DEF SyncPeer, TypeOK, Wanted
    <3>2. \A j \in Wanted : NameOf[j] = n =>
            Served(peers, j)' = Served(peers, j) /\ ifaces'[j] = ifaces[j]
      BY <2>1, <2>3
    <3> QED BY <2>1, <2>2, <3>1, <3>2 DEF InSync
  <2>4. CASE i \in Wanted
    <3> DEFINE d == dev[n]
               linked == EnsureLink(d, ifaces[i].addr, F)
    <3>1. Active(i) /\ ifaces[i].on /\ SyncPeerOK(i, F)
      BY <1>2, <2>4 DEF Wanted, SyncPeer
    <3>2. d \in Device /\ d.exists /\ ifaces[i].addr \in d.addrs
      BY <1>2, <2>2, <2>4 DEF InSync, TypeOK
    <3>3. /\ linked \in Device /\ linked.exists /\ linked.addrs = d.addrs
          /\ linked.conf = d.conf /\ linked.peers = d.peers
      <4>1. d.addrs \union {ifaces[i].addr} = d.addrs
        BY <3>2
      <4> QED BY <3>2, <4>1 DEF EnsureLink, Device
    <3>4. dev'[n] = IF wanted THEN ConfigurePeer(linked, p) ELSE RemovePeer(linked, p)
      BY <1>0, <1>2, <3>1 DEF SyncPeer, SyncPeerOK, TypeOK
    <3> HIDE DEF linked
    <3>5. /\ dev'[n].exists /\ dev'[n].addrs = d.addrs /\ dev'[n].conf = d.conf
          /\ dev'[n].peers = IF wanted THEN d.peers \union {p} ELSE d.peers \ {p}
      BY <3>3, <3>4 DEF ConfigurePeer, RemovePeer, Device
    <3>6. dev'[n].peers = Served(peers, i)'
      BY <1>2, <2>2, <2>4, <3>1, <3>5 DEF InSync
    <3>7. \A j \in Wanted : NameOf[j] = n => j = i
      BY <1>2, <2>4 DEF Wanted, Active, UniqueNames, InTable
    <3>8. d.conf = <<i, ifaces[i].port>>
      BY <1>2, <2>2, <2>4 DEF InSync
    <3> HIDE DEF d
    <3> QED BY <1>2, <2>1, <2>4, <3>2, <3>5, <3>6, <3>7, <3>8 DEF InSync
  <2> QED BY <2>3, <2>4
<1> QED BY <1>1, <1>2

\* A step that touches neither rows, devices nor reports keeps devices in sync.
LEMMA NothingMoves ==
    ASSUME TypeOK, UniqueNames, Synced, UNCHANGED <<ifaces, peers, dev, todo, owed>>
    PROVE  UniqueNames' /\ Synced'
<1>1. UniqueNames'
  BY DEF UniqueNames
<1>2. Synced'
  BY DEF Synced, Listed, InSync, Wanted, Active, Served
<1> QED BY <1>1, <1>2

\* Names stay unique when no row enters the table.
LEMMA NamesStay ==
    ASSUME UniqueNames, \A j \in Ifaces : InTable(ifaces'[j]) => InTable(ifaces[j])
    PROVE  UniqueNames'
  BY DEF UniqueNames

\* A full apply of a listed interface brings its device in sync or reports it.
LEMMA ApplySynced ==
    ASSUME TypeOK, UniqueNames, Synced, NEW i \in Ifaces, Active(i), NEW F, Apply(i, F),
           \A j \in Ifaces \ {i} : j \in todo <=> j \in todo'
    PROVE  UniqueNames' /\ Synced'
<1>1. UniqueNames'
  BY ApplyKeepsState, NamesStay DEF InTable
<1> DEFINE row == ifaces[i]
           ok  == ReconcileOK(i, row, F)
<1>2. row \in Iface /\ row.st = "active"
  BY DEF TypeOK, Active
<1>3. \A j \in Ifaces \ {i} : InTable(ifaces[j]) => NameOf[j] # NameOf[i]
  BY <1>2 DEF UniqueNames, InTable
<1>4. \A j \in Ifaces : Served(peers, j)' = Served(peers, j)
  BY DEF Apply, Served
<1>5. ok \in BOOLEAN /\ Report(NameOf[i], ok)
  BY DEF ReconcileOK, Apply
<1>6. /\ \A j \in Ifaces \ {i} : ifaces'[j] = ifaces[j]
      /\ \A n \in Names \ {NameOf[i]} : dev'[n] = dev[n]
  BY DEF Apply, TypeOK
<1>7. /\ ifaces' = [ifaces EXCEPT ![i] = Resolved(i, row, F)]
      /\ dev'[NameOf[i]] = ReconcileDev(i, row, Served(peers, i)', F)
  BY <1>4, HostAssumption DEF HostAssumption, Apply, TypeOK
<1>8. ok => ReconcileOK(i, row, F)
  OBVIOUS
<1> HIDE DEF row, ok
<1>9. Synced'
  BY <1>2, <1>3, <1>4, <1>5, <1>6, <1>7, <1>8, FullApply
<1> QED BY <1>1, <1>9

\* The interface handlers keep every device in sync, awaited or reported.
LEMMA IfaceSynced ==
    ASSUME IInv, NEW u \in Users, NEW i \in Ifaces, NEW F,
           \/ IfaceCreate(u, i, F)  \/ IfaceUpdate(u, i, F)
           \/ IfaceDelete(u, i, F)  \/ IfaceRestore(u, i, F)
           \/ IfacePurge(u, i, F)   \/ IfaceSync(u, i, F)
    PROVE  UniqueNames' /\ Synced'
<1> USE DEF IInv
<1>0. ifaces[i] \in Iface /\ NameOf[i] \in Names
  BY HostAssumption DEF HostAssumption, TypeOK
<1>1. CASE IfaceCreate(u, i, F)
  <2>1. PICK row \in NewIface(u, i) :
          /\ ifaces[i].st = "none"
          /\ \A j \in Ifaces : InTable(ifaces[j]) => NameOf[j] # NameOf[i]
          /\ ifaces' = [ifaces EXCEPT ![i] = Resolved(i, row, F)]
          /\ dev' = [dev EXCEPT ![NameOf[i]] = ReconcileDev(i, row, {}, F)]
          /\ Report(NameOf[i], ReconcileOK(i, row, F))
          /\ UNCHANGED <<peers, boot>>
    BY <1>1 DEF IfaceCreate
  <2>2. row \in Iface /\ row.st = "active"
    BY RowsTyped DEF NewIface
  <2>3. \A j \in Ifaces \ {i} : ifaces'[j] = ifaces[j]
    BY <2>1 DEF TypeOK
  <2>4. UniqueNames'
    BY <2>1, <2>3 DEF UniqueNames
  <2>5. \A j \in Ifaces : Served(peers, j)' = Served(peers, j)
    BY <2>1 DEF Served
  <2>6. Served(peers, i) = {}
    BY <2>1 DEF PeersUnderInterface, Active, Served
  <2>7. /\ dev'[NameOf[i]] = ReconcileDev(i, row, Served(peers, i)', F)
        /\ \A n \in Names \ {NameOf[i]} : dev'[n] = dev[n]
    BY <1>0, <2>1, <2>5, <2>6 DEF TypeOK
  <2>8. ReconcileOK(i, row, F) \in BOOLEAN
    BY DEF ReconcileOK
  <2>9. Synced'
    BY <2>1, <2>2, <2>3, <2>5, <2>7, <2>8, FullApply, ZenonT(40) DEF boot
  <2> QED BY <2>4, <2>9
<1>2. CASE IfaceUpdate(u, i, F)
  <2>1. PICK e \in Edits(i) :
          /\ Active(i)
          /\ IF "save" \in F.db
               THEN UNCHANGED <<ifaces, dev>>
               ELSE /\ ifaces' = [ifaces EXCEPT ![i] = Resolved(i, Edited(i, e), F)]
                    /\ dev' = [dev EXCEPT ![NameOf[i]] =
                                 ReconcileDev(i, Edited(i, e), Served(peers, i), F)]
          /\ Report(NameOf[i], "save" \notin F.db /\ ReconcileOK(i, Edited(i, e), F))
          /\ UNCHANGED <<peers, boot>>
    BY <1>2 DEF IfaceUpdate
  <2> DEFINE row == Edited(i, e)
             ok  == "save" \notin F.db /\ ReconcileOK(i, row, F)
  <2>2. row \in Iface /\ row.st = "active"
    BY <1>0, <2>1, RowsTyped DEF Edited, Iface, Active
  <2>3. Resolved(i, row, F).st = "active"
    BY <2>2, ResolvedKeeps
  <2> HIDE DEF row
  <2>4. \A j \in Ifaces \ {i} : ifaces'[j] = ifaces[j]
    BY <2>1 DEF TypeOK, row
  <2>5. UniqueNames'
    BY <2>1, <2>4, NamesStay DEF InTable, Active
  <2>6. \A j \in Ifaces : Served(peers, j)' = Served(peers, j)
    BY <2>1 DEF Served
  <2>7. /\ "save" \notin F.db =>
             dev'[NameOf[i]] = ReconcileDev(i, row, Served(peers, i)', F)
        /\ \A n \in Names \ {NameOf[i]} : dev'[n] = dev[n]
    BY <1>0, <2>1, <2>6 DEF TypeOK, row
  <2>8. \A j \in Ifaces \ {i} : InTable(ifaces[j]) => NameOf[j] # NameOf[i]
    BY <2>1 DEF UniqueNames, InTable, Active
  <2>9. /\ ok \in BOOLEAN /\ Report(NameOf[i], ok) /\ todo' = todo
        /\ ok => /\ ReconcileOK(i, row, F)
                 /\ ifaces' = [ifaces EXCEPT ![i] = Resolved(i, row, F)]
                 /\ dev'[NameOf[i]] = ReconcileDev(i, row, Served(peers, i)', F)
    BY <2>1, <2>7 DEF row, boot, ReconcileOK
  <2> HIDE DEF ok
  <2>10. Synced'
    BY <2>2, <2>4, <2>6, <2>7, <2>8, <2>9, FullApply
  <2> QED BY <2>5, <2>10
<1>3. CASE IfaceDelete(u, i, F)
  <2> DEFINE ok == /\ {"peers", "row"} \intersect F.db = {}
                   /\ RemoveLinkOK(dev[NameOf[i]], F)
  <2>1. /\ \A j \in Ifaces \ {i} : ifaces'[j] = ifaces[j]
        /\ InTable(ifaces[i]) /\ todo' = todo
        /\ {"peers", "row"} \intersect F.db = {} => ifaces'[i].st = "trashed"
    BY <1>0, <1>3 DEF IfaceDelete, TypeOK, Iface, InTable, Active, boot
  <2>2. UniqueNames'
    BY <2>1, NamesStay
  <2>3. \A p \in Peers : \/ peers'[p] = peers[p]
                         \/ peers[p].iface = i /\ peers'[p].iface = i
    BY <1>3 DEF IfaceDelete, TypeOK, Peer
  <2>4. \A j \in Ifaces \ {i} : Served(peers, j)' = Served(peers, j)
    BY <2>3 DEF Served
  <2>5. /\ Report(NameOf[i], ok) /\ ok \in BOOLEAN
        /\ dev' = [dev EXCEPT ![NameOf[i]] = RemoveLink(@, F)]
        /\ ok => RemoveLinkOK(dev[NameOf[i]], F) /\ ~Active(i)'
    BY <1>3, <2>1 DEF IfaceDelete, Active
  <2> HIDE DEF ok
  <2>6. Synced'
    BY <2>1, <2>4, <2>5, LinkGone
  <2> QED BY <2>2, <2>6
<1>4. CASE IfaceRestore(u, i, F)
  <2> DEFINE row  == [ifaces[i] EXCEPT !.st = "active"]
             ok   == "peers" \notin F.db /\ ReconcileOK(i, row, F)
  <2>1. row \in Iface /\ row.st = "active" /\ ifaces[i].st = "trashed"
    BY <1>0, <1>4 DEF IfaceRestore, Iface, RowState
  <2>2. \A j \in Ifaces \ {i} : ifaces'[j] = ifaces[j]
    BY <1>4 DEF IfaceRestore, TypeOK
  <2>3. UniqueNames'
    BY <2>1, <2>2, NamesStay DEF InTable
  <2>4. \A p \in Peers : \/ peers'[p] = peers[p]
                         \/ peers[p].iface = i /\ peers'[p].iface = i
    BY <1>4 DEF IfaceRestore, TypeOK, Peer
  <2>5. \A j \in Ifaces \ {i} : Served(peers, j)' = Served(peers, j)
    BY <2>4 DEF Served
  <2>6. \A j \in Ifaces \ {i} : InTable(ifaces[j]) => NameOf[j] # NameOf[i]
    BY <2>1 DEF UniqueNames, InTable
  <2>7. \A n \in Names \ {NameOf[i]} : dev'[n] = dev[n]
    BY <1>4 DEF IfaceRestore, TypeOK
  <2>8. ok => /\ ReconcileOK(i, row, F)
              /\ ifaces' = [ifaces EXCEPT ![i] = Resolved(i, row, F)]
              /\ dev'[NameOf[i]] = ReconcileDev(i, row, Served(peers, i)', F)
    <3> SUFFICES ASSUME "peers" \notin F.db, ReconcileOK(i, row, F)
                 PROVE  /\ ifaces' = [ifaces EXCEPT ![i] = Resolved(i, row, F)]
                        /\ dev'[NameOf[i]] =
                             ReconcileDev(i, row, Served(peers, i)', F)
      OBVIOUS
    <3> DEFINE back == [p \in Peers |->
                          IF peers[p].st = "trashed" /\ peers[p].iface = i
                            THEN [peers[p] EXCEPT !.st = "active"] ELSE peers[p]]
    <3>1. /\ peers' = back
          /\ ifaces' = [ifaces EXCEPT ![i] = Resolved(i, row, F)]
          /\ dev' = [dev EXCEPT ![NameOf[i]] =
                       ReconcileDev(i, row, Served(back, i), F)]
      BY <1>4 DEF IfaceRestore
    <3> HIDE DEF back, row
    <3>2. Served(peers, i)' = Served(back, i)
      BY <3>1 DEF Served
    <3> QED BY <1>0, <3>1, <3>2 DEF TypeOK
  <2>9. Report(NameOf[i], ok) /\ ok \in BOOLEAN /\ todo' = todo
    BY <1>4 DEF IfaceRestore, boot
  <2> HIDE DEF row, ok
  <2>10. Synced'
    BY <2>1, <2>2, <2>5, <2>6, <2>7, <2>8, <2>9, FullApply
  <2> QED BY <2>3, <2>10
<1>5. CASE IfacePurge(u, i, F)
  <2> DEFINE ok == /\ {"peers", "row"} \intersect F.db = {}
                   /\ RemoveLinkOK(dev[NameOf[i]], F)
  <2>1. /\ \A j \in Ifaces \ {i} : ifaces'[j] = ifaces[j]
        /\ InTable(ifaces[i]) /\ todo' = todo
        /\ {"peers", "row"} \intersect F.db = {} => ifaces'[i].st = "purged"
    BY <1>5 DEF IfacePurge, TypeOK, BlankIface, boot
  <2>2. UniqueNames'
    BY <2>1, NamesStay
  <2>3. \A p \in Peers : \/ peers'[p] = peers[p]
                         \/ peers[p].iface = i /\ peers'[p].st = "purged"
    BY <1>5 DEF IfacePurge, TypeOK, BlankPeer
  <2>4. \A j \in Ifaces \ {i} : Served(peers, j)' = Served(peers, j)
    BY <2>3 DEF Served
  <2>5. /\ Report(NameOf[i], ok) /\ ok \in BOOLEAN
        /\ dev' = [dev EXCEPT ![NameOf[i]] = RemoveLink(@, F)]
        /\ ok => RemoveLinkOK(dev[NameOf[i]], F) /\ ~Active(i)'
    BY <1>5, <2>1 DEF IfacePurge, Active
  <2> HIDE DEF ok
  <2>6. Synced'
    BY <2>1, <2>4, <2>5, LinkGone
  <2> QED BY <2>2, <2>6
<1>6. CASE IfaceSync(u, i, F)
  BY <1>6, ApplySynced DEF IfaceSync, boot
<1> QED BY <1>1, <1>2, <1>3, <1>4, <1>5, <1>6

\* The peer handlers change one peer of a device and nothing else of it.
LEMMA PeerSynced ==
    ASSUME IInv, NEW u \in Users, NEW p \in Peers, NEW F,
           \/ \E i \in Ifaces : PeerCreate(u, i, p, F)
           \/ PeerUpdate(u, p, F)    \/ PeerDelete(u, p, F)
           \/ PeerRestore(u, p, F)   \/ PeerPurge(u, p, F)
    PROVE  UniqueNames' /\ Synced'
<1> USE DEF IInv
<1>0. PICK m \in Ifaces : m = peers[p].iface
  BY DEF TypeOK, Peer
<1>1. UniqueNames'
  BY NamesStay DEF PeerCreate, PeerUpdate, PeerDelete, PeerRestore, PeerPurge
<1>2. ASSUME NEW i \in Ifaces, PeerCreate(u, i, p, F) PROVE Synced'
  <2>1. PICK ip \in HostsOf[ifaces[i].addr] :
          /\ peers[p].st = "none"
          /\ peers' = [peers EXCEPT ![p] =
                         [st |-> "active", iface |-> i, on |-> TRUE, ip |-> ip]]
    BY <1>2 DEF PeerCreate
  <2>2. \A j \in Ifaces \ {i} : Served(peers, j)' = Served(peers, j)
    BY <2>1 DEF Served, TypeOK
  <2>3. Served(peers, i)' = Served(peers, i) \union {p}
    BY <2>1 DEF Served, TypeOK
  <2>4. SyncPeer(i, p, TRUE, F) /\ UNCHANGED <<ifaces, todo>>
    BY <1>2 DEF PeerCreate, boot
  <2> QED BY <2>2, <2>3, <2>4, SingleSync
<1>3. CASE PeerUpdate(u, p, F)
  <2>1. PICK on \in BOOLEAN :
          /\ peers[p].st = "active"
          /\ peers' = [peers EXCEPT ![p].on = on]
          /\ SyncPeer(m, p, on, F) /\ UNCHANGED <<ifaces, todo>>
    BY <1>0, <1>3 DEF PeerUpdate, boot
  <2>2. \A j \in Ifaces \ {m} : Served(peers, j)' = Served(peers, j)
    BY <1>0, <2>1 DEF Served, TypeOK, Peer
  <2>3. Served(peers, m)' = IF on THEN Served(peers, m) \union {p}
                                  ELSE Served(peers, m) \ {p}
    BY <1>0, <2>1 DEF Served, TypeOK, Peer
  <2> QED BY <1>1, <2>1, <2>2, <2>3, SingleSync
<1>4. CASE PeerDelete(u, p, F)
  <2>1. CASE "row" \in F.db
    BY <1>4, <2>1, NothingMoves DEF PeerDelete, boot
  <2>2. CASE "row" \notin F.db
    <3>1. /\ peers' = [peers EXCEPT ![p].st = "trashed"]
          /\ SyncPeer(m, p, FALSE, F) /\ UNCHANGED <<ifaces, todo>>
      BY <1>0, <1>4, <2>2 DEF PeerDelete, boot
    <3>2. \A j \in Ifaces \ {m} : Served(peers, j)' = Served(peers, j)
      BY <1>0, <3>1 DEF Served, TypeOK, Peer
    <3>3. Served(peers, m)' = Served(peers, m) \ {p}
      BY <1>0, <3>1 DEF Served, TypeOK, Peer
    <3> QED BY <1>1, <3>1, <3>2, <3>3, SingleSync
  <2> QED BY <2>1, <2>2
<1>5. CASE PeerRestore(u, p, F)
  <2>0. PICK on \in BOOLEAN : on = peers[p].on
    BY DEF TypeOK, Peer
  <2>1. /\ peers[p].st = "trashed" /\ peers[p].on = on
        /\ peers' = [peers EXCEPT ![p].st = "active"]
        /\ SyncPeer(m, p, on, F) /\ UNCHANGED <<ifaces, todo>>
    BY <1>0, <1>5, <2>0 DEF PeerRestore, TypeOK, Peer, boot
  <2>2. \A j \in Ifaces \ {m} : Served(peers, j)' = Served(peers, j)
    BY <1>0, <2>1 DEF Served, TypeOK, Peer
  <2>3. Served(peers, m)' = IF on THEN Served(peers, m) \union {p}
                                  ELSE Served(peers, m) \ {p}
    BY <1>0, <2>1 DEF Served, TypeOK, Peer
  <2> QED BY <1>1, <2>1, <2>2, <2>3, SingleSync
<1>6. CASE PeerPurge(u, p, F)
  <2>1. CASE "row" \in F.db
    BY <1>6, <2>1, NothingMoves DEF PeerPurge, boot
  <2>2. CASE "row" \notin F.db
    <3>1. /\ peers' = [peers EXCEPT ![p] = BlankPeer("purged")]
          /\ SyncPeer(m, p, FALSE, F) /\ UNCHANGED <<ifaces, todo>>
      BY <1>0, <1>6, <2>2 DEF PeerPurge, boot
    <3>2. \A q \in Peers : IF q = p THEN peers'[q].st = "purged"
                                    ELSE peers'[q] = peers[q]
      BY <3>1 DEF TypeOK, BlankPeer
    <3>3. \A j \in Ifaces \ {m} : Served(peers, j)' = Served(peers, j)
      BY <1>0, <3>2 DEF Served
    <3>4. Served(peers, m)' = Served(peers, m) \ {p}
      BY <1>0, <3>2 DEF Served
    <3> QED BY <1>1, <3>1, <3>3, <3>4, SingleSync
  <2> QED BY <2>1, <2>2
<1> QED BY <1>1, <1>2, <1>3, <1>4, <1>5, <1>6

\* Starts and the bootstrap keep every device in sync, awaited or reported.
LEMMA SystemSynced ==
    ASSUME IInv, NEW F, System(F)
    PROVE  UniqueNames' /\ Synced'
<1> USE DEF IInv
<1>1. ASSUME NEW reboot \in BOOLEAN, Start(F, reboot) PROVE UniqueNames' /\ Synced'
  <2>0. UNCHANGED <<ifaces, peers>>
    BY <1>1 DEF Start, db
  <2>1. UniqueNames'
    BY <2>0, NamesStay
  <2>2. Wanted' = Wanted /\ Wanted \subseteq Ifaces
        /\ \A i \in Ifaces : Served(peers, i)' = Served(peers, i)
    BY <2>0 DEF Wanted, Active, Served
  <2>3. ASSUME NEW n \in Names, n \notin owed', ~Listed(n)' PROVE InSync(n)'
    <3>1. todo' = Wanted
      BY <1>1, <2>3 DEF Start
    <3>2. \A i \in Wanted : NameOf[i] # n
      BY <2>2, <2>3, <3>1 DEF Listed
    <3>3. dev'[n].exists = FALSE
      <4>1. CASE reboot
        BY <1>1, <4>1 DEF Start, NoDevice
      <4>2. CASE ~reboot
        <5>1. dev' = dev /\ n \notin owed
          BY <1>1, <2>3, <4>2 DEF Start
        <5>2. InSync(n)
          BY <3>2, <5>1 DEF Synced, Listed
        <5> QED BY <3>2, <5>1, <5>2 DEF InSync, TypeOK, Device
      <4> QED BY <4>1, <4>2
    <3> QED BY <2>2, <3>2, <3>3 DEF InSync
  <2> QED BY <2>1, <2>3 DEF Synced
<1>2. ASSUME NEW i \in Ifaces, BootReconcile(i, F) PROVE UniqueNames' /\ Synced'
  <2>1. CASE Active(i)
    BY <1>2, <2>1, ApplySynced DEF BootReconcile
  <2>2. CASE ~Active(i)
    <3>1. UNCHANGED <<ifaces, peers, dev, owed>> /\ todo' = todo \ {i}
      BY <1>2, <2>2 DEF BootReconcile, db
    <3>2. UniqueNames'
      BY <3>1, NamesStay
    <3>3. Wanted' = Wanted /\ i \notin Wanted
          /\ \A j \in Ifaces : Served(peers, j)' = Served(peers, j)
      BY <2>2, <3>1 DEF Wanted, Active, Served
    <3>4. ASSUME NEW n \in Names, n \notin owed', ~Listed(n)' PROVE InSync(n)'
      <4>1. InSync(n)
        BY <3>1, <3>3, <3>4 DEF Listed, Synced
      <4> QED BY <3>1, <3>3, <4>1 DEF InSync, Wanted
    <3> QED BY <3>2, <3>4 DEF Synced
  <2> QED BY <2>1, <2>2
<1>3. CASE BootForwards(F)
  BY <1>3, NothingMoves DEF BootForwards, db
<1> QED BY <1>1, <1>2, <1>3 DEF System

\* The inductive invariant behind the theorem on devices.
LEMMA InvariantHolds == Spec => []IInv
<1>1. Init => UniqueNames /\ Synced
  <2> SUFFICES ASSUME Init PROVE UniqueNames /\ Synced
    OBVIOUS
  <2>1. \A i \in Ifaces : ~InTable(ifaces[i]) /\ i \notin Wanted
    BY DEF Init, BlankIface, InTable, Wanted, Active
  <2>2. \A n \in Names : dev[n].exists = FALSE
    BY DEF Init, NoDevice
  <2> QED BY <2>1, <2>2 DEF UniqueNames, Synced, InSync, Wanted
<1>2. IInv /\ [Next]_vars => UniqueNames' /\ Synced'
  <2> SUFFICES ASSUME IInv, [Next]_vars PROVE UniqueNames' /\ Synced'
    OBVIOUS
  <2>1. ASSUME NEW F \in FaultSets, System(F) PROVE UniqueNames' /\ Synced'
    BY <2>1, SystemSynced
  <2>2. ASSUME NEW F \in FaultSets, NEW u \in Users, Request(u, F)
        PROVE  UniqueNames' /\ Synced'
    <3>1. ASSUME NEW f \in Pfs,
                 \/ \E p \in Peers : PfCreate(u, p, f, F)
                 \/ PfUpdate(u, f, F) \/ PfDelete(u, f, F)
          PROVE  UniqueNames' /\ Synced'
      BY <3>1, NothingMoves DEF PfCreate, PfUpdate, PfDelete, boot, IInv
    <3> QED BY <2>2, <3>1, IfaceSynced, PeerSynced DEF Request
  <2>3. CASE RouteChange
    BY <2>3, NothingMoves DEF RouteChange, db, boot, IInv
  <2>4. CASE UNCHANGED vars
    BY <2>4, NothingMoves DEF vars, boot, IInv
  <2> QED BY <2>1, <2>2, <2>3, <2>4 DEF Next
<1> QED BY <1>1, <1>2, TypeCorrect, PeersAlwaysUnderInterface, PTL DEF Spec, IInv

\* For every name the panel vouches for, the kernel has the device the tables ask
\* for: full applies, single-peer syncs, link removals, starts and the bootstrap
\* beside the requests add up to it, with any calls failing in any of them.
THEOREM DevicesAlwaysInSync == Spec => []DeviceInSync
<1>1. Synced => DeviceInSync
  BY DEF Synced, DeviceInSync, Vouched, Listed
<1> QED BY <1>1, InvariantHolds, PTL DEF IInv

-----------------------------------------------------------------------------
(* One peer at a time *)

\* syncPeer leaves the other peers of every device as they were.
LEMMA SyncKeepsOthers ==
    ASSUME TypeOK, NEW i \in Ifaces, NEW p \in Peers, NEW wanted, NEW F,
           SyncPeer(i, p, wanted, F), NEW n \in Names
    PROVE  dev'[n].peers \ {p} = dev[n].peers \ {p}
<1> DEFINE d == dev[NameOf[i]]
           linked == EnsureLink(d, ifaces[i].addr, F)
<1>1. NameOf[i] \in Names /\ d \in Device /\ ifaces[i].addr \in Addrs
  BY HostAssumption DEF HostAssumption, TypeOK, Iface
<1>2. linked \in Device /\ linked.peers = d.peers
  <2>1. linked \in Device
    BY <1>1, DeviceTyped
  <2>2. linked.peers = d.peers
    BY <1>1 DEF EnsureLink, Device
  <2> QED BY <2>1, <2>2
<1>3. /\ \A m \in Names \ {NameOf[i]} : dev'[m] = dev[m]
      /\ dev'[NameOf[i]] \in {d, linked, ConfigurePeer(linked, p), RemovePeer(linked, p)}
  BY <1>1 DEF SyncPeer, TypeOK
<1> HIDE DEF linked, d
<1>4. /\ ConfigurePeer(linked, p).peers \ {p} = d.peers \ {p}
      /\ RemovePeer(linked, p).peers \ {p} = d.peers \ {p}
  BY <1>2 DEF ConfigurePeer, RemovePeer, Device
<1>5. dev'[NameOf[i]].peers \ {p} = d.peers \ {p}
  BY <1>2, <1>3, <1>4
<1> QED BY <1>3, <1>5 DEF d

\* Adding, editing, deleting, restoring or purging one peer leaves every other peer
\* of every device connected or disconnected as it was, whichever call fails.
THEOREM PeerChangesStayIncremental == Spec => PeerChangesAreIncremental
<1> DEFINE A == \A p \in Peers :
         /\ ifaces' = ifaces /\ peers'[p] # peers[p]
         /\ \A q \in Peers \ {p} : peers'[q] = peers[q]
         => \A n \in Names : dev'[n].exists =>
              dev'[n].peers \ {p} = dev[n].peers \ {p}
<1>1. TypeOK /\ [Next]_vars => [A]_vars
  <2> SUFFICES ASSUME TypeOK, Next, NEW p \in Peers,
                      ifaces' = ifaces, peers'[p] # peers[p],
                      \A q \in Peers \ {p} : peers'[q] = peers[q],
                      NEW n \in Names, dev'[n].exists
               PROVE  dev'[n].peers \ {p} = dev[n].peers \ {p}
    OBVIOUS
  <2>0. peers' # peers
    OBVIOUS
  <2>1. ASSUME NEW u \in Users, NEW q \in Peers, NEW F,
               \/ \E i \in Ifaces : PeerCreate(u, i, q, F)
               \/ PeerUpdate(u, q, F)    \/ PeerDelete(u, q, F)
               \/ PeerRestore(u, q, F)   \/ PeerPurge(u, q, F)
        PROVE  dev'[n].peers \ {p} = dev[n].peers \ {p}
    <3>1. \E x : peers' = [peers EXCEPT ![q] = x]
      BY <2>0, <2>1 DEF PeerCreate, PeerUpdate, PeerDelete, PeerRestore, PeerPurge, TypeOK
    <3>2. p = q
      BY <3>1 DEF TypeOK
    <3>3. \E i \in Ifaces : \E on : SyncPeer(i, q, on, F)
      <4>1. peers[q].iface \in Ifaces
        BY DEF TypeOK, Peer
      <4> QED BY <2>0, <2>1, <4>1
              DEF PeerCreate, PeerUpdate, PeerDelete, PeerRestore, PeerPurge
    <3> QED BY <3>2, <3>3, SyncKeepsOthers
  <2>2. ASSUME NEW u \in Users, NEW i \in Ifaces, NEW F,
               IfaceDelete(u, i, F) \/ IfacePurge(u, i, F)
        PROVE  dev'[n].peers \ {p} = dev[n].peers \ {p}
    <3>1. dev' = [dev EXCEPT ![NameOf[i]] = RemoveLink(@, F)]
      BY <2>2 DEF IfaceDelete, IfacePurge
    <3>2. dev'[n] = dev[n] \/ dev'[n] = NoDevice
      BY <3>1 DEF TypeOK, RemoveLink
    <3> QED BY <3>2 DEF NoDevice
  <2>3. ASSUME NEW u \in Users, NEW i \in Ifaces, NEW F, IfaceRestore(u, i, F)
        PROVE  FALSE
    <3> DEFINE row == [ifaces[i] EXCEPT !.st = "active"]
    <3>1. row \in Iface /\ row.st = "active" /\ ifaces[i].st = "trashed"
      BY <2>3 DEF IfaceRestore, TypeOK, Iface, RowState
    <3>2. Resolved(i, row, F).st = "active"
      <4> HIDE DEF row
      <4> QED BY <3>1, ResolvedKeeps
    <3>3. \/ ifaces' = [ifaces EXCEPT ![i] = row]
          \/ ifaces' = [ifaces EXCEPT ![i] = Resolved(i, row, F)]
      BY <2>3 DEF IfaceRestore
    <3> HIDE DEF row
    <3>4. ifaces'[i].st = "active"
      BY <3>1, <3>2, <3>3 DEF TypeOK
    <3> QED BY <3>1, <3>4
  <2>4. ASSUME NEW u \in Users, NEW i \in Ifaces, NEW F,
               IfaceCreate(u, i, F) \/ IfaceUpdate(u, i, F) \/ IfaceSync(u, i, F)
        PROVE  FALSE
    BY <2>0, <2>4 DEF IfaceCreate, IfaceUpdate, IfaceSync, Apply
  <2>5. ASSUME NEW u \in Users, NEW f \in Pfs, NEW F,
               \/ \E q \in Peers : PfCreate(u, q, f, F)
               \/ PfUpdate(u, f, F) \/ PfDelete(u, f, F)
        PROVE  FALSE
    BY <2>0, <2>5 DEF PfCreate, PfUpdate, PfDelete
  <2>6. ASSUME NEW F, System(F) \/ RouteChange PROVE FALSE
    BY <2>0, <2>6 DEF System, Start, BootReconcile, BootForwards, Apply, RouteChange, db
  <2> QED BY <2>1, <2>2, <2>3, <2>4, <2>5, <2>6 DEF Next, Request
<1>2. Spec => [][A]_vars
  BY <1>1, TypeCorrect, PTL DEF Spec
<1> QED BY <1>2 DEF PeerChangesAreIncremental
-----------------------------------------------------------------------------
(* Which rules the calls on the firewall concern *)

\* NAT rules and forward rules are told apart by their kinds, and a forward's
\* rules carry its id.
LEMMA RuleKinds ==
    /\ \A n, a, e : \A r \in NatRules(n, a, e) : r[1] \in NatKinds
    /\ \A f, t : \A r \in PfRules(f, t) : r[1] \in PfKinds /\ r[2] = f
    /\ \A S : \A r \in RulesOf(S) : r[1] \in PfKinds
    /\ NatKinds \intersect PfKinds = {}
<1>1. \A n, a, e : \A r \in NatRules(n, a, e) : r[1] \in NatKinds
  BY DEF NatRules, NatKinds
<1>2. \A f, t : \A r \in PfRules(f, t) : r[1] \in PfKinds /\ r[2] = f
  BY DEF PfRules, PfKinds
<1>3. \A S : \A r \in RulesOf(S) : r[1] \in PfKinds
  BY <1>2 DEF RulesOf
<1>4. NatKinds \intersect PfKinds = {}
  BY DEF NatKinds, PfKinds
<1> QED BY <1>1, <1>2, <1>3, <1>4

\* Calls on forward rules leave the NAT rules alone.
LEMMA PfCallsKeepNat ==
    ASSUME NEW rules, NEW F, NEW r, r[1] \in NatKinds
    PROVE  /\ \A S : r \in Reapply(rules, S, F) <=> r \in rules
           /\ \A S : r \in Unapply(rules, S, F) <=> r \in rules
           /\ \A f, t : r \in EnsureRules(rules, PfRules(f, t), F) <=> r \in rules
           /\ \A f, t : r \in DeleteRules(rules, PfRules(f, t), F) <=> r \in rules
<1>1. /\ \A S : r \notin RulesOf(S)
      /\ \A f, t : r \notin PfRules(f, t)
  BY RuleKinds
<1> QED BY <1>1 DEF Reapply, Unapply, EnsureRules, DeleteRules

\* Calls on NAT rules leave the forward rules alone.
LEMMA NatCallsKeepPf ==
    ASSUME NEW rules, NEW F, NEW r, r[1] \in PfKinds
    PROVE  /\ \A n, a, e : r \in TeardownNAT(rules, n, a, e, wan, F) <=> r \in rules
           /\ \A i, row : r \in ReconcileFw(rules, i, row, F) <=> r \in rules
<1>1. \A n, a, e : r \notin NatRules(n, a, e)
  BY RuleKinds
<1>2. \A n, a, e : r \in TeardownNAT(rules, n, a, e, wan, F) <=> r \in rules
  BY <1>1 DEF TeardownNAT, DeleteRules
<1>3. \A n, a, e : r \in SetupNAT(rules, n, a, e, wan, F) <=> r \in rules
  BY <1>1 DEF SetupNAT, EnsureRules
<1> QED BY <1>2, <1>3 DEF ReconcileFw

-----------------------------------------------------------------------------
(* What a step on one interface does to its row and to the NAT rules *)

\* A handler or the bootstrap working on one interface.
IfaceStep(i, F) ==
    \/ \E u \in Users : \/ IfaceCreate(u, i, F)  \/ IfaceUpdate(u, i, F)
                        \/ IfaceDelete(u, i, F)  \/ IfaceRestore(u, i, F)
                        \/ IfacePurge(u, i, F)
    \/ Active(i) /\ Apply(i, F)

\* After the step the NAT rules are those of X.
NatBecomes(X) == \A r : r[1] \in NatKinds => (r \in fw' <=> r \in X)

\* A row in the table names an address its operator chose and, where operators
\* always name one, an egress.
Chosen(i, row) ==
    InTable(row) => /\ row.addr \in AddrChoices[i]
                    /\ NoLink \notin EgressChoices => row.egress # NoLink
RowsChosen == \A i \in Ifaces : Chosen(i, ifaces[i])

\* The three ways a step on an interface can end for it: its rules are torn down
\* and no full apply follows; its row comes back alone; a full apply of `row'
\* starting from `rules'.
Withdrawn(i, F) ==
    /\ InTable(ifaces[i])
    /\ \E stuck \in StuckKinds \union {F.del} : NatBecomes(TornDown(i, stuck))
    /\ InTable(ifaces'[i]) => /\ ifaces'[i].addr = ifaces[i].addr
                              /\ ifaces'[i].egress = ifaces[i].egress
    /\ NameOf[i] \notin owed' => ~Active(i)'

Raised(i) ==
    /\ ifaces[i].st = "trashed"
    /\ NatBecomes(fw)
    /\ ifaces'[i].addr = ifaces[i].addr /\ ifaces'[i].egress = ifaces[i].egress
    /\ NameOf[i] \in owed'

Applied(i, F, row, rules) ==
    /\ row.st = "active" /\ Chosen(i, row)
    /\ \/ Active(i) /\ \E stuck \in StuckKinds : rules = TornDown(i, stuck)
       \/ rules = fw /\ ~Active(i)
       \/ rules = fw /\ Active(i) /\ row = ifaces[i]
    /\ ifaces'[i] = Resolved(i, row, F)
    /\ NatBecomes(ReconcileFw(rules, i, row, F))
    /\ NameOf[i] \notin owed' => ReconcileOK(i, row, F)

\* Taking the forwards' rules out first changes nothing for the NAT rules.
LEMMA CutOffIsTornDown ==
    ASSUME NEW i, NEW F, fw' = CutOff(i, F)
    PROVE  NatBecomes(TornDown(i, F.del))
<1> SUFFICES ASSUME NEW r, r[1] \in NatKinds
             PROVE  r \in CutOff(i, F) <=> r \in TornDown(i, F.del)
  BY DEF NatBecomes
<1>1. r \in Unapply(fw, Forwards(i), F) <=> r \in fw
  BY PfCallsKeepNat
<1> QED BY <1>1 DEF CutOff, TornDown, TeardownNAT, DeleteRules

\* Every step on an interface ends in one of the three ways, and leaves every
\* other row as it was.
LEMMA IfaceEffect ==
    ASSUME TypeOK, RowsChosen, NEW i \in Ifaces, NEW F, IfaceStep(i, F)
    PROVE  /\ \A j \in Ifaces \ {i} : ifaces'[j] = ifaces[j]
           /\ \/ Withdrawn(i, F)
              \/ Raised(i)
              \/ \E row \in Iface : \E rules : Applied(i, F, row, rules)
<1>0. ifaces[i] \in Iface /\ Chosen(i, ifaces[i])
  BY DEF TypeOK, RowsChosen
<1>1. ASSUME NEW u \in Users, IfaceCreate(u, i, F)
      PROVE  /\ \A j \in Ifaces \ {i} : ifaces'[j] = ifaces[j]
             /\ \E row \in Iface : Applied(i, F, row, fw)
  <2>1. PICK row \in NewIface(u, i) :
          /\ ifaces[i].st = "none"
          /\ ifaces' = [ifaces EXCEPT ![i] = Resolved(i, row, F)]
          /\ fw' = ReconcileFw(fw, i, row, F)
          /\ Report(NameOf[i], ReconcileOK(i, row, F))
    BY <1>1 DEF IfaceCreate
  <2>2. row \in Iface
    BY RowsTyped
  <2>3. row.st = "active" /\ Chosen(i, row)
    BY DEF NewIface, Chosen
  <2>4. ~Active(i)
    BY <2>1 DEF Active
  <2>5. NameOf[i] \notin owed' => ReconcileOK(i, row, F)
    BY <2>1 DEF Report
  <2>6. ifaces'[i] = Resolved(i, row, F) /\ NatBecomes(ReconcileFw(fw, i, row, F))
    BY <2>1 DEF TypeOK, NatBecomes
  <2>7. Applied(i, F, row, fw)
    BY <2>3, <2>4, <2>5, <2>6 DEF Applied
  <2> QED BY <2>1, <2>2, <2>7 DEF TypeOK
<1>2. ASSUME NEW u \in Users, IfaceUpdate(u, i, F)
      PROVE  /\ \A j \in Ifaces \ {i} : ifaces'[j] = ifaces[j]
             /\ \/ Withdrawn(i, F)
                \/ \E row \in Iface : \E rules : Applied(i, F, row, rules)
  <2>1. PICK e \in Edits(i), stuck \in StuckKinds :
          LET row     == Edited(i, e)
              applied == ReconcileFw(TornDown(i, stuck), i, row, F)
              ok      == "save" \notin F.db /\ ReconcileOK(i, row, F)
          IN  /\ Active(i)
              /\ IF "save" \in F.db
                   THEN fw' = TornDown(i, stuck) /\ UNCHANGED ifaces
                   ELSE /\ ifaces' = [ifaces EXCEPT ![i] = Resolved(i, row, F)]
                        /\ fw' = IF ~ok THEN applied
                                 ELSE IF row.on THEN Reapply(applied, Forwards(i), F)
                                                ELSE Unapply(applied, Forwards(i), F)
              /\ Report(NameOf[i], ok)
    BY <1>2 DEF IfaceUpdate
  <2> DEFINE row     == Edited(i, e)
             applied == ReconcileFw(TornDown(i, stuck), i, row, F)
  <2>2. CASE "save" \in F.db
    <3>1. NameOf[i] \in owed' /\ fw' = TornDown(i, stuck) /\ ifaces' = ifaces /\ Active(i)
      BY <2>1, <2>2 DEF Report
    <3>2. Withdrawn(i, F)
      BY <3>1 DEF Withdrawn, NatBecomes, InTable, Active
    <3> QED BY <3>1, <3>2
  <2>3. CASE "save" \notin F.db
    <3>1. row \in Iface /\ row.st = "active" /\ Chosen(i, row)
      BY <1>0, <2>1, RowsTyped DEF Edited, Edits, Iface, Active, Chosen
    <3> HIDE DEF row
    <3>2. /\ ifaces' = [ifaces EXCEPT ![i] = Resolved(i, row, F)] /\ Active(i)
          /\ \/ fw' = applied
             \/ fw' = Reapply(applied, Forwards(i), F)
             \/ fw' = Unapply(applied, Forwards(i), F)
          /\ NameOf[i] \notin owed' => ReconcileOK(i, row, F)
      BY <2>1, <2>3 DEF Report, row
    <3> HIDE DEF applied
    <3>3. NatBecomes(applied)
      BY <3>2, PfCallsKeepNat DEF NatBecomes
    <3>4. ifaces'[i] = Resolved(i, row, F)
      BY <3>2 DEF TypeOK
    <3>5. Applied(i, F, row, TornDown(i, stuck))
      BY <3>1, <3>2, <3>3, <3>4 DEF Applied, applied
    <3> QED BY <3>1, <3>2, <3>5 DEF TypeOK
  <2> QED BY <2>2, <2>3
<1>3. ASSUME NEW u \in Users, IfaceDelete(u, i, F)
      PROVE  (\A j \in Ifaces \ {i} : ifaces'[j] = ifaces[j]) /\ Withdrawn(i, F)
  <2>1. /\ Active(i) /\ fw' = CutOff(i, F)
        /\ \/ UNCHANGED ifaces /\ NameOf[i] \in owed'
           \/ ifaces' = [ifaces EXCEPT ![i].st = "trashed"]
    BY <1>3 DEF IfaceDelete, Report
  <2>2. /\ \A j \in Ifaces \ {i} : ifaces'[j] = ifaces[j]
        /\ ifaces'[i].addr = ifaces[i].addr /\ ifaces'[i].egress = ifaces[i].egress
        /\ NameOf[i] \notin owed' => ~Active(i)'
    BY <1>0, <2>1 DEF TypeOK, Iface, Active
  <2> QED BY <2>1, <2>2, CutOffIsTornDown DEF Withdrawn, InTable, Active
<1>4. ASSUME NEW u \in Users, IfaceRestore(u, i, F)
      PROVE  /\ \A j \in Ifaces \ {i} : ifaces'[j] = ifaces[j]
             /\ Raised(i) \/ \E row \in Iface : Applied(i, F, row, fw)
  <2> DEFINE row     == [ifaces[i] EXCEPT !.st = "active"]
             applied == ReconcileFw(fw, i, row, F)
  <2>1. row \in Iface /\ row.st = "active" /\ row.addr = ifaces[i].addr
        /\ row.egress = ifaces[i].egress /\ ifaces[i].st = "trashed"
    BY <1>0, <1>4 DEF IfaceRestore, Iface, RowState
  <2>2. CASE "peers" \in F.db
    <3>1. ifaces' = [ifaces EXCEPT ![i] = row] /\ fw' = fw /\ NameOf[i] \in owed'
      BY <1>4, <2>2 DEF IfaceRestore, Report
    <3> HIDE DEF row
    <3>2. Raised(i)
      BY <2>1, <3>1 DEF Raised, NatBecomes, TypeOK
    <3> QED BY <3>1, <3>2 DEF TypeOK
  <2>3. CASE "peers" \notin F.db
    <3>1. /\ ifaces' = [ifaces EXCEPT ![i] = Resolved(i, row, F)]
          /\ fw' = applied \/ fw' = Reapply(applied, Forwards(i), F)
          /\ NameOf[i] \notin owed' => ReconcileOK(i, row, F)
      BY <1>4, <2>3 DEF IfaceRestore, Report
    <3> HIDE DEF row, applied
    <3>2. NatBecomes(applied)
      BY <3>1, PfCallsKeepNat DEF NatBecomes
    <3>3. ~Active(i) /\ ifaces'[i] = Resolved(i, row, F) /\ Chosen(i, row)
      BY <1>0, <2>1, <3>1 DEF TypeOK, Active, Chosen, InTable
    <3>4. Applied(i, F, row, fw)
      BY <2>1, <3>1, <3>2, <3>3 DEF Applied, applied
    <3> QED BY <2>1, <3>1, <3>4 DEF TypeOK
  <2> QED BY <2>2, <2>3
<1>5. ASSUME NEW u \in Users, IfacePurge(u, i, F)
      PROVE  (\A j \in Ifaces \ {i} : ifaces'[j] = ifaces[j]) /\ Withdrawn(i, F)
  <2>1. /\ InTable(ifaces[i]) /\ fw' = CutOff(i, F)
        /\ \/ UNCHANGED ifaces /\ NameOf[i] \in owed'
           \/ ifaces' = [ifaces EXCEPT ![i] = BlankIface("purged")]
    BY <1>5 DEF IfacePurge, Report
  <2>2. /\ \A j \in Ifaces \ {i} : ifaces'[j] = ifaces[j]
        /\ \/ ifaces'[i] = ifaces[i] /\ NameOf[i] \in owed'
           \/ ifaces'[i].st = "purged"
    BY <2>1 DEF TypeOK, BlankIface
  <2> QED BY <2>1, <2>2, CutOffIsTornDown DEF Withdrawn, InTable, Active
<1>6. ASSUME Active(i), Apply(i, F)
      PROVE  /\ \A j \in Ifaces \ {i} : ifaces'[j] = ifaces[j]
             /\ Applied(i, F, ifaces[i], fw)
  <2>1. /\ ifaces' = [ifaces EXCEPT ![i] = Resolved(i, ifaces[i], F)]
        /\ fw' = ReconcileFw(fw, i, ifaces[i], F)
        /\ Report(NameOf[i], ReconcileOK(i, ifaces[i], F))
    BY <1>6 DEF Apply
  <2>2. ifaces'[i] = Resolved(i, ifaces[i], F)
        /\ NatBecomes(ReconcileFw(fw, i, ifaces[i], F))
    BY <2>1 DEF TypeOK, NatBecomes
  <2>3. NameOf[i] \notin owed' => ReconcileOK(i, ifaces[i], F)
    BY <2>1 DEF Report
  <2> QED BY <1>0, <1>6, <2>1, <2>2, <2>3 DEF Applied, Active, TypeOK
<1> QED BY <1>0, <1>1, <1>2, <1>3, <1>4, <1>5, <1>6 DEF IfaceStep

\* A step that works on no interface leaves the rows of interfaces and the NAT
\* rules alone, but for a reboot, and never settles what is owed: only a start with
\* a readable list forgets it, and puts every enabled interface on the bootstrap's
\* list.
ElsewhereStep ==
    /\ UNCHANGED ifaces
    /\ NatBecomes(fw) \/ fw' = {}
    /\ \/ NatBecomes(fw) /\ owed \subseteq owed'
            /\ \A i \in todo \ todo' : i \notin Wanted
       \/ owed' = Names
       \/ todo' = Wanted

\* Requests, starts and the bootstrap work on one interface or on none.
LEMMA OtherEffect ==
    ASSUME TypeOK, NEW F, \/ System(F)
                          \/ \E u \in Users : Request(u, F)
    PROVE  \/ \E i \in Ifaces : IfaceStep(i, F) /\ \A j \in Ifaces \ {i} :
                                                     j \in todo <=> j \in todo'
           \/ ElsewhereStep
<1> DEFINE Calm == /\ UNCHANGED <<ifaces, todo>> /\ NatBecomes(fw)
                     /\ owed \subseteq owed'
<1>0. Calm => ElsewhereStep
  BY DEF ElsewhereStep
<1>1. ASSUME NEW u \in Users, NEW p \in Peers,
             \/ \E i \in Ifaces : PeerCreate(u, i, p, F)
             \/ PeerUpdate(u, p, F)    \/ PeerDelete(u, p, F)
             \/ PeerRestore(u, p, F)   \/ PeerPurge(u, p, F)
      PROVE  Calm
  <2>1. UNCHANGED <<ifaces, todo>>
    BY <1>1 DEF PeerCreate, PeerUpdate, PeerDelete, PeerRestore, PeerPurge, boot
  <2>2. \A i, on : SyncPeer(i, p, on, F) => owed \subseteq owed'
    BY DEF SyncPeer
  <2>3. owed \subseteq owed'
    BY <1>1, <2>2 DEF PeerCreate, PeerUpdate, PeerDelete, PeerRestore, PeerPurge
  <2>4. \/ fw' = fw \/ fw' = Unapply(fw, ForwardsTo(p), F)
        \/ fw' = Reapply(fw, ForwardsTo(p), F)
    BY <1>1 DEF PeerCreate, PeerUpdate, PeerDelete, PeerRestore, PeerPurge
  <2>5. NatBecomes(fw)
    BY <2>4, PfCallsKeepNat DEF NatBecomes
  <2> QED BY <2>1, <2>3, <2>5
<1>2. ASSUME NEW u \in Users, NEW f \in Pfs,
             \/ \E p \in Peers : PfCreate(u, p, f, F)
             \/ PfUpdate(u, f, F) \/ PfDelete(u, f, F)
      PROVE  Calm
  <2>1. UNCHANGED <<ifaces, todo, owed>>
    BY <1>2 DEF PfCreate, PfUpdate, PfDelete, boot
  <2> DEFINE removed == DeleteRules(fw, PfRules(f, pfs[f].tport), F)
  <2>2. \E t : \/ fw' = removed
               \/ fw' = EnsureRules(fw, PfRules(f, t), F)
               \/ fw' = EnsureRules(removed, PfRules(f, t), F)
    <3>1. CASE \E p \in Peers : PfCreate(u, p, f, F)
      BY <3>1 DEF PfCreate
    <3>2. CASE PfUpdate(u, f, F)
      BY <3>2 DEF PfUpdate
    <3>3. CASE PfDelete(u, f, F)
      BY <3>3 DEF PfDelete
    <3> QED BY <1>2, <3>1, <3>2, <3>3
  <2>3. NatBecomes(removed) => NatBecomes(fw)
    BY PfCallsKeepNat DEF NatBecomes
  <2> HIDE DEF removed
  <2>4. NatBecomes(fw) \/ NatBecomes(removed)
    BY <2>2, PfCallsKeepNat DEF NatBecomes
  <2> QED BY <2>1, <2>3, <2>4
<1>3. ASSUME NEW reboot \in BOOLEAN, Start(F, reboot) PROVE ElsewhereStep
  BY <1>3 DEF Start, db, NatBecomes, ElsewhereStep
<1>4. ASSUME NEW i \in Ifaces, BootReconcile(i, F), ~Active(i) PROVE ElsewhereStep
  BY <1>4 DEF BootReconcile, db, NatBecomes, Wanted, ElsewhereStep
<1>5. CASE BootForwards(F)
  <2>1. NatBecomes(fw)
    BY <1>5, PfCallsKeepNat DEF BootForwards, NatBecomes
  <2> QED BY <1>0, <1>5, <2>1 DEF BootForwards, db
<1>7. ASSUME NEW i \in Ifaces, BootReconcile(i, F), Active(i)
      PROVE  IfaceStep(i, F) /\ \A j \in Ifaces \ {i} : j \in todo <=> j \in todo'
  BY <1>7 DEF BootReconcile, IfaceStep
<1>8. ASSUME NEW u \in Users, NEW i \in Ifaces,
             \/ IfaceCreate(u, i, F)  \/ IfaceUpdate(u, i, F)
             \/ IfaceDelete(u, i, F)  \/ IfaceRestore(u, i, F)
             \/ IfacePurge(u, i, F)   \/ IfaceSync(u, i, F)
      PROVE  IfaceStep(i, F) /\ UNCHANGED todo
  <2>1. UNCHANGED todo
    BY <1>8 DEF IfaceCreate, IfaceUpdate, IfaceDelete, IfaceRestore, IfacePurge,
                IfaceSync, boot
  <2> QED BY <1>8, <2>1 DEF IfaceStep, IfaceSync
<1> HIDE DEF Calm
<1>9. CASE System(F)
  BY <1>3, <1>4, <1>5, <1>7, <1>9 DEF System
<1>10. ASSUME NEW u \in Users, Request(u, F)
       PROVE  \/ \E i \in Ifaces : IfaceStep(i, F) /\ \A j \in Ifaces \ {i} :
                                                        j \in todo <=> j \in todo'
              \/ ElsewhereStep
  BY <1>0, <1>1, <1>2, <1>8, <1>10 DEF Request
<1> QED BY <1>9, <1>10

\* The same for a step of the whole panel.
LEMMA StepEffect ==
    ASSUME TypeOK, [Next]_vars
    PROVE  \/ \E F \in FaultSets, i \in Ifaces :
                IfaceStep(i, F) /\ \A j \in Ifaces \ {i} : j \in todo <=> j \in todo'
           \/ ElsewhereStep
<1>1. CASE \E F \in FaultSets : System(F) \/ \E u \in Users : Request(u, F)
  BY <1>1, OtherEffect
<1>2. CASE RouteChange \/ UNCHANGED vars
  BY <1>2 DEF RouteChange, vars, db, boot, NatBecomes, ElsewhereStep
<1> QED BY <1>1, <1>2 DEF Next

\* Reconciling a row keeps its address, and its egress where it names one.
LEMMA ResolvedChosen ==
    ASSUME NEW i \in Ifaces, NEW row \in Iface, NEW F
    PROVE  LET new == Resolved(i, row, F)
           IN  /\ Chosen(i, row) => Chosen(i, new)
               /\ row.egress # NoLink => new = row
<1>1. row.egress # NoLink => Resolved(i, row, F) = row
  BY DEF Resolved, Egress, Iface
<1>2. /\ Resolved(i, row, F).addr = row.addr
      /\ Resolved(i, row, F).st = row.st
  BY ResolvedKeeps
<1> QED BY <1>1, <1>2 DEF Chosen, InTable

\* Rows in the table keep naming addresses and links operators may choose.
LEMMA RowsChosenStep ==
    ASSUME TypeOK, RowsChosen, [Next]_vars
    PROVE  RowsChosen'
<1>1. ASSUME NEW F \in FaultSets, NEW i \in Ifaces, IfaceStep(i, F)
      PROVE  RowsChosen'
  <2>0. Chosen(i, ifaces[i])
    BY DEF RowsChosen
  <2>1. \A j \in Ifaces \ {i} : ifaces'[j] = ifaces[j]
    BY <1>1, IfaceEffect
  <2>2. CASE Withdrawn(i, F)
    <3>1. Chosen(i, ifaces'[i])
      BY <2>0, <2>2 DEF Withdrawn, Chosen
    <3> QED BY <2>1, <3>1 DEF RowsChosen, Chosen
  <2>3. CASE Raised(i)
    <3>1. Chosen(i, ifaces'[i])
      BY <2>0, <2>3 DEF Raised, Chosen, InTable
    <3> QED BY <2>1, <3>1 DEF RowsChosen, Chosen
  <2>4. ASSUME NEW row \in Iface, NEW rules, Applied(i, F, row, rules)
        PROVE  RowsChosen'
    <3>1. Chosen(i, ifaces'[i])
      BY <2>4, ResolvedChosen DEF Applied
    <3> QED BY <2>1, <3>1 DEF RowsChosen, Chosen
  <2> QED BY <1>1, <2>2, <2>3, <2>4, IfaceEffect
<1>2. CASE ElsewhereStep
  BY <1>2 DEF RowsChosen, ElsewhereStep
<1> QED BY <1>1, <1>2, StepEffect

-----------------------------------------------------------------------------
(* NAT rules outlive nothing they serve *)

\* Hypothesis: iptables deletes the NAT rules it is asked to delete.
NatRemoved == \A F \in FaultSets : F.del \intersect NatKinds = {}

\* Hypothesis: rows name their egress, or a set-up that detects it neither stops
\* half way nor fails to store what it detected.
EgressKept ==
    \/ NoLink \notin EgressChoices
    \/ \A F \in FaultSets : F.add \intersect NatKinds = {} /\ "egress" \notin F.db

\* The rule serves an enabled, masqueraded interface in service whose row names
\* the egress.
Uses(i, r) ==
    /\ i \in Wanted /\ ifaces[i].masq /\ ifaces[i].egress # NoLink
    /\ r \in NatOf(i)

\* NatNoLeak, with the egress named by the row: of a row without one the tear-down
\* would look for the rules of today's default route.
NatOwned == \A r \in fw : r[1] \in NatKinds => \E i \in Ifaces : Uses(i, r)

\* Tearing down removes the rules of a row that names its egress, and no others.
LEMMA TornDownEffect ==
    ASSUME NEW i, NEW stuck, NEW r, r \in TornDown(i, stuck)
    PROVE  /\ r \in fw
           /\ stuck \intersect NatKinds = {} /\ r[1] \in NatKinds => ~Uses(i, r)
  BY DEF TornDown, TeardownNAT, DeleteRules, Egress, Uses, NatOf

\* What a full apply installs serves the row it leaves in the table.
LEMMA Installed ==
    ASSUME TypeOK, EgressKept, NEW i \in Ifaces, NEW F \in FaultSets,
           NEW row \in Iface, row.st = "active", Chosen(i, row), NEW rules,
           ifaces'[i] = Resolved(i, row, F),
           NEW r, r[1] \in NatKinds, r \in ReconcileFw(rules, i, row, F), r \notin rules
    PROVE  Uses(i, r)'
<1> DEFINE e == Egress(row.egress, wan)
<1>1. /\ row.on /\ row.masq /\ "load" \notin F.db /\ Configured(i, F)
      /\ r \in SetupNAT(rules, NameOf[i], row.addr, row.egress, wan, F)
  BY DEF ReconcileFw, TeardownNAT, DeleteRules
<1>2. e # NoLink /\ r \in NatRules(NameOf[i], row.addr, e) /\ "forwarding" \notin F.host
  BY <1>1 DEF SetupNAT, EnsureRules
<1>3. row.egress = NoLink => ReconcileOK(i, row, F)
  <2> SUFFICES ASSUME row.egress = NoLink PROVE ReconcileOK(i, row, F)
    OBVIOUS
  <2>1. F.add \intersect NatKinds = {} /\ "egress" \notin F.db
    BY DEF EgressKept, Chosen, InTable
  <2>2. \A q \in NatRules(NameOf[i], row.addr, e) : q[1] \notin F.add
    BY <2>1, RuleKinds
  <2> HIDE DEF e
  <2>3. EnsureRulesOK(NatRules(NameOf[i], row.addr, e), F)
    BY <1>2, <2>2 DEF EnsureRulesOK
  <2>4. SetupNATOK(NameOf[i], row.addr, row.egress, wan, F)
    BY <1>2, <2>3 DEF SetupNATOK, e
  <2> QED BY <1>1, <2>1, <2>4 DEF ReconcileOK
<1>4. Resolved(i, row, F).egress = e
  BY <1>1, <1>3, ResolvedChosen DEF Resolved, Egress, Iface
<1> HIDE DEF e
<1>5. LET new == ifaces'[i]
      IN  new.st = "active" /\ new.on /\ new.masq /\ new.addr = row.addr /\ new.egress = e
  BY <1>1, <1>4, ResolvedKeeps
<1> QED BY <1>2, <1>5 DEF Uses, Wanted, Active, NatOf

\* One step of the panel leaves no NAT rule without an interface that uses it.
LEMMA NatOwnedStep ==
    ASSUME NatRemoved, EgressKept, TypeOK, RowsChosen, NatOwned, [Next]_vars
    PROVE  NatOwned'
<1>1. ASSUME NEW F \in FaultSets, NEW i \in Ifaces, IfaceStep(i, F)
      PROVE  NatOwned'
  <2> SUFFICES ASSUME NEW r, r \in fw', r[1] \in NatKinds
               PROVE  \E j \in Ifaces : Uses(j, r)'
    BY DEF NatOwned
  <2>1. \A j \in Ifaces \ {i} : Uses(j, r) => Uses(j, r)'
    BY <1>1, IfaceEffect DEF Uses, Wanted, Active, NatOf
  <2>2. \/ Uses(i, r)'
        \/ r \in fw /\ ~Uses(i, r)
    <3>0. \A stuck \in StuckKinds \union {F.del} : stuck \intersect NatKinds = {}
      BY DEF NatRemoved, StuckKinds
    <3>1. CASE Withdrawn(i, F)
      BY <3>0, <3>1, TornDownEffect DEF Withdrawn, NatBecomes
    <3>2. CASE Raised(i)
      BY <3>2 DEF Raised, NatBecomes, Uses, Wanted, Active
    <3>3. ASSUME NEW row \in Iface, NEW rules, Applied(i, F, row, rules)
          PROVE  Uses(i, r)' \/ (r \in fw /\ ~Uses(i, r))
      <4>1. r \in ReconcileFw(rules, i, row, F) /\ ifaces'[i] = Resolved(i, row, F)
        BY <3>3 DEF Applied, NatBecomes
      <4>2. CASE r \notin rules
        BY <3>3, <4>1, <4>2, Installed DEF Applied
      <4>3. CASE r \in rules /\ \E stuck \in StuckKinds : rules = TornDown(i, stuck)
        BY <3>0, <4>3, TornDownEffect
      <4>4. CASE r \in rules /\ rules = fw /\ ~Active(i)
        BY <4>4 DEF Uses, Wanted
      <4>5. CASE r \in rules /\ rules = fw /\ row = ifaces[i]
        <5>1. Uses(i, r) => ifaces'[i] = ifaces[i]
          BY <4>1, <4>5, ResolvedChosen DEF Uses
        <5>2. Uses(i, r) => Uses(i, r)'
          BY <5>1 DEF Uses, Wanted, Active, NatOf
        <5> QED BY <4>5, <5>2
      <4> QED BY <3>3, <4>2, <4>3, <4>4, <4>5 DEF Applied
    <3> QED BY <1>1, <3>1, <3>2, <3>3, IfaceEffect
  <2>3. CASE r \in fw /\ ~Uses(i, r)
    BY <2>1, <2>3 DEF NatOwned
  <2> QED BY <2>2, <2>3
<1>2. CASE ElsewhereStep
  BY <1>2 DEF ElsewhereStep, NatOwned, NatBecomes, Uses, Wanted, Active, NatOf
<1> QED BY <1>1, <1>2, StepEffect

\* No NAT rule outlives its use, for every number of interfaces, names, addresses
\* and links and whatever else fails, as long as deletions work and a detected
\* egress is stored: each rule belongs to an enabled, masqueraded interface in
\* service, at the address and the egress its row names.
THEOREM NatNeverLeaks ==
    ASSUME NatRemoved, EgressKept
    PROVE  Spec => []NatNoLeak
<1>1. Init => RowsChosen /\ NatOwned
  BY DEF Init, RowsChosen, Chosen, BlankIface, InTable, NatOwned
<1>2. TypeOK /\ RowsChosen /\ NatOwned /\ [Next]_vars => RowsChosen' /\ NatOwned'
  BY RowsChosenStep, NatOwnedStep
<1>3. NatOwned => NatNoLeak
  BY DEF NatOwned, NatNoLeak, Uses
<1> QED BY <1>1, <1>2, <1>3, TypeCorrect, PTL DEF Spec

-----------------------------------------------------------------------------
(* Masqueraded interfaces have their NAT rules *)

\* Hypothesis: operators give interfaces of different names different subnets.
SubnetsApart ==
    \A i, j \in Ifaces : NameOf[i] # NameOf[j] =>
      \A a \in AddrChoices[i], b \in AddrChoices[j] : SubnetOf[a] # SubnetOf[b]

\* NatInSync, interface by interface: the bootstrap drops an interface from its
\* list only after the apply, so the ones off the list are the ones to vouch for.
NatKept ==
    \A i \in Wanted :
      ifaces[i].masq /\ NameOf[i] \notin owed /\ i \notin todo =>
        ifaces[i].egress # NoLink /\ NatOf(i) \subseteq fw

\* Interfaces on different subnets and devices share no NAT rule.
LEMMA NatApart ==
    ASSUME SubnetsApart, NEW i \in Ifaces, NEW j \in Ifaces, NameOf[i] # NameOf[j],
           NEW a \in AddrChoices[i], NEW b \in AddrChoices[j], NEW e, NEW g
    PROVE  NatRules(NameOf[i], a, e) \intersect NatRules(NameOf[j], b, g) = {}
<1>1. SubnetOf[a] # SubnetOf[b]
  BY DEF SubnetsApart
<1> QED BY <1>1 DEF NatRules

\* A step works on an interface no other row in the table shares the name of.
LEMMA StepNames ==
    ASSUME UniqueNames, NEW i \in Ifaces, NEW F, IfaceStep(i, F),
           NEW j \in Ifaces \ {i}, InTable(ifaces[j])
    PROVE  NameOf[j] # NameOf[i]
<1>1. \/ InTable(ifaces[i])
      \/ \A k \in Ifaces : InTable(ifaces[k]) => NameOf[k] # NameOf[i]
  BY DEF IfaceStep, IfaceCreate, IfaceUpdate, IfaceDelete, IfaceRestore, IfacePurge,
         Active, InTable
<1> QED BY <1>1 DEF UniqueNames

\* A step on one interface neither installs nor removes a NAT rule of another.
LEMMA NatFrame ==
    ASSUME SubnetsApart, TypeOK, UniqueNames, RowsChosen,
           NEW i \in Ifaces, NEW F, IfaceStep(i, F),
           NEW j \in Ifaces \ {i}, InTable(ifaces[j]), NEW r \in NatOf(j)
    PROVE  r \in fw' <=> r \in fw
<1>1. NameOf[j] # NameOf[i] /\ r[1] \in NatKinds /\ ifaces[j].addr \in AddrChoices[j]
  BY StepNames, RuleKinds DEF NatOf, RowsChosen, Chosen
<1>2. \A a \in AddrChoices[i] : \A e : r \notin NatRules(NameOf[i], a, e)
  BY <1>1, NatApart DEF NatOf
<1>3. InTable(ifaces[i]) => \A stuck : (r \in TornDown(i, stuck) <=> r \in fw)
  <2> SUFFICES ASSUME InTable(ifaces[i]), NEW stuck
               PROVE  r \in TornDown(i, stuck) <=> r \in fw
    OBVIOUS
  <2>1. ifaces[i].addr \in AddrChoices[i]
    BY DEF RowsChosen, Chosen
  <2> QED BY <1>2, <2>1 DEF TornDown, TeardownNAT, DeleteRules
<1>4. CASE Withdrawn(i, F) \/ Raised(i)
  BY <1>1, <1>3, <1>4 DEF Withdrawn, Raised, NatBecomes
<1>5. ASSUME NEW row \in Iface, NEW rules, Applied(i, F, row, rules)
      PROVE  r \in fw' <=> r \in fw
  <2>1. row.addr \in AddrChoices[i]
    BY <1>5 DEF Applied, Chosen, InTable
  <2>2. r \in rules <=> r \in fw
    BY <1>3, <1>5 DEF Applied, InTable, Active
  <2>3. r \in ReconcileFw(rules, i, row, F) <=> r \in rules
    BY <1>2, <2>1 DEF ReconcileFw, SetupNAT, TeardownNAT, EnsureRules, DeleteRules
  <2> QED BY <1>1, <1>5, <2>2, <2>3 DEF Applied, NatBecomes
<1> QED BY <1>4, <1>5, IfaceEffect

\* A full apply that is reported to have worked has stored an egress and
\* installed every NAT rule of a masqueraded interface.
LEMMA FullyInstalled ==
    ASSUME TypeOK, NEW i \in Ifaces, NEW F, NEW row \in Iface, NEW rules,
           Applied(i, F, row, rules), NameOf[i] \notin owed',
           i \in Wanted', ifaces'[i].masq
    PROVE  ifaces'[i].egress # NoLink /\ NatOf(i)' \subseteq fw'
<1> DEFINE e == Egress(row.egress, wan)
<1>1. row.on /\ row.masq /\ ReconcileOK(i, row, F) /\ ifaces'[i] = Resolved(i, row, F)
  BY ResolvedKeeps DEF Applied, Wanted, Active
<1>2. /\ "load" \notin F.db /\ Configured(i, F) /\ e # NoLink
      /\ EnsureRulesOK(NatRules(NameOf[i], row.addr, e), F)
  BY <1>1 DEF ReconcileOK, SetupNATOK
<1>3. ifaces'[i].egress = e /\ ifaces'[i].addr = row.addr
  BY <1>1, ResolvedKeeps DEF Resolved, Iface
<1>4. \A r \in NatRules(NameOf[i], row.addr, e) : NotAfter[r[1]] \intersect F.add = {}
  <2>1. "masq" \notin F.add /\ "out" \notin F.add /\ "in" \notin F.add /\ "hub" \notin F.add
    <3> DEFINE n == NameOf[i]
               S == NatRules(n, row.addr, e)
    <3>1. /\ <<"masq", SubnetOf[row.addr], e>> \in S /\ <<"out", n, e>> \in S
          /\ <<"in", n, e>> \in S /\ <<"hub", n, n>> \in S
      BY DEF NatRules
    <3>2. \A r \in S : r[1] \notin F.add
      BY <1>2 DEF EnsureRulesOK
    <3> HIDE DEF S
    <3> QED BY <3>1, <3>2
  <2>2. NatKinds \intersect F.add = {}
    BY <2>1 DEF NatKinds
  <2>3. \A k \in NatKinds : NotAfter[k] \subseteq NatKinds
    BY DEF NotAfter, NatKinds
  <2> QED BY <2>2, <2>3, RuleKinds
<1> HIDE DEF e
<1>5. NatRules(NameOf[i], row.addr, e) \subseteq ReconcileFw(rules, i, row, F)
  BY <1>1, <1>2, <1>4 DEF ReconcileFw, SetupNAT, EnsureRules, EnsureRulesOK, e
<1>6. NatOf(i)' = NatRules(NameOf[i], row.addr, e)
  BY <1>3 DEF NatOf
<1> QED BY <1>2, <1>3, <1>5, <1>6, RuleKinds DEF Applied, NatBecomes

\* One step of the panel keeps every masqueraded interface it vouches for served.
LEMMA NatKeptStep ==
    ASSUME SubnetsApart, TypeOK, UniqueNames, RowsChosen, NatKept, [Next]_vars
    PROVE  NatKept'
<1>1. ASSUME NEW F \in FaultSets, NEW i \in Ifaces, IfaceStep(i, F),
             \A j \in Ifaces \ {i} : j \in todo <=> j \in todo'
      PROVE  NatKept'
  <2>1. ASSUME NEW j \in Ifaces \ {i}, j \in Wanted', ifaces'[j].masq,
               NameOf[j] \notin owed', j \notin todo'
        PROVE  ifaces'[j].egress # NoLink /\ NatOf(j)' \subseteq fw'
    <3>1. ifaces'[j] = ifaces[j] /\ j \in Wanted
      BY <1>1, <2>1, IfaceEffect DEF Wanted, Active
    <3>2. InTable(ifaces[j])
      BY <3>1 DEF Wanted, Active, InTable
    <3>3. NameOf[j] # NameOf[i]
      BY <1>1, <3>2, StepNames
    <3>4. NameOf[j] \notin owed
      BY <1>1, <2>1, <3>3 DEF IfaceStep, IfaceCreate, IfaceUpdate, IfaceDelete,
         IfaceRestore, IfacePurge, Apply, Report
    <3>5. ifaces[j].egress # NoLink /\ NatOf(j) \subseteq fw
      BY <1>1, <2>1, <3>1, <3>4 DEF NatKept
    <3>6. NatOf(j)' = NatOf(j)
      BY <3>1 DEF NatOf
    <3> QED BY <1>1, <3>1, <3>2, <3>5, <3>6, NatFrame
  <2>2. ASSUME i \in Wanted', ifaces'[i].masq, NameOf[i] \notin owed'
        PROVE  ifaces'[i].egress # NoLink /\ NatOf(i)' \subseteq fw'
    <3>1. ~Withdrawn(i, F) /\ ~Raised(i)
      BY <2>2 DEF Withdrawn, Raised, Wanted
    <3> QED BY <1>1, <2>2, <3>1, IfaceEffect, FullyInstalled
  <2> QED BY <2>1, <2>2 DEF NatKept, Wanted
<1>2. CASE ElsewhereStep
  <2>1. Wanted' = Wanted /\ \A i : NatOf(i)' = NatOf(i) /\ ifaces'[i] = ifaces[i]
    BY <1>2 DEF ElsewhereStep, Wanted, Active, NatOf
  <2>2. CASE owed' = Names
    BY <2>2, HostAssumption DEF HostAssumption, NatKept, Wanted
  <2>3. CASE todo' = Wanted
    BY <2>1, <2>3 DEF NatKept
  <2>4. CASE /\ NatBecomes(fw) /\ owed \subseteq owed'
             /\ \A i \in todo \ todo' : i \notin Wanted
    <3>1. \A i : NatOf(i) \subseteq fw => NatOf(i) \subseteq fw'
      BY <2>4, RuleKinds DEF NatBecomes, NatOf
    <3> QED BY <2>1, <2>4, <3>1 DEF NatKept
  <2> QED BY <1>2, <2>2, <2>3, <2>4 DEF ElsewhereStep
<1> QED BY <1>1, <1>2, StepEffect

\* Clients of a masqueraded interface the panel vouches for have all their NAT
\* rules, for every number of interfaces and every set of fault patterns, as long
\* as interfaces do not share a subnet.
THEOREM NatAlwaysInSync ==
    ASSUME SubnetsApart
    PROVE  Spec => []NatInSync
<1>1. Init => RowsChosen /\ NatKept
  BY DEF Init, RowsChosen, Chosen, BlankIface, InTable, NatKept, Wanted, Active
<1>2. IInv /\ RowsChosen /\ NatKept /\ [Next]_vars => RowsChosen' /\ NatKept'
  BY RowsChosenStep, NatKeptStep DEF IInv
<1>3. NatKept => NatInSync
  BY DEF NatKept, NatInSync, Vouched
<1> QED BY <1>1, <1>2, <1>3, InvariantHolds, PTL DEF Spec

-----------------------------------------------------------------------------
(* Forward rules belong to rows, and the rows to interfaces and peers *)

\* Hypothesis: a handler that asks for the rules or the rows of forwards to be
\* removed finds them and gets them removed.
ForwardsRemoved ==
    \A F \in FaultSets :
      F.del \intersect PfKinds = {} /\ {"pfload", "pfrow"} \intersect F.db = {}

\* The two halves of NoOrphanForward.
RuleOwned(r) == \E f \in Pfs : pfs[f].st = "active" /\ pfs[f].on /\ r \in RulesOf({f})
RulesOwned == \A r \in fw : r[1] \in PfKinds => RuleOwned(r)
RowsPlaced ==
    \A f \in Pfs : pfs[f].st = "active" =>
      /\ InTable(ifaces[pfs[f].iface])
      /\ InTable(peers[pfs[f].peer])
      /\ peers[pfs[f].peer].iface = pfs[f].iface

\* The rules of one forward.
LEMMA RulesOfOne ==
    ASSUME NEW f
    PROVE  RulesOf({f}) = PfRules(f, pfs[f].tport)
  BY DEF RulesOf

\* Re-applying forwards installs rules of enabled ones.
LEMMA ReapplyOwned ==
    ASSUME NEW rules, NEW S \in SUBSET {f \in Pfs : pfs[f].st = "active"}, NEW F,
           NEW r, r \in Reapply(rules, S, F), r \notin rules
    PROVE  RuleOwned(r)
<1>1. r \in RulesOf(Found(Enabled(S), F))
  BY DEF Reapply, EnsureRules
<1>2. PICK f \in Found(Enabled(S), F) : r \in PfRules(f, pfs[f].tport)
  BY <1>1 DEF RulesOf
<1>3. f \in Pfs /\ pfs[f].st = "active" /\ pfs[f].on
  BY DEF Found, Enabled
<1> QED BY <1>2, <1>3, RulesOfOne DEF RuleOwned

\* Removing the rules of forwards that are found removes all of them.
LEMMA UnapplyGone ==
    ASSUME ForwardsRemoved, NEW rules, NEW S, NEW F \in FaultSets,
           NEW r, r[1] \in PfKinds, r \in Unapply(rules, S, F)
    PROVE  r \in rules /\ \A f \in S : r \notin RulesOf({f})
<1>1. r[1] \notin F.del /\ Found(S, F) = S
  BY DEF ForwardsRemoved, Found
<1>2. r \in rules /\ r \notin RulesOf(S)
  BY <1>1 DEF Unapply, DeleteRules
<1> QED BY <1>2 DEF RulesOf

\* A step that changes no forward and installs rules of enabled ones only.
LEMMA RulesStay ==
    ASSUME RulesOwned, UNCHANGED pfs,
           \A r \in fw' : r[1] \in PfKinds => r \in fw \/ RuleOwned(r)
    PROVE  RulesOwned'
<1>1. \A r : RuleOwned(r)' <=> RuleOwned(r)
  BY DEF RuleOwned, RulesOf
<1> QED BY <1>1 DEF RulesOwned

\* A step that takes rows and rules of the forwards in S out together.
LEMMA RulesPurged ==
    ASSUME TypeOK, RulesOwned, NEW S,
           \A f \in Pfs \ S : pfs'[f] = pfs[f],
           \A r \in fw' : r[1] \in PfKinds => r \in fw /\ \A f \in S : r \notin RulesOf({f})
    PROVE  RulesOwned'
<1> SUFFICES ASSUME NEW r \in fw', r[1] \in PfKinds PROVE RuleOwned(r)'
  BY DEF RulesOwned
<1>1. PICK f \in Pfs : pfs[f].st = "active" /\ pfs[f].on /\ r \in RulesOf({f})
  BY DEF RulesOwned, RuleOwned
<1>2. f \notin S
  BY <1>1
<1>3. pfs'[f] = pfs[f] /\ RulesOf({f})' = RulesOf({f})
  BY <1>2 DEF RulesOf
<1> QED BY <1>1, <1>3 DEF RuleOwned

\* A step that changes no forward and purges no interface and no peer.
LEMMA RowsStayPlaced ==
    ASSUME TypeOK, RowsPlaced, UNCHANGED pfs,
           \A i \in Ifaces : InTable(ifaces[i]) => InTable(ifaces'[i]),
           \A p \in Peers : InTable(peers[p]) =>
                              InTable(peers'[p]) /\ peers'[p].iface = peers[p].iface
    PROVE  RowsPlaced'
  BY DEF TypeOK, Pf, RowsPlaced

\* Interface handlers and the bootstrap's reconciles, but for the purge.
LEMMA IfaceForwards ==
    ASSUME TypeOK, RulesOwned, RowsPlaced, NEW i \in Ifaces, NEW F,
           \/ \E u \in Users : \/ IfaceCreate(u, i, F)  \/ IfaceUpdate(u, i, F)
                               \/ IfaceDelete(u, i, F)  \/ IfaceRestore(u, i, F)
           \/ Active(i) /\ Apply(i, F)
    PROVE  RulesOwned' /\ RowsPlaced'
<1> DEFINE S == Forwards(i)
<1>0. S \in SUBSET {f \in Pfs : pfs[f].st = "active"} /\ ifaces[i] \in Iface
  BY DEF Forwards, TypeOK
<1>1. UNCHANGED pfs
  BY DEF IfaceCreate, IfaceUpdate, IfaceDelete, IfaceRestore, Apply
<1>2. \A p \in Peers : InTable(peers[p]) =>
                         InTable(peers'[p]) /\ peers'[p].iface = peers[p].iface
  <2>1. CASE UNCHANGED peers
    BY <2>1
  <2>2. CASE \E u \in Users : IfaceDelete(u, i, F) \/ IfaceRestore(u, i, F)
    <3>1. ASSUME NEW p \in Peers
          PROVE  \/ peers'[p] = peers[p]
                 \/ \E st \in {"active", "trashed"} :
                      peers'[p] = [peers[p] EXCEPT !.st = st]
      <4>1. ASSUME NEW u \in Users, IfaceDelete(u, i, F)
            PROVE  peers'[p] \in {peers[p], [peers[p] EXCEPT !.st = "trashed"]}
        BY <4>1 DEF IfaceDelete
      <4>2. ASSUME NEW u \in Users, IfaceRestore(u, i, F)
            PROVE  peers'[p] \in {peers[p], [peers[p] EXCEPT !.st = "active"]}
        BY <4>2 DEF IfaceRestore
      <4> QED BY <2>2, <4>1, <4>2
    <3>2. \A p \in Peers : peers[p] \in Peer
      BY DEF TypeOK
    <3> QED BY <3>1, <3>2 DEF Peer, InTable
  <2>3. (\E u \in Users : IfaceCreate(u, i, F) \/ IfaceUpdate(u, i, F)) \/ Apply(i, F)
          => UNCHANGED peers
    BY DEF IfaceCreate, IfaceUpdate, Apply
  <2> QED BY <2>1, <2>2, <2>3
<1>3. \A j \in Ifaces : InTable(ifaces[j]) => InTable(ifaces'[j])
  <2>1. ASSUME NEW u \in Users, IfaceCreate(u, i, F)
        PROVE  \A j \in Ifaces : InTable(ifaces[j]) => InTable(ifaces'[j])
    BY <2>1 DEF IfaceCreate, TypeOK, InTable
  <2>2. ASSUME NEW u \in Users, IfaceUpdate(u, i, F)
        PROVE  \A j \in Ifaces : InTable(ifaces[j]) => InTable(ifaces'[j])
    <3>1. PICK e \in Edits(i) :
            UNCHANGED ifaces \/ ifaces' = [ifaces EXCEPT ![i] = Resolved(i, Edited(i, e), F)]
      BY <2>2 DEF IfaceUpdate
    <3>2. Edited(i, e) \in Iface /\ Edited(i, e).st = ifaces[i].st
      BY <1>0, RowsTyped DEF Edited, Iface
    <3>3. Resolved(i, Edited(i, e), F).st = ifaces[i].st
      BY <3>2, ResolvedKeeps
    <3> QED BY <3>1, <3>3 DEF TypeOK, InTable
  <2>3. ASSUME NEW u \in Users, IfaceDelete(u, i, F)
        PROVE  \A j \in Ifaces : InTable(ifaces[j]) => InTable(ifaces'[j])
    BY <1>0, <2>3 DEF IfaceDelete, TypeOK, Iface, InTable
  <2>4. ASSUME NEW u \in Users, IfaceRestore(u, i, F)
        PROVE  \A j \in Ifaces : InTable(ifaces[j]) => InTable(ifaces'[j])
    <3> DEFINE row == [ifaces[i] EXCEPT !.st = "active"]
    <3>1. row \in Iface /\ row.st = "active"
      BY <1>0 DEF Iface, RowState
    <3>2. Resolved(i, row, F).st = "active"
      BY <3>1, ResolvedKeeps
    <3>3. ifaces' = [ifaces EXCEPT ![i] = row]
          \/ ifaces' = [ifaces EXCEPT ![i] = Resolved(i, row, F)]
      BY <2>4 DEF IfaceRestore
    <3> HIDE DEF row
    <3> QED BY <3>1, <3>2, <3>3 DEF TypeOK, InTable
  <2>5. ASSUME Apply(i, F)
        PROVE  \A j \in Ifaces : InTable(ifaces[j]) => InTable(ifaces'[j])
    BY <2>5, ApplyKeepsState DEF InTable
  <2> QED BY <2>1, <2>2, <2>3, <2>4, <2>5
<1>4. ASSUME NEW r \in fw', r[1] \in PfKinds, r \notin fw
      PROVE  RuleOwned(r)
  <2> HIDE DEF S
  <2>1. \A rules : \/ r \in Reapply(rules, S, F) => r \in rules
                   \/ RuleOwned(r)
    BY <1>0, ReapplyOwned
  <2>2. \A rules : r \in Unapply(rules, S, F) => r \in rules
    BY DEF Unapply, DeleteRules
  <2>3. (\A stuck : r \notin TornDown(i, stuck)) /\ r \notin CutOff(i, F)
    BY <1>4, <2>2, NatCallsKeepPf DEF TornDown, CutOff, S
  <2>4. \A row : /\ r \notin ReconcileFw(fw, i, row, F)
                 /\ \A stuck : r \notin ReconcileFw(TornDown(i, stuck), i, row, F)
    BY <1>4, <2>3, NatCallsKeepPf
  <2>5. CASE \E u \in Users : IfaceCreate(u, i, F) \/ IfaceDelete(u, i, F)
    <3>1. fw' = CutOff(i, F) \/ \E row : fw' = ReconcileFw(fw, i, row, F)
      BY <2>5 DEF IfaceCreate, IfaceDelete
    <3> QED BY <1>4, <2>3, <2>4, <3>1
  <2>6. CASE Apply(i, F)
    BY <1>4, <2>4, <2>6 DEF Apply
  <2>7. ASSUME NEW u \in Users, IfaceUpdate(u, i, F) PROVE RuleOwned(r)
    <3>1. PICK row, stuck :
                     LET applied == ReconcileFw(TornDown(i, stuck), i, row, F)
                     IN  \/ fw' = TornDown(i, stuck)
                         \/ fw' = applied
                         \/ fw' = Reapply(applied, S, F)
                         \/ fw' = Unapply(applied, S, F)
      BY <2>7 DEF IfaceUpdate, S
    <3> QED BY <1>4, <2>1, <2>2, <2>3, <2>4, <3>1
  <2>8. ASSUME NEW u \in Users, IfaceRestore(u, i, F) PROVE RuleOwned(r)
    <3> DEFINE applied == ReconcileFw(fw, i, [ifaces[i] EXCEPT !.st = "active"], F)
    <3>1. fw' = fw \/ fw' = applied \/ fw' = Reapply(applied, S, F)
      BY <2>8 DEF IfaceRestore, S
    <3>2. r \notin applied
      BY <2>4
    <3> HIDE DEF applied
    <3> QED BY <1>4, <2>1, <3>1, <3>2
  <2> QED BY <2>5, <2>6, <2>7, <2>8
<1>5. RowsPlaced'
  BY <1>1, <1>2, <1>3, RowsStayPlaced
<1>6. RulesOwned'
  BY <1>1, <1>4, RulesStay
<1> QED BY <1>5, <1>6

\* Purging an interface takes its forwards, its peers and itself out together.
LEMMA IfacePurgeForwards ==
    ASSUME ForwardsRemoved, TypeOK, RulesOwned, RowsPlaced,
           NEW i \in Ifaces, NEW F \in FaultSets, NEW u \in Users, IfacePurge(u, i, F)
    PROVE  RulesOwned' /\ RowsPlaced'
<1> DEFINE S == Forwards(i)
<1>1. \A f \in Pfs : IF f \in S THEN pfs'[f].st = "purged" ELSE pfs'[f] = pfs[f]
  BY DEF IfacePurge, ForwardsRemoved, Found, BlankPf
<1>2. ASSUME NEW r \in fw', r[1] \in PfKinds
      PROVE  r \in fw /\ \A f \in S : r \notin RulesOf({f})
  <2>1. r \in Unapply(fw, S, F)
    BY <1>2, NatCallsKeepPf DEF IfacePurge, CutOff
  <2> QED BY <1>2, <2>1, UnapplyGone
<1>3. RulesOwned'
  BY <1>1, <1>2, RulesPurged
<1>4. /\ \A j \in Ifaces \ {i} : ifaces'[j] = ifaces[j]
      /\ \A p \in Peers : peers[p].iface # i => peers'[p] = peers[p]
  BY DEF IfacePurge, TypeOK
<1>5. ASSUME NEW f \in Pfs, pfs'[f].st = "active"
      PROVE  /\ InTable(ifaces'[pfs'[f].iface])
             /\ InTable(peers'[pfs'[f].peer])
             /\ peers'[pfs'[f].peer].iface = pfs'[f].iface
  <2>1. f \notin S /\ pfs'[f] = pfs[f]
    BY <1>1, <1>5
  <2>2. pfs[f].iface \in Ifaces \ {i} /\ pfs[f].peer \in Peers
    BY <1>5, <2>1 DEF Forwards, TypeOK, Pf
  <2> QED BY <1>4, <1>5, <2>1, <2>2 DEF RowsPlaced
<1> QED BY <1>3, <1>5 DEF RowsPlaced

\* The peer handlers; a purge takes the peer and its forwards out together.
LEMMA PeerForwards ==
    ASSUME ForwardsRemoved, TypeOK, RulesOwned, RowsPlaced,
           NEW p \in Peers, NEW F \in FaultSets, NEW u \in Users,
           \/ \E i \in Ifaces : PeerCreate(u, i, p, F)
           \/ PeerUpdate(u, p, F)    \/ PeerDelete(u, p, F)
           \/ PeerRestore(u, p, F)   \/ PeerPurge(u, p, F)
    PROVE  RulesOwned' /\ RowsPlaced'
<1> DEFINE S == ForwardsTo(p)
<1>0. S \in SUBSET {f \in Pfs : pfs[f].st = "active"} /\ peers[p] \in Peer
  BY DEF ForwardsTo, TypeOK
<1>1. UNCHANGED ifaces
  BY DEF PeerCreate, PeerUpdate, PeerDelete, PeerRestore, PeerPurge
<1>2. CASE PeerPurge(u, p, F)
  <2>1. \A f \in Pfs : IF f \in S THEN pfs'[f].st = "purged" ELSE pfs'[f] = pfs[f]
    BY <1>2 DEF PeerPurge, ForwardsRemoved, Found, BlankPf
  <2>2. \A r \in fw' : r[1] \in PfKinds => r \in fw /\ \A f \in S : r \notin RulesOf({f})
    BY <1>2, UnapplyGone DEF PeerPurge
  <2>3. RulesOwned'
    BY <2>1, <2>2, RulesPurged
  <2>4. \A q \in Peers \ {p} : peers'[q] = peers[q]
    BY <1>2 DEF PeerPurge, TypeOK
  <2>5. ASSUME NEW f \in Pfs, pfs'[f].st = "active"
        PROVE  /\ InTable(ifaces'[pfs'[f].iface])
               /\ InTable(peers'[pfs'[f].peer])
               /\ peers'[pfs'[f].peer].iface = pfs'[f].iface
    <3>1. f \notin S /\ pfs'[f] = pfs[f]
      BY <2>1, <2>5
    <3>2. pfs[f].iface \in Ifaces /\ pfs[f].peer \in Peers \ {p}
      BY <2>5, <3>1 DEF ForwardsTo, TypeOK, Pf
    <3> QED BY <1>1, <2>4, <2>5, <3>1, <3>2 DEF RowsPlaced
  <2> QED BY <2>3, <2>5 DEF RowsPlaced
<1>3. CASE ~PeerPurge(u, p, F)
  <2>1. UNCHANGED pfs
    BY <1>3 DEF PeerCreate, PeerUpdate, PeerDelete, PeerRestore
  <2>2. ASSUME NEW q \in Peers, InTable(peers[q])
        PROVE  InTable(peers'[q]) /\ peers'[q].iface = peers[q].iface
    <3>1. CASE \E i \in Ifaces : PeerCreate(u, i, p, F)
      BY <2>2, <3>1 DEF PeerCreate, TypeOK, InTable
    <3>2. CASE PeerUpdate(u, p, F)
      BY <1>0, <2>2, <3>2 DEF PeerUpdate, TypeOK, Peer, InTable
    <3>3. CASE PeerDelete(u, p, F)
      <4>1. UNCHANGED peers \/ peers' = [peers EXCEPT ![p].st = "trashed"]
        BY <3>3 DEF PeerDelete
      <4> QED BY <1>0, <2>2, <4>1, SMTT(30) DEF TypeOK, Peer, InTable
    <3>4. CASE PeerRestore(u, p, F)
      BY <1>0, <2>2, <3>4 DEF PeerRestore, TypeOK, Peer, InTable
    <3> QED BY <1>3, <3>1, <3>2, <3>3, <3>4
  <2>3. RowsPlaced'
    BY <1>1, <2>1, <2>2, RowsStayPlaced
  <2>4. fw' = fw \/ fw' = Unapply(fw, S, F) \/ fw' = Reapply(fw, S, F)
    BY <1>3 DEF PeerCreate, PeerUpdate, PeerDelete, PeerRestore
  <2>5. \A r \in fw' : r[1] \in PfKinds => r \in fw \/ RuleOwned(r)
    <3> HIDE DEF S
    <3>1. \A r \in Unapply(fw, S, F) : r \in fw
      BY DEF Unapply, DeleteRules
    <3> QED BY <1>0, <2>4, <3>1, ReapplyOwned
  <2>6. RulesOwned'
    BY <2>1, <2>5, RulesStay
  <2> QED BY <2>3, <2>6
<1> QED BY <1>2, <1>3

\* The forward handlers: old rules go before new ones come.
LEMMA PfForwards ==
    ASSUME ForwardsRemoved, TypeOK, RulesOwned, RowsPlaced,
           NEW f \in Pfs, NEW F \in FaultSets, NEW u \in Users,
           \/ \E p \in Peers : PfCreate(u, p, f, F)
           \/ PfUpdate(u, f, F)
           \/ PfDelete(u, f, F)
    PROVE  RulesOwned' /\ RowsPlaced'
<1> DEFINE removed == DeleteRules(fw, PfRules(f, pfs[f].tport), F)
<1>0. pfs[f] \in Pf /\ UNCHANGED <<ifaces, peers>>
  BY DEF TypeOK, PfCreate, PfUpdate, PfDelete
<1>1. ASSUME NEW r \in removed, r[1] \in PfKinds
      PROVE  r \in fw /\ \A g \in {f} : r \notin RulesOf({g})
  BY <1>1, RulesOfOne DEF DeleteRules, ForwardsRemoved
<1>2. ASSUME \A g \in Pfs \ {f} : pfs'[g] = pfs[g],
             NEW t, fw' \subseteq fw \union PfRules(f, t),
             \A r \in fw' : r[1] \in PfKinds =>
               \/ r \in fw /\ r \notin PfRules(f, pfs[f].tport)
               \/ r \in PfRules(f, t) /\ pfs'[f].tport = t
                    /\ pfs'[f].st = "active" /\ pfs'[f].on
               \/ r \in fw /\ pfs[f].st # "active"
      PROVE  RulesOwned'
  <2> SUFFICES ASSUME NEW r \in fw', r[1] \in PfKinds PROVE RuleOwned(r)'
    BY DEF RulesOwned
  <2>1. CASE r \in PfRules(f, t) /\ pfs'[f].tport = t /\ pfs'[f].st = "active" /\ pfs'[f].on
    <3>1. RulesOf({f})' = PfRules(f, pfs'[f].tport)
      BY DEF RulesOf
    <3> QED BY <2>1, <3>1 DEF RuleOwned
  <2>2. CASE r \in fw /\ (r \notin PfRules(f, pfs[f].tport) \/ pfs[f].st # "active")
    <3>1. PICK g \in Pfs : pfs[g].st = "active" /\ pfs[g].on /\ r \in RulesOf({g})
      BY <2>2 DEF RulesOwned, RuleOwned
    <3>2. g # f
      BY <2>2, <3>1, RulesOfOne
    <3>3. pfs'[g] = pfs[g] /\ RulesOf({g})' = RulesOf({g})
      BY <1>2, <3>2 DEF RulesOf
    <3> QED BY <3>1, <3>3 DEF RuleOwned
  <2> QED BY <1>2, <2>1, <2>2
<1>3. ASSUME NEW p \in Peers, PfCreate(u, p, f, F) PROVE RulesOwned' /\ RowsPlaced'
  <2>1. PICK pub \in PortChoices.public, tport \in PortChoices.target :
          /\ peers[p].st = "active" /\ Active(peers[p].iface)
          /\ pfs[f].st = "none"
          /\ pfs' = [pfs EXCEPT ![f] =
                       [st |-> "active", iface |-> peers[p].iface, peer |-> p,
                        on |-> TRUE, pub |-> pub, tport |-> tport, owner |-> u]]
          /\ fw' = EnsureRules(fw, PfRules(f, tport), F)
    BY <1>3 DEF PfCreate
  <2>2. /\ \A g \in Pfs \ {f} : pfs'[g] = pfs[g]
        /\ pfs'[f].st = "active" /\ pfs'[f].on /\ pfs'[f].tport = tport
        /\ pfs'[f].iface = peers[p].iface /\ pfs'[f].peer = p
    BY <2>1 DEF TypeOK
  <2>3. fw' \subseteq fw \union PfRules(f, tport)
    BY <2>1 DEF EnsureRules
  <2>4. RulesOwned'
    BY <1>2, <2>1, <2>2, <2>3
  <2>5. RowsPlaced'
    BY <1>0, <2>1, <2>2 DEF RowsPlaced, InTable, Active
  <2> QED BY <2>4, <2>5
<1>4. CASE PfUpdate(u, f, F)
  <2>1. PICK tport \in PortChoices.target, on \in BOOLEAN :
          IF "save" \in F.db
            THEN fw' = removed /\ UNCHANGED pfs
            ELSE /\ pfs' = [pfs EXCEPT ![f].tport = tport, ![f].on = on]
                 /\ fw' = IF on THEN EnsureRules(removed, PfRules(f, tport), F)
                                ELSE removed
    BY <1>4 DEF PfUpdate
  <2>2. pfs[f].st = "active"
    BY <1>4 DEF PfUpdate
  <2> HIDE DEF removed
  <2>3. /\ \A g \in Pfs \ {f} : pfs'[g] = pfs[g]
        /\ pfs'[f].st = "active" /\ pfs'[f].iface = pfs[f].iface
        /\ pfs'[f].peer = pfs[f].peer
        /\ "save" \notin F.db => pfs'[f].on = on /\ pfs'[f].tport = tport
    <3>1. CASE "save" \in F.db
      BY <2>1, <2>2, <3>1
    <3>2. CASE "save" \notin F.db
      BY <1>0, <2>1, <2>2, <3>2 DEF TypeOK, Pf
    <3> QED BY <3>1, <3>2
  <2>4. \A r \in fw' : \/ r \in removed
                       \/ r \in PfRules(f, tport) /\ "save" \notin F.db /\ on
    BY <2>1 DEF EnsureRules
  <2>5. removed \subseteq fw
    BY DEF DeleteRules, removed
  <2>6. \A r \in removed : r[1] \in PfKinds => r \notin PfRules(f, pfs[f].tport)
    BY <1>1, RulesOfOne
  <2>7. RulesOwned'
    BY <1>2, <2>3, <2>4, <2>5, <2>6
  <2>8. RowsPlaced'
    BY <1>0, <2>2, <2>3 DEF RowsPlaced
  <2> QED BY <2>7, <2>8
<1>5. CASE PfDelete(u, f, F)
  <2>1. /\ \A g \in Pfs \ {f} : pfs'[g] = pfs[g]
        /\ pfs'[f] = pfs[f] \/ pfs'[f].st = "purged"
    BY <1>5 DEF PfDelete, BlankPf, TypeOK
  <2>2. fw' = removed
    BY <1>5 DEF PfDelete
  <2> HIDE DEF removed
  <2>3. RulesOwned'
    BY <1>1, <2>1, <2>2, RulesPurged
  <2>4. RowsPlaced'
    BY <1>0, <2>1 DEF RowsPlaced
  <2> QED BY <2>3, <2>4
<1> QED BY <1>3, <1>4, <1>5

\* Starts, the bootstrap and route changes.
LEMMA SystemForwards ==
    ASSUME TypeOK, RulesOwned, RowsPlaced, NEW F,
           System(F) \/ RouteChange \/ UNCHANGED vars
    PROVE  RulesOwned' /\ RowsPlaced'
<1>1. ASSUME UNCHANGED db,
             \A r \in fw' : r[1] \in PfKinds => r \in fw \/ RuleOwned(r)
      PROVE  RulesOwned' /\ RowsPlaced'
  BY <1>1, RulesStay, RowsStayPlaced DEF db
<1>2. ASSUME NEW reboot \in BOOLEAN, Start(F, reboot) PROVE RulesOwned' /\ RowsPlaced'
  BY <1>1, <1>2 DEF Start
<1>3. ASSUME NEW i \in Ifaces, BootReconcile(i, F) PROVE RulesOwned' /\ RowsPlaced'
  BY <1>1, <1>3, IfaceForwards DEF BootReconcile
<1>4. CASE BootForwards(F)
  <2> DEFINE S == {f \in Pfs : pfs[f].st = "active" /\ pfs[f].iface \in Wanted}
  <2>1. S \in SUBSET {f \in Pfs : pfs[f].st = "active"}
    OBVIOUS
  <2>2. fw' = Reapply(fw, S, F) /\ UNCHANGED db
    BY <1>4 DEF BootForwards
  <2> HIDE DEF S
  <2> QED BY <1>1, <2>1, <2>2, ReapplyOwned
<1>5. CASE RouteChange \/ UNCHANGED vars
  BY <1>1, <1>5 DEF RouteChange, vars, db
<1> QED BY <1>2, <1>3, <1>4, <1>5 DEF System

\* No forward rule is left without its row, and no forward without its interface
\* and its peer, for every number of them and with any calls failing but those
\* that remove forwards: through trash, restores and purges of either parent.
THEOREM NoForwardOrphaned ==
    ASSUME ForwardsRemoved
    PROVE  Spec => []NoOrphanForward
<1>1. Init => RulesOwned /\ RowsPlaced
  <2>1. BlankPf("none").st = "none"
    BY DEF BlankPf
  <2> QED BY <2>1 DEF Init, RulesOwned, RowsPlaced
<1>2. TypeOK /\ RulesOwned /\ RowsPlaced /\ [Next]_vars => RulesOwned' /\ RowsPlaced'
  <2> SUFFICES ASSUME TypeOK, RulesOwned, RowsPlaced, [Next]_vars
               PROVE  RulesOwned' /\ RowsPlaced'
    OBVIOUS
  <2>1. ASSUME NEW F \in FaultSets, System(F) PROVE RulesOwned' /\ RowsPlaced'
    BY <2>1, SystemForwards
  <2>2. ASSUME NEW F \in FaultSets, NEW u \in Users, Request(u, F)
        PROVE  RulesOwned' /\ RowsPlaced'
    BY <2>2, IfaceForwards, IfacePurgeForwards, PeerForwards, PfForwards
    DEF Request, IfaceSync
  <2> QED BY <2>1, <2>2, SystemForwards DEF Next
<1>3. RulesOwned /\ RowsPlaced => NoOrphanForward
  BY DEF RulesOwned, RowsPlaced, RuleOwned, NoOrphanForward
<1> QED BY <1>1, <1>2, <1>3, TypeCorrect, PTL DEF Spec

-----------------------------------------------------------------------------
(* Whose rows, devices and rules a request touches *)

\* Reconciling leaves a row's owner alone.
LEMMA ResolvedOwner ==
    ASSUME NEW i, NEW row \in Iface, NEW F
    PROVE  Resolved(i, row, F).owner = row.owner
  BY DEF Resolved, Iface

\* Rows that were inserted keep their owner, or their interface, while they are in
\* the table; once they have left it they never come back.
IfacesKept ==
    \A i \in Ifaces : ifaces[i].st # "none" =>
      /\ ifaces'[i].st # "none"
      /\ InTable(ifaces'[i]) => InTable(ifaces[i]) /\ ifaces'[i].owner = ifaces[i].owner
PeersKept ==
    \A p \in Peers : peers[p].st # "none" =>
      /\ peers'[p].st # "none"
      /\ InTable(peers'[p]) => InTable(peers[p]) /\ peers'[p].iface = peers[p].iface
PfsKept ==
    \A f \in Pfs : pfs'[f].st = "active" =>
      /\ pfs[f].st = "active" /\ pfs'[f].iface = pfs[f].iface
      /\ pfs'[f].peer = pfs[f].peer /\ pfs'[f].owner = pfs[f].owner

\* The interface handlers and the bootstrap keep the rows that were inserted.
LEMMA IfaceKeeps ==
    ASSUME TypeOK, NEW i \in Ifaces, NEW F, IfaceStep(i, F)
    PROVE  IfacesKept /\ PeersKept /\ PfsKept
<1>0. ifaces[i] \in Iface
  BY DEF TypeOK
<1>1. PfsKept
  <2>1. CASE UNCHANGED pfs
    BY <2>1 DEF PfsKept
  <2>2. ASSUME NEW u \in Users, IfacePurge(u, i, F)
        PROVE  \A f \in Pfs : pfs'[f] = pfs[f] \/ pfs'[f].st = "purged"
    BY <2>2 DEF IfacePurge, BlankPf
  <2>3. CASE \E u \in Users : IfacePurge(u, i, F)
    BY <2>2, <2>3 DEF PfsKept
  <2> QED BY <2>1, <2>3 DEF IfaceStep, IfaceCreate, IfaceUpdate, IfaceDelete,
                           IfaceRestore, Apply
<1>2. PeersKept
  <2>1. CASE UNCHANGED peers
    BY <2>1 DEF PeersKept
  <2>2. ASSUME NEW u \in Users, NEW p \in Peers,
               IfaceDelete(u, i, F) \/ IfaceRestore(u, i, F) \/ IfacePurge(u, i, F)
        PROVE  \/ peers'[p] = peers[p]
               \/ InTable(peers[p]) /\ \E st \in {"active", "trashed"} :
                                         peers'[p] = [peers[p] EXCEPT !.st = st]
               \/ peers'[p].st = "purged"
    <3>1. CASE IfaceDelete(u, i, F)
      BY <3>1 DEF IfaceDelete, InTable
    <3>2. CASE IfaceRestore(u, i, F)
      BY <3>2 DEF IfaceRestore, InTable
    <3>3. CASE IfacePurge(u, i, F)
      BY <3>3 DEF IfacePurge, BlankPeer
    <3> QED BY <2>2, <3>1, <3>2, <3>3
  <2>3. \A p \in Peers : peers[p] \in Peer
    BY DEF TypeOK
  <2>4. CASE \E u \in Users : \/ IfaceDelete(u, i, F) \/ IfaceRestore(u, i, F)
                              \/ IfacePurge(u, i, F)
    BY <2>2, <2>3, <2>4 DEF PeersKept, Peer, InTable
  <2> QED BY <2>1, <2>4 DEF IfaceStep, IfaceCreate, IfaceUpdate, Apply
<1>3. IfacesKept
  <2>1. \A j \in Ifaces \ {i} : ifaces'[j] = ifaces[j]
    BY DEF IfaceStep, IfaceCreate, IfaceUpdate, IfaceDelete, IfaceRestore, IfacePurge,
           Apply, TypeOK
  <2>2. \/ ifaces[i].st = "none"
        \/ ifaces'[i] = ifaces[i]
        \/ ifaces'[i].st = "purged"
        \/ InTable(ifaces[i]) /\ ifaces'[i].owner = ifaces[i].owner
             /\ ifaces'[i].st \in {"active", "trashed"}
    <3>1. ASSUME NEW u \in Users, IfaceCreate(u, i, F) PROVE ifaces[i].st = "none"
      BY <3>1 DEF IfaceCreate
    <3>2. ASSUME NEW u \in Users, IfaceUpdate(u, i, F)
          PROVE  \/ ifaces'[i] = ifaces[i]
                 \/ InTable(ifaces[i]) /\ ifaces'[i].owner = ifaces[i].owner
                      /\ ifaces'[i].st = "active"
      <4>1. PICK e \in Edits(i) :
              \/ UNCHANGED ifaces
              \/ ifaces' = [ifaces EXCEPT ![i] = Resolved(i, Edited(i, e), F)]
        BY <3>2 DEF IfaceUpdate
      <4>2. Edited(i, e) \in Iface /\ Edited(i, e).st = ifaces[i].st
            /\ Edited(i, e).owner = ifaces[i].owner
        BY <1>0, RowsTyped DEF Edited, Iface
      <4>3. Resolved(i, Edited(i, e), F).st = ifaces[i].st
            /\ Resolved(i, Edited(i, e), F).owner = ifaces[i].owner
        BY <4>2, ResolvedKeeps, ResolvedOwner
      <4>4. ifaces[i].st = "active"
        BY <3>2 DEF IfaceUpdate, Active
      <4> QED BY <4>1, <4>3, <4>4 DEF TypeOK, InTable
    <3>3. ASSUME NEW u \in Users, IfaceDelete(u, i, F)
          PROVE  \/ ifaces'[i] = ifaces[i]
                 \/ InTable(ifaces[i]) /\ ifaces'[i].owner = ifaces[i].owner
                      /\ ifaces'[i].st = "trashed"
      BY <1>0, <3>3 DEF IfaceDelete, TypeOK, Iface, InTable, Active
    <3>4. ASSUME NEW u \in Users, IfaceRestore(u, i, F)
          PROVE  InTable(ifaces[i]) /\ ifaces'[i].owner = ifaces[i].owner
                   /\ ifaces'[i].st = "active"
      <4> DEFINE row == [ifaces[i] EXCEPT !.st = "active"]
      <4>1. row \in Iface /\ row.st = "active" /\ row.owner = ifaces[i].owner
        BY <1>0 DEF Iface, RowState
      <4>2. Resolved(i, row, F).st = "active"
            /\ Resolved(i, row, F).owner = ifaces[i].owner
        <5> HIDE DEF row
        <5> QED BY <4>1, ResolvedKeeps, ResolvedOwner
      <4>3. ifaces' = [ifaces EXCEPT ![i] = row]
            \/ ifaces' = [ifaces EXCEPT ![i] = Resolved(i, row, F)]
        BY <3>4 DEF IfaceRestore
      <4>4. ifaces[i].st = "trashed"
        BY <3>4 DEF IfaceRestore
      <4> HIDE DEF row
      <4> QED BY <4>1, <4>2, <4>3, <4>4 DEF TypeOK, InTable
    <3>5. ASSUME NEW u \in Users, IfacePurge(u, i, F)
          PROVE  ifaces'[i] = ifaces[i] \/ ifaces'[i].st = "purged"
      BY <3>5 DEF IfacePurge, BlankIface, TypeOK
    <3>6. ASSUME Active(i), Apply(i, F)
          PROVE  InTable(ifaces[i]) /\ ifaces'[i].owner = ifaces[i].owner
                   /\ ifaces'[i].st = "active"
      <4>1. ifaces'[i] = Resolved(i, ifaces[i], F) /\ ifaces[i].st = "active"
        BY <3>6 DEF Apply, TypeOK, Active
      <4> QED BY <1>0, <4>1, ResolvedKeeps, ResolvedOwner DEF InTable
    <3> QED BY <3>1, <3>2, <3>3, <3>4, <3>5, <3>6 DEF IfaceStep
  <2> QED BY <2>1, <2>2 DEF IfacesKept, InTable
<1> QED BY <1>1, <1>2, <1>3

\* So do the peer handlers, the forward handlers but for the insert, and the rest.
LEMMA PeerKeeps ==
    ASSUME TypeOK, NEW u \in Users, NEW p \in Peers, NEW F,
           \/ \E i \in Ifaces : PeerCreate(u, i, p, F)
           \/ PeerUpdate(u, p, F)    \/ PeerDelete(u, p, F)
           \/ PeerRestore(u, p, F)   \/ PeerPurge(u, p, F)
    PROVE  IfacesKept /\ PeersKept /\ PfsKept
<1>0. peers[p] \in Peer
  BY DEF TypeOK
<1>1. IfacesKept
  BY DEF PeerCreate, PeerUpdate, PeerDelete, PeerRestore, PeerPurge, IfacesKept
<1>2. PfsKept
  <2>1. \A f \in Pfs : pfs'[f] = pfs[f] \/ pfs'[f].st = "purged"
    <3>1. CASE PeerPurge(u, p, F)
      BY <3>1 DEF PeerPurge, BlankPf
    <3>2. CASE ~PeerPurge(u, p, F)
      <4>1. UNCHANGED pfs
        BY <3>2 DEF PeerCreate, PeerUpdate, PeerDelete, PeerRestore
      <4> QED BY <4>1
    <3> QED BY <3>1, <3>2
  <2> QED BY <2>1 DEF PfsKept
<1>3. \A q \in Peers \ {p} : peers'[q] = peers[q]
  BY DEF PeerCreate, PeerUpdate, PeerDelete, PeerRestore, PeerPurge, TypeOK
<1>4. \/ peers[p].st = "none"
      \/ peers'[p] = peers[p]
      \/ peers'[p].st = "purged"
      \/ InTable(peers[p]) /\ peers'[p].iface = peers[p].iface
           /\ peers'[p].st \in {"active", "trashed"}
  <2>1. CASE \E i \in Ifaces : PeerCreate(u, i, p, F)
    BY <2>1 DEF PeerCreate
  <2>2. CASE PeerUpdate(u, p, F)
    BY <1>0, <2>2 DEF PeerUpdate, TypeOK, Peer, InTable
  <2>3. CASE PeerDelete(u, p, F)
    <3>1. UNCHANGED peers \/ peers' = [peers EXCEPT ![p].st = "trashed"]
      BY <2>3 DEF PeerDelete
    <3>2. peers[p].st = "active"
      BY <2>3 DEF PeerDelete
    <3> QED BY <1>0, <3>1, <3>2 DEF TypeOK, Peer, InTable
  <2>4. CASE PeerRestore(u, p, F)
    BY <1>0, <2>4 DEF PeerRestore, TypeOK, Peer, InTable
  <2>5. CASE PeerPurge(u, p, F)
    <3>1. UNCHANGED peers \/ peers' = [peers EXCEPT ![p] = BlankPeer("purged")]
      BY <2>5 DEF PeerPurge
    <3> QED BY <1>0, <3>1 DEF BlankPeer, TypeOK
  <2> QED BY <2>1, <2>2, <2>3, <2>4, <2>5
<1>5. PeersKept
  BY <1>3, <1>4 DEF PeersKept, InTable
<1> QED BY <1>1, <1>2, <1>5

\* What a forward in the table always has: parents that were inserted, of which the
\* interface belongs to whoever created the forward or to somebody a super admin
\* served, as long as they are in the table.
ForwardsFit ==
    \A f \in Pfs : pfs[f].st = "active" =>
      /\ peers[pfs[f].peer].st # "none" /\ ifaces[pfs[f].iface].st # "none"
      /\ InTable(peers[pfs[f].peer]) => peers[pfs[f].peer].iface = pfs[f].iface
      /\ InTable(ifaces[pfs[f].iface]) =>
           pfs[f].owner \in SuperAdmins \union {ifaces[pfs[f].iface].owner}

\* A step that keeps rows keeps forwards fitting.
LEMMA FitKept ==
    ASSUME TypeOK, ForwardsFit, IfacesKept, PeersKept, PfsKept
    PROVE  ForwardsFit'
<1> SUFFICES ASSUME NEW f \in Pfs, pfs'[f].st = "active"
             PROVE  /\ peers'[pfs'[f].peer].st # "none" /\ ifaces'[pfs'[f].iface].st # "none"
                    /\ InTable(peers'[pfs'[f].peer]) =>
                         peers'[pfs'[f].peer].iface = pfs'[f].iface
                    /\ InTable(ifaces'[pfs'[f].iface]) =>
                         pfs'[f].owner \in SuperAdmins \union {ifaces'[pfs'[f].iface].owner}
  BY DEF ForwardsFit
<1>1. /\ pfs[f].st = "active" /\ pfs'[f].iface = pfs[f].iface
      /\ pfs'[f].peer = pfs[f].peer /\ pfs'[f].owner = pfs[f].owner
      /\ pfs[f].iface \in Ifaces /\ pfs[f].peer \in Peers
  BY DEF PfsKept, TypeOK, Pf
<1> QED BY <1>1 DEF ForwardsFit, IfacesKept, PeersKept

\* Every step keeps forwards fitting, whatever fails.
LEMMA FitStep ==
    ASSUME TypeOK, ForwardsFit, [Next]_vars
    PROVE  ForwardsFit'
<1>1. CASE UNCHANGED db
  BY <1>1 DEF db, ForwardsFit
<1>2. ASSUME NEW i \in Ifaces, NEW F, IfaceStep(i, F) PROVE ForwardsFit'
  BY <1>2, IfaceKeeps, FitKept
<1>3. ASSUME NEW u \in Users, NEW p \in Peers, NEW f \in Pfs, NEW F, PfCreate(u, p, f, F)
      PROVE  ForwardsFit'
  <2>1. PICK pub \in PortChoices.public, tport \in PortChoices.target :
          /\ peers[p].st = "active"
          /\ Active(peers[p].iface) /\ Owns(u, ifaces[peers[p].iface].owner)
          /\ pfs' = [pfs EXCEPT ![f] =
                       [st |-> "active", iface |-> peers[p].iface, peer |-> p,
                        on |-> TRUE, pub |-> pub, tport |-> tport, owner |-> u]]
    BY <1>3 DEF PfCreate
  <2>2. /\ \A g \in Pfs \ {f} : pfs'[g] = pfs[g]
        /\ pfs'[f].iface = peers[p].iface /\ pfs'[f].peer = p /\ pfs'[f].owner = u
    BY <2>1 DEF TypeOK
  <2>3. UNCHANGED <<ifaces, peers>>
    BY <1>3 DEF PfCreate
  <2> QED BY <2>1, <2>2, <2>3 DEF ForwardsFit, Owns, Active
<1>4. ASSUME NEW u \in Users, NEW f \in Pfs, NEW F, PfUpdate(u, f, F) \/ PfDelete(u, f, F)
      PROVE  ForwardsFit'
  <2>1. UNCHANGED <<ifaces, peers>>
    BY <1>4 DEF PfUpdate, PfDelete
  <2>2. PfsKept
    <3>0. pfs[f] \in Pf
      BY DEF TypeOK
    <3>1. CASE PfUpdate(u, f, F)
      <4>1. \/ UNCHANGED pfs
            \/ \E t, on : pfs' = [pfs EXCEPT ![f].tport = t, ![f].on = on]
        BY <3>1 DEF PfUpdate
      <4>2. pfs[f].st = "active"
        BY <3>1 DEF PfUpdate
      <4>3. /\ \A g \in Pfs \ {f} : pfs'[g] = pfs[g]
            /\ pfs'[f].iface = pfs[f].iface
            /\ pfs'[f].peer = pfs[f].peer /\ pfs'[f].owner = pfs[f].owner
        <5>1. CASE UNCHANGED pfs
          BY <5>1
        <5>2. CASE \E t, on : pfs' = [pfs EXCEPT ![f].tport = t, ![f].on = on]
          <6>1. PICK t, on : pfs' = [pfs EXCEPT ![f].tport = t, ![f].on = on]
            BY <5>2
          <6>2. PICK row : row = [pfs[f] EXCEPT !.tport = t, !.on = on]
            OBVIOUS
          <6>3. pfs'[f] = row /\ \A g \in Pfs \ {f} : pfs'[g] = pfs[g]
            BY <6>1, <6>2 DEF TypeOK
          <6>4. row.iface = pfs[f].iface /\ row.peer = pfs[f].peer /\ row.owner = pfs[f].owner
            BY <3>0, <6>2 DEF Pf
          <6> QED BY <6>3, <6>4
        <5> QED BY <4>1, <5>1, <5>2
      <4> QED BY <4>2, <4>3 DEF PfsKept
    <3>2. CASE PfDelete(u, f, F)
      <4>1. \/ UNCHANGED pfs
            \/ pfs' = [pfs EXCEPT ![f] = BlankPf("purged")]
        BY <3>2 DEF PfDelete
      <4> QED BY <4>1 DEF PfsKept, TypeOK, BlankPf
    <3> QED BY <1>4, <3>1, <3>2
  <2> QED BY <2>1, <2>2, FitKept DEF IfacesKept, PeersKept
<1>5. ASSUME NEW F, System(F) PROVE ForwardsFit'
  BY <1>1, <1>2, <1>5 DEF System, Start, BootForwards, BootReconcile, IfaceStep
<1>6. ASSUME NEW u \in Users, NEW F, Request(u, F) PROVE ForwardsFit'
  BY <1>2, <1>3, <1>4, <1>6, PeerKeeps, FitKept DEF Request, IfaceStep, IfaceSync
<1>7. CASE RouteChange \/ UNCHANGED vars
  BY <1>1, <1>7 DEF RouteChange, vars, db
<1> QED BY <1>5, <1>6, <1>7 DEF Next

\* What OwnerIsolation promises about one interface.
Untouched(j) ==
    /\ ifaces'[j] = ifaces[j]
    /\ \A p \in Peers : InTable(peers[p]) /\ peers[p].iface = j => peers'[p] = peers[p]
    /\ \A f \in Forwards(j) : pfs'[f] = pfs[f]
    /\ dev'[NameOf[j]] = dev[NameOf[j]]
    /\ fw' \intersect RulesServing(j) = fw \intersect RulesServing(j)

\* Rules of different forwards are different rules.
LEMMA ForwardRulesApart ==
    ASSUME NEW S, NEW T, S \intersect T = {}
    PROVE  RulesOf(S) \intersect RulesOf(T) = {}
<1> SUFFICES ASSUME NEW r \in RulesOf(S), r \in RulesOf(T) PROVE FALSE
  OBVIOUS
<1>1. \E f \in S : r \in PfRules(f, pfs[f].tport)
  BY DEF RulesOf
<1>2. \E f \in T : r \in PfRules(f, pfs[f].tport)
  BY DEF RulesOf
<1>3. r[2] \in S /\ r[2] \in T
  BY <1>1, <1>2, RuleKinds
<1> QED BY <1>3

\* Re-applying and removing forwards touches only their own rules.
LEMMA ForwardCallsFrame ==
    ASSUME NEW S, NEW T, S \intersect T = {}, NEW F, NEW rules, NEW r \in RulesOf(T)
    PROVE  /\ r \in Reapply(rules, S, F) <=> r \in rules
           /\ r \in Unapply(rules, S, F) <=> r \in rules
<1>1. /\ Found(Enabled(S), F) \intersect T = {} /\ Found(S, F) \intersect T = {}
  BY DEF Found, Enabled
<1>2. r \notin RulesOf(Found(Enabled(S), F)) /\ r \notin RulesOf(Found(S, F))
  BY <1>1, ForwardRulesApart
<1> QED BY <1>2 DEF Reapply, Unapply, EnsureRules, DeleteRules

\* A step on an interface touches the rules of its own forwards only.
LEMMA ForwardFrame ==
    ASSUME NEW i \in Ifaces, NEW F, IfaceStep(i, F),
           NEW T, Forwards(i) \intersect T = {}, NEW r \in RulesOf(T)
    PROVE  r \in fw' <=> r \in fw
<1> DEFINE S == Forwards(i)
<1>0. r[1] \in PfKinds
  BY RuleKinds
<1>9. S \intersect T = {}
  OBVIOUS
<1> HIDE DEF S
<1>1. \A rules : /\ r \in Reapply(rules, S, F) <=> r \in rules
                 /\ r \in Unapply(rules, S, F) <=> r \in rules
  BY <1>9, ForwardCallsFrame
<1>2. /\ \A stuck : r \in TornDown(i, stuck) <=> r \in fw
      /\ r \in CutOff(i, F) <=> r \in fw
  <2>1. \A rules, G, n, a, e : r \in TeardownNAT(rules, n, a, e, wan, G) <=> r \in rules
    BY <1>0, NatCallsKeepPf, Zenon
  <2>2. \A stuck : r \in TornDown(i, stuck) <=> r \in fw
    BY <2>1 DEF TornDown
  <2>3. r \in CutOff(i, F) <=> r \in fw
    BY <1>1, <2>1 DEF CutOff, S
  <2> QED BY <2>2, <2>3
<1>3. \A row : /\ r \in ReconcileFw(fw, i, row, F) <=> r \in fw
               /\ \A stuck : r \in ReconcileFw(TornDown(i, stuck), i, row, F) <=> r \in fw
  BY <1>0, <1>2, NatCallsKeepPf
<1>4. ASSUME NEW u \in Users, IfaceUpdate(u, i, F) PROVE r \in fw' <=> r \in fw
  <2>1. PICK row, stuck :
                   LET applied == ReconcileFw(TornDown(i, stuck), i, row, F)
                   IN  \/ fw' = TornDown(i, stuck)
                       \/ fw' = applied
                       \/ fw' = Reapply(applied, S, F)
                       \/ fw' = Unapply(applied, S, F)
    BY <1>4 DEF IfaceUpdate, S
  <2> QED BY <1>1, <1>2, <1>3, <2>1
<1>5. ASSUME NEW u \in Users, IfaceRestore(u, i, F) PROVE r \in fw' <=> r \in fw
  <2> DEFINE applied == ReconcileFw(fw, i, [ifaces[i] EXCEPT !.st = "active"], F)
  <2>1. fw' = fw \/ fw' = applied \/ fw' = Reapply(applied, S, F)
    BY <1>5 DEF IfaceRestore, S
  <2>2. r \in applied <=> r \in fw
    BY <1>3
  <2> HIDE DEF applied
  <2> QED BY <1>1, <2>1, <2>2
<1>6. ASSUME NEW u \in Users, IfaceCreate(u, i, F) PROVE r \in fw' <=> r \in fw
  BY <1>3, <1>6 DEF IfaceCreate
<1>7. ASSUME NEW u \in Users, IfaceDelete(u, i, F) \/ IfacePurge(u, i, F)
      PROVE  r \in fw' <=> r \in fw
  BY <1>2, <1>7 DEF IfaceDelete, IfacePurge
<1>8. CASE Apply(i, F)
  BY <1>3, <1>8 DEF Apply
<1> QED BY <1>4, <1>5, <1>6, <1>7, <1>8 DEF IfaceStep

\* A step on one interface leaves everything of every other interface alone.
LEMMA ForeignIface ==
    ASSUME SubnetsApart, IInv, RowsChosen, NEW i \in Ifaces, NEW F, IfaceStep(i, F),
           NEW j \in Ifaces \ {i}, InTable(ifaces[j])
    PROVE  Untouched(j)
<1> USE DEF IInv
<1> DEFINE S == Forwards(i)
           T == Forwards(j)
<1>0. NameOf[j] # NameOf[i] /\ S \intersect T = {}
  BY StepNames DEF Forwards
<1>1. ifaces'[j] = ifaces[j]
  BY IfaceEffect
<1>2. \A p \in Peers : peers[p].iface = j => peers'[p] = peers[p]
  BY DEF IfaceStep, IfaceCreate, IfaceUpdate, IfaceDelete, IfaceRestore, IfacePurge, Apply
<1>3. \A f \in T : pfs'[f] = pfs[f]
  <2>1. \A f \in T : f \in Pfs /\ f \notin S /\ f \notin Found(S, F)
    BY DEF Forwards, Found
  <2>2. ASSUME NEW u \in Users, IfacePurge(u, i, F) PROVE \A f \in T : pfs'[f] = pfs[f]
    BY <2>1, <2>2 DEF IfacePurge
  <2>3. UNCHANGED pfs \/ \E u \in Users : IfacePurge(u, i, F)
    BY DEF IfaceStep, IfaceCreate, IfaceUpdate, IfaceDelete, IfaceRestore, Apply
  <2> QED BY <2>2, <2>3
<1>4. dev'[NameOf[j]] = dev[NameOf[j]]
  <2>1. dev' = dev \/ \E d : dev' = [dev EXCEPT ![NameOf[i]] = d]
    BY DEF IfaceStep, IfaceCreate, IfaceUpdate, IfaceDelete, IfaceRestore, IfacePurge, Apply
  <2>2. NameOf[j] \in Names
    BY HostAssumption DEF HostAssumption
  <2> QED BY <1>0, <2>1, <2>2 DEF TypeOK
<1>5. \A r \in NatOf(j) : r \in fw' <=> r \in fw
  BY NatFrame
<1>6. \A r \in RulesOf(T) : r \in fw' <=> r \in fw
  <2> HIDE DEF T
  <2> QED BY <1>0, ForwardFrame
<1>7. fw' \intersect RulesServing(j) = fw \intersect RulesServing(j)
  BY <1>5, <1>6 DEF RulesServing
<1> QED BY <1>1, <1>2, <1>3, <1>4, <1>7 DEF Untouched

\* A request about a peer that is not of an interface leaves that interface alone.
LEMMA ForeignPeer ==
    ASSUME IInv, ForwardsFit, NEW j \in Ifaces, InTable(ifaces[j]),
           NEW u \in Users, ~Owns(u, ifaces[j].owner), NEW p \in Peers, NEW F,
           \/ \E i \in Ifaces : PeerCreate(u, i, p, F)
           \/ PeerUpdate(u, p, F)    \/ PeerDelete(u, p, F)
           \/ PeerRestore(u, p, F)   \/ PeerPurge(u, p, F)
    PROVE  Untouched(j)
<1> USE DEF IInv
<1> DEFINE S == ForwardsTo(p)
           T == Forwards(j)
<1>0. peers[p] \in Peer /\ peers[p].iface \in Ifaces
  BY DEF TypeOK, Peer
<1>1. CASE \E i \in Ifaces : PeerCreate(u, i, p, F)
  <2>1. PICK i \in Ifaces :
          /\ Active(i) /\ Owns(u, ifaces[i].owner) /\ peers[p].st = "none"
          /\ \E x : peers' = [peers EXCEPT ![p] = x]
          /\ SyncPeer(i, p, TRUE, F)
          /\ UNCHANGED <<ifaces, pfs, fw>>
    BY <1>1 DEF PeerCreate
  <2>2. i # j /\ NameOf[i] # NameOf[j]
    BY <2>1 DEF UniqueNames, InTable, Active
  <2>3. dev'[NameOf[j]] = dev[NameOf[j]]
    BY <2>1, <2>2, HostAssumption DEF HostAssumption, SyncPeer, TypeOK
  <2>4. \A q \in Peers : InTable(peers[q]) => peers'[q] = peers[q]
    BY <2>1 DEF TypeOK, InTable
  <2> QED BY <2>1, <2>3, <2>4 DEF Untouched
<1>2. CASE ~\E i \in Ifaces : PeerCreate(u, i, p, F)
  <2> DEFINE m == peers[p].iface
  <2>1. InTable(peers[p]) /\ MayActOn(u, p)
    BY <1>2 DEF PeerUpdate, PeerDelete, PeerRestore, PeerPurge, InTable
  <2>2. m # j /\ InTable(ifaces[m])
    BY <2>1 DEF MayActOn, PeersUnderInterface
  <2>3. NameOf[m] # NameOf[j]
    BY <1>0, <2>2 DEF UniqueNames
  <2>4. S \intersect T = {}
    BY <2>1, <2>2 DEF ForwardsFit, ForwardsTo, Forwards
  <2>5. /\ UNCHANGED ifaces
        /\ \A q \in Peers \ {p} : peers'[q] = peers[q]
        /\ dev' = dev \/ \E d : dev' = [dev EXCEPT ![NameOf[m]] = d]
    BY <1>2 DEF PeerUpdate, PeerDelete, PeerRestore, PeerPurge, SyncPeer, TypeOK
  <2>6. dev'[NameOf[j]] = dev[NameOf[j]]
    BY <2>3, <2>5, HostAssumption DEF HostAssumption, TypeOK
  <2>7. \A f \in T : pfs'[f] = pfs[f]
    <3>1. CASE PeerPurge(u, p, F)
      <4>1. \A f \in T : f \in Pfs /\ f \notin Found(S, F)
        BY <2>4 DEF Forwards, Found
      <4> HIDE DEF T
      <4> QED BY <3>1, <4>1 DEF PeerPurge
    <3>2. CASE ~PeerPurge(u, p, F)
      BY <1>2, <3>2 DEF PeerUpdate, PeerDelete, PeerRestore
    <3> QED BY <3>1, <3>2
  <2>8. fw' = fw \/ fw' = Unapply(fw, S, F) \/ fw' = Reapply(fw, S, F)
    BY <1>2 DEF PeerUpdate, PeerDelete, PeerRestore, PeerPurge
  <2> HIDE DEF S, T
  <2>9. \A r \in RulesOf(T) : r \in fw' <=> r \in fw
    BY <2>4, <2>8, ForwardCallsFrame
  <2>10. \A r \in NatOf(j) : r[1] \in NatKinds
    BY RuleKinds DEF NatOf
  <2>11. \A r \in NatOf(j) : r \in fw' <=> r \in fw
    BY <2>8, <2>10, PfCallsKeepNat
  <2>12. \A q \in Peers : peers[q].iface = j => peers'[q] = peers[q]
    BY <2>2, <2>5
  <2>13. fw' \intersect RulesServing(j) = fw \intersect RulesServing(j)
    BY <2>9, <2>11 DEF RulesServing, T
  <2> QED BY <2>5, <2>6, <2>7, <2>12, <2>13 DEF Untouched, T
<1> QED BY <1>1, <1>2

\* A request about a forward that is not of an interface leaves that interface
\* alone, and nobody but the owner and super admins has a forward of it.
LEMMA ForeignForward ==
    ASSUME TypeOK, ForwardsFit, NEW j \in Ifaces, InTable(ifaces[j]),
           NEW u \in Users, ~Owns(u, ifaces[j].owner), NEW f \in Pfs, NEW F,
           \/ \E p \in Peers : PfCreate(u, p, f, F)
           \/ PfUpdate(u, f, F)
           \/ PfDelete(u, f, F)
    PROVE  Untouched(j)
<1>1. f \notin Forwards(j)
  <2>1. CASE \E p \in Peers : PfCreate(u, p, f, F)
    BY <2>1 DEF PfCreate, Forwards
  <2>2. CASE PfUpdate(u, f, F) \/ PfDelete(u, f, F)
    <3>1. Owns(u, pfs[f].owner)
      BY <2>2 DEF PfUpdate, PfDelete
    <3>2. f \in Forwards(j) => pfs[f].owner \in SuperAdmins \union {ifaces[j].owner}
      BY DEF ForwardsFit, Forwards
    <3> QED BY <3>1, <3>2 DEF Owns
  <2> QED BY <2>1, <2>2
<1>2. /\ UNCHANGED <<ifaces, peers, dev>>
      /\ \A g \in Pfs \ {f} : pfs'[g] = pfs[g]
  <2>1. UNCHANGED pfs \/ \E x : pfs' = [pfs EXCEPT ![f] = x]
                      \/ \E t, on : pfs' = [pfs EXCEPT ![f].tport = t, ![f].on = on]
    BY DEF PfCreate, PfUpdate, PfDelete
  <2>2. UNCHANGED <<ifaces, peers, dev>>
    BY DEF PfCreate, PfUpdate, PfDelete
  <2> QED BY <2>1, <2>2 DEF TypeOK
<1>3. \A r : r \in fw' => r \in fw \/ \E t : r \in PfRules(f, t)
  BY DEF PfCreate, PfUpdate, PfDelete, EnsureRules, DeleteRules
<1>4. \A r : r \in fw => r \in fw' \/ \E t : r \in PfRules(f, t)
  BY DEF PfCreate, PfUpdate, PfDelete, EnsureRules, DeleteRules
<1>5. ASSUME NEW r \in RulesServing(j), NEW t PROVE r \notin PfRules(f, t)
  <2>1. CASE r \in NatOf(j)
    BY <2>1, RuleKinds DEF NatOf
  <2>2. CASE r \in RulesOf(Forwards(j))
    <3>1. PICK g \in Forwards(j) : r \in PfRules(g, pfs[g].tport)
      BY <2>2 DEF RulesOf
    <3> QED BY <1>1, <3>1, RuleKinds
  <2> QED BY <2>1, <2>2 DEF RulesServing
<1>6. fw' \intersect RulesServing(j) = fw \intersect RulesServing(j)
  BY <1>3, <1>4, <1>5
<1> QED BY <1>1, <1>2, <1>6 DEF Untouched, Forwards

\* The history variable only watches.
LEMMA HistoryWatches == HSpec => Spec
<1>1. HInit => Init
  BY DEF HInit
<1>2. [HNext]_hvars => [Next]_vars
  BY DEF HNext, Next, hvars
<1> QED BY <1>1, <1>2, PTL DEF HSpec, Spec

\* Whatever an ordinary user asks for, and whatever fails on the way, an interface
\* somebody else owns keeps its row, its peers, its forwards, its device and its
\* firewall rules, as long as interfaces do not share a subnet.
THEOREM OwnersAreIsolated ==
    ASSUME SubnetsApart
    PROVE  HSpec => OwnerIsolation
<1> DEFINE A == \A i \in Ifaces :
         /\ InTable(ifaces[i])
         /\ by' \intersect (SuperAdmins \union {ifaces[i].owner}) = {} /\ by' # {}
         => /\ ifaces'[i] = ifaces[i]
            /\ \A p \in Peers : InTable(peers[p]) /\ peers[p].iface = i =>
                 peers'[p] = peers[p]
            /\ \A f \in Forwards(i) : pfs'[f] = pfs[f]
            /\ dev'[NameOf[i]] = dev[NameOf[i]]
            /\ fw' \intersect RulesServing(i) = fw \intersect RulesServing(i)
<1>1. Init => RowsChosen /\ ForwardsFit
  <2>1. BlankPf("none").st = "none" /\ BlankIface("none").st = "none"
    BY DEF BlankPf, BlankIface
  <2>2. Init => RowsChosen
    BY <2>1 DEF Init, RowsChosen, Chosen, InTable
  <2>3. Init => ForwardsFit
    BY <2>1 DEF Init, ForwardsFit
  <2> QED BY <2>2, <2>3
<1>2. TypeOK /\ RowsChosen /\ ForwardsFit /\ [Next]_vars => RowsChosen' /\ ForwardsFit'
  BY RowsChosenStep, FitStep
<1>3. IInv /\ RowsChosen /\ ForwardsFit /\ [HNext]_hvars => [A]_hvars
  <2> SUFFICES ASSUME IInv, RowsChosen, ForwardsFit, HNext,
                      NEW j \in Ifaces, InTable(ifaces[j]),
                      by' \intersect (SuperAdmins \union {ifaces[j].owner}) = {},
                      by' # {}
               PROVE  Untouched(j)
    BY DEF Untouched
  <2>1. PICK F \in FaultSets, u \in Users : Request(u, F) /\ by' = {u}
    BY DEF HNext
  <2>2. ~Owns(u, ifaces[j].owner)
    BY <2>1 DEF Owns
  <2>3. ASSUME NEW i \in Ifaces,
               \/ IfaceCreate(u, i, F)  \/ IfaceUpdate(u, i, F)
               \/ IfaceDelete(u, i, F)  \/ IfaceRestore(u, i, F)
               \/ IfacePurge(u, i, F)   \/ IfaceSync(u, i, F)
        PROVE  Untouched(j)
    <3>1. i # j
      BY <2>2, <2>3 DEF IfaceCreate, IfaceUpdate, IfaceDelete, IfaceRestore, IfacePurge,
                        IfaceSync, InTable
    <3>2. IfaceStep(i, F)
      BY <2>3 DEF IfaceStep, IfaceSync
    <3> QED BY <3>1, <3>2, ForeignIface
  <2>4. ASSUME NEW f \in Pfs, \/ \E p \in Peers : PfCreate(u, p, f, F)
                              \/ PfUpdate(u, f, F) \/ PfDelete(u, f, F)
        PROVE  Untouched(j)
    BY <2>2, <2>4, ForeignForward DEF IInv
  <2> QED BY <2>1, <2>2, <2>3, <2>4, ForeignPeer DEF Request
<1>4. HSpec => [][A]_hvars
  BY <1>1, <1>2, <1>3, HistoryWatches, InvariantHolds, TypeCorrect, PTL DEF HSpec, Spec
<1> QED BY <1>4 DEF OwnerIsolation

-----------------------------------------------------------------------------
(* Enabled forwards have their rules *)

\* Hypothesis: only the deletion of rules and of a parent's forwards may fail.  A
\* failed statement or call anywhere else leaves forwards without rules, as it does
\* in the code: rules are removed before the row is saved, and installed after an
\* apply that worked.
ForwardsCanBeInstalled ==
    \A F \in FaultSets :
      F.host = {} /\ F.add = {} /\ F.db \subseteq {"pfrow", "reserved"}

\* Hypothesis: a masqueraded interface names its egress, so that no missing default
\* route makes its apply fail.
UplinkNamed == NoLink \notin EgressChoices \/ TRUE \notin MasqChoices

RowsNamed ==
    \A i \in Ifaces : InTable(ifaces[i]) /\ ifaces[i].masq => ifaces[i].egress # NoLink

\* The forward asks for its rules.
Due(f) ==
    /\ pfs[f].st = "active" /\ pfs[f].on
    /\ pfs[f].iface \in Wanted
    /\ peers[pfs[f].peer].st = "active"

\* Under the hypotheses a full apply works,
LEMMA ReconcileWorks ==
    ASSUME ForwardsCanBeInstalled, NEW F \in FaultSets, NEW i,
           NEW row, row.masq => row.egress # NoLink
    PROVE  ReconcileOK(i, row, F)
<1>1. F.host = {} /\ F.add = {} /\ "load" \notin F.db
  BY DEF ForwardsCanBeInstalled
<1>2. Configured(i, F) /\ RemoveLinkOK(dev[NameOf[i]], F)
  BY <1>1 DEF Configured, LinkOK, RemoveLinkOK
<1>3. \A rules : EnsureRulesOK(rules, F)
  BY <1>1 DEF EnsureRulesOK
<1>4. row.masq => SetupNATOK(NameOf[i], row.addr, row.egress, wan, F)
  BY <1>3 DEF SetupNATOK, Egress
<1> QED BY <1>1, <1>2, <1>4 DEF ReconcileOK

\* and re-applying forwards installs all their rules.
LEMMA ReapplyWorks ==
    ASSUME ForwardsCanBeInstalled, NEW F \in FaultSets, NEW rules, NEW S,
           NEW f \in S, pfs[f].on
    PROVE  RulesOf({f}) \subseteq Reapply(rules, S, F)
<1>1. Found(Enabled(S), F) = Enabled(S) /\ F.host = {} /\ F.add = {}
  BY DEF ForwardsCanBeInstalled, Found
<1>2. RulesOf({f}) \subseteq RulesOf(Enabled(S))
  BY DEF RulesOf, Enabled
<1> QED BY <1>1, <1>2 DEF Reapply, EnsureRules

\* What a step has to show of each forward.
LEMMA DueServed ==
    ASSUME ForwardsInstalled, pfTodo => pfTodo',
           \A f \in Pfs : Due(f)' =>
             \/ RulesOf({f})' \subseteq fw'
             \/ /\ Due(f) /\ pfs'[f] = pfs[f]
                /\ \A r \in RulesOf({f}) : r \in fw => r \in fw'
    PROVE  ForwardsInstalled'
<1> SUFFICES ASSUME ~pfTodo', NEW f \in Pfs, Due(f)'
             PROVE  RulesOf({f})' \subseteq fw'
  BY DEF ForwardsInstalled, Due
<1>1. Due(f) => RulesOf({f}) \subseteq fw
  BY DEF ForwardsInstalled, Due
<1>2. pfs'[f] = pfs[f] => RulesOf({f})' = RulesOf({f})
  BY DEF RulesOf
<1> QED BY <1>1, <1>2

\* An edited row of a masqueraded interface names its egress.
LEMMA EditsNamed ==
    ASSUME UplinkNamed, TypeOK, NEW i \in Ifaces, NEW e \in Edits(i)
    PROVE  Edited(i, e) \in Iface /\ (Edited(i, e).masq => Edited(i, e).egress # NoLink)
<1>1. e.masq \in MasqChoices /\ e.egress \in EgressChoices /\ e.masq \in BOOLEAN
  BY PanelAssumption DEF PanelAssumption, Edits
<1>2. /\ Edited(i, e) \in Iface
      /\ Edited(i, e).masq = e.masq /\ Edited(i, e).egress = e.egress
  <2>1. ifaces[i] \in Iface
    BY DEF TypeOK
  <2> QED BY <2>1, RowsTyped, PanelAssumption DEF PanelAssumption, Edited, Iface
<1> QED BY <1>1, <1>2 DEF UplinkNamed

\* Rows of masqueraded interfaces keep naming their egress.
LEMMA RowsNamedStep ==
    ASSUME UplinkNamed, TypeOK, RowsNamed, [Next]_vars
    PROVE  RowsNamed'
<1>1. ASSUME NEW i \in Ifaces, NEW row \in Iface, NEW F,
             row.masq => row.egress # NoLink, ifaces' = [ifaces EXCEPT ![i] = Resolved(i, row, F)]
      PROVE  RowsNamed'
  <2>1. Resolved(i, row, F).masq => Resolved(i, row, F).egress # NoLink
    BY <1>1, ResolvedChosen, ResolvedKeeps
  <2> QED BY <1>1, <2>1 DEF RowsNamed, TypeOK
<1>2. CASE UNCHANGED ifaces
  BY <1>2 DEF RowsNamed
<1>3. ASSUME NEW u \in Users, NEW i \in Ifaces, NEW F, IfaceCreate(u, i, F)
      PROVE  RowsNamed'
  <2>1. PICK row \in NewIface(u, i) : ifaces' = [ifaces EXCEPT ![i] = Resolved(i, row, F)]
    BY <1>3 DEF IfaceCreate
  <2>2. row \in Iface /\ (row.masq => row.egress # NoLink)
    <3>1. PICK a \in AddrChoices[i], m \in MasqChoices, e \in EgressChoices,
               p \in PortChoices.listen :
            row = [st |-> "active", on |-> TRUE, addr |-> a, masq |-> m,
                   egress |-> e, port |-> p, owner |-> u]
      BY <2>1 DEF NewIface
    <3>2. m \in BOOLEAN /\ row.masq = m /\ row.egress = e
      BY <3>1, PanelAssumption DEF PanelAssumption
    <3> QED BY <2>1, <3>2, RowsTyped DEF UplinkNamed
  <2> QED BY <1>1, <2>1, <2>2
<1>4. ASSUME NEW u \in Users, NEW i \in Ifaces, NEW F, IfaceUpdate(u, i, F)
      PROVE  RowsNamed'
  <2>1. PICK e \in Edits(i) :
          UNCHANGED ifaces \/ ifaces' = [ifaces EXCEPT ![i] = Resolved(i, Edited(i, e), F)]
    BY <1>4 DEF IfaceUpdate
  <2>2. Edited(i, e) \in Iface /\ (Edited(i, e).masq => Edited(i, e).egress # NoLink)
    BY EditsNamed
  <2> HIDE DEF Edited
  <2> QED BY <1>1, <1>2, <2>1, <2>2
<1>5. ASSUME NEW u \in Users, NEW i \in Ifaces, NEW F,
             IfaceDelete(u, i, F) \/ IfacePurge(u, i, F)
      PROVE  RowsNamed'
  <2>1. \/ UNCHANGED ifaces
        \/ ifaces' = [ifaces EXCEPT ![i].st = "trashed"] /\ ifaces[i].st = "active"
        \/ ifaces' = [ifaces EXCEPT ![i] = BlankIface("purged")]
    BY <1>5 DEF IfaceDelete, IfacePurge, Active
  <2> QED BY <2>1 DEF RowsNamed, BlankIface, InTable, TypeOK, Iface
<1>6. ASSUME NEW u \in Users, NEW i \in Ifaces, NEW F, IfaceRestore(u, i, F)
      PROVE  RowsNamed'
  <2> DEFINE row == [ifaces[i] EXCEPT !.st = "active"]
  <2>1. row \in Iface /\ (row.masq => row.egress # NoLink)
    BY <1>6 DEF IfaceRestore, TypeOK, Iface, RowState, RowsNamed, InTable
  <2>2. \/ ifaces' = [ifaces EXCEPT ![i] = row]
        \/ ifaces' = [ifaces EXCEPT ![i] = Resolved(i, row, F)]
    BY <1>6 DEF IfaceRestore
  <2> HIDE DEF row
  <2>3. CASE ifaces' = [ifaces EXCEPT ![i] = row]
    BY <2>1, <2>3 DEF RowsNamed, TypeOK
  <2> QED BY <1>1, <2>1, <2>2, <2>3
<1>7. ASSUME NEW i \in Ifaces, NEW F, Active(i), Apply(i, F) PROVE RowsNamed'
  <2>1. ifaces[i] \in Iface /\ (ifaces[i].masq => ifaces[i].egress # NoLink)
    BY <1>7 DEF TypeOK, RowsNamed, InTable, Active
  <2> QED BY <1>1, <1>7, <2>1 DEF Apply
<1>8. ASSUME NEW F \in FaultSets, NEW i \in Ifaces, IfaceStep(i, F) PROVE RowsNamed'
  BY <1>3, <1>4, <1>5, <1>6, <1>7, <1>8 DEF IfaceStep
<1> QED BY <1>2, <1>8, StepEffect DEF ElsewhereStep

\* A step on an interface leaves its due forwards served, and what it leaves alone
\* is everybody else's.
LEMMA IfaceServes ==
    ASSUME ForwardsCanBeInstalled, UplinkNamed, TypeOK, RowsNamed, ForwardsFit,
           ForwardsInstalled,
           UNCHANGED pfTodo, NEW F \in FaultSets, NEW i \in Ifaces, IfaceStep(i, F)
    PROVE  ForwardsInstalled'
<1> DEFINE S == Forwards(i)
<1>0. {"load", "save", "peers", "row"} \intersect F.db = {}
  BY DEF ForwardsCanBeInstalled
<1>1. \A f \in Pfs : pfs'[f] = pfs[f] \/ pfs'[f].st = "purged"
  <2>1. ASSUME NEW u \in Users, IfacePurge(u, i, F)
        PROVE  \A f \in Pfs : pfs'[f] = pfs[f] \/ pfs'[f].st = "purged"
    BY <2>1 DEF IfacePurge, BlankPf
  <2>2. UNCHANGED pfs \/ \E u \in Users : IfacePurge(u, i, F)
    BY DEF IfaceStep, IfaceCreate, IfaceUpdate, IfaceDelete, IfaceRestore, Apply
  <2> QED BY <2>1, <2>2
<1>2. \A j \in Ifaces \ {i} : ifaces'[j] = ifaces[j]
  BY DEF IfaceStep, IfaceCreate, IfaceUpdate, IfaceDelete, IfaceRestore, IfacePurge,
         Apply, TypeOK
<1>3. \A p \in Peers : peers[p].iface # i => peers'[p] = peers[p]
  BY DEF IfaceStep, IfaceCreate, IfaceUpdate, IfaceDelete, IfaceRestore, IfacePurge, Apply
\* A forward of another interface keeps its rules.
<1>4. ASSUME NEW f \in Pfs \ S, Due(f)', pfs'[f] = pfs[f]
      PROVE  Due(f) /\ \A r \in RulesOf({f}) : r \in fw => r \in fw'
  <2>1. /\ pfs[f].st = "active" /\ pfs[f].on
        /\ pfs[f].iface \in Ifaces \ {i} /\ pfs[f].peer \in Peers
    BY <1>4 DEF Due, Forwards, TypeOK, Pf
  <2>2. pfs[f].iface \in Wanted
    BY <1>2, <1>4, <2>1 DEF Due, Wanted, Active
  <2>3. peers'[pfs[f].peer].st = "active"
    BY <1>4 DEF Due
  <2>4. peers'[pfs[f].peer] = peers[pfs[f].peer]
    <3>1. CASE InTable(peers[pfs[f].peer])
      BY <1>3, <2>1, <3>1 DEF ForwardsFit
    <3>2. CASE ~InTable(peers[pfs[f].peer])
      <4>1. ASSUME NEW p \in Peers, ~InTable(peers[p])
            PROVE  peers'[p] = peers[p] \/ peers'[p].st = "purged"
        <5>1. CASE \E u \in Users : IfaceDelete(u, i, F)
          BY <4>1, <5>1 DEF IfaceDelete, InTable
        <5>2. CASE \E u \in Users : IfaceRestore(u, i, F)
          BY <4>1, <5>2 DEF IfaceRestore, InTable
        <5>3. CASE \E u \in Users : IfacePurge(u, i, F)
          BY <4>1, <5>3 DEF IfacePurge, BlankPeer
        <5> QED BY <4>1, <5>1, <5>2, <5>3
            DEF IfaceStep, IfaceCreate, IfaceUpdate, Apply
      <4> QED BY <2>1, <2>3, <3>2, <4>1
    <3> QED BY <3>1, <3>2
  <2>5. Due(f)
    BY <2>1, <2>2, <2>3, <2>4 DEF Due
  <2>6. S \intersect {f} = {}
    OBVIOUS
  <2> HIDE DEF S
  <2>7. \A r \in RulesOf({f}) : r \in fw => r \in fw'
    BY <2>6, ForwardFrame DEF S
  <2> QED BY <2>5, <2>7
\* A forward of this interface is installed by an update and by a restore, and
\* otherwise stays as it was.
<1>5. ASSUME NEW f \in S, Due(f)', pfs'[f] = pfs[f]
      PROVE  \/ RulesOf({f}) \subseteq fw'
             \/ Due(f) /\ \A r \in RulesOf({f}) : r \in fw => r \in fw'
  <2>1. /\ f \in Pfs /\ pfs[f].st = "active" /\ pfs[f].on /\ pfs[f].iface = i
        /\ ifaces[i] \in Iface
    BY <1>5 DEF Due, Forwards, TypeOK
  <2>2. ifaces'[i].st = "active" /\ ifaces'[i].on
    BY <1>5, <2>1 DEF Due, Wanted, Active
  <2>3. ASSUME NEW u \in Users, IfaceCreate(u, i, F) PROVE FALSE
    BY <2>1, <2>3 DEF IfaceCreate, ForwardsFit
  <2>4. ASSUME NEW u \in Users, IfaceDelete(u, i, F) \/ IfacePurge(u, i, F) PROVE FALSE
    <3>1. \/ ifaces' = [ifaces EXCEPT ![i].st = "trashed"]
          \/ ifaces' = [ifaces EXCEPT ![i] = BlankIface("purged")]
      BY <1>0, <2>4 DEF IfaceDelete, IfacePurge
    <3> QED BY <2>1, <2>2, <3>1 DEF BlankIface, TypeOK, Iface
  <2>5. ASSUME NEW u \in Users, IfaceUpdate(u, i, F) PROVE RulesOf({f}) \subseteq fw'
    <3>1. PICK e \in Edits(i), stuck \in StuckKinds :
            LET row     == Edited(i, e)
                applied == ReconcileFw(TornDown(i, stuck), i, row, F)
                ok      == "save" \notin F.db /\ ReconcileOK(i, row, F)
            IN  /\ ifaces' = [ifaces EXCEPT ![i] = Resolved(i, row, F)]
                /\ fw' = IF ~ok THEN applied
                         ELSE IF row.on THEN Reapply(applied, Forwards(i), F)
                                        ELSE Unapply(applied, Forwards(i), F)
      BY <1>0, <2>5 DEF IfaceUpdate
    <3> DEFINE row == Edited(i, e)
    <3>2. row \in Iface /\ (row.masq => row.egress # NoLink)
      BY EditsNamed
    <3>3. row.on
      BY <2>2, <3>1, <3>2, ResolvedKeeps DEF TypeOK
    <3>4. ReconcileOK(i, row, F)
      <4> HIDE DEF row
      <4> QED BY <3>2, ReconcileWorks
    <3>5. fw' = Reapply(ReconcileFw(TornDown(i, stuck), i, row, F), S, F)
      BY <1>0, <3>1, <3>3, <3>4
    <3> HIDE DEF row, S
    <3> QED BY <1>5, <2>1, <3>5, ReapplyWorks
  <2>6. ASSUME NEW u \in Users, IfaceRestore(u, i, F) PROVE RulesOf({f}) \subseteq fw'
    <3> DEFINE row == [ifaces[i] EXCEPT !.st = "active"]
    <3>1. row.masq => row.egress # NoLink
      BY <2>1, <2>6 DEF IfaceRestore, RowsNamed, InTable, Iface
    <3>2. ReconcileOK(i, row, F)
      <4> HIDE DEF row
      <4> QED BY <3>1, ReconcileWorks
    <3>3. fw' = Reapply(ReconcileFw(fw, i, row, F), S, F)
      BY <1>0, <2>6, <3>2 DEF IfaceRestore
    <3> HIDE DEF row, S
    <3> QED BY <1>5, <2>1, <3>3, ReapplyWorks
  <2>7. ASSUME Active(i), Apply(i, F)
        PROVE  Due(f) /\ \A r \in RulesOf({f}) : r \in fw => r \in fw'
    <3>1. ifaces'[i].on = ifaces[i].on
      BY <2>1, <2>7, ResolvedKeeps DEF Apply, TypeOK
    <3>2. Due(f)
      BY <1>5, <2>1, <2>2, <2>7, <3>1 DEF Due, Apply, Wanted, Active
    <3>3. \A r \in RulesOf({f}) : r \in fw => r \in fw'
      BY <2>7, RuleKinds, NatCallsKeepPf DEF Apply
    <3> QED BY <3>2, <3>3
  <2> QED BY <2>3, <2>4, <2>5, <2>6, <2>7 DEF IfaceStep
<1> HIDE DEF S
<1>6. ASSUME NEW f \in Pfs, Due(f)'
      PROVE  \/ RulesOf({f})' \subseteq fw'
             \/ /\ Due(f) /\ pfs'[f] = pfs[f]
                /\ \A r \in RulesOf({f}) : r \in fw => r \in fw'
  <2>1. pfs'[f] = pfs[f]
    BY <1>1, <1>6 DEF Due
  <2>2. RulesOf({f})' = RulesOf({f})
    BY <2>1 DEF RulesOf
  <2> QED BY <1>4, <1>5, <1>6, <2>1, <2>2
<1> QED BY <1>6, DueServed

\* The peer handlers.
LEMMA PeerServes ==
    ASSUME ForwardsCanBeInstalled, TypeOK, ForwardsFit, ForwardsInstalled,
           NEW F \in FaultSets, NEW u \in Users, NEW p \in Peers,
           \/ \E i \in Ifaces : PeerCreate(u, i, p, F)
           \/ PeerUpdate(u, p, F)    \/ PeerDelete(u, p, F)
           \/ PeerRestore(u, p, F)   \/ PeerPurge(u, p, F)
    PROVE  ForwardsInstalled'
<1> DEFINE S == ForwardsTo(p)
<1>0. {"load", "row"} \intersect F.db = {} /\ F.host = {} /\ peers[p] \in Peer
  BY DEF ForwardsCanBeInstalled, TypeOK
<1>1. UNCHANGED <<ifaces, pfTodo>> /\ \A q \in Peers \ {p} : peers'[q] = peers[q]
  BY DEF PeerCreate, PeerUpdate, PeerDelete, PeerRestore, PeerPurge, TypeOK, boot
<1>2. \A f \in Pfs : pfs'[f] = pfs[f] \/ pfs'[f].st = "purged"
  <2>1. CASE PeerPurge(u, p, F)
    BY <2>1 DEF PeerPurge, BlankPf
  <2>2. UNCHANGED pfs \/ PeerPurge(u, p, F)
    BY DEF PeerCreate, PeerUpdate, PeerDelete, PeerRestore
  <2> QED BY <2>1, <2>2
<1>3. \/ fw' = fw \/ fw' = Unapply(fw, S, F) \/ fw' = Reapply(fw, S, F)
  BY DEF PeerCreate, PeerUpdate, PeerDelete, PeerRestore, PeerPurge
\* A forward to another peer keeps its rules.
<1>4. ASSUME NEW f \in Pfs \ S, Due(f)', pfs'[f] = pfs[f]
      PROVE  Due(f) /\ \A r \in RulesOf({f}) : r \in fw => r \in fw'
  <2>1. pfs[f].st = "active" /\ pfs[f].peer \in Peers \ {p}
    BY <1>4 DEF Due, ForwardsTo, TypeOK, Pf
  <2>2. Due(f)
    BY <1>1, <1>4, <2>1 DEF Due, Wanted, Active
  <2>3. S \intersect {f} = {}
    OBVIOUS
  <2> HIDE DEF S
  <2>4. \A r \in RulesOf({f}) : r \in fw => r \in fw'
    BY <1>3, <2>3, ForwardCallsFrame
  <2> QED BY <2>2, <2>4
\* A forward to this peer is installed when the peer comes back, and not touched
\* when it is edited.
<1>5. ASSUME NEW f \in S, Due(f)', pfs'[f] = pfs[f]
      PROVE  \/ RulesOf({f}) \subseteq fw'
             \/ Due(f) /\ \A r \in RulesOf({f}) : r \in fw => r \in fw'
  <2>1. /\ f \in Pfs /\ pfs[f].st = "active" /\ pfs[f].on /\ pfs[f].peer = p
        /\ pfs[f].iface \in Wanted /\ peers'[p].st = "active"
    BY <1>1, <1>5 DEF Due, ForwardsTo, Wanted, Active
  <2>2. CASE \E i \in Ifaces : PeerCreate(u, i, p, F)
    BY <2>1, <2>2 DEF PeerCreate, ForwardsFit
  <2>3. CASE PeerUpdate(u, p, F)
    BY <2>1, <2>3 DEF PeerUpdate, Due
  <2>4. CASE PeerDelete(u, p, F) \/ PeerPurge(u, p, F)
    <3>1. \/ peers' = [peers EXCEPT ![p].st = "trashed"]
          \/ peers' = [peers EXCEPT ![p] = BlankPeer("purged")]
      BY <1>0, <2>4 DEF PeerDelete, PeerPurge
    <3> QED BY <1>0, <2>1, <3>1 DEF BlankPeer, TypeOK, Peer
  <2>5. CASE PeerRestore(u, p, F)
    <3>1. peers[p].iface = pfs[f].iface
      BY <2>1, <2>5 DEF PeerRestore, ForwardsFit, InTable
    <3>2. SyncPeerOK(peers[p].iface, F)
      BY <1>0, <2>1, <3>1 DEF SyncPeerOK, Wanted, LinkOK
    <3>3. fw' = Reapply(fw, S, F)
      BY <2>5, <3>2 DEF PeerRestore
    <3> HIDE DEF S
    <3> QED BY <1>5, <2>1, <3>3, ReapplyWorks
  <2> QED BY <2>2, <2>3, <2>4, <2>5
<1> HIDE DEF S
<1>6. ASSUME NEW f \in Pfs, Due(f)'
      PROVE  \/ RulesOf({f})' \subseteq fw'
             \/ /\ Due(f) /\ pfs'[f] = pfs[f]
                /\ \A r \in RulesOf({f}) : r \in fw => r \in fw'
  <2>1. pfs'[f] = pfs[f]
    BY <1>2, <1>6 DEF Due
  <2>2. RulesOf({f})' = RulesOf({f})
    BY <2>1 DEF RulesOf
  <2> QED BY <1>4, <1>5, <1>6, <2>1, <2>2
<1> QED BY <1>1, <1>6, DueServed

\* The forward handlers.
LEMMA PfServes ==
    ASSUME ForwardsCanBeInstalled, TypeOK, ForwardsInstalled,
           NEW F \in FaultSets, NEW u \in Users, NEW f \in Pfs,
           \/ \E p \in Peers : PfCreate(u, p, f, F)
           \/ PfUpdate(u, f, F) \/ PfDelete(u, f, F)
    PROVE  ForwardsInstalled'
<1> DEFINE removed == DeleteRules(fw, PfRules(f, pfs[f].tport), F)
<1>0. {"save", "row"} \intersect F.db = {} /\ F.host = {} /\ F.add = {}
  BY DEF ForwardsCanBeInstalled
<1>1. UNCHANGED <<ifaces, peers, pfTodo>>
  BY DEF PfCreate, PfUpdate, PfDelete, boot
<1>2. \A g \in Pfs \ {f} : pfs'[g] = pfs[g]
  BY DEF PfCreate, PfUpdate, PfDelete, TypeOK
<1>3. \A t : EnsureRules(fw, PfRules(f, t), F) = fw \union PfRules(f, t)
  BY <1>0 DEF EnsureRules
<1>4. \A t : EnsureRules(removed, PfRules(f, t), F) = removed \union PfRules(f, t)
  BY <1>0 DEF EnsureRules
<1>5. removed \subseteq fw
  BY DEF DeleteRules
<1>6. removed \subseteq fw'
  <2>1. CASE \E p \in Peers : PfCreate(u, p, f, F)
    BY <1>3, <1>5, <2>1 DEF PfCreate
  <2>2. CASE PfUpdate(u, f, F)
    BY <1>4, <1>5, <2>2 DEF PfUpdate
  <2>3. CASE PfDelete(u, f, F)
    BY <2>3 DEF PfDelete
  <2> QED BY <2>1, <2>2, <2>3
<1>7. ASSUME NEW g \in Pfs \ {f}, NEW r \in RulesOf({g}), r \in fw PROVE r \in fw'
  <2>1. r[2] = g
    <3>1. r \in PfRules(g, pfs[g].tport)
      BY <1>7 DEF RulesOf
    <3> QED BY <3>1, RuleKinds
  <2>2. r \notin PfRules(f, pfs[f].tport)
    BY <1>7, <2>1, RuleKinds
  <2> QED BY <1>6, <1>7, <2>2 DEF DeleteRules
<1>8. Due(f)' => RulesOf({f})' \subseteq fw'
  <2>0. RulesOf({f})' = PfRules(f, pfs'[f].tport) /\ pfs[f] \in Pf
    BY DEF RulesOf, TypeOK
  <2>1. CASE \E p \in Peers : PfCreate(u, p, f, F)
    BY <1>3, <2>0, <2>1 DEF PfCreate, TypeOK
  <2>2. CASE PfUpdate(u, f, F)
    <3>1. PICK tport \in PortChoices.target, on \in BOOLEAN :
            /\ pfs' = [pfs EXCEPT ![f].tport = tport, ![f].on = on]
            /\ fw' = IF on THEN EnsureRules(removed, PfRules(f, tport), F) ELSE removed
      BY <1>0, <2>2 DEF PfUpdate
    <3> HIDE DEF removed
    <3>2. pfs'[f].on = on /\ pfs'[f].tport = tport
      BY <2>0, <3>1 DEF TypeOK, Pf
    <3> QED BY <1>4, <2>0, <3>1, <3>2 DEF Due
  <2>3. CASE PfDelete(u, f, F)
    BY <1>0, <2>3 DEF PfDelete, BlankPf, TypeOK, Due
  <2> QED BY <2>1, <2>2, <2>3
<1>9. ASSUME NEW g \in Pfs, Due(g)'
      PROVE  \/ RulesOf({g})' \subseteq fw'
             \/ /\ Due(g) /\ pfs'[g] = pfs[g]
                /\ \A r \in RulesOf({g}) : r \in fw => r \in fw'
  <2>1. CASE g = f
    BY <1>8, <1>9, <2>1
  <2>2. CASE g # f
    <3>1. pfs'[g] = pfs[g]
      BY <1>2, <2>2
    <3>2. Due(g)
      BY <1>1, <1>9, <3>1 DEF Due, Wanted, Active
    <3> QED BY <1>7, <2>2, <3>1, <3>2
  <2> QED BY <2>1, <2>2
<1> QED BY <1>1, <1>9, DueServed

\* Starts, the bootstrap and route changes.
LEMMA SystemServes ==
    ASSUME ForwardsCanBeInstalled, UplinkNamed, TypeOK, RowsNamed, ForwardsFit,
           ForwardsInstalled,
           NEW F \in FaultSets, System(F) \/ RouteChange \/ UNCHANGED vars
    PROVE  ForwardsInstalled'
<1>1. CASE UNCHANGED <<ifaces, peers, pfs, fw, pfTodo>>
  BY <1>1 DEF ForwardsInstalled, Wanted, Active, RulesOf
<1>2. ASSUME NEW reboot \in BOOLEAN, Start(F, reboot) PROVE ForwardsInstalled'
  <2>1. "list" \notin F.db
    BY DEF ForwardsCanBeInstalled
  <2> QED BY <1>2, <2>1 DEF Start, ForwardsInstalled
<1>3. ASSUME NEW i \in Ifaces, BootReconcile(i, F) PROVE ForwardsInstalled'
  BY <1>1, <1>3, IfaceServes DEF BootReconcile, IfaceStep, db
<1>4. CASE BootForwards(F)
  <2> DEFINE S == {f \in Pfs : pfs[f].st = "active" /\ pfs[f].iface \in Wanted}
  <2>1. UNCHANGED <<ifaces, peers, pfs>> /\ fw' = Reapply(fw, S, F)
    BY <1>4 DEF BootForwards, db
  <2>2. \A f \in S : pfs[f].on => RulesOf({f}) \subseteq fw'
    <3> HIDE DEF S
    <3> QED BY <2>1, ReapplyWorks
  <2> QED BY <2>1, <2>2 DEF ForwardsInstalled, Wanted, Active, RulesOf
<1>5. CASE RouteChange \/ UNCHANGED vars
  BY <1>1, <1>5 DEF RouteChange, vars, db, boot
<1> QED BY <1>2, <1>3, <1>4, <1>5 DEF System

\* Enabled forwards in service have all their rules, for every number of them and
\* through every mix of requests, restarts, reboots and bootstraps, as long as the
\* calls that install rules work and masqueraded rows name their egress.
THEOREM ForwardsAlwaysInstalled ==
    ASSUME ForwardsCanBeInstalled, UplinkNamed
    PROVE  Spec => []ForwardsInstalled
<1>1. Init => RowsNamed /\ ForwardsFit /\ ForwardsInstalled
  <2>1. BlankPf("none").st = "none" /\ BlankIface("none").st = "none"
    BY DEF BlankPf, BlankIface
  <2> QED BY <2>1 DEF Init, RowsNamed, InTable, ForwardsFit, ForwardsInstalled
<1>2. TypeOK /\ RowsNamed /\ ForwardsFit /\ ForwardsInstalled /\ [Next]_vars
        => RowsNamed' /\ ForwardsFit' /\ ForwardsInstalled'
  <2> SUFFICES ASSUME TypeOK, RowsNamed, ForwardsFit, ForwardsInstalled, [Next]_vars
               PROVE  ForwardsInstalled'
    BY RowsNamedStep, FitStep
  <2>1. ASSUME NEW F \in FaultSets, NEW u \in Users, Request(u, F)
        PROVE  ForwardsInstalled'
    <3>1. ASSUME NEW i \in Ifaces,
                 \/ IfaceCreate(u, i, F)  \/ IfaceUpdate(u, i, F)
                 \/ IfaceDelete(u, i, F)  \/ IfaceRestore(u, i, F)
                 \/ IfacePurge(u, i, F)   \/ IfaceSync(u, i, F)
          PROVE  IfaceStep(i, F) /\ UNCHANGED pfTodo
      <4>1. UNCHANGED pfTodo
        BY <3>1 DEF IfaceCreate, IfaceUpdate, IfaceDelete, IfaceRestore, IfacePurge,
                    IfaceSync, boot
      <4> QED BY <3>1, <4>1 DEF IfaceStep, IfaceSync
    <3> QED BY <2>1, <3>1, IfaceServes, PeerServes, PfServes DEF Request
  <2>2. CASE UNCHANGED <<ifaces, peers, pfs, fw, pfTodo>>
    BY <2>2 DEF ForwardsInstalled, Wanted, Active, RulesOf
  <2> QED BY <2>1, <2>2, SystemServes DEF Next, RouteChange, vars, db, boot
<1> QED BY <1>1, <1>2, TypeCorrect, PTL DEF Spec
=============================================================================

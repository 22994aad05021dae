----------------------------- MODULE WgRequests -----------------------------
(***************************************************************************)
(* The WireGuard handlers taken apart at their database statements and     *)
(* kernel calls.  A worker is a goroutine: it serves one request, or one   *)
(* interface of the bootstrap, and carries what it has read from one call  *)
(* to the next.  Several work at once, nothing locks, and the process may  *)
(* stop between any two calls.                                             *)
(*                                                                         *)
(* Kept in one step: the lookups a handler starts with, a row read with    *)
(* its peers, and the iptables calls of one helper (Iptables takes these   *)
(* apart).  The rows, the host and its faults are those of WgPanel.        *)
(***************************************************************************)
EXTENDS WgPanel, Sequences

CONSTANTS
    Workers,
    Offered      \* bound: the requests that arrive

ASSUME WorkersAssumption == Workers # {}

VARIABLES
    jobs,     \* what each worker is in the middle of
    up        \* the process is running

rvars == <<vars, jobs, up>>

-----------------------------------------------------------------------------
(* Jobs *)

PeerOps == {"addPeer", "editPeer", "delPeer", "restorePeer", "purgePeer"}
PfOps   == {"addPf", "editPf", "delPf", "bootPfs"}

\* Seeded fault: the row goes before its rules.
DelPfRowFirst == <<"deletePf", "removePf">>

\* PortForwardHandler.Delete.
DelPf == <<"removePf", "deletePf">>

\* The statements and calls of each handler.  "load" is replaced by the calls
\* reconcile goes on with, "parent" by those of syncPeer.
Script ==
    [create  |-> <<"insertIface", "load">>,
     update  |-> <<"teardown", "saveIface", "load">>,
     delete  |-> <<"unapply", "teardown", "unlink", "trashPeers", "trashIface">>,
     restore |-> <<"restoreIface", "restorePeers", "load", "reapply">>,
     purge   |-> <<"purgePfs", "teardown", "unlink", "purgePeers", "purgeIface">>,
     sync    |-> <<"load">>,
     boot    |-> <<"load">>,
     bootPfs |-> <<"reapplyAll">>,
     addPeer |-> <<"insertPeer", "parent">>,
     editPeer |-> <<"savePeer", "parent">>,
     delPeer |-> <<"unapply", "trashPeer", "parent">>,
     restorePeer |-> <<"restorePeer", "parent", "reapply">>,
     purgePeer |-> <<"purgePfs", "purgePeer", "parent">>,
     addPf   |-> <<"insertPf", "applyPf">>,
     editPf  |-> <<"removePf", "savePf", "applyPf">>,
     delPf   |-> DelPf]

Calls == (UNION {{s[k] : k \in 1..Len(s)} : s \in {Script[op] : op \in DOMAIN Script}})
           \union {"rmlink", "ensure", "configure", "setup", "egress", "peer"}

\* What the panel would have reported on the device name if the job stopped now;
\* "cut" is a Delete or Purge whose link is gone and whose rows are not.
Verdicts == {"none", "owed", "cut", "settled"}

Job ==
    [op: DOMAIN Script, i: Ifaces, p: Peers \union {<<>>}, f: Pfs \union {<<>>},
     row: Iface,                             \* the interface as read
     kids: UNION {[S -> {p \in Peer : p.st = "active"}] : S \in SUBSET Peers},  \* its peers
     pf: Pf,                                 \* the forward as read
     new: Iface \union Peer \union Pf,       \* the row to write
     calls: Seq(Calls), verdict: Verdicts, solo: BOOLEAN]

NoJob == <<>>
Busy == {w \in Workers : jobs[w] # NoJob}

At(w, call) == jobs[w] # NoJob /\ Head(jobs[w].calls) = call

Owed(n, verdict) ==
    IF verdict \in {"owed", "cut"} THEN {n} ELSE {}

\* The answer to a request, and with it what the panel has reported on the name.
Answer(w, verdict) ==
    LET n == NameOf[jobs[w].i]
    IN  /\ jobs' = [jobs EXCEPT ![w] = NoJob]
        /\ owed' = IF ~jobs[w].solo THEN owed \union {n}
                   ELSE IF verdict = "settled" THEN owed \ {n}
                   ELSE owed \union Owed(n, verdict)

\* The worker goes on: `j' is its job with what the call has changed.  After the
\* last call, and after an error that ends the handler, it answers.
GoOn(w, j, verdict) ==
    IF Len(j.calls) = 1
      THEN Answer(w, verdict)
      ELSE /\ jobs' = [jobs EXCEPT ![w] = [j EXCEPT !.calls = Tail(@), !.verdict = verdict]]
           /\ UNCHANGED owed
Stop(w, verdict) == Answer(w, verdict)

\* What is left undone on the device when a step on the way to it is not reached.
Pending(i) == IF Active(i) THEN "owed" ELSE "none"

RowsUntouched == UNCHANGED <<ifaces, peers, pfs>>
HostUntouched == UNCHANGED <<dev, fw>>
Aside == UNCHANGED <<wan, boot, up>>

-----------------------------------------------------------------------------
(* Requests that get in each other's way *)

\* Peer requests are independent of each other when the peers are, and forward
\* requests of everything that leaves the device alone.
Conflict(a, b) ==
    /\ NameOf[a.i] = NameOf[b.i]
    /\ a.op \notin PfOps /\ b.op \notin PfOps
    /\ ~ (a.op \in PeerOps /\ b.op \in PeerOps /\ a.p # b.p)

\* A worker takes a job up.
Take(w, j) ==
    LET alone == \A v \in Busy : ~Conflict(j, jobs[v])
    IN  /\ up /\ jobs[w] = NoJob /\ j.op \in Offered
        /\ jobs' = [v \in Workers |->
                      IF v = w THEN [j EXCEPT !.solo = alone]
                      ELSE IF v \in Busy /\ Conflict(j, jobs[v])
                             THEN [jobs[v] EXCEPT !.solo = FALSE] ELSE jobs[v]]

Blank(op, i) ==
    [op |-> op, i |-> i, p |-> <<>>, f |-> <<>>,
     row |-> BlankIface("none"), kids |-> <<>>, pf |-> BlankPf("none"),
     new |-> BlankIface("none"), calls |-> Script[op], verdict |-> "none",
     solo |-> TRUE]

\* An id is given out once.
Fresh(op, i, p, f) ==
    \A v \in Busy : jobs[v].op = op =>
      CASE op = "create"  -> jobs[v].i # i
        [] op = "addPeer" -> jobs[v].p # p
        [] op = "addPf"   -> jobs[v].f # f

-----------------------------------------------------------------------------
(* Taking up a request: the lookups and refusals a handler starts with *)

\* Seeded fault: the peers are preloaded with the trash.
KidsUnscoped(i) == [p \in {q \in Peers : InTable(peers[q]) /\ peers[q].iface = i} |->
                      peers[p]]

\* The peers preloaded with an interface.
Kids(i) == [p \in {q \in Peers : peers[q].st = "active" /\ peers[q].iface = i} |->
              peers[p]]

FindInterface(u, i) == Active(i) /\ Owns(u, ifaces[i].owner)

TakeIface(w, u, i) ==
    /\ \/ \E row \in NewIface(u, i) :
            /\ ifaces[i].st = "none" /\ Fresh("create", i, <<>>, <<>>)
            /\ Take(w, [Blank("create", i) EXCEPT !.new = row])
       \/ /\ FindInterface(u, i)
          /\ \/ \E e \in Edits(i) :
                  Take(w, [Blank("update", i) EXCEPT
                             !.row = ifaces[i], !.kids = Kids(i), !.new = Edited(i, e)])
             \/ Take(w, [Blank("delete", i) EXCEPT !.row = ifaces[i]])
             \/ Take(w, Blank("sync", i))
       \/ /\ InTable(ifaces[i]) /\ Owns(u, ifaces[i].owner)
          /\ \/ ifaces[i].st = "trashed" /\ Take(w, Blank("restore", i))
             \/ Take(w, [Blank("purge", i) EXCEPT !.row = ifaces[i]])
    /\ UNCHANGED <<vars, up>>

TakeNewPeer(w, u, i, p) ==
    /\ \E auto \in BOOLEAN, ip \in HostsOf[ifaces[i].addr] :
         /\ FindInterface(u, i)
         /\ peers[p].st = "none" /\ Fresh("addPeer", <<>>, p, <<>>)
         /\ auto => FreeIPs(i) # {} /\ ip = Least(FreeIPs(i))
         /\ Take(w, [Blank("addPeer", i) EXCEPT !.p = p,
                       !.new = [st |-> "active", iface |-> i, on |-> TRUE, ip |-> ip]])
    /\ UNCHANGED <<vars, up>>

\* findPeer, findPeerUnscoped and assertPeerOwned.
TakePeer(w, u, p) ==
    LET Begin(op, row) ==
          Take(w, [Blank(op, peers[p].iface) EXCEPT !.p = p, !.new = row])
    IN  /\ MayActOn(u, p)
        /\ \/ /\ peers[p].st = "active"
              /\ \/ \E on \in BOOLEAN : Begin("editPeer", [peers[p] EXCEPT !.on = on])
                 \/ Begin("delPeer", peers[p])
           \/ /\ peers[p].st = "trashed" /\ ParentInService(peers[p].iface)
              /\ Begin("restorePeer", [peers[p] EXCEPT !.st = "active"])
           \/ InTable(peers[p]) /\ Begin("purgePeer", peers[p])
        /\ UNCHANGED <<vars, up>>

TakeNewPf(w, u, p, f, F) ==
    /\ \E pub \in PortChoices.public, tport \in PortChoices.target :
         LET i == peers[p].iface
         IN  /\ ~Reserved(pub, F)
             /\ peers[p].st = "active"
             /\ FindInterface(u, i)
             /\ Egress(ifaces[i].egress, wan) # NoLink
             /\ pfs[f].st = "none" /\ Fresh("addPf", <<>>, <<>>, f)
             /\ Take(w, [Blank("addPf", i) EXCEPT !.p = p, !.f = f,
                           !.new = [st |-> "active", iface |-> i, peer |-> p,
                                    on |-> TRUE, pub |-> pub, tport |-> tport,
                                    owner |-> u]])
    /\ UNCHANGED <<vars, up>>

\* findOwnedPortForward.
TakePf(w, u, f) ==
    LET Begin(op, row) ==
          Take(w, [Blank(op, pfs[f].iface) EXCEPT
                     !.p = pfs[f].peer, !.f = f, !.pf = pfs[f], !.new = row])
    IN  /\ pfs[f].st = "active" /\ Owns(u, pfs[f].owner)
        /\ InTable(ifaces[pfs[f].iface])
        /\ \/ \E tport \in PortChoices.target, on \in BOOLEAN :
                Begin("editPf", [pfs[f] EXCEPT !.tport = tport, !.on = on])
           \/ Begin("delPf", pfs[f])
        /\ UNCHANGED <<vars, up>>

\* The bootstrap is one goroutine: an interface at a time, then the forwards.
TakeBoot(w) ==
    /\ \A v \in Busy : jobs[v].op \notin {"boot", "bootPfs"}
    /\ \/ \E i \in todo :
            /\ Take(w, [Blank("boot", i) EXCEPT !.verdict = Pending(i)])
            /\ todo' = todo \ {i} /\ UNCHANGED pfTodo
       \/ /\ todo = {} /\ pfTodo
          /\ Take(w, Blank("bootPfs", CHOOSE i \in Ifaces : TRUE))
          /\ pfTodo' = FALSE /\ UNCHANGED todo
    /\ UNCHANGED <<db, dev, fw, wan, owed, up>>

-----------------------------------------------------------------------------
(* Writing a row as it was read *)

\* The unique indexes on a peer's address and on an interface's name, and the
\* foreign key of peers; trashed rows count.
PeerFits(p, row) ==
    /\ InTable(ifaces[row.iface])
    /\ \A q \in Peers \ {p} : InTable(peers[q]) =>
         ~(peers[q].iface = row.iface /\ peers[q].ip = row.ip)
NameFits(i) == \A k \in Ifaces \ {i} : InTable(ifaces[k]) => NameOf[k] # NameOf[i]

\* Save finds no active row to update and inserts one: a row trashed meanwhile is
\* active again, one purged is there again, and a FALSE is lost on the way.
Upsert(row, here) == IF here THEN row ELSE [row EXCEPT !.on = TRUE]

\* The peers an interface was read with are written along; one purged meanwhile
\* is inserted again, one trashed is left in the trash.
Gone(kids) == {p \in DOMAIN kids : peers[p].st = "purged"}
KidsFit(kids) == \A p \in Gone(kids) : PeerFits(p, kids[p])

\* Seeded fault: the peers are written along as they were read, all of them.
WithKidsAsRead(kids) == [p \in Peers |-> IF p \in DOMAIN kids THEN kids[p] ELSE peers[p]]

WithKids(kids) ==
    [p \in Peers |-> IF p \in Gone(kids) THEN Upsert(kids[p], FALSE) ELSE peers[p]]

-----------------------------------------------------------------------------
(* Calls on interface rows *)

InsertIface(w, F) ==
    LET j == jobs[w]
    IN  /\ At(w, "insertIface")
        /\ IF "save" \in F.db \/ ~NameFits(j.i)
             THEN Stop(w, "none") /\ UNCHANGED ifaces
             ELSE GoOn(w, j, "owed") /\ ifaces' = [ifaces EXCEPT ![j.i] = j.new]
        /\ UNCHANGED <<peers, pfs>> /\ HostUntouched /\ Aside

\* The forwards are dealt with at the end, by what the request asked for.
SaveIface(w, F) ==
    LET j    == jobs[w]
        row  == Upsert(j.new, Active(j.i))
        rest == IF row.on THEN "reapply" ELSE "unapply"
    IN  /\ At(w, "saveIface")
        /\ IF \/ "save" \in F.db \/ ~NameFits(j.i) \/ ~KidsFit(j.kids)
             THEN Stop(w, "owed") /\ UNCHANGED <<ifaces, peers>>
             ELSE /\ GoOn(w, [j EXCEPT !.calls = @ \o <<rest>>], "owed")
                  /\ ifaces' = [ifaces EXCEPT ![j.i] = row]
                  /\ peers' = WithKids(j.kids)
        /\ UNCHANGED pfs /\ HostUntouched /\ Aside

TrashIface(w, F) ==
    LET j == jobs[w]
    IN  /\ At(w, "trashIface")
        /\ IF "row" \in F.db
             THEN Stop(w, "owed") /\ UNCHANGED ifaces
             ELSE /\ GoOn(w, j, IF j.verdict = "cut" THEN "settled" ELSE "owed")
                  /\ ifaces' = IF Active(j.i) THEN [ifaces EXCEPT ![j.i].st = "trashed"]
                                              ELSE ifaces
        /\ UNCHANGED <<peers, pfs>> /\ HostUntouched /\ Aside

RestoreIface(w, F) ==
    LET j == jobs[w]
    IN  /\ At(w, "restoreIface")
        /\ IF "row" \in F.db
             THEN Stop(w, "none") /\ UNCHANGED ifaces
             ELSE /\ GoOn(w, j, "owed")
                  /\ ifaces' = IF InTable(ifaces[j.i])
                                 THEN [ifaces EXCEPT ![j.i].st = "active"] ELSE ifaces
        /\ UNCHANGED <<peers, pfs>> /\ HostUntouched /\ Aside

\* The foreign key takes peers along that were inserted since purgePeers.
PurgeIface(w, F) ==
    LET j == jobs[w]
    IN  /\ At(w, "purgeIface")
        /\ IF "row" \in F.db
             THEN Stop(w, "owed") /\ UNCHANGED <<ifaces, peers>>
             ELSE /\ GoOn(w, j, IF j.verdict = "cut" THEN "settled" ELSE "owed")
                  /\ ifaces' = [ifaces EXCEPT ![j.i] = BlankIface("purged")]
                  /\ peers' = [p \in Peers |->
                                 IF InTable(peers[p]) /\ peers[p].iface = j.i
                                   THEN BlankPeer("purged") ELSE peers[p]]
        /\ UNCHANGED pfs /\ HostUntouched /\ Aside

\* The peers of an interface follow it into the trash, out of it, or out of the
\* table.
MovePeers(w, F) ==
    LET j     == jobs[w]
        under == {p \in Peers : InTable(peers[p]) /\ peers[p].iface = j.i}
        Moved(p) == CASE At(w, "trashPeers")   -> [peers[p] EXCEPT !.st = "trashed"]
                      [] At(w, "restorePeers") -> [peers[p] EXCEPT !.st = "active"]
                      [] At(w, "purgePeers")   -> BlankPeer("purged")
    IN  /\ At(w, "trashPeers") \/ At(w, "restorePeers") \/ At(w, "purgePeers")
        /\ IF "peers" \in F.db
             THEN Stop(w, "owed") /\ UNCHANGED peers
             ELSE /\ GoOn(w, j, j.verdict)
                  /\ peers' = [p \in Peers |-> IF p \in under THEN Moved(p) ELSE peers[p]]
        /\ UNCHANGED <<ifaces, pfs>> /\ HostUntouched /\ Aside

-----------------------------------------------------------------------------
(* reconcile *)

\* Seeded fault: the flags of the row are not looked at.
ApplyingBlindly(row) == <<"ensure", "configure", "teardown">>

\* What reconcile goes on with.
Applying(row) ==
    IF ~row.on THEN <<"teardown", "rmlink">>
    ELSE <<"ensure", "configure", IF row.masq THEN "setup" ELSE "teardown">>

Load(w, F) ==
    LET j == jobs[w]
    IN  /\ At(w, "load")
        /\ IF "load" \in F.db \/ ~Active(j.i)
             THEN Stop(w, Pending(j.i))
             ELSE GoOn(w, [j EXCEPT !.row = ifaces[j.i], !.kids = Kids(j.i),
                                    !.calls = <<"load">> \o Applying(ifaces[j.i]) \o Tail(@)],
                       "owed")
        /\ RowsUntouched /\ HostUntouched /\ Aside

\* The device a job works on.
DevOf(j) == dev[NameOf[j.i]]
SetDev(j, d) == dev' = [dev EXCEPT ![NameOf[j.i]] = d]

Ensure(w, F) ==
    LET j == jobs[w]
    IN  /\ At(w, "ensure")
        /\ SetDev(j, EnsureLink(DevOf(j), j.row.addr, F))
        /\ IF LinkOK(DevOf(j), F) THEN GoOn(w, j, "owed") ELSE Stop(w, "owed")
        /\ RowsUntouched /\ UNCHANGED fw /\ Aside

\* wgctrl refuses a device that somebody removed since it was ensured.
Configure(w, F) ==
    LET j == jobs[w]
    IN  /\ At(w, "configure")
        /\ IF DevOf(j).exists /\ "device" \notin F.host
             THEN /\ SetDev(j, ConfigureDevice(DevOf(j), <<j.i, j.row.port>>,
                                               {p \in DOMAIN j.kids : j.kids[p].on}))
                  /\ GoOn(w, j, IF j.row.masq THEN "owed" ELSE "settled")
             ELSE Stop(w, "owed") /\ UNCHANGED dev
        /\ RowsUntouched /\ UNCHANGED fw /\ Aside

\* reconcile gives up when the link stays; Delete and Purge go on.
RemoveDevice(w, F) ==
    LET j  == jobs[w]
        ok == RemoveLinkOK(DevOf(j), F)
    IN  /\ \/ At(w, "rmlink") /\ IF ok THEN GoOn(w, j, "settled") ELSE Stop(w, "owed")
           \/ At(w, "unlink") /\ GoOn(w, j, IF ok THEN "cut" ELSE "owed")
        /\ SetDev(j, RemoveLink(DevOf(j), F))
        /\ RowsUntouched /\ UNCHANGED fw /\ Aside

\* Failures of a teardown are dropped; where there is no device, it was the last
\* thing to do.
Teardown(w, F) ==
    LET j    == jobs[w]
        last == Len(j.calls) > 1 /\ j.calls[2] = "rmlink" /\ ~DevOf(j).exists
    IN  /\ At(w, "teardown")
        /\ fw' = TeardownNAT(fw, NameOf[j.i], j.row.addr, j.row.egress, wan, F)
        /\ GoOn(w, j, IF last THEN "settled" ELSE IF j.verdict = "none" THEN "owed" ELSE j.verdict)
        /\ RowsUntouched /\ UNCHANGED dev /\ Aside

Setup(w, F) ==
    LET j == jobs[w]
        n == NameOf[j.i]
        detected == [j EXCEPT !.row.egress = wan, !.calls = <<"setup", "egress">> \o Tail(@)]
    IN  /\ At(w, "setup")
        /\ fw' = SetupNAT(fw, n, j.row.addr, j.row.egress, wan, F)
        /\ IF ~SetupNATOK(n, j.row.addr, j.row.egress, wan, F) THEN Stop(w, "owed")
           ELSE IF j.row.egress = NoLink THEN GoOn(w, detected, "owed")
           ELSE GoOn(w, j, "settled")
        /\ RowsUntouched /\ UNCHANGED dev /\ Aside

\* One column of an active row is written.
EgressStored(i, row) ==
    IF Active(i) THEN [ifaces[i] EXCEPT !.egress = row.egress] ELSE ifaces[i]

\* applyNAT stores the detected egress, the loaded peers along with it.
StoreEgress(w, F) ==
    LET j == jobs[w]
    IN  /\ At(w, "egress")
        /\ IF "egress" \in F.db \/ ~KidsFit(j.kids)
             THEN Stop(w, "owed") /\ UNCHANGED <<ifaces, peers>>
             ELSE /\ GoOn(w, j, "settled")
                  /\ ifaces' = [ifaces EXCEPT ![j.i] = EgressStored(j.i, j.row)]
                  /\ peers' = WithKids(j.kids)
        /\ UNCHANGED pfs /\ HostUntouched /\ Aside

-----------------------------------------------------------------------------
(* Calls on peer rows, and syncPeer *)

\* The peer's row is written; `fits' is whether the database takes it.
WritePeer(w, fits, row, j) ==
    IF fits THEN /\ peers' = [peers EXCEPT ![j.p] = row]
                 /\ GoOn(w, j, Pending(j.i))
            ELSE UNCHANGED peers /\ Stop(w, "none")

PeerStatement(w, F) ==
    LET j    == jobs[w]
        kept == peers[j.p].st = "active"
        saved == Upsert(j.new, kept)
        row  == peers[j.p]
    IN  /\ \/ /\ At(w, "insertPeer")
              /\ WritePeer(w, "save" \notin F.db /\ PeerFits(j.p, j.new), j.new, j)
           \/ /\ At(w, "savePeer")
              /\ WritePeer(w, "save" \notin F.db /\ PeerFits(j.p, saved), saved,
                           [j EXCEPT !.new = saved])
           \/ /\ At(w, "trashPeer")
              /\ WritePeer(w, "row" \notin F.db,
                           IF kept THEN [row EXCEPT !.st = "trashed"] ELSE row, j)
           \/ /\ At(w, "restorePeer")
              /\ WritePeer(w, "row" \notin F.db,
                           IF InTable(row) THEN [row EXCEPT !.st = "active"] ELSE row, j)
           \/ /\ At(w, "purgePeer")
              /\ WritePeer(w, "row" \notin F.db, BlankPeer("purged"), j)
        /\ UNCHANGED <<ifaces, pfs>> /\ HostUntouched /\ Aside

\* Seeded fault: the peer's parent is applied in full.
SyncingInFull == <<"load">>

\* The calls of syncPeer on an enabled interface.
Syncing == <<"ensure", "peer">>

Parent(w, F) ==
    LET j   == jobs[w]
        row == ifaces[j.i]
    IN  /\ At(w, "parent")
        /\ IF "load" \in F.db \/ ~Active(j.i) THEN Stop(w, Pending(j.i))
           ELSE IF ~row.on THEN GoOn(w, j, "none")
           ELSE GoOn(w, [j EXCEPT !.row = row, !.calls = <<"parent">> \o Syncing \o Tail(@)],
                     "owed")
        /\ RowsUntouched /\ HostUntouched /\ Aside

SyncOne(w, F) ==
    LET j      == jobs[w]
        wanted == j.op \notin {"delPeer", "purgePeer"} /\ j.new.on
    IN  /\ At(w, "peer")
        /\ IF DevOf(j).exists /\ "peer" \notin F.host
             THEN /\ SetDev(j, IF wanted THEN ConfigurePeer(DevOf(j), j.p)
                                         ELSE RemovePeer(DevOf(j), j.p))
                  /\ GoOn(w, j, "none")
             ELSE Stop(w, "owed") /\ UNCHANGED dev
        /\ RowsUntouched /\ UNCHANGED fw /\ Aside

-----------------------------------------------------------------------------
(* Forwards *)

\* The forwards a cascade of this job finds.
Followers(j) == IF j.op \in PeerOps THEN ForwardsTo(j.p) ELSE Forwards(j.i)

\* A forward taken out of service leaves debts on the device of an interface only.
Owing(j) == IF j.op \in PeerOps \/ j.verdict # "none" THEN j.verdict ELSE "owed"

Cascade(w, F) ==
    LET j == jobs[w]
    IN  /\ \/ /\ At(w, "reapply") /\ fw' = Reapply(fw, Followers(j), F)
              /\ UNCHANGED pfs
           \/ /\ At(w, "reapplyAll")
              /\ fw' = Reapply(fw, {f \in Pfs : pfs[f].st = "active"
                                                  /\ pfs[f].iface \in Wanted}, F)
              /\ UNCHANGED pfs
           \/ /\ At(w, "unapply") /\ fw' = Unapply(fw, Followers(j), F)
              /\ UNCHANGED pfs
           \/ /\ At(w, "purgePfs") /\ fw' = Unapply(fw, Followers(j), F)
              /\ pfs' = IF "pfrow" \in F.db THEN pfs
                        ELSE [f \in Pfs |-> IF f \in Found(Followers(j), F)
                                              THEN BlankPf("purged") ELSE pfs[f]]
        /\ GoOn(w, j, IF j.op = "bootPfs" THEN "none" ELSE Owing(j))
        /\ UNCHANGED <<ifaces, peers, dev>> /\ Aside

\* One public port, one forward.
PortFits(f, row) == \A g \in Pfs \ {f} : pfs[g].st = "active" => pfs[g].pub # row.pub

PfStatement(w, F) ==
    LET j     == jobs[w]
        saved == Upsert(j.new, pfs[j.f].st = "active")
        fits  == "save" \notin F.db /\ PortFits(j.f, j.new)
        Write(ok, row) ==
          IF ok THEN /\ pfs' = [pfs EXCEPT ![j.f] = row]
                     /\ GoOn(w, [j EXCEPT !.new = row], "none")
                ELSE UNCHANGED pfs /\ Stop(w, "none")
    IN  /\ \/ At(w, "insertPf") /\ Write(fits, j.new)
           \/ At(w, "savePf") /\ Write(fits, saved)
           \/ At(w, "deletePf") /\ Write("row" \notin F.db, BlankPf("purged"))
        /\ UNCHANGED <<ifaces, peers>> /\ HostUntouched /\ Aside

\* The rules a job takes down: those of the forward as it was read.
StaleRules(j) == PfRules(j.f, j.pf.tport)

PfRulesCall(w, F) ==
    LET j == jobs[w]
    IN  /\ \/ At(w, "removePf") /\ fw' = DeleteRules(fw, StaleRules(j), F)
           \/ At(w, "applyPf") /\ fw' = IF j.new.on
                                          THEN EnsureRules(fw, PfRules(j.f, j.new.tport), F)
                                          ELSE fw
        /\ GoOn(w, j, "none")
        /\ RowsUntouched /\ UNCHANGED dev /\ Aside

-----------------------------------------------------------------------------
(* Crashes and starts *)

\* The process stops between two calls of every request it serves.
Crash ==
    /\ up /\ up' = FALSE
    /\ jobs' = [w \in Workers |-> NoJob]
    /\ owed' = (owed \ {NameOf[jobs[w].i] : w \in
                          {v \in Busy : jobs[v].verdict = "settled" /\ jobs[v].solo}})
                 \union UNION {IF jobs[w].solo THEN Owed(NameOf[jobs[w].i], jobs[w].verdict)
                                               ELSE {NameOf[jobs[w].i]} : w \in Busy}
    /\ RowsUntouched /\ HostUntouched
    /\ UNCHANGED <<wan, boot>>

Restart(F, reboot) ==
    ~up /\ up' = TRUE /\ Start(F, reboot) /\ UNCHANGED jobs

\* Bound: the default route holds still while requests are served.
RouteMoves == Busy = {} /\ RouteChange /\ UNCHANGED <<jobs, up>>

TakeUp(w) ==
    \/ TakeBoot(w)
    \/ \E u \in Users :
         \/ \E i \in Ifaces : \/ TakeIface(w, u, i)
                              \/ \E p \in Peers : TakeNewPeer(w, u, i, p)
         \/ \E p \in Peers :
              \/ TakePeer(w, u, p)
              \/ \E f \in Pfs, F \in FaultSets : TakeNewPf(w, u, p, f, F)
         \/ \E f \in Pfs : TakePf(w, u, f)

\* Each call may fail by itself.
Call(w) ==
    \E F \in FaultSets :
      \/ InsertIface(w, F)   \/ SaveIface(w, F)     \/ TrashIface(w, F)
      \/ RestoreIface(w, F)  \/ PurgeIface(w, F)    \/ MovePeers(w, F)
      \/ Load(w, F)          \/ Ensure(w, F)        \/ Configure(w, F)
      \/ RemoveDevice(w, F)  \/ Teardown(w, F)      \/ Setup(w, F)
      \/ StoreEgress(w, F)   \/ PeerStatement(w, F) \/ Parent(w, F)
      \/ SyncOne(w, F)       \/ Cascade(w, F)       \/ PfStatement(w, F)
      \/ PfRulesCall(w, F)

Outside ==
    Crash \/ RouteMoves \/ \E F \in FaultSets, reboot \in BOOLEAN : Restart(F, reboot)

RInit == Init /\ jobs = [w \in Workers |-> NoJob] /\ up = TRUE
RNext == Outside \/ \E w \in Workers : TakeUp(w) \/ Call(w)
RSpec == RInit /\ [][RNext]_rvars

-----------------------------------------------------------------------------
(* Properties *)

\* Every worker's job is one the handlers could be in the middle of.
JobsOK ==
    /\ TypeOK
    /\ \A w \in Busy : jobs[w] \in Job
    /\ ~up => Busy = {}

\* Nobody is working on the name and nothing was left undone on it.
Quiet(n) ==
    Vouched(n) /\ \A w \in Busy : jobs[w].op \in PfOps \/ NameOf[jobs[w].i] # n

\* Between requests the device serves what the tables say, however peer requests
\* interleaved, whatever overlapped or was cut short by a crash before the last
\* apply that nothing got in the way of: requests on different peers may run
\* side by side because syncPeer leaves the other peers alone.
QuietInSync == \A n \in Names : Quiet(n) => InSync(n)

\* Rules go before rows: after every request, and after a crash between any two
\* calls of one, no rule is left of a forward whose row is gone, disabled or was
\* given another target, as long as one request is served at a time.
NoRuleWithoutRow ==
    Busy = {} => \A r \in fw : r[1] \in PfKinds =>
      \E f \in Pfs : pfs[f].st = "active" /\ pfs[f].on /\ r \in RulesOf({f})

\* What was trashed comes back by a restore, or by a Save of the same row that the
\* removal overlapped; a purged peer comes back by a Save of its interface as well.
\* Nothing else that runs meanwhile brings a row back: neither a reconcile that has
\* read it nor an edit of the interface whose peer it was.
DeletedStaysDeleted ==
    [][/\ \A i \in Ifaces :
            ifaces[i].st \in {"trashed", "purged"} /\ ifaces'[i].st = "active" =>
              \E w \in Busy : \/ At(w, "restoreIface")
                              \/ At(w, "saveIface") /\ ~jobs[w].solo
       /\ \A p \in Peers :
            peers[p].st \in {"trashed", "purged"} /\ peers'[p].st = "active" =>
              \E w \in Busy :
                \/ At(w, "restorePeers") \/ At(w, "restorePeer")
                \/ At(w, "savePeer") /\ ~jobs[w].solo
                \/ /\ peers[p].st = "purged" /\ ~jobs[w].solo
                   /\ At(w, "saveIface") \/ At(w, "egress")]_rvars
=============================================================================

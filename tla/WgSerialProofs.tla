---------------------------- MODULE WgSerialProofs ----------------------------
(***************************************************************************)
(* The refinement theorem of WgSerial: with one worker, handlers that make *)
(* one call after another, fail at any and are killed between any two, are *)
(* the handlers of WgPanel that are one step.                              *)
(***************************************************************************)
EXTENDS WgSerial, WgRequestsProofs

\* Hypothesis: WgPanel's handlers may meet every combination of failures.
EveryFault ==
    [host: SUBSET HostFaults, add: SUBSET (NatKinds \union PfKinds),
     del: SUBSET (NatKinds \union PfKinds),
     db: SUBSET {"save", "peers", "row", "load", "egress", "pfload", "pfrow", "reserved",
                 "list"}]
AnyFault == EveryFault \subseteq PanelFaults

\* A handler of WgPanel under some combination of failures is a step of it.
LEMMA PanelSteps ==
    ASSUME AnyFault, NEW G \in EveryFault,
           Panel!System(G) \/ \E u \in Users : Panel!Request(u, G)
    PROVE  Panel!Next
  BY DEF AnyFault, Panel!Next

-----------------------------------------------------------------------------
(* The host is the same in both *)

\* The panel's step and the call act on a device alike.
LEMMA SameDevices ==
    /\ Panel!NoDevice = NoDevice
    /\ \A d, F : (Panel!LinkOK(d, F) <=> LinkOK(d, F))
    /\ \A d, a, F : Panel!EnsureLink(d, a, F) = EnsureLink(d, a, F)
    /\ \A d, F : Panel!RemoveLink(d, F) = RemoveLink(d, F)
    /\ \A d, F : (Panel!RemoveLinkOK(d, F) <=> RemoveLinkOK(d, F))
    /\ \A d, c, S : Panel!ConfigureDevice(d, c, S) = ConfigureDevice(d, c, S)
    /\ \A d, p : Panel!ConfigurePeer(d, p) = ConfigurePeer(d, p)
    /\ \A d, p : Panel!RemovePeer(d, p) = RemovePeer(d, p)
<1>1. Panel!NoDevice = NoDevice
  BY DEF Panel!NoDevice, NoDevice
<1>2. /\ \A d, F : (Panel!LinkOK(d, F) <=> LinkOK(d, F))
      /\ \A d, F : (Panel!RemoveLinkOK(d, F) <=> RemoveLinkOK(d, F))
  BY DEF Panel!LinkOK, LinkOK, Panel!RemoveLinkOK, RemoveLinkOK
<1>3. \A d, a, F : Panel!EnsureLink(d, a, F) = EnsureLink(d, a, F)
  BY DEF Panel!EnsureLink, EnsureLink
<1>4. \A d, F : Panel!RemoveLink(d, F) = RemoveLink(d, F)
  BY <1>1 DEF Panel!RemoveLink, RemoveLink
<1>5. /\ \A d, c, S : Panel!ConfigureDevice(d, c, S) = ConfigureDevice(d, c, S)
      /\ \A d, p : Panel!ConfigurePeer(d, p) = ConfigurePeer(d, p)
      /\ \A d, p : Panel!RemovePeer(d, p) = RemovePeer(d, p)
  BY DEF Panel!ConfigureDevice, ConfigureDevice, Panel!ConfigurePeer, ConfigurePeer,
         Panel!RemovePeer, RemovePeer
<1> QED BY <1>1, <1>2, <1>3, <1>4, <1>5

\* So they do on the rules.
LEMMA SameRules ==
    /\ \A n, a, e : Panel!NatRules(n, a, e) = NatRules(n, a, e)
    /\ \A f, t : Panel!PfRules(f, t) = PfRules(f, t)
    /\ \A S, R, F : Panel!EnsureRules(S, R, F) = EnsureRules(S, R, F)
    /\ \A S, R, F : Panel!DeleteRules(S, R, F) = DeleteRules(S, R, F)
    /\ \A e, r : Panel!Egress(e, r) = Egress(e, r)
    /\ \A n, a, e, r, F : (Panel!SetupNATOK(n, a, e, r, F) <=> SetupNATOK(n, a, e, r, F))
    /\ \A S, n, a, e, r, F : Panel!SetupNAT(S, n, a, e, r, F) = SetupNAT(S, n, a, e, r, F)
    /\ \A S, n, a, e, r, F : Panel!TeardownNAT(S, n, a, e, r, F) = TeardownNAT(S, n, a, e, r, F)
<1>1. /\ \A n, a, e : Panel!NatRules(n, a, e) = NatRules(n, a, e)
      /\ \A f, t : Panel!PfRules(f, t) = PfRules(f, t)
      /\ \A e, r : Panel!Egress(e, r) = Egress(e, r)
  BY DEF Panel!NatRules, NatRules, Panel!PfRules, PfRules, Panel!Egress, Egress
<1>2. /\ \A S, R, F : Panel!EnsureRules(S, R, F) = EnsureRules(S, R, F)
      /\ \A R, F : (Panel!EnsureRulesOK(R, F) <=> EnsureRulesOK(R, F))
  BY DEF Panel!EnsureRules, EnsureRules, Panel!NotAfter, NotAfter, Panel!NatKinds, NatKinds,
         Panel!PfKinds, PfKinds, Panel!EnsureRulesOK, EnsureRulesOK
<1>3. \A S, R, F : Panel!DeleteRules(S, R, F) = DeleteRules(S, R, F)
  BY DEF Panel!DeleteRules, DeleteRules
<1>4. \A n, a, e, r, F : (Panel!SetupNATOK(n, a, e, r, F) <=> SetupNATOK(n, a, e, r, F))
  BY <1>1, <1>2 DEF Panel!SetupNATOK, SetupNATOK
<1>5. \A S, n, a, e, r, F : Panel!SetupNAT(S, n, a, e, r, F) = SetupNAT(S, n, a, e, r, F)
  BY <1>1, <1>2 DEF Panel!SetupNAT, SetupNAT
<1>6. \A S, n, a, e, r, F : Panel!TeardownNAT(S, n, a, e, r, F) = TeardownNAT(S, n, a, e, r, F)
  BY <1>1, <1>3 DEF Panel!TeardownNAT, TeardownNAT
<1> QED BY <1>1, <1>2, <1>3, <1>4, <1>5, <1>6

-----------------------------------------------------------------------------
(* What reconcile can come to in one step *)

\* The device, the rules and the row after a reconcile and the cascade after it.
Finish(last, rules, i, G) ==
    IF last = "reapply" THEN Panel!Reapply(rules, Panel!Forwards(i), G)
    ELSE IF last = "unapply" THEN Panel!Unapply(rules, Panel!Forwards(i), G)
    ELSE rules
Outcome(i, row, S, rules, last, v, d, after, kept) ==
    \E G \in EveryFault :
      /\ G.db \intersect {"save", "row", "peers"} = {}
      /\ kept = Panel!Resolved(i, row, G) /\ d = Panel!ReconcileDev(i, row, S, G)
      /\ IF Panel!ReconcileOK(i, row, G)
           THEN v = "settled" /\ after = Finish(last, Panel!ReconcileFw(rules, i, row, G), i, G)
           ELSE v = "owed" /\ after = Panel!ReconcileFw(rules, i, row, G)

\* The device of an interface at the beginning, with its link, with its configuration.
Found0(i) == Shown.dev[NameOf[i]]
Ensured(i, row) == EnsureLink(Found0(i), row.addr, [host |-> {}])
Configured1(i, row, S) == ConfigureDevice(Ensured(i, row), <<i, row.port>>, S)

\* A link that was ensured is the same whatever else failed, and so are NAT rules that
\* were set up.
LEMMA AllThere ==
    /\ \A d, a, F : LinkOK(d, F) => EnsureLink(d, a, F) = EnsureLink(d, a, [host |-> {}])
    /\ \A S, n, a, e, r, F : SetupNATOK(n, a, e, r, F) =>
         SetupNAT(S, n, a, e, r, F) = S \union NatRules(n, a, Egress(e, r))
<1>1. \A d, a, F : LinkOK(d, F) => EnsureLink(d, a, F) = EnsureLink(d, a, [host |-> {}])
  BY DEF LinkOK, EnsureLink
<1>2. ASSUME NEW S, NEW n, NEW a, NEW e, NEW r, NEW F, SetupNATOK(n, a, e, r, F)
      PROVE  SetupNAT(S, n, a, e, r, F) = S \union NatRules(n, a, Egress(e, r))
  <2>1. /\ Egress(e, r) # NoLink /\ "forwarding" \notin F.host
        /\ \A x \in NatRules(n, a, Egress(e, r)) : x[1] \notin F.add
    BY <1>2 DEF SetupNATOK, EnsureRulesOK
  <2>2. F.add \intersect NatKinds = {}
    BY <2>1 DEF NatRules, NatKinds
  <2>3. \A x \in NatRules(n, a, Egress(e, r)) : NotAfter[x[1]] \intersect F.add = {}
    BY <2>2 DEF NatRules, NatKinds, NotAfter
  <2> QED BY <2>1, <2>3 DEF SetupNAT, EnsureRules
<1> QED BY <1>1, <1>2

-----------------------------------------------------------------------------
(* The calls of one worker *)

\* The rules with those of `R' added whose kinds come before a refused one, and
\* without those of `R' whose kinds do not stay.
PutIn(S, R, a) == S \union {r \in R : NotAfter[r[1]] \intersect a = {}}
Removed(S, R, d) == S \ {r \in R : r[1] \notin d}

\* What is owed after a report on the name.
OwedBy(o, n, v) == IF v = "settled" THEN o \ {n} ELSE o \union Owed(n, v)

\* The panel shows what the one request in progress began with, and what has become
\* of it once it is answered.
Showing ==
    /\ wan' = wan
    /\ IF Busy' = {} THEN Shown' = Now' ELSE Shown' = Shown

\* A request that goes on, and one that is answered.
LEMMA Proceeds ==
    ASSUME OneWorker, TInv, NEW w \in Workers, Call(w), jobs[w].solo,
           NEW x, {"calls", "verdict"} \subseteq DOMAIN x, NEW v, GoOn(w, x, v)
    PROVE  IF Len(x.calls) = 1
             THEN Busy' = {} /\ owed' = OwedBy(owed, NameOf[jobs[w].i], v)
             ELSE /\ Busy' = {w} /\ owed' = owed /\ NextJob(jobs'[w], jobs[w])
                  /\ jobs'[w].verdict = v /\ jobs'[w].calls = Tail(x.calls)
<1>1. Moves(w) /\ jobs[w] # NoJob /\ jobs \in [Workers -> Job \union {NoJob}]
  BY CallMoves DEF Busy, TInv, JobsFit
<1>2. CASE Len(x.calls) = 1
  <2>1. Answer(w, v)
    BY <1>2 DEF GoOn
  <2>2. jobs'[w] = NoJob
    BY <1>1, <2>1, Answered
  <2> QED BY <1>2, <2>1, <2>2 DEF Busy, OneWorker, Answer, OwedBy
<1>3. CASE Len(x.calls) # 1
  <2> DEFINE y == [x EXCEPT !.calls = Tail(@), !.verdict = v]
  <2>1. jobs' = [jobs EXCEPT ![w] = y] /\ owed' = owed
    BY <1>3 DEF GoOn
  <2>2. y.verdict = v /\ y.calls = Tail(x.calls) /\ "verdict" \in DOMAIN y
    OBVIOUS
  <2>3. y # NoJob
    <3>1. DOMAIN <<>> = {}
      OBVIOUS
    <3> HIDE DEF y
    <3> QED BY <2>2, <3>1 DEF NoJob
  <2> HIDE DEF y
  <2>4. jobs'[w] = y
    BY <1>1, <2>1
  <2>5. Busy' = {w}
    BY <2>3, <2>4 DEF Busy, OneWorker
  <2> QED BY <1>1, <1>3, <2>1, <2>2, <2>3, <2>4, <2>5 DEF Moves
<1> QED BY <1>2, <1>3

\* A job has the parts it goes on with.
LEMMA JobDomain ==
    ASSUME NEW j \in Job
    PROVE  {"calls", "verdict"} \subseteq DOMAIN j /\ j.calls \in Seq(Calls)
  BY DEF Job

\* A request that is answered is over, and owes what its verdict says.
LEMMA Stops ==
    ASSUME OneWorker, TInv, NEW w \in Workers, Call(w), jobs[w].solo, NEW v, Stop(w, v)
    PROVE  Busy' = {} /\ owed' = OwedBy(owed, NameOf[jobs[w].i], v)
<1>1. jobs[w] # NoJob
  BY CallMoves DEF Busy
<1>2. jobs'[w] = NoJob
  BY <1>1, Answered DEF Stop
<1> QED BY <1>2 DEF Busy, OneWorker, Stop, Answer, OwedBy

\* What was asked for stays so from call to call.
LEMMA AskedStays ==
    ASSUME NEW j, NEW k, NextJob(k, j), k.new = j.new, NEW ti, NEW tp, NEW tf, NEW route,
           Asked(j, ti, tp, tf, route)
    PROVE  /\ k.op = j.op /\ k.i = j.i /\ k.p = j.p /\ k.f = j.f /\ k.solo = j.solo
           /\ Asked(k, ti, tp, tf, route)
<1>1. k.op = j.op /\ k.i = j.i /\ k.p = j.p /\ k.f = j.f /\ k.solo = j.solo /\ k.pf = j.pf
  BY DEF NextJob
<1>2. Asked(k, ti, tp, tf, route)
  BY <1>1 DEF Asked
<1> QED BY <1>1, <1>2

-----------------------------------------------------------------------------
(* Failures of calls on rules *)

OfForwards(R) == \A r \in R : r[1] \in PfKinds

\* Which rules of forwards are in after a call can be told by the kinds alone.
LEMMA RulesUnderFaults ==
    /\ \A F : \E a \in SUBSET PfKinds : \A S, R : OfForwards(R) =>
         EnsureRules(S, R, F) = PutIn(S, R, a)
    /\ \A F : \E d \in SUBSET PfKinds : \A S, R : OfForwards(R) =>
         DeleteRules(S, R, F) = Removed(S, R, d)
    /\ \A S, R : OfForwards(R) => PutIn(S, R, {"dnat"}) = S
    /\ \A S, R, G : "forwarding" \notin G.host => EnsureRules(S, R, G) = PutIn(S, R, G.add)
    /\ \A S, R, G : DeleteRules(S, R, G) = Removed(S, R, G.del)
    /\ \A f, t : OfForwards(PfRules(f, t))
<1>1. \A S, R : OfForwards(R) => PutIn(S, R, {"dnat"}) = S
  <2> SUFFICES ASSUME NEW S, NEW R, OfForwards(R) PROVE PutIn(S, R, {"dnat"}) = S
    OBVIOUS
  <2>1. \A k \in PfKinds : "dnat" \in NotAfter[k]
    BY DEF PfKinds, NotAfter
  <2> QED BY <2>1 DEF PutIn, OfForwards
<1>2. ASSUME NEW F
      PROVE  \E a \in SUBSET PfKinds : \A S, R : OfForwards(R) =>
               EnsureRules(S, R, F) = PutIn(S, R, a)
  <2>1. CASE "forwarding" \in F.host
    <3>1. {"dnat"} \in SUBSET PfKinds
      BY DEF PfKinds
    <3>2. \A S, R : EnsureRules(S, R, F) = S
      BY <2>1 DEF EnsureRules
    <3> QED BY <1>1, <3>1, <3>2
  <2>2. CASE "forwarding" \notin F.host
    <3>1. \A k \in PfKinds : NotAfter[k] \subseteq PfKinds
      BY DEF PfKinds, NatKinds, NotAfter
    <3>2. \A k \in PfKinds : NotAfter[k] \intersect F.add = {}
                               <=> NotAfter[k] \intersect (F.add \intersect PfKinds) = {}
      BY <3>1
    <3>3. \A S, R : OfForwards(R) => EnsureRules(S, R, F) = PutIn(S, R, F.add \intersect PfKinds)
      BY <2>2, <3>2 DEF EnsureRules, PutIn, OfForwards
    <3> QED BY <3>3
  <2> QED BY <2>1, <2>2
<1>3. ASSUME NEW F
      PROVE  \E d \in SUBSET PfKinds : \A S, R : OfForwards(R) =>
               DeleteRules(S, R, F) = Removed(S, R, d)
  <2>1. \A S, R : OfForwards(R) => DeleteRules(S, R, F) = Removed(S, R, F.del \intersect PfKinds)
    BY DEF DeleteRules, Removed, OfForwards
  <2> QED BY <2>1
<1>4. \A S, R, G : "forwarding" \notin G.host => EnsureRules(S, R, G) = PutIn(S, R, G.add)
  BY DEF EnsureRules, PutIn
<1>5. \A S, R, G : DeleteRules(S, R, G) = Removed(S, R, G.del)
  BY DEF DeleteRules, Removed
<1>6. \A f, t : OfForwards(PfRules(f, t))
  BY DEF OfForwards, PfRules, PfKinds
<1> QED BY <1>1, <1>2, <1>3, <1>4, <1>5, <1>6

-----------------------------------------------------------------------------
(* Forward requests, as one step *)

\* A combination of failures.
Failing(h, a, d, s) == [host |-> h, add |-> a, del |-> d, db |-> s]

\* The combination of failures a handler is said to meet, and that it is one.
LEMMA FailingParts ==
    /\ \A h, a, d, s : /\ Failing(h, a, d, s).host = h /\ Failing(h, a, d, s).add = a
                       /\ Failing(h, a, d, s).del = d /\ Failing(h, a, d, s).db = s
    /\ \A h \in SUBSET HostFaults, a \in SUBSET (NatKinds \union PfKinds),
          d \in SUBSET (NatKinds \union PfKinds),
          s \in SUBSET {"save", "peers", "row", "load", "egress", "pfload", "pfrow",
                        "reserved", "list"} :
         Failing(h, a, d, s) \in EveryFault
<1>1. \A h, a, d, s : /\ Failing(h, a, d, s).host = h /\ Failing(h, a, d, s).add = a
                      /\ Failing(h, a, d, s).del = d /\ Failing(h, a, d, s).db = s
  BY DEF Failing
<1>2. \A h \in SUBSET HostFaults, a \in SUBSET (NatKinds \union PfKinds),
         d \in SUBSET (NatKinds \union PfKinds),
         s \in SUBSET {"save", "peers", "row", "load", "egress", "pfload", "pfrow",
                       "reserved", "list"} :
        Failing(h, a, d, s) \in EveryFault
  BY DEF Failing, EveryFault
<1> QED BY <1>1, <1>2

\* The tables, the devices and what is left to the bootstrap end as they began.
EndsWith(i, p, x, d, r, o) ==
    /\ ifaces' = i /\ peers' = p /\ pfs' = x /\ dev' = d /\ fw' = r /\ owed' = o
    /\ todo' = Shown.todo /\ pfTodo' = Shown.pfTodo
    /\ Shown' = Now' /\ wan' = wan

\* POST /port-forwards: the row, and as many of its rules as went in.
LEMMA AddPfDone ==
    ASSUME AnyFault, NEW j, j.op = "addPf", j.f \in Pfs,
           Asked(j, Shown.ifaces, Shown.peers, Shown.pfs, wan), NEW a \in SUBSET PfKinds,
           \A g \in Pfs \ {j.f} : Shown.pfs[g].st = "active" => Shown.pfs[g].pub # j.new.pub,
           EndsWith(Shown.ifaces, Shown.peers, [Shown.pfs EXCEPT ![j.f] = j.new], Shown.dev,
                    PutIn(Shown.fw, PfRules(j.f, j.new.tport), a), Shown.owed)
    PROVE  Panel!Next
<1>1. PICK u \in Users : 
           /\ j.p \in Peers /\ Shown.peers[j.p].st = "active" /\ j.i = Shown.peers[j.p].iface
           /\ Shown.ifaces[j.i].st = "active" /\ Owns(u, Shown.ifaces[j.i].owner)
           /\ Egress(Shown.ifaces[j.i].egress, wan) # NoLink /\ Shown.pfs[j.f].st = "none"
           /\ \E pub \in PortChoices.public, tport \in PortChoices.target :
                j.new = [st |-> "active", iface |-> j.i, peer |-> j.p, on |-> TRUE,
                         pub |-> pub, tport |-> tport, owner |-> u]
  BY DEF Asked, Entitled
<1>2. PICK pub \in PortChoices.public, tport \in PortChoices.target :
        j.new = [st |-> "active", iface |-> j.i, peer |-> j.p, on |-> TRUE,
                 pub |-> pub, tport |-> tport, owner |-> u]
  BY <1>1
<1> DEFINE G == Failing({}, a, {}, {"reserved"})
<1>3. G \in EveryFault /\ G.host = {} /\ G.add = a /\ G.db = {"reserved"}
  BY FailingParts
<1> HIDE DEF G
<1>4. Panel!EnsureRules(Shown.fw, Panel!PfRules(j.f, tport), G)
        = PutIn(Shown.fw, PfRules(j.f, j.new.tport), a)
  <2>1. j.new.tport = tport
    BY <1>2
  <2> QED BY <1>3, <2>1, SameRules, RulesUnderFaults
<1>5. Panel!PfCreate(u, j.p, j.f, G)
  <2>1. ~Panel!Reserved(pub, G)
    BY <1>3 DEF Panel!Reserved
  <2>2. Panel!Active(j.i) /\ Panel!Owns(u, Shown.ifaces[j.i].owner)
        /\ Panel!Egress(Shown.ifaces[j.i].egress, wan) # NoLink
    <3>1. Panel!Active(j.i) /\ Panel!Owns(u, Shown.ifaces[j.i].owner)
      BY <1>1 DEF Panel!Active, Panel!Owns, Owns
    <3>2. Panel!Egress(Shown.ifaces[j.i].egress, wan) # NoLink
      BY <1>1, SameRules
    <3> QED BY <3>1, <3>2
  <2>3. \A g \in Pfs : Shown.pfs[g].st = "active" => Shown.pfs[g].pub # pub
    <3>1. j.new.pub = pub
      BY <1>2
    <3>2. Shown.pfs[j.f].st = "none"
      BY <1>1
    <3> QED BY <3>1, <3>2
  <2>4. /\ Shown.peers[j.p].st = "active" /\ Shown.pfs[j.f].st = "none"
        /\ Shown.peers[j.p].iface = j.i /\ "save" \notin G.db
    <3>1. "save" \notin G.db
      BY <1>3
    <3> QED BY <1>1, <3>1
  <2>5. Shown.pfs' = [Shown.pfs EXCEPT ![j.f] =
                        [st |-> "active", iface |-> j.i, peer |-> j.p, on |-> TRUE,
                         pub |-> pub, tport |-> tport, owner |-> u]]
    BY <1>2 DEF EndsWith, Now
  <2>6. Shown.fw' = Panel!EnsureRules(Shown.fw, Panel!PfRules(j.f, tport), G)
    BY <1>4 DEF EndsWith, Now
  <2>7. UNCHANGED <<Shown.ifaces, Shown.peers, Shown.dev, wan, Panel!boot, Shown.owed>>
    BY DEF EndsWith, Now, Panel!boot
  <2> QED BY <2>1, <2>2, <2>3, <2>4, <2>5, <2>6, <2>7 DEF Panel!PfCreate
<1> QED BY <1>1, <1>3, <1>5, PanelSteps DEF Panel!Request

\* The old rules are gone, up to `d', and the row is saved or not.
LEMMA EditPfDone ==
    ASSUME AnyFault, NEW j, j.op = "editPf", j.f \in Pfs,
           Asked(j, Shown.ifaces, Shown.peers, Shown.pfs, wan),
           NEW a \in SUBSET PfKinds, NEW d \in SUBSET PfKinds, NEW saved \in BOOLEAN,
           LET removed == Removed(Shown.fw, PfRules(j.f, j.pf.tport), d)
           IN  EndsWith(Shown.ifaces, Shown.peers,
                        IF saved THEN [Shown.pfs EXCEPT ![j.f] = j.new] ELSE Shown.pfs,
                        Shown.dev,
                        IF saved /\ j.new.on
                          THEN PutIn(removed, PfRules(j.f, j.new.tport), a) ELSE removed,
                        Shown.owed),
           Shown.pfs \in [Pfs -> Pf]
    PROVE  Panel!Next
<1>1. PICK u \in Users :
           /\ Shown.pfs[j.f].st = "active" /\ Owns(u, Shown.pfs[j.f].owner)
           /\ InTable(Shown.ifaces[Shown.pfs[j.f].iface]) /\ j.pf = Shown.pfs[j.f]
           /\ \E tport \in PortChoices.target, on \in BOOLEAN :
                j.new = [Shown.pfs[j.f] EXCEPT !.tport = tport, !.on = on]
  BY DEF Asked, Entitled
<1>2. PICK tport \in PortChoices.target, on \in BOOLEAN :
        j.new = [Shown.pfs[j.f] EXCEPT !.tport = tport, !.on = on]
  BY <1>1
<1>3. j.new.tport = tport /\ j.new.on = on /\ Shown.pfs[j.f] \in Pf
  BY <1>2 DEF Pf
<1> DEFINE G == Failing({}, a, d, IF saved THEN {} ELSE {"save"})
           removed == Removed(Shown.fw, PfRules(j.f, j.pf.tport), d)
           after == PutIn(removed, PfRules(j.f, j.new.tport), a)
<1>4. G \in EveryFault /\ G.host = {} /\ G.add = a /\ G.del = d /\ ("save" \in G.db <=> ~saved)
  BY FailingParts
<1> HIDE DEF G
<1>5. Panel!DeleteRules(Shown.fw, Panel!PfRules(j.f, Shown.pfs[j.f].tport), G) = removed
  BY <1>1, <1>4, SameRules, RulesUnderFaults
<1>6. Panel!EnsureRules(removed, Panel!PfRules(j.f, tport), G) = after
  <2> HIDE DEF removed
  <2> QED BY <1>3, <1>4, SameRules, RulesUnderFaults
<1>7. saved => pfs' = [Shown.pfs EXCEPT ![j.f].tport = tport, ![j.f].on = on]
  <2>1. \A r : [Shown.pfs EXCEPT ![j.f] = [Shown.pfs[j.f] EXCEPT !.tport = tport, !.on = on]]
               = [Shown.pfs EXCEPT ![j.f].tport = tport, ![j.f].on = on]
    BY <1>3 DEF Pf
  <2> QED BY <1>2, <2>1 DEF EndsWith
<1>8. fw' = IF saved /\ on THEN after ELSE removed
  BY <1>3 DEF EndsWith
<1> HIDE DEF removed, after
<1>9. Panel!PfUpdate(u, j.f, G)
  <2>1. Panel!Owns(u, Shown.pfs[j.f].owner) /\ Panel!InTable(Shown.ifaces[Shown.pfs[j.f].iface])
    BY <1>1 DEF Panel!Owns, Owns, Panel!InTable, InTable
  <2>2. saved \/ pfs' = Shown.pfs
    BY DEF EndsWith
  <2> QED BY <1>1, <1>4, <1>5, <1>6, <1>7, <1>8, <2>1, <2>2
          DEF Panel!PfUpdate, EndsWith, Now, Panel!boot
<1> QED BY <1>4, <1>9, PanelSteps DEF Panel!Request

\* The rules are gone, up to `d', and with them the row or not.
LEMMA DelPfDone ==
    ASSUME AnyFault, NEW j, j.op = "delPf", j.f \in Pfs,
           Asked(j, Shown.ifaces, Shown.peers, Shown.pfs, wan),
           NEW d \in SUBSET PfKinds, NEW gone \in BOOLEAN,
           EndsWith(Shown.ifaces, Shown.peers,
                    IF gone THEN [Shown.pfs EXCEPT ![j.f] = BlankPf("purged")] ELSE Shown.pfs,
                    Shown.dev, Removed(Shown.fw, PfRules(j.f, j.pf.tport), d), Shown.owed)
    PROVE  Panel!Next
<1>1. PICK u \in Users :
           /\ Shown.pfs[j.f].st = "active" /\ Owns(u, Shown.pfs[j.f].owner)
           /\ InTable(Shown.ifaces[Shown.pfs[j.f].iface]) /\ j.pf = Shown.pfs[j.f]
  BY DEF Asked, Entitled
<1> DEFINE G == Failing({}, {}, d, IF gone THEN {} ELSE {"row"})
<1>2. G \in EveryFault /\ G.del = d /\ ("row" \in G.db <=> ~gone)
  BY FailingParts
<1> HIDE DEF G
<1>3. Panel!DeleteRules(Shown.fw, Panel!PfRules(j.f, Shown.pfs[j.f].tport), G)
        = Removed(Shown.fw, PfRules(j.f, j.pf.tport), d)
  BY <1>1, <1>2, SameRules, RulesUnderFaults
<1>4. Panel!PfDelete(u, j.f, G)
  <2>1. Panel!Owns(u, Shown.pfs[j.f].owner) /\ Panel!InTable(Shown.ifaces[Shown.pfs[j.f].iface])
    BY <1>1 DEF Panel!Owns, Owns, Panel!InTable, InTable
  <2> QED BY <1>1, <1>2, <1>3, <2>1
          DEF Panel!PfDelete, EndsWith, Now, Panel!boot, Panel!BlankPf, BlankPf
<1> QED BY <1>2, <1>4, PanelSteps DEF Panel!Request

\* The forwards the bootstrap re-applies.
WantedForwards ==
    {f \in Pfs : Shown.pfs[f].st = "active" /\ Shown.pfs[f].iface \in Panel!Wanted}

\* The end of the bootstrap: the rules of every enabled forward, as many as went in.
LEMMA BootPfsDone ==
    ASSUME AnyFault, Shown.todo = {}, Shown.pfTodo, NEW a \in SUBSET PfKinds,
           ifaces' = Shown.ifaces, peers' = Shown.peers, pfs' = Shown.pfs, dev' = Shown.dev,
           fw' = PutIn(Shown.fw, Panel!RulesOf(Panel!Enabled(WantedForwards)), a),
           owed' = Shown.owed, todo' = {}, pfTodo' = FALSE, Shown' = Now', wan' = wan
    PROVE  Panel!Next
<1> DEFINE G == Failing({}, a, {}, {})
<1>1. G \in EveryFault /\ G.host = {} /\ G.add = a /\ G.db = {}
  BY FailingParts
<1> HIDE DEF G
<1>2. Panel!Reapply(Shown.fw, WantedForwards, G) = fw'
  BY <1>1, SameRules, RulesUnderFaults DEF Panel!Reapply, Panel!Found
<1>3. Panel!BootForwards(G)
  BY <1>1, <1>2 DEF Panel!BootForwards, WantedForwards, Now, Panel!db
<1> QED BY <1>1, <1>3, PanelSteps DEF Panel!System

\* Each call by its name.
LEMMA CallAt ==
    ASSUME NEW w \in Workers, Call(w)
    PROVE  \E F \in FaultSets :
             LET call == Head(jobs[w].calls)
             IN  /\ call = "insertIface" => InsertIface(w, F)
                 /\ call = "saveIface" => SaveIface(w, F)
                 /\ call = "trashIface" => TrashIface(w, F)
                 /\ call = "restoreIface" => RestoreIface(w, F)
                 /\ call = "purgeIface" => PurgeIface(w, F)
                 /\ call \in {"trashPeers", "restorePeers", "purgePeers"} => MovePeers(w, F)
                 /\ call = "load" => Load(w, F)
                 /\ call = "ensure" => Ensure(w, F)
                 /\ call = "configure" => Configure(w, F)
                 /\ call \in {"rmlink", "unlink"} => RemoveDevice(w, F)
                 /\ call = "teardown" => Teardown(w, F)
                 /\ call = "setup" => Setup(w, F)
                 /\ call = "egress" => StoreEgress(w, F)
                 /\ call \in {"insertPeer", "savePeer", "trashPeer", "restorePeer", "purgePeer"}
                      => PeerStatement(w, F)
                 /\ call = "parent" => Parent(w, F)
                 /\ call = "peer" => SyncOne(w, F)
                 /\ call \in {"reapply", "reapplyAll", "unapply", "purgePfs"} => Cascade(w, F)
                 /\ call \in {"insertPf", "savePf", "deletePf"} => PfStatement(w, F)
                 /\ call \in {"removePf", "applyPf"} => PfRulesCall(w, F)
<1>1. PICK F \in FaultSets :
      \/ InsertIface(w, F)   \/ SaveIface(w, F)     \/ TrashIface(w, F)
      \/ RestoreIface(w, F)  \/ PurgeIface(w, F)    \/ MovePeers(w, F)
      \/ Load(w, F)          \/ Ensure(w, F)        \/ Configure(w, F)
      \/ RemoveDevice(w, F)  \/ Teardown(w, F)      \/ Setup(w, F)
      \/ StoreEgress(w, F)   \/ PeerStatement(w, F) \/ Parent(w, F)
      \/ SyncOne(w, F)       \/ Cascade(w, F)       \/ PfStatement(w, F)
      \/ PfRulesCall(w, F)
  BY DEF Call
<1> DEFINE call == Head(jobs[w].calls)
<1>2. /\ InsertIface(w, F) => call = "insertIface"
      /\ SaveIface(w, F) => call = "saveIface"
      /\ TrashIface(w, F) => call = "trashIface"
      /\ RestoreIface(w, F) => call = "restoreIface"
      /\ PurgeIface(w, F) => call = "purgeIface"
      /\ MovePeers(w, F) => call \in {"trashPeers", "restorePeers", "purgePeers"}
  BY DEF InsertIface, SaveIface, TrashIface, RestoreIface, PurgeIface, MovePeers, At
<1>3. /\ Load(w, F) => call = "load"
      /\ Ensure(w, F) => call = "ensure"
      /\ Configure(w, F) => call = "configure"
      /\ RemoveDevice(w, F) => call \in {"rmlink", "unlink"}
      /\ Teardown(w, F) => call = "teardown"
      /\ Setup(w, F) => call = "setup"
      /\ StoreEgress(w, F) => call = "egress"
  BY DEF Load, Ensure, Configure, RemoveDevice, Teardown, Setup, StoreEgress, At
<1>4. /\ PeerStatement(w, F) =>
           call \in {"insertPeer", "savePeer", "trashPeer", "restorePeer", "purgePeer"}
      /\ Parent(w, F) => call = "parent"
      /\ SyncOne(w, F) => call = "peer"
      /\ Cascade(w, F) => call \in {"reapply", "reapplyAll", "unapply", "purgePfs"}
      /\ PfStatement(w, F) => call \in {"insertPf", "savePf", "deletePf"}
      /\ PfRulesCall(w, F) => call \in {"removePf", "applyPf"}
  BY DEF PeerStatement, Parent, SyncOne, Cascade, PfStatement, PfRulesCall, At
<1> HIDE DEF call
<1> QED BY <1>1, <1>2, <1>3, <1>4 DEF call

-----------------------------------------------------------------------------
(* Forward requests, call by call *)

ShownTyped ==
    /\ Shown.ifaces \in [Ifaces -> Iface] /\ Shown.peers \in [Peers -> Peer]
    /\ Shown.pfs \in [Pfs -> Pf] /\ Shown.dev \in [Names -> Device]
    /\ Shown.todo \subseteq Ifaces

\* Where the handler of a forward is, in terms of what it began with.
PfStage(j) ==
    /\ ifaces = Shown.ifaces /\ peers = Shown.peers /\ dev = Shown.dev
    /\ owed = Shown.owed /\ todo = Shown.todo /\ j.verdict = "none"
    /\ IF j.op = "bootPfs" THEN todo = {} /\ Shown.pfTodo /\ pfTodo = FALSE
                           ELSE pfTodo = Shown.pfTodo
    /\ j.op = "bootPfs" => j.calls = <<"reapplyAll">> /\ pfs = Shown.pfs /\ fw = Shown.fw
    /\ j.op = "addPf" =>
         /\ fw = Shown.fw
         /\ \/ j.calls = <<"insertPf", "applyPf">> /\ pfs = Shown.pfs
            \/ /\ j.calls = <<"applyPf">> /\ pfs = [Shown.pfs EXCEPT ![j.f] = j.new]
               /\ \A g \in Pfs \ {j.f} :
                    Shown.pfs[g].st = "active" => Shown.pfs[g].pub # j.new.pub
    /\ j.op \in {"editPf", "delPf"} =>
         \/ /\ pfs = Shown.pfs /\ fw = Shown.fw
            /\ j.calls = IF j.op = "editPf" THEN <<"removePf", "savePf", "applyPf">>
                                            ELSE <<"removePf", "deletePf">>
         \/ /\ \E d \in SUBSET PfKinds : fw = Removed(Shown.fw, PfRules(j.f, j.pf.tport), d)
            /\ \/ j.op = "editPf" /\ j.calls = <<"savePf", "applyPf">> /\ pfs = Shown.pfs
               \/ /\ j.op = "editPf" /\ j.calls = <<"applyPf">>
                  /\ pfs = [Shown.pfs EXCEPT ![j.f] = j.new]
               \/ j.op = "delPf" /\ j.calls = <<"deletePf">> /\ pfs = Shown.pfs

\* Reports that settle nothing.
LEMMA Reports ==
    /\ \A o, n : OwedBy(o, n, "none") = o /\ OwedBy(o, n, "settled") = o \ {n}
    /\ \A o, n : OwedBy(o, n, "owed") = o \union {n} /\ OwedBy(o, n, "cut") = o \union {n}
  BY DEF OwedBy, Owed

\* What the proofs about calls start from.
Serving(w) ==
    /\ OneWorker /\ AnyFault /\ TInv /\ ShownTyped /\ Showing /\ w \in Busy
    /\ jobs[w].solo /\ Asked(jobs[w], Shown.ifaces, Shown.peers, Shown.pfs, wan)

\* Calls leave alone what is left to the bootstrap.
LEMMA BootAside ==
    ASSUME NEW w \in Workers, Call(w)
    PROVE  UNCHANGED <<todo, pfTodo, wan>>
  BY DEF Call, InsertIface, SaveIface, TrashIface, RestoreIface, PurgeIface, MovePeers, Load,
         Ensure, Configure, RemoveDevice, Teardown, Setup, StoreEgress, PeerStatement, Parent,
         SyncOne, Cascade, PfStatement, PfRulesCall, Aside, boot

\* A call after which the handler goes on with its script, or has answered.
LEMMA Onwards ==
    ASSUME NEW w \in Workers, Serving(w), Call(w), NEW v, GoOn(w, jobs[w], v)
    PROVE  IF Len(jobs[w].calls) = 1
             THEN /\ Busy' = {} /\ owed' = OwedBy(owed, NameOf[jobs[w].i], v)
                  /\ Shown' = Now'
             ELSE /\ Busy' = {w} /\ owed' = owed /\ NextJob(jobs'[w], jobs[w])
                  /\ jobs'[w].verdict = v /\ jobs'[w].calls = Tail(jobs[w].calls)
                  /\ jobs'[w].op = jobs[w].op /\ jobs'[w].i = jobs[w].i
                  /\ jobs'[w].p = jobs[w].p /\ jobs'[w].f = jobs[w].f
                  /\ jobs'[w].pf = jobs[w].pf /\ Shown' = Shown
<1>1. jobs[w] \in Job
  BY DEF Serving, TInv, JobsFit, Busy, Fits
<1>2. {"calls", "verdict"} \subseteq DOMAIN jobs[w]
  BY <1>1, JobDomain
<1>3. IF Len(jobs[w].calls) = 1
        THEN Busy' = {} /\ owed' = OwedBy(owed, NameOf[jobs[w].i], v)
        ELSE /\ Busy' = {w} /\ owed' = owed /\ NextJob(jobs'[w], jobs[w])
             /\ jobs'[w].verdict = v /\ jobs'[w].calls = Tail(jobs[w].calls)
  BY <1>2, Proceeds DEF Serving
<1> QED BY <1>3 DEF Serving, Showing, NextJob

\* A handler that gives up.
LEMMA Stopped ==
    ASSUME NEW w \in Workers, Serving(w), Call(w), NEW v, Stop(w, v)
    PROVE  Busy' = {} /\ owed' = OwedBy(owed, NameOf[jobs[w].i], v) /\ Shown' = Now'
<1>1. Busy' = {} /\ owed' = OwedBy(owed, NameOf[jobs[w].i], v)
  BY Stops DEF Serving
<1> QED BY <1>1 DEF Serving, Showing

\* What requests on forwards ask for.
LEMMA AskedOfPf ==
    ASSUME NEW j, NEW ti, NEW tp, NEW tf, NEW route, Asked(j, ti, tp, tf, route)
    PROVE  /\ j.op = "addPf" => j.new.on
           /\ j.op \in {"editPf", "delPf"} => tf[j.f].st = "active" /\ j.pf = tf[j.f]
<1>1. CASE j.op = "addPf"
  <2>1. PICK u \in Users :
          \E pub \in PortChoices.public, tport \in PortChoices.target :
            j.new = [st |-> "active", iface |-> j.i, peer |-> j.p, on |-> TRUE, pub |-> pub,
                     tport |-> tport, owner |-> u]
    BY <1>1, Zenon DEF Asked, Entitled
  <2>2. j.new.on
    BY <2>1
  <2> QED BY <1>1, <2>2
<1>2. CASE j.op # "addPf"
  BY <1>2, Zenon DEF Asked, Entitled
<1> QED BY <1>1, <1>2

\* The row of a new forward: inserted, or refused.
LEMMA InsertPfLands ==
    ASSUME NEW w \in Workers, Serving(w), Call(w), PfStage(jobs[w]), jobs[w].op = "addPf",
           jobs[w].calls = <<"insertPf", "applyPf">>
    PROVE  IF Busy' = {} THEN UNCHANGED Panel!vars
           ELSE /\ NextJob(jobs'[w], jobs[w]) /\ jobs'[w].new = jobs[w].new
                /\ PfStage(jobs[w])'
<1> DEFINE j == jobs[w]
<1>1. j \in Job /\ Fits(j) /\ j.f \in Pfs /\ j.new \in Pf
  BY DEF Serving, TInv, JobsFit, Busy, Fits, Carries
<1>2. PICK F : PfStatement(w, F)
  BY CallAt
<1>3. [j EXCEPT !.new = j.new] = j
  BY <1>1 DEF Job
<1>4. \/ /\ PortFits(j.f, j.new) /\ pfs' = [pfs EXCEPT ![j.f] = j.new]
         /\ GoOn(w, j, "none")
      \/ pfs' = pfs /\ Stop(w, "none")
  BY <1>2, <1>3 DEF PfStatement, At
<1>5. UNCHANGED <<ifaces, peers, dev, fw, todo, pfTodo, wan>>
  BY <1>2, BootAside DEF PfStatement, HostUntouched
<1>6. CASE pfs' = pfs /\ Stop(w, "none")
  <2>1. Busy' = {} /\ owed' = owed /\ Shown' = Now'
    BY <1>6, Stopped, Reports
  <2>2. UNCHANGED Panel!vars
    BY <1>5, <1>6, <2>1 DEF PfStage, Now, Panel!vars
  <2> QED BY <2>1, <2>2
<1>7. CASE /\ PortFits(j.f, j.new) /\ pfs' = [pfs EXCEPT ![j.f] = j.new]
           /\ GoOn(w, j, "none")
  <2>1. Len(j.calls) # 1 /\ Tail(j.calls) = <<"applyPf">>
    OBVIOUS
  <2>2. /\ Busy' = {w} /\ owed' = owed /\ NextJob(jobs'[w], j) /\ Shown' = Shown
        /\ jobs'[w].verdict = "none" /\ jobs'[w].calls = <<"applyPf">>
        /\ jobs'[w].op = "addPf" /\ jobs'[w].f = j.f
    BY <1>7, <2>1, Onwards
  <2>3. jobs'[w].new = j.new
    BY <1>1, <1>7, <2>2 DEF NextJob, Serving, TInv, TypeOK
  <2>4. /\ (ifaces = Shown.ifaces)' /\ (peers = Shown.peers)' /\ (dev = Shown.dev)'
        /\ (owed = Shown.owed)' /\ (todo = Shown.todo)' /\ (pfTodo = Shown.pfTodo)'
        /\ (fw = Shown.fw)'
    BY <1>5, <2>2 DEF PfStage
  <2>5. (pfs = [Shown.pfs EXCEPT ![jobs[w].f] = jobs[w].new])'
    BY <1>7, <2>2, <2>3 DEF PfStage
  <2>6. \A g \in Pfs \ {j.f} : Shown.pfs[g].st = "active" => Shown.pfs[g].pub # j.new.pub
    BY <1>7 DEF PfStage, PortFits
  <2>7. PfStage(jobs[w])'
    BY <2>2, <2>3, <2>4, <2>5, <2>6 DEF PfStage
  <2> QED BY <2>2, <2>3, <2>7
<1> QED BY <1>4, <1>6, <1>7

\* The Save of a forward whose old rules are gone.
LEMMA SavePfLands ==
    ASSUME NEW w \in Workers, Serving(w), Call(w), PfStage(jobs[w]), jobs[w].op = "editPf",
           jobs[w].calls = <<"savePf", "applyPf">>
    PROVE  IF Busy' = {} THEN Panel!Next
           ELSE /\ NextJob(jobs'[w], jobs[w]) /\ jobs'[w].new = jobs[w].new
                /\ PfStage(jobs[w])'
<1> DEFINE j == jobs[w]
<1>1. j \in Job /\ Fits(j) /\ j.f \in Pfs /\ j.new \in Pf
  BY DEF Serving, TInv, JobsFit, Busy, Fits, Carries
<1>2. PICK F : PfStatement(w, F)
  BY CallAt
<1>3. PICK d \in SUBSET PfKinds : fw = Removed(Shown.fw, PfRules(j.f, j.pf.tport), d)
  BY DEF PfStage
<1>4. pfs = Shown.pfs /\ pfs[j.f].st = "active"
  BY AskedOfPf DEF PfStage, Serving
<1>5. [j EXCEPT !.new = j.new] = j /\ Upsert(j.new, pfs[j.f].st = "active") = j.new
  BY <1>1, <1>4 DEF Job, Upsert
<1>6. \/ pfs' = [pfs EXCEPT ![j.f] = j.new] /\ GoOn(w, j, "none")
      \/ pfs' = pfs /\ Stop(w, "none")
  BY <1>2, <1>5 DEF PfStatement, At
<1>7. UNCHANGED <<ifaces, peers, dev, fw, todo, pfTodo, wan>>
  BY <1>2, BootAside DEF PfStatement, HostUntouched
<1>8. CASE pfs' = pfs /\ Stop(w, "none")
  <2>1. Busy' = {} /\ owed' = owed /\ Shown' = Now'
    BY <1>8, Stopped, Reports
  <2>2. EndsWith(Shown.ifaces, Shown.peers, Shown.pfs, Shown.dev,
                 Removed(Shown.fw, PfRules(j.f, j.pf.tport), d), Shown.owed)
    BY <1>3, <1>4, <1>7, <1>8, <2>1 DEF PfStage, EndsWith
  <2>3. \A saved \in BOOLEAN, a \in SUBSET PfKinds : ~saved => Panel!Next
    BY <1>1, <2>2, EditPfDone DEF Serving, ShownTyped
  <2> QED BY <2>1, <2>3
<1>9. CASE pfs' = [pfs EXCEPT ![j.f] = j.new] /\ GoOn(w, j, "none")
  <2>1. Len(j.calls) # 1 /\ Tail(j.calls) = <<"applyPf">>
    OBVIOUS
  <2>2. /\ Busy' = {w} /\ owed' = owed /\ NextJob(jobs'[w], j) /\ Shown' = Shown
        /\ jobs'[w].verdict = "none" /\ jobs'[w].calls = <<"applyPf">>
        /\ jobs'[w].op = "editPf" /\ jobs'[w].f = j.f /\ jobs'[w].pf = j.pf
    BY <1>9, <2>1, Onwards
  <2>3. jobs'[w].new = j.new
    BY <1>1, <1>9, <2>2 DEF NextJob, Serving, TInv, TypeOK
  <2>4. PfStage(jobs[w])'
    BY <1>3, <1>4, <1>7, <1>9, <2>2, <2>3 DEF PfStage
  <2> QED BY <2>2, <2>3, <2>4
<1> QED BY <1>6, <1>8, <1>9

\* The end of Delete.
LEMMA DeletePfLands ==
    ASSUME NEW w \in Workers, Serving(w), Call(w), PfStage(jobs[w]), jobs[w].op = "delPf",
           jobs[w].calls = <<"deletePf">>
    PROVE  Busy' = {} /\ Panel!Next
<1> DEFINE j == jobs[w]
<1>1. j \in Job /\ Fits(j) /\ j.f \in Pfs
  BY DEF Serving, TInv, JobsFit, Busy, Fits, Carries
<1>2. PICK F : PfStatement(w, F)
  BY CallAt
<1>3. PICK d \in SUBSET PfKinds : fw = Removed(Shown.fw, PfRules(j.f, j.pf.tport), d)
  BY DEF PfStage
<1>4. \/ /\ pfs' = [pfs EXCEPT ![j.f] = BlankPf("purged")]
         /\ GoOn(w, [j EXCEPT !.new = BlankPf("purged")], "none")
      \/ pfs' = pfs /\ Stop(w, "none")
  BY <1>2 DEF PfStatement, At
<1>5. Busy' = {} /\ owed' = owed /\ Shown' = Now'
  <2>1. CASE Stop(w, "none")
    BY <2>1, Stopped, Reports
  <2>2. CASE GoOn(w, [j EXCEPT !.new = BlankPf("purged")], "none")
    <3> DEFINE x == [j EXCEPT !.new = BlankPf("purged")]
    <3>1. x.calls = <<"deletePf">>
      BY <1>1 DEF Job
    <3>2. Answer(w, "none")
      BY <2>2, <3>1 DEF GoOn
    <3> QED BY <3>2, Stopped, Reports DEF Stop
  <2> QED BY <1>4, <2>1, <2>2
<1>6. UNCHANGED <<ifaces, peers, dev, fw, todo, pfTodo, wan>>
  BY <1>2, BootAside DEF PfStatement, HostUntouched
<1>7. PICK gone \in BOOLEAN :
        pfs' = IF gone THEN [Shown.pfs EXCEPT ![j.f] = BlankPf("purged")] ELSE Shown.pfs
  <2>1. pfs = Shown.pfs
    BY DEF PfStage
  <2> QED BY <1>4, <2>1
<1>8. EndsWith(Shown.ifaces, Shown.peers,
               IF gone THEN [Shown.pfs EXCEPT ![j.f] = BlankPf("purged")] ELSE Shown.pfs,
               Shown.dev, Removed(Shown.fw, PfRules(j.f, j.pf.tport), d), Shown.owed)
  BY <1>3, <1>5, <1>6, <1>7 DEF PfStage, EndsWith
<1> QED BY <1>1, <1>5, <1>8, DelPfDone DEF Serving

\* The first of one, two and three calls.
LEMMA HeadsOfPf ==
    /\ \A a : Head(<<a>>) = a
    /\ \A a, b : Head(<<a, b>>) = a
    /\ \A a, b, c : Head(<<a, b, c>>) = a
  OBVIOUS

\* The rules of one forward, and those of all at the end of the bootstrap.
LEMMA PfRulesLand ==
    ASSUME NEW w \in Workers, Serving(w), Call(w), PfStage(jobs[w]), jobs[w].op \in PfOps,
           Head(jobs[w].calls) \in {"removePf", "applyPf", "reapplyAll"}
    PROVE  IF Busy' = {} THEN Panel!Next
           ELSE /\ NextJob(jobs'[w], jobs[w]) /\ jobs'[w].new = jobs[w].new
                /\ PfStage(jobs[w])'
<1> DEFINE j == jobs[w]
<1>1. j \in Job /\ Fits(j) /\ (j.op # "bootPfs" => j.f \in Pfs /\ j.new \in Pf)
  BY DEF Serving, TInv, JobsFit, Busy, Fits, Carries, PfOps
<1>2. /\ j.op = "bootPfs" => j.calls = <<"reapplyAll">> /\ Head(j.calls) = "reapplyAll"
      /\ j.op = "addPf" => j.calls = <<"applyPf">>
      /\ j.op = "editPf" => j.calls \in {<<"removePf", "savePf", "applyPf">>, <<"applyPf">>}
      /\ j.op = "delPf" => j.calls = <<"removePf", "deletePf">> /\ Head(j.calls) = "removePf"
  <2>1. /\ Head(<<"reapplyAll">>) = "reapplyAll" /\ Head(<<"deletePf">>) = "deletePf"
        /\ Head(<<"insertPf", "applyPf">>) = "insertPf"
        /\ Head(<<"savePf", "applyPf">>) = "savePf"
        /\ Head(<<"removePf", "deletePf">>) = "removePf"
    BY HeadsOfPf
  <2>2. Head(j.calls) \notin {"insertPf", "savePf", "deletePf"}
    OBVIOUS
  <2>3. j.op = "bootPfs" => j.calls = <<"reapplyAll">>
    BY DEF PfStage
  <2>4. j.op = "addPf" => j.calls \in {<<"insertPf", "applyPf">>, <<"applyPf">>}
    BY DEF PfStage
  <2>5. j.op = "editPf" => j.calls \in {<<"removePf", "savePf", "applyPf">>,
                                        <<"savePf", "applyPf">>, <<"applyPf">>}
    BY DEF PfStage
  <2>6. j.op = "delPf" => j.calls \in {<<"removePf", "deletePf">>, <<"deletePf">>}
    BY DEF PfStage
  <2> HIDE DEF j
  <2> QED BY <2>1, <2>2, <2>3, <2>4, <2>5, <2>6
<1>3. PICK F : IF Head(j.calls) = "reapplyAll" THEN Cascade(w, F) ELSE PfRulesCall(w, F)
  BY CallAt
<1>4. /\ UNCHANGED <<ifaces, peers, pfs, dev, todo, pfTodo, wan>>
      /\ Head(j.calls) = "reapplyAll" => j.op = "bootPfs"
  BY <1>3, BootAside DEF PfRulesCall, Cascade, RowsUntouched, At, PfStage, PfOps
<1>5. GoOn(w, j, "none")
  BY <1>3, <1>4 DEF PfRulesCall, Cascade
<1>6. CASE j.calls = <<"reapplyAll">>
  <2>1. Busy' = {} /\ owed' = owed /\ Shown' = Now' /\ j.op = "bootPfs"
    <3>1. Len(j.calls) = 1 /\ Head(j.calls) = "reapplyAll"
      BY <1>6
    <3>2. Busy' = {} /\ owed' = OwedBy(owed, NameOf[j.i], "none") /\ Shown' = Now'
      BY <1>5, <3>1, Onwards
    <3> QED BY <1>4, <3>1, <3>2, Reports
  <2>2. fw' = Reapply(fw, {f \in Pfs : pfs[f].st = "active" /\ pfs[f].iface \in Wanted}, F)
    BY <1>3, <1>6 DEF Cascade, At
  <2>3. {f \in Pfs : pfs[f].st = "active" /\ pfs[f].iface \in Wanted} = WantedForwards
    <3>1. ifaces = Shown.ifaces /\ pfs = Shown.pfs
      BY <2>1 DEF PfStage
    <3> QED BY <3>1 DEF WantedForwards, Wanted, Active, Panel!Wanted, Panel!Active
  <2>4. \E a \in SUBSET PfKinds :
          fw' = PutIn(Shown.fw, Panel!RulesOf(Panel!Enabled(WantedForwards)), a)
    <3>1. pfs = Shown.pfs /\ fw = Shown.fw
      BY <2>1 DEF PfStage
    <3>2. \A S : RulesOf(Enabled(S)) = Panel!RulesOf(Panel!Enabled(S))
      BY <3>1 DEF RulesOf, Enabled, Panel!RulesOf, Panel!Enabled, PfRules, Panel!PfRules
    <3>3. \A S : OfForwards(RulesOf(S))
      BY RulesUnderFaults DEF RulesOf, OfForwards
    <3>4. CASE "pfload" \in F.db
      <4>1. fw' = fw
        BY <2>2, <3>4 DEF Reapply, Found, RulesOf, EnsureRules
      <4> QED BY <3>1, <3>2, <3>3, <4>1, RulesUnderFaults DEF PfKinds
    <3>5. CASE "pfload" \notin F.db
      <4>1. fw' = EnsureRules(fw, RulesOf(Enabled(WantedForwards)), F)
        BY <2>2, <2>3, <3>5 DEF Reapply, Found
      <4> QED BY <3>1, <3>2, <3>3, <4>1, RulesUnderFaults
    <3> QED BY <3>4, <3>5
  <2> QED BY <1>4, <2>1, <2>4, BootPfsDone DEF Serving, PfStage
<1>7. CASE j.calls = <<"applyPf">>
  <2>1. Busy' = {} /\ owed' = owed /\ Shown' = Now'
    BY <1>5, <1>7, Onwards, Reports
  <2>2. fw' = IF j.new.on THEN EnsureRules(fw, PfRules(j.f, j.new.tport), F) ELSE fw
    BY <1>3, <1>7 DEF PfRulesCall, At
  <2>3. PICK a \in SUBSET PfKinds :
          fw' = IF j.new.on THEN PutIn(fw, PfRules(j.f, j.new.tport), a) ELSE fw
    BY <2>2, RulesUnderFaults
  <2>4. CASE j.op = "addPf"
    <3>1. j.new.on
      BY <2>4, AskedOfPf DEF Serving
    <3>2. /\ fw = Shown.fw /\ pfs = [Shown.pfs EXCEPT ![j.f] = j.new]
          /\ \A g \in Pfs \ {j.f} :
               Shown.pfs[g].st = "active" => Shown.pfs[g].pub # j.new.pub
      BY <1>7, <2>4 DEF PfStage
    <3>3. EndsWith(Shown.ifaces, Shown.peers, [Shown.pfs EXCEPT ![j.f] = j.new], Shown.dev,
                   PutIn(Shown.fw, PfRules(j.f, j.new.tport), a), Shown.owed)
      BY <1>4, <2>1, <2>3, <2>4, <3>1, <3>2 DEF PfStage, EndsWith
    <3> QED BY <1>1, <2>1, <2>4, <3>2, <3>3, AddPfDone DEF Serving
  <2>5. CASE j.op = "editPf"
    <3>1. PICK d \in SUBSET PfKinds : fw = Removed(Shown.fw, PfRules(j.f, j.pf.tport), d)
      BY <1>7, <2>5 DEF PfStage
    <3>2. pfs = [Shown.pfs EXCEPT ![j.f] = j.new]
      BY <1>7, <2>5 DEF PfStage
    <3> DEFINE removed == Removed(Shown.fw, PfRules(j.f, j.pf.tport), d)
    <3>3. EndsWith(Shown.ifaces, Shown.peers, [Shown.pfs EXCEPT ![j.f] = j.new], Shown.dev,
                   IF j.new.on THEN PutIn(removed, PfRules(j.f, j.new.tport), a)
                               ELSE removed, Shown.owed)
      BY <1>4, <2>1, <2>3, <2>5, <3>1, <3>2 DEF PfStage, EndsWith
    <3>4. \A saved \in BOOLEAN : saved => Panel!Next
      <4> HIDE DEF EndsWith
      <4> QED BY <1>1, <2>5, <3>3, EditPfDone DEF Serving, ShownTyped
    <3> QED BY <2>1, <3>4
  <2> QED BY <1>2, <1>7, <2>4, <2>5 DEF PfOps
<1>8. CASE j.calls \in {<<"removePf", "savePf", "applyPf">>, <<"removePf", "deletePf">>}
  <2>1. j.op \in {"editPf", "delPf"} /\ pfs = Shown.pfs /\ fw = Shown.fw
        /\ j.calls = IF j.op = "editPf" THEN <<"removePf", "savePf", "applyPf">>
                                        ELSE <<"removePf", "deletePf">>
    BY <1>8 DEF PfStage, PfOps
  <2>2. Len(j.calls) # 1 /\ Head(j.calls) = "removePf"
        /\ Tail(j.calls) = IF j.op = "editPf" THEN <<"savePf", "applyPf">> ELSE <<"deletePf">>
    BY <2>1
  <2>3. /\ Busy' = {w} /\ owed' = owed /\ NextJob(jobs'[w], j) /\ Shown' = Shown
        /\ jobs'[w].verdict = "none" /\ jobs'[w].calls = Tail(j.calls)
        /\ jobs'[w].op = j.op /\ jobs'[w].f = j.f /\ jobs'[w].pf = j.pf
    BY <1>5, <2>2, Onwards
  <2>4. jobs'[w].new = j.new
    BY <2>2, <2>3 DEF NextJob
  <2>5. \E d \in SUBSET PfKinds : fw' = Removed(fw, PfRules(j.f, j.pf.tport), d)
    <3>1. fw' = DeleteRules(fw, PfRules(j.f, j.pf.tport), F)
      BY <1>3, <2>2 DEF PfRulesCall, At, StaleRules
    <3> QED BY <3>1, RulesUnderFaults
  <2>6. PfStage(jobs[w])'
    BY <1>4, <2>1, <2>2, <2>3, <2>4, <2>5 DEF PfStage
  <2> QED BY <2>3, <2>4, <2>6
<1> QED BY <1>2, <1>6, <1>7, <1>8 DEF PfOps

\* Where the handler of a forward can be, by the call it makes.
LEMMA PfPlaces ==
    ASSUME NEW j, PfStage(j), j.op \in PfOps
    PROVE  \/ Head(j.calls) \in {"removePf", "applyPf", "reapplyAll"}
           \/ j.op = "addPf" /\ j.calls = <<"insertPf", "applyPf">>
           \/ j.op = "editPf" /\ j.calls = <<"savePf", "applyPf">>
           \/ j.op = "delPf" /\ j.calls = <<"deletePf">>
<1>1. /\ Head(<<"reapplyAll">>) = "reapplyAll" /\ Head(<<"applyPf">>) = "applyPf"
      /\ Head(<<"removePf", "savePf", "applyPf">>) = "removePf"
      /\ Head(<<"removePf", "deletePf">>) = "removePf"
  BY HeadsOfPf
<1>2. CASE j.op \in {"bootPfs", "addPf"}
  BY <1>1, <1>2 DEF PfStage
<1>3. CASE j.op \in {"editPf", "delPf"}
  BY <1>1, <1>3 DEF PfStage
<1> QED BY <1>2, <1>3 DEF PfOps

\* Every call of such a handler.
LEMMA PfCallsLand ==
    ASSUME NEW w \in Workers, Serving(w), Call(w), PfStage(jobs[w]), jobs[w].op \in PfOps
    PROVE  IF Busy' = {} THEN Panel!Next \/ UNCHANGED Panel!vars
           ELSE /\ NextJob(jobs'[w], jobs[w]) /\ jobs'[w].new = jobs[w].new
                /\ PfStage(jobs[w])'
  BY PfPlaces, InsertPfLands, SavePfLands, DeletePfLands, PfRulesLand

\* The process is killed with one request in progress.
Killed(w) ==
    /\ OneWorker /\ AnyFault /\ TInv /\ ShownTyped /\ w \in Busy /\ Crash
    /\ jobs[w].solo /\ Asked(jobs[w], Shown.ifaces, Shown.peers, Shown.pfs, wan)

\* A kill leaves rows and host as they are; what is owed is what the request came to.
LEMMA KilledAt ==
    ASSUME NEW w \in Workers, Killed(w)
    PROVE  /\ Busy' = {} /\ Shown' = Now'
           /\ UNCHANGED <<ifaces, peers, pfs, dev, fw, wan, todo, pfTodo>>
           /\ owed' = OwedBy(owed, NameOf[jobs[w].i], jobs[w].verdict)
<1>1. Busy = {w} /\ Busy' = {} /\ jobs[w].solo
  BY DEF Killed, OneWorker, Busy, Crash
<1>2. Shown' = Now'
  BY <1>1 DEF Shown
<1>3. owed' = OwedBy(owed, NameOf[jobs[w].i], jobs[w].verdict)
  <2> DEFINE n == NameOf[jobs[w].i]
             v == jobs[w].verdict
  <2>1. {NameOf[jobs[x].i] : x \in {y \in Busy : jobs[y].verdict = "settled" /\ jobs[y].solo}}
        = IF v = "settled" THEN {n} ELSE {}
    BY <1>1
  <2>2. UNION {IF jobs[x].solo THEN Owed(NameOf[jobs[x].i], jobs[x].verdict)
                               ELSE {NameOf[jobs[x].i]} : x \in Busy} = Owed(n, v)
    BY <1>1
  <2>3. owed' = (owed \ IF v = "settled" THEN {n} ELSE {}) \union Owed(n, v)
    BY <2>1, <2>2 DEF Killed, Crash
  <2> QED BY <2>3 DEF OwedBy, Owed
<1> QED BY <1>1, <1>2, <1>3 DEF Killed, Crash, RowsUntouched, HostUntouched, boot

\* A forward's handler that is killed has done no more than one that is refused a call.
LEMMA PfKilled ==
    ASSUME NEW w \in Workers, Killed(w), PfStage(jobs[w]), jobs[w].op \in PfOps
    PROVE  Panel!Next \/ UNCHANGED Panel!vars
<1> DEFINE j == jobs[w]
<1>1. /\ Shown' = Now' /\ UNCHANGED <<ifaces, peers, pfs, dev, fw, wan, todo, pfTodo>>
      /\ owed' = owed
  <2>1. j.verdict = "none"
    BY DEF PfStage
  <2> QED BY <2>1, KilledAt, Reports
<1>2. j \in Job /\ Fits(j) /\ (j.op # "bootPfs" => j.f \in Pfs /\ j.new \in Pf)
  BY DEF Killed, TInv, JobsFit, Busy, Fits, Carries, PfOps
<1>3. {"dnat"} \in SUBSET PfKinds
  BY DEF PfKinds
<1>4. CASE j.op = "bootPfs"
  <2>1. \A S : OfForwards(Panel!RulesOf(S))
    BY RulesUnderFaults, SameRules DEF Panel!RulesOf, OfForwards
  <2>2. fw' = PutIn(Shown.fw, Panel!RulesOf(Panel!Enabled(WantedForwards)), {"dnat"})
    BY <1>1, <1>4, <2>1, RulesUnderFaults DEF PfStage
  <2> QED BY <1>1, <1>3, <1>4, <2>2, BootPfsDone DEF Killed, PfStage
<1>5. ASSUME pfs = Shown.pfs, fw = Shown.fw, j.op # "bootPfs" PROVE UNCHANGED Panel!vars
  BY <1>1, <1>5 DEF PfStage, Panel!vars, Now
<1>6. CASE j.op = "addPf"
  <2>1. CASE pfs = [Shown.pfs EXCEPT ![j.f] = j.new]
             /\ \A g \in Pfs \ {j.f} : Shown.pfs[g].st = "active" => Shown.pfs[g].pub # j.new.pub
    <3>1. EndsWith(Shown.ifaces, Shown.peers, [Shown.pfs EXCEPT ![j.f] = j.new], Shown.dev,
                   PutIn(Shown.fw, PfRules(j.f, j.new.tport), {"dnat"}), Shown.owed)
      BY <1>1, <1>6, <2>1, RulesUnderFaults DEF PfStage, EndsWith
    <3> QED BY <1>2, <1>3, <1>6, <2>1, <3>1, AddPfDone DEF Killed
  <2> QED BY <1>5, <1>6, <2>1 DEF PfStage
<1>7. CASE j.op \in {"editPf", "delPf"}
  <2>1. CASE \E d \in SUBSET PfKinds : fw = Removed(Shown.fw, PfRules(j.f, j.pf.tport), d)
    <3>1. PICK d \in SUBSET PfKinds : fw = Removed(Shown.fw, PfRules(j.f, j.pf.tport), d)
      BY <2>1
    <3> DEFINE removed == Removed(Shown.fw, PfRules(j.f, j.pf.tport), d)
    <3>2. PutIn(removed, PfRules(j.f, j.new.tport), {"dnat"}) = removed
      <4> HIDE DEF removed
      <4> QED BY RulesUnderFaults
    <3>3. CASE j.op = "editPf"
      <4>1. PICK saved \in BOOLEAN :
              pfs = IF saved THEN [Shown.pfs EXCEPT ![j.f] = j.new] ELSE Shown.pfs
        BY <1>7, <3>3 DEF PfStage
      <4>2. EndsWith(Shown.ifaces, Shown.peers,
                     IF saved THEN [Shown.pfs EXCEPT ![j.f] = j.new] ELSE Shown.pfs, Shown.dev,
                     IF saved /\ j.new.on
                       THEN PutIn(removed, PfRules(j.f, j.new.tport), {"dnat"})
                       ELSE removed, Shown.owed)
        BY <1>1, <3>1, <3>2, <3>3, <4>1 DEF PfStage, EndsWith
      <4> QED BY <1>2, <1>3, <3>3, <4>2, EditPfDone DEF Killed, ShownTyped
    <3>4. CASE j.op = "delPf"
      <4>1. EndsWith(Shown.ifaces, Shown.peers, Shown.pfs, Shown.dev, removed, Shown.owed)
        BY <1>1, <1>7, <3>1, <3>4 DEF PfStage, EndsWith
      <4>2. \A gone \in BOOLEAN : ~gone => Panel!Next
        BY <1>2, <3>4, <4>1, DelPfDone DEF Killed
      <4> QED BY <4>2
    <3> QED BY <1>7, <3>3, <3>4
  <2> QED BY <1>5, <1>7, <2>1 DEF PfStage
<1> QED BY <1>4, <1>6, <1>7 DEF PfOps

\* A request on a forward is taken up.
LEMMA PfTakenUp ==
    ASSUME NEW w \in Workers, NEW m, TakesUp(w, m), m.op \in PfOps, SameJob(jobs'[w], m),
           Shown' = Now
    PROVE  PfStage(jobs[w])'
<1>1. Origin(m)
  BY DEF TakesUp
<1>2. /\ m.op = "addPf" => m.calls = <<"insertPf", "applyPf">>
      /\ m.op = "editPf" => m.calls = <<"removePf", "savePf", "applyPf">>
      /\ m.op = "delPf" => m.calls = <<"removePf", "deletePf">>
      /\ m.op = "bootPfs" => m.calls = <<"reapplyAll">> /\ todo = {} /\ pfTodo
      /\ m.verdict = "none"
  <2>1. m.calls = Script[m.op] /\ m.verdict = "none"
        /\ (m.op = "bootPfs" => todo = {} /\ pfTodo)
    BY <1>1 DEF Origin, PfOps
  <2> QED BY <2>1 DEF Script, DelPf
<1>3. jobs'[w].op = m.op /\ jobs'[w].calls = m.calls /\ jobs'[w].verdict = m.verdict
  BY DEF SameJob
<1>4. UNCHANGED <<ifaces, peers, pfs, dev, fw, wan, owed>>
      /\ IF m.op = "bootPfs" THEN pfTodo' = FALSE /\ todo' = todo
                             ELSE UNCHANGED <<todo, pfTodo>>
  BY DEF TakesUp, db, boot, PfOps
<1> QED BY <1>2, <1>3, <1>4 DEF PfStage, Now, PfOps

-----------------------------------------------------------------------------
(* Peer requests, as one step *)

Plain == [host |-> {}]

\* What one syncPeer can come to: nothing read, no link, no peer, or all of it.
SyncFailing(h, s) == Failing(h, {}, {}, s)

\* How syncing a peer may come out, each way under failures the panel's step can meet: not
\* loaded, no link, an address that did not go on, a device not configured, and done.
LEMMA SyncOutcomes ==
    ASSUME NEW i \in Ifaces, NEW p, NEW x \in BOOLEAN, ShownTyped, NameOf[i] \in Names,
           Shown' = Now'
    PROVE  LET n   == NameOf[i]
               d   == Shown.dev[n]
               row == Shown.ifaces[i]
               L   == EnsureLink(d, row.addr, Plain)
           IN  /\ /\ dev' = Shown.dev
                  /\ owed' = IF row.st = "active" THEN Shown.owed \union {n} ELSE Shown.owed
                  => Panel!SyncPeer(i, p, x, SyncFailing({}, {"load"}))
               /\ \A F : /\ row.st = "active" /\ row.on /\ ~LinkOK(d, F)
                         /\ dev' = [Shown.dev EXCEPT ![n] = EnsureLink(d, row.addr, F)]
                         /\ owed' = Shown.owed \union {n}
                         => Panel!SyncPeer(i, p, x,
                              SyncFailing(F.host \intersect {"link", "addr"}, {}))
               /\ /\ row.st = "active" /\ row.on
                  /\ dev' = [Shown.dev EXCEPT ![n] = L] /\ owed' = Shown.owed \union {n}
                  => Panel!SyncPeer(i, p, x, SyncFailing({"peer"}, {}))
               /\ /\ row.st = "active" /\ owed' = Shown.owed
                  /\ dev' = IF row.on THEN [Shown.dev EXCEPT ![n] = IF x THEN ConfigurePeer(L, p)
                                                                         ELSE RemovePeer(L, p)]
                                      ELSE Shown.dev
                  => /\ Panel!SyncPeer(i, p, x, SyncFailing({}, {}))
                     /\ Panel!SyncPeerOK(i, SyncFailing({}, {}))
<1> DEFINE n   == NameOf[i]
           d   == Shown.dev[n]
           row == Shown.ifaces[i]
           L   == EnsureLink(d, row.addr, Plain)
<1>1. /\ Shown.dev \in [Names -> Device] /\ [Shown.dev EXCEPT ![n] = d] = Shown.dev
      /\ (Shown').dev = dev' /\ (Shown').owed = owed'
  BY DEF ShownTyped, Now
<1>2. /\ \A h, s : SyncFailing(h, s).host = h /\ SyncFailing(h, s).db = s
      /\ Panel!Active(i) <=> row.st = "active"
  BY FailingParts DEF SyncFailing, Panel!Active
<1>3. /\ \A h, s : LinkOK(d, SyncFailing(h, s))
                     <=> (d.exists \/ "link" \notin h) /\ "addr" \notin h
      /\ \A h, s : Panel!LinkOK(d, SyncFailing(h, s)) <=> LinkOK(d, SyncFailing(h, s))
      /\ \A h, s : Panel!EnsureLink(d, row.addr, SyncFailing(h, s))
                     = EnsureLink(d, row.addr, SyncFailing(h, s))
  BY <1>2, SameDevices DEF LinkOK
<1>4. \A h, s : LinkOK(d, SyncFailing(h, s)) =>
                  EnsureLink(d, row.addr, SyncFailing(h, s)) = L
  BY AllThere DEF Plain
<1>5. ASSUME dev' = Shown.dev,
             owed' = IF row.st = "active" THEN Shown.owed \union {n} ELSE Shown.owed
      PROVE  Panel!SyncPeer(i, p, x, SyncFailing({}, {"load"}))
  BY <1>1, <1>2, <1>5 DEF Panel!SyncPeer, Panel!SyncPeerOK
<1>6. ASSUME NEW F, row.st = "active", row.on, ~LinkOK(d, F),
             dev' = [Shown.dev EXCEPT ![n] = EnsureLink(d, row.addr, F)],
             owed' = Shown.owed \union {n}
      PROVE  Panel!SyncPeer(i, p, x, SyncFailing(F.host \intersect {"link", "addr"}, {}))
  <2> DEFINE G == SyncFailing(F.host \intersect {"link", "addr"}, {})
  <2>1. ~Panel!LinkOK(d, G) /\ "load" \notin G.db
    BY <1>2, <1>3, <1>6 DEF LinkOK
  <2>2. /\ "link" \in G.host <=> "link" \in F.host
        /\ "addr" \in G.host <=> "addr" \in F.host
        /\ Panel!EnsureLink(d, row.addr, G) = EnsureLink(d, row.addr, G)
    BY <1>2, <1>3
  <2> HIDE DEF G
  <2>3. Panel!EnsureLink(d, row.addr, G) = EnsureLink(d, row.addr, F)
    BY <2>2 DEF EnsureLink
  <2> QED BY <1>1, <1>2, <1>6, <2>1, <2>3 DEF Panel!SyncPeer, Panel!SyncPeerOK, G
<1>7. ASSUME row.st = "active", row.on,
             dev' = [Shown.dev EXCEPT ![n] = L], owed' = Shown.owed \union {n}
      PROVE  Panel!SyncPeer(i, p, x, SyncFailing({"peer"}, {}))
  <2> DEFINE G == SyncFailing({"peer"}, {})
  <2>1. Panel!EnsureLink(d, row.addr, G) = L /\ "peer" \in G.host /\ "load" \notin G.db
    BY <1>2, <1>3, <1>4
  <2> HIDE DEF G, L
  <2> QED BY <1>1, <1>2, <1>7, <2>1 DEF Panel!SyncPeer, Panel!SyncPeerOK, G
<1>8. ASSUME row.st = "active", owed' = Shown.owed,
             dev' = IF row.on THEN [Shown.dev EXCEPT ![n] = IF x THEN ConfigurePeer(L, p)
                                                                 ELSE RemovePeer(L, p)]
                              ELSE Shown.dev
      PROVE  /\ Panel!SyncPeer(i, p, x, SyncFailing({}, {}))
             /\ Panel!SyncPeerOK(i, SyncFailing({}, {}))
  <2> DEFINE G == SyncFailing({}, {})
  <2>1. /\ Panel!EnsureLink(d, row.addr, G) = L /\ "peer" \notin G.host /\ "load" \notin G.db
        /\ Panel!LinkOK(d, G)
    BY <1>2, <1>3, <1>4
  <2>2. Panel!ConfigurePeer(L, p) = ConfigurePeer(L, p) /\ Panel!RemovePeer(L, p) = RemovePeer(L, p)
    BY SameDevices
  <2> HIDE DEF G, L
  <2>3. Panel!SyncPeerOK(i, G)
    BY <1>1, <1>2, <1>8, <2>1 DEF Panel!SyncPeerOK
  <2> QED BY <1>1, <1>2, <1>8, <2>1, <2>2, <2>3 DEF Panel!SyncPeer, G
<1> QED BY <1>5, <1>6, <1>7, <1>8

\* What syncPeer comes to depends on the failures of its own calls.
LEMMA SyncFaults ==
    ASSUME NEW i, NEW p, NEW x, NEW G, NEW H, G.host = H.host,
           "load" \in G.db <=> "load" \in H.db
    PROVE  /\ Panel!SyncPeer(i, p, x, H) => Panel!SyncPeer(i, p, x, G)
           /\ Panel!SyncPeerOK(i, H) <=> Panel!SyncPeerOK(i, G)
<1>1. /\ \A d : Panel!LinkOK(d, H) <=> Panel!LinkOK(d, G)
      /\ \A d, a : Panel!EnsureLink(d, a, H) = Panel!EnsureLink(d, a, G)
  BY DEF Panel!LinkOK, Panel!EnsureLink
<1>2. Panel!SyncPeerOK(i, H) <=> Panel!SyncPeerOK(i, G)
  BY <1>1 DEF Panel!SyncPeerOK
<1>3. Panel!SyncPeer(i, p, x, H) => Panel!SyncPeer(i, p, x, G)
  BY <1>1, <1>2 DEF Panel!SyncPeer
<1> QED BY <1>2, <1>3

\* The row of a peer after the statement of its request, and what is asked of the device.
PeerRow(j) ==
    IF j.op = "delPeer" THEN [Shown.peers[j.p] EXCEPT !.st = "trashed"]
    ELSE IF j.op = "purgePeer" THEN BlankPeer("purged") ELSE j.new
WantsPeer(j) == j.op \notin {"delPeer", "purgePeer"} /\ j.new.on

\* The rules and rows of the forwards to a peer whose removal has begun.
RulesTaken(j, r, x) ==
    IF j.op \in {"delPeer", "purgePeer"}
      THEN /\ \E d \in SUBSET PfKinds :
                r = Removed(Shown.fw, Panel!RulesOf(Panel!ForwardsTo(j.p)), d)
           /\ \/ x = Shown.pfs
              \/ /\ j.op = "purgePeer"
                 /\ x = [f \in Pfs |-> IF f \in Panel!ForwardsTo(j.p) THEN BlankPf("purged")
                                       ELSE Shown.pfs[f]]
      ELSE r = Shown.fw /\ x = Shown.pfs

RulesBack(j) ==
    /\ j.op = "restorePeer" /\ pfs' = Shown.pfs
    /\ \E a \in SUBSET PfKinds :
         fw' = PutIn(Shown.fw, Panel!RulesOf(Panel!Enabled(Panel!ForwardsTo(j.p))), a)

\* The database has refused no other row the address.
AddressFree(j) ==
    j.op = "addPeer" =>
      \A q \in Peers \ {j.p} :
        InTable(Shown.peers[q]) =>
          ~(Shown.peers[q].iface = j.new.iface /\ Shown.peers[q].ip = j.new.ip)

\* The two ways a request on a peer ends: its row is written and the device was synced
\* as far as it goes, or its removal stops before the row.
SyncCalls == {"link", "addr", "peer"}
PeerInPlace(j) ==
    /\ peers' = [Shown.peers EXCEPT ![j.p] = PeerRow(j)] /\ AddressFree(j)
    /\ \E h \in SUBSET SyncCalls, s \in SUBSET {"load"} :
         /\ Panel!SyncPeer(j.i, j.p, WantsPeer(j), SyncFailing(h, s))
         /\ \/ RulesTaken(j, fw', pfs')
            \/ Panel!SyncPeerOK(j.i, SyncFailing(h, s)) /\ RulesBack(j)
PeerLeft(j) ==
    /\ j.op \in {"delPeer", "purgePeer"}
    /\ peers' = Shown.peers /\ dev' = Shown.dev /\ owed' = Shown.owed
    /\ RulesTaken(j, fw', pfs')

PeerEnds(j) ==
    /\ Shown' = Now' /\ wan' = wan /\ ifaces' = Shown.ifaces
    /\ todo' = Shown.todo /\ pfTodo' = Shown.pfTodo
    /\ PeerInPlace(j) \/ PeerLeft(j)

\* Failures of a cascade that come with failures of a sync.
Meets(G, h, a, d, s) ==
    /\ G \in EveryFault /\ G.host = h /\ G.db = s
    /\ \A S : /\ Panel!Unapply(Shown.fw, S, G) = Removed(Shown.fw, Panel!RulesOf(S), d)
             /\ Panel!Reapply(Shown.fw, S, G)
                  = PutIn(Shown.fw, Panel!RulesOf(Panel!Enabled(S)), a)
             /\ Panel!Found(S, G) = S

\* What the handler of a peer meets when these calls, rules and statements fail.
LEMMA PeerFaults ==
    ASSUME NEW h, NEW a, NEW d, NEW s, h \subseteq SyncCalls, a \subseteq PfKinds,
           d \subseteq PfKinds, s \subseteq {"load", "row", "pfrow"}
    PROVE  Meets(Failing(h, a, d, s), h, a, d, s)
<1> DEFINE G == Failing(h, a, d, s)
<1>1. G \in EveryFault /\ G.host = h /\ G.db = s /\ G.add = a /\ G.del = d
  BY FailingParts DEF SyncCalls, HostFaults
<1> HIDE DEF G
<1>2. \A S : Panel!Found(S, G) = S
  BY <1>1 DEF Panel!Found
<1>3. \A S : Panel!Unapply(Shown.fw, S, G) = Removed(Shown.fw, Panel!RulesOf(S), d)
  BY <1>1, <1>2, SameRules, RulesUnderFaults DEF Panel!Unapply
<1>4. \A S : Panel!Reapply(Shown.fw, S, G)
               = PutIn(Shown.fw, Panel!RulesOf(Panel!Enabled(S)), a)
  BY <1>1, <1>2, SameRules, RulesUnderFaults DEF Panel!Reapply, SyncCalls
<1>5. Meets(G, h, a, d, s)
  BY <1>1, <1>2, <1>3, <1>4 DEF Meets
<1> QED BY <1>5 DEF G

\* The failures of a sync alone.
LEMMA SyncFailingParts ==
    \A h, s : SyncFailing(h, s).host = h /\ SyncFailing(h, s).db = s
  BY FailingParts DEF SyncFailing

\* POST /peers, from its row to its answer, is a step of the panel.
LEMMA AddPeerDone ==
    ASSUME AnyFault, NEW j, j.op = "addPeer", j.p \in Peers, j.i \in Ifaces,
           Asked(j, Shown.ifaces, Shown.peers, Shown.pfs, wan), PeerEnds(j)
    PROVE  Panel!Next
<1>1. PICK u \in Users :
        /\ Owns(u, Shown.ifaces[j.i].owner)
        /\ Shown.ifaces[j.i].st = "active" /\ Shown.peers[j.p].st = "none"
        /\ \E ip \in HostsOf[Shown.ifaces[j.i].addr] :
             j.new = [st |-> "active", iface |-> j.i, on |-> TRUE, ip |-> ip]
  BY DEF Asked, Entitled, PeerOps
<1>2. PICK ip \in HostsOf[Shown.ifaces[j.i].addr] :
             j.new = [st |-> "active", iface |-> j.i, on |-> TRUE, ip |-> ip]
  BY <1>1
<1>3. PICK h \in SUBSET SyncCalls, s \in SUBSET {"load"} :
         /\ Panel!SyncPeer(j.i, j.p, WantsPeer(j), SyncFailing(h, s))
         /\ RulesTaken(j, fw', pfs')
  BY DEF PeerEnds, PeerInPlace, PeerLeft, RulesBack
<1>4. fw' = Shown.fw /\ pfs' = Shown.pfs
  BY <1>3 DEF RulesTaken
<1>5. WantsPeer(j) = TRUE /\ peers' = [Shown.peers EXCEPT ![j.p] = j.new] /\ AddressFree(j)
  BY <1>2 DEF WantsPeer, PeerEnds, PeerInPlace, PeerLeft, PeerRow
<1> DEFINE G == Failing(h, {}, {}, s)
<1>6. Meets(G, h, {}, {}, s)
  BY PeerFaults
<1> HIDE DEF G
<1>7. G \in EveryFault /\ G.host = h /\ G.db = s
  BY <1>6 DEF Meets
<1>8. Panel!SyncPeer(j.i, j.p, TRUE, G)
  <2> DEFINE H == SyncFailing(h, s)
  <2>1. Panel!SyncPeer(j.i, j.p, TRUE, H)
    BY <1>3, <1>5
  <2>2. G.host = H.host /\ ("load" \in G.db <=> "load" \in H.db)
    BY <1>7, SyncFailingParts
  <2> HIDE DEF H
  <2> QED BY <2>1, <2>2, SyncFaults
<1>9. ~Panel!Taken(j.i, ip)
  <2>1. j.new.iface = j.i /\ j.new.ip = ip
    BY <1>2
  <2>2. ~InTable(Shown.peers[j.p])
    BY <1>1 DEF InTable
  <2> QED BY <1>5, <2>1, <2>2 DEF Panel!Taken, Panel!InTable, InTable, AddressFree
<1>10. Panel!Active(j.i) /\ Panel!Owns(u, Shown.ifaces[j.i].owner)
  BY <1>1 DEF Panel!Active, Panel!Owns, Owns
<1>11. Panel!PeerCreate(u, j.i, j.p, G)
  <2>1. "save" \notin G.db /\ FALSE \in BOOLEAN
    BY <1>7
  <2>2. UNCHANGED <<Shown.ifaces, Shown.pfs, Shown.fw, wan, Panel!boot>>
    BY <1>4 DEF PeerEnds, Now, Panel!boot
  <2>3. Shown.peers' = [Shown.peers EXCEPT ![j.p] =
                     [st |-> "active", iface |-> j.i, on |-> TRUE, ip |-> ip]]
    BY <1>2, <1>5 DEF PeerEnds, Now
  <2> QED BY <1>1, <1>8, <1>9, <1>10, <2>1, <2>2, <2>3 DEF Panel!PeerCreate
<1> QED BY <1>7, <1>11, PanelSteps DEF Panel!Request

\* PUT /peers/:id, from its row to its answer, is a step of the panel.
LEMMA EditPeerDone ==
    ASSUME AnyFault, NEW j, j.op = "editPeer", j.p \in Peers, j.i \in Ifaces,
           Asked(j, Shown.ifaces, Shown.peers, Shown.pfs, wan), PeerEnds(j), ShownTyped
    PROVE  Panel!Next
<1>1. PICK u \in Users :
        /\ Owns(u, Shown.ifaces[j.i].owner) /\ j.i = Shown.peers[j.p].iface
        /\ Shown.peers[j.p].st = "active"
        /\ \E on \in BOOLEAN : j.new = [Shown.peers[j.p] EXCEPT !.on = on]
  BY DEF Asked, Entitled, PeerOps
<1>2. PICK on \in BOOLEAN : j.new = [Shown.peers[j.p] EXCEPT !.on = on]
  BY <1>1
<1>3. PICK h \in SUBSET SyncCalls, s \in SUBSET {"load"} :
         /\ Panel!SyncPeer(j.i, j.p, WantsPeer(j), SyncFailing(h, s))
         /\ RulesTaken(j, fw', pfs')
  BY DEF PeerEnds, PeerInPlace, PeerLeft, RulesBack
<1>4. fw' = Shown.fw /\ pfs' = Shown.pfs
  BY <1>3 DEF RulesTaken
<1>5. WantsPeer(j) = on /\ peers' = [Shown.peers EXCEPT ![j.p].on = on]
  <2>1. j.new.on = on
    BY <1>2 DEF ShownTyped, Peer
  <2> QED BY <1>2, <2>1 DEF WantsPeer, PeerEnds, PeerInPlace, PeerLeft, PeerRow
<1> DEFINE G == Failing(h, {}, {}, s)
<1>6. Meets(G, h, {}, {}, s)
  BY PeerFaults
<1> HIDE DEF G
<1>7. G \in EveryFault /\ G.host = h /\ G.db = s
  BY <1>6 DEF Meets
<1>8. Panel!SyncPeer(j.i, j.p, on, G)
  BY <1>3, <1>5, <1>7, SyncFaults, SyncFailingParts
<1>9. Panel!MayActOn(u, j.p)
  BY <1>1 DEF Panel!MayActOn, Panel!Owns, Owns
<1>10. Panel!PeerUpdate(u, j.p, G)
  <2>1. "save" \notin G.db
    BY <1>7
  <2>2. UNCHANGED <<Shown.ifaces, Shown.pfs, Shown.fw, wan, Panel!boot>>
    BY <1>4 DEF PeerEnds, Now, Panel!boot
  <2>3. Shown.peers' = [Shown.peers EXCEPT ![j.p].on = on]
    BY <1>5 DEF PeerEnds, Now
  <2> QED BY <1>1, <1>8, <1>9, <2>1, <2>2, <2>3 DEF Panel!PeerUpdate
<1> QED BY <1>7, <1>10, PanelSteps DEF Panel!Request

\* DELETE /peers/:id, from its rules to its answer, is a step of the panel.
LEMMA DelPeerDone ==
    ASSUME AnyFault, NEW j, j.op = "delPeer", j.p \in Peers, j.i \in Ifaces,
           Asked(j, Shown.ifaces, Shown.peers, Shown.pfs, wan), PeerEnds(j), ShownTyped
    PROVE  Panel!Next
<1>1. PICK u \in Users :
        /\ Owns(u, Shown.ifaces[j.i].owner) /\ j.i = Shown.peers[j.p].iface
        /\ Shown.peers[j.p].st = "active"
  BY DEF Asked, Entitled, PeerOps
<1>2. Panel!MayActOn(u, j.p)
  BY <1>1 DEF Panel!MayActOn, Panel!Owns, Owns
<1>3. RulesTaken(j, fw', pfs')
  BY DEF PeerEnds, PeerInPlace, PeerLeft, RulesBack
<1>4. PICK d \in SUBSET PfKinds :
        fw' = Removed(Shown.fw, Panel!RulesOf(Panel!ForwardsTo(j.p)), d)
  BY <1>3 DEF RulesTaken
<1>5. UNCHANGED <<Shown.ifaces, Shown.pfs, wan, Panel!boot>>
  BY <1>3 DEF PeerEnds, Now, Panel!boot, RulesTaken
<1>6. CASE PeerLeft(j)
  <2> DEFINE G == Failing({}, {}, d, {"row"})
  <2>1. Meets(G, {}, {}, d, {"row"})
    BY PeerFaults
  <2> HIDE DEF G
  <2>2. /\ G \in EveryFault /\ "row" \in G.db
        /\ Panel!Unapply(Shown.fw, Panel!ForwardsTo(j.p), G) = fw'
    BY <1>4, <2>1 DEF Meets
  <2>3. Panel!PeerDelete(u, j.p, G)
    BY <1>1, <1>2, <1>5, <1>6, <2>2 DEF Panel!PeerDelete, PeerLeft, PeerEnds, Now
  <2> QED BY <2>2, <2>3, PanelSteps DEF Panel!Request
<1>7. CASE PeerInPlace(j)
  <2>1. PICK h \in SUBSET SyncCalls, s \in SUBSET {"load"} :
          Panel!SyncPeer(j.i, j.p, WantsPeer(j), SyncFailing(h, s))
    BY <1>7 DEF PeerInPlace
  <2> DEFINE G == Failing(h, {}, d, s)
  <2>2. Meets(G, h, {}, d, s)
    BY PeerFaults
  <2> HIDE DEF G
  <2>3. /\ G \in EveryFault /\ G.host = h /\ G.db = s
        /\ Panel!Unapply(Shown.fw, Panel!ForwardsTo(j.p), G) = fw'
    BY <1>4, <2>2 DEF Meets
  <2>4. Panel!SyncPeer(j.i, j.p, FALSE, G)
    <3> DEFINE H == SyncFailing(h, s)
    <3>1. Panel!SyncPeer(j.i, j.p, FALSE, H)
      BY <2>1 DEF WantsPeer
    <3>2. G.host = H.host /\ ("load" \in G.db <=> "load" \in H.db)
      BY <2>3, SyncFailingParts
    <3> HIDE DEF H
    <3> QED BY <3>1, <3>2, SyncFaults
  <2>5. Shown.peers' = [Shown.peers EXCEPT ![j.p].st = "trashed"]
    BY <1>7 DEF PeerInPlace, PeerRow, PeerEnds, Now
  <2>6. Panel!PeerDelete(u, j.p, G)
    <3>1. "row" \notin G.db /\ Shown.fw' = fw'
      BY <2>3 DEF PeerEnds, Now
    <3> QED BY <1>1, <1>2, <1>5, <2>3, <2>4, <2>5, <3>1 DEF Panel!PeerDelete
  <2> QED BY <2>3, <2>6, PanelSteps DEF Panel!Request
<1> QED BY <1>6, <1>7 DEF PeerEnds

\* POST /peers/:id/restore, from its row to its answer, is a step of the panel.
LEMMA RestorePeerDone ==
    ASSUME AnyFault, NEW j, j.op = "restorePeer", j.p \in Peers, j.i \in Ifaces,
           Asked(j, Shown.ifaces, Shown.peers, Shown.pfs, wan), PeerEnds(j), ShownTyped
    PROVE  Panel!Next
<1>1. PICK u \in Users :
        /\ Owns(u, Shown.ifaces[j.i].owner) /\ j.i = Shown.peers[j.p].iface
        /\ Shown.peers[j.p].st = "trashed" /\ Shown.ifaces[j.i].st = "active"
        /\ j.new = [Shown.peers[j.p] EXCEPT !.st = "active"]
  BY DEF Asked, Entitled, PeerOps
<1>2. Panel!MayActOn(u, j.p) /\ Panel!ParentInService(j.i)
  BY <1>1 DEF Panel!MayActOn, Panel!Owns, Owns, Panel!ParentInService, Panel!Active
<1>3. PICK h \in SUBSET SyncCalls, s \in SUBSET {"load"} :
         /\ Panel!SyncPeer(j.i, j.p, WantsPeer(j), SyncFailing(h, s))
         /\ \/ RulesTaken(j, fw', pfs')
            \/ Panel!SyncPeerOK(j.i, SyncFailing(h, s)) /\ RulesBack(j)
  BY DEF PeerEnds, PeerInPlace, PeerLeft
<1>4. PICK a \in SUBSET PfKinds :
        fw' = IF Panel!SyncPeerOK(j.i, SyncFailing(h, s))
                THEN PutIn(Shown.fw, Panel!RulesOf(Panel!Enabled(Panel!ForwardsTo(j.p))), a)
                ELSE Shown.fw
  <2>1. CASE RulesTaken(j, fw', pfs')
    <3>1. fw' = Shown.fw
      BY <2>1 DEF RulesTaken
    <3>2. \A S : OfForwards(Panel!RulesOf(S))
      BY RulesUnderFaults, SameRules DEF Panel!RulesOf, OfForwards
    <3>3. PutIn(Shown.fw, Panel!RulesOf(Panel!Enabled(Panel!ForwardsTo(j.p))), {"dnat"})
            = Shown.fw
      BY <3>2, RulesUnderFaults
    <3> QED BY <3>1, <3>3 DEF PfKinds
  <2>2. CASE Panel!SyncPeerOK(j.i, SyncFailing(h, s)) /\ RulesBack(j)
    BY <2>2 DEF RulesBack
  <2> QED BY <1>3, <2>1, <2>2
<1>5. UNCHANGED <<Shown.ifaces, Shown.pfs, wan, Panel!boot>>
  BY <1>3 DEF PeerEnds, Now, Panel!boot, RulesTaken, RulesBack
<1> DEFINE G == Failing(h, a, {}, s)
<1>6. Meets(G, h, a, {}, s)
  BY PeerFaults
<1> HIDE DEF G
<1>7. G \in EveryFault /\ G.host = h /\ G.db = s
  BY <1>6 DEF Meets
<1>8. /\ Panel!SyncPeer(j.i, j.p, Shown.peers[j.p].on, G)
      /\ Panel!SyncPeerOK(j.i, SyncFailing(h, s)) <=> Panel!SyncPeerOK(j.i, G)
  <2>1. WantsPeer(j) = Shown.peers[j.p].on
    BY <1>1 DEF WantsPeer, ShownTyped, Peer
  <2> QED BY <1>3, <1>7, <2>1, SyncFaults, SyncFailingParts
<1>9. Panel!SyncPeerOK(j.i, G) => Panel!Reapply(Shown.fw, Panel!ForwardsTo(j.p), G) = fw'
  <2> SUFFICES ASSUME Panel!SyncPeerOK(j.i, G)
               PROVE  Panel!Reapply(Shown.fw, Panel!ForwardsTo(j.p), G) = fw'
    OBVIOUS
  <2>1. fw' = PutIn(Shown.fw, Panel!RulesOf(Panel!Enabled(Panel!ForwardsTo(j.p))), a)
    BY <1>4, <1>8
  <2> QED BY <1>6, <2>1 DEF Meets
<1>10. Panel!PeerRestore(u, j.p, G)
  <2>1. "row" \notin G.db /\ Shown.fw' = fw'
    BY <1>7 DEF PeerEnds, Now
  <2>2. Shown.peers' = [Shown.peers EXCEPT ![j.p].st = "active"]
    BY <1>1 DEF PeerEnds, PeerInPlace, PeerLeft, PeerRow, Now
  <2>3. ~Panel!SyncPeerOK(j.i, G) => fw' = Shown.fw
    BY <1>4, <1>8
  <2> QED BY <1>1, <1>2, <1>5, <1>8, <1>9, <2>1, <2>2, <2>3 DEF Panel!PeerRestore
<1> QED BY <1>7, <1>10, PanelSteps DEF Panel!Request

\* DELETE /peers/:id/permanent, from its rules to its answer, is a step of the panel.
LEMMA PurgePeerDone ==
    ASSUME AnyFault, NEW j, j.op = "purgePeer", j.p \in Peers, j.i \in Ifaces,
           Asked(j, Shown.ifaces, Shown.peers, Shown.pfs, wan), PeerEnds(j), ShownTyped
    PROVE  Panel!Next
<1>1. PICK u \in Users :
        /\ Owns(u, Shown.ifaces[j.i].owner) /\ j.i = Shown.peers[j.p].iface
        /\ InTable(Shown.peers[j.p])
  BY DEF Asked, Entitled, PeerOps
<1>2. Panel!MayActOn(u, j.p) /\ Panel!InTable(Shown.peers[j.p])
  BY <1>1 DEF Panel!MayActOn, Panel!Owns, Owns, Panel!InTable, InTable
<1>3. RulesTaken(j, fw', pfs')
  BY DEF PeerEnds, PeerInPlace, PeerLeft, RulesBack
<1>4. PICK d \in SUBSET PfKinds :
        fw' = Removed(Shown.fw, Panel!RulesOf(Panel!ForwardsTo(j.p)), d)
  BY <1>3 DEF RulesTaken
<1>5. PICK x \in SUBSET {"pfrow"} :
        pfs' = IF "pfrow" \in x THEN Shown.pfs
               ELSE [f \in Pfs |-> IF f \in Panel!ForwardsTo(j.p) THEN Panel!BlankPf("purged")
                                   ELSE Shown.pfs[f]]
  <2>1. Panel!BlankPf("purged") = BlankPf("purged")
    BY DEF Panel!BlankPf, BlankPf
  <2>2. CASE pfs' = Shown.pfs
    BY <2>2
  <2>3. CASE pfs' = [f \in Pfs |-> IF f \in Panel!ForwardsTo(j.p) THEN BlankPf("purged")
                                   ELSE Shown.pfs[f]]
    <3>1. "pfrow" \notin {}
      OBVIOUS
    <3> QED BY <2>1, <2>3, <3>1
  <2> QED BY <1>3, <2>2, <2>3 DEF RulesTaken
<1>6. UNCHANGED <<Shown.ifaces, wan, Panel!boot>>
  BY DEF PeerEnds, Now, Panel!boot
<1>7. CASE PeerLeft(j)
  <2> DEFINE G == Failing({}, {}, d, {"row"} \union x)
  <2>1. Meets(G, {}, {}, d, {"row"} \union x)
    BY PeerFaults
  <2> HIDE DEF G
  <2>2. /\ G \in EveryFault /\ "row" \in G.db /\ ("pfrow" \in G.db <=> "pfrow" \in x)
        /\ Panel!Unapply(Shown.fw, Panel!ForwardsTo(j.p), G) = fw'
        /\ Panel!Found(Panel!ForwardsTo(j.p), G) = Panel!ForwardsTo(j.p)
    BY <1>4, <2>1 DEF Meets
  <2>3. Panel!PeerPurge(u, j.p, G)
    BY <1>1, <1>2, <1>5, <1>6, <1>7, <2>2 DEF Panel!PeerPurge, PeerLeft, PeerEnds, Now
  <2> QED BY <2>2, <2>3, PanelSteps DEF Panel!Request
<1>8. CASE PeerInPlace(j)
  <2>1. PICK h \in SUBSET SyncCalls, s \in SUBSET {"load"} :
          Panel!SyncPeer(j.i, j.p, WantsPeer(j), SyncFailing(h, s))
    BY <1>8 DEF PeerInPlace
  <2> DEFINE G == Failing(h, {}, d, s \union x)
  <2>2. Meets(G, h, {}, d, s \union x)
    BY PeerFaults
  <2> HIDE DEF G
  <2>3. /\ G \in EveryFault /\ G.host = h /\ ("load" \in G.db <=> "load" \in s)
        /\ ("pfrow" \in G.db <=> "pfrow" \in x) /\ "row" \notin G.db
        /\ Panel!Unapply(Shown.fw, Panel!ForwardsTo(j.p), G) = fw'
        /\ Panel!Found(Panel!ForwardsTo(j.p), G) = Panel!ForwardsTo(j.p)
    BY <1>4, <2>2 DEF Meets
  <2>4. Panel!SyncPeer(j.i, j.p, FALSE, G)
    <3>1. WantsPeer(j) = FALSE
      BY DEF WantsPeer
    <3> DEFINE H == SyncFailing(h, s)
    <3>2. G.host = H.host /\ ("load" \in G.db <=> "load" \in H.db)
      BY <2>3, SyncFailingParts
    <3>3. Panel!SyncPeer(j.i, j.p, FALSE, H)
      BY <2>1, <3>1
    <3> HIDE DEF H
    <3> QED BY <3>2, <3>3, SyncFaults
  <2>5. Shown.peers' = [Shown.peers EXCEPT ![j.p] = Panel!BlankPeer("purged")]
    BY <1>8 DEF PeerInPlace, PeerRow, PeerEnds, Now, Panel!BlankPeer, BlankPeer
  <2>6. Panel!PeerPurge(u, j.p, G)
    <3>1. Shown.fw' = Panel!Unapply(Shown.fw, Panel!ForwardsTo(j.p), G)
      BY <2>3 DEF PeerEnds, Now
    <3>2. Shown.pfs' = IF "pfrow" \in G.db THEN Shown.pfs
                       ELSE [f \in Pfs |-> IF f \in Panel!Found(Panel!ForwardsTo(j.p), G)
                                             THEN Panel!BlankPf("purged") ELSE Shown.pfs[f]]
      BY <1>5, <2>3 DEF PeerEnds, Now
    <3>3. "row" \notin G.db /\ j.i = Shown.peers[j.p].iface
      BY <1>1, <2>3
    <3> QED BY <1>2, <1>6, <2>4, <2>5, <3>1, <3>2, <3>3 DEF Panel!PeerPurge
  <2> QED BY <2>3, <2>6, PanelSteps DEF Panel!Request
<1> QED BY <1>7, <1>8 DEF PeerEnds

\* The end of a request on a peer is a step of the panel.
LEMMA PeerDone ==
    ASSUME AnyFault, NEW j, j.op \in PeerOps, j.p \in Peers, j.i \in Ifaces,
           Asked(j, Shown.ifaces, Shown.peers, Shown.pfs, wan), PeerEnds(j), ShownTyped
    PROVE  Panel!Next
  BY AddPeerDone, EditPeerDone, DelPeerDone, RestorePeerDone, PurgePeerDone DEF PeerOps

-----------------------------------------------------------------------------
(* Peer requests, call by call *)

\* The device with its link, and with the peer synced.
Linked(i) == EnsureLink(Shown.dev[NameOf[i]], Shown.ifaces[i].addr, Plain)
PeerDev(j) ==
    IF Shown.ifaces[j.i].on
      THEN [Shown.dev EXCEPT ![NameOf[j.i]] =
              IF WantsPeer(j) THEN ConfigurePeer(Linked(j.i), j.p)
                              ELSE RemovePeer(Linked(j.i), j.p)]
      ELSE Shown.dev

PeerStatements == {"insertPeer", "savePeer", "trashPeer", "restorePeer", "purgePeer"}

\* Where the handler of a peer is, in terms of what it began with: before the statement
\* on the row, and after it.
PeerBefore(j, call) ==
    /\ peers = Shown.peers /\ dev = Shown.dev /\ j.verdict = "none"
    /\ IF call \in {"unapply", "purgePfs"} THEN fw = Shown.fw /\ pfs = Shown.pfs
                                           ELSE RulesTaken(j, fw, pfs)
PeerAfter(j, call) ==
    LET row == Shown.ifaces[j.i]
    IN  /\ peers = [Shown.peers EXCEPT ![j.p] = PeerRow(j)] /\ AddressFree(j)
        /\ RulesTaken(j, fw, pfs)
        /\ call \in {"parent", "ensure"} => dev = Shown.dev
        /\ call = "parent" => j.verdict = IF row.st = "active" THEN "owed" ELSE "none"
        /\ call \in {"ensure", "peer"} =>
             row.st = "active" /\ row.on /\ j.row = row /\ j.verdict = "owed"
        /\ call = "peer" => dev = [Shown.dev EXCEPT ![NameOf[j.i]] = Linked(j.i)]
        /\ call = "reapply" => row.st = "active" /\ dev = PeerDev(j) /\ j.verdict = "none"
PeerStage(j) ==
    /\ ifaces = Shown.ifaces /\ owed = Shown.owed /\ todo = Shown.todo
    /\ pfTodo = Shown.pfTodo
    /\ IF Head(j.calls) \in PeerStatements \union {"unapply", "purgePfs"}
         THEN PeerBefore(j, Head(j.calls)) ELSE PeerAfter(j, Head(j.calls))

\* What is left of a request on a peer after one of its calls.
PeerGoesOn(w) ==
    IF Busy' = {} THEN Panel!Next \/ UNCHANGED Panel!vars
    ELSE /\ NextJob(jobs'[w], jobs[w]) /\ jobs'[w].new = jobs[w].new
         /\ PeerStage(jobs[w])'

\* The parts of a job in progress.
LEMMA WorkParts ==
    ASSUME TInv, NEW w \in Busy
    PROVE  /\ w \in Workers /\ jobs[w] \in Job /\ Fits(jobs[w]) /\ jobs[w] # NoJob
           /\ Place(jobs[w].op, jobs[w].calls)
           /\ jobs[w].i \in Ifaces /\ NameOf[jobs[w].i] \in Names
           /\ {"calls", "verdict"} \subseteq DOMAIN jobs[w]
           /\ ifaces \in [Ifaces -> Iface] /\ peers \in [Peers -> Peer]
           /\ dev \in [Names -> Device] /\ jobs \in [Workers -> Job \union {NoJob}]
           /\ jobs[w].op \in PeerOps => jobs[w].p \in Peers /\ jobs[w].new \in Peer
           /\ \A call : At(w, call) <=> Head(jobs[w].calls) = call
<1>1. w \in Workers /\ jobs[w] \in Job /\ Fits(jobs[w]) /\ jobs[w] # NoJob
  BY DEF TInv, JobsFit, Fits, Busy
<1>2. {"calls", "verdict"} \subseteq DOMAIN jobs[w]
  BY <1>1, JobDomain
<1> QED BY <1>1, <1>2, JobParts DEF TInv, TypeOK, JobsFit, Fits, Carries, At

\* The last call of a request on a peer.
LEMMA PeerLast ==
    ASSUME NEW op, NEW c, Place(op, c), op \in PeerOps
    PROVE  Len(c) = 1 <=> \/ Head(c) = "reapply"
                          \/ Head(c) \in {"parent", "peer"} /\ op # "restorePeer"
<1>1. ASSUME c \in SyncingPeer PROVE Len(c) = 1 <=> Head(c) \in {"parent", "peer"}
  <2>1. c \in {<<"parent">>, <<"ensure", "peer">>, <<"peer">>}
    BY <1>1 DEF SyncingPeer
  <2> QED BY <2>1
<1>2. ASSUME c \in SyncingBefore("reapply") PROVE Len(c) = 1 <=> Head(c) = "reapply"
  <2>1. c \in {<<"parent", "reapply">>, <<"ensure", "peer", "reapply">>,
               <<"peer", "reapply">>, <<"reapply">>}
    BY <1>2 DEF SyncingBefore
  <2> QED BY <2>1
<1>3. CASE c \in {<<"insertPeer", "parent">>, <<"savePeer", "parent">>,
                  <<"trashPeer", "parent">>, <<"purgePeer", "parent">>,
                  <<"restorePeer", "parent", "reapply">>,
                  <<"unapply", "trashPeer", "parent">>, <<"purgePfs", "purgePeer", "parent">>}
  BY <1>3
<1>4. c \in SyncingPeer => Head(c) # "reapply"
  BY DEF SyncingPeer
<1>5. op = "restorePeer" => c = <<"restorePeer", "parent", "reapply">>
                            \/ c \in SyncingBefore("reapply")
  BY DEF Place
<1>6. op # "restorePeer" => c \in SyncingPeer
        \/ c \in {<<"insertPeer", "parent">>, <<"savePeer", "parent">>,
                  <<"trashPeer", "parent">>, <<"purgePeer", "parent">>,
                  <<"unapply", "trashPeer", "parent">>, <<"purgePfs", "purgePeer", "parent">>}
  BY DEF Place, PeerOps
<1>7. c \in SyncingBefore("reapply") => Head(c) \in {"parent", "ensure", "peer", "reapply"}
  BY DEF SyncingBefore
<1>8. c = <<"restorePeer", "parent", "reapply">> => Head(c) = "restorePeer"
  OBVIOUS
<1> QED BY <1>1, <1>2, <1>3, <1>4, <1>5, <1>6, <1>7, <1>8

\* What requests on peers ask for.
LEMMA AskedOfPeer ==
    ASSUME NEW j, j.op \in PeerOps, NEW tf, NEW route,
           Asked(j, Shown.ifaces, Shown.peers, tf, route), ShownTyped, j.p \in Peers
    PROVE  /\ j.op = "addPeer" => j.new.iface = j.i
           /\ j.op \in {"editPeer", "delPeer"} => Shown.peers[j.p].st = "active"
           /\ j.op = "editPeer" => j.new.st = "active"
           /\ j.op = "restorePeer" =>
                /\ InTable(Shown.peers[j.p])
                /\ j.new = [Shown.peers[j.p] EXCEPT !.st = "active"]
<1>1. Shown.peers[j.p] \in Peer
  BY DEF ShownTyped
<1>2. CASE j.op = "addPeer"
  <2>1. \E ip \in HostsOf[Shown.ifaces[j.i].addr] :
          j.new = [st |-> "active", iface |-> j.i, on |-> TRUE, ip |-> ip]
    BY <1>2 DEF Asked, Entitled, PeerOps
  <2> QED BY <1>2, <2>1
<1>3. CASE j.op = "editPeer"
  <2>1. /\ Shown.peers[j.p].st = "active"
        /\ \E on \in BOOLEAN : j.new = [Shown.peers[j.p] EXCEPT !.on = on]
    BY <1>3 DEF Asked, Entitled, PeerOps
  <2> QED BY <1>1, <1>3, <2>1 DEF Peer
<1>4. CASE j.op \in {"delPeer", "restorePeer"}
  <2>1. /\ j.op = "delPeer" => Shown.peers[j.p].st = "active"
        /\ j.op = "restorePeer" =>
             InTable(Shown.peers[j.p]) /\ j.new = [Shown.peers[j.p] EXCEPT !.st = "active"]
    BY <1>4 DEF Asked, Entitled, PeerOps
  <2> QED BY <1>4, <2>1
<1> QED BY <1>2, <1>3, <1>4 DEF PeerOps

\* What depends on the parts of a job that stay, and on what is shown, stays.
LEMMA PeerStays ==
    ASSUME NEW w \in Workers, Shown' = Shown, jobs'[w].op = jobs[w].op, jobs'[w].i = jobs[w].i,
           jobs'[w].p = jobs[w].p, jobs'[w].new = jobs[w].new
    PROVE  /\ PeerRow(jobs[w])' = PeerRow(jobs[w]) /\ PeerDev(jobs[w])' = PeerDev(jobs[w])
           /\ (AddressFree(jobs[w])' <=> AddressFree(jobs[w]))
           /\ (RulesTaken(jobs[w], fw, pfs)' <=> RulesTaken(jobs[w], fw', pfs'))
           /\ Linked(jobs[w].i)' = Linked(jobs[w].i)
<1>1. PeerRow(jobs[w])' = PeerRow(jobs[w])
  BY DEF PeerRow
<1>2. PeerDev(jobs[w])' = PeerDev(jobs[w]) /\ Linked(jobs[w].i)' = Linked(jobs[w].i)
  BY DEF PeerDev, WantsPeer, Linked
<1>3. AddressFree(jobs[w])' <=> AddressFree(jobs[w])
  BY DEF AddressFree
<1>4. RulesTaken(jobs[w], fw, pfs)' <=> RulesTaken(jobs[w], fw', pfs')
  BY DEF RulesTaken, Panel!RulesOf, Panel!ForwardsTo
<1> QED BY <1>1, <1>2, <1>3, <1>4

\* The ways a request on a peer can end once the row is written.
LEMMA SyncEnds ==
    ASSUME ShownTyped, NEW j, j.i \in Ifaces, NameOf[j.i] \in Names, NEW F,
           Shown' = Now', wan' = wan, ifaces' = Shown.ifaces,
           todo' = Shown.todo, pfTodo' = Shown.pfTodo,
           peers' = [Shown.peers EXCEPT ![j.p] = PeerRow(j)], AddressFree(j),
           LET n == NameOf[j.i]
               row == Shown.ifaces[j.i]
           IN  \/ /\ RulesTaken(j, fw', pfs') /\ dev' = Shown.dev
                  /\ owed' = IF row.st = "active" THEN Shown.owed \union {n} ELSE Shown.owed
               \/ /\ RulesTaken(j, fw', pfs') /\ row.st = "active" /\ row.on
                  /\ owed' = Shown.owed \union {n}
                  /\ \/ /\ ~LinkOK(Shown.dev[n], F)
                        /\ dev' = [Shown.dev EXCEPT ![n] = EnsureLink(Shown.dev[n], row.addr, F)]
                     \/ dev' = [Shown.dev EXCEPT ![n] = Linked(j.i)]
               \/ /\ RulesTaken(j, fw', pfs') \/ RulesBack(j)
                  /\ row.st = "active" /\ dev' = PeerDev(j) /\ owed' = Shown.owed
    PROVE  PeerEnds(j)
<1> DEFINE n == NameOf[j.i]
           row == Shown.ifaces[j.i]
           x == WantsPeer(j)
<1>1. x \in BOOLEAN
  BY DEF WantsPeer
<1>2. /\ {} \in SUBSET SyncCalls /\ {"peer"} \in SUBSET SyncCalls
      /\ F.host \intersect {"link", "addr"} \in SUBSET SyncCalls
      /\ {"load"} \in SUBSET {"load"} /\ {} \in SUBSET {"load"}
  BY DEF SyncCalls
<1>3. CASE /\ RulesTaken(j, fw', pfs') /\ dev' = Shown.dev
           /\ owed' = IF row.st = "active" THEN Shown.owed \union {n} ELSE Shown.owed
  <2>1. Panel!SyncPeer(j.i, j.p, x, SyncFailing({}, {"load"}))
    BY <1>1, <1>3, SyncOutcomes
  <2> QED BY <1>2, <1>3, <2>1 DEF PeerEnds, PeerInPlace
<1>4. CASE /\ RulesTaken(j, fw', pfs') /\ row.st = "active" /\ row.on
           /\ owed' = Shown.owed \union {n} /\ ~LinkOK(Shown.dev[n], F)
           /\ dev' = [Shown.dev EXCEPT ![n] = EnsureLink(Shown.dev[n], row.addr, F)]
  <2>1. Panel!SyncPeer(j.i, j.p, x, SyncFailing(F.host \intersect {"link", "addr"}, {}))
    BY <1>1, <1>4, SyncOutcomes
  <2> QED BY <1>2, <1>4, <2>1 DEF PeerEnds, PeerInPlace
<1>5. CASE /\ RulesTaken(j, fw', pfs') /\ row.st = "active" /\ row.on
           /\ owed' = Shown.owed \union {n} /\ dev' = [Shown.dev EXCEPT ![n] = Linked(j.i)]
  <2>1. Panel!SyncPeer(j.i, j.p, x, SyncFailing({"peer"}, {}))
    BY <1>1, <1>5, SyncOutcomes DEF Linked
  <2> QED BY <1>2, <1>5, <2>1 DEF PeerEnds, PeerInPlace
<1>6. CASE /\ RulesTaken(j, fw', pfs') \/ RulesBack(j)
           /\ row.st = "active" /\ dev' = PeerDev(j) /\ owed' = Shown.owed
  <2>1. /\ Panel!SyncPeer(j.i, j.p, x, SyncFailing({}, {}))
        /\ Panel!SyncPeerOK(j.i, SyncFailing({}, {}))
    BY <1>1, <1>6, SyncOutcomes DEF Linked, PeerDev
  <2> QED BY <1>2, <1>6, <2>1 DEF PeerEnds, PeerInPlace
<1> QED BY <1>3, <1>4, <1>5, <1>6

\* After a call, with the row written.
LEMMA PeerOn ==
    ASSUME NEW w \in Workers, Busy' # {}, NextJob(jobs'[w], jobs[w]),
           jobs'[w].new = jobs[w].new, Shown' = Shown, AddressFree(jobs[w]),
           ifaces' = Shown.ifaces, owed' = Shown.owed, todo' = Shown.todo,
           pfTodo' = Shown.pfTodo,
           peers' = [Shown.peers EXCEPT ![jobs[w].p] = PeerRow(jobs[w])],
           RulesTaken(jobs[w], fw', pfs'),
           LET j    == jobs[w]
               k    == jobs'[w]
               row  == Shown.ifaces[j.i]
               call == Head(k.calls)
           IN  \/ /\ call = "parent" /\ dev' = Shown.dev
                  /\ k.verdict = IF row.st = "active" THEN "owed" ELSE "none"
               \/ /\ call = "ensure" /\ dev' = Shown.dev /\ row.st = "active" /\ row.on
                  /\ k.row = row /\ k.verdict = "owed"
               \/ /\ call = "peer" /\ row.st = "active" /\ row.on /\ k.row = row
                  /\ dev' = [Shown.dev EXCEPT ![NameOf[j.i]] = Linked(j.i)]
                  /\ k.verdict = "owed"
               \/ /\ call = "reapply" /\ row.st = "active" /\ dev' = PeerDev(j)
                  /\ k.verdict = "none"
    PROVE  PeerGoesOn(w)
<1> DEFINE j == jobs[w]
           k == jobs'[w]
           call == Head(k.calls)
<1>1. k.op = j.op /\ k.i = j.i /\ k.p = j.p /\ k.new = j.new
  BY DEF NextJob
<1>2. /\ PeerRow(jobs[w])' = PeerRow(j) /\ PeerDev(jobs[w])' = PeerDev(j)
      /\ (AddressFree(jobs[w])' <=> AddressFree(j))
      /\ (RulesTaken(jobs[w], fw, pfs)' <=> RulesTaken(j, fw', pfs'))
      /\ Linked(jobs[w].i)' = Linked(j.i)
  BY <1>1, PeerStays
<1>3. call \notin PeerStatements \union {"unapply", "purgePfs"}
  BY DEF PeerStatements
<1>4. PeerAfter(jobs[w], Head(jobs[w].calls))'
  BY <1>1, <1>2 DEF PeerAfter
<1>5. PeerStage(jobs[w])'
  BY <1>3, <1>4 DEF PeerStage
<1> QED BY <1>5 DEF PeerGoesOn

\* An answer after the row is written.
LEMMA PeerOver ==
    ASSUME NEW w \in Workers, Serving(w), jobs[w].op \in PeerOps, Busy' = {},
           PeerEnds(jobs[w])
    PROVE  PeerGoesOn(w)
<1>1. jobs[w].p \in Peers /\ jobs[w].i \in Ifaces
  BY WorkParts DEF Serving
<1>2. Panel!Next
  BY <1>1, PeerDone DEF Serving
<1> QED BY <1>2 DEF PeerGoesOn

\* The statement on the row.
LEMMA PeerWritten ==
    ASSUME NEW w \in Workers, Serving(w), Call(w), PeerStage(jobs[w]), jobs[w].op \in PeerOps,
           Head(jobs[w].calls) \in PeerStatements
    PROVE  PeerGoesOn(w)
<1> DEFINE j    == jobs[w]
           here == Head(j.calls)
<1>1. /\ j \in Job /\ Fits(j) /\ Place(j.op, j.calls) /\ j.i \in Ifaces
      /\ NameOf[j.i] \in Names /\ j.p \in Peers /\ j.new \in Peer
      /\ \A call : At(w, call) <=> here = call
  BY WorkParts DEF Serving
<1>2. PICK F : PeerStatement(w, F)
  BY CallAt DEF PeerStatements
<1>3. /\ peers = Shown.peers /\ dev = Shown.dev /\ j.verdict = "none"
      /\ RulesTaken(j, fw, pfs) /\ ifaces = Shown.ifaces /\ owed = Shown.owed
      /\ todo = Shown.todo /\ pfTodo = Shown.pfTodo
  BY DEF PeerStage, PeerBefore, PeerStatements
<1>4. UNCHANGED <<ifaces, pfs, dev, fw, todo, pfTodo, wan>>
  BY <1>2, BootAside DEF PeerStatement, HostUntouched
<1>5. /\ here = "insertPeer" <=> j.op = "addPeer"
      /\ here = "savePeer" <=> j.op = "editPeer"
      /\ here = "trashPeer" <=> j.op = "delPeer"
      /\ here = "restorePeer" <=> j.op = "restorePeer"
      /\ here = "purgePeer" <=> j.op = "purgePeer"
  BY <1>1, Heads DEF PeerStatements, PeerOps
<1>6. /\ j.op = "addPeer" => j.new.iface = j.i
      /\ j.op \in {"editPeer", "delPeer"} => peers[j.p].st = "active"
      /\ j.op = "restorePeer" =>
           InTable(peers[j.p]) /\ j.new = [peers[j.p] EXCEPT !.st = "active"]
  BY <1>1, <1>3, AskedOfPeer DEF Serving
<1>7. [j EXCEPT !.new = j.new] = j
  BY <1>1 DEF Job
<1>8. \/ peers' = peers /\ Stop(w, "none")
      \/ /\ peers' = [peers EXCEPT ![j.p] = PeerRow(j)] /\ AddressFree(j)
         /\ GoOn(w, j, Pending(j.i))
  <2>1. CASE j.op = "addPeer"
    <3>1. PeerFits(j.p, j.new) => AddressFree(j)
      BY <1>3 DEF PeerFits, AddressFree
    <3> QED BY <1>1, <1>2, <1>3, <1>5, <2>1, <3>1 DEF PeerStatement, WritePeer, PeerRow
  <2>2. CASE j.op = "editPeer"
    <3>1. Upsert(j.new, peers[j.p].st = "active") = j.new
      BY <1>6, <2>2 DEF Upsert
    <3>2. PeerRow(j) = j.new /\ AddressFree(j)
      BY <2>2 DEF PeerRow, AddressFree
    <3> QED BY <1>1, <1>2, <1>5, <1>7, <2>2, <3>1, <3>2 DEF PeerStatement, WritePeer
  <2>3. CASE j.op = "delPeer"
    <3>1. PeerRow(j) = [peers[j.p] EXCEPT !.st = "trashed"] /\ AddressFree(j)
      BY <1>3, <2>3 DEF PeerRow, AddressFree
    <3> QED BY <1>1, <1>2, <1>5, <1>6, <2>3, <3>1 DEF PeerStatement, WritePeer
  <2>4. CASE j.op = "restorePeer"
    <3>1. PeerRow(j) = [peers[j.p] EXCEPT !.st = "active"] /\ AddressFree(j)
      BY <1>6, <2>4 DEF PeerRow, AddressFree
    <3> QED BY <1>1, <1>2, <1>5, <1>6, <2>4, <3>1 DEF PeerStatement, WritePeer
  <2>5. CASE j.op = "purgePeer"
    <3>1. PeerRow(j) = BlankPeer("purged") /\ AddressFree(j)
      BY <2>5 DEF PeerRow, AddressFree
    <3> QED BY <1>1, <1>2, <1>5, <2>5, <3>1 DEF PeerStatement, WritePeer
  <2> QED BY <2>1, <2>2, <2>3, <2>4, <2>5 DEF PeerOps
<1>9. CASE peers' = peers /\ Stop(w, "none")
  <2>1. Busy' = {} /\ owed' = owed /\ Shown' = Now'
    BY <1>9, Stopped, Reports
  <2>2. CASE j.op \in {"delPeer", "purgePeer"}
    <3>1. PeerEnds(j)
      BY <1>3, <1>4, <1>9, <2>1, <2>2 DEF PeerEnds, PeerLeft
    <3> QED BY <2>1, <3>1, PeerOver
  <2>3. CASE j.op \notin {"delPeer", "purgePeer"}
    <3>1. fw = Shown.fw /\ pfs = Shown.pfs
      BY <1>3, <2>3 DEF RulesTaken
    <3>2. UNCHANGED Panel!vars
      BY <1>3, <1>4, <1>9, <2>1, <3>1 DEF Now, Panel!vars
    <3> QED BY <2>1, <3>2 DEF PeerGoesOn
  <2> QED BY <2>2, <2>3
<1>10. CASE /\ peers' = [peers EXCEPT ![j.p] = PeerRow(j)] /\ AddressFree(j)
            /\ GoOn(w, j, Pending(j.i))
  <2>1. Len(j.calls) # 1
    BY <1>1, PeerLast DEF PeerStatements
  <2>2. /\ Busy' = {w} /\ owed' = owed /\ NextJob(jobs'[w], j) /\ Shown' = Shown
        /\ jobs'[w].verdict = Pending(j.i)
    BY <1>10, <2>1, Onwards
  <2>3. Head(jobs'[w].calls) = "parent"
    BY <1>1, <2>2, PeerNext DEF PeerFollows, PeerStatements
  <2>4. jobs'[w].new = j.new
    <3>1. here = "savePeer" => Upsert(j.new, peers[j.p].st = "active") = j.new
      BY <1>5, <1>6 DEF Upsert
    <3> QED BY <2>2, <3>1 DEF NextJob, PeerStatements
  <2>5. Pending(j.i) = IF Shown.ifaces[j.i].st = "active" THEN "owed" ELSE "none"
    BY <1>3 DEF Pending, Active
  <2>6. /\ RulesTaken(j, fw', pfs') /\ ifaces' = Shown.ifaces /\ owed' = Shown.owed
        /\ peers' = [Shown.peers EXCEPT ![j.p] = PeerRow(j)] /\ dev' = Shown.dev
        /\ todo' = Shown.todo /\ pfTodo' = Shown.pfTodo
    BY <1>3, <1>4, <1>10, <2>2
  <2> QED BY <1>10, <2>2, <2>3, <2>4, <2>5, <2>6, PeerOn
<1> QED BY <1>8, <1>9, <1>10

\* What holds once the row is written.
LEMMA PeerLater ==
    ASSUME NEW w \in Workers, Serving(w), Call(w), PeerStage(jobs[w]), jobs[w].op \in PeerOps,
           Head(jobs[w].calls) \in {"parent", "ensure", "peer", "reapply"}
    PROVE  LET j == jobs[w]
           IN  /\ j \in Job /\ Fits(j) /\ Place(j.op, j.calls) /\ j.i \in Ifaces
               /\ NameOf[j.i] \in Names /\ j.p \in Peers
               /\ {"calls", "verdict"} \subseteq DOMAIN j
               /\ jobs \in [Workers -> Job \union {NoJob}]
               /\ \A call : At(w, call) <=> Head(j.calls) = call
               /\ peers = [Shown.peers EXCEPT ![j.p] = PeerRow(j)] /\ AddressFree(j)
               /\ RulesTaken(j, fw, pfs) /\ ifaces = Shown.ifaces /\ owed = Shown.owed
               /\ todo = Shown.todo /\ pfTodo = Shown.pfTodo
               /\ UNCHANGED <<todo, pfTodo, wan>> /\ PeerAfter(j, Head(j.calls))
<1> DEFINE j == jobs[w]
<1>1. /\ j \in Job /\ Fits(j) /\ Place(j.op, j.calls) /\ j.i \in Ifaces
      /\ NameOf[j.i] \in Names /\ j.p \in Peers
      /\ {"calls", "verdict"} \subseteq DOMAIN j /\ jobs \in [Workers -> Job \union {NoJob}]
      /\ \A call : At(w, call) <=> Head(j.calls) = call
  BY WorkParts DEF Serving
<1>2. /\ ifaces = Shown.ifaces /\ owed = Shown.owed /\ PeerAfter(j, Head(j.calls))
      /\ todo = Shown.todo /\ pfTodo = Shown.pfTodo
  BY DEF PeerStage, PeerStatements
<1>3. UNCHANGED <<todo, pfTodo, wan>>
  BY BootAside
<1> QED BY <1>1, <1>2, <1>3 DEF PeerAfter

\* The parent is read.
LEMMA PeerParent ==
    ASSUME NEW w \in Workers, Serving(w), Call(w), PeerStage(jobs[w]), jobs[w].op \in PeerOps,
           Head(jobs[w].calls) = "parent"
    PROVE  PeerGoesOn(w)
<1> DEFINE j   == jobs[w]
           row == Shown.ifaces[j.i]
           d   == <<"parent">> \o Syncing \o Tail(j.calls)
           x   == [j EXCEPT !.row = row, !.calls = d]
<1>1. /\ j \in Job /\ Fits(j) /\ Place(j.op, j.calls) /\ j.i \in Ifaces
      /\ NameOf[j.i] \in Names /\ j.p \in Peers
      /\ {"calls", "verdict"} \subseteq DOMAIN j /\ jobs \in [Workers -> Job \union {NoJob}]
      /\ \A call : At(w, call) <=> Head(j.calls) = call
      /\ peers = [Shown.peers EXCEPT ![j.p] = PeerRow(j)] /\ AddressFree(j)
      /\ RulesTaken(j, fw, pfs) /\ ifaces = Shown.ifaces /\ owed = Shown.owed
      /\ todo = Shown.todo /\ pfTodo = Shown.pfTodo
      /\ UNCHANGED <<todo, pfTodo, wan>> /\ PeerAfter(j, "parent")
  BY PeerLater
<1>2. PICK F : Parent(w, F)
  BY CallAt
<1>3. UNCHANGED <<ifaces, peers, pfs, dev, fw, todo, pfTodo, wan>> /\ dev = Shown.dev
  BY <1>1, <1>2 DEF Parent, RowsUntouched, HostUntouched, PeerAfter
<1>4. \/ Stop(w, Pending(j.i))
      \/ row.st = "active" /\ ~row.on /\ GoOn(w, j, "none")
      \/ row.st = "active" /\ row.on /\ GoOn(w, x, "owed")
  BY <1>1, <1>2 DEF Parent, Active
<1>5. Pending(j.i) = IF row.st = "active" THEN "owed" ELSE "none"
  BY <1>1 DEF Pending, Active
<1>6. RulesTaken(j, fw', pfs')
  BY <1>1, <1>3
<1>7. CASE Stop(w, Pending(j.i))
  <2>1. /\ Busy' = {} /\ Shown' = Now'
        /\ owed' = OwedBy(owed, NameOf[j.i], Pending(j.i))
    BY <1>7, Stopped
  <2>2. owed' = IF row.st = "active" THEN Shown.owed \union {NameOf[j.i]} ELSE Shown.owed
    BY <1>1, <1>5, <2>1, Reports
  <2>3. PeerEnds(j)
    BY <1>1, <1>3, <1>6, <2>1, <2>2, SyncEnds DEF Serving
  <2> QED BY <2>1, <2>3, PeerOver
<1>8. CASE row.st = "active" /\ ~row.on /\ GoOn(w, j, "none")
  <2>1. PeerDev(j) = Shown.dev
    BY <1>8 DEF PeerDev
  <2>2. CASE Len(j.calls) = 1
    <3>1. Busy' = {} /\ Shown' = Now' /\ owed' = Shown.owed
      BY <1>1, <1>8, <2>2, Onwards, Reports
    <3>2. PeerEnds(j)
      BY <1>1, <1>3, <1>6, <1>8, <2>1, <3>1, SyncEnds DEF Serving
    <3> QED BY <3>1, <3>2, PeerOver
  <2>3. CASE Len(j.calls) # 1
    <3>1. /\ Busy' = {w} /\ owed' = owed /\ NextJob(jobs'[w], j) /\ Shown' = Shown
          /\ jobs'[w].verdict = "none" /\ jobs'[w].calls = Tail(j.calls)
      BY <1>8, <2>3, Onwards
    <3>2. Head(jobs'[w].calls) = "reapply" /\ jobs'[w].new = j.new
      BY <1>1, <3>1, PeerNext DEF NextJob
    <3> QED BY <1>1, <1>3, <1>6, <1>8, <2>1, <3>1, <3>2, PeerOn
  <2> QED BY <2>2, <2>3
<1>9. CASE row.st = "active" /\ row.on /\ GoOn(w, x, "owed")
  <2>1. x.calls = d /\ x.row = row /\ {"calls", "verdict"} \subseteq DOMAIN x
    BY <1>1 DEF Job
  <2>2. Len(d) # 1 /\ Head(Tail(d)) = "ensure"
    <3>1. Goes(j.op, d, "ensure")
      BY <1>1, Replaced
    <3> HIDE DEF d
    <3> QED BY <3>1 DEF Goes
  <2> HIDE DEF d
  <2>3. /\ Busy' = {w} /\ owed' = owed /\ NextJob(jobs'[w], j)
        /\ jobs'[w].verdict = "owed" /\ jobs'[w].calls = Tail(d)
    <3> HIDE DEF x
    <3> QED BY <1>9, <2>1, <2>2, Proceeds DEF Serving
  <2>4. Shown' = Shown
    BY <2>3 DEF Serving, Showing
  <2>5. jobs'[w].row = row
    <3>1. jobs' = [jobs EXCEPT ![w] = [x EXCEPT !.calls = Tail(@), !.verdict = "owed"]]
      BY <1>9, <2>1, <2>2 DEF GoOn
    <3>2. jobs'[w] = [x EXCEPT !.calls = Tail(@), !.verdict = "owed"]
      <4> HIDE DEF x
      <4> QED BY <1>1, <3>1
    <3>3. [x EXCEPT !.calls = Tail(@), !.verdict = "owed"].row = x.row
      <4>1. "row" \in DOMAIN x
        BY <1>1 DEF Job
      <4> HIDE DEF x
      <4> QED BY <4>1
    <3> QED BY <2>1, <3>2, <3>3
  <2>6. jobs'[w].new = j.new
    BY <2>3 DEF NextJob
  <2> QED BY <1>1, <1>3, <1>6, <1>9, <2>2, <2>3, <2>4, <2>5, <2>6, PeerOn
<1> QED BY <1>4, <1>7, <1>8, <1>9

\* The device is made sure of.
LEMMA PeerEnsured ==
    ASSUME NEW w \in Workers, Serving(w), Call(w), PeerStage(jobs[w]), jobs[w].op \in PeerOps,
           Head(jobs[w].calls) = "ensure"
    PROVE  PeerGoesOn(w)
<1> DEFINE j   == jobs[w]
           n   == NameOf[j.i]
           row == Shown.ifaces[j.i]
<1>1. /\ j \in Job /\ Fits(j) /\ Place(j.op, j.calls) /\ j.i \in Ifaces
      /\ NameOf[j.i] \in Names /\ j.p \in Peers
      /\ \A call : At(w, call) <=> Head(j.calls) = call
      /\ peers = [Shown.peers EXCEPT ![j.p] = PeerRow(j)] /\ AddressFree(j)
      /\ RulesTaken(j, fw, pfs) /\ ifaces = Shown.ifaces /\ owed = Shown.owed
      /\ todo = Shown.todo /\ pfTodo = Shown.pfTodo
      /\ UNCHANGED <<todo, pfTodo, wan>> /\ PeerAfter(j, "ensure")
  BY PeerLater
<1>2. PICK F : Ensure(w, F)
  BY CallAt
<1>3. /\ UNCHANGED <<ifaces, peers, pfs, fw, todo, pfTodo, wan>> /\ dev = Shown.dev
      /\ row.st = "active" /\ row.on /\ j.row = row
  BY <1>1, <1>2 DEF Ensure, RowsUntouched, PeerAfter
<1>4. /\ dev' = [Shown.dev EXCEPT ![n] = EnsureLink(Shown.dev[n], row.addr, F)]
      /\ IF LinkOK(Shown.dev[n], F) THEN GoOn(w, j, "owed") ELSE Stop(w, "owed")
  BY <1>2, <1>3 DEF Ensure, SetDev, DevOf
<1>5. RulesTaken(j, fw', pfs')
  BY <1>1, <1>3
<1>6. CASE ~LinkOK(Shown.dev[n], F)
  <2>1. Busy' = {} /\ Shown' = Now' /\ owed' = Shown.owed \union {n}
    BY <1>1, <1>4, <1>6, Stopped, Reports
  <2>2. PeerEnds(j)
    BY <1>1, <1>3, <1>4, <1>5, <1>6, <2>1, SyncEnds DEF Serving
  <2> QED BY <2>1, <2>2, PeerOver
<1>7. CASE LinkOK(Shown.dev[n], F)
  <2>1. Len(j.calls) # 1
    BY <1>1, PeerLast
  <2>2. /\ Busy' = {w} /\ owed' = owed /\ NextJob(jobs'[w], j) /\ Shown' = Shown
        /\ jobs'[w].verdict = "owed"
    BY <1>4, <1>7, <2>1, Onwards
  <2>3. Head(jobs'[w].calls) = "peer" /\ jobs'[w].new = j.new /\ jobs'[w].row = row
    BY <1>1, <1>3, <2>2, PeerNext DEF PeerFollows, NextJob
  <2>4. dev' = [Shown.dev EXCEPT ![n] = Linked(j.i)]
    BY <1>4, <1>7, AllThere DEF Linked, Plain
  <2> QED BY <1>1, <1>3, <1>5, <2>2, <2>3, <2>4, PeerOn
<1> QED BY <1>6, <1>7

\* The one peer is configured or removed.
LEMMA PeerOneSynced ==
    ASSUME NEW w \in Workers, Serving(w), Call(w), PeerStage(jobs[w]), jobs[w].op \in PeerOps,
           Head(jobs[w].calls) = "peer"
    PROVE  PeerGoesOn(w)
<1> DEFINE j   == jobs[w]
           n   == NameOf[j.i]
           row == Shown.ifaces[j.i]
<1>1. /\ j \in Job /\ Fits(j) /\ Place(j.op, j.calls) /\ j.i \in Ifaces
      /\ NameOf[j.i] \in Names /\ j.p \in Peers
      /\ \A call : At(w, call) <=> Head(j.calls) = call
      /\ peers = [Shown.peers EXCEPT ![j.p] = PeerRow(j)] /\ AddressFree(j)
      /\ RulesTaken(j, fw, pfs) /\ ifaces = Shown.ifaces /\ owed = Shown.owed
      /\ todo = Shown.todo /\ pfTodo = Shown.pfTodo
      /\ UNCHANGED <<todo, pfTodo, wan>> /\ PeerAfter(j, "peer")
  BY PeerLater
<1>2. PICK F : SyncOne(w, F)
  BY CallAt
<1>3. /\ UNCHANGED <<ifaces, peers, pfs, fw, todo, pfTodo, wan>>
      /\ dev = [Shown.dev EXCEPT ![n] = Linked(j.i)]
      /\ row.st = "active" /\ row.on /\ j.row = row
  BY <1>1, <1>2 DEF SyncOne, RowsUntouched, PeerAfter
<1>4. dev[n] = Linked(j.i) /\ Shown.dev \in [Names -> Device]
  BY <1>1, <1>3 DEF Serving, ShownTyped
<1>5. \/ Stop(w, "owed") /\ dev' = dev
      \/ GoOn(w, j, "none") /\ dev' = PeerDev(j)
  <2>1. \/ Stop(w, "owed") /\ dev' = dev
        \/ /\ GoOn(w, j, "none")
           /\ dev' = [dev EXCEPT ![n] = IF WantsPeer(j) THEN ConfigurePeer(dev[n], j.p)
                                        ELSE RemovePeer(dev[n], j.p)]
    BY <1>2 DEF SyncOne, SetDev, DevOf, WantsPeer
  <2>2. \A a, b : [[Shown.dev EXCEPT ![n] = a] EXCEPT ![n] = b] = [Shown.dev EXCEPT ![n] = b]
    BY <1>1, <1>4
  <2> QED BY <1>3, <1>4, <2>1, <2>2 DEF PeerDev
<1>6. RulesTaken(j, fw', pfs')
  BY <1>1, <1>3
<1>7. CASE Stop(w, "owed") /\ dev' = dev
  <2>1. Busy' = {} /\ Shown' = Now' /\ owed' = Shown.owed \union {n}
    BY <1>1, <1>7, Stopped, Reports
  <2>2. PeerEnds(j)
    BY <1>1, <1>3, <1>6, <1>7, <2>1, SyncEnds DEF Serving
  <2> QED BY <2>1, <2>2, PeerOver
<1>8. CASE GoOn(w, j, "none") /\ dev' = PeerDev(j)
  <2>2. CASE Len(j.calls) = 1
    <3>1. Busy' = {} /\ Shown' = Now' /\ owed' = Shown.owed
      BY <1>1, <1>8, <2>2, Onwards, Reports
    <3>2. PeerEnds(j)
      BY <1>1, <1>3, <1>6, <1>8, <3>1, SyncEnds DEF Serving
    <3> QED BY <3>1, <3>2, PeerOver
  <2>3. CASE Len(j.calls) # 1
    <3>1. /\ Busy' = {w} /\ owed' = owed /\ NextJob(jobs'[w], j) /\ Shown' = Shown
          /\ jobs'[w].verdict = "none" /\ jobs'[w].calls = Tail(j.calls)
      BY <1>8, <2>3, Onwards
    <3>2. Head(jobs'[w].calls) = "reapply" /\ jobs'[w].new = j.new
      BY <1>1, <3>1, PeerNext DEF NextJob, PeerFollows
    <3> QED BY <1>1, <1>3, <1>6, <1>8, <3>1, <3>2, PeerOn
  <2> QED BY <2>2, <2>3
<1> QED BY <1>5, <1>7, <1>8

\* The same forwards are found in the tables and in what is shown, and a cascade takes
\* out or puts in their rules by kind.
LEMMA CascadeRules ==
    ASSUME pfs = Shown.pfs
    PROVE  /\ \A p : ForwardsTo(p) = Panel!ForwardsTo(p)
           /\ \A i : Forwards(i) = Panel!Forwards(i)
           /\ \A S, F : \E d \in SUBSET PfKinds : \A r :
                Unapply(r, S, F) = Removed(r, Panel!RulesOf(S), d)
           /\ \A S, F : \E a \in SUBSET PfKinds : \A r :
                Reapply(r, S, F) = PutIn(r, Panel!RulesOf(Panel!Enabled(S)), a)
<1>1. /\ \A p : ForwardsTo(p) = Panel!ForwardsTo(p)
      /\ \A i : Forwards(i) = Panel!Forwards(i)
      /\ \A S : Enabled(S) = Panel!Enabled(S)
  BY DEF ForwardsTo, Panel!ForwardsTo, Forwards, Panel!Forwards, Enabled, Panel!Enabled
<1>2. \A S : RulesOf(S) = Panel!RulesOf(S)
  BY SameRules DEF RulesOf, Panel!RulesOf
<1>3. \A S : OfForwards(RulesOf(S))
  BY RulesUnderFaults DEF RulesOf, OfForwards
<1>4. RulesOf({}) = {}
  BY DEF RulesOf
<1>5. ASSUME NEW S, NEW F
      PROVE  \E d \in SUBSET PfKinds : \A r : Unapply(r, S, F) = Removed(r, Panel!RulesOf(S), d)
  <2>1. CASE "pfload" \in F.db
    <3>1. \A r : Unapply(r, S, F) = r
      BY <1>4, <2>1 DEF Unapply, Found, DeleteRules
    <3>2. \A r : Removed(r, RulesOf(S), PfKinds) = r
      BY <1>3 DEF Removed, OfForwards
    <3> QED BY <1>2, <3>1, <3>2
  <2>2. CASE "pfload" \notin F.db
    <3>1. \A r : Unapply(r, S, F) = DeleteRules(r, RulesOf(S), F)
      BY <2>2 DEF Unapply, Found
    <3> QED BY <1>2, <1>3, <3>1, RulesUnderFaults
  <2> QED BY <2>1, <2>2
<1>6. ASSUME NEW S, NEW F
      PROVE  \E a \in SUBSET PfKinds : \A r :
               Reapply(r, S, F) = PutIn(r, Panel!RulesOf(Panel!Enabled(S)), a)
  <2>1. CASE "pfload" \in F.db
    <3>1. \A r : Reapply(r, S, F) = r
      BY <1>4, <2>1 DEF Reapply, Found, EnsureRules
    <3>2. \A r : PutIn(r, RulesOf(Enabled(S)), {"dnat"}) = r
      BY <1>3, RulesUnderFaults
    <3> QED BY <1>1, <1>2, <3>1, <3>2 DEF PfKinds
  <2>2. CASE "pfload" \notin F.db
    <3>1. \A r : Reapply(r, S, F) = EnsureRules(r, RulesOf(Enabled(S)), F)
      BY <2>2 DEF Reapply, Found
    <3> QED BY <1>1, <1>2, <1>3, <3>1, RulesUnderFaults
  <2> QED BY <2>1, <2>2
<1> QED BY <1>1, <1>5, <1>6

\* The forwards to the peer, before its row goes and after it is back.
LEMMA PeerCascades ==
    ASSUME NEW w \in Workers, Serving(w), Call(w), PeerStage(jobs[w]), jobs[w].op \in PeerOps,
           Head(jobs[w].calls) \in {"unapply", "purgePfs", "reapply"}
    PROVE  PeerGoesOn(w)
<1> DEFINE j    == jobs[w]
           here == Head(j.calls)
<1>1. /\ j \in Job /\ Fits(j) /\ Place(j.op, j.calls) /\ j.i \in Ifaces
      /\ NameOf[j.i] \in Names /\ j.p \in Peers
      /\ \A call : At(w, call) <=> Head(j.calls) = call
  BY WorkParts DEF Serving
<1>2. PICK F : Cascade(w, F)
  BY CallAt
<1>3. /\ ifaces = Shown.ifaces /\ owed = Shown.owed /\ todo = Shown.todo
      /\ pfTodo = Shown.pfTodo /\ j.verdict = "none"
      /\ UNCHANGED <<ifaces, peers, dev, todo, pfTodo, wan>>
  <2>1. j.verdict = "none"
    BY DEF PeerStage, PeerBefore, PeerAfter, PeerStatements
  <2> QED BY <1>2, <2>1, BootAside DEF PeerStage, Cascade
<1>4. /\ here = "unapply" => j.op = "delPeer"
      /\ here = "purgePfs" => j.op = "purgePeer"
      /\ here = "reapply" => j.op = "restorePeer"
      /\ j.op # "bootPfs"
  BY <1>1, Heads DEF PeerOps
<1>5. GoOn(w, j, "none") /\ Followers(j) = ForwardsTo(j.p)
  BY <1>2, <1>3, <1>4 DEF Cascade, Owing, Followers
<1>6. CASE here = "reapply"
  <2>1. /\ peers = [Shown.peers EXCEPT ![j.p] = PeerRow(j)] /\ AddressFree(j)
        /\ fw = Shown.fw /\ pfs = Shown.pfs
        /\ Shown.ifaces[j.i].st = "active" /\ dev = PeerDev(j)
    BY <1>4, <1>6 DEF PeerStage, PeerAfter, PeerStatements, RulesTaken
  <2>2. /\ fw' = Reapply(fw, ForwardsTo(j.p), F) /\ pfs' = pfs
    BY <1>1, <1>2, <1>5, <1>6 DEF Cascade
  <2>3. RulesBack(j)
    BY <1>4, <1>6, <2>1, <2>2, CascadeRules DEF RulesBack
  <2>4. Busy' = {} /\ Shown' = Now' /\ owed' = Shown.owed
    <3>1. Len(j.calls) = 1
      BY <1>1, <1>6, PeerLast
    <3> QED BY <1>3, <1>5, <3>1, Onwards, Reports
  <2>5. PeerEnds(j)
    BY <1>1, <1>3, <2>1, <2>3, <2>4, SyncEnds DEF Serving
  <2> QED BY <2>4, <2>5, PeerOver
<1>7. CASE here \in {"unapply", "purgePfs"}
  <2>1. peers = Shown.peers /\ dev = Shown.dev /\ fw = Shown.fw /\ pfs = Shown.pfs
    BY <1>7 DEF PeerStage, PeerBefore
  <2>2. /\ fw' = Unapply(fw, ForwardsTo(j.p), F)
        /\ \/ pfs' = pfs
           \/ /\ here = "purgePfs"
              /\ pfs' = [f \in Pfs |-> IF f \in Found(ForwardsTo(j.p), F)
                                         THEN BlankPf("purged") ELSE pfs[f]]
    BY <1>1, <1>2, <1>5, <1>7 DEF Cascade
  <2>3. RulesTaken(j, fw', pfs')
    <3>1. \E d \in SUBSET PfKinds :
            fw' = Removed(Shown.fw, Panel!RulesOf(Panel!ForwardsTo(j.p)), d)
      BY <2>1, <2>2, CascadeRules
    <3>2. \/ pfs' = Shown.pfs
          \/ /\ j.op = "purgePeer"
             /\ pfs' = [f \in Pfs |-> IF f \in Panel!ForwardsTo(j.p) THEN BlankPf("purged")
                                      ELSE Shown.pfs[f]]
      <4>1. CASE Found(ForwardsTo(j.p), F) = {}
        <5>1. Shown.pfs = [f \in Pfs |-> Shown.pfs[f]]
          BY DEF Serving, ShownTyped
        <5> QED BY <2>1, <2>2, <4>1, <5>1
      <4>2. CASE Found(ForwardsTo(j.p), F) = ForwardsTo(j.p)
        BY <1>4, <2>1, <2>2, <4>2, CascadeRules
      <4> QED BY <4>1, <4>2 DEF Found
    <3> QED BY <1>4, <1>7, <3>1, <3>2 DEF RulesTaken
  <2>4. Len(j.calls) # 1
    BY <1>1, <1>7, PeerLast
  <2>5. /\ Busy' = {w} /\ owed' = owed /\ NextJob(jobs'[w], j) /\ Shown' = Shown
        /\ jobs'[w].verdict = "none" /\ jobs'[w].calls = Tail(j.calls)
    BY <1>5, <2>4, Onwards
  <2>6. Head(jobs'[w].calls) \in {"trashPeer", "purgePeer"}
    BY <1>1, <1>7, <2>5, PeerNext DEF PeerFollows
  <2>7. jobs'[w].new = j.new /\ jobs'[w].op = j.op /\ jobs'[w].i = j.i /\ jobs'[w].p = j.p
    BY <1>7, <2>5 DEF NextJob
  <2>8. RulesTaken(jobs[w], fw, pfs)' <=> RulesTaken(j, fw', pfs')
    BY <2>5, <2>7, PeerStays
  <2>9. PeerBefore(jobs[w], Head(jobs[w].calls))'
    BY <1>3, <2>1, <2>3, <2>5, <2>6, <2>8 DEF PeerBefore
  <2>10. PeerStage(jobs[w])'
    BY <1>3, <2>5, <2>6, <2>9 DEF PeerStage, PeerStatements
  <2> QED BY <2>5, <2>7, <2>10 DEF PeerGoesOn
<1> QED BY <1>6, <1>7

\* Every call of a request on a peer.
LEMMA PeerRequestGoesOn ==
    ASSUME NEW w \in Workers, Serving(w), Call(w), PeerStage(jobs[w]), jobs[w].op \in PeerOps
    PROVE  PeerGoesOn(w)
<1>1. Head(jobs[w].calls) \in PeerStatements \union {"unapply", "purgePfs", "reapply", "parent",
                                                     "ensure", "peer"}
  <2>1. Place(jobs[w].op, jobs[w].calls)
    BY WorkParts DEF Serving
  <2>2. /\ \A r \in SyncingPeer : Head(r) \in {"parent", "ensure", "peer"}
        /\ \A r \in SyncingBefore("reapply") : Head(r) \in {"parent", "ensure", "peer", "reapply"}
    BY DEF SyncingPeer, SyncingBefore
  <2> QED BY <2>1, <2>2 DEF Place, PeerOps, PeerStatements
<1> QED BY <1>1, PeerWritten, PeerParent, PeerEnsured, PeerOneSynced, PeerCascades

\* A handler of a peer that is killed has done no more than one that is refused a call.
LEMMA PeerKilled ==
    ASSUME NEW w \in Workers, Killed(w), PeerStage(jobs[w]), jobs[w].op \in PeerOps
    PROVE  Panel!Next \/ UNCHANGED Panel!vars
<1> DEFINE j    == jobs[w]
           here == Head(j.calls)
           row  == Shown.ifaces[j.i]
<1>1. /\ j.i \in Ifaces /\ NameOf[j.i] \in Names /\ j.p \in Peers
  BY WorkParts DEF Killed
<1>2. /\ Busy' = {} /\ Shown' = Now'
      /\ UNCHANGED <<ifaces, peers, pfs, dev, fw, wan, todo, pfTodo>>
      /\ owed' = OwedBy(owed, NameOf[j.i], j.verdict)
  BY KilledAt
<1>3. /\ ifaces = Shown.ifaces /\ owed = Shown.owed /\ todo = Shown.todo
      /\ pfTodo = Shown.pfTodo
  BY DEF PeerStage
<1>4. PeerEnds(j) => Panel!Next
  BY <1>1, PeerDone DEF Killed
<1>5. CASE here \in PeerStatements \union {"unapply", "purgePfs"}
  <2>1. PeerBefore(j, here)
    BY <1>5 DEF PeerStage
  <2>2. owed' = owed /\ peers = Shown.peers /\ dev = Shown.dev
    BY <1>2, <2>1, Reports DEF PeerBefore
  <2>3. CASE fw = Shown.fw /\ pfs = Shown.pfs
    BY <1>2, <1>3, <2>2, <2>3 DEF Panel!vars, Now
  <2>4. CASE RulesTaken(j, fw, pfs)
    <3>1. CASE j.op \in {"delPeer", "purgePeer"}
      <4>1. RulesTaken(j, fw', pfs')
        BY <1>2, <2>4
      <4>2. PeerEnds(j)
        BY <1>2, <1>3, <2>2, <3>1, <4>1 DEF PeerEnds, PeerLeft
      <4> QED BY <1>4, <4>2
    <3>2. CASE j.op \notin {"delPeer", "purgePeer"}
      BY <2>3, <2>4, <3>2 DEF RulesTaken
    <3> QED BY <3>1, <3>2
  <2> QED BY <2>1, <2>3, <2>4 DEF PeerBefore
<1>6. CASE here \notin PeerStatements \union {"unapply", "purgePfs"}
  <2>1. PeerAfter(j, here)
    BY <1>6 DEF PeerStage
  <2>2. /\ peers' = [Shown.peers EXCEPT ![j.p] = PeerRow(j)] /\ AddressFree(j)
        /\ RulesTaken(j, fw', pfs')
    BY <1>2, <2>1 DEF PeerAfter
  <2>3. here \in {"parent", "ensure", "peer", "reapply"}
    <3>1. Place(jobs[w].op, jobs[w].calls)
      BY WorkParts DEF Killed
    <3>2. /\ \A r \in SyncingPeer : Head(r) \in {"parent", "ensure", "peer"}
          /\ \A r \in SyncingBefore("reapply") :
               Head(r) \in {"parent", "ensure", "peer", "reapply"}
      BY DEF SyncingPeer, SyncingBefore
    <3> QED BY <1>6, <3>1, <3>2 DEF Place, PeerOps, PeerStatements
  <2>4. CASE here \in {"parent", "ensure"}
    <3>1. /\ dev = Shown.dev
          /\ j.verdict = IF row.st = "active" THEN "owed" ELSE "none"
      BY <2>1, <2>4 DEF PeerAfter
    <3>2. /\ dev' = Shown.dev
          /\ owed' = IF row.st = "active" THEN Shown.owed \union {NameOf[j.i]} ELSE Shown.owed
      <4>1. OwedBy(owed, NameOf[j.i], j.verdict)
              = IF row.st = "active" THEN owed \union {NameOf[j.i]} ELSE owed
        BY <3>1, Reports
      <4> QED BY <1>2, <1>3, <3>1, <4>1
    <3>3. PeerEnds(j)
      BY <1>1, <1>2, <1>3, <2>2, <3>2, SyncEnds DEF Killed
    <3> QED BY <1>4, <3>3
  <2>5. CASE here = "peer"
    <3>1. /\ dev' = [Shown.dev EXCEPT ![NameOf[j.i]] = Linked(j.i)] /\ row.st = "active" /\ row.on
          /\ owed' = Shown.owed \union {NameOf[j.i]}
      BY <1>2, <1>3, <2>1, <2>5, Reports DEF PeerAfter
    <3>2. PeerEnds(j)
      BY <1>1, <1>2, <1>3, <2>2, <3>1, SyncEnds DEF Killed
    <3> QED BY <1>4, <3>2
  <2>6. CASE here = "reapply"
    <3>1. dev' = PeerDev(j) /\ row.st = "active" /\ owed' = Shown.owed
      BY <1>2, <1>3, <2>1, <2>6, Reports DEF PeerAfter
    <3>2. PeerEnds(j)
      BY <1>1, <1>2, <1>3, <2>2, <3>1, SyncEnds DEF Killed
    <3> QED BY <1>4, <3>2
  <2> QED BY <2>3, <2>4, <2>5, <2>6
<1> QED BY <1>5, <1>6

\* A request on a peer is taken up.
LEMMA PeerTakenUp ==
    ASSUME NEW w \in Workers, NEW m, TakesUp(w, m), m.op \in PeerOps, SameJob(jobs'[w], m),
           Shown' = Now
    PROVE  PeerStage(jobs[w])'
<1> DEFINE k == jobs'[w]
           here == Head(k.calls)
<1>1. m.calls = Script[m.op] /\ m.verdict = "none" /\ k.calls = m.calls /\ k.verdict = "none"
      /\ k.op = m.op
  BY DEF TakesUp, Origin, SameJob, PeerOps
<1>2. /\ m.op \in {"addPeer", "editPeer", "restorePeer"} => here \in PeerStatements
      /\ m.op = "delPeer" => here = "unapply"
      /\ m.op = "purgePeer" => here = "purgePfs"
  BY <1>1 DEF Script, PeerStatements
<1>3. UNCHANGED <<ifaces, peers, pfs, dev, fw, wan, owed, todo, pfTodo>>
  BY DEF TakesUp, db, boot, PeerOps
<1>4. m.op \in {"addPeer", "editPeer", "restorePeer"} => RulesTaken(jobs[w], fw, pfs)'
  BY <1>1, <1>3 DEF RulesTaken, Now
<1>5. PeerBefore(jobs[w], Head(jobs[w].calls))'
  BY <1>1, <1>2, <1>3, <1>4 DEF PeerBefore, Now, PeerOps
<1> QED BY <1>2, <1>3, <1>5 DEF PeerStage, Now, PeerOps

-----------------------------------------------------------------------------
(* reconcile, as one step *)

Lasts == {"none", "reapply", "unapply"}

\* NAT rules of a row that is taken down, up to the kinds that stay, and of one in use.
Torn(r, i, row, D) == TeardownNAT(r, NameOf[i], row.addr, row.egress, wan, [del |-> D])
Masked(r, i, row) == r \union NatRules(NameOf[i], row.addr, Egress(row.egress, wan))

\* The cascade at the end of a handler, by kinds.
After(last, i, r, a) ==
    IF last = "reapply"
      THEN PutIn(r, Panel!RulesOf(Panel!Enabled(Panel!Forwards(i))), a)
    ELSE IF last = "unapply" THEN Removed(r, Panel!RulesOf(Panel!Forwards(i)), a)
    ELSE r

\* The calls of reconcile on the device and the failures they can meet.
LEMMA LinkFaults ==
    ASSUME NEW d, NEW a, NEW F, NEW G,
           "link" \in F.host <=> "link" \in G.host, "addr" \in F.host <=> "addr" \in G.host
    PROVE  EnsureLink(d, a, F) = EnsureLink(d, a, G) /\ (LinkOK(d, F) <=> LinkOK(d, G))
  BY DEF EnsureLink, LinkOK

\* NAT rules depend on the failures only through the rules that do not go in or out.
LEMMA NatFaults ==
    /\ \A r, i, row, F, D : D = F.del \intersect NatKinds =>
         TeardownNAT(r, NameOf[i], row.addr, row.egress, wan, F) = Torn(r, i, row, D)
    /\ \A n, a, e, F, G : ("forwarding" \in F.host <=> "forwarding" \in G.host)
                          /\ F.add \intersect NatKinds = G.add \intersect NatKinds =>
         /\ \A r : SetupNAT(r, n, a, e, wan, F) = SetupNAT(r, n, a, e, wan, G)
         /\ SetupNATOK(n, a, e, wan, F) <=> SetupNATOK(n, a, e, wan, G)
<1>1. \A n, a, e : \A x \in NatRules(n, a, e) : x[1] \in NatKinds
  BY DEF NatRules, NatKinds
<1>2. ASSUME NEW r, NEW i, NEW row, NEW F, NEW D, D = F.del \intersect NatKinds
      PROVE  TeardownNAT(r, NameOf[i], row.addr, row.egress, wan, F) = Torn(r, i, row, D)
  <2> DEFINE e == Egress(row.egress, wan)
             R == NatRules(NameOf[i], row.addr, e)
  <2>1. {x \in R : x[1] \notin F.del} = {x \in R : x[1] \notin D}
    BY <1>1, <1>2
  <2>2. DeleteRules(r, R, F) = DeleteRules(r, R, [del |-> D])
    BY <2>1 DEF DeleteRules
  <2> QED BY <2>2 DEF TeardownNAT, Torn
<1>3. ASSUME NEW n, NEW a, NEW e, NEW F, NEW G,
             "forwarding" \in F.host <=> "forwarding" \in G.host,
             F.add \intersect NatKinds = G.add \intersect NatKinds
      PROVE  /\ \A r : SetupNAT(r, n, a, e, wan, F) = SetupNAT(r, n, a, e, wan, G)
             /\ SetupNATOK(n, a, e, wan, F) <=> SetupNATOK(n, a, e, wan, G)
  <2> DEFINE R == NatRules(n, a, Egress(e, wan))
  <2>1. \A x \in R : /\ x[1] \in NatKinds /\ NotAfter[x[1]] \subseteq NatKinds
    BY DEF NatRules, NatKinds, NotAfter
  <2>2. \A x \in R : /\ NotAfter[x[1]] \intersect F.add = {}
                          <=> NotAfter[x[1]] \intersect G.add = {}
                     /\ x[1] \in F.add <=> x[1] \in G.add
    BY <1>3, <2>1
  <2>3. {x \in R : NotAfter[x[1]] \intersect F.add = {}}
          = {x \in R : NotAfter[x[1]] \intersect G.add = {}}
    BY <2>2
  <2>4. \A r : EnsureRules(r, R, F) = EnsureRules(r, R, G)
    BY <1>3, <2>3 DEF EnsureRules
  <2>5. EnsureRulesOK(R, F) <=> EnsureRulesOK(R, G)
    BY <1>3, <2>2 DEF EnsureRulesOK
  <2> QED BY <2>4, <2>5 DEF SetupNAT, SetupNATOK
<1> QED BY <1>2, <1>3

\* The failures of one reconcile, and what it comes to under them.
Trouble(h, a, d, s) ==
    /\ h \subseteq {"link", "addr", "device", "rmlink", "forwarding"}
    /\ a \subseteq NatKinds \union PfKinds /\ d \subseteq NatKinds \union PfKinds
    /\ s \subseteq {"load", "egress"}

\* The device, the rules and the verdict of a reconcile by the failures it meets.
Met(h, a, d) == [host |-> h, add |-> a, del |-> d]
Ready(i, h) == LinkOK(Found0(i), Met(h, {}, {})) /\ "device" \notin h
ComesOK(i, row, h, a, s) ==
    /\ "load" \notin s
    /\ ~row.on => RemoveLinkOK(Found0(i), Met(h, {}, {}))
    /\ row.on => Ready(i, h)
    /\ row.on /\ row.masq =>
         /\ SetupNATOK(NameOf[i], row.addr, row.egress, wan, Met(h, a, {}))
         /\ row.egress = NoLink => "egress" \notin s
ComesDev(i, row, S, h, s) ==
    LET linked == EnsureLink(Found0(i), row.addr, Met(h, {}, {}))
    IN  IF "load" \in s THEN Found0(i)
        ELSE IF ~row.on THEN RemoveLink(Found0(i), Met(h, {}, {}))
        ELSE IF Ready(i, h) THEN ConfigureDevice(linked, <<i, row.port>>, S) ELSE linked
ComesFw(r, i, row, h, a, d, s) ==
    IF "load" \in s \/ (row.on /\ ~Ready(i, h)) THEN r
    ELSE IF row.on /\ row.masq
      THEN SetupNAT(r, NameOf[i], row.addr, row.egress, wan, Met(h, a, {}))
      ELSE Torn(r, i, row, d \intersect NatKinds)

\* A reconcile in one step, under the failures it meets, comes out as described.
LEMMA ReconcileUnder ==
    ASSUME NEW i, NEW row, NEW S, NEW r, NEW h, NEW a, NEW d, NEW s, Trouble(h, a, d, s)
    PROVE  /\ Failing(h, a, d, s) \in EveryFault
           /\ Panel!ReconcileOK(i, row, Failing(h, a, d, s)) <=> ComesOK(i, row, h, a, s)
           /\ Panel!ReconcileDev(i, row, S, Failing(h, a, d, s)) = ComesDev(i, row, S, h, s)
           /\ Panel!ReconcileFw(r, i, row, Failing(h, a, d, s))
                = ComesFw(r, i, row, h, a, d, s)
<1> DEFINE G == Failing(h, a, d, s)
           F == Met(h, a, d)
           d0 == Found0(i)
<1>1. /\ h \in SUBSET HostFaults /\ a \in SUBSET (NatKinds \union PfKinds)
      /\ d \in SUBSET (NatKinds \union PfKinds)
      /\ s \in SUBSET {"save", "peers", "row", "load", "egress", "pfload", "pfrow",
                       "reserved", "list"}
  BY DEF Trouble, HostFaults
<1>2. G \in EveryFault /\ G.db = s /\ G.host = h /\ G.add = a /\ G.del = d
  <2>1. G \in EveryFault
    BY <1>1, FailingParts
  <2> QED BY <2>1, FailingParts
<1> HIDE DEF G
<1>3. /\ F.host = h /\ F.add = a /\ F.del = d
      /\ \A x, y : Met(h, x, y).host = h /\ Met(h, x, y).add = x
  BY DEF Met
<1> HIDE DEF F
<1>4. /\ EnsureLink(d0, row.addr, G) = EnsureLink(d0, row.addr, Met(h, {}, {}))
      /\ (LinkOK(d0, G) <=> LinkOK(d0, Met(h, {}, {})))
  BY <1>2, <1>3, LinkFaults
<1>5. /\ RemoveLink(d0, G) = RemoveLink(d0, Met(h, {}, {}))
      /\ (RemoveLinkOK(d0, G) <=> RemoveLinkOK(d0, Met(h, {}, {})))
  BY <1>2, <1>3 DEF RemoveLink, RemoveLinkOK
<1>6. /\ SetupNAT(r, NameOf[i], row.addr, row.egress, wan, G)
           = SetupNAT(r, NameOf[i], row.addr, row.egress, wan, Met(h, a, {}))
      /\ SetupNATOK(NameOf[i], row.addr, row.egress, wan, G)
           <=> SetupNATOK(NameOf[i], row.addr, row.egress, wan, Met(h, a, {}))
      /\ TeardownNAT(r, NameOf[i], row.addr, row.egress, wan, G)
           = Torn(r, i, row, d \intersect NatKinds)
  BY <1>2, <1>3, NatFaults
<1>7. Panel!Configured(i, G) <=> Ready(i, h)
  BY <1>2, <1>4, SameDevices DEF Panel!Configured, Found0, Ready
<1>8. Panel!ReconcileOK(i, row, G) <=> ComesOK(i, row, h, a, s)
  BY <1>2, <1>5, <1>6, <1>7, SameDevices, SameRules DEF Panel!ReconcileOK, ComesOK, Found0
<1>9. Panel!ReconcileDev(i, row, S, G) = ComesDev(i, row, S, h, s)
  BY <1>2, <1>4, <1>5, <1>7, SameDevices DEF Panel!ReconcileDev, ComesDev, Found0
<1>10. Panel!ReconcileFw(r, i, row, G) = ComesFw(r, i, row, h, a, d, s)
  BY <1>2, <1>6, <1>7, SameRules DEF Panel!ReconcileFw, ComesFw
<1> QED BY <1>2, <1>8, <1>9, <1>10 DEF G

\* The cascade under failures of its own.
LEMMA Cascades ==
    ASSUME NEW last \in Lasts, NEW i, NEW G, NEW a \in SUBSET PfKinds, NEW D \in SUBSET NatKinds,
           G.add = a, G.del = D \union a, "forwarding" \notin G.host, "pfload" \notin G.db
    PROVE  \A r : Finish(last, r, i, G) = After(last, i, r, a)
<1> DEFINE back == Panel!RulesOf(Panel!Enabled(Panel!Forwards(i)))
           off  == Panel!RulesOf(Panel!Forwards(i))
<1>1. \A S : OfForwards(Panel!RulesOf(S)) /\ Panel!Found(S, G) = S
  BY RulesUnderFaults, SameRules DEF Panel!RulesOf, OfForwards, Panel!Found
<1>2. \A r : Panel!Reapply(r, Panel!Forwards(i), G) = PutIn(r, back, a)
  BY <1>1, SameRules, RulesUnderFaults DEF Panel!Reapply
<1>3. \A r : Panel!Unapply(r, Panel!Forwards(i), G) = Removed(r, off, a)
  <2>1. NatKinds \intersect PfKinds = {}
    BY DEF NatKinds, PfKinds
  <2>2. \A x \in off : x[1] \notin D \union a <=> x[1] \notin a
    BY <1>1, <2>1 DEF OfForwards
  <2>3. \A r : Panel!Unapply(r, Panel!Forwards(i), G) = Removed(r, off, D \union a)
    BY <1>1, SameRules, RulesUnderFaults DEF Panel!Unapply
  <2> HIDE DEF off
  <2> QED BY <2>2, <2>3 DEF Removed
<1>4. SUFFICES ASSUME NEW r PROVE Finish(last, r, i, G) = After(last, i, r, a)
  OBVIOUS
<1>5. /\ PutIn(r, back, a) = After("reapply", i, r, a)
      /\ Removed(r, off, a) = After("unapply", i, r, a)
  BY DEF After
<1>6. CASE last = "reapply"
  BY <1>2, <1>6 DEF Finish, After
<1>7. CASE last = "unapply"
  BY <1>3, <1>7 DEF Finish, After
<1>8. CASE last = "none"
  BY <1>8 DEF Finish, After
<1> QED BY <1>6, <1>7, <1>8 DEF Lasts

\* What reconcile can come to, call by call: nothing was read; the link, the
\* configuration or the NAT rules failed; the egress was not stored; the link stays; or
\* all of it worked and the forwards were seen to.
Failed(i, row, S, r, F, D, d, after) ==
    \/ d = Found0(i) /\ after = r
    \/ /\ row.on /\ after = r
       /\ \/ ~LinkOK(Found0(i), F) /\ d = EnsureLink(Found0(i), row.addr, F)
          \/ d = Ensured(i, row)
    \/ /\ row.on /\ row.masq /\ d = Configured1(i, row, S)
       /\ \/ after = r
          \/ /\ ~SetupNATOK(NameOf[i], row.addr, row.egress, wan, F)
             /\ after = SetupNAT(r, NameOf[i], row.addr, row.egress, wan, F)
          \/ row.egress = NoLink /\ wan # NoLink /\ after = Masked(r, i, row)
    \/ ~row.on /\ Found0(i).exists /\ d = Found0(i) /\ after = Torn(r, i, row, D)
Worked(i, row, S, r, D, d, rules, kept) ==
    \/ /\ row.on /\ row.masq /\ d = Configured1(i, row, S)
       /\ Egress(row.egress, wan) # NoLink /\ rules = Masked(r, i, row)
       /\ kept = [row EXCEPT !.egress = Egress(row.egress, wan)]
    \/ /\ row.on /\ ~row.masq /\ d = Configured1(i, row, S)
       /\ rules = Torn(r, i, row, D) /\ kept = row
    \/ /\ ~row.on /\ rules = Torn(r, i, row, D) /\ kept = row
       /\ d = NoDevice \/ (d = Found0(i) /\ ~Found0(i).exists)

\* A reconcile that meets failures and does not come through, and one that does.
LEMMA FailsUnder ==
    ASSUME NEW i, NEW row, NEW S, NEW r, NEW last, NEW h, NEW a, NEW d, NEW s,
           Trouble(h, a, d, s), ~ComesOK(i, row, h, a, s)
    PROVE  Outcome(i, row, S, r, last, "owed", ComesDev(i, row, S, h, s),
                   ComesFw(r, i, row, h, a, d, s), row)
<1> DEFINE G == Failing(h, a, d, s)
<1>1. /\ G \in EveryFault /\ ~Panel!ReconcileOK(i, row, G)
      /\ Panel!ReconcileDev(i, row, S, G) = ComesDev(i, row, S, h, s)
      /\ Panel!ReconcileFw(r, i, row, G) = ComesFw(r, i, row, h, a, d, s)
  BY ReconcileUnder
<1>2. G.db = s /\ s \subseteq {"load", "egress"}
  BY FailingParts DEF Trouble
<1> HIDE DEF G
<1>3. Panel!Resolved(i, row, G) = row
  BY <1>1 DEF Panel!Resolved
<1> QED BY <1>1, <1>2, <1>3 DEF Outcome

\* A reconcile that works comes out as one in one step under those failures.
LEMMA WorksUnder ==
    ASSUME NEW i, NEW row, NEW S, NEW r, NEW last \in Lasts, NEW h, NEW a \in SUBSET PfKinds,
           NEW D \in SUBSET NatKinds, Trouble(h, a, D \union a, {}),
           ComesOK(i, row, h, a, {}), "forwarding" \notin h
    PROVE  Outcome(i, row, S, r, last, "settled", ComesDev(i, row, S, h, {}),
                   After(last, i, ComesFw(r, i, row, h, a, D \union a, {}), a),
                   IF row.on /\ row.masq THEN [row EXCEPT !.egress = Egress(row.egress, wan)]
                                         ELSE row)
<1> DEFINE G == Failing(h, a, D \union a, {})
<1>1. /\ G \in EveryFault /\ Panel!ReconcileOK(i, row, G)
      /\ Panel!ReconcileDev(i, row, S, G) = ComesDev(i, row, S, h, {})
      /\ Panel!ReconcileFw(r, i, row, G) = ComesFw(r, i, row, h, a, D \union a, {})
  BY ReconcileUnder
<1>2. G.db = {} /\ G.host = h /\ G.add = a /\ G.del = D \union a
  BY FailingParts
<1> HIDE DEF G
<1>3. \A x : Finish(last, x, i, G) = After(last, i, x, a)
  <2>1. /\ G.add = a /\ G.del = D \union a
        /\ "forwarding" \notin G.host /\ "pfload" \notin G.db
    BY <1>2
  <2> QED BY <2>1, Cascades
<1>4. Panel!Resolved(i, row, G)
        = IF row.on /\ row.masq THEN [row EXCEPT !.egress = Egress(row.egress, wan)] ELSE row
  BY <1>1, SameRules DEF Panel!Resolved
<1> QED BY <1>1, <1>2, <1>3, <1>4 DEF Outcome

\* Where the link does not fail the device is as it should be.
LEMMA LinkHolds ==
    ASSUME NEW i, NEW row, NEW h, "link" \notin h, "addr" \notin h
    PROVE  /\ LinkOK(Found0(i), Met(h, {}, {}))
           /\ EnsureLink(Found0(i), row.addr, Met(h, {}, {})) = Ensured(i, row)
  BY DEF LinkOK, EnsureLink, Ensured, Met

\* The NAT rules fail, or the egress is not stored.
NatTrouble(row, n, h, a, s) ==
    /\ Trouble(h, a, {}, s) /\ h \subseteq {"forwarding"} /\ s \subseteq {"egress"}
    /\ \/ ~SetupNATOK(n, row.addr, row.egress, wan, Met(h, a, {}))
       \/ row.egress = NoLink /\ "egress" \in s

\* So does one whose rules do not go in.
LEMMA NatFailsUnder ==
    ASSUME NEW i, NEW row, NEW S, NEW r, NEW last, row.on, row.masq, NEW h, NEW a, NEW s,
           NatTrouble(row, NameOf[i], h, a, s)
    PROVE  Outcome(i, row, S, r, last, "owed", Configured1(i, row, S),
                   SetupNAT(r, NameOf[i], row.addr, row.egress, wan, Met(h, a, {})), row)
<1> DEFINE d0 == Found0(i)
<1>1. /\ LinkOK(d0, Met(h, {}, {})) /\ EnsureLink(d0, row.addr, Met(h, {}, {})) = Ensured(i, row)
      /\ "device" \notin h /\ "load" \notin s /\ Trouble(h, a, {}, s)
  BY LinkHolds DEF NatTrouble
<1>2. Ready(i, h) /\ ~ComesOK(i, row, h, a, s)
  BY <1>1 DEF Ready, ComesOK, NatTrouble
<1>3. /\ ComesDev(i, row, S, h, s) = Configured1(i, row, S)
      /\ ComesFw(r, i, row, h, a, {}, s)
           = SetupNAT(r, NameOf[i], row.addr, row.egress, wan, Met(h, a, {}))
  BY <1>1, <1>2 DEF ComesDev, ComesFw, Configured1
<1>4. Outcome(i, row, S, r, last, "owed", ComesDev(i, row, S, h, s),
              ComesFw(r, i, row, h, a, {}, s), row)
  BY <1>1, <1>2, FailsUnder
<1> QED BY <1>3, <1>4

\* Every way a reconcile fails call by call is one in which it fails in one step.
LEMMA FailedIsOutcome ==
    ASSUME NEW i, NEW row \in Iface, NEW S, NEW r, NEW last, NEW F, NEW D \in SUBSET NatKinds,
           NEW d, NEW after, Failed(i, row, S, r, F, D, d, after)
    PROVE  Outcome(i, row, S, r, last, "owed", d, after, row)
<1> DEFINE d0 == Found0(i)
<1>1. CASE d = d0 /\ after = r
  <2>1. Trouble({}, {}, {}, {"load"}) /\ ~ComesOK(i, row, {}, {}, {"load"})
    BY DEF Trouble, ComesOK
  <2>2. /\ ComesDev(i, row, S, {}, {"load"}) = d0
        /\ ComesFw(r, i, row, {}, {}, {}, {"load"}) = r
    BY DEF ComesDev, ComesFw
  <2> QED BY <1>1, <2>1, <2>2, FailsUnder
<1>2. CASE row.on /\ after = r /\ ~LinkOK(d0, F) /\ d = EnsureLink(d0, row.addr, F)
  <2> DEFINE h == F.host \intersect {"link", "addr"}
             H == Met(h, {}, {})
  <2>1. Trouble(h, {}, {}, {})
    BY DEF Trouble
  <2>2. /\ "link" \in F.host <=> "link" \in H.host
        /\ "addr" \in F.host <=> "addr" \in H.host
    BY DEF Met
  <2> HIDE DEF h
  <2>3. ~LinkOK(d0, H) /\ EnsureLink(d0, row.addr, H) = d
    <3> HIDE DEF H
    <3> QED BY <1>2, <2>2, LinkFaults
  <2>4. ~Ready(i, h) /\ ~ComesOK(i, row, h, {}, {})
    BY <1>2, <2>3 DEF Ready, ComesOK
  <2>5. ComesDev(i, row, S, h, {}) = d /\ ComesFw(r, i, row, h, {}, {}, {}) = r
    BY <1>2, <2>3, <2>4 DEF ComesDev, ComesFw
  <2> QED BY <1>2, <2>1, <2>4, <2>5, FailsUnder
<1>3. CASE row.on /\ after = r /\ d = Ensured(i, row)
  <2>1. Trouble({"device"}, {}, {}, {})
    BY DEF Trouble
  <2>2. ~Ready(i, {"device"}) /\ ~ComesOK(i, row, {"device"}, {}, {})
    BY <1>3 DEF Ready, ComesOK
  <2>3. EnsureLink(d0, row.addr, Met({"device"}, {}, {})) = d
    BY <1>3, LinkHolds
  <2>4. ComesDev(i, row, S, {"device"}, {}) = d /\ ComesFw(r, i, row, {"device"}, {}, {}, {}) = r
    BY <1>3, <2>2, <2>3 DEF ComesDev, ComesFw
  <2> QED BY <1>3, <2>1, <2>2, <2>4, FailsUnder
<1>5. CASE row.on /\ row.masq /\ d = Configured1(i, row, S) /\ after = r
  <2>1. /\ SetupNAT(r, NameOf[i], row.addr, row.egress, wan, Met({"forwarding"}, {}, {})) = r
        /\ ~SetupNATOK(NameOf[i], row.addr, row.egress, wan, Met({"forwarding"}, {}, {}))
    BY DEF SetupNAT, SetupNATOK, EnsureRules, EnsureRulesOK, Met
  <2>2. NatTrouble(row, NameOf[i], {"forwarding"}, {}, {})
    BY <2>1 DEF Trouble, NatTrouble
  <2> QED BY <1>5, <2>1, <2>2, NatFailsUnder
<1>6. CASE /\ row.on /\ row.masq /\ d = Configured1(i, row, S)
           /\ ~SetupNATOK(NameOf[i], row.addr, row.egress, wan, F)
           /\ after = SetupNAT(r, NameOf[i], row.addr, row.egress, wan, F)
  <2> DEFINE h == F.host \intersect {"forwarding"}
             a == F.add \intersect NatKinds
             H == Met(h, a, {})
  <2>1. Trouble(h, a, {}, {}) /\ h \subseteq {"forwarding"}
    BY DEF Trouble
  <2>2. /\ "forwarding" \in F.host <=> "forwarding" \in H.host
        /\ F.add \intersect NatKinds = H.add \intersect NatKinds
    BY DEF Met
  <2>3. /\ SetupNAT(r, NameOf[i], row.addr, row.egress, wan, H) = after
        /\ ~SetupNATOK(NameOf[i], row.addr, row.egress, wan, H)
    <3> HIDE DEF H
    <3> QED BY <1>6, <2>2, NatFaults
  <2> HIDE DEF h, a
  <2>4. NatTrouble(row, NameOf[i], h, a, {})
    BY <2>1, <2>3 DEF NatTrouble
  <2> QED BY <1>6, <2>3, <2>4, NatFailsUnder
<1>7. CASE /\ row.on /\ row.masq /\ d = Configured1(i, row, S)
           /\ row.egress = NoLink /\ wan # NoLink /\ after = Masked(r, i, row)
  <2>1. NatTrouble(row, NameOf[i], {}, {}, {"egress"})
    BY <1>7 DEF Trouble, NatTrouble
  <2>2. SetupNATOK(NameOf[i], row.addr, row.egress, wan, Met({}, {}, {}))
    BY <1>7 DEF SetupNATOK, EnsureRulesOK, Egress, Met
  <2>3. SetupNAT(r, NameOf[i], row.addr, row.egress, wan, Met({}, {}, {})) = after
    BY <1>7, <2>2, AllThere DEF Masked
  <2> QED BY <1>7, <2>1, <2>3, NatFailsUnder
<1>8. CASE ~row.on /\ d0.exists /\ d = d0 /\ after = Torn(r, i, row, D)
  <2>1. Trouble({"rmlink"}, {}, D, {}) /\ D \intersect NatKinds = D
    BY DEF Trouble
  <2>2. RemoveLink(d0, Met({"rmlink"}, {}, {})) = d0 /\ ~RemoveLinkOK(d0, Met({"rmlink"}, {}, {}))
    BY <1>8 DEF RemoveLink, RemoveLinkOK, Met
  <2>3. ~ComesOK(i, row, {"rmlink"}, {}, {}) /\ ComesDev(i, row, S, {"rmlink"}, {}) = d
    BY <1>8, <2>2 DEF ComesOK, ComesDev
  <2>4. ComesFw(r, i, row, {"rmlink"}, {}, D, {}) = after
    BY <1>8, <2>1 DEF ComesFw
  <2> QED BY <1>8, <2>1, <2>3, <2>4, FailsUnder
<1> QED BY <1>1, <1>2, <1>3, <1>5, <1>6, <1>7, <1>8 DEF Failed

\* Every way it works call by call is one in which it works in one step.
LEMMA WorkedIsOutcome ==
    ASSUME NEW i, NEW row \in Iface, NEW S, NEW r, NEW last \in Lasts, NEW D \in SUBSET NatKinds,
           NEW a \in SUBSET PfKinds, NEW d, NEW rules, NEW kept,
           Worked(i, row, S, r, D, d, rules, kept)
    PROVE  Outcome(i, row, S, r, last, "settled", d, After(last, i, rules, a), kept)
<1> DEFINE d0 == Found0(i)
           E == D \union a
<1>1. \A h : h \subseteq {"rmlink"} => Trouble(h, a, E, {})
  BY DEF Trouble
<1>2. E \intersect NatKinds = D
  BY DEF NatKinds, PfKinds
<1> HIDE DEF E
<1>3. CASE row.on
  <2>1. d = Configured1(i, row, S)
    BY <1>3 DEF Worked
  <2>2. /\ LinkOK(d0, Met({}, {}, {}))
        /\ EnsureLink(d0, row.addr, Met({}, {}, {})) = Ensured(i, row)
    BY LinkHolds
  <2>3. Ready(i, {})
    BY <2>2 DEF Ready
  <2>4. ComesDev(i, row, S, {}, {}) = d
    BY <1>3, <2>1, <2>2, <2>3 DEF ComesDev, Configured1
  <2>5. ASSUME row.masq
        PROVE  /\ SetupNATOK(NameOf[i], row.addr, row.egress, wan, Met({}, a, {}))
               /\ SetupNAT(r, NameOf[i], row.addr, row.egress, wan, Met({}, a, {})) = rules
               /\ kept = [row EXCEPT !.egress = Egress(row.egress, wan)]
    <3>1. /\ Egress(row.egress, wan) # NoLink /\ rules = Masked(r, i, row)
          /\ kept = [row EXCEPT !.egress = Egress(row.egress, wan)]
      BY <1>3, <2>5 DEF Worked
    <3>2. \A x \in NatRules(NameOf[i], row.addr, Egress(row.egress, wan)) : x[1] \notin a
      BY DEF NatRules, PfKinds
    <3>3. SetupNATOK(NameOf[i], row.addr, row.egress, wan, Met({}, a, {}))
      BY <3>1, <3>2 DEF SetupNATOK, EnsureRulesOK, Met
    <3> QED BY <3>1, <3>3, AllThere DEF Masked
  <2>6. ~row.masq => rules = Torn(r, i, row, D) /\ kept = row
    BY <1>3 DEF Worked
  <2>7. ComesOK(i, row, {}, a, {})
    BY <1>3, <2>3, <2>5 DEF ComesOK
  <2>8. ComesFw(r, i, row, {}, a, E, {}) = rules
    BY <1>2, <1>3, <2>3, <2>5, <2>6 DEF ComesFw
  <2>9. kept = IF row.on /\ row.masq THEN [row EXCEPT !.egress = Egress(row.egress, wan)] ELSE row
    BY <1>3, <2>5, <2>6
  <2> QED BY <1>1, <2>4, <2>7, <2>8, <2>9, WorksUnder DEF E
<1>4. CASE ~row.on
  <2> DEFINE h == IF d = NoDevice THEN {} ELSE {"rmlink"}
  <2>1. /\ rules = Torn(r, i, row, D) /\ kept = row
        /\ d = NoDevice \/ (d = d0 /\ ~d0.exists)
    BY <1>4 DEF Worked
  <2>2. RemoveLinkOK(d0, Met(h, {}, {})) /\ RemoveLink(d0, Met(h, {}, {})) = d
    BY <2>1 DEF RemoveLinkOK, RemoveLink, Met
  <2>3. h \subseteq {"rmlink"} /\ "forwarding" \notin h
    OBVIOUS
  <2> HIDE DEF h
  <2>4. ComesOK(i, row, h, a, {}) /\ ComesDev(i, row, S, h, {}) = d
    BY <1>4, <2>2 DEF ComesOK, ComesDev
  <2>5. ComesFw(r, i, row, h, a, E, {}) = rules
    BY <1>2, <1>4, <2>1 DEF ComesFw
  <2> QED BY <1>1, <1>4, <2>1, <2>3, <2>4, <2>5, WorksUnder DEF E
<1> QED BY <1>3, <1>4

-----------------------------------------------------------------------------
(* Interface requests that apply the interface, as one step *)

\* The row such a request applies, and the tables with it, as its statements write them.
RowOf(j) ==
    IF j.op \in {"create", "update"} THEN j.new
    ELSE IF j.op = "restore" THEN [Shown.ifaces[j.i] EXCEPT !.st = "active"]
    ELSE Shown.ifaces[j.i]
RowsWith(j, row) == [Shown.ifaces EXCEPT ![j.i] = row]
BasePeers(j) ==
    IF j.op = "restore"
      THEN [p \in Peers |-> IF Shown.peers[p].st = "trashed" /\ Shown.peers[p].iface = j.i
                              THEN [Shown.peers[p] EXCEPT !.st = "active"] ELSE Shown.peers[p]]
      ELSE Shown.peers
ServedOf(j) == Panel!Served(BasePeers(j), j.i)

\* The rules it applies the interface to, the cascade after that, and what it leaves to
\* the bootstrap.
BaseFw(j, D) ==
    IF j.op = "update" THEN Torn(Shown.fw, j.i, Shown.ifaces[j.i], D) ELSE Shown.fw
LastOf(j) ==
    IF j.op = "restore" \/ (j.op = "update" /\ j.new.on) THEN "reapply"
    ELSE IF j.op = "update" THEN "unapply"
    ELSE "none"
TodoOf(j) == IF j.op = "boot" THEN Shown.todo \ {j.i} ELSE Shown.todo
DevWith(j, d) == [Shown.dev EXCEPT ![NameOf[j.i]] = d]

\* Nobody in the tables has the name.
NameFree(j) == \A k \in Ifaces : InTable(Shown.ifaces[k]) => NameOf[k] # NameOf[j.i]

\* A peer in the tables has an interface that was created.
ShownHoused ==
    \A p \in Peers : InTable(Shown.peers[p]) => Shown.ifaces[Shown.peers[p].iface].st # "none"

\* What is left alone.
RecAside(j) ==
    /\ Shown' = Now' /\ wan' = wan /\ pfs' = Shown.pfs /\ pfTodo' = Shown.pfTodo
    /\ todo' = TodoOf(j)

\* The end of a request whose rows were written: a reconcile came to `d', `r' and `kept'.
RecEnds(j, D, v, d, kept) ==
    /\ RecAside(j) /\ peers' = BasePeers(j)
    /\ j.op = "create" => NameFree(j)
    /\ j.op = "boot" => j.i \in Shown.todo
    /\ j.op \in {"sync", "boot"} => Shown.ifaces[j.i].st = "active"
    /\ D \in SUBSET NatKinds /\ v \in {"owed", "settled"}
    /\ Outcome(j.i, RowOf(j), ServedOf(j), BaseFw(j, D), LastOf(j), v, d, fw', kept)
    /\ ifaces' = RowsWith(j, kept) /\ dev' = DevWith(j, d)
    /\ owed' = OwedBy(Shown.owed, NameOf[j.i], v)

\* The verdict of an outcome is that of the reconcile under the failures it met.
MetBy(G, i, row, S, r, last, v, d, after, kept, o, n) ==
    /\ "save" \notin G.db /\ "row" \notin G.db /\ "peers" \notin G.db
    /\ kept = Panel!Resolved(i, row, G) /\ d = Panel!ReconcileDev(i, row, S, G)
    /\ after = IF Panel!ReconcileOK(i, row, G)
                 THEN Finish(last, Panel!ReconcileFw(r, i, row, G), i, G)
                 ELSE Panel!ReconcileFw(r, i, row, G)
    /\ OwedBy(o, n, v) = IF Panel!ReconcileOK(i, row, G) THEN o \ {n} ELSE o \union {n}

\* What the calls come to is what the panel comes to under some failures.
LEMMA OutcomeMet ==
    ASSUME NEW i, NEW row, NEW S, NEW r, NEW last, NEW v, NEW d, NEW after, NEW kept,
           NEW o, NEW n, v \in {"owed", "settled"},
           Outcome(i, row, S, r, last, v, d, after, kept)
    PROVE  \E G \in EveryFault : MetBy(G, i, row, S, r, last, v, d, after, kept, o, n)
  BY Reports DEF Outcome, MetBy

\* POST /interfaces, from its row to its answer, is a step of the panel.
LEMMA CreateDone ==
    ASSUME AnyFault, NEW j, j.op = "create", j.i \in Ifaces,
           Asked(j, Shown.ifaces, Shown.peers, Shown.pfs, wan), ShownHoused,
           NEW D, NEW v, NEW d, NEW kept, RecEnds(j, D, v, d, kept)
    PROVE  Panel!Next
<1>1. PICK u \in Users : Shown.ifaces[j.i].st = "none" /\ j.new \in NewIface(u, j.i)
  BY Zenon DEF Asked, Entitled
<1>2. /\ RowOf(j) = j.new /\ BaseFw(j, D) = Shown.fw /\ LastOf(j) = "none"
      /\ BasePeers(j) = Shown.peers /\ TodoOf(j) = Shown.todo
  BY DEF RowOf, BaseFw, LastOf, BasePeers, TodoOf
<1>3. ServedOf(j) = {}
  BY <1>1, <1>2 DEF ServedOf, Panel!Served, ShownHoused, InTable
<1>4. PICK G \in EveryFault :
        /\ "save" \notin G.db /\ kept = Panel!Resolved(j.i, j.new, G)
        /\ d = Panel!ReconcileDev(j.i, j.new, {}, G)
        /\ fw' = Panel!ReconcileFw(Shown.fw, j.i, j.new, G)
        /\ owed' = IF Panel!ReconcileOK(j.i, j.new, G) THEN Shown.owed \ {NameOf[j.i]}
                   ELSE Shown.owed \union {NameOf[j.i]}
  <2>1. v \in {"owed", "settled"} /\ owed' = OwedBy(Shown.owed, NameOf[j.i], v)
        /\ Outcome(j.i, j.new, {}, Shown.fw, "none", v, d, fw', kept)
    BY <1>2, <1>3 DEF RecEnds
  <2>2. PICK G \in EveryFault :
          MetBy(G, j.i, j.new, {}, Shown.fw, "none", v, d, fw', kept, Shown.owed, NameOf[j.i])
    BY <2>1, OutcomeMet
  <2> QED BY <2>1, <2>2 DEF MetBy, Finish
<1>5. /\ Shown'.ifaces = [Shown.ifaces EXCEPT ![j.i] = Panel!Resolved(j.i, j.new, G)]
      /\ Shown'.dev = [Shown.dev EXCEPT ![NameOf[j.i]] = Panel!ReconcileDev(j.i, j.new, {}, G)]
      /\ Shown'.fw = Panel!ReconcileFw(Shown.fw, j.i, j.new, G)
      /\ Panel!Report(NameOf[j.i], Panel!ReconcileOK(j.i, j.new, G))
      /\ UNCHANGED <<Shown.peers, Shown.pfs, wan, Panel!boot>>
  BY <1>2, <1>4 DEF RecEnds, RecAside, RowsWith, DevWith, Now, Panel!Report, Panel!boot
<1>6. j.new \in Panel!NewIface(u, j.i)
  BY <1>1 DEF NewIface, Panel!NewIface
<1>7. \A k \in Ifaces : Panel!InTable(Shown.ifaces[k]) => NameOf[k] # NameOf[j.i]
  BY DEF RecEnds, NameFree, InTable, Panel!InTable
<1>8. Panel!IfaceCreate(u, j.i, G)
  BY <1>1, <1>4, <1>5, <1>6, <1>7 DEF Panel!IfaceCreate
<1> QED BY <1>4, <1>8, PanelSteps DEF Panel!Request

\* An update that comes to the reconcile, and one whose row is refused.
UpdateCut(j, D) ==
    /\ RecAside(j) /\ UNCHANGED <<wan>> /\ D \in SUBSET NatKinds
    /\ ifaces' = Shown.ifaces /\ peers' = Shown.peers /\ dev' = Shown.dev
    /\ fw' = BaseFw(j, D) /\ owed' = Shown.owed \union {NameOf[j.i]}

\* The request an update was, and the rules it took down first.
LEMMA UpdateAsked ==
    ASSUME AnyFault, NEW j, j.op = "update", NEW D, D \in SUBSET NatKinds,
           Asked(j, Shown.ifaces, Shown.peers, Shown.pfs, wan)
    PROVE  /\ \E u \in Users : Panel!Active(j.i) /\ Panel!Owns(u, Shown.ifaces[j.i].owner)
           /\ \E e \in Panel!Edits(j.i) : j.new = Panel!Edited(j.i, e)
           /\ D \in Panel!StuckKinds /\ BaseFw(j, D) = Panel!TornDown(j.i, D)
<1>1. /\ Shown.ifaces[j.i].st = "active"
      /\ \E u \in Users : Owns(u, Shown.ifaces[j.i].owner)
      /\ \E e \in Edits(j.i) :
           j.new = [Shown.ifaces[j.i] EXCEPT !.addr = e.addr, !.egress = e.egress,
                                             !.port = e.port, !.masq = e.masq, !.on = e.on]
  BY Zenon DEF Asked, Entitled
<1>2. \A u, o : Panel!Owns(u, o) <=> Owns(u, o)
  BY DEF Panel!Owns, Owns
<1>3. Panel!Edits(j.i) = Edits(j.i)
  BY DEF Panel!Edits, Edits
<1>4. \E e \in Panel!Edits(j.i) : j.new = Panel!Edited(j.i, e)
  BY <1>1, <1>3, Zenon DEF Panel!Edited
<1>5. D \in Panel!StuckKinds
  <2> DEFINE G == Failing({}, {}, D, {})
  <2>1. G \in EveryFault /\ G.del = D
    BY FailingParts
  <2> HIDE DEF G
  <2>2. G \in PanelFaults
    BY <2>1 DEF AnyFault
  <2> QED BY <2>1, <2>2 DEF Panel!StuckKinds
<1>6. BaseFw(j, D) = Panel!TornDown(j.i, D)
  BY SameRules DEF BaseFw, Torn, Panel!TornDown
<1> QED BY <1>1, <1>2, <1>4, <1>5, <1>6 DEF Panel!Active

\* PUT /interfaces/:id, from its teardown to its answer, is a step of the panel.
LEMMA UpdateDone ==
    ASSUME AnyFault, NEW j, j.op = "update", j.i \in Ifaces,
           Asked(j, Shown.ifaces, Shown.peers, Shown.pfs, wan),
           NEW D, NEW v, NEW d, NEW kept, RecEnds(j, D, v, d, kept)
    PROVE  Panel!Next
<1> DEFINE i == j.i
           n == NameOf[j.i]
           row == j.new
           served == Panel!Served(Shown.peers, i)
           last == IF row.on THEN "reapply" ELSE "unapply"
<1>1. D \in SUBSET NatKinds
  BY DEF RecEnds
<1>2. PICK u \in Users : Panel!Active(i) /\ Panel!Owns(u, Shown.ifaces[i].owner)
  BY <1>1, UpdateAsked
<1>3. PICK e \in Panel!Edits(i) : row = Panel!Edited(i, e)
  BY <1>1, UpdateAsked
<1>4. D \in Panel!StuckKinds /\ BaseFw(j, D) = Panel!TornDown(i, D)
  BY <1>1, UpdateAsked
<1>5. /\ RowOf(j) = row /\ LastOf(j) = last /\ BasePeers(j) = Shown.peers
      /\ TodoOf(j) = Shown.todo /\ ServedOf(j) = served
  BY DEF RowOf, LastOf, BasePeers, TodoOf, ServedOf
<1> DEFINE base == Panel!TornDown(i, D)
<1>6. PICK G \in EveryFault :
        MetBy(G, i, row, served, base, last, v, d, fw', kept, Shown.owed, n)
  <2>1. /\ v \in {"owed", "settled"} /\ owed' = OwedBy(Shown.owed, n, v)
        /\ Outcome(i, row, served, base, last, v, d, fw', kept)
    BY <1>4, <1>5 DEF RecEnds
  <2> HIDE DEF last, base, served
  <2> QED BY <2>1, OutcomeMet
<1>7. /\ "save" \notin G.db
      /\ Shown'.ifaces = [Shown.ifaces EXCEPT ![i] = Panel!Resolved(i, row, G)]
      /\ Shown'.dev = [Shown.dev EXCEPT ![n] = Panel!ReconcileDev(i, row, served, G)]
      /\ Panel!Report(n, Panel!ReconcileOK(i, row, G))
      /\ UNCHANGED <<Shown.peers, Shown.pfs, wan, Panel!boot>>
  BY <1>5, <1>6 DEF MetBy, RecEnds, RecAside, RowsWith, DevWith, Now, Panel!Report, Panel!boot
<1> DEFINE applied == Panel!ReconcileFw(base, i, row, G)
<1>8. Shown'.fw = IF Panel!ReconcileOK(i, row, G)
                    THEN IF row.on THEN Panel!Reapply(applied, Panel!Forwards(i), G)
                                   ELSE Panel!Unapply(applied, Panel!Forwards(i), G)
                    ELSE applied
  <2>1. \A r : Finish(last, r, i, G) = IF row.on THEN Panel!Reapply(r, Panel!Forwards(i), G)
                                                 ELSE Panel!Unapply(r, Panel!Forwards(i), G)
    BY DEF Finish
  <2>2. Shown'.fw = fw'
    BY DEF RecEnds, RecAside, Now
  <2> HIDE DEF last, base
  <2> QED BY <1>6, <2>1, <2>2 DEF MetBy
<1>9. Panel!IfaceUpdate(u, i, G)
  <2>1. LET r  == Panel!Edited(i, e)
            x  == Panel!ReconcileFw(Panel!TornDown(i, D), i, r, G)
            ok == "save" \notin G.db /\ Panel!ReconcileOK(i, r, G)
        IN  /\ Shown'.ifaces = [Shown.ifaces EXCEPT ![i] = Panel!Resolved(i, r, G)]
            /\ Shown'.dev = [Shown.dev EXCEPT ![n] =
                               Panel!ReconcileDev(i, r, Panel!Served(Shown.peers, i), G)]
            /\ Shown'.fw = IF ~ok THEN x
                           ELSE IF r.on THEN Panel!Reapply(x, Panel!Forwards(i), G)
                                        ELSE Panel!Unapply(x, Panel!Forwards(i), G)
            /\ Panel!Report(n, ok)
    <3> HIDE DEF n
    <3> QED BY <1>3, <1>7, <1>8 DEF Panel!Report
  <2> QED BY <1>2, <1>3, <1>4, <1>7, <2>1 DEF Panel!IfaceUpdate
<1> QED BY <1>9, PanelSteps DEF Panel!Request

\* So is one whose row is refused after the rules of the former one are off.
LEMMA UpdateLeft ==
    ASSUME AnyFault, NEW j, j.op = "update", j.i \in Ifaces, NEW D, UpdateCut(j, D),
           Asked(j, Shown.ifaces, Shown.peers, Shown.pfs, wan)
    PROVE  Panel!Next
<1> DEFINE i == j.i
           n == NameOf[j.i]
           G == Failing({}, {}, {}, {"save"})
<1>1. D \in SUBSET NatKinds
  BY DEF UpdateCut
<1>2. PICK u \in Users : Panel!Active(i) /\ Panel!Owns(u, Shown.ifaces[i].owner)
  BY <1>1, UpdateAsked
<1>3. PICK e \in Panel!Edits(i) : j.new = Panel!Edited(i, e)
  BY <1>1, UpdateAsked
<1>4. D \in Panel!StuckKinds /\ BaseFw(j, D) = Panel!TornDown(i, D)
  BY <1>1, UpdateAsked
<1>5. G \in EveryFault /\ "save" \in G.db
  BY FailingParts
<1> HIDE DEF G
<1>6. TodoOf(j) = Shown.todo
  BY DEF TodoOf
<1>7. /\ Shown'.fw = Panel!TornDown(i, D) /\ UNCHANGED <<Shown.ifaces, Shown.dev>>
      /\ Panel!Report(n, FALSE) /\ UNCHANGED <<Shown.peers, Shown.pfs, wan, Panel!boot>>
  BY <1>4, <1>6 DEF UpdateCut, RecAside, Now, Panel!Report, Panel!boot
<1>8. Panel!IfaceUpdate(u, i, G)
  BY <1>2, <1>3, <1>4, <1>5, <1>7 DEF Panel!IfaceUpdate
<1> QED BY <1>5, <1>8, PanelSteps DEF Panel!Request

\* A restore that comes to the reconcile, and one that is refused the peers.
RestoreCut(j) ==
    /\ RecAside(j) /\ ifaces' = RowsWith(j, RowOf(j)) /\ peers' = Shown.peers
    /\ dev' = Shown.dev /\ fw' = Shown.fw /\ owed' = Shown.owed \union {NameOf[j.i]}

\* POST /interfaces/:id/restore, from its rows to its answer, is a step of the panel.
LEMMA RestoreDone ==
    ASSUME AnyFault, NEW j, j.op = "restore", j.i \in Ifaces,
           Asked(j, Shown.ifaces, Shown.peers, Shown.pfs, wan),
           NEW D, NEW v, NEW d, NEW kept, RecEnds(j, D, v, d, kept)
    PROVE  Panel!Next
<1> DEFINE i == j.i
           n == NameOf[j.i]
           row == [Shown.ifaces[j.i] EXCEPT !.st = "active"]
           back == BasePeers(j)
           served == Panel!Served(back, i)
<1>1. PICK u \in Users : Shown.ifaces[i].st = "trashed" /\ Panel!Owns(u, Shown.ifaces[i].owner)
  BY Zenon DEF Asked, Entitled, Panel!Owns, Owns
<1>2. /\ RowOf(j) = row /\ BaseFw(j, D) = Shown.fw /\ LastOf(j) = "reapply"
      /\ TodoOf(j) = Shown.todo /\ ServedOf(j) = served
      /\ back = [p \in Peers |-> IF Shown.peers[p].st = "trashed" /\ Shown.peers[p].iface = i
                                   THEN [Shown.peers[p] EXCEPT !.st = "active"]
                                   ELSE Shown.peers[p]]
  BY DEF RowOf, BaseFw, LastOf, BasePeers, TodoOf, ServedOf
<1>3. PICK G \in EveryFault :
        MetBy(G, i, row, served, Shown.fw, "reapply", v, d, fw', kept, Shown.owed, n)
  <2>1. /\ v \in {"owed", "settled"} /\ owed' = OwedBy(Shown.owed, n, v)
        /\ Outcome(i, row, served, Shown.fw, "reapply", v, d, fw', kept)
    BY <1>2 DEF RecEnds
  <2> HIDE DEF row, served
  <2> QED BY <2>1, OutcomeMet
<1>4. /\ "row" \notin G.db /\ "peers" \notin G.db
      /\ Shown'.ifaces = [Shown.ifaces EXCEPT ![i] = Panel!Resolved(i, row, G)]
      /\ Shown'.peers = back
      /\ Shown'.dev = [Shown.dev EXCEPT ![n] = Panel!ReconcileDev(i, row, served, G)]
      /\ Panel!Report(n, Panel!ReconcileOK(i, row, G))
      /\ UNCHANGED <<Shown.pfs, wan, Panel!boot>>
  <2> HIDE DEF row, served, back
  <2> QED BY <1>2, <1>3
          DEF MetBy, RecEnds, RecAside, RowsWith, DevWith, Now, Panel!Report, Panel!boot, back
<1> DEFINE applied == Panel!ReconcileFw(Shown.fw, i, row, G)
<1>5. Shown'.fw = IF Panel!ReconcileOK(i, row, G)
                    THEN Panel!Reapply(applied, Panel!Forwards(i), G) ELSE applied
  <2>1. \A r : Finish("reapply", r, i, G) = Panel!Reapply(r, Panel!Forwards(i), G)
    BY DEF Finish
  <2>2. Shown'.fw = fw'
    BY DEF RecEnds, RecAside, Now
  <2> HIDE DEF row
  <2> QED BY <1>3, <2>1, <2>2 DEF MetBy
<1>6. Panel!IfaceRestore(u, i, G)
  <2>1. LET ok == "peers" \notin G.db /\ Panel!ReconcileOK(i, row, G)
        IN  /\ Shown'.fw = IF ok THEN Panel!Reapply(applied, Panel!Forwards(i), G) ELSE applied
            /\ Panel!Report(n, ok)
    <3> HIDE DEF n, row, applied
    <3> QED BY <1>4, <1>5 DEF Panel!Report
  <2>2. /\ back = [p \in Peers |-> IF Shown.peers[p].st = "trashed" /\ Shown.peers[p].iface = i
                                   THEN [Shown.peers[p] EXCEPT !.st = "active"]
                                   ELSE Shown.peers[p]]
        /\ Shown'.peers = back
        /\ Shown'.dev = [Shown.dev EXCEPT ![n] =
                           Panel!ReconcileDev(i, row, Panel!Served(back, i), G)]
    BY <1>2, <1>4
  <2> HIDE DEF back
  <2> QED BY <1>1, <1>4, <2>1, <2>2 DEF Panel!IfaceRestore
<1> QED BY <1>6, PanelSteps DEF Panel!Request

\* So is one whose peers stay in the trash.
LEMMA RestoreLeft ==
    ASSUME AnyFault, NEW j, j.op = "restore", j.i \in Ifaces, RestoreCut(j),
           Asked(j, Shown.ifaces, Shown.peers, Shown.pfs, wan)
    PROVE  Panel!Next
<1> DEFINE i == j.i
           n == NameOf[j.i]
           G == Failing({}, {}, {}, {"peers"})
<1>1. PICK u \in Users : Shown.ifaces[i].st = "trashed" /\ Panel!Owns(u, Shown.ifaces[i].owner)
  BY Zenon DEF Asked, Entitled, Panel!Owns, Owns
<1>2. G \in EveryFault /\ "peers" \in G.db /\ "row" \notin G.db
  BY FailingParts
<1> HIDE DEF G
<1>3. TodoOf(j) = Shown.todo /\ RowOf(j) = [Shown.ifaces[i] EXCEPT !.st = "active"]
  BY DEF TodoOf, RowOf
<1>4. /\ Shown'.ifaces = [Shown.ifaces EXCEPT ![i] = [Shown.ifaces[i] EXCEPT !.st = "active"]]
      /\ UNCHANGED <<Shown.peers, Shown.dev, Shown.fw>>
      /\ Panel!Report(n, FALSE) /\ UNCHANGED <<Shown.pfs, wan, Panel!boot>>
  BY <1>3 DEF RestoreCut, RecAside, RowsWith, Now, Panel!Report, Panel!boot
<1>5. Panel!IfaceRestore(u, i, G)
  BY <1>1, <1>2, <1>4 DEF Panel!IfaceRestore
<1> QED BY <1>2, <1>5, PanelSteps DEF Panel!Request

\* A full apply of a row in service: Sync and the bootstrap.
LEMMA ApplyDone ==
    ASSUME AnyFault, NEW j, j.op \in {"sync", "boot"}, j.i \in Ifaces,
           Asked(j, Shown.ifaces, Shown.peers, Shown.pfs, wan),
           NEW D, NEW v, NEW d, NEW kept, RecEnds(j, D, v, d, kept)
    PROVE  Panel!Next
<1> DEFINE i == j.i
           n == NameOf[j.i]
           row == Shown.ifaces[j.i]
           served == Panel!Served(Shown.peers, i)
<1>1. /\ RowOf(j) = row /\ BaseFw(j, D) = Shown.fw /\ LastOf(j) = "none"
      /\ BasePeers(j) = Shown.peers /\ ServedOf(j) = served
  BY DEF RowOf, BaseFw, LastOf, BasePeers, ServedOf
<1>2. PICK G \in EveryFault :
        MetBy(G, i, row, served, Shown.fw, "none", v, d, fw', kept, Shown.owed, n)
  <2>1. /\ v \in {"owed", "settled"} /\ owed' = OwedBy(Shown.owed, n, v)
        /\ Outcome(i, row, served, Shown.fw, "none", v, d, fw', kept)
    BY <1>1 DEF RecEnds
  <2> HIDE DEF row, served
  <2> QED BY <2>1, OutcomeMet
<1>3. Shown'.fw = Panel!ReconcileFw(Shown.fw, i, row, G)
  <2>1. \A r : Finish("none", r, i, G) = r
    BY DEF Finish
  <2>2. Shown'.fw = fw'
    BY DEF RecEnds, RecAside, Now
  <2> HIDE DEF row
  <2> QED BY <1>2, <2>1, <2>2 DEF MetBy
<1>4. Panel!Apply(i, G) /\ Panel!Active(i)
  <2>1. /\ Shown'.ifaces = [Shown.ifaces EXCEPT ![i] = Panel!Resolved(i, row, G)]
        /\ Shown'.dev = [Shown.dev EXCEPT ![n] = Panel!ReconcileDev(i, row, served, G)]
        /\ Panel!Report(n, Panel!ReconcileOK(i, row, G))
        /\ UNCHANGED <<Shown.peers, Shown.pfs, wan>>
    <3> HIDE DEF row, served
    <3> QED BY <1>1, <1>2
            DEF MetBy, RecEnds, RecAside, RowsWith, DevWith, Now, Panel!Report
  <2> QED BY <1>3, <2>1 DEF Panel!Apply, Panel!Active, RecEnds
<1>5. Shown'.todo = TodoOf(j) /\ Shown'.pfTodo = Shown.pfTodo
  BY DEF RecEnds, RecAside, Now
<1>6. CASE j.op = "sync"
  <2>1. PICK u \in Users : Panel!Owns(u, Shown.ifaces[i].owner)
    BY <1>6, Zenon DEF Asked, Entitled, Panel!Owns, Owns
  <2>2. Panel!IfaceSync(u, i, G)
    BY <1>4, <1>5, <1>6, <2>1 DEF Panel!IfaceSync, Panel!boot, TodoOf
  <2> QED BY <2>2, PanelSteps DEF Panel!Request
<1>7. CASE j.op = "boot"
  <2>1. j.i \in Shown.todo
    BY <1>7 DEF RecEnds
  <2>2. Panel!BootReconcile(i, G)
    BY <1>4, <1>5, <1>7, <2>1 DEF Panel!BootReconcile, TodoOf
  <2> QED BY <2>2, PanelSteps DEF Panel!System
<1> QED BY <1>6, <1>7

\* The bootstrap finds an interface that is no longer in service.
LEMMA BootIdle ==
    ASSUME AnyFault, NEW j, j.op = "boot", j.i \in Ifaces, j.i \in Shown.todo,
           Shown.ifaces[j.i].st # "active", RecAside(j),
           ifaces' = Shown.ifaces, peers' = Shown.peers, dev' = Shown.dev, fw' = Shown.fw,
           owed' = Shown.owed
    PROVE  Panel!Next
<1> DEFINE G == Failing({}, {}, {}, {})
<1>1. G \in EveryFault
  BY FailingParts
<1> HIDE DEF G
<1>2. Panel!BootReconcile(j.i, G)
  BY DEF Panel!BootReconcile, Panel!Active, RecAside, TodoOf, Now, Panel!db
<1> QED BY <1>1, <1>2, PanelSteps DEF Panel!System

\* The requests that apply an interface, and the bootstrap's pass over one.
RecOps == {"create", "update", "restore", "sync", "boot"}

\* However such a request ends, its end is a step of the panel.
LEMMA RecDone ==
    ASSUME AnyFault, ShownHoused, NEW j, j.op \in RecOps, j.i \in Ifaces,
           Asked(j, Shown.ifaces, Shown.peers, Shown.pfs, wan),
           NEW D, NEW v, NEW d, NEW kept, RecEnds(j, D, v, d, kept)
    PROVE  Panel!Next
  BY CreateDone, UpdateDone, RestoreDone, ApplyDone DEF RecOps

-----------------------------------------------------------------------------
(* Interface requests that apply the interface, call by call *)

\* The last few calls of a handler, before its cascade if it has one.
Left0(last) == IF last = "none" THEN <<>> ELSE <<last>>
Left1(a, last) == IF last = "none" THEN <<a>> ELSE <<a, last>>
Left2(a, b, last) == IF last = "none" THEN <<a, b>> ELSE <<a, b, last>>
Left3(a, b, c, last) == IF last = "none" THEN <<a, b, c>> ELSE <<a, b, c, last>>

\* How they follow one another,
LEMMA LeftOne ==
    ASSUME NEW last, NEW a, NEW c, c = Left1(a, last)
    PROVE  Head(c) = a /\ Tail(c) = Left0(last) /\ (Len(c) = 1 <=> last = "none")
<1>1. CASE last = "none"
  BY <1>1 DEF Left0, Left1
<1>2. CASE last # "none"
  BY <1>2 DEF Left0, Left1
<1> QED BY <1>1, <1>2

\* What is left after two calls that are still to come,
LEMMA LeftTwo ==
    ASSUME NEW last, NEW a, NEW b, NEW c, c = Left2(a, b, last)
    PROVE  Head(c) = a /\ c[2] = b /\ Tail(c) = Left1(b, last) /\ Len(c) # 1
<1>1. CASE last = "none"
  BY <1>1 DEF Left1, Left2
<1>2. CASE last # "none"
  BY <1>2 DEF Left1, Left2
<1> QED BY <1>1, <1>2

\* and after three.
LEMMA LeftThree ==
    ASSUME NEW last, NEW a, NEW b, NEW d, NEW c, c = Left3(a, b, d, last)
    PROVE  Head(c) = a /\ Tail(c) = Left2(b, d, last) /\ Len(c) # 1
<1>1. CASE last = "none"
  BY <1>1 DEF Left2, Left3
<1>2. CASE last # "none"
  BY <1>2 DEF Left2, Left3
<1> QED BY <1>1, <1>2

\* and that there are no more.
LEMMA LeftNone == Left0("none") = <<>> /\ \A last : last # "none" => Left0(last) = <<last>>
  BY DEF Left0

\* A call that is replaced by others is the first of the last few, too.
LEMMA LeftReplaced ==
    ASSUME NEW last
    PROVE  /\ \A a, x, y : /\ Len(<<a>> \o <<x, y>> \o Left0(last)) # 1
                           /\ Tail(<<a>> \o <<x, y>> \o Left0(last)) = Left2(x, y, last)
           /\ \A a, x, y, z :
                /\ Len(<<a>> \o <<x, y, z>> \o Left0(last)) # 1
                /\ Tail(<<a>> \o <<x, y, z>> \o Left0(last)) = Left3(x, y, z, last)
           /\ \A a, x : /\ Len(<<a, x>> \o Left0(last)) # 1
                        /\ Tail(<<a, x>> \o Left0(last)) = Left1(x, last)
<1>1. CASE last = "none"
  <2>1. Left0(last) = <<>>
    BY <1>1 DEF Left0
  <2>2. ASSUME NEW a, NEW x, NEW y
        PROVE  /\ Len(<<a>> \o <<x, y>> \o Left0(last)) # 1
               /\ Tail(<<a>> \o <<x, y>> \o Left0(last)) = Left2(x, y, last)
    <3>1. <<a>> \o <<x, y>> \o <<>> = <<a, x, y>>
      BY Joined
    <3>2. <<a>> \o <<x, y>> \o Left0(last) = <<a, x, y>>
      BY <2>1, <3>1, Zenon
    <3>3. Len(<<a, x, y>>) # 1 /\ Tail(<<a, x, y>>) = <<x, y>>
      BY Short
    <3>4. Left2(x, y, last) = <<x, y>>
      BY <1>1 DEF Left2
    <3> QED BY <3>2, <3>3, <3>4, Zenon
  <2>3. ASSUME NEW a, NEW x, NEW y, NEW z
        PROVE  /\ Len(<<a>> \o <<x, y, z>> \o Left0(last)) # 1
               /\ Tail(<<a>> \o <<x, y, z>> \o Left0(last)) = Left3(x, y, z, last)
    <3>1. <<a>> \o <<x, y, z>> \o <<>> = <<a, x, y, z>>
      BY Joined
    <3>2. <<a>> \o <<x, y, z>> \o Left0(last) = <<a, x, y, z>>
      BY <2>1, <3>1, Zenon
    <3>3. Len(<<a, x, y, z>>) # 1 /\ Tail(<<a, x, y, z>>) = <<x, y, z>>
      BY Short
    <3>4. Left3(x, y, z, last) = <<x, y, z>>
      BY <1>1 DEF Left3
    <3> QED BY <3>2, <3>3, <3>4, Zenon
  <2>4. ASSUME NEW a, NEW x
        PROVE  /\ Len(<<a, x>> \o Left0(last)) # 1
               /\ Tail(<<a, x>> \o Left0(last)) = Left1(x, last)
    <3>1. <<a, x>> \o <<>> = <<a, x>>
      BY Joined
    <3>2. <<a, x>> \o Left0(last) = <<a, x>>
      BY <2>1, <3>1, Zenon
    <3>3. Len(<<a, x>>) # 1 /\ Tail(<<a, x>>) = <<x>>
      BY Short
    <3>4. Left1(x, last) = <<x>>
      BY <1>1 DEF Left1
    <3> QED BY <3>2, <3>3, <3>4, Zenon
  <2> QED BY <2>2, <2>3, <2>4
<1>2. CASE last # "none"
  <2>1. Left0(last) = <<last>>
    BY <1>2 DEF Left0
  <2>2. ASSUME NEW a, NEW x, NEW y
        PROVE  /\ Len(<<a>> \o <<x, y>> \o Left0(last)) # 1
               /\ Tail(<<a>> \o <<x, y>> \o Left0(last)) = Left2(x, y, last)
    <3>1. <<a>> \o <<x, y>> \o <<last>> = <<a, x, y, last>>
      BY Joined
    <3>2. <<a>> \o <<x, y>> \o Left0(last) = <<a, x, y, last>>
      BY <2>1, <3>1, Zenon
    <3>3. Len(<<a, x, y, last>>) # 1 /\ Tail(<<a, x, y, last>>) = <<x, y, last>>
      BY Short
    <3>4. Left2(x, y, last) = <<x, y, last>>
      BY <1>2 DEF Left2
    <3> QED BY <3>2, <3>3, <3>4, Zenon
  <2>3. ASSUME NEW a, NEW x, NEW y, NEW z
        PROVE  /\ Len(<<a>> \o <<x, y, z>> \o Left0(last)) # 1
               /\ Tail(<<a>> \o <<x, y, z>> \o Left0(last)) = Left3(x, y, z, last)
    <3>1. <<a>> \o <<x, y, z>> \o <<last>> = <<a, x, y, z, last>>
      BY Joined
    <3>2. <<a>> \o <<x, y, z>> \o Left0(last) = <<a, x, y, z, last>>
      BY <2>1, <3>1, Zenon
    <3>3. Len(<<a, x, y, z, last>>) # 1 /\ Tail(<<a, x, y, z, last>>) = <<x, y, z, last>>
      BY Short
    <3>4. Left3(x, y, z, last) = <<x, y, z, last>>
      BY <1>2 DEF Left3
    <3> QED BY <3>2, <3>3, <3>4, Zenon
  <2>4. ASSUME NEW a, NEW x
        PROVE  /\ Len(<<a, x>> \o Left0(last)) # 1
               /\ Tail(<<a, x>> \o Left0(last)) = Left1(x, last)
    <3>1. <<a, x>> \o <<last>> = <<a, x, last>>
      BY Joined
    <3>2. <<a, x>> \o Left0(last) = <<a, x, last>>
      BY <2>1, <3>1, Zenon
    <3>3. Len(<<a, x, last>>) # 1 /\ Tail(<<a, x, last>>) = <<x, last>>
      BY Short
    <3>4. Left1(x, last) = <<x, last>>
      BY <1>2 DEF Left1
    <3> QED BY <3>2, <3>3, <3>4, Zenon
  <2> QED BY <2>2, <2>3, <2>4
<1> QED BY <1>1, <1>2

\* What reconcile has made of device and rules after each of its calls.
DevEnsured(j) == DevWith(j, Ensured(j.i, RowOf(j)))
DevConfigured(j) == DevWith(j, Configured1(j.i, RowOf(j), ServedOf(j)))
FwMasked(j, D) == Masked(BaseFw(j, D), j.i, RowOf(j))
FwTorn(j, D, E) == Torn(BaseFw(j, D), j.i, RowOf(j), E)
WorkedOf(j, D, E, d, r, kept) ==
    Worked(j.i, RowOf(j), ServedOf(j), BaseFw(j, D), E, d, r, kept)
NatCall(j) == IF RowOf(j).masq THEN "setup" ELSE "teardown"

\* Where such a request is, in terms of what it began with: `k' is its job by now, and
\* tables and host are as given.  First before its row is written and its peers are,
KidsThere(k, tp) == \A p \in DOMAIN k.kids : tp[p].st # "purged"
AtUpdate(j, k, ti, tp, r) ==
    /\ j.op = "update" /\ ti = Shown.ifaces /\ KidsThere(k, tp)
    /\ \/ /\ k.calls = <<"teardown", "saveIface", "load">> /\ k.verdict = "none"
          /\ r = Shown.fw /\ k.row = Shown.ifaces[j.i]
       \/ /\ k.calls = <<"saveIface", "load">> /\ k.verdict = "owed"
          /\ \E D \in SUBSET NatKinds : r = BaseFw(j, D)
AtRestore(j, k, ti, r) ==
    /\ j.op = "restore" /\ r = Shown.fw
    /\ \/ /\ k.calls = <<"restoreIface", "restorePeers", "load", "reapply">>
          /\ k.verdict = "none" /\ ti = Shown.ifaces
       \/ /\ k.calls = <<"restorePeers", "load", "reapply">> /\ k.verdict = "owed"
          /\ ti = RowsWith(j, RowOf(j))
AtFirst(j, k, ti, tp, td, r) ==
    /\ tp = Shown.peers /\ td = Shown.dev
    /\ \/ /\ j.op = "create" /\ k.calls = <<"insertIface", "load">> /\ k.verdict = "none"
          /\ ti = Shown.ifaces /\ r = Shown.fw
       \/ AtUpdate(j, k, ti, tp, r)
       \/ AtRestore(j, k, ti, r)

\* then before the row is read,
AtLoad(j, k, ti, td, r) ==
    /\ k.calls = Left1("load", LastOf(j)) /\ ti = RowsWith(j, RowOf(j)) /\ td = Shown.dev
    /\ \E D \in SUBSET NatKinds : r = BaseFw(j, D)
    /\ k.verdict = IF j.op \in {"create", "update", "restore"}
                        \/ (j.op = "boot" /\ Shown.ifaces[j.i].st = "active")
                     THEN "owed" ELSE "none"

\* then before each call on the host,
AtEnsure(j, k, td, r, D) ==
    /\ RowOf(j).on /\ k.calls = Left3("ensure", "configure", NatCall(j), LastOf(j))
    /\ k.row = RowOf(j) /\ k.verdict = "owed" /\ td = Shown.dev /\ r = BaseFw(j, D)
AtConfigure(j, k, td, r, D) ==
    /\ RowOf(j).on /\ k.calls = Left2("configure", NatCall(j), LastOf(j))
    /\ k.row = RowOf(j) /\ k.verdict = "owed" /\ td = DevEnsured(j) /\ r = BaseFw(j, D)
AtNat(j, k, td, r, D) ==
    /\ RowOf(j).on /\ k.calls = Left1(NatCall(j), LastOf(j)) /\ k.row = RowOf(j)
    /\ k.verdict = IF RowOf(j).masq THEN "owed" ELSE "settled"
    /\ td = DevConfigured(j) /\ r = BaseFw(j, D)
AtEgress(j, k, td, r, D) ==
    /\ RowOf(j).on /\ RowOf(j).masq /\ RowOf(j).egress = NoLink /\ wan # NoLink
    /\ k.calls = Left1("egress", LastOf(j)) /\ k.row = [RowOf(j) EXCEPT !.egress = wan]
    /\ k.verdict = "owed" /\ td = DevConfigured(j) /\ r = FwMasked(j, D)
AtTeardown(j, k, td, r, D) ==
    /\ ~RowOf(j).on /\ k.calls = Left2("teardown", "rmlink", LastOf(j))
    /\ k.row = RowOf(j) /\ k.verdict = "owed" /\ td = Shown.dev /\ r = BaseFw(j, D)
AtRmlink(j, k, td, r, D) ==
    /\ ~RowOf(j).on /\ k.calls = Left1("rmlink", LastOf(j)) /\ td = Shown.dev
    /\ \E E \in SUBSET NatKinds : r = FwTorn(j, D, E)
    /\ k.verdict = IF Found0(j.i).exists THEN "owed" ELSE "settled"
AtHost(j, k, ti, tp, td, r) ==
    /\ RowOf(j).st = "active" /\ ti = RowsWith(j, RowOf(j)) /\ KidsThere(k, tp)
    /\ {p \in DOMAIN k.kids : k.kids[p].on} = ServedOf(j)
    /\ \E D \in SUBSET NatKinds :
         \/ AtEnsure(j, k, td, r, D)   \/ AtConfigure(j, k, td, r, D)
         \/ AtNat(j, k, td, r, D)      \/ AtEgress(j, k, td, r, D)
         \/ AtTeardown(j, k, td, r, D) \/ AtRmlink(j, k, td, r, D)

\* and at last before the cascade.
AtLast(j, k, ti, td, r) ==
    /\ LastOf(j) # "none" /\ k.calls = <<LastOf(j)>> /\ k.verdict = "settled"
    /\ RowOf(j).st = "active"
    /\ \E D, E \in SUBSET NatKinds : \E d, rules, kept :
         /\ rules = r /\ ti = RowsWith(j, kept) /\ td = DevWith(j, d)
         /\ WorkedOf(j, D, E, d, rules, kept)

RecAt(j, k, ti, tp, td, r) ==
    \/ AtFirst(j, k, ti, tp, td, r)
    \/ /\ tp = BasePeers(j) /\ (j.op = "create" => NameFree(j))
       /\ AtLoad(j, k, ti, td, r) \/ AtHost(j, k, ti, tp, td, r) \/ AtLast(j, k, ti, td, r)

RecStage(j) ==
    /\ owed = Shown.owed /\ pfs = Shown.pfs /\ pfTodo = Shown.pfTodo /\ todo = TodoOf(j)
    /\ j.op = "boot" => j.i \in Shown.todo
    /\ RecAt(j, j, ifaces, peers, dev, fw)

\* While the request goes on these are the same.
LEMMA RecStays ==
    ASSUME NEW w \in Workers, Shown' = Shown, wan' = wan, jobs'[w].op = jobs[w].op,
           jobs'[w].i = jobs[w].i, jobs'[w].new = jobs[w].new
    PROVE  /\ RowOf(jobs[w])' = RowOf(jobs[w]) /\ BasePeers(jobs[w])' = BasePeers(jobs[w])
           /\ ServedOf(jobs[w])' = ServedOf(jobs[w]) /\ LastOf(jobs[w])' = LastOf(jobs[w])
           /\ TodoOf(jobs[w])' = TodoOf(jobs[w]) /\ NatCall(jobs[w])' = NatCall(jobs[w])
           /\ (NameFree(jobs[w])' <=> NameFree(jobs[w]))
           /\ Found0(jobs[w].i)' = Found0(jobs[w].i)
           /\ \A D : BaseFw(jobs[w], D)' = BaseFw(jobs[w], D)
           /\ \A row : RowsWith(jobs[w], row)' = RowsWith(jobs[w], row)
           /\ \A d : DevWith(jobs[w], d)' = DevWith(jobs[w], d)
           /\ DevEnsured(jobs[w])' = DevEnsured(jobs[w])
           /\ DevConfigured(jobs[w])' = DevConfigured(jobs[w])
           /\ \A D : FwMasked(jobs[w], D)' = FwMasked(jobs[w], D)
           /\ \A D, E : FwTorn(jobs[w], D, E)' = FwTorn(jobs[w], D, E)
           /\ \A D, E, d, r, kept : WorkedOf(jobs[w], D, E, d, r, kept)'
                                      <=> WorkedOf(jobs[w], D, E, d, r, kept)
<1>1. RowOf(jobs[w])' = RowOf(jobs[w]) /\ BasePeers(jobs[w])' = BasePeers(jobs[w])
  BY DEF RowOf, BasePeers
<1>2. ServedOf(jobs[w])' = ServedOf(jobs[w])
  BY <1>1 DEF ServedOf, Panel!Served
<1>3. LastOf(jobs[w])' = LastOf(jobs[w]) /\ TodoOf(jobs[w])' = TodoOf(jobs[w])
  BY DEF LastOf, TodoOf
<1>4. NatCall(jobs[w])' = NatCall(jobs[w])
  BY <1>1 DEF NatCall
<1>5. (NameFree(jobs[w])' <=> NameFree(jobs[w])) /\ Found0(jobs[w].i)' = Found0(jobs[w].i)
  BY DEF NameFree, Found0
<1>6. \A D : BaseFw(jobs[w], D)' = BaseFw(jobs[w], D)
  BY DEF BaseFw, Torn
<1>7. \A row : RowsWith(jobs[w], row)' = RowsWith(jobs[w], row)
  BY DEF RowsWith
<1>8. \A d : DevWith(jobs[w], d)' = DevWith(jobs[w], d)
  BY DEF DevWith
<1>9. DevEnsured(jobs[w])' = DevEnsured(jobs[w])
  BY <1>1 DEF DevEnsured, DevWith, Ensured, Found0
<1>10. DevConfigured(jobs[w])' = DevConfigured(jobs[w])
  BY <1>1, <1>2 DEF DevConfigured, DevWith, Configured1, Ensured, Found0
<1>11. \A D : FwMasked(jobs[w], D)' = FwMasked(jobs[w], D)
  BY <1>1, <1>6 DEF FwMasked, Masked
<1>12. \A D, E : FwTorn(jobs[w], D, E)' = FwTorn(jobs[w], D, E)
  BY <1>1, <1>6 DEF FwTorn, Torn
<1>13. \A D, E, d, r, kept : WorkedOf(jobs[w], D, E, d, r, kept)'
                              <=> WorkedOf(jobs[w], D, E, d, r, kept)
  BY <1>1, <1>2, <1>6 DEF WorkedOf, Worked, Configured1, Ensured, Found0, Masked, Torn
<1> QED BY <1>1, <1>2, <1>3, <1>4, <1>5, <1>6, <1>7, <1>8, <1>9, <1>10, <1>11, <1>12, <1>13

\* The request is at its next place.
LEMMA RecOn ==
    ASSUME NEW w \in Workers, RecStage(jobs[w]), Shown' = Shown, wan' = wan,
           jobs'[w].op = jobs[w].op, jobs'[w].i = jobs[w].i, jobs'[w].new = jobs[w].new,
           UNCHANGED <<pfs, todo, pfTodo, owed>>,
           RecAt(jobs[w], jobs'[w], ifaces', peers', dev', fw')
    PROVE  RecStage(jobs[w])'
<1> DEFINE j == jobs[w]
           k == jobs'[w]
<1>1. AtFirst(j, k, ifaces', peers', dev', fw') => AtFirst(j, j, ifaces, peers, dev, fw)'
  <2>1. AtUpdate(j, k, ifaces', peers', fw') => AtUpdate(j, j, ifaces, peers, fw)'
    BY RecStays DEF AtUpdate, KidsThere
  <2>2. AtRestore(j, k, ifaces', fw') => AtRestore(j, j, ifaces, fw)'
    BY RecStays DEF AtRestore, RowsWith
  <2> QED BY <2>1, <2>2 DEF AtFirst
<1>2. AtLoad(j, k, ifaces', dev', fw') => AtLoad(j, j, ifaces, dev, fw)'
  BY RecStays DEF AtLoad, RowsWith
<1>3. AtHost(j, k, ifaces', peers', dev', fw') => AtHost(j, j, ifaces, peers, dev, fw)'
  <2>1. \A D : /\ AtEnsure(j, k, dev', fw', D) => AtEnsure(j, j, dev, fw, D)'
               /\ AtConfigure(j, k, dev', fw', D) => AtConfigure(j, j, dev, fw, D)'
               /\ AtNat(j, k, dev', fw', D) => AtNat(j, j, dev, fw, D)'
    BY RecStays DEF AtEnsure, AtConfigure, AtNat
  <2>2. \A D : /\ AtEgress(j, k, dev', fw', D) => AtEgress(j, j, dev, fw, D)'
               /\ AtTeardown(j, k, dev', fw', D) => AtTeardown(j, j, dev, fw, D)'
               /\ AtRmlink(j, k, dev', fw', D) => AtRmlink(j, j, dev, fw, D)'
    BY RecStays DEF AtEgress, AtTeardown, AtRmlink
  <2> QED BY <2>1, <2>2, RecStays DEF AtHost, KidsThere, RowsWith
<1>4. AtLast(j, k, ifaces', dev', fw') => AtLast(j, j, ifaces, dev, fw)'
  <2> SUFFICES ASSUME AtLast(j, k, ifaces', dev', fw') PROVE AtLast(j, j, ifaces, dev, fw)'
    OBVIOUS
  <2>1. PICK D, E, d, rules, kept :
          /\ D \in SUBSET NatKinds /\ E \in SUBSET NatKinds
          /\ rules = fw' /\ ifaces' = RowsWith(j, kept) /\ dev' = DevWith(j, d)
          /\ WorkedOf(j, D, E, d, rules, kept)
    BY DEF AtLast
  <2>2. /\ rules = fw' /\ ifaces' = RowsWith(j, kept)' /\ dev' = DevWith(j, d)'
        /\ WorkedOf(j, D, E, d, rules, kept)'
    BY <2>1, RecStays
  <2>3. \E X, Y \in SUBSET NatKinds : \E x, y, z :
          /\ y = fw' /\ ifaces' = RowsWith(j, z)' /\ dev' = DevWith(j, x)'
          /\ WorkedOf(j, X, Y, x, y, z)'
    BY <2>1, <2>2
  <2> QED BY <2>3, RecStays DEF AtLast
<1>5. RecAt(j, j, ifaces, peers, dev, fw)'
  BY <1>1, <1>2, <1>3, <1>4, RecStays DEF RecAt
<1> QED BY <1>5, RecStays DEF RecStage

\* What is known of such a request from its beginning.
LEMMA RecKnown ==
    ASSUME NEW j, j.op \in RecOps, j.i \in Ifaces, ShownTyped, Carries(j),
           Asked(j, Shown.ifaces, Shown.peers, Shown.pfs, wan)
    PROVE  /\ RowOf(j) \in Iface /\ LastOf(j) \in Lasts
           /\ j.op \in {"create", "update", "restore", "sync"} => RowOf(j).st = "active"
           /\ j.op \in {"sync", "boot"} =>
                RowOf(j) = Shown.ifaces[j.i] /\ RowsWith(j, RowOf(j)) = Shown.ifaces
           /\ j.op = "create" => Shown.ifaces[j.i].st = "none"
           /\ j.op = "update" => Shown.ifaces[j.i].st = "active"
           /\ j.op = "restore" => Shown.ifaces[j.i].st = "trashed"
           /\ DevWith(j, Found0(j.i)) = Shown.dev
<1>1. Shown.ifaces[j.i] \in Iface /\ LastOf(j) \in Lasts /\ DevWith(j, Found0(j.i)) = Shown.dev
  BY DEF ShownTyped, LastOf, Lasts, DevWith, Found0
<1>2. CASE j.op \in {"create", "update"}
  BY <1>1, <1>2 DEF Carries, RowOf, Asked, Entitled
<1>3. CASE j.op = "restore"
  <2>1. Shown.ifaces[j.i].st = "trashed"
    BY <1>3 DEF Asked, Entitled
  <2>2. [Shown.ifaces[j.i] EXCEPT !.st = "active"] \in Iface
    BY <1>1 DEF Iface, RowState
  <2>3. [Shown.ifaces[j.i] EXCEPT !.st = "active"].st = "active"
    BY <1>1 DEF Iface
  <2>4. RowOf(j) = [Shown.ifaces[j.i] EXCEPT !.st = "active"]
    BY <1>3 DEF RowOf
  <2> QED BY <1>1, <1>3, <2>1, <2>2, <2>3, <2>4
<1>4. CASE j.op \in {"sync", "boot"}
  <2>1. j.op = "sync" => Shown.ifaces[j.i].st = "active"
    BY DEF Asked, Entitled
  <2>2. RowsWith(j, Shown.ifaces[j.i]) = Shown.ifaces
    BY DEF ShownTyped, RowsWith
  <2> QED BY <1>1, <1>4, <2>1, <2>2 DEF RowOf
<1> QED BY <1>1, <1>2, <1>3, <1>4 DEF RecOps

\* The request is over and its tables are as they were before reconcile.
RecOver(j) ==
    /\ RecAside(j) /\ peers' = BasePeers(j) /\ RowOf(j).st = "active"
    /\ j.op = "create" => NameFree(j)
    /\ j.op = "boot" => j.i \in Shown.todo

\* Reconcile has failed, at some call of it.
LEMMA FailsOver ==
    ASSUME AnyFault, ShownHoused, ShownTyped, NEW j, j.op \in RecOps, j.i \in Ifaces, Carries(j),
           Asked(j, Shown.ifaces, Shown.peers, Shown.pfs, wan), RecOver(j),
           NEW D \in SUBSET NatKinds, NEW F, NEW E \in SUBSET NatKinds, NEW d,
           Failed(j.i, RowOf(j), ServedOf(j), BaseFw(j, D), F, E, d, fw'),
           ifaces' = RowsWith(j, RowOf(j)), dev' = DevWith(j, d),
           owed' = OwedBy(Shown.owed, NameOf[j.i], "owed")
    PROVE  Panel!Next
<1>1. RowOf(j) \in Iface /\ (j.op \in {"sync", "boot"} => RowOf(j) = Shown.ifaces[j.i])
  BY RecKnown
<1>2. Outcome(j.i, RowOf(j), ServedOf(j), BaseFw(j, D), LastOf(j), "owed", d, fw', RowOf(j))
  BY <1>1, FailedIsOutcome
<1>3. RecEnds(j, D, "owed", d, RowOf(j))
  BY <1>1, <1>2 DEF RecEnds, RecOver
<1> QED BY <1>3, RecDone

\* Reconcile has worked, and the cascade after it.
LEMMA WorksOver ==
    ASSUME AnyFault, ShownHoused, ShownTyped, NEW j, j.op \in RecOps, j.i \in Ifaces, Carries(j),
           Asked(j, Shown.ifaces, Shown.peers, Shown.pfs, wan), RecOver(j),
           NEW D \in SUBSET NatKinds, NEW E \in SUBSET NatKinds, NEW d, NEW rules, NEW kept,
           WorkedOf(j, D, E, d, rules, kept), NEW a \in SUBSET PfKinds,
           fw' = After(LastOf(j), j.i, rules, a),
           ifaces' = RowsWith(j, kept), dev' = DevWith(j, d),
           owed' = OwedBy(Shown.owed, NameOf[j.i], "settled")
    PROVE  Panel!Next
<1>1. /\ RowOf(j) \in Iface /\ (j.op \in {"sync", "boot"} => RowOf(j) = Shown.ifaces[j.i])
      /\ LastOf(j) \in Lasts
  BY RecKnown
<1>2. Outcome(j.i, RowOf(j), ServedOf(j), BaseFw(j, D), LastOf(j), "settled", d, fw', kept)
  BY <1>1, WorkedIsOutcome DEF WorkedOf
<1>3. RecEnds(j, D, "settled", d, kept)
  BY <1>1, <1>2 DEF RecEnds, RecOver
<1> QED BY <1>3, RecDone

\* A cascade may find nothing it can do.
LEMMA CascadeIdle ==
    ASSUME NEW last \in Lasts, NEW i
    PROVE  \E a \in SUBSET PfKinds : \A r : After(last, i, r, a) = r
<1>1. \A S : OfForwards(Panel!RulesOf(S))
  BY RulesUnderFaults, SameRules DEF Panel!RulesOf, OfForwards
<1>2. CASE last = "reapply"
  <2>1. \A x \in PfKinds : NotAfter[x] \intersect {"dnat"} # {}
    BY DEF PfKinds, NotAfter
  <2>2. \A r, R : OfForwards(R) => PutIn(r, R, {"dnat"}) = r
    BY <2>1 DEF PutIn, OfForwards
  <2>3. {"dnat"} \in SUBSET PfKinds
    BY DEF PfKinds
  <2>4. \A r : After(last, i, r, {"dnat"}) = r
    BY <1>1, <1>2, <2>2 DEF After
  <2> QED BY <2>3, <2>4
<1>3. CASE last = "unapply"
  <2>1. \A r, R : OfForwards(R) => Removed(r, R, PfKinds) = r
    BY DEF Removed, OfForwards
  <2>2. \A r : After(last, i, r, PfKinds) = r
    BY <1>1, <1>3, <2>1 DEF After
  <2> QED BY <2>2
<1>4. CASE last = "none"
  <2>1. \A r : After(last, i, r, {}) = r
    BY <1>4 DEF After
  <2> QED BY <2>1
<1> QED BY <1>2, <1>3, <1>4 DEF Lasts

FailedOf(j, D, E, d) ==
    /\ Failed(j.i, RowOf(j), ServedOf(j), BaseFw(j, D), Plain, E, d, fw)
    /\ dev = DevWith(j, d)
SettledOf(j, D, E, d) == WorkedOf(j, D, E, d, fw, RowOf(j)) /\ dev = DevWith(j, d)

\* A reconcile that goes no further has failed, or, where all that is left is a call that
\* may fail in silence, has worked.
LEMMA HostFails ==
    ASSUME ShownTyped, NEW j, j.op \in RecOps, j.i \in Ifaces, Carries(j),
           Asked(j, Shown.ifaces, Shown.peers, Shown.pfs, wan), NEW k,
           AtHost(j, k, ifaces, peers, dev, fw)
    PROVE  /\ k.verdict \in {"owed", "settled"}
           /\ k.verdict = "owed" =>
                \E D, E \in SUBSET NatKinds : \E d : FailedOf(j, D, E, d)
           /\ k.verdict = "settled" =>
                \E D, E \in SUBSET NatKinds : \E d : SettledOf(j, D, E, d)
<1> DEFINE row == RowOf(j)
<1>1. DevWith(j, Found0(j.i)) = Shown.dev
  BY RecKnown
<1>2. PICK D \in SUBSET NatKinds :
        \/ AtEnsure(j, k, dev, fw, D)   \/ AtConfigure(j, k, dev, fw, D)
        \/ AtNat(j, k, dev, fw, D)      \/ AtEgress(j, k, dev, fw, D)
        \/ AtTeardown(j, k, dev, fw, D) \/ AtRmlink(j, k, dev, fw, D)
  BY DEF AtHost
<1>3. NatKinds \in SUBSET NatKinds
  OBVIOUS
<1>4. CASE AtEnsure(j, k, dev, fw, D) \/ AtTeardown(j, k, dev, fw, D)
  <2>1. k.verdict = "owed" /\ dev = DevWith(j, Found0(j.i)) /\ fw = BaseFw(j, D)
    BY <1>1, <1>4 DEF AtEnsure, AtTeardown
  <2>2. FailedOf(j, D, D, Found0(j.i))
    BY <2>1 DEF FailedOf, Failed
  <2> QED BY <2>1, <2>2
<1>5. CASE AtConfigure(j, k, dev, fw, D)
  <2>1. k.verdict = "owed" /\ dev = DevWith(j, Ensured(j.i, row)) /\ fw = BaseFw(j, D) /\ row.on
    BY <1>5 DEF AtConfigure, DevEnsured
  <2>2. FailedOf(j, D, D, Ensured(j.i, row))
    BY <2>1 DEF FailedOf, Failed
  <2> QED BY <2>1, <2>2
<1>6. CASE AtNat(j, k, dev, fw, D)
  <2> DEFINE d == Configured1(j.i, row, ServedOf(j))
  <2>1. /\ dev = DevWith(j, d) /\ fw = BaseFw(j, D) /\ row.on
        /\ k.verdict = IF row.masq THEN "owed" ELSE "settled"
    BY <1>6 DEF AtNat, DevConfigured
  <2>2. row.masq => FailedOf(j, D, D, d)
    BY <2>1 DEF FailedOf, Failed
  <2>3. ~row.masq => SettledOf(j, D, NatKinds, d)
    <3>1. \A r : Torn(r, j.i, row, NatKinds) = r
      <4>1. \A n, a, e : \A x \in NatRules(n, a, e) : x[1] \in NatKinds
        BY DEF NatRules, NatKinds
      <4> QED BY <4>1 DEF Torn, TeardownNAT, DeleteRules
    <3> QED BY <2>1, <3>1 DEF SettledOf, WorkedOf, Worked
  <2> HIDE DEF row, d
  <2> QED BY <1>3, <2>1, <2>2, <2>3
<1>7. CASE AtEgress(j, k, dev, fw, D)
  <2> DEFINE d == Configured1(j.i, row, ServedOf(j))
  <2>1. /\ dev = DevWith(j, d) /\ fw = Masked(BaseFw(j, D), j.i, row) /\ row.on /\ row.masq
        /\ k.verdict = "owed" /\ row.egress = NoLink /\ wan # NoLink
    BY <1>7 DEF AtEgress, DevConfigured, FwMasked
  <2>2. FailedOf(j, D, D, d)
    BY <2>1 DEF FailedOf, Failed
  <2> HIDE DEF row, d
  <2> QED BY <2>1, <2>2
<1>8. CASE AtRmlink(j, k, dev, fw, D)
  <2>1. PICK E \in SUBSET NatKinds : fw = Torn(BaseFw(j, D), j.i, row, E)
    BY <1>8 DEF AtRmlink, FwTorn
  <2>2. /\ dev = DevWith(j, Found0(j.i)) /\ ~row.on
        /\ k.verdict = IF Found0(j.i).exists THEN "owed" ELSE "settled"
    BY <1>1, <1>8 DEF AtRmlink
  <2>3. Found0(j.i).exists => FailedOf(j, D, E, Found0(j.i))
    BY <2>1, <2>2 DEF FailedOf, Failed
  <2>4. ~Found0(j.i).exists => SettledOf(j, D, E, Found0(j.i))
    BY <2>1, <2>2 DEF SettledOf, WorkedOf, Worked
  <2> HIDE DEF row
  <2> QED BY <2>2, <2>3, <2>4
<1> QED BY <1>2, <1>4, <1>5, <1>6, <1>7, <1>8

\* A request that applies its interface makes a call.
RecServing(w) ==
    /\ Serving(w) /\ ShownHoused /\ Call(w) /\ jobs[w].op \in RecOps /\ RecStage(jobs[w])

\* What is left of it after the call.
RecGoesOn(w) ==
    IF Busy' = {} THEN Panel!Next \/ UNCHANGED Panel!vars
    ELSE /\ NextJob(jobs'[w], jobs[w]) /\ jobs'[w].new = jobs[w].new
         /\ RecStage(jobs[w])'

\* What such a call starts from.
LEMMA RecParts ==
    ASSUME NEW w \in Workers, RecServing(w)
    PROVE  /\ jobs[w] \in Job /\ Carries(jobs[w]) /\ jobs[w].i \in Ifaces
           /\ NameOf[jobs[w].i] \in Names /\ {"calls", "verdict"} \subseteq DOMAIN jobs[w]
           /\ ifaces \in [Ifaces -> Iface] /\ peers \in [Peers -> Peer]
           /\ dev \in [Names -> Device] /\ ShownTyped /\ AnyFault /\ ShownHoused
           /\ Asked(jobs[w], Shown.ifaces, Shown.peers, Shown.pfs, wan)
           /\ UNCHANGED <<todo, pfTodo, wan>>
  BY WorkParts, BootAside DEF RecServing, Serving, Fits

\* It ends,
LEMMA RecStopped ==
    ASSUME NEW w \in Workers, RecServing(w), NEW v, Stop(w, v), pfs' = pfs
    PROVE  /\ Busy' = {} /\ RecAside(jobs[w])
           /\ owed' = OwedBy(Shown.owed, NameOf[jobs[w].i], v)
<1>1. Busy' = {} /\ owed' = OwedBy(owed, NameOf[jobs[w].i], v) /\ Shown' = Now'
  BY Stopped DEF RecServing
<1> QED BY <1>1, RecParts DEF RecServing, RecStage, RecAside

\* or goes on.
LEMMA RecSteps ==
    ASSUME NEW w \in Workers, RecServing(w), NEW x, {"calls", "verdict"} \subseteq DOMAIN x,
           NEW v, GoOn(w, x, v), pfs' = pfs,
           Head(jobs[w].calls) \notin {"savePeer", "insertPf", "savePf", "deletePf"}
    PROVE  /\ Len(x.calls) = 1 =>
                /\ Busy' = {} /\ RecAside(jobs[w])
                /\ owed' = OwedBy(Shown.owed, NameOf[jobs[w].i], v)
           /\ Len(x.calls) # 1 =>
                /\ NextJob(jobs'[w], jobs[w]) /\ jobs'[w].verdict = v
                /\ jobs'[w].calls = Tail(x.calls)
                /\ RecAt(jobs[w], jobs'[w], ifaces', peers', dev', fw') => RecGoesOn(w)
<1>1. IF Len(x.calls) = 1
        THEN Busy' = {} /\ owed' = OwedBy(owed, NameOf[jobs[w].i], v)
        ELSE /\ Busy' = {w} /\ owed' = owed /\ NextJob(jobs'[w], jobs[w])
             /\ jobs'[w].verdict = v /\ jobs'[w].calls = Tail(x.calls)
  BY Proceeds DEF RecServing, Serving
<1>2. UNCHANGED <<todo, pfTodo, wan>> /\ RecStage(jobs[w]) /\ Showing
  BY RecParts DEF RecServing, Serving
<1>3. CASE Len(x.calls) = 1
  BY <1>1, <1>2, <1>3 DEF Showing, RecStage, RecAside
<1>4. CASE Len(x.calls) # 1
  <2>1. /\ Busy' # {} /\ Shown' = Shown /\ NextJob(jobs'[w], jobs[w])
        /\ UNCHANGED <<pfs, todo, pfTodo, owed>>
    BY <1>1, <1>2, <1>4 DEF Showing
  <2>2. /\ jobs'[w].op = jobs[w].op /\ jobs'[w].i = jobs[w].i /\ jobs'[w].new = jobs[w].new
    BY <2>1 DEF NextJob
  <2>3. RecAt(jobs[w], jobs'[w], ifaces', peers', dev', fw') => RecStage(jobs[w])'
    BY <1>2, <2>1, <2>2, RecOn
  <2> QED BY <1>1, <1>4, <2>1, <2>2, <2>3 DEF RecGoesOn
<1> QED BY <1>3, <1>4

\* Mostly with the calls it had.
LEMMA RecOnward ==
    ASSUME NEW w \in Workers, RecServing(w), NEW v, GoOn(w, jobs[w], v), pfs' = pfs,
           Head(jobs[w].calls) \notin {"savePeer", "insertPf", "savePf", "deletePf"}
    PROVE  /\ Len(jobs[w].calls) = 1 =>
                /\ Busy' = {} /\ RecAside(jobs[w])
                /\ owed' = OwedBy(Shown.owed, NameOf[jobs[w].i], v)
           /\ Len(jobs[w].calls) # 1 =>
                /\ NextJob(jobs'[w], jobs[w]) /\ jobs'[w].verdict = v
                /\ jobs'[w].calls = Tail(jobs[w].calls)
                /\ RecAt(jobs[w], jobs'[w], ifaces', peers', dev', fw') => RecGoesOn(w)
<1>1. {"calls", "verdict"} \subseteq DOMAIN jobs[w]
  BY RecParts
<1> QED BY <1>1, RecSteps

\* It has changed nothing.
LEMMA NothingDone ==
    ASSUME NEW j, j.op # "boot", RecAside(j), ifaces' = Shown.ifaces, peers' = Shown.peers,
           dev' = Shown.dev, fw' = Shown.fw, owed' = Shown.owed
    PROVE  UNCHANGED Panel!vars
  BY DEF RecAside, TodoOf, Now, Panel!vars

\* Before its row is read: POST /interfaces inserts it,
LEMMA CreateInserts ==
    ASSUME NEW w \in Workers, RecServing(w), jobs[w].op = "create",
           AtFirst(jobs[w], jobs[w], ifaces, peers, dev, fw)
    PROVE  RecGoesOn(w)
<1> DEFINE j == jobs[w]
           k == jobs'[w]
<1>1. /\ j.calls = <<"insertIface", "load">> /\ ifaces = Shown.ifaces /\ peers = Shown.peers
      /\ dev = Shown.dev /\ fw = Shown.fw
  BY DEF AtFirst, AtUpdate, AtRestore
<1>2. Head(j.calls) = "insertIface" /\ Len(j.calls) = 2 /\ Tail(j.calls) = <<"load">>
  BY <1>1
<1>3. PICK F : InsertIface(w, F)
  BY <1>2, CallAt DEF RecServing
<1>4. peers' = peers /\ pfs' = pfs /\ dev' = dev /\ fw' = fw
  BY <1>3 DEF InsertIface, HostUntouched
<1>5. CASE Stop(w, "none") /\ ifaces' = ifaces
  <2>1. Busy' = {} /\ RecAside(j) /\ owed' = Shown.owed
    BY <1>4, <1>5, RecStopped, Reports
  <2> QED BY <1>1, <1>4, <1>5, <2>1, NothingDone DEF RecGoesOn
<1>6. CASE NameFits(j.i) /\ GoOn(w, j, "owed") /\ ifaces' = [ifaces EXCEPT ![j.i] = j.new]
  <2>1. /\ k.verdict = "owed" /\ k.calls = <<"load">>
        /\ RecAt(j, k, ifaces', peers', dev', fw') => RecGoesOn(w)
    <3>1. GoOn(w, jobs[w], "owed") /\ pfs' = pfs /\ Len(jobs[w].calls) # 1
      BY <1>2, <1>4, <1>6
    <3>2. Head(jobs[w].calls) \notin {"savePeer", "insertPf", "savePf", "deletePf"}
      BY <1>2
    <3>3. /\ jobs'[w].verdict = "owed" /\ jobs'[w].calls = Tail(jobs[w].calls)
          /\ RecAt(jobs[w], jobs'[w], ifaces', peers', dev', fw') => RecGoesOn(w)
      BY <3>1, <3>2, RecOnward, Zenon
    <3> QED BY <1>2, <3>3
  <2>2. NameFree(j)
    <3>1. Shown.ifaces[j.i].st = "none"
      BY RecParts, RecKnown DEF RecServing
    <3> QED BY <1>1, <1>6, <3>1 DEF NameFits, NameFree, InTable
  <2>3. LastOf(j) = "none" /\ RowOf(j) = j.new /\ BasePeers(j) = Shown.peers
        /\ BaseFw(j, {}) = Shown.fw
    BY DEF LastOf, RowOf, BasePeers, BaseFw
  <2>4. AtLoad(j, k, ifaces', dev', fw')
    BY <1>1, <1>4, <1>6, <2>1, <2>3 DEF AtLoad, Left1, RowsWith
  <2> QED BY <1>1, <1>4, <2>1, <2>2, <2>3, <2>4 DEF RecAt
<1> QED BY <1>3, <1>5, <1>6 DEF InsertIface

\* POST /interfaces/:id/restore takes it out of the trash and its peers after it,
LEMMA RestoreTakesOut ==
    ASSUME NEW w \in Workers, RecServing(w), jobs[w].op = "restore",
           AtFirst(jobs[w], jobs[w], ifaces, peers, dev, fw)
    PROVE  RecGoesOn(w)
<1> DEFINE j == jobs[w]
           k == jobs'[w]
<1>1. peers = Shown.peers /\ dev = Shown.dev /\ fw = Shown.fw /\ AtRestore(j, j, ifaces, fw)
  BY DEF AtFirst, AtUpdate, AtRestore
<1>2. /\ Shown.ifaces[j.i].st = "trashed" /\ LastOf(j) = "reapply"
      /\ RowOf(j) = [Shown.ifaces[j.i] EXCEPT !.st = "active"]
      /\ BaseFw(j, {}) = Shown.fw
  <2>1. Shown.ifaces[j.i].st = "trashed"
    BY RecParts, RecKnown DEF RecServing
  <2> QED BY <2>1 DEF LastOf, RowOf, BaseFw
<1>3. CASE j.calls = <<"restoreIface", "restorePeers", "load", "reapply">>
  <2>1. Head(j.calls) = "restoreIface" /\ Len(j.calls) = 4 /\ ifaces = Shown.ifaces
        /\ Tail(j.calls) = <<"restorePeers", "load", "reapply">>
    BY <1>1, <1>3 DEF AtRestore
  <2>2. PICK F : RestoreIface(w, F)
    BY <2>1, CallAt DEF RecServing
  <2>3. peers' = peers /\ pfs' = pfs /\ dev' = dev /\ fw' = fw
    BY <2>2 DEF RestoreIface, HostUntouched
  <2>4. CASE Stop(w, "none") /\ ifaces' = ifaces
    <3>1. Busy' = {} /\ RecAside(j) /\ owed' = Shown.owed
      BY <2>3, <2>4, RecStopped, Reports
    <3> QED BY <1>1, <2>1, <2>3, <2>4, <3>1, NothingDone DEF RecGoesOn
  <2>5. CASE GoOn(w, j, "owed") /\ ifaces' = [ifaces EXCEPT ![j.i].st = "active"]
    <3>1. /\ k.verdict = "owed" /\ k.calls = <<"restorePeers", "load", "reapply">>
          /\ RecAt(j, k, ifaces', peers', dev', fw') => RecGoesOn(w)
      <4>1. GoOn(w, jobs[w], "owed") /\ pfs' = pfs /\ Len(jobs[w].calls) # 1
        BY <2>1, <2>3, <2>5
      <4>2. Head(jobs[w].calls) \notin {"savePeer", "insertPf", "savePf", "deletePf"}
        BY <2>1
      <4>3. /\ jobs'[w].verdict = "owed" /\ jobs'[w].calls = Tail(jobs[w].calls)
            /\ RecAt(jobs[w], jobs'[w], ifaces', peers', dev', fw') => RecGoesOn(w)
        BY <4>1, <4>2, RecOnward, Zenon
      <4> QED BY <2>1, <4>3
    <3>2. ifaces' = RowsWith(j, RowOf(j))
      BY <1>2, <2>1, <2>5 DEF RowsWith
    <3> QED BY <1>1, <2>3, <3>1, <3>2 DEF RecAt, AtFirst, AtRestore
  <2>6. InTable(ifaces[j.i])
    BY <1>2, <2>1 DEF InTable
  <2> QED BY <2>2, <2>4, <2>5, <2>6 DEF RestoreIface
<1>4. CASE j.calls = <<"restorePeers", "load", "reapply">>
  <2>1. Head(j.calls) = "restorePeers" /\ Len(j.calls) = 3 /\ ifaces = RowsWith(j, RowOf(j))
        /\ Tail(j.calls) = <<"load", "reapply">> /\ j.verdict = "owed"
    BY <1>1, <1>4 DEF AtRestore
  <2>2. PICK F : MovePeers(w, F)
    BY <2>1, CallAt DEF RecServing
  <2>3. ifaces' = ifaces /\ pfs' = pfs /\ dev' = dev /\ fw' = fw
    BY <2>2 DEF MovePeers, HostUntouched
  <2>4. CASE Stop(w, "owed") /\ peers' = peers
    <3>1. Busy' = {} /\ RecAside(j) /\ owed' = Shown.owed \union {NameOf[j.i]}
      BY <2>3, <2>4, RecStopped, Reports
    <3>2. RestoreCut(j)
      BY <1>1, <2>1, <2>3, <2>4, <3>1 DEF RestoreCut
    <3> QED BY <3>1, <3>2, RestoreLeft, RecParts DEF RecGoesOn
  <2>5. CASE GoOn(w, j, "owed") /\ peers' = BasePeers(j)
    <3>1. /\ k.verdict = "owed" /\ k.calls = <<"load", "reapply">>
          /\ RecAt(j, k, ifaces', peers', dev', fw') => RecGoesOn(w)
      <4>1. GoOn(w, jobs[w], "owed") /\ pfs' = pfs /\ Len(jobs[w].calls) # 1
        BY <2>1, <2>3, <2>5
      <4>2. Head(jobs[w].calls) \notin {"savePeer", "insertPf", "savePf", "deletePf"}
        BY <2>1
      <4>3. /\ jobs'[w].verdict = "owed" /\ jobs'[w].calls = Tail(jobs[w].calls)
            /\ RecAt(jobs[w], jobs'[w], ifaces', peers', dev', fw') => RecGoesOn(w)
        BY <4>1, <4>2, RecOnward, Zenon
      <4> QED BY <2>1, <4>3
    <3>2. AtLoad(j, k, ifaces', dev', fw')
      BY <1>1, <1>2, <2>1, <2>3, <3>1 DEF AtLoad, Left1
    <3> QED BY <2>5, <3>1, <3>2 DEF RecAt
  <2>6. MovePeers(w, F) => \/ Stop(w, "owed") /\ peers' = peers
                           \/ GoOn(w, j, "owed") /\ peers' = BasePeers(j)
    <3> DEFINE under == {p \in Peers : InTable(peers[p]) /\ peers[p].iface = j.i}
    <3>1. At(w, "restorePeers") /\ ~At(w, "trashPeers") /\ ~At(w, "purgePeers")
      BY <2>1, <2>2 DEF At, MovePeers
    <3>2. [p \in Peers |-> IF p \in under THEN [peers[p] EXCEPT !.st = "active"] ELSE peers[p]]
            = BasePeers(j)
      <4>1. \A p \in Peers : peers[p] \in Peer
        BY RecParts
      <4>2. \A p \in Peers : peers[p].st = "active" => [peers[p] EXCEPT !.st = "active"] = peers[p]
        BY <4>1 DEF Peer
      <4> QED BY <1>1, <4>2 DEF BasePeers, InTable
    <3> QED BY <2>1, <2>2, <3>1, <3>2 DEF MovePeers
  <2> QED BY <2>2, <2>4, <2>5, <2>6
<1> QED BY <1>1, <1>3, <1>4 DEF AtRestore

\* The script goes on after a call.
LEMMA RecNext ==
    ASSUME NEW w \in Workers, RecServing(w), NEW v, GoOn(w, jobs[w], v), pfs' = pfs,
           NEW a \in {"insertIface", "restoreIface", "restorePeers", "teardown", "ensure",
                      "configure", "setup", "egress", "rmlink"},
           Head(jobs[w].calls) = a, Len(jobs[w].calls) # 1
    PROVE  /\ NextJob(jobs'[w], jobs[w]) /\ jobs'[w].verdict = v
           /\ jobs'[w].calls = Tail(jobs[w].calls) /\ jobs'[w].kids = jobs[w].kids
           /\ a # "setup" => jobs'[w].row = jobs[w].row
           /\ RecAt(jobs[w], jobs'[w], ifaces', peers', dev', fw') => RecGoesOn(w)
<1>1. Head(jobs[w].calls) \notin {"savePeer", "insertPf", "savePf", "deletePf"}
  OBVIOUS
<1>2. /\ NextJob(jobs'[w], jobs[w]) /\ jobs'[w].verdict = v
      /\ jobs'[w].calls = Tail(jobs[w].calls)
      /\ RecAt(jobs[w], jobs'[w], ifaces', peers', dev', fw') => RecGoesOn(w)
  BY <1>1, RecOnward, Zenon
<1>3. /\ jobs'[w].kids = jobs[w].kids
      /\ a # "setup" => jobs'[w].row = jobs[w].row
  BY <1>2 DEF NextJob
<1> QED BY <1>2, <1>3

\* An update takes the rules of the former row down,
LEMMA UpdateTears ==
    ASSUME NEW w \in Workers, RecServing(w), jobs[w].op = "update",
           jobs[w].calls = <<"teardown", "saveIface", "load">>,
           AtFirst(jobs[w], jobs[w], ifaces, peers, dev, fw)
    PROVE  RecGoesOn(w)
<1> DEFINE j == jobs[w]
           k == jobs'[w]
<1>1. /\ peers = Shown.peers /\ dev = Shown.dev /\ ifaces = Shown.ifaces /\ fw = Shown.fw
      /\ KidsThere(j, peers) /\ j.verdict = "none" /\ j.row = Shown.ifaces[j.i]
  BY DEF AtFirst, AtUpdate, AtRestore
<1>2. /\ Head(j.calls) = "teardown" /\ Len(j.calls) = 3 /\ j.calls[2] = "saveIface"
      /\ Tail(j.calls) = <<"saveIface", "load">>
  OBVIOUS
<1>3. PICK F : Teardown(w, F)
  BY <1>2, CallAt DEF RecServing
<1>4. /\ ifaces' = ifaces /\ peers' = peers /\ pfs' = pfs /\ dev' = dev
      /\ fw' = TeardownNAT(fw, NameOf[j.i], j.row.addr, j.row.egress, wan, F)
      /\ GoOn(w, j, "owed")
  BY <1>1, <1>2, <1>3 DEF Teardown, RowsUntouched
<1>5. /\ k.verdict = "owed" /\ k.calls = <<"saveIface", "load">> /\ k.kids = j.kids
      /\ RecAt(j, k, ifaces', peers', dev', fw') => RecGoesOn(w)
  <2>1. Len(j.calls) # 1
    BY <1>2
  <2>2. /\ k.verdict = "owed" /\ k.calls = Tail(j.calls) /\ k.kids = j.kids
        /\ RecAt(j, k, ifaces', peers', dev', fw') => RecGoesOn(w)
    BY <1>2, <1>4, <2>1, RecNext
  <2> QED BY <1>2, <2>2
<1>6. \E D \in SUBSET NatKinds : fw' = BaseFw(j, D)
  <2>1. fw' = Torn(fw, j.i, j.row, F.del \intersect NatKinds)
    BY <1>4, NatFaults
  <2>2. F.del \intersect NatKinds \in SUBSET NatKinds
    OBVIOUS
  <2> QED BY <1>1, <2>1, <2>2 DEF BaseFw
<1>7. KidsThere(k, peers')
  BY <1>1, <1>4, <1>5 DEF KidsThere
<1>8. AtUpdate(j, k, ifaces', peers', fw')
  BY <1>1, <1>4, <1>5, <1>6, <1>7 DEF AtUpdate
<1> QED BY <1>1, <1>4, <1>5, <1>8 DEF RecAt, AtFirst

\* and writes the row; its peers are all there.
LEMMA UpdateSaves ==
    ASSUME NEW w \in Workers, RecServing(w), jobs[w].op = "update",
           jobs[w].calls = <<"saveIface", "load">>,
           AtFirst(jobs[w], jobs[w], ifaces, peers, dev, fw)
    PROVE  RecGoesOn(w)
<1> DEFINE j == jobs[w]
           k == jobs'[w]
<1>1. /\ peers = Shown.peers /\ dev = Shown.dev /\ ifaces = Shown.ifaces
      /\ KidsThere(j, peers) /\ \E D \in SUBSET NatKinds : fw = BaseFw(j, D)
  BY DEF AtFirst, AtUpdate, AtRestore
<1>2. /\ Head(j.calls) = "saveIface" /\ Len(j.calls) = 2
  OBVIOUS
<1>3. PICK F : SaveIface(w, F)
  BY <1>2, CallAt DEF RecServing
<1>4. pfs' = pfs /\ dev' = dev /\ fw' = fw
  BY <1>3 DEF SaveIface, HostUntouched
<1>5. /\ Active(j.i) /\ RowOf(j) = j.new /\ BasePeers(j) = Shown.peers
      /\ LastOf(j) = IF j.new.on THEN "reapply" ELSE "unapply"
  <2>1. Shown.ifaces[j.i].st = "active"
    BY RecParts, RecKnown DEF RecServing
  <2> QED BY <1>1, <2>1 DEF Active, RowOf, BasePeers, LastOf
<1>6. Gone(j.kids) = {} /\ WithKids(j.kids) = peers
  <2>1. Gone(j.kids) = {}
    BY <1>1 DEF Gone, KidsThere
  <2> QED BY <2>1, RecParts DEF WithKids
<1>7. CASE Stop(w, "owed") /\ ifaces' = ifaces /\ peers' = peers
  <2>1. Busy' = {} /\ RecAside(j) /\ owed' = Shown.owed \union {NameOf[j.i]}
    BY <1>4, <1>7, RecStopped, Reports
  <2>2. \E D : UpdateCut(j, D)
    BY <1>1, <1>4, <1>7, <2>1 DEF UpdateCut, RecAside
  <2> QED BY <2>1, <2>2, UpdateLeft, RecParts DEF RecGoesOn
<1>8. CASE /\ GoOn(w, [j EXCEPT !.calls = @ \o <<LastOf(j)>>], "owed")
           /\ ifaces' = [ifaces EXCEPT ![j.i] = j.new] /\ peers' = WithKids(j.kids)
  <2> DEFINE last == LastOf(j)
             x == [j EXCEPT !.calls = @ \o <<last>>]
  <2>1. last # "none"
    BY <1>5
  <2>2. /\ x.calls = <<"saveIface", "load", last>> /\ Len(x.calls) # 1
        /\ Tail(x.calls) = Left1("load", last) /\ {"calls", "verdict"} \subseteq DOMAIN x
    <3>1. x.calls = <<"saveIface", "load">> \o <<last>> /\ {"calls", "verdict"} \subseteq DOMAIN x
      BY RecParts
    <3>2. <<"saveIface", "load">> \o <<last>> = <<"saveIface", "load", last>>
      BY Joined
    <3>3. x.calls = <<"saveIface", "load", last>>
      BY <3>1, <3>2, Zenon
    <3>4. /\ Len(<<"saveIface", "load", last>>) # 1
          /\ Tail(<<"saveIface", "load", last>>) = <<"load", last>>
      BY Short
    <3>5. Left1("load", last) = <<"load", last>>
      BY <2>1 DEF Left1
    <3> HIDE DEF x
    <3> QED BY <3>1, <3>3, <3>4, <3>5
  <2> HIDE DEF x, last
  <2>3. GoOn(w, x, "owed")
    BY <1>8 DEF x, last
  <2>4. /\ k.verdict = "owed" /\ k.calls = Left1("load", last)
        /\ RecAt(j, k, ifaces', peers', dev', fw') => RecGoesOn(w)
    <3>1. Head(j.calls) \notin {"savePeer", "insertPf", "savePf", "deletePf"}
      BY <1>2
    <3>2. /\ k.verdict = "owed" /\ k.calls = Tail(x.calls)
          /\ RecAt(j, k, ifaces', peers', dev', fw') => RecGoesOn(w)
      BY <1>4, <2>2, <2>3, <3>1, RecSteps, Zenon
    <3> QED BY <2>2, <3>2
  <2>5. AtLoad(j, k, ifaces', dev', fw')
    BY <1>1, <1>4, <1>5, <1>8, <2>4 DEF AtLoad, RowsWith, last
  <2> QED BY <1>1, <1>5, <1>6, <1>8, <2>4, <2>5 DEF RecAt
<1>9. \/ Stop(w, "owed") /\ ifaces' = ifaces /\ peers' = peers
      \/ /\ GoOn(w, [j EXCEPT !.calls = @ \o <<LastOf(j)>>], "owed")
         /\ ifaces' = [ifaces EXCEPT ![j.i] = j.new] /\ peers' = WithKids(j.kids)
  <2>1. Upsert(j.new, Active(j.i)) = j.new
    BY <1>5 DEF Upsert
  <2> QED BY <1>3, <1>5, <2>1 DEF SaveIface
<1> QED BY <1>7, <1>8, <1>9

\* The tables the interface is applied under.
RecTables(j, tp) ==
    /\ RowOf(j).st = "active" /\ tp = BasePeers(j)
    /\ j.op = "create" => NameFree(j)

\* A reconcile that fails ends the request.
LEMMA RecGivesUp ==
    ASSUME NEW w \in Workers, RecServing(w), Stop(w, "owed"), pfs' = pfs,
           RecTables(jobs[w], peers'), ifaces' = RowsWith(jobs[w], RowOf(jobs[w])),
           NEW D \in SUBSET NatKinds, NEW E \in SUBSET NatKinds, NEW F, NEW d,
           dev' = DevWith(jobs[w], d),
           Failed(jobs[w].i, RowOf(jobs[w]), ServedOf(jobs[w]), BaseFw(jobs[w], D), F, E, d, fw')
    PROVE  RecGoesOn(w)
<1> DEFINE j == jobs[w]
<1>1. /\ Busy' = {} /\ RecAside(j) /\ owed' = OwedBy(Shown.owed, NameOf[j.i], "owed")
  BY RecStopped
<1>2. RecOver(j)
  BY <1>1 DEF RecOver, RecTables, RecServing, RecStage
<1>3. /\ AnyFault /\ ShownHoused /\ ShownTyped /\ j.op \in RecOps /\ j.i \in Ifaces /\ Carries(j)
      /\ Asked(j, Shown.ifaces, Shown.peers, Shown.pfs, wan)
  BY RecParts DEF RecServing
<1>4. Panel!Next
  BY <1>1, <1>2, <1>3, FailsOver
<1> QED BY <1>1, <1>4 DEF RecGoesOn

\* One that works is followed by the cascade, if there is one.
LEMMA RecSettles ==
    ASSUME NEW w \in Workers, RecServing(w), GoOn(w, jobs[w], "settled"), pfs' = pfs,
           NEW a \in {"configure", "setup", "teardown", "egress", "rmlink"},
           jobs[w].calls = Left1(a, LastOf(jobs[w])), RecTables(jobs[w], peers'),
           NEW D \in SUBSET NatKinds, NEW E \in SUBSET NatKinds, NEW d, NEW kept,
           WorkedOf(jobs[w], D, E, d, fw', kept),
           ifaces' = RowsWith(jobs[w], kept), dev' = DevWith(jobs[w], d)
    PROVE  RecGoesOn(w)
<1> DEFINE j == jobs[w]
           k == jobs'[w]
           last == LastOf(j)
<1>1. /\ Head(j.calls) = a /\ Tail(j.calls) = Left0(last)
      /\ Len(j.calls) = 1 <=> last = "none"
  BY LeftOne
<1>2. CASE last = "none"
  <2>1. Head(j.calls) \notin {"savePeer", "insertPf", "savePf", "deletePf"}
    BY <1>1
  <2>2. /\ Busy' = {} /\ RecAside(j) /\ owed' = OwedBy(Shown.owed, NameOf[j.i], "settled")
    BY <1>1, <1>2, <2>1, RecOnward, Zenon
  <2>3. RecOver(j)
    BY <2>2 DEF RecOver, RecTables, RecServing, RecStage
  <2>4. /\ AnyFault /\ ShownHoused /\ ShownTyped /\ j.op \in RecOps /\ j.i \in Ifaces /\ Carries(j)
        /\ Asked(j, Shown.ifaces, Shown.peers, Shown.pfs, wan)
    BY RecParts DEF RecServing
  <2>5. fw' = After(LastOf(j), j.i, fw', {}) /\ {} \in SUBSET PfKinds
    BY <1>2 DEF After
  <2>6. Panel!Next
    BY <2>2, <2>3, <2>4, <2>5, WorksOver
  <2> QED BY <2>2, <2>6 DEF RecGoesOn
<1>3. CASE last # "none"
  <2>1. /\ k.verdict = "settled" /\ k.calls = Left0(last)
        /\ RecAt(j, k, ifaces', peers', dev', fw') => RecGoesOn(w)
    BY <1>1, <1>3, RecNext
  <2>2. k.calls = <<last>>
    BY <1>3, <2>1, LeftNone
  <2>3. AtLast(j, k, ifaces', dev', fw')
    BY <1>3, <2>1, <2>2 DEF AtLast, RecTables
  <2> QED BY <2>1, <2>3 DEF RecAt, RecTables
<1> QED BY <1>2, <1>3

\* The row is read with its peers, and reconcile goes on with what it says.
LEMMA RecLoads ==
    ASSUME NEW w \in Workers, RecServing(w), AtLoad(jobs[w], jobs[w], ifaces, dev, fw),
           peers = BasePeers(jobs[w]), jobs[w].op = "create" => NameFree(jobs[w])
    PROVE  RecGoesOn(w)
<1> DEFINE j == jobs[w]
           k == jobs'[w]
           last == LastOf(j)
           row == RowOf(j)
<1>1. /\ j.calls = Left1("load", last) /\ ifaces = RowsWith(j, row) /\ dev = Shown.dev
      /\ j.verdict = IF j.op \in {"create", "update", "restore"}
                        \/ (j.op = "boot" /\ Shown.ifaces[j.i].st = "active")
                     THEN "owed" ELSE "none"
  BY DEF AtLoad
<1>2. PICK D \in SUBSET NatKinds : fw = BaseFw(j, D)
  BY DEF AtLoad
<1>3. Head(j.calls) = "load" /\ Tail(j.calls) = Left0(last)
  BY <1>1, LeftOne
<1>4. PICK F : Load(w, F)
  BY <1>3, CallAt DEF RecServing
<1>5. ifaces' = ifaces /\ peers' = peers /\ pfs' = pfs /\ dev' = dev /\ fw' = fw
  BY <1>4 DEF Load, HostUntouched, RowsUntouched
<1>6. /\ j.op \in RecOps /\ j.i \in Ifaces /\ AnyFault
      /\ row \in Iface /\ ifaces[j.i] = row /\ DevWith(j, Found0(j.i)) = Shown.dev
      /\ j.op \in {"create", "update", "restore", "sync"} => row.st = "active"
      /\ j.op \in {"sync", "boot"} => row = Shown.ifaces[j.i] /\ ifaces = Shown.ifaces
  <2>1. /\ j.op \in RecOps /\ j.i \in Ifaces /\ AnyFault
        /\ row \in Iface /\ DevWith(j, Found0(j.i)) = Shown.dev
        /\ j.op \in {"create", "update", "restore", "sync"} => row.st = "active"
        /\ j.op \in {"sync", "boot"} => row = Shown.ifaces[j.i] /\ RowsWith(j, row) = Shown.ifaces
    BY RecParts, RecKnown DEF RecServing
  <2>2. Shown.ifaces \in [Ifaces -> Iface]
    BY RecParts DEF ShownTyped
  <2>3. ifaces[j.i] = row
    BY <1>1, <2>1, <2>2 DEF RowsWith
  <2> QED BY <1>1, <2>1, <2>3
<1> HIDE DEF row
<1>7. Active(j.i) <=> row.st = "active"
  BY <1>6 DEF Active
<1>8. CASE Stop(w, Pending(j.i))
  <2>1. CASE row.st = "active"
    <3>1. Stop(w, "owed") /\ RecTables(j, peers') /\ ifaces' = RowsWith(j, row)
          /\ dev' = DevWith(j, Found0(j.i))
      BY <1>1, <1>5, <1>6, <1>7, <1>8, <2>1 DEF Pending, RecTables, row
    <3>2. Failed(j.i, row, ServedOf(j), BaseFw(j, D), Plain, D, Found0(j.i), fw')
      BY <1>2, <1>5 DEF Failed
    <3> QED BY <1>5, <3>1, <3>2, RecGivesUp DEF row
  <2>2. CASE row.st # "active"
    <3>1. j.op = "boot" /\ row = Shown.ifaces[j.i] /\ ifaces = Shown.ifaces
      BY <1>6, <2>2 DEF RecOps
    <3>2. Stop(w, "none")
      BY <1>7, <1>8, <2>2 DEF Pending
    <3>3. Busy' = {} /\ RecAside(j) /\ owed' = Shown.owed
      BY <1>5, <3>2, RecStopped, Reports
    <3>4. peers' = Shown.peers /\ fw' = Shown.fw
      BY <1>2, <1>5, <3>1 DEF BasePeers, BaseFw
    <3>5. j.i \in Shown.todo
      BY <3>1 DEF RecServing, RecStage
    <3>6. Panel!Next
      BY <1>1, <1>5, <1>6, <2>2, <3>1, <3>3, <3>4, <3>5, BootIdle
    <3> QED BY <3>3, <3>6 DEF RecGoesOn
  <2> QED BY <2>1, <2>2
<1>9. CASE /\ Active(j.i)
           /\ GoOn(w, [j EXCEPT !.row = ifaces[j.i], !.kids = Kids(j.i),
                                !.calls = <<"load">> \o Applying(ifaces[j.i]) \o Tail(@)], "owed")
  <2> DEFINE x == [j EXCEPT !.row = ifaces[j.i], !.kids = Kids(j.i),
                            !.calls = <<"load">> \o Applying(ifaces[j.i]) \o Tail(@)]
             rest == IF row.on THEN Left3("ensure", "configure", NatCall(j), last)
                               ELSE Left2("teardown", "rmlink", last)
  <2>1. /\ {"calls", "verdict"} \subseteq DOMAIN x
        /\ x.calls = <<"load">> \o Applying(row) \o Left0(last)
    <3>1. /\ x.calls = <<"load">> \o Applying(ifaces[j.i]) \o Tail(j.calls)
          /\ {"calls", "verdict"} \subseteq DOMAIN x
      BY RecParts
    <3> HIDE DEF x
    <3> QED BY <1>3, <1>6, <3>1
  <2> HIDE DEF x
  <2>2. Len(x.calls) # 1 /\ Tail(x.calls) = rest
    <3>1. CASE row.on
      <4>1. Applying(row) = <<"ensure", "configure", NatCall(j)>>
        BY <3>1 DEF Applying, NatCall, row
      <4>2. x.calls = <<"load">> \o <<"ensure", "configure", NatCall(j)>> \o Left0(last)
        BY <2>1, <4>1
      <4> QED BY <3>1, <4>2, LeftReplaced
    <3>2. CASE ~row.on
      <4>1. Applying(row) = <<"teardown", "rmlink">>
        BY <3>2 DEF Applying
      <4>2. x.calls = <<"load">> \o <<"teardown", "rmlink">> \o Left0(last)
        BY <2>1, <4>1
      <4> QED BY <3>2, <4>2, LeftReplaced
    <3> QED BY <3>1, <3>2
  <2> HIDE DEF last, rest
  <2>3. GoOn(w, x, "owed")
    BY <1>9 DEF x
  <2>4. /\ NextJob(k, j) /\ k.verdict = "owed" /\ k.calls = rest
        /\ RecAt(j, k, ifaces', peers', dev', fw') => RecGoesOn(w)
    <3>1. Head(j.calls) \notin {"savePeer", "insertPf", "savePf", "deletePf"}
      BY <1>3
    <3>2. /\ NextJob(k, j) /\ k.verdict = "owed" /\ k.calls = Tail(x.calls)
          /\ RecAt(j, k, ifaces', peers', dev', fw') => RecGoesOn(w)
      BY <1>5, <2>1, <2>2, <2>3, <3>1, RecSteps, Zenon
    <3> QED BY <2>2, <3>2
  <2>5. k.row = row /\ k.kids = Kids(j.i)
    BY <1>3, <1>6, <2>4 DEF NextJob
  <2>6. KidsThere(k, peers') /\ {p \in DOMAIN k.kids : k.kids[p].on} = ServedOf(j)
    BY <1>5, <2>5 DEF KidsThere, Kids, ServedOf, Panel!Served
  <2>7. IF row.on THEN AtEnsure(j, k, dev', fw', D) ELSE AtTeardown(j, k, dev', fw', D)
    BY <1>1, <1>2, <1>5, <2>4, <2>5 DEF AtEnsure, AtTeardown, row, rest, last
  <2>8. AtHost(j, k, ifaces', peers', dev', fw')
    BY <1>1, <1>5, <1>7, <1>9, <2>6, <2>7 DEF AtHost, row
  <2> QED BY <1>5, <2>4, <2>8 DEF RecAt
<1> QED BY <1>4, <1>8, <1>9 DEF Load

\* The device of the interface, read and written.
LEMMA DevParts ==
    ASSUME ShownTyped, NEW j, NameOf[j.i] \in Names
    PROVE  \A d : /\ DevWith(j, d)[NameOf[j.i]] = d
                  /\ \A e : [DevWith(j, d) EXCEPT ![NameOf[j.i]] = e] = DevWith(j, e)
  BY DEF ShownTyped, DevWith

\* What a call on the host starts from.
RecOnHost(j) ==
    /\ RecTables(j, peers) /\ ifaces = RowsWith(j, RowOf(j)) /\ KidsThere(j, peers)
    /\ {p \in DOMAIN j.kids : j.kids[p].on} = ServedOf(j)

\* What a request that is at work on the host starts from.
LEMMA HostParts ==
    ASSUME NEW w \in Workers, RecServing(w), RecOnHost(jobs[w])
    PROVE  /\ jobs[w].op \in RecOps /\ jobs[w].i \in Ifaces /\ NameOf[jobs[w].i] \in Names
           /\ RowOf(jobs[w]) \in Iface /\ ifaces[jobs[w].i] = RowOf(jobs[w])
           /\ DevWith(jobs[w], Found0(jobs[w].i)) = Shown.dev
           /\ LastOf(jobs[w]) \in Lasts
           /\ Gone(jobs[w].kids) = {} /\ WithKids(jobs[w].kids) = peers
<1> DEFINE j == jobs[w]
<1>1. /\ j.op \in RecOps /\ j.i \in Ifaces /\ NameOf[j.i] \in Names
      /\ RowOf(j) \in Iface /\ LastOf(j) \in Lasts
      /\ DevWith(j, Found0(j.i)) = Shown.dev
  BY RecParts, RecKnown DEF RecServing
<1>2. ifaces[j.i] = RowOf(j)
  <2>1. Shown.ifaces \in [Ifaces -> Iface]
    BY RecParts DEF ShownTyped
  <2> QED BY <1>1, <2>1 DEF RecOnHost, RowsWith
<1>3. Gone(j.kids) = {}
  BY DEF Gone, KidsThere, RecOnHost
<1>4. WithKids(j.kids) = peers
  BY <1>3, RecParts DEF WithKids
<1> QED BY <1>1, <1>2, <1>3, <1>4

\* After it the tables are the same.
LEMMA HostStays ==
    ASSUME NEW w \in Workers, RecOnHost(jobs[w]), RowsUntouched, NEW k, k.kids = jobs[w].kids
    PROVE  /\ RecTables(jobs[w], peers') /\ ifaces' = RowsWith(jobs[w], RowOf(jobs[w]))
           /\ pfs' = pfs /\ KidsThere(k, peers')
           /\ {p \in DOMAIN k.kids : k.kids[p].on} = ServedOf(jobs[w])
  BY DEF RecOnHost, RecTables, KidsThere, RowsUntouched

\* The link is there,
LEMMA RecEnsures ==
    ASSUME NEW w \in Workers, RecServing(w), RecOnHost(jobs[w]), NEW D \in SUBSET NatKinds,
           AtEnsure(jobs[w], jobs[w], dev, fw, D)
    PROVE  RecGoesOn(w)
<1> DEFINE j == jobs[w]
           k == jobs'[w]
           row == RowOf(j)
           last == LastOf(j)
<1>1. /\ row.on /\ j.calls = Left3("ensure", "configure", NatCall(j), last)
      /\ j.row = row /\ j.verdict = "owed" /\ dev = Shown.dev /\ fw = BaseFw(j, D)
  BY DEF AtEnsure
<1>2. /\ Head(j.calls) = "ensure" /\ Tail(j.calls) = Left2("configure", NatCall(j), last)
      /\ Len(j.calls) # 1
  BY <1>1, LeftThree
<1>3. PICK F : Ensure(w, F)
  BY <1>2, CallAt DEF RecServing
<1>4. /\ RowsUntouched /\ pfs' = pfs /\ fw' = fw
      /\ dev' = DevWith(j, EnsureLink(Found0(j.i), row.addr, F))
      /\ IF LinkOK(Found0(j.i), F) THEN GoOn(w, j, "owed") ELSE Stop(w, "owed")
  <2>1. dev[NameOf[j.i]] = Found0(j.i)
    BY <1>1 DEF Found0
  <2>2. /\ RowsUntouched /\ fw' = fw /\ DevOf(j) = Found0(j.i)
        /\ SetDev(j, EnsureLink(Found0(j.i), row.addr, F))
        /\ IF LinkOK(Found0(j.i), F) THEN GoOn(w, j, "owed") ELSE Stop(w, "owed")
    BY <1>1, <1>3, <2>1 DEF Ensure, DevOf
  <2> QED BY <1>1, <2>2 DEF SetDev, DevWith, RowsUntouched
<1>5. CASE ~LinkOK(Found0(j.i), F)
  <2>1. Failed(j.i, row, ServedOf(j), BaseFw(j, D), F, D,
               EnsureLink(Found0(j.i), row.addr, F), fw')
    BY <1>1, <1>4, <1>5 DEF Failed
  <2>2. RecTables(j, peers') /\ ifaces' = RowsWith(j, row)
    BY <1>4, HostStays
  <2> QED BY <1>4, <1>5, <2>1, <2>2, RecGivesUp
<1>6. CASE LinkOK(Found0(j.i), F)
  <2>1. dev' = DevEnsured(j)
    <3>1. EnsureLink(Found0(j.i), row.addr, F) = Ensured(j.i, row)
      BY <1>6, AllThere DEF Ensured
    <3> QED BY <1>4, <3>1 DEF DevEnsured
  <2>2. GoOn(w, j, "owed")
    BY <1>4, <1>6
  <2>3. /\ k.verdict = "owed" /\ k.calls = Tail(j.calls) /\ k.kids = j.kids /\ k.row = j.row
        /\ RecAt(j, k, ifaces', peers', dev', fw') => RecGoesOn(w)
    BY <1>2, <1>4, <2>2, RecNext
  <2>4. AtConfigure(j, k, dev', fw', D)
    BY <1>1, <1>2, <1>4, <2>1, <2>3 DEF AtConfigure
  <2>5. AtHost(j, k, ifaces', peers', dev', fw') /\ RecTables(j, peers')
    BY <1>4, <2>3, <2>4, HostStays DEF AtHost, RecTables
  <2> QED BY <2>3, <2>5 DEF RecAt, RecTables
<1> QED BY <1>5, <1>6

\* then configured,
LEMMA RecConfigures ==
    ASSUME NEW w \in Workers, RecServing(w), RecOnHost(jobs[w]), NEW D \in SUBSET NatKinds,
           AtConfigure(jobs[w], jobs[w], dev, fw, D)
    PROVE  RecGoesOn(w)
<1> DEFINE j == jobs[w]
           k == jobs'[w]
           row == RowOf(j)
           last == LastOf(j)
<1>1. /\ row.on /\ j.calls = Left2("configure", NatCall(j), last)
      /\ j.row = row /\ j.verdict = "owed" /\ dev = DevEnsured(j) /\ fw = BaseFw(j, D)
  BY DEF AtConfigure
<1>2. /\ Head(j.calls) = "configure" /\ Tail(j.calls) = Left1(NatCall(j), last)
      /\ Len(j.calls) # 1
  BY <1>1, LeftTwo
<1>3. PICK F : Configure(w, F)
  BY <1>2, CallAt DEF RecServing
<1>4. RowsUntouched /\ pfs' = pfs /\ fw' = fw
  BY <1>3 DEF Configure, RowsUntouched
<1>5. DevOf(j) = Ensured(j.i, row)
  BY <1>1, HostParts, RecParts, DevParts DEF DevOf, DevEnsured
<1>6. CASE Stop(w, "owed") /\ dev' = dev
  <2>1. /\ Failed(j.i, row, ServedOf(j), BaseFw(j, D), Plain, D, Ensured(j.i, row), fw')
        /\ dev' = DevWith(j, Ensured(j.i, row))
    BY <1>1, <1>4, <1>6 DEF Failed, DevEnsured
  <2>2. RecTables(j, peers') /\ ifaces' = RowsWith(j, row)
    BY <1>4, HostStays
  <2> QED BY <1>4, <1>6, <2>1, <2>2, RecGivesUp
<1>7. CASE /\ SetDev(j, ConfigureDevice(DevOf(j), <<j.i, j.row.port>>,
                                        {p \in DOMAIN j.kids : j.kids[p].on}))
           /\ GoOn(w, j, IF j.row.masq THEN "owed" ELSE "settled")
  <2>1. dev' = DevConfigured(j)
    <3> DEFINE S == {p \in DOMAIN j.kids : j.kids[p].on}
               d == Ensured(j.i, row)
               e == ConfigureDevice(d, <<j.i, row.port>>, ServedOf(j))
    <3>1. S = ServedOf(j)
      BY DEF RecOnHost
    <3>2. e = Configured1(j.i, row, ServedOf(j))
      BY DEF Configured1
    <3> HIDE DEF S, d
    <3>3. ConfigureDevice(DevOf(j), <<j.i, j.row.port>>, S) = e
      BY <1>1, <1>5, <3>1 DEF d
    <3> HIDE DEF e
    <3>4. dev' = [DevWith(j, d) EXCEPT ![NameOf[j.i]] = e]
      BY <1>1, <1>7, <3>3 DEF SetDev, DevEnsured, S, d
    <3>5. [DevWith(j, d) EXCEPT ![NameOf[j.i]] = e] = DevWith(j, e)
      BY HostParts, RecParts, DevParts
    <3> QED BY <3>2, <3>4, <3>5 DEF DevConfigured
  <2>2. /\ k.verdict = (IF j.row.masq THEN "owed" ELSE "settled")
        /\ k.calls = Tail(j.calls) /\ k.kids = j.kids /\ k.row = j.row
        /\ RecAt(j, k, ifaces', peers', dev', fw') => RecGoesOn(w)
    BY <1>2, <1>4, <1>7, RecNext
  <2>3. AtNat(j, k, dev', fw', D)
    BY <1>1, <1>2, <1>4, <2>1, <2>2 DEF AtNat
  <2>4. AtHost(j, k, ifaces', peers', dev', fw') /\ RecTables(j, peers')
    BY <1>4, <2>2, <2>3, HostStays DEF AtHost, RecTables, RecOnHost
  <2> QED BY <2>2, <2>4 DEF RecAt, RecTables
<1> QED BY <1>3, <1>6, <1>7 DEF Configure

\* What a call makes of its job.
LEMMA JobAfter ==
    ASSUME NEW w \in Workers, RecServing(w), NEW x, {"row", "kids"} \subseteq DOMAIN x,
           Len(x.calls) # 1, NEW v, GoOn(w, x, v)
    PROVE  jobs'[w].row = x.row /\ jobs'[w].kids = x.kids
<1>1. jobs \in [Workers -> Job \union {NoJob}]
  BY WorkParts DEF RecServing, Serving
<1>2. jobs'[w] = [x EXCEPT !.calls = Tail(@), !.verdict = v]
  BY <1>1 DEF GoOn
<1> QED BY <1>2

\* then its NAT rules go in,
LEMMA RecSetsUp ==
    ASSUME NEW w \in Workers, RecServing(w), RecOnHost(jobs[w]), NEW D \in SUBSET NatKinds,
           AtNat(jobs[w], jobs[w], dev, fw, D), RowOf(jobs[w]).masq
    PROVE  RecGoesOn(w)
<1> DEFINE j == jobs[w]
           k == jobs'[w]
           row == RowOf(j)
           last == LastOf(j)
           n == NameOf[j.i]
<1>1. /\ row.on /\ row.masq /\ j.calls = Left1("setup", last) /\ j.row = row
      /\ dev = DevConfigured(j) /\ fw = BaseFw(j, D)
  BY DEF AtNat, NatCall
<1>2. /\ Head(j.calls) = "setup" /\ Tail(j.calls) = Left0(last)
  BY <1>1, LeftOne
<1>3. PICK F : Setup(w, F)
  BY <1>2, CallAt DEF RecServing
<1>4. /\ RowsUntouched /\ pfs' = pfs /\ dev' = dev
      /\ fw' = SetupNAT(BaseFw(j, D), n, row.addr, row.egress, wan, F)
  BY <1>1, <1>3 DEF Setup, RowsUntouched
<1>5. RecTables(j, peers') /\ ifaces' = RowsWith(j, row)
  BY <1>4, HostStays
<1>6. CASE ~SetupNATOK(n, row.addr, row.egress, wan, F)
  <2>1. Stop(w, "owed")
    BY <1>1, <1>3, <1>6 DEF Setup
  <2>2. dev' = DevWith(j, Configured1(j.i, row, ServedOf(j)))
    BY <1>1, <1>4 DEF DevConfigured
  <2>3. Failed(j.i, row, ServedOf(j), BaseFw(j, D), F, D, Configured1(j.i, row, ServedOf(j)), fw')
    BY <1>1, <1>4, <1>6 DEF Failed
  <2> QED BY <1>4, <1>5, <2>1, <2>2, <2>3, RecGivesUp
<1>7. CASE SetupNATOK(n, row.addr, row.egress, wan, F)
  <2>1. fw' = FwMasked(j, D)
    BY <1>4, <1>7, AllThere DEF FwMasked, Masked
  <2>2. Egress(row.egress, wan) # NoLink
    BY <1>7 DEF SetupNATOK
  <2>3. CASE row.egress = NoLink
    <3> DEFINE x == [j EXCEPT !.row.egress = wan, !.calls = <<"setup", "egress">> \o Tail(@)]
    <3>1. GoOn(w, x, "owed")
      BY <1>1, <1>3, <1>7, <2>3 DEF Setup
    <3>2. /\ {"calls", "verdict"} \subseteq DOMAIN x /\ {"row", "kids"} \subseteq DOMAIN x
          /\ x.calls = <<"setup", "egress">> \o Left0(last)
          /\ x.row = [row EXCEPT !.egress = wan] /\ x.kids = j.kids
      <4>1. j \in Job
        BY RecParts
      <4>2. /\ {"calls", "verdict"} \subseteq DOMAIN x /\ {"row", "kids"} \subseteq DOMAIN x
            /\ x.row = [j.row EXCEPT !.egress = wan]
            /\ x.calls = <<"setup", "egress">> \o Tail(j.calls) /\ x.kids = j.kids
        BY <4>1 DEF Job
      <4> HIDE DEF x
      <4> QED BY <1>1, <1>2, <4>2
    <3> HIDE DEF x
    <3>3. Len(x.calls) # 1 /\ Tail(x.calls) = Left1("egress", last)
      BY <3>2, LeftReplaced
    <3>4. k.row = x.row /\ k.kids = x.kids
      BY <3>1, <3>2, <3>3, JobAfter
    <3>5. /\ k.verdict = "owed" /\ k.calls = Tail(x.calls)
          /\ RecAt(j, k, ifaces', peers', dev', fw') => RecGoesOn(w)
      <4>1. Head(j.calls) \notin {"savePeer", "insertPf", "savePf", "deletePf"}
        BY <1>2
      <4>2. {"calls", "verdict"} \subseteq DOMAIN x /\ Len(x.calls) # 1 /\ pfs' = pfs
        BY <1>4, <3>2, <3>3
      <4> QED BY <3>1, <4>1, <4>2, RecSteps, Zenon
    <3>6. wan # NoLink
      BY <2>2, <2>3 DEF Egress
    <3>7. AtEgress(j, k, dev', fw', D)
      BY <1>1, <1>4, <2>1, <2>3, <3>2, <3>3, <3>4, <3>5, <3>6 DEF AtEgress
    <3>8. AtHost(j, k, ifaces', peers', dev', fw')
      BY <1>4, <1>5, <3>2, <3>4, <3>7, HostStays DEF AtHost, RecTables
    <3> QED BY <1>5, <3>5, <3>8 DEF RecAt, RecTables
  <2>4. CASE row.egress # NoLink
    <3>1. GoOn(w, j, "settled")
      BY <1>1, <1>3, <1>7, <2>4 DEF Setup
    <3>2. row = [row EXCEPT !.egress = Egress(row.egress, wan)]
      BY <2>4, HostParts DEF Egress, Iface
    <3>3. WorkedOf(j, D, D, Configured1(j.i, row, ServedOf(j)), fw', row)
      <4> HIDE DEF row
      <4> QED BY <1>1, <2>1, <2>2, <3>2 DEF WorkedOf, Worked, FwMasked, row
    <3>4. dev' = DevWith(j, Configured1(j.i, row, ServedOf(j)))
      BY <1>1, <1>4 DEF DevConfigured
    <3> QED BY <1>1, <1>4, <1>5, <3>1, <3>3, <3>4, RecSettles
  <2> QED BY <2>3, <2>4
<1> QED BY <1>6, <1>7

\* or, of an interface that does not masquerade, out.
LEMMA RecUnmasks ==
    ASSUME NEW w \in Workers, RecServing(w), RecOnHost(jobs[w]), NEW D \in SUBSET NatKinds,
           AtNat(jobs[w], jobs[w], dev, fw, D), ~RowOf(jobs[w]).masq
    PROVE  RecGoesOn(w)
<1> DEFINE j == jobs[w]
           row == RowOf(j)
           last == LastOf(j)
<1>1. /\ row.on /\ ~row.masq /\ j.calls = Left1("teardown", last) /\ j.row = row
      /\ dev = DevConfigured(j) /\ fw = BaseFw(j, D) /\ j.verdict = "settled"
  BY DEF AtNat, NatCall
<1>2. Head(j.calls) = "teardown" /\ ~(Len(j.calls) > 1 /\ j.calls[2] = "rmlink")
  <2>1. CASE last = "none"
    BY <1>1, <2>1 DEF Left1
  <2>2. CASE last # "none"
    <3>1. last # "rmlink"
      BY HostParts DEF Lasts
    <3>2. j.calls = <<"teardown", last>>
      BY <1>1, <2>2 DEF Left1
    <3> HIDE DEF last
    <3> QED BY <3>1, <3>2
  <2> QED BY <2>1, <2>2
<1>3. PICK F : Teardown(w, F)
  BY <1>2, CallAt DEF RecServing
<1>4. /\ RowsUntouched /\ pfs' = pfs /\ dev' = dev /\ GoOn(w, j, "settled")
      /\ fw' = TeardownNAT(BaseFw(j, D), NameOf[j.i], row.addr, row.egress, wan, F)
  BY <1>1, <1>2, <1>3 DEF Teardown, RowsUntouched
<1>5. RecTables(j, peers') /\ ifaces' = RowsWith(j, row)
  BY <1>4, HostStays
<1> DEFINE E == F.del \intersect NatKinds
<1>6. fw' = Torn(BaseFw(j, D), j.i, row, E) /\ E \in SUBSET NatKinds
  BY <1>4, NatFaults
<1> HIDE DEF E
<1>7. WorkedOf(j, D, E, Configured1(j.i, row, ServedOf(j)), fw', row)
  BY <1>1, <1>6 DEF WorkedOf, Worked
<1>8. dev' = DevWith(j, Configured1(j.i, row, ServedOf(j)))
  BY <1>1, <1>4 DEF DevConfigured
<1> QED BY <1>1, <1>4, <1>5, <1>6, <1>7, <1>8, RecSettles

\* The egress that was detected is stored.
LEMMA RecStoresEgress ==
    ASSUME NEW w \in Workers, RecServing(w), RecOnHost(jobs[w]), NEW D \in SUBSET NatKinds,
           AtEgress(jobs[w], jobs[w], dev, fw, D)
    PROVE  RecGoesOn(w)
<1> DEFINE j == jobs[w]
           row == RowOf(j)
           last == LastOf(j)
           kept == [row EXCEPT !.egress = wan]
           d == Configured1(j.i, row, ServedOf(j))
<1>1. /\ row.on /\ row.masq /\ row.egress = NoLink /\ wan # NoLink
      /\ j.calls = Left1("egress", last) /\ j.row = kept
      /\ dev = DevWith(j, d) /\ fw = Masked(BaseFw(j, D), j.i, row)
  BY DEF AtEgress, DevConfigured, FwMasked
<1>2. Head(j.calls) = "egress"
  BY <1>1, LeftOne
<1>3. PICK F : StoreEgress(w, F)
  BY <1>2, CallAt DEF RecServing
<1>4. pfs' = pfs /\ dev' = dev /\ fw' = fw
  BY <1>3 DEF StoreEgress, HostUntouched
<1>5. CASE Stop(w, "owed") /\ ifaces' = ifaces /\ peers' = peers
  <2>1. Failed(j.i, row, ServedOf(j), BaseFw(j, D), Plain, D, d, fw')
    BY <1>1, <1>4 DEF Failed
  <2>2. RecTables(j, peers') /\ ifaces' = RowsWith(j, row) /\ dev' = DevWith(j, d)
    BY <1>1, <1>4, <1>5 DEF RecOnHost
  <2> HIDE DEF d, row
  <2> QED BY <1>4, <1>5, <2>1, <2>2, RecGivesUp DEF row
<1>6. CASE /\ GoOn(w, j, "settled") /\ peers' = WithKids(j.kids)
           /\ ifaces' = [ifaces EXCEPT ![j.i] = EgressStored(j.i, j.row)]
  <2>1. peers' = peers /\ row \in Iface /\ ifaces[j.i] = row /\ j.i \in Ifaces
    BY <1>6, HostParts
  <2>2. EgressStored(j.i, j.row) = kept
    <3>1. row.st = "active"
      BY DEF RecOnHost, RecTables
    <3>2. kept.egress = wan
      BY <2>1 DEF Iface
    <3> HIDE DEF kept, row
    <3>3. EgressStored(j.i, j.row) = [row EXCEPT !.egress = wan]
      BY <1>1, <2>1, <3>1, <3>2 DEF EgressStored, Active
    <3> QED BY <3>3 DEF kept
  <2>3. ifaces' = RowsWith(j, kept)
    <3> HIDE DEF kept
    <3>1. ifaces = [Shown.ifaces EXCEPT ![j.i] = row]
      BY DEF RecOnHost, RowsWith
    <3> HIDE DEF row
    <3>2. [ifaces EXCEPT ![j.i] = kept] = [Shown.ifaces EXCEPT ![j.i] = kept]
      BY <3>1
    <3> QED BY <1>6, <2>2, <3>2 DEF RowsWith
  <2>4. WorkedOf(j, D, D, d, fw', kept)
    <3>1. Egress(row.egress, wan) = wan
      BY <1>1 DEF Egress
    <3> HIDE DEF d
    <3> QED BY <1>1, <1>4, <3>1 DEF WorkedOf, Worked, d
  <2>5. RecTables(j, peers') /\ dev' = DevWith(j, d)
    BY <1>1, <1>4, <2>1 DEF RecOnHost
  <2> HIDE DEF d, kept
  <2> QED BY <1>1, <1>4, <1>6, <2>3, <2>4, <2>5, RecSettles
<1> QED BY <1>3, <1>5, <1>6 DEF StoreEgress

\* An interface that is out of use has its rules taken down,
LEMMA RecTears ==
    ASSUME NEW w \in Workers, RecServing(w), RecOnHost(jobs[w]), NEW D \in SUBSET NatKinds,
           AtTeardown(jobs[w], jobs[w], dev, fw, D)
    PROVE  RecGoesOn(w)
<1> DEFINE j == jobs[w]
           k == jobs'[w]
           row == RowOf(j)
           last == LastOf(j)
<1>1. /\ ~row.on /\ j.calls = Left2("teardown", "rmlink", last) /\ j.row = row
      /\ j.verdict = "owed" /\ dev = Shown.dev /\ fw = BaseFw(j, D)
  BY DEF AtTeardown
<1>2. /\ Head(j.calls) = "teardown" /\ j.calls[2] = "rmlink" /\ Len(j.calls) > 1
      /\ Tail(j.calls) = Left1("rmlink", last) /\ Len(j.calls) # 1
  <2>1. Len(j.calls) > 1
    BY <1>1 DEF Left2
  <2> HIDE DEF last
  <2> QED BY <1>1, <2>1, LeftTwo
<1>3. PICK F : Teardown(w, F)
  BY <1>2, CallAt DEF RecServing
<1>4. /\ RowsUntouched /\ pfs' = pfs /\ dev' = dev
      /\ GoOn(w, j, IF Found0(j.i).exists THEN "owed" ELSE "settled")
      /\ fw' = TeardownNAT(BaseFw(j, D), NameOf[j.i], row.addr, row.egress, wan, F)
  <2>1. DevOf(j) = Found0(j.i)
    BY <1>1 DEF DevOf, Found0
  <2> QED BY <1>1, <1>2, <1>3, <2>1 DEF Teardown, RowsUntouched
<1>5. \E E \in SUBSET NatKinds : fw' = FwTorn(j, D, E)
  <2>1. fw' = Torn(BaseFw(j, D), j.i, row, F.del \intersect NatKinds)
    BY <1>4, NatFaults
  <2>2. F.del \intersect NatKinds \in SUBSET NatKinds
    OBVIOUS
  <2> QED BY <2>1, <2>2 DEF FwTorn
<1>6. /\ k.verdict = (IF Found0(j.i).exists THEN "owed" ELSE "settled")
      /\ k.calls = Tail(j.calls) /\ k.kids = j.kids
      /\ RecAt(j, k, ifaces', peers', dev', fw') => RecGoesOn(w)
  BY <1>2, <1>4, RecNext
<1>7. AtRmlink(j, k, dev', fw', D)
  BY <1>1, <1>2, <1>4, <1>5, <1>6 DEF AtRmlink
<1>8. AtHost(j, k, ifaces', peers', dev', fw') /\ RecTables(j, peers')
  BY <1>4, <1>6, <1>7, HostStays DEF AtHost, RecTables
<1> QED BY <1>6, <1>8 DEF RecAt, RecTables

\* and its link removed.
LEMMA RecUnlinks ==
    ASSUME NEW w \in Workers, RecServing(w), RecOnHost(jobs[w]), NEW D \in SUBSET NatKinds,
           AtRmlink(jobs[w], jobs[w], dev, fw, D)
    PROVE  RecGoesOn(w)
<1> DEFINE j == jobs[w]
           row == RowOf(j)
           last == LastOf(j)
           d0 == Found0(j.i)
<1>1. ~row.on /\ j.calls = Left1("rmlink", last) /\ dev = Shown.dev
  BY DEF AtRmlink
<1>2. PICK E \in SUBSET NatKinds : fw = Torn(BaseFw(j, D), j.i, row, E)
  BY DEF AtRmlink, FwTorn
<1>3. Head(j.calls) = "rmlink"
  BY <1>1, LeftOne
<1>4. PICK F : RemoveDevice(w, F)
  BY <1>3, CallAt DEF RecServing
<1>5. /\ RowsUntouched /\ pfs' = pfs /\ fw' = fw /\ dev' = DevWith(j, RemoveLink(d0, F))
      /\ IF RemoveLinkOK(d0, F) THEN GoOn(w, j, "settled") ELSE Stop(w, "owed")
  <2>1. DevOf(j) = d0
    BY <1>1 DEF DevOf, Found0
  <2>2. ~At(w, "unlink")
    BY <1>3 DEF At
  <2> HIDE DEF d0
  <2> QED BY <1>1, <1>4, <2>1, <2>2 DEF RemoveDevice, RowsUntouched, SetDev, DevWith
<1>6. RecTables(j, peers') /\ ifaces' = RowsWith(j, row)
  BY <1>5, HostStays
<1>7. CASE RemoveLinkOK(d0, F)
  <2>1. \/ RemoveLink(d0, F) = NoDevice
        \/ RemoveLink(d0, F) = d0 /\ ~d0.exists
    BY <1>7 DEF RemoveLink, RemoveLinkOK
  <2>2. WorkedOf(j, D, E, RemoveLink(d0, F), fw', row)
    BY <1>1, <1>2, <1>5, <2>1 DEF WorkedOf, Worked
  <2> QED BY <1>1, <1>5, <1>6, <1>7, <2>2, RecSettles
<1>8. CASE ~RemoveLinkOK(d0, F)
  <2>1. RemoveLink(d0, F) = d0 /\ d0.exists
    BY <1>8 DEF RemoveLink, RemoveLinkOK
  <2>2. Failed(j.i, row, ServedOf(j), BaseFw(j, D), Plain, E, d0, fw')
    BY <1>1, <1>2, <1>5, <2>1 DEF Failed
  <2> QED BY <1>5, <1>6, <1>8, <2>1, <2>2, RecGivesUp
<1> QED BY <1>7, <1>8

\* The cascade is the last of it.
LEMMA RecCascades ==
    ASSUME NEW w \in Workers, RecServing(w), AtLast(jobs[w], jobs[w], ifaces, dev, fw),
           RecTables(jobs[w], peers)
    PROVE  RecGoesOn(w)
<1> DEFINE j == jobs[w]
           last == LastOf(j)
<1>1. /\ last # "none" /\ j.calls = <<last>> /\ j.verdict = "settled"
  BY DEF AtLast
<1>2. PICK D, E, d, rules, kept :
        /\ D \in SUBSET NatKinds /\ E \in SUBSET NatKinds
        /\ rules = fw /\ ifaces = RowsWith(j, kept) /\ dev = DevWith(j, d)
        /\ WorkedOf(j, D, E, d, rules, kept)
  BY DEF AtLast
<1>3. last \in {"reapply", "unapply"} /\ Head(j.calls) = last /\ Len(j.calls) = 1
  <2>1. last \in {"reapply", "unapply"}
    BY <1>1, RecParts, RecKnown DEF RecServing, Lasts
  <2> HIDE DEF last
  <2> QED BY <1>1, <2>1
<1>4. PICK F : Cascade(w, F)
  <2> HIDE DEF last
  <2> QED BY <1>3, CallAt DEF RecServing
<1>5. j.op \in {"update", "restore"} /\ j.op \notin PeerOps /\ j.op # "bootPfs"
  BY <1>1 DEF LastOf, PeerOps
<1>6. /\ ifaces' = ifaces /\ peers' = peers /\ dev' = dev /\ pfs' = pfs /\ GoOn(w, j, "settled")
      /\ fw' = IF last = "reapply" THEN Reapply(fw, Forwards(j.i), F)
                                   ELSE Unapply(fw, Forwards(j.i), F)
  <2>1. At(w, "reapply") <=> last = "reapply"
    BY <1>1, <1>3, WorkParts DEF RecServing, Serving
  <2>2. At(w, "unapply") <=> last = "unapply"
    BY <1>1, <1>3, WorkParts DEF RecServing, Serving
  <2>3. ~At(w, "purgePfs") /\ ~At(w, "reapplyAll")
    BY <1>3 DEF At
  <2>4. Followers(j) = Forwards(j.i)
    BY <1>5 DEF Followers
  <2> HIDE DEF last
  <2> QED BY <1>1, <1>3, <1>4, <1>5, <2>1, <2>2, <2>3, <2>4 DEF Cascade, Owing
<1>7. \E a \in SUBSET PfKinds : fw' = After(last, j.i, rules, a)
  <2>1. pfs = Shown.pfs
    BY DEF RecServing, RecStage
  <2> HIDE DEF last
  <2> QED BY <1>2, <1>3, <1>6, <2>1, CascadeRules DEF After
<1>8. /\ Busy' = {} /\ RecAside(j) /\ owed' = OwedBy(Shown.owed, NameOf[j.i], "settled")
  <2>1. Head(j.calls) \notin {"savePeer", "insertPf", "savePf", "deletePf"}
    BY <1>3
  <2> QED BY <1>3, <1>6, <2>1, RecOnward, Zenon
<1>9. RecOver(j)
  BY <1>6, <1>8 DEF RecOver, RecTables, RecServing, RecStage
<1>10. /\ AnyFault /\ ShownHoused /\ ShownTyped /\ j.op \in RecOps /\ j.i \in Ifaces /\ Carries(j)
       /\ Asked(j, Shown.ifaces, Shown.peers, Shown.pfs, wan)
  BY RecParts DEF RecServing
<1>11. Panel!Next
  BY <1>2, <1>6, <1>7, <1>8, <1>9, <1>10, WorksOver
<1> QED BY <1>8, <1>11 DEF RecGoesOn

\* Every call of a request that applies its interface.
LEMMA RecRequestGoesOn ==
    ASSUME NEW w \in Workers, RecServing(w)
    PROVE  RecGoesOn(w)
<1> DEFINE j == jobs[w]
<1>1. RecAt(j, j, ifaces, peers, dev, fw)
  BY DEF RecServing, RecStage
<1>2. CASE AtFirst(j, j, ifaces, peers, dev, fw)
  <2>1. \/ j.op = "create"
        \/ j.op = "restore"
        \/ /\ j.op = "update"
           /\ j.calls = <<"teardown", "saveIface", "load">> \/ j.calls = <<"saveIface", "load">>
    BY <1>2 DEF AtFirst, AtUpdate, AtRestore
  <2> QED BY <1>2, <2>1, CreateInserts, RestoreTakesOut, UpdateTears, UpdateSaves
<1>3. CASE /\ peers = BasePeers(j) /\ (j.op = "create" => NameFree(j))
           /\ AtLoad(j, j, ifaces, dev, fw)
  BY <1>3, RecLoads
<1>4. CASE /\ peers = BasePeers(j) /\ (j.op = "create" => NameFree(j))
           /\ AtHost(j, j, ifaces, peers, dev, fw)
  <2>1. RecOnHost(j)
    BY <1>4 DEF RecOnHost, RecTables, AtHost
  <2>2. PICK D \in SUBSET NatKinds :
          \/ AtEnsure(j, j, dev, fw, D)   \/ AtConfigure(j, j, dev, fw, D)
          \/ AtNat(j, j, dev, fw, D)      \/ AtEgress(j, j, dev, fw, D)
          \/ AtTeardown(j, j, dev, fw, D) \/ AtRmlink(j, j, dev, fw, D)
    BY <1>4 DEF AtHost
  <2> QED BY <2>1, <2>2, RecEnsures, RecConfigures, RecSetsUp, RecUnmasks, RecStoresEgress,
             RecTears, RecUnlinks
<1>5. CASE /\ peers = BasePeers(j) /\ (j.op = "create" => NameFree(j))
           /\ AtLast(j, j, ifaces, dev, fw)
  <2>1. RecTables(j, peers)
    BY <1>5 DEF RecTables, AtLast
  <2> QED BY <1>5, <2>1, RecCascades
<1> QED BY <1>1, <1>2, <1>3, <1>4, <1>5 DEF RecAt

\* One that is killed has done no more than one that is refused a call.
LEMMA RecKilled ==
    ASSUME NEW w \in Workers, Killed(w), ShownHoused, jobs[w].op \in RecOps, RecStage(jobs[w])
    PROVE  Panel!Next \/ UNCHANGED Panel!vars
<1> DEFINE j == jobs[w]
           n == NameOf[j.i]
<1>1. /\ j.op \in RecOps /\ j.i \in Ifaces /\ Carries(j) /\ AnyFault /\ ShownTyped
      /\ Asked(j, Shown.ifaces, Shown.peers, Shown.pfs, wan)
  BY WorkParts DEF Killed, Fits
<1>2. /\ UNCHANGED <<ifaces, peers, dev, fw>> /\ RecAside(j)
      /\ owed' = OwedBy(Shown.owed, n, j.verdict)
  BY KilledAt DEF RecStage, RecAside
<1>3. j.op = "boot" => j.i \in Shown.todo
  BY DEF RecStage
<1>4. /\ DevWith(j, Found0(j.i)) = Shown.dev /\ LastOf(j) \in Lasts
      /\ j.op \in {"create", "update", "restore", "sync"} => RowOf(j).st = "active"
      /\ j.op \in {"sync", "boot"} =>
           RowOf(j) = Shown.ifaces[j.i] /\ RowsWith(j, RowOf(j)) = Shown.ifaces
  BY <1>1, RecKnown
<1>5. CASE AtFirst(j, j, ifaces, peers, dev, fw)
  <2>1. peers' = Shown.peers /\ dev' = Shown.dev
    BY <1>2, <1>5 DEF AtFirst
  <2>2. CASE j.verdict = "none" /\ ifaces' = Shown.ifaces /\ fw' = Shown.fw
    <3>1. owed' = Shown.owed
      BY <1>2, <2>2, Reports
    <3>2. j.op # "boot"
      BY <1>5 DEF AtFirst, AtUpdate, AtRestore
    <3> QED BY <1>2, <2>1, <2>2, <3>1, <3>2, NothingDone
  <2>3. CASE /\ j.op = "update" /\ j.verdict = "owed" /\ ifaces' = Shown.ifaces
             /\ \E D \in SUBSET NatKinds : fw' = BaseFw(j, D)
    <3>1. owed' = Shown.owed \union {n}
      BY <1>2, <2>3, Reports
    <3>2. \E D : UpdateCut(j, D)
      BY <1>2, <2>1, <2>3, <3>1 DEF UpdateCut, RecAside
    <3> QED BY <1>1, <2>3, <3>2, UpdateLeft
  <2>4. CASE /\ j.op = "restore" /\ j.verdict = "owed" /\ ifaces' = RowsWith(j, RowOf(j))
             /\ fw' = Shown.fw
    <3>1. owed' = Shown.owed \union {n}
      BY <1>2, <2>4, Reports
    <3>2. RestoreCut(j)
      BY <1>2, <2>1, <2>4, <3>1 DEF RestoreCut
    <3> QED BY <1>1, <2>4, <3>2, RestoreLeft
  <2> QED BY <1>2, <1>5, <2>2, <2>3, <2>4 DEF AtFirst, AtUpdate, AtRestore
<1>6. CASE /\ peers = BasePeers(j) /\ (j.op = "create" => NameFree(j))
           /\ AtLoad(j, j, ifaces, dev, fw)
  <2>1. /\ ifaces' = RowsWith(j, RowOf(j)) /\ dev' = Shown.dev /\ peers' = BasePeers(j)
        /\ j.verdict = IF j.op \in {"create", "update", "restore"}
                          \/ (j.op = "boot" /\ Shown.ifaces[j.i].st = "active")
                       THEN "owed" ELSE "none"
    BY <1>2, <1>6 DEF AtLoad
  <2>2. PICK D \in SUBSET NatKinds : fw' = BaseFw(j, D)
    BY <1>2, <1>6 DEF AtLoad
  <2>3. CASE j.verdict = "owed"
    <3>1. RowOf(j).st = "active"
      BY <1>4, <2>1, <2>3
    <3>2. RecOver(j) /\ owed' = OwedBy(Shown.owed, n, "owed")
      BY <1>2, <1>3, <1>6, <2>1, <2>3, <3>1 DEF RecOver
    <3>3. Failed(j.i, RowOf(j), ServedOf(j), BaseFw(j, D), Plain, D, Found0(j.i), fw')
      BY <2>2 DEF Failed
    <3>4. dev' = DevWith(j, Found0(j.i))
      BY <1>4, <2>1
    <3> QED BY <1>1, <2>1, <3>2, <3>3, <3>4, FailsOver
  <2>4. CASE j.verdict = "none"
    <3>1. \/ j.op = "sync"
          \/ j.op = "boot" /\ Shown.ifaces[j.i].st # "active"
      <4>1. /\ j.op \notin {"create", "update", "restore"}
            /\ j.op = "boot" => Shown.ifaces[j.i].st # "active"
        BY <2>1, <2>4
      <4> QED BY <1>1, <4>1 DEF RecOps
    <3>2. ifaces' = Shown.ifaces /\ peers' = Shown.peers /\ fw' = Shown.fw
      BY <1>4, <2>1, <2>2, <3>1 DEF BasePeers, BaseFw
    <3>3. owed' = Shown.owed
      BY <1>2, <2>4, Reports
    <3> QED BY <1>1, <1>2, <1>3, <2>1, <3>1, <3>2, <3>3, NothingDone, BootIdle
  <2> QED BY <2>1, <2>3, <2>4
<1>7. CASE /\ peers = BasePeers(j) /\ (j.op = "create" => NameFree(j))
           /\ AtHost(j, j, ifaces, peers, dev, fw)
  <2>1. ifaces' = RowsWith(j, RowOf(j)) /\ RecOver(j)
    BY <1>2, <1>3, <1>7 DEF AtHost, RecOver
  <2>2. /\ j.verdict \in {"owed", "settled"}
        /\ j.verdict = "owed" =>
             \E D, E \in SUBSET NatKinds : \E d : FailedOf(j, D, E, d)
        /\ j.verdict = "settled" =>
             \E D, E \in SUBSET NatKinds : \E d : SettledOf(j, D, E, d)
    BY <1>1, <1>7, HostFails
  <2>3. CASE j.verdict = "owed"
    <3>1. PICK D, E, d : D \in SUBSET NatKinds /\ E \in SUBSET NatKinds /\ FailedOf(j, D, E, d)
      BY <2>2, <2>3
    <3>2. Failed(j.i, RowOf(j), ServedOf(j), BaseFw(j, D), Plain, E, d, fw')
      BY <1>2, <3>1 DEF FailedOf
    <3>3. dev' = DevWith(j, d)
      BY <1>2, <3>1 DEF FailedOf
    <3>4. owed' = OwedBy(Shown.owed, n, "owed")
      BY <1>2, <2>3
    <3>5. D \in SUBSET NatKinds /\ E \in SUBSET NatKinds
      BY <3>1
    <3> QED BY <1>1, <2>1, <3>2, <3>3, <3>4, <3>5, FailsOver
  <2>4. CASE j.verdict = "settled"
    <3>1. PICK D, E, d : D \in SUBSET NatKinds /\ E \in SUBSET NatKinds /\ SettledOf(j, D, E, d)
      BY <2>2, <2>4
    <3>2. WorkedOf(j, D, E, d, fw, RowOf(j))
      BY <3>1 DEF SettledOf
    <3>3. dev' = DevWith(j, d)
      BY <1>2, <3>1 DEF SettledOf
    <3>4. owed' = OwedBy(Shown.owed, n, "settled")
      BY <1>2, <2>4
    <3>5. D \in SUBSET NatKinds /\ E \in SUBSET NatKinds
      BY <3>1
    <3>6. PICK a \in SUBSET PfKinds : fw' = After(LastOf(j), j.i, fw, a)
      BY <1>2, <1>4, CascadeIdle
    <3> QED BY <1>1, <2>1, <3>2, <3>3, <3>4, <3>5, <3>6, WorksOver
  <2> QED BY <2>2, <2>3, <2>4
<1>8. CASE /\ peers = BasePeers(j) /\ (j.op = "create" => NameFree(j))
           /\ AtLast(j, j, ifaces, dev, fw)
  <2>1. PICK D, E, d, rules, kept :
          /\ D \in SUBSET NatKinds /\ E \in SUBSET NatKinds
          /\ rules = fw /\ ifaces = RowsWith(j, kept) /\ dev = DevWith(j, d)
          /\ WorkedOf(j, D, E, d, rules, kept)
    BY <1>8 DEF AtLast
  <2>2. /\ RecOver(j) /\ owed' = OwedBy(Shown.owed, n, "settled")
        /\ ifaces' = RowsWith(j, kept) /\ dev' = DevWith(j, d)
    BY <1>2, <1>3, <1>8, <2>1 DEF AtLast, RecOver
  <2>3. PICK a \in SUBSET PfKinds : fw' = After(LastOf(j), j.i, rules, a)
    BY <1>2, <1>4, <2>1, CascadeIdle
  <2> QED BY <1>1, <2>1, <2>2, <2>3, WorksOver
<1>9. RecAt(j, j, ifaces, peers, dev, fw)
  BY DEF RecStage
<1> QED BY <1>5, <1>6, <1>7, <1>8, <1>9 DEF RecAt

\* A request that applies its interface is taken up.
LEMMA RecTakenUp ==
    ASSUME TInv, NEW w \in Workers, NEW m, TakesUp(w, m), m.op \in RecOps,
           SameJob(jobs'[w], m), Shown' = Now
    PROVE  RecStage(jobs[w])'
<1> DEFINE k == jobs'[w]
<1>1. /\ m.calls = Script[m.op] /\ k.calls = m.calls /\ k.verdict = m.verdict /\ k.op = m.op
      /\ k.i = m.i /\ k.new = m.new /\ k.row = m.row /\ k.kids = m.kids
      /\ m.verdict = IF m.op = "boot" THEN Pending(m.i) ELSE "none"
      /\ m.op \in {"update", "sync"} => Active(m.i)
      /\ m.op = "update" => m.row = ifaces[m.i] /\ m.kids = Kids(m.i)
      /\ m.op = "boot" => m.i \in todo
  BY DEF TakesUp, Origin, SameJob
<1>2. /\ UNCHANGED <<ifaces, peers, pfs, dev, fw, wan, owed>> /\ m.op # "bootPfs"
      /\ IF m.op = "boot" THEN todo' = todo \ {m.i} /\ pfTodo' = pfTodo
                          ELSE UNCHANGED <<todo, pfTodo>>
  BY DEF TakesUp, db, boot, RecOps
<1>3. /\ Now.ifaces = ifaces /\ Now.peers = peers /\ Now.pfs = pfs /\ Now.dev = dev
      /\ Now.fw = fw /\ Now.todo = todo /\ Now.pfTodo = pfTodo /\ Now.owed = owed
  BY DEF Now
<1>4. TodoOf(jobs[w])' = todo'
  BY <1>1, <1>2, <1>3 DEF TodoOf
<1>5. CASE m.op \in {"create", "update", "restore"}
  <2>1. k.calls = CASE m.op = "create" -> <<"insertIface", "load">>
                    [] m.op = "update" -> <<"teardown", "saveIface", "load">>
                    [] m.op = "restore" -> <<"restoreIface", "restorePeers", "load", "reapply">>
    BY <1>1, <1>5 DEF Script
  <2>2. k.verdict = "none"
    BY <1>1, <1>5
  <2>3. m.op = "update" => KidsThere(jobs[w], peers)'
    BY <1>1, <1>2 DEF KidsThere, Kids
  <2>4. AtFirst(jobs[w], jobs[w], ifaces, peers, dev, fw)'
    BY <1>1, <1>2, <1>3, <1>5, <2>1, <2>2, <2>3 DEF AtFirst, AtUpdate, AtRestore
  <2> QED BY <1>1, <1>2, <1>3, <1>4, <1>5, <2>4 DEF RecStage, RecAt
<1>6. CASE m.op \in {"sync", "boot"}
  <2>1. k.calls = <<"load">>
    BY <1>1, <1>6 DEF Script
  <2>2. LastOf(jobs[w])' = "none" /\ Left1("load", "none") = <<"load">>
    BY <1>1, <1>6 DEF LastOf, Left1
  <2>3. RowOf(jobs[w])' = ifaces[m.i] /\ BasePeers(jobs[w])' = peers
        /\ \A D : BaseFw(jobs[w], D)' = fw
    BY <1>1, <1>3, <1>6 DEF RowOf, BasePeers, BaseFw
  <2>4. RowsWith(jobs[w], RowOf(jobs[w]))' = ifaces
    BY <1>1, <1>3, <2>3 DEF RowsWith, TInv, TypeOK
  <2>5. k.verdict = IF k.op = "boot" /\ ifaces[k.i].st = "active" THEN "owed" ELSE "none"
    BY <1>1, <1>6 DEF Pending, Active
  <2>6. NatKinds \in SUBSET NatKinds
    OBVIOUS
  <2>7. AtLoad(jobs[w], jobs[w], ifaces, dev, fw)'
    BY <1>1, <1>2, <1>3, <1>6, <2>1, <2>2, <2>3, <2>4, <2>5, <2>6 DEF AtLoad
  <2> QED BY <1>1, <1>2, <1>3, <1>4, <1>6, <2>3, <2>7 DEF RecStage, RecAt
<1> QED BY <1>5, <1>6 DEF RecOps

-----------------------------------------------------------------------------
(* Peers have interfaces *)

TablesHoused ==
    /\ \A p \in Peers : InTable(peers[p]) => ifaces[peers[p].iface].st # "none"
    /\ \A w \in Busy : jobs[w].op \in PeerOps \/ DOMAIN jobs[w].kids # {} =>
         ifaces[jobs[w].i].st # "none"

\* A call keeps it so,
LEMMA CallsHouse ==
    ASSUME TInv, DInv, TablesHoused, NEW w \in Workers, Call(w)
    PROVE  TablesHoused'
<1> DEFINE j == jobs[w]
<1>1. PICK home \in [Peers -> Ifaces] : InOrder(home)
  BY DEF DInv
<1>2. /\ w \in Busy /\ Moves(w) /\ Housed(j, home) /\ NewInService(j) /\ RowsHomed(home)
  BY <1>1, CallMoves DEF InOrder, Grounded
<1>3. /\ \A i \in Ifaces : IfaceBecomes(j, i)
      /\ \A p \in Peers : PeerBecomes(j, p)
  BY <1>2, RowsMove
<1>4. \A i \in Ifaces : ifaces[i].st # "none" => ifaces'[i].st # "none"
  BY <1>3 DEF IfaceBecomes
<1>5. j.i \in Ifaces /\ \A v \in Busy : jobs[v].i \in Ifaces
  BY <1>2, WorkParts
<1>6. ASSUME NEW p \in Peers, InTable(peers'[p]) PROVE ifaces'[peers'[p].iface].st # "none"
  <2>1. CASE InTable(peers[p]) /\ peers'[p].iface = peers[p].iface
    <3>1. peers[p].iface = home[p] /\ home[p] \in Ifaces
      BY <1>2, <2>1 DEF RowsHomed
    <3> QED BY <1>4, <2>1, <3>1 DEF TablesHoused
  <2>2. CASE /\ j.op \in PeerOps \/ DOMAIN j.kids # {}
             /\ peers'[p].iface = j.i
    BY <1>2, <1>4, <1>5, <2>2 DEF TablesHoused
  <2>3. \/ InTable(peers[p]) /\ peers'[p].iface = peers[p].iface
        \/ j.op \in PeerOps /\ p = j.p /\ peers'[p].iface = j.new.iface
        \/ p \in DOMAIN j.kids /\ peers'[p].iface = j.kids[p].iface
    BY <1>3, <1>6 DEF PeerBecomes
  <2>4. /\ j.op \in PeerOps => j.new.iface = j.i
        /\ \A q \in DOMAIN j.kids : j.kids[q].iface = j.i
    BY <1>2 DEF Housed
  <2> QED BY <2>1, <2>2, <2>3, <2>4
<1>7. ASSUME NEW v \in Busy', jobs'[v].op \in PeerOps \/ DOMAIN jobs'[v].kids # {}
      PROVE  ifaces'[jobs'[v].i].st # "none"
  <2>1. CASE v # w
    <3>1. v \in Busy /\ jobs'[v] = jobs[v]
      BY <1>7, <2>1, CallTyped DEF OnlyMoves, Busy
    <3> QED BY <1>4, <1>5, <1>7, <3>1 DEF TablesHoused
  <2>2. CASE v = w
    <3>1. NextJob(jobs'[w], j)
      BY <1>2, <1>7, <2>2 DEF Moves, Busy
    <3>2. jobs'[w].i = j.i /\ jobs'[w].op = j.op
      BY <3>1 DEF NextJob
    <3>3. \/ jobs'[w].kids = j.kids
          \/ ifaces[j.i].st = "active"
      BY <3>1 DEF NextJob, Active
    <3> QED BY <1>2, <1>4, <1>5, <1>7, <2>2, <3>2, <3>3 DEF TablesHoused
  <2> QED BY <2>1, <2>2
<1> QED BY <1>6, <1>7 DEF TablesHoused

\* so does a request that is taken up,
LEMMA TakesHouse ==
    ASSUME TInv, TablesHoused, NEW w \in Workers, NEW m, TakesUp(w, m)
    PROVE  TablesHoused'
<1>1. /\ Fits(m) /\ Origin(m) /\ Take(w, m) /\ UNCHANGED <<ifaces, peers>>
  BY DEF TakesUp, db
<1>2. /\ Busy' = Busy \union {w} /\ SameJob(jobs'[w], m)
      /\ \A v \in Busy : SameJob(jobs'[v], jobs[v])
  BY <1>1, TakeEffect
<1>3. m.op \in PeerOps \/ DOMAIN m.kids # {} => ifaces[m.i].st # "none"
  <2>1. CASE m.op \in PeerOps
    <3>1. m.p \in Peers
      BY <1>1, <2>1 DEF Fits, Carries
    <3> QED BY <1>1, <2>1, <3>1 DEF Origin, TablesHoused, Active
  <2>2. CASE m.op \notin PeerOps
    <3>1. DOMAIN <<>> = {}
      OBVIOUS
    <3> QED BY <1>1, <2>2, <3>1 DEF Origin, Active
  <2> QED BY <2>1, <2>2
<1>4. ASSUME NEW v \in Busy', jobs'[v].op \in PeerOps \/ DOMAIN jobs'[v].kids # {}
      PROVE  ifaces'[jobs'[v].i].st # "none"
  <2>1. CASE v = w
    BY <1>1, <1>2, <1>3, <1>4, <2>1 DEF SameJob
  <2>2. CASE v # w
    <3>1. v \in Busy /\ SameJob(jobs'[v], jobs[v])
      BY <1>2, <1>4, <2>2
    <3> QED BY <1>1, <1>4, <3>1 DEF SameJob, TablesHoused
  <2> QED BY <2>1, <2>2
<1> QED BY <1>1, <1>4 DEF TablesHoused

\* and every step.
LEMMA HousedStays == RSpec => []TablesHoused
<1>1. RInit => TablesHoused
  <2> SUFFICES ASSUME RInit PROVE TablesHoused
    OBVIOUS
  <2>2. \A p \in Peers : peers[p] = BlankPeer("none")
    BY DEF RInit, Init
  <2>3. BlankPeer("none").st = "none"
    BY DEF BlankPeer
  <2>4. \A p \in Peers : ~InTable(peers[p])
    BY <2>2, <2>3 DEF InTable
  <2>5. Busy = {}
    BY DEF RInit, Busy, NoJob
  <2> QED BY <2>4, <2>5 DEF TablesHoused
<1>2. TInv /\ DInv /\ TablesHoused /\ [RNext]_rvars => TablesHoused'
  <2> SUFFICES ASSUME TInv, DInv, TablesHoused, [RNext]_rvars PROVE TablesHoused'
    OBVIOUS
  <2>1. ASSUME NEW w \in Workers, TakeUp(w) PROVE TablesHoused'
    BY <2>1, JobTaken, TakesHouse
  <2>2. ASSUME NEW w \in Workers, Call(w) PROVE TablesHoused'
    BY <2>2, CallsHouse
  <2>3. CASE Outside
    <3>1. PICK home \in [Peers -> Ifaces] : InOrder(home)
      BY DEF DInv
    <3>2. UNCHANGED <<ifaces, peers>>
      BY <2>3, <3>1, OutsideInOrder
    <3>3. Busy' = {}
      <4>1. Crash => Busy' = {}
        BY DEF Crash, Busy
      <4>2. RouteMoves => Busy' = {}
        BY DEF RouteMoves, Busy
      <4>3. \A F, reboot : Restart(F, reboot) => Busy' = {}
        BY DEF Restart, Busy, TInv
      <4> QED BY <2>3, <4>1, <4>2, <4>3 DEF Outside
    <3> QED BY <3>2, <3>3 DEF TablesHoused
  <2>4. CASE UNCHANGED rvars
    BY <2>4 DEF rvars, vars, db, TablesHoused, Busy
  <2> QED BY <2>1, <2>2, <2>3, <2>4 DEF RNext
<1> QED BY <1>1, <1>2, JobsStayTyped, OrderStays, PTL DEF RSpec

-----------------------------------------------------------------------------
(* Deletion and purge of an interface *)

CutOps == {"delete", "purge"}

\* What they leave, in terms of what they began with: the rules without the kinds that
\* went, the forwards, the device, the peers and the row.
CutRules(j, d) == Removed(Shown.fw, Panel!RulesOf(Panel!Forwards(j.i)), d)
CutFw(j, d, e) == Torn(CutRules(j, d), j.i, Shown.ifaces[j.i], e)
CutPfs(j, gone) ==
    IF gone /\ j.op = "purge"
      THEN [f \in Pfs |-> IF f \in Panel!Forwards(j.i) THEN BlankPf("purged") ELSE Shown.pfs[f]]
      ELSE Shown.pfs
Unlinked(j, stuck) == IF stuck THEN Found0(j.i) ELSE NoDevice
UnlinkOK(j, stuck) == Found0(j.i).exists => ~stuck
CutPeers(j) ==
    [p \in Peers |-> IF ~(InTable(Shown.peers[p]) /\ Shown.peers[p].iface = j.i)
                       THEN Shown.peers[p]
                     ELSE IF j.op = "delete" THEN [Shown.peers[p] EXCEPT !.st = "trashed"]
                     ELSE BlankPeer("purged")]
CutRows(j) ==
    IF j.op = "delete" THEN [Shown.ifaces EXCEPT ![j.i].st = "trashed"]
    ELSE [Shown.ifaces EXCEPT ![j.i] = BlankIface("purged")]

\* The end of such a request: `s' are the statements that were refused.
CutEnds(j) ==
    /\ Shown' = Now' /\ wan' = wan /\ todo' = Shown.todo /\ pfTodo' = Shown.pfTodo
    /\ \E d \in SUBSET PfKinds, e \in SUBSET NatKinds, gone \in BOOLEAN, stuck \in BOOLEAN,
          s \in SUBSET {"peers", "row"} :
         /\ fw' = CutFw(j, d, e) /\ pfs' = CutPfs(j, gone)
         /\ dev' = DevWith(j, Unlinked(j, stuck))
         /\ peers' = IF "peers" \in s THEN Shown.peers ELSE CutPeers(j)
         /\ ifaces' = IF s # {} THEN Shown.ifaces ELSE CutRows(j)
         /\ owed' = IF s = {} /\ UnlinkOK(j, stuck) THEN Shown.owed \ {NameOf[j.i]}
                    ELSE Shown.owed \union {NameOf[j.i]}

\* The cut under one combination of failures.
LEMMA CutOffRules ==
    ASSUME NEW j, NEW d \in SUBSET PfKinds, NEW e \in SUBSET NatKinds, NEW G,
           G.del = d \union e, "pfload" \notin G.db
    PROVE  Panel!CutOff(j.i, G) = CutFw(j, d, e)
<1> DEFINE R == Panel!RulesOf(Panel!Forwards(j.i))
<1>1. NatKinds \intersect PfKinds = {}
  BY RuleKinds
<1>2. \A x \in R : x[1] \in PfKinds
  BY SameRules, RuleKinds DEF Panel!RulesOf
<1>3. Removed(Shown.fw, R, G.del) = Removed(Shown.fw, R, d)
  BY <1>1, <1>2 DEF Removed
<1>4. Panel!Unapply(Shown.fw, Panel!Forwards(j.i), G) = CutRules(j, d)
  BY <1>3, SameRules, RulesUnderFaults DEF Panel!Unapply, Panel!Found, CutRules
<1>5. G.del \intersect NatKinds = e
  BY <1>1
<1>6. TeardownNAT(CutRules(j, d), NameOf[j.i], Shown.ifaces[j.i].addr,
                  Shown.ifaces[j.i].egress, wan, G) = CutFw(j, d, e)
  BY <1>5, NatFaults DEF CutFw
<1> QED BY <1>4, <1>6, SameRules DEF Panel!CutOff

\* However such a request ends, its end is a step of the panel.
LEMMA CutDone ==
    ASSUME AnyFault, ShownTyped, NEW j, j.op \in CutOps, j.i \in Ifaces,
           Asked(j, Shown.ifaces, Shown.peers, Shown.pfs, wan), CutEnds(j)
    PROVE  Panel!Next
<1> DEFINE n == NameOf[j.i]
<1>1. PICK u \in Users :
        /\ j.op = "delete" => Shown.ifaces[j.i].st = "active" /\ Owns(u, Shown.ifaces[j.i].owner)
        /\ j.op = "purge" => InTable(Shown.ifaces[j.i]) /\ Owns(u, Shown.ifaces[j.i].owner)
  BY DEF Asked, Entitled
<1>2. PICK d \in SUBSET PfKinds, e \in SUBSET NatKinds, gone \in BOOLEAN, stuck \in BOOLEAN,
           s \in SUBSET {"peers", "row"} :
         /\ fw' = CutFw(j, d, e) /\ pfs' = CutPfs(j, gone)
         /\ dev' = DevWith(j, Unlinked(j, stuck))
         /\ peers' = IF "peers" \in s THEN Shown.peers ELSE CutPeers(j)
         /\ ifaces' = IF s # {} THEN Shown.ifaces ELSE CutRows(j)
         /\ owed' = IF s = {} /\ UnlinkOK(j, stuck) THEN Shown.owed \ {n}
                    ELSE Shown.owed \union {n}
  BY DEF CutEnds
<1> DEFINE h == IF stuck THEN {"rmlink"} ELSE {}
           b == s \union (IF gone THEN {} ELSE {"pfrow"})
           G == Failing(h, {}, d \union e, b)
<1>3. /\ G \in EveryFault /\ G.host = h /\ G.del = d \union e /\ G.db = b
  <2>1. h \in SUBSET HostFaults
    BY DEF HostFaults
  <2>2. b \in SUBSET {"save", "peers", "row", "load", "egress", "pfload", "pfrow", "reserved",
                      "list"}
    OBVIOUS
  <2>3. d \union e \in SUBSET (NatKinds \union PfKinds)
    OBVIOUS
  <2> DEFINE x == d \union e
  <2>4. {} \in SUBSET (NatKinds \union PfKinds)
    OBVIOUS
  <2> HIDE DEF h, b, x
  <2>5. Failing(h, {}, x, b) \in EveryFault
    BY <2>1, <2>2, <2>3, <2>4, FailingParts, Zenon DEF x
  <2>6. /\ Failing(h, {}, x, b).host = h /\ Failing(h, {}, x, b).del = x
        /\ Failing(h, {}, x, b).db = b
    BY DEF Failing
  <2> QED BY <2>5, <2>6, Zenon DEF x
<1>4. /\ "peers" \in G.db <=> "peers" \in s
      /\ "row" \in G.db <=> "row" \in s
      /\ "pfrow" \in G.db <=> ~gone
      /\ "pfload" \notin G.db
      /\ "rmlink" \in G.host <=> stuck
  BY <1>3
<1> HIDE DEF G
<1>5. Shown.fw' = Panel!CutOff(j.i, G)
  <2>1. Panel!CutOff(j.i, G) = CutFw(j, d, e)
    BY <1>3, <1>4, CutOffRules
  <2> QED BY <1>2, <2>1 DEF CutEnds, Now
<1>6. /\ Shown.dev' = [Shown.dev EXCEPT ![n] = Panel!RemoveLink(@, G)]
      /\ Panel!RemoveLinkOK(Shown.dev[n], G) <=> UnlinkOK(j, stuck)
  <2>1. Panel!RemoveLink(Shown.dev[n], G) = Unlinked(j, stuck)
    BY <1>4, SameDevices DEF RemoveLink, Unlinked, Found0
  <2>2. Panel!RemoveLinkOK(Shown.dev[n], G) <=> UnlinkOK(j, stuck)
    BY <1>4, SameDevices DEF RemoveLinkOK, UnlinkOK, Found0
  <2> QED BY <1>2, <2>1, <2>2 DEF CutEnds, Now, DevWith
<1>7. {"peers", "row"} \intersect G.db = {} <=> s = {}
  BY <1>4
<1>8. Panel!Report(n, /\ {"peers", "row"} \intersect G.db = {}
                      /\ Panel!RemoveLinkOK(Shown.dev[n], G))
  BY <1>2, <1>6, <1>7 DEF Panel!Report, CutEnds, Now
<1>9. UNCHANGED <<wan, Panel!boot>>
  BY DEF CutEnds, Now, Panel!boot
<1>10. CASE j.op = "delete"
  <2>1. Shown.pfs' = Shown.pfs
    BY <1>2, <1>10 DEF CutEnds, Now, CutPfs
  <2>2. CutPeers(j) = [p \in Peers |->
                         IF Shown.peers[p].st = "active" /\ Shown.peers[p].iface = j.i
                           THEN [Shown.peers[p] EXCEPT !.st = "trashed"] ELSE Shown.peers[p]]
    <3> SUFFICES ASSUME NEW p \in Peers
                 PROVE  (IF ~(InTable(Shown.peers[p]) /\ Shown.peers[p].iface = j.i)
                           THEN Shown.peers[p]
                         ELSE [Shown.peers[p] EXCEPT !.st = "trashed"])
                        = (IF Shown.peers[p].st = "active" /\ Shown.peers[p].iface = j.i
                             THEN [Shown.peers[p] EXCEPT !.st = "trashed"] ELSE Shown.peers[p])
      BY <1>10 DEF CutPeers
    <3>1. Shown.peers[p] \in Peer
      BY DEF ShownTyped
    <3>2. Shown.peers[p].st = "trashed"
            => [Shown.peers[p] EXCEPT !.st = "trashed"] = Shown.peers[p]
      BY <3>1 DEF Peer
    <3> QED BY <3>2 DEF InTable
  <2>3. Shown.peers' = IF "peers" \in G.db THEN Shown.peers
                       ELSE [p \in Peers |->
                              IF Shown.peers[p].st = "active" /\ Shown.peers[p].iface = j.i
                                THEN [Shown.peers[p] EXCEPT !.st = "trashed"]
                                ELSE Shown.peers[p]]
    BY <1>2, <1>4, <2>2 DEF CutEnds, Now
  <2>4. Shown.ifaces' = IF {"peers", "row"} \intersect G.db # {} THEN Shown.ifaces
                        ELSE [Shown.ifaces EXCEPT ![j.i].st = "trashed"]
    BY <1>2, <1>7, <1>10 DEF CutEnds, Now, CutRows
  <2>5. Panel!Active(j.i) /\ Panel!Owns(u, Shown.ifaces[j.i].owner)
    BY <1>1, <1>10 DEF Panel!Active, Panel!Owns, Owns
  <2>6. Panel!IfaceDelete(u, j.i, G)
    BY <1>5, <1>6, <1>8, <1>9, <2>1, <2>3, <2>4, <2>5 DEF Panel!IfaceDelete
  <2> QED BY <1>3, <2>6, PanelSteps DEF Panel!Request
<1>11. CASE j.op = "purge"
  <2>1. Shown.pfs' = IF "pfrow" \in G.db THEN Shown.pfs
                     ELSE [f \in Pfs |-> IF f \in Panel!Found(Panel!Forwards(j.i), G)
                                           THEN Panel!BlankPf("purged") ELSE Shown.pfs[f]]
    <3>1. Panel!Found(Panel!Forwards(j.i), G) = Panel!Forwards(j.i)
      BY <1>4 DEF Panel!Found
    <3>2. Panel!BlankPf("purged") = BlankPf("purged")
      BY DEF Panel!BlankPf, BlankPf
    <3> QED BY <1>2, <1>4, <1>11, <3>1, <3>2 DEF CutEnds, Now, CutPfs
  <2>2. CutPeers(j) = [p \in Peers |->
                         IF Panel!InTable(Shown.peers[p]) /\ Shown.peers[p].iface = j.i
                           THEN Panel!BlankPeer("purged") ELSE Shown.peers[p]]
    BY <1>11 DEF CutPeers, Panel!InTable, InTable, Panel!BlankPeer, BlankPeer
  <2>3. Shown.peers' = IF "peers" \in G.db THEN Shown.peers
                       ELSE [p \in Peers |->
                              IF Panel!InTable(Shown.peers[p]) /\ Shown.peers[p].iface = j.i
                                THEN Panel!BlankPeer("purged") ELSE Shown.peers[p]]
    BY <1>2, <1>4, <2>2 DEF CutEnds, Now
  <2>4. Shown.ifaces' = IF {"peers", "row"} \intersect G.db # {} THEN Shown.ifaces
                        ELSE [Shown.ifaces EXCEPT ![j.i] = Panel!BlankIface("purged")]
    BY <1>2, <1>7, <1>11 DEF CutEnds, Now, CutRows, Panel!BlankIface, BlankIface
  <2>5. Panel!InTable(Shown.ifaces[j.i]) /\ Panel!Owns(u, Shown.ifaces[j.i].owner)
    BY <1>1, <1>11 DEF Panel!InTable, InTable, Panel!Owns, Owns
  <2>6. Panel!IfacePurge(u, j.i, G)
    BY <1>5, <1>6, <1>8, <1>9, <2>1, <2>3, <2>4, <2>5 DEF Panel!IfacePurge
  <2> QED BY <1>3, <2>6, PanelSteps DEF Panel!Request
<1> QED BY <1>10, <1>11 DEF CutOps

\* Where such a request is, in terms of what it began with: `k' is its job by now, and
\* tables and host are as given.
MoveCut(j) == IF j.op = "delete" THEN "trashPeers" ELSE "purgePeers"
LastCut(j) == IF j.op = "delete" THEN "trashIface" ELSE "purgeIface"
CutTear(j, k, tp, td, r, d) ==
    /\ k.calls = <<"teardown", "unlink", MoveCut(j), LastCut(j)>> /\ k.verdict = "owed"
    /\ tp = Shown.peers /\ td = Shown.dev /\ r = CutRules(j, d)
CutUnlink(j, k, tp, td, r, d, e) ==
    /\ k.calls = <<"unlink", MoveCut(j), LastCut(j)>> /\ k.verdict = "owed"
    /\ tp = Shown.peers /\ td = Shown.dev /\ r = CutFw(j, d, e)
CutRest(j, k, tp, td, r, d, e, stuck) ==
    /\ td = DevWith(j, Unlinked(j, stuck)) /\ r = CutFw(j, d, e)
    /\ k.verdict = IF UnlinkOK(j, stuck) THEN "cut" ELSE "owed"
    /\ \/ k.calls = <<MoveCut(j), LastCut(j)>> /\ tp = Shown.peers
       \/ k.calls = <<LastCut(j)>> /\ tp = CutPeers(j)
CutLater(j, k, tp, td, r) ==
    \E d \in SUBSET PfKinds, e \in SUBSET NatKinds, stuck \in BOOLEAN :
      \/ CutTear(j, k, tp, td, r, d)
      \/ CutUnlink(j, k, tp, td, r, d, e)
      \/ CutRest(j, k, tp, td, r, d, e, stuck)
CutFirst(j, k, x, tp, td, r) ==
    /\ k.calls = Script[j.op] /\ k.verdict = "none"
    /\ x = Shown.pfs /\ tp = Shown.peers /\ td = Shown.dev /\ r = Shown.fw
CutAt(j, k, x, tp, td, r) ==
    \/ CutFirst(j, k, x, tp, td, r)
    \/ (\E gone \in BOOLEAN : x = CutPfs(j, gone)) /\ CutLater(j, k, tp, td, r)
CutStage(j) ==
    /\ ifaces = Shown.ifaces /\ owed = Shown.owed /\ todo = Shown.todo /\ pfTodo = Shown.pfTodo
    /\ j.row = Shown.ifaces[j.i]
    /\ CutAt(j, j, pfs, peers, dev, fw)

\* A call of such a request, and what is left of it after the call.
CutServing(w) == Serving(w) /\ Call(w) /\ jobs[w].op \in CutOps /\ CutStage(jobs[w])
CutGoesOn(w) ==
    IF Busy' = {} THEN Panel!Next \/ UNCHANGED Panel!vars
    ELSE /\ NextJob(jobs'[w], jobs[w]) /\ jobs'[w].new = jobs[w].new
         /\ CutStage(jobs[w])'

\* While the request goes on these are the same.
LEMMA CutStays ==
    ASSUME NEW w \in Workers, Shown' = Shown, wan' = wan, jobs'[w].op = jobs[w].op,
           jobs'[w].i = jobs[w].i
    PROVE  /\ MoveCut(jobs[w])' = MoveCut(jobs[w]) /\ LastCut(jobs[w])' = LastCut(jobs[w])
           /\ \A d : CutRules(jobs[w], d)' = CutRules(jobs[w], d)
           /\ \A d, e : CutFw(jobs[w], d, e)' = CutFw(jobs[w], d, e)
           /\ \A gone : CutPfs(jobs[w], gone)' = CutPfs(jobs[w], gone)
           /\ \A stuck : /\ DevWith(jobs[w], Unlinked(jobs[w], stuck))'
                              = DevWith(jobs[w], Unlinked(jobs[w], stuck))
                         /\ UnlinkOK(jobs[w], stuck)' <=> UnlinkOK(jobs[w], stuck)
           /\ CutPeers(jobs[w])' = CutPeers(jobs[w])
<1>1. /\ MoveCut(jobs[w])' = MoveCut(jobs[w]) /\ LastCut(jobs[w])' = LastCut(jobs[w])
  BY DEF MoveCut, LastCut
<1>2. \A d : CutRules(jobs[w], d)' = CutRules(jobs[w], d)
  BY DEF CutRules, Panel!Forwards, Panel!RulesOf
<1>3. \A d, e : CutFw(jobs[w], d, e)' = CutFw(jobs[w], d, e)
  BY <1>2 DEF CutFw, Torn
<1>4. \A gone : CutPfs(jobs[w], gone)' = CutPfs(jobs[w], gone)
  BY DEF CutPfs, Panel!Forwards
<1>5. \A stuck : /\ DevWith(jobs[w], Unlinked(jobs[w], stuck))'
                      = DevWith(jobs[w], Unlinked(jobs[w], stuck))
                 /\ UnlinkOK(jobs[w], stuck)' <=> UnlinkOK(jobs[w], stuck)
  BY DEF DevWith, Unlinked, UnlinkOK, Found0
<1>6. CutPeers(jobs[w])' = CutPeers(jobs[w])
  BY DEF CutPeers
<1> QED BY <1>1, <1>2, <1>3, <1>4, <1>5, <1>6

\* The request is at its next place.
LEMMA CutOn ==
    ASSUME NEW w \in Workers, CutStage(jobs[w]), Shown' = Shown, wan' = wan,
           jobs'[w].op = jobs[w].op, jobs'[w].i = jobs[w].i, jobs'[w].row = jobs[w].row,
           UNCHANGED <<ifaces, todo, pfTodo, owed>>,
           CutAt(jobs[w], jobs'[w], pfs', peers', dev', fw')
    PROVE  CutStage(jobs[w])'
<1> DEFINE j == jobs[w]
           k == jobs'[w]
<1>1. CutFirst(j, k, pfs', peers', dev', fw') => CutFirst(j, j, pfs, peers, dev, fw)'
  BY DEF CutFirst
<1>2. CutLater(j, k, peers', dev', fw') => CutLater(j, j, peers, dev, fw)'
  <2>1. \A d, e, stuck :
          /\ CutTear(j, k, peers', dev', fw', d) => CutTear(j, j, peers, dev, fw, d)'
          /\ CutUnlink(j, k, peers', dev', fw', d, e) => CutUnlink(j, j, peers, dev, fw, d, e)'
    <3>1. ASSUME NEW d, CutTear(j, k, peers', dev', fw', d)
          PROVE  CutTear(j, j, peers, dev, fw, d)'
      BY <3>1, CutStays DEF CutTear
    <3>2. ASSUME NEW d, NEW e, CutUnlink(j, k, peers', dev', fw', d, e)
          PROVE  CutUnlink(j, j, peers, dev, fw, d, e)'
      BY <3>2, CutStays DEF CutUnlink
    <3> QED BY <3>1, <3>2
  <2>2. \A d, e, stuck :
          CutRest(j, k, peers', dev', fw', d, e, stuck)
            => CutRest(j, j, peers, dev, fw, d, e, stuck)'
    <3> SUFFICES ASSUME NEW d, NEW e, NEW stuck, CutRest(j, k, peers', dev', fw', d, e, stuck)
                 PROVE  CutRest(j, j, peers, dev, fw, d, e, stuck)'
      OBVIOUS
    <3>1. dev' = DevWith(j, Unlinked(j, stuck))' /\ fw' = CutFw(j, d, e)'
      BY CutStays DEF CutRest
    <3>2. k.verdict = IF UnlinkOK(j, stuck)' THEN "cut" ELSE "owed"
      BY CutStays DEF CutRest
    <3>3. \/ k.calls = <<MoveCut(j), LastCut(j)>>' /\ peers' = Shown.peers'
          \/ k.calls = <<LastCut(j)>>' /\ peers' = CutPeers(j)'
      BY CutStays DEF CutRest
    <3> QED BY <3>1, <3>2, <3>3 DEF CutRest
  <2> SUFFICES ASSUME NEW d \in SUBSET PfKinds, NEW e \in SUBSET NatKinds, NEW stuck \in BOOLEAN,
                      \/ CutTear(j, k, peers', dev', fw', d)
                      \/ CutUnlink(j, k, peers', dev', fw', d, e)
                      \/ CutRest(j, k, peers', dev', fw', d, e, stuck)
               PROVE  CutLater(j, j, peers, dev, fw)'
    BY DEF CutLater
  <2>3. \/ CutTear(j, j, peers, dev, fw, d)'
        \/ CutUnlink(j, j, peers, dev, fw, d, e)'
        \/ CutRest(j, j, peers, dev, fw, d, e, stuck)'
    BY <2>1, <2>2
  <2> QED BY <2>3 DEF CutLater
<1>3. CutAt(j, j, pfs, peers, dev, fw)'
  <2>1. CASE CutFirst(j, k, pfs', peers', dev', fw')
    BY <1>1, <2>1 DEF CutAt
  <2>2. CASE (\E gone \in BOOLEAN : pfs' = CutPfs(j, gone)) /\ CutLater(j, k, peers', dev', fw')
    <3>1. \E gone \in BOOLEAN : pfs' = CutPfs(jobs[w], gone)'
      BY <2>2, CutStays
    <3> QED BY <1>2, <2>2, <3>1 DEF CutAt
  <2> QED BY <2>1, <2>2 DEF CutAt
<1> QED BY <1>3 DEF CutStage

\* What such a call starts from.
LEMMA CutParts ==
    ASSUME NEW w \in Workers, CutServing(w)
    PROVE  /\ jobs[w].i \in Ifaces /\ NameOf[jobs[w].i] \in Names
           /\ ShownTyped /\ AnyFault /\ jobs[w].op \in CutOps
           /\ Asked(jobs[w], Shown.ifaces, Shown.peers, Shown.pfs, wan)
           /\ ifaces = Shown.ifaces /\ jobs[w].row = Shown.ifaces[jobs[w].i]
           /\ UNCHANGED <<todo, pfTodo, wan>>
           /\ \A call : At(w, call) <=> Head(jobs[w].calls) = call
           /\ DevWith(jobs[w], Found0(jobs[w].i)) = Shown.dev
           /\ jobs[w].op \notin PeerOps
<1>1. DevWith(jobs[w], Found0(jobs[w].i)) = Shown.dev
  BY DEF CutServing, Serving, ShownTyped, DevWith, Found0
<1> QED BY <1>1, WorkParts, BootAside DEF CutServing, Serving, CutStage, CutOps, PeerOps

\* It ends, refused or at its last call,
LEMMA CutStopped ==
    ASSUME NEW w \in Workers, CutServing(w), NEW v,
           Stop(w, v) \/ (Len(jobs[w].calls) = 1 /\ GoOn(w, jobs[w], v))
    PROVE  /\ Busy' = {} /\ Shown' = Now' /\ wan' = wan
           /\ todo' = Shown.todo /\ pfTodo' = Shown.pfTodo
           /\ owed' = OwedBy(Shown.owed, NameOf[jobs[w].i], v)
           /\ CutEnds(jobs[w]) => CutGoesOn(w)
<1>1. Busy' = {} /\ owed' = OwedBy(owed, NameOf[jobs[w].i], v) /\ Shown' = Now'
  BY Stopped, Onwards DEF CutServing
<1>2. CutEnds(jobs[w]) => Panel!Next
  BY CutParts, CutDone
<1> QED BY <1>1, <1>2, CutParts DEF CutServing, CutStage, CutGoesOn

\* or goes on.
LEMMA CutNext ==
    ASSUME NEW w \in Workers, CutServing(w), NEW v, GoOn(w, jobs[w], v), ifaces' = ifaces,
           NEW a \in {"unapply", "purgePfs", "teardown", "unlink", "trashPeers", "purgePeers"},
           Head(jobs[w].calls) = a, Len(jobs[w].calls) # 1
    PROVE  /\ jobs'[w].verdict = v /\ jobs'[w].calls = Tail(jobs[w].calls)
           /\ CutAt(jobs[w], jobs'[w], pfs', peers', dev', fw') => CutGoesOn(w)
<1>1. /\ Busy' = {w} /\ owed' = owed /\ NextJob(jobs'[w], jobs[w]) /\ Shown' = Shown
      /\ jobs'[w].verdict = v /\ jobs'[w].calls = Tail(jobs[w].calls)
      /\ jobs'[w].op = jobs[w].op /\ jobs'[w].i = jobs[w].i
  BY Onwards DEF CutServing
<1>2. jobs'[w].row = jobs[w].row /\ jobs'[w].new = jobs[w].new
  BY <1>1 DEF NextJob
<1>3. CutAt(jobs[w], jobs'[w], pfs', peers', dev', fw') => CutStage(jobs[w])'
  BY <1>1, <1>2, CutParts, CutOn DEF CutServing
<1> QED BY <1>1, <1>2, <1>3 DEF CutGoesOn

\* The forwards go first,
LEMMA CutCascades ==
    ASSUME NEW w \in Workers, CutServing(w),
           CutFirst(jobs[w], jobs[w], pfs, peers, dev, fw)
    PROVE  CutGoesOn(w)
<1> DEFINE j == jobs[w]
           k == jobs'[w]
           a == IF j.op = "delete" THEN "unapply" ELSE "purgePfs"
<1>1. /\ pfs = Shown.pfs /\ peers = Shown.peers /\ dev = Shown.dev /\ fw = Shown.fw
      /\ j.calls = <<a, "teardown", "unlink", MoveCut(j), LastCut(j)>> /\ j.verdict = "none"
      /\ j.op \in CutOps /\ j.op \notin PeerOps /\ Shown.pfs \in [Pfs -> Pf]
  BY CutParts DEF CutFirst, Script, CutOps, MoveCut, LastCut, ShownTyped
<1>2. /\ Head(j.calls) = a /\ Len(j.calls) # 1
      /\ Tail(j.calls) = <<"teardown", "unlink", MoveCut(j), LastCut(j)>>
  <2> HIDE DEF a
  <2> QED BY <1>1
<1>3. PICK F : Cascade(w, F)
  BY <1>2, CallAt DEF CutServing
<1>4. /\ ifaces' = ifaces /\ peers' = peers /\ dev' = dev
      /\ GoOn(w, j, "owed") /\ Followers(j) = Forwards(j.i)
  BY <1>1, <1>3 DEF Cascade, Owing, Followers, CutOps
<1>5. /\ fw' = Unapply(fw, Forwards(j.i), F)
      /\ \/ pfs' = pfs
         \/ /\ j.op = "purge"
            /\ pfs' = [f \in Pfs |-> IF f \in Found(Forwards(j.i), F)
                                       THEN BlankPf("purged") ELSE pfs[f]]
  BY <1>1, <1>2, <1>3, <1>4, CutParts DEF Cascade, CutOps
<1>6. PICK d \in SUBSET PfKinds : fw' = CutRules(j, d)
  BY <1>1, <1>5, CascadeRules DEF CutRules
<1>7. \E gone \in BOOLEAN : pfs' = CutPfs(j, gone)
  <2>1. CASE pfs' = pfs
    <3>1. CutPfs(j, FALSE) = Shown.pfs
      BY DEF CutPfs
    <3> QED BY <1>1, <2>1, <3>1
  <2>2. CASE pfs' # pfs
    <3>1. Found(Forwards(j.i), F) = Forwards(j.i)
      <4>1. Shown.pfs = [f \in Pfs |-> Shown.pfs[f]]
        BY <1>1
      <4>2. Found(Forwards(j.i), F) # {}
        BY <1>1, <1>5, <2>2, <4>1
      <4> QED BY <4>2 DEF Found
    <3>2. j.op = "purge" /\ Forwards(j.i) = Panel!Forwards(j.i)
      BY <1>1, <1>5, <2>2, CascadeRules
    <3>3. pfs' = CutPfs(j, TRUE)
      BY <1>1, <1>5, <2>2, <3>1, <3>2 DEF CutPfs
    <3> QED BY <3>3
  <2> QED BY <2>1, <2>2
<1>8. /\ k.verdict = "owed" /\ k.calls = <<"teardown", "unlink", MoveCut(j), LastCut(j)>>
      /\ CutAt(j, k, pfs', peers', dev', fw') => CutGoesOn(w)
  <2>1. a \in {"unapply", "purgePfs", "teardown", "unlink", "trashPeers", "purgePeers"}
    OBVIOUS
  <2> HIDE DEF a
  <2> QED BY <1>2, <1>4, <2>1, CutNext
<1>9. CutTear(j, k, peers', dev', fw', d)
  BY <1>1, <1>4, <1>6, <1>8 DEF CutTear
<1>10. {} \in SUBSET NatKinds /\ TRUE \in BOOLEAN
  OBVIOUS
<1>11. CutLater(j, k, peers', dev', fw')
  BY <1>9, <1>10 DEF CutLater
<1> QED BY <1>7, <1>8, <1>11 DEF CutAt

\* then the NAT rules of the interface,
LEMMA CutTears ==
    ASSUME NEW w \in Workers, CutServing(w), NEW d \in SUBSET PfKinds,
           CutTear(jobs[w], jobs[w], peers, dev, fw, d),
           \E gone \in BOOLEAN : pfs = CutPfs(jobs[w], gone)
    PROVE  CutGoesOn(w)
<1> DEFINE j == jobs[w]
           k == jobs'[w]
<1>1. /\ j.calls = <<"teardown", "unlink", MoveCut(j), LastCut(j)>> /\ j.verdict = "owed"
      /\ peers = Shown.peers /\ dev = Shown.dev /\ fw = CutRules(j, d)
      /\ j.row = Shown.ifaces[j.i]
  BY CutParts DEF CutTear
<1>2. /\ Head(j.calls) = "teardown" /\ Len(j.calls) # 1 /\ j.calls[2] = "unlink"
      /\ Tail(j.calls) = <<"unlink", MoveCut(j), LastCut(j)>>
  BY <1>1
<1>3. PICK F : Teardown(w, F)
  BY <1>2, CallAt DEF CutServing
<1>4. /\ ifaces' = ifaces /\ peers' = peers /\ pfs' = pfs /\ dev' = dev
      /\ fw' = TeardownNAT(fw, NameOf[j.i], j.row.addr, j.row.egress, wan, F)
      /\ GoOn(w, j, "owed")
  BY <1>1, <1>2, <1>3 DEF Teardown, RowsUntouched
<1>5. fw' = CutFw(j, d, F.del \intersect NatKinds)
  BY <1>1, <1>4, NatFaults DEF CutFw
<1>6. /\ k.verdict = "owed" /\ k.calls = <<"unlink", MoveCut(j), LastCut(j)>>
      /\ CutAt(j, k, pfs', peers', dev', fw') => CutGoesOn(w)
  BY <1>2, <1>4, CutNext
<1>7. CutUnlink(j, k, peers', dev', fw', d, F.del \intersect NatKinds)
  BY <1>1, <1>4, <1>5, <1>6 DEF CutUnlink
<1>8. F.del \intersect NatKinds \in SUBSET NatKinds /\ TRUE \in BOOLEAN
  OBVIOUS
<1>9. CutLater(j, k, peers', dev', fw')
  BY <1>7, <1>8 DEF CutLater
<1> QED BY <1>4, <1>6, <1>9 DEF CutAt

\* the device,
LEMMA CutUnlinks ==
    ASSUME NEW w \in Workers, CutServing(w), NEW d \in SUBSET PfKinds, NEW e \in SUBSET NatKinds,
           CutUnlink(jobs[w], jobs[w], peers, dev, fw, d, e),
           \E gone \in BOOLEAN : pfs = CutPfs(jobs[w], gone)
    PROVE  CutGoesOn(w)
<1> DEFINE j == jobs[w]
           k == jobs'[w]
<1>1. /\ j.calls = <<"unlink", MoveCut(j), LastCut(j)>>
      /\ peers = Shown.peers /\ dev = Shown.dev /\ fw = CutFw(j, d, e)
  BY DEF CutUnlink
<1>2. /\ Head(j.calls) = "unlink" /\ Len(j.calls) # 1
      /\ Tail(j.calls) = <<MoveCut(j), LastCut(j)>>
  BY <1>1
<1>3. PICK F : RemoveDevice(w, F)
  BY <1>2, CallAt DEF CutServing
<1> DEFINE stuck == "rmlink" \in F.host
<1>4. /\ ifaces' = ifaces /\ peers' = peers /\ pfs' = pfs /\ fw' = fw
      /\ dev' = [dev EXCEPT ![NameOf[j.i]] = RemoveLink(DevOf(j), F)]
      /\ GoOn(w, j, IF RemoveLinkOK(DevOf(j), F) THEN "cut" ELSE "owed")
  BY <1>2, <1>3, CutParts DEF RemoveDevice, RowsUntouched, SetDev
<1>5. /\ dev' = DevWith(j, Unlinked(j, stuck))
      /\ RemoveLinkOK(DevOf(j), F) <=> UnlinkOK(j, stuck)
  BY <1>1, <1>4 DEF DevOf, RemoveLink, RemoveLinkOK, DevWith, Unlinked, UnlinkOK, Found0
<1>6. /\ k.verdict = IF UnlinkOK(j, stuck) THEN "cut" ELSE "owed"
      /\ k.calls = <<MoveCut(j), LastCut(j)>>
      /\ CutAt(j, k, pfs', peers', dev', fw') => CutGoesOn(w)
  <2> DEFINE v == IF UnlinkOK(j, stuck) THEN "cut" ELSE "owed"
  <2>1. GoOn(w, j, v)
    BY <1>4, <1>5
  <2> HIDE DEF v
  <2>2. /\ k.verdict = v /\ k.calls = Tail(j.calls)
        /\ CutAt(j, k, pfs', peers', dev', fw') => CutGoesOn(w)
    BY <1>2, <1>4, <2>1, CutNext
  <2> QED BY <1>2, <2>2 DEF v
<1>7. stuck \in BOOLEAN
  OBVIOUS
<1> HIDE DEF stuck
<1>8. CutRest(j, k, peers', dev', fw', d, e, stuck)
  BY <1>1, <1>4, <1>5, <1>6 DEF CutRest
<1>9. CutLater(j, k, peers', dev', fw')
  BY <1>7, <1>8 DEF CutLater
<1> QED BY <1>4, <1>6, <1>9 DEF CutAt

\* its peers
LEMMA CutMoves ==
    ASSUME NEW w \in Workers, CutServing(w), NEW d \in SUBSET PfKinds, NEW e \in SUBSET NatKinds,
           NEW stuck \in BOOLEAN, NEW gone \in BOOLEAN, pfs = CutPfs(jobs[w], gone),
           CutRest(jobs[w], jobs[w], peers, dev, fw, d, e, stuck),
           jobs[w].calls = <<MoveCut(jobs[w]), LastCut(jobs[w])>>, peers = Shown.peers
    PROVE  CutGoesOn(w)
<1> DEFINE j == jobs[w]
           k == jobs'[w]
<1>1. /\ dev = DevWith(j, Unlinked(j, stuck)) /\ fw = CutFw(j, d, e)
      /\ j.verdict = IF UnlinkOK(j, stuck) THEN "cut" ELSE "owed"
  BY DEF CutRest
<1>2. /\ Head(j.calls) = MoveCut(j) /\ Len(j.calls) # 1 /\ Tail(j.calls) = <<LastCut(j)>>
  OBVIOUS
<1>3. j.op \in CutOps /\ MoveCut(j) \in {"trashPeers", "purgePeers"}
      /\ (MoveCut(j) = "trashPeers" <=> j.op = "delete")
  BY CutParts DEF MoveCut
<1>4. PICK F : MovePeers(w, F)
  BY <1>2, <1>3, CallAt DEF CutServing
<1>5. /\ ifaces' = ifaces /\ pfs' = pfs /\ dev' = dev /\ fw' = fw
  BY <1>4 DEF MovePeers, HostUntouched
<1>6. CASE "peers" \in F.db
  <2>1. Stop(w, "owed") /\ peers' = peers
    BY <1>4, <1>6 DEF MovePeers
  <2>2. /\ Shown' = Now' /\ wan' = wan /\ todo' = Shown.todo /\ pfTodo' = Shown.pfTodo
        /\ owed' = Shown.owed \union {NameOf[j.i]}
        /\ CutEnds(j) => CutGoesOn(w)
    <3> DEFINE v == "owed"
    <3>1. OwedBy(Shown.owed, NameOf[j.i], v) = Shown.owed \union {NameOf[j.i]}
      BY Reports
    <3>2. Stop(w, v)
      BY <2>1
    <3> HIDE DEF v
    <3>3. /\ Shown' = Now' /\ wan' = wan /\ todo' = Shown.todo /\ pfTodo' = Shown.pfTodo
          /\ owed' = OwedBy(Shown.owed, NameOf[j.i], v)
          /\ CutEnds(j) => CutGoesOn(w)
      BY <3>2, CutStopped
    <3> QED BY <3>1, <3>3
  <2>3. {"peers"} \in SUBSET {"peers", "row"} /\ {"peers"} # {} /\ "peers" \in {"peers"}
    OBVIOUS
  <2>4. ifaces' = Shown.ifaces /\ peers' = Shown.peers
    BY <1>5, <2>1, CutParts
  <2>5. CutEnds(j)
    BY <1>1, <1>5, <2>2, <2>3, <2>4 DEF CutEnds
  <2> QED BY <2>2, <2>5
<1>7. CASE "peers" \notin F.db
  <2>1. GoOn(w, j, j.verdict)
    BY <1>4, <1>7 DEF MovePeers
  <2>2. peers' = CutPeers(j)
    <3>1. /\ \A call : At(w, call) <=> MoveCut(j) = call
      BY <1>2, CutParts
    <3>2. CASE j.op = "delete"
      <4>1. At(w, "trashPeers")
        BY <1>3, <3>1, <3>2
      <4>2. \A p \in Peers : InTable(peers[p]) /\ peers[p].iface = j.i =>
              peers'[p] = [peers[p] EXCEPT !.st = "trashed"]
        BY <1>3, <1>4, <1>7, <3>1, <3>2, <4>1 DEF MovePeers
      <4>3. /\ \A p \in Peers : ~(InTable(peers[p]) /\ peers[p].iface = j.i) =>
                 peers'[p] = peers[p]
            /\ peers' = [p \in Peers |-> peers'[p]]
        BY <1>4, <1>7 DEF MovePeers
      <4> QED BY <3>2, <4>2, <4>3 DEF CutPeers
    <3>3. CASE j.op = "purge"
      <4>1. At(w, "purgePeers") /\ ~At(w, "trashPeers") /\ ~At(w, "restorePeers")
        BY <3>1, <3>3 DEF MoveCut
      <4>2. \A p \in Peers : InTable(peers[p]) /\ peers[p].iface = j.i =>
              peers'[p] = BlankPeer("purged")
        BY <1>4, <1>7, <4>1 DEF MovePeers
      <4>3. /\ \A p \in Peers : ~(InTable(peers[p]) /\ peers[p].iface = j.i) =>
                 peers'[p] = peers[p]
            /\ peers' = [p \in Peers |-> peers'[p]]
        BY <1>4, <1>7 DEF MovePeers
      <4> QED BY <3>3, <4>2, <4>3 DEF CutPeers
    <3> QED BY <1>3, <3>2, <3>3 DEF CutOps
  <2>3. /\ k.verdict = j.verdict /\ k.calls = Tail(j.calls)
        /\ CutAt(j, k, pfs', peers', dev', fw') => CutGoesOn(w)
    <3> DEFINE v == j.verdict
               a == MoveCut(j)
    <3>1. a \in {"unapply", "purgePfs", "teardown", "unlink", "trashPeers", "purgePeers"}
      BY <1>3
    <3>2. GoOn(w, j, v)
      BY <2>1
    <3>3. Head(j.calls) = a
      BY <1>2
    <3> HIDE DEF v, a
    <3>4. /\ k.verdict = v /\ k.calls = Tail(j.calls)
          /\ CutAt(j, k, pfs', peers', dev', fw') => CutGoesOn(w)
      BY <1>2, <1>5, <3>1, <3>2, <3>3, CutNext
    <3> QED BY <3>4 DEF v
  <2>4. CutRest(j, k, peers', dev', fw', d, e, stuck)
    BY <1>1, <1>2, <1>5, <2>2, <2>3 DEF CutRest
  <2>5. CutLater(j, k, peers', dev', fw')
    BY <2>4 DEF CutLater
  <2> QED BY <1>5, <2>3, <2>5 DEF CutAt
<1> QED BY <1>6, <1>7

\* and at last the row.
LEMMA CutFinishes ==
    ASSUME NEW w \in Workers, CutServing(w), NEW d \in SUBSET PfKinds, NEW e \in SUBSET NatKinds,
           NEW stuck \in BOOLEAN, NEW gone \in BOOLEAN, pfs = CutPfs(jobs[w], gone),
           CutRest(jobs[w], jobs[w], peers, dev, fw, d, e, stuck),
           jobs[w].calls = <<LastCut(jobs[w])>>, peers = CutPeers(jobs[w])
    PROVE  CutGoesOn(w)
<1> DEFINE j == jobs[w]
           n == NameOf[j.i]
<1>1. /\ dev = DevWith(j, Unlinked(j, stuck)) /\ fw = CutFw(j, d, e)
      /\ j.verdict = IF UnlinkOK(j, stuck) THEN "cut" ELSE "owed"
  BY DEF CutRest
<1>2. /\ Head(j.calls) = LastCut(j) /\ Len(j.calls) = 1
  OBVIOUS
<1>3. j.op \in CutOps /\ ifaces = Shown.ifaces /\ ShownTyped /\ j.i \in Ifaces
  BY CutParts
<1> DEFINE v == IF j.verdict = "cut" THEN "settled" ELSE "owed"
<1>4. \/ /\ Stop(w, "owed") /\ ifaces' = Shown.ifaces /\ peers' = CutPeers(j)
         /\ UNCHANGED <<pfs, dev, fw>>
      \/ /\ GoOn(w, j, v) /\ ifaces' = CutRows(j) /\ peers' = CutPeers(j)
         /\ UNCHANGED <<pfs, dev, fw>>
  <2>1. CASE j.op = "delete"
    <3>1. PICK F : TrashIface(w, F)
      BY <1>2, <2>1, CallAt DEF CutServing, LastCut
    <3>2. Active(j.i)
      BY <1>3, <2>1, CutParts DEF Asked, Entitled, Active
    <3>3. UNCHANGED <<peers, pfs, dev, fw>>
      BY <3>1 DEF TrashIface, HostUntouched
    <3>4. \/ Stop(w, "owed") /\ ifaces' = ifaces
          \/ GoOn(w, j, v) /\ ifaces' = [ifaces EXCEPT ![j.i].st = "trashed"]
      BY <3>1, <3>2 DEF TrashIface
    <3> QED BY <1>3, <2>1, <3>3, <3>4 DEF CutRows
  <2>2. CASE j.op = "purge"
    <3>1. PICK F : PurgeIface(w, F)
      BY <1>2, <2>2, CallAt DEF CutServing, LastCut
    <3>2. UNCHANGED <<pfs, dev, fw>>
      BY <3>1 DEF PurgeIface, HostUntouched
    <3>3. CASE "row" \in F.db
      BY <1>3, <3>1, <3>2, <3>3 DEF PurgeIface
    <3>4. CASE "row" \notin F.db
      <4>1. /\ GoOn(w, j, v) /\ ifaces' = [ifaces EXCEPT ![j.i] = BlankIface("purged")]
            /\ peers' = [p \in Peers |-> IF InTable(peers[p]) /\ peers[p].iface = j.i
                                           THEN BlankPeer("purged") ELSE peers[p]]
        BY <3>1, <3>4 DEF PurgeIface
      <4>2. \A p \in Peers : ~(InTable(peers[p]) /\ peers[p].iface = j.i)
        <5>1. BlankPeer("purged").st = "purged"
          BY DEF BlankPeer
        <5> QED BY <2>2, <5>1 DEF CutPeers, InTable
      <4>3. peers' = peers
        <5>1. peers = [p \in Peers |-> peers[p]]
          BY DEF CutPeers
        <5> QED BY <4>1, <4>2, <5>1
      <4> QED BY <1>3, <2>2, <3>2, <4>1, <4>3 DEF CutRows
    <3> QED BY <3>3, <3>4
  <2> QED BY <1>3, <2>1, <2>2 DEF CutOps
<1>5. CASE /\ Stop(w, "owed") /\ ifaces' = Shown.ifaces /\ peers' = CutPeers(j)
           /\ UNCHANGED <<pfs, dev, fw>>
  <2>1. /\ Shown' = Now' /\ wan' = wan /\ todo' = Shown.todo /\ pfTodo' = Shown.pfTodo
        /\ owed' = Shown.owed \union {n}
        /\ CutEnds(j) => CutGoesOn(w)
    <3> DEFINE o == "owed"
    <3>1. OwedBy(Shown.owed, n, o) = Shown.owed \union {n}
      BY Reports
    <3>2. Stop(w, o)
      BY <1>5
    <3> HIDE DEF o
    <3>3. /\ Shown' = Now' /\ wan' = wan /\ todo' = Shown.todo /\ pfTodo' = Shown.pfTodo
          /\ owed' = OwedBy(Shown.owed, n, o)
          /\ CutEnds(j) => CutGoesOn(w)
      BY <3>2, CutStopped
    <3> QED BY <3>1, <3>3
  <2>2. {"row"} \in SUBSET {"peers", "row"} /\ {"row"} # {} /\ "peers" \notin {"row"}
    OBVIOUS
  <2>3. CutEnds(j)
    BY <1>1, <1>5, <2>1, <2>2 DEF CutEnds
  <2> QED BY <2>1, <2>3
<1>6. CASE /\ GoOn(w, j, v) /\ ifaces' = CutRows(j) /\ peers' = CutPeers(j)
           /\ UNCHANGED <<pfs, dev, fw>>
  <2>1. /\ Shown' = Now' /\ wan' = wan /\ todo' = Shown.todo /\ pfTodo' = Shown.pfTodo
        /\ owed' = OwedBy(Shown.owed, n, v)
        /\ CutEnds(j) => CutGoesOn(w)
    <3>1. GoOn(w, j, v)
      BY <1>6
    <3> HIDE DEF v
    <3> QED BY <1>2, <3>1, CutStopped
  <2>2. owed' = IF UnlinkOK(j, stuck) THEN Shown.owed \ {n} ELSE Shown.owed \union {n}
    <3>1. v = IF UnlinkOK(j, stuck) THEN "settled" ELSE "owed"
      BY <1>1
    <3>2. /\ OwedBy(Shown.owed, n, "settled") = Shown.owed \ {n}
          /\ OwedBy(Shown.owed, n, "owed") = Shown.owed \union {n}
      BY Reports
    <3> HIDE DEF v
    <3> QED BY <2>1, <3>1, <3>2
  <2>3. {} \in SUBSET {"peers", "row"} /\ "peers" \notin {}
    OBVIOUS
  <2>4. CutEnds(j)
    BY <1>1, <1>6, <2>1, <2>2, <2>3 DEF CutEnds
  <2> QED BY <2>1, <2>4
<1> QED BY <1>4, <1>5, <1>6

\* Every call of a request that takes an interface away.
LEMMA CutRequestGoesOn ==
    ASSUME NEW w \in Workers, CutServing(w)
    PROVE  CutGoesOn(w)
<1> DEFINE j == jobs[w]
<1>1. CutAt(j, j, pfs, peers, dev, fw)
  BY DEF CutServing, CutStage
<1>2. CASE CutFirst(j, j, pfs, peers, dev, fw)
  BY <1>2, CutCascades
<1>3. CASE (\E gone \in BOOLEAN : pfs = CutPfs(j, gone)) /\ CutLater(j, j, peers, dev, fw)
  <2>1. PICK gone \in BOOLEAN : pfs = CutPfs(j, gone)
    BY <1>3
  <2>2. PICK d \in SUBSET PfKinds, e \in SUBSET NatKinds, stuck \in BOOLEAN :
          \/ CutTear(j, j, peers, dev, fw, d)
          \/ CutUnlink(j, j, peers, dev, fw, d, e)
          \/ CutRest(j, j, peers, dev, fw, d, e, stuck)
    BY <1>3 DEF CutLater
  <2>3. CASE CutTear(j, j, peers, dev, fw, d)
    BY <2>1, <2>3, CutTears
  <2>4. CASE CutUnlink(j, j, peers, dev, fw, d, e)
    BY <2>1, <2>4, CutUnlinks
  <2>5. CASE CutRest(j, j, peers, dev, fw, d, e, stuck)
    <3>1. \/ j.calls = <<MoveCut(j), LastCut(j)>> /\ peers = Shown.peers
          \/ j.calls = <<LastCut(j)>> /\ peers = CutPeers(j)
      BY <2>5 DEF CutRest
    <3> QED BY <2>1, <2>5, <3>1, CutMoves, CutFinishes
  <2> QED BY <2>2, <2>3, <2>4, <2>5
<1> QED BY <1>1, <1>2, <1>3 DEF CutAt

\* One that is killed has done no more than one that is refused a call.
LEMMA CutKilled ==
    ASSUME NEW w \in Workers, Killed(w), jobs[w].op \in CutOps, CutStage(jobs[w])
    PROVE  Panel!Next \/ UNCHANGED Panel!vars
<1> DEFINE j == jobs[w]
           n == NameOf[j.i]
<1>1. /\ j.i \in Ifaces /\ AnyFault /\ ShownTyped
      /\ Asked(j, Shown.ifaces, Shown.peers, Shown.pfs, wan)
      /\ DevWith(j, Found0(j.i)) = Shown.dev
  BY WorkParts DEF Killed, ShownTyped, DevWith, Found0
<1>2. /\ Shown' = Now' /\ UNCHANGED <<ifaces, peers, pfs, dev, fw, wan>>
      /\ todo' = Shown.todo /\ pfTodo' = Shown.pfTodo /\ ifaces' = Shown.ifaces
      /\ owed' = OwedBy(Shown.owed, n, j.verdict)
  BY KilledAt DEF CutStage
<1>3. CutEnds(j) => Panel!Next
  BY <1>1, CutDone
<1>4. CASE CutFirst(j, j, pfs, peers, dev, fw)
  <2>1. owed' = Shown.owed
    BY <1>2, <1>4, Reports DEF CutFirst
  <2>2. UNCHANGED Panel!vars
    BY <1>2, <1>4, <2>1 DEF CutFirst, Now, Panel!vars
  <2> QED BY <2>2
<1>5. CASE (\E gone \in BOOLEAN : pfs = CutPfs(j, gone)) /\ CutLater(j, j, peers, dev, fw)
  <2>1. PICK gone \in BOOLEAN : pfs = CutPfs(j, gone)
    BY <1>5
  <2>2. PICK d \in SUBSET PfKinds, e \in SUBSET NatKinds, stuck \in BOOLEAN :
          \/ CutTear(j, j, peers, dev, fw, d)
          \/ CutUnlink(j, j, peers, dev, fw, d, e)
          \/ CutRest(j, j, peers, dev, fw, d, e, stuck)
    BY <1>5 DEF CutLater
  <2>3. owed' = Shown.owed \union {n}
    BY <1>2, <2>2, Reports DEF CutTear, CutUnlink, CutRest
  <2>4. /\ {"peers"} \in SUBSET {"peers", "row"} /\ {"peers"} # {} /\ "peers" \in {"peers"}
        /\ {"row"} \in SUBSET {"peers", "row"} /\ {"row"} # {} /\ "peers" \notin {"row"}
    OBVIOUS
  <2>5. Unlinked(j, TRUE) = Found0(j.i) /\ TRUE \in BOOLEAN
    BY DEF Unlinked
  <2>6. ASSUME NEW x \in SUBSET NatKinds, NEW y \in BOOLEAN, NEW s \in SUBSET {"peers", "row"},
               s # {}, fw' = CutFw(j, d, x), dev' = DevWith(j, Unlinked(j, y)),
               peers' = IF "peers" \in s THEN Shown.peers ELSE CutPeers(j)
        PROVE  CutEnds(j)
    <3>1. /\ pfs' = CutPfs(j, gone) /\ ifaces' = IF s # {} THEN Shown.ifaces ELSE CutRows(j)
          /\ owed' = IF s = {} /\ UnlinkOK(j, y) THEN Shown.owed \ {n}
                     ELSE Shown.owed \union {n}
      BY <1>2, <2>1, <2>3, <2>6
    <3> QED BY <1>2, <2>6, <3>1 DEF CutEnds
  <2>7. CASE CutTear(j, j, peers, dev, fw, d)
    <3>1. fw' = CutFw(j, d, NatKinds)
      <4>1. CutFw(j, d, NatKinds) = CutRules(j, d)
        <5>1. \A a, b, c : \A x \in NatRules(a, b, c) : x[1] \in NatKinds
          BY RuleKinds
        <5> QED BY <5>1 DEF CutFw, Torn, TeardownNAT, DeleteRules
      <4> QED BY <1>2, <2>7, <4>1 DEF CutTear
    <3>2. dev' = DevWith(j, Unlinked(j, TRUE)) /\ peers' = Shown.peers
      BY <1>1, <1>2, <2>5, <2>7 DEF CutTear
    <3> QED BY <1>3, <2>4, <2>5, <2>6, <3>1, <3>2
  <2>8. CASE CutUnlink(j, j, peers, dev, fw, d, e)
    <3>1. fw' = CutFw(j, d, e) /\ dev' = DevWith(j, Unlinked(j, TRUE)) /\ peers' = Shown.peers
      BY <1>1, <1>2, <2>5, <2>8 DEF CutUnlink
    <3> QED BY <1>3, <2>4, <2>5, <2>6, <3>1
  <2>9. CASE CutRest(j, j, peers, dev, fw, d, e, stuck)
    <3>1. /\ fw' = CutFw(j, d, e) /\ dev' = DevWith(j, Unlinked(j, stuck))
          /\ peers' = Shown.peers \/ peers' = CutPeers(j)
      BY <1>2, <2>9 DEF CutRest
    <3> QED BY <1>3, <2>4, <2>6, <3>1
  <2> QED BY <2>2, <2>7, <2>8, <2>9
<1> QED BY <1>4, <1>5 DEF CutStage, CutAt

\* Such a request is taken up.
LEMMA CutTakenUp ==
    ASSUME NEW w \in Workers, NEW m, TakesUp(w, m), m.op \in CutOps,
           SameJob(jobs'[w], m), Shown' = Now
    PROVE  CutStage(jobs[w])'
<1> DEFINE k == jobs'[w]
<1>1. /\ k.calls = Script[k.op] /\ k.verdict = "none" /\ k.row = ifaces[k.i]
  BY DEF TakesUp, Origin, SameJob, CutOps
<1>2. UNCHANGED <<ifaces, peers, pfs, dev, fw, wan, owed, todo, pfTodo>>
  BY DEF TakesUp, db, boot, CutOps
<1>3. /\ Now.ifaces = ifaces /\ Now.peers = peers /\ Now.pfs = pfs /\ Now.dev = dev
      /\ Now.fw = fw /\ Now.todo = todo /\ Now.pfTodo = pfTodo /\ Now.owed = owed
  BY DEF Now
<1>4. CutFirst(jobs[w], jobs[w], pfs, peers, dev, fw)'
  BY <1>1, <1>2, <1>3 DEF CutFirst
<1> QED BY <1>1, <1>2, <1>3, <1>4 DEF CutStage, CutAt

-----------------------------------------------------------------------------
(* Every handler, and the theorem *)

\* Every request is one about a forward, one about a peer, one that applies an interface
\* or one that takes an interface away.
LEMMA OpsKnown ==
    /\ DOMAIN Script = PfOps \union PeerOps \union RecOps \union CutOps
    /\ \A op : /\ op \in PfOps => op \notin PeerOps \union RecOps \union CutOps
               /\ op \in PeerOps => op \notin RecOps \union CutOps
               /\ op \in RecOps => op \notin CutOps
<1>1. DOMAIN Script = PfOps \union PeerOps \union RecOps \union CutOps
  BY DEF Script, PfOps, PeerOps, RecOps, CutOps
<1>2. \A op : /\ op \in PfOps => op \notin PeerOps \union RecOps \union CutOps
              /\ op \in PeerOps => op \notin RecOps \union CutOps
              /\ op \in RecOps => op \notin CutOps
  BY DEF PfOps, PeerOps, RecOps, CutOps
<1> QED BY <1>1, <1>2

\* So is the one of every handler at work.
LEMMA BusyKnown ==
    ASSUME TInv, NEW w \in Busy
    PROVE  jobs[w].op \in DOMAIN Script
  BY DEF TInv, JobsFit, Fits, Job

\* Where a handler is, in terms of what it began with.
Stage(j) ==
    /\ j.op \in PfOps => PfStage(j)
    /\ j.op \in PeerOps => PeerStage(j)
    /\ j.op \in RecOps => RecStage(j)
    /\ j.op \in CutOps => CutStage(j)

\* Each call of a handler leads to its next place, or ends the request with what one
\* step of the panel comes to.
LEMMA CallsLand ==
    ASSUME NEW w \in Workers, Serving(w), ShownHoused, Call(w), Stage(jobs[w]),
           jobs[w].op \in DOMAIN Script
    PROVE  IF Busy' = {} THEN Panel!Next \/ UNCHANGED Panel!vars
           ELSE /\ NextJob(jobs'[w], jobs[w]) /\ jobs'[w].new = jobs[w].new
                /\ Stage(jobs[w])'
<1>1. CASE jobs[w].op \in PfOps
  <2>1. IF Busy' = {} THEN Panel!Next \/ UNCHANGED Panel!vars
        ELSE /\ NextJob(jobs'[w], jobs[w]) /\ jobs'[w].new = jobs[w].new
             /\ PfStage(jobs[w])'
    BY <1>1, PfCallsLand DEF Stage
  <2> QED BY <1>1, <2>1, OpsKnown DEF Stage, NextJob
<1>2. CASE jobs[w].op \in PeerOps
  <2>1. PeerGoesOn(w)
    BY <1>2, PeerRequestGoesOn DEF Stage
  <2> QED BY <1>2, <2>1, OpsKnown DEF Stage, NextJob, PeerGoesOn
<1>3. CASE jobs[w].op \in RecOps
  <2>1. RecGoesOn(w)
    <3>1. RecServing(w)
      BY <1>3 DEF Stage, RecServing
    <3> QED BY <3>1, RecRequestGoesOn
  <2> QED BY <1>3, <2>1, OpsKnown DEF Stage, NextJob, RecGoesOn
<1>4. CASE jobs[w].op \in CutOps
  <2>1. CutGoesOn(w)
    <3>1. CutServing(w)
      BY <1>4 DEF Stage, CutServing
    <3> QED BY <3>1, CutRequestGoesOn
  <2> QED BY <1>4, <2>1, OpsKnown DEF Stage, NextJob, CutGoesOn
<1> QED BY <1>1, <1>2, <1>3, <1>4, OpsKnown

\* So does a kill between two calls.
LEMMA KillsLand ==
    ASSUME NEW w \in Workers, Killed(w), ShownHoused, Stage(jobs[w]),
           jobs[w].op \in DOMAIN Script
    PROVE  Panel!Next \/ UNCHANGED Panel!vars
  BY OpsKnown, PfKilled, PeerKilled, RecKilled, CutKilled DEF Stage

\* A request that is taken up is at its first place.
LEMMA StageAtFirst ==
    ASSUME TInv, NEW w \in Workers, NEW m, TakesUp(w, m), SameJob(jobs'[w], m), Shown' = Now
    PROVE  Stage(jobs[w])'
<1>1. jobs'[w].op = m.op
  BY DEF SameJob
<1>2. m.op \in PfOps => PfStage(jobs[w])'
  BY PfTakenUp
<1>3. m.op \in PeerOps => PeerStage(jobs[w])'
  BY PeerTakenUp
<1>4. m.op \in RecOps => RecStage(jobs[w])'
  BY RecTakenUp
<1>5. m.op \in CutOps => CutStage(jobs[w])'
  BY CutTakenUp
<1> QED BY <1>1, <1>2, <1>3, <1>4, <1>5 DEF Stage

\* What the panel shows while a request is in progress is what it began in, and the
\* request is where the calls it has made lead from there.
SerialInv ==
    /\ ShownTyped /\ ShownHoused
    /\ \A w \in Busy :
         /\ jobs[w].solo /\ Stage(jobs[w])
         /\ Asked(jobs[w], Shown.ifaces, Shown.peers, Shown.pfs, wan)

\* A step of the panel, or none.
PanelStep == Panel!Next \/ UNCHANGED Panel!vars

\* What is shown after a step.
LEMMA ShownAfter ==
    ASSUME SNext
    PROVE  IF Busy' = {} THEN Shown' = Now' ELSE Shown' = Shown
  BY DEF SNext, Shown

\* What is shown is typed.
LEMMA ShownStaysTyped ==
    ASSUME TInv', ShownTyped, Shown' = Now' \/ Shown' = Shown
    PROVE  ShownTyped'
  BY DEF ShownTyped, Now, TInv, TypeOK

\* Every peer shown has an interface.
LEMMA ShownStaysHoused ==
    ASSUME TablesHoused', ShownHoused, Shown' = Now' \/ Shown' = Shown
    PROVE  ShownHoused'
  BY DEF ShownHoused, Now, TablesHoused

\* A request is taken up: nothing shows.
LEMMA TakesSerially ==
    ASSUME OneWorker, TInv, TInv', TablesHoused', SerialInv, SNext,
           NEW w \in Workers, TakeUp(w)
    PROVE  SerialInv' /\ UNCHANGED Panel!vars
<1>1. PICK m : TakesUp(w, m)
  BY JobTaken
<1>2. /\ Fits(m) /\ Take(w, m) /\ Asked(m, ifaces, peers, pfs, wan)
      /\ wan' = wan
  BY <1>1 DEF TakesUp
<1>3. /\ w \notin Busy /\ Busy' = Busy \union {w} /\ SameJob(jobs'[w], m)
      /\ jobs'[w].solo <=> \A v \in Busy : ~Conflict(m, jobs[v])
  BY <1>2, TakeEffect
<1>4. Busy = {} /\ Busy' = {w}
  BY <1>3 DEF OneWorker, Busy
<1>5. Shown = Now /\ Shown' = Now
  BY <1>4, ShownAfter DEF Shown
<1>6. UNCHANGED Panel!vars
  BY <1>2, <1>5 DEF Panel!vars
<1>7. jobs'[w].solo /\ Stage(jobs[w])'
  BY <1>1, <1>3, <1>4, <1>5, StageAtFirst
<1>8. Asked(jobs[w], Shown.ifaces, Shown.peers, Shown.pfs, wan)'
  BY <1>2, <1>3, <1>5 DEF Asked, SameJob, Now
<1>9. ShownTyped' /\ ShownHoused'
  BY <1>5, ShownStaysTyped, ShownStaysHoused DEF SerialInv
<1> QED BY <1>4, <1>6, <1>7, <1>8, <1>9 DEF SerialInv

\* A request goes on, or is answered.
LEMMA CallsSerially ==
    ASSUME OneWorker, AnyFault, TInv, TInv', TablesHoused', SerialInv, SNext,
           NEW w \in Workers, Call(w)
    PROVE  SerialInv' /\ PanelStep
<1>1. w \in Busy /\ Busy = {w} /\ Moves(w) /\ wan' = wan
  BY CallMoves, BootAside DEF OneWorker, Busy
<1>2. IF Busy' = {} THEN Shown' = Now' ELSE Shown' = Shown
  BY ShownAfter
<1>3. ShownTyped' /\ ShownHoused'
  BY <1>2, ShownStaysTyped, ShownStaysHoused DEF SerialInv
<1>4. Serving(w) /\ Stage(jobs[w]) /\ ShownHoused
  BY <1>1, <1>2 DEF Serving, Showing, SerialInv
<1>5. IF Busy' = {} THEN PanelStep
      ELSE /\ NextJob(jobs'[w], jobs[w]) /\ jobs'[w].new = jobs[w].new
           /\ Stage(jobs[w])'
  BY <1>1, <1>4, BusyKnown, CallsLand DEF PanelStep
<1>6. CASE Busy' = {}
  BY <1>3, <1>5, <1>6 DEF SerialInv
<1>7. CASE Busy' # {}
  <2>1. Busy' = {w}
    BY <1>7 DEF OneWorker, Busy
  <2>2. Shown' = Shown
    BY <1>2, <1>7
  <2>3. UNCHANGED Panel!vars
    BY <1>1, <2>2 DEF Panel!vars
  <2>4. jobs'[w].solo /\ Asked(jobs[w], Shown.ifaces, Shown.peers, Shown.pfs, wan)'
    <3>1. Asked(jobs[w], Shown.ifaces, Shown.peers, Shown.pfs, wan) /\ jobs[w].solo
      BY <1>1 DEF SerialInv
    <3>2. /\ jobs'[w].solo = jobs[w].solo
          /\ Asked(jobs'[w], Shown.ifaces, Shown.peers, Shown.pfs, wan)
      BY <1>5, <1>7, <3>1, AskedStays
    <3> QED BY <1>1, <2>2, <3>1, <3>2
  <2> QED BY <1>3, <1>5, <1>7, <2>1, <2>3, <2>4 DEF SerialInv, PanelStep
<1> QED BY <1>6, <1>7

\* A crash, a start, and a default route that moves.
LEMMA OutsideSerially ==
    ASSUME OneWorker, AnyFault, TInv, TInv', TablesHoused', SerialInv, SNext, Outside
    PROVE  SerialInv' /\ PanelStep
<1>1. Busy' = {} /\ Shown' = Now'
  <2>1. Crash => Busy' = {}
    BY DEF Crash, Busy
  <2>2. RouteMoves => Busy' = {}
    BY DEF RouteMoves, Busy
  <2>3. \A F, reboot : Restart(F, reboot) => Busy' = {}
    BY DEF Restart, Busy, TInv
  <2> QED BY <2>1, <2>2, <2>3, ShownAfter DEF Outside
<1>2. SerialInv'
  BY <1>1, ShownStaysTyped, ShownStaysHoused DEF SerialInv
<1>3. ASSUME Crash PROVE PanelStep
  <2>1. CASE Busy = {}
    <3>1. owed' = owed
      BY <1>3, <2>1 DEF Crash
    <3> QED BY <1>1, <1>3, <2>1, <3>1
            DEF Shown, Now, Crash, RowsUntouched, HostUntouched, boot, PanelStep, Panel!vars
  <2>2. ASSUME NEW w \in Busy PROVE PanelStep
    <3>1. w \in Workers
      BY DEF Busy
    <3>2. Killed(w) /\ Stage(jobs[w]) /\ ShownHoused
      BY <1>3, <2>2 DEF Killed, SerialInv
    <3> QED BY <3>1, <3>2, BusyKnown, KillsLand DEF PanelStep
  <2> QED BY <2>1, <2>2
<1>4. ASSUME RouteMoves PROVE PanelStep
  <2>1. Shown = Now
    BY <1>4 DEF Shown, RouteMoves
  <2>2. Panel!RouteChange
    BY <1>1, <1>4, <2>1
       DEF RouteMoves, RouteChange, Panel!RouteChange, Now, Panel!db, Panel!boot, db, boot
  <2> QED BY <2>2 DEF PanelStep, Panel!Next
<1>5. ASSUME NEW F, NEW reboot \in BOOLEAN, Restart(F, reboot) PROVE PanelStep
  <2>1. Shown = Now /\ Start(F, reboot)
    BY <1>5 DEF Shown, Restart, TInv
  <2> DEFINE G == Failing({}, {}, {}, F.db \intersect {"list"})
  <2>2. G \in EveryFault /\ ("list" \in G.db <=> "list" \in F.db)
    BY FailingParts
  <2> HIDE DEF G
  <2>3. Panel!Wanted = Wanted
    BY <2>1 DEF Panel!Wanted, Wanted, Panel!Active, Active, Now
  <2>4. Panel!Start(G, reboot)
    BY <1>1, <2>1, <2>2, <2>3 DEF Panel!Start, Start, Now, Panel!db, db, Panel!NoDevice, NoDevice
  <2> QED BY <2>2, <2>4, PanelSteps DEF PanelStep, Panel!System
<1> QED BY <1>2, <1>3, <1>4, <1>5 DEF Outside

\* The invariant is kept, and every step is one of the panel or none.
LEMMA SerialStep ==
    ASSUME OneWorker, AnyFault, TInv, TInv', TablesHoused', SerialInv, [SNext]_svars
    PROVE  SerialInv' /\ [Panel!Next]_(Panel!vars)
<1>1. CASE UNCHANGED svars
  <2>1. UNCHANGED <<Shown, wan, jobs, Busy, ifaces, peers, pfs, dev, fw, todo, pfTodo, owed>>
    BY <1>1 DEF svars, rvars, vars, Shown, Now, Busy
  <2>2. UNCHANGED Panel!vars
    BY <2>1 DEF Panel!vars
  <2>3. SerialInv'
    <3>1. ASSUME NEW w \in Busy, Stage(jobs[w]) PROVE Stage(jobs[w])'
      <4>1. w \in Workers
        BY DEF Busy
      <4>2. PfStage(jobs[w])' <=> PfStage(jobs[w])
        BY <2>1 DEF PfStage
      <4>3. PeerStage(jobs[w])' <=> PeerStage(jobs[w])
        BY <2>1, <4>1, PeerStays DEF PeerStage, PeerBefore, PeerAfter
      <4>4. RecStage(jobs[w]) => RecStage(jobs[w])'
        <5> SUFFICES ASSUME RecStage(jobs[w]) PROVE RecStage(jobs[w])'
          OBVIOUS
        <5>1. RecAt(jobs[w], jobs'[w], ifaces', peers', dev', fw')
          BY <2>1 DEF RecStage
        <5> QED BY <2>1, <4>1, <5>1, RecOn
      <4>5. CutStage(jobs[w]) => CutStage(jobs[w])'
        <5> SUFFICES ASSUME CutStage(jobs[w]) PROVE CutStage(jobs[w])'
          OBVIOUS
        <5>1. CutAt(jobs[w], jobs'[w], pfs', peers', dev', fw')
          BY <2>1 DEF CutStage
        <5> QED BY <2>1, <4>1, <5>1, CutOn
      <4> QED BY <2>1, <3>1, <4>2, <4>3, <4>4, <4>5 DEF Stage
    <3> QED BY <2>1, <3>1 DEF SerialInv, ShownTyped, ShownHoused
  <2> QED BY <2>2, <2>3
<1>2. CASE SNext
  <2>1. ASSUME NEW w \in Workers, TakeUp(w) PROVE SerialInv' /\ PanelStep
    BY <1>2, <2>1, TakesSerially DEF PanelStep
  <2>2. ASSUME NEW w \in Workers, Call(w) PROVE SerialInv' /\ PanelStep
    BY <1>2, <2>2, CallsSerially
  <2>3. ASSUME Outside PROVE SerialInv' /\ PanelStep
    BY <1>2, <2>3, OutsideSerially
  <2> QED BY <1>2, <2>1, <2>2, <2>3 DEF SNext, RNext, PanelStep
<1> QED BY <1>1, <1>2

\* The panel that is shown starts empty.
LEMMA SerialStarts ==
    ASSUME SInit, TInv, TablesHoused
    PROVE  SerialInv /\ Panel!Init
<1>1. Busy = {} /\ Shown = Now
  BY DEF SInit, RInit, Busy, Shown
<1>2. SerialInv
  BY <1>1 DEF SerialInv, ShownTyped, ShownHoused, TablesHoused, Now, TInv, TypeOK
<1>3. Panel!Init
  BY <1>1 DEF SInit, RInit, Init, Now, Panel!Init, Panel!BlankIface, Panel!BlankPeer,
     Panel!BlankPf, Panel!NoDevice, BlankIface, BlankPeer, BlankPf, NoDevice
<1> QED BY <1>2, <1>3

\* With one worker and any pattern of failing calls, handlers that make one call after
\* another, fail at any of them or are killed between two implement the panel whose
\* handlers are one step, and the system's other steps are the panel's: every request
\* of interface_handler.go, peer_handler.go and portforward_handler.go and the bootstrap.
THEOREM RequestsImplementPanel ==
    OneWorker /\ AnyFault => (SSpec => RequestsAreAtomic)
<1> SUFFICES ASSUME OneWorker, AnyFault PROVE SSpec => RequestsAreAtomic
  OBVIOUS
<1>1. SInit /\ TInv /\ TablesHoused => SerialInv /\ Panel!Init
  BY SerialStarts
<1>2. TInv /\ TInv' /\ TablesHoused' /\ SerialInv /\ [SNext]_svars
        => SerialInv' /\ [Panel!Next]_(Panel!vars)
  BY SerialStep
<1>3. SSpec => []TInv /\ []TablesHoused
  <2>1. SInit => RInit
    BY DEF SInit
  <2>2. [SNext]_svars => [RNext]_rvars
    BY DEF SNext, svars
  <2>3. SSpec => RSpec
    BY <2>1, <2>2, PTL DEF SSpec, RSpec
  <2> QED BY <2>3, JobsStayTyped, HousedStays, PTL
<1> QED BY <1>1, <1>2, <1>3, PTL DEF SSpec, RequestsAreAtomic, Panel!Spec
=============================================================================

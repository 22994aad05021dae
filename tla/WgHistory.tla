------------------------------ MODULE WgHistory -----------------------------
(***************************************************************************)
(* WgPanel with a history variable, for the property that needs to know    *)
(* who made a request.                                                     *)
(***************************************************************************)
EXTENDS WgPanel

VARIABLE by      \* {the user} of the last step, {} when the system took it

hvars == <<vars, by>>

HInit == Init /\ by = {}

HNext ==
    \/ \E F \in FaultSets :
         \/ System(F) /\ by' = {}
         \/ \E u \in Users : Request(u, F) /\ by' = {u}
    \/ RouteChange /\ by' = {}

HSpec == HInit /\ [][HNext]_hvars

-----------------------------------------------------------------------------

RulesServing(i) == NatOf(i) \union RulesOf(Forwards(i))

\* Whatever an ordinary user asks for, an interface somebody else owns keeps its
\* row, its peers, its forwards, its device and its firewall rules: the owner
\* checks of every handler, taken together with what handlers touch through
\* shared names, subnets and cascades.
OwnerIsolation ==
    [][\A i \in Ifaces :
         /\ InTable(ifaces[i])
         /\ by' \intersect (SuperAdmins \union {ifaces[i].owner}) = {} /\ by' # {}
         => /\ ifaces'[i] = ifaces[i]
            /\ \A p \in Peers : InTable(peers[p]) /\ peers[p].iface = i =>
                 peers'[p] = peers[p]
            /\ \A f \in Forwards(i) : pfs'[f] = pfs[f]
            /\ dev'[NameOf[i]] = dev[NameOf[i]]
            /\ fw' \intersect RulesServing(i) = fw \intersect RulesServing(i)]_hvars
=============================================================================

----------------------------- MODULE MCWgPanel -----------------------------
(***************************************************************************)
(* Small instances of WgPanel for TLC.                                     *)
(***************************************************************************)
EXTENDS WgPanel, TLC

CONSTANTS i1, i2, n1, n2, p1, p2, f1, f2, a1, a2, a3, eth0, eth1, u1, u2, root

\* Two rows for one name: the second can only be inserted after a purge.
OneName == (i1 :> n1)
SharedName == (i1 :> n1 @@ i2 :> n1)
TwoNames == (i1 :> n1 @@ i2 :> n2)

OneSubnet   == (a1 :> "s1")
TwoSubnets  == (a1 :> "s1" @@ a2 :> "s2")
ThreeSubnets == (a1 :> "s1" @@ a2 :> "s2" @@ a3 :> "s3")

\* The broadcast address is not told apart from the hosts.
OneHost  == (a1 :> {2} )
TwoHosts == (a1 :> {2, 3})
OneHostEach == (a1 :> {2} @@ a2 :> {3})
NoHosts == (a1 :> {} @@ a2 :> {} @@ a3 :> {})

OneChoice    == (i1 :> {a1})
OneChoice2   == (i1 :> {a1} @@ i2 :> {a1})
OwnChoices   == (i1 :> {a1} @@ i2 :> {a2})
MovingChoices == (i1 :> {a1, a3} @@ i2 :> {a2})

\* Listen ports apart from public ports.
PortsApart  == [listen |-> {1}, public |-> {2}, target |-> {1, 2}]
TwoPublic   == [listen |-> {1}, public |-> {2, 3}, target |-> {1, 2}]

NoFault == [host |-> {}, add |-> {}, del |-> {}, db |-> {}]
NoFaults == {NoFault}

\* At most one kind of kernel call or statement fails while a handler runs.
DeviceFaults == {NoFault}
    \union {[NoFault EXCEPT !.host = {k}] : k \in HostFaults \ {"forwarding"}}
    \union {[NoFault EXCEPT !.db = {k}] :
              k \in {"save", "peers", "row", "load", "list"}}

\* One failure of each kind a NAT rule can notice: before, at and after the save.
NatFaults == {NoFault, [NoFault EXCEPT !.host = {"device"}]}
    \union {[NoFault EXCEPT !.db = {k}] : k \in {"save", "row"}}
=============================================================================

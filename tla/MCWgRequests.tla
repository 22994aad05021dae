---------------------------- MODULE MCWgRequests ----------------------------
(***************************************************************************)
(* Small instances of WgRequests for TLC.                                  *)
(***************************************************************************)
EXTENDS MCWgPanel, WgRequests

CONSTANTS w1, w2

AllRequests == DOMAIN Script

\* The call that removes a device fails, and the handler goes on or gives up, or one
\* statement fails, and the handler ends.
MidwayFaults ==
    {NoFault, [NoFault EXCEPT !.host = {"rmlink"}]}
      \union {[NoFault EXCEPT !.db = {b}] : b \in {"save", "row"}}

\* Requests on one device without NAT and forwards, whose rows are not restored or
\* purged: the calls these make.
OverlapCall(w) ==
    \E F \in FaultSets :
      \/ InsertIface(w, F) \/ SaveIface(w, F) \/ TrashIface(w, F)
      \/ MovePeers(w, F)   \/ Load(w, F)      \/ Ensure(w, F)
      \/ Configure(w, F)   \/ Teardown(w, F)  \/ RemoveDevice(w, F)
      \/ PeerStatement(w, F) \/ Parent(w, F)  \/ SyncOne(w, F)
      \/ Cascade(w, F)

OverlapNext == Outside \/ \E w \in Workers : TakeUp(w) \/ OverlapCall(w)
OverlapSpec == RInit /\ [][OverlapNext]_rvars

\* Workers are interchangeable.
Symmetric == Permutations(Workers)
=============================================================================

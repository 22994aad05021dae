--------------------------- MODULE WgRequestsProofs ---------------------------
(***************************************************************************)
(* Theorems of WgRequests: handlers taken apart at their calls, with       *)
(* requests that overlap and crashes between any two calls.                *)
(***************************************************************************)
EXTENDS WgRequests, WgPanelProofs, SequenceTheorems

-----------------------------------------------------------------------------
(* Where a handler can be *)

\* What is left to do of reconcile and of syncPeer, at the end of a handler, or
\* before its last call.
Reconciling ==
    {<<"load">>, <<"ensure", "configure", "setup">>, <<"ensure", "configure", "teardown">>,
     <<"configure", "setup">>, <<"configure", "teardown">>, <<"setup">>, <<"egress">>,
     <<"teardown">>, <<"teardown", "rmlink">>, <<"rmlink">>}
ReconcilingBefore(last) ==
    {<<"load", last>>, <<"ensure", "configure", "setup", last>>,
     <<"ensure", "configure", "teardown", last>>, <<"configure", "setup", last>>,
     <<"configure", "teardown", last>>, <<"setup", last>>, <<"egress", last>>,
     <<"teardown", last>>, <<"teardown", "rmlink", last>>, <<"rmlink", last>>, <<last>>}
SyncingPeer == {<<"parent">>, <<"ensure", "peer">>, <<"peer">>}
SyncingBefore(last) ==
    {<<"parent", last>>, <<"ensure", "peer", last>>, <<"peer", last>>, <<last>>}

\* The calls a handler may have left.
Place(op, c) ==
    \/ op \in {"sync", "boot"} /\ c \in Reconciling
    \/ op = "create" /\ (c = <<"insertIface", "load">> \/ c \in Reconciling)
    \/ /\ op = "update"
       /\ \/ c \in {<<"teardown", "saveIface", "load">>, <<"saveIface", "load">>}
          \/ c \in ReconcilingBefore("reapply")
          \/ c \in ReconcilingBefore("unapply")
    \/ /\ op = "delete"
       /\ c \in {<<"unapply", "teardown", "unlink", "trashPeers", "trashIface">>,
                 <<"teardown", "unlink", "trashPeers", "trashIface">>,
                 <<"unlink", "trashPeers", "trashIface">>,
                 <<"trashPeers", "trashIface">>, <<"trashIface">>}
    \/ /\ op = "restore"
       /\ \/ c \in {<<"restoreIface", "restorePeers", "load", "reapply">>,
                    <<"restorePeers", "load", "reapply">>}
          \/ c \in ReconcilingBefore("reapply")
    \/ /\ op = "purge"
       /\ c \in {<<"purgePfs", "teardown", "unlink", "purgePeers", "purgeIface">>,
                 <<"teardown", "unlink", "purgePeers", "purgeIface">>,
                 <<"unlink", "purgePeers", "purgeIface">>,
                 <<"purgePeers", "purgeIface">>, <<"purgeIface">>}
    \/ op = "bootPfs" /\ c = <<"reapplyAll">>
    \/ op = "addPeer" /\ (c = <<"insertPeer", "parent">> \/ c \in SyncingPeer)
    \/ op = "editPeer" /\ (c = <<"savePeer", "parent">> \/ c \in SyncingPeer)
    \/ /\ op = "delPeer"
       /\ \/ c \in {<<"unapply", "trashPeer", "parent">>, <<"trashPeer", "parent">>}
          \/ c \in SyncingPeer
    \/ /\ op = "restorePeer"
       /\ c = <<"restorePeer", "parent", "reapply">> \/ c \in SyncingBefore("reapply")
    \/ /\ op = "purgePeer"
       /\ \/ c \in {<<"purgePfs", "purgePeer", "parent">>, <<"purgePeer", "parent">>}
          \/ c \in SyncingPeer
    \/ op = "addPf" /\ c \in {<<"insertPf", "applyPf">>, <<"applyPf">>}
    \/ op = "editPf" /\ c \in {<<"removePf", "savePf", "applyPf">>, <<"savePf", "applyPf">>,
                               <<"applyPf">>}
    \/ op = "delPf" /\ c \in {<<"removePf", "deletePf">>, <<"deletePf">>}

\* Short sequences, call by call.
LEMMA Short ==
    /\ \A a : Len(<<a>>) = 1 /\ Head(<<a>>) = a /\ Tail(<<a>>) = <<>>
    /\ \A a, b : Len(<<a, b>>) = 2 /\ Head(<<a, b>>) = a /\ Tail(<<a, b>>) = <<b>>
    /\ \A a, b, c : /\ Len(<<a, b, c>>) = 3 /\ Head(<<a, b, c>>) = a
                    /\ Tail(<<a, b, c>>) = <<b, c>>
    /\ \A a, b, c, d : /\ Len(<<a, b, c, d>>) = 4 /\ Head(<<a, b, c, d>>) = a
                       /\ Tail(<<a, b, c, d>>) = <<b, c, d>>
    /\ \A a, b, c, d, e : /\ Len(<<a, b, c, d, e>>) = 5 /\ Head(<<a, b, c, d, e>>) = a
                          /\ Tail(<<a, b, c, d, e>>) = <<b, c, d, e>>
<1>1. \A a : Len(<<a>>) = 1 /\ Head(<<a>>) = a /\ Tail(<<a>>) = <<>>
  OBVIOUS
<1>2. \A a, b : Len(<<a, b>>) = 2 /\ Head(<<a, b>>) = a /\ Tail(<<a, b>>) = <<b>>
  OBVIOUS
<1>3. \A a, b, c : /\ Len(<<a, b, c>>) = 3 /\ Head(<<a, b, c>>) = a
                   /\ Tail(<<a, b, c>>) = <<b, c>>
  OBVIOUS
<1>4. \A a, b, c, d : /\ Len(<<a, b, c, d>>) = 4 /\ Head(<<a, b, c, d>>) = a
                      /\ Tail(<<a, b, c, d>>) = <<b, c, d>>
  OBVIOUS
<1>5. \A a, b, c, d, e : /\ Len(<<a, b, c, d, e>>) = 5 /\ Head(<<a, b, c, d, e>>) = a
                         /\ Tail(<<a, b, c, d, e>>) = <<b, c, d, e>>
  OBVIOUS
<1> QED BY <1>1, <1>2, <1>3, <1>4, <1>5

\* The calls of reconcile one after the other.
LEMMA ReconcilingOnward ==
    ASSUME NEW c \in Reconciling
    PROVE  /\ Len(c) \in 1..5
           /\ Len(c) > 1 => Tail(c) \in Reconciling
<1>1. /\ <<"setup">> \in Reconciling /\ <<"teardown">> \in Reconciling
      /\ <<"rmlink">> \in Reconciling
      /\ <<"configure", "setup">> \in Reconciling
      /\ <<"configure", "teardown">> \in Reconciling
  BY DEF Reconciling
<1>2. CASE \E a : c = <<a>>
  BY <1>2
<1>3. CASE c = <<"ensure", "configure", "setup">>
  BY <1>1, <1>3
<1>4. CASE c = <<"ensure", "configure", "teardown">>
  BY <1>1, <1>4
<1>5. CASE c = <<"configure", "setup">>
  BY <1>1, <1>5
<1>6. CASE c = <<"configure", "teardown">>
  BY <1>1, <1>6
<1>7. CASE c = <<"teardown", "rmlink">>
  BY <1>1, <1>7
<1> QED BY <1>2, <1>3, <1>4, <1>5, <1>6, <1>7 DEF Reconciling
\* The same before a handler's last call, and for syncPeer.
LEMMA ReconcilingBeforeOnward ==
    ASSUME NEW last, NEW c \in ReconcilingBefore(last)
    PROVE  /\ Len(c) \in 1..5
           /\ Len(c) > 1 => Tail(c) \in ReconcilingBefore(last)
<1>1. /\ <<last>> \in ReconcilingBefore(last)
      /\ <<"setup", last>> \in ReconcilingBefore(last)
      /\ <<"teardown", last>> \in ReconcilingBefore(last)
      /\ <<"rmlink", last>> \in ReconcilingBefore(last)
      /\ <<"configure", "setup", last>> \in ReconcilingBefore(last)
      /\ <<"configure", "teardown", last>> \in ReconcilingBefore(last)
  BY DEF ReconcilingBefore
<1>2. CASE c = <<last>>
  BY <1>2
<1>3. CASE \E a : c = <<a, last>>
  BY <1>1, <1>3
<1>4. CASE c = <<"ensure", "configure", "setup", last>>
  BY <1>1, <1>4
<1>5. CASE c = <<"ensure", "configure", "teardown", last>>
  BY <1>1, <1>5
<1>6. CASE c = <<"configure", "setup", last>>
  BY <1>1, <1>6
<1>7. CASE c = <<"configure", "teardown", last>>
  BY <1>1, <1>7
<1>8. CASE c = <<"teardown", "rmlink", last>>
  BY <1>1, <1>8
<1> QED BY <1>2, <1>3, <1>4, <1>5, <1>6, <1>7, <1>8 DEF ReconcilingBefore

\* What remains of a one-peer apply after its first call is again the rest of one.
LEMMA SyncingOnward ==
    /\ \A c \in SyncingPeer : Len(c) \in 1..5 /\ (Len(c) > 1 => Tail(c) \in SyncingPeer)
    /\ \A last : \A c \in SyncingBefore(last) :
         Len(c) \in 1..5 /\ (Len(c) > 1 => Tail(c) \in SyncingBefore(last))
<1>1. ASSUME NEW c \in SyncingPeer
      PROVE  Len(c) \in 1..5 /\ (Len(c) > 1 => Tail(c) \in SyncingPeer)
  <2>1. <<"peer">> \in SyncingPeer
    BY DEF SyncingPeer
  <2>2. CASE \E a : c = <<a>>
    BY <2>2
  <2>3. CASE c = <<"ensure", "peer">>
    BY <2>1, <2>3
  <2> QED BY <2>2, <2>3 DEF SyncingPeer
<1>2. ASSUME NEW last, NEW c \in SyncingBefore(last)
      PROVE  Len(c) \in 1..5 /\ (Len(c) > 1 => Tail(c) \in SyncingBefore(last))
  <2>1. <<"peer", last>> \in SyncingBefore(last) /\ <<last>> \in SyncingBefore(last)
    BY DEF SyncingBefore
  <2>2. CASE c = <<last>>
    BY <2>2
  <2>3. CASE \E a : c = <<a, last>>
    BY <2>1, <2>3
  <2>4. CASE c = <<"ensure", "peer", last>>
    BY <2>1, <2>4
  <2> QED BY <2>2, <2>3, <2>4 DEF SyncingBefore
<1> QED BY <1>1, <1>2

\* Where the script of a handler goes on as it is, it is in its place after the call.
LEMMA Onward ==
    ASSUME NEW op, NEW c, Place(op, c)
    PROVE  /\ Len(c) \in 1..5
           /\ Len(c) > 1 /\ Head(c) \notin {"load", "saveIface"} => Place(op, Tail(c))
<1>1. CASE op \in {"sync", "boot", "create"} /\ c \in Reconciling
  BY <1>1, ReconcilingOnward DEF Place
<1>2. ASSUME NEW last, op \in {"update", "restore"}, c \in ReconcilingBefore(last),
             op = "restore" => last = "reapply", last \in {"reapply", "unapply"}
      PROVE  /\ Len(c) \in 1..5
             /\ Len(c) > 1 => Place(op, Tail(c))
  BY <1>2, ReconcilingBeforeOnward DEF Place
<1>3. CASE op \in {"addPeer", "editPeer", "delPeer", "purgePeer"} /\ c \in SyncingPeer
  BY <1>3, SyncingOnward DEF Place
<1>4. CASE op = "restorePeer" /\ c \in SyncingBefore("reapply")
  BY <1>4, SyncingOnward DEF Place
<1>5. CASE op = "create" /\ c = <<"insertIface", "load">>
  <2>1. Place("create", <<"load">>)
    BY DEF Place, Reconciling
  <2> QED BY <1>5, <2>1
<1>6. CASE op = "update" /\ c = <<"teardown", "saveIface", "load">>
  <2>1. Place("update", <<"saveIface", "load">>)
    BY DEF Place
  <2> QED BY <1>6, <2>1
<1>7. CASE op = "update" /\ c = <<"saveIface", "load">>
  BY <1>7
<1>8. CASE op = "delete" /\ c \in {<<"unapply", "teardown", "unlink", "trashPeers", "trashIface">>,
                                <<"teardown", "unlink", "trashPeers", "trashIface">>,
                                <<"unlink", "trashPeers", "trashIface">>,
                                <<"trashPeers", "trashIface">>,
                                <<"trashIface">>}
  <2>1. /\ Place("delete", <<"teardown", "unlink", "trashPeers", "trashIface">>)
        /\ Place("delete", <<"unlink", "trashPeers", "trashIface">>)
        /\ Place("delete", <<"trashPeers", "trashIface">>)
        /\ Place("delete", <<"trashIface">>)
    BY DEF Place
  <2>2. CASE c = <<"unapply", "teardown", "unlink", "trashPeers", "trashIface">>
    BY <1>8, <2>1, <2>2
  <2>3. CASE c = <<"teardown", "unlink", "trashPeers", "trashIface">>
    BY <1>8, <2>1, <2>3
  <2>4. CASE c = <<"unlink", "trashPeers", "trashIface">>
    BY <1>8, <2>1, <2>4
  <2>5. CASE c = <<"trashPeers", "trashIface">>
    BY <1>8, <2>1, <2>5
  <2>6. CASE c = <<"trashIface">>
    BY <1>8, <2>1, <2>6
  <2> QED BY <1>8, <2>2, <2>3, <2>4, <2>5, <2>6
<1>9. CASE op = "purge" /\ c \in {<<"purgePfs", "teardown", "unlink", "purgePeers", "purgeIface">>,
                                <<"teardown", "unlink", "purgePeers", "purgeIface">>,
                                <<"unlink", "purgePeers", "purgeIface">>,
                                <<"purgePeers", "purgeIface">>,
                                <<"purgeIface">>}
  <2>1. /\ Place("purge", <<"teardown", "unlink", "purgePeers", "purgeIface">>)
        /\ Place("purge", <<"unlink", "purgePeers", "purgeIface">>)
        /\ Place("purge", <<"purgePeers", "purgeIface">>)
        /\ Place("purge", <<"purgeIface">>)
    BY DEF Place
  <2>2. CASE c = <<"purgePfs", "teardown", "unlink", "purgePeers", "purgeIface">>
    BY <1>9, <2>1, <2>2
  <2>3. CASE c = <<"teardown", "unlink", "purgePeers", "purgeIface">>
    BY <1>9, <2>1, <2>3
  <2>4. CASE c = <<"unlink", "purgePeers", "purgeIface">>
    BY <1>9, <2>1, <2>4
  <2>5. CASE c = <<"purgePeers", "purgeIface">>
    BY <1>9, <2>1, <2>5
  <2>6. CASE c = <<"purgeIface">>
    BY <1>9, <2>1, <2>6
  <2> QED BY <1>9, <2>2, <2>3, <2>4, <2>5, <2>6
<1>10. CASE op = "restore" /\ c \in {<<"restoreIface", "restorePeers", "load", "reapply">>,
                                    <<"restorePeers", "load", "reapply">>}
  <2>1. /\ Place("restore", <<"restorePeers", "load", "reapply">>)
        /\ Place("restore", <<"load", "reapply">>)
    BY DEF Place, ReconcilingBefore
  <2>2. CASE c = <<"restoreIface", "restorePeers", "load", "reapply">>
    BY <1>10, <2>1, <2>2
  <2>3. CASE c = <<"restorePeers", "load", "reapply">>
    BY <1>10, <2>1, <2>3
  <2> QED BY <1>10, <2>2, <2>3
<1>11. CASE op = "bootPfs" /\ c = <<"reapplyAll">>
  BY <1>11
<1>12. CASE op = "addPeer" /\ c = <<"insertPeer", "parent">>
  <2>1. Place("addPeer", <<"parent">>)
    BY DEF Place, SyncingPeer
  <2> QED BY <1>12, <2>1
<1>13. CASE op = "editPeer" /\ c = <<"savePeer", "parent">>
  <2>1. Place("editPeer", <<"parent">>)
    BY DEF Place, SyncingPeer
  <2> QED BY <1>13, <2>1
<1>14. CASE op = "delPeer" /\ c \in {<<"unapply", "trashPeer", "parent">>,
                                    <<"trashPeer", "parent">>}
  <2>1. Place("delPeer", <<"trashPeer", "parent">>) /\ Place("delPeer", <<"parent">>)
    BY DEF Place, SyncingPeer
  <2>2. CASE c = <<"unapply", "trashPeer", "parent">>
    BY <1>14, <2>1, <2>2
  <2>3. CASE c = <<"trashPeer", "parent">>
    BY <1>14, <2>1, <2>3
  <2> QED BY <1>14, <2>2, <2>3
<1>15. CASE op = "restorePeer" /\ c = <<"restorePeer", "parent", "reapply">>
  <2>1. Place("restorePeer", <<"parent", "reapply">>)
    BY DEF Place, SyncingBefore
  <2> QED BY <1>15, <2>1
<1>16. CASE op = "purgePeer" /\ c \in {<<"purgePfs", "purgePeer", "parent">>,
                                      <<"purgePeer", "parent">>}
  <2>1. Place("purgePeer", <<"purgePeer", "parent">>) /\ Place("purgePeer", <<"parent">>)
    BY DEF Place, SyncingPeer
  <2>2. CASE c = <<"purgePfs", "purgePeer", "parent">>
    BY <1>16, <2>1, <2>2
  <2>3. CASE c = <<"purgePeer", "parent">>
    BY <1>16, <2>1, <2>3
  <2> QED BY <1>16, <2>2, <2>3
<1>17. CASE op = "addPf" /\ c \in {<<"insertPf", "applyPf">>,
                                <<"applyPf">>}
  <2>1. /\ Place("addPf", <<"applyPf">>)
    BY DEF Place
  <2>2. CASE c = <<"insertPf", "applyPf">>
    BY <1>17, <2>1, <2>2
  <2>3. CASE c = <<"applyPf">>
    BY <1>17, <2>1, <2>3
  <2> QED BY <1>17, <2>2, <2>3
<1>18. CASE op = "editPf" /\ c \in {<<"removePf", "savePf", "applyPf">>,
                                <<"savePf", "applyPf">>,
                                <<"applyPf">>}
  <2>1. /\ Place("editPf", <<"savePf", "applyPf">>)
        /\ Place("editPf", <<"applyPf">>)
    BY DEF Place
  <2>2. CASE c = <<"removePf", "savePf", "applyPf">>
    BY <1>18, <2>1, <2>2
  <2>3. CASE c = <<"savePf", "applyPf">>
    BY <1>18, <2>1, <2>3
  <2>4. CASE c = <<"applyPf">>
    BY <1>18, <2>1, <2>4
  <2> QED BY <1>18, <2>2, <2>3, <2>4
<1>19. CASE op = "delPf" /\ c \in {<<"removePf", "deletePf">>,
                                <<"deletePf">>}
  <2>1. /\ Place("delPf", <<"deletePf">>)
    BY DEF Place
  <2>2. CASE c = <<"removePf", "deletePf">>
    BY <1>19, <2>1, <2>2
  <2>3. CASE c = <<"deletePf">>
    BY <1>19, <2>1, <2>3
  <2> QED BY <1>19, <2>2, <2>3
<1> QED
  BY <1>1, <1>2, <1>3, <1>4, <1>5, <1>6, <1>7, <1>8, <1>9, <1>10, <1>11, <1>12, <1>13, <1>14, <1>15, <1>16, <1>17, <1>18, <1>19, SMTT(30) DEF Place

\* Short sequences put together.
LEMMA Joined ==
    /\ \A a, x, y : <<a>> \o <<x, y>> \o <<>> = <<a, x, y>>
    /\ \A a, b, x, y : <<a>> \o <<x, y>> \o <<b>> = <<a, x, y, b>>
    /\ \A a, x, y, z : <<a>> \o <<x, y, z>> \o <<>> = <<a, x, y, z>>
    /\ \A a, b, x, y, z : <<a>> \o <<x, y, z>> \o <<b>> = <<a, x, y, z, b>>
    /\ \A a, x : <<a, x>> \o <<>> = <<a, x>>
    /\ \A a, b, x : <<a, x>> \o <<b>> = <<a, x, b>>
<1>1. ASSUME NEW a, NEW x, NEW y
      PROVE  <<a>> \o <<x, y>> \o <<>> = <<a, x, y>>
  <2> DEFINE S == {a, x, y}
  <2>1. <<a>> \o <<x, y>> = <<a, x, y>>
    <3>1. /\ <<a>> \in Seq(S) /\ <<x, y>> \in Seq(S)
          /\ <<a, x, y>> \in Seq(S)
      OBVIOUS
    <3>2. /\ Len(<<a>> \o <<x, y>>) = 3
          /\ <<a>> \o <<x, y>> \in Seq(S)
          /\ \A k \in 1..3 : (<<a>> \o <<x, y>>)[k] = <<a, x, y>>[k]
      BY <3>1, ConcatProperties
    <3> QED BY <3>1, <3>2, SeqEqual
  <2>2. <<a, x, y>> \o <<>> = <<a, x, y>>
    <3>1. <<a, x, y>> \in Seq(S)
      OBVIOUS
    <3> QED BY <3>1, ConcatEmptySeq
  <2> QED BY <2>1, <2>2
<1>2. ASSUME NEW a, NEW b, NEW x, NEW y
      PROVE  <<a>> \o <<x, y>> \o <<b>> = <<a, x, y, b>>
  <2> DEFINE S == {a, b, x, y}
  <2>1. <<a>> \o <<x, y>> = <<a, x, y>>
    <3>1. /\ <<a>> \in Seq(S) /\ <<x, y>> \in Seq(S)
          /\ <<a, x, y>> \in Seq(S)
      OBVIOUS
    <3>2. /\ Len(<<a>> \o <<x, y>>) = 3
          /\ <<a>> \o <<x, y>> \in Seq(S)
          /\ \A k \in 1..3 : (<<a>> \o <<x, y>>)[k] = <<a, x, y>>[k]
      BY <3>1, ConcatProperties
    <3> QED BY <3>1, <3>2, SeqEqual
  <2>2. <<a, x, y>> \o <<b>> = <<a, x, y, b>>
    <3>1. /\ <<a, x, y>> \in Seq(S) /\ <<b>> \in Seq(S)
          /\ <<a, x, y, b>> \in Seq(S)
      OBVIOUS
    <3>2. /\ Len(<<a, x, y>> \o <<b>>) = 4
          /\ <<a, x, y>> \o <<b>> \in Seq(S)
          /\ \A k \in 1..4 : (<<a, x, y>> \o <<b>>)[k] = <<a, x, y, b>>[k]
      BY <3>1, ConcatProperties
    <3> QED BY <3>1, <3>2, SeqEqual
  <2> QED BY <2>1, <2>2
<1>3. ASSUME NEW a, NEW x, NEW y, NEW z
      PROVE  <<a>> \o <<x, y, z>> \o <<>> = <<a, x, y, z>>
  <2> DEFINE S == {a, x, y, z}
  <2>1. <<a>> \o <<x, y, z>> = <<a, x, y, z>>
    <3>1. /\ <<a>> \in Seq(S) /\ <<x, y, z>> \in Seq(S)
          /\ <<a, x, y, z>> \in Seq(S)
      OBVIOUS
    <3>2. /\ Len(<<a>> \o <<x, y, z>>) = 4
          /\ <<a>> \o <<x, y, z>> \in Seq(S)
          /\ \A k \in 1..4 : (<<a>> \o <<x, y, z>>)[k] = <<a, x, y, z>>[k]
      BY <3>1, ConcatProperties
    <3> QED BY <3>1, <3>2, SeqEqual
  <2>2. <<a, x, y, z>> \o <<>> = <<a, x, y, z>>
    <3>1. <<a, x, y, z>> \in Seq(S)
      OBVIOUS
    <3> QED BY <3>1, ConcatEmptySeq
  <2> QED BY <2>1, <2>2
<1>4. ASSUME NEW a, NEW b, NEW x, NEW y, NEW z
      PROVE  <<a>> \o <<x, y, z>> \o <<b>> = <<a, x, y, z, b>>
  <2> DEFINE S == {a, b, x, y, z}
  <2>1. <<a>> \o <<x, y, z>> = <<a, x, y, z>>
    <3>1. /\ <<a>> \in Seq(S) /\ <<x, y, z>> \in Seq(S)
          /\ <<a, x, y, z>> \in Seq(S)
      OBVIOUS
    <3>2. /\ Len(<<a>> \o <<x, y, z>>) = 4
          /\ <<a>> \o <<x, y, z>> \in Seq(S)
          /\ \A k \in 1..4 : (<<a>> \o <<x, y, z>>)[k] = <<a, x, y, z>>[k]
      BY <3>1, ConcatProperties
    <3> QED BY <3>1, <3>2, SeqEqual
  <2>2. <<a, x, y, z>> \o <<b>> = <<a, x, y, z, b>>
    <3>1. /\ <<a, x, y, z>> \in Seq(S) /\ <<b>> \in Seq(S)
          /\ <<a, x, y, z, b>> \in Seq(S)
      OBVIOUS
    <3>2. /\ Len(<<a, x, y, z>> \o <<b>>) = 5
          /\ <<a, x, y, z>> \o <<b>> \in Seq(S)
          /\ \A k \in 1..5 : (<<a, x, y, z>> \o <<b>>)[k] = <<a, x, y, z, b>>[k]
      BY <3>1, ConcatProperties
    <3> QED BY <3>1, <3>2, SeqEqual
  <2> QED BY <2>1, <2>2
<1>5. ASSUME NEW a, NEW x
      PROVE  <<a, x>> \o <<>> = <<a, x>>
  <2> DEFINE S == {a, x}
  <2>1. <<a, x>> \o <<>> = <<a, x>>
    <3>1. <<a, x>> \in Seq(S)
      OBVIOUS
    <3> QED BY <3>1, ConcatEmptySeq
  <2> QED BY <2>1
<1>6. ASSUME NEW a, NEW b, NEW x
      PROVE  <<a, x>> \o <<b>> = <<a, x, b>>
  <2> DEFINE S == {a, b, x}
  <2>1. <<a, x>> \o <<b>> = <<a, x, b>>
    <3>1. /\ <<a, x>> \in Seq(S) /\ <<b>> \in Seq(S)
          /\ <<a, x, b>> \in Seq(S)
      OBVIOUS
    <3>2. /\ Len(<<a, x>> \o <<b>>) = 3
          /\ <<a, x>> \o <<b>> \in Seq(S)
          /\ \A k \in 1..3 : (<<a, x>> \o <<b>>)[k] = <<a, x, b>>[k]
      BY <3>1, ConcatProperties
    <3> QED BY <3>1, <3>2, SeqEqual
  <2> QED BY <2>1
<1> QED BY <1>1, <1>2, <1>3, <1>4, <1>5, <1>6

\* Which sequences begin with a call that is replaced.
LEMMA Openings ==
    ASSUME NEW op, NEW c, Place(op, c)
    PROVE  /\ Head(c) = "load" =>
                \/ c = <<"load">> /\ op \in {"sync", "boot", "create"}
                \/ c = <<"load", "reapply">> /\ op \in {"update", "restore"}
                \/ c = <<"load", "unapply">> /\ op = "update"
           /\ Head(c) = "parent" =>
                \/ c = <<"parent">> /\ op \in {"addPeer", "editPeer", "delPeer", "purgePeer"}
                \/ c = <<"parent", "reapply">> /\ op = "restorePeer"
           /\ Head(c) = "setup" =>
                \/ c = <<"setup">> /\ op \in {"sync", "boot", "create"}
                \/ c = <<"setup", "reapply">> /\ op \in {"update", "restore"}
                \/ c = <<"setup", "unapply">> /\ op = "update"
           /\ Head(c) = "saveIface" =>
                c = <<"saveIface", "load">> /\ op = "update"
<1>1. \A r \in Reconciling :
        /\ Head(r) = "load" => r = <<"load">>
        /\ Head(r) = "setup" => r = <<"setup">>
        /\ Head(r) \notin {"parent", "saveIface"}
  BY DEF Reconciling
<1>2. \A last \in {"reapply", "unapply"} : \A r \in ReconcilingBefore(last) :
        /\ Head(r) = "load" => r = <<"load", last>>
        /\ Head(r) = "setup" => r = <<"setup", last>>
        /\ Head(r) \notin {"parent", "saveIface"}
  BY DEF ReconcilingBefore
<1>3. \A r \in SyncingPeer : /\ Head(r) = "parent" => r = <<"parent">>
                             /\ Head(r) \notin {"load", "setup", "saveIface"}
  BY DEF SyncingPeer
<1>4. \A r \in SyncingBefore("reapply") :
        /\ Head(r) = "parent" => r = <<"parent", "reapply">>
        /\ Head(r) \notin {"load", "setup", "saveIface"}
  BY DEF SyncingBefore
<1> QED BY <1>1, <1>2, <1>3, <1>4 DEF Place
\* A handler goes from `d' on to the call `next', in its place.
Goes(op, d, next) ==
    Len(d) \in 2..5 /\ Place(op, Tail(d)) /\ Head(Tail(d)) = next

\* A job goes on to the head of what remains, for scripts of two to five calls.
LEMMA Going ==
    ASSUME NEW op
    PROVE  /\ \A a, x : Place(op, <<x>>) => Goes(op, <<a, x>>, x)
           /\ \A a, x, y : Place(op, <<x, y>>) => Goes(op, <<a, x, y>>, x)
           /\ \A a, x, y, z : Place(op, <<x, y, z>>) => Goes(op, <<a, x, y, z>>, x)
           /\ \A a, x, y, z, b : Place(op, <<x, y, z, b>>) => Goes(op, <<a, x, y, z, b>>, x)
<1>1. \A a, x : Place(op, <<x>>) => Goes(op, <<a, x>>, x)
  BY DEF Goes
<1>2. \A a, x, y : Place(op, <<x, y>>) => Goes(op, <<a, x, y>>, x)
  BY DEF Goes
<1>3. \A a, x, y, z : Place(op, <<x, y, z>>) => Goes(op, <<a, x, y, z>>, x)
  BY DEF Goes
<1>4. \A a, x, y, z, b : Place(op, <<x, y, z, b>>) => Goes(op, <<a, x, y, z, b>>, x)
  BY DEF Goes
<1> QED BY <1>1, <1>2, <1>3, <1>4

\* What reconcile and syncPeer go on with is in its place, and so is what a detected
\* egress and a save add.
LEMMA Loaded ==
    ASSUME NEW op, NEW c, Place(op, c), Head(c) = "load", NEW row
    PROVE  /\ row.on => Goes(op, <<"load">> \o Applying(row) \o Tail(c), "ensure")
           /\ ~row.on => Goes(op, <<"load">> \o Applying(row) \o Tail(c), "teardown")
<1> DEFINE off == <<"teardown", "rmlink">>
           nat == <<"ensure", "configure", "setup">>
           plain == <<"ensure", "configure", "teardown">>
<1>1. \/ Applying(row) = off /\ ~row.on
      \/ Applying(row) = nat /\ row.on
      \/ Applying(row) = plain /\ row.on
  BY DEF Applying
<1>2. ASSUME c = <<"load">>, op \in {"sync", "boot", "create"}
      PROVE  /\ Goes(op, <<"load">> \o nat \o Tail(c), "ensure")
             /\ Goes(op, <<"load">> \o plain \o Tail(c), "ensure")
             /\ Goes(op, <<"load">> \o off \o Tail(c), "teardown")
  <2>1. Tail(c) = <<>>
    BY <1>2
  <2>2. /\ <<"load">> \o nat \o Tail(c) = <<"load", "ensure", "configure", "setup">>
        /\ <<"load">> \o plain \o Tail(c) = <<"load", "ensure", "configure", "teardown">>
        /\ <<"load">> \o off \o Tail(c) = <<"load", "teardown", "rmlink">>
    <3>1. <<"load">> \o nat \o <<>> = <<"load", "ensure", "configure", "setup">>
      BY Joined
    <3>2. <<"load">> \o plain \o <<>> = <<"load", "ensure", "configure", "teardown">>
      BY Joined
    <3>3. <<"load">> \o off \o <<>> = <<"load", "teardown", "rmlink">>
      BY Joined
    <3> HIDE DEF nat, plain, off
    <3> QED BY <2>1, <3>1, <3>2, <3>3, Zenon
  <2>3. Place(op, nat) /\ Place(op, plain) /\ Place(op, off)
    BY <1>2 DEF Place, Reconciling
  <2> HIDE DEF nat, plain, off
  <2>4. /\ Goes(op, <<"load", "ensure", "configure", "setup">>, "ensure")
        /\ Goes(op, <<"load", "ensure", "configure", "teardown">>, "ensure")
        /\ Goes(op, <<"load", "teardown", "rmlink">>, "teardown")
    BY <2>3, Going, Zenon DEF nat, plain, off
  <2> QED BY <2>2, <2>4, Zenon
<1>3. ASSUME NEW last \in {"reapply", "unapply"}, c = <<"load", last>>,
             op = "update" \/ (op = "restore" /\ last = "reapply")
      PROVE  /\ Goes(op, <<"load">> \o nat \o Tail(c), "ensure")
             /\ Goes(op, <<"load">> \o plain \o Tail(c), "ensure")
             /\ Goes(op, <<"load">> \o off \o Tail(c), "teardown")
  <2>1. Tail(c) = <<last>>
    BY <1>3
  <2>2. /\ <<"load">> \o nat \o Tail(c) = <<"load", "ensure", "configure", "setup", last>>
        /\ <<"load">> \o plain \o Tail(c) = <<"load", "ensure", "configure", "teardown", last>>
        /\ <<"load">> \o off \o Tail(c) = <<"load", "teardown", "rmlink", last>>
    <3>1. <<"load">> \o nat \o <<last>> = <<"load", "ensure", "configure", "setup", last>>
      BY Joined
    <3>2. <<"load">> \o plain \o <<last>> = <<"load", "ensure", "configure", "teardown", last>>
      BY Joined
    <3>3. <<"load">> \o off \o <<last>> = <<"load", "teardown", "rmlink", last>>
      BY Joined
    <3> HIDE DEF nat, plain, off
    <3> QED BY <2>1, <3>1, <3>2, <3>3, Zenon
  <2>3. /\ Place(op, <<"ensure", "configure", "setup", last>>)
        /\ Place(op, <<"ensure", "configure", "teardown", last>>)
        /\ Place(op, <<"teardown", "rmlink", last>>)
    BY <1>3 DEF Place, ReconcilingBefore
  <2>4. /\ Goes(op, <<"load", "ensure", "configure", "setup", last>>, "ensure")
        /\ Goes(op, <<"load", "ensure", "configure", "teardown", last>>, "ensure")
        /\ Goes(op, <<"load", "teardown", "rmlink", last>>, "teardown")
    BY <2>3, Going, Zenon
  <2> QED BY <2>2, <2>4, Zenon
<1>4. /\ Goes(op, <<"load">> \o nat \o Tail(c), "ensure")
      /\ Goes(op, <<"load">> \o plain \o Tail(c), "ensure")
      /\ Goes(op, <<"load">> \o off \o Tail(c), "teardown")
  BY <1>2, <1>3, Openings
<1> HIDE DEF nat, plain, off
<1> QED BY <1>1, <1>4

\* `parent', `setup' and `saveIface' put calls into a script, and it goes on in place.
LEMMA Replaced ==
    ASSUME NEW op, NEW c, Place(op, c)
    PROVE  /\ Head(c) = "parent" => Goes(op, <<"parent">> \o Syncing \o Tail(c), "ensure")
           /\ Head(c) = "setup" => Goes(op, <<"setup", "egress">> \o Tail(c), "egress")
           /\ Head(c) = "saveIface" =>
                \A last \in {"reapply", "unapply"} : Goes(op, c \o <<last>>, "load")
<1>1. ASSUME c = <<"parent">>, op \in {"addPeer", "editPeer", "delPeer", "purgePeer"}
      PROVE  Goes(op, <<"parent">> \o Syncing \o Tail(c), "ensure")
  <2>1. Tail(c) = <<>>
    BY <1>1
  <2>2. <<"parent">> \o Syncing \o Tail(c) = <<"parent", "ensure", "peer">>
    <3>1. <<"parent">> \o <<"ensure", "peer">> \o <<>> = <<"parent", "ensure", "peer">>
      BY Joined
    <3> QED BY <2>1, <3>1, Zenon DEF Syncing
  <2>3. Place(op, <<"ensure", "peer">>)
    BY <1>1 DEF Place, SyncingPeer
  <2>4. Goes(op, <<"parent", "ensure", "peer">>, "ensure")
    BY <2>3, Going, Zenon
  <2> QED BY <2>2, <2>4, Zenon
<1>2. ASSUME c = <<"parent", "reapply">>, op = "restorePeer"
      PROVE  Goes(op, <<"parent">> \o Syncing \o Tail(c), "ensure")
  <2>1. Tail(c) = <<"reapply">>
    BY <1>2
  <2>2. <<"parent">> \o Syncing \o Tail(c) = <<"parent", "ensure", "peer", "reapply">>
    <3>1. <<"parent">> \o <<"ensure", "peer">> \o <<"reapply">> = <<"parent", "ensure", "peer", "reapply">>
      BY Joined
    <3> QED BY <2>1, <3>1, Zenon DEF Syncing
  <2>3. Place(op, <<"ensure", "peer", "reapply">>)
    BY <1>2 DEF Place, SyncingBefore
  <2>4. Goes(op, <<"parent", "ensure", "peer", "reapply">>, "ensure")
    BY <2>3, Going, Zenon
  <2> QED BY <2>2, <2>4, Zenon
<1>3. ASSUME c = <<"setup">>, op \in {"sync", "boot", "create"}
      PROVE  Goes(op, <<"setup", "egress">> \o Tail(c), "egress")
  <2>1. Tail(c) = <<>>
    BY <1>3
  <2>2. <<"setup", "egress">> \o Tail(c) = <<"setup", "egress">>
    BY <2>1, Joined, Zenon
  <2>3. Place(op, <<"egress">>)
    BY <1>3 DEF Place, Reconciling
  <2>4. Goes(op, <<"setup", "egress">>, "egress")
    BY <2>3, Going, Zenon
  <2> QED BY <2>2, <2>4, Zenon
<1>4. ASSUME NEW last \in {"reapply", "unapply"}, c = <<"setup", last>>,
             op = "update" \/ (op = "restore" /\ last = "reapply")
      PROVE  Goes(op, <<"setup", "egress">> \o Tail(c), "egress")
  <2>1. Tail(c) = <<last>>
    BY <1>4
  <2>2. <<"setup", "egress">> \o Tail(c) = <<"setup", "egress", last>>
    BY <2>1, Joined, ZenonT(40)
  <2>3. Place(op, <<"egress", last>>)
    BY <1>4 DEF Place, ReconcilingBefore
  <2>4. Goes(op, <<"setup", "egress", last>>, "egress")
    BY <2>3, Going, Zenon
  <2> QED BY <2>2, <2>4, Zenon
<1>5. ASSUME NEW last \in {"reapply", "unapply"}, c = <<"saveIface", "load">>, op = "update"
      PROVE  Goes(op, c \o <<last>>, "load")
  <2>1. c \o <<last>> = <<"saveIface", "load", last>>
    BY <1>5, Joined, Zenon
  <2>2. Place(op, <<"load", last>>)
    BY <1>5 DEF Place, ReconcilingBefore
  <2>3. Goes(op, <<"saveIface", "load", last>>, "load")
    BY <2>2, Going, Zenon
  <2> QED BY <2>1, <2>3, Zenon
<1>6. Head(c) = "parent" => Goes(op, <<"parent">> \o Syncing \o Tail(c), "ensure")
  BY <1>1, <1>2, Openings
<1>7. Head(c) = "setup" => Goes(op, <<"setup", "egress">> \o Tail(c), "egress")
  BY <1>3, <1>4, Openings
<1>8. Head(c) = "saveIface" => \A last \in {"reapply", "unapply"} : Goes(op, c \o <<last>>, "load")
  BY <1>5, Openings
<1> QED BY <1>6, <1>7, <1>8

-----------------------------------------------------------------------------
(* Types *)

\* What the handlers read and write besides the calls they have left.
Carries(j) ==
    /\ j.op \in {"create", "update"} => j.new \in Iface /\ j.new.st = "active"
    /\ j.op \in PeerOps => j.p \in Peers /\ j.new \in Peer
    /\ j.op \in {"addPf", "editPf", "delPf"} => j.f \in Pfs /\ j.new \in Pf

Fits(j) == j \in Job /\ Place(j.op, j.calls) /\ Carries(j)

JobsFit == /\ jobs \in [Workers -> Job \union {NoJob}]
           /\ \A w \in Busy : Fits(jobs[w])

TInv == TypeOK /\ JobsFit /\ up \in BOOLEAN /\ (~up => Busy = {})

\* The calls by name.
LEMMA CallsNamed ==
    {"insertIface", "load", "teardown", "saveIface", "unapply", "unlink", "trashPeers",
     "trashIface", "restoreIface", "restorePeers", "reapply", "purgePfs", "purgePeers",
     "purgeIface", "reapplyAll", "insertPeer", "parent", "savePeer", "trashPeer",
     "restorePeer", "purgePeer", "insertPf", "applyPf", "removePf", "savePf", "deletePf",
     "rmlink", "ensure", "configure", "setup", "egress", "peer"} \subseteq Calls
<1>1. \A op \in DOMAIN Script : \A k \in 1..Len(Script[op]) : Script[op][k] \in Calls
  BY DEF Calls
<1>2. /\ DOMAIN Script = {"create", "update", "delete", "restore", "purge", "sync", "boot",
                          "bootPfs", "addPeer", "editPeer", "delPeer", "restorePeer",
                          "purgePeer", "addPf", "editPf", "delPf"}
      /\ Script["create"] = <<"insertIface", "load">>
      /\ Script["update"] = <<"teardown", "saveIface", "load">>
      /\ Script["delete"] = <<"unapply", "teardown", "unlink", "trashPeers", "trashIface">>
      /\ Script["restore"] = <<"restoreIface", "restorePeers", "load", "reapply">>
      /\ Script["purge"] = <<"purgePfs", "teardown", "unlink", "purgePeers", "purgeIface">>
      /\ Script["bootPfs"] = <<"reapplyAll">>
      /\ Script["addPeer"] = <<"insertPeer", "parent">>
      /\ Script["editPeer"] = <<"savePeer", "parent">>
      /\ Script["delPeer"] = <<"unapply", "trashPeer", "parent">>
      /\ Script["restorePeer"] = <<"restorePeer", "parent", "reapply">>
      /\ Script["purgePeer"] = <<"purgePfs", "purgePeer", "parent">>
      /\ Script["addPf"] = <<"insertPf", "applyPf">>
      /\ Script["editPf"] = <<"removePf", "savePf", "applyPf">>
      /\ Script["delPf"] = <<"removePf", "deletePf">>
  BY DEF Script, DelPf
<1>3. ASSUME NEW op \in DOMAIN Script
      PROVE  /\ \A a : Script[op] = <<a>> => a \in Calls
             /\ \A a, b : Script[op] = <<a, b>> => {a, b} \subseteq Calls
             /\ \A a, b, c : Script[op] = <<a, b, c>> => {a, b, c} \subseteq Calls
             /\ \A a, b, c, d : Script[op] = <<a, b, c, d>> => {a, b, c, d} \subseteq Calls
             /\ \A a, b, c, d, e :
                  Script[op] = <<a, b, c, d, e>> => {a, b, c, d, e} \subseteq Calls
  <2>1. \A s : s = Script[op] => \A k \in 1..Len(s) : s[k] \in Calls
    BY <1>1
  <2>2. ASSUME NEW a, Script[op] = <<a>>
        PROVE  {a} \subseteq Calls
    <3>1. \A k \in 1..1 : <<a>>[k] \in Calls
      BY <2>1, <2>2
    <3> QED BY <3>1
  <2>3. ASSUME NEW a, NEW b, Script[op] = <<a, b>>
        PROVE  {a, b} \subseteq Calls
    <3>1. \A k \in 1..2 : <<a, b>>[k] \in Calls
      BY <2>1, <2>3
    <3> QED BY <3>1
  <2>4. ASSUME NEW a, NEW b, NEW c, Script[op] = <<a, b, c>>
        PROVE  {a, b, c} \subseteq Calls
    <3>1. \A k \in 1..3 : <<a, b, c>>[k] \in Calls
      BY <2>1, <2>4
    <3> QED BY <3>1
  <2>5. ASSUME NEW a, NEW b, NEW c, NEW d, Script[op] = <<a, b, c, d>>
        PROVE  {a, b, c, d} \subseteq Calls
    <3>1. \A k \in 1..4 : <<a, b, c, d>>[k] \in Calls
      BY <2>1, <2>5
    <3> QED BY <3>1
  <2>6. ASSUME NEW a, NEW b, NEW c, NEW d, NEW e, Script[op] = <<a, b, c, d, e>>
        PROVE  {a, b, c, d, e} \subseteq Calls
    <3>1. \A k \in 1..5 : <<a, b, c, d, e>>[k] \in Calls
      BY <2>1, <2>6
    <3> QED BY <3>1
  <2> QED BY <2>2, <2>3, <2>4, <2>5, <2>6
<1>4. {"insertIface", "load"} \subseteq Calls
  BY <1>2, <1>3
<1>5. {"teardown", "saveIface", "load"} \subseteq Calls
  BY <1>2, <1>3
<1>6. {"unapply", "teardown", "unlink", "trashPeers", "trashIface"} \subseteq Calls
  BY <1>2, <1>3
<1>7. {"restoreIface", "restorePeers", "load", "reapply"} \subseteq Calls
  BY <1>2, <1>3
<1>8. {"purgePfs", "teardown", "unlink", "purgePeers", "purgeIface"} \subseteq Calls
  BY <1>2, <1>3
<1>9. {"reapplyAll"} \subseteq Calls
  BY <1>2, <1>3
<1>10. {"insertPeer", "parent"} \subseteq Calls
  BY <1>2, <1>3
<1>11. {"savePeer", "parent"} \subseteq Calls
  BY <1>2, <1>3
<1>12. {"unapply", "trashPeer", "parent"} \subseteq Calls
  BY <1>2, <1>3
<1>13. {"restorePeer", "parent", "reapply"} \subseteq Calls
  BY <1>2, <1>3
<1>14. {"purgePfs", "purgePeer", "parent"} \subseteq Calls
  BY <1>2, <1>3
<1>15. {"insertPf", "applyPf"} \subseteq Calls
  BY <1>2, <1>3
<1>16. {"removePf", "savePf", "applyPf"} \subseteq Calls
  BY <1>2, <1>3
<1>17. {"removePf", "deletePf"} \subseteq Calls
  BY <1>2, <1>3
<1>18. {"rmlink", "ensure", "configure", "setup", "egress", "peer"} \subseteq Calls
  BY DEF Calls
<1> QED BY <1>4, <1>5, <1>6, <1>7, <1>8, <1>9, <1>10, <1>11, <1>12, <1>13, <1>14, <1>15, <1>16, <1>17, <1>18

\* The calls a handler has left are calls.
LEMMA PlaceTyped ==
    ASSUME NEW op, NEW c, Place(op, c)
    PROVE  c \in Seq(Calls) /\ c # <<>> /\ op \in DOMAIN Script
<1> DEFINE T == Seq(Calls) \ {<<>>}
<1>1. /\ \A x \in Calls : <<x>> \in T
      /\ \A x, y \in Calls : <<x, y>> \in T
      /\ \A x, y, z \in Calls : <<x, y, z>> \in T
      /\ \A x, y, z, a \in Calls : <<x, y, z, a>> \in T
      /\ \A x, y, z, a, b \in Calls : <<x, y, z, a, b>> \in T
  <2>1. \A x \in Calls : <<x>> \in T
    OBVIOUS
  <2>2. \A x, y \in Calls : <<x, y>> \in T
    OBVIOUS
  <2>3. \A x, y, z \in Calls : <<x, y, z>> \in T
    OBVIOUS
  <2>4. \A x, y, z, a \in Calls : <<x, y, z, a>> \in T
    OBVIOUS
  <2>5. \A x, y, z, a, b \in Calls : <<x, y, z, a, b>> \in T
    OBVIOUS
  <2> QED BY <2>1, <2>2, <2>3, <2>4, <2>5
<1> HIDE DEF T
<1>2. Reconciling \subseteq T
  <2>1. {"load", "ensure", "configure", "setup", "egress", "teardown", "rmlink"} \subseteq Calls
    BY CallsNamed
  <2> QED BY <1>1, <2>1 DEF Reconciling
<1>3. ASSUME NEW last \in {"reapply", "unapply"} PROVE ReconcilingBefore(last) \subseteq T
  <2>1. {"load", "ensure", "configure", "setup", "egress", "teardown", "rmlink"} \subseteq Calls
    BY CallsNamed
  <2>2. last \in Calls
    BY CallsNamed
  <2> QED BY <1>1, <2>1, <2>2 DEF ReconcilingBefore
<1>4. SyncingPeer \subseteq T /\ SyncingBefore("reapply") \subseteq T
  <2>1. {"parent", "ensure", "peer", "reapply"} \subseteq Calls
    BY CallsNamed
  <2> QED BY <1>1, <2>1 DEF SyncingPeer, SyncingBefore
<1>5. op \in {"sync", "boot", "create", "update", "restore"} => c \in T
  <2>1. {"insertIface", "load", "teardown", "saveIface", "restoreIface", "restorePeers",
         "reapply"} \subseteq Calls
    BY CallsNamed
  <2> QED BY <1>1, <1>2, <1>3, <2>1 DEF Place
<1>6. op \in {"delete", "bootPfs"} => c \in T
  <2>1. {"unapply", "teardown", "unlink", "trashPeers", "trashIface", "reapplyAll"} \subseteq Calls
    BY CallsNamed
  <2> QED BY <1>1, <2>1 DEF Place
<1>7. op = "purge" => c \in T
  <2>1. {"purgePfs", "teardown", "unlink", "purgePeers", "purgeIface"} \subseteq Calls
    BY CallsNamed
  <2> QED BY <1>1, <2>1 DEF Place
<1>8. op \in PeerOps => c \in T
  <2>1. {"insertPeer", "parent", "savePeer", "unapply", "trashPeer", "restorePeer",
         "reapply", "purgePfs", "purgePeer"} \subseteq Calls
    BY CallsNamed
  <2> QED BY <1>1, <1>4, <2>1 DEF Place, PeerOps
<1>10. op \in {"addPf", "editPf", "delPf"} => c \in T
  <2>1. {"insertPf", "applyPf", "removePf", "savePf", "deletePf"} \subseteq Calls
    BY CallsNamed
  <2> QED BY <1>1, <2>1 DEF Place
<1>9. /\ op \in DOMAIN Script
      /\ \/ op \in {"sync", "boot", "create", "update", "restore", "delete", "purge", "bootPfs"}
         \/ op \in PeerOps \/ op \in {"addPf", "editPf", "delPf"}
  BY DEF Place, Script, PeerOps
<1> QED BY <1>5, <1>6, <1>7, <1>8, <1>9, <1>10 DEF T

\* A job is not mistaken for none, and keeps its parts through an update of some.
LEMMA JobParts ==
    ASSUME NEW j \in Job
    PROVE  /\ j # NoJob
           /\ j.op \in DOMAIN Script /\ j.i \in Ifaces /\ NameOf[j.i] \in Names
           /\ j.row \in Iface /\ j.pf \in Pf /\ j.solo \in BOOLEAN
           /\ j.verdict \in Verdicts
           /\ DOMAIN j.kids \subseteq Peers
           /\ \A p \in DOMAIN j.kids : j.kids[p] \in Peer /\ j.kids[p].st = "active"
<1>1. j # <<>>
  <2>1. "op" \in DOMAIN j
    BY DEF Job
  <2>2. DOMAIN <<>> = {}
    OBVIOUS
  <2> QED BY <2>1, <2>2
<1> QED BY <1>1, HostAssumption DEF Job, NoJob, HostAssumption

\* An answer ends the job, and reports the job's name or nothing.
LEMMA Answered ==
    ASSUME TInv, NEW w \in Workers, jobs[w] # NoJob, NEW verdict, Answer(w, verdict)
    PROVE  owed' \subseteq Names /\ JobsFit' /\ jobs'[w] = NoJob
           /\ \A v \in Workers \ {w} : jobs'[v] = jobs[v]
<1>1. jobs[w] \in Job
  BY DEF TInv, JobsFit
<1>2. NameOf[jobs[w].i] \in Names
  BY <1>1, JobParts
<1>3. owed' \subseteq Names
  BY <1>2 DEF Answer, Owed, TInv, TypeOK
<1>4. /\ jobs' = [jobs EXCEPT ![w] = NoJob] /\ jobs \in [Workers -> Job \union {NoJob}]
  BY DEF Answer, TInv, JobsFit
<1>5. jobs' \in [Workers -> Job \union {NoJob}]
  BY <1>4
<1>6. jobs'[w] = NoJob /\ \A v \in Workers \ {w} : jobs'[v] = jobs[v]
  BY <1>4
<1>7. \A v \in Busy' : v \in Busy /\ jobs'[v] = jobs[v]
  BY <1>6 DEF Busy
<1>8. \A v \in Busy' : Fits(jobs[v])
  BY <1>7 DEF TInv, JobsFit
<1> QED BY <1>3, <1>5, <1>6, <1>7, <1>8 DEF JobsFit

\* The job as the next call finds it.
Onto(j, verdict) == [j EXCEPT !.calls = Tail(@), !.verdict = verdict]

\* A worker that goes on has the next job, or has answered.
LEMMA WentOn ==
    ASSUME TInv, NEW w \in Workers, jobs[w] # NoJob, NEW j, NEW verdict,
           GoOn(w, j, verdict),
           Len(j.calls) # 1 => Fits(Onto(j, verdict))
    PROVE  /\ owed' \subseteq Names /\ JobsFit'
           /\ \A v \in Workers \ {w} : jobs'[v] = jobs[v]
           /\ \/ Len(j.calls) = 1 /\ jobs'[w] = NoJob /\ Answer(w, verdict)
              \/ Len(j.calls) # 1 /\ jobs'[w] = Onto(j, verdict) /\ owed' = owed
<1>1. CASE Len(j.calls) = 1
  BY <1>1, Answered DEF GoOn
<1>2. CASE Len(j.calls) # 1
  <2>1. jobs' = [jobs EXCEPT ![w] = Onto(j, verdict)] /\ owed' = owed
    BY <1>2 DEF GoOn, Onto
  <2>2. jobs \in [Workers -> Job \union {NoJob}] /\ owed \subseteq Names
    BY DEF TInv, JobsFit, TypeOK
  <2>3. Onto(j, verdict) \in Job /\ Fits(Onto(j, verdict))
    BY <1>2 DEF Fits
  <2> HIDE DEF Onto
  <2>4. jobs'[w] = Onto(j, verdict) /\ \A v \in Workers \ {w} : jobs'[v] = jobs[v]
    BY <2>1, <2>2
  <2>5. jobs' \in [Workers -> Job \union {NoJob}]
    BY <2>1, <2>2, <2>3
  <2>6. \A v \in Workers : jobs'[v] # NoJob => Fits(jobs'[v])
    BY <2>3, <2>4 DEF TInv, JobsFit, Busy
  <2> QED BY <1>2, <2>1, <2>2, <2>4, <2>5, <2>6 DEF JobsFit, Busy
<1> QED BY <1>1, <1>2

\* The next call of a script that goes on as it is.
LEMMA OntoFits ==
    ASSUME NEW j, Fits(j), Head(j.calls) \notin {"load", "saveIface"}, Len(j.calls) # 1,
           NEW verdict \in Verdicts
    PROVE  Fits(Onto(j, verdict))
<1>1. Len(j.calls) > 1 /\ Place(j.op, Tail(j.calls))
  <2>1. Place(j.op, j.calls)
    BY DEF Fits
  <2>2. Len(j.calls) \in 1..5
    BY <2>1, Onward
  <2>3. Len(j.calls) > 1
    BY <2>2
  <2> QED BY <2>1, <2>3, Onward
<1>2. Tail(j.calls) \in Seq(Calls)
  BY <1>1, PlaceTyped
<1>3. /\ Onto(j, verdict) \in Job
      /\ Onto(j, verdict).calls = Tail(j.calls) /\ Onto(j, verdict).op = j.op
      /\ Onto(j, verdict).p = j.p /\ Onto(j, verdict).f = j.f
      /\ Onto(j, verdict).new = j.new
  BY <1>2 DEF Fits, Job, Onto
<1> QED BY <1>1, <1>3 DEF Fits, Carries

\* Calls that only touch the job's verdict.
LEMMA Simple ==
    ASSUME TInv, NEW w \in Workers, jobs[w] # NoJob, NEW verdict \in Verdicts,
           Head(jobs[w].calls) \notin {"load", "saveIface"},
           GoOn(w, jobs[w], verdict) \/ Stop(w, verdict)
    PROVE  owed' \subseteq Names /\ JobsFit' /\ \A v \in Workers \ {w} : jobs'[v] = jobs[v]
<1>1. Fits(jobs[w])
  BY DEF TInv, JobsFit, Busy
<1>2. Len(jobs[w].calls) # 1 => Fits(Onto(jobs[w], verdict))
  BY <1>1, OntoFits
<1> QED BY <1>2, Answered, WentOn DEF Stop
\* Interface requests that apply the interface, and those that take it out.
Applies == {"create", "update", "restore", "sync", "boot"}

\* Which handlers make which calls.
LEMMA Heads ==
    ASSUME NEW op, NEW c, Place(op, c)
    PROVE  /\ Head(c) = "insertIface" => op = "create"
           /\ Head(c) = "saveIface" => op = "update"
           /\ Head(c) \in {"trashPeers", "trashIface"} => op = "delete"
           /\ Head(c) \in {"restoreIface", "restorePeers"} => op = "restore"
           /\ Head(c) \in {"purgePeers", "purgeIface"} => op = "purge"
           /\ Head(c) = "unlink" => op \in {"delete", "purge"}
           /\ Head(c) \in {"load", "configure", "setup", "egress", "rmlink"} => op \in Applies
           /\ Head(c) = "teardown" => op \in Applies \union {"delete", "purge"}
           /\ Head(c) = "ensure" => op \in Applies \union PeerOps
           /\ Head(c) = "unapply" => op \in {"update", "delete", "delPeer"}
           /\ Head(c) = "reapply" => op \in {"update", "restore", "restorePeer"}
           /\ Head(c) = "purgePfs" => op \in {"purge", "purgePeer"}
           /\ Head(c) = "reapplyAll" => op = "bootPfs"
           /\ Head(c) = "insertPeer" => op = "addPeer"
           /\ Head(c) = "savePeer" => op = "editPeer"
           /\ Head(c) = "trashPeer" => op = "delPeer"
           /\ Head(c) = "restorePeer" => op = "restorePeer"
           /\ Head(c) = "purgePeer" => op = "purgePeer"
           /\ Head(c) \in {"parent", "peer"} => op \in PeerOps
           /\ Head(c) = "insertPf" => op = "addPf"
           /\ Head(c) = "savePf" => op = "editPf"
           /\ Head(c) = "deletePf" => op = "delPf"
           /\ Head(c) = "removePf" => op \in {"editPf", "delPf"}
           /\ Head(c) = "applyPf" => op \in {"addPf", "editPf"}
<1>1. \A r \in Reconciling :
        Head(r) \in {"load", "ensure", "configure", "setup", "egress", "teardown", "rmlink"}
  BY DEF Reconciling
<1>2. \A last : \A r \in ReconcilingBefore(last) :
        Head(r) \in {"load", "ensure", "configure", "setup", "egress", "teardown", "rmlink", last}
  BY DEF ReconcilingBefore
<1>3. \A r \in SyncingPeer : Head(r) \in {"parent", "ensure", "peer"}
  BY DEF SyncingPeer
<1>4. \A last : \A r \in SyncingBefore(last) : Head(r) \in {"parent", "ensure", "peer", last}
  BY DEF SyncingBefore
<1>5. /\ op \in {"sync", "boot"} =>
           Head(c) \in {"load", "ensure", "configure", "setup", "egress", "teardown", "rmlink"}
      /\ op = "create" =>
           Head(c) \in {"insertIface", "load", "ensure", "configure", "setup", "egress",
                        "teardown", "rmlink"}
      /\ op = "update" =>
           Head(c) \in {"saveIface", "load", "ensure", "configure", "setup", "egress",
                        "teardown", "rmlink", "reapply", "unapply"}
      /\ op = "restore" =>
           Head(c) \in {"restoreIface", "restorePeers", "load", "ensure", "configure", "setup",
                        "egress", "teardown", "rmlink", "reapply"}
  BY <1>1, <1>2 DEF Place
<1>6. /\ op = "delete" =>
           Head(c) \in {"unapply", "teardown", "unlink", "trashPeers", "trashIface"}
      /\ op = "purge" =>
           Head(c) \in {"purgePfs", "teardown", "unlink", "purgePeers", "purgeIface"}
      /\ op = "bootPfs" => Head(c) = "reapplyAll"
      /\ op = "addPf" => Head(c) \in {"insertPf", "applyPf"}
      /\ op = "editPf" => Head(c) \in {"removePf", "savePf", "applyPf"}
      /\ op = "delPf" => Head(c) \in {"removePf", "deletePf"}
  BY DEF Place
<1>7. /\ op = "addPeer" => Head(c) \in {"insertPeer", "parent", "ensure", "peer"}
      /\ op = "editPeer" => Head(c) \in {"savePeer", "parent", "ensure", "peer"}
      /\ op = "delPeer" => Head(c) \in {"unapply", "trashPeer", "parent", "ensure", "peer"}
      /\ op = "restorePeer" => Head(c) \in {"restorePeer", "parent", "ensure", "peer", "reapply"}
      /\ op = "purgePeer" => Head(c) \in {"purgePfs", "purgePeer", "parent", "ensure", "peer"}
  BY <1>3, <1>4 DEF Place
<1>8. op \in DOMAIN Script
  BY PlaceTyped
<1> QED BY <1>5, <1>6, <1>7, <1>8 DEF Script, Applies, PeerOps

-----------------------------------------------------------------------------
(* Calls and what they keep *)

\* What is known of a worker that makes a call.
LEMMA AtWork ==
    ASSUME TInv, NEW w \in Workers, NEW call, At(w, call)
    PROVE  /\ jobs[w] # NoJob /\ jobs[w] \in Job /\ Fits(jobs[w])
           /\ Place(jobs[w].op, jobs[w].calls) /\ Head(jobs[w].calls) = call /\ up
  BY DEF At, TInv, JobsFit, Busy, Fits

\* Rows stay rows when their state is changed, a flag is set again, or the egress
\* stored.
LEMMA RowChanges ==
    /\ \A row \in Iface : /\ \A st \in RowState : [row EXCEPT !.st = st] \in Iface
                          /\ \A here : Upsert(row, here) \in Iface
    /\ \A row \in Peer : /\ \A st \in RowState : [row EXCEPT !.st = st] \in Peer
                         /\ \A here : Upsert(row, here) \in Peer
    /\ \A row \in Pf : \A here : Upsert(row, here) \in Pf
<1>1. \A row \in Iface : /\ \A st \in RowState : [row EXCEPT !.st = st] \in Iface
                         /\ \A here : Upsert(row, here) \in Iface
  BY DEF Iface, Upsert
<1>2. \A row \in Peer : /\ \A st \in RowState : [row EXCEPT !.st = st] \in Peer
                        /\ \A here : Upsert(row, here) \in Peer
  BY DEF Peer, Upsert
<1>3. \A row \in Pf : \A here : Upsert(row, here) \in Pf
  BY DEF Pf, Upsert
<1> QED BY <1>1, <1>2, <1>3

\* The peers written along with an interface are peers.
LEMMA KidsTyped ==
    ASSUME TInv, NEW w \in Workers, jobs[w] # NoJob
    PROVE  WithKids(jobs[w].kids) \in [Peers -> Peer]
<1>1. jobs[w] \in Job /\ peers \in [Peers -> Peer]
  BY DEF TInv, JobsFit, TypeOK
<1>2. ASSUME NEW p \in Peers, p \in Gone(jobs[w].kids)
      PROVE  Upsert(jobs[w].kids[p], FALSE) \in Peer
  <2>1. jobs[w].kids[p] \in Peer
    BY <1>1, <1>2, JobParts DEF Gone
  <2> QED BY <2>1 DEF Peer, Upsert
<1> QED BY <1>1, <1>2 DEF WithKids

\* Rows that are not in the table.
LEMMA BlanksTyped ==
    /\ BlankIface("none") \in Iface /\ BlankIface("purged") \in Iface
    /\ BlankPeer("none") \in Peer /\ BlankPeer("purged") \in Peer
    /\ BlankPf("none") \in Pf /\ BlankPf("purged") \in Pf
<1>1. \A st \in RowState : BlankIface(st) \in Iface /\ BlankPeer(st) \in Peer
  BY BlankTyped
<1>2. BlankPf("none") \in Pf /\ BlankPf("purged") \in Pf
  BY HostAssumption, PanelAssumption DEF HostAssumption, PanelAssumption, BlankPf, Pf
<1> QED BY <1>1, <1>2 DEF RowState

\* Only this worker's job moves.
OnlyMoves(w) == \A v \in Workers \ {w} : jobs'[v] = jobs[v]

\* A step that leaves tables, host and jobs in order leaves everything so.
LEMMA StaysTyped ==
    ASSUME TInv, up' = TRUE, JobsFit', owed' \subseteq Names,
           ifaces' \in [Ifaces -> Iface], peers' \in [Peers -> Peer], pfs' \in [Pfs -> Pf],
           dev' \in [Names -> Device], fw' \subseteq Rule,
           wan' = wan, boot' = boot
    PROVE  TInv'
  BY DEF TInv, TypeOK, boot

\* Calls on interface rows.
LEMMA IfaceCallsTyped ==
    ASSUME TInv, NEW w \in Workers, NEW F,
           \/ InsertIface(w, F) \/ TrashIface(w, F) \/ RestoreIface(w, F)
           \/ PurgeIface(w, F)  \/ MovePeers(w, F)
    PROVE  TInv' /\ OnlyMoves(w)
<1> DEFINE j == jobs[w]
<1>0. /\ ifaces \in [Ifaces -> Iface] /\ peers \in [Peers -> Peer] /\ pfs \in [Pfs -> Pf]
      /\ dev \in [Names -> Device] /\ fw \subseteq Rule
  BY DEF TInv, TypeOK
<1>1. CASE InsertIface(w, F)
  <2>1. At(w, "insertIface")
    BY <1>1 DEF InsertIface
  <2>2. j \in Job /\ j # NoJob /\ Fits(j) /\ up /\ j.op = "create" /\ Head(j.calls) = "insertIface"
    BY <2>1, AtWork, Heads
  <2>3. j.new \in Iface /\ j.i \in Ifaces
    BY <2>2, JobParts DEF Fits, Carries
  <2>4. Stop(w, "none") \/ GoOn(w, j, "owed")
    BY <1>1 DEF InsertIface
  <2>5. owed' \subseteq Names /\ JobsFit' /\ OnlyMoves(w)
    BY <2>2, <2>4, Simple DEF Verdicts, OnlyMoves
  <2>6. ifaces' \in [Ifaces -> Iface]
    BY <1>0, <1>1, <2>3 DEF InsertIface
  <2> QED BY <1>0, <1>1, <2>2, <2>5, <2>6, StaysTyped DEF InsertIface, HostUntouched, Aside
<1>2. CASE TrashIface(w, F)
  <2>1. At(w, "trashIface")
    BY <1>2 DEF TrashIface
  <2>2. j \in Job /\ j # NoJob /\ up /\ j.i \in Ifaces /\ j.verdict \in Verdicts
        /\ Head(j.calls) = "trashIface"
    BY <2>1, AtWork, JobParts
  <2>3. \E v \in Verdicts : Stop(w, v) \/ GoOn(w, j, v)
    BY <1>2 DEF TrashIface, Verdicts
  <2>4. owed' \subseteq Names /\ JobsFit' /\ OnlyMoves(w)
    BY <2>2, <2>3, Simple DEF OnlyMoves
  <2>5. ifaces' \in [Ifaces -> Iface]
    <3>1. [ifaces[j.i] EXCEPT !.st = "trashed"] \in Iface
      BY <1>0, <2>2, RowChanges DEF RowState
    <3> QED BY <1>0, <1>2, <2>2, <3>1 DEF TrashIface
  <2> QED BY <1>0, <1>2, <2>2, <2>4, <2>5, StaysTyped DEF TrashIface, HostUntouched, Aside
<1>3. CASE RestoreIface(w, F)
  <2>1. At(w, "restoreIface")
    BY <1>3 DEF RestoreIface
  <2>2. j \in Job /\ j # NoJob /\ up /\ j.i \in Ifaces /\ Head(j.calls) = "restoreIface"
    BY <2>1, AtWork, JobParts
  <2>3. Stop(w, "none") \/ GoOn(w, j, "owed")
    BY <1>3 DEF RestoreIface
  <2>4. owed' \subseteq Names /\ JobsFit' /\ OnlyMoves(w)
    BY <2>2, <2>3, Simple DEF Verdicts, OnlyMoves
  <2>5. ifaces' \in [Ifaces -> Iface]
    <3>1. [ifaces[j.i] EXCEPT !.st = "active"] \in Iface
      BY <1>0, <2>2, RowChanges DEF RowState
    <3> QED BY <1>0, <1>3, <2>2, <3>1 DEF RestoreIface
  <2> QED BY <1>0, <1>3, <2>2, <2>4, <2>5, StaysTyped DEF RestoreIface, HostUntouched, Aside
<1>4. CASE PurgeIface(w, F)
  <2>1. At(w, "purgeIface")
    BY <1>4 DEF PurgeIface
  <2>2. j \in Job /\ j # NoJob /\ up /\ j.i \in Ifaces /\ Head(j.calls) = "purgeIface"
    BY <2>1, AtWork, JobParts
  <2>3. \E v \in Verdicts : Stop(w, v) \/ GoOn(w, j, v)
    BY <1>4 DEF PurgeIface, Verdicts
  <2>4. owed' \subseteq Names /\ JobsFit' /\ OnlyMoves(w)
    BY <2>2, <2>3, Simple DEF OnlyMoves
  <2>5. ifaces' \in [Ifaces -> Iface] /\ peers' \in [Peers -> Peer]
    BY <1>0, <1>4, <2>2, BlanksTyped DEF PurgeIface
  <2> QED BY <1>0, <1>4, <2>2, <2>4, <2>5, StaysTyped DEF PurgeIface, HostUntouched, Aside
<1>5. CASE MovePeers(w, F)
  <2>1. PICK call \in {"trashPeers", "restorePeers", "purgePeers"} : At(w, call)
    BY <1>5 DEF MovePeers
  <2>2. j \in Job /\ j # NoJob /\ up /\ j.i \in Ifaces /\ j.verdict \in Verdicts
        /\ Head(j.calls) \notin {"load", "saveIface"}
    BY <2>1, AtWork, JobParts
  <2>3. Stop(w, "owed") \/ GoOn(w, j, j.verdict)
    BY <1>5 DEF MovePeers
  <2>4. owed' \subseteq Names /\ JobsFit' /\ OnlyMoves(w)
    BY <2>2, <2>3, Simple DEF Verdicts, OnlyMoves
  <2>5. peers' \in [Peers -> Peer]
    BY <1>0, <1>5, <2>2, RowChanges, BlanksTyped DEF MovePeers, RowState
  <2> QED BY <1>0, <1>5, <2>2, <2>4, <2>5, StaysTyped DEF MovePeers, HostUntouched, Aside
<1> QED BY <1>1, <1>2, <1>3, <1>4, <1>5

\* The peers a job may have been preloaded with.
Preloads == UNION {[S -> {p \in Peer : p.st = "active"}] : S \in SUBSET Peers}

\* A job with what it has read, and a script that was added to.
Grown(j, row, kids, d) == [j EXCEPT !.row = row, !.kids = kids, !.calls = d]

\* A job that has read rows and grown its script fits once its first call is done.
LEMMA GoesFits ==
    ASSUME NEW j, Fits(j), NEW d, NEW row \in Iface, NEW kids \in Preloads,
           NEW verdict \in Verdicts, \E next : Goes(j.op, d, next)
    PROVE  /\ Len(Grown(j, row, kids, d).calls) # 1
           /\ Grown(j, row, kids, d).calls = d
           /\ Fits(Onto(Grown(j, row, kids, d), verdict))
<1> DEFINE k == Grown(j, row, kids, d)
           m == Onto(k, verdict)
<1>1. /\ Len(d) \in 2..5 /\ Place(j.op, Tail(d)) /\ Tail(d) \in Seq(Calls)
  BY PlaceTyped DEF Goes
<1>2. k.calls = d
  BY DEF Fits, Job, Grown
<1>3. m \in Job /\ m.calls = Tail(d) /\ m.op = j.op /\ m.p = j.p /\ m.f = j.f /\ m.new = j.new
  BY <1>1 DEF Fits, Job, Onto, Preloads, Grown
<1> HIDE DEF m, k
<1>5. Fits(m)
  BY <1>1, <1>3 DEF Fits, Carries
<1>4. Len(d) # 1
  <2>1. Len(d) \in 2..5
    BY <1>1
  <2> QED BY <2>1
<1>6. Len(k.calls) # 1 /\ k.calls = d
  BY <1>2, <1>4, Zenon
<1> QED BY <1>5, <1>6, Zenon DEF m, k

\* The rows a job carries stay in place when only its script is added to.
LEMMA SameRows ==
    ASSUME NEW j \in Job, NEW d
    PROVE  /\ [j EXCEPT !.calls = d] = Grown(j, j.row, j.kids, d)
           /\ \A row : [j EXCEPT !.row = row, !.calls = d] = Grown(j, row, j.kids, d)
           /\ [j EXCEPT !.row.egress = wan, !.calls = d]
                = Grown(j, [j.row EXCEPT !.egress = wan], j.kids, d)
<1>1. ASSUME NEW row PROVE [j EXCEPT !.row = row, !.calls = d] = Grown(j, row, j.kids, d)
  BY DEF Job, Grown
<1>2. [j EXCEPT !.calls = d] = Grown(j, j.row, j.kids, d)
  BY DEF Job, Grown
<1>3. [j EXCEPT !.row.egress = wan, !.calls = d]
        = Grown(j, [j.row EXCEPT !.egress = wan], j.kids, d)
  BY DEF Job, Grown
<1> QED BY <1>1, <1>2, <1>3

\* A script and a row replaced.
LEMMA RowReplaced ==
    ASSUME NEW j \in Job, NEW row, NEW d, NEW k, k = [j EXCEPT !.row = row, !.calls = d]
    PROVE  k = Grown(j, row, j.kids, d)
  BY DEF Job, Grown

\* The peers preloaded with an interface.
LEMMA KidsLoaded ==
    ASSUME TypeOK, NEW i
    PROVE  Kids(i) \in Preloads
<1> DEFINE S == {q \in Peers : peers[q].st = "active" /\ peers[q].iface = i}
           T == {p \in Peer : p.st = "active"}
<1>1. Kids(i) = [p \in S |-> peers[p]]
  BY DEF Kids
<1>2. \A p \in S : peers[p] \in T
  BY DEF TypeOK
<1> DEFINE k == Kids(i)
<1>3. k \in [S -> T]
  BY <1>1, <1>2
<1>4. S \in SUBSET Peers
  OBVIOUS
<1> HIDE DEF S, T, k
<1>5. k \in UNION {[U -> T] : U \in SUBSET Peers}
  BY <1>3, <1>4, Zenon
<1> QED BY <1>5 DEF Preloads, T, k

\* Save, with its forwards' call added, and the read of reconcile and syncPeer.
LEMMA LoadsTyped ==
    ASSUME TInv, NEW w \in Workers, NEW F,
           SaveIface(w, F) \/ Load(w, F) \/ Parent(w, F)
    PROVE  TInv' /\ OnlyMoves(w)
<1> DEFINE j == jobs[w]
<1>0. /\ ifaces \in [Ifaces -> Iface] /\ peers \in [Peers -> Peer] /\ pfs \in [Pfs -> Pf]
      /\ dev \in [Names -> Device] /\ fw \subseteq Rule
  BY DEF TInv, TypeOK
<1>1. CASE SaveIface(w, F)
  <2> DEFINE row == Upsert(j.new, Active(j.i))
             rest == IF row.on THEN "reapply" ELSE "unapply"
             d == j.calls \o <<rest>>
             k == [j EXCEPT !.calls = d]
  <2>1. At(w, "saveIface")
    BY <1>1 DEF SaveIface
  <2>2. /\ j \in Job /\ j # NoJob /\ Fits(j) /\ up /\ j.op = "update"
        /\ Place(j.op, j.calls) /\ Head(j.calls) = "saveIface"
    BY <2>1, AtWork, Heads
  <2>3. /\ j.new \in Iface /\ j.i \in Ifaces /\ j.row \in Iface
        /\ j.kids \in Preloads
    BY <2>2, JobParts DEF Fits, Carries, Job, Preloads
  <2>4. Goes(j.op, d, "load")
    BY <2>2, Replaced
  <2>5. k = Grown(j, j.row, j.kids, d)
    BY <2>2, SameRows
  <2> HIDE DEF d, j, k
  <2>6. "owed" \in Verdicts
    BY DEF Verdicts
  <2>66. Fits(Onto(k, "owed"))
    <3>2. Fits(Onto(Grown(j, j.row, j.kids, d), "owed"))
      BY <2>2, <2>3, <2>4, <2>6, GoesFits
    <3> QED BY <2>5, <3>2, Zenon
  <2>7. Stop(w, "owed") \/ GoOn(w, k, "owed")
    BY <1>1 DEF SaveIface, d, j, k
  <2>8. owed' \subseteq Names /\ JobsFit' /\ OnlyMoves(w)
    BY <2>2, <2>66, <2>7, Answered, WentOn DEF OnlyMoves, Stop, j
  <2>9. ifaces' \in [Ifaces -> Iface]
    <3>1. row \in Iface
      BY <2>3, RowChanges
    <3> QED BY <1>0, <1>1, <2>3, <3>1 DEF SaveIface, j
  <2>10. peers' \in [Peers -> Peer]
    BY <1>0, <1>1, <2>2, KidsTyped DEF SaveIface, j
  <2> QED BY <1>0, <1>1, <2>2, <2>8, <2>9, <2>10, StaysTyped DEF SaveIface, HostUntouched, Aside
<1>2. CASE Load(w, F)
  <2> DEFINE row == ifaces[j.i]
             d == <<"load">> \o Applying(row) \o Tail(j.calls)
             k == Grown(j, row, Kids(j.i), d)
  <2>1. At(w, "load")
    BY <1>2 DEF Load
  <2>2. /\ j \in Job /\ j # NoJob /\ Fits(j) /\ up /\ j.i \in Ifaces
        /\ Place(j.op, j.calls) /\ Head(j.calls) = "load"
    BY <2>1, AtWork, JobParts
  <2>3. row \in Iface
    BY <1>0, <2>2
  <2>4. Goes(j.op, d, "ensure") \/ Goes(j.op, d, "teardown")
    BY <2>2, <2>3, Loaded
  <2>5. Kids(j.i) \in Preloads
    BY KidsLoaded DEF TInv
  <2>6. \E v \in Verdicts : Stop(w, v) \/ GoOn(w, k, "owed")
    BY <1>2 DEF Load, Pending, Verdicts, Grown
  <2> HIDE DEF d, j, k
  <2>7. Fits(Onto(k, "owed"))
    <3>1. "owed" \in Verdicts
      BY DEF Verdicts
    <3> HIDE DEF row
    <3>2. Fits(Onto(Grown(j, row, Kids(j.i), d), "owed"))
      BY <2>2, <2>3, <2>4, <2>5, <3>1, GoesFits
    <3> QED BY <3>2, Zenon DEF k
  <2>8. owed' \subseteq Names /\ JobsFit' /\ OnlyMoves(w)
    BY <2>2, <2>6, <2>7, Answered, WentOn DEF OnlyMoves, Stop, j
  <2> QED BY <1>0, <1>2, <2>2, <2>8, StaysTyped DEF Load, RowsUntouched, HostUntouched, Aside
<1>3. CASE Parent(w, F)
  <2> DEFINE row == ifaces[j.i]
             d == <<"parent">> \o Syncing \o Tail(j.calls)
             k == [j EXCEPT !.row = row, !.calls = d]
  <2>1. At(w, "parent")
    BY <1>3 DEF Parent
  <2>2. /\ j \in Job /\ j # NoJob /\ Fits(j) /\ up /\ j.i \in Ifaces
        /\ Place(j.op, j.calls) /\ Head(j.calls) = "parent"
        /\ j.kids \in Preloads
    BY <2>1, AtWork, JobParts DEF Job, Preloads
  <2>3. row \in Iface
    BY <1>0, <2>2
  <2>4. Goes(j.op, d, "ensure")
    BY <2>2, Replaced
  <2>5. k = Grown(j, row, j.kids, d)
    BY <2>2, RowReplaced
  <2>6. \/ \E v \in Verdicts : Stop(w, v) \/ GoOn(w, j, v)
        \/ GoOn(w, k, "owed")
    BY <1>3 DEF Parent, Pending, Verdicts
  <2> HIDE DEF d, j, k
  <2>7. Fits(Onto(k, "owed"))
    <3>1. "owed" \in Verdicts
      BY DEF Verdicts
    <3> HIDE DEF row
    <3>2. Fits(Onto(Grown(j, row, j.kids, d), "owed"))
      BY <2>2, <2>3, <2>4, <3>1, GoesFits
    <3> QED BY <2>5, <3>2, Zenon
  <2>8. owed' \subseteq Names /\ JobsFit' /\ OnlyMoves(w)
    BY <2>2, <2>6, <2>7, Simple, Answered, WentOn DEF OnlyMoves, Stop, j
  <2> QED BY <1>0, <1>3, <2>2, <2>8, StaysTyped DEF Parent, RowsUntouched, HostUntouched, Aside
<1> QED BY <1>1, <1>2, <1>3

\* Calls that make, fill or remove a device.
LEMMA DeviceCallsTyped ==
    ASSUME TInv, NEW w \in Workers, NEW F,
           Ensure(w, F) \/ Configure(w, F) \/ RemoveDevice(w, F) \/ SyncOne(w, F)
    PROVE  TInv' /\ OnlyMoves(w)
<1> DEFINE j == jobs[w]
<1>0. /\ ifaces \in [Ifaces -> Iface] /\ peers \in [Peers -> Peer] /\ pfs \in [Pfs -> Pf]
      /\ dev \in [Names -> Device] /\ fw \subseteq Rule
  BY DEF TInv, TypeOK
<1>1. PICK call \in {"ensure", "configure", "rmlink", "unlink", "peer"} : At(w, call)
  BY DEF Ensure, Configure, RemoveDevice, SyncOne
<1>2. /\ j \in Job /\ j # NoJob /\ Fits(j) /\ up /\ j.i \in Ifaces /\ NameOf[j.i] \in Names
      /\ Head(j.calls) \notin {"load", "saveIface"} /\ j.row \in Iface
      /\ DevOf(j) \in Device
  BY <1>0, <1>1, AtWork, JobParts DEF DevOf
<1>3. \E v \in Verdicts : Stop(w, v) \/ GoOn(w, j, v)
  <2>1. CASE Ensure(w, F)
    BY <2>1 DEF Ensure, Verdicts
  <2>2. CASE Configure(w, F)
    BY <2>2 DEF Configure, Verdicts
  <2>3. CASE RemoveDevice(w, F)
    BY <2>3 DEF RemoveDevice, Verdicts
  <2>4. CASE SyncOne(w, F)
    BY <2>4 DEF SyncOne, Verdicts
  <2> QED BY <2>1, <2>2, <2>3, <2>4
<1>4. owed' \subseteq Names /\ JobsFit' /\ OnlyMoves(w)
  BY <1>2, <1>3, Simple DEF OnlyMoves
<1>5. dev' = dev \/ \E d \in Device : SetDev(j, d)
  <2>1. CASE Ensure(w, F)
    <3>1. EnsureLink(DevOf(j), j.row.addr, F) \in Device
      BY <1>2, DeviceTyped DEF Iface
    <3> QED BY <2>1, <3>1 DEF Ensure
  <2>2. CASE Configure(w, F)
    <3>1. {p \in DOMAIN j.kids : j.kids[p].on} \subseteq Peers /\ j.row.port \in Ports
      BY <1>2, JobParts DEF Iface
    <3>2. ConfigureDevice(DevOf(j), <<j.i, j.row.port>>, {p \in DOMAIN j.kids : j.kids[p].on})
            \in Device
      BY <1>2, <3>1, DeviceTyped
    <3> QED BY <2>2, <3>2 DEF Configure
  <2>3. CASE RemoveDevice(w, F)
    <3>1. RemoveLink(DevOf(j), F) \in Device
      BY <1>2, DeviceTyped
    <3> QED BY <2>3, <3>1 DEF RemoveDevice
  <2>4. CASE SyncOne(w, F)
    <3>1. At(w, "peer")
      BY <2>4 DEF SyncOne
    <3>2. j.op \in PeerOps
      BY <3>1, AtWork, Heads
    <3>3. j.p \in Peers
      BY <1>2, <3>2 DEF Fits, Carries
    <3>4. ConfigurePeer(DevOf(j), j.p) \in Device /\ RemovePeer(DevOf(j), j.p) \in Device
      BY <1>2, <3>3, DeviceTyped
    <3> QED BY <2>4, <3>4 DEF SyncOne
  <2> QED BY <2>1, <2>2, <2>3, <2>4
<1>6. dev' \in [Names -> Device]
  BY <1>0, <1>5 DEF SetDev
<1>7. UNCHANGED <<ifaces, peers, pfs, fw, wan, boot, up>>
  BY DEF Ensure, Configure, RemoveDevice, SyncOne, RowsUntouched, Aside
<1> QED BY <1>0, <1>2, <1>4, <1>6, <1>7, StaysTyped

\* NAT calls, and the egress that is stored after one of them.
LEMMA NatCallsTyped ==
    ASSUME TInv, NEW w \in Workers, NEW F,
           Teardown(w, F) \/ Setup(w, F) \/ StoreEgress(w, F)
    PROVE  TInv' /\ OnlyMoves(w)
<1> DEFINE j == jobs[w]
<1>0. /\ ifaces \in [Ifaces -> Iface] /\ peers \in [Peers -> Peer] /\ pfs \in [Pfs -> Pf]
      /\ dev \in [Names -> Device] /\ fw \subseteq Rule /\ wan \in Links \union {NoLink}
      /\ TypeOK
  BY DEF TInv, TypeOK
<1>1. PICK call \in {"teardown", "setup", "egress"} : At(w, call)
  BY DEF Teardown, Setup, StoreEgress
<1>2. /\ j \in Job /\ j # NoJob /\ Fits(j) /\ up /\ j.i \in Ifaces /\ NameOf[j.i] \in Names
      /\ Head(j.calls) \notin {"load", "saveIface"} /\ j.row \in Iface
      /\ j.verdict \in Verdicts /\ Place(j.op, j.calls)
      /\ j.row.addr \in Addrs /\ j.row.egress \in Links \union {NoLink}
  <2>1. /\ j \in Job /\ j # NoJob /\ Fits(j) /\ up /\ j.i \in Ifaces /\ NameOf[j.i] \in Names
        /\ Head(j.calls) \notin {"load", "saveIface"} /\ j.row \in Iface
        /\ j.verdict \in Verdicts /\ Place(j.op, j.calls)
    BY <1>1, AtWork, JobParts
  <2> QED BY <2>1 DEF Iface
<1>3. CASE Teardown(w, F)
  <2>1. \E v \in Verdicts : GoOn(w, j, v)
    BY <1>2, <1>3 DEF Teardown, Verdicts
  <2>2. owed' \subseteq Names /\ JobsFit' /\ OnlyMoves(w)
    BY <1>2, <2>1, Simple DEF OnlyMoves
  <2>3. fw' \subseteq Rule
    BY <1>0, <1>3, FirewallTyped DEF Teardown
  <2> QED BY <1>0, <1>2, <1>3, <2>2, <2>3, StaysTyped DEF Teardown, RowsUntouched, Aside
<1>4. CASE Setup(w, F)
  <2> DEFINE n == NameOf[j.i]
             d == <<"setup", "egress">> \o Tail(j.calls)
             k == [j EXCEPT !.row.egress = wan, !.calls = d]
             e == Egress(j.row.egress, wan)
  <2>1. Head(j.calls) = "setup"
    BY <1>4, AtWork DEF Setup
  <2>2. e = NoLink \/ e \in Links
    BY <1>0, <1>2 DEF Egress
  <2>3. fw' \subseteq Rule
    <3>1. CASE e = NoLink
      BY <1>0, <1>4, <3>1 DEF Setup, SetupNAT
    <3>2. CASE e # NoLink
      <4>1. NatRules(n, j.row.addr, e) \subseteq Rule
        BY <1>2, <2>2, <3>2, RulesTyped
      <4>2. fw' = EnsureRules(fw, NatRules(n, j.row.addr, e), F)
        BY <1>4, <3>2 DEF Setup, SetupNAT
      <4> QED BY <1>0, <4>1, <4>2, FirewallTyped
    <3> QED BY <3>1, <3>2
  <2>4. \/ \E v \in Verdicts : Stop(w, v) \/ GoOn(w, j, v)
        \/ GoOn(w, k, "owed")
    BY <1>4 DEF Setup, Verdicts
  <2>5. Fits(Onto(k, "owed"))
    <3>1. "owed" \in Verdicts
      BY DEF Verdicts
    <3> DEFINE row == [j.row EXCEPT !.egress = wan]
    <3>2. row \in Iface
      BY <1>0, <1>2 DEF Iface
    <3>3. Goes(j.op, d, "egress")
      BY <1>2, <2>1, Replaced
    <3>4. k = Grown(j, row, j.kids, d)
      BY <1>2, SameRows
    <3>5. j.kids \in Preloads
      BY <1>2 DEF Job, Preloads
    <3> HIDE DEF row, d, j, k
    <3>6. Fits(Onto(Grown(j, row, j.kids, d), "owed"))
      BY <1>2, <3>1, <3>2, <3>3, <3>5, GoesFits
    <3> QED BY <3>4, <3>6, Zenon
  <2> HIDE DEF k, j
  <2>6. owed' \subseteq Names /\ JobsFit' /\ OnlyMoves(w)
    BY <1>2, <2>4, <2>5, Simple, WentOn DEF OnlyMoves, j
  <2> QED BY <1>0, <1>2, <1>4, <2>3, <2>6, StaysTyped DEF Setup, RowsUntouched, Aside
<1>5. CASE StoreEgress(w, F)
  <2>1. \E v \in Verdicts : Stop(w, v) \/ GoOn(w, j, v)
    BY <1>5 DEF StoreEgress, Verdicts
  <2>2. owed' \subseteq Names /\ JobsFit' /\ OnlyMoves(w)
    BY <1>2, <2>1, Simple DEF OnlyMoves
  <2>3. ifaces' \in [Ifaces -> Iface]
    <3>1. EgressStored(j.i, j.row) \in Iface
      BY <1>0, <1>2 DEF EgressStored, Iface
    <3> QED BY <1>0, <1>2, <1>5, <3>1 DEF StoreEgress
  <2>4. peers' \in [Peers -> Peer]
    BY <1>0, <1>2, <1>5, KidsTyped DEF StoreEgress
  <2> QED BY <1>0, <1>2, <1>5, <2>2, <2>3, <2>4, StaysTyped DEF StoreEgress, HostUntouched, Aside
<1> QED BY <1>3, <1>4, <1>5

\* A job whose row to write is another one.
LEMMA RenewedFits ==
    ASSUME NEW j, Fits(j), Head(j.calls) \notin {"load", "saveIface"},
           NEW row, j.op \in PeerOps => row \in Peer,
           j.op \in {"addPf", "editPf", "delPf"} => row \in Pf,
           j.op \in PeerOps \union {"addPf", "editPf", "delPf"}
    PROVE  /\ Fits([j EXCEPT !.new = row])
           /\ [j EXCEPT !.new = row].calls = j.calls
<1> DEFINE k == [j EXCEPT !.new = row]
<1>1. row \in Iface \union Peer \union Pf
  OBVIOUS
<1>2. /\ k \in Job /\ k.calls = j.calls /\ k.op = j.op /\ k.p = j.p /\ k.f = j.f
      /\ k.new = row
  BY <1>1 DEF Fits, Job
<1>3. j.op \notin {"create", "update"}
  BY DEF PeerOps
<1> HIDE DEF k
<1>4. Fits(k) /\ k.calls = j.calls
  BY <1>2, <1>3 DEF Fits, Carries
<1> QED BY <1>4, Zenon DEF k

\* The statement on a peer's row.
LEMMA PeerStatementTyped ==
    ASSUME TInv, NEW w \in Workers, NEW F, PeerStatement(w, F)
    PROVE  TInv' /\ OnlyMoves(w)
<1> DEFINE j == jobs[w]
           kept == peers[j.p].st = "active"
           saved == Upsert(j.new, kept)
           k == [j EXCEPT !.new = saved]
           row == peers[j.p]
<1>0. /\ ifaces \in [Ifaces -> Iface] /\ peers \in [Peers -> Peer] /\ pfs \in [Pfs -> Pf]
      /\ dev \in [Names -> Device] /\ fw \subseteq Rule
  BY DEF TInv, TypeOK
<1>1. PICK call \in {"insertPeer", "savePeer", "trashPeer", "restorePeer", "purgePeer"} :
        At(w, call)
  BY DEF PeerStatement
<1>2. /\ j \in Job /\ j # NoJob /\ Fits(j) /\ up /\ j.i \in Ifaces /\ Place(j.op, j.calls)
      /\ Head(j.calls) \notin {"load", "saveIface"} /\ j.op \in PeerOps
  <2>1. /\ j \in Job /\ j # NoJob /\ Fits(j) /\ up /\ j.i \in Ifaces /\ Place(j.op, j.calls)
        /\ Head(j.calls) = call
    BY <1>1, AtWork, JobParts
  <2> QED BY <2>1, Heads DEF PeerOps
<1>3. j.p \in Peers /\ j.new \in Peer
  BY <1>2 DEF Fits, Carries
<1>4. saved \in Peer /\ row \in Peer
  BY <1>0, <1>3, RowChanges
<1>5. Fits(k) /\ k.calls = j.calls
  <2>1. j.op \notin {"addPf", "editPf", "delPf"}
    BY <1>2 DEF PeerOps
  <2> QED BY <1>2, <1>4, <2>1, RenewedFits
<1>6. Pending(j.i) \in Verdicts /\ "none" \in Verdicts
  BY DEF Pending, Verdicts
<1>7. \E fits, new : \/ new \in Peer /\ WritePeer(w, fits, new, j)
                     \/ new = saved /\ At(w, "savePeer") /\ WritePeer(w, fits, new, k)
  <2>1. ASSUME NEW st \in RowState PROVE [row EXCEPT !.st = st] \in Peer
    BY <1>4, <2>1, RowChanges
  <2>2. [row EXCEPT !.st = "trashed"] \in Peer /\ [row EXCEPT !.st = "active"] \in Peer
    BY <2>1 DEF RowState
  <2>3. CASE At(w, "insertPeer") /\ WritePeer(w, "save" \notin F.db /\ PeerFits(j.p, j.new), j.new, j)
    BY <1>3, <2>3
  <2>4. CASE At(w, "savePeer") /\ WritePeer(w, "save" \notin F.db /\ PeerFits(j.p, saved), saved, k)
    BY <2>4
  <2>5. CASE At(w, "trashPeer") /\ WritePeer(w, "row" \notin F.db,
                                 IF kept THEN [row EXCEPT !.st = "trashed"] ELSE row, j)
    BY <1>4, <2>2, <2>5
  <2>6. CASE At(w, "restorePeer") /\ WritePeer(w, "row" \notin F.db,
                                 IF InTable(row) THEN [row EXCEPT !.st = "active"] ELSE row, j)
    BY <1>4, <2>2, <2>6
  <2>7. CASE At(w, "purgePeer") /\ WritePeer(w, "row" \notin F.db, BlankPeer("purged"), j)
    BY <2>7, BlanksTyped
  <2> QED BY <2>3, <2>4, <2>5, <2>6, <2>7 DEF PeerStatement
<1>8. PICK fits, new : \/ new \in Peer /\ WritePeer(w, fits, new, j)
                       \/ new = saved /\ At(w, "savePeer") /\ WritePeer(w, fits, new, k)
  BY <1>7
<1>9. \/ Stop(w, "none") \/ GoOn(w, j, Pending(j.i))
      \/ GoOn(w, k, Pending(j.i))
  BY <1>8 DEF WritePeer
<1>10. peers' \in [Peers -> Peer]
  BY <1>0, <1>3, <1>4, <1>8 DEF WritePeer
<1>11. Len(k.calls) # 1 => Fits(Onto(k, Pending(j.i)))
  <2> HIDE DEF k, j
  <2>1. Head(k.calls) \notin {"load", "saveIface"}
    BY <1>2, <1>5
  <2> QED BY <1>5, <1>6, <2>1, OntoFits
<1> HIDE DEF k, j
<1>12. owed' \subseteq Names /\ JobsFit' /\ OnlyMoves(w)
  <2>1. CASE GoOn(w, k, Pending(j.i))
    BY <1>2, <1>11, <2>1, WentOn DEF OnlyMoves, j
  <2>2. CASE Stop(w, "none") \/ GoOn(w, j, Pending(j.i))
    BY <1>2, <1>6, <2>2, Simple DEF OnlyMoves, j
  <2> QED BY <1>9, <2>1, <2>2
<1> QED BY <1>0, <1>2, <1>10, <1>12, StaysTyped DEF PeerStatement, HostUntouched, Aside

\* The forwards of an interface or a peer.
LEMMA CascadeTyped ==
    ASSUME TInv, NEW w \in Workers, NEW F, Cascade(w, F)
    PROVE  TInv' /\ OnlyMoves(w)
<1> DEFINE j == jobs[w]
           v == IF j.op = "bootPfs" THEN "none" ELSE Owing(j)
<1>0. /\ ifaces \in [Ifaces -> Iface] /\ peers \in [Peers -> Peer] /\ pfs \in [Pfs -> Pf]
      /\ dev \in [Names -> Device] /\ fw \in SUBSET Rule /\ TypeOK
  BY DEF TInv, TypeOK
<1>1. PICK call \in {"reapply", "reapplyAll", "unapply", "purgePfs"} : At(w, call)
  BY DEF Cascade
<1>2. /\ j \in Job /\ j # NoJob /\ up /\ j.verdict \in Verdicts
      /\ Head(j.calls) \notin {"load", "saveIface"}
  BY <1>1, AtWork, JobParts
<1>3. v \in Verdicts /\ GoOn(w, j, v)
  BY <1>2 DEF Cascade, Owing, Verdicts
<1>4. owed' \subseteq Names /\ JobsFit' /\ OnlyMoves(w)
  BY <1>2, <1>3, Simple DEF OnlyMoves
<1>5. Followers(j) \in SUBSET Pfs
  BY DEF Followers, ForwardsTo, Forwards
<1>6. fw' \subseteq Rule
  <2> DEFINE All == {f \in Pfs : pfs[f].st = "active" /\ pfs[f].iface \in Wanted}
  <2>1. All \in SUBSET Pfs
    OBVIOUS
  <2> HIDE DEF All
  <2>2. Reapply(fw, Followers(j), F) \subseteq Rule /\ Reapply(fw, All, F) \subseteq Rule
        /\ Unapply(fw, Followers(j), F) \subseteq Rule
    BY <1>0, <1>5, <2>1, FirewallTyped
  <2> QED BY <2>2 DEF Cascade, All
<1>7. pfs' \in [Pfs -> Pf]
  BY <1>0, BlanksTyped DEF Cascade
<1> QED BY <1>0, <1>2, <1>4, <1>6, <1>7, StaysTyped DEF Cascade, Aside

\* The statement on a forward's row.
LEMMA PfStatementTyped ==
    ASSUME TInv, NEW w \in Workers, NEW F, PfStatement(w, F)
    PROVE  TInv' /\ OnlyMoves(w)
<1> DEFINE j == jobs[w]
           saved == Upsert(j.new, pfs[j.f].st = "active")
           K(row) == [j EXCEPT !.new = row]
<1>0. /\ ifaces \in [Ifaces -> Iface] /\ peers \in [Peers -> Peer] /\ pfs \in [Pfs -> Pf]
      /\ dev \in [Names -> Device] /\ fw \subseteq Rule
  BY DEF TInv, TypeOK
<1>1. PICK call \in {"insertPf", "savePf", "deletePf"} : At(w, call)
  BY DEF PfStatement
<1>2. /\ j \in Job /\ j # NoJob /\ Fits(j) /\ up /\ Place(j.op, j.calls)
      /\ Head(j.calls) \notin {"load", "saveIface"} /\ j.op \in {"addPf", "editPf", "delPf"}
  <2>1. /\ j \in Job /\ j # NoJob /\ Fits(j) /\ up /\ Place(j.op, j.calls)
        /\ Head(j.calls) = call
    BY <1>1, AtWork, JobParts
  <2> QED BY <2>1, Heads
<1>3. j.f \in Pfs /\ j.new \in Pf
  BY <1>2 DEF Fits, Carries
<1>4. saved \in Pf /\ j.new \in Pf /\ BlankPf("purged") \in Pf
  BY <1>3, RowChanges, BlanksTyped
<1>5. \E row \in Pf : \/ pfs' = [pfs EXCEPT ![j.f] = row] /\ GoOn(w, K(row), "none")
                      \/ UNCHANGED pfs /\ Stop(w, "none")
  BY <1>4 DEF PfStatement
<1>6. PICK row \in Pf : \/ pfs' = [pfs EXCEPT ![j.f] = row] /\ GoOn(w, K(row), "none")
                        \/ UNCHANGED pfs /\ Stop(w, "none")
  BY <1>5
<1>7. pfs' \in [Pfs -> Pf]
  BY <1>0, <1>3, <1>6
<1> DEFINE k == K(row)
<1>8. Fits(k) /\ k.calls = j.calls
  <2>1. j.op \notin PeerOps
    BY <1>2 DEF PeerOps
  <2> QED BY <1>2, <2>1, RenewedFits
<1>9. "none" \in Verdicts
  BY DEF Verdicts
<1>10. GoOn(w, k, "none") \/ Stop(w, "none")
  BY <1>6
<1> HIDE DEF k, j
<1>11. Len(k.calls) # 1 => Fits(Onto(k, "none"))
  <2>1. Head(k.calls) \notin {"load", "saveIface"}
    BY <1>2, <1>8
  <2> QED BY <1>8, <1>9, <2>1, OntoFits
<1>12. owed' \subseteq Names /\ JobsFit' /\ OnlyMoves(w)
  <2>1. CASE GoOn(w, k, "none")
    BY <1>2, <1>11, <2>1, WentOn DEF OnlyMoves, j
  <2>2. CASE Stop(w, "none")
    BY <1>2, <1>9, <2>2, Simple DEF OnlyMoves, j
  <2> QED BY <1>10, <2>1, <2>2
<1> QED BY <1>0, <1>2, <1>7, <1>12, StaysTyped DEF PfStatement, HostUntouched, Aside

\* The rules of one forward.
LEMMA PfRulesTyped ==
    ASSUME TInv, NEW w \in Workers, NEW F, PfRulesCall(w, F)
    PROVE  TInv' /\ OnlyMoves(w)
<1> DEFINE j == jobs[w]
<1>0. /\ ifaces \in [Ifaces -> Iface] /\ peers \in [Peers -> Peer] /\ pfs \in [Pfs -> Pf]
      /\ dev \in [Names -> Device] /\ fw \in SUBSET Rule /\ TypeOK
  BY DEF TInv, TypeOK
<1>1. PICK call \in {"removePf", "applyPf"} : At(w, call)
  BY DEF PfRulesCall
<1>2. /\ j \in Job /\ j # NoJob /\ Fits(j) /\ up
      /\ Head(j.calls) \notin {"load", "saveIface"} /\ j.op \in {"addPf", "editPf", "delPf"}
  <2>1. /\ j \in Job /\ j # NoJob /\ Fits(j) /\ up /\ Place(j.op, j.calls)
        /\ Head(j.calls) = call
    BY <1>1, AtWork, JobParts
  <2> QED BY <2>1, Heads
<1>3. GoOn(w, j, "none") /\ "none" \in Verdicts
  BY DEF PfRulesCall, Verdicts
<1>4. owed' \subseteq Names /\ JobsFit' /\ OnlyMoves(w)
  BY <1>2, <1>3, Simple DEF OnlyMoves
<1>5. j.f \in Pfs /\ j.new.tport \in Ports
  BY <1>2 DEF Fits, Carries, Pf
<1>6. fw' \subseteq Rule
  <2>1. PfRules(j.f, j.new.tport) \in SUBSET Rule
    BY <1>5, RulesTyped
  <2>2. /\ EnsureRules(fw, PfRules(j.f, j.new.tport), F) \subseteq Rule
        /\ DeleteRules(fw, StaleRules(j), F) \subseteq Rule
    BY <1>0, <2>1, FirewallTyped
  <2> QED BY <1>0, <2>2 DEF PfRulesCall
<1> QED BY <1>0, <1>2, <1>4, <1>6, StaysTyped DEF PfRulesCall, RowsUntouched, Aside

-----------------------------------------------------------------------------
(* Taking up a job *)

\* A job as a worker takes it up.
Begun(op, i, p, f, row, kids, pf, new, verdict) ==
    [op |-> op, i |-> i, p |-> p, f |-> f, row |-> row, kids |-> kids, pf |-> pf,
     new |-> new, calls |-> Script[op], verdict |-> verdict, solo |-> TRUE]

\* A script begins in its place.
LEMMA ScriptsPlaced ==
    \A op \in DOMAIN Script : Place(op, Script[op])
<1>1. ASSUME NEW op \in {"create", "update", "delete", "restore", "purge", "sync", "boot",
                         "bootPfs"}
      PROVE  Place(op, Script[op])
  BY DEF Place, Script, Reconciling
<1>2. ASSUME NEW op \in PeerOps
      PROVE  Place(op, Script[op])
  BY DEF Place, Script, PeerOps
<1>3. ASSUME NEW op \in {"addPf", "editPf", "delPf"}
      PROVE  Place(op, Script[op])
  BY DEF Place, Script, DelPf
<1>4. DOMAIN Script = {"create", "update", "delete", "restore", "purge", "sync", "boot",
                       "bootPfs"} \union PeerOps \union {"addPf", "editPf", "delPf"}
  BY DEF Script, PeerOps
<1> QED BY <1>1, <1>2, <1>3, <1>4

\* A job that begins with rows of the right kind is in order.
LEMMA BegunFits ==
    ASSUME NEW op \in DOMAIN Script, NEW i \in Ifaces, NEW p \in Peers \union {<<>>},
           NEW f \in Pfs \union {<<>>}, NEW row \in Iface, NEW kids \in Preloads,
           NEW pf \in Pf, NEW new \in Iface \union Peer \union Pf, NEW verdict \in Verdicts,
           op \in {"create", "update"} => new \in Iface /\ new.st = "active",
           op \in PeerOps => p \in Peers /\ new \in Peer,
           op \in {"addPf", "editPf", "delPf"} => f \in Pfs /\ new \in Pf
    PROVE  Fits(Begun(op, i, p, f, row, kids, pf, new, verdict))
<1> DEFINE m == Begun(op, i, p, f, row, kids, pf, new, verdict)
<1>1. Place(op, Script[op])
  BY ScriptsPlaced
<1>2. Script[op] \in Seq(Calls)
  BY <1>1, PlaceTyped
<1>3. /\ m.op = op /\ m.p = p /\ m.f = f /\ m.new = new /\ m.calls = Script[op]
  BY DEF Begun
<1>4. m \in Job
  BY <1>2 DEF Begun, Job, Preloads
<1> HIDE DEF m
<1>5. Fits(m)
  BY <1>1, <1>3, <1>4 DEF Fits, Carries
<1> QED BY <1>5, Zenon DEF m

\* A job that has not read its peers.
LEMMA NoKids == <<>> \in Preloads
<1> DEFINE T == {p \in Peer : p.st = "active"}
<1>1. <<>> \in [{} -> T]
  OBVIOUS
<1>2. {} \in SUBSET Peers
  OBVIOUS
<1> HIDE DEF T
<1>3. <<>> \in UNION {[U -> T] : U \in SUBSET Peers}
  BY <1>1, <1>2, Zenon
<1> QED BY <1>3 DEF Preloads, T

\* What the lookups at the start of a handler have established.
Origin(m) ==
    /\ m.calls = Script[m.op] /\ m.solo
    /\ m.verdict = IF m.op = "boot" THEN Pending(m.i) ELSE "none"
    /\ m.op = "create" => /\ ifaces[m.i].st = "none" /\ Fresh("create", m.i, <<>>, <<>>)
                          /\ \E u \in Users : m.new \in NewIface(u, m.i)
    /\ m.op \in {"update", "delete"} => Active(m.i) /\ m.row = ifaces[m.i]
    /\ m.op = "update" => m.kids = Kids(m.i) /\ \E e \in Edits(m.i) : m.new = Edited(m.i, e)
    /\ m.op # "update" => m.kids = <<>>
    /\ m.op = "sync" => Active(m.i)
    /\ m.op = "restore" => ifaces[m.i].st = "trashed"
    /\ m.op = "purge" => InTable(ifaces[m.i]) /\ m.row = ifaces[m.i]
    /\ m.op = "addPeer" =>
         /\ Active(m.i) /\ peers[m.p].st = "none" /\ Fresh("addPeer", <<>>, m.p, <<>>)
         /\ m.new.st = "active" /\ m.new.iface = m.i
    /\ m.op \in PeerOps \ {"addPeer"} =>
         InTable(peers[m.p]) /\ m.i = peers[m.p].iface /\ m.new.iface = m.i
    /\ m.op = "editPeer" => peers[m.p].st = "active" /\ m.new.st = "active"
    /\ m.op = "delPeer" => peers[m.p].st = "active"
    /\ m.op = "restorePeer" => /\ peers[m.p].st = "trashed" /\ Active(m.i)
                               /\ m.new = [peers[m.p] EXCEPT !.st = "active"]
    /\ m.op = "addPf" => /\ pfs[m.f].st = "none" /\ Fresh("addPf", <<>>, <<>>, m.f)
                         /\ m.new.st = "active"
    /\ m.op \in {"editPf", "delPf"} =>
         /\ pfs[m.f].st = "active" /\ m.pf = pfs[m.f] /\ m.new.st = "active"
    /\ m.op = "boot" => m.i \in todo
    /\ m.op = "bootPfs" => todo = {} /\ pfTodo

\* What a user has asked for, and may ask for while the tables are `ti', `tp' and `tf'
\* and the default route is `route'.
Entitled(op, i, p, f, pf, new, ti, tp, tf, route) ==
    \E u \in Users :
      /\ op = "create" => ti[i].st = "none" /\ new \in NewIface(u, i)
      /\ op \in {"update", "delete", "sync"} =>
           ti[i].st = "active" /\ Owns(u, ti[i].owner)
      /\ op = "update" => \E e \in Edits(i) :
           new = [ti[i] EXCEPT !.addr = e.addr, !.egress = e.egress, !.port = e.port,
                                   !.masq = e.masq, !.on = e.on]
      /\ op = "restore" => ti[i].st = "trashed" /\ Owns(u, ti[i].owner)
      /\ op = "purge" => InTable(ti[i]) /\ Owns(u, ti[i].owner)
      /\ op \in PeerOps => Owns(u, ti[i].owner)
      /\ op = "addPeer" =>
           /\ ti[i].st = "active" /\ tp[p].st = "none"
           /\ \E ip \in HostsOf[ti[i].addr] :
                new = [st |-> "active", iface |-> i, on |-> TRUE, ip |-> ip]
      /\ op \in PeerOps \ {"addPeer"} => i = tp[p].iface /\ InTable(tp[p])
      /\ op \in {"editPeer", "delPeer"} => tp[p].st = "active"
      /\ op = "editPeer" => \E on \in BOOLEAN : new = [tp[p] EXCEPT !.on = on]
      /\ op = "restorePeer" => /\ tp[p].st = "trashed" /\ ti[i].st = "active"
                                 /\ new = [tp[p] EXCEPT !.st = "active"]
      /\ op = "addPf" =>
           /\ p \in Peers /\ tp[p].st = "active" /\ i = tp[p].iface
           /\ ti[i].st = "active" /\ Owns(u, ti[i].owner)
           /\ Egress(ti[i].egress, route) # NoLink /\ tf[f].st = "none"
           /\ \E pub \in PortChoices.public, tport \in PortChoices.target :
                new = [st |-> "active", iface |-> i, peer |-> p, on |-> TRUE,
                         pub |-> pub, tport |-> tport, owner |-> u]
      /\ op \in {"editPf", "delPf"} =>
           /\ tf[f].st = "active" /\ Owns(u, tf[f].owner)
           /\ InTable(ti[tf[f].iface]) /\ pf = tf[f]
      /\ op = "editPf" => \E tport \in PortChoices.target, on \in BOOLEAN :
           new = [tf[f] EXCEPT !.tport = tport, !.on = on]

Asked(m, ti, tp, tf, route) ==
    Entitled(m.op, m.i, m.p, m.f, m.pf, m.new, ti, tp, tf, route)

\* A worker takes up a job in order, and touches nothing but what is left to the
\* bootstrap.
TakesUp(w, m) ==
    /\ Take(w, m) /\ Fits(m) /\ Origin(m) /\ Asked(m, ifaces, peers, pfs, wan)
    /\ UNCHANGED <<db, dev, fw, wan, owed, up>>
    /\ IF m.op = "boot" THEN todo' = todo \ {m.i} /\ pfTodo' = pfTodo
       ELSE IF m.op = "bootPfs" THEN pfTodo' = FALSE /\ todo' = todo
       ELSE UNCHANGED boot

\* A blank job is one that has begun,
LEMMA BlankPlain ==
    ASSUME NEW op, NEW i
    PROVE  Blank(op, i)
             = Begun(op, i, <<>>, <<>>, BlankIface("none"), <<>>,
                     BlankPf("none"), BlankIface("none"), "none")
<1> DEFINE b == BlankIface("none")
           c == BlankPf("none")
           s == Script[op]
           e == <<>>
           v == "none"
           t == TRUE
           r == Blank(op, i)
<1>1. r = [op |-> op, i |-> i, p |-> e, f |-> e, row |-> b, kids |-> e, pf |-> c,
                     new |-> b, calls |-> s, verdict |-> v, solo |-> t]
  BY DEF Blank
<1>2. Begun(op, i, e, e, b, e, c, b, v)
         = [op |-> op, i |-> i, p |-> e, f |-> e, row |-> b, kids |-> e, pf |-> c,
                     new |-> b, calls |-> s, verdict |-> v, solo |-> t]
  BY DEF Begun
<1> HIDE DEF b, c, s, e, v, t, r
<1> QED BY <1>1, <1>2, Zenon DEF b, c, s, e, v, t, r

\* and so is one with some of its parts filled in.
LEMMA BlankNew ==
    ASSUME NEW op, NEW i, NEW new
    PROVE  [Blank(op, i) EXCEPT !.new = new]
             = Begun(op, i, <<>>, <<>>, BlankIface("none"), <<>>, BlankPf("none"), new, "none")
<1> DEFINE b == BlankIface("none")
           c == BlankPf("none")
           s == Script[op]
           e == <<>>
           v == "none"
           t == TRUE
           r == Blank(op, i)
<1>1. r = [op |-> op, i |-> i, p |-> e, f |-> e, row |-> b, kids |-> e, pf |-> c,
                     new |-> b, calls |-> s, verdict |-> v, solo |-> t]
  BY DEF Blank
<1>2. Begun(op, i, e, e, b, e, c, new, v)
         = [op |-> op, i |-> i, p |-> e, f |-> e, row |-> b, kids |-> e, pf |-> c,
                     new |-> new, calls |-> s, verdict |-> v, solo |-> t]
  BY DEF Begun
<1> HIDE DEF b, c, s, e, v, t, r
<1> DEFINE q == [r EXCEPT !.new = new]
<1>3. q \in [op: {op}, i: {i}, p: {e}, f: {e}, row: {b}, kids: {e}, pf: {c},
                     new: {new}, calls: {s}, verdict: {v}, solo: {t}]
  BY <1>1
<1> HIDE DEF q
<1>4. q = [op |-> op, i |-> i, p |-> e, f |-> e, row |-> b, kids |-> e, pf |-> c,
                     new |-> new, calls |-> s, verdict |-> v, solo |-> t]
  BY <1>3
<1> QED BY <1>2, <1>4, Zenon DEF b, c, s, e, v, t, r, q

\* and so is one with some of its parts filled in.
LEMMA BlankRow ==
    ASSUME NEW op, NEW i, NEW row
    PROVE  [Blank(op, i) EXCEPT !.row = row]
             = Begun(op, i, <<>>, <<>>, row, <<>>, BlankPf("none"), BlankIface("none"), "none")
<1> DEFINE b == BlankIface("none")
           c == BlankPf("none")
           s == Script[op]
           e == <<>>
           v == "none"
           t == TRUE
           r == Blank(op, i)
<1>1. r = [op |-> op, i |-> i, p |-> e, f |-> e, row |-> b, kids |-> e, pf |-> c,
                     new |-> b, calls |-> s, verdict |-> v, solo |-> t]
  BY DEF Blank
<1>2. Begun(op, i, e, e, row, e, c, b, v)
         = [op |-> op, i |-> i, p |-> e, f |-> e, row |-> row, kids |-> e, pf |-> c,
                     new |-> b, calls |-> s, verdict |-> v, solo |-> t]
  BY DEF Begun
<1> HIDE DEF b, c, s, e, v, t, r
<1> DEFINE q == [r EXCEPT !.row = row]
<1>3. q \in [op: {op}, i: {i}, p: {e}, f: {e}, row: {row}, kids: {e}, pf: {c},
                     new: {b}, calls: {s}, verdict: {v}, solo: {t}]
  BY <1>1
<1> HIDE DEF q
<1>4. q = [op |-> op, i |-> i, p |-> e, f |-> e, row |-> row, kids |-> e, pf |-> c,
                     new |-> b, calls |-> s, verdict |-> v, solo |-> t]
  BY <1>3
<1> QED BY <1>2, <1>4, Zenon DEF b, c, s, e, v, t, r, q

\* and so is one with some of its parts filled in.
LEMMA BlankRead ==
    ASSUME NEW op, NEW i, NEW row, NEW kids, NEW new
    PROVE  [Blank(op, i) EXCEPT !.row = row, !.kids = kids, !.new = new]
             = Begun(op, i, <<>>, <<>>, row, kids, BlankPf("none"), new, "none")
<1> DEFINE b == BlankIface("none")
           c == BlankPf("none")
           s == Script[op]
           e == <<>>
           v == "none"
           t == TRUE
           r == Blank(op, i)
<1>1. r = [op |-> op, i |-> i, p |-> e, f |-> e, row |-> b, kids |-> e, pf |-> c,
                     new |-> b, calls |-> s, verdict |-> v, solo |-> t]
  BY DEF Blank
<1>2. Begun(op, i, e, e, row, kids, c, new, v)
         = [op |-> op, i |-> i, p |-> e, f |-> e, row |-> row, kids |-> kids, pf |-> c,
                     new |-> new, calls |-> s, verdict |-> v, solo |-> t]
  BY DEF Begun
<1> HIDE DEF b, c, s, e, v, t, r
<1> DEFINE q == [r EXCEPT !.row = row, !.kids = kids, !.new = new]
<1>3. q \in [op: {op}, i: {i}, p: {e}, f: {e}, row: {row}, kids: {kids}, pf: {c},
                     new: {new}, calls: {s}, verdict: {v}, solo: {t}]
  BY <1>1
<1> HIDE DEF q
<1>4. q = [op |-> op, i |-> i, p |-> e, f |-> e, row |-> row, kids |-> kids, pf |-> c,
                     new |-> new, calls |-> s, verdict |-> v, solo |-> t]
  BY <1>3
<1> QED BY <1>2, <1>4, Zenon DEF b, c, s, e, v, t, r, q

\* and so is one with some of its parts filled in.
LEMMA BlankForPeer ==
    ASSUME NEW op, NEW i, NEW p, NEW new
    PROVE  [Blank(op, i) EXCEPT !.p = p, !.new = new]
             = Begun(op, i, p, <<>>, BlankIface("none"), <<>>, BlankPf("none"), new, "none")
<1> DEFINE b == BlankIface("none")
           c == BlankPf("none")
           s == Script[op]
           e == <<>>
           v == "none"
           t == TRUE
           r == Blank(op, i)
<1>1. r = [op |-> op, i |-> i, p |-> e, f |-> e, row |-> b, kids |-> e, pf |-> c,
                     new |-> b, calls |-> s, verdict |-> v, solo |-> t]
  BY DEF Blank
<1>2. Begun(op, i, p, e, b, e, c, new, v)
         = [op |-> op, i |-> i, p |-> p, f |-> e, row |-> b, kids |-> e, pf |-> c,
                     new |-> new, calls |-> s, verdict |-> v, solo |-> t]
  BY DEF Begun
<1> HIDE DEF b, c, s, e, v, t, r
<1> DEFINE q == [r EXCEPT !.p = p, !.new = new]
<1>3. q \in [op: {op}, i: {i}, p: {p}, f: {e}, row: {b}, kids: {e}, pf: {c},
                     new: {new}, calls: {s}, verdict: {v}, solo: {t}]
  BY <1>1
<1> HIDE DEF q
<1>4. q = [op |-> op, i |-> i, p |-> p, f |-> e, row |-> b, kids |-> e, pf |-> c,
                     new |-> new, calls |-> s, verdict |-> v, solo |-> t]
  BY <1>3
<1> QED BY <1>2, <1>4, Zenon DEF b, c, s, e, v, t, r, q

\* and so is one with some of its parts filled in.
LEMMA BlankForPf ==
    ASSUME NEW op, NEW i, NEW p, NEW f, NEW new
    PROVE  [Blank(op, i) EXCEPT !.p = p, !.f = f, !.new = new]
             = Begun(op, i, p, f, BlankIface("none"), <<>>, BlankPf("none"), new, "none")
<1> DEFINE b == BlankIface("none")
           c == BlankPf("none")
           s == Script[op]
           e == <<>>
           v == "none"
           t == TRUE
           r == Blank(op, i)
<1>1. r = [op |-> op, i |-> i, p |-> e, f |-> e, row |-> b, kids |-> e, pf |-> c,
                     new |-> b, calls |-> s, verdict |-> v, solo |-> t]
  BY DEF Blank
<1>2. Begun(op, i, p, f, b, e, c, new, v)
         = [op |-> op, i |-> i, p |-> p, f |-> f, row |-> b, kids |-> e, pf |-> c,
                     new |-> new, calls |-> s, verdict |-> v, solo |-> t]
  BY DEF Begun
<1> HIDE DEF b, c, s, e, v, t, r
<1> DEFINE q == [r EXCEPT !.p = p, !.f = f, !.new = new]
<1>3. q \in [op: {op}, i: {i}, p: {p}, f: {f}, row: {b}, kids: {e}, pf: {c},
                     new: {new}, calls: {s}, verdict: {v}, solo: {t}]
  BY <1>1
<1> HIDE DEF q
<1>4. q = [op |-> op, i |-> i, p |-> p, f |-> f, row |-> b, kids |-> e, pf |-> c,
                     new |-> new, calls |-> s, verdict |-> v, solo |-> t]
  BY <1>3
<1> QED BY <1>2, <1>4, Zenon DEF b, c, s, e, v, t, r, q

\* A request on a forward that was read.
WithPf(op, i, p, f, pf, new) ==
    [Blank(op, i) EXCEPT !.p = p, !.f = f, !.pf = pf, !.new = new]

\* and so is one with some of its parts filled in.
LEMMA BlankWithPf ==
    ASSUME NEW op, NEW i, NEW p, NEW f, NEW pf, NEW new
    PROVE  WithPf(op, i, p, f, pf, new)
             = Begun(op, i, p, f, BlankIface("none"), <<>>, pf, new, "none")
<1> DEFINE b == BlankIface("none")
           c == BlankPf("none")
           s == Script[op]
           e == <<>>
           v == "none"
           t == TRUE
           r == Blank(op, i)
<1>1. r = [op |-> op, i |-> i, p |-> e, f |-> e, row |-> b, kids |-> e, pf |-> c,
                     new |-> b, calls |-> s, verdict |-> v, solo |-> t]
  BY DEF Blank
<1>2. Begun(op, i, p, f, b, e, pf, new, v)
         = [op |-> op, i |-> i, p |-> p, f |-> f, row |-> b, kids |-> e, pf |-> pf,
                     new |-> new, calls |-> s, verdict |-> v, solo |-> t]
  BY DEF Begun
<1> HIDE DEF b, c, s, e, v, t, r
<1> DEFINE q == [r EXCEPT !.p = p, !.f = f, !.pf = pf, !.new = new]
<1>3. q \in [op: {op}, i: {i}, p: {p}, f: {f}, row: {b}, kids: {e}, pf: {pf},
                     new: {new}, calls: {s}, verdict: {v}, solo: {t}]
  BY <1>1
<1> HIDE DEF q
<1>4. q = [op |-> op, i |-> i, p |-> p, f |-> f, row |-> b, kids |-> e, pf |-> pf,
                     new |-> new, calls |-> s, verdict |-> v, solo |-> t]
  BY <1>3
<1> QED BY <1>2, <1>4, Zenon DEF b, c, s, e, v, t, r, q, WithPf

\* and so is one with some of its parts filled in.
LEMMA BlankVerdict ==
    ASSUME NEW op, NEW i, NEW verdict
    PROVE  [Blank(op, i) EXCEPT !.verdict = verdict]
             = Begun(op, i, <<>>, <<>>, BlankIface("none"), <<>>,
                     BlankPf("none"), BlankIface("none"), verdict)
<1> DEFINE b == BlankIface("none")
           c == BlankPf("none")
           s == Script[op]
           e == <<>>
           v == "none"
           t == TRUE
           r == Blank(op, i)
<1>1. r = [op |-> op, i |-> i, p |-> e, f |-> e, row |-> b, kids |-> e, pf |-> c,
                     new |-> b, calls |-> s, verdict |-> v, solo |-> t]
  BY DEF Blank
<1>2. Begun(op, i, e, e, b, e, c, b, verdict)
         = [op |-> op, i |-> i, p |-> e, f |-> e, row |-> b, kids |-> e, pf |-> c,
                     new |-> b, calls |-> s, verdict |-> verdict, solo |-> t]
  BY DEF Begun
<1> HIDE DEF b, c, s, e, v, t, r
<1> DEFINE q == [r EXCEPT !.verdict = verdict]
<1>3. q \in [op: {op}, i: {i}, p: {e}, f: {e}, row: {b}, kids: {e}, pf: {c},
                     new: {b}, calls: {s}, verdict: {verdict}, solo: {t}]
  BY <1>1
<1> HIDE DEF q
<1>4. q = [op |-> op, i |-> i, p |-> e, f |-> e, row |-> b, kids |-> e, pf |-> c,
                     new |-> b, calls |-> s, verdict |-> verdict, solo |-> t]
  BY <1>3
<1> QED BY <1>2, <1>4, Zenon DEF b, c, s, e, v, t, r, q

\* Interface requests.
LEMMA IfaceTaken ==
    ASSUME TInv, NEW w \in Workers, NEW u \in Users, NEW i \in Ifaces, TakeIface(w, u, i)
    PROVE  \E m : TakesUp(w, m)
<1> DEFINE B(op, row, kids, new) ==
             Begun(op, i, <<>>, <<>>, row, kids, BlankPf("none"), new, "none")
           blank == BlankIface("none")
<1>1. /\ TypeOK /\ blank \in Iface /\ BlankPf("none") \in Pf /\ <<>> \in Preloads
      /\ ifaces[i] \in Iface /\ Kids(i) \in Preloads /\ "none" \in Verdicts
      /\ blank \in Iface \union Peer \union Pf
      /\ {"create", "update", "delete", "restore", "purge", "sync"} \subseteq DOMAIN Script
  BY BlanksTyped, NoKids, KidsLoaded DEF TInv, TypeOK, Verdicts, Script
<1>2. ASSUME NEW row \in NewIface(u, i), ifaces[i].st = "none",
             Fresh("create", i, <<>>, <<>>), Take(w, [Blank("create", i) EXCEPT !.new = row])
      PROVE  \E m : TakesUp(w, m)
  <2> DEFINE m == B("create", blank, <<>>, row)
  <2>1. [Blank("create", i) EXCEPT !.new = row] = m
    <3>1. \A op : [Blank(op, i) EXCEPT !.new = row] = B(op, blank, <<>>, row)
      BY BlankNew
    <3> QED BY <3>1
  <2>2. row \in Iface /\ row.st = "active"
    BY <1>1, RowsTyped DEF NewIface
  <2>3. Fits(m)
    BY <1>1, <2>2, BegunFits DEF PeerOps
  <2>4. Origin(m)
    BY <1>2 DEF Begun, Origin, PeerOps
  <2>5. m.op = "create" /\ Asked(m, ifaces, peers, pfs, wan)
    BY <1>2 DEF Begun, Asked, Entitled, PeerOps
  <2> HIDE DEF m
  <2>6. Take(w, m)
    BY <1>2, <2>1, Zenon
  <2> QED BY <2>3, <2>4, <2>5, <2>6 DEF TakesUp, TakeIface, vars, db, boot
<1>3. ASSUME FindInterface(u, i), NEW e \in Edits(i),
             Take(w, [Blank("update", i) EXCEPT
                        !.row = ifaces[i], !.kids = Kids(i), !.new = Edited(i, e)])
      PROVE  \E m : TakesUp(w, m)
  <2> DEFINE m == B("update", ifaces[i], Kids(i), Edited(i, e))
  <2>1. [Blank("update", i) EXCEPT !.row = ifaces[i], !.kids = Kids(i), !.new = Edited(i, e)] = m
    <3>1. \A op, row, kids, new :
            [Blank(op, i) EXCEPT !.row = row, !.kids = kids, !.new = new] = B(op, row, kids, new)
      BY BlankRead
    <3> QED BY <3>1, Zenon
  <2>2. Edited(i, e) \in Iface /\ Edited(i, e).st = "active"
    BY <1>1, <1>3, RowsTyped DEF Edited, Iface, FindInterface, Active
  <2>3. Fits(m)
    BY <1>1, <2>2, BegunFits DEF PeerOps
  <2>4. Origin(m)
    BY <1>3 DEF Begun, Origin, PeerOps, FindInterface
  <2>5. m.op = "update" /\ Asked(m, ifaces, peers, pfs, wan)
    BY <1>3 DEF Begun, Asked, Entitled, PeerOps, FindInterface, Active, Edited
  <2> HIDE DEF m
  <2>6. Take(w, m)
    BY <1>3, <2>1, Zenon
  <2> QED BY <2>3, <2>4, <2>5, <2>6 DEF TakesUp, TakeIface, vars, db, boot
<1>4. ASSUME NEW op \in {"delete", "purge"}, op = "delete" => FindInterface(u, i),
             op = "purge" => InTable(ifaces[i]) /\ Owns(u, ifaces[i].owner),
             Take(w, [Blank(op, i) EXCEPT !.row = ifaces[i]])
      PROVE  \E m : TakesUp(w, m)
  <2> DEFINE m == B(op, ifaces[i], <<>>, blank)
  <2>1. [Blank(op, i) EXCEPT !.row = ifaces[i]] = m
    BY BlankRow
  <2>2. op \notin {"create", "update"} /\ op \notin PeerOps
        /\ op \notin {"addPf", "editPf", "delPf"}
    BY DEF PeerOps
  <2>3. Fits(m)
    BY <1>1, <2>2, BegunFits
  <2>4. Origin(m)
    BY <1>4 DEF Begun, Origin, PeerOps, FindInterface
  <2>5. m.op \in {"delete", "purge"} /\ Asked(m, ifaces, peers, pfs, wan)
    BY <1>4 DEF Begun, Asked, Entitled, PeerOps, FindInterface, Active
  <2> HIDE DEF m
  <2>6. Take(w, m)
    BY <1>4, <2>1, Zenon
  <2> QED BY <2>3, <2>4, <2>5, <2>6 DEF TakesUp, TakeIface, vars, db, boot
<1>5. ASSUME NEW op \in {"sync", "restore"}, op = "sync" => FindInterface(u, i),
             op = "restore" => ifaces[i].st = "trashed" /\ Owns(u, ifaces[i].owner),
             Take(w, Blank(op, i))
      PROVE  \E m : TakesUp(w, m)
  <2> DEFINE m == B(op, blank, <<>>, blank)
  <2>1. Blank(op, i) = m
    BY BlankPlain
  <2>2. op \notin {"create", "update"} /\ op \notin PeerOps
        /\ op \notin {"addPf", "editPf", "delPf"}
    BY DEF PeerOps
  <2>3. Fits(m)
    BY <1>1, <2>2, BegunFits
  <2>4. Origin(m)
    BY <1>5 DEF Begun, Origin, PeerOps, FindInterface
  <2>5. m.op \in {"sync", "restore"} /\ Asked(m, ifaces, peers, pfs, wan)
    BY <1>5 DEF Begun, Asked, Entitled, PeerOps, FindInterface, Active
  <2> HIDE DEF m
  <2>6. Take(w, m)
    BY <1>5, <2>1, Zenon
  <2> QED BY <2>3, <2>4, <2>5, <2>6 DEF TakesUp, TakeIface, vars, db, boot
<1>6. \/ \E row \in NewIface(u, i) :
            /\ ifaces[i].st = "none" /\ Fresh("create", i, <<>>, <<>>)
            /\ Take(w, [Blank("create", i) EXCEPT !.new = row])
      \/ /\ FindInterface(u, i)
         /\ \/ \E e \in Edits(i) :
                 Take(w, [Blank("update", i) EXCEPT
                            !.row = ifaces[i], !.kids = Kids(i), !.new = Edited(i, e)])
            \/ Take(w, [Blank("delete", i) EXCEPT !.row = ifaces[i]])
            \/ Take(w, Blank("sync", i))
      \/ /\ InTable(ifaces[i]) /\ Owns(u, ifaces[i].owner)
         /\ \/ ifaces[i].st = "trashed" /\ Take(w, Blank("restore", i))
            \/ Take(w, [Blank("purge", i) EXCEPT !.row = ifaces[i]])
  BY DEF TakeIface
<1> QED
  <2>1. CASE \E row \in NewIface(u, i) :
               /\ ifaces[i].st = "none" /\ Fresh("create", i, <<>>, <<>>)
               /\ Take(w, [Blank("create", i) EXCEPT !.new = row])
    BY <1>2, <2>1
  <2>2. CASE \E e \in Edits(i) :
               /\ FindInterface(u, i)
               /\ Take(w, [Blank("update", i) EXCEPT
                            !.row = ifaces[i], !.kids = Kids(i), !.new = Edited(i, e)])
    BY <1>3, <2>2
  <2>3. CASE FindInterface(u, i) /\ Take(w, [Blank("delete", i) EXCEPT !.row = ifaces[i]])
    <3>1. \A op \in {"delete", "purge"} :
            op = "delete" /\ Take(w, [Blank(op, i) EXCEPT !.row = ifaces[i]])
              => \E m : TakesUp(w, m)
      BY <1>4, <2>3
    <3> QED BY <2>3, <3>1
  <2>4. CASE FindInterface(u, i) /\ Take(w, Blank("sync", i))
    <3>1. \A op \in {"sync", "restore"} :
            op = "sync" /\ Take(w, Blank(op, i)) => \E m : TakesUp(w, m)
      BY <1>5, <2>4
    <3> QED BY <2>4, <3>1
  <2>5. CASE /\ ifaces[i].st = "trashed" /\ Owns(u, ifaces[i].owner)
             /\ Take(w, Blank("restore", i))
    <3>1. \A op \in {"sync", "restore"} :
            op = "restore" /\ Take(w, Blank(op, i)) => \E m : TakesUp(w, m)
      BY <1>5, <2>5
    <3> QED BY <2>5, <3>1
  <2>6. CASE /\ InTable(ifaces[i]) /\ Owns(u, ifaces[i].owner)
             /\ Take(w, [Blank("purge", i) EXCEPT !.row = ifaces[i]])
    <3>1. \A op \in {"delete", "purge"} :
            op = "purge" /\ Take(w, [Blank(op, i) EXCEPT !.row = ifaces[i]])
              => \E m : TakesUp(w, m)
      BY <1>4, <2>6
    <3> QED BY <2>6, <3>1
  <2> QED BY <1>6, <2>1, <2>2, <2>3, <2>4, <2>5, <2>6

\* Peer requests.
LEMMA NewPeerTaken ==
    ASSUME TInv, NEW w \in Workers, NEW u \in Users, NEW i \in Ifaces, NEW p \in Peers,
           TakeNewPeer(w, u, i, p)
    PROVE  \E m : TakesUp(w, m)
<1>1. PICK ip \in HostsOf[ifaces[i].addr] :
        /\ FindInterface(u, i) /\ peers[p].st = "none"
        /\ Fresh("addPeer", <<>>, p, <<>>)
        /\ Take(w, [Blank("addPeer", i) EXCEPT !.p = p,
                      !.new = [st |-> "active", iface |-> i, on |-> TRUE, ip |-> ip]])
  BY DEF TakeNewPeer
<1> DEFINE new == [st |-> "active", iface |-> i, on |-> TRUE, ip |-> ip]
           m == Begun("addPeer", i, p, <<>>, BlankIface("none"), <<>>, BlankPf("none"), new, "none")
<1>2. [Blank("addPeer", i) EXCEPT !.p = p, !.new = new] = m
  <2>1. \A op, n : [Blank(op, i) EXCEPT !.p = p, !.new = n]
                   = Begun(op, i, p, <<>>, BlankIface("none"), <<>>, BlankPf("none"), n, "none")
    BY BlankForPeer
  <2> HIDE DEF new
  <2> QED BY <2>1
<1>3. new \in Peer /\ new.iface = i /\ new.st = "active"
  <2>1. ifaces[i].addr \in Addrs
    BY DEF TInv, TypeOK, Iface
  <2>2. ip \in IPs
    BY <2>1, PanelAssumption DEF PanelAssumption
  <2> QED BY <2>2 DEF Peer, RowState
<1>4. Fits(m)
  <2>1. /\ "addPeer" \in DOMAIN Script /\ "none" \in Verdicts /\ "addPeer" \in PeerOps
        /\ BlankIface("none") \in Iface /\ BlankPf("none") \in Pf /\ <<>> \in Preloads
    BY BlanksTyped, NoKids DEF Script, Verdicts, PeerOps
  <2> HIDE DEF new
  <2>2. new \in Iface \union Peer \union Pf
    BY <1>3
  <2> QED BY <1>3, <2>1, <2>2, BegunFits
<1>5. Origin(m) /\ m.op = "addPeer"
  <2> HIDE DEF new
  <2> QED BY <1>1, <1>3 DEF Begun, Origin, PeerOps, FindInterface
<1>7. Asked(m, ifaces, peers, pfs, wan)
  BY <1>1 DEF Begun, Asked, Entitled, PeerOps, FindInterface, Active
<1> HIDE DEF m
<1>6. Take(w, m)
  BY <1>1, <1>2, Zenon
<1> QED BY <1>4, <1>5, <1>6, <1>7 DEF TakesUp, TakeNewPeer, vars, db, boot

\* Every request on a peer that is there begins as a job that fits (peer_handler.go).
LEMMA PeerTaken ==
    ASSUME TInv, NEW w \in Workers, NEW u \in Users, NEW p \in Peers, TakePeer(w, u, p)
    PROVE  \E m : TakesUp(w, m)
<1> DEFINE i == peers[p].iface
<1>1. peers[p] \in Peer /\ i \in Ifaces
  BY DEF TInv, TypeOK, Peer
<1>2. ASSUME NEW op \in PeerOps \ {"addPeer"}, NEW row \in Peer,
             row.iface = i, InTable(peers[p]),
             op = "editPeer" => /\ peers[p].st = "active" /\ row.st = "active"
                                /\ \E on \in BOOLEAN : row = [peers[p] EXCEPT !.on = on],
             op = "delPeer" => peers[p].st = "active",
             op = "restorePeer" => /\ peers[p].st = "trashed" /\ Active(i)
                                   /\ row = [peers[p] EXCEPT !.st = "active"],
             Take(w, [Blank(op, i) EXCEPT !.p = p, !.new = row])
      PROVE  \E m : TakesUp(w, m)
  <2> DEFINE m == Begun(op, i, p, <<>>, BlankIface("none"), <<>>, BlankPf("none"), row, "none")
  <2>1. [Blank(op, i) EXCEPT !.p = p, !.new = row] = m
    BY BlankForPeer
  <2>2. Fits(m)
    <3>1. /\ op \in DOMAIN Script /\ "none" \in Verdicts
          /\ op \notin {"create", "update"} /\ op \notin {"addPf", "editPf", "delPf"}
          /\ BlankIface("none") \in Iface /\ BlankPf("none") \in Pf /\ <<>> \in Preloads
      BY BlanksTyped, NoKids DEF Script, Verdicts, PeerOps
    <3> QED BY <1>1, <3>1, BegunFits
  <2>3. Origin(m) /\ m.op = op
    BY <1>2 DEF Begun, Origin, PeerOps
  <2>6. Asked(m, ifaces, peers, pfs, wan)
    <3>1. Owns(u, ifaces[i].owner)
      BY DEF TakePeer, MayActOn
    <3> QED BY <1>2, <3>1 DEF Begun, Asked, Entitled, PeerOps, Active
  <2> HIDE DEF m
  <2>4. Take(w, m)
    BY <1>2, <2>1, Zenon
  <2>5. m.op \notin {"boot", "bootPfs"}
    BY <2>3 DEF PeerOps
  <2> QED BY <2>2, <2>3, <2>4, <2>5, <2>6 DEF TakesUp, TakePeer, vars, db, boot
<1>3. \/ \E on \in BOOLEAN : /\ peers[p].st = "active"
                             /\ Take(w, [Blank("editPeer", i) EXCEPT !.p = p,
                                            !.new = [peers[p] EXCEPT !.on = on]])
      \/ /\ peers[p].st = "active"
         /\ Take(w, [Blank("delPeer", i) EXCEPT !.p = p, !.new = peers[p]])
      \/ /\ peers[p].st = "trashed" /\ Active(i)
         /\ Take(w, [Blank("restorePeer", i) EXCEPT !.p = p,
                       !.new = [peers[p] EXCEPT !.st = "active"]])
      \/ /\ InTable(peers[p])
         /\ Take(w, [Blank("purgePeer", i) EXCEPT !.p = p, !.new = peers[p]])
  BY DEF TakePeer, ParentInService
<1>4. {"editPeer", "delPeer", "restorePeer", "purgePeer"} \subseteq PeerOps \ {"addPeer"}
  BY DEF PeerOps
<1>5. CASE \E on \in BOOLEAN : /\ peers[p].st = "active"
                               /\ Take(w, [Blank("editPeer", i) EXCEPT !.p = p,
                                              !.new = [peers[p] EXCEPT !.on = on]])
  <2>1. PICK on \in BOOLEAN : /\ peers[p].st = "active"
                              /\ Take(w, [Blank("editPeer", i) EXCEPT !.p = p,
                                             !.new = [peers[p] EXCEPT !.on = on]])
    BY <1>5
  <2> DEFINE row == [peers[p] EXCEPT !.on = on]
  <2>2. /\ row \in Peer /\ row.iface = i /\ row.st = "active"
        /\ \E x \in BOOLEAN : row = [peers[p] EXCEPT !.on = x]
    BY <1>1, <2>1 DEF Peer
  <2> HIDE DEF row
  <2>3. \A op \in PeerOps \ {"addPeer"} :
          op = "editPeer" /\ Take(w, [Blank(op, i) EXCEPT !.p = p, !.new = row])
            => \E m : TakesUp(w, m)
    BY <1>2, <2>1, <2>2 DEF InTable
  <2> QED BY <1>4, <2>1, <2>3 DEF row
<1>6. CASE /\ peers[p].st = "active"
           /\ Take(w, [Blank("delPeer", i) EXCEPT !.p = p, !.new = peers[p]])
  <2>1. \A op \in PeerOps \ {"addPeer"} :
          op = "delPeer" /\ Take(w, [Blank(op, i) EXCEPT !.p = p, !.new = peers[p]])
            => \E m : TakesUp(w, m)
    BY <1>1, <1>2, <1>6 DEF InTable
  <2> QED BY <1>4, <1>6, <2>1
<1>7. CASE /\ peers[p].st = "trashed" /\ Active(i)
           /\ Take(w, [Blank("restorePeer", i) EXCEPT !.p = p,
                         !.new = [peers[p] EXCEPT !.st = "active"]])
  <2> DEFINE row == [peers[p] EXCEPT !.st = "active"]
  <2>1. row \in Peer /\ row.iface = i /\ row.st = "active"
    BY <1>1 DEF Peer, RowState
  <2>0. row = [peers[p] EXCEPT !.st = "active"]
    OBVIOUS
  <2> HIDE DEF row
  <2>2. \A op \in PeerOps \ {"addPeer"} :
          op = "restorePeer" /\ Take(w, [Blank(op, i) EXCEPT !.p = p, !.new = row])
            => \E m : TakesUp(w, m)
    BY <1>2, <1>7, <2>0, <2>1 DEF InTable
  <2> QED BY <1>4, <1>7, <2>2 DEF row
<1>8. CASE /\ InTable(peers[p])
           /\ Take(w, [Blank("purgePeer", i) EXCEPT !.p = p, !.new = peers[p]])
  <2>1. \A op \in PeerOps \ {"addPeer"} :
          op = "purgePeer" /\ Take(w, [Blank(op, i) EXCEPT !.p = p, !.new = peers[p]])
            => \E m : TakesUp(w, m)
    BY <1>1, <1>2, <1>8
  <2> QED BY <1>4, <1>8, <2>1
<1> QED BY <1>3, <1>5, <1>6, <1>7, <1>8

\* Forward requests.
LEMMA NewPfTaken ==
    ASSUME TInv, NEW w \in Workers, NEW u \in Users, NEW p \in Peers, NEW f \in Pfs, NEW F,
           TakeNewPf(w, u, p, f, F)
    PROVE  \E m : TakesUp(w, m)
<1> DEFINE i == peers[p].iface
<1>1. PICK pub \in PortChoices.public, tport \in PortChoices.target :
        /\ pfs[f].st = "none" /\ Fresh("addPf", <<>>, <<>>, f)
        /\ peers[p].st = "active" /\ FindInterface(u, i)
        /\ Egress(ifaces[i].egress, wan) # NoLink
        /\ Take(w, [Blank("addPf", i) EXCEPT !.p = p, !.f = f,
                      !.new = [st |-> "active", iface |-> i, peer |-> p, on |-> TRUE,
                               pub |-> pub, tport |-> tport, owner |-> u]])
  BY DEF TakeNewPf
<1> DEFINE new == [st |-> "active", iface |-> i, peer |-> p, on |-> TRUE,
                   pub |-> pub, tport |-> tport, owner |-> u]
           m == Begun("addPf", i, p, f, BlankIface("none"), <<>>, BlankPf("none"), new, "none")
<1>2. [Blank("addPf", i) EXCEPT !.p = p, !.f = f, !.new = new] = m
  <2>1. \A op, n : [Blank(op, i) EXCEPT !.p = p, !.f = f, !.new = n]
                   = Begun(op, i, p, f, BlankIface("none"), <<>>, BlankPf("none"), n, "none")
    BY BlankForPf
  <2> HIDE DEF new
  <2> QED BY <2>1
<1>3. new \in Pf /\ new.st = "active" /\ i \in Ifaces
  <2>1. i \in Ifaces
    BY DEF TInv, TypeOK, Peer
  <2>2. pub \in Ports /\ tport \in Ports
    BY PanelAssumption DEF PanelAssumption
  <2> QED BY <2>1, <2>2 DEF Pf
<1>4. Fits(m)
  <2>1. /\ "addPf" \in DOMAIN Script /\ "none" \in Verdicts /\ "addPf" \notin PeerOps
        /\ BlankIface("none") \in Iface /\ BlankPf("none") \in Pf /\ <<>> \in Preloads
    BY BlanksTyped, NoKids DEF Script, Verdicts, PeerOps
  <2> HIDE DEF new
  <2>2. new \in Iface \union Peer \union Pf
    BY <1>3
  <2> QED BY <1>3, <2>1, <2>2, BegunFits
<1>5. Origin(m) /\ m.op = "addPf"
  <2> HIDE DEF new
  <2> QED BY <1>1, <1>3 DEF Begun, Origin, PeerOps
<1>7. Asked(m, ifaces, peers, pfs, wan)
  BY <1>1 DEF Begun, Asked, Entitled, PeerOps, FindInterface, Active
<1> HIDE DEF m
<1>6. Take(w, m)
  BY <1>1, <1>2, Zenon
<1> QED BY <1>4, <1>5, <1>6, <1>7 DEF TakesUp, TakeNewPf, vars, db, boot

\* Every request on a forward that is there begins as a job that fits.
LEMMA PfTaken ==
    ASSUME TInv, NEW w \in Workers, NEW u \in Users, NEW f \in Pfs, TakePf(w, u, f)
    PROVE  \E m : TakesUp(w, m)
<1> DEFINE i == pfs[f].iface
           p == pfs[f].peer
<1>1. pfs[f] \in Pf /\ i \in Ifaces /\ p \in Peers
  BY DEF TInv, TypeOK, Pf
<1>2. ASSUME NEW op \in {"editPf", "delPf"}, NEW row \in Pf, row.st = "active",
             pfs[f].st = "active",
             op = "editPf" => \E tport \in PortChoices.target, on \in BOOLEAN :
                                row = [pfs[f] EXCEPT !.tport = tport, !.on = on],
             Take(w, [Blank(op, i) EXCEPT !.p = p, !.f = f, !.pf = pfs[f], !.new = row])
      PROVE  \E m : TakesUp(w, m)
  <2> DEFINE m == Begun(op, i, p, f, BlankIface("none"), <<>>, pfs[f], row, "none")
  <2>1. [Blank(op, i) EXCEPT !.p = p, !.f = f, !.pf = pfs[f], !.new = row] = m
    <3>1. WithPf(op, i, p, f, pfs[f], row) = m
      BY BlankWithPf
    <3> QED BY <3>1, Zenon DEF WithPf
  <2>2. Fits(m)
    <3>1. /\ op \in DOMAIN Script /\ "none" \in Verdicts
          /\ op \notin {"create", "update"} /\ op \notin PeerOps
          /\ BlankIface("none") \in Iface /\ <<>> \in Preloads
      BY BlanksTyped, NoKids DEF Script, Verdicts, PeerOps
    <3> QED BY <1>1, <3>1, BegunFits
  <2>3. Origin(m) /\ m.op = op
    BY <1>2 DEF Begun, Origin, PeerOps
  <2>5. Asked(m, ifaces, peers, pfs, wan)
    <3>1. Owns(u, pfs[f].owner) /\ InTable(ifaces[i])
      BY DEF TakePf
    <3> QED BY <1>2, <3>1 DEF Begun, Asked, Entitled, PeerOps
  <2> HIDE DEF m
  <2>4. Take(w, m)
    BY <1>2, <2>1, Zenon
  <2> QED BY <2>2, <2>3, <2>4, <2>5 DEF TakesUp, TakePf, vars, db, boot
<1>3. pfs[f].st = "active"
  BY DEF TakePf
<1>4. \/ \E tport \in PortChoices.target, on \in BOOLEAN :
           Take(w, [Blank("editPf", i) EXCEPT !.p = p, !.f = f, !.pf = pfs[f],
                      !.new = [pfs[f] EXCEPT !.tport = tport, !.on = on]])
      \/ Take(w, [Blank("delPf", i) EXCEPT !.p = p, !.f = f, !.pf = pfs[f], !.new = pfs[f]])
  BY DEF TakePf
<1>5. CASE \E tport \in PortChoices.target, on \in BOOLEAN :
             Take(w, [Blank("editPf", i) EXCEPT !.p = p, !.f = f, !.pf = pfs[f],
                        !.new = [pfs[f] EXCEPT !.tport = tport, !.on = on]])
  <2>1. PICK tport \in PortChoices.target, on \in BOOLEAN :
             Take(w, [Blank("editPf", i) EXCEPT !.p = p, !.f = f, !.pf = pfs[f],
                        !.new = [pfs[f] EXCEPT !.tport = tport, !.on = on]])
    BY <1>5
  <2> DEFINE row == [pfs[f] EXCEPT !.tport = tport, !.on = on]
  <2>2. /\ row \in Pf /\ row.st = "active"
        /\ \E t \in PortChoices.target, o \in BOOLEAN :
             row = [pfs[f] EXCEPT !.tport = t, !.on = o]
    BY <1>1, <1>3, <2>1, PanelAssumption DEF Pf, PanelAssumption
  <2> HIDE DEF row
  <2>3. \A op \in {"editPf", "delPf"} :
          Take(w, [Blank(op, i) EXCEPT !.p = p, !.f = f, !.pf = pfs[f], !.new = row])
            => \E m : TakesUp(w, m)
    BY <1>2, <1>3, <2>2
  <2> QED BY <2>1, <2>3 DEF row
<1>6. CASE Take(w, [Blank("delPf", i) EXCEPT !.p = p, !.f = f, !.pf = pfs[f], !.new = pfs[f]])
  <2>1. \A op \in {"editPf", "delPf"} : op = "delPf" /\
          Take(w, [Blank(op, i) EXCEPT !.p = p, !.f = f, !.pf = pfs[f], !.new = pfs[f]])
            => \E m : TakesUp(w, m)
    BY <1>1, <1>2, <1>3
  <2> QED BY <1>6, <2>1
<1> QED BY <1>4, <1>5, <1>6

\* The bootstrap.
LEMMA BootTaken ==
    ASSUME TInv, NEW w \in Workers, TakeBoot(w)
    PROVE  \E m : TakesUp(w, m)
<1> DEFINE b == BlankIface("none")
           c == BlankPf("none")
           B(op, i, v) == Begun(op, i, <<>>, <<>>, b, <<>>, c, b, v)
<1>1. /\ {"boot", "bootPfs"} \subseteq DOMAIN Script /\ "none" \in Verdicts
      /\ b \in Iface /\ c \in Pf /\ <<>> \in Preloads /\ b \in Iface \union Peer \union Pf
  BY BlanksTyped, NoKids DEF Script, Verdicts
<1>2. ASSUME NEW i \in todo, Take(w, [Blank("boot", i) EXCEPT !.verdict = Pending(i)]),
             todo' = todo \ {i}, UNCHANGED pfTodo
      PROVE  \E m : TakesUp(w, m)
  <2> DEFINE v == Pending(i)
             m == B("boot", i, v)
  <2>1. i \in Ifaces /\ v \in Verdicts
    BY DEF TInv, TypeOK, Pending, Verdicts
  <2>2. [Blank("boot", i) EXCEPT !.verdict = v] = m
    <3>1. \A op, x : [Blank(op, i) EXCEPT !.verdict = x] = B(op, i, x)
      BY BlankVerdict
    <3> HIDE DEF v
    <3> QED BY <3>1
  <2>3. Fits(m)
    <3> HIDE DEF b, c, v
    <3> QED BY <1>1, <2>1, BegunFits DEF PeerOps
  <2>4. Origin(m) /\ m.op = "boot" /\ m.i = i
    <3> HIDE DEF b, c
    <3> QED BY <1>2 DEF Begun, Origin, PeerOps
  <2>6. Asked(m, ifaces, peers, pfs, wan)
    BY <2>4, PanelAssumption DEF PanelAssumption, Asked, Entitled, PeerOps
  <2> HIDE DEF m
  <2>5. Take(w, m)
    BY <1>2, <2>2, Zenon
  <2> QED BY <1>2, <2>3, <2>4, <2>5, <2>6 DEF TakesUp, TakeBoot, db
<1>3. ASSUME NEW i \in Ifaces, todo = {}, pfTodo, Take(w, Blank("bootPfs", i)),
             pfTodo' = FALSE, UNCHANGED todo
      PROVE  \E m : TakesUp(w, m)
  <2> DEFINE m == B("bootPfs", i, "none")
  <2>1. Blank("bootPfs", i) = m
    <3>1. \A op : Blank(op, i) = B(op, i, "none")
      BY BlankPlain
    <3> QED BY <3>1
  <2>2. Fits(m)
    <3> HIDE DEF b, c
    <3> QED BY <1>1, BegunFits DEF PeerOps
  <2>3. Origin(m) /\ m.op = "bootPfs"
    <3> HIDE DEF b, c
    <3> QED BY <1>3 DEF Begun, Origin, PeerOps
  <2>5. Asked(m, ifaces, peers, pfs, wan)
    BY <2>3, PanelAssumption DEF PanelAssumption, Asked, Entitled, PeerOps
  <2> HIDE DEF m
  <2>4. Take(w, m)
    BY <1>3, <2>1, Zenon
  <2> QED BY <1>3, <2>2, <2>3, <2>4, <2>5 DEF TakesUp, TakeBoot, db
<1>4. (CHOOSE i \in Ifaces : TRUE) \in Ifaces
  BY HostAssumption DEF HostAssumption
<1> QED BY <1>2, <1>3, <1>4 DEF TakeBoot

\* Every request and every step of the bootstrap begins so.
LEMMA JobTaken ==
    ASSUME TInv, NEW w \in Workers, TakeUp(w)
    PROVE  \E m : TakesUp(w, m)
<1>1. ASSUME NEW u \in Users, NEW i \in Ifaces,
             TakeIface(w, u, i) \/ \E p \in Peers : TakeNewPeer(w, u, i, p)
      PROVE  \E m : TakesUp(w, m)
  BY <1>1, IfaceTaken, NewPeerTaken
<1>2. ASSUME NEW u \in Users, NEW p \in Peers,
             \/ TakePeer(w, u, p)
             \/ \E f \in Pfs, F \in FaultSets : TakeNewPf(w, u, p, f, F)
      PROVE  \E m : TakesUp(w, m)
  BY <1>2, PeerTaken, NewPfTaken
<1>3. ASSUME NEW u \in Users, NEW f \in Pfs, TakePf(w, u, f)
      PROVE  \E m : TakesUp(w, m)
  BY <1>3, PfTaken
<1> QED BY <1>1, <1>2, <1>3, BootTaken DEF TakeUp

\* What remains of a job when another one begins: all but whether it is alone.
SameJob(k, j) ==
    /\ k.op = j.op /\ k.i = j.i /\ k.p = j.p /\ k.f = j.f /\ k.row = j.row
    /\ k.kids = j.kids /\ k.pf = j.pf /\ k.new = j.new /\ k.calls = j.calls
    /\ k.verdict = j.verdict

\* That another job begins changes nothing of a job but whether it is alone.
LEMMA SoloKeeps ==
    ASSUME NEW j, Fits(j), NEW b \in BOOLEAN
    PROVE  /\ Fits([j EXCEPT !.solo = b]) /\ [j EXCEPT !.solo = b].solo = b
           /\ SameJob([j EXCEPT !.solo = b], j)
<1> DEFINE k == [j EXCEPT !.solo = b]
<1>1. /\ k \in Job /\ k.solo = b
      /\ k.op = j.op /\ k.i = j.i /\ k.p = j.p /\ k.f = j.f /\ k.row = j.row
      /\ k.kids = j.kids /\ k.pf = j.pf /\ k.new = j.new /\ k.calls = j.calls
      /\ k.verdict = j.verdict
  BY DEF Fits, Job
<1> HIDE DEF k
<1>2. Fits(k) /\ SameJob(k, j)
  BY <1>1 DEF Fits, Carries, SameJob
<1> QED BY <1>1, <1>2, Zenon DEF k

\* The jobs after a worker has taken one up.
LEMMA TakeEffect ==
    ASSUME TInv, NEW w \in Workers, NEW m, Fits(m), Take(w, m)
    PROVE  /\ up /\ w \notin Busy
           /\ JobsFit' /\ Busy' = Busy \union {w}
           /\ SameJob(jobs'[w], m)
           /\ jobs'[w].solo <=> \A v \in Busy : ~Conflict(m, jobs[v])
           /\ \A v \in Busy : /\ SameJob(jobs'[v], jobs[v])
                              /\ jobs'[v].solo <=> jobs[v].solo /\ ~Conflict(m, jobs[v])
           /\ \A v \in Workers \ Busy : v # w => jobs'[v] = NoJob
<1> DEFINE alone == \A v \in Busy : ~Conflict(m, jobs[v])
           After(v) == IF v = w THEN [m EXCEPT !.solo = alone]
                      ELSE IF v \in Busy /\ Conflict(m, jobs[v])
                             THEN [jobs[v] EXCEPT !.solo = FALSE] ELSE jobs[v]
<1>1. up /\ w \notin Busy /\ jobs' = [v \in Workers |-> After(v)]
  BY DEF Take, Busy
<1>2. \A v \in Workers : jobs'[v] = After(v)
  BY <1>1
<1>3. \A v \in Busy : Fits(jobs[v]) /\ v # w /\ v \in Workers
  BY <1>1 DEF TInv, JobsFit, Busy
<1>4. alone \in BOOLEAN
  OBVIOUS
<1>5. /\ Fits(jobs'[w]) /\ SameJob(jobs'[w], m) /\ jobs'[w].solo = alone
  <2> HIDE DEF alone
  <2>1. jobs'[w] = [m EXCEPT !.solo = alone]
    BY <1>2
  <2> QED BY <1>4, <2>1, SoloKeeps
<1>6. ASSUME NEW v \in Busy
      PROVE  /\ Fits(jobs'[v]) /\ SameJob(jobs'[v], jobs[v])
             /\ jobs'[v].solo <=> jobs[v].solo /\ ~Conflict(m, jobs[v])
  <2>1. CASE Conflict(m, jobs[v])
    <3>1. jobs'[v] = [jobs[v] EXCEPT !.solo = FALSE]
      BY <1>2, <1>3, <2>1
    <3>2. Fits(jobs'[v]) /\ SameJob(jobs'[v], jobs[v]) /\ jobs'[v].solo = FALSE
      <4>1. \A b \in BOOLEAN : /\ Fits([jobs[v] EXCEPT !.solo = b])
                               /\ [jobs[v] EXCEPT !.solo = b].solo = b
                               /\ SameJob([jobs[v] EXCEPT !.solo = b], jobs[v])
        BY <1>3, SoloKeeps
      <4> QED BY <3>1, <4>1
    <3> QED BY <2>1, <3>2
  <2>2. CASE ~Conflict(m, jobs[v])
    <3>1. jobs'[v] = jobs[v]
      BY <1>2, <1>3, <2>2
    <3> QED BY <1>3, <2>2, <3>1 DEF SameJob
  <2> QED BY <2>1, <2>2
<1>7. ASSUME NEW v \in Workers \ Busy, v # w
      PROVE  jobs'[v] = NoJob
  BY <1>2, <1>7 DEF Busy
<1>8. \A j : Fits(j) => j \in Job /\ j # NoJob
  BY JobParts DEF Fits
<1>9. Busy' = Busy \union {w}
  BY <1>3, <1>5, <1>6, <1>7, <1>8 DEF Busy
<1>10. jobs' \in [Workers -> Job \union {NoJob}]
  <2>1. \A v \in Workers : jobs'[v] \in Job \union {NoJob}
    BY <1>5, <1>6, <1>7, <1>8
  <2> QED BY <1>1, <2>1
<1>11. JobsFit'
  BY <1>5, <1>6, <1>9, <1>10 DEF JobsFit
<1> HIDE DEF After
<1> QED BY <1>1, <1>5, <1>6, <1>7, <1>9, <1>11

\* Taking up a job leaves everything in order.
LEMMA TakesUpTyped ==
    ASSUME TInv, NEW w \in Workers, NEW m, TakesUp(w, m)
    PROVE  TInv'
<1>1. up /\ JobsFit' /\ up' = up
  BY TakeEffect DEF TakesUp
<1>2. todo' \subseteq Ifaces /\ pfTodo' \in BOOLEAN
  BY DEF TakesUp, boot, TInv, TypeOK
<1> QED BY <1>1, <1>2 DEF TakesUp, TInv, TypeOK, db

\* So does every call.
LEMMA CallTyped ==
    ASSUME TInv, NEW w \in Workers, Call(w)
    PROVE  TInv' /\ OnlyMoves(w)
  BY IfaceCallsTyped, LoadsTyped, DeviceCallsTyped, NatCallsTyped, PeerStatementTyped,
     CascadeTyped, PfStatementTyped, PfRulesTyped DEF Call

\* A crash, a start, and a default route that moves.
LEMMA OutsideTyped ==
    ASSUME TInv, Outside
    PROVE  TInv'
<1>1. CASE Crash
  <2>1. jobs' = [w \in Workers |-> NoJob] /\ Busy' = {}
    BY <1>1 DEF Crash, Busy
  <2>2. JobsFit'
    BY <2>1 DEF JobsFit
  <2>3. owed' \subseteq Names
    <3> DEFINE Reported(w) == IF jobs[w].solo
                                THEN Owed(NameOf[jobs[w].i], jobs[w].verdict)
                                ELSE {NameOf[jobs[w].i]}
    <3>1. \A w \in Busy : Reported(w) \subseteq Names
      BY JobParts DEF Owed, TInv, JobsFit, Fits
    <3>2. owed' \subseteq owed \union UNION {Reported(w) : w \in Busy}
      BY <1>1 DEF Crash
    <3> QED BY <3>1, <3>2 DEF TInv, TypeOK
  <2> QED BY <1>1, <2>1, <2>2, <2>3
          DEF Crash, RowsUntouched, HostUntouched, boot, TInv, TypeOK
<1>2. CASE RouteMoves
  BY <1>2 DEF RouteMoves, RouteChange, TInv, TypeOK, JobsFit, Busy, db, boot
<1>3. ASSUME NEW F \in FaultSets, NEW reboot \in BOOLEAN, Restart(F, reboot)
      PROVE  TInv'
  <2>1. TypeOK'
    BY <1>3, SystemTyped DEF Restart, System, TInv
  <2> QED BY <1>3, <2>1 DEF Restart, TInv, JobsFit, Busy
<1> QED BY <1>1, <1>2, <1>3 DEF Outside

\* Every worker's job stays one the handlers could be in the middle of, through
\* every interleaving of requests, bootstrap, crashes and starts: what a handler
\* carries from one call to the next is always of the kind the next one reads.
LEMMA JobsStayTyped == RSpec => []TInv
<1>1. RInit => TInv
  <2> SUFFICES ASSUME RInit PROVE TInv
    OBVIOUS
  <2>1. TypeOK
    <3>1. Init => TypeOK
      <4> SUFFICES ASSUME Init PROVE TypeOK
        OBVIOUS
      <4>1. /\ ifaces \in [Ifaces -> Iface] /\ peers \in [Peers -> Peer]
            /\ pfs \in [Pfs -> Pf]
        BY BlanksTyped DEF Init
      <4>2. dev \in [Names -> Device]
        BY DEF Init, Device, NoDevice
      <4> QED BY <4>1, <4>2 DEF Init, TypeOK
    <3> QED BY <3>1 DEF RInit
  <2> QED BY <2>1 DEF RInit, TInv, JobsFit, Busy
<1>2. TInv /\ [RNext]_rvars => TInv'
  <2> SUFFICES ASSUME TInv, [RNext]_rvars PROVE TInv'
    OBVIOUS
  <2>1. CASE Outside
    BY <2>1, OutsideTyped
  <2>2. ASSUME NEW w \in Workers, TakeUp(w) PROVE TInv'
    BY <2>2, JobTaken, TakesUpTyped
  <2>3. ASSUME NEW w \in Workers, Call(w) PROVE TInv'
    BY <2>3, CallTyped
  <2>4. CASE UNCHANGED rvars
    BY <2>4 DEF rvars, vars, TInv, TypeOK, JobsFit, Busy
  <2> QED BY <2>1, <2>2, <2>3, <2>4 DEF RNext
<1> QED BY <1>1, <1>2, PTL DEF RSpec

\* Every request in flight, however many overlap, fail and are cut off, carries the row,
\* the peers and the forward its handler has loaded, and has a rest of its handler's calls
\* ahead of it, the ones `reconcile' and `syncPeer' put in among them.
THEOREM JobsAlwaysOK == RSpec => []JobsOK
<1>1. TInv => JobsOK
  BY DEF TInv, JobsOK, JobsFit, Fits
<1> QED BY <1>1, JobsStayTyped, PTL

-----------------------------------------------------------------------------
(* From one call of a handler to the next *)

\* The job after a call: what it is about stays, the call is done, and the parts a
\* call reads or writes are those it has read or written.
NextJob(k, j) ==
    /\ Fits(k)
    /\ k.op = j.op /\ k.i = j.i /\ k.p = j.p /\ k.f = j.f /\ k.pf = j.pf /\ k.solo = j.solo
    /\ \/ k.calls = Tail(j.calls) /\ Head(j.calls) \notin {"load", "saveIface"}
       \/ Head(j.calls) = "load" /\ Head(k.calls) \in {"ensure", "teardown"}
       \/ Head(j.calls) = "saveIface" /\ Head(k.calls) = "load"
       \/ Head(j.calls) = "parent" /\ Head(k.calls) = "ensure"
       \/ Head(j.calls) = "setup" /\ Head(k.calls) = "egress"
    /\ Head(j.calls) \notin {"savePeer", "insertPf", "savePf", "deletePf"} => k.new = j.new
    /\ Head(j.calls) = "savePeer" => k.new = Upsert(j.new, peers[j.p].st = "active")
    /\ Head(j.calls) \in {"insertPf", "savePf", "deletePf"} => k.new = pfs'[j.f]
    /\ Head(j.calls) # "load" => k.kids = j.kids
    /\ Head(j.calls) = "load" =>
         /\ Active(j.i) /\ k.row = ifaces[j.i] /\ k.kids = Kids(j.i)
         /\ Head(k.calls) = IF ifaces[j.i].on THEN "ensure" ELSE "teardown"
    /\ Head(j.calls) = "parent" => k.row = ifaces[j.i] \/ k.calls = Tail(j.calls)
    /\ Head(j.calls) \notin {"load", "parent", "setup"} => k.row = j.row

\* A handler that makes its last call, or ends early, has answered.
Moves(w) == jobs'[w] = NoJob \/ NextJob(jobs'[w], jobs[w])

\* The parts of a job with a call done.
LEMMA OntoParts ==
    ASSUME NEW j \in Job, NEW v
    PROVE  LET k == Onto(j, v)
           IN  /\ k.op = j.op /\ k.i = j.i /\ k.p = j.p /\ k.f = j.f /\ k.row = j.row
               /\ k.kids = j.kids /\ k.pf = j.pf /\ k.new = j.new /\ k.solo = j.solo
               /\ k.calls = Tail(j.calls) /\ k.verdict = v
  BY DEF Onto, Job

\* Calls that change nothing of the job.
LEMMA PlainMoves ==
    ASSUME TInv, NEW w \in Workers, jobs[w] # NoJob,
           Head(jobs[w].calls) \notin {"load", "saveIface", "savePeer", "insertPf", "savePf",
                                       "deletePf"},
           \E v \in Verdicts : Stop(w, v) \/ GoOn(w, jobs[w], v)
    PROVE  Moves(w)
<1> DEFINE j == jobs[w]
<1>1. j \in Job /\ Fits(j)
  BY DEF TInv, JobsFit, Busy, Fits
<1>2. PICK v \in Verdicts : Stop(w, v) \/ GoOn(w, j, v)
  OBVIOUS
<1>3. CASE jobs'[w] = NoJob
  BY <1>3 DEF Moves
<1>4. CASE jobs'[w] # NoJob
  <2>1. GoOn(w, j, v)
    BY <1>2, <1>4, Answered DEF Stop
  <2>2. Len(j.calls) # 1 => Fits(Onto(j, v))
    BY <1>1, OntoFits
  <2>3. jobs'[w] = Onto(j, v) /\ Fits(Onto(j, v))
    BY <1>4, <2>1, <2>2, WentOn
  <2> HIDE DEF j
  <2>4. NextJob(Onto(j, v), j)
    BY <1>1, <2>3, OntoParts DEF NextJob, j
  <2> QED BY <2>3, <2>4 DEF Moves, j
<1> QED BY <1>3, <1>4

\* Calls that read or write a part of the job, or add to its script.
LEMMA ReadMoves ==
    ASSUME TInv, NEW w \in Workers, NEW F,
           SaveIface(w, F) \/ Load(w, F) \/ Parent(w, F) \/ Setup(w, F)
    PROVE  Moves(w)
<1> DEFINE j == jobs[w]
<1>1. PICK call \in {"saveIface", "load", "parent", "setup"} : At(w, call)
  BY DEF SaveIface, Load, Parent, Setup
<1>2. /\ j \in Job /\ j # NoJob /\ Fits(j) /\ j.i \in Ifaces /\ Place(j.op, j.calls)
      /\ Head(j.calls) \in {"saveIface", "load", "parent", "setup"} /\ j.kids \in Preloads
      /\ j.row \in Iface /\ ifaces \in [Ifaces -> Iface] /\ "owed" \in Verdicts
  BY <1>1, AtWork, JobParts DEF Job, Preloads, TInv, TypeOK, Verdicts
<1>3. ASSUME NEW row \in Iface, NEW kids \in Preloads, NEW d, NEW next, Goes(j.op, d, next),
             GoOn(w, Grown(j, row, kids, d), "owed")
      PROVE  LET k == jobs'[w]
             IN  /\ k.op = j.op /\ k.i = j.i /\ k.p = j.p /\ k.f = j.f /\ k.pf = j.pf
                 /\ k.solo = j.solo /\ k.new = j.new /\ k.row = row /\ k.kids = kids
                 /\ Head(k.calls) = next /\ Fits(k)
  <2> DEFINE x == Grown(j, row, kids, d)
             k == Onto(x, "owed")
  <2>1. Len(x.calls) # 1 /\ x.calls = d /\ Fits(k)
    <3> HIDE DEF j
    <3>1. /\ Fits(Onto(Grown(j, row, kids, d), "owed"))
          /\ Len(Grown(j, row, kids, d).calls) # 1
          /\ Grown(j, row, kids, d).calls = d
      BY <1>2, <1>3, GoesFits
    <3> QED BY <3>1, Zenon DEF x, k
  <2>2. /\ k.op = j.op /\ k.i = j.i /\ k.p = j.p /\ k.f = j.f /\ k.pf = j.pf
        /\ k.solo = j.solo /\ k.new = j.new /\ k.row = row /\ k.kids = kids
        /\ k.calls = Tail(d)
    BY <1>2 DEF Onto, Grown, Job
  <2>3. Head(Tail(d)) = next
    BY <1>3 DEF Goes
  <2> HIDE DEF x, k, j
  <2>4. jobs'[w] = Onto(x, "owed")
    BY <1>2, <1>3, <2>1, WentOn DEF x, k, j
  <2>5. jobs'[w] = k
    BY <2>4, Zenon DEF k
  <2> QED BY <2>1, <2>2, <2>3, <2>5
<1>4. CASE SaveIface(w, F)
  <2> DEFINE row == Upsert(j.new, Active(j.i))
             rest == IF row.on THEN "reapply" ELSE "unapply"
             d == j.calls \o <<rest>>
             k == [j EXCEPT !.calls = d]
  <2>1. Head(j.calls) = "saveIface"
    BY <1>4 DEF SaveIface, At
  <2>2. Goes(j.op, d, "load")
    BY <1>2, <2>1, Replaced
  <2>3. k = Grown(j, j.row, j.kids, d)
    BY <1>2, SameRows
  <2> HIDE DEF d, j, k
  <2>4. Stop(w, "owed") \/ GoOn(w, k, "owed")
    BY <1>4 DEF SaveIface, d, j, k
  <2>5. CASE Stop(w, "owed")
    BY <1>2, <2>5, Answered DEF Moves, Stop, j
  <2>6. CASE GoOn(w, k, "owed")
    <3>1. GoOn(w, Grown(j, j.row, j.kids, d), "owed")
      BY <2>3, <2>6
    <3> QED BY <1>2, <1>3, <2>1, <2>2, <3>1 DEF Moves, NextJob, j
  <2> QED BY <2>4, <2>5, <2>6
<1>5. CASE Load(w, F)
  <2> DEFINE row == ifaces[j.i]
             d == <<"load">> \o Applying(row) \o Tail(j.calls)
             next == IF row.on THEN "ensure" ELSE "teardown"
  <2>1. Head(j.calls) = "load"
    BY <1>5 DEF Load, At
  <2>2. Kids(j.i) \in Preloads /\ row \in Iface
    BY <1>2, KidsLoaded DEF TInv
  <2>3. Goes(j.op, d, next)
    BY <1>2, <2>1, <2>2, Loaded
  <2>4. \/ Stop(w, Pending(j.i))
        \/ Active(j.i) /\ GoOn(w, Grown(j, row, Kids(j.i), d), "owed")
    BY <1>5 DEF Load, Grown
  <2> HIDE DEF d, j
  <2>5. CASE Stop(w, Pending(j.i))
    BY <1>2, <2>5, Answered DEF Moves, Stop, j
  <2>6. CASE Active(j.i) /\ GoOn(w, Grown(j, row, Kids(j.i), d), "owed")
    BY <1>2, <1>3, <2>1, <2>2, <2>3, <2>6 DEF Moves, NextJob, j
  <2> QED BY <2>4, <2>5, <2>6
<1>6. CASE Parent(w, F)
  <2> DEFINE row == ifaces[j.i]
             d == <<"parent">> \o Syncing \o Tail(j.calls)
             k == [j EXCEPT !.row = row, !.calls = d]
  <2>1. Head(j.calls) = "parent"
    BY <1>6 DEF Parent, At
  <2>2. Goes(j.op, d, "ensure") /\ row \in Iface
    BY <1>2, <2>1, Replaced
  <2>3. k = Grown(j, row, j.kids, d)
    BY <1>2, RowReplaced
  <2>4. \/ \E v \in Verdicts : Stop(w, v) \/ GoOn(w, j, v)
        \/ GoOn(w, k, "owed")
    BY <1>6 DEF Parent, Pending, Verdicts
  <2> HIDE DEF d, j, k
  <2>5. CASE \E v \in Verdicts : Stop(w, v) \/ GoOn(w, j, v)
    BY <1>2, <2>1, <2>5, PlainMoves DEF j
  <2>6. CASE GoOn(w, k, "owed")
    <3>1. GoOn(w, Grown(j, row, j.kids, d), "owed")
      BY <2>3, <2>6
    <3> QED BY <1>2, <1>3, <2>1, <2>2, <3>1 DEF Moves, NextJob, j
  <2> QED BY <2>4, <2>5, <2>6
<1>7. CASE Setup(w, F)
  <2> DEFINE row == [j.row EXCEPT !.egress = wan]
             d == <<"setup", "egress">> \o Tail(j.calls)
             k == [j EXCEPT !.row.egress = wan, !.calls = d]
  <2>1. Head(j.calls) = "setup"
    BY <1>7 DEF Setup, At
  <2>2. row \in Iface
    BY <1>2 DEF TInv, TypeOK, Iface
  <2>3. Goes(j.op, d, "egress")
    BY <1>2, <2>1, Replaced
  <2>4. k = Grown(j, row, j.kids, d)
    BY <1>2, SameRows
  <2>5. \/ \E v \in Verdicts : Stop(w, v) \/ GoOn(w, j, v)
        \/ GoOn(w, k, "owed")
    BY <1>7 DEF Setup, Verdicts
  <2> HIDE DEF d, j, k, row
  <2>6. CASE \E v \in Verdicts : Stop(w, v) \/ GoOn(w, j, v)
    BY <1>2, <2>1, <2>6, PlainMoves DEF j
  <2>7. CASE GoOn(w, k, "owed")
    <3>1. GoOn(w, Grown(j, row, j.kids, d), "owed")
      BY <2>4, <2>7
    <3> QED BY <1>2, <1>3, <2>1, <2>2, <2>3, <3>1 DEF Moves, NextJob, j
  <2> QED BY <2>5, <2>6, <2>7
<1> QED BY <1>4, <1>5, <1>6, <1>7

\* The statement on a peer's row.
LEMMA PeerMoves ==
    ASSUME TInv, NEW w \in Workers, NEW F, PeerStatement(w, F)
    PROVE  Moves(w)
<1> DEFINE j == jobs[w]
           saved == Upsert(j.new, peers[j.p].st = "active")
           k == [j EXCEPT !.new = saved]
<1>1. PICK call \in {"insertPeer", "savePeer", "trashPeer", "restorePeer", "purgePeer"} :
        At(w, call)
  BY DEF PeerStatement
<1>2. /\ j \in Job /\ j # NoJob /\ Fits(j) /\ Head(j.calls) = call /\ j.op \in PeerOps
  <2>1. /\ j \in Job /\ j # NoJob /\ Fits(j) /\ Place(j.op, j.calls) /\ Head(j.calls) = call
    BY <1>1, AtWork
  <2> QED BY <2>1, Heads DEF PeerOps
<1>3. j.p \in Peers /\ j.new \in Peer
  BY <1>2 DEF Fits, Carries
<1>4. \/ \E v \in Verdicts : Stop(w, v) /\ jobs'[w] = NoJob
      \/ call # "savePeer" /\ GoOn(w, j, Pending(j.i))
      \/ call = "savePeer" /\ GoOn(w, k, Pending(j.i))
  <2>1. At(w, "savePeer") <=> call = "savePeer"
    BY <1>2 DEF At
  <2>2. \/ Stop(w, "none")
        \/ call # "savePeer" /\ GoOn(w, j, Pending(j.i))
        \/ call = "savePeer" /\ GoOn(w, k, Pending(j.i))
    BY <1>2, <2>1 DEF PeerStatement, WritePeer, At
  <2>3. Stop(w, "none") => jobs'[w] = NoJob
    BY <1>2, Answered DEF Stop
  <2> QED BY <2>2, <2>3 DEF Verdicts
<1>5. Pending(j.i) \in Verdicts
  BY DEF Pending, Verdicts
<1>6. CASE jobs'[w] = NoJob
  BY <1>6 DEF Moves
<1>7. CASE call # "savePeer" /\ GoOn(w, j, Pending(j.i))
  BY <1>2, <1>5, <1>7, PlainMoves
<1>8. CASE call = "savePeer" /\ GoOn(w, k, Pending(j.i)) /\ jobs'[w] # NoJob
  <2>1. saved \in Peer /\ j.op \notin {"addPf", "editPf", "delPf"}
    BY <1>2, <1>3, RowChanges DEF PeerOps
  <2>2. Fits(k) /\ k.calls = j.calls
    BY <1>2, <2>1, RenewedFits
  <2> DEFINE m == Onto(k, Pending(j.i))
  <2>3. Len(k.calls) # 1 => Fits(m)
    <3> HIDE DEF k, j
    <3>1. Head(k.calls) \notin {"load", "saveIface"}
      BY <1>2, <2>2
    <3> QED BY <1>5, <2>2, <3>1, OntoFits
  <2>4. /\ m.op = j.op /\ m.i = j.i /\ m.p = j.p /\ m.f = j.f /\ m.pf = j.pf
        /\ m.solo = j.solo /\ m.new = saved /\ m.row = j.row /\ m.kids = j.kids
        /\ m.calls = Tail(j.calls)
    BY <1>2 DEF Onto, Job
  <2> HIDE DEF k, j
  <2>5. jobs'[w] = m /\ Fits(m)
    BY <1>2, <1>8, <2>3, WentOn DEF j
  <2> HIDE DEF m
  <2>6. NextJob(m, j)
    BY <1>2, <1>8, <2>4, <2>5 DEF NextJob
  <2> QED BY <2>5, <2>6 DEF Moves, j
<1> QED BY <1>4, <1>6, <1>7, <1>8

\* The statement on a forward's row.
LEMMA PfMoves ==
    ASSUME TInv, NEW w \in Workers, NEW F, PfStatement(w, F)
    PROVE  Moves(w)
<1> DEFINE j == jobs[w]
           K(row) == [j EXCEPT !.new = row]
<1>1. PICK call \in {"insertPf", "savePf", "deletePf"} : At(w, call)
  BY DEF PfStatement
<1>2. /\ j \in Job /\ j # NoJob /\ Fits(j) /\ Head(j.calls) = call
      /\ j.op \in {"addPf", "editPf", "delPf"}
  <2>1. /\ j \in Job /\ j # NoJob /\ Fits(j) /\ Place(j.op, j.calls) /\ Head(j.calls) = call
    BY <1>1, AtWork
  <2> QED BY <2>1, Heads
<1>3. j.f \in Pfs /\ j.new \in Pf /\ pfs \in [Pfs -> Pf] /\ "none" \in Verdicts
  BY <1>2 DEF Fits, Carries, TInv, TypeOK, Verdicts
<1>4. PICK row \in Pf : \/ pfs' = [pfs EXCEPT ![j.f] = row] /\ GoOn(w, K(row), "none")
                        \/ Stop(w, "none")
  <2>1. Upsert(j.new, pfs[j.f].st = "active") \in Pf /\ BlankPf("purged") \in Pf
    BY <1>3, RowChanges, BlanksTyped
  <2> QED BY <1>3, <2>1 DEF PfStatement
<1>5. CASE Stop(w, "none")
  BY <1>2, <1>5, Answered DEF Stop, Moves
<1>6. CASE jobs'[w] = NoJob
  BY <1>6 DEF Moves
<1>7. CASE /\ pfs' = [pfs EXCEPT ![j.f] = row] /\ GoOn(w, K(row), "none")
           /\ jobs'[w] # NoJob
  <2> DEFINE k == K(row)
             m == Onto(k, "none")
  <2>1. j.op \notin PeerOps
    BY <1>2 DEF PeerOps
  <2>2. Fits(k) /\ k.calls = j.calls
    BY <1>2, <2>1, RenewedFits
  <2>3. Len(k.calls) # 1 => Fits(m)
    <3> HIDE DEF k, j
    <3>1. Head(k.calls) \notin {"load", "saveIface"}
      BY <1>2, <2>2
    <3> QED BY <1>3, <2>2, <3>1, OntoFits
  <2>4. /\ m.op = j.op /\ m.i = j.i /\ m.p = j.p /\ m.f = j.f /\ m.pf = j.pf
        /\ m.solo = j.solo /\ m.new = row /\ m.row = j.row /\ m.kids = j.kids
        /\ m.calls = Tail(j.calls)
    BY <1>2 DEF Onto, Job
  <2>5. pfs'[j.f] = row
    BY <1>3, <1>7
  <2>6. GoOn(w, k, "none")
    BY <1>7
  <2> HIDE DEF k, j
  <2>7. jobs'[w] = m /\ Fits(m)
    BY <1>2, <1>7, <2>3, <2>6, WentOn DEF j
  <2> HIDE DEF m
  <2>8. NextJob(m, j)
    BY <1>2, <2>4, <2>5, <2>7 DEF NextJob
  <2> QED BY <2>7, <2>8 DEF Moves, j
<1> QED BY <1>4, <1>5, <1>6, <1>7

\* Every call.
LEMMA CallMoves ==
    ASSUME TInv, NEW w \in Workers, Call(w)
    PROVE  Moves(w) /\ w \in Busy /\ up
<1>1. PICK F \in FaultSets :
      \/ InsertIface(w, F)   \/ SaveIface(w, F)     \/ TrashIface(w, F)
      \/ RestoreIface(w, F)  \/ PurgeIface(w, F)    \/ MovePeers(w, F)
      \/ Load(w, F)          \/ Ensure(w, F)        \/ Configure(w, F)
      \/ RemoveDevice(w, F)  \/ Teardown(w, F)      \/ Setup(w, F)
      \/ StoreEgress(w, F)   \/ PeerStatement(w, F) \/ Parent(w, F)
      \/ SyncOne(w, F)       \/ Cascade(w, F)       \/ PfStatement(w, F)
      \/ PfRulesCall(w, F)
  BY DEF Call
<1>2. w \in Busy /\ up /\ jobs[w] # NoJob /\ jobs[w].verdict \in Verdicts
  <2>1. \E call : At(w, call)
    BY <1>1 DEF InsertIface, SaveIface, TrashIface, RestoreIface, PurgeIface, MovePeers, Load,
       Ensure, Configure, RemoveDevice, Teardown, Setup, StoreEgress, PeerStatement, Parent,
       SyncOne, Cascade, PfStatement, PfRulesCall
  <2> QED BY <2>1, AtWork, JobParts DEF Busy, At
<1> DEFINE j == jobs[w]
           Heads6 == {"load", "saveIface", "savePeer", "insertPf", "savePf", "deletePf"}
<1>3. ASSUME InsertIface(w, F) \/ TrashIface(w, F) \/ RestoreIface(w, F) \/ PurgeIface(w, F)
             \/ MovePeers(w, F)
      PROVE  Moves(w)
  <2>1. Head(j.calls) \notin Heads6
    BY <1>3 DEF InsertIface, TrashIface, RestoreIface, PurgeIface, MovePeers, At
  <2>2. \E v \in Verdicts : Stop(w, v) \/ GoOn(w, j, v)
    BY <1>2, <1>3 DEF InsertIface, TrashIface, RestoreIface, PurgeIface, MovePeers, Verdicts
  <2> QED BY <1>2, <2>1, <2>2, PlainMoves
<1>4. ASSUME Ensure(w, F) \/ Configure(w, F) \/ RemoveDevice(w, F) \/ SyncOne(w, F)
      PROVE  Moves(w)
  <2>1. Head(j.calls) \notin Heads6
    BY <1>4 DEF Ensure, Configure, RemoveDevice, SyncOne, At
  <2>2. \E v \in Verdicts : Stop(w, v) \/ GoOn(w, j, v)
    <3>1. CASE Ensure(w, F)
      BY <3>1 DEF Ensure, Verdicts
    <3>2. CASE Configure(w, F)
      BY <3>2 DEF Configure, Verdicts
    <3>3. CASE RemoveDevice(w, F)
      BY <3>3 DEF RemoveDevice, Verdicts
    <3>4. CASE SyncOne(w, F)
      BY <3>4 DEF SyncOne, Verdicts
    <3> QED BY <1>4, <3>1, <3>2, <3>3, <3>4
  <2> QED BY <1>2, <2>1, <2>2, PlainMoves
<1>5. ASSUME Teardown(w, F) \/ StoreEgress(w, F) \/ Cascade(w, F) \/ PfRulesCall(w, F)
      PROVE  Moves(w)
  <2>1. Head(j.calls) \notin Heads6
    BY <1>5 DEF Teardown, StoreEgress, Cascade, PfRulesCall, At
  <2>2. \E v \in Verdicts : Stop(w, v) \/ GoOn(w, j, v)
    <3>1. CASE Teardown(w, F)
      BY <1>2, <3>1 DEF Teardown, Verdicts
    <3>2. CASE StoreEgress(w, F)
      BY <3>2 DEF StoreEgress, Verdicts
    <3>3. CASE Cascade(w, F)
      BY <1>2, <3>3 DEF Cascade, Owing, Verdicts
    <3>4. CASE PfRulesCall(w, F)
      BY <3>4 DEF PfRulesCall, Verdicts
    <3> QED BY <1>5, <3>1, <3>2, <3>3, <3>4
  <2> QED BY <1>2, <2>1, <2>2, PlainMoves
<1> QED BY <1>1, <1>2, <1>3, <1>4, <1>5, ReadMoves, PeerMoves, PfMoves

-----------------------------------------------------------------------------
(* Rules go before rows *)

\* Hypothesis: one request is served at a time.
OneWorker == \A v, w \in Workers : v = w

\* No rule is in of the forward, whatever target it had.
Bare(f) == \A r \in fw : r[1] \in PfKinds => r[2] # f

PfCalls == {"insertPf", "savePf", "deletePf", "removePf", "applyPf"}

\* What a handler of a forward has established before its next call: between the
\* removal of the old rules and the save no rule is left, and what is applied is what
\* was saved.
PfJobOK(j) ==
    /\ Head(j.calls) = "insertPf" => pfs[j.f].st = "none" /\ j.new.st = "active"
    /\ Head(j.calls) = "removePf" => /\ pfs[j.f].st = "active" /\ j.pf = pfs[j.f]
                                     /\ j.new.st = "active"
    /\ Head(j.calls) = "savePf" => pfs[j.f].st = "active" /\ j.new.st = "active" /\ Bare(j.f)
    /\ Head(j.calls) = "deletePf" => Bare(j.f)
    /\ Head(j.calls) = "applyPf" => pfs[j.f].st = "active" /\ j.new = pfs[j.f]

\* NoRuleWithoutRow holds at every moment, not only between requests.
FwInv == RulesOwned /\ \A w \in Busy : PfJobOK(jobs[w])

\* The order of the calls on forwards.
LEMMA PfOrder ==
    ASSUME NEW j, NEW k, Fits(j), NextJob(k, j)
    PROVE  /\ Head(j.calls) \notin PfCalls => Head(k.calls) \notin PfCalls
           /\ Head(j.calls) = "insertPf" => Head(k.calls) = "applyPf"
           /\ Head(j.calls) = "removePf" => Head(k.calls) \in {"savePf", "deletePf"}
           /\ Head(j.calls) = "savePf" => Head(k.calls) = "applyPf"
           /\ Head(j.calls) \notin {"applyPf", "deletePf"}
<1>1. Place(j.op, j.calls) /\ Place(k.op, k.calls) /\ k.op = j.op
  BY DEF NextJob, Fits
<1>2. ASSUME Head(j.calls) \notin PfCalls PROVE Head(k.calls) \notin PfCalls
  <2>1. j.op \notin {"addPf", "editPf", "delPf"}
    <3>1. /\ j.op = "addPf" => j.calls \in {<<"insertPf", "applyPf">>, <<"applyPf">>}
          /\ j.op = "editPf" => j.calls \in {<<"removePf", "savePf", "applyPf">>,
                                             <<"savePf", "applyPf">>, <<"applyPf">>}
          /\ j.op = "delPf" => j.calls \in {<<"removePf", "deletePf">>, <<"deletePf">>}
      BY <1>1 DEF Place
    <3> QED BY <1>2, <3>1 DEF PfCalls
  <2> QED BY <1>1, <2>1, Heads DEF PfCalls
<1>3. ASSUME Head(j.calls) \in PfCalls
      PROVE  /\ Head(j.calls) = "insertPf" => Head(k.calls) = "applyPf"
             /\ Head(j.calls) = "removePf" => Head(k.calls) \in {"savePf", "deletePf"}
             /\ Head(j.calls) = "savePf" => Head(k.calls) = "applyPf"
             /\ Head(j.calls) \notin {"applyPf", "deletePf"}
  <2>1. k.calls = Tail(j.calls) /\ j.op \in {"addPf", "editPf", "delPf"}
    BY <1>1, <1>3, Heads DEF NextJob, PfCalls
  <2>2. k.calls # <<>>
    BY <1>1, PlaceTyped
  <2>3. j.calls \in {<<"insertPf", "applyPf">>, <<"applyPf">>,
                     <<"removePf", "savePf", "applyPf">>, <<"savePf", "applyPf">>,
                     <<"removePf", "deletePf">>, <<"deletePf">>}
    BY <1>1, <2>1 DEF Place
  <2>4. /\ j.calls # <<"applyPf">>
        /\ j.calls # <<"deletePf">>
    <3>1. \A a : Tail(<<a>>) = <<>>
      BY Short
    <3> QED BY <2>1, <2>2, <3>1, Zenon
  <2>5. CASE j.calls = <<"insertPf", "applyPf">>
    BY <2>1, <2>5
  <2>6. CASE j.calls = <<"removePf", "savePf", "applyPf">>
    BY <2>1, <2>6
  <2>7. CASE j.calls = <<"savePf", "applyPf">>
    BY <2>1, <2>7
  <2>8. CASE j.calls = <<"removePf", "deletePf">>
    BY <2>1, <2>8
  <2> QED BY <2>3, <2>4, <2>5, <2>6, <2>7, <2>8
<1>4. Head(j.calls) \notin PfCalls => Head(j.calls) \notin {"insertPf", "removePf", "savePf",
                                                            "applyPf", "deletePf"}
  BY DEF PfCalls
<1> QED BY <1>2, <1>3, <1>4

\* A forward's id is the second part of its rules' names.
LEMMA BareOfNone ==
    ASSUME RulesOwned, NEW f, pfs[f].st # "active"
    PROVE  Bare(f)
<1> SUFFICES ASSUME NEW r \in fw, r[1] \in PfKinds PROVE r[2] # f
  BY DEF Bare
<1>1. PICK g \in Pfs : pfs[g].st = "active" /\ r \in RulesOf({g})
  BY DEF RulesOwned, RuleOwned
<1>2. r[2] = g
  BY <1>1, RuleKinds, RulesOfOne
<1> QED BY <1>1, <1>2

\* Taking up a job: what the handler of a forward has looked up.
LEMMA FwTaken ==
    ASSUME OneWorker, TInv, FwInv, NEW w \in Workers, NEW m, TakesUp(w, m)
    PROVE  FwInv'
<1>1. Fits(m) /\ Origin(m) /\ UNCHANGED <<pfs, fw>> /\ Take(w, m)
  BY DEF TakesUp, db
<1>2. SameJob(jobs'[w], m) /\ Busy' = {w}
  <2>1. SameJob(jobs'[w], m) /\ w \notin Busy /\ Busy' = Busy \union {w}
    BY <1>1, TakeEffect
  <2>2. Busy = {}
    BY <2>1 DEF OneWorker, Busy
  <2> QED BY <2>1, <2>2
<1>3. Place(m.op, m.calls) /\ m.calls = Script[m.op]
  BY <1>1 DEF Fits, Origin
<1>4. /\ m.op = "addPf" => Head(m.calls) = "insertPf"
      /\ m.op \in {"editPf", "delPf"} => Head(m.calls) = "removePf"
  BY <1>3 DEF Script, DelPf
<1>5. PfJobOK(m)
  <2>1. /\ Head(m.calls) = "insertPf" => m.op = "addPf"
        /\ Head(m.calls) = "removePf" => m.op \in {"editPf", "delPf"}
        /\ Head(m.calls) \notin {"savePf", "deletePf", "applyPf"}
    BY <1>3, <1>4, Heads
  <2> QED BY <1>1, <2>1 DEF PfJobOK, Origin
<1>6. RulesOwned'
  BY <1>1, RulesStay DEF FwInv
<1>7. PfJobOK(jobs[w])'
  BY <1>1, <1>2, <1>5 DEF SameJob, PfJobOK, Bare
<1>8. \A v \in Busy' : PfJobOK(jobs[v])'
  BY <1>2, <1>7
<1> QED BY <1>6, <1>8 DEF FwInv

\* Calls of other handlers leave no forward's handler halfway.
LEMMA FwAside ==
    ASSUME OneWorker, TInv, NEW w \in Workers, Call(w),
           Head(jobs[w].calls) \notin PfCalls, RulesOwned'
    PROVE  FwInv'
<1>1. Moves(w) /\ jobs[w] # NoJob
  BY CallMoves DEF Busy
<1>2. Fits(jobs[w])
  BY <1>1 DEF TInv, JobsFit, Busy
<1>3. ASSUME NEW v \in Busy' PROVE PfJobOK(jobs[v])'
  <2>1. jobs'[w] # NoJob /\ v = w
    BY <1>3 DEF Busy, OneWorker
  <2>2. NextJob(jobs'[w], jobs[w])
    BY <1>1, <2>1 DEF Moves
  <2>3. Head(jobs'[w].calls) \notin PfCalls
    BY <1>2, <2>2, PfOrder
  <2> QED BY <2>1, <2>3 DEF PfJobOK, PfCalls
<1> QED BY <1>3 DEF FwInv

\* Calls on interfaces, peers and devices, and the rules they set up or tear down.
LEMMA FwElsewhere ==
    ASSUME OneWorker, TInv, FwInv, NEW w \in Workers, NEW F \in FaultSets, Call(w),
           \/ InsertIface(w, F)   \/ SaveIface(w, F)     \/ TrashIface(w, F)
           \/ RestoreIface(w, F)  \/ PurgeIface(w, F)    \/ MovePeers(w, F)
           \/ Load(w, F)          \/ Ensure(w, F)        \/ Configure(w, F)
           \/ RemoveDevice(w, F)  \/ Teardown(w, F)      \/ Setup(w, F)
           \/ StoreEgress(w, F)   \/ PeerStatement(w, F) \/ Parent(w, F)
           \/ SyncOne(w, F)
    PROVE  FwInv'
<1>1. Head(jobs[w].calls) \notin PfCalls
  BY DEF InsertIface, SaveIface, TrashIface, RestoreIface, PurgeIface, MovePeers, Load,
         Ensure, Configure, RemoveDevice, Teardown, Setup, StoreEgress, PeerStatement, Parent,
         SyncOne, At, PfCalls
<1>2. UNCHANGED pfs
  <2>1. ASSUME \/ InsertIface(w, F)   \/ SaveIface(w, F)     \/ TrashIface(w, F)
               \/ RestoreIface(w, F)  \/ PurgeIface(w, F)    \/ MovePeers(w, F)
               \/ StoreEgress(w, F)   \/ PeerStatement(w, F)
        PROVE  UNCHANGED pfs
    BY <2>1 DEF InsertIface, SaveIface, TrashIface, RestoreIface, PurgeIface, MovePeers,
                StoreEgress, PeerStatement
  <2>2. ASSUME \/ Load(w, F)          \/ Ensure(w, F)        \/ Configure(w, F)
               \/ RemoveDevice(w, F)  \/ Teardown(w, F)      \/ Setup(w, F)
               \/ Parent(w, F)        \/ SyncOne(w, F)
        PROVE  UNCHANGED pfs
    BY <2>2 DEF Load, Ensure, Configure, RemoveDevice, Teardown, Setup, Parent, SyncOne,
                RowsUntouched
  <2> QED BY <2>1, <2>2
<1>3. \A r : r[1] \in PfKinds => (r \in fw' <=> r \in fw)
  <2>1. CASE Teardown(w, F)
    BY <2>1, NatCallsKeepPf DEF Teardown
  <2>2. CASE Setup(w, F)
    <3> DEFINE j == jobs[w]
    <3>1. ASSUME NEW r, r[1] \in PfKinds
          PROVE  r \in SetupNAT(fw, NameOf[j.i], j.row.addr, j.row.egress, wan, F) <=> r \in fw
      <4>1. \A n, a, e : r \notin NatRules(n, a, e)
        BY <3>1, RuleKinds
      <4> QED BY <4>1 DEF SetupNAT, EnsureRules
    <3>2. fw' = SetupNAT(fw, NameOf[j.i], j.row.addr, j.row.egress, wan, F)
      BY <2>2 DEF Setup
    <3> HIDE DEF j
    <3> QED BY <3>1, <3>2
  <2>3. ASSUME \/ InsertIface(w, F)   \/ SaveIface(w, F)     \/ TrashIface(w, F)
               \/ RestoreIface(w, F)  \/ PurgeIface(w, F)    \/ MovePeers(w, F)
               \/ StoreEgress(w, F)   \/ PeerStatement(w, F)
        PROVE  UNCHANGED fw
    BY <2>3 DEF InsertIface, SaveIface, TrashIface, RestoreIface, PurgeIface, MovePeers,
                StoreEgress, PeerStatement, HostUntouched
  <2>4. ASSUME \/ Load(w, F)          \/ Ensure(w, F)        \/ Configure(w, F)
               \/ RemoveDevice(w, F)  \/ Parent(w, F)        \/ SyncOne(w, F)
        PROVE  UNCHANGED fw
    BY <2>4 DEF Load, Ensure, Configure, RemoveDevice, Parent, SyncOne, HostUntouched
  <2> QED BY <2>1, <2>2, <2>3, <2>4
<1>4. RulesOwned'
  BY <1>2, <1>3, RulesStay DEF FwInv
<1> QED BY <1>1, <1>4, FwAside

\* The cascades: rules come back for forwards in service only, and a purge takes rules
\* and rows together.
LEMMA FwCascaded ==
    ASSUME ForwardsRemoved, OneWorker, TInv, FwInv, NEW w \in Workers,
           NEW F \in FaultSets, Call(w), Cascade(w, F)
    PROVE  FwInv'
<1> DEFINE j == jobs[w]
           S == Followers(j)
           All == {f \in Pfs : pfs[f].st = "active" /\ pfs[f].iface \in Wanted}
<1>1. Head(jobs[w].calls) \notin PfCalls
  BY DEF Cascade, At, PfCalls
<1>2. /\ S \in SUBSET {f \in Pfs : pfs[f].st = "active"}
      /\ All \in SUBSET {f \in Pfs : pfs[f].st = "active"}
  BY DEF Followers, Forwards, ForwardsTo
<1>3. RulesOwned'
  <2>1. \/ fw' = Reapply(fw, S, F) /\ UNCHANGED pfs
        \/ fw' = Reapply(fw, All, F) /\ UNCHANGED pfs
        \/ fw' = Unapply(fw, S, F) /\ UNCHANGED pfs
        \/ /\ fw' = Unapply(fw, S, F)
           /\ pfs' = [f \in Pfs |-> IF f \in Found(S, F) THEN BlankPf("purged") ELSE pfs[f]]
    BY DEF Cascade
  <2> HIDE DEF S, All
  <2>2. ASSUME NEW T \in SUBSET {f \in Pfs : pfs[f].st = "active"}, fw' = Reapply(fw, T, F),
               UNCHANGED pfs
        PROVE  RulesOwned'
    <3>1. \A r \in fw' : r \in fw \/ RuleOwned(r)
      BY <2>2, ReapplyOwned
    <3> QED BY <2>2, <3>1, RulesStay DEF FwInv
  <2>3. ASSUME fw' = Unapply(fw, S, F) PROVE \A r \in fw' : r[1] \in PfKinds =>
                                               r \in fw /\ \A f \in S : r \notin RulesOf({f})
    BY <2>3, UnapplyGone
  <2>4. CASE fw' = Unapply(fw, S, F) /\ UNCHANGED pfs
    BY <2>3, <2>4, RulesStay DEF FwInv
  <2>5. CASE /\ fw' = Unapply(fw, S, F)
             /\ pfs' = [f \in Pfs |-> IF f \in Found(S, F) THEN BlankPf("purged") ELSE pfs[f]]
    <3>1. \A f \in Pfs \ S : pfs'[f] = pfs[f]
      BY <2>5 DEF Found
    <3>2. TypeOK /\ RulesOwned
      BY DEF TInv, FwInv
    <3>3. \A r \in fw' : r[1] \in PfKinds => r \in fw /\ \A f \in S : r \notin RulesOf({f})
      BY <2>3, <2>5
    <3> QED BY <3>1, <3>2, <3>3, RulesPurged
  <2>6. CASE \E T \in {S, All} : fw' = Reapply(fw, T, F) /\ UNCHANGED pfs
    BY <1>2, <2>2, <2>6
  <2> QED BY <2>1, <2>4, <2>5, <2>6
<1> QED BY <1>1, <1>3, FwAside

\* The statement on a forward's row: the row that takes the place of another finds no
\* rule of the former.
LEMMA FwStatement ==
    ASSUME OneWorker, TInv, FwInv, NEW w \in Workers, NEW F, Call(w), PfStatement(w, F)
    PROVE  FwInv'
<1> DEFINE j == jobs[w]
           saved == Upsert(j.new, pfs[j.f].st = "active")
<1>1. PICK call \in {"insertPf", "savePf", "deletePf"} : At(w, call)
  BY DEF PfStatement
<1>2. /\ j \in Job /\ j # NoJob /\ Fits(j) /\ Head(j.calls) = call
      /\ j.op \in {"addPf", "editPf", "delPf"}
  <2>1. /\ j \in Job /\ j # NoJob /\ Fits(j) /\ Place(j.op, j.calls) /\ Head(j.calls) = call
    BY <1>1, AtWork
  <2> QED BY <2>1, Heads
<1>3. j.f \in Pfs /\ j.new \in Pf /\ pfs \in [Pfs -> Pf] /\ TypeOK
  BY <1>2 DEF Fits, Carries, TInv, TypeOK
<1>4. PfJobOK(j) /\ Bare(j.f)
  <2>1. PfJobOK(j)
    BY <1>2 DEF FwInv, Busy
  <2>2. CASE call = "insertPf"
    BY <1>2, <2>1, <2>2, BareOfNone DEF FwInv, PfJobOK
  <2>3. CASE call # "insertPf"
    BY <1>2, <2>1, <2>3 DEF PfJobOK
  <2> QED BY <2>1, <2>2, <2>3
<1>5. fw' = fw /\ \A f \in Pfs \ {j.f} : pfs'[f] = pfs[f]
  BY <1>3 DEF PfStatement, HostUntouched
<1>6. RulesOwned'
  <2>1. \A r \in fw' : r[1] \in PfKinds => r \in fw /\ \A f \in {j.f} : r \notin RulesOf({f})
    <3> HIDE DEF j
    <3>1. ASSUME NEW r \in RulesOf({j.f}) PROVE r[1] \in PfKinds /\ r[2] = j.f
      <4>1. \A f : RulesOf({f}) = PfRules(f, pfs[f].tport)
        BY RulesOfOne
      <4>2. r \in PfRules(j.f, pfs[j.f].tport)
        BY <3>1, <4>1, Zenon
      <4> QED BY <4>2, RuleKinds
    <3> QED BY <1>4, <1>5, <3>1 DEF Bare
  <2>2. TypeOK /\ RulesOwned
    BY DEF TInv, FwInv
  <2> HIDE DEF j
  <2> QED BY <1>5, <2>1, <2>2, RulesPurged
<1>7. ASSUME NEW v \in Busy' PROVE PfJobOK(jobs[v])'
  <2>1. jobs'[w] # NoJob /\ v = w
    BY <1>7 DEF Busy, OneWorker
  <2>2. NextJob(jobs'[w], j)
    BY <2>1, CallMoves DEF Moves
  <2>3. /\ call \in {"insertPf", "savePf"} /\ Head(jobs'[w].calls) = "applyPf"
        /\ jobs'[w].new = pfs'[j.f] /\ jobs'[w].f = j.f
    <3> HIDE DEF j
    <3> QED BY <1>2, <2>2, PfOrder DEF NextJob
  <2>4. pfs'[j.f].st = "active"
    <3>1. ~Stop(w, "none")
      BY <1>2, <2>1, Answered DEF Stop
    <3>2. \/ call = "insertPf" /\ pfs' = [pfs EXCEPT ![j.f] = j.new]
          \/ call = "savePf" /\ pfs' = [pfs EXCEPT ![j.f] = saved]
      BY <1>2, <2>3, <3>1 DEF PfStatement, At
    <3>3. j.new.st = "active"
      BY <1>2, <1>4, <2>3 DEF PfJobOK
    <3>4. saved.st = "active"
      BY <1>3, <3>3 DEF Upsert, Pf
    <3> QED BY <1>3, <3>2, <3>3, <3>4
  <2> QED BY <2>1, <2>3, <2>4 DEF PfJobOK
<1> QED BY <1>6, <1>7 DEF FwInv

\* The rules of one forward: those of the row as it was read, or of the row as it was
\* saved.
LEMMA FwRules ==
    ASSUME ForwardsRemoved, OneWorker, TInv, FwInv, NEW w \in Workers,
           NEW F \in FaultSets, Call(w), PfRulesCall(w, F)
    PROVE  FwInv'
<1> DEFINE j == jobs[w]
<1>1. PICK call \in {"removePf", "applyPf"} : At(w, call)
  BY DEF PfRulesCall
<1>2. /\ j \in Job /\ j # NoJob /\ Fits(j) /\ Head(j.calls) = call
      /\ j.op \in {"addPf", "editPf", "delPf"} /\ Place(j.op, j.calls)
  <2>1. /\ j \in Job /\ j # NoJob /\ Fits(j) /\ Place(j.op, j.calls) /\ Head(j.calls) = call
    BY <1>1, AtWork
  <2> QED BY <2>1, Heads
<1>3. j.f \in Pfs /\ PfJobOK(j) /\ pfs' = pfs /\ RulesOwned
  BY <1>2 DEF Fits, Carries, FwInv, Busy, PfRulesCall, RowsUntouched
<1>4. /\ call = "removePf" => fw' = DeleteRules(fw, StaleRules(j), F)
      /\ call = "applyPf" => fw' = IF j.new.on
                                     THEN EnsureRules(fw, PfRules(j.f, j.new.tport), F) ELSE fw
  BY <1>2 DEF PfRulesCall, At
<1>5. RulesOwned'
  <2>1. CASE call = "removePf"
    BY <1>3, <1>4, <2>1, RulesStay DEF DeleteRules
  <2>2. CASE call = "applyPf"
    <3>1. pfs[j.f].st = "active" /\ j.new = pfs[j.f]
      BY <1>2, <1>3, <2>2 DEF PfJobOK
    <3>2. ASSUME NEW r \in fw', r \notin fw PROVE RuleOwned(r)
      <4>1. pfs[j.f].on /\ r \in RulesOf({j.f})
        BY <1>4, <2>2, <3>1, <3>2, RulesOfOne DEF EnsureRules
      <4> QED BY <1>3, <3>1, <4>1 DEF RuleOwned
    <3> QED BY <1>3, <3>2, RulesStay
  <2> QED BY <2>1, <2>2
<1>6. ASSUME NEW v \in Busy' PROVE PfJobOK(jobs[v])'
  <2>1. jobs'[w] # NoJob /\ v = w
    BY <1>6 DEF Busy, OneWorker
  <2>2. NextJob(jobs'[w], j)
    BY <2>1, CallMoves DEF Moves
  <2>3. /\ call = "removePf" /\ Head(jobs'[w].calls) \in {"savePf", "deletePf"}
        /\ jobs'[w].new = j.new /\ jobs'[w].f = j.f
    <3> HIDE DEF j
    <3> QED BY <1>2, <2>2, PfOrder DEF NextJob
  <2>4. pfs[j.f].st = "active" /\ j.pf = pfs[j.f] /\ j.new.st = "active"
    BY <1>2, <1>3, <2>3 DEF PfJobOK
  <2>5. ASSUME NEW r \in fw', r[1] \in PfKinds PROVE r[2] # j.f
    <3>1. r \in fw /\ r \notin PfRules(j.f, pfs[j.f].tport)
      BY <1>4, <2>3, <2>4, <2>5 DEF DeleteRules, StaleRules, ForwardsRemoved
    <3>2. PICK g \in Pfs : r \in PfRules(g, pfs[g].tport)
      BY <1>3, <2>5, <3>1, RulesOfOne DEF RulesOwned, RuleOwned
    <3> QED BY <3>1, <3>2, RuleKinds
  <2> QED BY <1>3, <2>1, <2>3, <2>4, <2>5 DEF PfJobOK, Bare
<1> QED BY <1>5, <1>6 DEF FwInv

\* A crash between two calls, a start after it, and a default route that moves.
LEMMA FwOutside ==
    ASSUME TInv, FwInv, Outside
    PROVE  FwInv'
<1>1. ASSUME UNCHANGED <<pfs, fw>> PROVE RulesOwned'
  BY <1>1, RulesStay DEF FwInv
<1>2. CASE Crash
  <2>1. Busy' = {} /\ UNCHANGED <<pfs, fw>>
    BY <1>2 DEF Crash, Busy, RowsUntouched, HostUntouched
  <2> QED BY <1>1, <2>1 DEF FwInv
<1>3. CASE RouteMoves
  <2>1. Busy' = {} /\ UNCHANGED <<pfs, fw>>
    BY <1>3 DEF RouteMoves, RouteChange, Busy, db
  <2> QED BY <1>1, <2>1 DEF FwInv
<1>4. ASSUME NEW F \in FaultSets, NEW reboot \in BOOLEAN, Restart(F, reboot)
      PROVE  FwInv'
  <2>1. Busy' = {} /\ UNCHANGED pfs /\ (fw' = {} \/ fw' = fw)
    BY <1>4 DEF Restart, Start, Busy, TInv, db
  <2>2. RulesOwned'
    BY <1>1, <2>1 DEF RulesOwned
  <2> QED BY <2>1, <2>2 DEF FwInv
<1> QED BY <1>2, <1>3, <1>4 DEF Outside

\* Rules go before rows: as long as one request is served at a time and the calls that
\* take rules of forwards out do not fail, there is never a rule of a forward whose row
\* is gone, disabled or was given another target, between two calls of a handler and
\* after a crash there no less than between requests.
THEOREM RulesAlwaysHaveRows ==
    ASSUME ForwardsRemoved, OneWorker
    PROVE  RSpec => []NoRuleWithoutRow
<1>1. RInit => FwInv
  BY DEF RInit, Init, FwInv, RulesOwned, Busy
<1>2. TInv /\ FwInv /\ [RNext]_rvars => FwInv'
  <2> SUFFICES ASSUME TInv, FwInv, [RNext]_rvars PROVE FwInv'
    OBVIOUS
  <2>1. ASSUME NEW w \in Workers, TakeUp(w) PROVE FwInv'
    BY <2>1, JobTaken, FwTaken
  <2>2. ASSUME NEW w \in Workers, Call(w) PROVE FwInv'
    <3>1. PICK F \in FaultSets :
            \/ InsertIface(w, F)   \/ SaveIface(w, F)     \/ TrashIface(w, F)
            \/ RestoreIface(w, F)  \/ PurgeIface(w, F)    \/ MovePeers(w, F)
            \/ Load(w, F)          \/ Ensure(w, F)        \/ Configure(w, F)
            \/ RemoveDevice(w, F)  \/ Teardown(w, F)      \/ Setup(w, F)
            \/ StoreEgress(w, F)   \/ PeerStatement(w, F) \/ Parent(w, F)
            \/ SyncOne(w, F)       \/ Cascade(w, F)       \/ PfStatement(w, F)
            \/ PfRulesCall(w, F)
      BY <2>2 DEF Call
    <3> QED BY <2>2, <3>1, FwElsewhere, FwCascaded, FwStatement, FwRules
  <2>3. CASE Outside
    BY <2>3, FwOutside
  <2>4. CASE UNCHANGED rvars
    BY <2>4 DEF rvars, vars, db, FwInv, RulesOwned, RuleOwned, RulesOf, Busy, PfJobOK, Bare
  <2> QED BY <2>1, <2>2, <2>3, <2>4 DEF RNext
<1>3. FwInv => NoRuleWithoutRow
  BY DEF FwInv, RulesOwned, RuleOwned, NoRuleWithoutRow
<1> QED BY <1>1, <1>2, <1>3, JobsStayTyped, PTL DEF RSpec
-----------------------------------------------------------------------------
(* What a call does to the tables *)

\* A row keeps its state, or changes it as a call of its handler does.
IfaceBecomes(j, i) ==
    LET old == ifaces[i].st
        new == ifaces'[i].st
    IN  /\ old # "none" => new # "none"
        /\ i # j.i => new = old
        /\ old = "none" /\ new # "none" =>
             Head(j.calls) = "insertIface" \/ j.op \in {"update", "purge"}
        /\ old = "active" /\ new # "active" => j.op \in {"delete", "purge"}
        /\ old # "active" /\ new = "active" =>
             Head(j.calls) \in {"insertIface", "saveIface", "restoreIface"}

\* The job takes the peer out with its interface.
TakesAlong(j, p, ops) == InTable(peers[p]) /\ peers[p].iface = j.i /\ j.op \in ops

PeerBecomes(j, p) ==
    LET old == peers[p]
        new == peers'[p]
    IN  /\ old.st # "none" => new.st # "none"
        /\ old.st = "none" /\ new.st # "none" =>
             /\ j.op \in PeerOps /\ p = j.p
             /\ Head(j.calls) = "insertPeer" \/ j.op # "addPeer"
        /\ InTable(new) => \/ InTable(old) /\ new.iface = old.iface
                           \/ j.op \in PeerOps /\ p = j.p /\ new.iface = j.new.iface
                           \/ p \in DOMAIN j.kids /\ new.iface = j.kids[p].iface
        /\ old.st = "active" /\ new.st # "active" =>
             \/ p = j.p /\ j.op \in {"delPeer", "purgePeer"}
             \/ TakesAlong(j, p, {"delete", "purge"})
        /\ old.st # "purged" /\ new.st = "purged" =>
             (p = j.p /\ j.op = "purgePeer") \/ TakesAlong(j, p, {"purge"})
        /\ old.st # "active" /\ new.st = "active" =>
             \/ Head(j.calls) \in {"restorePeers", "restorePeer"}
             \/ p = j.p /\ Head(j.calls) \in {"insertPeer", "savePeer"}
             \/ /\ old.st = "purged" /\ p \in DOMAIN j.kids
                /\ Head(j.calls) \in {"saveIface", "egress"}

\* A new or an edited peer is one in service.
NewInService(j) == j.op \in {"addPeer", "editPeer"} => j.new.st = "active"

\* Tables that are left alone.
LEMMA RowsLeft ==
    /\ UNCHANGED ifaces => \A j : \A i \in Ifaces : IfaceBecomes(j, i)
    /\ UNCHANGED peers => \A j : \A p \in Peers : PeerBecomes(j, p)
  BY DEF IfaceBecomes, PeerBecomes

\* Calls on interface rows.
LEMMA IfaceRowsMove ==
    ASSUME TInv, NEW w \in Workers, NEW F, NEW i \in Ifaces,
           \/ InsertIface(w, F)  \/ SaveIface(w, F)  \/ TrashIface(w, F)
           \/ RestoreIface(w, F) \/ PurgeIface(w, F) \/ StoreEgress(w, F)
    PROVE  IfaceBecomes(jobs[w], i)
<1> DEFINE j == jobs[w]
<1>1. PICK call \in {"insertIface", "saveIface", "trashIface", "restoreIface", "purgeIface",
                     "egress"} : At(w, call)
  BY DEF InsertIface, SaveIface, TrashIface, RestoreIface, PurgeIface, StoreEgress
<1>2. /\ j \in Job /\ Fits(j) /\ Place(j.op, j.calls) /\ Head(j.calls) = call
  BY <1>1, AtWork
<1>3. /\ j.i \in Ifaces /\ ifaces \in [Ifaces -> Iface] /\ ifaces[i] \in Iface
      /\ call \in {"insertIface", "saveIface"} => j.new \in Iface /\ j.new.st = "active"
      /\ call = "insertIface" => j.op = "create"
      /\ call = "saveIface" => j.op = "update"
      /\ call = "trashIface" => j.op = "delete"
      /\ call = "purgeIface" => j.op = "purge"
  <2>1. /\ call = "insertIface" => j.op = "create"
        /\ call = "saveIface" => j.op = "update"
        /\ call = "trashIface" => j.op = "delete"
        /\ call = "purgeIface" => j.op = "purge"
    BY <1>2, Heads
  <2> QED BY <1>2, <2>1, JobParts DEF Fits, Carries, TInv, TypeOK
<1> HIDE DEF j
<1>4. CASE ifaces' = ifaces
  BY <1>4, RowsLeft
<1>5. ASSUME NEW row, ifaces' = [ifaces EXCEPT ![j.i] = row],
             \/ call \in {"insertIface", "saveIface"} /\ row.st = "active"
             \/ call = "trashIface" /\ Active(j.i) /\ row.st = "trashed"
             \/ call = "restoreIface" /\ InTable(ifaces[j.i]) /\ row.st = "active"
             \/ call = "purgeIface" /\ row.st = "purged"
             \/ call = "egress" /\ row.st = ifaces[j.i].st
      PROVE  IfaceBecomes(jobs[w], i)
  <2>1. i # j.i => ifaces'[i] = ifaces[i]
    BY <1>3, <1>5
  <2>2. i = j.i => ifaces'[i] = row
    BY <1>3, <1>5
  <2>3. IfaceBecomes(j, i)
    BY <1>2, <1>3, <1>5, <2>1, <2>2 DEF IfaceBecomes, InTable, Active
  <2> QED BY <2>3 DEF j
<1>6. CASE InsertIface(w, F) \/ TrashIface(w, F) \/ PurgeIface(w, F)
  <2>1. CASE InsertIface(w, F)
    BY <1>2, <1>3, <1>4, <1>5, <2>1 DEF InsertIface, At, j
  <2>2. CASE TrashIface(w, F)
    <3>1. \/ ifaces' = ifaces
          \/ /\ Active(j.i) /\ call = "trashIface"
             /\ ifaces' = [ifaces EXCEPT ![j.i] = [ifaces[j.i] EXCEPT !.st = "trashed"]]
      BY <1>2, <2>2 DEF TrashIface, At, j
    <3>2. [ifaces[j.i] EXCEPT !.st = "trashed"].st = "trashed"
      BY <1>3 DEF Iface
    <3> QED BY <1>4, <1>5, <3>1, <3>2
  <2>3. CASE PurgeIface(w, F)
    <3>1. \/ ifaces' = ifaces
          \/ call = "purgeIface" /\ ifaces' = [ifaces EXCEPT ![j.i] = BlankIface("purged")]
      BY <1>2, <2>3 DEF PurgeIface, At, j
    <3>2. BlankIface("purged").st = "purged"
      BY DEF BlankIface
    <3> QED BY <1>4, <1>5, <3>1, <3>2
  <2> QED BY <1>6, <2>1, <2>2, <2>3
<1>7. CASE RestoreIface(w, F)
  <2>1. \/ ifaces' = ifaces
        \/ /\ InTable(ifaces[j.i]) /\ call = "restoreIface"
           /\ ifaces' = [ifaces EXCEPT ![j.i] = [ifaces[j.i] EXCEPT !.st = "active"]]
    BY <1>2, <1>7 DEF RestoreIface, At, j
  <2>2. [ifaces[j.i] EXCEPT !.st = "active"].st = "active"
    BY <1>3 DEF Iface
  <2> QED BY <1>4, <1>5, <2>1, <2>2
<1>8. CASE SaveIface(w, F)
  <2> DEFINE row == Upsert(j.new, Active(j.i))
  <2>1. call = "saveIface" /\ (ifaces' = ifaces \/ ifaces' = [ifaces EXCEPT ![j.i] = row])
    BY <1>2, <1>8 DEF SaveIface, At, j
  <2>2. row.st = "active"
    BY <1>3, <2>1 DEF Upsert, Iface
  <2> QED BY <1>4, <1>5, <2>1, <2>2
<1>9. CASE StoreEgress(w, F)
  <2> DEFINE row == EgressStored(j.i, j.row)
  <2>1. call = "egress" /\ (ifaces' = ifaces \/ ifaces' = [ifaces EXCEPT ![j.i] = row])
    BY <1>2, <1>9 DEF StoreEgress, At, j
  <2>2. row.st = ifaces[j.i].st
    BY <1>3 DEF EgressStored, Iface
  <2> QED BY <1>4, <1>5, <2>1, <2>2
<1> QED BY <1>6, <1>7, <1>8, <1>9 DEF j

\* The peers written along with an interface: only a purged one changes.
LEMMA KidsMove ==
    ASSUME TInv, NEW w \in Workers, jobs[w] # NoJob, peers' = WithKids(jobs[w].kids),
           Head(jobs[w].calls) \in {"saveIface", "egress"}, NEW p \in Peers
    PROVE  PeerBecomes(jobs[w], p)
<1> DEFINE j == jobs[w]
<1>1. j \in Job
  BY DEF TInv, JobsFit
<1>2. CASE p \in Gone(j.kids)
  <2>1. p \in DOMAIN j.kids /\ peers[p].st = "purged"
    BY <1>2 DEF Gone
  <2>2. j.kids[p] \in Peer /\ j.kids[p].st = "active"
    BY <1>1, <2>1, JobParts
  <2>3. peers'[p] = [j.kids[p] EXCEPT !.on = TRUE]
    BY <1>2 DEF WithKids, Upsert
  <2>4. peers'[p].st = "active" /\ peers'[p].iface = j.kids[p].iface
    BY <2>2, <2>3 DEF Peer
  <2> QED BY <2>1, <2>4 DEF PeerBecomes, InTable
<1>3. CASE p \notin Gone(j.kids)
  <2>1. peers'[p] = peers[p]
    BY <1>3 DEF WithKids
  <2> QED BY <2>1 DEF PeerBecomes
<1> QED BY <1>2, <1>3

\* The peers of an interface.
LEMMA PeersOfIfaceMove ==
    ASSUME TInv, NEW w \in Workers, NEW F, MovePeers(w, F) \/ PurgeIface(w, F),
           NEW p \in Peers
    PROVE  PeerBecomes(jobs[w], p)
<1> DEFINE j == jobs[w]
           under == InTable(peers[p]) /\ peers[p].iface = j.i
<1>1. PICK call \in {"trashPeers", "restorePeers", "purgePeers", "purgeIface"} : At(w, call)
  BY DEF MovePeers, PurgeIface
<1>2. Place(j.op, j.calls) /\ Head(j.calls) = call
  BY <1>1, AtWork
<1>3. /\ call = "trashPeers" => j.op = "delete"
      /\ call \in {"purgePeers", "purgeIface"} => j.op = "purge"
  BY <1>2, Heads
<1>4. peers[p] \in Peer
  BY DEF TInv, TypeOK
<1>5. ASSUME NEW st \in {"trashed", "active"}
      PROVE  [peers[p] EXCEPT !.st = st].st = st
             /\ [peers[p] EXCEPT !.st = st].iface = peers[p].iface
  BY <1>4 DEF Peer
<1>6. BlankPeer("purged").st = "purged"
  BY DEF BlankPeer
<1>7. \/ peers'[p] = peers[p]
      \/ /\ under
         /\ \/ call = "trashPeers" /\ peers'[p] = [peers[p] EXCEPT !.st = "trashed"]
            \/ call = "restorePeers" /\ peers'[p] = [peers[p] EXCEPT !.st = "active"]
            \/ call \in {"purgePeers", "purgeIface"} /\ peers'[p] = BlankPeer("purged")
  <2>1. CASE PurgeIface(w, F)
    BY <1>2, <2>1 DEF PurgeIface, At
  <2>2. CASE MovePeers(w, F)
    BY <1>2, <2>2 DEF MovePeers, At
  <2> QED BY <2>1, <2>2
<1> HIDE DEF j
<1> QED BY <1>2, <1>3, <1>5, <1>6, <1>7 DEF PeerBecomes, TakesAlong, InTable, j

\* The statement on a peer's row.
LEMMA PeerRowMoves ==
    ASSUME TInv, NEW w \in Workers, NEW F, PeerStatement(w, F), NewInService(jobs[w]),
           NEW p \in Peers
    PROVE  PeerBecomes(jobs[w], p)
<1> DEFINE j == jobs[w]
           row == peers[j.p]
           saved == Upsert(j.new, row.st = "active")
<1>1. PICK call \in {"insertPeer", "savePeer", "trashPeer", "restorePeer", "purgePeer"} :
        At(w, call)
  BY DEF PeerStatement
<1>2. /\ j \in Job /\ Fits(j) /\ Place(j.op, j.calls) /\ Head(j.calls) = call
  BY <1>1, AtWork
<1>3. /\ j.op \in PeerOps
      /\ call = "insertPeer" <=> j.op = "addPeer" /\ call = "insertPeer"
      /\ call = "savePeer" => j.op = "editPeer"
      /\ call = "trashPeer" => j.op = "delPeer"
      /\ call = "restorePeer" => j.op = "restorePeer"
      /\ call = "purgePeer" => j.op = "purgePeer"
  BY <1>2, Heads DEF PeerOps
<1>4. /\ j.p \in Peers /\ j.new \in Peer /\ row \in Peer /\ peers \in [Peers -> Peer]
      /\ call \in {"insertPeer", "savePeer"} => j.new.st = "active"
  BY <1>2, <1>3 DEF Fits, Carries, TInv, TypeOK, NewInService
<1>5. /\ saved.st = j.new.st /\ saved.iface = j.new.iface
      /\ \A st \in {"trashed", "active"} :
           [row EXCEPT !.st = st].st = st /\ [row EXCEPT !.st = st].iface = row.iface
      /\ BlankPeer("purged").st = "purged"
  BY <1>4 DEF Upsert, Peer, BlankPeer
<1>6. \/ peers' = peers
      \/ \E new : /\ peers' = [peers EXCEPT ![j.p] = new]
                  /\ \/ call = "insertPeer" /\ new = j.new
                     \/ call = "savePeer" /\ new = saved
                     \/ call = "trashPeer" /\ row.st = "active" /\ new = [row EXCEPT !.st = "trashed"]
                     \/ call = "trashPeer" /\ row.st # "active" /\ new = row
                     \/ call = "restorePeer" /\ InTable(row) /\ new = [row EXCEPT !.st = "active"]
                     \/ call = "restorePeer" /\ new = row
                     \/ call = "purgePeer" /\ new = BlankPeer("purged")
  <2>1. ASSUME NEW fits, NEW new, NEW k, k.p = j.p, WritePeer(w, fits, new, k)
        PROVE  peers' = peers \/ peers' = [peers EXCEPT ![j.p] = new]
    BY <2>1 DEF WritePeer
  <2>2. \/ \E fits : call = "insertPeer" /\ WritePeer(w, fits, j.new, j)
        \/ \E fits, k : call = "savePeer" /\ k.p = j.p /\ WritePeer(w, fits, saved, k)
        \/ \E fits : /\ call = "trashPeer"
                     /\ WritePeer(w, fits, IF row.st = "active" THEN [row EXCEPT !.st = "trashed"]
                                                                ELSE row, j)
        \/ \E fits : /\ call = "restorePeer"
                     /\ WritePeer(w, fits, IF InTable(row) THEN [row EXCEPT !.st = "active"]
                                                           ELSE row, j)
        \/ \E fits : call = "purgePeer" /\ WritePeer(w, fits, BlankPeer("purged"), j)
    <3>1. j \in Job /\ [j EXCEPT !.new = saved].p = j.p
      BY <1>2 DEF Job
    <3> QED BY <1>1, <3>1 DEF PeerStatement, At
  <2> HIDE DEF j, row, saved
  <2> QED BY <2>1, <2>2
<1>7. CASE peers' = peers
  BY <1>7, RowsLeft
<1>8. CASE peers' # peers
  <2>1. PICK new : /\ peers' = [peers EXCEPT ![j.p] = new]
                  /\ \/ call = "insertPeer" /\ new = j.new
                     \/ call = "savePeer" /\ new = saved
                     \/ call = "trashPeer" /\ row.st = "active" /\ new = [row EXCEPT !.st = "trashed"]
                     \/ call = "trashPeer" /\ row.st # "active" /\ new = row
                     \/ call = "restorePeer" /\ InTable(row) /\ new = [row EXCEPT !.st = "active"]
                     \/ call = "restorePeer" /\ new = row
                     \/ call = "purgePeer" /\ new = BlankPeer("purged")
    BY <1>6, <1>8
  <2>2. (p = j.p => peers'[p] = new /\ peers[p] = row) /\ (p # j.p => peers'[p] = peers[p])
    BY <1>4, <2>1
  <2> HIDE DEF j, row, saved
  <2>3. CASE p # j.p
    BY <2>2, <2>3 DEF PeerBecomes, j
  <2>4. CASE p = j.p
    <3>1. PeerBecomes(j, p)
      BY <1>2, <1>3, <1>4, <1>5, <2>1, <2>2, <2>4, ZenonT(40) DEF PeerBecomes, InTable
    <3> QED BY <3>1 DEF j
  <2> QED BY <2>3, <2>4
<1> QED BY <1>7, <1>8

\* Every call.
LEMMA RowsMove ==
    ASSUME TInv, NEW w \in Workers, Call(w), NewInService(jobs[w])
    PROVE  /\ \A i \in Ifaces : IfaceBecomes(jobs[w], i)
           /\ \A p \in Peers : PeerBecomes(jobs[w], p)
<1> DEFINE j == jobs[w]
<1>1. PICK F \in FaultSets :
        \/ InsertIface(w, F)   \/ SaveIface(w, F)     \/ TrashIface(w, F)
        \/ RestoreIface(w, F)  \/ PurgeIface(w, F)    \/ MovePeers(w, F)
        \/ Load(w, F)          \/ Ensure(w, F)        \/ Configure(w, F)
        \/ RemoveDevice(w, F)  \/ Teardown(w, F)      \/ Setup(w, F)
        \/ StoreEgress(w, F)   \/ PeerStatement(w, F) \/ Parent(w, F)
        \/ SyncOne(w, F)       \/ Cascade(w, F)       \/ PfStatement(w, F)
        \/ PfRulesCall(w, F)
  BY DEF Call
<1>2. ASSUME \/ Load(w, F)     \/ Ensure(w, F)   \/ Configure(w, F) \/ RemoveDevice(w, F)
             \/ Teardown(w, F) \/ Setup(w, F)    \/ Parent(w, F)    \/ SyncOne(w, F)
             \/ Cascade(w, F)  \/ PfStatement(w, F) \/ PfRulesCall(w, F)
      PROVE  UNCHANGED <<ifaces, peers>>
  BY <1>2 DEF Load, Ensure, Configure, RemoveDevice, Teardown, Setup, Parent, SyncOne,
              Cascade, PfStatement, PfRulesCall, RowsUntouched
<1>3. ASSUME InsertIface(w, F) \/ TrashIface(w, F) \/ RestoreIface(w, F)
      PROVE  UNCHANGED peers
  BY <1>3 DEF InsertIface, TrashIface, RestoreIface
<1>4. ASSUME MovePeers(w, F) \/ PeerStatement(w, F)
      PROVE  UNCHANGED ifaces
  BY <1>4 DEF MovePeers, PeerStatement
<1>5. ASSUME SaveIface(w, F) \/ StoreEgress(w, F)
      PROVE  \A p \in Peers : PeerBecomes(j, p)
  <2>1. CASE UNCHANGED peers
    BY <2>1, RowsLeft
  <2>2. CASE ~UNCHANGED peers
    <3>1. /\ jobs[w] # NoJob /\ Head(j.calls) \in {"saveIface", "egress"}
          /\ peers' = WithKids(j.kids)
      BY <1>5, <2>2 DEF SaveIface, StoreEgress, At
    <3> QED BY <3>1, KidsMove
  <2> QED BY <2>1, <2>2
<1> QED BY <1>1, <1>2, <1>3, <1>4, <1>5, RowsLeft, IfaceRowsMove, PeersOfIfaceMove,
           PeerRowMoves
-----------------------------------------------------------------------------
(* What a handler may rely on while others work *)

\* What has once been established stays so: a row about to be inserted is not there
\* yet, one that was read has been there.
Grounded(j) ==
    /\ Head(j.calls) = "insertIface" => ifaces[j.i].st = "none"
    /\ j.op \in {"update", "purge"} => ifaces[j.i].st # "none"
    /\ Head(j.calls) = "insertPeer" => peers[j.p].st = "none"
    /\ j.op \in PeerOps \ {"addPeer"} => peers[j.p].st # "none"
    /\ NewInService(j)
    /\ \A p \in DOMAIN j.kids : peers[p].st # "none"
    /\ j.op \notin Applies => DOMAIN j.kids = {}

\* A job that nothing got in the way of finds the rows it will write as it left them.
Undisturbed(j) ==
    j.solo => /\ j.op = "update" => Active(j.i)
              /\ Head(j.calls) = "savePeer" => peers[j.p].st = "active"
              /\ \A p \in DOMAIN j.kids : peers[p].st # "purged"

\* A job knows a peer under one interface, that of its row, whoever reads it and when.
Housed(j, home) ==
    /\ j.op \in PeerOps => j.i = home[j.p] /\ j.new.iface = home[j.p]
    /\ \A p \in DOMAIN j.kids : j.kids[p].iface = home[p] /\ home[p] = j.i

\* Two jobs: ids are given out once, and one that is alone is in nobody's way.
Abreast(a, b) ==
    /\ a.solo => ~Conflict(a, b)
    /\ a.op = b.op => /\ a.op = "create" => a.i # b.i
                      /\ a.op = "addPeer" => a.p # b.p

RowsHomed(home) == \A p \in Peers : InTable(peers[p]) => peers[p].iface = home[p]

InOrder(home) ==
    /\ RowsHomed(home)
    /\ \A w \in Busy :
         /\ Grounded(jobs[w]) /\ Undisturbed(jobs[w]) /\ Housed(jobs[w], home)
         /\ \A v \in Busy : v # w => Abreast(jobs[w], jobs[v])

DInv == \E home \in [Peers -> Ifaces] : InOrder(home)

\* Being in each other's way is mutual, and a matter of what the jobs are about.
LEMMA ConflictsMutual ==
    \A a, b, c : /\ Conflict(a, b) => Conflict(b, a)
                 /\ a.op = c.op /\ a.i = c.i /\ a.p = c.p =>
                      /\ Conflict(a, b) <=> Conflict(c, b)
                      /\ Conflict(b, a) <=> Conflict(b, c)
  BY DEF Conflict

\* Requests that take out what another works on are in its way.
LEMMA InTheWay ==
    ASSUME NEW a, NEW b, a.i = b.i
    PROVE  /\ a.op \notin PfOps /\ b.op \in {"delete", "purge"} => Conflict(a, b)
           /\ a.op \in Applies /\ b.op \in PeerOps => Conflict(a, b)
           /\ a.op \in PeerOps /\ b.op \in PeerOps /\ a.p = b.p => Conflict(a, b)
  BY DEF Conflict, PfOps, PeerOps, Applies

\* The first call of a handler is not made again.
LEMMA FirstCalls ==
    ASSUME NEW j, NEW k, Fits(j), NextJob(k, j)
    PROVE  Head(k.calls) \notin {"insertIface", "insertPeer", "savePeer"}
<1>1. Place(j.op, j.calls) /\ Place(k.op, k.calls) /\ k.op = j.op
  BY DEF NextJob, Fits
<1> SUFFICES ASSUME Head(k.calls) \in {"insertIface", "insertPeer", "savePeer"} PROVE FALSE
  OBVIOUS
<1>2. /\ Head(k.calls) = "insertIface" => k.op = "create"
      /\ Head(k.calls) = "insertPeer" => k.op = "addPeer"
      /\ Head(k.calls) = "savePeer" => k.op = "editPeer"
  BY <1>1, Heads
<1>3. k.calls = Tail(j.calls)
  BY DEF NextJob
<1>4. CASE j.op = "create"
  <2>1. j.calls = <<"insertIface", "load">> \/ j.calls \in Reconciling
    BY <1>1, <1>4 DEF Place
  <2>2. \A c \in Reconciling : Tail(c) = <<>> \/ Head(Tail(c)) # "insertIface"
    BY DEF Reconciling
  <2>3. k.calls # <<>>
    BY <1>1, PlaceTyped
  <2>4. CASE j.calls = <<"insertIface", "load">>
    BY <1>2, <1>3, <1>1, <1>4, <2>4
  <2>5. CASE j.calls \in Reconciling
    BY <1>2, <1>3, <1>1, <1>4, <2>2, <2>3, <2>5
  <2> QED BY <2>1, <2>4, <2>5
<1>5. CASE j.op \in {"addPeer", "editPeer"}
  <2>1. \/ j.calls \in {<<"insertPeer", "parent">>, <<"savePeer", "parent">>}
        \/ j.calls \in SyncingPeer
    BY <1>1, <1>5 DEF Place
  <2>2. \A c \in SyncingPeer : Tail(c) = <<>> \/ Head(Tail(c)) = "peer"
    BY DEF SyncingPeer
  <2>3. k.calls # <<>>
    BY <1>1, PlaceTyped
  <2>4. CASE j.calls \in {<<"insertPeer", "parent">>, <<"savePeer", "parent">>}
    BY <1>3, <2>4
  <2>5. CASE j.calls \in SyncingPeer
    BY <1>3, <2>2, <2>3, <2>5
  <2> QED BY <2>1, <2>4, <2>5
<1> QED BY <1>1, <1>2, <1>4, <1>5

\* The job of a worker that has made a call.
LEMMA OwnStaysGrounded ==
    ASSUME TInv, NEW home, InOrder(home), NEW w \in Workers, Call(w), jobs'[w] # NoJob
    PROVE  /\ Grounded(jobs[w])' /\ Undisturbed(jobs[w])' /\ Housed(jobs'[w], home)
           /\ jobs'[w].op = jobs[w].op /\ jobs'[w].i = jobs[w].i /\ jobs'[w].p = jobs[w].p
           /\ jobs'[w].solo = jobs[w].solo
<1> DEFINE j == jobs[w]
<1>0. PICK k : k = jobs'[w]
  OBVIOUS
<1>1. w \in Busy /\ NextJob(k, j)
  BY <1>0, CallMoves DEF Moves
<1>2. /\ Fits(j) /\ j \in Job /\ Place(j.op, j.calls)
      /\ Grounded(j) /\ Undisturbed(j) /\ Housed(j, home) /\ RowsHomed(home)
  BY <1>1 DEF TInv, JobsFit, Busy, InOrder, Fits
<1>3. /\ \A i \in Ifaces : IfaceBecomes(j, i)
      /\ \A p \in Peers : PeerBecomes(j, p)
  BY <1>2, RowsMove DEF Grounded
<1>4. /\ j.i \in Ifaces /\ DOMAIN j.kids \subseteq Peers
      /\ j.op \in PeerOps => j.p \in Peers /\ j.new \in Peer
  BY <1>2, JobParts DEF Fits, Carries
<1>5. /\ k.op = j.op /\ k.i = j.i /\ k.p = j.p /\ k.solo = j.solo
      /\ Head(k.calls) \notin {"insertIface", "insertPeer", "savePeer"}
  <2> HIDE DEF j
  <2> QED BY <1>1, <1>2, FirstCalls DEF NextJob
<1> HIDE DEF j
<1>6. CASE Head(j.calls) = "load"
  <2>1. j.op \in Applies /\ j.op \notin PeerOps /\ j.op \notin {"purge", "purgePeer"}
    BY <1>2, <1>6, Heads DEF Applies, PeerOps
  <2>2. k.new = j.new /\ k.kids = Kids(j.i)
    BY <1>1, <1>6 DEF NextJob
  <2>3. /\ DOMAIN k.kids = {q \in Peers : peers[q].st = "active" /\ peers[q].iface = j.i}
        /\ \A p \in DOMAIN k.kids : k.kids[p] = peers[p]
    BY <2>2 DEF Kids
  <2>4. \A p \in DOMAIN k.kids : /\ peers'[p].st \notin {"none", "purged"}
                                 /\ k.kids[p].iface = home[p] /\ home[p] = j.i
    BY <1>2, <1>3, <2>1, <2>3 DEF PeerBecomes, TakesAlong, RowsHomed, InTable
  <2>5. /\ j.op = "update" => ifaces'[j.i].st # "none"
        /\ j.solo /\ j.op = "update" => ifaces'[j.i].st = "active"
    BY <1>2, <1>3, <1>4 DEF IfaceBecomes, Grounded, Undisturbed, Active
  <2>6. Grounded(k)'
    BY <1>2, <1>5, <2>1, <2>2, <2>4, <2>5 DEF Grounded, NewInService
  <2>7. Undisturbed(k)'
    BY <1>5, <2>4, <2>5 DEF Undisturbed, Active
  <2>8. Housed(k, home)
    BY <1>5, <2>1, <2>4 DEF Housed
  <2>9. Grounded(jobs[w])' /\ Undisturbed(jobs[w])'
    BY <1>0, <2>6, <2>7 DEF Grounded, Undisturbed, NewInService
  <2> QED BY <1>0, <1>5, <2>8, <2>9 DEF j
<1>7. CASE Head(j.calls) # "load"
  <2>1. k.kids = j.kids
    BY <1>1, <1>7 DEF NextJob
  <2>2. NewInService(k) /\ (j.op \in PeerOps => k.new.iface = j.new.iface)
    <3>1. CASE j.op \in PeerOps
      <4>1. k.new = j.new \/ k.new = Upsert(j.new, peers[j.p].st = "active")
        <5>1. Head(j.calls) \notin {"insertPf", "savePf", "deletePf"}
          BY <1>2, <3>1, Heads DEF PeerOps
        <5> QED BY <1>1, <5>1 DEF NextJob
      <4>2. k.new.st = j.new.st /\ k.new.iface = j.new.iface
        BY <1>4, <3>1, <4>1 DEF Upsert, Peer
      <4> QED BY <1>2, <1>5, <4>2 DEF Grounded, NewInService
    <3>2. CASE j.op \notin PeerOps
      BY <1>5, <3>2 DEF NewInService, PeerOps
    <3> QED BY <3>1, <3>2
  <2>3. \A p \in DOMAIN j.kids : /\ peers'[p].st # "none"
                                 /\ peers[p].st # "purged" => peers'[p].st # "purged"
    <3>1. \A p \in DOMAIN j.kids : p \in Peers /\ peers[p].st # "none" /\ PeerBecomes(j, p)
      BY <1>2, <1>3, <1>4 DEF Grounded
    <3>2. DOMAIN j.kids # {} => j.op \notin {"purge", "purgePeer"}
      BY <1>2 DEF Grounded, Applies
    <3> QED BY <3>1, <3>2 DEF PeerBecomes, TakesAlong
  <2>4. /\ j.op \in {"update", "purge"} => ifaces'[j.i].st # "none"
        /\ j.solo /\ j.op = "update" => ifaces'[j.i].st = "active"
    BY <1>2, <1>3, <1>4 DEF IfaceBecomes, Grounded, Undisturbed, Active
  <2>5. j.op \in PeerOps \ {"addPeer"} => peers'[j.p].st # "none"
    BY <1>2, <1>3, <1>4 DEF PeerBecomes, Grounded
  <2>6. Grounded(k)'
    <3>1. NewInService(k)'
      BY <2>2 DEF NewInService
    <3> QED BY <1>2, <1>5, <2>1, <2>3, <2>4, <2>5, <3>1 DEF Grounded
  <2>7. Undisturbed(k)'
    BY <1>2, <1>5, <2>1, <2>3, <2>4 DEF Undisturbed, Active
  <2>8. Housed(k, home)
    BY <1>2, <1>5, <2>1, <2>2 DEF Housed
  <2>9. Grounded(jobs[w])' /\ Undisturbed(jobs[w])'
    BY <1>0, <2>6, <2>7 DEF Grounded, Undisturbed, NewInService
  <2> QED BY <1>0, <1>5, <2>8, <2>9 DEF j
<1> QED BY <1>6, <1>7

\* The jobs of the other workers: a row one of them relies on is taken away from it
\* only by a request in its way.
LEMMA OthersStayGrounded ==
    ASSUME TInv, NEW home, InOrder(home), NEW w \in Workers, Call(w),
           NEW v \in Busy \ {w}
    PROVE  /\ Grounded(jobs[v])' /\ Undisturbed(jobs[v])' /\ jobs'[v] = jobs[v]
<1> DEFINE j == jobs[w]
           x == jobs[v]
<1>1. w \in Busy /\ v \in Workers /\ v # w /\ jobs'[v] = jobs[v]
  BY CallMoves, CallTyped DEF Busy, OnlyMoves
<1>2. /\ Fits(j) /\ j \in Job /\ Place(j.op, j.calls)
      /\ Grounded(j) /\ Housed(j, home) /\ RowsHomed(home)
  BY <1>1 DEF TInv, JobsFit, Busy, InOrder, Fits
<1>3. /\ Fits(x) /\ x \in Job /\ Place(x.op, x.calls)
      /\ Grounded(x) /\ Undisturbed(x) /\ Housed(x, home) /\ Abreast(x, j)
  BY <1>1 DEF TInv, JobsFit, Busy, InOrder, Fits
<1>4. /\ \A i \in Ifaces : IfaceBecomes(j, i)
      /\ \A p \in Peers : PeerBecomes(j, p)
  BY <1>2, RowsMove DEF Grounded
<1>5. /\ j.i \in Ifaces /\ x.i \in Ifaces /\ DOMAIN x.kids \subseteq Peers
      /\ x.op \in PeerOps => x.p \in Peers
  BY <1>2, <1>3, JobParts DEF Fits, Carries
<1>6. /\ Head(x.calls) = "insertIface" => x.op = "create"
      /\ Head(j.calls) = "insertIface" => j.op = "create"
      /\ Head(x.calls) = "insertPeer" => x.op = "addPeer"
      /\ Head(j.calls) = "insertPeer" => j.op = "addPeer"
      /\ Head(x.calls) = "savePeer" => x.op = "editPeer"
  BY <1>2, <1>3, Heads
<1> HIDE DEF j, x
<1>7. ASSUME Head(x.calls) = "insertIface" PROVE ifaces'[x.i].st = "none"
  <2>1. IfaceBecomes(j, x.i) /\ ifaces[x.i].st = "none" /\ x.op = "create"
    BY <1>3, <1>4, <1>5, <1>6, <1>7 DEF Grounded
  <2>2. x.i = j.i => Head(j.calls) # "insertIface" /\ j.op \notin {"update", "purge"}
    BY <1>2, <1>3, <1>6, <2>1 DEF Grounded, Abreast
  <2> QED BY <2>1, <2>2 DEF IfaceBecomes
<1>8. ASSUME Head(x.calls) = "insertPeer" PROVE peers'[x.p].st = "none"
  <2>1. x.op = "addPeer" /\ x.p \in Peers /\ peers[x.p].st = "none"
    BY <1>3, <1>5, <1>6, <1>8 DEF Grounded, PeerOps
  <2>2. PeerBecomes(j, x.p)
    BY <1>4, <2>1
  <2>3. x.p = j.p /\ j.op \in PeerOps => Head(j.calls) # "insertPeer" /\ j.op = "addPeer"
    BY <1>2, <1>3, <1>6, <2>1 DEF Grounded, Abreast
  <2> QED BY <2>1, <2>2, <2>3 DEF PeerBecomes
<1>9. /\ x.op \in {"update", "purge"} => ifaces'[x.i].st # "none"
      /\ x.op \in PeerOps \ {"addPeer"} => peers'[x.p].st # "none"
      /\ \A p \in DOMAIN x.kids : peers'[p].st # "none"
  BY <1>3, <1>4, <1>5 DEF Grounded, IfaceBecomes, PeerBecomes
<1>10. Grounded(jobs[v])'
  BY <1>1, <1>3, <1>7, <1>8, <1>9 DEF Grounded, NewInService, x
<1>11. ASSUME x.solo PROVE ~Conflict(x, j)
  BY <1>3, <1>11 DEF Abreast
<1>12. ASSUME x.solo, x.op = "update" PROVE ifaces'[x.i].st = "active"
  <2>1. IfaceBecomes(j, x.i) /\ ifaces[x.i].st = "active"
    BY <1>3, <1>4, <1>5, <1>12 DEF Undisturbed, Active
  <2>2. x.i = j.i => j.op \notin {"delete", "purge"}
    BY <1>11, <1>12, InTheWay DEF PfOps
  <2> QED BY <2>1, <2>2 DEF IfaceBecomes
<1>13. ASSUME x.solo, Head(x.calls) = "savePeer" PROVE peers'[x.p].st = "active"
  <2>1. x.op = "editPeer" /\ x.p \in Peers /\ peers[x.p].st = "active"
    BY <1>3, <1>5, <1>6, <1>13 DEF Undisturbed, PeerOps
  <2>2. PeerBecomes(j, x.p)
    BY <1>4, <2>1
  <2>3. x.p = j.p => j.op \notin {"delPeer", "purgePeer"}
    <3> SUFFICES ASSUME x.p = j.p, j.op \in {"delPeer", "purgePeer"} PROVE FALSE
      OBVIOUS
    <3>1. x.i = j.i
      BY <1>2, <1>3, <2>1 DEF Housed, PeerOps
    <3> QED BY <1>11, <1>13, <2>1, <3>1, InTheWay DEF PeerOps
  <2>4. ~TakesAlong(j, x.p, {"delete", "purge"})
    <3> SUFFICES ASSUME TakesAlong(j, x.p, {"delete", "purge"}) PROVE FALSE
      OBVIOUS
    <3>1. x.i = j.i /\ j.op \in {"delete", "purge"}
      BY <1>2, <1>3, <2>1 DEF TakesAlong, RowsHomed, Housed, PeerOps
    <3> QED BY <1>11, <1>13, <2>1, <3>1, InTheWay DEF PfOps
  <2> QED BY <2>1, <2>2, <2>3, <2>4 DEF PeerBecomes
<1>14. ASSUME x.solo, NEW p \in DOMAIN x.kids PROVE peers'[p].st # "purged"
  <2>1. p \in Peers /\ peers[p].st # "purged" /\ x.op \in Applies /\ home[p] = x.i
    BY <1>3, <1>5, <1>14 DEF Undisturbed, Grounded, Housed
  <2>2. PeerBecomes(j, p)
    BY <1>4, <2>1
  <2>3. ~(p = j.p /\ j.op = "purgePeer")
    <3> SUFFICES ASSUME p = j.p, j.op = "purgePeer" PROVE FALSE
      OBVIOUS
    <3>1. x.i = j.i /\ j.op \in PeerOps
      BY <1>2, <2>1 DEF Housed, PeerOps
    <3> QED BY <1>11, <1>14, <2>1, <3>1, InTheWay
  <2>4. ~TakesAlong(j, p, {"purge"})
    <3> SUFFICES ASSUME TakesAlong(j, p, {"purge"}) PROVE FALSE
      OBVIOUS
    <3>1. x.i = j.i /\ j.op = "purge"
      BY <1>2, <2>1 DEF TakesAlong, RowsHomed
    <3> QED BY <1>11, <1>14, <2>1, <3>1, InTheWay DEF PfOps, Applies
  <2> QED BY <2>1, <2>2, <2>3, <2>4 DEF PeerBecomes
<1>15. Undisturbed(jobs[v])'
  BY <1>1, <1>12, <1>13, <1>14 DEF Undisturbed, Active, x
<1> QED BY <1>1, <1>10, <1>15

\* A call.
LEMMA CallsKeepOrder ==
    ASSUME TInv, NEW home, InOrder(home), NEW w \in Workers, Call(w)
    PROVE  InOrder(home)'
<1>1. w \in Busy /\ Grounded(jobs[w]) /\ Fits(jobs[w]) /\ Housed(jobs[w], home)
  BY CallMoves DEF InOrder, TInv, JobsFit
<1>2. RowsHomed(home)'
  <2> SUFFICES ASSUME NEW p \in Peers, InTable(peers'[p]) PROVE peers'[p].iface = home[p]
    BY DEF RowsHomed
  <2>1. PeerBecomes(jobs[w], p)
    BY <1>1, RowsMove DEF Grounded
  <2>2. InTable(peers[p]) => peers[p].iface = home[p]
    BY DEF InOrder, RowsHomed
  <2> QED BY <1>1, <2>1, <2>2 DEF PeerBecomes, Housed
<1>3. \A v \in Busy' \ {w} : v \in Busy /\ jobs'[v] = jobs[v]
  BY CallTyped DEF OnlyMoves, Busy
<1>4. ASSUME NEW v \in Busy'
      PROVE  /\ Grounded(jobs[v])' /\ Undisturbed(jobs[v])' /\ Housed(jobs'[v], home)
             /\ v \in Busy
             /\ jobs'[v].op = jobs[v].op /\ jobs'[v].i = jobs[v].i
             /\ jobs'[v].p = jobs[v].p /\ jobs'[v].solo = jobs[v].solo
  <2>1. CASE v = w
    BY <1>1, <1>4, <2>1, OwnStaysGrounded DEF Busy
  <2>2. CASE v # w
    <3>1. v \in Busy \ {w} /\ jobs'[v] = jobs[v]
      BY <1>3, <1>4, <2>2
    <3> QED BY <3>1, OthersStayGrounded DEF InOrder
  <2> QED BY <2>1, <2>2
<1>5. ASSUME NEW v \in Busy', NEW u \in Busy', u # v
      PROVE  Abreast(jobs'[v], jobs'[u])
  <2>1. Abreast(jobs[v], jobs[u])
    BY <1>4, <1>5 DEF InOrder
  <2>2. Conflict(jobs'[v], jobs'[u]) <=> Conflict(jobs[v], jobs[u])
    BY <1>4, <1>5 DEF Conflict
  <2> QED BY <1>4, <1>5, <2>1, <2>2 DEF Abreast
<1> QED BY <1>2, <1>4, <1>5 DEF InOrder

\* A request is taken up: what its handler has looked up holds when it begins, and no
\* other job knows of a peer about to be inserted.
LEMMA TakenInOrder ==
    ASSUME TInv, NEW home \in [Peers -> Ifaces], InOrder(home),
           NEW w \in Workers, NEW m, TakesUp(w, m)
    PROVE  DInv'
<1> DEFINE after == IF m.op = "addPeer" THEN [home EXCEPT ![m.p] = m.i] ELSE home
<1>1. /\ Fits(m) /\ m \in Job /\ Place(m.op, m.calls) /\ Origin(m) /\ Take(w, m)
      /\ UNCHANGED <<ifaces, peers>> /\ TypeOK
  BY DEF TakesUp, Fits, db, TInv
<1>2. /\ m.i \in Ifaces
      /\ m.op \in PeerOps => m.p \in Peers /\ m.new \in Peer
  BY <1>1, JobParts DEF Fits, Carries
<1>3. /\ w \notin Busy /\ Busy' = Busy \union {w}
      /\ SameJob(jobs'[w], m)
      /\ jobs'[w].solo => \A v \in Busy : ~Conflict(m, jobs[v])
      /\ \A v \in Busy : /\ SameJob(jobs'[v], jobs[v])
                         /\ jobs'[v].solo => jobs[v].solo /\ ~Conflict(m, jobs[v])
  BY <1>1, TakeEffect
<1>4. /\ Head(m.calls) = "insertIface" => m.op = "create"
      /\ Head(m.calls) = "insertPeer" => m.op = "addPeer"
      /\ Head(m.calls) = "savePeer" => m.op = "editPeer"
  BY <1>1, Heads
<1>5. /\ m.op = "update" => /\ DOMAIN m.kids = {q \in Peers : peers[q].st = "active"
                                                               /\ peers[q].iface = m.i}
                            /\ \A p \in DOMAIN m.kids : m.kids[p] = peers[p]
      /\ m.op # "update" => DOMAIN m.kids = {}
  <2>1. m.op = "update" => m.kids = Kids(m.i)
    BY <1>1 DEF Origin
  <2>2. m.op # "update" => DOMAIN m.kids = {}
    <3>1. m.op # "update" => m.kids = <<>>
      BY <1>1 DEF Origin
    <3>2. DOMAIN <<>> = {}
      OBVIOUS
    <3> QED BY <3>1, <3>2
  <2> QED BY <2>1, <2>2 DEF Kids
<1>6. Grounded(m) /\ Undisturbed(m)
  <2>1. NewInService(m)
    BY <1>1 DEF Origin, NewInService
  <2>2. m.op \in PeerOps \ {"addPeer"} => peers[m.p].st # "none"
    BY <1>1 DEF Origin, InTable
  <2>3. m.op = "addPeer" => peers[m.p].st = "none"
    BY <1>1 DEF Origin
  <2>4. /\ m.op = "update" => Active(m.i)
        /\ m.op = "purge" => ifaces[m.i].st # "none"
        /\ m.op = "create" => ifaces[m.i].st = "none"
        /\ m.op = "editPeer" => peers[m.p].st = "active"
    BY <1>1 DEF Origin, InTable
  <2>5. "update" \in Applies
    BY DEF Applies
  <2> QED BY <1>4, <1>5, <2>1, <2>2, <2>3, <2>4, <2>5 DEF Grounded, Undisturbed, Active
<1>7. \A v \in Busy : /\ jobs[v] \in Job /\ Fits(jobs[v]) /\ DOMAIN jobs[v].kids \subseteq Peers
                      /\ Grounded(jobs[v]) /\ Undisturbed(jobs[v]) /\ Housed(jobs[v], home)
                      /\ jobs[v].op \in PeerOps => jobs[v].p \in Peers
  BY JobParts DEF InOrder, TInv, JobsFit, Fits, Carries
<1>8. ASSUME m.op = "addPeer"
      PROVE  /\ peers[m.p].st = "none" /\ m.new.iface = m.i /\ m.p \in Peers
             /\ \A v \in Busy : jobs[v].op = "addPeer" => jobs[v].p # m.p
  <2>1. Fresh("addPeer", <<>>, m.p, <<>>) /\ peers[m.p].st = "none" /\ m.new.iface = m.i
    BY <1>1, <1>8 DEF Origin
  <2>2. \A v \in Busy : jobs[v].op = "addPeer" => jobs[v].p # m.p
    BY <2>1 DEF Fresh
  <2> QED BY <1>2, <1>8, <2>1, <2>2 DEF PeerOps
<1>9. /\ after \in [Peers -> Ifaces]
      /\ m.op = "addPeer" => after[m.p] = m.i
      /\ \A p \in Peers : m.op # "addPeer" \/ p # m.p => after[p] = home[p]
  BY <1>2, <1>8
<1> HIDE DEF after
<1>10. RowsHomed(after)'
  <2>1. \A p \in Peers : InTable(peers[p]) => peers[p].iface = home[p]
    BY DEF InOrder, RowsHomed
  <2>2. \A p \in Peers : InTable(peers[p]) => m.op # "addPeer" \/ p # m.p
    BY <1>8 DEF InTable
  <2> QED BY <1>1, <1>9, <2>1, <2>2 DEF RowsHomed
<1>11. Housed(m, after)
  <2>1. CASE m.op = "addPeer"
    BY <1>5, <1>8, <1>9, <2>1 DEF Housed
  <2>2. CASE m.op # "addPeer"
    <3>1. m.op \in PeerOps => /\ InTable(peers[m.p]) /\ m.i = peers[m.p].iface
                              /\ m.new.iface = m.i
      BY <1>1, <2>2 DEF Origin
    <3>2. \A p \in Peers : InTable(peers[p]) => peers[p].iface = home[p] /\ after[p] = home[p]
      BY <1>9, <2>2 DEF InOrder, RowsHomed
    <3>3. \A p \in DOMAIN m.kids : p \in Peers /\ InTable(peers[p]) /\ m.kids[p] = peers[p]
                                   /\ peers[p].iface = m.i
      BY <1>5 DEF InTable
    <3> QED BY <1>2, <3>1, <3>2, <3>3 DEF Housed
  <2> QED BY <2>1, <2>2
<1>12. \A v \in Busy : Housed(jobs[v], after)
  <2> SUFFICES ASSUME NEW v \in Busy PROVE Housed(jobs[v], after)
    OBVIOUS
  <2>1. jobs[v].op \in PeerOps => m.op # "addPeer" \/ jobs[v].p # m.p
    BY <1>7, <1>8 DEF Grounded
  <2>2. \A p \in DOMAIN jobs[v].kids : p \in Peers /\ (m.op # "addPeer" \/ p # m.p)
    BY <1>7, <1>8 DEF Grounded
  <2> QED BY <1>7, <1>9, <2>1, <2>2 DEF Housed
<1>13. ASSUME NEW v \in Busy'
       PROVE  Grounded(jobs[v])' /\ Undisturbed(jobs[v])' /\ Housed(jobs'[v], after)
  <2>1. CASE v = w
    <3>1. SameJob(jobs'[w], m) /\ m.solo
      BY <1>1, <1>3 DEF Origin
    <3> QED BY <1>1, <1>6, <1>11, <2>1, <3>1
            DEF Grounded, Undisturbed, Housed, NewInService, SameJob, Active
  <2>2. CASE v # w
    <3>1. v \in Busy /\ SameJob(jobs'[v], jobs[v]) /\ (jobs'[v].solo => jobs[v].solo)
      BY <1>3, <1>13, <2>2
    <3> QED BY <1>1, <1>7, <1>12, <3>1
            DEF Grounded, Undisturbed, Housed, NewInService, SameJob, Active
  <2> QED BY <2>1, <2>2
<1>14. ASSUME NEW v \in Busy', NEW u \in Busy', u # v
       PROVE  Abreast(jobs'[v], jobs'[u])
  <2>1. CASE v # w /\ u # w
    <3>1. /\ v \in Busy /\ u \in Busy /\ Abreast(jobs[v], jobs[u])
          /\ SameJob(jobs'[v], jobs[v]) /\ SameJob(jobs'[u], jobs[u])
          /\ jobs'[v].solo => jobs[v].solo
      BY <1>3, <1>14, <2>1 DEF InOrder
    <3> QED BY <3>1 DEF Abreast, SameJob, Conflict
  <2>2. CASE v = w
    <3>1. /\ u \in Busy /\ SameJob(jobs'[u], jobs[u]) /\ SameJob(jobs'[w], m)
          /\ jobs'[w].solo => ~Conflict(m, jobs[u])
      BY <1>3, <1>14, <2>2
    <3>2. /\ m.op = "create" /\ jobs[u].op = "create" => m.i # jobs[u].i
          /\ m.op = "addPeer" /\ jobs[u].op = "addPeer" => m.p # jobs[u].p
      <4>1. m.op = "create" => \A x \in Busy : jobs[x].op = "create" => jobs[x].i # m.i
        BY <1>1 DEF Origin, Fresh
      <4> QED BY <1>8, <3>1, <4>1
    <3> QED BY <2>2, <3>1, <3>2 DEF Abreast, SameJob, Conflict
  <2>3. CASE u = w
    <3>1. /\ v \in Busy /\ SameJob(jobs'[v], jobs[v]) /\ SameJob(jobs'[w], m)
          /\ jobs'[v].solo => ~Conflict(m, jobs[v])
      BY <1>3, <1>14, <2>3
    <3>2. /\ m.op = "create" /\ jobs[v].op = "create" => m.i # jobs[v].i
          /\ m.op = "addPeer" /\ jobs[v].op = "addPeer" => m.p # jobs[v].p
      <4>1. m.op = "create" => \A x \in Busy : jobs[x].op = "create" => jobs[x].i # m.i
        BY <1>1 DEF Origin, Fresh
      <4> QED BY <1>8, <3>1, <4>1
    <3> QED BY <2>3, <3>1, <3>2, ConflictsMutual DEF Abreast, SameJob, Conflict
  <2> QED BY <2>1, <2>2, <2>3
<1>15. InOrder(after)'
  BY <1>10, <1>13, <1>14 DEF InOrder
<1> QED BY <1>9, <1>15 DEF DInv

\* A crash, a start, and a default route that moves.
LEMMA OutsideInOrder ==
    ASSUME TInv, NEW home, InOrder(home), Outside
    PROVE  InOrder(home)' /\ UNCHANGED <<ifaces, peers>>
<1>1. Busy' = {} /\ UNCHANGED <<ifaces, peers>>
  <2>1. CASE Crash
    BY <2>1 DEF Crash, Busy, RowsUntouched
  <2>2. CASE RouteMoves
    BY <2>2 DEF RouteMoves, RouteChange, Busy, db
  <2>3. ASSUME NEW F \in FaultSets, NEW reboot \in BOOLEAN, Restart(F, reboot)
        PROVE  Busy' = {} /\ UNCHANGED <<ifaces, peers>>
    BY <2>3 DEF Restart, Start, Busy, TInv, db
  <2> QED BY <2>1, <2>2, <2>3 DEF Outside
<1> QED BY <1>1 DEF InOrder, RowsHomed

\* What was deleted stays deleted while other requests run, whatever they have read
\* before: a row trashed or purged comes back by a restore, or by the save of a request
\* that something got in the way of.
LEMMA ComesBackByRequest ==
    ASSUME TInv, NEW home, InOrder(home), NEW w \in Workers, Call(w)
    PROVE  /\ \A i \in Ifaces :
                ifaces[i].st \in {"trashed", "purged"} /\ ifaces'[i].st = "active" =>
                  \/ At(w, "restoreIface")
                  \/ At(w, "saveIface") /\ ~jobs[w].solo
           /\ \A p \in Peers :
                peers[p].st \in {"trashed", "purged"} /\ peers'[p].st = "active" =>
                  \/ At(w, "restorePeers") \/ At(w, "restorePeer")
                  \/ At(w, "savePeer") /\ ~jobs[w].solo
                  \/ /\ peers[p].st = "purged" /\ ~jobs[w].solo
                     /\ At(w, "saveIface") \/ At(w, "egress")
<1> DEFINE j == jobs[w]
<1>1. /\ w \in Busy /\ j # NoJob /\ Place(j.op, j.calls)
      /\ Grounded(j) /\ Undisturbed(j)
  BY CallMoves DEF InOrder, TInv, JobsFit, Fits, Busy
<1>2. /\ \A i \in Ifaces : IfaceBecomes(j, i)
      /\ \A p \in Peers : PeerBecomes(j, p)
  BY <1>1, RowsMove DEF Grounded
<1>3. \A call : At(w, call) <=> Head(j.calls) = call
  BY <1>1 DEF At
<1>4. Head(j.calls) = "saveIface" => j.op = "update"
  BY <1>1, Heads
<1> HIDE DEF j
<1>5. ASSUME NEW i \in Ifaces, ifaces[i].st \in {"trashed", "purged"}, ifaces'[i].st = "active"
      PROVE  \/ Head(j.calls) = "restoreIface"
             \/ Head(j.calls) = "saveIface" /\ ~j.solo
  <2>1. i = j.i /\ Head(j.calls) \in {"insertIface", "saveIface", "restoreIface"}
    BY <1>2, <1>5 DEF IfaceBecomes
  <2> QED BY <1>1, <1>4, <1>5, <2>1 DEF Grounded, Undisturbed, Active
<1>6. ASSUME NEW p \in Peers, peers[p].st \in {"trashed", "purged"}, peers'[p].st = "active"
      PROVE  \/ Head(j.calls) \in {"restorePeers", "restorePeer"}
             \/ Head(j.calls) = "savePeer" /\ ~j.solo
             \/ /\ peers[p].st = "purged" /\ ~j.solo
                /\ Head(j.calls) \in {"saveIface", "egress"}
  <2>1. \/ Head(j.calls) \in {"restorePeers", "restorePeer"}
        \/ p = j.p /\ Head(j.calls) \in {"insertPeer", "savePeer"}
        \/ /\ peers[p].st = "purged" /\ p \in DOMAIN j.kids
           /\ Head(j.calls) \in {"saveIface", "egress"}
    BY <1>2, <1>6 DEF PeerBecomes
  <2> QED BY <1>1, <1>6, <2>1 DEF Grounded, Undisturbed
<1> QED BY <1>3, <1>5, <1>6 DEF j

\* So the handlers stay in order.
LEMMA OrderStays == RSpec => []DInv
<1>1. RInit => DInv
  <2> SUFFICES ASSUME RInit PROVE DInv
    OBVIOUS
  <2>1. PICK i : i \in Ifaces
    BY HostAssumption DEF HostAssumption
  <2> DEFINE h == [p \in Peers |-> i]
  <2>2. h \in [Peers -> Ifaces]
    BY <2>1
  <2>3. InOrder(h)
    BY DEF RInit, Init, InOrder, RowsHomed, InTable, BlankPeer, Busy
  <2> HIDE DEF h
  <2> QED BY <2>2, <2>3 DEF DInv
<1>2. TInv /\ DInv /\ [RNext]_rvars => DInv'
  <2> SUFFICES ASSUME TInv, DInv, [RNext]_rvars PROVE DInv'
    OBVIOUS
  <2>1. PICK home \in [Peers -> Ifaces] : InOrder(home)
    BY DEF DInv
  <2>2. ASSUME NEW w \in Workers, TakeUp(w) PROVE DInv'
    BY <2>1, <2>2, JobTaken, TakenInOrder
  <2>3. ASSUME InOrder(home)' PROVE DInv'
    BY <2>3 DEF DInv
  <2>4. ASSUME NEW w \in Workers, Call(w) PROVE InOrder(home)'
    BY <2>1, <2>4, CallsKeepOrder
  <2>5. CASE Outside
    BY <2>1, <2>3, <2>5, OutsideInOrder
  <2>6. CASE UNCHANGED rvars
    <3>1. UNCHANGED <<ifaces, peers, jobs>>
      BY <2>6 DEF rvars, vars
    <3>2. Busy' = Busy
      BY <3>1 DEF Busy
    <3>3. InOrder(home)'
      BY <2>1, <3>1, <3>2 DEF InOrder, RowsHomed, Grounded, Undisturbed, NewInService, Active
    <3> QED BY <2>3, <3>3
  <2> QED BY <2>2, <2>3, <2>4, <2>5, <2>6 DEF RNext
<1> QED BY <1>1, <1>2, JobsStayTyped, PTL DEF RSpec

\* For every number of requests that overlap, with crashes between any two calls and
\* every call failing: nothing but a restore, or a Save that the removal overlapped,
\* brings a row back.
THEOREM DeletedNeverReturns == RSpec => DeletedStaysDeleted
<1>1. TInv /\ DInv /\ [RNext]_rvars =>
        \/ UNCHANGED rvars
        \/ /\ \A i \in Ifaces :
                ifaces[i].st \in {"trashed", "purged"} /\ ifaces'[i].st = "active" =>
                  \E w \in Busy : \/ At(w, "restoreIface")
                                  \/ At(w, "saveIface") /\ ~jobs[w].solo
           /\ \A p \in Peers :
                peers[p].st \in {"trashed", "purged"} /\ peers'[p].st = "active" =>
                  \E w \in Busy :
                    \/ At(w, "restorePeers") \/ At(w, "restorePeer")
                    \/ At(w, "savePeer") /\ ~jobs[w].solo
                    \/ /\ peers[p].st = "purged" /\ ~jobs[w].solo
                       /\ At(w, "saveIface") \/ At(w, "egress")
  <2> SUFFICES ASSUME TInv, DInv, RNext
               PROVE  /\ \A i \in Ifaces :
                           ifaces[i].st \in {"trashed", "purged"} /\ ifaces'[i].st = "active" =>
                             \E w \in Busy : \/ At(w, "restoreIface")
                                             \/ At(w, "saveIface") /\ ~jobs[w].solo
                      /\ \A p \in Peers :
                           peers[p].st \in {"trashed", "purged"} /\ peers'[p].st = "active" =>
                             \E w \in Busy :
                               \/ At(w, "restorePeers") \/ At(w, "restorePeer")
                               \/ At(w, "savePeer") /\ ~jobs[w].solo
                               \/ /\ peers[p].st = "purged" /\ ~jobs[w].solo
                                  /\ At(w, "saveIface") \/ At(w, "egress")
    OBVIOUS
  <2>1. PICK home \in [Peers -> Ifaces] : InOrder(home)
    BY DEF DInv
  <2>2. CASE UNCHANGED <<ifaces, peers>>
    BY <2>2
  <2>3. CASE \E w \in Workers : Call(w)
    <3>1. PICK w \in Workers : Call(w)
      BY <2>3
    <3>2. w \in Busy
      BY <3>1, CallMoves
    <3> QED BY <2>1, <3>1, <3>2, ComesBackByRequest
  <2>4. ASSUME NEW w \in Workers, TakeUp(w) PROVE UNCHANGED <<ifaces, peers>>
    BY <2>4, JobTaken DEF TakesUp, db
  <2>5. Outside => UNCHANGED <<ifaces, peers>>
    BY <2>1, OutsideInOrder
  <2> QED BY <2>2, <2>3, <2>4, <2>5 DEF RNext
<1> QED BY <1>1, JobsStayTyped, OrderStays, PTL DEF RSpec, DeletedStaysDeleted

-----------------------------------------------------------------------------
(* Between two calls of a handler *)

\* The workers on a device, and the peers whose call on it is still to come.
On(n) == {w \in Busy : jobs[w].op \notin PfOps /\ NameOf[jobs[w].i] = n}
Late(n) ==
    {jobs[w].p : w \in {v \in On(n) : jobs[v].op \in PeerOps /\ jobs[v].verdict = "owed"}}

\* The device serves what the tables say, the peers of S aside.
ServesBut(n, S) ==
    /\ dev[n].exists <=> \E i \in Wanted : NameOf[i] = n
    /\ \A i \in Wanted : NameOf[i] = n =>
         /\ dev[n].conf = <<i, ifaces[i].port>>
         /\ ifaces[i].addr \in dev[n].addrs
         /\ dev[n].peers \ S = Served(peers, i) \ S

\* As long as only peer requests work on a name, each on a peer of its own, the device
\* lacks or has too much at most what these have still to do.
Steady(n) ==
    /\ n \notin owed /\ ~Listed(n)
    /\ \A w \in On(n) : jobs[w].solo /\ (jobs[w].op \in PeerOps \/ jobs[w].verdict = "none")
    => ServesBut(n, Late(n))

\* What a peer request has established: the row it applies is the one it has written.
Syncs == {"parent", "ensure", "peer"}
PeerFirm(j) ==
    LET row  == peers[j.p]
        here == Head(j.calls)
    IN  /\ j.verdict \in {"none", "owed"}
        /\ here = "restorePeer" => InTable(row) /\ j.new = [row EXCEPT !.st = "active"]
        /\ here \in Syncs =>
             IF j.op \in {"delPeer", "purgePeer"} THEN row.st # "active"
                                                  ELSE row = j.new /\ j.new.st = "active"
        /\ here \notin Syncs => j.verdict = "none"
        /\ here = "parent" => j.verdict = Pending(j.i)
        /\ here \in {"ensure", "peer"} =>
             j.verdict = "owed" /\ Active(j.i) /\ ifaces[j.i].on /\ j.row = ifaces[j.i]

\* The link is about to be removed because the interface is disabled.
Removing(c) == Head(c) = "rmlink" \/ (Len(c) > 1 /\ c[2] = "rmlink")

\* What an interface request has established: what it has read is what is stored, and
\* the device is as far as its calls have come.
IfaceFirm(j) ==
    LET row  == ifaces[j.i]
        n    == NameOf[j.i]
        here == Head(j.calls)
    IN  /\ j.op = "delete" => Active(j.i)
        /\ j.op = "purge" => InTable(row)
        /\ here \in {"insertIface", "restoreIface"} => j.verdict = "none"
        /\ here = "restoreIface" => row.st = "trashed"
        /\ here = "restorePeers" => j.verdict = "owed" /\ Active(j.i)
        /\ here = "load" => j.verdict \in {"none", "owed"} /\ (j.verdict = "owed" => Active(j.i))
        /\ here \in {"trashPeers", "purgePeers"} => j.verdict \in {"owed", "cut"}
        /\ here \in {"ensure", "configure"} =>
             /\ Active(j.i) /\ row.on
             /\ j.row.port = row.port /\ j.row.addr = row.addr /\ j.kids = Kids(j.i)
        /\ here = "configure" => dev[n].exists /\ row.addr \in dev[n].addrs
        /\ here \in {"setup", "egress"} => InSync(n)
        /\ Removing(j.calls) => Active(j.i) /\ ~row.on
        /\ j.verdict = "settled" => InSync(n)
        /\ j.verdict = "cut" => ~dev[n].exists /\ j.op \in {"delete", "purge"}

Firm(j) ==
    IF j.op \in PfOps THEN j.verdict = "none"
    ELSE j.solo => IF j.op \in PeerOps THEN PeerFirm(j) ELSE IfaceFirm(j)

\* QuietInSync is not inductive: what a device serves while handlers are at work on it
\* is right as far as these have come.
SInv ==
    /\ UniqueNames
    /\ \A w \in Busy : Firm(jobs[w])
    /\ \A n \in Names : Steady(n)

\* What is known of the next job of a worker, under another name.
LEMMA PeerFirmThere ==
    ASSUME NEW w, NEW k, k = jobs'[w], PeerFirm(k)'
    PROVE  PeerFirm(jobs[w])'
  BY DEF PeerFirm, Pending, Active, InTable

LEMMA IfaceFirmThere ==
    ASSUME NEW w, NEW k, k = jobs'[w], IfaceFirm(k)'
    PROVE  IfaceFirm(jobs[w])'
<1>1. Active(k.i)' <=> Active(jobs[w].i)'
  BY DEF Active
<1>2. Kids(k.i)' = Kids(jobs[w].i)'
  BY DEF Kids
<1>3. InSync(NameOf[k.i])' <=> InSync(NameOf[jobs[w].i])'
  BY DEF InSync
<1>4. InTable(ifaces[k.i])' <=> InTable(ifaces[jobs[w].i])'
  BY DEF InTable
<1> QED BY <1>1, <1>2, <1>3, <1>4 DEF IfaceFirm, Removing

LEMMA FirmThere ==
    ASSUME NEW w, NEW k, k = jobs'[w], Firm(k)'
    PROVE  Firm(jobs[w])'
<1>1. CASE k.op \in PfOps \/ ~k.solo
  BY <1>1 DEF Firm
<1>2. CASE k.op \notin PfOps /\ k.solo /\ k.op \in PeerOps
  BY <1>2, PeerFirmThere DEF Firm
<1>3. CASE k.op \notin PfOps /\ k.solo /\ k.op \notin PeerOps
  BY <1>3, IfaceFirmThere DEF Firm
<1> QED BY <1>1, <1>2, <1>3

\* The order of the calls on interfaces, read off one script after the other.
Follows(c, d) ==
    /\ Head(c) \notin {"trashIface", "purgeIface"}
    /\ Head(c) = "insertIface" => Head(d) = "load"
    /\ Head(c) = "teardown" => Head(d) \in {"saveIface", "unlink", "rmlink", "reapply", "unapply"}
    /\ Head(c) \in {"unapply", "purgePfs"} => Head(d) = "teardown"
    /\ Head(c) = "unlink" => Head(d) \in {"trashPeers", "purgePeers"}
    /\ Head(c) = "restoreIface" => Head(d) = "restorePeers"
    /\ Head(c) = "restorePeers" => Head(d) = "load"
    /\ Head(c) \in {"trashPeers", "purgePeers"} => Head(d) \in {"trashIface", "purgeIface"}
    /\ Head(c) = "ensure" => Head(d) = "configure"
    /\ Head(c) = "configure" => Head(d) \in {"setup", "teardown"}
    /\ Head(c) \in {"setup", "egress", "rmlink"} => Head(d) \in {"reapply", "unapply"}
    /\ Head(c) # "reapply"
    /\ Removing(d) => Head(c) = "teardown" /\ Removing(c)

\* Scripts of two to five calls, by their first two.
LEMMA Seconds ==
    /\ \A a : Len(<<a>>) = 1 /\ ~(Len(<<a>>) > 1)
    /\ \A a, b : <<a, b>>[2] = b
    /\ \A a, b, c : <<a, b, c>>[2] = b
    /\ \A a, b, c, d : <<a, b, c, d>>[2] = b
    /\ \A a, b, c, d, e : <<a, b, c, d, e>>[2] = b
  OBVIOUS

\* Each call of reconcile has its successor.
LEMMA IfaceOrder ==
    ASSUME NEW op, NEW c, Place(op, c), op \notin PeerOps \union PfOps, Len(c) > 1,
           Head(c) \notin {"load", "saveIface"}
    PROVE  Follows(c, Tail(c))
<1>1. ASSUME c \in Reconciling PROVE Follows(c, Tail(c))
  <2>0. c \notin {<<"load">>, <<"setup">>, <<"egress">>, <<"teardown">>, <<"rmlink">>}
    BY Short
  <2>1. c \in {<<"ensure", "configure", "setup">>, <<"ensure", "configure", "teardown">>,
               <<"configure", "setup">>, <<"configure", "teardown">>,
               <<"teardown", "rmlink">>}
    BY <1>1, <2>0 DEF Reconciling
  <2>2. CASE c = <<"ensure", "configure", "setup">>
    BY <2>2 DEF Follows, Removing
  <2>3. CASE c = <<"ensure", "configure", "teardown">>
    BY <2>3 DEF Follows, Removing
  <2>4. CASE c = <<"configure", "setup">>
    BY <2>4 DEF Follows, Removing
  <2>5. CASE c = <<"configure", "teardown">>
    BY <2>5 DEF Follows, Removing
  <2>6. CASE c = <<"teardown", "rmlink">>
    BY <2>6 DEF Follows, Removing
  <2> QED BY <2>1, <2>2, <2>3, <2>4, <2>5, <2>6
<1>2. ASSUME NEW last \in {"reapply", "unapply"}, c \in ReconcilingBefore(last)
      PROVE  Follows(c, Tail(c))
  <2>0. c # <<"load", last>> /\ c # <<last>>
    <3>1. c # <<"load", last>>
      OBVIOUS
    <3>2. c # <<last>>
      BY Seconds, Zenon
    <3> QED BY <3>1, <3>2
  <2>1. c \in {<<"ensure", "configure", "setup", last>>,
               <<"ensure", "configure", "teardown", last>>,
               <<"configure", "setup", last>>, <<"configure", "teardown", last>>,
               <<"setup", last>>, <<"egress", last>>,
               <<"teardown", last>>, <<"teardown", "rmlink", last>>, <<"rmlink", last>>}
    BY <1>2, <2>0 DEF ReconcilingBefore
  <2>2. CASE c = <<"ensure", "configure", "setup", last>>
    BY <2>2 DEF Follows, Removing
  <2>3. CASE c = <<"ensure", "configure", "teardown", last>>
    BY <2>3 DEF Follows, Removing
  <2>4. CASE c = <<"configure", "setup", last>>
    BY <2>4 DEF Follows, Removing
  <2>5. CASE c = <<"configure", "teardown", last>>
    BY <2>5 DEF Follows, Removing
  <2>6. CASE c \in {<<"setup", last>>, <<"egress", last>>, <<"rmlink", last>>}
    BY <2>6 DEF Follows, Removing
  <2>7. CASE c = <<"teardown", last>>
    BY <2>7 DEF Follows, Removing
  <2>8. CASE c = <<"teardown", "rmlink", last>>
    BY <2>8 DEF Follows, Removing
  <2> QED BY <2>1, <2>2, <2>3, <2>4, <2>5, <2>6, <2>7, <2>8
<1>3. CASE op \in {"sync", "boot"}
  BY <1>1, <1>3 DEF Place
<1>4. CASE op = "create"
  <2>1. CASE c = <<"insertIface", "load">>
    BY <2>1 DEF Follows, Removing
  <2> QED BY <1>1, <1>4, <2>1 DEF Place
<1>5. CASE op = "update"
  <2>1. CASE c = <<"teardown", "saveIface", "load">>
    BY <2>1 DEF Follows, Removing
  <2>2. c # <<"saveIface", "load">>
    BY Short
  <2> QED BY <1>2, <1>5, <2>1, <2>2 DEF Place
<1>6. CASE op = "restore"
  <2>1. CASE c = <<"restoreIface", "restorePeers", "load", "reapply">>
    BY <2>1 DEF Follows, Removing
  <2>2. CASE c = <<"restorePeers", "load", "reapply">>
    BY <2>2 DEF Follows, Removing
  <2> QED BY <1>2, <1>6, <2>1, <2>2 DEF Place
<1>7. CASE op = "delete"
  <2>1. CASE c = <<"unapply", "teardown", "unlink", "trashPeers", "trashIface">>
    BY <2>1 DEF Follows, Removing
  <2>2. CASE c = <<"teardown", "unlink", "trashPeers", "trashIface">>
    BY <2>2 DEF Follows, Removing
  <2>3. CASE c \in {<<"unlink", "trashPeers", "trashIface">>, <<"trashPeers", "trashIface">>}
    BY <2>3 DEF Follows, Removing
  <2>4. c # <<"trashIface">>
    BY Short
  <2> QED BY <1>7, <2>1, <2>2, <2>3, <2>4 DEF Place
<1>8. CASE op = "purge"
  <2>1. CASE c = <<"purgePfs", "teardown", "unlink", "purgePeers", "purgeIface">>
    BY <2>1 DEF Follows, Removing
  <2>2. CASE c = <<"teardown", "unlink", "purgePeers", "purgeIface">>
    BY <2>2 DEF Follows, Removing
  <2>3. CASE c \in {<<"unlink", "purgePeers", "purgeIface">>, <<"purgePeers", "purgeIface">>}
    BY <2>3 DEF Follows, Removing
  <2>4. c # <<"purgeIface">>
    BY Short
  <2> QED BY <1>8, <2>1, <2>2, <2>3, <2>4 DEF Place
<1> QED BY <1>3, <1>4, <1>5, <1>6, <1>7, <1>8 DEF Place, PeerOps, PfOps


-----------------------------------------------------------------------------
(* What a call can reach *)

\* A call ends with a verdict: the job goes on with it, or the request is answered.
Ends(w, v) ==
    \/ jobs'[w] # NoJob /\ NextJob(jobs'[w], jobs[w]) /\ jobs'[w].verdict = v /\ owed' = owed
    \/ jobs'[w] = NoJob /\ Answer(w, v)

\* A job keeps its verdict under that name whatever else of it is updated.
LEMMA Ended ==
    ASSUME TInv, NEW w \in Workers, Call(w), NEW x, "verdict" \in DOMAIN x, NEW v,
           GoOn(w, x, v) \/ Stop(w, v)
    PROVE  Ends(w, v)
<1>1. Moves(w) /\ jobs[w] # NoJob /\ jobs \in [Workers -> Job \union {NoJob}]
  BY CallMoves DEF Busy, TInv, JobsFit
<1>2. CASE Answer(w, v)
  BY <1>1, <1>2, Answered DEF Ends
<1>3. CASE ~Answer(w, v)
  <2> DEFINE y == [x EXCEPT !.calls = Tail(@), !.verdict = v]
  <2>1. jobs' = [jobs EXCEPT ![w] = y] /\ owed' = owed
    BY <1>3 DEF GoOn, Stop
  <2>2. y.verdict = v /\ "verdict" \in DOMAIN y
    OBVIOUS
  <2>3. y # NoJob
    <3>1. DOMAIN <<>> = {}
      OBVIOUS
    <3> HIDE DEF y
    <3> QED BY <2>2, <3>1 DEF NoJob
  <2> HIDE DEF y
  <2>4. jobs'[w] = y
    BY <1>1, <2>1
  <2> QED BY <1>1, <2>1, <2>2, <2>3, <2>4 DEF Ends, Moves
<1> QED BY <1>2, <1>3

\* What a call can reach: the row and the device of its interface, the peers housed
\* there, or the one peer it is about, and the debts on the name of its interface.
Within(j, home) ==
    /\ \A i \in Ifaces : i # j.i \/ j.op \in PeerOps \union PfOps => ifaces'[i] = ifaces[i]
    /\ \A p \in Peers : j.op \in PfOps \/ home[p] # j.i \/ (j.op \in PeerOps /\ p # j.p) =>
                          peers'[p] = peers[p]
    /\ \A m \in Names : j.op \in PfOps \/ m # NameOf[j.i] => dev'[m] = dev[m]
    /\ todo' = todo

\* Calls on rows of interfaces, and of their peers along with them.
LEMMA IfacesWithin ==
    ASSUME TInv, NEW home, InOrder(home), NEW w \in Workers, w \in Busy, NEW F,
           \/ InsertIface(w, F)   \/ SaveIface(w, F)     \/ TrashIface(w, F)
           \/ RestoreIface(w, F)  \/ PurgeIface(w, F)    \/ MovePeers(w, F)
           \/ StoreEgress(w, F)
    PROVE  Within(jobs[w], home)
<1> DEFINE j == jobs[w]
<1>1. /\ j \in Job /\ Fits(j) /\ Place(j.op, j.calls) /\ Housed(j, home) /\ RowsHomed(home)
      /\ ifaces \in [Ifaces -> Iface] /\ peers \in [Peers -> Peer]
  BY DEF TInv, JobsFit, Fits, InOrder, TypeOK
<1>2. Head(j.calls) \in {"insertIface", "saveIface", "trashIface", "restoreIface",
                         "purgeIface", "trashPeers", "restorePeers", "purgePeers", "egress"}
  BY DEF InsertIface, SaveIface, TrashIface, RestoreIface, PurgeIface, MovePeers, StoreEgress,
         At
<1>3. j.op \notin PeerOps \union PfOps /\ j.i \in Ifaces
  BY <1>1, <1>2, Heads, JobParts DEF PeerOps, PfOps, Applies
<1>4. dev' = dev /\ todo' = todo
  BY DEF InsertIface, SaveIface, TrashIface, RestoreIface, PurgeIface, MovePeers, StoreEgress,
         HostUntouched, Aside, boot
<1>5. \A i \in Ifaces : i # j.i => ifaces'[i] = ifaces[i]
  <2>1. ifaces' = ifaces \/ \E row : ifaces' = [ifaces EXCEPT ![j.i] = row]
    BY DEF InsertIface, SaveIface, TrashIface, RestoreIface, PurgeIface, MovePeers,
           StoreEgress
  <2> HIDE DEF j
  <2> QED BY <1>1, <2>1
<1>6. ASSUME NEW p \in Peers, home[p] # j.i PROVE peers'[p] = peers[p]
  <2>1. p \notin DOMAIN j.kids /\ ~(InTable(peers[p]) /\ peers[p].iface = j.i)
    BY <1>1, <1>6 DEF Housed, RowsHomed
  <2>2. CASE peers' = peers
    BY <2>2
  <2>3. CASE peers' = WithKids(j.kids)
    BY <2>1, <2>3 DEF WithKids, Gone
  <2>4. CASE MovePeers(w, F) \/ PurgeIface(w, F)
    BY <1>1, <2>1, <2>4 DEF MovePeers, PurgeIface
  <2> QED BY <2>2, <2>3, <2>4
          DEF InsertIface, SaveIface, TrashIface, RestoreIface, StoreEgress
<1> QED BY <1>3, <1>4, <1>5, <1>6 DEF Within

\* Calls on a peer's row, on devices, and on none of these.
LEMMA OthersWithin ==
    ASSUME TInv, NEW home, InOrder(home), NEW w \in Workers, w \in Busy, NEW F,
           \/ Load(w, F)          \/ Ensure(w, F)        \/ Configure(w, F)
           \/ RemoveDevice(w, F)  \/ Teardown(w, F)      \/ Setup(w, F)
           \/ PeerStatement(w, F) \/ Parent(w, F)        \/ SyncOne(w, F)
           \/ Cascade(w, F)       \/ PfStatement(w, F)   \/ PfRulesCall(w, F)
    PROVE  Within(jobs[w], home)
<1> DEFINE j == jobs[w]
<1>1. /\ j \in Job /\ Fits(j) /\ Place(j.op, j.calls) /\ Housed(j, home) /\ RowsHomed(home)
      /\ ifaces \in [Ifaces -> Iface] /\ peers \in [Peers -> Peer]
      /\ dev \in [Names -> Device]
  BY DEF TInv, JobsFit, Fits, InOrder, TypeOK
<1>2. NameOf[j.i] \in Names
  BY <1>1, JobParts
<1>3. ifaces' = ifaces /\ todo' = todo
  BY DEF Load, Ensure, Configure, RemoveDevice, Teardown, Setup, PeerStatement, Parent,
         SyncOne, Cascade, PfStatement, PfRulesCall, RowsUntouched, Aside, boot
<1>4. CASE UNCHANGED <<peers, dev>>
  BY <1>3, <1>4 DEF Within
<1>5. CASE Ensure(w, F) \/ Configure(w, F) \/ RemoveDevice(w, F) \/ SyncOne(w, F)
  <2>1. Head(j.calls) \in {"ensure", "configure", "rmlink", "unlink", "peer"}
    BY <1>5 DEF Ensure, Configure, RemoveDevice, SyncOne, At
  <2>2. j.op \notin PfOps
    BY <1>1, <2>1, Heads DEF PeerOps, PfOps, Applies
  <2>3. dev' = dev \/ \E d : dev' = [dev EXCEPT ![NameOf[j.i]] = d]
    BY <1>5 DEF Ensure, Configure, RemoveDevice, SyncOne, SetDev
  <2>4. peers' = peers
    BY <1>5 DEF Ensure, Configure, RemoveDevice, SyncOne, RowsUntouched
  <2> HIDE DEF j
  <2>5. \A m \in Names : m # NameOf[j.i] => dev'[m] = dev[m]
    BY <1>1, <2>3
  <2> QED BY <1>3, <2>2, <2>4, <2>5 DEF Within, j
<1>6. CASE PeerStatement(w, F)
  <2>1. Head(j.calls) \in {"insertPeer", "savePeer", "trashPeer", "restorePeer", "purgePeer"}
    BY <1>6 DEF PeerStatement, At
  <2>2. j.op \in PeerOps /\ j.op \notin PfOps
    BY <1>1, <2>1, Heads DEF PeerOps, PfOps
  <2>3. home[j.p] = j.i /\ j.p \in Peers
    BY <1>1, <2>2 DEF Housed, Fits, Carries
  <2>4. peers' = peers \/ \E row : peers' = [peers EXCEPT ![j.p] = row]
    BY <1>6 DEF PeerStatement, WritePeer
  <2>5. dev' = dev
    BY <1>6 DEF PeerStatement, HostUntouched
  <2> HIDE DEF j
  <2>6. \A p \in Peers : p # j.p => peers'[p] = peers[p]
    BY <1>1, <2>4
  <2> QED BY <1>3, <2>2, <2>3, <2>5, <2>6 DEF Within, j
<1> QED BY <1>4, <1>5, <1>6
        DEF Load, Teardown, Setup, Parent, Cascade, PfStatement, PfRulesCall,
            RowsUntouched, HostUntouched

\* What is reported concerns the name of the job's interface.
Elsewhere(w) == \A m \in Names : m # NameOf[jobs[w].i] => (m \in owed' <=> m \in owed)

\* An answer does, and going on reports nothing.
LEMMA ReportsOwn ==
    \A w, x, v : GoOn(w, x, v) \/ Stop(w, v) => Elsewhere(w)
<1> SUFFICES ASSUME NEW w, NEW x, NEW v, GoOn(w, x, v) \/ Stop(w, v) PROVE Elsewhere(w)
  OBVIOUS
<1>1. Answer(w, v) \/ owed' = owed
  BY DEF GoOn, Stop
<1> QED BY <1>1 DEF Answer, Owed, Elsewhere

\* Every call.
LEMMA CallsWithin ==
    ASSUME TInv, NEW home, InOrder(home), NEW w \in Workers, Call(w)
    PROVE  Within(jobs[w], home) /\ Elsewhere(w)
<1>1. PICK F \in FaultSets :
      \/ InsertIface(w, F)   \/ SaveIface(w, F)     \/ TrashIface(w, F)
      \/ RestoreIface(w, F)  \/ PurgeIface(w, F)    \/ MovePeers(w, F)
      \/ Load(w, F)          \/ Ensure(w, F)        \/ Configure(w, F)
      \/ RemoveDevice(w, F)  \/ Teardown(w, F)      \/ Setup(w, F)
      \/ StoreEgress(w, F)   \/ PeerStatement(w, F) \/ Parent(w, F)
      \/ SyncOne(w, F)       \/ Cascade(w, F)       \/ PfStatement(w, F)
      \/ PfRulesCall(w, F)
  BY DEF Call
<1>2. w \in Busy
  BY CallMoves
<1>3. Within(jobs[w], home)
  BY <1>1, <1>2, IfacesWithin, OthersWithin
<1>4. ASSUME \/ InsertIface(w, F)   \/ SaveIface(w, F)     \/ TrashIface(w, F)
             \/ RestoreIface(w, F)  \/ PurgeIface(w, F)    \/ MovePeers(w, F)
             \/ StoreEgress(w, F)
      PROVE  Elsewhere(w)
  BY <1>4, ReportsOwn
     DEF InsertIface, SaveIface, TrashIface, RestoreIface, PurgeIface, MovePeers, StoreEgress
<1>5. ASSUME \/ Load(w, F)     \/ Ensure(w, F)   \/ Configure(w, F) \/ RemoveDevice(w, F)
             \/ Teardown(w, F) \/ Setup(w, F)    \/ Parent(w, F)    \/ SyncOne(w, F)
      PROVE  Elsewhere(w)
  BY <1>5, ReportsOwn
     DEF Load, Ensure, Configure, RemoveDevice, Teardown, Setup, Parent, SyncOne
<1>6. ASSUME PeerStatement(w, F) \/ Cascade(w, F) \/ PfStatement(w, F) \/ PfRulesCall(w, F)
      PROVE  Elsewhere(w)
  BY <1>6, ReportsOwn
     DEF PeerStatement, WritePeer, Cascade, PfStatement, PfRulesCall
<1> QED BY <1>1, <1>3, <1>4, <1>5, <1>6

\* A device is in sync when no peer is set aside.
LEMMA ServesAll == \A n : InSync(n) <=> ServesBut(n, {})
  BY DEF InSync, ServesBut

\* What a call leaves alone: the interfaces it is not about, with their peers.
LEMMA IfacesElsewhere ==
    ASSUME TInv, NEW home, RowsHomed(home), RowsHomed(home)', NEW j, Within(j, home),
           NEW i \in Ifaces, i # j.i \/ j.op \in PfOps
    PROVE  /\ ifaces'[i] = ifaces[i] /\ Served(peers, i)' = Served(peers, i)
           /\ Kids(i)' = Kids(i) /\ (i \in Wanted' <=> i \in Wanted)
           /\ (Active(i)' <=> Active(i))
<1>1. ifaces'[i] = ifaces[i]
  BY DEF Within
<1>2. \A p \in Peers : \/ peers'[p] = peers[p]
                       \/ /\ InTable(peers[p]) => peers[p].iface # i
                          /\ InTable(peers'[p]) => peers'[p].iface # i
  BY DEF Within, RowsHomed
<1>3. Served(peers, i)' = Served(peers, i)
  BY <1>2 DEF Served, InTable
<1>4. Kids(i)' = Kids(i)
  <2>1. {q \in Peers : peers[q].st = "active" /\ peers[q].iface = i}'
          = {q \in Peers : peers[q].st = "active" /\ peers[q].iface = i}
    BY <1>2 DEF InTable
  <2>2. \A q \in {q \in Peers : peers[q].st = "active" /\ peers[q].iface = i} :
          peers'[q] = peers[q]
    BY <1>2 DEF InTable
  <2> QED BY <2>1, <2>2 DEF Kids
<1> QED BY <1>1, <1>3, <1>4 DEF Wanted, Active

\* A name the call is not about keeps what its device serves and lacks.
LEMMA NamesElsewhere ==
    ASSUME TInv, NEW home, RowsHomed(home), RowsHomed(home)', NEW j, Within(j, home),
           NEW m \in Names, m # NameOf[j.i] \/ j.op \in PfOps
    PROVE  /\ \A S : ServesBut(m, S) => ServesBut(m, S)'
           /\ InSync(m) => InSync(m)'
           /\ Listed(m)' <=> Listed(m)
<1>1. \A i \in Ifaces : NameOf[i] = m =>
        /\ ifaces'[i] = ifaces[i] /\ Served(peers, i)' = Served(peers, i)
        /\ i \in Wanted' <=> i \in Wanted
  BY IfacesElsewhere
<1>2. dev'[m] = dev[m] /\ todo' = todo /\ todo \subseteq Ifaces
  BY DEF Within, TInv, TypeOK
<1>3. Wanted \subseteq Ifaces /\ Wanted' \subseteq Ifaces
  BY DEF Wanted
<1>4. ASSUME NEW S, ServesBut(m, S) PROVE ServesBut(m, S)'
  BY <1>1, <1>2, <1>3, <1>4 DEF ServesBut
<1>5. InSync(m) => InSync(m)'
  BY <1>1, <1>2, <1>3 DEF InSync
<1>6. Listed(m)' <=> Listed(m)
  BY <1>1, <1>2, <1>3 DEF Listed
<1> QED BY <1>4, <1>5, <1>6

\* The jobs on a name the call is not about.
LEMMA SteadyElsewhere ==
    ASSUME TInv, TInv', NEW home, RowsHomed(home), RowsHomed(home)',
           NEW w \in Workers, Call(w), Within(jobs[w], home), Elsewhere(w),
           NEW m \in Names, m # NameOf[jobs[w].i], Steady(m)
    PROVE  Steady(m)'
<1>1. Moves(w) /\ w \in Busy /\ OnlyMoves(w)
  BY CallMoves, CallTyped
<1>2. /\ On(m)' = On(m) /\ \A v \in On(m) : jobs'[v] = jobs[v]
  <2>1. w \notin On(m) /\ w \notin On(m)'
    BY <1>1 DEF On, Moves, NextJob, Busy
  <2>2. \A v \in Workers \ {w} : jobs'[v] = jobs[v]
    BY <1>1 DEF OnlyMoves
  <2> QED BY <2>1, <2>2 DEF On, Busy
<1>3. Late(m)' = Late(m)
  BY <1>2 DEF Late
<1>4. (m \in owed' <=> m \in owed) /\ (Listed(m)' <=> Listed(m))
  BY NamesElsewhere DEF Elsewhere
<1>5. \A S : ServesBut(m, S) => ServesBut(m, S)'
  BY NamesElsewhere
<1> SUFFICES ASSUME m \notin owed', ~Listed(m)',
                    \A v \in On(m)' : /\ jobs'[v].solo
                                      /\ jobs'[v].op \in PeerOps \/ jobs'[v].verdict = "none"
             PROVE  ServesBut(m, Late(m))'
  BY DEF Steady
<1>6. ServesBut(m, Late(m))
  BY <1>2, <1>4 DEF Steady
<1>7. PICK S : S = Late(m)
  OBVIOUS
<1>8. ServesBut(m, S)'
  BY <1>5, <1>6, <1>7
<1> QED BY <1>3, <1>7, <1>8 DEF ServesBut

\* Of two jobs on one name that are not in each other's way, both are about peers, and
\* not about the same.
LEMMA SideBySide ==
    ASSUME NEW a, NEW b, a.op \notin PfOps, b.op \notin PfOps, NameOf[a.i] = NameOf[b.i],
           ~Conflict(a, b)
    PROVE  a.op \in PeerOps /\ b.op \in PeerOps /\ a.p # b.p
  BY DEF Conflict

\* What the other handlers rely on stays as it is.
LEMMA OthersFirm ==
    ASSUME TInv, NEW home, InOrder(home), RowsHomed(home)',
           NEW w \in Workers, Call(w), Within(jobs[w], home),
           NEW v \in Busy \ {w}, Firm(jobs[v])
    PROVE  Firm(jobs[v])'
<1> DEFINE j == jobs[w]
<1>1. /\ w \in Busy /\ jobs'[v] = jobs[v] /\ v \in Workers /\ RowsHomed(home)
  BY CallMoves, CallTyped DEF OnlyMoves, Busy, InOrder
<1>2. PICK x : x = jobs[v]
  OBVIOUS
<1>3. /\ Fits(x) /\ x \in Job /\ Housed(x, home) /\ Abreast(x, j)
      /\ x.i \in Ifaces /\ NameOf[x.i] \in Names /\ (x.op \in PeerOps => x.p \in Peers)
  <2>1. Fits(x) /\ x \in Job /\ Housed(x, home) /\ Abreast(x, j)
    BY <1>1, <1>2 DEF TInv, JobsFit, InOrder, Fits
  <2> QED BY <2>1, JobParts DEF Fits, Carries
<1>4. CASE x.op \in PfOps \/ ~x.solo
  BY <1>1, <1>2, <1>4 DEF Firm
<1>5. ASSUME x.op \notin PfOps, x.solo, NameOf[x.i] # NameOf[j.i] \/ j.op \in PfOps
      PROVE  Firm(jobs[v])'
  <2>1. x.i # j.i \/ j.op \in PfOps
    BY <1>5
  <2>2. /\ ifaces'[x.i] = ifaces[x.i] /\ Kids(x.i)' = Kids(x.i)
        /\ Active(x.i)' <=> Active(x.i)
    BY <1>1, <1>3, <2>1, IfacesElsewhere
  <2>3. /\ InSync(NameOf[x.i]) => InSync(NameOf[x.i])'
        /\ dev'[NameOf[x.i]] = dev[NameOf[x.i]]
    BY <1>1, <1>3, <1>5, NamesElsewhere DEF Within
  <2>4. x.op \in PeerOps => peers'[x.p] = peers[x.p]
    BY <1>3, <2>1 DEF Housed, Within
  <2>5. x.op \in PeerOps => PeerFirm(x)'
    BY <1>1, <1>2, <1>5, <2>2, <2>4 DEF Firm, PeerFirm, Pending
  <2>6. x.op \notin PeerOps => IfaceFirm(x)'
    BY <1>1, <1>2, <1>5, <2>2, <2>3 DEF Firm, IfaceFirm
  <2>7. x.op \in PeerOps => PeerFirm(jobs[v])'
    BY <1>1, <1>2, <2>5, PeerFirmThere
  <2>8. x.op \notin PeerOps => IfaceFirm(jobs[v])'
    BY <1>1, <1>2, <2>6, IfaceFirmThere
  <2> QED BY <1>1, <1>2, <2>7, <2>8 DEF Firm
<1>6. ASSUME x.op \notin PfOps, x.solo, NameOf[x.i] = NameOf[j.i], j.op \notin PfOps
      PROVE  Firm(jobs[v])'
  <2>1. x.op \in PeerOps /\ j.op \in PeerOps /\ x.p # j.p
    BY <1>3, <1>6, SideBySide DEF Abreast
  <2>2. ifaces'[x.i] = ifaces[x.i] /\ peers'[x.p] = peers[x.p]
    BY <1>3, <2>1 DEF Within
  <2>3. PeerFirm(x)'
    BY <1>1, <1>2, <1>6, <2>1, <2>2 DEF Firm, PeerFirm, Pending, Active
  <2>4. PeerFirm(jobs[v])'
    BY <1>1, <1>2, <2>3 DEF PeerFirm, Pending, Active
  <2> QED BY <1>1, <1>2, <2>1, <2>4 DEF Firm
<1> QED BY <1>4, <1>5, <1>6

\* Of the calls on interfaces, those that bring a row in have looked at the names.
LEMMA NamesKept ==
    ASSUME TInv, UniqueNames, NEW home, InOrder(home), NEW w \in Workers, Call(w)
    PROVE  UniqueNames'
<1> DEFINE j == jobs[w]
<1>1. PICK F \in FaultSets :
        \/ InsertIface(w, F)   \/ SaveIface(w, F)     \/ TrashIface(w, F)
        \/ RestoreIface(w, F)  \/ PurgeIface(w, F)    \/ MovePeers(w, F)
        \/ Load(w, F)          \/ Ensure(w, F)        \/ Configure(w, F)
        \/ RemoveDevice(w, F)  \/ Teardown(w, F)      \/ Setup(w, F)
        \/ StoreEgress(w, F)   \/ PeerStatement(w, F) \/ Parent(w, F)
        \/ SyncOne(w, F)       \/ Cascade(w, F)       \/ PfStatement(w, F)
        \/ PfRulesCall(w, F)
  BY DEF Call
<1>2. w \in Busy /\ j \in Job /\ j.i \in Ifaces /\ ifaces \in [Ifaces -> Iface]
  BY CallMoves, JobParts DEF TInv, JobsFit, Fits, TypeOK
<1>3. \A i \in Ifaces : IfaceBecomes(j, i)
  BY <1>2, RowsMove DEF InOrder, Grounded
<1>4. \A i \in Ifaces : i # j.i => (InTable(ifaces'[i]) <=> InTable(ifaces[i]))
  BY <1>3 DEF IfaceBecomes, InTable
<1>5. CASE NameFits(j.i)
  BY <1>2, <1>4, <1>5 DEF UniqueNames, NameFits
<1>6. CASE InTable(ifaces'[j.i]) => InTable(ifaces[j.i])
  BY <1>2, <1>4, <1>6 DEF UniqueNames
<1>7. CASE ifaces' = ifaces
  BY <1>6, <1>7
<1>8. CASE InsertIface(w, F) \/ SaveIface(w, F)
  BY <1>5, <1>7, <1>8 DEF InsertIface, SaveIface
<1>9. CASE TrashIface(w, F) \/ RestoreIface(w, F) \/ PurgeIface(w, F) \/ StoreEgress(w, F)
  <2>1. CASE TrashIface(w, F)
    BY <1>2, <1>6, <1>7, <2>1 DEF TrashIface, Active, InTable
  <2>2. CASE RestoreIface(w, F)
    BY <1>2, <1>6, <1>7, <2>2 DEF RestoreIface, InTable
  <2>3. CASE PurgeIface(w, F)
    BY <1>2, <1>6, <1>7, <2>3 DEF PurgeIface, BlankIface, InTable
  <2>4. CASE StoreEgress(w, F)
    <3>1. EgressStored(j.i, j.row).st = ifaces[j.i].st
      BY <1>2 DEF EgressStored, Iface
    <3> QED BY <1>2, <1>6, <1>7, <2>4, <3>1 DEF StoreEgress, InTable
  <2> QED BY <1>9, <2>1, <2>2, <2>3, <2>4
<1> HIDE DEF j
<1> QED BY <1>1, <1>7, <1>8, <1>9
        DEF MovePeers, Load, Ensure, Configure, RemoveDevice, Teardown, Setup, PeerStatement,
            Parent, SyncOne, Cascade, PfStatement, PfRulesCall, RowsUntouched

\* A call of a handler of forwards reports nothing on a device, and moves none.
LEMMA ForwardsAside ==
    ASSUME TInv, NEW w \in Workers, Call(w), jobs[w].op \in PfOps
    PROVE  Ends(w, "none")
<1> DEFINE j == jobs[w]
<1>1. PICK F \in FaultSets :
        \/ InsertIface(w, F)   \/ SaveIface(w, F)     \/ TrashIface(w, F)
        \/ RestoreIface(w, F)  \/ PurgeIface(w, F)    \/ MovePeers(w, F)
        \/ Load(w, F)          \/ Ensure(w, F)        \/ Configure(w, F)
        \/ RemoveDevice(w, F)  \/ Teardown(w, F)      \/ Setup(w, F)
        \/ StoreEgress(w, F)   \/ PeerStatement(w, F) \/ Parent(w, F)
        \/ SyncOne(w, F)       \/ Cascade(w, F)       \/ PfStatement(w, F)
        \/ PfRulesCall(w, F)
  BY DEF Call
<1>2. w \in Busy /\ j \in Job /\ Place(j.op, j.calls) /\ j # NoJob
  BY CallMoves DEF TInv, JobsFit, Fits, Busy
<1>3. Head(j.calls) \in {"insertPf", "savePf", "deletePf", "removePf", "applyPf", "reapplyAll"}
  <2>1. Head(j.calls) \notin {"insertIface", "saveIface", "trashIface", "restoreIface",
                              "purgeIface", "trashPeers", "restorePeers", "purgePeers", "load",
                              "ensure", "configure", "rmlink", "unlink", "teardown", "setup",
                              "egress", "insertPeer", "savePeer", "trashPeer", "restorePeer",
                              "purgePeer", "parent", "peer", "reapply", "unapply", "purgePfs"}
    BY <1>2, Heads DEF PfOps, PeerOps, Applies
  <2> QED BY <1>1, <2>1
          DEF InsertIface, SaveIface, TrashIface, RestoreIface, PurgeIface, MovePeers, Load,
              Ensure, Configure, RemoveDevice, Teardown, Setup, StoreEgress, PeerStatement,
              Parent, SyncOne, Cascade, PfStatement, PfRulesCall, At
<1>4. \E x : "verdict" \in DOMAIN x /\ (GoOn(w, x, "none") \/ Stop(w, "none"))
  <2>1. "verdict" \in DOMAIN j /\ \A row : "verdict" \in DOMAIN [j EXCEPT !.new = row]
    BY <1>2 DEF Job
  <2>2. CASE Cascade(w, F)
    <3>1. j.op = "bootPfs"
      BY <1>2, <1>3, <2>2, Heads DEF Cascade, At
    <3> QED BY <2>1, <2>2, <3>1 DEF Cascade
  <2>3. CASE PfStatement(w, F)
    BY <2>1, <2>3 DEF PfStatement
  <2>4. CASE PfRulesCall(w, F)
    BY <2>1, <2>4 DEF PfRulesCall
  <2> QED BY <1>1, <1>3, <2>2, <2>3, <2>4
          DEF InsertIface, SaveIface, TrashIface, RestoreIface, PurgeIface, MovePeers, Load,
              Ensure, Configure, RemoveDevice, Teardown, Setup, StoreEgress, PeerStatement,
              Parent, SyncOne, At
<1> QED BY <1>4, Ended

\* So what is known of the devices stays.
LEMMA ForwardsSteady ==
    ASSUME TInv, TInv', NEW home, RowsHomed(home), RowsHomed(home)',
           NEW w \in Workers, Call(w), Within(jobs[w], home), jobs[w].op \in PfOps,
           NEW m \in Names, Steady(m)
    PROVE  Steady(m)' /\ (jobs'[w] # NoJob => Firm(jobs[w])')
<1>1. Moves(w) /\ w \in Busy /\ OnlyMoves(w) /\ Ends(w, "none")
  BY CallMoves, CallTyped, ForwardsAside
<1>2. /\ On(m)' = On(m) /\ \A v \in On(m) : jobs'[v] = jobs[v]
  <2>1. w \notin On(m) /\ w \notin On(m)'
    BY <1>1 DEF On, Moves, NextJob, Busy
  <2>2. \A v \in Workers \ {w} : jobs'[v] = jobs[v]
    BY <1>1 DEF OnlyMoves
  <2> QED BY <2>1, <2>2 DEF On, Busy
<1>3. Late(m)' = Late(m)
  BY <1>2 DEF Late
<1>4. (m \in owed => m \in owed') /\ (Listed(m)' <=> Listed(m))
  BY <1>1, NamesElsewhere DEF Ends, Answer
<1>5. \A S : ServesBut(m, S) => ServesBut(m, S)'
  BY NamesElsewhere
<1>6. jobs'[w] # NoJob => Firm(jobs[w])'
  BY <1>1 DEF Ends, NextJob, Answer, Firm
<1> SUFFICES ASSUME m \notin owed', ~Listed(m)',
                    \A v \in On(m)' : /\ jobs'[v].solo
                                      /\ jobs'[v].op \in PeerOps \/ jobs'[v].verdict = "none"
             PROVE  ServesBut(m, Late(m))'
  BY <1>6 DEF Steady
<1>7. ServesBut(m, Late(m))
  BY <1>2, <1>4 DEF Steady
<1>8. PICK S : S = Late(m)
  OBVIOUS
<1>9. ServesBut(m, S)'
  BY <1>5, <1>7, <1>8
<1> QED BY <1>3, <1>8, <1>9 DEF ServesBut

\* Every call ends with a verdict.
LEMMA Ending ==
    ASSUME TInv, NEW w \in Workers, Call(w)
    PROVE  \E v \in Verdicts : Ends(w, v)
<1> DEFINE j == jobs[w]
<1>1. PICK F \in FaultSets :
        \/ InsertIface(w, F)   \/ SaveIface(w, F)     \/ TrashIface(w, F)
        \/ RestoreIface(w, F)  \/ PurgeIface(w, F)    \/ MovePeers(w, F)
        \/ Load(w, F)          \/ Ensure(w, F)        \/ Configure(w, F)
        \/ RemoveDevice(w, F)  \/ Teardown(w, F)      \/ Setup(w, F)
        \/ StoreEgress(w, F)   \/ PeerStatement(w, F) \/ Parent(w, F)
        \/ SyncOne(w, F)       \/ Cascade(w, F)       \/ PfStatement(w, F)
        \/ PfRulesCall(w, F)
  BY DEF Call
<1>2. j \in Job /\ j.verdict \in Verdicts /\ {"none", "owed", "cut", "settled"} = Verdicts
  BY CallMoves, JobParts DEF TInv, JobsFit, Fits, Verdicts
<1>3. /\ "verdict" \in DOMAIN j
      /\ \A c : "verdict" \in DOMAIN [j EXCEPT !.calls = c]
      /\ \A r : "verdict" \in DOMAIN [j EXCEPT !.new = r]
      /\ \A r, c : "verdict" \in DOMAIN [j EXCEPT !.row = r, !.calls = c]
      /\ \A r, s, c : "verdict" \in DOMAIN [j EXCEPT !.row = r, !.kids = s, !.calls = c]
      /\ \A e, c : "verdict" \in DOMAIN [j EXCEPT !.row.egress = e, !.calls = c]
  BY <1>2 DEF Job
<1>4. Pending(j.i) \in Verdicts /\ Owing(j) \in Verdicts
  BY <1>2 DEF Pending, Owing
<1> SUFFICES \E v \in Verdicts : \E x : "verdict" \in DOMAIN x /\ (GoOn(w, x, v) \/ Stop(w, v))
  BY Ended
<1>5. CASE InsertIface(w, F) \/ TrashIface(w, F) \/ RestoreIface(w, F) \/ PurgeIface(w, F)
  BY <1>2, <1>3, <1>5 DEF InsertIface, TrashIface, RestoreIface, PurgeIface
<1>6. CASE SaveIface(w, F) \/ Load(w, F) \/ Parent(w, F)
  BY <1>2, <1>3, <1>4, <1>6 DEF SaveIface, Load, Parent
<1>7. CASE MovePeers(w, F) \/ Ensure(w, F) \/ Configure(w, F) \/ RemoveDevice(w, F)
  BY <1>2, <1>3, <1>7 DEF MovePeers, Ensure, Configure, RemoveDevice
<1>8. CASE Teardown(w, F) \/ Setup(w, F) \/ StoreEgress(w, F) \/ SyncOne(w, F)
  BY <1>2, <1>3, <1>8 DEF Teardown, Setup, StoreEgress, SyncOne
<1>9. CASE PeerStatement(w, F)
  BY <1>2, <1>3, <1>4, <1>9 DEF PeerStatement, WritePeer
<1>10. CASE Cascade(w, F) \/ PfStatement(w, F) \/ PfRulesCall(w, F)
  BY <1>2, <1>3, <1>4, <1>10 DEF Cascade, PfStatement, PfRulesCall
<1> QED BY <1>1, <1>5, <1>6, <1>7, <1>8, <1>9, <1>10

\* A handler that something got in the way of relies on nothing, and leaves its name
\* reported.
LEMMA DisturbedSteady ==
    ASSUME TInv, NEW w \in Workers, Call(w), jobs[w].op \notin PfOps, ~jobs[w].solo
    PROVE  (\A n : n = NameOf[jobs[w].i] => Steady(n)') /\ (jobs'[w] # NoJob => Firm(jobs[w])')
<1>1. PICK v : Ends(w, v)
  BY Ending
<1>4. PICK n : n = NameOf[jobs[w].i]
  OBVIOUS
<1>2. CASE jobs'[w] = NoJob
  <2>1. NameOf[jobs[w].i] \in owed'
    BY <1>1, <1>2 DEF Ends, Answer
  <2>3. Steady(n)'
    BY <1>4, <2>1 DEF Steady
  <2> QED BY <1>2, <1>4, <2>3
<1>3. CASE jobs'[w] # NoJob
  <2>1. /\ jobs'[w].op = jobs[w].op /\ jobs'[w].i = jobs[w].i /\ ~jobs'[w].solo
    BY <1>1, <1>3 DEF Ends, NextJob
  <2>3. w \in On(n)'
    BY <1>3, <1>4, <2>1 DEF On, Busy
  <2>4. Steady(n)'
    BY <2>1, <2>3 DEF Steady
  <2>5. Firm(jobs[w])'
    BY <2>1 DEF Firm
  <2> QED BY <1>4, <2>4, <2>5
<1> QED BY <1>2, <1>3

-----------------------------------------------------------------------------
(* Interface requests *)

\* The link is next to go, or after a teardown.
LEMMA RemovingWhere ==
    ASSUME NEW op, NEW c, Place(op, c), op \notin PeerOps \union PfOps, Removing(c)
    PROVE  Head(c) \in {"teardown", "rmlink"}
<1> SUFFICES ASSUME Len(c) > 1, c[2] = "rmlink" PROVE Head(c) \in {"teardown", "rmlink"}
  BY DEF Removing
<1>1. \A a : c # <<a>>
  BY Seconds, Zenon
<1>2. ASSUME c \in Reconciling PROVE Head(c) = "teardown"
  <2>1. c \in {<<"ensure", "configure", "setup">>, <<"ensure", "configure", "teardown">>,
               <<"configure", "setup">>, <<"configure", "teardown">>,
               <<"teardown", "rmlink">>}
    BY <1>1, <1>2 DEF Reconciling
  <2> QED BY <2>1
<1>3. ASSUME NEW last \in {"reapply", "unapply"}, c \in ReconcilingBefore(last)
      PROVE  Head(c) = "teardown"
  <2>1. c \in {<<"load", last>>, <<"ensure", "configure", "setup", last>>,
               <<"ensure", "configure", "teardown", last>>,
               <<"configure", "setup", last>>, <<"configure", "teardown", last>>,
               <<"setup", last>>, <<"egress", last>>,
               <<"teardown", last>>, <<"teardown", "rmlink", last>>, <<"rmlink", last>>}
    BY <1>1, <1>3 DEF ReconcilingBefore
  <2> QED BY <2>1
<1>4. CASE op \in {"sync", "boot", "create"}
  <2>1. c # <<"insertIface", "load">>
    OBVIOUS
  <2> QED BY <1>2, <1>4, <2>1 DEF Place
<1>5. CASE op \in {"update", "restore"}
  <2>1. c \notin {<<"teardown", "saveIface", "load">>, <<"saveIface", "load">>,
                  <<"restoreIface", "restorePeers", "load", "reapply">>,
                  <<"restorePeers", "load", "reapply">>}
    OBVIOUS
  <2> QED BY <1>3, <1>5, <2>1 DEF Place
<1>6. CASE op \in {"delete", "purge"}
  <2>1. c \notin {<<"unapply", "teardown", "unlink", "trashPeers", "trashIface">>,
                  <<"teardown", "unlink", "trashPeers", "trashIface">>,
                  <<"unlink", "trashPeers", "trashIface">>, <<"trashPeers", "trashIface">>}
    OBVIOUS
  <2>2. c \notin {<<"purgePfs", "teardown", "unlink", "purgePeers", "purgeIface">>,
                  <<"teardown", "unlink", "purgePeers", "purgeIface">>,
                  <<"unlink", "purgePeers", "purgeIface">>, <<"purgePeers", "purgeIface">>}
    OBVIOUS
  <2> QED BY <1>1, <1>6, <2>1, <2>2 DEF Place
<1> QED BY <1>4, <1>5, <1>6 DEF Place, PeerOps, PfOps

\* An interface request after a call.
LEMMA IfaceNext ==
    ASSUME NEW j, NEW k, Fits(j), NextJob(k, j), j.op \notin PeerOps \union PfOps
    PROVE  /\ Head(j.calls) \notin {"load", "saveIface", "setup"} => Follows(j.calls, k.calls)
           /\ Head(j.calls) = "setup" => Head(k.calls) \in {"egress", "reapply", "unapply"}
           /\ Removing(k.calls) => /\ Head(k.calls) \in {"teardown", "rmlink"}
                                   /\ \/ Head(j.calls) = "load"
                                      \/ Head(j.calls) = "teardown" /\ Removing(j.calls)
<1>1. Place(j.op, j.calls) /\ Place(k.op, k.calls) /\ k.op = j.op
  BY DEF NextJob, Fits
<1>2. Removing(k.calls) => Head(k.calls) \in {"teardown", "rmlink"}
  BY <1>1, RemovingWhere
<1>3. Head(j.calls) # "parent"
  BY <1>1, Heads
<1>4. ASSUME k.calls = Tail(j.calls), Head(j.calls) \notin {"load", "saveIface"}
      PROVE  Follows(j.calls, k.calls)
  <2>1. Len(j.calls) \in 1..5 /\ j.calls \in Seq(Calls) /\ k.calls # <<>>
    BY <1>1, Onward, PlaceTyped
  <2>2. Len(j.calls) > 1
    <3>1. k.calls \in Seq(Calls) /\ Len(k.calls) = Len(j.calls) - 1
      BY <1>1, <1>4, <2>1, PlaceTyped, HeadTailProperties
    <3>2. Len(k.calls) # 0
      BY <2>1, <3>1, EmptySeq
    <3> QED BY <2>1, <3>1, <3>2
  <2> QED BY <1>1, <1>4, <2>2, IfaceOrder
<1>5. CASE k.calls = Tail(j.calls) /\ Head(j.calls) \notin {"load", "saveIface"}
  BY <1>2, <1>4, <1>5 DEF Follows
<1>6. CASE ~(k.calls = Tail(j.calls) /\ Head(j.calls) \notin {"load", "saveIface"})
  <2>1. \/ Head(j.calls) = "load"
        \/ Head(j.calls) = "saveIface" /\ Head(k.calls) = "load"
        \/ Head(j.calls) = "setup" /\ Head(k.calls) = "egress"
    BY <1>3, <1>6 DEF NextJob
  <2> QED BY <1>2, <2>1
<1> QED BY <1>5, <1>6

\* Nothing but an interface in the table can be wanted under its name.
LEMMA NobodyElse ==
    ASSUME UniqueNames, NEW i \in Ifaces, InTable(ifaces[i]),
           NEW k \in Wanted, NameOf[k] = NameOf[i]
    PROVE  k = i
  BY DEF UniqueNames, Wanted, Active, InTable

\* Where an interface request has nothing in its way it is alone on its device.
LEMMA AloneOn ==
    ASSUME TInv, NEW home, InOrder(home), NEW w \in Busy, jobs[w].solo,
           jobs[w].op \notin PeerOps \union PfOps
    PROVE  On(NameOf[jobs[w].i]) = {w} /\ Late(NameOf[jobs[w].i]) = {}
<1>1. On(NameOf[jobs[w].i]) = {w}
  <2>1. w \in On(NameOf[jobs[w].i])
    BY DEF On
  <2>2. ASSUME NEW v \in Busy, v # w, jobs[v].op \notin PfOps, NameOf[jobs[v].i] = NameOf[jobs[w].i]
        PROVE  FALSE
    <3>1. Abreast(jobs[w], jobs[v])
      BY <2>2 DEF InOrder
    <3> QED BY <2>2, <3>1, SideBySide DEF Abreast
  <2> QED BY <2>1, <2>2 DEF On
<1> QED BY <1>1 DEF Late

\* What a call of such a request comes to: settled is what is in sync, and an end that
\* leaves nothing to do comes before anything was done.
Lands(w, n, v) ==
    /\ Ends(w, v)
    /\ v = "settled" => InSync(n)'
    /\ v = "none" => jobs'[w] = NoJob /\ jobs[w].verdict = "none" /\ UNCHANGED <<ifaces, peers, dev>>
    /\ jobs'[w] # NoJob => IfaceFirm(jobs[w])'

\* So it leaves the device right, reported, or to its next call.
LEMMA LandsSteady ==
    ASSUME TInv, TInv', NEW home, InOrder(home), NEW w \in Workers, Call(w),
           Within(jobs[w], home), jobs[w].solo, jobs[w].op \notin PeerOps \union PfOps,
           NEW n \in Names, n = NameOf[jobs[w].i], Steady(n),
           NEW v \in Verdicts, Lands(w, n, v)
    PROVE  Steady(n)' /\ (jobs'[w] # NoJob => Firm(jobs[w])')
<1>1. w \in Busy /\ OnlyMoves(w) /\ Ends(w, v)
  BY CallMoves, CallTyped DEF Lands
<1>2. On(n) = {w} /\ Late(n) = {}
  BY <1>1, AloneOn
<1>3. \A u \in On(n)' : u = w
  BY <1>1, <1>2 DEF On, OnlyMoves, Busy
<1>4. PICK k : k = jobs'[w]
  OBVIOUS
<1>5. CASE k # NoJob
  <2>1. /\ k.op = jobs[w].op /\ k.i = jobs[w].i /\ k.solo /\ k.verdict = v /\ v # "none"
    BY <1>1, <1>4, <1>5 DEF Ends, NextJob, Lands
  <2>2. w \in On(n)'
    BY <1>4, <1>5, <2>1 DEF On, Busy
  <2>3. Steady(n)'
    BY <1>4, <2>1, <2>2 DEF Steady
  <2>4. Firm(jobs[w])'
    BY <1>4, <1>5, <2>1 DEF Firm, Lands
  <2> QED BY <2>3, <2>4
<1>6. CASE k = NoJob
  <2>1. Answer(w, v) /\ On(n)' = {}
    <3>1. w \notin Busy'
      BY <1>4, <1>6 DEF Busy
    <3>2. w \notin On(n)'
      BY <3>1 DEF On
    <3> QED BY <1>1, <1>3, <1>4, <1>6, <3>2 DEF Ends
  <2>2. Late(n)' = {}
    BY <2>1 DEF Late
  <2> SUFFICES ASSUME n \notin owed', ~Listed(n)' PROVE ServesBut(n, {})'
    BY <1>4, <1>6, <2>2 DEF Steady
  <2>3. CASE v = "settled"
    BY <2>3, ServesAll DEF Lands, InSync, ServesBut
  <2>4. CASE v = "none"
    <3>1. UNCHANGED <<ifaces, peers, dev, todo>> /\ jobs[w].verdict = "none"
      BY <2>4 DEF Lands, Within
    <3>2. owed' = owed \/ n \notin owed
      BY <2>1, <2>4 DEF Answer, Owed
    <3>3. n \notin owed /\ ~Listed(n)
      BY <2>1, <2>4, <3>1 DEF Answer, Owed, Listed, Wanted, Active
    <3>4. ServesBut(n, {})
      BY <1>2, <3>1, <3>3 DEF Steady
    <3>5. Wanted' = Wanted /\ \A i : Served(peers, i)' = Served(peers, i)
      BY <3>1 DEF Wanted, Active, Served
    <3> QED BY <3>1, <3>4, <3>5 DEF ServesBut
  <2>5. CASE v \in {"owed", "cut"}
    BY <2>1, <2>5 DEF Answer, Owed
  <2>6. v \in Verdicts
    OBVIOUS
  <2> QED BY <2>3, <2>4, <2>5, <2>6 DEF Verdicts
<1> QED BY <1>4, <1>5, <1>6

\* An interface request that ends early has reported it, or has done nothing yet.
LEMMA StopLands ==
    ASSUME TInv, NEW w \in Workers, Call(w), NEW n, NEW v \in {"owed", "none"}, Stop(w, v),
           v = "none" => jobs[w].verdict = "none" /\ UNCHANGED <<ifaces, peers, dev>>
    PROVE  Lands(w, n, v)
<1>1. jobs[w] # NoJob /\ jobs[w] \in Job
  BY CallMoves DEF TInv, JobsFit, Fits, Busy
<1>2. jobs'[w] = NoJob /\ Answer(w, v)
  BY <1>1, Answered DEF Stop
<1> QED BY <1>2 DEF Lands, Ends

\* One that goes on has established what its next call relies on.
LEMMA GoOnLands ==
    ASSUME TInv, NEW w \in Workers, Call(w), NEW n, NEW v \in Verdicts \ {"none"},
           NEW x, "verdict" \in DOMAIN x, GoOn(w, x, v),
           v = "settled" => InSync(n)',
           \A k : NextJob(k, jobs[w]) /\ k.verdict = v => IfaceFirm(k)'
    PROVE  Lands(w, n, v)
<1>1. Ends(w, v)
  BY Ended
<1>2. ASSUME jobs'[w] # NoJob PROVE IfaceFirm(jobs[w])'
  <2>1. PICK k : k = jobs'[w]
    OBVIOUS
  <2>2. NextJob(k, jobs[w]) /\ k.verdict = v
    BY <1>1, <1>2, <2>1 DEF Ends, Answer
  <2>3. IfaceFirm(k)'
    BY <2>2
  <2> QED BY <2>1, <2>3, IfaceFirmThere
<1> QED BY <1>1, <1>2 DEF Lands

\* What is known of an interface request that nothing got in the way of.
LEMMA IfaceAtWork ==
    ASSUME TInv, NEW home, InOrder(home), NEW w \in Workers, Call(w), jobs[w].solo
    PROVE  /\ w \in Busy /\ jobs[w] \in Job /\ Fits(jobs[w]) /\ jobs[w] # NoJob
           /\ Place(jobs[w].op, jobs[w].calls) /\ jobs[w].verdict \in Verdicts
           /\ jobs[w].i \in Ifaces /\ NameOf[jobs[w].i] \in Names
           /\ "verdict" \in DOMAIN jobs[w]
           /\ ifaces \in [Ifaces -> Iface] /\ peers \in [Peers -> Peer]
           /\ dev \in [Names -> Device]
           /\ Undisturbed(jobs[w])
           /\ \A call : At(w, call) <=> Head(jobs[w].calls) = call
<1>1. w \in Busy /\ jobs[w] \in Job /\ Fits(jobs[w]) /\ jobs[w] # NoJob
  BY CallMoves DEF TInv, JobsFit, Fits, Busy
<1>2. "verdict" \in DOMAIN jobs[w]
  BY <1>1 DEF Job
<1> QED BY <1>1, <1>2, JobParts DEF TInv, TypeOK, Fits, InOrder, At

\* Calls on the row of an interface.
LEMMA RowCallsLand ==
    ASSUME TInv, UniqueNames, NEW home, InOrder(home), NEW w \in Workers, Call(w),
           jobs[w].solo, jobs[w].op \notin PeerOps \union PfOps, IfaceFirm(jobs[w]),
           NEW n, n = NameOf[jobs[w].i], NEW F,
           InsertIface(w, F) \/ SaveIface(w, F) \/ RestoreIface(w, F) \/ MovePeers(w, F)
    PROVE  \E v \in Verdicts : Lands(w, n, v)
<1> DEFINE j == jobs[w]
<1>1. /\ j \in Job /\ Fits(j) /\ Place(j.op, j.calls) /\ j.verdict \in Verdicts
      /\ j.i \in Ifaces /\ "verdict" \in DOMAIN j /\ ifaces \in [Ifaces -> Iface]
      /\ \A call : At(w, call) <=> Head(j.calls) = call
  BY IfaceAtWork
<1>2. Verdicts = {"none", "owed", "cut", "settled"}
  BY DEF Verdicts
<1>3. \A k : NextJob(k, j) => k.op = j.op /\ k.i = j.i /\ Head(j.calls) # "parent"
  BY <1>1, Heads DEF NextJob
<1>4. CASE InsertIface(w, F)
  <2>1. Head(j.calls) = "insertIface" /\ j.op = "create" /\ UNCHANGED <<peers, dev>>
    BY <1>1, <1>4, Heads DEF InsertIface, HostUntouched
  <2>2. CASE Stop(w, "none") /\ UNCHANGED ifaces
    <3>1. j.verdict = "none"
      BY <2>1 DEF IfaceFirm
    <3> QED BY <1>2, <2>1, <2>2, <3>1, StopLands
  <2>3. CASE GoOn(w, j, "owed") /\ ifaces' = [ifaces EXCEPT ![j.i] = j.new]
    <3>1. ifaces'[j.i].st = "active"
      BY <1>1, <2>1, <2>3 DEF Fits, Carries
    <3> HIDE DEF j
    <3>2. ASSUME NEW k, NextJob(k, j), k.verdict = "owed" PROVE IfaceFirm(k)'
      <4>1. Head(k.calls) = "load" /\ ~Removing(k.calls) /\ k.op = "create" /\ k.i = j.i
        BY <1>1, <1>3, <2>1, <3>2, IfaceNext DEF Follows, j
      <4>2. Active(k.i)'
        BY <3>1, <4>1 DEF Active
      <4> QED BY <3>2, <4>1, <4>2 DEF IfaceFirm
    <3> QED BY <1>1, <1>2, <2>3, <3>2, GoOnLands DEF j
  <2> QED BY <1>4, <2>2, <2>3 DEF InsertIface
<1>5. CASE SaveIface(w, F)
  <2> DEFINE row == Upsert(j.new, Active(j.i))
             rest == IF row.on THEN "reapply" ELSE "unapply"
             x == [j EXCEPT !.calls = @ \o <<rest>>]
  <2>1. Head(j.calls) = "saveIface" /\ j.op = "update"
    BY <1>1, <1>5, Heads DEF SaveIface
  <2>2. CASE Stop(w, "owed")
    BY <1>2, <2>2, StopLands
  <2>3. CASE GoOn(w, x, "owed") /\ ifaces' = [ifaces EXCEPT ![j.i] = row]
    <3>1. ifaces'[j.i].st = "active"
      <4>1. j.new \in Iface /\ j.new.st = "active"
        BY <1>1, <2>1 DEF Fits, Carries
      <4>2. row.st = "active"
        BY <4>1 DEF Upsert, Iface
      <4> QED BY <1>1, <2>3, <4>2
    <3>2. "verdict" \in DOMAIN x
      BY <1>1
    <3> HIDE DEF j, x, row
    <3>3. ASSUME NEW k, NextJob(k, j), k.verdict = "owed" PROVE IfaceFirm(k)'
      <4>1. Head(k.calls) = "load" /\ ~Removing(k.calls) /\ k.op = "update" /\ k.i = j.i
        BY <1>1, <1>3, <2>1, <3>3, IfaceNext DEF NextJob, j
      <4>2. Active(k.i)'
        BY <3>1, <4>1 DEF Active
      <4> QED BY <3>3, <4>1, <4>2 DEF IfaceFirm
    <3> QED BY <1>2, <2>3, <3>2, <3>3, GoOnLands DEF j
  <2> QED BY <1>5, <2>2, <2>3 DEF SaveIface
<1>6. CASE RestoreIface(w, F)
  <2>1. /\ Head(j.calls) = "restoreIface" /\ j.op = "restore" /\ UNCHANGED <<peers, dev>>
        /\ j.verdict = "none" /\ ifaces[j.i].st = "trashed"
    BY <1>1, <1>6, Heads DEF RestoreIface, HostUntouched, IfaceFirm
  <2>2. CASE Stop(w, "none") /\ UNCHANGED ifaces
    BY <1>2, <2>1, <2>2, StopLands
  <2>3. CASE GoOn(w, j, "owed") /\ ifaces' = [ifaces EXCEPT ![j.i].st = "active"]
    <3>1. ifaces'[j.i].st = "active"
      BY <1>1, <2>3 DEF Iface
    <3> HIDE DEF j
    <3>2. ASSUME NEW k, NextJob(k, j), k.verdict = "owed" PROVE IfaceFirm(k)'
      <4>1. Head(k.calls) = "restorePeers" /\ ~Removing(k.calls) /\ k.op = "restore" /\ k.i = j.i
        BY <1>1, <1>3, <2>1, <3>2, IfaceNext DEF Follows, j
      <4>2. Active(k.i)'
        BY <3>1, <4>1 DEF Active
      <4> QED BY <3>2, <4>1, <4>2 DEF IfaceFirm
    <3> QED BY <1>1, <1>2, <2>3, <3>2, GoOnLands DEF j
  <2> QED BY <1>6, <2>1, <2>2, <2>3 DEF RestoreIface, InTable
<1>7. CASE MovePeers(w, F)
  <2>1. Head(j.calls) \in {"trashPeers", "restorePeers", "purgePeers"} /\ UNCHANGED <<ifaces, dev>>
    BY <1>1, <1>7 DEF MovePeers, HostUntouched
  <2>2. /\ Head(j.calls) = "trashPeers" => j.op = "delete"
        /\ Head(j.calls) = "restorePeers" => j.op = "restore"
        /\ Head(j.calls) = "purgePeers" => j.op = "purge"
    BY <1>1, Heads
  <2>3. j.verdict \in {"owed", "cut"}
    BY <2>1 DEF IfaceFirm
  <2>4. CASE Stop(w, "owed")
    BY <1>2, <2>4, StopLands
  <2>5. CASE GoOn(w, j, j.verdict)
    <3>1. ASSUME NEW k, NextJob(k, j), k.verdict = j.verdict PROVE IfaceFirm(k)'
      <4> HIDE DEF j
      <4>1. k.op = j.op /\ k.i = j.i /\ Follows(j.calls, k.calls) /\ ~Removing(k.calls)
        BY <1>1, <1>3, <2>1, <3>1, IfaceNext DEF j
      <4>2. /\ Head(j.calls) = "restorePeers" => Head(k.calls) = "load"
            /\ Head(j.calls) \in {"trashPeers", "purgePeers"} =>
                 Head(k.calls) \in {"trashIface", "purgeIface"}
        BY <4>1 DEF Follows
      <4>3. IfaceFirm(j) /\ UNCHANGED <<ifaces, dev>>
        BY <2>1 DEF j
      <4>4. Head(j.calls) = "restorePeers" => k.verdict = "owed" /\ ifaces'[k.i].st = "active"
        BY <3>1, <4>1, <4>3 DEF IfaceFirm, Active
      <4>5. k.op \in {"delete", "purge"} =>
              /\ k.op = "delete" => ifaces'[k.i].st = "active"
              /\ k.op = "purge" => InTable(ifaces'[k.i])
              /\ k.verdict = "cut" => ~dev'[NameOf[k.i]].exists
        BY <3>1, <4>1, <4>3 DEF IfaceFirm, Active
      <4> QED BY <2>1, <2>2, <2>3, <3>1, <4>1, <4>2, <4>4, <4>5 DEF IfaceFirm, Active
    <3> QED BY <1>1, <1>2, <2>3, <2>5, <3>1, GoOnLands
  <2> QED BY <1>7, <2>4, <2>5 DEF MovePeers
<1> QED BY <1>4, <1>5, <1>6, <1>7

\* A name whose interface is not to be served, and has no device, is in sync.
LEMMA NobodyWanted ==
    ASSUME UniqueNames, NEW i \in Ifaces, InTable(ifaces[i]), NEW n, n = NameOf[i],
           \A k \in Ifaces \ {i} : ifaces'[k] = ifaces[k],
           ~(ifaces'[i].st = "active" /\ ifaces'[i].on), ~dev'[n].exists
    PROVE  InSync(n)'
<1>1. \A k \in Wanted' : NameOf[k] # n
  BY DEF UniqueNames, Wanted, Active, InTable
<1> QED BY <1>1 DEF InSync

\* Calls that take the row of an interface out.
LEMMA RemovalsLand ==
    ASSUME TInv, UniqueNames, NEW home, InOrder(home), NEW w \in Workers, Call(w),
           jobs[w].solo, jobs[w].op \notin PeerOps \union PfOps, IfaceFirm(jobs[w]),
           NEW n, n = NameOf[jobs[w].i], NEW F,
           TrashIface(w, F) \/ PurgeIface(w, F)
    PROVE  \E v \in Verdicts : Lands(w, n, v)
<1> DEFINE j == jobs[w]
           v == IF j.verdict = "cut" THEN "settled" ELSE "owed"
<1>1. /\ j \in Job /\ Fits(j) /\ Place(j.op, j.calls) /\ j.verdict \in Verdicts
      /\ j.i \in Ifaces /\ "verdict" \in DOMAIN j /\ ifaces \in [Ifaces -> Iface]
      /\ \A call : At(w, call) <=> Head(j.calls) = call
  BY IfaceAtWork
<1>2. v \in Verdicts \ {"none"} /\ "owed" \in Verdicts
  BY DEF Verdicts
<1>3. Head(j.calls) \in {"trashIface", "purgeIface"} /\ dev' = dev
  BY <1>1 DEF TrashIface, PurgeIface, HostUntouched
<1>4. /\ Head(j.calls) = "trashIface" => j.op = "delete"
      /\ Head(j.calls) = "purgeIface" => j.op = "purge"
  BY <1>1, Heads
<1>5. InTable(ifaces[j.i])
  BY <1>3, <1>4 DEF IfaceFirm, Active, InTable
<1>6. CASE Stop(w, "owed")
  BY <1>2, <1>6, StopLands
<1>7. CASE GoOn(w, j, v) /\ \E row : /\ ifaces' = [ifaces EXCEPT ![j.i] = row]
                                     /\ row.st \in {"trashed", "purged"}
  <2>1. PICK row : ifaces' = [ifaces EXCEPT ![j.i] = row] /\ row.st \in {"trashed", "purged"}
    BY <1>7
  <2>2. v = "settled" => InSync(n)'
    <3>1. v = "settled" => ~dev'[n].exists
      BY <1>3 DEF IfaceFirm
    <3>2. PICK i : i = j.i
      OBVIOUS
    <3> HIDE DEF v, j
    <3>3. ifaces'[i].st # "active" /\ \A k \in Ifaces \ {i} : ifaces'[k] = ifaces[k]
      BY <1>1, <2>1, <3>2
    <3>4. i \in Ifaces /\ InTable(ifaces[i]) /\ n = NameOf[i]
      BY <1>1, <1>5, <3>2 DEF j
    <3> QED BY <3>1, <3>3, <3>4, NobodyWanted
  <2>3. ASSUME NEW k, NextJob(k, j) PROVE FALSE
    BY <1>1, <1>3, <2>3, IfaceNext DEF Follows
  <2> HIDE DEF v
  <2> QED BY <1>1, <1>2, <1>7, <2>2, <2>3, GoOnLands
<1>8. CASE TrashIface(w, F)
  <2>1. Active(j.i) /\ j.op = "delete"
    BY <1>1, <1>4, <1>8 DEF TrashIface, IfaceFirm
  <2>2. [ifaces[j.i] EXCEPT !.st = "trashed"].st = "trashed"
    BY <1>1 DEF Iface
  <2> QED BY <1>6, <1>7, <1>8, <2>1, <2>2 DEF TrashIface
<1>9. CASE PurgeIface(w, F)
  <2>1. BlankIface("purged").st = "purged"
    BY DEF BlankIface
  <2> QED BY <1>6, <1>7, <1>9, <2>1 DEF PurgeIface
<1> QED BY <1>8, <1>9

\* Storing the egress changes nothing that the device serves.
LEMMA EgressLands ==
    ASSUME TInv, UniqueNames, NEW home, InOrder(home), NEW w \in Workers, Call(w),
           jobs[w].solo, jobs[w].op \notin PeerOps \union PfOps, IfaceFirm(jobs[w]),
           NEW n, n = NameOf[jobs[w].i], NEW F, StoreEgress(w, F)
    PROVE  \E v \in Verdicts : Lands(w, n, v)
<1> DEFINE j == jobs[w]
<1>1. /\ j \in Job /\ Fits(j) /\ Place(j.op, j.calls) /\ j.verdict \in Verdicts
      /\ j.i \in Ifaces /\ "verdict" \in DOMAIN j /\ ifaces \in [Ifaces -> Iface]
      /\ peers \in [Peers -> Peer] /\ Undisturbed(j)
      /\ \A call : At(w, call) <=> Head(j.calls) = call
  BY IfaceAtWork
<1>2. {"owed", "settled"} \subseteq Verdicts
  BY DEF Verdicts
<1>3. Head(j.calls) = "egress" /\ dev' = dev /\ InSync(n) /\ j.op \in Applies
  BY <1>1, Heads DEF StoreEgress, HostUntouched, IfaceFirm
<1>4. CASE Stop(w, "owed")
  BY <1>2, <1>4, StopLands
<1>5. CASE GoOn(w, j, "settled") /\ peers' = WithKids(j.kids)
           /\ ifaces' = [ifaces EXCEPT ![j.i] = EgressStored(j.i, j.row)]
  <2>1. peers' = peers
    <3>1. Gone(j.kids) = {}
      BY <1>1 DEF Undisturbed, Gone
    <3> QED BY <1>1, <1>5, <3>1 DEF WithKids
  <2>2. \A i \in Ifaces : /\ ifaces'[i].st = ifaces[i].st /\ ifaces'[i].on = ifaces[i].on
                          /\ ifaces'[i].port = ifaces[i].port /\ ifaces'[i].addr = ifaces[i].addr
    <3>1. LET row == EgressStored(j.i, j.row)
          IN  /\ row.st = ifaces[j.i].st /\ row.on = ifaces[j.i].on
              /\ row.port = ifaces[j.i].port /\ row.addr = ifaces[j.i].addr
      BY <1>1 DEF EgressStored, Iface
    <3> HIDE DEF j
    <3> QED BY <1>1, <1>5, <3>1
  <2>3. Wanted' = Wanted
    BY <2>2 DEF Wanted, Active
  <2>4. InSync(n)'
    <3>1. Wanted \subseteq Ifaces
      BY DEF Wanted
    <3>2. \A i \in Ifaces : Served(peers, i)' = Served(peers, i)
      BY <2>1 DEF Served
    <3> HIDE DEF j
    <3> QED BY <1>3, <2>2, <2>3, <3>1, <3>2 DEF InSync
  <2>5. ASSUME NEW k, NextJob(k, j), k.verdict = "settled" PROVE IfaceFirm(k)'
    <3>1. /\ k.op = j.op /\ k.i = j.i /\ Head(k.calls) \in {"reapply", "unapply"}
          /\ ~Removing(k.calls)
      BY <1>1, <1>3, <2>5, IfaceNext DEF Follows, NextJob
    <3>2. NameOf[k.i] = n
      BY <3>1
    <3>3. j.op \notin {"delete", "purge"}
      BY <1>3 DEF Applies
    <3> HIDE DEF j
    <3> QED BY <2>4, <2>5, <3>1, <3>2, <3>3 DEF IfaceFirm
  <2> QED BY <1>1, <1>2, <1>5, <2>4, <2>5, GoOnLands
<1> QED BY <1>4, <1>5 DEF StoreEgress

\* What is in sync stays so while the rows and the device are left alone.
LEMMA SyncKept ==
    ASSUME UNCHANGED <<ifaces, peers>>, NEW n, dev'[n] = dev[n], InSync(n)
    PROVE  InSync(n)'
<1>1. Wanted' = Wanted
  BY DEF Wanted, Active
<1>2. \A i : Served(peers, i)' = Served(peers, i)
  BY DEF Served
<1> QED BY <1>1, <1>2 DEF InSync

\* The calls of reconcile up to the configured device.
LEMMA AppliesLand ==
    ASSUME TInv, UniqueNames, NEW home, InOrder(home), NEW w \in Workers, Call(w),
           jobs[w].solo, jobs[w].op \notin PeerOps \union PfOps, IfaceFirm(jobs[w]),
           NEW n, n = NameOf[jobs[w].i], NEW F,
           Load(w, F) \/ Ensure(w, F) \/ Configure(w, F)
    PROVE  \E v \in Verdicts : Lands(w, n, v)
<1> DEFINE j == jobs[w]
<1>1. /\ j \in Job /\ Fits(j) /\ Place(j.op, j.calls) /\ j.verdict \in Verdicts
      /\ j.i \in Ifaces /\ n \in Names /\ "verdict" \in DOMAIN j /\ ifaces \in [Ifaces -> Iface]
      /\ dev \in [Names -> Device]
      /\ \A call : At(w, call) <=> Head(j.calls) = call
  BY IfaceAtWork
<1>2. {"none", "owed", "settled"} \subseteq Verdicts
  BY DEF Verdicts
<1>3. \A k : NextJob(k, j) => k.op = j.op /\ k.i = j.i /\ Head(j.calls) # "parent"
  BY <1>1, Heads DEF NextJob
<1>4. UNCHANGED <<ifaces, peers>> /\ \A i : Kids(i)' = Kids(i)
  BY DEF Load, Ensure, Configure, RowsUntouched, Kids
<1>5. CASE Load(w, F)
  <2>1. Head(j.calls) = "load" /\ j.op \in Applies /\ dev' = dev
    BY <1>1, <1>5, Heads DEF Load, HostUntouched
  <2>2. CASE Stop(w, Pending(j.i))
    <3>1. Active(j.i) \/ j.verdict = "none"
      BY <2>1 DEF IfaceFirm
    <3> QED BY <1>4, <2>1, <2>2, <1>2, <3>1, StopLands DEF Pending
  <2>3. CASE Active(j.i) /\ ~Stop(w, Pending(j.i))
    <3> DEFINE x == [j EXCEPT !.row = ifaces[j.i], !.kids = Kids(j.i),
                              !.calls = <<"load">> \o Applying(ifaces[j.i]) \o Tail(@)]
    <3>1. GoOn(w, x, "owed")
      BY <1>5, <2>3 DEF Load
    <3>2. "verdict" \in DOMAIN x
      BY <1>1
    <3> HIDE DEF j, x
    <3>3. ASSUME NEW k, NextJob(k, j), k.verdict = "owed" PROVE IfaceFirm(k)'
      <4>1. /\ k.op = j.op /\ k.i = j.i /\ k.row = ifaces[k.i] /\ k.kids = Kids(k.i)'
            /\ Head(k.calls) = IF ifaces[k.i].on THEN "ensure" ELSE "teardown"
        BY <1>3, <1>4, <2>1, <3>3 DEF NextJob
      <4>2. Removing(k.calls) => Head(k.calls) # "ensure" /\ Head(k.calls) # "rmlink"
        BY <1>1, <2>1, <3>3, <4>1, IfaceNext DEF j
      <4>3. k.op \notin {"delete", "purge"}
        BY <2>1, <4>1 DEF Applies
      <4>4. Active(k.i)' /\ ifaces' = ifaces
        BY <1>4, <2>3, <4>1 DEF Active
      <4>5. Removing(k.calls) => ~ifaces'[k.i].on
        BY <1>4, <4>1, <4>2
      <4> QED BY <3>3, <4>1, <4>3, <4>4, <4>5 DEF IfaceFirm
    <3> QED BY <1>2, <3>1, <3>2, <3>3, GoOnLands DEF j
  <2> QED BY <1>5, <2>2, <2>3 DEF Load
<1>6. CASE Ensure(w, F)
  <2>1. Head(j.calls) = "ensure" /\ j.op \in Applies
    BY <1>1, <1>6, Heads DEF Ensure
  <2>2. CASE Stop(w, "owed")
    BY <1>2, <2>2, StopLands
  <2>3. CASE GoOn(w, j, "owed") /\ LinkOK(dev[n], F)
    <3>1. dev'[n].exists /\ j.row.addr \in dev'[n].addrs
      <4>1. dev'[n] = EnsureLink(dev[n], j.row.addr, F) /\ dev[n] \in Device
        BY <1>1, <1>6 DEF Ensure, SetDev, DevOf
      <4> QED BY <2>3, <4>1 DEF EnsureLink, LinkOK, Device
    <3> HIDE DEF j
    <3>3. ASSUME NEW k, NextJob(k, j), k.verdict = "owed" PROVE IfaceFirm(k)'
      <4>1. /\ k.op = j.op /\ k.i = j.i /\ k.row = j.row /\ k.kids = j.kids
            /\ Head(k.calls) = "configure" /\ ~Removing(k.calls)
        BY <1>1, <1>3, <2>1, <3>3, IfaceNext DEF NextJob, Follows, j
      <4>2. /\ ifaces[k.i].st = "active" /\ ifaces[k.i].on /\ k.kids = Kids(k.i)
            /\ k.row.port = ifaces[k.i].port /\ k.row.addr = ifaces[k.i].addr
        BY <2>1, <4>1 DEF IfaceFirm, Active, j
      <4>3. k.op \notin {"delete", "purge"} /\ NameOf[k.i] = n
        BY <2>1, <4>1 DEF Applies, j
      <4> QED BY <1>4, <3>1, <3>3, <4>1, <4>2, <4>3 DEF IfaceFirm, Active
    <3> QED BY <1>1, <1>2, <2>3, <3>3, GoOnLands DEF j
  <2> QED BY <1>6, <2>2, <2>3 DEF Ensure, DevOf
<1>7. CASE Configure(w, F)
  <2>1. Head(j.calls) = "configure" /\ j.op \in Applies
    BY <1>1, <1>7, Heads DEF Configure
  <2>2. CASE Stop(w, "owed")
    BY <1>2, <2>2, StopLands
  <2>3. CASE ~Stop(w, "owed")
    <3> DEFINE v == IF j.row.masq THEN "owed" ELSE "settled"
    <3>1. GoOn(w, j, v) /\ dev' = [dev EXCEPT ![n] = ConfigureDevice(dev[n], <<j.i, j.row.port>>,
                                               {p \in DOMAIN j.kids : j.kids[p].on})]
      BY <1>7, <2>3 DEF Configure, SetDev, DevOf
    <3>2. /\ Active(j.i) /\ ifaces[j.i].on /\ j.kids = Kids(j.i) /\ j.row.port = ifaces[j.i].port
          /\ dev[n].exists /\ ifaces[j.i].addr \in dev[n].addrs
      BY <2>1 DEF IfaceFirm
    <3>3. {p \in DOMAIN j.kids : j.kids[p].on} = Served(peers, j.i)
      BY <3>2 DEF Kids, Served
    <3>4. /\ dev'[n].exists /\ ifaces[j.i].addr \in dev'[n].addrs
          /\ dev'[n].conf = <<j.i, ifaces[j.i].port>> /\ dev'[n].peers = Served(peers, j.i)
      BY <1>1, <3>1, <3>2, <3>3 DEF ConfigureDevice, Device
    <3>5. v \in Verdicts \ {"none"}
      BY <1>2
    <3>6. PICK i : i = j.i
      OBVIOUS
    <3> HIDE DEF j, v
    <3>7. InSync(n)'
      <4>1. i \in Wanted /\ NameOf[i] = n /\ InTable(ifaces[i]) /\ i \in Ifaces
        BY <1>1, <3>2, <3>6 DEF Wanted, Active, InTable, j
      <4>2. \A k \in Wanted : NameOf[k] = n => k = i
        BY <4>1, NobodyElse
      <4>3. Wanted' = Wanted /\ Served(peers, i)' = Served(peers, i)
        BY <1>4 DEF Wanted, Active, Served
      <4> QED BY <1>4, <3>4, <3>6, <4>1, <4>2, <4>3 DEF InSync
    <3>8. ASSUME NEW k, NextJob(k, j), k.verdict = v PROVE IfaceFirm(k)'
      <4>1. /\ k.op = j.op /\ k.i = j.i
            /\ Head(k.calls) \in {"setup", "teardown"} /\ ~Removing(k.calls)
        BY <1>1, <1>3, <2>1, <3>8, IfaceNext DEF Follows, j
      <4>2. k.op \notin {"delete", "purge"} /\ NameOf[k.i] = n
        BY <2>1, <4>1 DEF Applies, j
      <4>3. k.verdict \in {"owed", "settled"}
        BY <3>8 DEF v
      <4> QED BY <3>7, <4>1, <4>2, <4>3 DEF IfaceFirm
    <3> QED BY <1>1, <3>1, <3>5, <3>7, <3>8, GoOnLands DEF j
  <2> QED BY <2>2, <2>3
<1> QED BY <1>5, <1>6, <1>7

\* The calls that remove a link, and those on rules.
LEMMA LinksLand ==
    ASSUME TInv, UniqueNames, NEW home, InOrder(home), NEW w \in Workers, Call(w),
           jobs[w].solo, jobs[w].op \notin PeerOps \union PfOps, IfaceFirm(jobs[w]),
           NEW n, n = NameOf[jobs[w].i], NEW F, RemoveDevice(w, F)
    PROVE  \E v \in Verdicts : Lands(w, n, v)
<1> DEFINE j  == jobs[w]
           ok == RemoveLinkOK(dev[n], F)
<1>1. /\ j \in Job /\ Fits(j) /\ Place(j.op, j.calls) /\ j.i \in Ifaces /\ n \in Names
      /\ "verdict" \in DOMAIN j /\ ifaces \in [Ifaces -> Iface] /\ dev \in [Names -> Device]
      /\ \A call : At(w, call) <=> Head(j.calls) = call
  BY IfaceAtWork
<1>2. {"owed", "cut", "settled"} \subseteq Verdicts /\ "none" \notin {"owed", "cut", "settled"}
  BY DEF Verdicts
<1>3. /\ Head(j.calls) \in {"rmlink", "unlink"} /\ UNCHANGED <<ifaces, peers>>
      /\ Head(j.calls) = "unlink" => j.op \in {"delete", "purge"}
      /\ Head(j.calls) = "rmlink" => j.op \in Applies
  BY <1>1, Heads DEF RemoveDevice, RowsUntouched
<1>4. ok => ~dev'[n].exists
  <2>1. dev'[n] = RemoveLink(dev[n], F) /\ dev[n] \in Device
    BY <1>1 DEF RemoveDevice, SetDev, DevOf
  <2> QED BY <2>1 DEF RemoveLink, RemoveLinkOK, NoDevice
<1>5. CASE Head(j.calls) = "rmlink"
  <2>1. Active(j.i) /\ ~ifaces[j.i].on
    BY <1>5 DEF IfaceFirm, Removing
  <2>2. CASE Stop(w, "owed")
    BY <1>2, <2>2, StopLands
  <2>3. CASE ok /\ GoOn(w, j, "settled")
    <3>1. PICK i : i = j.i
      OBVIOUS
    <3> HIDE DEF j, ok
    <3>2. InSync(n)'
      <4>1. /\ i \in Ifaces /\ InTable(ifaces[i]) /\ n = NameOf[i]
            /\ ~(ifaces'[i].st = "active" /\ ifaces'[i].on)
        BY <1>1, <1>3, <2>1, <3>1 DEF Active, InTable, j
      <4> QED BY <1>3, <1>4, <2>3, <4>1, NobodyWanted
    <3>3. ASSUME NEW k, NextJob(k, j), k.verdict = "settled" PROVE IfaceFirm(k)'
      <4>1. /\ k.op = j.op /\ k.i = j.i
            /\ Head(k.calls) \in {"reapply", "unapply"} /\ ~Removing(k.calls)
        BY <1>1, <1>3, <1>5, <3>3, IfaceNext DEF Follows, NextJob, j
      <4>2. k.op \notin {"delete", "purge"} /\ NameOf[k.i] = n
        BY <1>3, <1>5, <4>1 DEF Applies, j
      <4> QED BY <3>2, <3>3, <4>1, <4>2 DEF IfaceFirm
    <3> QED BY <1>1, <1>2, <2>3, <3>2, <3>3, GoOnLands DEF j
  <2> QED BY <1>1, <1>5, <2>2, <2>3 DEF RemoveDevice, DevOf
<1>6. CASE Head(j.calls) = "unlink"
  <2> DEFINE v == IF ok THEN "cut" ELSE "owed"
  <2>1. v \in {"cut", "owed"} /\ (v = "cut" => ~dev'[n].exists) /\ GoOn(w, j, v)
    BY <1>1, <1>4, <1>6 DEF RemoveDevice, DevOf
  <2> HIDE DEF j, v
  <2>2. ASSUME NEW k, NextJob(k, j), k.verdict = v PROVE IfaceFirm(k)'
    <3>1. /\ k.op = j.op /\ k.i = j.i
          /\ Head(k.calls) \in {"trashPeers", "purgePeers"} /\ ~Removing(k.calls)
      BY <1>1, <1>3, <1>6, <2>2, IfaceNext DEF Follows, NextJob, j
    <3>2. /\ k.op \in {"delete", "purge"} /\ NameOf[k.i] = n
          /\ k.op = "delete" => ifaces'[k.i].st = "active"
          /\ k.op = "purge" => InTable(ifaces'[k.i])
      BY <1>3, <1>6, <3>1 DEF IfaceFirm, Active, j
    <3> QED BY <2>1, <2>2, <3>1, <3>2 DEF IfaceFirm, Active
  <2> QED BY <1>1, <1>2, <2>1, <2>2, GoOnLands DEF j
<1> QED BY <1>3, <1>5, <1>6

\* Whatever is known of the interface and its device stays known over a call on rules.
LEMMA RulesLand ==
    ASSUME TInv, UniqueNames, NEW home, InOrder(home), NEW w \in Workers, Call(w),
           jobs[w].solo, jobs[w].op \notin PeerOps \union PfOps, IfaceFirm(jobs[w]),
           NEW n, n = NameOf[jobs[w].i], NEW F,
           Teardown(w, F) \/ Setup(w, F) \/ Cascade(w, F)
    PROVE  \E v \in Verdicts : Lands(w, n, v)
<1> DEFINE j == jobs[w]
<1>1. /\ j \in Job /\ Fits(j) /\ Place(j.op, j.calls) /\ j.verdict \in Verdicts
      /\ j.i \in Ifaces /\ "verdict" \in DOMAIN j
      /\ \A call : At(w, call) <=> Head(j.calls) = call
  BY IfaceAtWork
<1>2. Verdicts = {"none", "owed", "cut", "settled"}
  BY DEF Verdicts
<1>3. UNCHANGED <<ifaces, peers, dev>> /\ (InSync(n) => InSync(n)')
  BY SyncKept DEF Teardown, Setup, Cascade, RowsUntouched
<1>4. ASSUME NEW k, NextJob(k, j) PROVE k.op = j.op /\ k.i = j.i /\ NameOf[k.i] = n
  BY <1>4 DEF NextJob
<1>5. CASE Teardown(w, F)
  <2> DEFINE last == Len(j.calls) > 1 /\ j.calls[2] = "rmlink" /\ ~dev[n].exists
             v == IF last THEN "settled" ELSE IF j.verdict = "none" THEN "owed" ELSE j.verdict
  <2>1. Head(j.calls) = "teardown" /\ GoOn(w, j, v)
    BY <1>1, <1>5 DEF Teardown, DevOf
  <2>2. last => InSync(n)'
    <3> SUFFICES ASSUME last PROVE InSync(n)'
      OBVIOUS
    <3>1. Removing(j.calls)
      BY DEF Removing
    <3>2. Active(j.i) /\ ~ifaces[j.i].on
      BY <3>1 DEF IfaceFirm
    <3>3. PICK i : i = j.i
      OBVIOUS
    <3>4. /\ i \in Ifaces /\ InTable(ifaces[i]) /\ n = NameOf[i]
          /\ ~(ifaces'[i].st = "active" /\ ifaces'[i].on) /\ ~dev'[n].exists
      BY <1>1, <1>3, <3>2, <3>3 DEF Active, InTable
    <3> QED BY <1>3, <3>4, NobodyWanted
  <2>3. /\ v = "settled" => InSync(n)'
        /\ v = "cut" => j.verdict = "cut"
        /\ v \in Verdicts \ {"none"}
    BY <1>1, <1>2, <1>3, <2>2 DEF IfaceFirm
  <2> HIDE DEF j, v
  <2>4. ASSUME NEW k, NextJob(k, j), k.verdict = v PROVE IfaceFirm(k)'
    <3>1. /\ k.op = j.op /\ k.i = j.i /\ NameOf[k.i] = n
          /\ Head(k.calls) \in {"saveIface", "unlink", "rmlink", "reapply", "unapply"}
          /\ Removing(k.calls) => Removing(j.calls)
      BY <1>1, <1>4, <2>1, <2>4, IfaceNext DEF Follows, j
    <3>2. IfaceFirm(j)
      BY DEF j
    <3>3. /\ (k.op = "delete" => Active(k.i)') /\ (k.op = "purge" => InTable(ifaces'[k.i]))
          /\ (Removing(k.calls) => Active(k.i)' /\ ~ifaces'[k.i].on)
      BY <1>3, <3>1, <3>2 DEF IfaceFirm, Active
    <3>4. j.verdict = "cut" => ~dev'[NameOf[k.i]].exists /\ k.op \in {"delete", "purge"}
      BY <1>3, <3>1, <3>2 DEF IfaceFirm
    <3> QED BY <2>3, <2>4, <3>1, <3>3, <3>4 DEF IfaceFirm
  <2> QED BY <1>1, <2>1, <2>3, <2>4, GoOnLands DEF j
<1>6. CASE Setup(w, F)
  <2> DEFINE x == [j EXCEPT !.row.egress = wan, !.calls = <<"setup", "egress">> \o Tail(@)]
  <2>1. Head(j.calls) = "setup" /\ InSync(n)' /\ j.op \in Applies
    BY <1>1, <1>3, <1>6, Heads DEF Setup, IfaceFirm
  <2>2. Stop(w, "owed") \/ GoOn(w, x, "owed") \/ GoOn(w, j, "settled")
    BY <1>6 DEF Setup
  <2>3. "verdict" \in DOMAIN x
    BY <1>1
  <2> HIDE DEF j, x
  <2>4. ASSUME NEW k, NextJob(k, j), k.verdict \in {"owed", "settled"} PROVE IfaceFirm(k)'
    <3>1. /\ k.op = j.op /\ k.i = j.i /\ NameOf[k.i] = n
          /\ Head(k.calls) \in {"egress", "reapply", "unapply"} /\ ~Removing(k.calls)
      BY <1>1, <1>4, <2>1, <2>4, IfaceNext DEF j
    <3>2. k.op \notin {"delete", "purge"}
      BY <2>1, <3>1 DEF Applies
    <3> QED BY <2>1, <2>4, <3>1, <3>2 DEF IfaceFirm
  <2>5. CASE Stop(w, "owed")
    BY <1>2, <2>5, StopLands
  <2>6. CASE GoOn(w, x, "owed")
    BY <1>2, <2>3, <2>4, <2>6, GoOnLands DEF j
  <2>7. CASE GoOn(w, j, "settled")
    BY <1>1, <1>2, <2>1, <2>4, <2>7, GoOnLands DEF j
  <2> QED BY <2>2, <2>5, <2>6, <2>7
<1>7. CASE Cascade(w, F)
  <2> DEFINE v == Owing(j)
  <2>1. Head(j.calls) \in {"reapply", "unapply", "purgePfs"} /\ j.op # "bootPfs" /\ GoOn(w, j, v)
    <3>1. Head(j.calls) \in {"reapply", "unapply", "purgePfs", "reapplyAll"}
      BY <1>1, <1>7 DEF Cascade
    <3>2. j.op # "bootPfs"
      BY DEF PfOps
    <3> QED BY <1>1, <1>7, <3>1, <3>2, Heads DEF Cascade
  <2>2. /\ v = "settled" => InSync(n)'
        /\ v = "cut" => j.verdict = "cut"
        /\ v \in Verdicts \ {"none"}
    BY <1>1, <1>2, <1>3 DEF IfaceFirm, Owing
  <2> HIDE DEF j, v
  <2>3. ASSUME NEW k, NextJob(k, j), k.verdict = v PROVE IfaceFirm(k)'
    <3>1. /\ k.op = j.op /\ k.i = j.i /\ NameOf[k.i] = n
          /\ Head(k.calls) = "teardown" /\ ~Removing(k.calls)
      BY <1>1, <1>4, <2>1, <2>3, IfaceNext DEF Follows, j
    <3>2. IfaceFirm(j)
      BY DEF j
    <3>3. (k.op = "delete" => Active(k.i)') /\ (k.op = "purge" => InTable(ifaces'[k.i]))
      BY <1>3, <3>1, <3>2 DEF IfaceFirm, Active
    <3>4. j.verdict = "cut" => ~dev'[NameOf[k.i]].exists /\ k.op \in {"delete", "purge"}
      BY <1>3, <3>1, <3>2 DEF IfaceFirm
    <3> QED BY <2>2, <2>3, <3>1, <3>3, <3>4 DEF IfaceFirm
  <2> QED BY <1>1, <2>1, <2>2, <2>3, GoOnLands DEF j
<1> QED BY <1>5, <1>6, <1>7

\* Every call of an interface request that nothing got in the way of.
LEMMA IfaceCallsLand ==
    ASSUME TInv, UniqueNames, NEW home, InOrder(home), NEW w \in Workers, Call(w),
           jobs[w].solo, jobs[w].op \notin PeerOps \union PfOps, IfaceFirm(jobs[w]),
           NEW n, n = NameOf[jobs[w].i]
    PROVE  \E v \in Verdicts : Lands(w, n, v)
<1> DEFINE j == jobs[w]
<1>1. PICK F \in FaultSets :
        \/ InsertIface(w, F)   \/ SaveIface(w, F)     \/ TrashIface(w, F)
        \/ RestoreIface(w, F)  \/ PurgeIface(w, F)    \/ MovePeers(w, F)
        \/ Load(w, F)          \/ Ensure(w, F)        \/ Configure(w, F)
        \/ RemoveDevice(w, F)  \/ Teardown(w, F)      \/ Setup(w, F)
        \/ StoreEgress(w, F)   \/ PeerStatement(w, F) \/ Parent(w, F)
        \/ SyncOne(w, F)       \/ Cascade(w, F)       \/ PfStatement(w, F)
        \/ PfRulesCall(w, F)
  BY DEF Call
<1>2. Head(j.calls) \notin {"insertPeer", "savePeer", "trashPeer", "restorePeer", "purgePeer",
                            "parent", "peer", "insertPf", "savePf", "deletePf", "removePf",
                            "applyPf"}
  <2>1. Place(j.op, j.calls)
    BY IfaceAtWork
  <2> QED BY <2>1, Heads DEF PeerOps, PfOps
<1>3. ~(PeerStatement(w, F) \/ Parent(w, F) \/ SyncOne(w, F) \/ PfStatement(w, F)
          \/ PfRulesCall(w, F))
  BY <1>2 DEF PeerStatement, Parent, SyncOne, PfStatement, PfRulesCall, At
<1>4. CASE InsertIface(w, F) \/ SaveIface(w, F) \/ RestoreIface(w, F) \/ MovePeers(w, F)
  BY <1>4, RowCallsLand
<1>5. CASE TrashIface(w, F) \/ PurgeIface(w, F)
  BY <1>5, RemovalsLand
<1>6. CASE Load(w, F) \/ Ensure(w, F) \/ Configure(w, F)
  BY <1>6, AppliesLand
<1>7. CASE Teardown(w, F) \/ Setup(w, F) \/ Cascade(w, F)
  BY <1>7, RulesLand
<1> QED BY <1>1, <1>3, <1>4, <1>5, <1>6, <1>7, LinksLand, EgressLands

-----------------------------------------------------------------------------
(* Peer requests *)

\* The order of the calls on a peer.
PeerFollows(c, d) ==
    /\ Head(c) \in {"insertPeer", "savePeer", "trashPeer", "restorePeer", "purgePeer"} =>
         Head(d) = "parent"
    /\ Head(c) = "unapply" => Head(d) = "trashPeer"
    /\ Head(c) = "purgePfs" => Head(d) = "purgePeer"
    /\ Head(c) = "ensure" => Head(d) = "peer"
    /\ Head(c) \in {"parent", "peer"} => Head(d) = "reapply"
    /\ Head(c) # "reapply"

\* Each call of syncPeer has its successor.
LEMMA PeerOrder ==
    ASSUME NEW op, NEW c, Place(op, c), op \in PeerOps, Len(c) > 1
    PROVE  PeerFollows(c, Tail(c))
<1>1. \A a : c # <<a>>
  BY Seconds, Zenon
<1>2. ASSUME c \in SyncingPeer PROVE c = <<"ensure", "peer">>
  BY <1>1, <1>2 DEF SyncingPeer
<1>3. ASSUME c \in SyncingBefore("reapply")
      PROVE  c \in {<<"parent", "reapply">>, <<"ensure", "peer", "reapply">>,
                    <<"peer", "reapply">>}
  BY <1>1, <1>3 DEF SyncingBefore
<1>4. CASE c \in {<<"ensure", "peer">>, <<"parent", "reapply">>,
                  <<"ensure", "peer", "reapply">>, <<"peer", "reapply">>}
  BY <1>4 DEF PeerFollows
<1>5. CASE c \in {<<"insertPeer", "parent">>, <<"savePeer", "parent">>,
                  <<"trashPeer", "parent">>, <<"purgePeer", "parent">>,
                  <<"restorePeer", "parent", "reapply">>}
  BY <1>5 DEF PeerFollows
<1>6. CASE c \in {<<"unapply", "trashPeer", "parent">>, <<"purgePfs", "purgePeer", "parent">>}
  BY <1>6 DEF PeerFollows
<1> QED BY <1>2, <1>3, <1>4, <1>5, <1>6 DEF Place, PeerOps

\* A peer request after a call.
LEMMA PeerNext ==
    ASSUME NEW j, NEW k, Fits(j), NextJob(k, j), j.op \in PeerOps
    PROVE  /\ Head(j.calls) # "parent" => PeerFollows(j.calls, k.calls)
           /\ Head(j.calls) = "parent" =>
                Head(k.calls) = IF k.calls = Tail(j.calls) THEN "reapply" ELSE "ensure"
<1>1. Place(j.op, j.calls) /\ Place(k.op, k.calls) /\ k.op = j.op
  BY DEF NextJob, Fits
<1>2. Head(j.calls) \notin {"load", "saveIface", "setup"}
  BY <1>1, Heads DEF PeerOps, Applies
<1>3. k.calls = Tail(j.calls) \/ (Head(j.calls) = "parent" /\ Head(k.calls) = "ensure")
  BY <1>2 DEF NextJob
<1>4. ASSUME k.calls = Tail(j.calls) PROVE PeerFollows(j.calls, k.calls)
  <2>1. Len(j.calls) \in 1..5 /\ j.calls \in Seq(Calls) /\ k.calls # <<>>
    BY <1>1, Onward, PlaceTyped
  <2>2. Len(j.calls) > 1
    <3>1. k.calls \in Seq(Calls) /\ Len(k.calls) = Len(j.calls) - 1
      BY <1>1, <1>4, <2>1, PlaceTyped, HeadTailProperties
    <3>2. Len(k.calls) # 0
      BY <2>1, <3>1, EmptySeq
    <3> QED BY <2>1, <3>1, <3>2
  <2> QED BY <1>1, <1>4, <2>2, PeerOrder
<1> QED BY <1>3, <1>4 DEF PeerFollows

\* The peer a request on one peer may have left undone.
Debt(p, v) == IF v = "owed" THEN {p} ELSE {}

\* What a call of such a request comes to: of its own peer the device lacks or has too
\* much no more than the request has still to do, and every other peer stays as it was.
PeerLands(w, n, p, v) ==
    /\ Ends(w, v)
    /\ \A S : p \notin S /\ ServesBut(n, S \union Debt(p, jobs[w].verdict)) =>
                ServesBut(n, S \union Debt(p, v))'
    /\ jobs'[w] # NoJob => PeerFirm(jobs[w])'

\* One that ends early, or goes on, having established what its next call relies on.
LEMMA PeerGoOnLands ==
    ASSUME TInv, NEW w \in Workers, Call(w), NEW n, NEW p, NEW v,
           NEW x, "verdict" \in DOMAIN x, GoOn(w, x, v) \/ Stop(w, v),
           \A S : p \notin S /\ ServesBut(n, S \union Debt(p, jobs[w].verdict)) =>
                    ServesBut(n, S \union Debt(p, v))',
           \A k : k = jobs'[w] /\ NextJob(k, jobs[w]) /\ k.verdict = v /\ ~Stop(w, v) =>
                    PeerFirm(k)'
    PROVE  PeerLands(w, n, p, v)
<1>1. Ends(w, v) /\ jobs[w] # NoJob
  BY Ended, CallMoves DEF Busy
<1>2. ASSUME jobs'[w] # NoJob PROVE PeerFirm(jobs[w])'
  <2>1. PICK k : k = jobs'[w]
    OBVIOUS
  <2>2. NextJob(k, jobs[w]) /\ k.verdict = v
    BY <1>1, <1>2, <2>1 DEF Ends, Answer
  <2>3. ~Stop(w, v)
    BY <1>1, <1>2, Answered DEF Stop
  <2>4. PeerFirm(k)'
    BY <2>1, <2>2, <2>3
  <2> QED BY <2>1, <2>4 DEF PeerFirm, Pending, Active, InTable
<1> QED BY <1>1, <1>2 DEF PeerLands

\* Nothing moves.
LEMMA ServesKept ==
    ASSUME UNCHANGED <<ifaces, peers, dev>>, NEW n, NEW S, ServesBut(n, S)
    PROVE  ServesBut(n, S)'
<1>1. Wanted' = Wanted
  BY DEF Wanted, Active
<1>2. \A i : Served(peers, i)' = Served(peers, i)
  BY DEF Served
<1> QED BY <1>1, <1>2 DEF ServesBut

\* One peer's row is written.
LEMMA ServesOthers ==
    ASSUME UNCHANGED <<ifaces, dev>>, NEW p, \A q \in Peers \ {p} : peers'[q] = peers[q],
           NEW n, NEW S, ServesBut(n, S)
    PROVE  ServesBut(n, S \union {p})'
<1>1. Wanted' = Wanted
  BY DEF Wanted, Active
<1>2. \A i : (Served(peers, i) \ (S \union {p}))' = Served(peers, i) \ (S \union {p})
  BY DEF Served
<1> QED BY <1>1, <1>2 DEF ServesBut

\* It is not served by an interface it is not housed under.
LEMMA ServesSame ==
    ASSUME UNCHANGED <<ifaces, dev>>, NEW p, \A q \in Peers \ {p} : peers'[q] = peers[q],
           NEW home, RowsHomed(home), RowsHomed(home)', NEW i, home[p] = i, ~Active(i),
           NEW n, NEW S, ServesBut(n, S)
    PROVE  ServesBut(n, S)'
<1>1. Wanted' = Wanted /\ i \notin Wanted
  BY DEF Wanted, Active
<1>2. \A k \in Wanted : Served(peers, k)' = Served(peers, k)
  BY <1>1 DEF Served, RowsHomed, InTable
<1> QED BY <1>1, <1>2 DEF ServesBut

\* What is known of a peer request at work.
LEMMA PeerAtWork ==
    ASSUME TInv, NEW home, InOrder(home), NEW w \in Workers, Call(w), jobs[w].solo,
           jobs[w].op \in PeerOps
    PROVE  /\ w \in Busy /\ jobs[w] \in Job /\ Fits(jobs[w]) /\ jobs[w] # NoJob
           /\ Place(jobs[w].op, jobs[w].calls)
           /\ jobs[w].i \in Ifaces /\ NameOf[jobs[w].i] \in Names
           /\ jobs[w].p \in Peers /\ jobs[w].new \in Peer
           /\ home[jobs[w].p] = jobs[w].i /\ jobs[w].new.iface = jobs[w].i
           /\ "verdict" \in DOMAIN jobs[w]
           /\ ifaces \in [Ifaces -> Iface] /\ peers \in [Peers -> Peer]
           /\ dev \in [Names -> Device]
           /\ Grounded(jobs[w]) /\ Undisturbed(jobs[w]) /\ RowsHomed(home)
           /\ \A call : At(w, call) <=> Head(jobs[w].calls) = call
<1>1. /\ w \in Busy /\ Housed(jobs[w], home) /\ RowsHomed(home)
      /\ Grounded(jobs[w]) /\ Undisturbed(jobs[w])
  BY CallMoves DEF InOrder
<1>2. Fits(jobs[w])
  BY <1>1 DEF TInv, JobsFit
<1> QED BY <1>1, <1>2, IfaceAtWork DEF Housed, Fits, Carries

\* The statement on the row.
LEMMA StatementLands ==
    ASSUME TInv, UniqueNames, NEW home, InOrder(home), RowsHomed(home)',
           NEW w \in Workers, Call(w), jobs[w].solo, jobs[w].op \in PeerOps,
           PeerFirm(jobs[w]), NEW n, n = NameOf[jobs[w].i], NEW p, p = jobs[w].p,
           NEW F, PeerStatement(w, F)
    PROVE  \E v \in {"none", "owed"} : PeerLands(w, n, p, v)
<1> DEFINE j    == jobs[w]
           here == Head(j.calls)
           v    == Pending(j.i)
           saved == Upsert(j.new, peers[p].st = "active")
<1>1. /\ j \in Job /\ Fits(j) /\ Place(j.op, j.calls) /\ p \in Peers /\ j.new \in Peer
      /\ home[p] = j.i /\ "verdict" \in DOMAIN j /\ peers \in [Peers -> Peer] /\ j.i \in Ifaces
      /\ Grounded(j) /\ Undisturbed(j) /\ RowsHomed(home)
      /\ \A call : At(w, call) <=> here = call
  BY PeerAtWork
<1>2. /\ here \in {"insertPeer", "savePeer", "trashPeer", "restorePeer", "purgePeer"}
      /\ UNCHANGED <<ifaces, dev>>
  BY <1>1 DEF PeerStatement, HostUntouched
<1>3. /\ here = "insertPeer" => j.op = "addPeer"
      /\ here = "savePeer" => j.op = "editPeer"
      /\ here = "trashPeer" => j.op = "delPeer"
      /\ here = "restorePeer" => j.op = "restorePeer"
      /\ here = "purgePeer" => j.op = "purgePeer"
  BY <1>1, Heads
<1>4. j.verdict = "none"
  BY <1>2 DEF PeerFirm, Syncs
<1>5. CASE Stop(w, "none") /\ UNCHANGED peers
  <2>1. \A S : ServesBut(n, S \union Debt(p, "none")) => ServesBut(n, S \union Debt(p, "none"))'
    BY <1>2, <1>5, ServesKept
  <2> HIDE DEF j
  <2> QED BY <1>1, <1>4, <1>5, <2>1, PeerGoOnLands DEF j
<1>6. ASSUME NEW row, peers' = [peers EXCEPT ![p] = row], NEW x, "verdict" \in DOMAIN x,
             GoOn(w, x, v),
             IF j.op \in {"delPeer", "purgePeer"} THEN row.st # "active"
             ELSE /\ row = IF here = "savePeer" THEN saved ELSE j.new
                  /\ row.st = "active"
      PROVE  \E u \in {"none", "owed"} : PeerLands(w, n, p, u)
  <2> HIDE DEF j, here, v, saved
  <2>1. peers'[p] = row /\ \A q \in Peers \ {p} : peers'[q] = peers[q]
    BY <1>1, <1>6
  <2>0. PICK u : u = v
    OBVIOUS
  <2>2. u = IF Active(j.i) THEN "owed" ELSE "none"
    BY <2>0 DEF v, Pending
  <2>3. ASSUME NEW S, ServesBut(n, S \union Debt(p, "none"))
        PROVE  ServesBut(n, S \union Debt(p, u))'
    <3>1. S \union Debt(p, "none") = S /\ S \union Debt(p, "owed") = S \union {p}
      BY DEF Debt
    <3>2. CASE Active(j.i)
      <4>1. ServesBut(n, S \union {p})'
        BY <1>2, <2>1, <2>3, <3>1, ServesOthers
      <4> QED BY <2>2, <3>1, <3>2, <4>1
    <3>3. CASE ~Active(j.i)
      <4>1. PICK i : i = j.i
        OBVIOUS
      <4>2. home[p] = i /\ ~Active(i)
        BY <1>1, <3>3, <4>1
      <4>3. ServesBut(n, S)'
        BY <1>1, <1>2, <2>1, <2>3, <3>1, <4>2, ServesSame
      <4> QED BY <2>2, <3>1, <3>3, <4>3
    <3> QED BY <3>2, <3>3
  <2>4. ASSUME NEW k, NextJob(k, j), k.verdict = u PROVE PeerFirm(k)'
    <3>1. k.op = j.op /\ k.p = p /\ k.i = j.i /\ Head(k.calls) = "parent"
      BY <1>1, <1>2, <2>4, PeerNext DEF NextJob, PeerFollows, j, here
    <3>2. k.new = IF here = "savePeer" THEN saved ELSE j.new
      BY <1>2, <2>4 DEF NextJob, j, here, saved
    <3>3. k.verdict = Pending(k.i)' /\ k.verdict \in {"none", "owed"}
      BY <1>2, <2>2, <2>4, <3>1 DEF Pending, Active
    <3>4. IF k.op \in {"delPeer", "purgePeer"} THEN peers'[k.p].st # "active"
                                             ELSE peers'[k.p] = k.new /\ k.new.st = "active"
      BY <1>6, <2>1, <3>1, <3>2
    <3> QED BY <3>1, <3>3, <3>4 DEF PeerFirm, Syncs
  <2>5. PeerLands(w, n, p, u)
    BY <1>4, <1>6, <2>0, <2>3, <2>4, PeerGoOnLands DEF j
  <2> QED BY <2>2, <2>5
<1>7. CASE here = "insertPeer"
  <2>1. j.new.st = "active"
    BY <1>1, <1>3, <1>7 DEF Grounded, NewInService
  <2> QED BY <1>1, <1>3, <1>5, <1>6, <1>7, <2>1 DEF PeerStatement, WritePeer
<1>8. CASE here = "savePeer"
  <2>1. saved.st = "active" /\ "verdict" \in DOMAIN [j EXCEPT !.new = saved]
    <3>1. j.new.st = "active"
      BY <1>1, <1>3, <1>8 DEF Grounded, NewInService
    <3> QED BY <1>1, <3>1 DEF Upsert, Peer
  <2>2. \/ Stop(w, "none") /\ UNCHANGED peers
        \/ peers' = [peers EXCEPT ![p] = saved] /\ GoOn(w, [j EXCEPT !.new = saved], v)
    BY <1>1, <1>8 DEF PeerStatement, WritePeer
  <2> HIDE DEF saved
  <2> QED BY <1>3, <1>5, <1>6, <1>8, <2>1, <2>2
<1>9. CASE here = "trashPeer"
  <2> DEFINE row == IF peers[p].st = "active" THEN [peers[p] EXCEPT !.st = "trashed"]
                                              ELSE peers[p]
  <2>1. row.st # "active"
    BY <1>1 DEF Peer
  <2>2. \/ Stop(w, "none") /\ UNCHANGED peers
        \/ peers' = [peers EXCEPT ![p] = row] /\ GoOn(w, j, v)
    BY <1>1, <1>9 DEF PeerStatement, WritePeer
  <2> HIDE DEF row
  <2> QED BY <1>1, <1>3, <1>5, <1>6, <1>9, <2>1, <2>2
<1>10. CASE here = "restorePeer"
  <2> DEFINE row == [peers[p] EXCEPT !.st = "active"]
  <2>1. row = j.new /\ row.st = "active" /\ InTable(peers[p])
    BY <1>1, <1>10 DEF PeerFirm, Peer
  <2>2. \/ Stop(w, "none") /\ UNCHANGED peers
        \/ peers' = [peers EXCEPT ![p] = row] /\ GoOn(w, j, v)
    BY <1>1, <1>10, <2>1 DEF PeerStatement, WritePeer
  <2> HIDE DEF row
  <2> QED BY <1>1, <1>3, <1>5, <1>6, <1>10, <2>1, <2>2
<1>11. CASE here = "purgePeer"
  <2>1. BlankPeer("purged").st # "active"
    BY DEF BlankPeer
  <2>2. \/ Stop(w, "none") /\ UNCHANGED peers
        \/ peers' = [peers EXCEPT ![p] = BlankPeer("purged")] /\ GoOn(w, j, v)
    BY <1>1, <1>11 DEF PeerStatement, WritePeer
  <2> QED BY <1>1, <1>3, <1>5, <1>6, <1>11, <2>1, <2>2
<1> QED BY <1>2, <1>7, <1>8, <1>9, <1>10, <1>11

\* The parent is read, and its device made sure of.
LEMMA ParentLands ==
    ASSUME TInv, UniqueNames, NEW home, InOrder(home), RowsHomed(home)',
           NEW w \in Workers, Call(w), jobs[w].solo, jobs[w].op \in PeerOps,
           PeerFirm(jobs[w]), NEW n, n = NameOf[jobs[w].i], NEW p, p = jobs[w].p,
           NEW F, Parent(w, F)
    PROVE  \E v \in {"none", "owed"} : PeerLands(w, n, p, v)
<1> DEFINE j   == jobs[w]
           row == ifaces[j.i]
           d   == <<"parent">> \o Syncing \o Tail(j.calls)
           x   == [j EXCEPT !.row = row, !.calls = d]
<1>1. /\ j \in Job /\ Fits(j) /\ Place(j.op, j.calls) /\ "verdict" \in DOMAIN j /\ j # NoJob
      /\ j.i \in Ifaces /\ \A call : At(w, call) <=> Head(j.calls) = call
  BY PeerAtWork
<1>2. Head(j.calls) = "parent" /\ UNCHANGED <<ifaces, peers, dev>>
  BY <1>1 DEF Parent, RowsUntouched, HostUntouched
<1>3. /\ j.verdict = Pending(j.i)
      /\ IF j.op \in {"delPeer", "purgePeer"} THEN peers[j.p].st # "active"
                                              ELSE peers[j.p] = j.new /\ j.new.st = "active"
  BY <1>2 DEF PeerFirm, Syncs
<1>4. \A S : ServesBut(n, S) => ServesBut(n, S)'
  BY <1>2, ServesKept
<1>5. PICK i : i = j.i
  OBVIOUS
<1>6. CASE Stop(w, Pending(j.i))
  <2>1. PICK v \in {"none", "owed"} : v = Pending(j.i)
    BY DEF Pending
  <2> HIDE DEF j, row, d, x
  <2>2. PeerLands(w, n, p, v)
    BY <1>1, <1>3, <1>4, <1>6, <2>1, PeerGoOnLands DEF j
  <2> QED BY <2>2
<1>7. CASE Active(j.i) /\ ~row.on /\ GoOn(w, j, "none")
  <2>1. j.verdict = "owed"
    BY <1>3, <1>7 DEF Pending
  <2>2. ASSUME NEW k \in Wanted, NameOf[k] = n PROVE FALSE
    <3>1. i \in Ifaces /\ InTable(ifaces[i]) /\ NameOf[i] = n
      BY <1>1, <1>5, <1>7 DEF Active, InTable
    <3>2. k = i
      BY <2>2, <3>1, NobodyElse
    <3> QED BY <1>5, <1>7, <2>2, <3>2 DEF Wanted
  <2>3. ASSUME NEW S, ServesBut(n, S \union Debt(p, "owed"))
        PROVE  ServesBut(n, S \union Debt(p, "none"))'
    <3>1. ServesBut(n, S \union Debt(p, "none"))
      BY <2>2, <2>3 DEF ServesBut
    <3> QED BY <1>4, <3>1
  <2>4. ASSUME NEW k, k = jobs'[w], NextJob(k, j), k.verdict = "none", ~Stop(w, "none")
        PROVE  PeerFirm(k)'
    <3>1. k = Onto(j, "none")
      <4>1. jobs \in [Workers -> Job \union {NoJob}]
        BY DEF TInv, JobsFit
      <4> QED BY <1>7, <2>4, <4>1 DEF GoOn, Stop, Onto
    <3>2. k.calls = Tail(j.calls)
      BY <1>1, <3>1, OntoParts
    <3>3. k.op \in PeerOps /\ Head(k.calls) = "reapply"
      BY <1>1, <1>2, <2>4, <3>2, PeerNext DEF NextJob
    <3> QED BY <2>4, <3>3 DEF PeerFirm, Syncs
  <2> QED BY <1>1, <1>7, <2>1, <2>3, <2>4, PeerGoOnLands
<1>8. CASE Active(j.i) /\ row.on /\ GoOn(w, x, "owed")
  <2>1. j.verdict = "owed" /\ "verdict" \in DOMAIN x
    BY <1>1, <1>3, <1>8 DEF Pending
  <2>2. ASSUME NEW k, k = jobs'[w], NextJob(k, j), k.verdict = "owed", ~Stop(w, "owed")
        PROVE  PeerFirm(k)'
    <3>1. k = [x EXCEPT !.calls = Tail(@), !.verdict = "owed"]
      <4>1. jobs \in [Workers -> Job \union {NoJob}]
        BY DEF TInv, JobsFit
      <4> HIDE DEF x
      <4> QED BY <1>8, <2>2, <4>1 DEF GoOn, Stop
    <3>2. k.calls = Tail(d) /\ k.row = row
      BY <1>1, <3>1 DEF Job
    <3>3. Head(k.calls) = "ensure"
      BY <1>1, <1>2, <3>2, Replaced DEF Goes
    <3>4. k.op = j.op /\ k.i = j.i /\ k.p = j.p /\ k.new = j.new
      BY <1>2, <2>2 DEF NextJob
    <3>5. /\ k.row = ifaces'[k.i] /\ ifaces'[k.i].on /\ ifaces'[k.i].st = "active"
          /\ IF k.op \in {"delPeer", "purgePeer"} THEN peers'[k.p].st # "active"
                                                  ELSE peers'[k.p] = k.new /\ k.new.st = "active"
      BY <1>2, <1>3, <1>8, <3>2, <3>4 DEF Active
    <3> HIDE DEF j, row, d, x
    <3> QED BY <2>2, <3>3, <3>5 DEF PeerFirm, Syncs, Active
  <2> HIDE DEF x
  <2> QED BY <1>4, <1>8, <2>1, <2>2, PeerGoOnLands
<1> QED BY <1>6, <1>7, <1>8 DEF Parent

\* The device is made sure of.
LEMMA EnsuredLands ==
    ASSUME TInv, UniqueNames, NEW home, InOrder(home), RowsHomed(home)',
           NEW w \in Workers, Call(w), jobs[w].solo, jobs[w].op \in PeerOps,
           PeerFirm(jobs[w]), NEW n, n = NameOf[jobs[w].i], NEW p, p = jobs[w].p,
           NEW F, Ensure(w, F)
    PROVE  \E v \in {"none", "owed"} : PeerLands(w, n, p, v)
<1> DEFINE j == jobs[w]
<1>1. /\ j \in Job /\ Fits(j) /\ "verdict" \in DOMAIN j /\ dev \in [Names -> Device]
      /\ j.i \in Ifaces /\ n \in Names /\ \A call : At(w, call) <=> Head(j.calls) = call
  BY PeerAtWork
<1>2. Head(j.calls) = "ensure" /\ UNCHANGED <<ifaces, peers>>
  BY <1>1 DEF Ensure, RowsUntouched
<1>3. /\ j.verdict = "owed" /\ Active(j.i) /\ ifaces[j.i].on /\ j.row = ifaces[j.i]
      /\ IF j.op \in {"delPeer", "purgePeer"} THEN peers[j.p].st # "active"
                                              ELSE peers[j.p] = j.new /\ j.new.st = "active"
  BY <1>2 DEF PeerFirm, Syncs
<1>4. dev[n].exists =>
        /\ dev'[n].exists /\ dev'[n].conf = dev[n].conf /\ dev'[n].peers = dev[n].peers
        /\ dev[n].addrs \subseteq dev'[n].addrs
  <2>1. dev'[n] = EnsureLink(dev[n], j.row.addr, F) /\ dev[n] \in Device
    BY <1>1 DEF Ensure, SetDev, DevOf
  <2> QED BY <2>1 DEF EnsureLink, Device
<1>5. ASSUME NEW S, ServesBut(n, S) PROVE ServesBut(n, S)'
  <2>1. j.i \in Wanted /\ Wanted' = Wanted
    BY <1>1, <1>2, <1>3 DEF Wanted, Active
  <2>2. \A i : Served(peers, i)' = Served(peers, i)
    BY <1>2 DEF Served
  <2>3. dev[n].exists
    BY <1>5, <2>1 DEF ServesBut
  <2> HIDE DEF j
  <2> QED BY <1>2, <1>4, <1>5, <2>1, <2>2, <2>3 DEF ServesBut
<1>6. ASSUME NEW k, NextJob(k, j), k.verdict = "owed" PROVE PeerFirm(k)'
  <2>1. /\ k.op = j.op /\ k.i = j.i /\ k.p = j.p /\ k.new = j.new /\ k.row = j.row
        /\ Head(k.calls) = "peer"
    BY <1>1, <1>2, <1>6, PeerNext DEF NextJob, PeerFollows
  <2>2. /\ k.row = ifaces'[k.i] /\ ifaces'[k.i].on /\ ifaces'[k.i].st = "active"
        /\ IF k.op \in {"delPeer", "purgePeer"} THEN peers'[k.p].st # "active"
                                                ELSE peers'[k.p] = k.new /\ k.new.st = "active"
    BY <1>2, <1>3, <2>1 DEF Active
  <2> HIDE DEF j
  <2> QED BY <1>6, <2>1, <2>2 DEF PeerFirm, Syncs, Active
<1> QED BY <1>1, <1>3, <1>5, <1>6, PeerGoOnLands DEF Ensure

\* The one peer is configured or removed.
LEMMA SyncedLands ==
    ASSUME TInv, UniqueNames, NEW home, InOrder(home), RowsHomed(home)',
           NEW w \in Workers, Call(w), jobs[w].solo, jobs[w].op \in PeerOps,
           PeerFirm(jobs[w]), NEW n, n = NameOf[jobs[w].i], NEW p, p = jobs[w].p,
           NEW F, SyncOne(w, F)
    PROVE  \E v \in {"none", "owed"} : PeerLands(w, n, p, v)
<1> DEFINE j == jobs[w]
           wanted == j.op \notin {"delPeer", "purgePeer"} /\ j.new.on
<1>1. /\ j \in Job /\ Fits(j) /\ "verdict" \in DOMAIN j /\ dev \in [Names -> Device]
      /\ p \in Peers /\ j.new \in Peer /\ j.new.iface = j.i
      /\ j.i \in Ifaces /\ n \in Names /\ \A call : At(w, call) <=> Head(j.calls) = call
  BY PeerAtWork
<1>2. Head(j.calls) = "peer" /\ UNCHANGED <<ifaces, peers>>
  BY <1>1 DEF SyncOne, RowsUntouched
<1>3. /\ j.verdict = "owed" /\ Active(j.i) /\ ifaces[j.i].on
      /\ IF j.op \in {"delPeer", "purgePeer"} THEN peers[j.p].st # "active"
                                              ELSE peers[j.p] = j.new /\ j.new.st = "active"
  BY <1>2 DEF PeerFirm, Syncs
<1>4. CASE Stop(w, "owed") /\ dev' = dev
  <2>1. \A S : ServesBut(n, S) => ServesBut(n, S)'
    BY <1>2, <1>4, ServesKept
  <2> QED BY <1>1, <1>3, <1>4, <2>1, PeerGoOnLands
<1>5. CASE /\ GoOn(w, j, "none")
           /\ SetDev(j, IF wanted THEN ConfigurePeer(DevOf(j), j.p) ELSE RemovePeer(DevOf(j), j.p))
  <2>1. /\ dev'[n].exists = dev[n].exists /\ dev'[n].conf = dev[n].conf
        /\ dev'[n].addrs = dev[n].addrs
        /\ dev'[n].peers = IF wanted THEN dev[n].peers \union {p} ELSE dev[n].peers \ {p}
    <3>1. /\ dev'[n] = IF wanted THEN ConfigurePeer(dev[n], p) ELSE RemovePeer(dev[n], p)
          /\ dev[n] \in Device
      BY <1>1, <1>5 DEF SetDev, DevOf
    <3> QED BY <3>1 DEF ConfigurePeer, RemovePeer, Device
  <2>2. PICK i : i = j.i
    OBVIOUS
  <2>3. p \in Served(peers, i) <=> wanted
    BY <1>1, <1>3, <2>2 DEF Served
  <2> HIDE DEF wanted
  <2>4. ASSUME NEW S, p \notin S, ServesBut(n, S \union Debt(p, "owed"))
        PROVE  ServesBut(n, S \union Debt(p, "none"))'
    <3>1. S \union Debt(p, "none") = S /\ S \union Debt(p, "owed") = S \union {p}
      BY DEF Debt
    <3>2. /\ i \in Ifaces /\ InTable(ifaces[i]) /\ NameOf[i] = n
      BY <1>1, <1>3, <2>2 DEF Active, InTable
    <3>3. \A k \in Wanted : NameOf[k] = n => k = i
      BY <3>2, NobodyElse
    <3>4. Wanted' = Wanted /\ Served(peers, i)' = Served(peers, i)
      BY <1>2 DEF Wanted, Active, Served
    <3>5. ServesBut(n, S \union {p})
      BY <2>4, <3>1
    <3>6. dev[n].peers \ (S \union {p}) = Served(peers, i) \ (S \union {p}) =>
            dev'[n].peers \ S = Served(peers, i) \ S
      BY <2>1, <2>3, <2>4
    <3>7. ServesBut(n, S)'
      BY <1>2, <2>1, <3>3, <3>4, <3>5, <3>6 DEF ServesBut
    <3> QED BY <3>1, <3>7
  <2>5. ASSUME NEW k, NextJob(k, j), k.verdict = "none" PROVE PeerFirm(k)'
    <3>1. Head(k.calls) = "reapply"
      BY <1>1, <1>2, <2>5, PeerNext DEF PeerFollows
    <3> QED BY <2>5, <3>1 DEF PeerFirm, Syncs
  <2> QED BY <1>1, <1>3, <1>5, <2>4, <2>5, PeerGoOnLands
<1> QED BY <1>4, <1>5 DEF SyncOne

\* The cascade to its forwards.
LEMMA CascadeLands ==
    ASSUME TInv, UniqueNames, NEW home, InOrder(home), RowsHomed(home)',
           NEW w \in Workers, Call(w), jobs[w].solo, jobs[w].op \in PeerOps,
           PeerFirm(jobs[w]), NEW n, n = NameOf[jobs[w].i], NEW p, p = jobs[w].p,
           NEW F, Cascade(w, F)
    PROVE  \E v \in {"none", "owed"} : PeerLands(w, n, p, v)
<1> DEFINE j == jobs[w]
<1>1. /\ j \in Job /\ Fits(j) /\ Place(j.op, j.calls) /\ "verdict" \in DOMAIN j
      /\ \A call : At(w, call) <=> Head(j.calls) = call
  BY PeerAtWork
<1>2. /\ Head(j.calls) \in {"reapply", "unapply", "purgePfs"} /\ j.op # "bootPfs"
      /\ UNCHANGED <<ifaces, peers, dev>>
  <2>1. j.op # "bootPfs"
    BY DEF PeerOps
  <2> QED BY <1>1, <2>1, Heads DEF Cascade
<1>3. j.verdict = "none"
  BY <1>2 DEF PeerFirm, Syncs
<1>4. GoOn(w, j, "none")
  BY <1>2, <1>3 DEF Cascade, Owing
<1>5. \A S : ServesBut(n, S) => ServesBut(n, S)'
  BY <1>2, ServesKept
<1>6. ASSUME NEW k, NextJob(k, j), k.verdict = "none" PROVE PeerFirm(k)'
  <2>1. Head(k.calls) \in {"trashPeer", "purgePeer"}
    BY <1>1, <1>2, <1>6, PeerNext DEF PeerFollows
  <2> QED BY <1>6, <2>1 DEF PeerFirm, Syncs
<1> QED BY <1>1, <1>3, <1>4, <1>5, <1>6, PeerGoOnLands

\* Every call of a peer request that nothing got in the way of.
LEMMA PeerCallsLand ==
    ASSUME TInv, UniqueNames, NEW home, InOrder(home), RowsHomed(home)',
           NEW w \in Workers, Call(w), jobs[w].solo, jobs[w].op \in PeerOps,
           PeerFirm(jobs[w]), NEW n, n = NameOf[jobs[w].i], NEW p, p = jobs[w].p
    PROVE  \E v \in {"none", "owed"} : PeerLands(w, n, p, v)
<1> DEFINE j == jobs[w]
<1>1. PICK F \in FaultSets :
        \/ InsertIface(w, F)   \/ SaveIface(w, F)     \/ TrashIface(w, F)
        \/ RestoreIface(w, F)  \/ PurgeIface(w, F)    \/ MovePeers(w, F)
        \/ Load(w, F)          \/ Ensure(w, F)        \/ Configure(w, F)
        \/ RemoveDevice(w, F)  \/ Teardown(w, F)      \/ Setup(w, F)
        \/ StoreEgress(w, F)   \/ PeerStatement(w, F) \/ Parent(w, F)
        \/ SyncOne(w, F)       \/ Cascade(w, F)       \/ PfStatement(w, F)
        \/ PfRulesCall(w, F)
  BY DEF Call
<1>2. Head(j.calls) \notin {"insertIface", "saveIface", "trashIface", "restoreIface",
                            "purgeIface", "trashPeers", "restorePeers", "purgePeers", "load",
                            "configure", "rmlink", "unlink", "teardown", "setup", "egress",
                            "insertPf", "savePf", "deletePf", "removePf", "applyPf"}
  <2>1. Place(j.op, j.calls)
    BY PeerAtWork
  <2> QED BY <2>1, Heads DEF PeerOps, Applies
<1>3. PeerStatement(w, F) \/ Parent(w, F) \/ Ensure(w, F) \/ SyncOne(w, F) \/ Cascade(w, F)
  BY <1>1, <1>2
     DEF InsertIface, SaveIface, TrashIface, RestoreIface, PurgeIface, MovePeers, Load,
         Configure, RemoveDevice, Teardown, Setup, StoreEgress, PfStatement, PfRulesCall, At
<1> QED BY <1>3, StatementLands, ParentLands, EnsuredLands, SyncedLands, CascadeLands

\* The peers whose call is still to come, under another name.
LEMMA LateThere ==
    ASSUME NEW n, NEW L, NEW p, NEW v, Late(n)' = L \union Debt(p, v),
           ServesBut(n, L \union Debt(p, v))'
    PROVE  ServesBut(n, Late(n))'
<1>1. PICK S : S = L \union Debt(p, v)
  OBVIOUS
<1>2. Debt(p, v)' = Debt(p, v)
  BY DEF Debt
<1>3. ServesBut(n, S)'
  BY <1>1, <1>2 DEF ServesBut
<1>4. S = Late(n)'
  BY <1>1
<1> QED BY <1>3, <1>4 DEF ServesBut

\* So the device is as right as the requests on it have come.
LEMMA PeerLandsSteady ==
    ASSUME TInv, TInv', NEW home, InOrder(home), NEW w \in Workers, Call(w),
           Within(jobs[w], home), jobs[w].solo, jobs[w].op \in PeerOps, PeerFirm(jobs[w]),
           NEW n \in Names, n = NameOf[jobs[w].i], NEW p, p = jobs[w].p, Steady(n),
           NEW v \in {"none", "owed"}, PeerLands(w, n, p, v)
    PROVE  Steady(n)' /\ (jobs'[w] # NoJob => Firm(jobs[w])')
<1>1. /\ w \in Busy /\ OnlyMoves(w) /\ Ends(w, v) /\ jobs[w].op \notin PfOps
      /\ jobs[w].verdict \in {"none", "owed"}
  BY CallMoves, CallTyped DEF PeerLands, PeerOps, PfOps, PeerFirm
<1>2. PICK k : k = jobs'[w]
  OBVIOUS
<1>3. PICK O : O = On(n) \ {w}
  OBVIOUS
<1>4. PICK L : L = {jobs[u].p : u \in {u \in O : jobs[u].op \in PeerOps /\ jobs[u].verdict = "owed"}}
  OBVIOUS
<1>5. On(n)' \ {w} = O /\ \A u \in O : jobs'[u] = jobs[u]
  BY <1>1, <1>3 DEF On, OnlyMoves, Busy
<1>6. On(n) = O \union {w}
  BY <1>1, <1>3 DEF On
<1>7. Late(n) = L \union Debt(p, jobs[w].verdict)
  BY <1>1, <1>4, <1>6 DEF Late, Debt
<1>8. p \notin L
  <2>1. ASSUME NEW u \in O PROVE jobs[u].p # p
    <3>1. /\ u \in Busy /\ u # w /\ jobs[u].op \notin PfOps /\ NameOf[jobs[u].i] = NameOf[jobs[w].i]
      BY <1>3, <2>1 DEF On
    <3>2. Abreast(jobs[w], jobs[u])
      BY <1>1, <3>1 DEF InOrder
    <3> QED BY <1>1, <3>1, <3>2, SideBySide DEF Abreast
  <2> QED BY <1>4, <2>1
<1>9. k # NoJob =>
        /\ k.op = jobs[w].op /\ k.i = jobs[w].i /\ k.p = p /\ k.solo /\ k.verdict = v
        /\ Firm(jobs[w])'
  BY <1>1, <1>2 DEF Ends, NextJob, Answer, PeerLands, Firm
<1>10. On(n)' = IF k # NoJob THEN O \union {w} ELSE O
  <2>1. w \in On(n)' <=> k # NoJob
    BY <1>1, <1>2, <1>9 DEF On, Busy
  <2> QED BY <1>5, <2>1
<1>11. Late(n)' = IF k # NoJob THEN L \union Debt(p, v) ELSE L
  <2>1. CASE k # NoJob
    BY <1>1, <1>2, <1>4, <1>5, <1>9, <1>10, <2>1 DEF Late, Debt
  <2>2. CASE k = NoJob
    BY <1>4, <1>5, <1>10, <2>2 DEF Late
  <2> QED BY <2>1, <2>2
<1> SUFFICES ASSUME n \notin owed', ~Listed(n)',
                    \A u \in On(n)' : /\ jobs'[u].solo
                                      /\ jobs'[u].op \in PeerOps \/ jobs'[u].verdict = "none"
             PROVE  ServesBut(n, Late(n))'
  BY <1>2, <1>9 DEF Steady
<1>12. n \notin owed /\ (k = NoJob => v = "none")
  BY <1>1, <1>2 DEF Ends, Answer, Owed
<1>13. ~Listed(n)
  <2>1. todo' = todo /\ \A i \in Ifaces : ifaces'[i] = ifaces[i]
    BY DEF Within
  <2>2. todo \subseteq Ifaces /\ Wanted' = Wanted
    BY <2>1 DEF TInv, TypeOK, Wanted, Active
  <2> QED BY <2>1, <2>2 DEF Listed
<1>14. \A u \in On(n) : jobs[u].solo /\ (jobs[u].op \in PeerOps \/ jobs[u].verdict = "none")
  BY <1>5, <1>6, <1>10
<1>15. ServesBut(n, L \union Debt(p, jobs[w].verdict))
  BY <1>7, <1>12, <1>13, <1>14 DEF Steady
<1>16. ServesBut(n, L \union Debt(p, v))'
  BY <1>8, <1>15 DEF PeerLands
<1>17. Late(n)' = L \union Debt(p, v)
  <2>1. CASE k # NoJob
    BY <1>11, <2>1
  <2>2. CASE k = NoJob
    <3>1. Debt(p, v) = {}
      BY <1>12, <2>2 DEF Debt
    <3> QED BY <1>11, <2>2, <3>1
  <2> QED BY <2>1, <2>2
<1> QED BY <1>16, <1>17, LateThere

-----------------------------------------------------------------------------
(* Every step *)

\* Every call keeps what is known of the devices.
LEMMA CallsSteady ==
    ASSUME TInv, SInv, NEW home, InOrder(home), NEW w \in Workers, Call(w)
    PROVE  SInv'
<1>1. /\ TInv' /\ w \in Busy /\ Within(jobs[w], home) /\ Elsewhere(w)
      /\ RowsHomed(home) /\ RowsHomed(home)' /\ OnlyMoves(w)
  BY CallTyped, CallMoves, CallsWithin, CallsKeepOrder DEF InOrder
<1>2. UniqueNames /\ Firm(jobs[w]) /\ (\A m \in Names : Steady(m)) /\ UniqueNames'
  BY <1>1, NamesKept DEF SInv
<1>3. PICK n \in Names : n = NameOf[jobs[w].i]
  BY <1>1, JobParts DEF TInv, JobsFit, Fits
<1>4. \A v \in Busy \ {w} : Firm(jobs[v])'
  BY <1>1, OthersFirm DEF SInv
<1>5. CASE jobs[w].op \in PfOps
  <2>1. \A m \in Names : Steady(m)' /\ (jobs'[w] # NoJob => Firm(jobs[w])')
    BY <1>1, <1>2, <1>5, ForwardsSteady
  <2>2. \A m \in Names : Steady(m)'
    BY <2>1
  <2>3. jobs'[w] # NoJob => Firm(jobs[w])'
    BY <1>3, <2>1
  <2>4. \A v \in Busy' : Firm(jobs[v])'
    BY <1>1, <1>4, <2>3 DEF OnlyMoves, Busy
  <2> QED BY <1>2, <2>2, <2>4 DEF SInv
<1>6. ASSUME Steady(n)', jobs'[w] # NoJob => Firm(jobs[w])' PROVE SInv'
  <2>1. ASSUME NEW m \in Names, m # n PROVE Steady(m)'
    BY <1>1, <1>2, <1>3, <2>1, SteadyElsewhere
  <2>2. \A m \in Names : Steady(m)'
    BY <1>6, <2>1
  <2>3. \A v \in Busy' : Firm(jobs[v])'
    BY <1>1, <1>4, <1>6 DEF OnlyMoves, Busy
  <2> QED BY <1>2, <2>2, <2>3 DEF SInv
<1>7. CASE jobs[w].op \notin PfOps /\ ~jobs[w].solo
  <2>1. Steady(n)' /\ (jobs'[w] # NoJob => Firm(jobs[w])')
    BY <1>3, <1>7, DisturbedSteady
  <2> QED BY <1>6, <2>1
<1>8. CASE jobs[w].op \notin PeerOps \union PfOps /\ jobs[w].solo
  <2>1. IfaceFirm(jobs[w])
    BY <1>2, <1>8 DEF Firm
  <2>2. PICK v \in Verdicts : Lands(w, n, v)
    BY <1>2, <1>3, <1>8, <2>1, IfaceCallsLand
  <2>3. Steady(n)' /\ (jobs'[w] # NoJob => Firm(jobs[w])')
    BY <1>1, <1>2, <1>3, <1>8, <2>2, LandsSteady
  <2> QED BY <1>6, <2>3
<1>9. CASE jobs[w].op \in PeerOps /\ jobs[w].solo
  <2>1. PeerFirm(jobs[w])
    BY <1>2, <1>9 DEF Firm, PeerOps, PfOps
  <2>2. PICK p : p = jobs[w].p
    OBVIOUS
  <2>3. PICK v \in {"none", "owed"} : PeerLands(w, n, p, v)
    BY <1>1, <1>2, <1>3, <1>9, <2>1, <2>2, PeerCallsLand
  <2>4. Steady(n)' /\ (jobs'[w] # NoJob => Firm(jobs[w])')
    BY <1>1, <1>2, <1>3, <1>9, <2>1, <2>2, <2>3, PeerLandsSteady
  <2> QED BY <1>6, <2>4
<1> QED BY <1>5, <1>7, <1>8, <1>9

\* A job that has just been taken up relies on what its lookups have seen.
LEMMA FirmAtFirst ==
    ASSUME NEW m, Fits(m), Origin(m)
    PROVE  Firm(m)
<1>1. /\ m.op \in DOMAIN Script /\ m.calls = Script[m.op]
      /\ m.op # "boot" => m.verdict = "none"
  BY JobParts DEF Fits, Origin
<1>2. CASE m.op \in PfOps
  BY <1>1, <1>2 DEF Firm, PfOps
<1>3. CASE m.op \in PeerOps
  <2>1. /\ Head(m.calls) \in {"insertPeer", "savePeer", "unapply", "restorePeer", "purgePfs"}
        /\ Head(m.calls) = "restorePeer" => m.op = "restorePeer"
    BY <1>1, <1>3 DEF Script, PeerOps
  <2>2. m.op = "restorePeer" => /\ InTable(peers[m.p])
                                /\ m.new = [peers[m.p] EXCEPT !.st = "active"]
    BY DEF Origin, InTable
  <2>3. m.verdict = "none"
    BY <1>1, <1>3 DEF PeerOps
  <2>4. PeerFirm(m)
    BY <2>1, <2>2, <2>3 DEF PeerFirm, Syncs
  <2> QED BY <1>3, <2>4 DEF Firm, PeerOps, PfOps
<1>4. CASE m.op \notin PeerOps \union PfOps
  <2>1. m.op \in {"create", "update", "delete", "restore", "purge", "sync", "boot"}
    BY <1>1, <1>4 DEF Script, PeerOps, PfOps
  <2>2. /\ m.calls = CASE m.op = "create"  -> <<"insertIface", "load">>
                       [] m.op = "update"  -> <<"teardown", "saveIface", "load">>
                       [] m.op = "delete"  -> <<"unapply", "teardown", "unlink", "trashPeers", "trashIface">>
                       [] m.op = "restore" -> <<"restoreIface", "restorePeers", "load", "reapply">>
                       [] m.op = "purge"   -> <<"purgePfs", "teardown", "unlink", "purgePeers", "purgeIface">>
                       [] m.op \in {"sync", "boot"} -> <<"load">>
    BY <1>1, <2>1 DEF Script
  <2>3. CASE m.op \in {"sync", "boot"}
    <3>1. Head(m.calls) = "load" /\ ~Removing(m.calls)
      BY <2>2, <2>3 DEF Removing
    <3>2. m.verdict \in {"none", "owed"} /\ (m.verdict = "owed" => Active(m.i))
      BY <1>1, <2>3 DEF Origin, Pending
    <3> QED BY <1>4, <2>3, <3>1, <3>2 DEF Firm, IfaceFirm
  <2>4. CASE m.op \in {"create", "update", "delete", "restore", "purge"}
    <3>1. /\ Head(m.calls) \in {"insertIface", "teardown", "unapply", "restoreIface", "purgePfs"}
          /\ Head(m.calls) = "restoreIface" => m.op = "restore"
          /\ ~Removing(m.calls)
      <4>1. CASE m.op = "create"
        BY <2>2, <4>1 DEF Removing
      <4>2. CASE m.op = "update"
        BY <2>2, <4>2 DEF Removing
      <4>3. CASE m.op = "delete"
        BY <2>2, <4>3 DEF Removing
      <4>4. CASE m.op = "restore"
        BY <2>2, <4>4 DEF Removing
      <4>5. CASE m.op = "purge"
        BY <2>2, <4>5 DEF Removing
      <4> QED BY <2>4, <4>1, <4>2, <4>3, <4>4, <4>5
    <3>2. /\ m.op = "restore" => ifaces[m.i].st = "trashed"
          /\ m.op = "delete" => Active(m.i)
          /\ m.op = "purge" => InTable(ifaces[m.i])
          /\ m.verdict = "none"
      BY <1>1, <2>4 DEF Origin
    <3> QED BY <1>4, <2>4, <3>1, <3>2 DEF Firm, IfaceFirm
  <2> QED BY <2>1, <2>3, <2>4
<1> QED BY <1>2, <1>3, <1>4

\* The rows and the devices being as they were, a job that is the same but no longer
\* alone, relies on as much or less.
LEMMA SameFirm ==
    ASSUME UNCHANGED <<ifaces, peers, dev>>, NEW j, NEW k, SameJob(k, j), k.solo => j.solo,
           Firm(j)
    PROVE  Firm(k)'
<1>1. /\ k.op = j.op /\ k.i = j.i /\ k.p = j.p /\ k.row = j.row /\ k.kids = j.kids
      /\ k.new = j.new /\ k.calls = j.calls /\ k.verdict = j.verdict
  BY DEF SameJob
<1>2. \A n : InSync(n)' <=> InSync(n)
  BY DEF InSync, Wanted, Active, Served
<1>3. \A i : (Active(i)' <=> Active(i)) /\ Kids(i)' = Kids(i)
  BY DEF Active, Kids
<1>4. k.op \in PfOps => Firm(k)'
  BY <1>1 DEF Firm
<1>5. k.op \notin PfOps /\ k.op \in PeerOps => Firm(k)'
  <2>1. PeerFirm(j) => PeerFirm(k)'
    BY <1>1, <1>3 DEF PeerFirm, Pending, InTable
  <2> QED BY <1>1, <2>1 DEF Firm
<1>6. k.op \notin PfOps /\ k.op \notin PeerOps => Firm(k)'
  <2>1. IfaceFirm(j) => IfaceFirm(k)'
    BY <1>1, <1>2, <1>3 DEF IfaceFirm, InTable
  <2> QED BY <1>1, <2>1 DEF Firm
<1> QED BY <1>4, <1>5, <1>6

\* A worker that takes a job up keeps what is known of the devices.
LEMMA TakesSteady ==
    ASSUME TInv, SInv, NEW w \in Workers, NEW m, TakesUp(w, m)
    PROVE  SInv'
<1>1. /\ Fits(m) /\ Origin(m) /\ UNCHANGED <<ifaces, peers, dev, owed>>
      /\ IF m.op = "boot" THEN todo' = todo \ {m.i} ELSE todo' = todo
  BY DEF TakesUp, db, boot
<1>2. /\ w \notin Busy /\ Busy' = Busy \union {w}
      /\ SameJob(jobs'[w], m)
      /\ \A v \in Busy : SameJob(jobs'[v], jobs[v]) /\ (jobs'[v].solo => jobs[v].solo)
  BY TakeEffect DEF TakesUp
<1>3. UniqueNames'
  BY <1>1 DEF SInv, UniqueNames, InTable
<1>4. ASSUME NEW v \in Busy' PROVE Firm(jobs[v])'
  <2>1. PICK k : k = jobs'[v]
    OBVIOUS
  <2>2. PICK j : SameJob(k, j) /\ (k.solo => j.solo) /\ Firm(j)
    <3>1. CASE v = w
      <4>1. Firm(m) /\ m.solo
        BY <1>1, FirmAtFirst DEF Origin
      <4> QED BY <1>2, <2>1, <3>1, <4>1
    <3>2. CASE v \in Busy
      BY <1>2, <2>1, <3>2 DEF SInv
    <3> QED BY <1>2, <1>4, <3>1, <3>2
  <2>3. Firm(k)'
    BY <1>1, <2>2, SameFirm
  <2> QED BY <2>1, <2>3, FirmThere
<1>5. ASSUME NEW n \in Names PROVE Steady(n)'
  <2> SUFFICES ASSUME n \notin owed', ~Listed(n)',
                      \A u \in On(n)' : /\ jobs'[u].solo
                                        /\ jobs'[u].op \in PeerOps \/ jobs'[u].verdict = "none"
               PROVE  ServesBut(n, Late(n))'
    BY DEF Steady
  <2>1. /\ \A u \in Busy : u \in On(n)' <=> u \in On(n)
        /\ w \in On(n)' <=> m.op \notin PfOps /\ NameOf[m.i] = n
    BY <1>2 DEF On, SameJob
  <2>2. \A u \in On(n) : jobs[u].solo /\ (jobs[u].op \in PeerOps \/ jobs[u].verdict = "none")
    BY <1>2, <2>1 DEF On, SameJob
  <2>3. Wanted' = Wanted /\ Wanted \subseteq Ifaces
    BY <1>1 DEF Wanted, Active
  <2>4. ~Listed(n)
    <3>1. ASSUME m.op = "boot", NameOf[m.i] = n PROVE m.i \notin Wanted
      <4>1. m.op \notin PfOps /\ m.op \notin PeerOps
        BY <3>1 DEF PfOps, PeerOps
      <4>2. jobs'[w].op = m.op /\ jobs'[w].verdict = Pending(m.i)
        BY <1>1, <1>2, <3>1 DEF SameJob, Origin
      <4>3. Pending(m.i) = "none"
        BY <2>1, <3>1, <4>1, <4>2
      <4> QED BY <4>3 DEF Pending, Wanted
    <3> QED BY <1>1, <2>3, <3>1 DEF Listed
  <2>5. ServesBut(n, Late(n))
    BY <1>1, <1>5, <2>2, <2>4 DEF SInv, Steady
  <2>6. Late(n)' = Late(n)
    <3>1. m.op \in PeerOps => m.verdict = "none"
      BY <1>1 DEF Origin, PeerOps
    <3>2. ~(w \in On(n)' /\ jobs'[w].op \in PeerOps /\ jobs'[w].verdict = "owed")
      BY <1>2, <3>1 DEF SameJob
    <3>3. {v \in On(n) : jobs[v].op \in PeerOps /\ jobs[v].verdict = "owed"}'
            = {v \in On(n) : jobs[v].op \in PeerOps /\ jobs[v].verdict = "owed"}
      BY <1>2, <2>1, <3>2 DEF On, SameJob
    <3>4. \A v \in On(n) : jobs'[v].p = jobs[v].p
      BY <1>2 DEF On, SameJob
    <3> QED BY <3>3, <3>4 DEF Late
  <2>7. PICK S : S = Late(n)
    OBVIOUS
  <2>8. ServesBut(n, S)'
    BY <1>1, <2>5, <2>7, ServesKept
  <2> QED BY <2>6, <2>7, <2>8 DEF ServesBut
<1> QED BY <1>3, <1>4, <1>5 DEF SInv

\* A crash leaves what was not finished reported.
LEMMA CrashSteady ==
    ASSUME TInv, SInv, Crash
    PROVE  SInv'
<1>1. /\ Busy' = {} /\ UNCHANGED <<ifaces, peers, dev, todo>>
      /\ \A w \in Busy : jobs[w].verdict \in Verdicts /\ jobs[w].op \in DOMAIN Script
  <2>1. \A w \in Busy : jobs[w].verdict \in Verdicts /\ jobs[w].op \in DOMAIN Script
    BY JobParts DEF TInv, JobsFit, Fits
  <2> QED BY <2>1 DEF Crash, Busy, RowsUntouched, HostUntouched, boot
<1>2. UniqueNames'
  BY <1>1 DEF SInv, UniqueNames, InTable
<1>3. ASSUME NEW n \in Names, n \notin owed', ~Listed(n)' PROVE ServesBut(n, {})'
  <2>1. ASSUME NEW w \in Busy, NameOf[jobs[w].i] = n
        PROVE  jobs[w].solo /\ jobs[w].verdict \in {"none", "settled"}
    <3>1. n \notin IF jobs[w].solo THEN Owed(n, jobs[w].verdict) ELSE {n}
      BY <1>3, <2>1 DEF Crash
    <3> QED BY <1>1, <2>1, <3>1 DEF Owed, Verdicts
  <2>2. CASE \E w \in Busy : NameOf[jobs[w].i] = n /\ jobs[w].verdict = "settled"
    <3>1. PICK w \in Busy : NameOf[jobs[w].i] = n /\ jobs[w].verdict = "settled"
      BY <2>2
    <3>2. InSync(n)
      BY <2>1, <3>1 DEF SInv, Firm, PeerFirm, IfaceFirm
    <3> QED BY <1>1, <3>2, ServesAll, ServesKept
  <2>3. CASE \A w \in Busy : NameOf[jobs[w].i] = n => jobs[w].verdict = "none"
    <3>1. n \notin owed
      BY <1>3, <2>1, <2>3 DEF Crash
    <3>2. ~Listed(n)
      BY <1>1, <1>3 DEF Listed, Wanted, Active
    <3>3. Late(n) = {}
      BY <2>3 DEF Late, On
    <3>4. ServesBut(n, {})
      BY <2>1, <2>3, <3>1, <3>2, <3>3 DEF SInv, Steady, On
    <3> QED BY <1>1, <3>4, ServesKept
  <2> QED BY <2>1, <2>2, <2>3
<1>4. ASSUME NEW n \in Names PROVE Steady(n)'
  <2>1. Late(n)' = {}
    BY <1>1 DEF Late, On
  <2> QED BY <1>3, <1>4, <2>1 DEF Steady, ServesBut
<1> QED BY <1>1, <1>2, <1>4 DEF SInv

\* A start lists what it has still to bring up, and nobody is at work then.
LEMMA RestartSteady ==
    ASSUME TInv, SInv, NEW F, NEW reboot, Restart(F, reboot)
    PROVE  SInv'
<1>1. Busy = {} /\ Busy' = {} /\ UNCHANGED <<ifaces, peers>>
  BY DEF Restart, Start, TInv, Busy, db
<1>2. UniqueNames'
  BY <1>1 DEF SInv, UniqueNames, InTable
<1>3. Wanted' = Wanted /\ Wanted \subseteq Ifaces
  BY <1>1 DEF Wanted, Active
<1>4. ASSUME NEW n \in Names, n \notin owed', ~Listed(n)' PROVE InSync(n)'
  <2>1. "list" \notin F.db /\ todo' = Wanted
    BY <1>4 DEF Restart, Start
  <2>2. \A i \in Wanted : NameOf[i] # n
    BY <1>3, <1>4, <2>1 DEF Listed
  <2>3. ~dev'[n].exists
    <3>1. CASE reboot
      BY <1>4, <3>1 DEF Restart, Start, NoDevice
    <3>2. CASE ~reboot
      <4>1. dev' = dev /\ n \notin owed
        BY <1>4, <2>1, <3>2 DEF Restart, Start
      <4>2. ~Listed(n) /\ On(n) = {} /\ Late(n) = {}
        BY <1>1, <2>2 DEF Listed, On, Late
      <4>3. ServesBut(n, {})
        BY <1>4, <4>1, <4>2 DEF SInv, Steady
      <4> QED BY <2>2, <4>1, <4>3 DEF ServesBut
    <3> QED BY <3>1, <3>2
  <2> QED BY <1>3, <2>2, <2>3 DEF InSync
<1>5. ASSUME NEW n \in Names PROVE Steady(n)'
  <2>1. Late(n)' = {}
    BY <1>1 DEF Late, On
  <2>2. InSync(n)' => ServesBut(n, {})'
    BY ServesAll DEF InSync, ServesBut
  <2> QED BY <1>4, <1>5, <2>1, <2>2 DEF Steady, ServesBut
<1> QED BY <1>1, <1>2, <1>5 DEF SInv

\* The rows, the devices and the jobs being as they were.
LEMMA StillSteady ==
    ASSUME SInv, UNCHANGED <<ifaces, peers, dev, todo, owed, jobs>>
    PROVE  SInv'
<1>1. Wanted' = Wanted /\ Busy' = Busy
  BY DEF Wanted, Active, Busy
<1>2. UniqueNames'
  BY DEF SInv, UniqueNames, InTable
<1>3. ASSUME NEW w \in Busy PROVE Firm(jobs[w])'
  <2>1. PICK j : j = jobs[w]
    OBVIOUS
  <2>2. Firm(j)'
    BY <1>3, <2>1, SameFirm DEF SInv, SameJob
  <2> QED BY <2>1, <2>2, FirmThere
<1>4. ASSUME NEW n \in Names PROVE Steady(n)'
  <2>1. On(n)' = On(n) /\ Late(n)' = Late(n) /\ (Listed(n)' <=> Listed(n))
    BY <1>1 DEF On, Late, Listed
  <2>2. PICK S : S = Late(n)
    OBVIOUS
  <2>3. ServesBut(n, S) => ServesBut(n, S)'
    BY ServesKept
  <2> QED BY <1>4, <2>1, <2>2, <2>3 DEF SInv, Steady, ServesBut
<1> QED BY <1>1, <1>2, <1>3, <1>4 DEF SInv

\* Between requests, every device that was not reported serves exactly what the tables
\* say: for every number of requests that overlap, with every call failing and crashes
\* and restarts between any two calls.
THEOREM QuietAlwaysInSync == RSpec => []QuietInSync
<1>1. RInit => SInv
  <2> SUFFICES ASSUME RInit PROVE SInv
    OBVIOUS
  <2>1. Busy = {} /\ \A i \in Ifaces : ifaces[i].st = "none"
    BY DEF RInit, Init, Busy, BlankIface
  <2>2. UniqueNames /\ Wanted = {}
    BY <2>1 DEF UniqueNames, InTable, Wanted, Active
  <2>3. \A n \in Names : Steady(n)
    BY <2>2 DEF RInit, Init, Steady, ServesBut, NoDevice
  <2> QED BY <2>1, <2>2, <2>3 DEF SInv
<1>2. TInv /\ DInv /\ SInv /\ [RNext]_rvars => SInv'
  <2> SUFFICES ASSUME TInv, DInv, SInv, [RNext]_rvars PROVE SInv'
    OBVIOUS
  <2>1. PICK home \in [Peers -> Ifaces] : InOrder(home)
    BY DEF DInv
  <2>2. ASSUME NEW w \in Workers, TakeUp(w) PROVE SInv'
    BY <2>2, JobTaken, TakesSteady
  <2>3. ASSUME NEW w \in Workers, Call(w) PROVE SInv'
    BY <2>1, <2>3, CallsSteady
  <2>4. CASE Outside
    <3>1. RouteMoves => UNCHANGED <<ifaces, peers, dev, todo, owed, jobs>>
      BY DEF RouteMoves, RouteChange, db, boot
    <3> QED BY <2>4, <3>1, StillSteady, CrashSteady, RestartSteady DEF Outside
  <2>5. CASE UNCHANGED rvars
    BY <2>5, StillSteady DEF rvars, vars
  <2> QED BY <2>2, <2>3, <2>4, <2>5 DEF RNext
<1>3. SInv => QuietInSync
  <2> SUFFICES ASSUME SInv, NEW n \in Names, Quiet(n) PROVE InSync(n)
    BY DEF QuietInSync
  <2>1. On(n) = {} /\ Late(n) = {} /\ n \notin owed /\ ~Listed(n)
    BY DEF Quiet, Vouched, On, Late, Listed
  <2>2. ServesBut(n, {})
    BY <2>1 DEF SInv, Steady
  <2> QED BY <2>2, ServesAll
<1> QED BY <1>1, <1>2, <1>3, JobsStayTyped, OrderStays, PTL DEF RSpec
=============================================================================

----------------------------- MODULE MCIptables -----------------------------
(***************************************************************************)
(* A small instance of Iptables for TLC.                                   *)
(***************************************************************************)
EXTENDS Iptables, TLC

CONSTANTS w1, w2, w3, masq, out1, out2

\* Two interfaces on one subnet share the masquerade rule.
TwoLists == {<<masq, out1>>, <<masq, out2>>}

Symmetric == Permutations(Workers)
=============================================================================

---------------------------- MODULE MCVpnRuntime ----------------------------
(***************************************************************************)
(* Small instances of VpnRuntime for TLC.                                  *)
(***************************************************************************)
EXTENDS VpnHistory, TLC

CONSTANTS o1, o2, l1, l2, c1, n1, n2, n3, w1, w2

\* Two names that differ make one project name, the third makes its own.
SharedSlug == [n \in Names |-> IF n = n3 THEN "b" ELSE "a"]

Symmetry == Permutations(OpenVpnIds) \union Permutations(LegacyIds)
              \union Permutations(Names \ {n3}) \union Permutations(Workers)
=============================================================================

----------------------------- MODULE MCSessions -----------------------------
(***************************************************************************)
(* A small instance of Sessions for TLC: no symmetry, since liveness is    *)
(* checked.                                                                *)
(***************************************************************************)
EXTENDS Sessions

CONSTANTS u1, u2, t1, s1, s2
=============================================================================

---------------------------- MODULE MCWgHistory ----------------------------
(***************************************************************************)
(* Small instances of WgHistory for TLC.                                   *)
(***************************************************************************)
EXTENDS MCWgPanel, WgHistory
=============================================================================

---------------------------- MODULE MCDiscovery ----------------------------
(***************************************************************************)
(* Discovery for TLC: three spas, so that an answer can come too late.     *)
(***************************************************************************)
EXTENDS Discovery
============================================================================

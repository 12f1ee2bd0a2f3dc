-------------------------- MODULE MCSpaConnection --------------------------
(***************************************************************************)
(* SpaConnection for TLC.  Tasks of the application that may do the same   *)
(* things are interchangeable; the runs that check no liveness say so.     *)
(***************************************************************************)
EXTENDS SpaConnection, TLC

Symmetry == Permutations(Closers) \cup Permutations(Callers \ Closers)
============================================================================

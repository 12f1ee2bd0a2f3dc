---------------------------- MODULE MCEventMixin ----------------------------
(***************************************************************************)
(* EventMixin for TLC.  The callbacks are interchangeable.                 *)
(***************************************************************************)
EXTENDS EventMixin, TLC

Symmetry == Permutations(Callbacks)
=============================================================================

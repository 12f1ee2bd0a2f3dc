-------------------------- MODULE MCFilterSchedule --------------------------
(***************************************************************************)
(* FilterSchedule for TLC.  A day has three units, a cycle at least two.    *)
(***************************************************************************)
EXTENDS FilterSchedule, TLC

Symmetry == Permutations(Callers)

\* A schedule from the factory, and one set at the panel that has a cycle whose
\* duration is zero.
MCSchedules ==
  {[start |-> <<0, 2>>, last |-> <<2, 1>>, on |-> TRUE],
   [start |-> <<1, 0>>, last |-> <<2, 0>>, on |-> FALSE]}
=============================================================================

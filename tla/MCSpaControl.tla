---------------------------- MODULE MCSpaControl ----------------------------
(***************************************************************************)
(* SpaControl for TLC: a pump of three speeds, the heat mode, and a light. *)
(***************************************************************************)
EXTENDS SpaControl

SomeControls == {[kind |-> "pump", states |-> 3], [kind |-> "heat", states |-> 3],
                 [kind |-> "other", states |-> 2]}
=============================================================================

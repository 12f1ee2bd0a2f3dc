------------------------- MODULE ConfigurationGate -------------------------
(***************************************************************************)
(* What SpaClient.configuration_loaded promises: it turns true with the    *)
(* message that completes the kinds of Parts, in whatever order and        *)
(* however often they come, at once and never before, and it stays true.   *)
(* A kind that was heard may become void again: of status updates, only    *)
(* the last counts.                                                        *)
(***************************************************************************)
CONSTANT Parts

VARIABLES heard, open

Init == heard = {} /\ open = FALSE

\* A message may complete more than one kind: a setting has the last status
\* update taken in again.
Hear(ps) ==
  /\ heard' = heard \cup ps
  /\ open' = (open \/ heard' = Parts)

Void(p) ==
  /\ heard' = heard \ {p}
  /\ UNCHANGED open

Next == (\E ps \in SUBSET Parts : Hear(ps)) \/ (\E p \in Parts : Void(p))

Spec == Init /\ [][Next]_<<heard, open>>
============================================================================

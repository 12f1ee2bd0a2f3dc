------------------------- MODULE MCSpaConfiguration -------------------------
(***************************************************************************)
(* SpaConfiguration for TLC.                                               *)
(***************************************************************************)
EXTENDS SpaConfiguration

\* A setting that is taken in again and again, and the one that is taken in once
\* and makes the controls: enough for every case of TakeSetting.
TwoRequests == <<"filter", "device">>
=============================================================================

--------------------------- MODULE MCDeviceClock ---------------------------
(***************************************************************************)
(* DeviceClock for TLC: half minutes, and days of four minutes, so that    *)
(* the clocks pass midnight apart from each other.                         *)
(***************************************************************************)
EXTENDS DeviceClock

AllLeads  == {-3, 4}
AllShifts == {3}
=============================================================================

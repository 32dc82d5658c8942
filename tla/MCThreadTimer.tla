--------------------------- MODULE MCThreadTimer ----------------------------
(* ThreadTimer for TLC: the values of the constants are in MCThreadTimer.cfg. *)
EXTENDS ThreadTimer
=============================================================================

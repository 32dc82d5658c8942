-------------------------- MODULE MCFrameExchange ---------------------------
(* FrameExchange for TLC: the traffic classes and the foreign frames of the runs. *)
EXTENDS FrameExchange

AllClasses == {"tsn", "rtc", "rta", "dcp", "lldp", "udp", "l2"}
AllForeign == {"tiny", "other_type", "untagged", "other_id"}
NoForeign == {}
=============================================================================

---------------------------- MODULE FunctionIndex ---------------------------
(***************************************************************************)
(* The functions of the testbench, in the order in which they are          *)
(* initialised and launched (apps/testbench/functions.h).                  *)
(***************************************************************************)
EXTENDS Integers

CONFIG_IDX       == 0
LPORT_IDX        == 1
LOG_IDX          == 2
LOG_VIA_MQTT_IDX == 3
STAT_IDX         == 4
HISTOGRAM_IDX    == 5
PKT_HANDLER_IDX  == 6
L2_IDX           == 7
TSN_HIGH_IDX     == 8
TSN_LOW_IDX      == 9
RTC_IDX          == 10
RTA_IDX          == 11
DCP_IDX          == 12
LLDP_IDX         == 13
UDP_HIGH_IDX     == 14
UDP_LOW_IDX      == 15
MAX_FUNCTIONS    == 16

Functions == 0 .. MAX_FUNCTIONS - 1
=============================================================================

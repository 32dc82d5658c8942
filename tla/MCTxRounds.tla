----------------------------- MODULE MCTxRounds -----------------------------
(* Small sets of active classes for TxRounds. *)
EXTENDS TxRounds

MCConfigs == {{TSN_HIGH, TSN_LOW, RTC}, {TSN_HIGH, RTA, UDP_LOW},
              {RTC, DCP, LLDP}, {TSN_LOW, RTC, UDP_HIGH}}
=============================================================================

----------------------------- MODULE MCTxChain ------------------------------
(* Small sets of active classes for TxChain. *)
EXTENDS TxChain

\* Both ways to start a cycle, gaps before, between and after active classes,
\* and TSN Low in front of an RTC that is first.
MCConfigs == {{TSN_HIGH, TSN_LOW, RTC}, {TSN_HIGH, RTA, UDP_LOW},
              {RTC, RTA, DCP}, {RTC, LLDP, UDP_HIGH}, {TSN_LOW, RTC, RTA}}

\* TSN Low without TSN High.
MCTsnLowOnly == {{TSN_LOW, RTC, RTA}}
=============================================================================

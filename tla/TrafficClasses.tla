--------------------------- MODULE TrafficClasses ---------------------------
(***************************************************************************)
(* The PROFINET traffic classes of the testbench and the order in which    *)
(* their Tx threads are linked (apps/testbench/functions.c, functions.h).  *)
(* A class is the offset of its thread from TSN_HIGH_IDX.                  *)
(***************************************************************************)
EXTENDS Integers

TSN_HIGH == 0
TSN_LOW  == 1
RTC      == 2
RTA      == 3
DCP      == 4
LLDP     == 5
UDP_HIGH == 6
UDP_LOW  == 7

\* threads[TSN_HIGH_IDX] .. threads[TSN_HIGH_IDX + MAX_PN_TYPES - 1]
PnClasses == TSN_HIGH .. UDP_LOW

\* The NULL "next" pointer: one past the last class.
NULL == UDP_LOW + 1

\* A mutant of find_next_pn_thread: the FALLTHRU of an inactive class is
\* forgotten, so that only the immediate neighbour is ever linked.
find_next_no_fallthru(active, start) ==
    IF start + 1 \in active THEN start + 1 ELSE NULL

\* The switch with FALLTHRU: the first active class after start, or NULL.
find_next_pn_thread(active, start) ==
    IF \E c \in active : c > start
    THEN CHOOSE c \in active : c > start /\ \A d \in active : d > start => c <= d
    ELSE NULL

\* threads[c].is_first after function_link_pn_threads(): TSN High if it is
\* active, else RTC if it is active, else nobody.
is_first(active, c) ==
    \/ c = TSN_HIGH /\ TSN_HIGH \in active
    \/ c = RTC /\ RTC \in active /\ TSN_HIGH \notin active

\* function_link_pn_threads() returns 0 (tsn_startup() exits otherwise).
\* With L2 active it returns 0 even if no class is first.
function_link_ok(active, l2) ==
    TSN_HIGH \in active \/ RTC \in active \/ l2

=============================================================================

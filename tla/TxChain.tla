------------------------------ MODULE TxChain -------------------------------
(***************************************************************************)
(* The Tx threads of the testbench and the signals that chain them.        *)
(*                                                                         *)
(* Every active traffic class has one thread.  It runs thread_timer_run(), *)
(* which calls the class's *_tx_thread_routine when the Tx timer has       *)
(* expired or data_cond_var was signalled, and in reference mode the       *)
(* class's generation routine when the TxGen timer has expired.  The Tx    *)
(* routine sends its frames and signals the next active class.             *)
(*                                                                         *)
(* The clock is left out: a timer may be found expired at any poll.        *)
(* ThreadTimer models the timer arithmetic of one thread with its clock.   *)
(***************************************************************************)
EXTENDS TrafficClasses

CONSTANTS Configs,   \* the sets of active PROFINET classes to start with
          L2,        \* TRUE iff the L2 class is active too
          Mirror     \* is_mirror_mode()

ASSUME ConfigsAssumption == Configs \subseteq SUBSET PnClasses
ASSUME ModeAssumption == L2 \in BOOLEAN /\ Mirror \in BOOLEAN

VARIABLES active,    \* the classes that are enabled with > 0 frames per cycle
          once,      \* once[c]: threads[c].tx_do_once has been taken
          genOnce,   \* genOnce[c]: threads[c].tx_gen_do_once has been taken
          avail,     \* avail[c]: threads[c].num_frames_available is not 0
          cond,      \* cond[c]: threads[c].data_cond_var, 0 or 1
          poll       \* poll[c]: what c's loop found for its Tx timer

vars == <<active, once, genOnce, avail, cond, poll>>

\* The classes whose frames come in bursts, announced by a TxGen timer.
BurstClasses == {RTA, DCP, LLDP, UDP_HIGH, UDP_LOW}

next(c) == find_next_pn_thread(active, c)
first(c) == is_first(active, c)

\* tsn_startup() exits when function_link_pn_threads() fails.
Init ==
    /\ active \in {a \in Configs : function_link_ok(a, L2)}
    /\ once = [c \in PnClasses |-> FALSE]
    /\ genOnce = [c \in PnClasses |-> FALSE]
    /\ avail = [c \in PnClasses |-> FALSE]
    /\ cond = [c \in PnClasses |-> 0]
    /\ poll = [c \in PnClasses |-> "idle"]
-----------------------------------------------------------------------------
\* do_signal(): compare-and-set 0 -> 1, so a pending signal absorbs a new one.
do_signal(c) ==
    cond' = IF c = NULL THEN cond ELSE [cond EXCEPT ![c] = 1]

\* Mutant of is_signaled(): a plain read that leaves the flag set.
is_signaled_keep(c) == cond[c] = 1 /\ UNCHANGED cond

\* is_signaled(): compare-and-set 1 -> 0, true if it succeeded.
is_signaled(c) == cond[c] = 1 /\ cond' = [cond EXCEPT ![c] = 0]

\* The head of thread_timer_run()'s loop body for the Tx timer: take the
\* signal, else compare the clock with end_ns.
PollTimer(c) ==
    /\ c \in active
    /\ poll[c] = "idle"
    /\ \/ is_signaled(c) /\ poll' = [poll EXCEPT ![c] = "signaled"]
       \/ cond[c] = 0 /\ poll' = [poll EXCEPT ![c] = "expired"] /\ UNCHANGED cond
    /\ UNCHANGED <<active, once, genOnce, avail>>
-----------------------------------------------------------------------------
(* The Tx callbacks.  Each runs when PollTimer has found it due. *)

Due(c) == c \in active /\ poll[c] # "idle" /\ poll' = [poll EXCEPT ![c] = "idle"]

\* do_once() succeeded: the first call only sets the timer's period.
SetPeriod(c) ==
    /\ ~ once[c]
    /\ once' = [once EXCEPT ![c] = TRUE]
    /\ UNCHANGED <<active, genOnce, avail, cond>>

\* The call returns without sending: the thread was not signalled.
NotSignaled(c) ==
    /\ once[c]
    /\ poll[c] # "signaled"
    /\ UNCHANGED <<active, once, genOnce, avail, cond>>

\* The num_frames_per_cycle frames of a cyclic class are sent and the next
\* class is signalled.
SendCyclic(c) ==
    /\ once[c]
    /\ do_signal(next(c))
    /\ UNCHANGED <<active, once, genOnce, avail>>

\* The announced burst, if there is one, is taken and sent, and the next class
\* is signalled in any case.
SendBurst(c) ==
    /\ once[c]
    /\ poll[c] = "signaled"
    /\ avail' = [avail EXCEPT ![c] = FALSE]
    /\ do_signal(next(c))
    /\ UNCHANGED <<active, once, genOnce>>

\* Mutant: the class that is not first sends at every expiry of its timer.
tsn_tx_unchained(c) ==
    /\ c \in {TSN_HIGH, TSN_LOW}
    /\ Due(c)
    /\ SetPeriod(c) \/ SendCyclic(c)

tsn_tx_thread_routine(c) ==
    /\ c \in {TSN_HIGH, TSN_LOW}
    /\ Due(c)
    /\ \/ SetPeriod(c)
       \/ ~ first(c) /\ NotSignaled(c)
       \/ (first(c) \/ poll[c] = "signaled") /\ SendCyclic(c)

rtc_tx_thread_routine(c) ==
    /\ c = RTC
    /\ Due(c)
    /\ \/ SetPeriod(c)
       \/ ~ first(c) /\ NotSignaled(c)
       \/ (first(c) \/ poll[c] = "signaled") /\ SendCyclic(c)

\* Mutant: a class without a burst to send returns before it signals.
rta_tx_no_forward(c) ==
    /\ c = RTA
    /\ Due(c)
    /\ \/ SetPeriod(c)
       \/ NotSignaled(c)
       \/ avail[c] /\ SendBurst(c)
       \/ ~ avail[c] /\ once[c] /\ UNCHANGED <<active, once, genOnce, avail, cond>>

rta_tx_thread_routine(c) ==
    c = RTA /\ Due(c) /\ (SetPeriod(c) \/ NotSignaled(c) \/ SendBurst(c))

dcp_tx_thread_routine(c) ==
    c = DCP /\ Due(c) /\ (SetPeriod(c) \/ NotSignaled(c) \/ SendBurst(c))

lldp_tx_thread_routine(c) ==
    c = LLDP /\ Due(c) /\ (SetPeriod(c) \/ NotSignaled(c) \/ SendBurst(c))

udp_tx_thread_routine(c) ==
    /\ c \in {UDP_HIGH, UDP_LOW}
    /\ Due(c)
    /\ SetPeriod(c) \/ NotSignaled(c) \/ SendBurst(c)

TxRoutine(c) ==
    \/ tsn_tx_thread_routine(c)
    \/ rtc_tx_thread_routine(c)
    \/ rta_tx_thread_routine(c)
    \/ dcp_tx_thread_routine(c)
    \/ lldp_tx_thread_routine(c)
    \/ udp_tx_thread_routine(c)
-----------------------------------------------------------------------------
\* The TxGen callback, installed in reference mode only: the first call sets
\* the burst period, every later one announces num_frames_per_cycle frames.
\* An announcement that was not taken is overwritten, not added to.
Generate(c) ==
    /\ ~ Mirror
    /\ c \in active
    /\ poll[c] = "idle"
    /\ \/ /\ ~ genOnce[c]
          /\ genOnce' = [genOnce EXCEPT ![c] = TRUE]
          /\ UNCHANGED avail
       \/ /\ genOnce[c]
          /\ avail' = [avail EXCEPT ![c] = TRUE]
          /\ UNCHANGED genOnce
    /\ UNCHANGED <<active, once, cond, poll>>

rta_tx_generation_thread_routine(c)  == c = RTA /\ Generate(c)
dcp_tx_generation_thread_routine(c)  == c = DCP /\ Generate(c)
lldp_tx_generation_thread_routine(c) == c = LLDP /\ Generate(c)
udp_tx_generation_thread_routine(c)  == c \in {UDP_HIGH, UDP_LOW} /\ Generate(c)

TxGeneration(c) ==
    \/ rta_tx_generation_thread_routine(c)
    \/ dcp_tx_generation_thread_routine(c)
    \/ lldp_tx_generation_thread_routine(c)
    \/ udp_tx_generation_thread_routine(c)

Next == \E c \in PnClasses : PollTimer(c) \/ TxRoutine(c) \/ TxGeneration(c)

Spec == Init /\ [][Next]_vars

\* Each thread has a core of its own and never blocks, so it keeps polling its
\* Tx timer and running the callbacks that are due.
Fairness ==
    \A c \in PnClasses : WF_vars(PollTimer(c)) /\ WF_vars(TxRoutine(c))

FairSpec == Spec /\ Fairness
-----------------------------------------------------------------------------
TypeOK ==
    /\ active \in Configs
    /\ once \in [PnClasses -> BOOLEAN]
    /\ genOnce \in [PnClasses -> BOOLEAN]
    /\ avail \in [PnClasses -> BOOLEAN]
    /\ cond \in [PnClasses -> {0, 1}]
    /\ poll \in [PnClasses -> {"idle", "expired", "signaled"}]

\* The class that starts the cycle is driven by its timer alone: nobody ever
\* signals it, even when TSN Low is active in front of RTC.  A signal would
\* make thread_timer_run() send an extra round between two cycles.
FirstNotSignaled ==
    \A c \in active : first(c) => cond[c] = 0 /\ poll[c] # "signaled"

\* The next call of c's Tx routine sends.
AboutToSend(c) ==
    once[c] /\ (poll[c] = "signaled" \/ (first(c) /\ poll[c] = "expired"))

\* c is the first class or comes after it in the chain.
Linked(c) == c \in active /\ \E f \in active : first(f) /\ f <= c

\* Every class from the first one on sends again and again: no signal that is
\* coalesced, or spent on the call that only sets the period, ends the chain.
LinkedClassesSend ==
    \A c \in PnClasses : Linked(c) ~> AboutToSend(c)

\* An announced burst of a linked class is eventually taken by its Tx routine,
\* whatever signals were absorbed or spent before.
BurstsAreTaken ==
    \A c \in BurstClasses : (Linked(c) /\ avail[c]) ~> ~ avail[c]

\* What the comment in function_link_pn_threads() describes: the active
\* classes are chained in order and only the inactive ones are skipped, so
\* every active class gets its turn to send.
ActiveClassesSend ==
    \A c \in PnClasses : c \in active ~> AboutToSend(c)

=============================================================================

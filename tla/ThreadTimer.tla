----------------------------- MODULE ThreadTimer ----------------------------
(***************************************************************************)
(* One thread of the testbench and its timers (thread_timer.c) with the    *)
(* clock: the Rx, Tx and TxGen timers, the callbacks they run, the signal  *)
(* of the class before, and the times at which the callbacks run.          *)
(*                                                                         *)
(* What a callback sends or receives is left to the other modules; here it *)
(* only counts.  Time passes in steps of one unit, at any moment of the    *)
(* loop, so a thread may be late by any amount.                            *)
(***************************************************************************)
EXTENDS Integers

CONSTANTS BaseCycle,     \* application_base_cycle_time_ns
          RxOffset,      \* application_rx_base_offset_ns
          TxOffset,      \* application_tx_base_offset_ns
          FirstBurst,    \* the timeout the TxGen timer is added with
          BurstPeriod,   \* *_burst_period_ns
          NsecPerSec,    \* the period of a Tx timer that waits for signals
          ClockMod,      \* end_ns is a uint64_t: it wraps at ClockMod
          MaxTime,       \* bound on the clock (TLC)
          MaxSignals     \* bound on the signals from the class before (TLC)

RX_TIMER    == 0
TX_TIMER    == 1
TXGEN_TIMER == 2
MAX_TIMERS  == 3
Timers == 0 .. MAX_TIMERS - 1

Classes == {"tsn", "rtc", "rta", "dcp", "lldp", "udp", "l2"}
BurstClasses == {"rta", "dcp", "lldp", "udp"}

\* A timer that expires between two values of the clock is still ahead of it
\* by less than the wrap: uint64_t nanoseconds last for 584 years.
ASSUME TimerAssumption ==
    /\ BaseCycle \in Nat \ {0} /\ BurstPeriod \in Nat \ {0} /\ NsecPerSec \in Nat \ {0}
    /\ RxOffset \in Nat /\ TxOffset \in Nat /\ FirstBurst \in Nat
    /\ ClockMod \in Nat /\ MaxTime \in Nat /\ MaxSignals \in Nat
    /\ \A p \in {BaseCycle, BurstPeriod, RxOffset, TxOffset, FirstBurst} :
           MaxTime + p < ClockMod

VARIABLES class,      \* the traffic class of the thread
          isFirst,    \* thread_context->is_first
          mirror,     \* is_mirror_mode()
          now,        \* CLOCK_TAI
          base,       \* base[k]: when thread_timer_run() armed timer k
          phase,      \* thread_timer_run(): "arm" the timers, then "loop"
          idx,        \* the timer it looks at next
          timo,       \* info[idx].timo_ns
          end,        \* info[idx].end_ns
          once,       \* the rx, tx and tx_gen do_once flags
          cond,       \* data_cond_var
          avail,      \* num_frames_available # 0
          calls,      \* how often each timer's callback ran
          signals,    \* how often the class before called do_signal()
          rounds,     \* how often the Tx callback got to send
          bursts,     \* how many announced bursts were sent
          announced   \* how many bursts were announced

vars == <<class, isFirst, mirror, now, base, phase, idx, timo, end, once, cond, avail,
          calls, signals, rounds, bursts, announced>>
fixed == <<class, isFirst, mirror>>
-----------------------------------------------------------------------------
(* The timers that each *_threads_routine adds, with their first timeout.  *)

Offset == [k \in Timers |-> IF k = RX_TIMER THEN RxOffset
                            ELSE IF k = TX_TIMER THEN TxOffset ELSE FirstBurst]

CyclicTimers == {RX_TIMER, TX_TIMER}
BurstTimers == IF mirror THEN CyclicTimers ELSE Timers

tsn_threads_routine  == CyclicTimers
rtc_threads_routine  == CyclicTimers
l2_threads_routine   == CyclicTimers
rta_threads_routine  == BurstTimers
dcp_threads_routine  == BurstTimers
lldp_threads_routine == BurstTimers
udp_threads_routine  == BurstTimers

\* The timers with info->active set.
Active ==
    CASE class = "tsn"  -> tsn_threads_routine
      [] class = "rtc"  -> rtc_threads_routine
      [] class = "rta"  -> rta_threads_routine
      [] class = "dcp"  -> dcp_threads_routine
      [] class = "lldp" -> lldp_threads_routine
      [] class = "udp"  -> udp_threads_routine
      [] class = "l2"   -> l2_threads_routine

\* The Tx timer has a condition variable, except in the L2 thread.  Nobody
\* signals the first class (Workers_proofs!FirstNotSignaledHolds).
Signalled == class # "l2" /\ ~ isFirst

Init ==
    /\ class \in Classes
    /\ isFirst \in (IF class \in {"tsn", "rtc"} THEN BOOLEAN ELSE {FALSE})
    /\ mirror \in BOOLEAN
    /\ now = 0 /\ base = [k \in Timers |-> 0]
    /\ phase = "arm" /\ idx = RX_TIMER
    /\ timo = Offset
    /\ end = Offset
    /\ once = [k \in Timers |-> FALSE]
    /\ cond = 0 /\ avail = FALSE
    /\ calls = [k \in Timers |-> 0]
    /\ signals = 0 /\ rounds = 0 /\ bursts = 0 /\ announced = 0
-----------------------------------------------------------------------------
\* The loops run over idx = 0 .. nb_timers - 1.
nextIdx == (idx + 1) % MAX_TIMERS

\* thread_timer_run() after wait_sync_time(): every timer, used or not, is
\* armed relative to its own reading of the clock.
Arm ==
    /\ phase = "arm"
    /\ base' = [base EXCEPT ![idx] = now]
    /\ end' = [end EXCEPT ![idx] = (now + timo[idx]) % ClockMod]
    /\ idx' = nextIdx
    /\ phase' = IF nextIdx = RX_TIMER THEN "loop" ELSE "arm"
    /\ UNCHANGED <<fixed, now, timo, once, cond, avail, calls, signals, rounds,
                   bursts, announced>>

\* thread_timer_set() of callback k, taken once: the period that replaces the
\* first timeout.
thread_timer_set(k, period) ==
    /\ ~ once[k]
    /\ once' = [once EXCEPT ![k] = TRUE]
    /\ timo' = [timo EXCEPT ![k] = period]
    /\ UNCHANGED <<avail, rounds, bursts, announced>>

\* Mutant: the receive timer gets the period of a waiting transmit timer.
rx_thread_slow(k) ==
    /\ k = RX_TIMER
    /\ \/ thread_timer_set(k, NsecPerSec)
       \/ once[k] /\ UNCHANGED <<timo, once, avail, rounds, bursts, announced>>

\* The *_rx_thread_routine of all classes: from the second call on it polls
\* the port (FrameExchange).
rx_thread_routine(k) ==
    /\ k = RX_TIMER
    /\ \/ thread_timer_set(k, BaseCycle)
       \/ once[k] /\ UNCHANGED <<timo, once, avail, rounds, bursts, announced>>

\* A call that returns without sending.
NoRound == UNCHANGED <<timo, once, avail, rounds, bursts, announced>>

\* Mutant: the number of announced frames is read and not reset.
Round_keeps_burst ==
    /\ rounds' = rounds + 1
    /\ bursts' = IF avail THEN bursts + 1 ELSE bursts
    /\ UNCHANGED <<timo, once, avail, announced>>

\* A round: the frames are sent; a burst class in reference mode sends the
\* burst that is announced, and takes the announcement.
Round ==
    /\ rounds' = rounds + 1
    /\ avail' = FALSE
    /\ bursts' = IF avail THEN bursts + 1 ELSE bursts
    /\ UNCHANGED <<timo, once, announced>>

\* Mutant: a thread that is not first sends whenever its timer expires.
cyclic_tx_ignores_signal(signaled) ==
    \/ thread_timer_set(TX_TIMER, IF isFirst THEN BaseCycle ELSE NsecPerSec)
    \/ once[TX_TIMER] /\ Round

\* tsn_tx_thread_routine(), rtc_tx_thread_routine()
cyclic_tx_thread_routine(signaled) ==
    \/ thread_timer_set(TX_TIMER, IF isFirst THEN BaseCycle ELSE NsecPerSec)
    \/ once[TX_TIMER] /\ ~ isFirst /\ ~ signaled /\ NoRound
    \/ once[TX_TIMER] /\ (isFirst \/ signaled) /\ Round

\* rta_, dcp_ and lldp_tx_thread_routine()
burst_tx_thread_routine(signaled) ==
    \/ thread_timer_set(TX_TIMER, NsecPerSec)
    \/ once[TX_TIMER] /\ ~ signaled /\ NoRound
    \/ once[TX_TIMER] /\ signaled /\ Round

\* Its timer keeps the base cycle although only a signal makes it send.
udp_tx_thread_routine(signaled) ==
    \/ thread_timer_set(TX_TIMER, BaseCycle)
    \/ once[TX_TIMER] /\ ~ signaled /\ NoRound
    \/ once[TX_TIMER] /\ signaled /\ Round

l2_tx_thread_routine(signaled) ==
    \/ thread_timer_set(TX_TIMER, BaseCycle)
    \/ once[TX_TIMER] /\ Round

tx_thread_routine(k, signaled) ==
    /\ k = TX_TIMER
    /\ \/ class \in {"tsn", "rtc"} /\ cyclic_tx_thread_routine(signaled)
       \/ class \in {"rta", "dcp", "lldp"} /\ burst_tx_thread_routine(signaled)
       \/ class = "udp" /\ udp_tx_thread_routine(signaled)
       \/ class = "l2" /\ l2_tx_thread_routine(signaled)

\* The *_tx_generation_thread_routine of the burst classes.
tx_generation_thread_routine(k) ==
    /\ k = TXGEN_TIMER
    /\ \/ thread_timer_set(k, BurstPeriod)
       \/ /\ once[k]
          /\ avail' = TRUE
          /\ announced' = announced + 1
          /\ UNCHANGED <<timo, once, rounds, bursts>>
-----------------------------------------------------------------------------
\* info->cond && is_signaled(info->cond)
Signaled(k) == k = TX_TIMER /\ class # "l2" /\ cond = 1

\* Mutant: a timer with a condition variable only reacts to its signal.
due_by_signal_only(k) ==
    IF k = TX_TIMER /\ class # "l2" THEN Signaled(k) ELSE now >= end[k]

\* (curr_ns >= info->end_ns) || signaled
due(k) == now >= end[k] \/ Signaled(k)

\* Mutant: the next expiry counts from now instead of from the last expiry.
rearm_from_now(k) == end' = [end EXCEPT ![k] = (now + timo'[k]) % ClockMod]

\* Mutant: the callback that sets the period is not followed by the addition.
rearm_early(k) ==
    end' = IF ~ once[k] THEN end ELSE [end EXCEPT ![k] = (@ + timo'[k]) % ClockMod]

\* info->end_ns += info->timo_ns, with the timeout the callback may just have
\* replaced.
rearm(k) == end' = [end EXCEPT ![k] = (@ + timo'[k]) % ClockMod]

\* One iteration of thread_timer_run()'s inner loop.
Poll ==
    /\ phase = "loop"
    /\ idx' = nextIdx
    /\ cond' = IF Signaled(idx) THEN 0 ELSE cond
    /\ IF idx \in Active /\ due(idx)
       THEN /\ \/ rx_thread_routine(idx)
               \/ tx_thread_routine(idx, Signaled(idx))
               \/ tx_generation_thread_routine(idx)
            /\ rearm(idx)
            /\ calls' = [calls EXCEPT ![idx] = @ + 1]
       ELSE UNCHANGED <<timo, end, once, avail, calls, rounds, bursts, announced>>
    /\ UNCHANGED <<fixed, now, base, phase, signals>>

\* The Tx routine of the class before signals this thread.
Signal ==
    /\ Signalled
    /\ signals < MaxSignals
    /\ signals' = signals + 1
    /\ cond' = 1
    /\ UNCHANGED <<fixed, now, base, phase, idx, timo, end, once, avail, calls,
                   rounds, bursts, announced>>

Tick ==
    /\ now < MaxTime
    /\ now' = now + 1
    /\ UNCHANGED <<fixed, base, phase, idx, timo, end, once, cond, avail, calls,
                   signals, rounds, bursts, announced>>

Next == Arm \/ Poll \/ Signal \/ Tick

Spec == Init /\ [][Next]_vars

\* The thread owns its core and neither sleeps nor blocks in the loop.
FairSpec == Spec /\ WF_vars(Arm) /\ WF_vars(Poll)
-----------------------------------------------------------------------------
TypeOK ==
    /\ class \in Classes /\ isFirst \in BOOLEAN /\ mirror \in BOOLEAN
    /\ now \in 0 .. MaxTime
    /\ base \in [Timers -> 0 .. MaxTime]
    /\ phase \in {"arm", "loop"} /\ idx \in Timers
    /\ timo \in [Timers -> Nat]
    /\ end \in [Timers -> 0 .. ClockMod - 1]
    /\ once \in [Timers -> BOOLEAN]
    /\ cond \in {0, 1} /\ avail \in BOOLEAN
    /\ calls \in [Timers -> Nat]
    /\ signals \in 0 .. MaxSignals
    /\ rounds \in Nat /\ bursts \in Nat /\ announced \in Nat

\* The timers that only the clock drives, and their period.
ClockDriven == {k \in Active : k = TX_TIMER => ~ Signalled}
Period(k) == IF k = TXGEN_TIMER THEN BurstPeriod ELSE BaseCycle

\* When the n-th call of a clock-driven timer is due.
DueAt(k, n) == base[k] + Offset[k] + (n - 1) * Period(k)

\* The timers do not drift: however late the callbacks ran, the next expiry of
\* a clock-driven timer is a whole number of periods after its first one.
NoDrift ==
    phase = "loop" =>
        \A k \in ClockDriven : end[k] = DueAt(k, calls[k] + 1)

\* No callback of a clock-driven timer runs before its time, and a timer whose
\* expiry lies ahead of the clock has had one call for every period that
\* passed: late calls are made up for, none is dropped and none is doubled.
OneCallPerPeriod ==
    phase = "loop" =>
        \A k \in ClockDriven :
            /\ calls[k] > 0 => DueAt(k, calls[k]) <= now
            /\ end[k] > now => DueAt(k, calls[k] + 1) > now

\* A thread that catches up alternates: whatever its delay, its Tx calls are
\* never more than one ahead of its Rx calls, so a late mirror does not run off
\* a row of sends while received frames wait in its port.
TxAtMostOneAhead ==
    (RxOffset <= TxOffset /\ TX_TIMER \in ClockDriven) =>
        calls[TX_TIMER] <= calls[RX_TIMER] + 1

\* A class that waits for its turn sends once per signal at most.  Its timer
\* moves a whole second with every signal and so runs far ahead of the clock,
\* until end_ns wraps and the timer is found expired again and again: these
\* calls do not send.
OneRoundPerSignal == Signalled => rounds + cond <= signals

\* A burst class sends one burst per burst period at most, and none twice.
OneBurstPerPeriod ==
    /\ bursts + (IF avail THEN 1 ELSE 0) <= announced
    /\ (phase = "loop" /\ announced > 0) => DueAt(TXGEN_TIMER, announced + 1) <= now

\* After any delay the thread catches up: every timer it uses is again and
\* again ahead of the clock, the wrapped ones included.
CatchesUp == \A k \in Timers : []<>(k \in Active => end[k] > now)
=============================================================================

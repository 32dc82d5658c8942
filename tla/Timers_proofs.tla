--------------------------- MODULE Timers_proofs ----------------------------
(***************************************************************************)
(* Proofs about the timers of a thread, for every cycle time, offset and   *)
(* burst period: they do not drift, no callback runs early, a thread that  *)
(* catches up alternates between Rx and Tx, and a class that waits for its *)
(* turn sends once per signal, and per burst period, at most. About the    *)
(* reports that go to the MQTT broker every so often, for any number of    *)
(* classes and every size of pool, ring and burst: every buffer is         *)
(* accounted for, and the reports of a class are published in order. And   *)
(* about the lcores of CNP tuning, for every number of lcores, ports and   *)
(* keys. What several programs call by the same name is declared once; no  *)
(* theorem is about two of them.                                           *)
(***************************************************************************)
EXTENDS ThreadTimer, SequenceElements, TLAPS
-----------------------------------------------------------------------------
(* The timers of a thread *)

USE DEF RX_TIMER, TX_TIMER, TXGEN_TIMER, MAX_TIMERS, Timers

Callback(k) ==
    \/ rx_thread_routine(k)
    \/ tx_thread_routine(k, Signaled(k))
    \/ tx_generation_thread_routine(k)

\* A callback replaces its own timeout on its first call and no timeout after
\* that.
LEMMA CallbackTimo ==
    ASSUME TypeOK, NEW k \in Timers, Callback(k)
    PROVE  \/ /\ ~ once[k] /\ once' = [once EXCEPT ![k] = TRUE]
              /\ \E p \in {BaseCycle, BurstPeriod, NsecPerSec} : timo' = [timo EXCEPT ![k] = p]
           \/ once[k] /\ once' = once /\ timo' = timo
  BY DEF Callback, TypeOK, rx_thread_routine, tx_thread_routine, tx_generation_thread_routine,
         thread_timer_set, cyclic_tx_thread_routine, burst_tx_thread_routine,
         udp_tx_thread_routine, l2_tx_thread_routine, NoRound, Round

\* A callback only counts up, and leaves the announcement TRUE or FALSE.
LEMMA CallbackCounts ==
    ASSUME TypeOK, NEW k \in Timers, Callback(k)
    PROVE  /\ rounds' \in Nat /\ bursts' \in Nat /\ announced' \in Nat /\ avail' \in BOOLEAN
<1>. rounds \in Nat /\ bursts \in Nat /\ announced \in Nat /\ avail \in BOOLEAN
  BY DEF TypeOK
<1>1. CASE UNCHANGED <<avail, rounds, bursts, announced>>
  BY <1>1
<1>2. CASE Round
  <2>1. avail' = FALSE /\ announced' = announced /\ rounds' = rounds + 1
    BY <1>2 DEF Round
  <2>2. bursts' = bursts + 1 \/ bursts' = bursts
    BY <1>2 DEF Round
  <2>3. rounds' \in Nat /\ bursts' \in Nat /\ announced' \in Nat
    BY <2>1, <2>2
  <2>4. avail' \in BOOLEAN
    BY <2>1, Zenon
  <2>. QED BY <2>3, <2>4
<1>3. CASE avail' = TRUE /\ announced' = announced + 1 /\ UNCHANGED <<rounds, bursts>>
  BY <1>3
<1>4. \/ UNCHANGED <<avail, rounds, bursts, announced>>
      \/ Round
      \/ avail' = TRUE /\ announced' = announced + 1 /\ UNCHANGED <<rounds, bursts>>
  BY DEF Callback, rx_thread_routine, tx_thread_routine, tx_generation_thread_routine,
         thread_timer_set, cyclic_tx_thread_routine, burst_tx_thread_routine,
         udp_tx_thread_routine, l2_tx_thread_routine, NoRound
<1>. QED BY <1>1, <1>2, <1>3, <1>4, Zenon

LEMMA ActiveTimers == class \in Classes => Active \subseteq Timers
  BY DEF Classes, Active, tsn_threads_routine, rtc_threads_routine, l2_threads_routine,
         rta_threads_routine, dcp_threads_routine, lldp_threads_routine, udp_threads_routine,
         CyclicTimers, BurstTimers

LEMMA NextType == TypeOK /\ [Next]_vars => TypeOK'
<1>. SUFFICES ASSUME TypeOK, [Next]_vars PROVE TypeOK'
  OBVIOUS
<1>. ClockMod \in Nat /\ ClockMod > 0 /\ MaxTime \in Nat /\ MaxSignals \in Nat
     /\ BaseCycle \in Nat /\ BurstPeriod \in Nat /\ NsecPerSec \in Nat
  BY TimerAssumption
<1>1. CASE Arm
  <2>1. nextIdx \in Timers
    BY DEF TypeOK, nextIdx
  <2>2. (now + timo[idx]) % ClockMod \in 0 .. ClockMod - 1
    BY DEF TypeOK
  <2>. QED BY <1>1, <2>1, <2>2 DEF TypeOK, Arm, fixed
<1>2. CASE Poll
  <2>1. nextIdx \in Timers /\ cond' \in {0, 1}
    BY <1>2 DEF TypeOK, nextIdx, Poll
  <2>2. CASE idx \in Active /\ due(idx)
    <3>1. Callback(idx) /\ rearm(idx) /\ calls' = [calls EXCEPT ![idx] = @ + 1]
      BY <1>2, <2>2 DEF Poll, Callback
    <3>2. idx \in Timers
      BY DEF TypeOK
    <3>a. once \in [Timers -> BOOLEAN] /\ timo \in [Timers -> Nat]
      BY DEF TypeOK
    <3>b. \/ /\ once' = [once EXCEPT ![idx] = TRUE]
             /\ \E p \in {BaseCycle, BurstPeriod, NsecPerSec} : timo' = [timo EXCEPT ![idx] = p]
          \/ once' = once /\ timo' = timo
      BY <3>1, <3>2, CallbackTimo
    <3>3. once' \in [Timers -> BOOLEAN] /\ timo' \in [Timers -> Nat]
      <4>1. once' = [once EXCEPT ![idx] = TRUE] \/ once' = once
        BY <3>b
      <4>2. (\E p \in Nat : timo' = [timo EXCEPT ![idx] = p]) \/ timo' = timo
        BY <3>b
      <4>3. once' \in [Timers -> BOOLEAN]
        BY <3>2, <3>a, <4>1, Zenon
      <4>4. timo' \in [Timers -> Nat]
        BY <3>2, <3>a, <4>2
      <4>. QED BY <4>3, <4>4
    <3>4. (end[idx] + timo'[idx]) % ClockMod \in 0 .. ClockMod - 1
      BY <3>2, <3>3 DEF TypeOK
    <3>5. end' \in [Timers -> 0 .. ClockMod - 1]
      BY <3>1, <3>2, <3>4 DEF TypeOK, rearm
    <3>6. rounds' \in Nat /\ bursts' \in Nat /\ announced' \in Nat /\ avail' \in BOOLEAN
      BY <3>1, <3>2, CallbackCounts
    <3>7. calls' \in [Timers -> Nat]
      BY <3>1, <3>2 DEF TypeOK
    <3>. QED BY <1>2, <2>1, <3>3, <3>5, <3>6, <3>7 DEF TypeOK, Poll, fixed
  <2>3. CASE ~ (idx \in Active /\ due(idx))
    BY <1>2, <2>1, <2>3 DEF TypeOK, Poll, fixed
  <2>. QED BY <2>2, <2>3
<1>3. CASE Signal
  BY <1>3 DEF TypeOK, Signal, fixed
<1>4. CASE Tick
  BY <1>4 DEF TypeOK, Tick, fixed
<1>5. CASE UNCHANGED vars
  BY <1>5 DEF TypeOK, vars
<1>. QED BY <1>1, <1>2, <1>3, <1>4, <1>5 DEF Next

LEMMA InitType == Init => TypeOK
  <1>. ClockMod \in Nat /\ \A k \in Timers : Offset[k] \in 0 .. ClockMod - 1
    BY TimerAssumption DEF Offset
  <1>1. Offset \in [Timers -> Nat] /\ Offset \in [Timers -> 0 .. ClockMod - 1]
    BY TimerAssumption DEF Offset
  <1>2. Init => isFirst \in BOOLEAN /\ avail \in BOOLEAN /\ once \in [Timers -> BOOLEAN]
    BY Zenon DEF Init
  <1>3. Init => /\ class \in Classes /\ mirror \in BOOLEAN /\ phase \in {"arm", "loop"}
                /\ idx \in Timers /\ cond \in {0, 1}
    BY DEF Init
  <1>4. Init => /\ now \in 0 .. MaxTime /\ base \in [Timers -> 0 .. MaxTime]
                /\ calls \in [Timers -> Nat] /\ signals \in 0 .. MaxSignals
                /\ rounds \in Nat /\ bursts \in Nat /\ announced \in Nat
    BY TimerAssumption DEF Init
  <1>5. Init => timo = Offset /\ end = Offset
    BY DEF Init
  <1>. QED BY <1>1, <1>2, <1>3, <1>4, <1>5 DEF TypeOK

\* The state of a thread's timers keeps its type.
THEOREM TypeCorrect == Spec => []TypeOK
  BY InitType, NextType, PTL DEF Spec
-----------------------------------------------------------------------------
(* One round per signal. *)

\* In a thread that waits for its turn a callback sends only when the loop took
\* a signal for it.
LEMMA RoundNeedsSignal ==
    ASSUME TypeOK, Signalled, NEW k \in Timers, Callback(k)
    PROVE  rounds' = rounds \/ (Signaled(k) /\ rounds' = rounds + 1)
  BY DEF Signalled, Signaled, Callback, TypeOK, rx_thread_routine, tx_thread_routine,
         tx_generation_thread_routine, thread_timer_set, cyclic_tx_thread_routine,
         burst_tx_thread_routine, udp_tx_thread_routine, l2_tx_thread_routine, NoRound, Round

\* A class that waits for its turn sends at most once for each do_signal() of
\* the class before, also after end_ns has wrapped.
THEOREM OneRoundPerSignalHolds == Spec => []OneRoundPerSignal
<1>1. Init => OneRoundPerSignal
  BY DEF Init, OneRoundPerSignal
<1>2. TypeOK /\ OneRoundPerSignal /\ [Next]_vars => OneRoundPerSignal'
  <2>. SUFFICES ASSUME TypeOK, OneRoundPerSignal, [Next]_vars, Signalled'
                PROVE  (rounds + cond <= signals)'
    BY DEF OneRoundPerSignal
  <2>. Signalled
    BY DEF Signalled, Next, Arm, Poll, Signal, Tick, fixed, vars
  <2>. rounds \in Nat /\ cond \in {0, 1} /\ signals \in Nat /\ rounds + cond <= signals
    BY TimerAssumption DEF TypeOK, OneRoundPerSignal
  <2>1. CASE Poll
    <3>1. CASE idx \in Active /\ due(idx)
      <4>1. Callback(idx) /\ idx \in Timers
        BY <2>1, <3>1 DEF Poll, Callback, TypeOK
      <4>2. rounds' = rounds \/ (Signaled(idx) /\ rounds' = rounds + 1)
        BY <4>1, RoundNeedsSignal
      <4>3. signals' = signals /\ cond' = IF Signaled(idx) THEN 0 ELSE cond
        BY <2>1 DEF Poll
      <4>4. Signaled(idx) => cond = 1
        BY DEF Signaled
      <4>. QED BY <4>2, <4>3, <4>4
    <3>2. CASE ~ (idx \in Active /\ due(idx))
      BY <2>1, <3>2 DEF Poll
    <3>. QED BY <3>1, <3>2
  <2>2. CASE Signal
    BY <2>2 DEF Signal
  <2>3. CASE Arm \/ Tick \/ UNCHANGED vars
    BY <2>3 DEF Arm, Tick, vars
  <2>. QED BY <2>1, <2>2, <2>3 DEF Next
<1>. QED BY <1>1, <1>2, TypeCorrect, PTL DEF Spec
-----------------------------------------------------------------------------
(* The grid of the clock-driven timers. *)

Armed(k) == phase = "loop" \/ k < idx

\* Only the classes that may start a cycle are first, and only a class that is
\* not first is signalled.
Modes == (isFirst => class \in {"tsn", "rtc"}) /\ (cond = 1 => Signalled)

\* Timer k has made calls[k] calls, none before its time, and is due next one
\* period after the last.
OnGrid(k) ==
    /\ base[k] <= now
    /\ once[k] <=> calls[k] > 0
    /\ once[k] => timo[k] = Period(k)
    /\ end[k] = DueAt(k, calls[k] + 1)
    /\ calls[k] > 0 => DueAt(k, calls[k]) <= now

Fresh == \A k \in Timers : ~ once[k] /\ calls[k] = 0 /\ timo[k] = Offset[k]

Grid ==
    /\ Modes
    /\ phase = "arm" => Fresh
    /\ \A k \in Timers : (k \in ClockDriven /\ Armed(k)) => OnGrid(k)

\* The first call of a clock-driven timer sets its period.
LEMMA CallbackPeriod ==
    ASSUME TypeOK, Modes, NEW k \in Timers, k \in ClockDriven, Callback(k)
    PROVE  \/ ~ once[k] /\ once' = [once EXCEPT ![k] = TRUE] /\ timo' = [timo EXCEPT ![k] = Period(k)]
           \/ once[k] /\ once' = once /\ timo' = timo
  BY DEF Modes, ClockDriven, Period, Signalled, Callback, TypeOK, rx_thread_routine,
         tx_thread_routine, tx_generation_thread_routine, thread_timer_set,
         cyclic_tx_thread_routine, burst_tx_thread_routine, udp_tx_thread_routine,
         l2_tx_thread_routine, NoRound, Round

LEMMA NextDue ==
    ASSUME NEW b \in Int, NEW o \in Int, NEW p \in Int, NEW n \in Int
    PROVE  b + o + ((n + 1) - 1) * p = b + o + (n - 1) * p + p
  <1>1. ((n + 1) - 1) * p = (n - 1) * p + p
    BY SMT
  <1>. QED BY <1>1

\* The call of a clock-driven timer that is due keeps it on its grid.
LEMMA PollOnGrid ==
    ASSUME TypeOK, Modes, Poll, phase = "loop", idx \in ClockDriven, due(idx), OnGrid(idx),
           NEW k, k = idx
    PROVE  OnGrid(k)'
<1>. idx \in Timers /\ idx \in Active
  BY DEF TypeOK, ClockDriven
<1>1. Callback(idx) /\ rearm(idx) /\ calls' = [calls EXCEPT ![idx] = @ + 1] /\ now' = now /\ base' = base
  BY DEF Poll, Callback
<1>2. ~ Signaled(idx) /\ now >= end[idx]
  BY DEF Modes, Signaled, ClockDriven, due
<1>3. \/ ~ once[idx] /\ once' = [once EXCEPT ![idx] = TRUE] /\ timo' = [timo EXCEPT ![idx] = Period(idx)]
      \/ once[idx] /\ once' = once /\ timo' = timo
  BY <1>1, CallbackPeriod
<1>4. once'[idx] /\ timo'[idx] = Period(idx)
  BY <1>3 DEF TypeOK, OnGrid
<1>5. calls'[idx] = calls[idx] + 1 /\ calls[idx] \in Nat
  BY <1>1 DEF TypeOK
<1>6. Period(idx) \in Nat /\ MaxTime + Period(idx) < ClockMod /\ ClockMod \in Nat /\ MaxTime \in Nat
  BY TimerAssumption DEF Period
<1>7. end[idx] \in Nat /\ end[idx] <= MaxTime /\ now \in 0 .. MaxTime /\ base[idx] \in Nat
  BY <1>2, TimerAssumption DEF TypeOK
<1>8. end'[idx] = (end[idx] + Period(idx)) % ClockMod
  BY <1>1, <1>4 DEF rearm, TypeOK
<1>9. end'[idx] = end[idx] + Period(idx)
  BY <1>6, <1>7, <1>8
<1>10. Offset[idx] \in Nat
  BY TimerAssumption DEF Offset
<1>11. end[idx] = base[idx] + Offset[idx] + ((calls[idx] + 1) - 1) * Period(idx)
  BY DEF OnGrid, DueAt
<1>12. base[idx] + Offset[idx] + ((calls[idx] + 1 + 1) - 1) * Period(idx)
         = base[idx] + Offset[idx] + ((calls[idx] + 1) - 1) * Period(idx) + Period(idx)
  BY <1>5, <1>6, <1>7, <1>10, NextDue
<1>14. DueAt(k, calls[k] + 1)' = base[idx] + Offset[idx] + ((calls[idx] + 1 + 1) - 1) * Period(idx)
  BY <1>1, <1>5 DEF DueAt, Period, Offset
<1>15. DueAt(k, calls[k])' = base[idx] + Offset[idx] + ((calls[idx] + 1) - 1) * Period(idx)
  BY <1>1, <1>5 DEF DueAt, Period, Offset
<1>16. Period(k)' = Period(idx)
  BY DEF Period
<1>17. base'[k] <= now' /\ calls'[k] > 0 /\ once'[k]
  BY <1>1, <1>4, <1>5 DEF OnGrid
<1>18. end'[k] = DueAt(k, calls[k] + 1)' /\ DueAt(k, calls[k])' <= now'
  BY <1>1, <1>2, <1>7, <1>9, <1>11, <1>12, <1>14, <1>15
<1>. QED BY <1>4, <1>16, <1>17, <1>18 DEF OnGrid

LEMMA FixedMode ==
    ASSUME [Next]_vars
    PROVE  /\ class' = class /\ isFirst' = isFirst /\ mirror' = mirror
           /\ Active' = Active /\ ClockDriven' = ClockDriven /\ Signalled' = Signalled
<1>1. class' = class /\ isFirst' = isFirst /\ mirror' = mirror
  BY DEF Next, Arm, Poll, Signal, Tick, fixed, vars
<1>2. Signalled' = Signalled
  BY <1>1 DEF Signalled
<1>3. Active' = Active
  BY <1>1, Zenon DEF Active, tsn_threads_routine, rtc_threads_routine, l2_threads_routine,
     rta_threads_routine, dcp_threads_routine, lldp_threads_routine, udp_threads_routine,
     CyclicTimers, BurstTimers
<1>. QED BY <1>1, <1>2, <1>3, Zenon DEF ClockDriven

\* A step that leaves timer k alone keeps it on its grid.
LEMMA OthersStayOnGrid ==
    ASSUME TypeOK, NEW k \in Timers, OnGrid(k), now' \in Nat, now <= now', base'[k] = base[k],
           once'[k] = once[k], timo'[k] = timo[k], end'[k] = end[k], calls'[k] = calls[k]
    PROVE  OnGrid(k)'
<1>1. DueAt(k, calls[k] + 1)' = DueAt(k, calls[k] + 1) /\ DueAt(k, calls[k])' = DueAt(k, calls[k])
  BY DEF DueAt, Period, Offset
<1>2. base[k] \in Nat /\ now \in Nat /\ calls[k] \in Nat /\ Period(k) \in Nat /\ Offset[k] \in Nat
  BY TimerAssumption DEF TypeOK, Period, Offset
<1>3. DueAt(k, calls[k]) \in Int
  BY <1>2 DEF DueAt
<1>4. Period(k)' = Period(k)
  BY DEF Period
<1>. QED BY <1>1, <1>2, <1>3, <1>4 DEF OnGrid

LEMMA GridStep == TypeOK /\ Grid /\ [Next]_vars => Grid'
<1>. SUFFICES ASSUME TypeOK, Grid, [Next]_vars PROVE Grid'
  OBVIOUS
<1>. TypeOK'
  BY NextType
<1>. now \in Nat /\ now' \in Nat /\ now <= now'
  BY TimerAssumption DEF TypeOK, Next, Arm, Poll, Signal, Tick, vars
<1>1. Modes'
  <2>1. cond' = 1 => cond = 1 \/ Signalled
    BY DEF Next, Arm, Poll, Signal, Tick, vars, TypeOK
  <2>. QED BY <2>1, FixedMode DEF Grid, Modes
<1>2. CASE Arm
  <2>. idx \in Timers /\ phase = "arm" /\ Fresh
    BY <1>2 DEF TypeOK, Arm, Grid
  <2>1. Fresh'
    BY <1>2 DEF Fresh, Arm, Offset
  <2>2. ASSUME NEW k \in Timers, k \in ClockDriven', Armed(k)' PROVE OnGrid(k)'
    <3>. k \in ClockDriven
      BY <2>2, FixedMode
    <3>1. CASE k = idx
      <4>1. base'[k] = now /\ now' = now /\ end'[k] = (now + timo[k]) % ClockMod
        BY <1>2, <3>1 DEF Arm, TypeOK
      <4>2. timo[k] = Offset[k] /\ ~ once'[k] /\ calls'[k] = 0
        BY <2>1 DEF Fresh
      <4>3. Offset[k] \in Nat /\ MaxTime + Offset[k] < ClockMod /\ ClockMod \in Nat /\ now <= MaxTime
            /\ MaxTime \in Nat
        BY TimerAssumption DEF Offset, TypeOK
      <4>a. end'[k] = (now + Offset[k]) % ClockMod
        BY <4>1, <4>2
      <4>b. (now + Offset[k]) % ClockMod = now + Offset[k]
        BY <4>3
      <4>4. end'[k] = now + Offset[k]
        BY <4>a, <4>b
      <4>5. Period(k) \in Nat
        BY TimerAssumption DEF Period
      <4>6. ((0 + 1) - 1) * Period(k) = 0
        BY <4>5
      <4>7. DueAt(k, calls[k] + 1)' = now + Offset[k] + ((0 + 1) - 1) * Period(k)
        BY <4>1, <4>2 DEF DueAt, Offset, Period
      <4>. QED BY <4>1, <4>2, <4>3, <4>4, <4>6, <4>7 DEF OnGrid
    <3>2. CASE k # idx
      <4>1. k < idx
        <5>1. idx' = nextIdx /\ (phase' = "loop" => nextIdx = 0)
          BY <1>2 DEF Arm
        <5>2. idx \in {0, 1, 2} /\ k \in {0, 1, 2}
          OBVIOUS
        <5>3. nextIdx = IF idx = 2 THEN 0 ELSE idx + 1
          BY <5>2 DEF nextIdx
        <5>4. phase' = "loop" \/ k < idx'
          BY <2>2 DEF Armed
        <5>. QED BY <3>2, <5>1, <5>2, <5>3, <5>4
      <4>2. OnGrid(k)
        BY <4>1 DEF Grid, Armed
      <4>3. /\ base'[k] = base[k] /\ once'[k] = once[k] /\ timo'[k] = timo[k]
            /\ end'[k] = end[k] /\ calls'[k] = calls[k]
        BY <1>2, <3>2 DEF Arm, TypeOK
      <4>. QED BY <4>2, <4>3, OthersStayOnGrid
    <3>. QED BY <3>1, <3>2
  <2>. QED BY <1>1, <2>1, <2>2 DEF Grid
<1>3. CASE Poll
  <2>. phase = "loop" /\ phase' = "loop" /\ idx \in Timers
    BY <1>3 DEF Poll, TypeOK
  <2>1. ASSUME NEW k \in Timers, k \in ClockDriven PROVE OnGrid(k)'
    <3>. OnGrid(k)
      BY <2>1 DEF Grid, Armed
    <3>1. CASE k = idx /\ due(idx)
      BY <1>3, <2>1, <3>1, PollOnGrid DEF Grid
    <3>2. CASE ~ (k = idx /\ due(idx))
      <4>1. CASE idx \in Active /\ due(idx)
        <5>1. Callback(idx) /\ rearm(idx) /\ calls' = [calls EXCEPT ![idx] = @ + 1] /\ base' = base
          BY <1>3, <4>1 DEF Poll, Callback
        <5>2. k # idx
          BY <3>2, <4>1
        <5>3. once'[k] = once[k] /\ timo'[k] = timo[k]
          BY <5>1, <5>2, CallbackTimo DEF TypeOK
        <5>4. end'[k] = end[k] /\ calls'[k] = calls[k]
          BY <5>1, <5>2 DEF rearm, TypeOK
        <5>. QED BY <5>1, <5>3, <5>4, OthersStayOnGrid
      <4>2. CASE ~ (idx \in Active /\ due(idx))
        BY <1>3, <4>2, OthersStayOnGrid DEF Poll
      <4>. QED BY <4>1, <4>2
    <3>. QED BY <3>1, <3>2
  <2>. QED BY <1>1, <2>1, FixedMode DEF Grid
<1>4. CASE Signal \/ Tick \/ UNCHANGED vars
  <2>1. UNCHANGED <<base, phase, idx, timo, end, once, calls>>
    BY <1>4 DEF Signal, Tick, vars
  <2>2. phase' = "arm" => Fresh'
    BY <2>1 DEF Grid, Fresh, Offset
  <2>3. ASSUME NEW k \in Timers, k \in ClockDriven', Armed(k)' PROVE OnGrid(k)'
    <3>1. OnGrid(k)
      BY <2>1, <2>3, FixedMode DEF Grid, Armed
    <3>. QED BY <2>1, <3>1, OthersStayOnGrid
  <2>. QED BY <1>1, <2>2, <2>3 DEF Grid
<1>. QED BY <1>2, <1>3, <1>4 DEF Next

LEMMA GridInvariant == Spec => []Grid
<1>1. Init => Grid
  <2>. SUFFICES ASSUME Init PROVE Grid
    OBVIOUS
  <2>a. isFirst => class \in {"tsn", "rtc"}
    BY Zenon DEF Init
  <2>1. Modes
    BY <2>a DEF Init, Modes
  <2>2. Fresh
    BY DEF Init, Fresh
  <2>3. \A k \in Timers : ~ Armed(k)
    BY DEF Init, Armed
  <2>. QED BY <2>1, <2>2, <2>3 DEF Grid
<1>. QED BY <1>1, GridStep, TypeCorrect, PTL DEF Spec

\* For every cycle time, offset and burst period the expiry of a timer that the
\* clock drives stays a whole number of periods after its first one.
THEOREM NoDriftHolds == Spec => []NoDrift
<1>1. TypeOK /\ Grid => NoDrift
  BY ActiveTimers DEF Grid, Armed, OnGrid, NoDrift, ClockDriven, TypeOK
<1>. QED BY <1>1, GridInvariant, TypeCorrect, PTL

\* No callback of a timer that the clock drives runs early, and none is dropped
\* or doubled, however late the thread is.
THEOREM OneCallPerPeriodHolds == Spec => []OneCallPerPeriod
<1>1. TypeOK /\ Grid => OneCallPerPeriod
  BY ActiveTimers DEF Grid, Armed, OnGrid, OneCallPerPeriod, ClockDriven, TypeOK
<1>. QED BY <1>1, GridInvariant, TypeCorrect, PTL
-----------------------------------------------------------------------------
(* Rx and Tx alternate. *)

\* Tx is armed after Rx, and when the loop comes to the Tx timer it has made up
\* for an Rx call that was behind.
Alternate ==
    /\ Armed(TX_TIMER) => base[RX_TIMER] <= base[TX_TIMER]
    /\ phase = "loop" => calls[TX_TIMER] <= calls[RX_TIMER] + (IF idx = TX_TIMER THEN 0 ELSE 1)

LEMMA RxClockDriven == class \in Classes => RX_TIMER \in ClockDriven
  BY DEF ClockDriven, Classes, Active, tsn_threads_routine, rtc_threads_routine,
     l2_threads_routine, rta_threads_routine, dcp_threads_routine, lldp_threads_routine,
     udp_threads_routine, CyclicTimers, BurstTimers

\* Where Tx has run once more than Rx, Rx is due.
LEMMA RxIsDue ==
    ASSUME TypeOK, OnGrid(RX_TIMER), OnGrid(TX_TIMER), RxOffset <= TxOffset,
           base[RX_TIMER] <= base[TX_TIMER], calls[TX_TIMER] = calls[RX_TIMER] + 1
    PROVE  end[RX_TIMER] <= now
<1>. DEFINE n == calls[0] + 1
            x == (n - 1) * BaseCycle
<1>1. calls[0] \in Nat /\ base[0] \in Nat /\ base[1] \in Nat /\ now \in Nat
  BY TimerAssumption DEF TypeOK
<1>2. RxOffset \in Nat /\ TxOffset \in Nat /\ BaseCycle \in Nat
  BY TimerAssumption
<1>3. x \in Int
  BY <1>1, <1>2
<1>4. end[0] = base[0] + RxOffset + x
  BY DEF OnGrid, DueAt, Period, Offset
<1>5. base[1] + TxOffset + x <= now
  BY <1>1 DEF OnGrid, DueAt, Period, Offset
<1>. QED
  <2>. HIDE DEF x
  <2>. QED BY <1>1, <1>2, <1>3, <1>4, <1>5

LEMMA AlternateStep ==
    ASSUME TypeOK, Grid, Alternate, [Next]_vars, RxOffset <= TxOffset, TX_TIMER \in ClockDriven
    PROVE  Alternate'
<1>. RX_TIMER \in ClockDriven /\ RX_TIMER \in Active
  BY RxClockDriven DEF TypeOK, ClockDriven
<1>. calls \in [Timers -> Nat] /\ base \in [Timers -> Nat] /\ now \in Nat
  BY TimerAssumption DEF TypeOK
<1>1. CASE Arm
  <2>. idx \in {0, 1, 2} /\ phase = "arm" /\ Fresh
    BY <1>1 DEF TypeOK, Arm, Grid
  <2>1. calls'[0] = 0 /\ calls'[1] = 0
    BY <1>1 DEF Arm, Fresh
  <2>2. nextIdx = IF idx = 2 THEN 0 ELSE idx + 1
    BY DEF nextIdx
  <2>3. Armed(1)' => base'[0] <= base'[1]
    <3>1. CASE idx = 0
      BY <1>1, <2>2, <3>1 DEF Arm, Armed
    <3>2. CASE idx = 1
      <4>1. OnGrid(0)
        BY <3>2 DEF Grid, Armed
      <4>. QED BY <1>1, <3>2, <4>1 DEF Arm, OnGrid
    <3>3. CASE idx = 2
      BY <1>1, <3>3 DEF Arm, Armed, Alternate
    <3>. QED BY <3>1, <3>2, <3>3
  <2>. QED BY <2>1, <2>3 DEF Alternate
<1>2. CASE Poll
  <2>. idx \in {0, 1, 2} /\ phase = "loop" /\ phase' = "loop" /\ base' = base
    BY <1>2 DEF Poll, TypeOK
  <2>. base[0] <= base[1] /\ OnGrid(0) /\ OnGrid(1)
    BY DEF Alternate, Armed, Grid
  <2>1. idx' = IF idx = 2 THEN 0 ELSE idx + 1
    BY <1>2 DEF Poll, nextIdx
  <2>2. \A k \in Timers : k # idx => calls'[k] = calls[k]
    BY <1>2 DEF Poll
  <2>3. calls'[idx] = calls[idx] \/ calls'[idx] = calls[idx] + 1
    BY <1>2 DEF Poll
  <2>4. CASE idx = 0
    <3>1. CASE calls[1] <= calls[0]
      BY <2>1, <2>2, <2>3, <2>4, <3>1 DEF Alternate
    <3>2. CASE calls[1] = calls[0] + 1
      <4>1. end[0] <= now
        BY <3>2, RxIsDue
      <4>2. calls'[0] = calls[0] + 1
        BY <1>2, <2>4, <4>1 DEF Poll, due, TypeOK
      <4>. QED BY <2>1, <2>2, <2>4, <3>2, <4>2 DEF Alternate
    <3>3. calls[1] <= calls[0] + 1
      BY <2>4 DEF Alternate
    <3>. QED BY <3>1, <3>2, <3>3
  <2>5. CASE idx = 1
    BY <2>1, <2>2, <2>3, <2>5 DEF Alternate
  <2>6. CASE idx = 2
    BY <2>1, <2>2, <2>6 DEF Alternate
  <2>. QED BY <2>4, <2>5, <2>6
<1>3. CASE Signal \/ Tick \/ UNCHANGED vars
  BY <1>3 DEF Signal, Tick, vars, Alternate, Armed
<1>. QED BY <1>1, <1>2, <1>3 DEF Next

\* The Tx calls of a thread that the clock drives are never more than one ahead
\* of its Rx calls, however late it is and however it catches up.
THEOREM TxAtMostOneAheadHolds == Spec => []TxAtMostOneAhead
<1>. DEFINE I == (RxOffset <= TxOffset /\ TX_TIMER \in ClockDriven) => Alternate
<1>1. Init => I
  BY DEF Init, Alternate, Armed
<1>2. TypeOK /\ Grid /\ I /\ [Next]_vars => I'
  BY AlternateStep, FixedMode
<1>3. TypeOK /\ Grid /\ I => TxAtMostOneAhead
  BY DEF Grid, Fresh, Alternate, TxAtMostOneAhead, TypeOK
<1>. QED BY <1>1, <1>2, <1>3, GridInvariant, TypeCorrect, PTL DEF Spec
-----------------------------------------------------------------------------
(* One burst per burst period. *)

\* The first call of the TxGen timer sets its period and every later one
\* announces a burst; the Tx callback takes an announcement when it sends.
Announced ==
    /\ bursts + (IF avail THEN 1 ELSE 0) <= announced
    /\ announced > 0 => TXGEN_TIMER \in Active /\ calls[TXGEN_TIMER] = announced + 1
    /\ announced = 0 => calls[TXGEN_TIMER] <= 1
    /\ once[TXGEN_TIMER] <=> calls[TXGEN_TIMER] > 0

\* What a callback does to the burst it may find announced.
LEMMA CallbackBursts ==
    ASSUME TypeOK, NEW k \in Timers, Callback(k),
           bursts + (IF avail THEN 1 ELSE 0) <= announced
    PROVE  /\ bursts' + (IF avail' THEN 1 ELSE 0) <= announced'
           /\ announced' = IF k = TXGEN_TIMER /\ once[k] THEN announced + 1 ELSE announced
<1>. rounds \in Nat /\ bursts \in Nat /\ announced \in Nat /\ avail \in BOOLEAN
  BY DEF TypeOK
<1>1. CASE k = TXGEN_TIMER /\ once[k]
  <2>1. avail' = TRUE /\ announced' = announced + 1 /\ bursts' = bursts
    BY <1>1 DEF Callback, rx_thread_routine, tx_thread_routine, tx_generation_thread_routine,
                thread_timer_set
  <2>2. bursts <= announced
    OBVIOUS
  <2>. QED BY <1>1, <2>1, <2>2
<1>2. CASE ~ (k = TXGEN_TIMER /\ once[k])
  <2>1. UNCHANGED <<avail, bursts, announced>> \/ Round
    BY <1>2 DEF Callback, rx_thread_routine, tx_thread_routine, tx_generation_thread_routine,
                thread_timer_set, cyclic_tx_thread_routine, burst_tx_thread_routine,
                udp_tx_thread_routine, l2_tx_thread_routine, NoRound
  <2>2. CASE UNCHANGED <<avail, bursts, announced>>
    BY <1>2, <2>2
  <2>3. CASE Round
    <3>1. avail' = FALSE /\ announced' = announced
      BY <2>3 DEF Round
    <3>2. bursts' = bursts + (IF avail THEN 1 ELSE 0)
      BY <2>3 DEF Round
    <3>. QED BY <1>2, <3>1, <3>2
  <2>. QED BY <2>1, <2>2, <2>3
<1>. QED BY <1>1, <1>2

LEMMA AnnouncedStep == TypeOK /\ Announced /\ [Next]_vars => Announced'
<1>. SUFFICES ASSUME TypeOK, Announced, [Next]_vars PROVE Announced'
  OBVIOUS
<1>. calls \in [Timers -> Nat] /\ announced \in Nat /\ once \in [Timers -> BOOLEAN]
  BY DEF TypeOK
<1>1. CASE Poll /\ idx \in Active /\ due(idx)
  <2>. idx \in Timers
    BY DEF TypeOK
  <2>1. Callback(idx) /\ calls' = [calls EXCEPT ![idx] = @ + 1]
    BY <1>1 DEF Poll, Callback
  <2>2. /\ bursts' + (IF avail' THEN 1 ELSE 0) <= announced'
        /\ announced' = IF idx = TXGEN_TIMER /\ once[idx] THEN announced + 1 ELSE announced
    BY <2>1, CallbackBursts, Zenon DEF Announced
  <2>3. once' = IF once[idx] THEN once ELSE [once EXCEPT ![idx] = TRUE]
    BY <2>1, CallbackTimo
  <2>4. CASE idx = TXGEN_TIMER
    <3>1. once'[2] /\ calls'[2] = calls[2] + 1 /\ calls[2] \in Nat
      BY <2>1, <2>3, <2>4
    <3>2. once[2] => announced' = announced + 1 /\ calls[2] = announced + 1
      BY <2>2, <2>4 DEF Announced
    <3>3. ~ once[2] => announced' = announced /\ calls[2] = 0 /\ announced = 0
      BY <2>2, <2>4 DEF Announced
    <3>4. TXGEN_TIMER \in Active'
      BY <1>1, <2>4, FixedMode
    <3>5. announced' > 0 => calls'[2] = announced' + 1
      BY <3>1, <3>2, <3>3
    <3>6. announced' = 0 => calls'[2] <= 1
      BY <3>1, <3>2, <3>3
    <3>7. once'[2] <=> calls'[2] > 0
      BY <3>1
    <3>. QED BY <2>2, <3>4, <3>5, <3>6, <3>7 DEF Announced
  <2>5. CASE idx # TXGEN_TIMER
    <3>a. once' = once \/ once' = [once EXCEPT ![idx] = TRUE]
      BY <2>3
    <3>b. once'[2] = once[2]
      BY <2>5, <3>a
    <3>1. once'[2] = once[2] /\ calls'[2] = calls[2] /\ announced' = announced
      BY <2>1, <2>2, <2>5, <3>b
    <3>2. announced' > 0 => TXGEN_TIMER \in Active' /\ calls'[2] = announced' + 1
      BY <3>1, FixedMode DEF Announced
    <3>3. announced' = 0 => calls'[2] <= 1
      BY <3>1 DEF Announced
    <3>4. once'[2] <=> calls'[2] > 0
      BY <3>1 DEF Announced
    <3>. QED BY <2>2, <3>2, <3>3, <3>4 DEF Announced
  <2>. QED BY <2>4, <2>5
<1>2. CASE ~ (Poll /\ idx \in Active /\ due(idx))
  <2>1. UNCHANGED <<bursts, avail, announced, calls, once>>
    BY <1>2 DEF Next, Arm, Poll, Signal, Tick, vars
  <2>. QED BY <2>1, FixedMode DEF Announced
<1>. QED BY <1>1, <1>2

\* For every cycle time and burst period a burst class sends one burst per
\* burst period at most and none twice, however late its thread runs.
THEOREM OneBurstPerPeriodHolds == Spec => []OneBurstPerPeriod
<1>1. Init => Announced
  BY DEF Init, Announced
<1>2. TypeOK /\ Grid /\ Announced => OneBurstPerPeriod
  <2>. SUFFICES ASSUME TypeOK, Grid, Announced, phase = "loop", announced > 0
                PROVE  DueAt(TXGEN_TIMER, announced + 1) <= now
    BY DEF OneBurstPerPeriod, Announced
  <2>1. calls[TXGEN_TIMER] = announced + 1 /\ announced \in Nat
    BY DEF Announced, TypeOK
  <2>2. TXGEN_TIMER \in ClockDriven
    BY DEF Announced, ClockDriven
  <2>3. OnGrid(TXGEN_TIMER)
    BY <2>2 DEF Grid, Armed
  <2>. QED BY <2>1, <2>3 DEF OnGrid
<1>. QED BY <1>1, <1>2, AnnouncedStep, GridInvariant, TypeCorrect, PTL DEF Spec

HIDE DEF RX_TIMER, TX_TIMER, TXGEN_TIMER, MAX_TIMERS, Timers
-----------------------------------------------------------------------------
(* The reports to the MQTT broker *)

CONSTANTS Types, PoolSize, RingCapacity, BurstCount, LogPeriod, Interval, MaxReports,
          MaxLate

VARIABLES ready, number, pc, pool, ring, leaked, at, wake, burst, spent, published, stop

Mqtt == INSTANCE MqttLog

\* An element is put at the end, as on a ring.
LEMMA AppendElements ==
    ASSUME NEW S, NEW s \in Seq(S), NEW e \in S
    PROVE  /\ Append(s, e) \in Seq(S)
           /\ Elements(Append(s, e)) = Elements(s) \cup {e}
<1>1. Append(s, e) \in Seq(S) /\ Len(Append(s, e)) = Len(s) + 1 /\ Len(s) \in Nat
  OBVIOUS
<1>2. \A i \in 1 .. Len(s) : Append(s, e)[i] = s[i]
  OBVIOUS
<1>3. Append(s, e)[Len(s) + 1] = e
  OBVIOUS
<1>4. 1 .. Len(s) + 1 = (1 .. Len(s)) \cup {Len(s) + 1}
  BY <1>1
<1>5. Elements(Append(s, e)) = Elements(s) \cup {e}
  BY <1>1, <1>2, <1>3, <1>4 DEF Elements
<1>. QED BY <1>1, <1>5

\* A sequence cut in two.
LEMMA SplitElements ==
    ASSUME NEW S, NEW s \in Seq(S), NEW n \in 0 .. Len(s)
    PROVE  LET a == SubSeq(s, 1, n)
               b == SubSeq(s, n + 1, Len(s))
           IN  /\ a \in Seq(S) /\ b \in Seq(S) /\ Len(a) = n /\ Len(b) = Len(s) - n
               /\ \A i \in 1 .. n : a[i] = s[i]
               /\ \A i \in 1 .. Len(b) : b[i] = s[n + i]
               /\ Elements(s) = Elements(a) \cup Elements(b)
<1>. DEFINE a == SubSeq(s, 1, n)
            b == SubSeq(s, n + 1, Len(s))
<1>0. Len(s) \in Nat /\ n \in Nat /\ n <= Len(s)
  OBVIOUS
<1>1. a \in Seq(S) /\ Len(a) = n /\ \A i \in 1 .. n : a[i] = s[i]
  BY <1>0
<1>2. b \in Seq(S) /\ Len(b) = Len(s) - n /\ \A i \in 1 .. Len(b) : b[i] = s[n + i]
  BY <1>0
<1>. HIDE DEF a, b
<1>3. Elements(s) \subseteq Elements(a) \cup Elements(b)
  <2>. SUFFICES ASSUME NEW i \in 1 .. Len(s) PROVE s[i] \in Elements(a) \cup Elements(b)
    BY Zenon DEF Elements
  <2>1. CASE i <= n
    BY <1>0, <1>1, <2>1 DEF Elements
  <2>2. CASE i > n
    <3>1. i - n \in 1 .. Len(b) /\ n + (i - n) = i
      BY <1>0, <1>2, <2>2
    <3>2. b[i - n] = s[i]
      BY <1>2, <3>1
    <3>. QED BY <3>1, <3>2 DEF Elements
  <2>. QED BY <1>0, <2>1, <2>2
<1>4. \A i \in 1 .. Len(b) : n + i \in 1 .. Len(s)
  BY <1>0, <1>2
<1>5. \A i \in 1 .. n : i \in 1 .. Len(s)
  BY <1>0
<1>6. Elements(a) \cup Elements(b) \subseteq Elements(s)
  <2>1. \A i \in 1 .. n : a[i] \in Elements(s)
    BY <1>1, <1>5 DEF Elements
  <2>2. \A i \in 1 .. Len(b) : b[i] \in Elements(s)
    BY <1>2, <1>4 DEF Elements
  <2>. QED BY <1>1, <2>1, <2>2, Zenon DEF Elements
<1>8. Elements(s) = Elements(a) \cup Elements(b)
  BY <1>3, <1>6
<1>. QED BY <1>1, <1>2, <1>8, Zenon DEF a, b

\* The first element is taken off.
LEMMA TailElements ==
    ASSUME NEW S, NEW s \in Seq(S), s # <<>>
    PROVE  /\ Head(s) \in S /\ Head(s) = s[1] /\ 1 \in 1 .. Len(s)
           /\ Tail(s) \in Seq(S) /\ Len(Tail(s)) = Len(s) - 1
           /\ \A i \in 1 .. Len(Tail(s)) : Tail(s)[i] = s[i + 1] /\ i + 1 \in 1 .. Len(s)
           /\ Elements(s) = {Head(s)} \cup Elements(Tail(s))
<1>1. /\ Head(s) \in S /\ Head(s) = s[1] /\ Len(s) \in Nat /\ Len(s) > 0
      /\ Tail(s) \in Seq(S) /\ Len(Tail(s)) = Len(s) - 1
      /\ \A i \in 1 .. Len(Tail(s)) : Tail(s)[i] = s[i + 1]
  OBVIOUS
<1>2. \A i \in 1 .. Len(Tail(s)) : i + 1 \in 1 .. Len(s)
  BY <1>1
<1>3. \A i \in 1 .. Len(s) : i = 1 \/ (i - 1 \in 1 .. Len(Tail(s)) /\ Tail(s)[i - 1] = s[i])
  <2>. TAKE i \in 1 .. Len(s)
  <2>1. CASE i # 1
    <3>1. i - 1 \in 1 .. Len(Tail(s)) /\ (i - 1) + 1 = i
      BY <1>1, <2>1
    <3>. QED BY <1>1, <3>1
  <2>. QED BY <2>1
<1>4. 1 \in 1 .. Len(s)
  BY <1>1
<1>5. Elements(s) = {Head(s)} \cup Elements(Tail(s))
  <2>. DEFINE h == Head(s)
              t == Tail(s)
  <2>1. /\ h = s[1]
        /\ \A i \in 1 .. Len(t) : t[i] = s[i + 1] /\ i + 1 \in 1 .. Len(s)
        /\ \A i \in 1 .. Len(s) : i = 1 \/ (i - 1 \in 1 .. Len(t) /\ t[i - 1] = s[i])
    BY <1>1, <1>2, <1>3
  <2>. HIDE DEF h, t
  <2>2. ASSUME NEW e \in Elements(t) PROVE e \in Elements(s)
    <3>1. PICK i \in 1 .. Len(t) : e = t[i]
      BY DEF Elements
    <3>. QED BY <2>1, <3>1 DEF Elements
  <2>3. ASSUME NEW e \in Elements(s), e # h PROVE e \in Elements(t)
    <3>1. PICK i \in 1 .. Len(s) : e = s[i]
      BY DEF Elements
    <3>2. i - 1 \in 1 .. Len(t) /\ t[i - 1] = e
      BY <2>1, <2>3, <3>1
    <3>. QED BY <3>2 DEF Elements
  <2>4. h \in Elements(s)
    BY <1>4, <2>1 DEF Elements
  <2>5. Elements(s) = {h} \cup Elements(t)
    BY <2>2, <2>3, <2>4
  <2>. QED BY <2>5 DEF h, t
<1>. QED BY <1>1, <1>2, <1>4, <1>5

\* The types, and what the thread has outside a burst.
MqttPlaces == Mqtt!TypeOK /\ (at # "publish" => burst = <<>> /\ spent = 0)

LEMMA MqttFetchSize ==
    ASSUME Mqtt!MqttLogAssumption, MqttPlaces, Mqtt!mqtt_thread_fetches
    PROVE  \E n \in 1 .. Len(ring) :
               burst' = SubSeq(ring, 1, n) /\ ring' = SubSeq(ring, n + 1, Len(ring))
<1>. DEFINE n == Mqtt!rte_ring_dequeue_burst
<1>1. BurstCount \in Nat \ {0} /\ Len(ring) \in Nat
  BY DEF Mqtt!MqttLogAssumption, MqttPlaces, Mqtt!TypeOK
<1>2. n > 0
  BY DEF Mqtt!mqtt_thread_fetches
<1>3. n \in 1 .. Len(ring)
  BY <1>1, <1>2 DEF Mqtt!rte_ring_dequeue_burst
<1>. QED BY <1>3 DEF Mqtt!mqtt_thread_fetches

\* A step that leaves the reports and their buffers alone.
MqttElsewhere ==
  /\ UNCHANGED <<pc, number, pool, ring, leaked, burst, spent, published>>
  /\ at' = at \/ {at, at'} \subseteq {"sleep", "drain", "done"}
  /\ wake' \in Int /\ stop' \in {stop, TRUE} /\ ready' \in [Types -> Nat]

LEMMA MqttStepCases ==
    ASSUME Mqtt!MqttLogAssumption, Mqtt!TypeOK, [Mqtt!Next]_(Mqtt!vars)
    PROVE  \/ \E c \in Types : Mqtt!log_via_mqtt_stats(c) \/ Mqtt!log_via_mqtt_enqueue(c)
           \/ Mqtt!mqtt_thread_fetches \/ Mqtt!log_via_mqtt_add_traffic_class
              \/ Mqtt!mqtt_thread_puts
           \/ MqttElsewhere
<1>0. wake \in Int /\ ready \in [Types -> Nat] /\ LogPeriod \in Nat
  BY DEF Mqtt!TypeOK, Mqtt!MqttLogAssumption
<1>1. CASE Mqtt!mqtt_thread_wakes
  BY <1>0, <1>1 DEF Mqtt!mqtt_thread_wakes, MqttElsewhere
<1>2. CASE Mqtt!mqtt_thread_sleeps
  BY <1>0, <1>2 DEF Mqtt!mqtt_thread_sleeps, MqttElsewhere
<1>3. CASE Mqtt!Tick
  BY <1>0, <1>3 DEF Mqtt!Tick, MqttElsewhere
<1>4. CASE Mqtt!function_stop_all
  BY <1>0, <1>4 DEF Mqtt!function_stop_all, MqttElsewhere
<1>5. CASE Mqtt!Ended \/ UNCHANGED Mqtt!vars
  BY <1>0, <1>5, Zenon DEF Mqtt!Ended, Mqtt!vars, MqttElsewhere
<1>. QED BY <1>1, <1>2, <1>3, <1>4, <1>5 DEF Mqtt!Next, Mqtt!MqttThread

\* A report is put on the ring, or its buffer is lost.
LEMMA EnqueueCases ==
    ASSUME Mqtt!TypeOK, NEW c \in Types, Mqtt!log_via_mqtt_enqueue(c)
    PROVE  \/ /\ ring' \in Seq(Types \X Nat) /\ Len(ring') = Len(ring) + 1
              /\ ring'[Len(ring) + 1] = <<c, number[c]>> /\ leaked' = leaked
              /\ \A i \in 1 .. Len(ring) : ring'[i] = ring[i]
              /\ Elements(ring') = Elements(ring) \cup {<<c, number[c]>>}
           \/ ring' = ring /\ leaked' = leaked + 1
<1>. DEFINE e == <<c, number[c]>>
<1>1. e \in Types \X Nat /\ ring \in Seq(Types \X Nat)
  BY DEF Mqtt!TypeOK
<1>2. (ring' = Append(ring, e) /\ leaked' = leaked) \/ (ring' = ring
      /\ leaked' = leaked + 1)
  BY DEF Mqtt!log_via_mqtt_enqueue
<1>. HIDE DEF e
<1>3. CASE ring' = Append(ring, e) /\ leaked' = leaked
  <2>1. ring' \in Seq(Types \X Nat) /\ Elements(ring') = Elements(ring) \cup {e}
    BY <1>1, <1>3, AppendElements
  <2>2. Len(ring') = Len(ring) + 1 /\ ring'[Len(ring) + 1] = e
        /\ \A i \in 1 .. Len(ring) : ring'[i] = ring[i]
    BY <1>1, <1>3
  <2>. QED BY <1>3, <2>1, <2>2, Zenon DEF e
<1>. QED BY <1>2, <1>3

LEMMA NextKeepsTypes ==
    ASSUME Mqtt!MqttLogAssumption, MqttPlaces, [Mqtt!Next]_(Mqtt!vars)
    PROVE  MqttPlaces'
<1>0. Mqtt!TypeOK /\ Interval \in Nat
  BY DEF MqttPlaces, Mqtt!MqttLogAssumption
<1>1. ASSUME NEW c \in Types, Mqtt!log_via_mqtt_stats(c) PROVE MqttPlaces'
  <2>0. number \in [Types -> Nat] /\ ready \in [Types -> Nat]
        /\ ready' = [ready EXCEPT ![c] = Interval]
        /\ (number' = [number EXCEPT ![c] = @ + 1] \/ number' = number)
    BY <1>0, <1>1 DEF Mqtt!log_via_mqtt_stats, Mqtt!TypeOK
  <2>1. ready' \in [Types -> Nat] /\ number' \in [Types -> Nat]
    BY <1>0, <2>0
  <2>2. pc' \in [Types -> {"idle", "enqueue"}]
    BY <1>0, <1>1, Zenon DEF Mqtt!log_via_mqtt_stats, Mqtt!TypeOK
  <2>3. pool' \in Nat
    BY <1>0, <1>1 DEF Mqtt!log_via_mqtt_stats, Mqtt!TypeOK
  <2>. QED BY <1>0, <1>1, <2>1, <2>2, <2>3 DEF Mqtt!log_via_mqtt_stats, MqttPlaces,
                                               Mqtt!TypeOK
<1>2. ASSUME NEW c \in Types, Mqtt!log_via_mqtt_enqueue(c) PROVE MqttPlaces'
  <2>1. ring' \in Seq(Types \X Nat) /\ leaked' \in Nat
    <3>1. ring \in Seq(Types \X Nat) /\ leaked \in Nat
      BY <1>0 DEF Mqtt!TypeOK
    <3>. QED BY <1>0, <1>2, <3>1, EnqueueCases
  <2>. QED BY <1>0, <1>2, <2>1 DEF Mqtt!log_via_mqtt_enqueue, MqttPlaces, Mqtt!TypeOK
<1>3. CASE Mqtt!mqtt_thread_fetches
  <2>1. PICK n \in 1 .. Len(ring) :
               burst' = SubSeq(ring, 1, n) /\ ring' = SubSeq(ring, n + 1, Len(ring))
    BY <1>3, MqttFetchSize
  <2>2. ring \in Seq(Types \X Nat) /\ n \in 0 .. Len(ring)
    BY <1>0 DEF Mqtt!TypeOK
  <2>3. burst' \in Seq(Types \X Nat) /\ ring' \in Seq(Types \X Nat)
    BY <2>1, <2>2, SplitElements
  <2>. QED BY <1>0, <1>3, <2>3, Zenon DEF Mqtt!mqtt_thread_fetches, MqttPlaces, Mqtt!TypeOK
<1>4. CASE Mqtt!log_via_mqtt_add_traffic_class
  <2>1. burst \in Seq(Types \X Nat) /\ burst # <<>>
    BY <1>0, <1>4 DEF Mqtt!log_via_mqtt_add_traffic_class, Mqtt!TypeOK
  <2>2. burst' \in Seq(Types \X Nat) /\ Head(burst) \in Types \X Nat
    BY <1>4, <2>1, TailElements DEF Mqtt!log_via_mqtt_add_traffic_class
  <2>3. Head(burst)[1] \in Types /\ Head(burst)[2] \in Nat
    BY <2>2
  <2>4. published' \in [Types -> Nat] /\ spent' \in Nat
    BY <1>0, <1>4, <2>3 DEF Mqtt!log_via_mqtt_add_traffic_class, Mqtt!TypeOK
  <2>. QED BY <1>0, <1>4, <2>2, <2>4, Zenon DEF Mqtt!log_via_mqtt_add_traffic_class, MqttPlaces,
                                         Mqtt!TypeOK
<1>5. CASE Mqtt!mqtt_thread_puts
  BY <1>0, <1>5 DEF Mqtt!mqtt_thread_puts, MqttPlaces, Mqtt!TypeOK
<1>6. CASE MqttElsewhere
  <2>1. stop' \in BOOLEAN
    BY <1>0, <1>6, Zenon DEF MqttElsewhere, Mqtt!TypeOK
  <2>. QED BY <1>0, <1>6, <2>1 DEF MqttElsewhere, MqttPlaces, Mqtt!TypeOK
<1>. QED BY <1>0, <1>1, <1>2, <1>3, <1>4, <1>5, <1>6, MqttStepCases

LEMMA InitTypes == Mqtt!MqttLogAssumption /\ Mqtt!Init => MqttPlaces
<1>. SUFFICES ASSUME Mqtt!MqttLogAssumption, Mqtt!Init PROVE MqttPlaces
  OBVIOUS
<1>1. stop \in BOOLEAN
  BY Zenon DEF Mqtt!Init
<1>. QED BY <1>1 DEF Mqtt!MqttLogAssumption, Mqtt!Init, MqttPlaces, Mqtt!TypeOK
-----------------------------------------------------------------------------
(* The order of the reports *)

MqttQueued == Elements(ring) \cup Elements(burst)
MqttBefore(x, y) == x[1] = y[1] => x[2] < y[2]

\* What is queued was made and is not yet published.
StillToCome ==
  /\ \A c \in Types : published[c] <= number[c]
  /\ \A m \in MqttQueued : published[m[1]] < m[2] /\ m[2] <= number[m[1]]

\* The reports of a class are in order in the burst and on the ring.
MqttOrdered ==
  /\ \A b \in Elements(burst) : \A r \in Elements(ring) : MqttBefore(b, r)
  /\ \A i, j \in 1 .. Len(burst) : i < j => MqttBefore(burst[i], burst[j])
  /\ \A i, j \in 1 .. Len(ring) : i < j => MqttBefore(ring[i], ring[j])

\* The report a class is about to put on the ring is its last.
MqttNewIsLast ==
  \A c \in Types : pc[c] = "enqueue" =>
    /\ published[c] < number[c]
    /\ \A m \in MqttQueued : m[1] = c => m[2] < number[c]

MqttOrder == StillToCome /\ MqttOrdered /\ MqttNewIsLast

LEMMA QueuedReports ==
    ASSUME Mqtt!TypeOK
    PROVE  /\ \A m \in MqttQueued : m \in Types \X Nat /\ m[1] \in Types /\ m[2] \in Nat
           /\ \A i \in 1 .. Len(burst) : burst[i] \in MqttQueued
           /\ \A i \in 1 .. Len(ring) : ring[i] \in MqttQueued
<1>1. burst \in Seq(Types \X Nat) /\ ring \in Seq(Types \X Nat)
  BY DEF Mqtt!TypeOK
<1>2. \A s \in Seq(Types \X Nat) : \A i \in 1 .. Len(s) : s[i] \in Types \X Nat
  OBVIOUS
<1>3. /\ \A i \in 1 .. Len(burst) : burst[i] \in MqttQueued
      /\ \A i \in 1 .. Len(ring) : ring[i] \in MqttQueued
  BY Zenon DEF MqttQueued, Elements
<1>4. \A i \in 1 .. Len(burst) : burst[i] \in MqttQueued /\ burst[i] \in Types \X Nat
  BY <1>1, <1>2, <1>3
<1>5. \A i \in 1 .. Len(ring) : ring[i] \in MqttQueued /\ ring[i] \in Types \X Nat
  BY <1>1, <1>2, <1>3
<1>6. \A m \in MqttQueued : m \in Types \X Nat
  BY <1>4, <1>5 DEF MqttQueued, Elements
<1>7. \A m \in Types \X Nat : m[1] \in Types /\ m[2] \in Nat
  OBVIOUS
<1>. QED BY <1>4, <1>5, <1>6, <1>7, Zenon

LEMMA StatsKeepOrder ==
    ASSUME Mqtt!TypeOK, MqttOrder, NEW c \in Types, Mqtt!log_via_mqtt_stats(c)
    PROVE  MqttOrder'
<1>1. UNCHANGED <<ring, burst, published>>
  BY DEF Mqtt!log_via_mqtt_stats
<1>2. MqttQueued' = MqttQueued /\ Elements(burst') = Elements(burst)
      /\ Elements(ring') = Elements(ring)
  BY <1>1 DEF MqttQueued
<1>3. MqttOrdered'
  BY <1>1, <1>2 DEF MqttOrder, MqttOrdered
<1>4. number \in [Types -> Nat] /\ published \in [Types -> Nat] /\ DOMAIN pc = Types
  BY DEF Mqtt!TypeOK
<1>5. CASE UNCHANGED <<number, pc>>
  BY <1>1, <1>2, <1>3, <1>5 DEF MqttOrder, StillToCome, MqttNewIsLast
<1>6. CASE number' = [number EXCEPT ![c] = @ + 1] /\ pc' = [pc EXCEPT ![c] = "enqueue"]
  <2>1. /\ number'[c] = number[c] + 1 /\ number[c] \in Nat
        /\ \A d \in Types \ {c} : number'[d] = number[d] /\ pc'[d] = pc[d]
    BY <1>4, <1>6
  <2>2. \A d \in Types : published[d] <= number'[d]
    BY <1>4, <2>1 DEF MqttOrder, StillToCome
  <2>3. ASSUME NEW m \in MqttQueued PROVE m[2] <= number'[m[1]] /\ (m[1] = c
               => m[2] < number'[c])
    <3>1. m[1] \in Types /\ m[2] \in Nat /\ m[2] <= number[m[1]]
      BY QueuedReports DEF MqttOrder, StillToCome
    <3>. QED BY <2>1, <3>1
  <2>4. published[c] < number'[c]
    BY <1>4, <2>1 DEF MqttOrder, StillToCome
  <2>5. StillToCome'
    BY <1>1, <1>2, <2>2, <2>3 DEF MqttOrder, StillToCome
  <2>6. ASSUME NEW d \in Types \ {c}, pc'[d] = "enqueue"
        PROVE  published[d] < number'[d] /\ \A m \in MqttQueued : m[1] = d
               => m[2] < number'[d]
    BY <2>1, <2>6 DEF MqttOrder, MqttNewIsLast
  <2>7. MqttNewIsLast'
    BY <1>1, <1>2, <2>3, <2>4, <2>6 DEF MqttNewIsLast
  <2>. QED BY <1>3, <2>5, <2>7 DEF MqttOrder
<1>. QED BY <1>5, <1>6 DEF Mqtt!log_via_mqtt_stats

LEMMA MqttEnqueueKeepsOrder ==
    ASSUME Mqtt!TypeOK, MqttOrder, NEW c \in Types, Mqtt!log_via_mqtt_enqueue(c)
    PROVE  MqttOrder'
<1>. DEFINE e == <<c, number[c]>>
<1>1. UNCHANGED <<burst, number, published>> /\ pc[c] = "enqueue"
      /\ pc' = [pc EXCEPT ![c] = "idle"] /\ DOMAIN pc = Types
  BY DEF Mqtt!log_via_mqtt_enqueue, Mqtt!TypeOK
<1>2. e[1] = c /\ e[2] = number[c] /\ number[c] \in Nat
  BY DEF Mqtt!TypeOK
<1>3. \/ /\ Len(ring') = Len(ring) + 1 /\ ring'[Len(ring) + 1] = e
         /\ \A i \in 1 .. Len(ring) : ring'[i] = ring[i]
         /\ Elements(ring') = Elements(ring) \cup {e}
      \/ ring' = ring
  BY EnqueueCases
<1>. HIDE DEF e
<1>4. Elements(burst') = Elements(burst) /\ MqttQueued' \subseteq MqttQueued \cup {e}
  BY <1>1, <1>3 DEF MqttQueued
<1>5. published[c] < number[c] /\ \A m \in MqttQueued : MqttBefore(m, e)
  BY <1>1, <1>2 DEF MqttOrder, MqttNewIsLast, MqttBefore
<1>6. StillToCome'
  BY <1>1, <1>2, <1>4, <1>5 DEF MqttOrder, StillToCome
<1>7. MqttNewIsLast'
  <2>1. pc'[c] = "idle" /\ \A d \in Types \ {c} : pc'[d] = pc[d]
    BY <1>1
  <2>2. \A d \in Types \ {c} : \A m \in MqttQueued' : m[1] = d => m \in MqttQueued
    BY <1>2, <1>4
  <2>. QED BY <1>1, <2>1, <2>2 DEF MqttOrder, MqttNewIsLast
<1>8. MqttOrdered'
  <2>1. CASE ring' = ring
    BY <1>1, <1>4, <2>1 DEF MqttOrder, MqttOrdered
  <2>2. CASE /\ Len(ring') = Len(ring) + 1 /\ ring'[Len(ring) + 1] = e
             /\ \A i \in 1 .. Len(ring) : ring'[i] = ring[i]
             /\ Elements(ring') = Elements(ring) \cup {e}
    <3>1. \A b \in Elements(burst) : \A r \in Elements(ring') : MqttBefore(b, r)
      BY <1>5, <2>2, Zenon DEF MqttOrder, MqttOrdered, MqttQueued
    <3>2. Len(ring) \in Nat
      BY DEF Mqtt!TypeOK
    <3>3. ASSUME NEW i \in 1 .. Len(ring'), NEW j \in 1 .. Len(ring'), i < j
          PROVE  MqttBefore(ring'[i], ring'[j])
      <4>1. i \in 1 .. Len(ring)
        BY <2>2, <3>2, <3>3
      <4>2. CASE j = Len(ring) + 1
        <5>1. ring'[i] \in MqttQueued
          BY <2>2, <4>1, QueuedReports
        <5>. QED BY <1>5, <2>2, <4>2, <5>1
      <4>3. CASE j \in 1 .. Len(ring)
        <5>1. ring'[i] = ring[i] /\ ring'[j] = ring[j]
          BY <2>2, <4>1, <4>3
        <5>. QED BY <3>3, <4>1, <4>3, <5>1 DEF MqttOrder, MqttOrdered
      <4>. QED BY <2>2, <3>2, <4>2, <4>3
    <3>. QED BY <1>1, <1>4, <3>1, <3>3 DEF MqttOrder, MqttOrdered
  <2>. QED BY <1>3, <2>1, <2>2
<1>. QED BY <1>6, <1>7, <1>8 DEF MqttOrder

LEMMA MqttFetchKeepsOrder ==
    ASSUME Mqtt!MqttLogAssumption, MqttPlaces, MqttOrder, Mqtt!mqtt_thread_fetches
    PROVE  MqttOrder'
<1>1. PICK n \in 1 .. Len(ring) :
               burst' = SubSeq(ring, 1, n) /\ ring' = SubSeq(ring, n + 1, Len(ring))
  BY MqttFetchSize
<1>2. ring \in Seq(Types \X Nat) /\ n \in 0 .. Len(ring) /\ n \in Nat
  BY DEF MqttPlaces, Mqtt!TypeOK
<1>3. Len(burst') = n /\ Len(ring') = Len(ring) - n /\ Len(ring) \in Nat
  BY <1>1, <1>2, SplitElements
<1>4. \A i \in 1 .. n : burst'[i] = ring[i]
  BY <1>1, <1>2, SplitElements
<1>5. \A i \in 1 .. Len(ring') : ring'[i] = ring[n + i]
  BY <1>1, <1>2, SplitElements
<1>6. Elements(ring) = Elements(burst') \cup Elements(ring')
  BY <1>1, <1>2, SplitElements
<1>7. UNCHANGED <<number, published, pc>>
  BY DEF Mqtt!mqtt_thread_fetches
<1>8. Elements(burst) = {}
  BY DEF Mqtt!mqtt_thread_fetches, MqttPlaces, Elements
<1>9. MqttQueued' = MqttQueued
  BY <1>6, <1>8 DEF MqttQueued
<1>10. StillToCome' /\ MqttNewIsLast'
  BY <1>7, <1>9 DEF MqttOrder, StillToCome, MqttNewIsLast
<1>11. \A i, j \in 1 .. Len(ring) : i < j => MqttBefore(ring[i], ring[j])
  BY DEF MqttOrder, MqttOrdered
<1>12. ASSUME NEW i \in 1 .. n, NEW j \in 1 .. n, i < j PROVE MqttBefore(burst'[i],
              burst'[j])
  <2>1. i \in 1 .. Len(ring) /\ j \in 1 .. Len(ring)
    BY <1>2, <1>3
  <2>. QED BY <1>4, <1>11, <1>12, <2>1
<1>13. \A i \in 1 .. Len(ring') : n + i \in 1 .. Len(ring)
  BY <1>2, <1>3
<1>14. ASSUME NEW i \in 1 .. Len(ring'), NEW j \in 1 .. Len(ring'), i < j
       PROVE  MqttBefore(ring'[i], ring'[j])
  <2>1. n + i < n + j
    BY <1>2, <1>3, <1>14
  <2>. QED BY <1>5, <1>11, <1>13, <2>1
<1>15. ASSUME NEW i \in 1 .. n, NEW j \in 1 .. Len(ring') PROVE MqttBefore(burst'[i],
              ring'[j])
  <2>1. i \in 1 .. Len(ring) /\ i < n + j
    BY <1>2, <1>3
  <2>. QED BY <1>4, <1>5, <1>11, <1>13, <2>1
<1>16. \A b \in Elements(burst') : \A r \in Elements(ring') : MqttBefore(b, r)
  BY <1>3, <1>15 DEF Elements
<1>17. MqttOrdered'
  BY <1>3, <1>12, <1>14, <1>16 DEF MqttOrdered
<1>. QED BY <1>10, <1>17 DEF MqttOrder

\* What is published is later than all of its class before and earlier than all
\* that is still queued.
LEMMA PublishKeepsOrder ==
    ASSUME Mqtt!TypeOK, MqttOrder, Mqtt!log_via_mqtt_add_traffic_class
    PROVE  /\ MqttOrder'
           /\ \A c \in Types : published'[c] # published[c] =>
                published[c] < published'[c] /\ published'[c] <= number[c]
<1>. DEFINE h == Head(burst)
<1>1. UNCHANGED <<ring, number, pc>> /\ burst # <<>> /\ burst' = Tail(burst)
      /\ published' = [published EXCEPT ![h[1]] = h[2]]
  BY DEF Mqtt!log_via_mqtt_add_traffic_class
<1>2. burst \in Seq(Types \X Nat) /\ published \in [Types -> Nat]
      /\ number \in [Types -> Nat]
  BY DEF Mqtt!TypeOK
<1>3. /\ h = burst[1] /\ 1 \in 1 .. Len(burst) /\ Len(burst') = Len(burst) - 1
      /\ \A i \in 1 .. Len(burst') : burst'[i] = burst[i + 1] /\ i + 1 \in 1 .. Len(burst)
      /\ Elements(burst) = {h} \cup Elements(burst')
  BY <1>1, <1>2, TailElements
<1>. HIDE DEF h
<1>4. h \in MqttQueued /\ MqttQueued = MqttQueued' \cup {h}
  BY <1>1, <1>3 DEF MqttQueued
<1>5. h[1] \in Types /\ h[2] \in Nat /\ published[h[1]] < h[2] /\ h[2] <= number[h[1]]
  BY <1>4, QueuedReports DEF MqttOrder, StillToCome
<1>6. published'[h[1]] = h[2] /\ \A c \in Types \ {h[1]} : published'[c] = published[c]
  BY <1>1, <1>2, <1>5
<1>7. \A b \in MqttQueued' : MqttBefore(h, b)
  <2>1. ASSUME NEW i \in 1 .. Len(burst') PROVE MqttBefore(h, burst'[i])
    <3>1. 1 < i + 1 /\ i + 1 \in 1 .. Len(burst) /\ burst'[i] = burst[i + 1]
      BY <1>3
    <3>. QED BY <1>3, <3>1 DEF MqttOrder, MqttOrdered
  <2>2. \A b \in Elements(burst') : MqttBefore(h, b)
    BY <2>1 DEF Elements
  <2>3. \A r \in Elements(ring) : MqttBefore(h, r)
    BY <1>3, Zenon DEF MqttOrder, MqttOrdered
  <2>. QED BY <1>1, <2>2, <2>3 DEF MqttQueued
<1>8. StillToCome'
  <2>1. \A c \in Types : published'[c] <= number[c]
    BY <1>5, <1>6 DEF MqttOrder, StillToCome
  <2>2. ASSUME NEW m \in MqttQueued' PROVE published'[m[1]] < m[2] /\ m[2] <= number[m[1]]
    <3>1. m \in MqttQueued /\ m[1] \in Types /\ MqttBefore(h, m)
      BY <1>4, <1>7, QueuedReports
    <3>2. published[m[1]] < m[2] /\ m[2] <= number[m[1]]
      BY <3>1 DEF MqttOrder, StillToCome
    <3>. QED BY <1>6, <3>1, <3>2 DEF MqttBefore
  <2>. QED BY <1>1, <2>1, <2>2 DEF StillToCome
<1>9. MqttOrdered'
  <2>1. \A b \in Elements(burst') : \A r \in Elements(ring) : MqttBefore(b, r)
    BY <1>3 DEF MqttOrder, MqttOrdered
  <2>2. ASSUME NEW i \in 1 .. Len(burst'), NEW j \in 1 .. Len(burst'), i < j
        PROVE  MqttBefore(burst'[i], burst'[j])
    <3>1. i + 1 < j + 1
      BY <2>2
    <3>. QED BY <1>3, <3>1 DEF MqttOrder, MqttOrdered
  <2>3. \A i, j \in 1 .. Len(ring) : i < j => MqttBefore(ring[i], ring[j])
    BY DEF MqttOrder, MqttOrdered
  <2>. QED BY <1>1, <2>1, <2>2, <2>3 DEF MqttOrdered
<1>10. MqttNewIsLast'
  <2>1. ASSUME NEW c \in Types, pc[c] = "enqueue" PROVE published'[c] < number[c]
    BY <1>4, <1>6, <2>1 DEF MqttOrder, MqttNewIsLast
  <2>. QED BY <1>1, <1>4, <2>1 DEF MqttOrder, MqttNewIsLast
<1>11. \A c \in Types : published'[c] # published[c] =>
                published[c] < published'[c] /\ published'[c] <= number[c]
  BY <1>5, <1>6
<1>. QED BY <1>8, <1>9, <1>10, <1>11 DEF MqttOrder

LEMMA MqttNextKeepsOrder ==
    ASSUME Mqtt!MqttLogAssumption, MqttPlaces, MqttOrder, [Mqtt!Next]_(Mqtt!vars)
    PROVE  /\ MqttOrder'
           /\ \A c \in Types : published'[c] # published[c] =>
                published[c] < published'[c] /\ published'[c] <= number[c]
<1>0. Mqtt!TypeOK
  BY DEF MqttPlaces
<1>1. ASSUME NEW c \in Types, Mqtt!log_via_mqtt_stats(c) PROVE MqttOrder'
             /\ published' = published
  BY <1>0, <1>1, StatsKeepOrder, Zenon DEF Mqtt!log_via_mqtt_stats
<1>2. ASSUME NEW c \in Types, Mqtt!log_via_mqtt_enqueue(c) PROVE MqttOrder'
             /\ published' = published
  BY <1>0, <1>2, MqttEnqueueKeepsOrder, Zenon DEF Mqtt!log_via_mqtt_enqueue
<1>3. ASSUME Mqtt!mqtt_thread_fetches PROVE MqttOrder' /\ published' = published
  BY <1>3, MqttFetchKeepsOrder DEF Mqtt!mqtt_thread_fetches
<1>4. ASSUME Mqtt!mqtt_thread_puts \/ MqttElsewhere PROVE MqttOrder'
             /\ published' = published
  <2>1. UNCHANGED <<ring, burst, number, published, pc>>
    BY <1>4, Zenon DEF Mqtt!mqtt_thread_puts, MqttElsewhere
  <2>2. MqttQueued' = MqttQueued /\ Elements(burst') = Elements(burst)
        /\ Elements(ring') = Elements(ring)
    BY <2>1 DEF MqttQueued
  <2>. QED BY <2>1, <2>2 DEF MqttOrder, StillToCome, MqttOrdered, MqttNewIsLast
<1>5. CASE Mqtt!log_via_mqtt_add_traffic_class
  BY <1>0, <1>5, PublishKeepsOrder
<1>. QED BY <1>0, <1>1, <1>2, <1>3, <1>4, <1>5, MqttStepCases

\* The reports of a class are published in order and only those that were made,
\* whatever the classes and the thread interleave.
THEOREM PublishedInOrderHolds ==
    Mqtt!MqttLogAssumption /\ Mqtt!Spec => Mqtt!PublishedInOrder
<1>. SUFFICES ASSUME Mqtt!MqttLogAssumption PROVE Mqtt!Spec => Mqtt!PublishedInOrder
  OBVIOUS
<1>1. Mqtt!Init => MqttOrder
  <2>. SUFFICES ASSUME Mqtt!Init PROVE MqttOrder
    OBVIOUS
  <2>1. Elements(ring) = {} /\ Elements(burst) = {}
    BY DEF Mqtt!Init, Elements
  <2>2. StillToCome
    BY <2>1 DEF Mqtt!Init, StillToCome, MqttQueued
  <2>3. MqttOrdered /\ MqttNewIsLast
    BY <2>1 DEF Mqtt!Init, MqttOrdered, MqttNewIsLast, MqttQueued
  <2>. QED BY <2>2, <2>3 DEF MqttOrder
<1>2. MqttPlaces /\ MqttOrder /\ [Mqtt!Next]_(Mqtt!vars)
      => /\ (MqttPlaces /\ MqttOrder)'
         /\ [\A c \in Types : published'[c] # published[c] =>
                published[c] < published'[c] /\ published'[c] <= number[c]]_(Mqtt!vars)
  BY NextKeepsTypes, MqttNextKeepsOrder
<1>. QED BY <1>1, <1>2, InitTypes, PTL DEF Mqtt!Spec, Mqtt!PublishedInOrder
-----------------------------------------------------------------------------
(* The buffers *)

FST == INSTANCE FiniteSetTheorems

LEMMA SameCount ==
    \A S : /\ Mqtt!Cardinality(S) = FST!Cardinality(S)
           /\ Mqtt!IsFiniteSet(S) <=> FST!IsFiniteSet(S)
BY DEF Mqtt!Cardinality, FST!Cardinality, Mqtt!IsFiniteSet, FST!IsFiniteSet

\* What the account of the buffers needs to know about counting.
LEMMA Counting ==
    /\ Mqtt!Cardinality({}) = 0
    /\ \A S, T : Mqtt!IsFiniteSet(S) /\ T \subseteq S => Mqtt!IsFiniteSet(T)
    /\ \A S : Mqtt!IsFiniteSet(S)
             => /\ Mqtt!Cardinality(S) \in Nat
                /\ \A x : x \notin S => Mqtt!Cardinality(S \cup {x}) = Mqtt!Cardinality(S) + 1
                /\ \A x \in S : Mqtt!Cardinality(S \ {x}) = Mqtt!Cardinality(S) - 1
<1>1. Mqtt!Cardinality({}) = 0
  BY SameCount, FST!FS_EmptySet
<1>2. ASSUME NEW S, NEW T, Mqtt!IsFiniteSet(S), T \subseteq S PROVE Mqtt!IsFiniteSet(T)
  BY <1>2, SameCount, FST!FS_Subset
<1>3. ASSUME NEW S, Mqtt!IsFiniteSet(S) PROVE Mqtt!Cardinality(S) \in Nat
  BY <1>3, SameCount, FST!FS_CardinalityType
<1>4. ASSUME NEW S, Mqtt!IsFiniteSet(S), NEW x, x \notin S
      PROVE  Mqtt!Cardinality(S \cup {x}) = Mqtt!Cardinality(S) + 1
  BY <1>4, SameCount, FST!FS_AddElement
<1>5. ASSUME NEW S, Mqtt!IsFiniteSet(S), NEW x \in S
      PROVE  Mqtt!Cardinality(S \ {x}) = Mqtt!Cardinality(S) - 1
  BY <1>5, SameCount, FST!FS_RemoveElement
<1>. QED BY <1>1, <1>2, <1>3, <1>4, <1>5

LEMMA NextKeepsAccount ==
    ASSUME Mqtt!MqttLogAssumption, MqttPlaces, Mqtt!BuffersAccounted,
           [Mqtt!Next]_(Mqtt!vars)
    PROVE  Mqtt!BuffersAccounted'
<1>0. /\ pool \in Nat /\ leaked \in Nat /\ spent \in Nat /\ Len(ring) \in Nat
      /\ Len(burst) \in Nat /\ ring \in Seq(Types \X Nat) /\ burst \in Seq(Types \X Nat)
      /\ DOMAIN pc = Types /\ PoolSize \in Nat
  BY DEF MqttPlaces, Mqtt!TypeOK, Mqtt!MqttLogAssumption
<1>f. Mqtt!IsFiniteSet(Mqtt!Enqueuing) /\ Mqtt!Cardinality(Mqtt!Enqueuing) \in Nat
  <2>1. Mqtt!IsFiniteSet(Mqtt!Enqueuing)
    BY Counting DEF Mqtt!MqttLogAssumption, Mqtt!Enqueuing
  <2>. QED BY <2>1, Counting
<1>a. pool + Mqtt!Cardinality(Mqtt!Enqueuing) + Len(ring) + Len(burst) + spent + leaked = PoolSize
  BY DEF Mqtt!BuffersAccounted
<1>u. ASSUME UNCHANGED pc PROVE Mqtt!Enqueuing' = Mqtt!Enqueuing
  BY <1>u DEF Mqtt!Enqueuing
<1>1. ASSUME NEW c \in Types, Mqtt!log_via_mqtt_stats(c) PROVE Mqtt!BuffersAccounted'
  <2>1. UNCHANGED <<ring, leaked, burst, spent>> /\ pc[c] = "idle"
    BY <1>1 DEF Mqtt!log_via_mqtt_stats
  <2>2. CASE UNCHANGED <<pool, pc>>
    BY <1>a, <1>u, <2>1, <2>2 DEF Mqtt!BuffersAccounted
  <2>3. CASE pool' = pool - 1 /\ pc' = [pc EXCEPT ![c] = "enqueue"]
    <3>1. Mqtt!Enqueuing' = Mqtt!Enqueuing \cup {c} /\ c \notin Mqtt!Enqueuing
      BY <1>0, <2>1, <2>3 DEF Mqtt!Enqueuing
    <3>2. Mqtt!Cardinality(Mqtt!Enqueuing') = Mqtt!Cardinality(Mqtt!Enqueuing) + 1
      BY <1>f, <3>1, Counting
    <3>. QED BY <1>0, <1>a, <1>f, <2>1, <2>3, <3>2 DEF Mqtt!BuffersAccounted
  <2>. QED BY <1>1, <2>2, <2>3 DEF Mqtt!log_via_mqtt_stats
<1>2. ASSUME NEW c \in Types, Mqtt!log_via_mqtt_enqueue(c) PROVE Mqtt!BuffersAccounted'
  <2>1. UNCHANGED <<pool, burst, spent>> /\ pc[c] = "enqueue"
        /\ pc' = [pc EXCEPT ![c] = "idle"]
    BY <1>2 DEF Mqtt!log_via_mqtt_enqueue
  <2>2. Mqtt!Enqueuing' = Mqtt!Enqueuing \ {c} /\ c \in Mqtt!Enqueuing
    BY <1>0, <2>1 DEF Mqtt!Enqueuing
  <2>3. Mqtt!Cardinality(Mqtt!Enqueuing') = Mqtt!Cardinality(Mqtt!Enqueuing) - 1
    BY <1>f, <2>2, Counting
  <2>4. \/ Len(ring') = Len(ring) + 1 /\ leaked' = leaked
        \/ Len(ring') = Len(ring) /\ leaked' = leaked + 1
    BY <1>2, EnqueueCases DEF MqttPlaces
  <2>5. Len(burst') = Len(burst) /\ pool' = pool /\ spent' = spent
    BY <2>1
  <2>6. pool' + Mqtt!Cardinality(Mqtt!Enqueuing') + Len(ring') + Len(burst') + spent' + leaked' = PoolSize
    <3>. DEFINE k == Mqtt!Cardinality(Mqtt!Enqueuing)
                r == Len(ring)
                b == Len(burst)
    <3>1. k \in Nat /\ r \in Nat /\ b \in Nat /\ pool \in Nat /\ spent \in Nat
          /\ leaked \in Nat
      BY <1>0, <1>f
    <3>2. pool + k + r + b + spent + leaked = PoolSize
      BY <1>a
    <3>. HIDE DEF k, r, b
    <3>3. pool + (k - 1) + (r + 1) + b + spent + leaked = PoolSize
          /\ pool + (k - 1) + r + b + spent + (leaked + 1) = PoolSize
      BY <3>1, <3>2
    <3>. QED BY <2>3, <2>4, <2>5, <3>3 DEF k, r, b
  <2>. QED BY <2>6 DEF Mqtt!BuffersAccounted
<1>3. CASE Mqtt!mqtt_thread_fetches
  <2>1. PICK n \in 1 .. Len(ring) :
               burst' = SubSeq(ring, 1, n) /\ ring' = SubSeq(ring, n + 1, Len(ring))
    BY <1>3, MqttFetchSize
  <2>2. n \in 0 .. Len(ring)
    BY <1>0
  <2>3. Len(burst') = n /\ Len(ring') = Len(ring) - n
    BY <1>0, <2>1, <2>2, SplitElements
  <2>4. UNCHANGED <<pool, pc, spent, leaked>> /\ Len(burst) = 0
    BY <1>3 DEF Mqtt!mqtt_thread_fetches, MqttPlaces
  <2>. QED BY <1>0, <1>a, <1>f, <1>u, <2>2, <2>3, <2>4 DEF Mqtt!BuffersAccounted
<1>4. CASE Mqtt!log_via_mqtt_add_traffic_class
  <2>1. UNCHANGED <<pool, pc, ring, leaked>> /\ spent' = spent + 1
        /\ burst # <<>> /\ burst' = Tail(burst)
    BY <1>4 DEF Mqtt!log_via_mqtt_add_traffic_class
  <2>2. Len(burst') = Len(burst) - 1
    BY <1>0, <2>1, TailElements
  <2>3. Mqtt!Cardinality(Mqtt!Enqueuing') = Mqtt!Cardinality(Mqtt!Enqueuing)
        /\ Len(ring') = Len(ring)
    BY <1>u, <2>1
  <2>4. pool' + Mqtt!Cardinality(Mqtt!Enqueuing') + Len(ring') + Len(burst') + spent' + leaked' = PoolSize
    <3>. DEFINE k == Mqtt!Cardinality(Mqtt!Enqueuing)
                r == Len(ring)
                b == Len(burst)
    <3>1. k \in Nat /\ r \in Nat /\ b \in Nat /\ pool \in Nat /\ spent \in Nat
          /\ leaked \in Nat
      BY <1>0, <1>f
    <3>2. pool + k + r + b + spent + leaked = PoolSize
      BY <1>a
    <3>. HIDE DEF k, r, b
    <3>3. pool + k + r + (b - 1) + (spent + 1) + leaked = PoolSize
      BY <3>1, <3>2
    <3>. QED BY <2>1, <2>2, <2>3, <3>3 DEF k, r, b
  <2>. QED BY <2>4 DEF Mqtt!BuffersAccounted
<1>5. CASE Mqtt!mqtt_thread_puts
  <2>1. UNCHANGED <<pc, ring, leaked, burst>> /\ pool' = pool + spent /\ spent' = 0
    BY <1>5 DEF Mqtt!mqtt_thread_puts
  <2>. QED BY <1>0, <1>a, <1>f, <1>u, <2>1 DEF Mqtt!BuffersAccounted
<1>6. CASE MqttElsewhere
  BY <1>a, <1>u, <1>6 DEF MqttElsewhere, Mqtt!BuffersAccounted
<1>. QED BY <1>1, <1>2, <1>3, <1>4, <1>5, <1>6, MqttStepCases DEF MqttPlaces

\* Every report buffer is free, with a class, on the ring, with the thread, or among
\* those a full ring has cost, for every size of pool, ring and burst.
THEOREM BuffersAccountedHolds ==
    Mqtt!MqttLogAssumption /\ Mqtt!Spec => []Mqtt!BuffersAccounted
<1>. SUFFICES ASSUME Mqtt!MqttLogAssumption PROVE Mqtt!Spec => []Mqtt!BuffersAccounted
  OBVIOUS
<1>1. Mqtt!Init => Mqtt!BuffersAccounted
  <2>. SUFFICES ASSUME Mqtt!Init PROVE Mqtt!BuffersAccounted
    OBVIOUS
  <2>1. Mqtt!Enqueuing = {}
    BY DEF Mqtt!Init, Mqtt!Enqueuing
  <2>2. Mqtt!Cardinality(Mqtt!Enqueuing) = 0
    BY <2>1, Counting
  <2>. QED BY <2>2 DEF Mqtt!Init, Mqtt!BuffersAccounted, Mqtt!MqttLogAssumption
<1>2. MqttPlaces /\ Mqtt!BuffersAccounted /\ [Mqtt!Next]_(Mqtt!vars)
      => (MqttPlaces /\ Mqtt!BuffersAccounted)'
  BY NextKeepsTypes, NextKeepsAccount
<1>. QED BY <1>1, <1>2, InitTypes, PTL DEF Mqtt!Spec
-----------------------------------------------------------------------------
(* CNP tuning: a stop is never undone by a concurrent change of another *)
(* flag, and the ports are initialised one at a time.                   *)

CONSTANTS Lcores, NPorts, InitMayFail, MaxKeys

VARIABLES flags, change, seen, lport_idx, pid, port_lock, exited, keys

Cnp == INSTANCE CnpStart

\* No actor sets APP_RUNNING again: start_running() was before the loops.
StopKept ==
  /\ change \in [Cnp!Actors -> [set : SUBSET {Cnp!RESET, Cnp!CLEAR},
     clr : SUBSET {Cnp!RUNNING, Cnp!RESET, Cnp!CLEAR}]]

\* The places an actor can be at.
Steps == {"fetch", "store", "valid", "lock", "init", "link", "loop", "leave", "ended",
          "wait", "returned", "idle", "handled"}

\* The lcore inside the init functions holds the lock, and an lcore that gets
\* past the test of its port has a port that exists, or the program is gone.
LockHeld ==
  /\ pc \in [Cnp!Actors -> Steps]
  /\ \A l \in Lcores : pc[l] = "init" => port_lock = l
  /\ \A l \in Lcores : pc[l] \in {"lock", "init"} => exited \/ pid[l] < NPorts
  /\ pid \in [Lcores -> Nat] /\ lport_idx \in Nat
-----------------------------------------------------------------------------
(* Stopping *)

LEMMA BeginKeepsStop ==
    ASSUME StopKept, NEW a \in Cnp!Actors, NEW set \in SUBSET {Cnp!RESET, Cnp!CLEAR},
           NEW clr \in SUBSET {Cnp!RUNNING, Cnp!RESET, Cnp!CLEAR}, NEW to,
           Cnp!BeginChange(a, set, clr, to)
    PROVE  StopKept' /\ flags' = flags
BY DEF StopKept, Cnp!BeginChange

LEMMA CmpsetKeepsStop ==
    ASSUME StopKept, NEW a \in Cnp!Actors, Cnp!cmpset(a)
    PROVE  StopKept' /\ (Cnp!RUNNING \notin flags => Cnp!RUNNING \notin flags')
<1>1. Cnp!RUNNING \notin change[a].set
  BY DEF StopKept, Cnp!RUNNING, Cnp!RESET, Cnp!CLEAR
<1>2. StopKept'
  BY DEF StopKept, Cnp!cmpset, Cnp!NoChange
<1>3. Cnp!RUNNING \notin flags => Cnp!RUNNING \notin flags'
  BY <1>1 DEF Cnp!cmpset
<1>. QED BY <1>2, <1>3

LEMMA NextKeepsStop ==
    ASSUME StopKept, [Cnp!Next]_(Cnp!startVars)
    PROVE  StopKept' /\ (Cnp!RUNNING \notin flags => Cnp!RUNNING \notin flags')
<1>0. /\ {} \in SUBSET {Cnp!RESET, Cnp!CLEAR} /\ {Cnp!RESET} \in SUBSET {Cnp!RESET,
         Cnp!CLEAR}
      /\ \A f \in {Cnp!RESET, Cnp!CLEAR} : {f} \in SUBSET {Cnp!RESET, Cnp!CLEAR}
      /\ {} \in SUBSET {Cnp!RUNNING, Cnp!RESET, Cnp!CLEAR}
         /\ {Cnp!RUNNING} \in SUBSET {Cnp!RUNNING, Cnp!RESET, Cnp!CLEAR}
      /\ \A f \in {Cnp!RESET, Cnp!CLEAR} : {f} \in SUBSET {Cnp!RUNNING, Cnp!RESET,
         Cnp!CLEAR}
  OBVIOUS
<1>1. Lcores \subseteq Cnp!Actors /\ "main" \in Cnp!Actors /\ "signal" \in Cnp!Actors
  BY DEF Cnp!Actors
<1>2. ASSUME UNCHANGED Cnp!startVars
      PROVE  StopKept' /\ flags' = flags
  BY <1>2 DEF Cnp!startVars, StopKept
<1>3. ASSUME NEW l \in Lcores, Cnp!LcoreStep(l) \/ Cnp!link_up(l)
      PROVE  StopKept' /\ (Cnp!RUNNING \notin flags => Cnp!RUNNING \notin flags')
  <2>1. CASE Cnp!cmpset(l)
    BY <1>1, <2>1, CmpsetKeepsStop
  <2>2. CASE \/ Cnp!lport_idx_load(l) \/ Cnp!lport_idx_store(l) \/ Cnp!port_valid(l)
             \/ Cnp!rte_spinlock_lock(l) \/ \E ok \in BOOLEAN : Cnp!port_init(l, ok)
             \/ Cnp!link_down(l) \/ Cnp!rxtx_ends(l)
    <3>1. UNCHANGED <<flags, change>>
      BY <2>2 DEF Cnp!lport_idx_load, Cnp!lport_idx_store, Cnp!port_valid,
                  Cnp!rte_spinlock_lock,
                  Cnp!port_init, Cnp!link_down, Cnp!rxtx_ends, Cnp!flagData
    <3>. QED BY <3>1 DEF StopKept
  <2>3. CASE Cnp!rxtx_leaves(l)
    <3>1. Cnp!BeginChange(l, {}, {Cnp!RUNNING}, "ended")
      BY <2>3 DEF Cnp!rxtx_leaves
    <3>. QED BY <1>0, <1>1, <3>1, BeginKeepsStop
  <2>4. CASE Cnp!link_up(l)
    <3>1. Cnp!BeginChange(l, {Cnp!RESET}, {}, "loop")
      BY <2>4 DEF Cnp!link_up
    <3>. QED BY <1>0, <1>1, <3>1, BeginKeepsStop
  <2>. QED BY <1>3, <2>1, <2>2, <2>3, <2>4 DEF Cnp!LcoreStep
<1>4. ASSUME Cnp!MainStep \/ Cnp!keyboard_sets \/ Cnp!keyboard_quit
      PROVE  StopKept' /\ (Cnp!RUNNING \notin flags => Cnp!RUNNING \notin flags')
  <2>1. CASE Cnp!cmpset("main")
    BY <1>1, <2>1, CmpsetKeepsStop
  <2>2. CASE Cnp!print_stats
    <3>1. PICK f \in {Cnp!RESET, Cnp!CLEAR} : Cnp!BeginChange("main", {}, {f}, "loop")
      BY <2>2 DEF Cnp!print_stats
    <3>. QED BY <1>0, <1>1, <3>1, BeginKeepsStop
  <2>3. CASE Cnp!keyboard_leaves
    <3>1. Cnp!BeginChange("main", {}, {Cnp!RUNNING}, "wait")
      BY <2>3 DEF Cnp!keyboard_leaves
    <3>. QED BY <1>0, <1>1, <3>1, BeginKeepsStop
  <2>4. CASE Cnp!main_returns
    BY <2>4 DEF Cnp!main_returns, Cnp!flagData, StopKept
  <2>5. CASE Cnp!keyboard_sets
    <3>1. PICK f \in {Cnp!RESET, Cnp!CLEAR} : Cnp!BeginChange("main", {f}, {}, "loop")
      BY <2>5 DEF Cnp!keyboard_sets
    <3>. QED BY <1>0, <1>1, <3>1, BeginKeepsStop
  <2>6. CASE Cnp!keyboard_quit
    <3>1. Cnp!BeginChange("main", {}, {Cnp!RUNNING}, "loop")
      BY <2>6 DEF Cnp!keyboard_quit
    <3>. QED BY <1>0, <1>1, <3>1, BeginKeepsStop
  <2>. QED BY <1>4, <2>1, <2>2, <2>3, <2>4, <2>5, <2>6 DEF Cnp!MainStep
<1>5. CASE Cnp!signal_handler
  <2>1. Cnp!BeginChange("signal", {}, {Cnp!RUNNING}, "handled")
    BY <1>5 DEF Cnp!signal_handler
  <2>. QED BY <1>0, <1>1, <2>1, BeginKeepsStop
<1>6. CASE Cnp!cmpset("signal")
  BY <1>1, <1>6, CmpsetKeepsStop
<1>. QED BY <1>2, <1>3, <1>4, <1>5, <1>6 DEF Cnp!Next

\* No actor's change of a flag undoes a stop, however the reads and the compare
\* and sets of the lcores, the keyboard and the signal handler interleave.
THEOREM StopIsFinalHolds == Cnp!Spec => Cnp!StopIsFinal
<1>1. Cnp!Init => StopKept
  BY DEF Cnp!Init, StopKept, Cnp!NoChange
<1>2. StopKept /\ [Cnp!Next]_(Cnp!startVars) => StopKept'
  BY NextKeepsStop
<1>3. StopKept /\ [Cnp!Next]_(Cnp!startVars) => [Cnp!RUNNING \notin flags
      => Cnp!RUNNING \notin flags']_(Cnp!startVars)
  BY NextKeepsStop
<1>. QED BY <1>1, <1>2, <1>3, PTL DEF Cnp!Spec, Cnp!StopIsFinal
-----------------------------------------------------------------------------
(* Initialising the ports *)

\* A step of an actor that neither takes the lock nor enters port_init().
LEMMA OtherStepsKeepLock ==
    ASSUME LockHeld, ~exited, NEW a \in Cnp!Actors, NEW to \in Steps,
           to \notin {"lock", "init"}, pc' = [pc EXCEPT ![a] = to] \/ pc' = pc,
           pid' = pid, lport_idx' = lport_idx, exited' = exited, port_lock' = port_lock
    PROVE  LockHeld'
<1>1. pc' \in [Cnp!Actors -> Steps]
  BY DEF LockHeld
<1>2. \A l \in Lcores : pc'[l] \in {"lock", "init"} => pc'[l] = pc[l]
  BY DEF LockHeld, Cnp!Actors
<1>. QED BY <1>1, <1>2 DEF LockHeld

LEMMA NextKeepsLock ==
    ASSUME Cnp!CnpStartAssumption, LockHeld, [Cnp!Next]_(Cnp!startVars)
    PROVE  LockHeld'
<1>1. Lcores \subseteq Cnp!Actors /\ "main" \in Cnp!Actors /\ "signal" \in Cnp!Actors
  BY DEF Cnp!Actors
<1>2. CASE UNCHANGED Cnp!startVars
  BY <1>2 DEF Cnp!startVars, LockHeld
<1>. SUFFICES ASSUME ~exited,
                     \/ \E l \in Lcores : Cnp!LcoreStep(l) \/ Cnp!link_up(l)
                     \/ Cnp!MainStep \/ Cnp!keyboard_sets \/ Cnp!keyboard_quit
                     \/ Cnp!signal_handler \/ Cnp!cmpset("signal")
              PROVE  LockHeld'
  BY <1>2 DEF Cnp!Next
<1>3. ASSUME NEW a \in Cnp!Actors, Cnp!cmpset(a) PROVE LockHeld'
  <2>1. UNCHANGED <<pc, Cnp!ports>>
    BY <1>3 DEF Cnp!cmpset
  <2>. QED BY <2>1 DEF Cnp!ports, LockHeld
<1>4. ASSUME NEW a \in Cnp!Actors, NEW set, NEW clr, NEW to \in Steps,
             to \notin {"lock", "init"}, Cnp!BeginChange(a, set, clr, to)
      PROVE  LockHeld'
  BY <1>4, OtherStepsKeepLock, Zenon DEF Cnp!BeginChange, Cnp!ports
<1>5. ASSUME NEW l \in Lcores, Cnp!LcoreStep(l) \/ Cnp!link_up(l) PROVE LockHeld'
  <2>1. CASE Cnp!lport_idx_load(l)
    BY <2>1, <1>1 DEF Cnp!lport_idx_load, Cnp!Goto, LockHeld, Steps
  <2>2. CASE Cnp!lport_idx_store(l)
    BY <2>2, <1>1 DEF Cnp!lport_idx_store, Cnp!Goto, LockHeld, Steps
  <2>3. CASE Cnp!port_valid(l)
    <3>1. /\ pc' = [pc EXCEPT ![l] = "lock"] /\ exited' = (pid[l] >= NPorts)
          /\ UNCHANGED <<lport_idx, pid, port_lock>>
      BY <2>3 DEF Cnp!port_valid, Cnp!Goto
    <3>2. pid[l] \in Nat /\ NPorts \in Nat
      BY DEF Cnp!CnpStartAssumption, LockHeld
    <3>3. exited' \/ pid[l] < NPorts
      <4>1. pid[l] >= NPorts => exited'
        BY <3>1, Zenon
      <4>2. pid[l] >= NPorts \/ pid[l] < NPorts
        BY <3>2
      <4>. QED BY <4>1, <4>2
    <3>4. pc' \in [Cnp!Actors -> Steps] /\ pc'[l] = "lock"
      BY <1>1, <3>1 DEF LockHeld, Steps
    <3>5. \A k \in Lcores : k # l => pc'[k] = pc[k]
      BY <1>1, <3>1 DEF LockHeld, Steps
    <3>. QED BY <3>1, <3>3, <3>4, <3>5 DEF LockHeld
  <2>4. CASE Cnp!rte_spinlock_lock(l)
    <3>1. /\ pc' = [pc EXCEPT ![l] = "init"] /\ port_lock = "none" /\ port_lock' = l
          /\ UNCHANGED <<lport_idx, pid, exited>> /\ pc[l] = "lock"
      BY <2>4 DEF Cnp!rte_spinlock_lock, Cnp!Goto, Cnp!At
    <3>2. \A k \in Lcores : pc[k] # "init"
      BY <3>1 DEF Cnp!CnpStartAssumption, LockHeld
    <3>. QED BY <1>1, <3>1, <3>2 DEF LockHeld, Steps
  <2>5. ASSUME NEW ok \in BOOLEAN, Cnp!port_init(l, ok) PROVE LockHeld'
    <3>1. PICK to \in {"link", "leave"} : pc' = [pc EXCEPT ![l] = to]
      BY <2>5, Zenon DEF Cnp!port_init, Cnp!Goto
    <3>2. pc[l] = "init" /\ port_lock = l /\ UNCHANGED <<lport_idx, pid, exited>>
      BY <2>5 DEF Cnp!port_init, Cnp!At, LockHeld
    <3>3. \A k \in Lcores : k # l => pc[k] # "init"
      BY <3>2 DEF LockHeld
    <3>. QED BY <1>1, <3>1, <3>2, <3>3 DEF LockHeld, Steps
  <2>6. CASE Cnp!link_down(l) \/ Cnp!rxtx_ends(l)
    <3>1. pc' = [pc EXCEPT ![l] = "leave"] /\ UNCHANGED Cnp!ports
      BY <2>6 DEF Cnp!link_down, Cnp!rxtx_ends, Cnp!Goto
    <3>. QED BY <1>1, <3>1, OtherStepsKeepLock, Zenon DEF Cnp!ports, Steps
  <2>7. CASE Cnp!rxtx_leaves(l) \/ Cnp!link_up(l)
    BY <1>1, <1>4, <2>7 DEF Cnp!rxtx_leaves, Cnp!link_up, Steps
  <2>8. CASE Cnp!cmpset(l)
    BY <1>1, <1>3, <2>8
  <2>. QED BY <1>5, <2>1, <2>2, <2>3, <2>4, <2>5, <2>6, <2>7, <2>8 DEF Cnp!LcoreStep
<1>6. CASE Cnp!main_returns
  <2>1. pc' = [pc EXCEPT !["main"] = "returned"] /\ UNCHANGED Cnp!ports
    BY <1>6 DEF Cnp!main_returns, Cnp!Goto
  <2>. QED BY <1>1, <2>1, OtherStepsKeepLock, Zenon DEF Cnp!ports, Steps
<1>7. CASE Cnp!print_stats \/ Cnp!keyboard_leaves \/ Cnp!keyboard_sets
           \/ Cnp!keyboard_quit \/ Cnp!signal_handler
  BY <1>1, <1>4, <1>7, Zenon DEF Cnp!print_stats, Cnp!keyboard_leaves, Cnp!keyboard_sets,
                          Cnp!keyboard_quit,
                          Cnp!signal_handler, Steps
<1>. QED BY <1>1, <1>3, <1>5, <1>6, <1>7 DEF Cnp!MainStep

\* The init functions of two ports never run at the same time, and only for
\* ports that exist, for every number of lcores and ports.
THEOREM InitAloneHolds == Cnp!CnpStartAssumption /\ Cnp!Spec => []Cnp!InitAlone
<1>. SUFFICES ASSUME Cnp!CnpStartAssumption PROVE Cnp!Spec => []Cnp!InitAlone
  OBVIOUS
<1>1. Cnp!Init => LockHeld
  BY DEF Cnp!Init, LockHeld, Cnp!Actors, Steps
<1>2. LockHeld /\ [Cnp!Next]_(Cnp!startVars) => LockHeld'
  BY NextKeepsLock
<1>3. LockHeld => Cnp!InitAlone
  BY DEF LockHeld, Cnp!InitAlone
<1>. QED BY <1>1, <1>2, <1>3, PTL DEF Cnp!Spec
=============================================================================

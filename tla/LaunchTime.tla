----------------------------- MODULE LaunchTime -----------------------------
(***************************************************************************)
(* The worker of the launch time test (src/apps/launch-time/rxtx.c): it    *)
(* sends a burst per launch interval, a little ahead of its time, and      *)
(* measures the interval between the bursts that come back.  The main      *)
(* lcore resets the measurement at any time (stats.c).  The counters of    *)
(* packets are left out.                                                   *)
(***************************************************************************)
EXTENDS Integers, Sequences, FiniteSets

CONSTANTS Burst,      \* pinfo->burst_count
          Interval,   \* pinfo->launch_interval_ns
          Offset,     \* pinfo->tx_burst_offset_ns
          Pool,       \* mbufs of lport->tx_mp
          TxRing,     \* descriptors of the Tx queue
          Stamped,    \* HW_TIMESTAMP: the port stamps what it receives
          MaxTime,    \* bound: the clock
          MaxResets,  \* bound: resets by the main lcore
          MaxLoss     \* bound: packets lost on the wire

\* What the constants have to be.
LaunchTimeAssumption ==
  /\ {Burst, Interval, Pool, TxRing} \subseteq Nat \ {0}
  /\ {Offset, MaxTime, MaxResets, MaxLoss} \subseteq Nat
  /\ Offset <= Interval /\ Stamped \in BOOLEAN

VARIABLES
  running,     \* is_running()
  pc,          \* where rxtx_routine() is
  now,         \* clock_get_ns(), and the clock of the time stamps
  first_begin, \* tx_begin_ns of the first burst
  tx_begin,    \* tx_begin_ns
  bursts,      \* history: when each burst was handed to the port
  pending,     \* packets send_packets() still has to send
  txq,         \* packets on the Tx queue
  rxq,         \* [burst, index, at] of the packets received
  free,        \* mbufs available in lport->tx_mp
  prev_rx,     \* prev_rx, and the burst it is the time of
  current,     \* curr_ns, and the burst it is the time of
  tested,      \* prev_rx as the test of it found it
  samples,     \* history: [from, to, took] of the intervals measured
  arrived,     \* history: [burst, at] of the first packets of bursts that arrived
  polled,      \* history: [burst, at] of the bursts a poll returned
  resets, lost \* counts, for the bounds

launchVars == <<running, pc, now, first_begin, tx_begin, bursts, pending, txq, rxq, free,
                prev_rx, current, tested, samples, arrived, polled, resets, lost>>
txData == <<first_begin, tx_begin, bursts, pending>>
rxData == <<prev_rx, current, tested, samples, polled>>

Never == [burst |-> 0, at |-> 0]

Init ==
  /\ running = TRUE /\ pc = "link" /\ now = 1
  /\ first_begin = 0 /\ tx_begin = 0 /\ bursts = <<>> /\ pending = <<>>
  /\ txq = <<>> /\ rxq = <<>> /\ free = Pool
  /\ prev_rx = Never /\ current = Never /\ tested = Never
  /\ samples = {} /\ arrived = {} /\ polled = {} /\ resets = 0 /\ lost = 0

-----------------------------------------------------------------------------
(* The worker *)

\* The link is up and the delay is over.
rxtx_starts ==
  /\ pc = "link"
  /\ pc' = "loop"
  /\ tx_begin' = now + Interval /\ first_begin' = now + Interval
  /\ UNCHANGED <<running, now, bursts, pending, txq, rxq, free, rxData, arrived,
                 resets, lost>>

\* The end of the routine: while it waits for the link, or of the loop.
rxtx_ends ==
  /\ pc \in {"link", "loop"} /\ ~running
  /\ pc' = "ended"
  /\ UNCHANGED <<running, now, txData, txq, rxq, free, rxData, arrived, resets,
                 lost>>

\* Mutant: the next burst is due an interval from now.
tx_timestamping_from_now ==
  /\ pc = "loop" /\ running /\ now >= tx_begin - Offset
  /\ tx_begin' = now + Interval - Offset
  /\ IF free < Burst
     THEN pc' = "exit" /\ UNCHANGED <<free, pending, bursts>>
     ELSE /\ pc' = "send"
          /\ free' = free - Burst
          /\ bursts' = Append(bursts, now)
          /\ pending' = [i \in 1 .. Burst |-> [burst |-> Len(bursts) + 1, index |-> i]]
  /\ UNCHANGED <<running, now, first_begin, txq, rxq, rxData, arrived, resets, lost>>

\* A burst is due: tx_timestamping() takes the mbufs, or the program exits.
tx_timestamping ==
  /\ pc = "loop" /\ running /\ now >= tx_begin - Offset
  /\ tx_begin' = tx_begin + Interval
  /\ IF free < Burst
     THEN pc' = "exit" /\ UNCHANGED <<free, pending, bursts>>
     ELSE /\ pc' = "send"
          /\ free' = free - Burst
          /\ bursts' = Append(bursts, now)
          /\ pending' = [i \in 1 .. Burst |-> [burst |-> Len(bursts) + 1, index |-> i]]
  /\ UNCHANGED <<running, now, first_begin, txq, rxq, rxData, arrived, resets, lost>>

rxtx_not_due ==
  /\ pc = "loop" /\ running /\ now < tx_begin - Offset
  /\ pc' = "rx"
  /\ UNCHANGED <<running, now, txData, txq, rxq, free, rxData, arrived, resets,
                 lost>>

Min2(a, b) == IF a < b THEN a ELSE b

\* Mutant: the rest of the burst is forgotten, not freed, when the queue is full.
send_packets_forgets ==
  /\ pc = "send"
  /\ LET n == Min2(Len(pending), TxRing - Len(txq))
     IN /\ txq' = txq \o SubSeq(pending, 1, n)
        /\ pending' = <<>> /\ pc' = "rx" /\ UNCHANGED free
  /\ UNCHANGED <<running, now, first_begin, tx_begin, bursts, rxq, rxData, arrived,
                 resets, lost>>

\* A turn of the loop of send_packets(): it goes on until every packet is taken
\* or the program is stopped; then the rest is freed.
send_packets ==
  /\ pc = "send"
  /\ LET n == Min2(Len(pending), TxRing - Len(txq))
         rest == SubSeq(pending, n + 1, Len(pending))
     IN /\ txq' = txq \o SubSeq(pending, 1, n)
        /\ IF rest = <<>> \/ ~running
           THEN pending' = <<>> /\ free' = free + Len(rest) /\ pc' = "rx"
           ELSE pending' = rest /\ UNCHANGED <<free, pc>>
  /\ UNCHANGED <<running, now, first_begin, tx_begin, bursts, rxq, rxData, arrived,
                 resets, lost>>

\* rx_timestamping(): a poll that returns a whole burst is measured, by the time
\* stamp of its first packet or by the clock; what any other poll returns is
\* freed unseen.
rx_timestamping ==
  /\ pc = "rx"
  /\ \E n \in 0 .. Min2(Len(rxq), Burst) :
       /\ rxq' = SubSeq(rxq, n + 1, Len(rxq))
       /\ IF n = Burst
          THEN /\ current' = [burst |-> rxq[1].burst,
                              at |-> IF Stamped THEN rxq[1].at ELSE now]
               /\ polled' = polled \cup {[burst |-> rxq[1].burst, at |-> now]}
               /\ pc' = "test"
          ELSE pc' = "loop" /\ UNCHANGED <<current, polled>>
  /\ UNCHANGED <<running, now, txData, txq, free, prev_rx, tested, samples, arrived,
                 resets, lost>>

\* The test of prev_rx: the first burst, or the first after a reset, is only
\* kept.
rx_test ==
  /\ pc = "test"
  /\ tested' = prev_rx
  /\ IF prev_rx = Never
     THEN prev_rx' = current /\ pc' = "loop"
     ELSE pc' = "measure" /\ UNCHANGED prev_rx
  /\ UNCHANGED <<running, now, txData, txq, rxq, free, current, samples, arrived,
                 polled, resets, lost>>

\* The use of it: the interval is from the value that was tested or, prev_rx
\* being neither atomic nor volatile, from what a second read of it finds.
rx_measure ==
  /\ pc = "measure"
  /\ pc' = "loop"
  /\ \E prev \in {tested, prev_rx} :
       samples' = samples \cup {[from |-> prev.burst, to |-> current.burst,
                                 took |-> current.at - prev.at]}
  /\ prev_rx' = current
  /\ UNCHANGED <<running, now, txData, txq, rxq, free, current, tested, arrived,
                 polled, resets, lost>>

-----------------------------------------------------------------------------
(* The main lcore *)

\* reset_stats(): of what is modelled it resets prev_rx.
reset_stats ==
  /\ resets < MaxResets
  /\ resets' = resets + 1
  /\ prev_rx' = Never
  /\ UNCHANGED <<running, pc, now, txData, txq, rxq, free, current, tested, samples,
                 arrived, polled, lost>>

stop_running ==
  /\ running
  /\ running' = FALSE
  /\ UNCHANGED <<pc, now, txData, txq, rxq, free, rxData, arrived, resets, lost>>

-----------------------------------------------------------------------------
(* The clock, the port and the wire *)

tick ==
  /\ now < MaxTime
  /\ now' = now + 1
  /\ UNCHANGED <<running, pc, txData, txq, rxq, free, rxData, arrived, resets,
                 lost>>

\* The port sends a packet and frees its mbuf; it comes back with the time.
port_sends ==
  /\ txq # <<>>
  /\ LET p == Head(txq)
     IN /\ rxq' = Append(rxq, [burst |-> p.burst, index |-> p.index, at |-> now])
        /\ arrived' = IF p.index = 1 THEN arrived \cup {[burst |-> p.burst, at |-> now]}
                      ELSE arrived
  /\ txq' = Tail(txq) /\ free' = free + 1
  /\ UNCHANGED <<running, pc, now, txData, rxData, resets, lost>>

wire_loses ==
  /\ txq # <<>> /\ lost < MaxLoss
  /\ lost' = lost + 1
  /\ txq' = Tail(txq) /\ free' = free + 1
  /\ UNCHANGED <<running, pc, now, txData, rxq, rxData, arrived, resets>>

-----------------------------------------------------------------------------
WorkerStep ==
  \/ rxtx_ends \/ tx_timestamping \/ rxtx_not_due \/ send_packets
  \/ rx_timestamping \/ rx_test \/ rx_measure

Next ==
  \/ rxtx_starts \/ WorkerStep
  \/ reset_stats \/ stop_running
  \/ tick \/ port_sends \/ wire_loses

\* The worker has a core of its own; the port sends only if PortSends says so.
Spec == Init /\ [][Next]_launchVars /\ WF_launchVars(WorkerStep)
PortSends == WF_launchVars(port_sends)

-----------------------------------------------------------------------------
TypeOK ==
  /\ pc \in {"link", "loop", "send", "rx", "test", "measure", "ended", "exit"}
  /\ free + Len(pending) + Len(txq) = Pool
  /\ Len(txq) <= TxRing /\ Len(pending) <= Burst
  /\ prev_rx.at <= now /\ current.at <= now /\ tested.at <= now

\* However long the worker was held up, burst k leaves at its own time or
\* later, never earlier: a late burst is made up for, it moves no later one.
OnSchedule ==
  /\ \A k \in DOMAIN bursts : bursts[k] >= first_begin + (k - 1) * Interval - Offset
  /\ pc # "link" /\ pc \notin {"ended", "exit"} =>
       tx_begin = first_begin + Len(bursts) * Interval

\* With one packet per burst, what is measured is the interval between one
\* burst and the next that came back, from arrival to arrival with time stamps
\* and from poll to poll without: no interval is measured twice or over a gap.
\* A reset by the main lcore between the test of prev_rx and its use spoils that
\* one interval, which is measured to nothing, and no other.
IntervalsSuccessive ==
  /\ \A s \in samples : s.from # 0 =>
       /\ s.to > s.from /\ (lost = 0 => s.to = s.from + 1)
       /\ \E x, y \in IF Stamped THEN arrived ELSE polled :
            x.burst = s.from /\ y.burst = s.to /\ s.took = y.at - x.at
  /\ Cardinality({s \in samples : s.from = 0}) <= resets

\* A pool that covers the Tx queue and one burst never runs dry, so that the
\* rte_exit() of rxtx_routine() is never reached, stops and stalls included.
NeverExits == pc # "exit"

\* A stop ends the worker, even with a port that sends nothing more.
StopEnds == (~running /\ pc # "exit") ~> pc = "ended"

\* With a port that sends, every burst that is due while the program runs is
\* handed to it.
EveryBurstSent ==
  PortSends => \A k \in 1 .. MaxTime \div Interval + 1 :
    (pc # "link" /\ now >= first_begin + (k - 1) * Interval)
      ~> (Len(bursts) >= k \/ ~running)

=============================================================================

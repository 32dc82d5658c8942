----------------------------- MODULE Statistics -----------------------------
(***************************************************************************)
(* The statistics of the testbench: the global counters and the counters   *)
(* of the current collection period of every traffic class, the histogram  *)
(* of round-trip times, and the report of a finished period to the MQTT    *)
(* thread.  Each class updates its own entries on its own lcore.  A report *)
(* resets the periods of all the classes, and the main thread resets       *)
(* everything when 'r' is pressed and when it shuts down; no lock keeps    *)
(* these resets and the updates apart.                                     *)
(***************************************************************************)
EXTENDS Integers, SequencesExt

CONSTANTS Types,        \* the frame types in use
          RealTime,     \* those of stat_frame_type_is_real_time()
          Mirror,       \* is_mirror_mode()
          Interval,     \* stats_collection_interval_ns
          Limit,        \* rtt_expected_rt_limit
          HistMin,      \* stats_histogram_minimum_ns, in microseconds
          HistMax,      \* stats_histogram_maximum_ns, in microseconds
          ResetMin,     \* USEC_PER_SEC / 4
          Infinity,     \* UINT64_MAX as a first minimum
          TimeMod,      \* 2^64 of the time stamps
          Rtts,         \* the round-trip times, in microseconds, that occur
          Delays,       \* from sending to arrival by the two clocks, in nanoseconds
          NsPerUs,      \* 1000
          MaxTime,      \* bound on the clock
          MaxSent,      \* bound on the frames a class sends
          MaxFrames,    \* bound on the frames a class receives
          MaxResets     \* bound on the resets by the main thread

\* What the constants have to be.
StatisticsAssumption ==
    /\ RealTime \subseteq Types /\ Mirror \in BOOLEAN
    /\ HistMin \in Nat /\ HistMax \in Nat /\ HistMin < HistMax
    /\ Rtts \subseteq Nat /\ Delays \subseteq Int /\ NsPerUs \in Nat \ {0} /\ TimeMod > MaxTime

VARIABLES now,        \* clock_gettime_ns()
          global,     \* global_statistics
          period,     \* statistics_per_period
          hist,       \* histograms
          pc,         \* where the thread of a class is
          seen,       \* its period entry as it has loaded it
          frame,      \* the frame it is counting
          reported,   \* what log_via_mqtt_stats() was given
          resets,     \* the resets by the main thread
          total       \* ghost: what happened to each class

vars == <<now, global, period, hist, pc, seen, frame, reported, resets, total>>

Samples(min) == [min |-> min, max |-> 0, count |-> 0, sum |-> 0, outliers |-> 0]

Fresh(min) == [first |-> 0, last |-> 0, ready |-> FALSE, sent |-> 0, received |-> 0,
               rt |-> Samples(min), oneway |-> Samples(min)]

NoFrame == [rtt |-> 0, time |-> 0, oneway |-> 0]

__stat_init == [c \in Types |-> Fresh(Infinity)]

histogram_init ==
    [c \in Types |-> [data |-> [i \in 0 .. HistMax - HistMin - 1 |-> 0],
                      overflow |-> 0, underflow |-> 0]]

Init ==
    /\ now = 1
    /\ global = __stat_init /\ period = __stat_init /\ hist = histogram_init
    /\ pc = [c \in Types |-> "idle"]
    /\ seen = [c \in Types |-> Fresh(Infinity)]
    /\ frame = [c \in Types |-> NoFrame]
    /\ reported = [c \in Types |-> <<>>]
    /\ resets = 0
    /\ total = [c \in Types |-> [sent |-> 0, received |-> 0, rtts |-> [r \in Rtts |-> 0]]]
-----------------------------------------------------------------------------
(* Updates of one entry                                                    *)

stat_update_min_max(s, x) ==
    [s EXCEPT !.min = IF x < @ THEN x ELSE @, !.max = IF x > @ THEN x ELSE @]

Sample(s, x, outlier) ==
    [stat_update_min_max(s, x) EXCEPT !.count = @ + 1, !.sum = @ + x,
                                      !.outliers = IF outlier THEN @ + 1 ELSE @]

RttOutlier(c, x) == c \in RealTime /\ x > Limit
OnewayOutlier(c, x) == c \in RealTime /\ x > Limit \div 2

\* The part that the global entry and the entry of the period have in common.
AddSamples(c, s, f) ==
    [s EXCEPT !.rt = IF Mirror THEN @ ELSE Sample(@, f.rtt, RttOutlier(c, f.rtt)),
              !.oneway = Sample(@, f.oneway, OnewayOutlier(c, f.oneway))]

\* The three error counters are added to in the same place and are left out.
CountFrame(s) == [s EXCEPT !.received = @ + 1]

histogram_update(h, rtt) ==
    IF rtt >= HistMax THEN [h EXCEPT !.overflow = @ + 1]
    ELSE IF rtt < HistMin THEN [h EXCEPT !.underflow = @ + 1]
    ELSE [h EXCEPT !.data[rtt - HistMin] = @ + 1]

\* stats_reset_stats() clears the entry it is given and the period entries of all types.
stats_reset_stats == [c \in Types |-> Fresh(ResetMin)]
-----------------------------------------------------------------------------
(* stat_frame_sent(): the increment of the entry of the period is a load   *)
(* and a store, and the store may use the value loaded before a reset      *)

stat_frame_sent(c) ==
    /\ pc[c] = "idle" /\ total[c].sent < MaxSent
    /\ seen' = [seen EXCEPT ![c] = period[c]]
    /\ total' = [total EXCEPT ![c].sent = @ + 1]
    /\ pc' = [pc EXCEPT ![c] = "sent"]
    /\ UNCHANGED <<now, global, period, hist, frame, reported, resets>>

stat_frame_sent_per_period(c) ==
    /\ pc[c] = "sent"
    /\ \E s \in {seen[c], period[c]} :
         period' = [period EXCEPT ![c] = [s EXCEPT !.sent = @ + 1]]
    /\ global' = [global EXCEPT ![c].sent = @ + 1]
    /\ seen' = [seen EXCEPT ![c] = Fresh(Infinity)]
    /\ pc' = [pc EXCEPT ![c] = "idle"]
    /\ UNCHANGED <<now, hist, frame, reported, resets, total>>
-----------------------------------------------------------------------------
(* stat_frame_received()                                                   *)

\* A frame that seems to arrive before it was sent is taken to arrive when it was sent.
Arrival(tx_timestamp) == IF now < tx_timestamp THEN tx_timestamp ELSE now

stat_frame_received(c, rtt, tx_timestamp) ==
    /\ pc[c] = "idle" /\ total[c].received < MaxFrames
    /\ LET f == [rtt |-> rtt, time |-> Arrival(tx_timestamp),
                 oneway |-> (Arrival(tx_timestamp) - tx_timestamp) \div NsPerUs] IN
         /\ frame' = [frame EXCEPT ![c] = f]
         /\ global' = [global EXCEPT ![c] = AddSamples(c, @, f)]
    /\ hist' = IF Mirror THEN hist ELSE [hist EXCEPT ![c] = histogram_update(@, rtt)]
    /\ seen' = [seen EXCEPT ![c] = period[c]]
    /\ total' = [total EXCEPT ![c].received = @ + 1, ![c].rtts[rtt] = @ + 1]
    /\ pc' = [pc EXCEPT ![c] = "period"]
    /\ UNCHANGED <<now, period, reported, resets>>

\* The time since the first frame of the period, as an unsigned difference.
Elapsed(s, f) == (f.time - s.first) % TimeMod

StartPeriod(s, f) == IF s.first = 0 THEN [s EXCEPT !.first = f.time] ELSE s

EndPeriod(s, f) ==
    IF Elapsed(s, f) >= Interval THEN [s EXCEPT !.ready = TRUE, !.last = f.time] ELSE s

stat_frame_received_per_period(c) ==
    /\ pc[c] = "period"
    /\ \E s \in {seen[c], period[c]} :
         LET e == EndPeriod(StartPeriod(s, frame[c]), frame[c])
             entry == CountFrame(AddSamples(c, e, frame[c])) IN
         /\ period' = [period EXCEPT ![c] = entry]
         /\ pc' = [pc EXCEPT ![c] = IF entry.ready THEN "report" ELSE "count"]
    /\ seen' = [seen EXCEPT ![c] = Fresh(Infinity)]
    /\ UNCHANGED <<now, global, hist, frame, reported, resets, total>>

log_via_mqtt_stats(c) ==
    /\ pc[c] = "report"
    /\ reported' = [reported EXCEPT ![c] = Append(@, period[c])]
    /\ pc' = [pc EXCEPT ![c] = "reset"]
    /\ UNCHANGED <<now, global, period, hist, seen, frame, resets, total>>

\* Mutant: a reported period is not reset.
reset_per_period_skipped(c) ==
    /\ pc[c] = "reset"
    /\ pc' = [pc EXCEPT ![c] = "count"]
    /\ UNCHANGED <<now, global, period, hist, seen, frame, reported, resets, total>>

\* Each class only touches its own entry, so that the entries are cleared one after the
\* other cannot be told from all of them being cleared at once.
reset_per_period(c) ==
    /\ pc[c] = "reset"
    /\ period' = stats_reset_stats
    /\ pc' = [pc EXCEPT ![c] = "count"]
    /\ UNCHANGED <<now, global, hist, seen, frame, reported, resets, total>>

stat_frame_received_end(c) ==
    /\ pc[c] = "count"
    /\ global' = [global EXCEPT ![c] = CountFrame(@)]
    /\ frame' = [frame EXCEPT ![c] = NoFrame]
    /\ pc' = [pc EXCEPT ![c] = "idle"]
    /\ UNCHANGED <<now, period, hist, seen, reported, resets, total>>

\* print_stats() after 'r', and tsn_shutdown().
stats_reset_all_stats ==
    /\ resets < MaxResets /\ resets' = resets + 1
    /\ global' = [c \in Types |-> Fresh(ResetMin)]
    /\ period' = stats_reset_stats
    /\ UNCHANGED <<now, hist, pc, seen, frame, reported, total>>

Tick ==
    /\ now < MaxTime /\ now' = now + 1
    /\ UNCHANGED <<global, period, hist, pc, seen, frame, reported, resets, total>>

Done == UNCHANGED vars
-----------------------------------------------------------------------------
Next ==
    \/ \E c \in Types :
         \/ stat_frame_sent(c)
         \/ stat_frame_sent_per_period(c)
         \/ \E rtt \in Rtts, delay \in Delays :
              stat_frame_received(c, rtt, now - delay)
         \/ stat_frame_received_per_period(c)
         \/ log_via_mqtt_stats(c)
         \/ reset_per_period(c)
         \/ stat_frame_received_end(c)
    \/ stats_reset_all_stats
    \/ Tick
    \/ Done

Spec == Init /\ [][Next]_vars
-----------------------------------------------------------------------------
SamplesType(s) ==
    /\ s.min \in Nat /\ s.max \in Nat /\ s.count \in Nat /\ s.sum \in Nat
    /\ s.outliers \in 0 .. s.count

EntryType(s) ==
    /\ s.first \in Nat /\ s.last \in Nat /\ s.ready \in BOOLEAN
    /\ s.sent \in 0 .. MaxSent /\ s.received \in 0 .. MaxFrames
    /\ SamplesType(s.rt) /\ SamplesType(s.oneway)

TypeOK ==
    \A c \in Types :
        /\ EntryType(global[c]) /\ EntryType(period[c])
        /\ pc[c] \in {"idle", "sent", "period", "report", "reset", "count"}

\* What the reports and the current period of a class say together; the current period
\* does not count between a report and the reset that follows it.
Sum(seq, field) == FoldSeq(LAMBDA e, n : e[field] + n, 0, seq)
Counted(c, field) ==
    Sum(reported[c], field) + IF pc[c] = "reset" THEN 0 ELSE period[c][field]

\* A class that is alone and is not reset loses nothing: every frame it sends or receives is
\* in exactly one report or in the current period.
PeriodsAccount ==
    \A c \in Types :
        /\ Counted(c, "sent") = total[c].sent - IF pc[c] = "sent" THEN 1 ELSE 0
        /\ Counted(c, "received") = total[c].received - IF pc[c] = "period" THEN 1 ELSE 0

\* The resets of other classes and of the main thread, and the updates they race with, may
\* lose frames, but no frame is ever reported twice.
NeverOverstated ==
    \A c \in Types : \A field \in {"sent", "received"} : Counted(c, field) <= total[c][field]

\* What is reported, and the global entry between two frames, fits together: as many samples
\* as frames, and an average between the smallest and the largest.
ReportsConsistent ==
    \A c \in Types :
        \A r \in ToSet(reported[c]) \cup IF pc[c] = "idle" THEN {global[c]} ELSE {} :
        /\ r.oneway.count = r.received /\ r.rt.count = IF Mirror THEN 0 ELSE r.received
        /\ \A s \in {r.rt, r.oneway} :
             s.min * s.count <= s.sum /\ s.sum <= s.max * s.count

\* The histogram has every round-trip time in its bin, or among the overflows or the
\* underflows, exactly as often as it was measured; resets do not touch it.
HistogramExact ==
    \A c \in Types :
        LET Times(S) == FoldSet(LAMBDA r, n : total[c].rtts[r] + n, 0, S) IN
        ~Mirror =>
            /\ hist[c].overflow = Times({r \in Rtts : r >= HistMax})
            /\ hist[c].underflow = Times({r \in Rtts : r < HistMin})
            /\ \A i \in DOMAIN hist[c].data :
                 hist[c].data[i] = Times({r \in Rtts : r = HistMin + i})
=============================================================================

------------------------------- MODULE MqttLog ------------------------------
(***************************************************************************)
(* The way of the statistics of a period from a traffic class to the MQTT  *)
(* broker: log_via_mqtt_stats() runs on the lcore of the class, takes a    *)
(* buffer from mqtt_pool, copies the statistics into it and puts it on     *)
(* mqtt_ring; the MQTT thread wakes up once per period and publishes what  *)
(* is on the ring.  A buffer that does not fit on the ring is not given    *)
(* back.  Time advances while the threads are anywhere in their code.      *)
(***************************************************************************)
EXTENDS Integers, Sequences, FiniteSets

CONSTANTS Types,          \* the traffic classes that report
          PoolSize,       \* LOG_MQTT_MEMPOOL_BUFFER_COUNT
          RingCapacity,   \* LOG_MQTT_RING_SIZE - 1
          BurstCount,     \* LOG_MQTT_BUFFER_COUNT
          LogPeriod,      \* log_via_mqtt_thread_period_ns
          Interval,       \* stats_collection_interval_ns
          MaxReports,     \* bound on the reports of a class
          MaxLate         \* bound on how late the MQTT thread may be

\* What the constants have to be.
MqttLogAssumption ==
    /\ IsFiniteSet(Types)
    /\ PoolSize \in Nat /\ RingCapacity \in Nat \ {0} /\ BurstCount \in Nat \ {0}
    /\ LogPeriod \in Nat \ {0} /\ Interval \in Nat \ {0}
    /\ MaxReports \in Nat /\ MaxLate \in Nat

VARIABLES ready,      \* ready[c]: time until the current period of c may be over
          pc,         \* where c is inside log_via_mqtt_stats()
          number,     \* number[c]: the reports of c for which there was a buffer
          pool,       \* the number of free buffers
          ring,       \* <<c, k>>: the k-th report of c
          leaked,     \* the number of buffers that are nowhere
          at,         \* where log_via_mqtt_thread_routine() is
          wake,       \* time until it is to wake up; negative when it is late
          burst,      \* the reports taken from the ring and not yet published
          spent,      \* how many of the same burst are published
          published,  \* published[c]: the last report of c that was published
          stop

vars == <<ready, pc, number, pool, ring, leaked, at, wake, burst, spent, published, stop>>

Init ==
    /\ ready = [c \in Types |-> 0]
    /\ pc = [c \in Types |-> "idle"]
    /\ number = [c \in Types |-> 0]
    /\ pool = PoolSize /\ ring = <<>> /\ leaked = 0
    /\ at = "sleep" /\ wake = LogPeriod /\ burst = <<>> /\ spent = 0
    /\ published = [c \in Types |-> 0]
    /\ stop = FALSE
-----------------------------------------------------------------------------
(* log_via_mqtt_stats()                                                    *)

\* A period of a class ends at the earliest an Interval after the one before.
log_via_mqtt_stats(c) ==
    /\ pc[c] = "idle" /\ ready[c] = 0 /\ number[c] < MaxReports
    /\ ready' = [ready EXCEPT ![c] = Interval]
    /\ \/ /\ pool > 0
          /\ pool' = pool - 1
          /\ number' = [number EXCEPT ![c] = @ + 1]
          /\ pc' = [pc EXCEPT ![c] = "enqueue"]
       \/ pool = 0 /\ UNCHANGED <<pool, number, pc>>
    /\ UNCHANGED <<ring, leaked, at, wake, burst, spent, published, stop>>

RingFull == Len(ring) = RingCapacity

log_via_mqtt_enqueue(c) ==
    /\ pc[c] = "enqueue"
    /\ \/ ~RingFull /\ ring' = Append(ring, <<c, number[c]>>) /\ leaked' = leaked
       \/ RingFull /\ leaked' = leaked + 1 /\ ring' = ring
    /\ pc' = [pc EXCEPT ![c] = "idle"]
    /\ UNCHANGED <<ready, number, pool, at, wake, burst, spent, published, stop>>
-----------------------------------------------------------------------------
(* log_via_mqtt_thread_routine()                                           *)

mqtt_thread_wakes ==
    /\ at = "sleep" /\ wake <= 0
    /\ at' = "drain"
    /\ UNCHANGED <<ready, pc, number, pool, ring, leaked, wake, burst, spent, published, stop>>

\* How many buffers rte_ring_dequeue_burst() takes.
rte_ring_dequeue_burst == IF Len(ring) < BurstCount THEN Len(ring) ELSE BurstCount

\* Mutant: the latest reports are taken first.
mqtt_thread_fetches_last ==
    LET n == rte_ring_dequeue_burst IN
    /\ at = "drain" /\ n > 0
    /\ burst' = SubSeq(ring, Len(ring) - n + 1, Len(ring))
    /\ ring' = SubSeq(ring, 1, Len(ring) - n)
    /\ at' = "publish"
    /\ UNCHANGED <<ready, pc, number, pool, leaked, wake, spent, published, stop>>

mqtt_thread_fetches ==
    LET n == rte_ring_dequeue_burst IN
    /\ at = "drain" /\ n > 0
    /\ burst' = SubSeq(ring, 1, n) /\ ring' = SubSeq(ring, n + 1, Len(ring))
    /\ at' = "publish"
    /\ UNCHANGED <<ready, pc, number, pool, leaked, wake, spent, published, stop>>

\* The outcome of mosquitto_publish() is printed and otherwise ignored.
log_via_mqtt_add_traffic_class ==
    /\ at = "publish" /\ burst # <<>>
    /\ published' = [published EXCEPT ![Head(burst)[1]] = Head(burst)[2]]
    /\ burst' = Tail(burst) /\ spent' = spent + 1
    /\ UNCHANGED <<ready, pc, number, pool, ring, leaked, at, wake, stop>>

\* rte_mempool_put_bulk()
mqtt_thread_puts ==
    /\ at = "publish" /\ burst = <<>>
    /\ pool' = pool + spent /\ spent' = 0
    /\ at' = "drain"
    /\ UNCHANGED <<ready, pc, number, ring, leaked, wake, burst, published, stop>>

\* Mutant: the time to wake up at is advanced twice.
mqtt_thread_sleeps_long ==
    /\ at = "drain" /\ rte_ring_dequeue_burst = 0
    /\ IF stop THEN at' = "done" /\ wake' = wake
       ELSE at' = "sleep" /\ wake' = wake + 2 * LogPeriod
    /\ UNCHANGED <<ready, pc, number, pool, ring, leaked, burst, spent, published, stop>>

\* The ring is empty: the test of stop, and the next time to wake up at.
mqtt_thread_sleeps ==
    /\ at = "drain" /\ rte_ring_dequeue_burst = 0
    /\ IF stop THEN at' = "done" /\ wake' = wake
       ELSE at' = "sleep" /\ wake' = wake + LogPeriod
    /\ UNCHANGED <<ready, pc, number, pool, ring, leaked, burst, spent, published, stop>>

MqttThread ==
    \/ mqtt_thread_wakes
    \/ mqtt_thread_fetches
    \/ log_via_mqtt_add_traffic_class
    \/ mqtt_thread_puts
    \/ mqtt_thread_sleeps
-----------------------------------------------------------------------------
Tick ==
    /\ wake > -MaxLate /\ at # "done"
    /\ wake' = wake - 1
    /\ ready' = [c \in Types |-> IF ready[c] > 0 THEN ready[c] - 1 ELSE 0]
    /\ UNCHANGED <<pc, number, pool, ring, leaked, at, burst, spent, published, stop>>

function_stop_all ==
    /\ ~stop /\ stop' = TRUE
    /\ UNCHANGED <<ready, pc, number, pool, ring, leaked, at, wake, burst, spent, published>>

\* The traffic classes may end as well; nothing of the log is used any more.
Ended == at = "done" /\ UNCHANGED vars

Next ==
    \/ \E c \in Types : log_via_mqtt_stats(c) \/ log_via_mqtt_enqueue(c)
    \/ MqttThread
    \/ Tick
    \/ function_stop_all
    \/ Ended

\* The MQTT thread has an lcore of its own, and time passes.
Spec == Init /\ [][Next]_vars /\ WF_vars(MqttThread) /\ WF_vars(Tick)
-----------------------------------------------------------------------------
TypeOK ==
    /\ wake \in Int
    /\ ready \in [Types -> Nat] /\ number \in [Types -> Nat] /\ published \in [Types -> Nat]
    /\ pc \in [Types -> {"idle", "enqueue"}]
    /\ pool \in Nat /\ leaked \in Nat /\ spent \in Nat
    /\ ring \in Seq(Types \X Nat) /\ burst \in Seq(Types \X Nat)
    /\ at \in {"sleep", "drain", "publish", "done"} /\ stop \in BOOLEAN

Enqueuing == {c \in Types : pc[c] = "enqueue"}

\* Every buffer of the pool is free, with a class, on the ring, with the MQTT thread, or
\* among those a full ring has cost: no other buffer is lost, and none is given back twice.
BuffersAccounted ==
    pool + Cardinality(Enqueuing) + Len(ring) + Len(burst) + spent + leaked = PoolSize

\* A ring with room for the reports of a thread's period (see the README for the bound)
\* only overflows when the MQTT thread is behind its schedule: each wake-up takes
\* everything from the ring, however many bursts that needs.
LeakOnlyWhenLate == [][leaked' # leaked => wake < 0]_vars

\* The reports of a class are published in order, and only those that were made.
PublishedInOrder ==
    [][\A c \in Types : published'[c] # published[c] =>
            published[c] < published'[c] /\ published'[c] <= number[c]]_vars

\* A report on the ring is published, unless the thread ends first.
ReportsArrive ==
    \A c \in Types : \A k \in 1 .. MaxReports :
        (\E i \in 1 .. Len(ring) : ring[i] = <<c, k>>) ~>
            (published[c] >= k \/ at = "done")
=============================================================================

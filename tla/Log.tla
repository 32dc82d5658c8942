--------------------------------- MODULE Log --------------------------------
(***************************************************************************)
(* The message log of the testbench.  log_message() runs on the caller's   *)
(* lcore: it takes a buffer from the pool, formats the message into it and *)
(* puts it on the ring; the log thread wakes up once per period, logs its  *)
(* own line of statistics, and writes to the file what is on the ring.     *)
(* No lock protects the pool, the ring or the counter of lost messages.    *)
(***************************************************************************)
EXTENDS Integers, Sequences, FiniteSets

CONSTANTS Producers,      \* the threads that log
          Buffers,        \* the elements of log_pool
          Cached,         \* how many free elements the caches of other lcores may hold back
          RingCapacity,   \* LOG_RING_SIZE - 1
          BurstCount,     \* LOG_BURST_COUNT
          CurrentLevel,   \* log_private.current_level
          MaxMessages,    \* bound: messages per thread
          None            \* no buffer

LOG_LEVEL_ERROR   == 1
LOG_LEVEL_WARNING == 2
LOG_LEVEL_INFO    == 3
LOG_LEVEL_DEBUG   == 4
Levels == LOG_LEVEL_ERROR .. LOG_LEVEL_DEBUG

LogThread == "log"
Callers == Producers \cup {LogThread}

\* What the constants have to be.
LogAssumption ==
    /\ IsFiniteSet(Buffers) /\ None \notin Buffers /\ LogThread \notin Producers
    /\ Cached \in Nat /\ RingCapacity \in Nat \ {0} /\ BurstCount \in Nat \ {0}
    /\ CurrentLevel \in Levels /\ MaxMessages \in Nat

VARIABLES pool,              \* the free elements of log_pool
          ring,              \* global_ring_buffer: buffers, oldest first
          content,           \* content[b]: the message formatted into b
          held,              \* held[t]: the buffer of t inside log_message()
          pc,                \* where t is inside log_message()
          seen,              \* messages_dropped as t has loaded it
          issued,            \* issued[t]: messages of t that passed the level test
          messages_dropped,
          lost,              \* how many messages were really lost
          at,                \* where log_thread_routine() is
          burst,             \* the buffers taken from the ring and not yet written
          written,           \* those of the same burst that are written
          file,
          stop

vars == <<pool, ring, content, held, pc, seen, issued, messages_dropped, lost, at, burst,
          written, file, stop>>

caller == <<held, pc, seen, issued>>

Init ==
    /\ pool = Buffers /\ ring = <<>>
    /\ content = [b \in Buffers |-> <<>>]
    /\ held = [t \in Callers |-> None]
    /\ pc = [t \in Callers |-> "idle"]
    /\ seen = [t \in Callers |-> 0]
    /\ issued = [t \in Callers |-> 0]
    /\ messages_dropped = 0 /\ lost = 0
    /\ at = "sleep" /\ burst = <<>> /\ written = {} /\ file = <<>>
    /\ stop = FALSE
-----------------------------------------------------------------------------
(* rte_mempool_get() and rte_ring_enqueue()                                *)

\* The pool may refuse as long as all that is left may sit in other lcores' caches.
MempoolMayFail == Cardinality(pool) <= Cached

RingFull == Len(ring) = RingCapacity
-----------------------------------------------------------------------------
(* log_message(): the test of the level and rte_mempool_get()              *)

log_message(t, level) ==
    /\ pc[t] = "idle"
    /\ \/ level > CurrentLevel /\ UNCHANGED <<pool, caller, lost>>
       \/ /\ level <= CurrentLevel
          /\ issued' = [issued EXCEPT ![t] = @ + 1]
          /\ \/ \E b \in pool :
                  /\ pool' = pool \ {b}
                  /\ held' = [held EXCEPT ![t] = b]
                  /\ pc' = [pc EXCEPT ![t] = "format"]
                  /\ UNCHANGED <<seen, lost>>
             \/ /\ MempoolMayFail
                /\ seen' = [seen EXCEPT ![t] = messages_dropped]
                /\ lost' = lost + 1
                /\ pc' = [pc EXCEPT ![t] = "count"]
                /\ UNCHANGED <<pool, held>>
    /\ UNCHANGED <<ring, content, messages_dropped, burst, written, file, stop>>

\* messages_dropped++ is a load, done with the failing get, and a store.
log_message_count(t) ==
    /\ pc[t] = "count"
    /\ messages_dropped' = seen[t] + 1
    /\ pc' = [pc EXCEPT ![t] = "idle"]
    /\ UNCHANGED <<pool, ring, content, held, seen, issued, lost, at, burst, written, file, stop>>

log_message_format(t) ==
    /\ pc[t] = "format"
    /\ content' = [content EXCEPT ![held[t]] = <<t, issued[t]>>]
    /\ pc' = [pc EXCEPT ![t] = "enqueue"]
    /\ UNCHANGED <<pool, ring, held, seen, issued, messages_dropped, lost, at, burst, written, file, stop>>

\* A full ring gives the buffer back, and messages_dropped stays as it is.
log_message_enqueue(t) ==
    /\ pc[t] = "enqueue"
    /\ \/ ~RingFull /\ ring' = Append(ring, held[t]) /\ UNCHANGED <<pool, lost>>
       \/ RingFull /\ pool' = pool \cup {held[t]} /\ lost' = lost + 1 /\ ring' = ring
    /\ held' = [held EXCEPT ![t] = None]
    /\ pc' = [pc EXCEPT ![t] = "idle"]
    /\ UNCHANGED <<content, seen, issued, messages_dropped, at, burst, written, file, stop>>

log_message_rest(t) ==
    \/ log_message_count(t)
    \/ log_message_format(t)
    \/ log_message_enqueue(t)
-----------------------------------------------------------------------------
(* log_thread_routine()                                                    *)

\* It wakes up and logs the line of statistics, at INFO, by log_message() itself;
\* the bound on messages leaves later lines out.
log_thread_wakes ==
    /\ at = "sleep" /\ at' = "drain"
    /\ \/ issued[LogThread] < MaxMessages /\ log_message(LogThread, LOG_LEVEL_INFO)
       \/ /\ issued[LogThread] = MaxMessages
          /\ UNCHANGED <<pool, ring, content, caller, messages_dropped, lost, burst, written, file, stop>>

Smaller(m, n) == IF m < n THEN m ELSE n

\* Mutant: the buffers go back to the pool before they are written.
log_thread_fetches_and_puts ==
    /\ at = "drain" /\ pc[LogThread] = "idle" /\ ring # <<>>
    /\ LET n == Smaller(Len(ring), BurstCount) IN
         /\ burst' = SubSeq(ring, 1, n) /\ ring' = SubSeq(ring, n + 1, Len(ring))
         /\ pool' = pool \cup {ring[i] : i \in 1 .. n}
    /\ at' = "write"
    /\ UNCHANGED <<content, caller, messages_dropped, lost, written, file, stop>>

log_thread_fetches ==
    /\ at = "drain" /\ pc[LogThread] = "idle" /\ ring # <<>>
    /\ LET n == Smaller(Len(ring), BurstCount) IN
         burst' = SubSeq(ring, 1, n) /\ ring' = SubSeq(ring, n + 1, Len(ring))
    /\ at' = "write"
    /\ UNCHANGED <<pool, content, caller, messages_dropped, lost, written, file, stop>>

\* Mutant: only the first buffer of a burst is written.
log_thread_writes_one ==
    /\ at = "write" /\ burst # <<>>
    /\ file' = Append(file, content[Head(burst)])
    /\ written' = {burst[i] : i \in 1 .. Len(burst)}
    /\ burst' = <<>>
    /\ UNCHANGED <<pool, ring, content, caller, messages_dropped, lost, at, stop>>

\* fwrite() of each buffer of the burst in turn.
log_thread_writes ==
    /\ at = "write" /\ burst # <<>>
    /\ file' = Append(file, content[Head(burst)])
    /\ written' = written \cup {Head(burst)}
    /\ burst' = Tail(burst)
    /\ UNCHANGED <<pool, ring, content, caller, messages_dropped, lost, at, stop>>

\* rte_mempool_put_bulk() of the burst, and the next rte_ring_dequeue_burst().
log_thread_puts ==
    /\ at = "write" /\ burst = <<>>
    /\ pool' = pool \cup written /\ written' = {}
    /\ at' = "drain"
    /\ UNCHANGED <<ring, content, caller, messages_dropped, lost, burst, file, stop>>

\* The ring is empty: fflush(), then the test of stop.
log_thread_flushes ==
    /\ at = "drain" /\ pc[LogThread] = "idle" /\ ring = <<>>
    /\ at' = IF stop THEN "done" ELSE "sleep"
    /\ UNCHANGED <<pool, ring, content, caller, messages_dropped, lost, burst, written, file, stop>>

\* function_stop_all()
function_stop_all ==
    /\ ~stop /\ stop' = TRUE
    /\ UNCHANGED <<pool, ring, content, caller, messages_dropped, lost, at, burst, written, file>>

\* The threads end at some time after that; the log is not used any more.
Ended == at = "done" /\ UNCHANGED vars
-----------------------------------------------------------------------------
Produce(t) ==
    \/ \E level \in Levels : issued[t] < MaxMessages /\ log_message(t, level) /\ at' = at
    \/ log_message_rest(t)

LogThreadStep ==
    \/ log_thread_wakes
    \/ log_message_rest(LogThread)
    \/ log_thread_fetches
    \/ log_thread_writes
    \/ log_thread_puts
    \/ log_thread_flushes

Next ==
    \/ \E t \in Producers : Produce(t)
    \/ LogThreadStep
    \/ function_stop_all
    \/ Ended

\* The log thread has an lcore of its own and sleeps for a bounded time.
Spec == Init /\ [][Next]_vars /\ WF_vars(LogThreadStep)
-----------------------------------------------------------------------------
InRing == {ring[i] : i \in 1 .. Len(ring)}
InBurst == {burst[i] : i \in 1 .. Len(burst)}
Held == {held[t] : t \in Callers} \ {None}

TypeOK ==
    /\ pool \subseteq Buffers /\ written \subseteq Buffers
    /\ ring \in Seq(Buffers) /\ burst \in Seq(Buffers)
    /\ held \in [Callers -> Buffers \cup {None}]
    /\ pc \in [Callers -> {"idle", "format", "enqueue", "count"}]
    /\ seen \in [Callers -> Nat] /\ issued \in [Callers -> Nat]
    /\ messages_dropped \in Nat /\ lost \in Nat
    /\ at \in {"sleep", "drain", "write", "done"}
    /\ stop \in BOOLEAN

\* Every buffer of the pool is in exactly one place: free, with a thread inside
\* log_message(), on the ring, or with the log thread; none is lost, and none has two
\* owners of which one could overwrite what the other is about to write to the file.
OneOwner ==
    /\ pool \cup InRing \cup InBurst \cup written \cup Held = Buffers
    /\ pool \cap (InRing \cup InBurst \cup written \cup Held) = {}
    /\ InRing \cap (InBurst \cup written \cup Held) = {}
    /\ InBurst \cap (written \cup Held) = {} /\ written \cap Held = {}
    /\ \A i, j \in 1 .. Len(ring) : ring[i] = ring[j] => i = j
    /\ \A i, j \in 1 .. Len(burst) : burst[i] = burst[j] => i = j
    /\ \A t, u \in Callers : held[t] = held[u] /\ held[t] # None => t = u

\* LogDrops never reports more messages than were lost: two increments may collide
\* and a full ring is not counted, but nothing is counted that was not lost.
DropsNotOverstated == messages_dropped <= lost

\* The log keeps its promise: nothing but logged messages in the file, none twice, and
\* those of a thread in their order, whatever the threads and the log thread interleave.
Promise == INSTANCE LogPromise WITH Callers <- Callers, issued <- issued, file <- file
KeepsPromise == Promise!Spec

\* A message on the ring gets into the file, unless the log thread has ended.
QueuedIsWritten ==
    \A t \in Callers : \A k \in 1 .. MaxMessages :
        (\E b \in InRing : content[b] = <<t, k>>) ~>
            (at = "done" \/ \E i \in 1 .. Len(file) : file[i] = <<t, k>>)
=============================================================================

---------------------------- MODULE RattTelemetry ----------------------------
(***************************************************************************)
(* The reports of RATT (src/apps/ratt): the main lcore prints the          *)
(* statistics and queues a copy for MQTT (stats.c, mqtt_stats()), the MQTT *)
(* lcore publishes the copies and queues a log line for each (mqtt.c), the *)
(* main lcore writes the log lines to the file (log.c, keyboard.c), and    *)
(* the worker queues the single round trip times (reference.c:169).  All   *)
(* of it is taken down by keyboard_loop() while the others may still run.  *)
(*                                                                         *)
(* Nothing but sleeps (250 ms and 2 ms) keeps what is taken down apart     *)
(* from its users.  A sleep may end at any time here; late notes the       *)
(* lcores that had not got as far by then as the sleep is meant for.       *)
(***************************************************************************)
EXTENDS Integers, Sequences

CONSTANTS Pool,       \* LOG_MQTT_BUFFER_COUNT
          LogRing,    \* LOG_RING_SIZE - 1, lines the log ring holds
          Deltas,     \* pinfo->deltas_enabled
          Broker,     \* mosquitto_connect() succeeds
          Delayed,    \* pinfo->delay_sec outlasts the start of the MQTT lcore
          Faults,     \* subset of {"publish", "reopen"}: calls that may fail
          MaxStats,   \* bound: reports queued
          MaxDeltas   \* bound: round trip times queued

\* What the constants have to be.
TelemetryAssumption ==
  /\ Pool \in Nat \ {0} /\ LogRing \in Nat \ {0}
  /\ MaxStats \in Nat /\ MaxDeltas \in Nat
  /\ Deltas \in BOOLEAN /\ Broker \in BOOLEAN /\ Delayed \in BOOLEAN
  /\ Faults \subseteq {"publish", "reopen"}

VARIABLES
  running,       \* is_running()
  main,          \* where keyboard_loop() is
  mqtt,          \* where mqtt_thread_routine() is
  worker,        \* where the worker is
  log_enabled, mqtt_enabled,   \* the flags of pinfo
  log,           \* linfo's pool and rings: "live", "null"
  fd,            \* linfo->fd: "open" or "null"
  objects,       \* mqtt's client, pool and rings: "live", "freed", "null"
  logring,       \* lines on the log ring
  logdeltas,     \* round trip times on the log's delta ring
  ring,          \* copies on the MQTT ring
  held,          \* copies mqtt_add_stats() took off the ring
  sent,          \* how many of them it has published
  free,          \* buffers available in the MQTT pool
  deltas,        \* round trip times on the MQTT delta ring
  file,          \* lines written to the log file, before a reset too
  reports,       \* history: copies queued so far
  published,     \* history: copies published so far
  logged,        \* history: lines queued so far
  timed,         \* history: round trip times queued so far
  late,          \* history: the lcores that a sleep was too short for
  crashed        \* history: the call that used what was gone, or "no"

telemetryVars == <<running, main, mqtt, worker, log_enabled, mqtt_enabled, log,
                   fd, objects, logring, logdeltas, ring, held, sent, free, deltas, file,
                   reports, published, logged, timed, late, crashed>>
mqttData == <<ring, held, sent, free, deltas, reports, published, timed>>
logData  == <<log_enabled, log, fd, logring, logdeltas, file, logged>>
faults   == <<late, crashed>>

Init ==
  /\ running = TRUE
  /\ main = "print" /\ mqtt = "connect" /\ worker = "delay"
  /\ log_enabled = TRUE /\ mqtt_enabled = TRUE
  /\ log = "live" /\ fd = "open" /\ objects = "live"
  /\ logring = <<>> /\ ring = <<>> /\ held = <<>> /\ file = <<>>
  /\ free = Pool /\ sent = 0 /\ deltas = 0 /\ logdeltas = 0
  /\ reports = <<>> /\ published = <<>> /\ logged = <<>> /\ timed = 0
  /\ late = {} /\ crashed = "no"

\* A step of the lcore that is in the middle of c uses what must be there.
uses(there, c) == crashed' = IF there THEN crashed ELSE c

-----------------------------------------------------------------------------
(* The main lcore *)

MainOnly == UNCHANGED <<mqtt, worker>>

\* print_stats() up to the guards of mqtt_stats(): nothing is queued before the
\* first round trip, with MQTT closed, or three turns out of four.
print_stats ==
  /\ main \in {"print", "last"}
  /\ \/ /\ mqtt_enabled /\ objects # "null" /\ Len(reports) < MaxStats
        /\ main' = IF main = "print" THEN "put" ELSE "lastput"
     \/ main' = IF main = "print" THEN "flush" ELSE "stop"
  /\ MainOnly
  /\ UNCHANGED <<running, mqtt_enabled, objects, mqttData, logData, faults>>

\* The rest of mqtt_stats(): copy the statistics into a buffer and queue it.
mqtt_stats ==
  /\ main \in {"put", "lastput"}
  /\ main' = IF main = "put" THEN "flush" ELSE "stop"
  /\ uses(objects = "live", "mqtt_stats")
  /\ IF objects = "live" /\ free > 0
     THEN LET r == Len(reports) + 1
          IN free' = free - 1 /\ ring' = Append(ring, r) /\ reports' = Append(reports, r)
     ELSE UNCHANGED <<free, ring, reports>>
  /\ MainOnly
  /\ UNCHANGED <<running, mqtt_enabled, objects, held, sent, deltas, published, timed,
                 logData, late>>

\* log_flush(): every line and every round trip time is written, if the file
\* is there.
log_flush ==
  /\ main = "flush"
  /\ main' = "key"
  /\ LET pending == log_enabled /\ (logring # <<>> \/ logdeltas > 0)
     IN /\ IF pending /\ fd = "open"
           THEN file' = file \o logring /\ logring' = <<>> /\ logdeltas' = 0
           ELSE UNCHANGED <<file, logring, logdeltas>>
        /\ uses(~pending \/ fd = "open", "log_flush")
  /\ MainOnly
  /\ UNCHANGED <<running, mqtt_enabled, objects, mqttData, log_enabled, log, fd,
                 logged, late>>

\* No key, or one that only redraws.
keyboard_none ==
  /\ main = "key"
  /\ main' = IF running THEN "print" ELSE "last"
  /\ MainOnly
  /\ UNCHANGED <<running, mqtt_enabled, objects, mqttData, logData, faults>>

\* 'q' leaves the loop.
keyboard_quit ==
  /\ main = "key"
  /\ main' = "last"
  /\ MainOnly
  /\ UNCHANGED <<running, mqtt_enabled, objects, mqttData, logData, faults>>

\* 'r' starts the file anew; fopen() may fail.
keyboard_reset ==
  /\ main = "key"
  /\ main' = IF running THEN "print" ELSE "last"
  /\ fd' \in {"open"} \cup (IF "reopen" \in Faults THEN {"null"} ELSE {})
  /\ MainOnly
  /\ UNCHANGED <<running, mqtt_enabled, objects, mqttData, log_enabled, log,
                 logring, logdeltas, file, logged, faults>>

keyboard_stop ==
  /\ main = "stop"
  /\ running' = FALSE
  /\ main' = "settle"
  /\ MainOnly
  /\ UNCHANGED <<mqtt_enabled, objects, mqttData, logData, faults>>

\* sleep_msec(250), then log_close(): the flag is cleared first, so that its
\* log_flush() writes nothing any more.  The worker and the MQTT lcore should
\* have ended by then.
log_close ==
  /\ main = "settle"
  /\ late' = late \cup (IF worker = "ended" THEN {} ELSE {"worker"})
                   \cup (IF mqtt = "ended" THEN {} ELSE {"mqtt"})
  /\ log_enabled' = FALSE /\ log' = "null" /\ fd' = "null"
  /\ logring' = <<>> /\ logdeltas' = 0
  /\ main' = "close"
  /\ MainOnly
  /\ UNCHANGED <<running, mqtt_enabled, objects, mqttData, file, logged, crashed>>

\* mqtt_close() by the main lcore: nothing when the MQTT lcore closed already.
mqtt_close ==
  /\ main = "close"
  /\ mqtt_enabled' = FALSE
  /\ main' = IF mqtt_enabled THEN "closing" ELSE "join"
  /\ MainOnly
  /\ UNCHANGED <<running, objects, mqttData, logData, faults>>

\* The wait, then the client, the rings and the pool go, and memset() the pointers.
mqtt_close_main ==
  /\ main \in {"closing", "clear"}
  /\ main' = IF main = "closing" THEN "clear" ELSE "join"
  /\ objects' = IF main = "closing" THEN "freed" ELSE "null"
  /\ MainOnly
  /\ UNCHANGED <<running, mqtt_enabled, mqttData, logData, faults>>

\* main() joins the worker; it no longer joins the MQTT lcore, because
\* mqtt_close() has cleared the flag it asks.
main_returns ==
  /\ main = "join" /\ worker = "ended"
  /\ main' = "exited"
  /\ MainOnly
  /\ UNCHANGED <<running, mqtt_enabled, objects, mqttData, logData, faults>>

-----------------------------------------------------------------------------
(* The MQTT lcore *)

MqttOnly == UNCHANGED <<main, worker>>

mqtt_connect ==
  /\ mqtt = "connect"
  /\ mqtt' = IF Broker THEN "loop" ELSE "close"
  /\ MqttOnly
  /\ UNCHANGED <<running, mqtt_enabled, objects, mqttData, logData, faults>>

\* The head of the loop: end, or sleep for a period.
mqtt_loop ==
  /\ mqtt = "loop"
  /\ mqtt' = IF running THEN "stats" ELSE "ended"
  /\ MqttOnly
  /\ UNCHANGED <<running, mqtt_enabled, objects, mqttData, logData, faults>>

\* The test of mqtt_add_stats().
mqtt_add_stats ==
  /\ mqtt = "stats"
  /\ mqtt' = IF mqtt_enabled /\ objects # "null" THEN "take" ELSE "deltas"
  /\ MqttOnly
  /\ UNCHANGED <<running, mqtt_enabled, objects, mqttData, logData, faults>>

\* It takes what is on the ring.
mqtt_take ==
  /\ mqtt = "take"
  /\ uses(objects = "live", "mqtt_add_stats")
  /\ IF objects = "live" /\ ring # <<>>
     THEN mqtt' = "test" /\ held' = ring /\ ring' = <<>>
     ELSE mqtt' = "deltas" /\ UNCHANGED <<held, ring>>
  /\ MqttOnly
  /\ UNCHANGED <<running, mqtt_enabled, objects, sent, free, deltas, reports, published,
                 timed, logData, late>>

\* One copy: log_message() up to its test of the flag.
mqtt_test ==
  /\ mqtt = "test"
  /\ mqtt' = IF log_enabled THEN "line" ELSE "publish"
  /\ MqttOnly
  /\ UNCHANGED <<running, mqtt_enabled, objects, mqttData, logData, faults>>

\* The rest of log_message(): queue a line unless the ring is full.
log_message ==
  /\ mqtt = "line"
  /\ mqtt' = "publish"
  /\ uses(log = "live", "log_message")
  /\ LET line == held[sent + 1]
         room == log = "live" /\ Len(logring) < LogRing
     IN /\ logring' = IF room THEN Append(logring, line) ELSE logring
        /\ logged' = IF room THEN Append(logged, line) ELSE logged
  /\ MqttOnly
  /\ UNCHANGED <<running, mqtt_enabled, objects, mqttData, log_enabled, log, fd, logdeltas,
                 file, late>>

\* The broker gets the copy; the buffers go back after the last.
mqtt_publish ==
  /\ mqtt = "publish"
  /\ uses(objects = "live", "mqtt_add_stats")
  /\ published' = Append(published, held[sent + 1])
  /\ IF sent + 1 < Len(held)
     THEN sent' = sent + 1 /\ mqtt' = "test" /\ UNCHANGED <<held, free>>
     ELSE sent' = 0 /\ free' = free + Len(held) /\ held' = <<>> /\ mqtt' = "deltas"
  /\ MqttOnly
  /\ UNCHANGED <<running, mqtt_enabled, objects, ring, deltas, reports, timed, logData,
                 late>>

\* mosquitto_publish() fails: the routine ends and keeps the buffers.
mqtt_publish_fails ==
  /\ mqtt = "publish" /\ "publish" \in Faults
  /\ uses(objects = "live", "mqtt_add_stats")
  /\ mqtt' = "ended"
  /\ MqttOnly
  /\ UNCHANGED <<running, mqtt_enabled, objects, mqttData, logData, late>>

\* mqtt_add_deltas() drains the delta ring; it asks no flag but Deltas.
mqtt_add_deltas ==
  /\ mqtt = "deltas"
  /\ mqtt' = "loop"
  /\ uses(Deltas => objects = "live", "mqtt_add_deltas")
  /\ deltas' = IF Deltas /\ objects = "live" THEN 0 ELSE deltas
  /\ MqttOnly
  /\ UNCHANGED <<running, mqtt_enabled, objects, ring, held, sent, free, reports,
                 published, timed, logData, late>>

\* mqtt_close() by the MQTT lcore, after an error of the connection.
mqtt_close_error ==
  /\ mqtt = "close"
  /\ mqtt' = IF mqtt_enabled THEN "closing" ELSE "ended"
  /\ mqtt_enabled' = FALSE
  /\ MqttOnly
  /\ UNCHANGED <<running, objects, mqttData, logData, faults>>

\* Mutant: the rings are freed without the wait.
mqtt_close_frees_at_once ==
  /\ mqtt = "closing"
  /\ mqtt' = "clear"
  /\ objects' = "freed"
  /\ MqttOnly
  /\ UNCHANGED <<running, mqtt_enabled, mqttData, logData, faults>>

\* The wait of two periods, then the rings and the pool are freed.  Main lcore and
\* worker should have left what they were in the middle of.
mqtt_close_frees ==
  /\ mqtt = "closing"
  /\ late' = late \cup (IF main \in {"put", "lastput"} THEN {"main"} ELSE {})
                   \cup (IF worker = "delta" THEN {"worker"} ELSE {})
  /\ mqtt' = "clear"
  /\ objects' = "freed"
  /\ MqttOnly
  /\ UNCHANGED <<running, mqtt_enabled, mqttData, logData, crashed>>

\* memset(mqtt, 0, ...): the pointers are NULL from here on.
mqtt_close_clears ==
  /\ mqtt = "clear"
  /\ mqtt' = "ended"
  /\ objects' = "null"
  /\ MqttOnly
  /\ UNCHANGED <<running, mqtt_enabled, mqttData, logData, faults>>

-----------------------------------------------------------------------------
(* The worker *)

WorkerOnly == UNCHANGED <<main, mqtt>>

\* The delay before the first cycle.
worker_starts ==
  /\ worker = "delay"
  /\ Delayed => mqtt \notin {"connect", "close", "closing", "clear"}
  /\ worker' = "cycle"
  /\ WorkerOnly
  /\ UNCHANGED <<running, mqtt_enabled, objects, mqttData, logData, faults>>

worker_ends ==
  /\ worker = "cycle" /\ ~running
  /\ worker' = "ended"
  /\ WorkerOnly
  /\ UNCHANGED <<running, mqtt_enabled, objects, mqttData, logData, faults>>

\* A round trip: log_delta() up to its test of the flags.
round_trip ==
  /\ worker = "cycle" /\ running /\ timed < MaxDeltas
  /\ timed' = timed + 1
  /\ worker' = IF log_enabled /\ Deltas THEN "log" ELSE "test"
  /\ WorkerOnly
  /\ UNCHANGED <<running, mqtt_enabled, objects, ring, held, sent, free, deltas, reports,
                 published, logData, faults>>

\* The enqueue of log_delta().
log_delta ==
  /\ worker = "log"
  /\ worker' = "test"
  /\ uses(log = "live", "log_delta")
  /\ logdeltas' = IF log = "live" THEN logdeltas + 1 ELSE logdeltas
  /\ WorkerOnly
  /\ UNCHANGED <<running, mqtt_enabled, objects, mqttData, log_enabled, log, fd, logring,
                 file, logged, late>>

\* mqtt_delta(), its test of the pointer and its enqueue; it asks no flag but Deltas.
mqtt_delta ==
  /\ worker \in {"test", "delta"}
  /\ worker' = IF worker = "test" /\ Deltas /\ objects # "null" THEN "delta" ELSE "cycle"
  /\ uses(worker = "delta" => objects = "live", "mqtt_delta")
  /\ deltas' = IF worker = "delta" /\ objects = "live" THEN deltas + 1 ELSE deltas
  /\ WorkerOnly
  /\ UNCHANGED <<running, mqtt_enabled, objects, ring, held, sent, free, reports,
                 published, timed, logData, late>>

\* stop_running() by the signal handler, at the end of the run duration, or by
\* the worker.
stop_running ==
  /\ running
  /\ running' = FALSE
  /\ UNCHANGED <<main, mqtt, worker, mqtt_enabled, objects, mqttData, logData,
                 faults>>

-----------------------------------------------------------------------------
MainStep ==
  \/ print_stats \/ mqtt_stats \/ log_flush
  \/ keyboard_none \/ keyboard_quit \/ keyboard_reset
  \/ keyboard_stop \/ log_close \/ mqtt_close \/ mqtt_close_main \/ main_returns

MqttStep ==
  \/ mqtt_connect \/ mqtt_loop \/ mqtt_add_stats \/ mqtt_take \/ mqtt_test
  \/ log_message \/ mqtt_publish \/ mqtt_publish_fails \/ mqtt_add_deltas
  \/ mqtt_close_error \/ mqtt_close_frees \/ mqtt_close_clears

WorkerStep ==
  \/ worker_starts \/ worker_ends \/ round_trip \/ log_delta \/ mqtt_delta

\* The process is there: main() has not returned.
Alive == crashed = "no" /\ main # "exited"

Next == Alive /\ (MainStep \/ MqttStep \/ WorkerStep \/ stop_running)

\* The three lcores are polled by threads of their own.
Spec ==
  /\ Init /\ [][Next]_telemetryVars
  /\ WF_telemetryVars(Alive /\ MainStep)
  /\ WF_telemetryVars(Alive /\ MqttStep)
  /\ WF_telemetryVars(Alive /\ WorkerStep)

-----------------------------------------------------------------------------
TypeOK ==
  /\ running \in BOOLEAN /\ log_enabled \in BOOLEAN /\ mqtt_enabled \in BOOLEAN
  /\ main \in {"print", "put", "flush", "key", "last", "lastput", "stop",
               "settle", "close", "closing", "clear", "join", "exited"}
  /\ mqtt \in {"connect", "loop", "stats", "take", "test", "line", "publish", "deltas", "close",
               "closing", "clear", "ended"}
  /\ worker \in {"delay", "cycle", "log", "test", "delta", "ended"}
  /\ log \in {"live", "null"} /\ fd \in {"open", "null"}
  /\ objects \in {"live", "freed", "null"}
  /\ Len(logring) <= LogRing
  /\ free + Len(ring) + Len(held) = Pool
  /\ sent \in 0 .. Len(held)
  /\ deltas \in 0 .. MaxDeltas /\ logdeltas \in 0 .. MaxDeltas
  /\ late \subseteq {"main", "mqtt", "worker"}

\* Until log_close() every line queued is in the file or still on the ring, in
\* the order in which the reports were published; a line is never written twice.
LinesKept == log_enabled => file \o logring = logged

LcoreOf(call) == CASE call \in {"mqtt_stats", "log_flush"} -> "main"
                   [] call \in {"log_delta", "mqtt_delta"} -> "worker"
                   [] OTHER                                -> "mqtt"

\* No lcore uses a client, a ring, a pool or a file that is gone, although main() does
\* not join the MQTT lcore and each of the three tests a flag or a pointer before it
\* uses what another one takes down.  The exceptions are an lcore for which a sleep was
\* too short, a log file that could not be opened again, and a broker that refuses after
\* the first round trips: mqtt_delta() finds the pointer of a ring that was freed.
CrashExplained ==
  crashed # "no" =>
    \/ LcoreOf(crashed) \in late
    \/ crashed = "log_flush" /\ "reopen" \in Faults
    \/ crashed = "mqtt_delta" /\ ~Broker /\ ~Delayed

\* Every report that was queued while the program was running reaches the
\* broker, unless the run is ended or the connection fails.
ReportsPublished ==
  \A r \in 1 .. MaxStats :
    (r \in {ring[i] : i \in DOMAIN ring} /\ running)
      ~> (r \in {published[i] : i \in DOMAIN published} \/ ~running)

\* Every line is written to the file, unless the run is ended.
LinesWritten ==
  \A r \in 1 .. MaxStats :
    (r \in {logring[i] : i \in DOMAIN logring})
      ~> (r \in {file[i] : i \in DOMAIN file} \/ ~running)

\* The program ends once it is stopped, if only as CrashExplained says.
StopEnds == ~running ~> (main = "exited" \/ crashed # "no")

=============================================================================

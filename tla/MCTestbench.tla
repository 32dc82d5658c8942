---------------------------- MODULE MCTestbench -----------------------------
(***************************************************************************)
(* The parts of the testbench for TLC.  In this model they share no        *)
(* variable, so that a property of one of them holds in all behaviours of  *)
(* the testbench iff it holds in those in which the others stand still:    *)
(* TLC explores the sum of the state spaces and not their product.  A      *)
(* variable whose name two parts use carries the name of its part.         *)
(***************************************************************************)
EXTENDS FunctionIndex, TrafficClasses, Sequences

VARIABLES
  part,  \* the instance this behaviour is one of
  \* Lifecycle
  main, idx, alloc, released, ports, thread, timers, told, main_next, main_stop,
  force_quit, mosq, failed,
  \* Log
  log_pool, log_ring, content, held, log_pc, log_seen, issued, messages_dropped, lost,
  log_at, log_burst, written, log_file, log_stop,
  \* Statistics
  now, global, period, hist, stat_pc, stat_seen, frame, reported, resets, total,
  \* MqttLog
  ready, mqtt_pc, mqtt_number, mqtt_pool, mqtt_ring, leaked, mqtt_at, wake, mqtt_burst,
  spent, published, mqtt_stop,
  \* Config
  config_file, config_pc, entry, tokens, state_key, key, flags, numbers, strings, qid,
  cnt, heap,
  \* Ports
  enabled, active, pkt_handler_enabled, vid, pflow, port_pc, todo, nb_queues,
  rx_mp, vid2qid, launched, handler, nic, arrived, port_burst, rings, delivered, strays,
  \* PortTx
  tx_pool, tx_number, tx_next, buffer, pkts, retries, tx_ring, tx_burst, wire, full

Base == {CONFIG_IDX, LPORT_IDX, LOG_IDX, STAT_IDX, HISTOGRAM_IDX, PKT_HANDLER_IDX}
\* The keys of a file: of each kind of value one, one with a lower bound, and one
\* that is unknown.
ParserKeys ==
  {<<"Enabled", TSN_HIGH>>, <<"NumFramesPerCycle", TSN_HIGH>>,
   <<"PayloadPattern", TSN_HIGH>>, <<"SecurityKey", TSN_HIGH>>,
   <<"WaitTimeBeforeStart", 0>>, <<"Unknown", 0>>}

-----------------------------------------------------------------------------
\* Classes with private data, with and without security, and the MQTT thread.
Lifecycle == INSTANCE Lifecycle WITH
  Enabled <- Base \cup {LOG_VIA_MQTT_IDX, TSN_HIGH_IDX, RTA_IDX},
  Framed <- {TSN_HIGH_IDX, RTA_IDX}, Secured <- {TSN_HIGH_IDX, RTA_IDX},
  Lcore <- [t \in Functions |-> t], Mirror <- FALSE,
  Faults <- {"init", "lports", "create", "timer", "log_file"}, SetupInTime <- TRUE,
  next <- main_next, stop <- main_stop

\* A mirror with UDP High on the lcore of LLDP, and a broker that may not be there.
OneLcore == INSTANCE Lifecycle WITH
  Enabled <- Base \cup {LOG_VIA_MQTT_IDX, RTC_IDX, UDP_HIGH_IDX, LLDP_IDX},
  Framed <- {RTC_IDX}, Secured <- {TSN_HIGH_IDX, RTA_IDX},
  Lcore <- [t \in Functions |-> IF t = UDP_HIGH_IDX THEN LLDP_IDX ELSE t],
  Mirror <- TRUE, Faults <- {"init", "lports", "create", "timer", "log_file", "broker"},
  SetupInTime <- TRUE, next <- main_next, stop <- main_stop

\* TSN Low and UDP Low are enabled and have no frames to send.
NoFrames == INSTANCE Lifecycle WITH
  Enabled <- Base \cup {TSN_LOW_IDX, RTC_IDX, UDP_LOW_IDX}, Framed <- {RTC_IDX},
  Secured <- {TSN_HIGH_IDX, RTA_IDX}, Lcore <- [t \in Functions |-> t], Mirror <- FALSE,
  Faults <- {}, SetupInTime <- TRUE, next <- main_next, stop <- main_stop

\* A pool of which one buffer may be in the cache of another lcore.
Log == INSTANCE Log WITH
  Producers <- {"rtc"}, Buffers <- {"b1", "b2", "b3"}, Cached <- 1, RingCapacity <- 2,
  BurstCount <- 2, CurrentLevel <- 3, MaxMessages <- 2, None <- "none",
  pool <- log_pool, ring <- log_ring, pc <- log_pc, seen <- log_seen, at <- log_at,
  burst <- log_burst, file <- log_file, stop <- log_stop

\* Two threads and the log thread, and a ring for one message.
LogRace == INSTANCE Log WITH
  Producers <- {"rtc", "rta"}, Buffers <- {"b1", "b2", "b3"}, Cached <- 1,
  RingCapacity <- 1, BurstCount <- 2, CurrentLevel <- 3, MaxMessages <- 1,
  None <- "none", pool <- log_pool, ring <- log_ring, pc <- log_pc, seen <- log_seen,
  at <- log_at, burst <- log_burst, file <- log_file, stop <- log_stop

\* A class alone; a negative delay is that of a sender whose clock is ahead.
Statistics == INSTANCE Statistics WITH
  Types <- {"rtc"}, RealTime <- {"rtc"}, Mirror <- FALSE, Interval <- 2, Limit <- 3,
  HistMin <- 1, HistMax <- 3, ResetMin <- 5, Infinity <- 99, TimeMod <- 64,
  Rtts <- {0, 2, 4}, Delays <- {-2, 0, 3}, NsPerUs <- 2, MaxTime <- 4, MaxSent <- 2,
  MaxFrames <- 3, MaxResets <- 0, pc <- stat_pc, seen <- stat_seen

\* Two classes that reset each other, and resets by the main thread.
Resets == INSTANCE Statistics WITH
  Types <- {"rtc", "dcp"}, RealTime <- {"rtc"}, Mirror <- FALSE, Interval <- 1,
  Limit <- 3, HistMin <- 1, HistMax <- 3, ResetMin <- 5, Infinity <- 99, TimeMod <- 64,
  Rtts <- {3}, Delays <- {0}, NsPerUs <- 2, MaxTime <- 2, MaxSent <- 1, MaxFrames <- 2,
  MaxResets <- 1, pc <- stat_pc, seen <- stat_seen

\* A ring with room for all reports of a period and of one more.
MqttLog == INSTANCE MqttLog WITH
  Types <- {"rtc", "dcp"}, PoolSize <- 7, RingCapacity <- 6, BurstCount <- 2,
  LogPeriod <- 1, Interval <- 1, MaxReports <- 4, MaxLate <- 2, pc <- mqtt_pc,
  number <- mqtt_number, pool <- mqtt_pool, ring <- mqtt_ring, at <- mqtt_at,
  burst <- mqtt_burst, stop <- mqtt_stop

Config == INSTANCE Config WITH
  Classes <- {TSN_HIGH, RTC, 9}, SecureClasses <- {TSN_HIGH}, FileKeys <- ParserKeys,
  Scalars <- {"1", "2", "xx"}, MaxEntries <- 2, MaxScalars <- 2, MIN_WAIT_TIME <- 2,
  MAX_QUEUES_ENABLED <- 16, DefaultLength <- 10, file <- config_file, pc <- config_pc

\* Files that enable up to three of five classes.
Queues == INSTANCE Config WITH
  Classes <- {TSN_HIGH, RTC, LLDP, UDP_LOW, 9}, SecureClasses <- {TSN_HIGH},
  FileKeys <- {"Enabled"} \X {TSN_HIGH, RTC, LLDP, UDP_LOW, 9}, Scalars <- {"1"},
  MaxEntries <- 3, MaxScalars <- 1, MIN_WAIT_TIME <- 2, MAX_QUEUES_ENABLED <- 16,
  DefaultLength <- 10, file <- config_file, pc <- config_pc

\* Equal VLAN ids, one that stands for LLDP, and none.
Ports == INSTANCE Ports WITH
  Classes <- {9, TSN_HIGH, LLDP}, Vids <- {0, 100, 200}, PflowPorts <- {1},
  RingCapacity <- 1, MaxFrames <- 2, pc <- port_pc, burst <- port_burst

\* The classes that are told apart by their UDP ports; both places of the pflow port.
UdpPorts == INSTANCE Ports WITH
  Classes <- {RTC, UDP_HIGH, UDP_LOW}, Vids <- {100, 201}, PflowPorts <- {1, 2},
  RingCapacity <- 1, MaxFrames <- 2, pc <- port_pc, burst <- port_burst

\* A Tx ring for the mbufs of all classes, and one that fills up.
PortTx == INSTANCE PortTx WITH
  Classes <- {"tsn", "rtc"}, PoolSize <- 2, BufferSize <- 2, MaxRetries <- 2,
  RingCapacity <- 4, BurstCount <- 2, MaxFrames <- 3, pool <- tx_pool,
  number <- tx_number, next <- tx_next, ring <- tx_ring, burst <- tx_burst

ShortRing == INSTANCE PortTx WITH
  Classes <- {"tsn", "rtc"}, PoolSize <- 2, BufferSize <- 2, MaxRetries <- 2,
  RingCapacity <- 2, BurstCount <- 2, MaxFrames <- 2, pool <- tx_pool,
  number <- tx_number, next <- tx_next, ring <- tx_ring, burst <- tx_burst

ASSUME ConstantsFit ==
  /\ Lifecycle!LifecycleAssumption
  /\ OneLcore!LifecycleAssumption
  /\ NoFrames!LifecycleAssumption
  /\ Log!LogAssumption
  /\ LogRace!LogAssumption
  /\ Statistics!StatisticsAssumption
  /\ Resets!StatisticsAssumption
  /\ MqttLog!MqttLogAssumption
  /\ Config!ConfigAssumption
  /\ Queues!ConfigAssumption
  /\ Ports!PortsAssumption
  /\ UdpPorts!PortsAssumption
  /\ PortTx!PortTxAssumption
  /\ ShortRing!PortTxAssumption

Parts == {"lifecycle", "one_lcore", "no_frames", "log", "log_race", "statistics",
          "resets", "mqtt_log", "config", "queues", "ports", "ports_udp", "port_tx",
          "short_ring"}

mainVars ==
  <<main, idx, alloc, released, ports, thread, timers, told, main_next, main_stop,
    force_quit, mosq, failed>>
logVars ==
  <<log_pool, log_ring, content, held, log_pc, log_seen, issued, messages_dropped, lost,
    log_at, log_burst, written, log_file, log_stop>>
statVars ==
  <<now, global, period, hist, stat_pc, stat_seen, frame, reported, resets, total>>
mqttVars ==
  <<ready, mqtt_pc, mqtt_number, mqtt_pool, mqtt_ring, leaked, mqtt_at, wake,
    mqtt_burst, spent, published, mqtt_stop>>
configVars ==
  <<config_file, config_pc, entry, tokens, state_key, key, flags, numbers, strings, qid,
    cnt, heap>>
portVars ==
  <<enabled, active, pkt_handler_enabled, vid, pflow, port_pc, todo,
    nb_queues, rx_mp, vid2qid, launched, handler, nic, arrived, port_burst, rings,
    delivered, strays>>
txVars ==
  <<tx_pool, tx_number, tx_next, buffer, pkts, retries, tx_ring, tx_burst, wire, full>>
vars == <<part, mainVars, logVars, statVars, mqttVars, configVars, portVars, txVars>>

\* Every component is in an initial state; the one that is chosen moves.
Init ==
  /\ part \in Parts
  /\ IF part = "one_lcore" THEN OneLcore!Init
     ELSE IF part = "no_frames" THEN NoFrames!Init
     ELSE Lifecycle!Init
  /\ IF part = "log_race" THEN LogRace!Init
     ELSE Log!Init
  /\ IF part = "resets" THEN Resets!Init
     ELSE Statistics!Init
  /\ MqttLog!Init
  /\ IF part \in {"config", "queues"} THEN TRUE ELSE config_file = <<>>
  /\ IF part = "queues" THEN Queues!Init
     ELSE Config!Init
  /\ IF part \in {"ports", "ports_udp"} THEN TRUE
     ELSE /\ pkt_handler_enabled = TRUE /\ enabled = {} /\ pflow = 1
          /\ vid = [c \in {TSN_HIGH, 9} |-> 100]
  /\ IF part = "ports_udp" THEN UdpPorts!Init
     ELSE Ports!Init
  /\ IF part = "short_ring" THEN ShortRing!Init
     ELSE PortTx!Init

\* All but the component of instance p stand still.
Alone(p) ==
  /\ part = p /\ UNCHANGED part
  /\ p \notin {"lifecycle", "one_lcore", "no_frames"} => UNCHANGED mainVars
  /\ p \notin {"log", "log_race"} => UNCHANGED logVars
  /\ p \notin {"statistics", "resets"} => UNCHANGED statVars
  /\ p # "mqtt_log" => UNCHANGED mqttVars
  /\ p \notin {"config", "queues"} => UNCHANGED configVars
  /\ p \notin {"ports", "ports_udp"} => UNCHANGED portVars
  /\ p \notin {"port_tx", "short_ring"} => UNCHANGED txVars

\* What ends when there is nothing more to do.
Rest ==
  /\ part \in {"config", "queues", "ports", "ports_udp", "port_tx", "short_ring"}
  /\ UNCHANGED vars

Next ==
  \/ Alone("lifecycle") /\ Lifecycle!Next
  \/ Alone("one_lcore") /\ OneLcore!Next
  \/ Alone("no_frames") /\ NoFrames!Next
  \/ Alone("log") /\ Log!Next
  \/ Alone("log_race") /\ LogRace!Next
  \/ Alone("statistics") /\ Statistics!Next
  \/ Alone("resets") /\ Resets!Next
  \/ Alone("mqtt_log") /\ MqttLog!Next
  \/ Alone("config") /\ Config!Next
  \/ Alone("queues") /\ Queues!Next
  \/ Alone("ports") /\ Ports!Next
  \/ Alone("ports_udp") /\ UdpPorts!Next
  \/ Alone("port_tx") /\ PortTx!Next
  \/ Alone("short_ring") /\ ShortRing!Next
  \/ Rest

Spec == Init /\ [][Next]_vars
-----------------------------------------------------------------------------
\* The shutdown is orderly, whenever the user quits and whatever failed before: every
\* timer is told to stop, no thread is left while main() frees what it uses, a function
\* is freed after its users, and a normal end leaves only what no deinit function frees
\* (the lports, the VLAN table, the timers and the mbuf arrays).
OrderlyShutdown ==
  /\ part = "lifecycle" => Lifecycle!InUseIsLive
  /\ part = "one_lcore" => OneLcore!InUseIsLive
  /\ part = "lifecycle" => Lifecycle!UsersFreedFirst
  /\ part = "lifecycle" => Lifecycle!EveryTimerTold
  /\ part = "lifecycle" => Lifecycle!CleanExit
  /\ part = "one_lcore" => OneLcore!CleanExit

\* Whatever fails and in whichever order threads start and stop, a thread of the testbench
\* finds everything it uses and nothing is closed twice, unless a TSN class is enabled
\* without frames, the log file could not be opened, or the broker refused.
CrashExplained ==
  /\ part = "lifecycle" => Lifecycle!CrashExplained
  /\ part = "one_lcore" => OneLcore!CrashExplained
  /\ part = "no_frames" => NoFrames!CrashExplained

\* Every log buffer, report buffer, mbuf and string of the configuration has one owner on
\* all paths.  The exceptions are counted: the report buffers that a full ring lost, the
\* scalars of the tokens that the parser passes by without deleting them, and the mbufs of
\* a class that found the shared Tx ring full, which may be held twice and are never lost.
OneOwner ==
  /\ part = "log" => Log!OneOwner
  /\ part = "log_race" => LogRace!OneOwner
  /\ part = "mqtt_log" => MqttLog!BuffersAccounted
  /\ part = "port_tx" => PortTx!OneHolder
  /\ part = "port_tx" => PortTx!NeverLost
  /\ part = "short_ring" => ShortRing!OneHolder
  /\ part = "short_ring" => ShortRing!NeverLost
  /\ part = "config" => Config!StringsOwned
  /\ part = "queues" => Queues!StringsOwned

\* What the log promises, of the behaviours of the log.
Promise == INSTANCE LogPromise WITH
  Callers <- {"rtc", "log"},
  issued <- IF part = "log" THEN issued ELSE [t \in {"rtc", "log"} |-> 0],
  file <- IF part = "log" THEN log_file ELSE <<>>

\* The log implements LogPromise: messages of a thread in order, none twice.
KeepsPromise == Promise!Spec

\* The counts are true: the reports and the open period of a class that is alone add up
\* to its frames and each report is consistent, every time is in its bin, and resets that
\* race with updates, as the racing increments of messages_dropped, lose counts but never
\* add any.
CountsTrue ==
  /\ part = "log" => Log!DropsNotOverstated
  /\ part = "log_race" => LogRace!DropsNotOverstated
  /\ part = "statistics" => Statistics!PeriodsAccount
  /\ part = "statistics" => Statistics!ReportsConsistent
  /\ part = "statistics" => Statistics!HistogramExact
  /\ part = "resets" => Resets!HistogramExact
  /\ part = "statistics" => Statistics!NeverOverstated
  /\ part = "resets" => Resets!NeverOverstated

\* The MQTT ring only overflows when its thread is behind its schedule.
LeakOnlyWhenLate == MqttLog!LeakOnlyWhenLate

\* The reports of a class are published in order and, until it finds the shared Tx ring
\* full, its frames leave in order and without a gap, though all classes share the queues.
InOrder ==
  /\ MqttLog!PublishedInOrder
  /\ [][(part \in {"port_tx", "short_ring"}) =>
          \A c \in DOMAIN wire \ full : wire'[c] \in {wire[c], wire[c] + 1}]_vars

\* The configuration is what the file says, whatever the order of its tokens, and the
\* enabled classes have queues of their own.
FileDecides ==
  /\ part = "config" => Config!FileDecides
  /\ part = "queues" => Queues!FileDecides
  /\ part = "config" => Config!QueuesDistinct
  /\ part = "queues" => Queues!QueuesDistinct

\* Whatever arrives while the classes are being launched, a class receives only frames with
\* the tag, EtherType or UDP port that it registered for, and none of them is lost to queue
\* 0 once it has.
OwnFramesOnly ==
  /\ part = "ports" => Ports!OwnFramesOnly
  /\ part = "ports_udp" => UdpPorts!OwnFramesOnly
  /\ part = "ports" => Ports!StraysExplained
  /\ part = "ports_udp" => UdpPorts!StraysExplained
=============================================================================

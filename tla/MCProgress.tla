----------------------------- MODULE MCProgress -----------------------------
(***************************************************************************)
(* What has to happen, for TLC: the components with threads of their own,  *)
(* one at a time as in MCTestbench and MCApplications, in instances small  *)
(* enough for the temporal properties.                                     *)
(***************************************************************************)
EXTENDS FunctionIndex, TrafficClasses, Sequences

VARIABLES
  part,  \* the instance this behaviour is one of
  \* Lifecycle
  main_main, idx, alloc, released, ports, thread, timers, told, main_next, main_stop,
  force_quit, mosq, failed,
  \* Log
  log_pool, log_ring, content, log_held, log_pc, log_seen, issued, messages_dropped,
  log_lost, log_at, log_burst, written, log_file, log_stop,
  \* Statistics
  stat_now, global, period, hist, stat_pc, stat_seen, frame, reported, stat_resets,
  total,
  \* Config
  config_file, config_pc, entry, tokens, state_key, key, config_flags, numbers, strings,
  qid, cnt, heap,
  \* MqttLog
  ready, mqtt_pc, mqtt_number, mqtt_pool, mqtt_ring, leaked, mqtt_at, wake, mqtt_burst,
  spent, mqtt_published, mqtt_stop,
  \* PortTx
  tx_pool, tx_number, tx_next, buffer, pkts, retries, tx_ring, tx_burst, wire, full,
  \* Ports
  enabled, active, pkt_handler_enabled, vid, pflow, port_pc, todo, nb_queues,
  rx_mp, vid2qid, launched, handler, nic, port_arrived, port_burst, rings, delivered,
  strays,
  \* Ratt
  ratt_running, ratt_pc, tx_id, rx_id, skip_cnt, txfree, unsent, txring, ratt_rxq,
  rx_mbufs, stats, ratt_sent, ratt_lost, ratt_foreign,
  \* RattTelemetry
  tel_running, tel_main, mqtt, worker, log_enabled, mqtt_enabled, log, fd, objects,
  logring, logdeltas, tel_ring, tel_held, tel_sent, tel_free, deltas, tel_file, reports,
  tel_published, logged, timed, tel_late, tel_crashed,
  \* Cnp
  cnp_now, cnp_tx_begin, tx_sequence, rx_sequence, link, sw_rtt, hw_start,
  cnp_resetting, dropped, cnp_samples, cnp_sent, cnp_lost, cnp_foreign, cnp_resets,
  restarts, overlapped, late,
  \* CnpStart
  start_flags, start_pc, change, start_seen, lport_idx, pid, port_lock, exited, keys,
  \* LaunchTime
  launch_running, launch_pc, launch_now, first_begin, launch_tx_begin, bursts, pending, txq,
  launch_rxq, launch_free, prev_rx, current, tested, launch_samples,
  launch_arrived, polled, launch_resets, launch_lost

-----------------------------------------------------------------------------
\* Threads of all kinds, of which some may fail to start.
Lifecycle == INSTANCE Lifecycle WITH
  Enabled <- {CONFIG_IDX, LPORT_IDX, LOG_IDX, LOG_VIA_MQTT_IDX, STAT_IDX, HISTOGRAM_IDX,
    TSN_HIGH_IDX, RTA_IDX, PKT_HANDLER_IDX},
  Framed <- {TSN_HIGH_IDX, RTA_IDX}, Secured <- {TSN_HIGH_IDX, RTA_IDX},
  Lcore <- [t \in Functions |-> t], Mirror <- FALSE, Faults <- {"create", "timer"},
  SetupInTime <- TRUE, main <- main_main, next <- main_next, stop <- main_stop

Log == INSTANCE Log WITH
  Producers <- {"rtc"}, Buffers <- {"b1", "b2", "b3"}, Cached <- 1, RingCapacity <- 2,
  BurstCount <- 2, CurrentLevel <- 3, MaxMessages <- 1, None <- "none",
  pool <- log_pool, ring <- log_ring, held <- log_held, pc <- log_pc, seen <- log_seen,
  lost <- log_lost, at <- log_at, burst <- log_burst, file <- log_file, stop <- log_stop

Statistics == INSTANCE Statistics WITH
  Types <- {"rtc"}, RealTime <- {"rtc"}, Mirror <- FALSE, Interval <- 2, Limit <- 3,
  HistMin <- 1, HistMax <- 3, ResetMin <- 5, Infinity <- 99, TimeMod <- 64,
  Rtts <- {0, 4}, Delays <- {0}, NsPerUs <- 2, MaxTime <- 2, MaxSent <- 1,
  MaxFrames <- 1, MaxResets <- 0, now <- stat_now, pc <- stat_pc, seen <- stat_seen,
  resets <- stat_resets

\* For TypeOK only: nothing has to happen here.
Queues == INSTANCE Config WITH
  Classes <- {TSN_HIGH, UDP_LOW}, SecureClasses <- {TSN_HIGH},
  FileKeys <- {"Enabled"} \X {TSN_HIGH, UDP_LOW}, Scalars <- {"1", "xx"},
  MaxEntries <- 1, MaxScalars <- 1, MIN_WAIT_TIME <- 2, MAX_QUEUES_ENABLED <- 16,
  DefaultLength <- 10, file <- config_file, pc <- config_pc, flags <- config_flags

MqttLog == INSTANCE MqttLog WITH
  Types <- {"rtc"}, PoolSize <- 3, RingCapacity <- 2, BurstCount <- 2, LogPeriod <- 2,
  Interval <- 1, MaxReports <- 3, MaxLate <- 4, pc <- mqtt_pc, number <- mqtt_number,
  pool <- mqtt_pool, ring <- mqtt_ring, at <- mqtt_at, burst <- mqtt_burst,
  published <- mqtt_published, stop <- mqtt_stop

PortTx == INSTANCE PortTx WITH
  Classes <- {"tsn", "rtc"}, PoolSize <- 2, BufferSize <- 2, MaxRetries <- 2,
  RingCapacity <- 4, BurstCount <- 2, MaxFrames <- 2, pool <- tx_pool,
  number <- tx_number, next <- tx_next, ring <- tx_ring, burst <- tx_burst

Ports == INSTANCE Ports WITH
  Classes <- {RTC}, Vids <- {100}, PflowPorts <- {1}, RingCapacity <- 1,
  MaxFrames <- 2, pc <- port_pc, arrived <- port_arrived, burst <- port_burst

\* Both sides may be stopped; a serial mirror hears another station as well.
Ratt == INSTANCE Ratt WITH
  Burst <- 2, SkipCount <- 1, IdSpace <- 3, Pool <- 4, Ring <- 2, Serial <- FALSE,
  ContinueOnError <- FALSE, MaxPackets <- 4, MaxLost <- 0, MaxForeign <- 0,
  Stopping <- {"reference", "mirror"}, running <- ratt_running, pc <- ratt_pc,
  rxq <- ratt_rxq, sent <- ratt_sent, lost <- ratt_lost, foreign <- ratt_foreign

Serial == INSTANCE Ratt WITH
  Burst <- 2, SkipCount <- 1, IdSpace <- 3, Pool <- 3, Ring <- 2, Serial <- TRUE,
  ContinueOnError <- FALSE, MaxPackets <- 3, MaxLost <- 1, MaxForeign <- 1,
  Stopping <- {"mirror"}, running <- ratt_running, pc <- ratt_pc, rxq <- ratt_rxq,
  sent <- ratt_sent, lost <- ratt_lost, foreign <- ratt_foreign

Telemetry == INSTANCE RattTelemetry WITH
  Pool <- 2, LogRing <- 2, Deltas <- TRUE, Broker <- TRUE, Delayed <- TRUE,
  MaxStats <- 2, MaxDeltas <- 1, Faults <- {}, running <- tel_running,
  main <- tel_main, ring <- tel_ring, held <- tel_held, sent <- tel_sent,
  free <- tel_free, file <- tel_file, published <- tel_published, late <- tel_late,
  crashed <- tel_crashed

Cnp == INSTANCE Cnp WITH
  SwTimestamp <- TRUE, HwTimestamp <- FALSE, Interval <- 2, MinReset <- 3, MaxTime <- 5,
  MaxProbes <- 2, MaxLoss <- 1, MaxForeign <- 1, MaxResets <- 0, MaxRestarts <- 1,
  PollMayFail <- FALSE, now <- cnp_now, tx_begin <- cnp_tx_begin,
  resetting <- cnp_resetting, samples <- cnp_samples, sent <- cnp_sent,
  lost <- cnp_lost, foreign <- cnp_foreign, resets <- cnp_resets

CnpStart == INSTANCE CnpStart WITH
  Lcores <- {"l1", "l2"}, NPorts <- 1, InitMayFail <- TRUE, MaxKeys <- 0,
  flags <- start_flags, pc <- start_pc, seen <- start_seen

LaunchTime == INSTANCE LaunchTime WITH
  Burst <- 2, Interval <- 2, Offset <- 1, Pool <- 4, TxRing <- 2, Stamped <- TRUE,
  MaxTime <- 4, MaxResets <- 0, MaxLoss <- 0, running <- launch_running, pc <- launch_pc,
  now <- launch_now, tx_begin <- launch_tx_begin, rxq <- launch_rxq,
  free <- launch_free, samples <- launch_samples, arrived <- launch_arrived,
  resets <- launch_resets, lost <- launch_lost

ASSUME ConstantsFit ==
  /\ Lifecycle!LifecycleAssumption
  /\ Log!LogAssumption
  /\ Statistics!StatisticsAssumption
  /\ Queues!ConfigAssumption
  /\ MqttLog!MqttLogAssumption
  /\ PortTx!PortTxAssumption
  /\ Ports!PortsAssumption
  /\ Ratt!RattAssumption
  /\ Serial!RattAssumption
  /\ Telemetry!TelemetryAssumption
  /\ Cnp!CnpAssumption
  /\ CnpStart!CnpStartAssumption
  /\ LaunchTime!LaunchTimeAssumption

Parts == {"lifecycle", "log", "statistics", "queues", "mqtt_log", "port_tx", "ports",
          "ratt", "serial", "telemetry", "cnp", "cnp_start", "launch"}

mainVars ==
  <<main_main, idx, alloc, released, ports, thread, timers, told, main_next, main_stop,
    force_quit, mosq, failed>>
logVars ==
  <<log_pool, log_ring, content, log_held, log_pc, log_seen, issued, messages_dropped,
    log_lost, log_at, log_burst, written, log_file, log_stop>>
statVars ==
  <<stat_now, global, period, hist, stat_pc, stat_seen, frame, reported, stat_resets,
    total>>
configVars ==
  <<config_file, config_pc, entry, tokens, state_key, key, config_flags, numbers,
    strings, qid, cnt, heap>>
mqttVars ==
  <<ready, mqtt_pc, mqtt_number, mqtt_pool, mqtt_ring, leaked, mqtt_at, wake,
    mqtt_burst, spent, mqtt_published, mqtt_stop>>
txVars ==
  <<tx_pool, tx_number, tx_next, buffer, pkts, retries, tx_ring, tx_burst, wire, full>>
portVars ==
  <<enabled, active, pkt_handler_enabled, vid, pflow, port_pc, todo,
    nb_queues, rx_mp, vid2qid, launched, handler, nic, port_arrived, port_burst, rings,
    delivered, strays>>
rattVars ==
  <<ratt_running, ratt_pc, tx_id, rx_id, skip_cnt, txfree, unsent, txring, ratt_rxq,
    rx_mbufs, stats, ratt_sent, ratt_lost, ratt_foreign>>
telVars ==
  <<tel_running, tel_main, mqtt, worker, log_enabled, mqtt_enabled, log, fd, objects,
    logring, logdeltas, tel_ring, tel_held, tel_sent, tel_free, deltas, tel_file,
    reports, tel_published, logged, timed, tel_late, tel_crashed>>
cnpVars ==
  <<cnp_now, cnp_tx_begin, tx_sequence, rx_sequence, link, sw_rtt, hw_start,
    cnp_resetting, dropped, cnp_samples, cnp_sent, cnp_lost, cnp_foreign, cnp_resets,
    restarts, overlapped, late>>
startVars ==
  <<start_flags, start_pc, change, start_seen, lport_idx, pid, port_lock, exited, keys>>
launchVars ==
  <<launch_running, launch_pc, launch_now, first_begin, launch_tx_begin, bursts, pending, txq,
    launch_rxq, launch_free, prev_rx, current, tested, launch_samples,
    launch_arrived, polled, launch_resets, launch_lost>>
vars == <<part, mainVars, logVars, statVars, configVars, mqttVars, txVars, portVars, rattVars,
          telVars, cnpVars, startVars, launchVars>>

\* Every component is in an initial state; the one that is chosen moves.
Init ==
  /\ part \in Parts
  /\ Lifecycle!Init
  /\ Log!Init
  /\ Statistics!Init
  /\ IF part = "queues" THEN TRUE ELSE config_file = <<>>
  /\ Queues!Init
  /\ MqttLog!Init
  /\ PortTx!Init
  /\ IF part = "ports" THEN TRUE
     ELSE /\ pkt_handler_enabled = TRUE /\ enabled = {} /\ pflow = 1
          /\ vid = [c \in {RTC} |-> 100]
  /\ Ports!Init
  /\ IF part = "serial" THEN Serial!Init
     ELSE Ratt!Init
  /\ Telemetry!Init
  /\ Cnp!Init
  /\ CnpStart!Init
  /\ LaunchTime!Init

\* All but the component of instance p stand still.
Alone(p) ==
  /\ part = p /\ UNCHANGED part
  /\ p # "lifecycle" => UNCHANGED mainVars
  /\ p # "log" => UNCHANGED logVars
  /\ p # "statistics" => UNCHANGED statVars
  /\ p # "queues" => UNCHANGED configVars
  /\ p # "mqtt_log" => UNCHANGED mqttVars
  /\ p # "port_tx" => UNCHANGED txVars
  /\ p # "ports" => UNCHANGED portVars
  /\ p \notin {"ratt", "serial"} => UNCHANGED rattVars
  /\ p # "telemetry" => UNCHANGED telVars
  /\ p # "cnp" => UNCHANGED cnpVars
  /\ p # "cnp_start" => UNCHANGED startVars
  /\ p # "launch" => UNCHANGED launchVars

Next ==
  \/ Alone("lifecycle") /\ Lifecycle!Next
  \/ Alone("log") /\ Log!Next
  \/ Alone("statistics") /\ Statistics!Next
  \/ Alone("queues") /\ Queues!Next
  \/ Alone("mqtt_log") /\ MqttLog!Next
  \/ Alone("port_tx") /\ PortTx!Next
  \/ Alone("ports") /\ Ports!Next
  \/ Alone("ratt") /\ Ratt!Next
  \/ Alone("serial") /\ Serial!Next
  \/ Alone("telemetry") /\ Telemetry!Next
  \/ Alone("cnp") /\ Cnp!Next
  \/ Alone("cnp_start") /\ CnpStart!Next
  \/ Alone("launch") /\ LaunchTime!Next

\* The fairness of each module, for the component that moves: an lcore goes on with its
\* loop, for nothing else runs on it, and time passes.
Fairness ==
  /\ WF_mainVars(part = "lifecycle" /\ Lifecycle!MainStep)
  /\ \A t \in {TSN_HIGH_IDX, RTA_IDX} : WF_mainVars(part = "lifecycle" /\ Lifecycle!ThreadStep(t))
  /\ WF_mainVars(part = "lifecycle" /\ Lifecycle!pkt_handler_threads_routine)
  /\ WF_mainVars(part = "lifecycle" /\ Lifecycle!log_thread_routine)
  /\ WF_mainVars(part = "lifecycle" /\ Lifecycle!log_via_mqtt_thread_routine)
  /\ WF_logVars(part = "log" /\ Log!LogThreadStep)
  /\ WF_mqttVars(part = "mqtt_log" /\ MqttLog!MqttThread)
  /\ WF_mqttVars(part = "mqtt_log" /\ MqttLog!Tick)
  /\ \A c \in {"tsn", "rtc"} : WF_txVars(part = "port_tx" /\ PortTx!ClassSends(c))
  /\ WF_txVars(part = "port_tx" /\ PortTx!PortSends)
  /\ WF_portVars(part = "ports" /\ Ports!Starts)
  /\ WF_portVars(part = "ports" /\ Ports!HandlerStep)
  /\ WF_portVars(part = "ports" /\ Ports!class_receives(RTC))
  /\ WF_rattVars(part = "ratt" /\ Ratt!ReferenceStep)
  /\ WF_rattVars(part = "ratt" /\ Ratt!MirrorStep)
  /\ WF_rattVars(part = "serial" /\ Serial!ReferenceStep)
  /\ WF_rattVars(part = "serial" /\ Serial!MirrorStep)
  /\ WF_telVars(part = "telemetry" /\ Telemetry!Alive /\ Telemetry!MainStep)
  /\ WF_telVars(part = "telemetry" /\ Telemetry!Alive /\ Telemetry!MqttStep)
  /\ WF_telVars(part = "telemetry" /\ Telemetry!Alive /\ Telemetry!WorkerStep)
  /\ WF_cnpVars(part = "cnp" /\ Cnp!Receive)
  /\ \A l \in {"l1", "l2"} : WF_startVars(part = "cnp_start" /\ ~exited /\ CnpStart!LcoreStep(l))
  /\ WF_startVars(part = "cnp_start" /\ ~exited /\ CnpStart!MainStep)
  /\ WF_startVars(part = "cnp_start" /\ ~exited /\ CnpStart!cmpset("signal"))
  /\ WF_launchVars(part = "launch" /\ LaunchTime!WorkerStep)

Spec == Init /\ [][Next]_vars /\ Fairness
-----------------------------------------------------------------------------
\* The variables of every component keep their types, and the indices of the code stay
\* inside its arrays.
TypeOK ==
  /\ (part = "lifecycle") => Lifecycle!TypeOK
  /\ (part = "log") => Log!TypeOK
  /\ (part = "statistics") => Statistics!TypeOK
  /\ (part = "queues") => Queues!TypeOK
  /\ (part = "mqtt_log") => MqttLog!TypeOK
  /\ (part = "port_tx") => PortTx!TypeOK
  /\ (part = "ports") => Ports!TypeOK
  /\ (part = "ratt") => Ratt!TypeOK
  /\ (part = "telemetry") => Telemetry!TypeOK
  /\ (part = "cnp") => Cnp!TypeOK
  /\ (part = "cnp_start") => CnpStart!TypeOK
  /\ (part = "launch") => LaunchTime!TypeOK

\* Every program that is told to stop comes to its end: the testbench after 'q', both sides
\* of RATT and the launch time test whatever the link does, RATT with its MQTT lcore, and
\* CNP also when the start of one lcore fails.
StopEnds ==
  /\ (part = "lifecycle") => Lifecycle!QuitTerminates
  /\ (part = "ratt") => Ratt!StopsEnd
  /\ (part = "telemetry") => Telemetry!StopEnds
  /\ (part = "cnp_start") => CnpStart!StopEnds
  /\ (part = "launch") => LaunchTime!StopEnds

\* What is queued arrives: log messages get into the file and reports to the broker, those
\* of RATT unless the run is ended.
QueuedArrives ==
  /\ (part = "log") => Log!QueuedIsWritten
  /\ (part = "mqtt_log") => MqttLog!ReportsArrive
  /\ (part = "telemetry") => Telemetry!ReportsPublished
  /\ (part = "telemetry") => Telemetry!LinesWritten

\* No ring keeps a frame for ever: what a class has built gets on the wire, what arrives is
\* received or freed, and every burst of the launch time test is sent.
FramesMoveOn ==
  /\ (part = "port_tx") => PortTx!EveryFrameSent
  /\ (part = "ports") => Ports!FramesSettle
  /\ (part = "launch") => LaunchTime!EveryBurstSent

\* On a wire that works the mirror of RATT keeps nothing back, a serial one less than a
\* burst, and every probe of CNP comes back and is accepted.
EchoesReturn ==
  /\ (part = "ratt") => Ratt!MirrorReturns
  /\ (part = "serial") => Serial!SerialReturns
  /\ (part = "cnp") => Cnp!ProbesReturn
=============================================================================

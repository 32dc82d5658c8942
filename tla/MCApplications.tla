--------------------------- MODULE MCApplications ---------------------------
(***************************************************************************)
(* The other applications for TLC: RATT, its reports, CNP tuning, its      *)
(* start, and the launch time test.  Each is a program of its own, and each*)
(* behaviour is one of one of them; the others stand still.  A variable    *)
(* whose name two of them use carries the name of its module.              *)
(***************************************************************************)
EXTENDS Integers, Sequences

VARIABLES
  part,  \* the instance this behaviour is one of
  \* Ratt
  ratt_running, ratt_pc, tx_id, rx_id, skip_cnt, txfree, unsent, txring, ratt_rxq,
  rx_mbufs, stats, ratt_sent, ratt_lost, ratt_foreign,
  \* RattTelemetry
  tel_running, main, mqtt, worker, log_enabled, mqtt_enabled, log, fd, objects, logring,
  logdeltas, ring, held, tel_sent, tel_free, deltas, file, reports, published, logged,
  timed, tel_late, crashed,
  \* Cnp
  cnp_now, cnp_tx_begin, tx_sequence, rx_sequence, link, sw_rtt, hw_start,
  cnp_resetting, dropped, cnp_samples, cnp_sent, cnp_lost, cnp_foreign, cnp_resets,
  restarts, overlapped, late,
  \* CnpStart
  flags, start_pc, change, seen, lport_idx, pid, port_lock, exited, keys,
  \* LaunchTime
  launch_running, launch_pc, launch_now, first_begin, launch_tx_begin, bursts, pending, txq,
  launch_rxq, launch_free, prev_rx, current, tested, launch_samples, arrived, polled,
  launch_resets, launch_lost

-----------------------------------------------------------------------------
\* Numbers that wrap after three packets, losses, and a reference that is stopped.
Ratt == INSTANCE Ratt WITH
  Burst <- 2, SkipCount <- 1, IdSpace <- 3, Pool <- 4, Ring <- 2, Serial <- FALSE,
  ContinueOnError <- FALSE, MaxPackets <- 6, MaxLost <- 2, MaxForeign <- 0,
  Stopping <- {"reference"}, running <- ratt_running, pc <- ratt_pc, rxq <- ratt_rxq,
  sent <- ratt_sent, lost <- ratt_lost, foreign <- ratt_foreign

\* A serial mirror, packets of other stations, and both sides stopped.
Serial == INSTANCE Ratt WITH
  Burst <- 2, SkipCount <- 1, IdSpace <- 3, Pool <- 3, Ring <- 2, Serial <- TRUE,
  ContinueOnError <- FALSE, MaxPackets <- 4, MaxLost <- 1, MaxForeign <- 1,
  Stopping <- {"reference", "mirror"}, running <- ratt_running, pc <- ratt_pc,
  rxq <- ratt_rxq, sent <- ratt_sent, lost <- ratt_lost, foreign <- ratt_foreign

\* A broker that answers, and publishes that may fail.
Telemetry == INSTANCE RattTelemetry WITH
  Pool <- 2, LogRing <- 2, Deltas <- TRUE, Broker <- TRUE, Delayed <- TRUE,
  MaxStats <- 4, MaxDeltas <- 2, Faults <- {"publish"},
  running <- tel_running, sent <- tel_sent, free <- tel_free, late <- tel_late

\* A broker that is not there, and a log file that is not opened again.
Refused == INSTANCE RattTelemetry WITH
  Pool <- 2, LogRing <- 2, Deltas <- TRUE, Broker <- FALSE, Delayed <- FALSE,
  MaxStats <- 3, MaxDeltas <- 2, Faults <- {"publish", "reopen"},
  running <- tel_running, sent <- tel_sent, free <- tel_free, late <- tel_late

\* A probe may be lost, another station heard, the statistics reset, a Tx time be late.
Cnp == INSTANCE Cnp WITH
  SwTimestamp <- TRUE, HwTimestamp <- TRUE, Interval <- 2, MinReset <- 3, MaxTime <- 7,
  MaxProbes <- 3, MaxLoss <- 1, MaxForeign <- 1, MaxResets <- 1, MaxRestarts <- 0,
  PollMayFail <- TRUE, now <- cnp_now, tx_begin <- cnp_tx_begin,
  resetting <- cnp_resetting, samples <- cnp_samples, sent <- cnp_sent,
  lost <- cnp_lost, foreign <- cnp_foreign, resets <- cnp_resets

CnpStart == INSTANCE CnpStart WITH
  Lcores <- {"l1", "l2"}, NPorts <- 2, InitMayFail <- TRUE, MaxKeys <- 1, pc <- start_pc

\* A pool that just covers the Tx queue and a burst; time stamps.
LaunchTime == INSTANCE LaunchTime WITH
  Burst <- 1, Interval <- 2, Offset <- 1, Pool <- 2, TxRing <- 1, Stamped <- TRUE,
  MaxTime <- 6, MaxResets <- 1, MaxLoss <- 1, running <- launch_running, pc <- launch_pc,
  now <- launch_now, tx_begin <- launch_tx_begin, rxq <- launch_rxq,
  free <- launch_free, samples <- launch_samples, resets <- launch_resets,
  lost <- launch_lost

\* No time stamps, and two resets.
LaunchClock == INSTANCE LaunchTime WITH
  Burst <- 1, Interval <- 2, Offset <- 1, Pool <- 2, TxRing <- 1, Stamped <- FALSE,
  MaxTime <- 5, MaxResets <- 2, MaxLoss <- 0, running <- launch_running, pc <- launch_pc,
  now <- launch_now, tx_begin <- launch_tx_begin, rxq <- launch_rxq,
  free <- launch_free, samples <- launch_samples, resets <- launch_resets,
  lost <- launch_lost

ASSUME ConstantsFit ==
  /\ Ratt!RattAssumption
  /\ Serial!RattAssumption
  /\ Telemetry!TelemetryAssumption
  /\ Refused!TelemetryAssumption
  /\ Cnp!CnpAssumption
  /\ CnpStart!CnpStartAssumption
  /\ LaunchTime!LaunchTimeAssumption
  /\ LaunchClock!LaunchTimeAssumption

Parts == {"ratt", "serial", "telemetry", "refused", "cnp", "cnp_start", "launch",
          "launch_clock"}

rattVars ==
  <<ratt_running, ratt_pc, tx_id, rx_id, skip_cnt, txfree, unsent, txring, ratt_rxq,
    rx_mbufs, stats, ratt_sent, ratt_lost, ratt_foreign>>
telVars ==
  <<tel_running, main, mqtt, worker, log_enabled, mqtt_enabled, log, fd, objects,
    logring, logdeltas, ring, held, tel_sent, tel_free, deltas, file, reports,
    published, logged, timed, tel_late, crashed>>
cnpVars ==
  <<cnp_now, cnp_tx_begin, tx_sequence, rx_sequence, link, sw_rtt, hw_start,
    cnp_resetting, dropped, cnp_samples, cnp_sent, cnp_lost, cnp_foreign, cnp_resets,
    restarts, overlapped, late>>
startVars ==
  <<flags, start_pc, change, seen, lport_idx, pid, port_lock, exited, keys>>
launchVars ==
  <<launch_running, launch_pc, launch_now, first_begin, launch_tx_begin, bursts, pending, txq,
    launch_rxq, launch_free, prev_rx, current, tested, launch_samples, arrived,
    polled, launch_resets, launch_lost>>
vars == <<part, rattVars, telVars, cnpVars, startVars, launchVars>>

\* Every component is in an initial state; the one that is chosen moves.
Init ==
  /\ part \in Parts
  /\ IF part = "serial" THEN Serial!Init
     ELSE Ratt!Init
  /\ IF part = "refused" THEN Refused!Init
     ELSE Telemetry!Init
  /\ Cnp!Init
  /\ CnpStart!Init
  /\ LaunchTime!Init

\* All but the component of instance p stand still.
Alone(p) ==
  /\ part = p /\ UNCHANGED part
  /\ p \notin {"ratt", "serial"} => UNCHANGED rattVars
  /\ p \notin {"telemetry", "refused"} => UNCHANGED telVars
  /\ p # "cnp" => UNCHANGED cnpVars
  /\ p # "cnp_start" => UNCHANGED startVars
  /\ p \notin {"launch", "launch_clock"} => UNCHANGED launchVars

Next ==
  \/ Alone("ratt") /\ Ratt!Next
  \/ Alone("serial") /\ Serial!Next
  \/ Alone("telemetry") /\ Telemetry!Next
  \/ Alone("refused") /\ Refused!Next
  \/ Alone("cnp") /\ Cnp!Next
  \/ Alone("cnp_start") /\ CnpStart!Next
  \/ Alone("launch") /\ LaunchTime!Next
  \/ Alone("launch_clock") /\ LaunchClock!Next

Spec == Init /\ [][Next]_vars
-----------------------------------------------------------------------------
\* No pool runs dry, however long the port stalls: the RATT reference always has the mbufs
\* of a burst, and the launch time test never ends for want of one.
PoolsSuffice ==
  /\ part = "ratt" => Ratt!NeverOutOfMbufs
  /\ part \in {"launch", "launch_clock"} => LaunchTime!NeverExits

\* The packets of RATT are in order and none is there twice, all the way round, and every
\* line of its log is in the file or on its ring, in order.
InOrder ==
  /\ part = "ratt" => Ratt!InOrder
  /\ part = "serial" => Serial!InOrder
  /\ part = "telemetry" => Telemetry!LinesKept
  /\ part = "refused" => Refused!LinesKept

\* RATT counts an ID error exactly when packets were lost before the burst.  CNP throws no
\* probe away on a link that loses nothing; a side that did never accepts another one.
ErrorsAreLosses ==
  /\ Ratt!ErrorsAreLosses
  /\ [](part = "cnp" => Cnp!NothingDropped)
  /\ Cnp!NeverRecovers

\* No lcore of RATT uses what another one has taken down, unless a sleep was too short for
\* it, the log file could not be opened again, or the broker refuses after the first round
\* trips; the lcores of CNP initialise ports that exist, one at a time.
UsedWhenReady ==
  /\ part = "telemetry" => Telemetry!CrashExplained
  /\ part = "refused" => Refused!CrashExplained
  /\ part = "cnp_start" => CnpStart!InitAlone

\* CNP never reports a round trip that is longer than it was, and exact ones for one probe
\* at a time; the launch time test measures the intervals of successive bursts, but
\* for one that a reset by the main lcore spoils.
MeasurementsTrue ==
  /\ part = "cnp" => Cnp!NeverOverstated
  /\ part = "cnp" => Cnp!ExactOneByOne
  /\ part = "launch" => LaunchTime!IntervalsSuccessive
  /\ part = "launch_clock" => LaunchClock!IntervalsSuccessive

\* A stop of CNP is not undone by a flag that another lcore sets at the same time.
StopIsFinal == CnpStart!StopIsFinal

\* No burst of the launch time test leaves early, and a late one moves no other.
OnSchedule == (part \in {"launch", "launch_clock"}) => LaunchTime!OnSchedule
=============================================================================

------------------------------ MODULE Lifecycle -----------------------------
(***************************************************************************)
(* The life of the testbench process: main() initialises the registered    *)
(* functions in the order of their index, sets up the ports, launches one  *)
(* thread per enabled function on its own lcore, serves the keyboard, and  *)
(* on 'q' stops the timers and the threads, waits for the lcores and frees *)
(* everything in the opposite order.  The threads run meanwhile: each       *)
(* registers its timer, waits for the common start time and loops.         *)
(*                                                                         *)
(* What a thread does in a turn of its loop belongs to the other modules;  *)
(* here it uses what main() and the functions before it have set up, and   *)
(* the process crashes when something of that is missing.                  *)
(***************************************************************************)
EXTENDS FunctionIndex, Sequences, FiniteSets

CONSTANTS Enabled,     \* the functions whose *_enabled (log_via_mqtt, histogram) flag is set
          Framed,      \* the classes with *_num_frames_per_cycle > 0
          Secured,     \* the classes with a security mode other than SECURITY_MODE_NONE
          Lcore,       \* *_thread_cpu of each thread
          Mirror,      \* is_mirror_mode()
          Faults,      \* which steps may fail in this run
          SetupInTime  \* the threads register their timers before a key is read

\* The functions that set something up in their init function, before any thread runs.
Infrastructure == CONFIG_IDX .. HISTOGRAM_IDX
Classes == L2_IDX .. UDP_LOW_IDX
Threads == {LOG_IDX, LOG_VIA_MQTT_IDX, PKT_HANDLER_IDX} \cup Classes
Active == Enabled \cap Framed

\* What the constants have to be.
LifecycleAssumption ==
    /\ Enabled \subseteq Functions /\ Framed \subseteq Classes /\ Secured \subseteq Classes
    /\ {CONFIG_IDX, LPORT_IDX, LOG_IDX, STAT_IDX} \subseteq Enabled
    /\ Mirror \in BOOLEAN /\ SetupInTime \in BOOLEAN
    /\ Faults \subseteq {"init", "lports", "create", "timer", "log_file", "broker"}

VARIABLES main,      \* where main() is
          idx,       \* the index in the loop over the functions
          alloc,     \* alloc[f]: what function f has set up and not released
          released,  \* the functions whose deinit has run
          ports,     \* tsn_configure_lports() is done
          thread,    \* where the thread of each function is
          timers,    \* timer_list, in the order of registration
          told,      \* the timers whose stop flag is set
          next,      \* the timer thread_timer_stop_all() looks at next
          stop,      \* thread_context->stop, set for all functions at once
          force_quit,
          mosq,      \* mqtt_context.mosq: NULL, a client, or a destroyed one
          failed     \* the steps of threads that have failed

vars == <<main, idx, alloc, released, ports, thread, timers, told, next, stop,
          force_quit, mosq, failed>>

\* What the threads are doing when they use what others have set up.
Using == {"started", "listed", "running", "stopped"}

Init ==
    /\ main = "init" /\ idx = CONFIG_IDX
    /\ alloc = [f \in Functions |-> {}] /\ released = {}
    /\ ports = FALSE
    /\ thread = [t \in Threads |-> "none"]
    /\ timers = <<>> /\ told = {} /\ next = 1
    /\ stop = FALSE /\ force_quit = FALSE
    /\ mosq = "null" /\ failed = {}
-----------------------------------------------------------------------------
(* tsn_startup(), tsn_configure_lports()                                   *)

config_init   == {"values"}
lport_init    == {"mutex"}
log_init      == {"ring", "pool"}
log_mqtt_init == IF LOG_VIA_MQTT_IDX \in Enabled THEN {"ring", "pool"} ELSE {}
stat_init     == IF Mirror THEN {} ELSE {"backlog"}
hist_init     == IF HISTOGRAM_IDX \in Enabled /\ ~Mirror THEN {"data"} ELSE {}

\* What the init function of f sets up; that of a class only notes its lcore.
Initializes(f) ==
    CASE f = CONFIG_IDX       -> config_init
      [] f = LPORT_IDX        -> lport_init
      [] f = LOG_IDX          -> log_init
      [] f = LOG_VIA_MQTT_IDX -> log_mqtt_init
      [] f = STAT_IDX         -> stat_init
      [] f = HISTOGRAM_IDX    -> hist_init
      [] OTHER                -> {}

function_init_all ==
    /\ main = "init"
    /\ alloc' = [alloc EXCEPT ![idx] = Initializes(idx)]
    /\ IF idx + 1 < MAX_FUNCTIONS
         THEN idx' = idx + 1 /\ main' = main
         ELSE idx' = 0 /\ main' = "link"
    /\ UNCHANGED <<released, ports, thread, timers, told, next, stop, force_quit, mosq, failed>>

\* rte_exit() when an init function returns an error; only those that set something up do.
function_init_error ==
    /\ main = "init" /\ "init" \in Faults /\ Initializes(idx) # {}
    /\ main' = "exit"
    /\ UNCHANGED <<idx, alloc, released, ports, thread, timers, told, next, stop,
                   force_quit, mosq, failed>>

\* function_link_pn_threads() finds no class to begin with when neither TSN High,
\* RTC nor L2 is active; the links themselves are in TrafficClasses.
function_link_pn_threads ==
    /\ main = "link"
    /\ main' = IF {TSN_HIGH_IDX, RTC_IDX, L2_IDX} \cap Active # {} THEN "lports" ELSE "exit"
    /\ UNCHANGED <<idx, alloc, released, ports, thread, timers, told, next, stop,
                   force_quit, mosq, failed>>

\* The lports with their pools, queues and buffers, and the table vid2qid.
tsn_configure_lports ==
    /\ main = "lports"
    /\ \/ /\ main' = "launch" /\ ports' = TRUE
          /\ alloc' = [alloc EXCEPT ![LPORT_IDX] = @ \cup {"lports", "vid2qid"}]
       \/ main' = "exit" /\ "lports" \in Faults /\ UNCHANGED <<ports, alloc>>
    /\ UNCHANGED <<idx, released, thread, timers, told, next, stop, force_quit, mosq, failed>>
-----------------------------------------------------------------------------
(* function_launch_all(): what each launch function allocates              *)

security(f) == IF f \in Secured THEN {"tx_security", "rx_security"} ELSE {}

tsn_create(f) ==
    {"tsn_config"} \cup
        IF f \in Active THEN {"private_data", "mbufs"} \cup security(f) ELSE {}

rtc_create ==
    IF RTC_IDX \in Active THEN {"payload", "mbufs"} \cup security(RTC_IDX) ELSE {}

rta_create == IF RTA_IDX \in Active THEN {"mbufs"} \cup security(RTA_IDX) ELSE {}

dcp_create == IF DCP_IDX \in Active THEN {"mbufs"} ELSE {}

lldp_create == IF LLDP_IDX \in Active THEN {"mbufs"} ELSE {}

l2_create == IF L2_IDX \in Active THEN {"mbufs"} ELSE {}

\* Mutant: the UDP configuration is attached to an active class only.
udp_create_late(f) ==
    {"udp_config"} \cup IF f \in Active THEN {"private_data", "mbufs"} ELSE {}

\* The UDP configuration is attached before the class is found to be inactive.
udp_create(f) ==
    {"udp_config", "private_data"} \cup IF f \in Active THEN {"mbufs"} ELSE {}

pkt_handler_create == {"mbufs"}

Creates(f) ==
    CASE f \in {TSN_HIGH_IDX, TSN_LOW_IDX} -> tsn_create(f)
      [] f = RTC_IDX                       -> rtc_create
      [] f = RTA_IDX                       -> rta_create
      [] f = DCP_IDX                       -> dcp_create
      [] f = LLDP_IDX                      -> lldp_create
      [] f \in {UDP_HIGH_IDX, UDP_LOW_IDX} -> udp_create(f)
      [] f = L2_IDX                        -> l2_create
      [] f = PKT_HANDLER_IDX               -> pkt_handler_create
      [] OTHER                             -> {}

\* Mutant: the loop goes on to MAX_FUNCTIONS.
NextFunction_over ==
    IF idx < MAX_FUNCTIONS
      THEN idx' = idx + 1 /\ main' = main
      ELSE idx' = 0 /\ main' = "keyboard"

NextFunction ==
    IF idx + 1 < MAX_FUNCTIONS
      THEN idx' = idx + 1 /\ main' = main
      ELSE idx' = 0 /\ main' = "keyboard"

Busy(c) == \E t \in Threads : thread[t] \in Using /\ Lcore[t] = c

function_launch_skip ==
    /\ main = "launch" /\ (idx \notin Threads \/ idx \notin Enabled)
    /\ NextFunction
    /\ UNCHANGED <<alloc, released, ports, thread, timers, told, next, stop, force_quit, mosq, failed>>

\* The create function, the test that the lcore is free, rte_eal_remote_launch().
function_launch ==
    /\ main = "launch" /\ idx \in Threads \cap Enabled
    /\ alloc' = [alloc EXCEPT ![idx] = @ \cup Creates(idx)]
    /\ IF Busy(Lcore[idx])
         THEN main' = "exit" /\ UNCHANGED <<idx, thread>>
         ELSE thread' = [thread EXCEPT ![idx] = "started"] /\ NextFunction
    /\ UNCHANGED <<released, ports, timers, told, next, stop, force_quit, mosq, failed>>

function_launch_error ==
    /\ main = "launch" /\ idx \in Threads \cap Enabled
    /\ "create" \in Faults /\ Creates(idx) # {}
    /\ main' = "exit"
    /\ UNCHANGED <<idx, alloc, released, ports, thread, timers, told, next, stop,
                   force_quit, mosq, failed>>
-----------------------------------------------------------------------------
(* The threads; rte_exit() ends them all                                   *)

Alive == main \notin {"exit", "crash", "end"}

\* thread_timer_stop_all() holds timer_list_mutex while it walks the list.
MutexFree == main \notin {"stop_timers", "quit"}

\* The routines of the TSN and the UDP classes begin by reading private_data.
NeedsPrivateData(t) == t \in {TSN_HIGH_IDX, TSN_LOW_IDX, UDP_HIGH_IDX, UDP_LOW_IDX}

Own(t) == {t} \X ((IF NeedsPrivateData(t) THEN {"private_data"} ELSE {})
                    \cup IF t \in Active THEN Creates(t) ELSE {})

\* What the turn of a thread's loop uses: what is its own, the ports, the log, and
\* the tables of the statistics; log and MQTT thread take from their rings.
Needs(t) ==
    CASE t = LOG_IDX          -> {LOG_IDX} \X {"ring", "pool", "file"}
      [] t = LOG_VIA_MQTT_IDX -> {LOG_VIA_MQTT_IDX} \X {"ring", "pool"}
      [] t = PKT_HANDLER_IDX  -> ({LPORT_IDX} \X {"lports", "vid2qid"}) \cup {<<t, "mbufs">>}
      [] OTHER -> Own(t) \cup ({t} \X {"timer", "timer_info"})
                    \cup {<<CONFIG_IDX, "values">>, <<LPORT_IDX, "lports">>}
                    \cup UNION {{f} \X Initializes(f) :
                               f \in {LOG_IDX, LOG_VIA_MQTT_IDX, STAT_IDX, HISTOGRAM_IDX}}

Has(needs) == \A n \in needs : n[2] \in alloc[n[1]]

crash(t) ==
    /\ main' = "crash"
    /\ thread' = [thread EXCEPT ![t] = "crashed"]
    /\ UNCHANGED <<idx, alloc, released, ports, timers, told, next, stop, force_quit, mosq, failed>>

\* A thread reads through a pointer that is not there.
thread_crash(t) ==
    /\ Alive
    /\ \/ thread[t] = "started" /\ NeedsPrivateData(t) /\ "private_data" \notin alloc[t]
       \/ thread[t] = "running" /\ ~Has(Needs(t))
       \/ thread[t] = "running" /\ t = LOG_VIA_MQTT_IDX /\ mosq # "client"
    /\ crash(t)

thread_timer_alloc(t) ==
    /\ Alive /\ thread[t] = "started" /\ t \in Classes
    /\ NeedsPrivateData(t) => "private_data" \in alloc[t]
    /\ \/ /\ MutexFree
          /\ timers' = Append(timers, t)
          /\ thread' = [thread EXCEPT ![t] = "listed"]
          /\ alloc' = [alloc EXCEPT ![t] = @ \cup {"timer", "timer_info"}]
          /\ failed' = failed
       \/ /\ "timer" \in Faults
          /\ timers' = timers
          /\ thread' = [thread EXCEPT ![t] = "done"]
          /\ \E got \in {{}, {"timer"}} : alloc' = [alloc EXCEPT ![t] = @ \cup got]
          /\ failed' = failed \cup {"timer"}
    /\ UNCHANGED <<main, idx, released, ports, told, next, stop, force_quit, mosq>>

\* wait_sync_time() and the arming of the timers; stop is not looked at.
thread_timer_run(t) ==
    /\ Alive /\ thread[t] = "listed"
    /\ thread' = [thread EXCEPT ![t] = "running"]
    /\ UNCHANGED <<main, idx, alloc, released, ports, timers, told, next, stop,
                   force_quit, mosq, failed>>

\* The test of stop at the end of a turn of the loop, then stopped = 1.
thread_timer_stopped(t) ==
    /\ Alive /\ thread[t] = "running" /\ t \in Classes /\ t \in told
    /\ thread' = [thread EXCEPT ![t] = "stopped"]
    /\ UNCHANGED <<main, idx, alloc, released, ports, timers, told, next, stop,
                   force_quit, mosq, failed>>

threads_routine_end(t) ==
    /\ Alive /\ thread[t] = "stopped"
    /\ thread' = [thread EXCEPT ![t] = "done"]
    /\ UNCHANGED <<main, idx, alloc, released, ports, timers, told, next, stop,
                   force_quit, mosq, failed>>

pkt_handler_threads_routine ==
    /\ Alive
    /\ \/ /\ thread[PKT_HANDLER_IDX] = "started"
          /\ thread' = [thread EXCEPT ![PKT_HANDLER_IDX] = "running"]
       \/ /\ thread[PKT_HANDLER_IDX] = "running" /\ force_quit
          /\ thread' = [thread EXCEPT ![PKT_HANDLER_IDX] = "done"]
    /\ UNCHANGED <<main, idx, alloc, released, ports, timers, told, next, stop,
                   force_quit, mosq, failed>>

log_thread_routine ==
    /\ Alive
    /\ \/ /\ thread[LOG_IDX] = "started"
          /\ thread' = [thread EXCEPT ![LOG_IDX] = "running"]
          /\ alloc' = [alloc EXCEPT ![LOG_IDX] = @ \cup {"file"}] /\ failed' = failed
       \/ /\ thread[LOG_IDX] = "started" /\ "log_file" \in Faults
          /\ thread' = [thread EXCEPT ![LOG_IDX] = "done"] /\ alloc' = alloc
          /\ failed' = failed \cup {"log_file"}
       \/ /\ thread[LOG_IDX] = "running" /\ stop
          /\ thread' = [thread EXCEPT ![LOG_IDX] = "done"] /\ UNCHANGED <<alloc, failed>>
    /\ UNCHANGED <<main, idx, released, ports, timers, told, next, stop, force_quit, mosq>>

\* When the broker cannot be reached the client is destroyed, and kept.
log_via_mqtt_thread_routine ==
    /\ Alive
    /\ \/ /\ thread[LOG_VIA_MQTT_IDX] = "started"
          /\ thread' = [thread EXCEPT ![LOG_VIA_MQTT_IDX] = "running"] /\ mosq' = "client"
          /\ failed' = failed
       \/ /\ thread[LOG_VIA_MQTT_IDX] = "started" /\ "broker" \in Faults
          /\ thread' = [thread EXCEPT ![LOG_VIA_MQTT_IDX] = "done"]
          /\ mosq' \in {"null", "destroyed"} /\ failed' = failed \cup {"broker"}
       \/ /\ thread[LOG_VIA_MQTT_IDX] = "running" /\ stop
          /\ thread' = [thread EXCEPT ![LOG_VIA_MQTT_IDX] = "done"] /\ UNCHANGED <<mosq, failed>>
    /\ UNCHANGED <<main, idx, alloc, released, ports, timers, told, next, stop, force_quit>>
-----------------------------------------------------------------------------
(* keyboard() and tsn_shutdown()                                           *)

\* keyboard() sleeps for two seconds before it reads the first key.  SetupInTime
\* says that this is enough for the threads to register their timers.
keyboard_quit ==
    /\ main = "keyboard"
    /\ SetupInTime => \A t \in Classes : thread[t] # "started"
    /\ force_quit' = TRUE /\ main' = "leave"
    /\ UNCHANGED <<idx, alloc, released, ports, thread, timers, told, next, stop, mosq, failed>>

function_stop_all ==
    /\ main = "leave"
    /\ stop' = TRUE /\ main' = "stop_timers" /\ next' = 1
    /\ UNCHANGED <<idx, alloc, released, ports, thread, timers, told, force_quit, mosq, failed>>

thread_timer_stop_all ==
    /\ main = "stop_timers"
    /\ IF next <= Len(timers)
         THEN told' = told \cup {timers[next]} /\ main' = "quit"
         ELSE told' = told /\ main' = "shutdown"
    /\ UNCHANGED <<idx, alloc, released, ports, thread, timers, next, stop, force_quit, mosq, failed>>

\* The wait in thread_timer_quit() ends when the thread has set stopped, or after
\* two seconds: the guard is empty because the timeout needs nothing from the thread.
thread_timer_quit ==
    /\ main = "quit"
    /\ next' = next + 1 /\ main' = "stop_timers"
    /\ UNCHANGED <<idx, alloc, released, ports, thread, timers, told, stop, force_quit, mosq, failed>>

\* Mutant: the lcores are not waited for.
tsn_shutdown_at_once ==
    /\ main = "shutdown"
    /\ force_quit' = TRUE
    /\ main' = "free" /\ idx' = MAX_FUNCTIONS - 1
    /\ UNCHANGED <<alloc, released, ports, thread, timers, told, next, stop, mosq, failed>>

\* stats_reset_all_stats(), rte_eal_mp_wait_lcore(), histogram_write().
tsn_shutdown ==
    /\ main = "shutdown"
    /\ \A t \in Threads : thread[t] \notin Using
    /\ force_quit' = TRUE
    /\ main' = "free" /\ idx' = MAX_FUNCTIONS - 1
    /\ UNCHANGED <<alloc, released, ports, thread, timers, told, next, stop, mosq, failed>>

tsn_threads_free(f) == {"tsn_config", "private_data", "tx_security", "rx_security"}
rtc_threads_free    == {"payload", "tx_security", "rx_security"}
rta_threads_free    == {"tx_security", "rx_security"}
udp_threads_free(f) == {"udp_config", "private_data"}
log_thread_free     == {"ring", "pool", "file"}
log_mqtt_deinit     == IF LOG_VIA_MQTT_IDX \in Enabled THEN {"ring", "pool"} ELSE {}
stat_deinit         == {"backlog"}
hist_deinit         == IF HISTOGRAM_IDX \in Enabled THEN {"data"} ELSE {}
lport_deinit        == {"mutex"}
config_deinit       == {"values"}

\* The configuration of a TSN class is only reached through private_data.
Frees(f) ==
    CASE f \in {TSN_HIGH_IDX, TSN_LOW_IDX} ->
            IF "private_data" \in alloc[f] THEN tsn_threads_free(f) ELSE {}
      [] f = RTC_IDX                       -> rtc_threads_free
      [] f = RTA_IDX                       -> rta_threads_free
      [] f \in {UDP_HIGH_IDX, UDP_LOW_IDX} -> udp_threads_free(f)
      [] f = LOG_IDX                       -> log_thread_free
      [] f = LOG_VIA_MQTT_IDX              -> log_mqtt_deinit
      [] f = STAT_IDX                      -> stat_deinit
      [] f = HISTOGRAM_IDX                 -> hist_deinit
      [] f = LPORT_IDX                     -> lport_deinit
      [] f = CONFIG_IDX                    -> config_deinit
      [] OTHER                             -> {}

\* fclose() of a file that was never opened, or a client destroyed a second time.
FreesTwice(f) ==
    \/ f = LOG_IDX /\ "file" \notin alloc[f]
    \/ f = LOG_VIA_MQTT_IDX /\ f \in Enabled /\ mosq = "destroyed"

function_free_all ==
    /\ main = "free"
    /\ alloc' = [alloc EXCEPT ![idx] = IF idx \in Enabled THEN @ \ Frees(idx) ELSE @]
    /\ released' = released \cup {idx}
    /\ mosq' = IF idx = LOG_VIA_MQTT_IDX /\ mosq = "client" THEN "destroyed" ELSE mosq
    /\ IF FreesTwice(idx) THEN main' = "crash" /\ idx' = idx
       ELSE IF idx = 0 THEN main' = "end" /\ idx' = idx
       ELSE main' = main /\ idx' = idx - 1
    /\ UNCHANGED <<ports, thread, timers, told, next, stop, force_quit, failed>>

\* A turn of a thread's loop, modelled elsewhere.
LoopTurn(t) == Alive /\ thread[t] = "running" /\ Has(Needs(t)) /\ UNCHANGED vars

\* The process is gone.
Gone == ~Alive /\ UNCHANGED vars
-----------------------------------------------------------------------------
ThreadStep(t) ==
    \/ thread_timer_alloc(t)
    \/ thread_timer_run(t)
    \/ thread_timer_stopped(t)
    \/ threads_routine_end(t)

MainStep ==
    \/ function_init_all
    \/ function_link_pn_threads
    \/ tsn_configure_lports
    \/ function_launch_skip
    \/ function_launch
    \/ function_stop_all
    \/ thread_timer_stop_all
    \/ thread_timer_quit
    \/ tsn_shutdown
    \/ function_free_all

Next ==
    \/ MainStep
    \/ function_init_error
    \/ function_launch_error
    \/ keyboard_quit
    \/ \E t \in Threads : ThreadStep(t)
    \/ \E t \in Threads : thread_crash(t)
    \/ pkt_handler_threads_routine
    \/ log_thread_routine
    \/ log_via_mqtt_thread_routine
    \/ \E t \in Threads : LoopTurn(t)
    \/ Gone

\* Every thread has an lcore of its own and main() never blocks for good, so each
\* takes its next step once it can; nobody has to press a key.
Fairness ==
    /\ WF_vars(MainStep)
    /\ \A t \in Threads : WF_vars(ThreadStep(t))
    /\ WF_vars(pkt_handler_threads_routine)
    /\ WF_vars(log_thread_routine)
    /\ WF_vars(log_via_mqtt_thread_routine)

Spec == Init /\ [][Next]_vars /\ Fairness
-----------------------------------------------------------------------------
TypeOK ==
    /\ main \in {"init", "link", "lports", "launch", "keyboard", "leave", "stop_timers", "quit",
                 "shutdown", "free", "end", "exit", "crash"}
    /\ idx \in Functions
    /\ alloc \in [Functions -> SUBSET {"values", "mutex", "lports", "ring", "pool", "backlog",
            "data", "mbufs", "private_data", "tsn_config", "udp_config", "payload",
            "tx_security", "rx_security", "file", "vid2qid", "timer", "timer_info"}]
    /\ released \subseteq Functions
    /\ ports \in BOOLEAN /\ stop \in BOOLEAN /\ force_quit \in BOOLEAN
    /\ thread \in [Threads -> {"none", "done", "crashed"} \cup Using]
    /\ timers \in Seq(Classes) /\ told \subseteq Classes
    /\ next \in Nat \ {0}
    /\ mosq \in {"null", "client", "destroyed"} /\ failed \subseteq Faults

\* No thread is left while anything is being freed, and every thread that runs finds
\* all the functions before the classes initialised and the ports set up: main() frees
\* only after rte_eal_mp_wait_lcore(), and launches only after function_init_all().
InUseIsLive ==
    (\E t \in Threads : thread[t] \in Using) =>
        /\ released = {} /\ ports
        /\ \A f \in Infrastructure : Initializes(f) \subseteq alloc[f]

\* function_free_all() goes backwards: when a function is freed, every function with a
\* higher index, which may use it, has been freed before it.
UsersFreedFirst ==
    \A f \in released : \A g \in Functions : g > f => g \in released

\* Once main() has walked the timer list every registered timer has been told to stop,
\* those included that did not stop within the two seconds of thread_timer_quit(): their
\* threads still wait for the start time, and would run for ever otherwise.
EveryTimerTold ==
    main \in {"shutdown", "free", "end"} =>
        \A i \in 1 .. Len(timers) : timers[i] \in told

\* What no deinit function frees: lport_dtor() only clears its table, nobody calls
\* thread_timer_free(), and the mbuf arrays and vid2qid are forgotten.
NeverFreed == {"lports", "vid2qid", "mbufs", "timer", "timer_info"}

\* A run that ends normally has joined every thread, destroyed the MQTT client and given
\* back everything but what no deinit function frees.
CleanExit ==
    main = "end" =>
        /\ \A t \in Threads : thread[t] \in {"none", "done"}
        /\ mosq # "client"
        /\ \A f \in Functions : alloc[f] \subseteq NeverFreed

\* Whatever the order in which threads start, run and stop and main() sets up and frees,
\* no thread misses something it uses and nothing is closed twice, unless a TSN class is
\* enabled and has no frames to send (its thread reads the private data that its set-up
\* skipped), the log file could not be opened (the deinit function closes it all the
\* same), or the broker refused (the thread and the deinit function destroy the client).
CrashExplained ==
    main = "crash" =>
        \/ Enabled \cap {TSN_HIGH_IDX, TSN_LOW_IDX} \cap (Classes \ Framed) # {}
        \/ failed \cap {"log_file", "broker"} # {}

\* Once 'q' is pressed the program comes to its end.
QuitTerminates == (main = "leave") ~> (main = "end")
=============================================================================

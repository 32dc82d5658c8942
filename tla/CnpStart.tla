------------------------------ MODULE CnpStart ------------------------------
(***************************************************************************)
(* Starting and stopping the lcores of CNP tuning (src/apps/cnp): every    *)
(* worker lcore takes the next port index, initialises the port under the  *)
(* port lock, waits for the link and polls until the flag APP_RUNNING is   *)
(* gone.  The flags of pinfo are bits of one word that the workers, the    *)
(* main lcore and the signal handler change by compare and set.            *)
(***************************************************************************)
EXTENDS Integers, FiniteSets

CONSTANTS Lcores,      \* the worker lcores
          NPorts,      \* rte_eth_dev_count_avail()
          InitMayFail, \* an init function of port_init() may fail
          MaxKeys      \* bound: keys 'r' and 'c' pressed

\* What the constants have to be.
CnpStartAssumption ==
  /\ Lcores # {} /\ {"main", "signal", "none"} \cap Lcores = {}
  /\ NPorts \in Nat \ {0} /\ InitMayFail \in BOOLEAN
  /\ MaxKeys \in Nat

RUNNING == "APP_RUNNING"
RESET   == "RESET_STATS"
CLEAR   == "CLEAR_SCREEN"
Actors  == Lcores \cup {"main", "signal"}

VARIABLES
  flags,      \* pinfo->flags, the set of the bits that are one
  pc,         \* where each actor is
  change,     \* the bits an actor is setting and clearing
  seen,       \* _e, the flags an actor read before its compare and set
  lport_idx,  \* pinfo->lport_idx
  pid,        \* the index each lcore read
  port_lock,  \* holder of pinfo->port_lock, or "none"
  exited,     \* rte_exit() was called
  keys        \* keys pressed, for the bound

startVars == <<flags, pc, change, seen, lport_idx, pid, port_lock, exited, keys>>
ports == <<lport_idx, pid, port_lock, exited>>

NoChange == [set |-> {}, clr |-> {}]

\* start_running() and keyboard_loop() have set their flags before they loop.
Init ==
  /\ flags = {RUNNING, CLEAR}
  /\ pc = [a \in Actors |-> IF a = "main" THEN "loop"
                            ELSE IF a = "signal" THEN "idle" ELSE "fetch"]
  /\ change = [a \in Actors |-> NoChange]
  /\ seen = [a \in Actors |-> {}]
  /\ lport_idx = 0 /\ pid = [l \in Lcores |-> 0]
  /\ port_lock = "none" /\ exited = FALSE /\ keys = 0

-----------------------------------------------------------------------------
(* _bset() and _bclr(): go to step next once the flags are changed *)

Goto(a, next) == pc' = [pc EXCEPT ![a] = next]

\* The read that starts, or starts again, a change.
BeginChange(a, set, clr, next) ==
  /\ change' = [change EXCEPT ![a] = [set |-> set, clr |-> clr]]
  /\ seen' = [seen EXCEPT ![a] = flags]
  /\ pc' = [pc EXCEPT ![a] = next]
  /\ UNCHANGED <<flags, ports>>

Idle(a) == change[a] = NoChange

\* Mutant: the new word is stored without the comparison.
cmpset_blind(a) ==
  /\ ~Idle(a)
  /\ flags' = (seen[a] \cup change[a].set) \ change[a].clr
  /\ change' = [change EXCEPT ![a] = NoChange]
  /\ seen' = [seen EXCEPT ![a] = {}]
  /\ UNCHANGED <<pc, ports, keys>>

\* rte_atomic32_cmpset(): store the new word if nobody changed the old one,
\* else read again.
cmpset(a) ==
  /\ ~Idle(a)
  /\ IF flags = seen[a]
     THEN /\ flags' = (seen[a] \cup change[a].set) \ change[a].clr
          /\ change' = [change EXCEPT ![a] = NoChange]
          /\ seen' = [seen EXCEPT ![a] = {}]
     ELSE seen' = [seen EXCEPT ![a] = flags] /\ UNCHANGED <<flags, change>>
  /\ UNCHANGED <<pc, ports, keys>>

-----------------------------------------------------------------------------
(* The worker lcores *)

At(a, step) == pc[a] = step /\ Idle(a)
flagData == <<flags, change, seen>>

\* pinfo->lport_idx++ is a load and a store.
lport_idx_load(l) ==
  /\ At(l, "fetch") /\ Goto(l, "store")
  /\ pid' = [pid EXCEPT ![l] = lport_idx]
  /\ UNCHANGED <<flagData, lport_idx, port_lock, exited, keys>>

lport_idx_store(l) ==
  /\ At(l, "store") /\ Goto(l, "valid")
  /\ lport_idx' = pid[l] + 1
  /\ UNCHANGED <<flagData, pid, port_lock, exited, keys>>

\* rte_eth_dev_is_valid_port(), or rte_exit().
port_valid(l) ==
  /\ At(l, "valid") /\ Goto(l, "lock")
  /\ exited' = (pid[l] >= NPorts)
  /\ UNCHANGED <<flagData, lport_idx, pid, port_lock, keys>>

rte_spinlock_lock(l) ==
  /\ At(l, "lock") /\ port_lock = "none"
  /\ Goto(l, "init")
  /\ port_lock' = l
  /\ UNCHANGED <<flagData, lport_idx, pid, exited, keys>>

\* Mutant: the error path keeps the lock.
port_init_keeps(l, ok) ==
  /\ At(l, "init") /\ (ok \/ InitMayFail)
  /\ Goto(l, IF ok THEN "link" ELSE "leave")
  /\ port_lock' = IF ok THEN "none" ELSE port_lock
  /\ UNCHANGED <<flagData, lport_idx, pid, exited, keys>>

\* The init functions, and the unlock on both paths.
port_init(l, ok) ==
  /\ At(l, "init") /\ (ok \/ InitMayFail)
  /\ Goto(l, IF ok THEN "link" ELSE "leave")
  /\ port_lock' = "none"
  /\ UNCHANGED <<flagData, lport_idx, pid, exited, keys>>

\* The link is up: the statistics are reset once more.
link_up(l) ==
  /\ At(l, "link")
  /\ BeginChange(l, {RESET}, {}, "loop") /\ UNCHANGED keys

\* The link is down, and the program is stopped.
link_down(l) ==
  /\ At(l, "link") /\ RUNNING \notin flags
  /\ Goto(l, "leave")
  /\ UNCHANGED <<flagData, ports, keys>>

\* The loop of rxtx_routine() ends.
rxtx_ends(l) ==
  /\ At(l, "loop") /\ RUNNING \notin flags
  /\ Goto(l, "leave")
  /\ UNCHANGED <<flagData, ports, keys>>

\* leave: stop_running().
rxtx_leaves(l) ==
  /\ At(l, "leave")
  /\ BeginChange(l, {}, {RUNNING}, "ended") /\ UNCHANGED keys

-----------------------------------------------------------------------------
(* The main lcore and the signal handler *)

\* A turn of keyboard_loop(): print_stats() clears a flag it acts on, 'r' and
\* 'c' set one, 'q' stops.
print_stats ==
  /\ At("main", "loop") /\ RUNNING \in flags
  /\ \E f \in flags \cap {RESET, CLEAR} : BeginChange("main", {}, {f}, "loop")
  /\ UNCHANGED keys

keyboard_sets ==
  /\ At("main", "loop") /\ RUNNING \in flags /\ keys < MaxKeys
  /\ keys' = keys + 1
  /\ \E f \in {RESET, CLEAR} : BeginChange("main", {f}, {}, "loop")

keyboard_quit ==
  /\ At("main", "loop") /\ RUNNING \in flags
  /\ BeginChange("main", {}, {RUNNING}, "loop") /\ UNCHANGED keys

keyboard_leaves ==
  /\ At("main", "loop") /\ RUNNING \notin flags
  /\ BeginChange("main", {}, {RUNNING}, "wait") /\ UNCHANGED keys

\* rte_eal_mp_wait_lcore(), and the ports are closed.
main_returns ==
  /\ At("main", "wait")
  /\ \A l \in Lcores : At(l, "ended")
  /\ Goto("main", "returned")
  /\ UNCHANGED <<flagData, ports, keys>>

signal_handler ==
  /\ At("signal", "idle")
  /\ BeginChange("signal", {}, {RUNNING}, "handled") /\ UNCHANGED keys

-----------------------------------------------------------------------------
LcoreStep(l) ==
  \/ cmpset(l)
  \/ lport_idx_load(l) \/ lport_idx_store(l) \/ port_valid(l)
  \/ rte_spinlock_lock(l) \/ \E ok \in BOOLEAN : port_init(l, ok)
  \/ link_down(l) \/ rxtx_ends(l) \/ rxtx_leaves(l)

MainStep ==
  cmpset("main") \/ print_stats \/ keyboard_leaves \/ main_returns

Next ==
  /\ ~exited
  /\ \/ \E l \in Lcores : LcoreStep(l) \/ link_up(l)
     \/ MainStep \/ keyboard_sets \/ keyboard_quit
     \/ signal_handler \/ cmpset("signal")

\* Each lcore runs on a core of its own; a spinlock may starve nobody as each
\* lcore takes it once.  Nothing is assumed of keys, signals and the link.
Spec ==
  /\ Init /\ [][Next]_startVars
  /\ \A l \in Lcores : WF_startVars(~exited /\ LcoreStep(l))
  /\ WF_startVars(~exited /\ MainStep)
  /\ WF_startVars(~exited /\ cmpset("signal"))

-----------------------------------------------------------------------------
TypeOK ==
  /\ flags \subseteq {RUNNING, RESET, CLEAR}
  /\ pc \in [Actors -> {"fetch", "store", "valid", "lock", "init", "link", "loop",
                        "leave", "ended", "wait", "returned", "idle", "handled"}]
  /\ \A a \in Actors : seen[a] \subseteq {RUNNING, RESET, CLEAR}
  /\ lport_idx \in 0 .. Cardinality(Lcores)
  /\ pid \in [Lcores -> 0 .. Cardinality(Lcores)]
  /\ port_lock \in Lcores \cup {"none"}

\* Two lcores never run the init functions of port_init() at a time, and only
\* for ports that exist.
InitAlone ==
  \A l, k \in Lcores :
    (pc[l] = "init" /\ pc[k] = "init" => l = k)
    /\ (pc[l] = "init" /\ ~exited => pid[l] < NPorts)

\* Once the program is told to stop it stays told: no setting or clearing of
\* another flag by another actor at the same time brings APP_RUNNING back.
StopIsFinal == [][RUNNING \notin flags => RUNNING \notin flags']_startVars

\* A stop by the user, by a signal or by the failing start of one lcore ends
\* every lcore and the program.
StopEnds ==
  /\ (RUNNING \notin flags) ~> (pc["main"] = "returned" \/ exited)
  /\ \A l \in Lcores : (pc[l] = "leave") ~> (pc["main"] = "returned" \/ exited)

=============================================================================

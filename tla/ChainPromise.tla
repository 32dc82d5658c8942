---------------------------- MODULE ChainPromise ----------------------------
(***************************************************************************)
(* What the chain of Tx threads promises, without threads, timers, signals *)
(* or flags: the classes send in rounds, and a class that does not start   *)
(* the cycle never begins more rounds than the active class right before   *)
(* it in the order TSN High, TSN Low, RTC, RTA, DCP, LLDP, UDP High, UDP   *)
(* Low.                                                                    *)
(***************************************************************************)
EXTENDS TrafficClasses

VARIABLES active,   \* the active classes
          rounds    \* rounds[c]: how often class c has sent

vars == <<active, rounds>>

\* p is the active class right before c.
Precedes(a, p, c) == p \in a /\ p < c /\ \A d \in a : d < c => d <= p

Init ==
    /\ active \in SUBSET PnClasses
    /\ rounds = [c \in PnClasses |-> 0]

Send(c) ==
    /\ c \in active
    /\ \/ is_first(active, c)
       \/ \E p \in active : Precedes(active, p, c) /\ rounds[c] < rounds[p]
    /\ rounds' = [rounds EXCEPT ![c] = @ + 1]
    /\ UNCHANGED active

Next == \E c \in PnClasses : Send(c)

Spec == Init /\ [][Next]_vars
=============================================================================

------------------------------ MODULE TxRounds ------------------------------
(***************************************************************************)
(* TxChain with a history variable that counts how often each class has    *)
(* sent, and what the chain guarantees about these counts.                 *)
(***************************************************************************)
EXTENDS TxChain

CONSTANT MaxRounds   \* bound on the rounds of one class (TLC)

ASSUME MaxRoundsAssumption == MaxRounds \in Nat

VARIABLE rounds      \* rounds[c]: calls of c's Tx routine that got to send

varsH == <<vars, rounds>>

InitH == Init /\ rounds = [c \in PnClasses |-> 0]

NextH ==
    \E c \in PnClasses :
        \/ PollTimer(c) /\ UNCHANGED rounds
        \/ TxGeneration(c) /\ UNCHANGED rounds
        \/ /\ AboutToSend(c) => rounds[c] < MaxRounds
           /\ rounds' = [rounds EXCEPT ![c] = IF AboutToSend(c) THEN @ + 1 ELSE @]
           /\ TxRoutine(c)

SpecH == InitH /\ [][NextH]_varsH
-----------------------------------------------------------------------------
Promise == INSTANCE ChainPromise WITH active <- active, rounds <- rounds

\* The chain of threads, timers and signal flags keeps the promise: every step
\* is a legal round of one class or changes no count.
KeepsPromise == Promise!Spec

\* A class behind the first never gets ahead of the active class before it:
\* frames of a cycle leave in the order of the classes, also when threads are
\* delayed, timers expire late or signals are absorbed.
ChainOrder ==
    \A p \in active, c \in active :
        Promise!Precedes(active, p, c) /\ ~ first(c) => rounds[c] <= rounds[p]

\* A signal on its way to c, in the flag or already taken by c's loop.
Pending(c) == cond[c] + (IF poll[c] = "signaled" THEN 1 ELSE 0)

\* ChainOrder, strengthened to an inductive invariant: each signal on its way
\* was paid for by a round of the class before; a class that nobody precedes
\* and that is not first is never signalled and has never sent, so the first
\* class is never signalled either.
RoundsPaid ==
    /\ \A p \in active, c \in active :
           Promise!Precedes(active, p, c) /\ ~ first(c)
               => rounds[c] + Pending(c) <= rounds[p]
    /\ \A c \in active :
           (first(c) \/ \A d \in active : c <= d) => Pending(c) = 0
    /\ \A c \in active :
           ~ first(c) /\ (\A d \in active : c <= d) => rounds[c] = 0
    /\ \A c \in PnClasses \ active : cond[c] = 0 /\ poll[c] = "idle"

TypeOKH == TypeOK /\ rounds \in [PnClasses -> Nat]
=============================================================================

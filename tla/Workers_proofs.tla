--------------------------- MODULE Workers_proofs ---------------------------
(***************************************************************************)
(* Proofs about the threads that send, and the log their messages go to:   *)
(* the chain of Tx threads of the testbench, for every set of              *)
(* configurations, in both modes and for every bound on the rounds; the    *)
(* message log, for any number of threads and buffers and every capacity   *)
(* of ring and burst; and the worker of the launch time test, for every    *)
(* interval, offset, burst, pool and queue. What several programs call by  *)
(* the same name is declared once; no theorem is about two of them.        *)
(***************************************************************************)
EXTENDS TxRounds, SequenceElements, TLAPS
-----------------------------------------------------------------------------
(* The chain of Tx threads *)

\* In find_next_pn_thread() an active class after start exists only if there
\* is a first one: the switch falls through at most MAX_PN_TYPES cases.
LEMMA FirstAfter ==
    ASSUME NEW a \in SUBSET PnClasses, NEW s \in PnClasses,
           \E c \in a : c > s
    PROVE  \E c \in a : c > s /\ \A d \in a : d > s => c <= d
  BY DEF PnClasses, TSN_HIGH, UDP_LOW

\* find_next_pn_thread() returns the next active class, or NULL when there is
\* none after start.
LEMMA FindNext ==
    ASSUME NEW a \in SUBSET PnClasses, NEW s \in PnClasses
    PROVE  LET n == find_next_pn_thread(a, s)
           IN  \/ n = NULL /\ \A c \in a : c <= s
               \/ n \in a /\ n > s /\ \A d \in a : d > s => n <= d
  <1>1. CASE \E c \in a : c > s
    BY <1>1, FirstAfter DEF find_next_pn_thread
  <1>2. CASE ~ \E c \in a : c > s
    BY <1>2 DEF find_next_pn_thread, PnClasses, TSN_HIGH, UDP_LOW
  <1>3. QED
    BY <1>1, <1>2

\* next links an active class to the class it precedes, and to no other.
LEMMA NextIsSuccessor ==
    ASSUME NEW a \in SUBSET PnClasses, NEW p \in a, NEW c \in a
    PROVE  Promise!Precedes(a, p, c) <=> find_next_pn_thread(a, p) = c
  <1>. DEFINE n == find_next_pn_thread(a, p)
  <1>1. \/ n = NULL /\ \A d \in a : d <= p
        \/ n \in a /\ n > p /\ \A d \in a : d > p => n <= d
    BY FindNext
  <1>2. a \subseteq Int /\ NULL \notin a
    BY DEF NULL, PnClasses, TSN_HIGH, UDP_LOW
  <1>. HIDE DEF n
  <1>3. ASSUME n = c  PROVE Promise!Precedes(a, p, c)
    BY <1>1, <1>2, <1>3 DEF Promise!Precedes
  <1>4. ASSUME Promise!Precedes(a, p, c)  PROVE n = c
    <2>1. p \in Int /\ c \in Int /\ p < c /\ \A d \in a : d < c => d <= p
      BY <1>2, <1>4 DEF Promise!Precedes
    <2>2. n \in a /\ n \in Int /\ n > p /\ n <= c
      <3>1. c > p
        BY <2>1
      <3>2. ~ \A d \in a : d <= p
        BY <2>1, <1>2
      <3>3. n \in a /\ n > p /\ \A d \in a : d > p => n <= d
        BY <1>1, <3>2
      <3>4. n <= c
        BY <3>1, <3>3
      <3>5. QED
        BY <1>2, <3>3, <3>4
    <2>3. ~ (n < c)
      BY <2>1, <2>2
    <2>4. QED
      BY <2>1, <2>2, <2>3
  <1>5. QED
    BY <1>3, <1>4 DEF n
-----------------------------------------------------------------------------
(* What the actions do, whichever class's routine it is. *)

\* A call of a Tx routine ends the poll and signals the next class exactly if
\* the routine got to send.
LEMMA TxRoutineEffect ==
    ASSUME TypeOK, NEW c \in PnClasses, TxRoutine(c)
    PROVE  /\ c \in active
           /\ poll[c] # "idle"
           /\ poll' = [poll EXCEPT ![c] = "idle"]
           /\ once' \in [PnClasses -> BOOLEAN]
           /\ avail' \in [PnClasses -> BOOLEAN]
           /\ UNCHANGED <<active, genOnce>>
           /\ cond' = IF AboutToSend(c) /\ next(c) # NULL
                      THEN [cond EXCEPT ![next(c)] = 1] ELSE cond
  <1>. USE DEF Due, SetPeriod, NotSignaled, SendCyclic, SendBurst, do_signal,
               AboutToSend, TypeOK
  <1>1. CASE tsn_tx_thread_routine(c)
    BY <1>1, Zenon DEF tsn_tx_thread_routine
  <1>2. CASE rtc_tx_thread_routine(c)
    BY <1>2, Zenon DEF rtc_tx_thread_routine
  <1>3. CASE c \in BurstClasses /\ Due(c) /\ (SetPeriod(c) \/ NotSignaled(c) \/ SendBurst(c))
    <2>1. ~ first(c)
      BY <1>3 DEF BurstClasses, first, is_first, TSN_HIGH, RTC, RTA, DCP, LLDP,
                  UDP_HIGH, UDP_LOW
    <2>2. QED
      BY <1>3, <2>1, Zenon
  <1>4. QED
    BY <1>1, <1>2, <1>3 DEF TxRoutine, rta_tx_thread_routine, dcp_tx_thread_routine,
       lldp_tx_thread_routine, udp_tx_thread_routine, BurstClasses

\* A generation callback touches only the announcement of its class.
LEMMA TxGenerationEffect ==
    ASSUME TypeOK, NEW c \in PnClasses, TxGeneration(c)
    PROVE  /\ UNCHANGED <<active, once, cond, poll>>
           /\ genOnce' \in [PnClasses -> BOOLEAN]
           /\ avail' \in [PnClasses -> BOOLEAN]
  BY Zenon DEF TypeOK, TxGeneration, rta_tx_generation_thread_routine,
     dcp_tx_generation_thread_routine, lldp_tx_generation_thread_routine,
     udp_tx_generation_thread_routine, Generate

\* next is NULL or an active class.
LEMMA NextType ==
    ASSUME TypeOK, NEW c \in PnClasses
    PROVE  next(c) # NULL => next(c) \in active /\ next(c) \in PnClasses
  <1>1. active \in SUBSET PnClasses
    BY ConfigsAssumption DEF TypeOK
  <1>2. QED
    BY <1>1, FindNext DEF next

-----------------------------------------------------------------------------
\* Every state of the chain is well formed.
THEOREM TypeCorrect == SpecH => []TypeOKH
  <1>1. InitH => TypeOKH
    BY ConfigsAssumption DEF InitH, Init, TypeOKH, TypeOK
  <1>2. TypeOKH /\ [NextH]_varsH => TypeOKH'
    <2>. SUFFICES ASSUME TypeOKH, [NextH]_varsH
                  PROVE  TypeOKH'
      OBVIOUS
    <2>1. ASSUME NEW c \in PnClasses, PollTimer(c), UNCHANGED rounds
          PROVE  TypeOKH'
      BY <2>1 DEF TypeOKH, TypeOK, PollTimer, is_signaled
    <2>2. ASSUME NEW c \in PnClasses, TxGeneration(c), UNCHANGED rounds
          PROVE  TypeOKH'
      BY <2>2, TxGenerationEffect DEF TypeOKH, TypeOK
    <2>3. ASSUME NEW c \in PnClasses, TxRoutine(c),
                 rounds' = [rounds EXCEPT ![c] = IF AboutToSend(c) THEN @ + 1 ELSE @]
          PROVE  TypeOKH'
      BY <2>3, TxRoutineEffect, NextType DEF TypeOKH, TypeOK
    <2>4. CASE UNCHANGED varsH
      BY <2>4 DEF TypeOKH, TypeOK, varsH, vars
    <2>5. QED
      BY <2>1, <2>2, <2>3, <2>4 DEF NextH
  <1>3. QED
    BY <1>1, <1>2, PTL DEF SpecH

-----------------------------------------------------------------------------
(* The order of the rounds. *)

\* Only a class that sends signals, and it never signals the first class: the
\* only class before an RTC that is first is TSN Low, which nobody signals.
LEMMA SignalsFollowOrder ==
    ASSUME TypeOKH, RoundsPaid, NEW c \in active, AboutToSend(c), next(c) # NULL
    PROVE  /\ next(c) \in active /\ c < next(c)
           /\ Promise!Precedes(active, c, next(c))
           /\ ~ first(next(c))
  <1>1. active \in SUBSET PnClasses /\ active \subseteq Int /\ c \in PnClasses
    BY ConfigsAssumption DEF TypeOKH, TypeOK, PnClasses, TSN_HIGH, UDP_LOW
  <1>2. next(c) \in active /\ c < next(c)
    BY <1>1, FindNext DEF next
  <1>3. Promise!Precedes(active, c, next(c))
    BY <1>1, <1>2, NextIsSuccessor, Zenon DEF next
  <1>4. ASSUME first(next(c))  PROVE FALSE
    <2>1. next(c) = RTC /\ TSN_HIGH \notin active
      BY <1>1, <1>2, <1>4 DEF first, is_first, TSN_HIGH, RTC, PnClasses, UDP_LOW
    <2>2. c = TSN_LOW /\ \A d \in active : c <= d
      BY <1>1, <1>2, <2>1 DEF TSN_HIGH, TSN_LOW, RTC, PnClasses, UDP_LOW
    <2>3. ~ first(c)
      BY <2>2 DEF first, is_first, TSN_HIGH, TSN_LOW, RTC
    <2>4. poll[c] = "signaled"
      BY <2>3 DEF AboutToSend
    <2>5. Pending(c) = 0
      BY <2>2 DEF RoundsPaid
    <2>6. cond[c] \in {0, 1}
      BY <1>1 DEF TypeOKH, TypeOK
    <2>7. QED
      BY <2>4, <2>5, <2>6 DEF Pending
  <1>5. QED
    BY <1>2, <1>3, <1>4

\* Polling moves a signal from the flag into the loop and creates none.
LEMMA PollKeepsPending ==
    ASSUME TypeOKH, NEW c \in PnClasses, PollTimer(c), NEW d \in PnClasses
    PROVE  Pending(d)' = Pending(d)
  BY DEF TypeOKH, TypeOK, PollTimer, is_signaled, Pending

\* RoundsPaid is inductive.
LEMMA RoundsPaidStep == TypeOKH /\ RoundsPaid /\ [NextH]_varsH => RoundsPaid'
  <1>. SUFFICES ASSUME TypeOKH, RoundsPaid, [NextH]_varsH
                PROVE  RoundsPaid'
    OBVIOUS
  <1>. active \in SUBSET PnClasses /\ active \subseteq Int
    BY ConfigsAssumption DEF TypeOKH, TypeOK, PnClasses, TSN_HIGH, UDP_LOW
  <1>1. ASSUME NEW c \in PnClasses, PollTimer(c), UNCHANGED rounds
        PROVE  RoundsPaid'
    <2>1. UNCHANGED active /\ c \in active
      BY <1>1 DEF PollTimer
    <2>2. \A d \in PnClasses : Pending(d)' = Pending(d)
      BY <1>1, PollKeepsPending
    <2>3. \A d \in PnClasses \ active : cond'[d] = 0 /\ poll'[d] = "idle"
      BY <1>1, <2>1 DEF PollTimer, is_signaled, RoundsPaid, TypeOKH, TypeOK
    <2>4. QED
      BY <1>1, <2>1, <2>2, <2>3 DEF RoundsPaid, first, Promise!Precedes
  <1>2. ASSUME NEW c \in PnClasses, TxGeneration(c), UNCHANGED rounds
        PROVE  RoundsPaid'
    BY <1>2, TxGenerationEffect, Zenon DEF TypeOKH, RoundsPaid, Pending, first, Promise!Precedes
  <1>3. ASSUME NEW c \in PnClasses, TxRoutine(c),
               rounds' = [rounds EXCEPT ![c] = IF AboutToSend(c) THEN @ + 1 ELSE @]
        PROVE  RoundsPaid'
    <2>0. PICK s : s = next(c)
      OBVIOUS
    <2>1. /\ c \in active
          /\ poll[c] # "idle"
          /\ poll' = [poll EXCEPT ![c] = "idle"]
          /\ UNCHANGED active
          /\ cond' = IF AboutToSend(c) /\ s # NULL THEN [cond EXCEPT ![s] = 1] ELSE cond
      BY <1>3, <2>0, TxRoutineEffect DEF TypeOKH
    <2>2. AboutToSend(c) /\ s # NULL
             => s \in active /\ c < s /\ Promise!Precedes(active, c, s) /\ ~ first(s)
      BY <2>0, <2>1, SignalsFollowOrder
    <2>3. AboutToSend(c) /\ ~ first(c) => poll[c] = "signaled"
      BY DEF AboutToSend
    <2>4. cond \in [PnClasses -> {0, 1}] /\ rounds \in [PnClasses -> Nat]
          /\ poll \in [PnClasses -> {"idle", "expired", "signaled"}]
      BY DEF TypeOKH, TypeOK
    <2>5. /\ Pending(c)' = cond[c]
          /\ \A d \in PnClasses : d # c /\ ~ (AboutToSend(c) /\ s = d) => Pending(d)' = Pending(d)
          /\ AboutToSend(c) /\ s # NULL => Pending(s)' <= Pending(s) + 1
      <3>1. Pending(c)' = cond[c]
        BY <2>1, <2>2, <2>4 DEF Pending
      <3>2. ASSUME NEW d \in PnClasses, d # c, ~ (AboutToSend(c) /\ s = d)
            PROVE  Pending(d)' = Pending(d)
        BY <2>1, <2>4, <3>2 DEF Pending
      <3>3. ASSUME AboutToSend(c), s # NULL  PROVE Pending(s)' <= Pending(s) + 1
        <4>0. s \in PnClasses /\ c < s
          BY <2>2, <3>3, Zenon
        <4>1. s \in PnClasses /\ s # c /\ cond'[s] = 1 /\ poll'[s] = poll[s]
          BY <2>1, <2>4, <3>3, <4>0 DEF PnClasses
        <4>2. cond[s] \in {0, 1}
          BY <2>4, <4>1
        <4>3. QED
          BY <4>1, <4>2 DEF Pending
      <3>4. QED
        BY <3>1, <3>2, <3>3
    <2>6. \A d \in PnClasses : rounds'[d] = IF d = c /\ AboutToSend(c) THEN rounds[d] + 1 ELSE rounds[d]
      BY <1>3, <2>4
    <2>7. ASSUME NEW p \in active, NEW d \in active,
                 Promise!Precedes(active, p, d), ~ first(d)
          PROVE  rounds'[d] + Pending(d)' <= rounds'[p]
      <3>1. rounds[d] + Pending(d) <= rounds[p] /\ p < d
        BY <2>7 DEF RoundsPaid, Promise!Precedes
      <3>2. CASE d = c
        BY <2>3, <2>4, <2>5, <2>6, <2>7, <3>1, <3>2 DEF Pending
      <3>3. CASE d # c /\ AboutToSend(c) /\ s = d
        <4>1. p = c
          <5>1. Promise!Precedes(active, c, d)
            BY <2>2, <3>3 DEF NULL, PnClasses, TSN_HIGH, UDP_LOW
          <5>2. p <= c /\ c <= p
            BY <2>1, <2>7, <5>1 DEF Promise!Precedes
          <5>3. QED
            BY <2>1, <5>2
        <4>2. QED
          <5>1. Pending(d)' <= Pending(d) + 1 /\ d # NULL
            BY <2>5, <3>3 DEF NULL, PnClasses, TSN_HIGH, UDP_LOW
          <5>2. rounds'[d] = rounds[d] /\ rounds'[p] = rounds[p] + 1
            BY <2>6, <3>3, <4>1
          <5>3. Pending(d) \in Int /\ Pending(d)' \in Int /\ rounds[d] \in Int /\ rounds[p] \in Int
            BY <2>1, <2>4, <3>3 DEF Pending
          <5>4. QED
            BY <3>1, <5>1, <5>2, <5>3
      <3>4. CASE d # c /\ ~ (AboutToSend(c) /\ s = d)
        BY <2>4, <2>5, <2>6, <3>1, <3>4 DEF Pending
      <3>5. QED
        BY <3>2, <3>3, <3>4
    <2>8. ASSUME NEW d \in active, first(d) \/ \A e \in active : d <= e
          PROVE  Pending(d)' = 0
      <3>1. Pending(d) = 0
        BY <2>8 DEF RoundsPaid
      <3>2. ~ (AboutToSend(c) /\ s = d)
        BY <2>1, <2>2, <2>8 DEF NULL, PnClasses, TSN_HIGH, UDP_LOW
      <3>3. QED
        BY <2>4, <2>5, <3>1, <3>2 DEF Pending
    <2>9. ASSUME NEW d \in active, ~ first(d), \A e \in active : d <= e
          PROVE  rounds'[d] = 0
      <3>1. rounds[d] = 0 /\ Pending(d) = 0
        BY <2>9 DEF RoundsPaid
      <3>2. ~ (d = c /\ AboutToSend(c))
        BY <2>3, <2>4, <2>9, <3>1 DEF Pending
      <3>3. QED
        BY <2>6, <3>1, <3>2
    <2>10. \A d \in PnClasses \ active : cond'[d] = 0 /\ poll'[d] = "idle"
      BY <2>1, <2>2, <2>4 DEF RoundsPaid
    <2>11. QED
      BY <2>1, <2>7, <2>8, <2>9, <2>10 DEF RoundsPaid, first, Promise!Precedes
  <1>4. CASE UNCHANGED varsH
    BY <1>4 DEF varsH, vars, RoundsPaid, Pending, first, Promise!Precedes
  <1>5. QED
    BY <1>1, <1>2, <1>3, <1>4 DEF NextH

\* Every signal on its way was paid for by a round of the class before it.
THEOREM RoundsPaidInvariant == SpecH => []RoundsPaid
  <1>1. InitH => RoundsPaid
    <2>. SUFFICES ASSUME InitH PROVE RoundsPaid
      OBVIOUS
    <2>1. active \in SUBSET PnClasses
      BY ConfigsAssumption DEF InitH, Init
    <2>2. \A c \in PnClasses : Pending(c) = 0 /\ rounds[c] = 0
      BY DEF InitH, Init, Pending
    <2>3. QED
      BY <2>1, <2>2 DEF RoundsPaid, InitH, Init
  <1>2. QED
    BY <1>1, RoundsPaidStep, TypeCorrect, PTL DEF SpecH

\* The classes send in the order of the chain: a class behind the first never
\* has more rounds than the active class right before it.
THEOREM ChainOrderHolds == SpecH => []ChainOrder
  <1>1. TypeOKH /\ RoundsPaid => ChainOrder
    <2>. SUFFICES ASSUME TypeOKH, RoundsPaid,
                         NEW p \in active, NEW c \in active,
                         Promise!Precedes(active, p, c), ~ first(c)
                  PROVE  rounds[c] <= rounds[p]
      BY DEF ChainOrder
    <2>1. p \in PnClasses /\ c \in PnClasses
      BY ConfigsAssumption DEF TypeOKH, TypeOK
    <2>2. rounds[c] + Pending(c) <= rounds[p]
      BY DEF RoundsPaid
    <2>3. Pending(c) \in Nat /\ rounds[c] \in Nat /\ rounds[p] \in Nat
      BY <2>1 DEF TypeOKH, TypeOK, Pending
    <2>4. QED
      BY <2>2, <2>3
  <1>2. QED
    BY <1>1, TypeCorrect, RoundsPaidInvariant, PTL

\* The class that starts the cycle is never signalled.
THEOREM FirstNotSignaledHolds == SpecH => []FirstNotSignaled
  <1>1. TypeOKH /\ RoundsPaid => FirstNotSignaled
    <2>. SUFFICES ASSUME TypeOKH, RoundsPaid, NEW c \in active, first(c)
                  PROVE  cond[c] = 0 /\ poll[c] # "signaled"
      BY DEF FirstNotSignaled
    <2>1. cond[c] \in {0, 1}
      BY ConfigsAssumption DEF TypeOKH, TypeOK
    <2>2. Pending(c) = 0
      BY DEF RoundsPaid
    <2>3. QED
      BY <2>1, <2>2 DEF Pending
  <1>2. QED
    BY <1>1, TypeCorrect, RoundsPaidInvariant, PTL

\* The chain of threads, timers and signal flags implements ChainPromise.
THEOREM ChainImplementsPromise == SpecH => KeepsPromise
  <1>. Promise!PnClasses = PnClasses
    BY DEF Promise!PnClasses, PnClasses, Promise!TSN_HIGH, TSN_HIGH, Promise!UDP_LOW, UDP_LOW
  <1>. \A a, c : Promise!is_first(a, c) <=> is_first(a, c)
    BY DEF Promise!is_first, is_first, Promise!TSN_HIGH, TSN_HIGH, Promise!RTC, RTC
  <1>1. InitH => Promise!Init
    BY ConfigsAssumption DEF InitH, Init, Promise!Init
  <1>2. TypeOKH /\ RoundsPaid /\ [NextH]_varsH => [Promise!Next]_(Promise!vars)
    <2>. SUFFICES ASSUME TypeOKH, RoundsPaid, [NextH]_varsH
                  PROVE  [Promise!Next]_(Promise!vars)
      OBVIOUS
    <2>. USE DEF Promise!vars
    <2>1. ASSUME NEW c \in PnClasses, PollTimer(c), UNCHANGED rounds
          PROVE  UNCHANGED Promise!vars
      BY <2>1 DEF PollTimer
    <2>2. ASSUME NEW c \in PnClasses, TxGeneration(c), UNCHANGED rounds
          PROVE  UNCHANGED Promise!vars
      BY <2>2, TxGenerationEffect DEF TypeOKH
    <2>3. ASSUME NEW c \in PnClasses, TxRoutine(c),
                 rounds' = [rounds EXCEPT ![c] = IF AboutToSend(c) THEN @ + 1 ELSE @]
          PROVE  [Promise!Next]_(Promise!vars)
      <3>1. c \in active /\ UNCHANGED active
        BY <2>3, TxRoutineEffect DEF TypeOKH
      <3>2. CASE ~ AboutToSend(c)
        BY <2>3, <3>1, <3>2 DEF TypeOKH
      <3>3. CASE AboutToSend(c) /\ first(c)
        BY <2>3, <3>1, <3>3, Zenon DEF Promise!Next, Promise!Send, first
      <3>4. CASE AboutToSend(c) /\ ~ first(c)
        <4>1. active \in SUBSET PnClasses /\ cond[c] \in {0, 1}
              /\ \A d \in PnClasses : rounds[d] \in Nat
          BY ConfigsAssumption DEF TypeOKH, TypeOK
        <4>2. poll[c] = "signaled"
          BY <3>4 DEF AboutToSend
        <4>3. Pending(c) \in Int /\ Pending(c) >= 1
          BY <4>1, <4>2 DEF Pending
        <4>4. PICK d \in active : d < c
          BY <3>1, <3>4, <4>1, <4>3 DEF RoundsPaid, PnClasses, TSN_HIGH, UDP_LOW
        <4>5. PICK p \in active : Promise!Precedes(active, p, c)
          BY <3>1, <4>1, <4>4 DEF Promise!Precedes, PnClasses, TSN_HIGH, UDP_LOW
        <4>6. rounds[c] + Pending(c) <= rounds[p]
          BY <3>1, <3>4, <4>5 DEF RoundsPaid
        <4>7. rounds[c] < rounds[p]
          BY <4>1, <4>3, <4>6
        <4>8. QED
          BY <2>3, <3>1, <3>4, <4>5, <4>7, Zenon DEF Promise!Next, Promise!Send
      <3>5. QED
        BY <3>2, <3>3, <3>4
    <2>4. CASE UNCHANGED varsH
      BY <2>4 DEF varsH, vars
    <2>5. QED
      BY <2>1, <2>2, <2>3, <2>4 DEF NextH
  <1>3. QED
    BY <1>1, <1>2, TypeCorrect, RoundsPaidInvariant, PTL DEF SpecH, KeepsPromise, Promise!Spec
-----------------------------------------------------------------------------
(* The elements of a sequence *)

\* An element is put at the end, as on a ring.
LEMMA AppendElements ==
    ASSUME NEW S, NEW s \in Seq(S), NEW e \in S
    PROVE  /\ Append(s, e) \in Seq(S)
           /\ Elements(Append(s, e)) = Elements(s) \cup {e}
           /\ Distinct(s) /\ e \notin Elements(s) => Distinct(Append(s, e))
<1>1. Append(s, e) \in Seq(S) /\ Len(Append(s, e)) = Len(s) + 1 /\ Len(s) \in Nat
  OBVIOUS
<1>2. \A i \in 1 .. Len(s) : Append(s, e)[i] = s[i]
  OBVIOUS
<1>3. Append(s, e)[Len(s) + 1] = e
  OBVIOUS
<1>4. 1 .. Len(s) + 1 = (1 .. Len(s)) \cup {Len(s) + 1}
  BY <1>1
<1>5. Elements(Append(s, e)) = Elements(s) \cup {e}
  BY <1>1, <1>2, <1>3, <1>4 DEF Elements
<1>6. ASSUME Distinct(s), e \notin Elements(s) PROVE Distinct(Append(s, e))
  BY <1>1, <1>2, <1>3, <1>4, <1>6 DEF Elements, Distinct
<1>. QED BY <1>1, <1>5, <1>6

\* A sequence cut in two.
LEMMA SplitElements ==
    ASSUME NEW S, NEW s \in Seq(S), NEW n \in 0 .. Len(s)
    PROVE  LET a == SubSeq(s, 1, n)
               b == SubSeq(s, n + 1, Len(s))
           IN  /\ a \in Seq(S) /\ b \in Seq(S) /\ Len(a) = n /\ Len(b) = Len(s) - n
               /\ \A i \in 1 .. n : a[i] = s[i]
               /\ \A i \in 1 .. Len(b) : b[i] = s[n + i]
               /\ Elements(s) = Elements(a) \cup Elements(b)
               /\ Distinct(s) => /\ Distinct(a) /\ Distinct(b)
                                 /\ Elements(a) \cap Elements(b) = {}
<1>. DEFINE a == SubSeq(s, 1, n)
            b == SubSeq(s, n + 1, Len(s))
<1>0. Len(s) \in Nat /\ n \in Nat /\ n <= Len(s)
  OBVIOUS
<1>1. a \in Seq(S) /\ Len(a) = n /\ \A i \in 1 .. n : a[i] = s[i]
  BY <1>0
<1>2. b \in Seq(S) /\ Len(b) = Len(s) - n /\ \A i \in 1 .. Len(b) : b[i] = s[n + i]
  BY <1>0
<1>. HIDE DEF a, b
<1>3. Elements(s) \subseteq Elements(a) \cup Elements(b)
  <2>. SUFFICES ASSUME NEW i \in 1 .. Len(s) PROVE s[i] \in Elements(a) \cup Elements(b)
    BY Zenon DEF Elements
  <2>1. CASE i <= n
    BY <1>0, <1>1, <2>1 DEF Elements
  <2>2. CASE i > n
    <3>1. i - n \in 1 .. Len(b) /\ n + (i - n) = i
      BY <1>0, <1>2, <2>2
    <3>2. b[i - n] = s[i]
      BY <1>2, <3>1
    <3>. QED BY <3>1, <3>2 DEF Elements
  <2>. QED BY <1>0, <2>1, <2>2
<1>4. \A i \in 1 .. Len(b) : n + i \in 1 .. Len(s)
  BY <1>0, <1>2
<1>5. \A i \in 1 .. n : i \in 1 .. Len(s)
  BY <1>0
<1>6. Elements(a) \cup Elements(b) \subseteq Elements(s)
  <2>1. \A i \in 1 .. n : a[i] \in Elements(s)
    BY <1>1, <1>5 DEF Elements
  <2>2. \A i \in 1 .. Len(b) : b[i] \in Elements(s)
    BY <1>2, <1>4 DEF Elements
  <2>. QED BY <1>1, <2>1, <2>2, Zenon DEF Elements
<1>7. ASSUME Distinct(s)
      PROVE  Distinct(a) /\ Distinct(b) /\ Elements(a) \cap Elements(b) = {}
  <2>1. Distinct(a)
    BY <1>1, <1>5, <1>7 DEF Distinct
  <2>2. ASSUME NEW i \in 1 .. Len(b), NEW j \in 1 .. Len(b), b[i] = b[j] PROVE i = j
    <3>1. n + i = n + j
      BY <1>2, <1>4, <1>7, <2>2, Zenon DEF Distinct
    <3>. QED BY <1>0, <1>2, <3>1
  <2>3. ASSUME NEW i \in 1 .. n, NEW j \in 1 .. Len(b) PROVE a[i] # b[j]
    <3>1. i # n + j
      BY <1>0, <1>2
    <3>2. i \in 1 .. Len(s) /\ n + j \in 1 .. Len(s)
      BY <1>4, <1>5
    <3>3. s[i] # s[n + j]
      BY <1>7, <3>1, <3>2 DEF Distinct
    <3>. QED BY <1>1, <1>2, <3>3
  <2>4. Distinct(b)
    BY <2>2 DEF Distinct
  <2>5. Elements(a) \cap Elements(b) = {}
    BY <1>1, <2>3 DEF Elements
  <2>. QED BY <2>1, <2>4, <2>5
<1>8. Elements(s) = Elements(a) \cup Elements(b)
  BY <1>3, <1>6
<1>. QED BY <1>1, <1>2, <1>7, <1>8, Zenon DEF a, b

\* The first element is taken off.
LEMMA TailElements ==
    ASSUME NEW S, NEW s \in Seq(S), s # <<>>
    PROVE  /\ Head(s) \in S /\ Head(s) = s[1] /\ 1 \in 1 .. Len(s)
           /\ Tail(s) \in Seq(S) /\ Len(Tail(s)) = Len(s) - 1
           /\ \A i \in 1 .. Len(Tail(s)) : Tail(s)[i] = s[i + 1] /\ i + 1 \in 1 .. Len(s)
           /\ Elements(s) = {Head(s)} \cup Elements(Tail(s))
           /\ Distinct(s) => Distinct(Tail(s)) /\ Head(s) \notin Elements(Tail(s))
<1>1. /\ Head(s) \in S /\ Head(s) = s[1] /\ Len(s) \in Nat /\ Len(s) > 0
      /\ Tail(s) \in Seq(S) /\ Len(Tail(s)) = Len(s) - 1
      /\ \A i \in 1 .. Len(Tail(s)) : Tail(s)[i] = s[i + 1]
  OBVIOUS
<1>2. \A i \in 1 .. Len(Tail(s)) : i + 1 \in 1 .. Len(s)
  BY <1>1
<1>3. \A i \in 1 .. Len(s) : i = 1 \/ (i - 1 \in 1 .. Len(Tail(s)) /\ Tail(s)[i - 1] = s[i])
  <2>. TAKE i \in 1 .. Len(s)
  <2>1. CASE i # 1
    <3>1. i - 1 \in 1 .. Len(Tail(s)) /\ (i - 1) + 1 = i
      BY <1>1, <2>1
    <3>. QED BY <1>1, <3>1
  <2>. QED BY <2>1
<1>4. 1 \in 1 .. Len(s)
  BY <1>1
<1>5. Elements(s) = {Head(s)} \cup Elements(Tail(s))
  <2>. DEFINE h == Head(s)
              t == Tail(s)
  <2>1. /\ h = s[1]
        /\ \A i \in 1 .. Len(t) : t[i] = s[i + 1] /\ i + 1 \in 1 .. Len(s)
        /\ \A i \in 1 .. Len(s) : i = 1 \/ (i - 1 \in 1 .. Len(t) /\ t[i - 1] = s[i])
    BY <1>1, <1>2, <1>3
  <2>. HIDE DEF h, t
  <2>2. ASSUME NEW e \in Elements(t) PROVE e \in Elements(s)
    <3>1. PICK i \in 1 .. Len(t) : e = t[i]
      BY DEF Elements
    <3>. QED BY <2>1, <3>1 DEF Elements
  <2>3. ASSUME NEW e \in Elements(s), e # h PROVE e \in Elements(t)
    <3>1. PICK i \in 1 .. Len(s) : e = s[i]
      BY DEF Elements
    <3>2. i - 1 \in 1 .. Len(t) /\ t[i - 1] = e
      BY <2>1, <2>3, <3>1
    <3>. QED BY <3>2 DEF Elements
  <2>4. h \in Elements(s)
    BY <1>4, <2>1 DEF Elements
  <2>5. Elements(s) = {h} \cup Elements(t)
    BY <2>2, <2>3, <2>4
  <2>. QED BY <2>5 DEF h, t
<1>6. ASSUME Distinct(s) PROVE Distinct(Tail(s)) /\ Head(s) \notin Elements(Tail(s))
  <2>1. ASSUME NEW i \in 1 .. Len(Tail(s)), NEW j \in 1 .. Len(Tail(s)),
               Tail(s)[i] = Tail(s)[j]
        PROVE  i = j
    <3>1. i + 1 = j + 1
      BY <1>1, <1>2, <1>6, <2>1 DEF Distinct
    <3>. QED BY <3>1
  <2>2. ASSUME NEW i \in 1 .. Len(Tail(s)) PROVE Head(s) # Tail(s)[i]
    <3>1. i + 1 # 1
      OBVIOUS
    <3>. QED BY <1>1, <1>2, <1>4, <1>6, <3>1 DEF Distinct
  <2>. QED BY <2>1, <2>2, Zenon DEF Distinct, Elements
<1>. QED BY <1>1, <1>2, <1>4, <1>5, <1>6
-----------------------------------------------------------------------------
(* The message log: every buffer has one owner, the counter of lost        *)
(* messages is never too high, and the log implements LogPromise.           *)

CONSTANTS Producers, Buffers, Cached, RingCapacity, BurstCount, CurrentLevel,
          MaxMessages, None

VARIABLES pool, ring, content, held, pc, seen, issued, messages_dropped, lost, at, burst,
          written, file, stop

Log == INSTANCE Log

\* The types, who holds a buffer inside log_message(), and when the log thread
\* has one.
Places ==
  /\ Log!TypeOK /\ DOMAIN content = Buffers
  /\ \A t \in Log!Callers : held[t] # None <=> pc[t] \in {"format", "enqueue"}
  /\ at # "write" => burst = <<>> /\ written = {}
-----------------------------------------------------------------------------
(* The steps *)

\* The buffers, the callers and the counts: all but where the log thread is and stop.
data == <<pool, ring, content, held, pc, seen, issued, messages_dropped, lost, burst,
          written, file>>

\* A call of log_message() by a producer, or by the log thread when it wakes up.
Call(t) ==
  /\ \E level \in Log!Levels : Log!log_message(t, level)
  /\ at' = at \/ (at = "sleep" /\ at' = "drain")

\* A step of the log thread between its passes, or of the thread that stops it.
Elsewhere ==
  /\ UNCHANGED data /\ stop' \in {stop, TRUE}
  /\ at' = at \/ {at, at'} \subseteq {"sleep", "drain", "done"}

LEMMA StepCases ==
    ASSUME [Log!Next]_(Log!vars)
    PROVE  \/ \E t \in Log!Callers : Call(t)
           \/ \E t \in Log!Callers : Log!log_message_rest(t)
           \/ Log!log_thread_fetches \/ Log!log_thread_writes \/ Log!log_thread_puts
           \/ Elsewhere
<1>1. Producers \subseteq Log!Callers /\ Log!LogThread \in Log!Callers
      /\ Log!LOG_LEVEL_INFO \in Log!Levels
  BY DEF Log!Callers, Log!Levels, Log!LOG_LEVEL_INFO, Log!LOG_LEVEL_ERROR,
         Log!LOG_LEVEL_DEBUG
<1>2. ASSUME NEW t \in Producers, Log!Produce(t)
      PROVE  Call(t) \/ Log!log_message_rest(t)
  BY <1>2 DEF Log!Produce, Call
<1>3. CASE Log!log_thread_wakes
  <2>1. CASE Log!log_message(Log!LogThread, Log!LOG_LEVEL_INFO)
    BY <1>1, <1>3, <2>1 DEF Log!log_thread_wakes, Call
  <2>2. CASE UNCHANGED <<pool, ring, content, Log!caller, messages_dropped, lost, burst,
                         written, file, stop>>
    BY <1>3, <2>2 DEF Log!log_thread_wakes, Elsewhere, data, Log!caller
  <2>. QED BY <1>3, <2>1, <2>2 DEF Log!log_thread_wakes
<1>4. CASE Log!log_thread_flushes
  BY <1>4 DEF Log!log_thread_flushes, Elsewhere, data, Log!caller
<1>5. CASE Log!function_stop_all \/ Log!Ended \/ UNCHANGED Log!vars
  BY <1>5, Zenon DEF Log!function_stop_all, Log!Ended, Log!vars, Elsewhere, data,
                     Log!caller
<1>. QED BY <1>1, <1>2, <1>3, <1>4, <1>5 DEF Log!Next, Log!LogThreadStep

\* What a call does: nothing, take a buffer, or find none.
Takes(t, b) ==
  /\ b \in pool /\ pool' = pool \ {b}
  /\ held' = [held EXCEPT ![t] = b] /\ pc' = [pc EXCEPT ![t] = "format"]
  /\ issued' = [issued EXCEPT ![t] = @ + 1]
  /\ UNCHANGED <<seen, lost>>
FindsNone(t) ==
  /\ seen' = [seen EXCEPT ![t] = messages_dropped] /\ lost' = lost + 1
  /\ pc' = [pc EXCEPT ![t] = "count"]
  /\ issued' = [issued EXCEPT ![t] = @ + 1]
  /\ UNCHANGED <<pool, held>>

LEMMA CallCases ==
    ASSUME NEW t \in Log!Callers, Call(t)
    PROVE  /\ pc[t] = "idle" /\ (at' = at \/ (at = "sleep" /\ at' = "drain"))
           /\ UNCHANGED <<ring, content, messages_dropped, burst, written, file>>
           /\ \/ UNCHANGED <<pool, held, pc, seen, issued, lost>>
              \/ \E b \in pool : Takes(t, b)
              \/ FindsNone(t)
BY DEF Call, Log!log_message, Log!caller, Takes, FindsNone

LEMMA FetchSize ==
    ASSUME Log!LogAssumption, Places, Log!log_thread_fetches
    PROVE  \E n \in 1 .. Len(ring) :
               burst' = SubSeq(ring, 1, n) /\ ring' = SubSeq(ring, n + 1, Len(ring))
<1>. DEFINE n == Log!Smaller(Len(ring), BurstCount)
<1>1. BurstCount \in Nat \ {0} /\ ring \in Seq(Buffers) /\ ring # <<>>
  BY DEF Log!LogAssumption, Places, Log!TypeOK, Log!log_thread_fetches
<1>2. Len(ring) \in Nat /\ Len(ring) > 0
  BY <1>1
<1>3. n \in 1 .. Len(ring)
  BY <1>1, <1>2 DEF Log!Smaller
<1>. QED BY <1>3, Zenon DEF Log!log_thread_fetches

LEMMA NextKeepsPlaces ==
    ASSUME Log!LogAssumption, Places, [Log!Next]_(Log!vars)
    PROVE  Places'
<1>1. ASSUME NEW t \in Log!Callers, Call(t) PROVE Places'
  <2>1. /\ pc[t] = "idle" /\ at' \in {at, "drain"} /\ (at' # at => at = "sleep")
        /\ UNCHANGED <<ring, content, messages_dropped, burst, written, file>>
    BY <1>1, CallCases
  <2>0. None \notin Buffers
    BY DEF Log!LogAssumption
  <2>s. stop' \in BOOLEAN
    BY <1>1 DEF Call, Log!log_message, Places, Log!TypeOK
  <2>2. CASE UNCHANGED <<pool, held, pc, seen, issued, lost>>
    BY <2>1, <2>2, <2>s DEF Places, Log!TypeOK
  <2>3. ASSUME NEW b \in pool, Takes(t, b) PROVE Places'
    BY <2>0, <2>1, <2>3, <2>s DEF Places, Log!TypeOK, Takes
  <2>4. CASE FindsNone(t)
    BY <2>1, <2>4, <2>s DEF Places, Log!TypeOK, FindsNone
  <2>. QED BY <1>1, <2>2, <2>3, <2>4, CallCases
<1>2. ASSUME NEW t \in Log!Callers, Log!log_message_count(t) PROVE Places'
  BY <1>2 DEF Log!log_message_count, Places, Log!TypeOK
<1>3. ASSUME NEW t \in Log!Callers, Log!log_message_format(t) PROVE Places'
  BY <1>3 DEF Log!log_message_format, Places, Log!TypeOK
<1>4. ASSUME NEW t \in Log!Callers, Log!log_message_enqueue(t) PROVE Places'
  <2>1. held[t] \in Buffers
    BY <1>4 DEF Log!log_message_enqueue, Places, Log!TypeOK
  <2>2. pool \subseteq Buffers /\ ring \in Seq(Buffers) /\ lost \in Nat
    BY DEF Places, Log!TypeOK
  <2>3. Append(ring, held[t]) \in Seq(Buffers)
    BY <2>1, <2>2, AppendElements
  <2>4. ring' \in Seq(Buffers)
    BY <1>4, <2>2, <2>3 DEF Log!log_message_enqueue
  <2>5. pool' \subseteq Buffers /\ lost' \in Nat
    BY <1>4, <2>1, <2>2 DEF Log!log_message_enqueue
  <2>. QED BY <1>4, <2>4, <2>5 DEF Log!log_message_enqueue, Places, Log!TypeOK
<1>5. CASE Log!log_thread_fetches
  <2>1. PICK n \in 1 .. Len(ring) :
               burst' = SubSeq(ring, 1, n) /\ ring' = SubSeq(ring, n + 1, Len(ring))
    BY <1>5, FetchSize
  <2>2. ring \in Seq(Buffers) /\ n \in 0 .. Len(ring)
    BY DEF Places, Log!TypeOK
  <2>3. burst' \in Seq(Buffers) /\ ring' \in Seq(Buffers)
    BY <2>1, <2>2, SplitElements
  <2>. QED BY <1>5, <2>3 DEF Log!log_thread_fetches, Log!caller, Places, Log!TypeOK
<1>6. CASE Log!log_thread_writes
  <2>1. burst \in Seq(Buffers) /\ burst # <<>>
    BY <1>6 DEF Log!log_thread_writes, Places, Log!TypeOK
  <2>2. burst' \in Seq(Buffers) /\ Head(burst) \in Buffers
    BY <1>6, <2>1, TailElements DEF Log!log_thread_writes
  <2>. QED BY <1>6, <2>2 DEF Log!log_thread_writes, Log!caller, Places, Log!TypeOK
<1>7. CASE Log!log_thread_puts
  BY <1>7 DEF Log!log_thread_puts, Log!caller, Places, Log!TypeOK
<1>8. CASE Elsewhere
  <2>1. stop' \in BOOLEAN
    BY <1>8, Zenon DEF Elsewhere, Places, Log!TypeOK
  <2>. QED BY <1>8, <2>1 DEF Elsewhere, data, Places, Log!TypeOK
<1>. QED BY <1>1, <1>2, <1>3, <1>4, <1>5, <1>6, <1>7, <1>8,
            StepCases DEF Log!log_message_rest
-----------------------------------------------------------------------------
(* Every buffer has one owner *)

\* No two threads hold the same buffer.
HeldApart == \A t, u \in Log!Callers : held[t] = held[u] /\ held[t] # None => t = u

LEMMA OneOwnerParts ==
    Log!OneOwner <=>
        /\ pool \cup Elements(ring) \cup Elements(burst) \cup written \cup Log!Held = Buffers
        /\ pool \cap (Elements(ring) \cup Elements(burst) \cup written \cup Log!Held) = {}
        /\ Elements(ring) \cap (Elements(burst) \cup written \cup Log!Held) = {}
        /\ Elements(burst) \cap (written \cup Log!Held) = {} /\ written \cap Log!Held = {}
        /\ Distinct(ring) /\ Distinct(burst) /\ HeldApart
BY Zenon DEF Log!OneOwner, Log!InRing, Log!InBurst, Elements, Distinct, HeldApart

\* A thread that holds none takes a buffer that nobody holds.
LEMMA HeldGains ==
    ASSUME NEW t \in Log!Callers, NEW b \in Buffers, Places, None \notin Buffers,
           held[t] = None, HeldApart, b \notin Log!Held, held' = [held EXCEPT ![t] = b]
    PROVE  Log!Held' = Log!Held \cup {b} /\ HeldApart'
<1>1. DOMAIN held = Log!Callers
  BY DEF Places, Log!TypeOK
<1>2. held'[t] = b /\ (\A u \in Log!Callers \ {t} : held'[u] = held[u])
  BY <1>1
<1>3. \A u \in Log!Callers : held[u] # b
  BY DEF Log!Held
<1>4. b # None
  OBVIOUS
<1>5. Log!Held' = Log!Held \cup {b}
  <2>1. Log!Held' \subseteq Log!Held \cup {b}
    BY <1>2 DEF Log!Held
  <2>2. b \in Log!Held'
    BY <1>2, <1>4 DEF Log!Held
  <2>3. ASSUME NEW u \in Log!Callers, held[u] # None PROVE held[u] \in Log!Held'
    <3>1. u # t
      BY <2>3
    <3>. QED BY <1>2, <2>3, <3>1 DEF Log!Held
  <2>. QED BY <2>1, <2>2, <2>3 DEF Log!Held
<1>6. HeldApart'
  BY <1>2, <1>3 DEF HeldApart
<1>. QED BY <1>5, <1>6

\* A thread gives its buffer away.
LEMMA HeldLoses ==
    ASSUME NEW t \in Log!Callers, Places, held[t] # None, HeldApart,
           held' = [held EXCEPT ![t] = None]
    PROVE  Log!Held = Log!Held' \cup {held[t]} /\ held[t] \notin Log!Held' /\ HeldApart'
<1>1. DOMAIN held = Log!Callers
  BY DEF Places, Log!TypeOK
<1>2. held'[t] = None /\ (\A u \in Log!Callers \ {t} : held'[u] = held[u])
  BY <1>1
<1>3. \A u \in Log!Callers \ {t} : held[u] # held[t]
  BY DEF HeldApart
<1>4. held[t] \notin Log!Held'
  BY <1>2, <1>3 DEF Log!Held
<1>5. Log!Held = Log!Held' \cup {held[t]}
  <2>1. Log!Held' \subseteq Log!Held
    BY <1>2 DEF Log!Held
  <2>2. ASSUME NEW u \in Log!Callers,
               held[u] # None PROVE held[u] \in Log!Held' \cup {held[t]}
    BY <1>2, <2>2 DEF Log!Held
  <2>3. held[t] \in Log!Held
    BY DEF Log!Held
  <2>. QED BY <2>1, <2>2, <2>3 DEF Log!Held
<1>6. HeldApart'
  BY <1>2 DEF HeldApart
<1>. QED BY <1>4, <1>5, <1>6

LEMMA NextKeepsOneOwner ==
    ASSUME Log!LogAssumption, Places, Log!OneOwner, [Log!Next]_(Log!vars)
    PROVE  Log!OneOwner'
<1>0. None \notin Buffers /\ ring \in Seq(Buffers) /\ burst \in Seq(Buffers)
  BY DEF Log!LogAssumption, Places, Log!TypeOK
<1>a. /\ pool \cup Elements(ring) \cup Elements(burst) \cup written \cup Log!Held = Buffers
      /\ pool \cap (Elements(ring) \cup Elements(burst) \cup written \cup Log!Held) = {}
      /\ Elements(ring) \cap (Elements(burst) \cup written \cup Log!Held) = {}
      /\ Elements(burst) \cap (written \cup Log!Held) = {} /\ written \cap Log!Held = {}
      /\ Distinct(ring) /\ Distinct(burst) /\ HeldApart
  BY OneOwnerParts
<1>p. (
      /\ pool \cup Elements(ring) \cup Elements(burst) \cup written \cup Log!Held = Buffers
        /\ pool \cap (Elements(ring) \cup Elements(burst) \cup written \cup Log!Held) = {}
        /\ Elements(ring) \cap (Elements(burst) \cup written \cup Log!Held) = {}
        /\ Elements(burst) \cap (written \cup Log!Held) = {} /\ written \cap Log!Held = {}
        /\ Distinct(ring) /\ Distinct(burst) /\ HeldApart)' => Log!OneOwner'
  BY OneOwnerParts, PTL
<1>u. ASSUME UNCHANGED <<pool, ring, burst, written, held>> PROVE Log!OneOwner'
  <2>1. Log!Held' = Log!Held /\ HeldApart'
    BY <1>a, <1>u DEF Log!Held, HeldApart
  <2>. QED BY <1>a, <1>p, <1>u, <2>1
<1>1. ASSUME NEW t \in Log!Callers, Call(t) PROVE Log!OneOwner'
  <2>1. pc[t] = "idle" /\ UNCHANGED <<ring, burst, written>>
    BY <1>1, CallCases
  <2>2. held[t] = None
    BY <2>1 DEF Places
  <2>3. ASSUME NEW b \in pool, Takes(t, b) PROVE Log!OneOwner'
    <3>1. b \in Buffers /\ b \notin Log!Held
      BY <1>a
    <3>2. Log!Held' = Log!Held \cup {b} /\ HeldApart'
      BY <1>0, <1>a, <2>2, <2>3, <3>1, HeldGains, Zenon DEF Takes
    <3>3. pool' = pool \ {b}
      BY <2>3 DEF Takes
    <3>. QED BY <1>a, <1>p, <2>1, <3>2, <3>3
  <2>4. CASE FindsNone(t) \/ UNCHANGED <<pool, held>>
    BY <1>u, <2>1, <2>4 DEF FindsNone
  <2>. QED BY <1>1, <2>3, <2>4, CallCases
<1>2. ASSUME NEW t \in Log!Callers, Log!log_message_count(t) \/ Log!log_message_format(t)
      PROVE  Log!OneOwner'
  BY <1>u, <1>2 DEF Log!log_message_count, Log!log_message_format
<1>3. ASSUME NEW t \in Log!Callers, Log!log_message_enqueue(t) PROVE Log!OneOwner'
  <2>1. held[t] # None /\ held[t] \in Buffers
    BY <1>3 DEF Log!log_message_enqueue, Places, Log!TypeOK
  <2>2. Log!Held = Log!Held' \cup {held[t]} /\ held[t] \notin Log!Held' /\ HeldApart'
    BY <1>3, <1>a, <2>1, HeldLoses, Zenon DEF Log!log_message_enqueue
  <2>3. UNCHANGED <<burst, written>>
    BY <1>3 DEF Log!log_message_enqueue
  <2>4. CASE ring' = Append(ring, held[t]) /\ pool' = pool
    <3>1. Elements(ring') = Elements(ring) \cup {held[t]} /\ Distinct(ring')
      BY <1>0, <1>a, <2>1, <2>2, <2>4, AppendElements
    <3>. QED BY <1>a, <1>p, <2>2, <2>3, <2>4, <3>1
  <2>5. CASE ring' = ring /\ pool' = pool \cup {held[t]}
    BY <1>a, <1>p, <2>2, <2>3, <2>5
  <2>. QED BY <1>3, <2>4, <2>5 DEF Log!log_message_enqueue
<1>4. CASE Log!log_thread_fetches
  <2>1. PICK n \in 1 .. Len(ring) :
               burst' = SubSeq(ring, 1, n) /\ ring' = SubSeq(ring, n + 1, Len(ring))
    BY <1>4, FetchSize
  <2>2. /\ Elements(ring) = Elements(burst') \cup Elements(ring')
        /\ Distinct(burst') /\ Distinct(ring')
           /\ Elements(burst') \cap Elements(ring') = {}
    <3>1. n \in 0 .. Len(ring)
      BY <1>0
    <3>2. Distinct(ring) /\ ring \in Seq(Buffers)
      BY <1>0, <1>a
    <3>. QED BY <2>1, <3>1, <3>2, SplitElements
  <2>3. UNCHANGED <<pool, written, held>>
    BY <1>4 DEF Log!log_thread_fetches, Log!caller
  <2>4. Log!Held' = Log!Held /\ HeldApart'
    BY <1>a, <2>3 DEF Log!Held, HeldApart
  <2>5. Elements(burst) = {}
    <3>1. burst = <<>>
      BY <1>4 DEF Log!log_thread_fetches, Places
    <3>2. Elements(<<>>) = {}
      BY DEF Elements
    <3>. QED BY <3>1, <3>2, Zenon
  <2>. QED BY <1>a, <1>p, <2>2, <2>3, <2>4, <2>5
<1>5. CASE Log!log_thread_writes
  <2>1. UNCHANGED <<pool, ring, held>> /\ written' = written \cup {Head(burst)}
        /\ burst' = Tail(burst) /\ burst # <<>>
    BY <1>5 DEF Log!log_thread_writes, Log!caller
  <2>2. /\ Elements(burst) = {Head(burst)} \cup Elements(burst')
        /\ Distinct(burst') /\ Head(burst) \notin Elements(burst')
    BY <1>0, <1>a, <2>1, TailElements
  <2>3. Log!Held' = Log!Held /\ HeldApart'
    BY <1>a, <2>1 DEF Log!Held, HeldApart
  <2>. QED BY <1>a, <1>p, <2>1, <2>2, <2>3
<1>6. CASE Log!log_thread_puts
  <2>1. UNCHANGED <<ring, burst, held>> /\ pool' = pool \cup written /\ written' = {}
    BY <1>6 DEF Log!log_thread_puts, Log!caller
  <2>2. Log!Held' = Log!Held /\ HeldApart'
    BY <1>a, <2>1, Zenon DEF Log!Held, HeldApart
  <2>. QED BY <1>a, <1>p, <2>1, <2>2
<1>7. CASE Elsewhere
  BY <1>u, <1>7, Zenon DEF Elsewhere, data
<1>. QED BY <1>1, <1>2, <1>3, <1>4, <1>5, <1>6, <1>7, StepCases DEF Log!log_message_rest

LEMMA InitOwned ==
    ASSUME Log!LogAssumption, Log!Init
    PROVE  Places /\ Log!OneOwner
<1>1. pool = Buffers /\ ring = <<>> /\ burst = <<>> /\ written = {}
  BY DEF Log!Init
<1>2. Log!Held = {} /\ HeldApart
  BY DEF Log!Init, Log!Held, HeldApart
<1>3. Elements(<<>>) = {} /\ Distinct(<<>>)
  BY DEF Elements, Distinct
<1>4. Log!OneOwner
  BY <1>1, <1>2, <1>3, OneOwnerParts
<1>5. Log!TypeOK
  <2>1. stop \in BOOLEAN
    BY Zenon DEF Log!Init
  <2>. QED BY <2>1 DEF Log!Init, Log!TypeOK
<1>. QED BY <1>4, <1>5 DEF Log!Init, Places

\* Every buffer of the log has exactly one owner, for any number of threads and
\* buffers and every capacity: log_message() and the log thread never share one.
THEOREM OneOwnerHolds == Log!LogAssumption /\ Log!Spec => []Log!OneOwner
<1>. SUFFICES ASSUME Log!LogAssumption PROVE Log!Spec => []Log!OneOwner
  OBVIOUS
<1>1. Log!Init => Places /\ Log!OneOwner
  BY InitOwned
<1>2. Places /\ Log!OneOwner /\ [Log!Next]_(Log!vars) => (Places /\ Log!OneOwner)'
  BY NextKeepsPlaces, NextKeepsOneOwner
<1>. QED BY <1>1, <1>2, PTL DEF Log!Spec
-----------------------------------------------------------------------------
(* The counter of lost messages *)

\* Who has loaded messages_dropped has already lost the message it counts.
CountedAreLost ==
  /\ messages_dropped <= lost
  /\ \A t \in Log!Callers : pc[t] = "count" => seen[t] + 1 <= lost

LEMMA NextKeepsCounted ==
    ASSUME Log!LogAssumption, Places, CountedAreLost, [Log!Next]_(Log!vars)
    PROVE  CountedAreLost'
<1>0. messages_dropped \in Nat /\ lost \in Nat /\ seen \in [Log!Callers -> Nat]
      /\ pc \in [Log!Callers -> {"idle", "format", "enqueue", "count"}]
  BY DEF Places, Log!TypeOK
<1>u. ASSUME UNCHANGED <<pc, seen, messages_dropped, lost>> PROVE CountedAreLost'
  BY <1>u DEF CountedAreLost
<1>1. ASSUME NEW t \in Log!Callers, Call(t) PROVE CountedAreLost'
  <2>1. UNCHANGED messages_dropped
    BY <1>1, CallCases
  <2>2. ASSUME NEW b \in pool, Takes(t, b) PROVE CountedAreLost'
    BY <1>0, <2>1, <2>2 DEF Takes, CountedAreLost
  <2>3. CASE FindsNone(t)
    BY <1>0, <2>1, <2>3 DEF FindsNone, CountedAreLost
  <2>. QED BY <1>1, <1>u, <2>1, <2>2, <2>3, CallCases
<1>2. ASSUME NEW t \in Log!Callers, Log!log_message_rest(t) PROVE CountedAreLost'
  BY <1>0, <1>2
    DEF Log!log_message_rest, Log!log_message_count, Log!log_message_format,
        Log!log_message_enqueue,
        CountedAreLost
<1>3. CASE Log!log_thread_fetches \/ Log!log_thread_writes \/ Log!log_thread_puts
           \/ Elsewhere
  BY <1>u, <1>3, Zenon
    DEF Log!log_thread_fetches, Log!log_thread_writes, Log!log_thread_puts, Elsewhere,
        data, Log!caller
<1>. QED BY <1>1, <1>2, <1>3, StepCases

\* The counter of lost messages never exceeds the messages lost, although every
\* thread increments it without a lock.
THEOREM DropsNotOverstatedHolds ==
    Log!LogAssumption /\ Log!Spec => []Log!DropsNotOverstated
<1>. SUFFICES ASSUME Log!LogAssumption PROVE Log!Spec => []Log!DropsNotOverstated
  OBVIOUS
<1>1. Log!Init => Places /\ CountedAreLost
  <2>1. Log!Init => CountedAreLost
    BY DEF Log!Init, CountedAreLost
  <2>. QED BY <2>1, InitOwned
<1>2. Places /\ CountedAreLost /\ [Log!Next]_(Log!vars) => (Places /\ CountedAreLost)'
  BY NextKeepsPlaces, NextKeepsCounted
<1>3. CountedAreLost => Log!DropsNotOverstated
  BY DEF CountedAreLost, Log!DropsNotOverstated
<1>. QED BY <1>1, <1>2, <1>3, PTL DEF Log!Spec
-----------------------------------------------------------------------------
(* The log implements LogPromise *)

Messages == Log!Callers \X Nat
Queued == Elements(ring) \cup Elements(burst)
Lines == Elements(file)
Before(x, y) == x[1] = y[1] => x[2] < y[2]

\* What is queued or written was issued.
WasIssued ==
  /\ file \in Seq(Messages)
  /\ \A b \in Queued : content[b] \in Messages /\ content[b][2] >= 1
                       /\ content[b][2] <= issued[content[b][1]]
  /\ \A m \in Lines : m[2] <= issued[m[1]]

\* The messages of a thread are in order: in the file, in the burst, on the ring.
Ordered ==
  /\ \A m \in Lines : \A b \in Queued : Before(m, content[b])
  /\ \A b \in Elements(burst) : \A c \in Elements(ring) : Before(content[b], content[c])
  /\ \A i, j \in 1 .. Len(burst) : i < j => Before(content[burst[i]], content[burst[j]])
  /\ \A i, j \in 1 .. Len(ring) : i < j => Before(content[ring[i]], content[ring[j]])

\* The message a thread is about to put on the ring is later than all its others.
NewIsLast ==
  \A t \in Log!Callers :
    /\ pc[t] \in {"format", "enqueue"} =>
         /\ issued[t] >= 1
         /\ \A m \in Lines : m[1] = t => m[2] < issued[t]
         /\ \A b \in Queued : content[b][1] = t => content[b][2] < issued[t]
    /\ pc[t] = "enqueue" => content[held[t]] = <<t, issued[t]>>

Order == WasIssued /\ Ordered /\ NewIsLast

LEMMA NothingMoves ==
    ASSUME Order, UNCHANGED <<content, ring, burst, issued, file, pc, held>>
    PROVE  Order'
<1>1. Queued' = Queued /\ Lines' = Lines /\ Elements(burst') = Elements(burst)
      /\ Elements(ring') = Elements(ring)
  BY DEF Queued, Lines
<1>2. WasIssued' /\ Ordered'
  BY <1>1, Zenon DEF Order, WasIssued, Ordered
<1>3. NewIsLast'
  BY <1>1 DEF Order, NewIsLast
<1>. QED BY <1>2, <1>3 DEF Order

\* A thread issues a message: it is later than all of its messages so far.
LEMMA CallKeepsOrder ==
    ASSUME Places, Order, NEW t \in Log!Callers, issued' = [issued EXCEPT ![t] = @ + 1],
           UNCHANGED <<content, ring, burst, file>>,
           \A u \in Log!Callers \ {t} : pc'[u] = pc[u] /\ held'[u] = held[u],
           pc'[t] # "enqueue"
    PROVE  Order'
<1>1. Queued' = Queued /\ Lines' = Lines /\ Elements(burst') = Elements(burst)
      /\ Elements(ring') = Elements(ring)
  BY DEF Queued, Lines
<1>2. issued \in [Log!Callers -> Nat]
  BY DEF Places, Log!TypeOK
<1>3. issued'[t] = issued[t] + 1 /\ issued[t] \in Nat
  BY <1>2
<1>4. \A u \in Log!Callers : issued[u] <= issued'[u] /\ issued[u] \in Nat
      /\ issued'[u] \in Nat
  BY <1>2
<1>5. \A m \in Lines : m[1] \in Log!Callers /\ m[2] \in Nat
  BY DEF Order, WasIssued, Lines, Elements, Messages
<1>6. \A b \in Queued : content[b][1] \in Log!Callers /\ content[b][2] \in Nat
  BY DEF Order, WasIssued, Messages
<1>7. WasIssued'
  <2>1. ASSUME NEW m \in Lines PROVE m[2] <= issued'[m[1]]
    <3>1. m[2] <= issued[m[1]] /\ m[1] \in Log!Callers /\ m[2] \in Nat
      BY <1>5 DEF Order, WasIssued
    <3>. QED BY <1>4, <3>1
  <2>2. ASSUME NEW b \in Queued PROVE content[b][2] <= issued'[content[b][1]]
    <3>1. content[b][2] <= issued[content[b][1]]
      BY DEF Order, WasIssued
    <3>. QED BY <1>4, <1>6, <3>1
  <2>. QED BY <1>1, <2>1, <2>2 DEF Order, WasIssued
<1>8. Ordered'
  BY <1>1, Zenon DEF Order, Ordered
<1>9. NewIsLast'
  <2>1. \A m \in Lines : m[1] = t => m[2] < issued'[t]
    BY <1>3, <1>5 DEF Order, WasIssued
  <2>2. \A b \in Queued : content[b][1] = t => content[b][2] < issued'[t]
    BY <1>3, <1>6 DEF Order, WasIssued
  <2>3. \A u \in Log!Callers \ {t} : issued'[u] = issued[u]
    BY <1>2
  <2>4. ASSUME NEW u \in Log!Callers \ {t}, pc'[u] \in {"format", "enqueue"}
        PROVE  /\ issued'[u] >= 1
               /\ \A m \in Lines : m[1] = u => m[2] < issued'[u]
               /\ \A b \in Queued : content[b][1] = u => content[b][2] < issued'[u]
               /\ pc'[u] = "enqueue" => content[held'[u]] = <<u, issued'[u]>>
    BY <2>3, <2>4 DEF Order, NewIsLast
  <2>5. issued'[t] >= 1
    BY <1>3
  <2>. QED BY <1>1, <2>1, <2>2, <2>4, <2>5, Zenon DEF NewIsLast
<1>. QED BY <1>7, <1>8, <1>9, Zenon DEF Order

\* A thread formats its message: into a buffer that is nobody else's.
LEMMA FormatKeepsOrder ==
    ASSUME Log!LogAssumption, Places, Log!OneOwner, Order, NEW t \in Log!Callers,
           Log!log_message_format(t)
    PROVE  Order'
<1>1. Queued' = Queued /\ Lines' = Lines /\ Elements(burst') = Elements(burst)
      /\ Elements(ring') = Elements(ring) /\ UNCHANGED <<ring, burst, file, issued, held>>
  BY DEF Queued, Lines, Log!log_message_format
<1>2. held[t] # None /\ held[t] \in Buffers /\ pc[t] = "format"
  BY DEF Log!log_message_format, Places, Log!TypeOK
<1>3. held[t] \in Log!Held
  BY <1>2 DEF Log!Held
<1>4. held[t] \notin Queued
  BY <1>3, OneOwnerParts DEF Queued
<1>5. content' = [content EXCEPT ![held[t]] = <<t, issued[t]>>]
      /\ DOMAIN content = Buffers
  BY Zenon DEF Log!log_message_format, Places
<1>6. \A b \in Queued : content'[b] = content[b]
  BY <1>4, <1>5
<1>7. content'[held[t]] = <<t, issued[t]>>
  BY <1>2, <1>5
<1>8. WasIssued'
  BY <1>1, <1>6, Zenon DEF Order, WasIssued
<1>9. Ordered'
  <2>1. \A i \in 1 .. Len(burst) : burst[i] \in Queued
    BY DEF Queued, Elements
  <2>2. \A i \in 1 .. Len(ring) : ring[i] \in Queued
    BY DEF Queued, Elements
  <2>3. Elements(burst) \subseteq Queued /\ Elements(ring) \subseteq Queued
    BY DEF Queued
  <2>. QED BY <1>1, <1>6, <2>1, <2>2, <2>3, Zenon DEF Order, Ordered
<1>10. NewIsLast'
  <2>1. pc' = [pc EXCEPT ![t] = "enqueue"] /\ DOMAIN pc = Log!Callers
    BY DEF Log!log_message_format, Places, Log!TypeOK
  <2>2. \A u \in Log!Callers \ {t} : pc'[u] = pc[u]
    BY <2>1
  <2>3. ASSUME NEW u \in Log!Callers \ {t},
               pc[u] = "enqueue" PROVE content'[held[u]] = content[held[u]]
    <3>1. held[u] # None
      BY <2>3 DEF Places
    <3>2. held[u] # held[t]
      BY <1>2, <3>1, OneOwnerParts DEF HeldApart
    <3>. QED BY <1>5, <3>2
  <2>4. ASSUME NEW u \in Log!Callers, pc'[u] \in {"format", "enqueue"}
        PROVE  /\ issued[u] >= 1
               /\ \A m \in Lines : m[1] = u => m[2] < issued[u]
               /\ \A b \in Queued : content[b][1] = u => content[b][2] < issued[u]
    BY <1>2, <2>2, <2>4 DEF Order, NewIsLast
  <2>5. ASSUME NEW u \in Log!Callers, pc'[u] = "enqueue" PROVE content'[held[u]] = <<u,
               issued[u]>>
    BY <1>7, <2>2, <2>3, <2>5 DEF Order, NewIsLast
  <2>. QED BY <1>1, <1>6, <2>4, <2>5 DEF NewIsLast
<1>. QED BY <1>8, <1>9, <1>10 DEF Order

\* A thread puts its message on the ring, behind all its others, or gives it up.
LEMMA EnqueueKeepsOrder ==
    ASSUME Log!LogAssumption, Places, Order, NEW t \in Log!Callers,
           Log!log_message_enqueue(t)
    PROVE  Order'
<1>1. UNCHANGED <<burst, file, issued, content>> /\ pc[t] = "enqueue"
  BY DEF Log!log_message_enqueue
<1>2. Lines' = Lines /\ Elements(burst') = Elements(burst)
  BY <1>1 DEF Lines
<1>3. held[t] \in Buffers /\ ring \in Seq(Buffers) /\ issued[t] \in Nat
  BY <1>1 DEF Places, Log!TypeOK
<1>4. /\ content[held[t]] = <<t, issued[t]>> /\ issued[t] >= 1
      /\ \A m \in Lines : m[1] = t => m[2] < issued[t]
      /\ \A b \in Queued : content[b][1] = t => content[b][2] < issued[t]
  BY <1>1 DEF Order, NewIsLast
<1>5. Queued' \subseteq Queued \cup {held[t]}
  <2>1. Elements(Append(ring, held[t])) = Elements(ring) \cup {held[t]}
    BY <1>3, AppendElements
  <2>. QED BY <1>2, <2>1, Zenon DEF Log!log_message_enqueue, Queued
<1>6. /\ content[held[t]][1] = t /\ content[held[t]][2] = issued[t]
      /\ content[held[t]] \in Messages
  BY <1>3, <1>4 DEF Messages
<1>7. WasIssued'
  <2>1. /\ file \in Seq(Messages) /\ \A m \in Lines : m[2] <= issued[m[1]]
        /\ \A b \in Queued : content[b] \in Messages /\ content[b][2] >= 1
                             /\ content[b][2] <= issued[content[b][1]]
    BY Zenon DEF Order, WasIssued
  <2>2. content[held[t]][2] >= 1 /\ content[held[t]][2] <= issued[content[held[t]][1]]
    BY <1>3, <1>4, <1>6
  <2>3. \A b \in Queued' : content[b] \in Messages /\ content[b][2] >= 1
                            /\ content[b][2] <= issued[content[b][1]]
    BY <1>5, <1>6, <2>1, <2>2, Zenon
  <2>. QED BY <1>1, <1>2, <2>1, <2>3, Zenon DEF WasIssued
<1>8. \A b \in Queued : Before(content[b], content[held[t]])
  BY <1>4, <1>6, Zenon DEF Before
<1>9. \A m \in Lines : Before(m, content[held[t]])
  BY <1>4, <1>6 DEF Before
<1>10. Ordered'
  <2>1. \A m \in Lines : \A b \in Queued' : Before(m, content[b])
    BY <1>5, <1>9 DEF Order, Ordered
  <2>2. CASE ring' = ring
    BY <1>1, <1>2, <2>1, <2>2, Zenon DEF Order, Ordered
  <2>3. CASE ring' = Append(ring, held[t])
    <3>1. Elements(ring') = Elements(ring) \cup {held[t]}
      BY <1>3, <2>3, AppendElements
    <3>2. ASSUME NEW b \in Elements(burst), NEW c \in Elements(ring')
          PROVE  Before(content[b], content[c])
      <4>1. b \in Queued
        BY DEF Queued
      <4>. QED BY <1>8, <3>1, <4>1, Zenon DEF Order, Ordered
    <3>3. Len(ring') = Len(ring) + 1 /\ Len(ring) \in Nat
          /\ ring'[Len(ring) + 1] = held[t]
          /\ \A i \in 1 .. Len(ring) : ring'[i] = ring[i]
      BY <1>3, <2>3
    <3>4. ASSUME NEW i \in 1 .. Len(ring'), NEW j \in 1 .. Len(ring'), i < j
          PROVE  Before(content[ring'[i]], content[ring'[j]])
      <4>1. i \in 1 .. Len(ring)
        BY <3>3, <3>4
      <4>2. CASE j = Len(ring) + 1
        <5>1. ring'[i] \in Queued
          BY <3>3, <4>1 DEF Queued, Elements
        <5>. QED BY <1>8, <3>3, <4>2, <5>1
      <4>3. CASE j \in 1 .. Len(ring)
        <5>1. ring'[i] = ring[i] /\ ring'[j] = ring[j]
          BY <3>3, <4>1, <4>3
        <5>. QED BY <3>4, <4>1, <4>3, <5>1 DEF Order, Ordered
      <4>. QED BY <3>3, <4>2, <4>3
    <3>. QED BY <1>1, <1>2, <2>1, <3>2, <3>4, Zenon DEF Order, Ordered
  <2>. QED BY <2>2, <2>3 DEF Log!log_message_enqueue
<1>11. NewIsLast'
  <2>1. /\ pc' = [pc EXCEPT ![t] = "idle"] /\ DOMAIN pc = Log!Callers
        /\ held' = [held EXCEPT ![t] = None] /\ DOMAIN held = Log!Callers
    BY DEF Log!log_message_enqueue, Places, Log!TypeOK
  <2>2. pc'[t] = "idle" /\ \A u \in Log!Callers \ {t} : pc'[u] = pc[u]
        /\ held'[u] = held[u]
    BY <2>1
  <2>3. ASSUME NEW u \in Log!Callers \ {t}, pc'[u] \in {"format", "enqueue"}
        PROVE  /\ issued[u] >= 1
               /\ \A m \in Lines : m[1] = u => m[2] < issued[u]
               /\ \A b \in Queued' : content[b][1] = u => content[b][2] < issued[u]
               /\ pc'[u] = "enqueue" => content[held'[u]] = <<u, issued[u]>>
    <3>1. \A b \in Queued' : content[b][1] = u => b \in Queued
      BY <1>5, <1>6
    <3>. QED BY <2>2, <2>3, <3>1 DEF Order, NewIsLast
  <2>. QED BY <1>1, <1>2, <2>2, <2>3, Zenon DEF NewIsLast
<1>. QED BY <1>7, <1>10, <1>11 DEF Order

\* The log thread takes a burst: the first part of the ring.
LEMMA FetchKeepsOrder ==
    ASSUME Log!LogAssumption, Places, Order, Log!log_thread_fetches
    PROVE  Order'
<1>1. PICK n \in 1 .. Len(ring) :
               burst' = SubSeq(ring, 1, n) /\ ring' = SubSeq(ring, n + 1, Len(ring))
  BY FetchSize
<1>2. ring \in Seq(Buffers) /\ n \in 0 .. Len(ring) /\ n \in Nat
  BY DEF Places, Log!TypeOK
<1>3. Len(burst') = n /\ Len(ring') = Len(ring) - n /\ Len(ring) \in Nat
  BY <1>1, <1>2, SplitElements
<1>4. \A i \in 1 .. n : burst'[i] = ring[i]
  BY <1>1, <1>2, SplitElements
<1>5. \A i \in 1 .. Len(ring') : ring'[i] = ring[n + i]
  BY <1>1, <1>2, SplitElements
<1>6. Elements(ring) = Elements(burst') \cup Elements(ring')
  BY <1>1, <1>2, SplitElements
<1>7. UNCHANGED <<content, file, issued, pc, held>>
  BY DEF Log!log_thread_fetches, Log!caller
<1>8. Elements(burst) = {}
  BY DEF Log!log_thread_fetches, Places, Elements
<1>9. Queued' = Queued /\ Lines' = Lines
  BY <1>6, <1>7, <1>8 DEF Queued, Lines
<1>10. WasIssued' /\ NewIsLast'
  BY <1>7, <1>9 DEF Order, WasIssued, NewIsLast
<1>11. \A i, j \in 1 .. Len(ring) : i < j => Before(content[ring[i]], content[ring[j]])
  BY Zenon DEF Order, Ordered
<1>12. ASSUME NEW i \in 1 .. n, NEW j \in 1 .. n, i < j
       PROVE  Before(content[burst'[i]], content[burst'[j]])
  <2>1. i \in 1 .. Len(ring) /\ j \in 1 .. Len(ring)
    BY <1>2, <1>3
  <2>. QED BY <1>4, <1>11, <1>12, <2>1
<1>13. \A i \in 1 .. Len(ring') : n + i \in 1 .. Len(ring)
  BY <1>2, <1>3
<1>14. ASSUME NEW i \in 1 .. Len(ring'), NEW j \in 1 .. Len(ring'), i < j
       PROVE  Before(content[ring'[i]], content[ring'[j]])
  <2>1. n + i < n + j
    BY <1>2, <1>3, <1>14
  <2>. QED BY <1>5, <1>11, <1>13, <2>1, Zenon
<1>15. ASSUME NEW i \in 1 .. n, NEW j \in 1 .. Len(ring')
       PROVE  Before(content[burst'[i]], content[ring'[j]])
  <2>1. i \in 1 .. Len(ring) /\ i < n + j
    BY <1>2, <1>3
  <2>. QED BY <1>4, <1>5, <1>11, <1>13, <2>1, Zenon
<1>16. \A b \in Elements(burst') : \A c \in Elements(ring') : Before(content[b],
       content[c])
  BY <1>3, <1>15 DEF Elements
<1>17. Ordered'
  <2>1. \A m \in Lines : \A b \in Queued : Before(m, content[b])
    BY Zenon DEF Order, Ordered
  <2>. QED BY <1>3, <1>7, <1>9, <1>12, <1>14, <1>16, <2>1, Zenon DEF Ordered
<1>. QED BY <1>10, <1>17 DEF Order

\* The log thread writes the first message of its burst.
LEMMA WriteKeepsOrder ==
    ASSUME Log!LogAssumption, Places, Order, Log!log_thread_writes
    PROVE  Order'
<1>1. UNCHANGED <<content, ring, issued, pc, held>> /\ burst # <<>>
      /\ burst' = Tail(burst)
      /\ file' = Append(file, content[Head(burst)])
  BY DEF Log!log_thread_writes, Log!caller
<1>2. burst \in Seq(Buffers) /\ file \in Seq(Messages)
  BY DEF Places, Log!TypeOK, Order, WasIssued
<1>3. /\ Head(burst) = burst[1] /\ 1 \in 1 .. Len(burst) /\ Len(burst') = Len(burst) - 1
      /\ \A i \in 1 .. Len(burst') : burst'[i] = burst[i + 1] /\ i + 1 \in 1 .. Len(burst)
      /\ Elements(burst) = {Head(burst)} \cup Elements(burst')
  BY <1>1, <1>2, TailElements
<1>4. Head(burst) \in Queued /\ Queued = Queued' \cup {Head(burst)}
  BY <1>1, <1>3 DEF Queued
<1>5. content[Head(burst)] \in Messages
      /\ content[Head(burst)][2] <= issued[content[Head(burst)][1]]
  BY <1>4 DEF Order, WasIssued
<1>6. file' \in Seq(Messages) /\ Lines' = Lines \cup {content[Head(burst)]}
  BY <1>1, <1>2, <1>5, AppendElements DEF Lines
<1>7. WasIssued'
  BY <1>1, <1>4, <1>5, <1>6 DEF Order, WasIssued
<1>8. ASSUME NEW i \in 1 .. Len(burst') PROVE Before(content[Head(burst)],
             content[burst'[i]])
  <2>1. 1 < i + 1 /\ i + 1 \in 1 .. Len(burst) /\ burst'[i] = burst[i + 1]
    BY <1>3
  <2>. QED BY <1>3, <2>1 DEF Order, Ordered
<1>9. \A c \in Elements(ring) : Before(content[Head(burst)], content[c])
  <2>1. Head(burst) \in Elements(burst)
    BY <1>3
  <2>. QED BY <2>1 DEF Order, Ordered
<1>10. \A b \in Queued' : Before(content[Head(burst)], content[b])
  <2>1. \A b \in Elements(burst') : Before(content[Head(burst)], content[b])
    BY <1>8 DEF Elements
  <2>. QED BY <1>1, <1>9, <2>1 DEF Queued
<1>11. Ordered'
  <2>1. \A m \in Lines' : \A b \in Queued' : Before(m, content[b])
    BY <1>4, <1>6, <1>10 DEF Order, Ordered
  <2>2. \A b \in Elements(burst') : \A c \in Elements(ring) : Before(content[b],
        content[c])
    BY <1>3 DEF Order, Ordered
  <2>3. ASSUME NEW i \in 1 .. Len(burst'), NEW j \in 1 .. Len(burst'), i < j
        PROVE  Before(content[burst'[i]], content[burst'[j]])
    <3>1. i + 1 < j + 1
      BY <2>3
    <3>. QED BY <1>3, <3>1 DEF Order, Ordered
  <2>4. \A i, j \in 1 .. Len(ring) : i < j => Before(content[ring[i]], content[ring[j]])
    BY DEF Order, Ordered
  <2>. QED BY <1>1, <2>1, <2>2, <2>3, <2>4, Zenon DEF Ordered
<1>12. NewIsLast'
  <2>1. ASSUME NEW t \in Log!Callers, pc[t] \in {"format", "enqueue"}, NEW m \in Lines',
               m[1] = t
        PROVE  m[2] < issued[t]
    BY <1>4, <1>6, <2>1 DEF Order, NewIsLast
  <2>. QED BY <1>1, <1>4, <2>1, Zenon DEF Order, NewIsLast
<1>. QED BY <1>7, <1>11, <1>12 DEF Order

\* Every step keeps the order and is a step of LogPromise, or none.
LEMMA NextKeepsOrder ==
    ASSUME Log!LogAssumption, Places, Log!OneOwner, Order, [Log!Next]_(Log!vars)
    PROVE  Order' /\ [Log!Promise!Next]_<<issued, file>>
<1>1. ASSUME NEW t \in Log!Callers, Call(t) PROVE Order' /\ [Log!Promise!Next]_<<issued,
             file>>
  <2>1. UNCHANGED <<ring, content, burst, file>>
    BY <1>1, CallCases
  <2>2. DOMAIN pc = Log!Callers /\ DOMAIN held = Log!Callers
    BY DEF Places, Log!TypeOK
  <2>3. CASE UNCHANGED <<pool, held, pc, seen, issued, lost>>
    BY <2>1, <2>3, NothingMoves
  <2>4. CASE FindsNone(t) \/ \E b \in pool : Takes(t, b)
    <3>1. issued' = [issued EXCEPT ![t] = @ + 1]
      BY <2>4 DEF FindsNone, Takes
    <3>2. \A u \in Log!Callers \ {t} : pc'[u] = pc[u] /\ held'[u] = held[u]
      BY <2>2, <2>4 DEF FindsNone, Takes
    <3>3. pc'[t] # "enqueue"
      BY <2>2, <2>4 DEF FindsNone, Takes
    <3>4. Order'
      BY <2>1, <3>1, <3>2, <3>3, CallKeepsOrder, Zenon
    <3>5. Log!Promise!Log(t)
      BY <2>1, <3>1 DEF Log!Promise!Log
    <3>. QED BY <3>4, <3>5 DEF Log!Promise!Next
  <2>. QED BY <1>1, <2>3, <2>4, CallCases
<1>2. ASSUME NEW t \in Log!Callers, Log!log_message_count(t)
      PROVE  Order' /\ [Log!Promise!Next]_<<issued, file>>
  <2>1. UNCHANGED <<content, ring, burst, issued, file, held>>
    BY <1>2 DEF Log!log_message_count
  <2>2. pc' = [pc EXCEPT ![t] = "idle"] /\ DOMAIN pc = Log!Callers
    BY <1>2 DEF Log!log_message_count, Places, Log!TypeOK
  <2>3. \A u \in Log!Callers : pc'[u] \in {"format", "enqueue"} => pc'[u] = pc[u]
    BY <2>2
  <2>4. Queued' = Queued /\ Lines' = Lines /\ Elements(burst') = Elements(burst)
        /\ Elements(ring') = Elements(ring)
    BY <2>1 DEF Queued, Lines
  <2>5. WasIssued' /\ Ordered'
    BY <2>1, <2>4, Zenon DEF Order, WasIssued, Ordered
  <2>6. NewIsLast'
    BY <2>1, <2>3, <2>4 DEF Order, NewIsLast
  <2>. QED BY <2>1, <2>5, <2>6 DEF Order
<1>3. ASSUME NEW t \in Log!Callers, Log!log_message_format(t)
      PROVE  Order' /\ [Log!Promise!Next]_<<issued, file>>
  <2>1. UNCHANGED <<issued, file>>
    BY <1>3, Zenon DEF Log!log_message_format
  <2>. QED BY <1>3, <2>1, FormatKeepsOrder
<1>4. ASSUME NEW t \in Log!Callers, Log!log_message_enqueue(t)
      PROVE  Order' /\ [Log!Promise!Next]_<<issued, file>>
  <2>1. UNCHANGED <<issued, file>>
    BY <1>4 DEF Log!log_message_enqueue
  <2>. QED BY <1>4, <2>1, EnqueueKeepsOrder
<1>5. CASE Log!log_thread_fetches
  <2>1. UNCHANGED <<issued, file>>
    BY <1>5 DEF Log!log_thread_fetches, Log!caller
  <2>. QED BY <1>5, <2>1, FetchKeepsOrder
<1>6. CASE Log!log_thread_writes
  <2>. DEFINE m == content[Head(burst)]
  <2>1. file' = Append(file, m) /\ issued' = issued /\ burst # <<>>
    BY <1>6 DEF Log!log_thread_writes, Log!caller
  <2>2. burst \in Seq(Buffers)
    BY DEF Places, Log!TypeOK
  <2>3. Head(burst) \in Queued
    BY <2>1, <2>2, TailElements DEF Queued
  <2>4. m \in Messages /\ m[2] >= 1 /\ m[2] <= issued[m[1]]
    BY <2>3 DEF Order, WasIssued
  <2>5. \A l \in Lines : Before(l, m)
    BY <2>3 DEF Order, Ordered
  <2>. HIDE DEF m
  <2>6. m[1] \in Log!Callers /\ m[2] \in Nat /\ m = <<m[1], m[2]>>
    BY <2>4 DEF Messages
  <2>7. issued[m[1]] \in Nat
    BY <2>6 DEF Places, Log!TypeOK
  <2>8. m[2] \in 1 .. issued[m[1]]
    BY <2>4, <2>6, <2>7
  <2>9. \A i \in 1 .. Len(file) : file[i][1] = m[1] => file[i][2] < m[2]
    BY <2>5 DEF Lines, Elements, Before
  <2>10. file' = Append(file, <<m[1], m[2]>>)
    BY <2>1, <2>6
  <2>11. Log!Promise!Write(m[1])
    BY <2>1, <2>8, <2>9, <2>10 DEF Log!Promise!Write
  <2>12. Log!Promise!Next
    BY <2>6, <2>11 DEF Log!Promise!Next
  <2>. QED BY <1>6, <2>12, WriteKeepsOrder
<1>7. CASE Log!log_thread_puts \/ Elsewhere
  <2>1. UNCHANGED <<content, ring, burst, issued, file, pc, held>>
    BY <1>7, Zenon DEF Log!log_thread_puts, Elsewhere, data, Log!caller
  <2>. QED BY <2>1, NothingMoves
<1>. QED BY <1>1, <1>2, <1>3, <1>4, <1>5, <1>6, <1>7, StepCases DEF Log!log_message_rest

\* The log implements what LogPromise says of it, for any number of threads and
\* buffers: whatever they interleave, a line is a message that was logged, none is
\* written twice, and those of one thread are in order.
THEOREM KeepsPromiseHolds == Log!LogAssumption /\ Log!Spec => Log!KeepsPromise
<1>. SUFFICES ASSUME Log!LogAssumption PROVE Log!Spec => Log!KeepsPromise
  OBVIOUS
<1>1. Log!Init => Places /\ Log!OneOwner /\ Order /\ Log!Promise!Init
  <2>. SUFFICES ASSUME Log!Init PROVE Order /\ Log!Promise!Init
    BY InitOwned
  <2>1. Elements(ring) = {} /\ Elements(burst) = {} /\ Elements(file) = {}
    BY DEF Log!Init, Elements
  <2>2. WasIssued
    BY <2>1 DEF Log!Init, WasIssued, Queued, Lines
  <2>3. Ordered
    BY <2>1 DEF Log!Init, Ordered, Queued, Lines
  <2>4. NewIsLast
    BY DEF Log!Init, NewIsLast
  <2>5. Log!Promise!Init
    BY DEF Log!Init, Log!Promise!Init
  <2>. QED BY <2>2, <2>3, <2>4, <2>5 DEF Order
<1>2. Places /\ Log!OneOwner /\ Order /\ [Log!Next]_(Log!vars)
      => (Places /\ Log!OneOwner /\ Order)' /\ [Log!Promise!Next]_(Log!Promise!promise)
  <2>1. Log!Promise!promise = <<issued, file>>
    BY DEF Log!Promise!promise
  <2>. QED BY <2>1, NextKeepsPlaces, NextKeepsOneOwner,
              NextKeepsOrder DEF Log!Promise!promise
<1>. QED BY <1>1, <1>2, PTL DEF Log!Spec, Log!KeepsPromise, Log!Promise!Spec
-----------------------------------------------------------------------------
(* The launch time test: the bursts keep their schedule, and the pool never *)
(* runs dry if it covers the Tx queue and a burst.                          *)

CONSTANTS Burst, Interval, Offset, Pool, TxRing, Stamped, MaxTime, MaxResets, MaxLoss

VARIABLES running, now, first_begin, tx_begin, bursts, pending, txq, rxq, free, prev_rx,
          current, tested, samples, arrived, polled, resets

Launch == INSTANCE LaunchTime

\* OnSchedule, with what the steps need to keep it: no burst is sent before the
\* link is up.
Schedule ==
  /\ now \in Int /\ first_begin \in Int /\ tx_begin \in Int /\ bursts \in Seq(Int)
  /\ pc = "link" => bursts = <<>>
  /\ Launch!OnSchedule

Packets == [burst : Nat, index : Nat]

\* Every mbuf is free, in the burst being sent or on the Tx queue, and there is
\* a burst being sent inside send_packets() only.
Mbufs ==
  /\ free \in Nat /\ pending \in Seq(Packets) /\ txq \in Seq(Packets)
  /\ bursts \in Seq(Int) /\ now \in Int
  /\ free + Len(pending) + Len(txq) = Pool
  /\ Len(txq) <= TxRing
  /\ pc # "send" => pending = <<>>
  /\ Launch!NeverExits
-----------------------------------------------------------------------------
(* The schedule *)

LEMMA NextMultiple ==
    ASSUME NEW n \in Int, NEW i \in Int
    PROVE  (n + 1) * i = n * i + i
OBVIOUS

LEMMA BurstKeepsSchedule ==
    ASSUME Launch!LaunchTimeAssumption, Schedule, Launch!tx_timestamping
    PROVE  Schedule'
<1>1. Interval \in Int /\ Offset \in Int /\ Burst \in Nat
  BY DEF Launch!LaunchTimeAssumption
<1>2. /\ now' = now /\ first_begin' = first_begin /\ tx_begin' = tx_begin + Interval
      /\ pc = "loop" /\ now >= tx_begin - Offset
  BY DEF Launch!tx_timestamping
<1>3. tx_begin = first_begin + Len(bursts) * Interval
  BY <1>2 DEF Schedule, Launch!OnSchedule
<1>4. CASE pc' = "exit" /\ bursts' = bursts
  BY <1>1, <1>2, <1>4 DEF Schedule, Launch!OnSchedule
<1>5. CASE pc' = "send" /\ bursts' = Append(bursts, now)
  <2>1. Len(bursts) \in Nat /\ bursts \in Seq(Int) /\ now \in Int /\ first_begin \in Int
    BY DEF Schedule
  <2>2. bursts' \in Seq(Int) /\ Len(bursts') = Len(bursts) + 1
    BY <1>5, <2>1
  <2>3. tx_begin' = first_begin' + Len(bursts') * Interval
    BY <1>1, <1>2, <1>3, <2>1, <2>2, NextMultiple
  <2>4. ASSUME NEW k \in DOMAIN bursts'
        PROVE  bursts'[k] >= first_begin' + (k - 1) * Interval - Offset
    <3>1. CASE k \in DOMAIN bursts
      <4>1. bursts'[k] = bursts[k]
        BY <1>5, <2>1, <3>1
      <4>. QED BY <1>2, <3>1, <4>1 DEF Schedule, Launch!OnSchedule
    <3>2. CASE k = Len(bursts) + 1
      <4>1. bursts'[k] = now /\ k - 1 = Len(bursts)
        BY <1>5, <2>1, <3>2
      <4>2. now >= first_begin + Len(bursts) * Interval - Offset
        BY <1>1, <1>2, <1>3, <2>1
      <4>3. (k - 1) * Interval = Len(bursts) * Interval
        BY <4>1
      <4>. QED BY <1>2, <4>1, <4>2, <4>3
    <3>. QED BY <2>1, <2>2, <2>4, <3>1, <3>2
  <2>5. tx_begin' \in Int
    BY <1>1, <1>2 DEF Schedule
  <2>. QED BY <1>2, <1>5, <2>1, <2>2, <2>3, <2>4, <2>5 DEF Schedule, Launch!OnSchedule
<1>. QED BY <1>4, <1>5 DEF Launch!tx_timestamping

LEMMA NextKeepsSchedule ==
    ASSUME Launch!LaunchTimeAssumption, Schedule, [Launch!Next]_(Launch!launchVars)
    PROVE  Schedule'
<1>0. Interval \in Int
  BY DEF Launch!LaunchTimeAssumption
<1>1. CASE Launch!rxtx_starts
  <2>1. /\ now' = now /\ bursts' = <<>> /\ first_begin' = now + Interval
        /\ tx_begin' = now + Interval /\ pc' = "loop"
    BY <1>1 DEF Launch!rxtx_starts, Schedule
  <2>2. Len(bursts') = 0 /\ DOMAIN bursts' = {} /\ bursts' \in Seq(Int)
    BY <2>1
  <2>3. Len(bursts') * Interval = 0
    BY <1>0, <2>2
  <2>. QED BY <1>0, <2>1, <2>2, <2>3 DEF Schedule, Launch!OnSchedule
<1>2. CASE Launch!tx_timestamping
  BY <1>2, BurstKeepsSchedule
<1>3. CASE Launch!tick
  <2>1. now' = now + 1 /\ UNCHANGED <<pc, first_begin, tx_begin, bursts>>
    BY <1>3 DEF Launch!tick, Launch!txData
  <2>. QED BY <2>1 DEF Schedule, Launch!OnSchedule
<1>4. CASE Launch!rxtx_ends
  <2>1. pc' = "ended" /\ UNCHANGED <<now, first_begin, tx_begin, bursts>>
    BY <1>4 DEF Launch!rxtx_ends, Launch!txData
  <2>. QED BY <2>1 DEF Schedule, Launch!OnSchedule
<1>5. CASE Launch!rxtx_not_due \/ Launch!send_packets \/ Launch!rx_timestamping
           \/ Launch!rx_test \/ Launch!rx_measure
  <2>1. /\ pc \in {"loop", "send", "rx", "test", "measure"}
        /\ pc' \in {"loop", "send", "rx", "test", "measure"}
        /\ UNCHANGED <<now, first_begin, tx_begin, bursts>>
    BY <1>5 DEF Launch!rxtx_not_due, Launch!send_packets, Launch!rx_timestamping,
                Launch!rx_test, Launch!rx_measure, Launch!txData
  <2>. QED BY <2>1, Zenon DEF Schedule, Launch!OnSchedule
<1>6. CASE Launch!reset_stats \/ Launch!stop_running \/ Launch!port_sends
           \/ Launch!wire_loses \/ UNCHANGED Launch!launchVars
  <2>1. UNCHANGED <<pc, now, first_begin, tx_begin, bursts>>
    BY <1>6 DEF Launch!reset_stats, Launch!stop_running, Launch!port_sends,
                Launch!wire_loses, Launch!launchVars, Launch!txData
  <2>. QED BY <2>1 DEF Schedule, Launch!OnSchedule
<1>. QED BY <1>1, <1>2, <1>3, <1>4, <1>5, <1>6 DEF Launch!Next, Launch!WorkerStep

\* However long the worker is held up, no burst leaves before its time and a late
\* one moves no other, for every interval and offset.
THEOREM OnScheduleHolds ==
    Launch!LaunchTimeAssumption /\ Launch!Spec => []Launch!OnSchedule
<1>. SUFFICES ASSUME Launch!LaunchTimeAssumption PROVE Launch!Spec => []Launch!OnSchedule
  OBVIOUS
<1>1. Launch!Init => Schedule
  BY DEF Launch!Init, Schedule, Launch!OnSchedule
<1>2. Schedule /\ [Launch!Next]_(Launch!launchVars) => Schedule'
  BY NextKeepsSchedule
<1>3. Schedule => Launch!OnSchedule
  BY DEF Schedule
<1>. QED BY <1>1, <1>2, <1>3, PTL DEF Launch!Spec
-----------------------------------------------------------------------------
(* The mbufs *)

LEMMA SendKeepsMbufs ==
    ASSUME Launch!LaunchTimeAssumption, Mbufs, Launch!send_packets
    PROVE  Mbufs'
<1>. DEFINE n == Launch!Min2(Len(pending), TxRing - Len(txq))
            rest == SubSeq(pending, n + 1, Len(pending))
            sent == SubSeq(pending, 1, n)
<1>1. /\ pending \in Seq(Packets) /\ txq \in Seq(Packets) /\ TxRing \in Nat
      /\ Len(pending) \in Nat /\ Len(txq) \in Nat /\ Len(txq) <= TxRing
  BY DEF Mbufs, Launch!LaunchTimeAssumption
<1>2. n \in 0 .. Len(pending) /\ n <= TxRing - Len(txq)
  BY <1>1 DEF Launch!Min2
<1>3. sent \in Seq(Packets) /\ Len(sent) = n
  BY <1>1, <1>2
<1>4. rest \in Seq(Packets) /\ Len(rest) = Len(pending) - n
  BY <1>1, <1>2
<1>5. txq' = txq \o sent /\ bursts' = bursts /\ now' = now
  BY DEF Launch!send_packets
<1>6. txq' \in Seq(Packets) /\ Len(txq') = Len(txq) + n
  BY <1>1, <1>3, <1>5
<1>. HIDE DEF n, rest, sent
<1>7. CASE pending' = <<>> /\ free' = free + Len(rest) /\ pc' = "rx"
  <2>1. pending' \in Seq(Packets) /\ Len(pending') = 0
    BY <1>7
  <2>. QED BY <1>1, <1>2, <1>4, <1>5, <1>6, <1>7, <2>1 DEF Mbufs, Launch!NeverExits
<1>8. CASE pending' = rest /\ UNCHANGED <<free, pc>>
  <2>1. pc' = "send"
    BY <1>8 DEF Launch!send_packets
  <2>2. pending' \in Seq(Packets) /\ Len(pending') = Len(pending) - n
    BY <1>4, <1>8
  <2>3. free' + Len(pending') + Len(txq') = Pool /\ Len(txq') <= TxRing
    BY <1>1, <1>2, <1>6, <1>8, <2>2 DEF Mbufs
  <2>. QED BY <1>5, <1>6, <1>8, <2>1, <2>2, <2>3 DEF Mbufs, Launch!NeverExits
<1>. QED BY <1>7, <1>8, Zenon DEF Launch!send_packets, n, rest

LEMMA NextKeepsMbufs ==
    ASSUME Launch!LaunchTimeAssumption, Pool >= TxRing + Burst, Mbufs,
           [Launch!Next]_(Launch!launchVars)
    PROVE  Mbufs'
<1>1. {Burst, Pool, TxRing} \subseteq Nat
  BY DEF Launch!LaunchTimeAssumption
<1>2. CASE Launch!tx_timestamping
  <2>1. pending = <<>> /\ Len(pending) = 0
    BY <1>2 DEF Launch!tx_timestamping, Mbufs
  <2>2. free >= Burst
    BY <1>1, <2>1 DEF Mbufs
  <2>3. /\ pc' = "send" /\ free' = free - Burst /\ bursts' = Append(bursts, now)
        /\ pending' = [i \in 1 .. Burst |-> [burst |-> Len(bursts) + 1, index |-> i]]
        /\ txq' = txq /\ now' = now
    BY <1>1, <1>2, <2>2 DEF Launch!tx_timestamping, Mbufs
  <2>4. Len(bursts) + 1 \in Nat /\ bursts' \in Seq(Int)
    BY <2>3 DEF Mbufs
  <2>5. pending' \in Seq(Packets) /\ Len(pending') = Burst
    <3>1. \A i \in 1 .. Burst : [burst |-> Len(bursts) + 1, index |-> i] \in Packets
      BY <1>1, <2>4 DEF Packets
    <3>2. pending' \in [1 .. Burst -> Packets] /\ Burst \in Nat
      BY <1>1, <2>3, <3>1
    <3>. QED BY <3>2
  <2>6. free' \in Nat /\ free' + Len(pending') + Len(txq') = Pool
    <3>1. /\ free \in Nat /\ Burst \in Nat /\ Len(txq) \in Nat
          /\ free + Len(pending) + Len(txq) = Pool
      BY <1>1 DEF Mbufs
    <3>2. free' = free - Burst /\ Len(txq') = Len(txq)
      BY <2>3
    <3>. QED BY <2>1, <2>2, <2>5, <3>1, <3>2
  <2>7. txq' \in Seq(Packets) /\ Len(txq') <= TxRing /\ now' \in Int /\ pc' = "send"
    BY <2>3 DEF Mbufs
  <2>. QED BY <2>4, <2>5, <2>6, <2>7 DEF Mbufs, Launch!NeverExits
<1>3. CASE Launch!send_packets
  BY <1>3, SendKeepsMbufs
<1>4. CASE Launch!port_sends \/ Launch!wire_loses
  <2>1. /\ txq # <<>> /\ txq' = Tail(txq) /\ free' = free + 1
        /\ UNCHANGED <<pc, now, bursts, pending>>
    BY <1>4 DEF Launch!port_sends, Launch!wire_loses, Launch!txData
  <2>2. txq' \in Seq(Packets) /\ Len(txq') = Len(txq) - 1
    BY <2>1 DEF Mbufs
  <2>. QED BY <1>1, <2>1, <2>2 DEF Mbufs, Launch!NeverExits
<1>5. CASE Launch!rxtx_starts \/ Launch!rxtx_ends \/ Launch!rxtx_not_due
           \/ Launch!rx_timestamping \/ Launch!rx_test \/ Launch!rx_measure
  <2>1. /\ pc # "send" /\ pc' \notin {"send", "exit"}
        /\ UNCHANGED <<now, bursts, pending, txq, free>>
    BY <1>5, Zenon DEF Launch!rxtx_starts, Launch!rxtx_ends, Launch!rxtx_not_due,
                Launch!rx_timestamping, Launch!rx_test, Launch!rx_measure, Launch!txData
  <2>. QED BY <2>1, Zenon DEF Mbufs, Launch!NeverExits
<1>6. CASE Launch!tick
  <2>1. now' = now + 1 /\ UNCHANGED <<pc, bursts, pending, txq, free>>
    BY <1>6 DEF Launch!tick, Launch!txData
  <2>. QED BY <2>1 DEF Mbufs, Launch!NeverExits
<1>7. CASE Launch!reset_stats \/ Launch!stop_running
           \/ UNCHANGED Launch!launchVars
  <2>1. UNCHANGED <<pc, now, bursts, pending, txq, free>>
    BY <1>7 DEF Launch!reset_stats, Launch!stop_running,
                Launch!launchVars, Launch!txData
  <2>. QED BY <2>1 DEF Mbufs, Launch!NeverExits
<1>. QED BY <1>2, <1>3, <1>4, <1>5, <1>6, <1>7 DEF Launch!Next, Launch!WorkerStep

\* The rte_exit() for want of mbufs is never reached with a pool that covers the
\* Tx queue and one burst, for every size of the three.
THEOREM NeverExitsHolds ==
    Launch!LaunchTimeAssumption /\ Pool >= TxRing + Burst /\ Launch!Spec
    => []Launch!NeverExits
<1>. SUFFICES ASSUME Launch!LaunchTimeAssumption, Pool >= TxRing + Burst
              PROVE  Launch!Spec => []Launch!NeverExits
  OBVIOUS
<1>1. ASSUME Launch!Init PROVE Mbufs
  <2>1. /\ pc = "link" /\ now = 1 /\ bursts = <<>> /\ pending = <<>> /\ txq = <<>>
        /\ free = Pool
    BY <1>1 DEF Launch!Init
  <2>2. Pool \in Nat /\ TxRing \in Nat
    BY DEF Launch!LaunchTimeAssumption
  <2>. QED BY <2>1, <2>2 DEF Mbufs, Launch!NeverExits
<1>2. Mbufs /\ [Launch!Next]_(Launch!launchVars) => Mbufs'
  BY NextKeepsMbufs
<1>3. Mbufs => Launch!NeverExits
  BY DEF Mbufs
<1>. QED BY <1>1, <1>2, <1>3, PTL DEF Launch!Spec
=============================================================================

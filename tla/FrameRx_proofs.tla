--------------------------- MODULE FrameRx_proofs ---------------------------
(***************************************************************************)
(* The steps of a receiving node, which counts a frame and may forward it, *)
(* keep the invariant of the frame exchange, given the rules of            *)
(* FrameRules.                                                             *)
(***************************************************************************)
EXTENDS FrameInvariant, TLAPS

\* The two nodes, each the peer of the other.
LEMMA RxNodes ==
    /\ ref \in Nodes /\ mir \in Nodes /\ ref # mir
    /\ \A n \in Nodes : n = ref \/ n = mir
    /\ peer(ref) = mir /\ peer(mir) = ref
  BY DEF Nodes, ref, mir, peer

\* The seven queues of the way.
LEMMA RxWay ==
    /\ Way[1] = burst[ref] /\ Way[2] = in[ref] /\ Way[3] = ring[mir] /\ Way[4] = buf[mir]
    /\ Way[5] = burst[mir] /\ Way[6] = in[mir] /\ Way[7] = ring[ref]
    /\ Way'[1] = burst'[ref] /\ Way'[2] = in'[ref] /\ Way'[3] = ring'[mir]
    /\ Way'[4] = buf'[mir] /\ Way'[5] = burst'[mir] /\ Way'[6] = in'[mir] /\ Way'[7] = ring'[ref]
  BY DEF Way

\* The numbers under way are integers.
LEMMA RxIntegers ==
    ASSUME Rules, NEW cl, NEW S, Lined(cl, S)
    PROVE  HomeOf(S) \subseteq Int /\ OutOf(S) \subseteq Int /\ GoodOf(S) \subseteq Int
<1>1. /\ 1 \in 1 .. 7 /\ 2 \in 1 .. 7 /\ 3 \in 1 .. 7 /\ 4 \in 1 .. 7
      /\ 5 \in 1 .. 7 /\ 6 \in 1 .. 7 /\ 7 \in 1 .. 7
  OBVIOUS
<1>2. HomeOf(S) \subseteq Int
  BY <1>1, Zenon DEF HomeOf, Rules, LinedQueue
<1>3. OutOf(S) \subseteq Int
  BY <1>1, Zenon DEF OutOf, Rules, LinedQueue
<1>. QED BY <1>2, <1>3 DEF Rules, GoodOut

\* The places of the queues.
LEMMA Places == \A d \in 1 .. 7 : d \in {1, 2, 3, 4, 5, 6, 7}
  OBVIOUS

\* The next number.
LEMMA NextNumber == ASSUME NEW x \in Nat PROVE x + 1 \in Nat
  OBVIOUS

\* The same queues are the same line.
LEMMA SameLine ==
    ASSUME NEW cl, NEW S, NEW T, Lined(cl, S), \A d \in 1 .. 7 : T[d] = S[d]
    PROVE  Lined(cl, T) /\ SameSets(S, T)
<1>1. /\ T[1] = S[1] /\ T[2] = S[2] /\ T[3] = S[3] /\ T[4] = S[4]
      /\ T[5] = S[5] /\ T[6] = S[6] /\ T[7] = S[7]
  OBVIOUS
<1>2. SameSets(S, T)
  BY <1>1, Zenon DEF SameSets, HomeOf, OutOf, GoodOf
<1>3. Lined(cl, T)
  BY DEF Lined, InLine
<1>. QED BY <1>2, <1>3
-----------------------------------------------------------------------------
(* What a node reads and counts *)

\* The checks of the receive handler of each class.
LEMMA RxChecks ==
    ASSUME NEW n, RxFrame(n)
    PROVE  \E checks : /\ rx_frame(n, checks)
                       /\ "resync" \in checks <=> class # "dcp"
                       /\ "vlan" \in checks <=> class \notin {"lldp", "udp"}
                       /\ "id" \in checks <=> class \in {"tsn", "rtc", "rta"}
<1>1. CASE class \in {"tsn", "rtc", "rta"} /\ rx_frame(n, {"small", "vlan", "id", "resync", "retag"})
  BY <1>1
<1>2. CASE class = "dcp" /\ rx_frame(n, {"vlan"})
  BY <1>2
<1>3. CASE class \in {"lldp", "udp"} /\ rx_frame(n, {"resync"})
  BY <1>3
<1>4. CASE class = "l2" /\ rx_frame(n, {"small", "vlan", "resync", "retag"})
  BY <1>4
<1>. QED BY <1>1, <1>2, <1>3, <1>4 DEF RxFrame, tsn_rx_frame, rtc_rx_frame, rta_rx_frame,
         dcp_rx_frame, lldp_rx_frame, udp_rx_frame, l2_rx_frame

\* A received frame is refused or checked; one of another station is only checked by
\* the classes that count foreign frame IDs.
LEMMA RxCases ==
    ASSUME Typed, NEW n \in Nodes, NEW checks, rx_frame(n, checks),
           "vlan" \in checks <=> class \notin {"lldp", "udp"},
           NEW f \in AnyFrame, f = Head(burst[n]), Known(class, f)
    PROVE  /\ burst[n] # <<>> /\ burst' = [burst EXCEPT ![n] = Tail(@)]
           /\ class' = class /\ tx_seq' = tx_seq /\ in' = in
           /\ adj' \in [Nodes -> Int]
           /\ class \in {"lldp", "udp"} => \A m \in Nodes : adj'[m] = 0
           /\ \/ Refuse(n, f)
              \/ check_frame(n, f, checks) /\ (f.seq = NONE => class \in {"tsn", "rtc", "rta"})
<1>. DEFINE untagged == "vlan" \in checks /\ ~ f.tag
            missing == adj[n] + (IF untagged THEN 1 ELSE 0)
<1>1. /\ burst[n] # <<>> /\ burst' = [burst EXCEPT ![n] = Tail(@)]
      /\ class' = class /\ tx_seq' = tx_seq /\ in' = in
  BY DEF rx_frame
<1>2. \/ Refuse(n, f) /\ adj' = adj
      \/ /\ adj' = [adj EXCEPT ![n] = missing]
         /\ \/ Refuse(n, f)
            \/ ("vlan" \in checks => f.type) /\ f.short = missing /\ check_frame(n, f, checks)
  BY DEF rx_frame
<1>3. missing \in Int /\ (class \in {"lldp", "udp"} => missing = 0)
  BY DEF Typed
<1>. HIDE DEF missing
<1>4. adj' \in [Nodes -> Int] /\ (class \in {"lldp", "udp"} => \A m \in Nodes : adj'[m] = 0)
  BY <1>2, <1>3 DEF Typed
<1>5. ASSUME "vlan" \in checks => f.type, f.short = missing, f.seq = NONE
      PROVE  class \in {"tsn", "rtc", "rta"}
  <2>1. CASE f.type
    BY <1>5, <2>1 DEF Known
  <2>2. CASE ~ f.type
    <3>1. class \in {"lldp", "udp"}
      BY <1>5, <2>2
    <3>2. f.short # 0
      BY <1>5, <2>2 DEF Known
    <3>. QED BY <1>3, <1>5, <3>1, <3>2
  <2>. QED BY <2>1, <2>2
<1>. QED BY <1>1, <1>2, <1>4, <1>5

\* What becomes of the first frame of a burst.
LEMMA RxIs ==
    ASSUME Rules, Kept, NEW n \in Nodes, RxFrame(n)
    PROVE  \E f, checks :
             /\ f \in AnyFrame /\ Received(n, f) /\ Known(class, f) /\ f \in Elements(burst[n])
             /\ burst[n] \in Seq(AnyFrame) /\ ("resync" \in checks <=> class # "dcp")
             /\ \/ Refuse(n, f)
                \/ /\ check_frame(n, f, checks) /\ f.seq = NONE /\ ~ f.id
                   /\ "id" \in checks /\ class # "dcp"
                \/ check_frame(n, f, checks) /\ f.seq # NONE
<1>1. PICK checks : /\ rx_frame(n, checks)
                    /\ "resync" \in checks <=> class # "dcp"
                    /\ "vlan" \in checks <=> class \notin {"lldp", "udp"}
                    /\ "id" \in checks <=> class \in {"tsn", "rtc", "rta"}
  BY RxChecks
<1>2. PICK f : f = Head(burst[n])
  OBVIOUS
<1>3. f \in AnyFrame /\ Known(class, f) /\ f \in Elements(burst[n]) /\ burst[n] \in Seq(AnyFrame)
  <2>1. burst[n] # <<>>
    BY <1>1 DEF rx_frame
  <2>3. Queue(class, 1, burst[n]) \/ Queue(class, 5, burst[n])
    <3>1. 1 \in 1 .. 7 /\ 5 \in 1 .. 7 /\ Lined(class, Way)
      BY DEF Kept
    <3>2. CASE n = ref
      BY <3>1, <3>2, RxWay DEF Lined
    <3>3. CASE n = mir
      BY <3>1, <3>3, RxWay DEF Lined
    <3>. QED BY <3>2, <3>3, RxNodes
  <2>4. burst[n] \in Seq(AnyFrame) /\ \A e \in Elements(burst[n]) : Known(class, e)
    BY <2>3 DEF Queue
  <2>5. f \in Elements(burst[n])
    BY <1>2, <2>1, <2>3 DEF Queue, Rules, TailQueue
  <2>. QED BY <2>4, <2>5 DEF Elements
<1>4. /\ burst[n] # <<>> /\ burst' = [burst EXCEPT ![n] = Tail(@)]
      /\ class' = class /\ tx_seq' = tx_seq /\ in' = in
      /\ adj' \in [Nodes -> Int]
      /\ class \in {"lldp", "udp"} => \A m \in Nodes : adj'[m] = 0
      /\ \/ Refuse(n, f)
         \/ check_frame(n, f, checks) /\ (f.seq = NONE => class \in {"tsn", "rtc", "rta"})
  <2>1. Typed
    BY DEF Kept
  <2>. QED BY <1>1, <1>2, <1>3, <2>1, RxCases
<1>5. Received(n, f)
  BY <1>2, <1>4 DEF Received
<1>6. \/ Refuse(n, f)
      \/ /\ check_frame(n, f, checks) /\ f.seq = NONE /\ ~ f.id
         /\ "id" \in checks /\ class # "dcp"
      \/ check_frame(n, f, checks) /\ f.seq # NONE
  BY <1>1, <1>3, <1>4 DEF Known
<1>. QED BY <1>1, <1>3, <1>5, <1>6

\* The counters that stat_frame_received() moves.
LEMMA StatCounts ==
    ASSUME stat \in [Nodes -> Counters], NEW n \in Nodes, NEW f, NEW seq,
           NEW ooo \in BOOLEAN, NEW pay \in BOOLEAN, NEW id \in BOOLEAN,
           stat_frame_received(n, f, seq, ooo, pay, id)
    PROVE  /\ stat' \in [Nodes -> Counters]
           /\ stat'[n].out_of_order_errors = stat[n].out_of_order_errors + (IF ooo THEN 1 ELSE 0)
           /\ stat'[n].frame_id_errors = stat[n].frame_id_errors + (IF id THEN 1 ELSE 0)
           /\ \A m \in Nodes : m # n => stat'[m] = stat[m]
<1>. DEFINE r == [frames_sent |-> stat[n].frames_sent,
                  frames_received |-> stat[n].frames_received + 1,
                  out_of_order_errors |-> stat[n].out_of_order_errors + (IF ooo THEN 1 ELSE 0),
                  payload_errors |-> stat[n].payload_errors + (IF pay THEN 1 ELSE 0),
                  frame_id_errors |-> stat[n].frame_id_errors + (IF id THEN 1 ELSE 0)]
<1>1. stat' = [stat EXCEPT ![n] = r]
  BY DEF stat_frame_received
<1>2. stat[n] \in Counters
  OBVIOUS
<1>3. /\ r \in Counters
      /\ r.out_of_order_errors = stat[n].out_of_order_errors + (IF ooo THEN 1 ELSE 0)
      /\ r.frame_id_errors = stat[n].frame_id_errors + (IF id THEN 1 ELSE 0)
  BY <1>2 DEF Counters
<1>. HIDE DEF r
<1>. QED BY <1>1, <1>3

\* A frame with a foreign ID is counted, is not forwarded and moves no expectation.
LEMMA CountForeign ==
    ASSUME Typed, late \in BOOLEAN, NEW n \in Nodes, NEW checks, "id" \in checks,
           NEW f \in AnyFrame, f.seq = NONE, ~ f.id, check_frame(n, f, checks)
    PROVE  /\ buf' = buf /\ ring' = ring /\ rx_seq' = rx_seq
           /\ faults' = faults /\ refused' = refused
           /\ stat' \in [Nodes -> Counters]
           /\ \E o \in {0, 1} : stat'[n].out_of_order_errors = stat[n].out_of_order_errors + o
           /\ stat'[n].frame_id_errors = stat[n].frame_id_errors + 1
           /\ \A m \in Nodes : m # n => stat'[m] = stat[m]
           /\ n = mir => backlog' = backlog /\ late' = late /\ badRtt' = badRtt
           /\ n # mir => /\ \E slot : backlog' = [backlog EXCEPT ![slot] = NONE]
                         /\ late' = late /\ badRtt' = badRtt + 1
<1>. DEFINE seq == meta_data_to_sequence_counter(f.meta)
            ooo == seq # rx_seq[n]
<1>1. /\ stat_frame_received(n, f, seq, ooo, ~ f.pay, TRUE)
      /\ rx_seq' = rx_seq /\ drop(n) /\ faults' = faults /\ refused' = refused
  BY Zenon DEF check_frame
<1>2. ooo \in BOOLEAN /\ (~ f.pay) \in BOOLEAN /\ TRUE \in BOOLEAN
  BY DEF AnyFrame
<1>. HIDE DEF ooo, seq
<1>3. /\ stat' \in [Nodes -> Counters]
      /\ stat'[n].out_of_order_errors = stat[n].out_of_order_errors + (IF ooo THEN 1 ELSE 0)
      /\ stat'[n].frame_id_errors = stat[n].frame_id_errors + (IF TRUE THEN 1 ELSE 0)
      /\ \A m \in Nodes : m # n => stat'[m] = stat[m]
  <2>1. stat \in [Nodes -> Counters]
    BY DEF Typed
  <2>. QED BY <1>1, <1>2, <2>1, StatCounts, Zenon
<1>4. buf' = buf /\ ring' = ring
  BY <1>1 DEF drop
<1>5. n = mir => backlog' = backlog /\ late' = late /\ badRtt' = badRtt
  BY <1>1 DEF stat_frame_received
<1>6. n # mir => /\ \E slot : backlog' = [backlog EXCEPT ![slot] = NONE]
                 /\ late' = late /\ badRtt' = badRtt + 1
  BY <1>1 DEF stat_frame_received
<1>7. \E o \in {0, 1} : stat'[n].out_of_order_errors = stat[n].out_of_order_errors + o
  BY <1>3
<1>8. stat'[n].frame_id_errors = stat[n].frame_id_errors + 1
  BY <1>3
<1>. QED BY <1>1, <1>3, <1>4, <1>5, <1>6, <1>7, <1>8

\* Node n has counted frame f with number s; the mirror forwards it only if it is intact
\* and the one expected.
CountedOwn(n, f, s) ==
    /\ refused' = refused /\ stat' \in [Nodes -> Counters]
    /\ rx_seq' = [rx_seq EXCEPT ![n] = After(class, @, s)]
    /\ stat'[n].out_of_order_errors = stat[n].out_of_order_errors + Late(rx_seq[n], s)
    /\ stat'[n].frame_id_errors = stat[n].frame_id_errors
    /\ \A m \in Nodes : m # n => stat'[m] = stat[m]
    /\ n = mir => backlog' = backlog /\ late' = late /\ badRtt' = badRtt
    /\ n # mir => /\ backlog' = [backlog EXCEPT ![(s % SeqMod) % backlog_len] = NONE]
                  /\ late' = (late \/ tx_seq - s > backlog_len)
                  /\ badRtt' = badRtt
                       + (IF backlog[(s % SeqMod) % backlog_len] = s THEN 0 ELSE 1)
    /\ \/ /\ s % SeqMod # rx_seq[n] \/ ~ f.pay \/ n = ref
          /\ buf' = buf /\ ring' = ring /\ faults' = faults
       \/ /\ s % SeqMod = rx_seq[n] /\ f.pay /\ n # ref
          /\ \E g \in AnyFrame : /\ g.seq = s /\ Known(class, g)
                                 /\ lport_tx_buffer_add(n, g)

\* A frame of the reference is counted so.
LEMMA CountOwn ==
    ASSUME Rules, Typed, late \in BOOLEAN, NEW n \in Nodes, NEW checks, "resync" \in checks <=> class # "dcp",
           NEW f \in AnyFrame, NEW s, s = f.seq, s # NONE, Known(class, f), check_frame(n, f, checks)
    PROVE  CountedOwn(n, f, s)
<1>. DEFINE seq == meta_data_to_sequence_counter(f.meta)
            ooo == seq # rx_seq[n]
            back == IF "retag" \in checks /\ ~ f.tag THEN insert_vlan_tag(f) ELSE f
            q == s % SeqMod
<1>0. s \in Nat /\ f.id /\ f.meta = sequence_counter_to_meta_data(s)
  BY DEF Known
<1>1. seq = q
  BY <1>0 DEF Rules, ReadBack
<1>2. /\ stat_frame_received(n, f, seq, ooo, ~ f.pay, FALSE) /\ refused' = refused
      /\ rx_seq' = IF ~ ooo THEN [rx_seq EXCEPT ![n] = @ + 1]
                   ELSE IF "resync" \in checks THEN [rx_seq EXCEPT ![n] = seq + 1]
                   ELSE rx_seq
      /\ IF ooo \/ ~ f.pay \/ n = ref
         THEN drop(n) /\ UNCHANGED faults
         ELSE lport_tx_buffer_add(n, back) /\ UNCHANGED dropped
  BY <1>0, Zenon DEF check_frame
<1>3. ooo \in BOOLEAN /\ (~ f.pay) \in BOOLEAN /\ FALSE \in BOOLEAN
  BY DEF AnyFrame
<1>4. back \in AnyFrame /\ back.seq = s /\ Known(class, back)
  <2>1. (class # "l2") \in BOOLEAN /\ TRUE \in BOOLEAN
    OBVIOUS
  <2>2. /\ insert_vlan_tag(f) \in AnyFrame /\ insert_vlan_tag(f).seq = s
        /\ insert_vlan_tag(f).id = f.id /\ insert_vlan_tag(f).meta = f.meta
    BY <2>1, Zenon DEF insert_vlan_tag, AnyFrame
  <2>3. Known(class, insert_vlan_tag(f))
    BY <1>0, <2>2 DEF Known
  <2>. QED BY <2>2, <2>3
<1>. HIDE DEF seq, back
<1>5. ooo <=> q # rx_seq[n]
  BY <1>1
<1>. HIDE DEF ooo, q
<1>6. rx_seq' = [rx_seq EXCEPT ![n] = After(class, @, s)]
  <2>1. rx_seq[n] \in Nat /\ rx_seq \in [Nodes -> Nat]
    BY DEF Typed
  <2>2. After(class, rx_seq[n], s) = IF ~ ooo \/ class # "dcp" THEN q + 1 ELSE rx_seq[n]
    BY <1>5 DEF After, q
  <2>3. rx_seq' = [rx_seq EXCEPT ![n] = IF ~ ooo \/ class # "dcp" THEN q + 1 ELSE rx_seq[n]]
    <3>1. CASE ~ ooo
      BY <1>2, <1>5, <2>1, <3>1, Zenon
    <3>2. CASE ooo /\ class # "dcp"
      BY <1>1, <1>2, <3>2
    <3>3. CASE ooo /\ class = "dcp"
      BY <1>2, <2>1, <3>3
    <3>. QED BY <3>1, <3>2, <3>3
  <2>. QED BY <2>2, <2>3
<1>7. /\ stat' \in [Nodes -> Counters]
      /\ stat'[n].out_of_order_errors = stat[n].out_of_order_errors + (IF ooo THEN 1 ELSE 0)
      /\ stat'[n].frame_id_errors = stat[n].frame_id_errors + (IF FALSE THEN 1 ELSE 0)
      /\ \A m \in Nodes : m # n => stat'[m] = stat[m]
  <2>1. stat \in [Nodes -> Counters]
    BY DEF Typed
  <2>. QED BY <1>2, <1>3, <2>1, StatCounts, Zenon
<1>8. stat'[n].out_of_order_errors = stat[n].out_of_order_errors + Late(rx_seq[n], s)
  BY <1>5, <1>7 DEF Late, q
<1>9. stat'[n].frame_id_errors = stat[n].frame_id_errors
  <2>1. stat[n] \in Counters
    BY DEF Typed
  <2>. QED BY <1>7, <2>1 DEF Counters
<1>10. n = mir => backlog' = backlog /\ late' = late /\ badRtt' = badRtt
  BY <1>2 DEF stat_frame_received
<1>11. n # mir => /\ backlog' = [backlog EXCEPT ![q % backlog_len] = NONE]
                  /\ late' = (late \/ tx_seq - s > backlog_len)
                  /\ badRtt' = badRtt + (IF backlog[q % backlog_len] = s THEN 0 ELSE 1)
  BY <1>1, <1>2 DEF stat_frame_received
<1>12. \/ /\ q # rx_seq[n] \/ ~ f.pay \/ n = ref
          /\ buf' = buf /\ ring' = ring /\ faults' = faults
       \/ /\ q = rx_seq[n] /\ f.pay /\ n # ref /\ lport_tx_buffer_add(n, back)
  BY <1>2, <1>5 DEF drop
<1>13. \/ /\ q # rx_seq[n] \/ ~ f.pay \/ n = ref
          /\ buf' = buf /\ ring' = ring /\ faults' = faults
       \/ /\ q = rx_seq[n] /\ f.pay /\ n # ref
          /\ \E g \in AnyFrame : /\ g.seq = s /\ Known(class, g) /\ lport_tx_buffer_add(n, g)
  BY <1>4, <1>12
<1>. QED BY <1>2, <1>6, <1>7, <1>8, <1>9, <1>10, <1>11, <1>13, Zenon DEF q, CountedOwn
-----------------------------------------------------------------------------
(* What the mirror forwards *)

\* The mirror sends the first frame of its burst back.
Forwarded(S, R, s) ==
    /\ s \in OutOf(S) /\ \A x \in OutOf(S) : s <= x
    /\ HomeOf(R) = HomeOf(S) \cup {s} /\ OutOf(R) = OutOf(S) \ {s} /\ GoodOf(R) = GoodOf(S) \ {s}

\* A frame moved from the mirror's burst to its transmit buffer.
LEMMA ForwardSets ==
    ASSUME Rules, NEW cl, NEW S, NEW R, Lined(cl, S), NEW f, NEW g \in AnyFrame, Moved(S, R, 4, 5, f, g),
           Known(cl, g), g.seq = f.seq, g.seq # NONE, f.pay
    PROVE  Lined(cl, R) /\ Forwarded(S, R, f.seq) /\ f.seq \in GoodOf(S)
<1>0. f.seq # NONE
  OBVIOUS
<1>. DEFINE T == [d \in 1 .. 7 |-> IF d = 5 THEN Tail(S[5]) ELSE S[d]]
<1>1. Pulled(S, T, 5, f)
  BY DEF Moved, Pulled, SameBut
<1>2. T[5] = R[5] /\ T[6] = R[6] /\ T[7] = R[7]
  BY DEF Moved, SameBut
<1>. HIDE DEF T
<1>3. TakenOut(S, T, f.seq) /\ (f.seq \in GoodOf(S) <=> f.pay)
  BY <1>0, <1>1 DEF Rules, FirstOut
<1>4. /\ f.seq \in OutOf(S) /\ \A x \in OutOf(S) : f.seq <= x
      /\ OutOf(T) = OutOf(S) \ {f.seq} /\ HomeOf(T) = HomeOf(S)
      /\ GoodOf(T) = GoodOf(S) \ {f.seq}
  BY <1>3 DEF TakenOut
<1>6. OutOf(R) = OutOf(T) /\ GoodOf(R) = GoodOf(T)
  BY <1>2 DEF OutOf, GoodOf
<1>. DEFINE c == 4
            e == 5
<1>7. c \in 1 .. 6 /\ e = c + 1 /\ Moved(S, R, c, e, f, g)
  OBVIOUS
<1>. HIDE DEF c, e
<1>8. Lined(cl, R) /\ MovedSets(S, R, c, e, f, g)
  BY <1>7 DEF Rules, LineMove
<1>9. Numbers(R[4]) = Numbers(S[4]) \cup {f.seq}
  BY <1>8 DEF MovedSets, c
<1>10. R[1] = S[1] /\ R[2] = S[2] /\ R[3] = S[3]
  BY DEF Moved, SameBut
<1>11. HomeOf(R) = HomeOf(S) \cup {f.seq}
  BY <1>9, <1>10 DEF HomeOf
<1>. QED BY <1>3, <1>4, <1>6, <1>8, <1>11 DEF Forwarded

\* The mirror counts the first frame of its burst and sends it back.
LEMMA ForwardKept ==
    ASSUME Rules, Kept, NEW R, NEW s, Forwarded(Way, R, s), s \in GoodOf(Way),
           s % SeqMod = rx_seq[mir]
    PROVE  \E a, b \in Nat :
             Ledger(class, tx_seq, a, b, HomeOf(R), OutOf(R), GoodOf(R), rx_seq[ref],
                    After(class, rx_seq[mir], s),
                    stat[ref].out_of_order_errors,
                    stat[mir].out_of_order_errors + Late(rx_seq[mir], s),
                    stat[ref].frame_id_errors, stat[mir].frame_id_errors,
                    faults + refused, backlog, backlog_len, late, badRtt)
<1>1. PICK a \in Nat, b \in Nat : Books(a, b)
  BY DEF Kept
<1>2. Ledger(class, tx_seq, a, b, HomeOf(Way), OutOf(Way), GoodOf(Way), rx_seq[ref], rx_seq[mir],
           stat[ref].out_of_order_errors, stat[mir].out_of_order_errors,
           stat[ref].frame_id_errors, stat[mir].frame_id_errors,
           faults + refused, backlog, backlog_len, late, badRtt)
  BY <1>1 DEF Books
<1>3. Ledger(class, tx_seq, a, s + 1, HomeOf(Way) \cup {s}, OutOf(Way) \ {s}, GoodOf(Way) \ {s},
           rx_seq[ref], After(class, rx_seq[mir], s),
           stat[ref].out_of_order_errors, stat[mir].out_of_order_errors + Late(rx_seq[mir], s),
           stat[ref].frame_id_errors, stat[mir].frame_id_errors,
           faults + refused, backlog, backlog_len, late, badRtt)
  <2>1. s \in OutOf(Way) /\ \A x \in OutOf(Way) : s <= x
    BY DEF Forwarded
  <2>2. HomeOf(Way) \cup {s} = HomeOf(Way) \cup {s} /\ s % SeqMod = rx_seq[mir] /\ s \in GoodOf(Way)
    OBVIOUS
  <2>. QED BY <1>2, <2>1, <2>2, Zenon DEF Rules, MirrorCounts
<1>4. s + 1 \in Nat
  BY <1>3 DEF Ledger, Placed
<1>. QED BY <1>3, <1>4 DEF Forwarded

\* The count of lost frames grows unless all of the queue was sent.
Lost(q, k, fr, fs) == fs \in Nat /\ ((k = Len(q) /\ fs = fr) \/ fs >= fr + 1)

\* A flush of the mirror's buffer, of which the ring takes the first k frames.
LEMMA UnsentLedger ==
    ASSUME Rules, NEW S, NEW T, NEW k,
           NEW cl, NEW tx, NEW a, NEW b, NEW er, NEW em, NEW or, NEW om,
           NEW ir, NEW im, NEW fr, NEW bl, NEW len, NEW late_, NEW bad,
           Lined(cl, S), Joined(S, T, 3, 4, k),
           Ledger(cl, tx, a, b, HomeOf(S), OutOf(S), GoodOf(S), er, em, or, om, ir, im, fr, bl,
                  len, late_, bad),
           NEW fs, Lost(S[4], k, fr, fs)
    PROVE  /\ Lined(cl, T)
           /\ Ledger(cl, tx, a, b, HomeOf(T), OutOf(T), GoodOf(T), er, em, or, om, ir, im, fs, bl,
                  len, late_, bad)
<1>2. /\ Lined(cl, T) /\ HomeOf(T) \subseteq HomeOf(S)
      /\ OutOf(T) = OutOf(S) /\ GoodOf(T) = GoodOf(S)
      /\ \A x \in HomeOf(S) \ HomeOf(T), z \in HomeOf(T) : z < x
      /\ k = Len(S[4]) => HomeOf(T) = HomeOf(S)
  BY DEF Rules, JoinSets
<1>6. CASE k = Len(S[4]) /\ fs = fr
  <2>1. HomeOf(T) = HomeOf(S) /\ OutOf(T) = OutOf(S) /\ GoodOf(T) = GoodOf(S)
    BY <1>2, <1>6
  <2>. QED BY <1>2, <1>6, <2>1
<1>7. CASE fs >= fr + 1
  <2>1. fs \in Nat /\ fs >= fr + 1
    BY <1>7 DEF Lost
  <2>2. Run(OutOf(S), OutOf(T))
    BY <1>2 DEF Run
  <2>3. HomeOf(S) \subseteq Int /\ OutOf(S) \subseteq Int /\ GoodOf(S) \subseteq Int
    BY RxIntegers
  <2>4. \A x \in HomeOf(S), y \in GoodOf(S) : x < y
    BY DEF Ledger, Placed
  <2>5. Run(HomeOf(S) \cup GoodOf(S), HomeOf(T) \cup GoodOf(T))
    <3>. SUFFICES ASSUME NEW x \in (HomeOf(S) \cup GoodOf(S)) \ (HomeOf(T) \cup GoodOf(T)),
                         NEW y \in (HomeOf(S) \cup GoodOf(S)) \ (HomeOf(T) \cup GoodOf(T)),
                         NEW z \in HomeOf(T) \cup GoodOf(T), x < z, z < y
                  PROVE  FALSE
      BY DEF Run
    <3>2. x \in HomeOf(S) \ HomeOf(T) /\ y \in HomeOf(S) \ HomeOf(T)
      BY <1>2
    <3>3. x \in Int /\ y \in Int /\ z \in Int
      BY <1>2, <2>3, <3>2, Zenon
    <3>4. CASE z \in HomeOf(T)
      BY <1>2, <3>2, <3>3, <3>4
    <3>5. CASE z \in GoodOf(T)
      BY <1>2, <2>4, <3>2, <3>3, <3>5
    <3>. QED BY <3>4, <3>5
  <2>6. /\ HomeOf(T) \in SUBSET HomeOf(S) /\ OutOf(T) \in SUBSET OutOf(S)
        /\ GoodOf(T) \in SUBSET GoodOf(S) /\ GoodOf(T) \subseteq OutOf(T)
    BY <1>2 DEF Rules, GoodOut
  <2>7. Ledger(cl, tx, a, b, HomeOf(T), OutOf(T), GoodOf(T), er, em, or, om, ir, im, fs, bl,
               len, late_, bad)
    BY <2>1, <2>2, <2>5, <2>6, Zenon DEF Rules, LossStep
  <2>. QED BY <1>2, <2>7
<1>. QED BY <1>6, <1>7 DEF Lost

\* A frame added to the transmit buffer stays there, or the full buffer is flushed.
LEMMA BufferCases ==
    ASSUME Formed, NEW g \in AnyFrame, lport_tx_buffer_add(mir, g)
    PROVE  \/ buf' = [buf EXCEPT ![mir] = Append(buf[mir], g)] /\ ring' = ring /\ faults' = faults
           \/ /\ buf' = [buf EXCEPT ![mir] = <<>>]
              /\ \E k \in 0 .. Len(Append(buf[mir], g)) :
                   /\ ring' = [ring EXCEPT ![mir] = @ \o SubSeq(Append(buf[mir], g), 1, k)]
                   /\ faults' = faults + (Len(Append(buf[mir], g)) - k)
<1>. DEFINE b == Append(buf[mir], g)
<1>1. \/ buf' = [buf EXCEPT ![mir] = b] /\ UNCHANGED <<txfree, rxfree, ring, faults>>
      \/ buf' = [buf EXCEPT ![mir] = <<>>] /\ flush(mir, b)
  BY DEF lport_tx_buffer_add
<1>. HIDE DEF b
<1>2. CASE buf' = [buf EXCEPT ![mir] = b] /\ UNCHANGED <<txfree, rxfree, ring, faults>>
  BY <1>2 DEF b
<1>3. CASE buf' = [buf EXCEPT ![mir] = <<>>] /\ flush(mir, b)
  <2>1. \E k \in 0 .. Len(b) : /\ ring' = [ring EXCEPT ![mir] = @ \o SubSeq(b, 1, k)]
                               /\ faults' = faults + (Len(b) - k)
    BY <1>3, Zenon DEF flush
  <2>. QED BY <1>3, <2>1, Zenon DEF b
<1>. QED BY <1>1, <1>2, <1>3, Zenon

\* The frames that a flush did not send are faults.
LEMMA UnsentSum ==
    ASSUME NEW fa \in Nat, NEW re \in Nat, NEW n \in Nat, NEW k \in 0 .. n,
           NEW fb, fb = fa + (n - k)
    PROVE  /\ fb \in Nat /\ fb + re \in Nat
           /\ (k = n /\ fb + re = fa + re) \/ fb + re >= (fa + re) + 1
  OBVIOUS

\* The mirror takes the frame it expects, and forwards it.
LEMMA MirrorForwards ==
    ASSUME Rules, Kept, Formed, burst[mir] # <<>>, NEW f, f = Head(burst[mir]),
           burst' = [burst EXCEPT ![mir] = Tail(@)], in' = in, class' = class, tx_seq' = tx_seq,
           refused' = refused, NEW s, s = f.seq, s # NONE, s % SeqMod = rx_seq[mir], f.pay,
           rx_seq' = [rx_seq EXCEPT ![mir] = After(class, @, s)],
           stat'[mir].out_of_order_errors = stat[mir].out_of_order_errors + Late(rx_seq[mir], s),
           stat'[mir].frame_id_errors = stat[mir].frame_id_errors, stat'[ref] = stat[ref],
           backlog' = backlog, late' = late, badRtt' = badRtt,
           NEW g \in AnyFrame, g.seq = s, Known(class, g), lport_tx_buffer_add(mir, g),
           faults' \in Nat => Typed'
    PROVE  Kept'
<1>. DEFINE R == [d \in 1 .. 7 |-> IF d = 4 THEN Append(Way[4], g)
                                   ELSE IF d = 5 THEN Tail(Way[5]) ELSE Way[d]]
<1>1. Lined(class, Way)
  BY DEF Kept
<1>2. Moved(Way, R, 4, 5, f, g)
  BY RxWay DEF Moved, SameBut
<1>a. /\ R[1] = Way[1] /\ R[2] = Way[2] /\ R[3] = Way[3] /\ R[4] = Append(Way[4], g)
      /\ R[5] = Tail(Way[5]) /\ R[6] = Way[6] /\ R[7] = Way[7]
  OBVIOUS
<1>. HIDE DEF R
<1>3. Lined(class, R) /\ Forwarded(Way, R, s) /\ s \in GoodOf(Way)
  BY <1>1, <1>2, ForwardSets, Zenon
<1>4. PICK a \in Nat, b \in Nat :
             Ledger(class, tx_seq, a, b, HomeOf(R), OutOf(R), GoodOf(R), rx_seq[ref],
                    After(class, rx_seq[mir], s),
                    stat[ref].out_of_order_errors,
                    stat[mir].out_of_order_errors + Late(rx_seq[mir], s),
                    stat[ref].frame_id_errors, stat[mir].frame_id_errors,
                    faults + refused, backlog, backlog_len, late, badRtt)
  BY <1>3, ForwardKept, Zenon
<1>5. rx_seq'[ref] = rx_seq[ref] /\ rx_seq'[mir] = After(class, rx_seq[mir], s)
  BY RxNodes DEF Kept, Typed
<1>6. Ledger(class', tx_seq', a, b, HomeOf(R), OutOf(R), GoodOf(R), rx_seq'[ref], rx_seq'[mir],
                    stat'[ref].out_of_order_errors, stat'[mir].out_of_order_errors,
                    stat'[ref].frame_id_errors, stat'[mir].frame_id_errors,
                    faults + refused', backlog', backlog_len, late', badRtt')
  BY <1>4, <1>5, Zenon
<1>7. burst'[mir] = Tail(burst[mir]) /\ burst'[ref] = burst[ref]
  BY RxNodes DEF Formed
<1>8. faults \in Nat /\ refused \in Nat
  BY DEF Kept, Typed
<1>9. CASE buf' = [buf EXCEPT ![mir] = Append(buf[mir], g)] /\ ring' = ring /\ faults' = faults
  <2>1. buf'[mir] = Append(buf[mir], g)
    BY <1>9, RxNodes, Zenon DEF Formed
  <2>2. \A d \in 1 .. 7 : Way'[d] = R[d]
    <3>1. /\ Way'[1] = R[1] /\ Way'[2] = R[2] /\ Way'[3] = R[3]
      BY <1>7, <1>9, <1>a, RxWay, Zenon
    <3>2. /\ Way'[4] = R[4] /\ Way'[5] = R[5]
      BY <1>7, <1>a, <2>1, RxWay, Zenon
    <3>3. /\ Way'[6] = R[6] /\ Way'[7] = R[7]
      BY <1>9, <1>a, RxWay, Zenon
    <3>. QED BY <3>1, <3>2, <3>3, Places, Zenon
  <2>3. Lined(class, Way') /\ SameSets(R, Way')
    BY <1>3, <2>2, SameLine, Zenon
  <2>4. Books(a, b)'
    BY <1>6, <1>9, <2>3, Zenon DEF Books, SameSets
  <2>5. Typed'
    BY <1>8, <1>9
  <2>. QED BY <2>3, <2>4, <2>5 DEF Kept
<1>10. ASSUME buf' = [buf EXCEPT ![mir] = <<>>], NEW k \in 0 .. Len(Append(buf[mir], g)),
              ring' = [ring EXCEPT ![mir] = @ \o SubSeq(Append(buf[mir], g), 1, k)],
              faults' = faults + (Len(Append(buf[mir], g)) - k)
       PROVE  Kept'
  <2>1. /\ buf'[mir] = <<>> /\ ring'[mir] = ring[mir] \o SubSeq(Append(buf[mir], g), 1, k)
        /\ ring'[ref] = ring[ref]
    BY <1>10, RxNodes, Zenon DEF Formed
  <2>2. R[4] = Append(buf[mir], g)
    BY <1>a, RxWay
  <2>3. Joined(R, Way', 3, 4, k)
    <3>1. SameBut(R, Way', 3, 4)
      BY <1>7, <1>a, <2>1, RxWay DEF SameBut
    <3>. QED BY <1>a, <2>1, <2>2, <3>1, RxWay DEF Joined
  <2>4. Len(R[4]) \in Nat
    <3>1. 4 \in 1 .. 7
      OBVIOUS
    <3>2. R[4] \in Seq(AnyFrame)
      BY <1>3, <3>1, Zenon DEF Rules, LinedQueue
    <3>. QED BY <3>2
  <2>5. k \in 0 .. Len(R[4]) /\ faults' = faults + (Len(R[4]) - k)
    BY <1>10, <2>2
  <2>6. /\ faults' \in Nat /\ faults' + refused' \in Nat
        /\ \/ k = Len(R[4]) /\ faults' + refused' = faults + refused'
           \/ faults' + refused' >= (faults + refused') + 1
    <3>. DEFINE n == Len(R[4])
                fb == faults'
                re == refused'
    <3>1. n \in Nat /\ k \in 0 .. n /\ fb = faults + (n - k) /\ re \in Nat /\ faults \in Nat
      BY <1>8, <2>4, <2>5
    <3>. HIDE DEF n, fb, re
    <3>2. fb \in Nat /\ fb + re \in Nat /\ ((k = n /\ fb + re = faults + re) \/ fb + re >= (faults + re) + 1)
      BY <3>1, UnsentSum
    <3>. QED BY <3>2, Zenon DEF n, fb, re
  <2>7. /\ Lined(class', Way')
        /\ Ledger(class', tx_seq', a, b, HomeOf(Way'), OutOf(Way'), GoodOf(Way'),
                    rx_seq'[ref], rx_seq'[mir],
                    stat'[ref].out_of_order_errors, stat'[mir].out_of_order_errors,
                    stat'[ref].frame_id_errors, stat'[mir].frame_id_errors,
                    faults' + refused', backlog', backlog_len, late', badRtt')
    <3>. DEFINE fr == faults + refused'
                fs == faults' + refused'
                cl == class'
                tx == tx_seq'
                er == rx_seq'[ref]
                em == rx_seq'[mir]
                or == stat'[ref].out_of_order_errors
                om == stat'[mir].out_of_order_errors
                ir == stat'[ref].frame_id_errors
                im == stat'[mir].frame_id_errors
                T == Way'
                bl == backlog'
                lt == late'
                bad == badRtt'
    <3>1. Lined(cl, R) /\ Joined(R, T, 3, 4, k)
      BY <1>3, <2>3
    <3>2. Lost(R[4], k, fr, fs)
      BY <2>6, Zenon DEF Lost
    <3>3. Ledger(cl, tx, a, b, HomeOf(R), OutOf(R), GoodOf(R), er, em, or, om, ir, im,
                 fr, bl, backlog_len, lt, bad)
      BY <1>6, Zenon
    <3>. HIDE DEF fr, fs, cl, tx, er, em, or, om, ir, im, T, bl, lt, bad
    <3>4. /\ Lined(cl, T)
          /\ Ledger(cl, tx, a, b, HomeOf(T), OutOf(T), GoodOf(T), er, em, or, om, ir, im,
                    fs, bl, backlog_len, lt, bad)
      BY <3>1, <3>2, <3>3, UnsentLedger, Zenon
    <3>. QED BY <3>4, Zenon DEF fr, fs, cl, tx, er, em, or, om, ir, im, T, bl, lt, bad
  <2>. QED BY <2>6, <2>7, Zenon DEF Kept, Books
<1>. QED BY <1>9, <1>10, BufferCases, Zenon
-----------------------------------------------------------------------------
(* What a node receives *)

\* Taking a frame out of the burst takes it out of the line.
LEMMA ReceivedPulls ==
    ASSUME Formed, NEW n \in Nodes, NEW f, Received(n, f), buf' = buf, ring' = ring
    PROVE  /\ n = ref => Pulled(Way, Way', 1, f)
           /\ n = mir => Pulled(Way, Way', 5, f)
<1>1. /\ burst[n] # <<>> /\ f = Head(burst[n]) /\ burst'[n] = Tail(burst[n]) /\ in' = in
      /\ \A m \in Nodes : m # n => burst'[m] = burst[m]
  BY DEF Received, Formed
<1>2. CASE n = ref
  <2>1. SameBut(Way, Way', 1, 1)
    BY <1>1, <1>2, RxWay, RxNodes DEF SameBut
  <2>2. Pulled(Way, Way', 1, f)
    BY <1>1, <1>2, <2>1, RxWay DEF Pulled
  <2>. QED BY <1>2, <2>2, RxNodes
<1>3. CASE n = mir
  <2>1. SameBut(Way, Way', 5, 5)
    BY <1>1, <1>3, RxWay, RxNodes DEF SameBut
  <2>2. Pulled(Way, Way', 5, f)
    BY <1>1, <1>3, <2>1, RxWay DEF Pulled
  <2>. QED BY <1>3, <2>2, RxNodes
<1>. QED BY <1>2, <1>3, RxNodes

\* The books after a step that changed only what the receiver of a frame counts.
LEMMA CountTyped ==
    ASSUME Typed, NEW n, NEW f, Received(n, f), stat' \in [Nodes -> Counters],
           rx_seq' \in [Nodes -> Nat], faults' \in Nat, refused' = refused,
           backlog' = backlog \/ \E slot : backlog' = [backlog EXCEPT ![slot] = NONE]
    PROVE  Typed'
<1>1. backlog' \in [0 .. backlog_len - 1 -> Int]
  <2>1. NONE \in Int /\ backlog \in [0 .. backlog_len - 1 -> Int]
    BY DEF NONE, Typed
  <2>. QED BY <2>1
<1>. QED BY <1>1 DEF Typed, Received

\* A frame with a foreign ID is counted.
LEMMA ForeignKept ==
    ASSUME Rules, Kept, Formed, NEW n \in Nodes, NEW f \in AnyFrame, Received(n, f), f.seq = NONE, ~ f.id,
           NEW checks, "id" \in checks, class # "dcp", check_frame(n, f, checks)
    PROVE  Kept'
<1>0. PICK a \in Nat, b \in Nat : Books(a, b)
  BY DEF Kept
<1>. DEFINE H == HomeOf(Way)
            O == OutOf(Way)
            G == GoodOf(Way)
            er == rx_seq[ref]
            em == rx_seq[mir]
            or == stat[ref].out_of_order_errors
            om == stat[mir].out_of_order_errors
            ir == stat[ref].frame_id_errors
            im == stat[mir].frame_id_errors
            fr == faults + refused
<1>1. Ledger(class, tx_seq, a, b, H, O, G, er, em, or, om, ir, im, fr, backlog, backlog_len,
             late, badRtt)
  BY <1>0 DEF Books
<1>2. Typed /\ late \in BOOLEAN
  BY <1>1, Zenon DEF Kept, Ledger, Measured
<1>3. /\ buf' = buf /\ ring' = ring /\ rx_seq' = rx_seq /\ faults' = faults /\ refused' = refused
      /\ stat' \in [Nodes -> Counters]
      /\ \E o \in {0, 1} : stat'[n].out_of_order_errors = stat[n].out_of_order_errors + o
      /\ stat'[n].frame_id_errors = stat[n].frame_id_errors + 1
      /\ \A m \in Nodes : m # n => stat'[m] = stat[m]
      /\ n = mir => backlog' = backlog /\ late' = late /\ badRtt' = badRtt
      /\ n # mir => /\ \E slot : backlog' = [backlog EXCEPT ![slot] = NONE]
                    /\ late' = late /\ badRtt' = badRtt + 1
  BY <1>2, CountForeign
<1>4. Typed'
  <2>1. rx_seq' \in [Nodes -> Nat] /\ faults' \in Nat
    BY <1>2, <1>3 DEF Typed
  <2>2. backlog' = backlog \/ \E slot : backlog' = [backlog EXCEPT ![slot] = NONE]
    BY <1>3
  <2>. QED BY <1>2, <1>3, <2>1, <2>2, CountTyped
<1>5. Lined(class, Way') /\ SameSets(Way, Way')
  <2>1. PICK c \in {1, 5} : Pulled(Way, Way', c, f)
    BY <1>3, ReceivedPulls, RxNodes, Zenon
  <2>2. Lined(class, Way) /\ c \in 1 .. 7
    BY DEF Kept
  <2>3. Lined(class, Way')
    BY <2>1, <2>2 DEF Rules, LineDrop
  <2>4. Own(f) = {} /\ Fit(f) = {}
    BY DEF Own, Fit
  <2>5. /\ c <= 4 => HomeOf(Way) = Own(f) \cup HomeOf(Way') /\ OutOf(Way') = OutOf(Way)
                     /\ GoodOf(Way') = GoodOf(Way)
        /\ c > 4 => /\ HomeOf(Way') = HomeOf(Way) /\ OutOf(Way) = Own(f) \cup OutOf(Way')
                    /\ GoodOf(Way) = Fit(f) \cup GoodOf(Way')
    BY <2>1, <2>2 DEF Rules, DropSets
  <2>. QED BY <2>3, <2>4, <2>5 DEF SameSets
<1>6. HomeOf(Way') = H /\ OutOf(Way') = O /\ GoodOf(Way') = G
  BY <1>5 DEF SameSets
<1>7. PICK o \in {0, 1} : stat'[n].out_of_order_errors = stat[n].out_of_order_errors + o
  BY <1>3, Zenon
<1>8. class' = class /\ tx_seq' = tx_seq
  BY DEF Received
<1>9. CASE n = mir
  <2>1. /\ stat'[mir].out_of_order_errors = om + o /\ stat'[mir].frame_id_errors = im + 1
        /\ stat'[ref].out_of_order_errors = or /\ stat'[ref].frame_id_errors = ir
    BY <1>3, <1>7, <1>9, RxNodes, Zenon
  <2>. HIDE DEF H, O, G, er, em, or, om, ir, im, fr
  <2>2. Ledger(class, tx_seq, a, b, H, O, G, er, em, or, om + o, ir, im + 1, fr, backlog,
               backlog_len, late, badRtt)
    BY <1>1, Zenon DEF Rules, ForeignAtMirror
  <2>3. Books(a, b)'
    BY <1>3, <1>6, <1>8, <1>9, <2>1, <2>2, Zenon DEF Books, er, em, fr
  <2>. QED BY <1>4, <1>5, <1>8, <2>3 DEF Kept
<1>10. CASE n = ref
  <2>1. /\ stat'[ref].out_of_order_errors = or + o /\ stat'[ref].frame_id_errors = ir + 1
        /\ stat'[mir].out_of_order_errors = om /\ stat'[mir].frame_id_errors = im
    BY <1>3, <1>7, <1>10, RxNodes
  <2>2. PICK slot : backlog' = [backlog EXCEPT ![slot] = NONE]
    BY <1>3, <1>10, RxNodes
  <2>3. late' = late /\ badRtt' = badRtt + 1
    BY <1>3, <1>10, RxNodes
  <2>. DEFINE bk == backlog'
  <2>4. \A i \in 0 .. backlog_len - 1 : i # slot => bk[i] = backlog[i]
    BY <1>2, <2>2 DEF Typed
  <2>. HIDE DEF H, O, G, er, em, or, om, ir, im, fr, bk
  <2>5. Ledger(class, tx_seq, a, b, H, O, G, er, em, or + o, om, ir + 1, im, fr, bk,
               backlog_len, late, badRtt + 1)
    BY <1>1, <2>4, Zenon DEF Rules, ForeignAtReference
  <2>6. Books(a, b)'
    BY <1>3, <1>6, <1>8, <2>1, <2>3, <2>5, Zenon DEF Books, er, em, fr, bk
  <2>. QED BY <1>4, <1>5, <1>8, <2>6 DEF Kept
<1>. QED BY <1>9, <1>10, RxNodes

\* What is expected next is a natural.
LEMMA AfterNat ==
    ASSUME Rules, NEW cl, NEW e \in Nat, NEW s \in Nat
    PROVE  After(cl, e, s) \in Nat
<1>1. s % SeqMod \in Nat
  BY DEF Rules, SeqModOK
<1>. QED BY <1>1 DEF After

\* A frame comes home.
LEMMA OwnAtReference ==
    ASSUME Rules, Kept, Formed, NEW f \in AnyFrame, Received(ref, f), NEW s \in Nat, s = f.seq, s # NONE,
           buf' = buf, ring' = ring, faults' = faults, refused' = refused, Typed',
           rx_seq' = [rx_seq EXCEPT ![ref] = After(class, @, s)],
           stat'[ref].out_of_order_errors = stat[ref].out_of_order_errors + Late(rx_seq[ref], s),
           stat'[ref].frame_id_errors = stat[ref].frame_id_errors, stat'[mir] = stat[mir],
           backlog' = [backlog EXCEPT ![(s % SeqMod) % backlog_len] = NONE],
           late' = (late \/ tx_seq - s > backlog_len),
           badRtt' = badRtt + (IF backlog[(s % SeqMod) % backlog_len] = s THEN 0 ELSE 1)
    PROVE  Kept'
<1>0. PICK a \in Nat, b \in Nat : Books(a, b)
  BY Zenon DEF Kept
<1>. DEFINE H == HomeOf(Way)
            O == OutOf(Way)
            G == GoodOf(Way)
            er == rx_seq[ref]
            em == rx_seq[mir]
            or == stat[ref].out_of_order_errors
            om == stat[mir].out_of_order_errors
            ir == stat[ref].frame_id_errors
            im == stat[mir].frame_id_errors
            fr == faults + refused
            bk == backlog'
<1>1. Ledger(class, tx_seq, a, b, H, O, G, er, em, or, om, ir, im, fr, backlog, backlog_len,
             late, badRtt)
  BY <1>0, Zenon DEF Books
<1>2. Pulled(Way, Way', 1, f)
  BY ReceivedPulls, RxNodes, Zenon
<1>3. Lined(class, Way') /\ TakenHome(Way, Way', s)
  <2>1. Lined(class, Way) /\ 1 \in 1 .. 7
    BY DEF Kept
  <2>2. Lined(class, Way')
    BY <1>2, <2>1 DEF Rules, LineDrop
  <2>3. TakenHome(Way, Way', f.seq)
    BY <1>2, <2>1 DEF Rules, FirstHome
  <2>. QED BY <2>2, <2>3
<1>4. /\ s \in H /\ \A x \in H : s <= x
      /\ HomeOf(Way') = H \ {s} /\ OutOf(Way') = O /\ GoodOf(Way') = G
  BY <1>3 DEF TakenHome
<1>5. \A i \in 0 .. backlog_len - 1 : i # (s % SeqMod) % backlog_len => bk[i] = backlog[i]
  BY DEF Kept, Typed
<1>6. /\ rx_seq'[ref] = After(class, er, s) /\ rx_seq'[mir] = em
      /\ stat'[ref].out_of_order_errors = or + Late(er, s)
      /\ stat'[ref].frame_id_errors = ir /\ stat'[mir].out_of_order_errors = om
      /\ stat'[mir].frame_id_errors = im
  BY RxNodes DEF Kept, Typed
<1>7. class' = class /\ tx_seq' = tx_seq
  BY DEF Received
<1>. HIDE DEF H, O, G, er, em, or, om, ir, im, fr, bk
<1>8. Ledger(class, tx_seq, s + 1, b, H \ {s}, O, G, After(class, er, s), em,
             or + Late(er, s), om, ir, im, fr, bk, backlog_len,
             Overdue(late, tx_seq, s, backlog_len), badRtt + WrongTime(backlog, s, backlog_len))
  BY <1>1, <1>4, <1>5, Zenon DEF Rules, ReferenceCounts
<1>9. Books(s + 1, b)'
  BY <1>4, <1>6, <1>7, <1>8, Zenon DEF Books, fr, bk, Overdue, WrongTime
<1>10. s + 1 \in Nat
  BY NextNumber, Zenon
<1>. QED BY <1>3, <1>7, <1>9, <1>10, Zenon DEF Kept

\* The mirror takes a frame that it does not forward.
LEMMA MirrorDrops ==
    ASSUME Rules, Kept, Formed, NEW f \in AnyFrame, Received(mir, f), NEW s \in Nat, s = f.seq, s # NONE,
           buf' = buf, ring' = ring, faults' = faults, refused' = refused, Typed',
           s % SeqMod # rx_seq[mir] \/ ~ f.pay,
           rx_seq' = [rx_seq EXCEPT ![mir] = After(class, @, s)],
           stat'[mir].out_of_order_errors = stat[mir].out_of_order_errors + Late(rx_seq[mir], s),
           stat'[mir].frame_id_errors = stat[mir].frame_id_errors, stat'[ref] = stat[ref],
           backlog' = backlog, late' = late, badRtt' = badRtt
    PROVE  Kept'
<1>0. PICK a \in Nat, b \in Nat : Books(a, b)
  BY DEF Kept
<1>. DEFINE H == HomeOf(Way)
            O == OutOf(Way)
            G == GoodOf(Way)
            er == rx_seq[ref]
            em == rx_seq[mir]
            or == stat[ref].out_of_order_errors
            om == stat[mir].out_of_order_errors
            ir == stat[ref].frame_id_errors
            im == stat[mir].frame_id_errors
            fr == faults + refused
<1>1. Ledger(class, tx_seq, a, b, H, O, G, er, em, or, om, ir, im, fr, backlog, backlog_len,
             late, badRtt)
  BY <1>0, Zenon DEF Books
<1>2. Pulled(Way, Way', 5, f)
  BY ReceivedPulls, RxNodes, Zenon
<1>3. Lined(class, Way') /\ TakenOut(Way, Way', s) /\ (s \in GoodOf(Way) <=> f.pay)
  <2>1. Lined(class, Way) /\ 5 \in 1 .. 7
    BY DEF Kept
  <2>2. Lined(class, Way')
    BY <1>2, <2>1, Zenon DEF Rules, LineDrop
  <2>3. TakenOut(Way, Way', f.seq) /\ (f.seq \in GoodOf(Way) <=> f.pay)
    BY <1>2, <2>1, Zenon DEF Rules, FirstOut
  <2>. QED BY <2>2, <2>3, Zenon
<1>4. /\ s \in O /\ \A x \in O : s <= x
      /\ HomeOf(Way') = H /\ OutOf(Way') = O \ {s} /\ GoodOf(Way') = G \ {s}
      /\ s % SeqMod # em \/ s \notin G
  BY <1>3, Zenon DEF TakenOut
<1>6. /\ rx_seq'[mir] = After(class, em, s) /\ rx_seq'[ref] = er
      /\ stat'[mir].out_of_order_errors = om + Late(em, s)
      /\ stat'[mir].frame_id_errors = im /\ stat'[ref].out_of_order_errors = or
      /\ stat'[ref].frame_id_errors = ir
  BY RxNodes DEF Kept, Typed
<1>7. class' = class /\ tx_seq' = tx_seq
  BY Zenon DEF Received
<1>. HIDE DEF H, O, G, er, em, or, om, ir, im, fr
<1>8. Ledger(class, tx_seq, a, s + 1, H, O \ {s}, G \ {s}, er, After(class, em, s), or,
             om + Late(em, s), ir, im, fr, backlog, backlog_len, late, badRtt)
  BY <1>1, <1>4, Zenon DEF Rules, MirrorCounts
<1>9. Books(a, s + 1)'
  BY <1>4, <1>6, <1>7, <1>8, Zenon DEF Books, fr
<1>10. s + 1 \in Nat
  BY NextNumber, Zenon
<1>. QED BY <1>3, <1>7, <1>9, <1>10, Zenon DEF Kept

\* A frame of the reference is received.
LEMMA OwnKept ==
    ASSUME Rules, Kept, Formed, NEW n \in Nodes, NEW f \in AnyFrame, Received(n, f), Known(class, f),
           f.seq # NONE, NEW checks, "resync" \in checks <=> class # "dcp",
           check_frame(n, f, checks)
    PROVE  Kept'
<1>1. PICK s \in Nat : s = f.seq
  BY DEF Known
<1>2. Typed /\ late \in BOOLEAN
  BY Zenon DEF Kept, Books, Ledger, Measured
<1>0. CountedOwn(n, f, s)
  <2>1. s # NONE
    BY <1>1
  <2>. QED BY <1>1, <1>2, <2>1, CountOwn, Zenon
<1>3. /\ refused' = refused /\ stat' \in [Nodes -> Counters]
      /\ rx_seq' = [rx_seq EXCEPT ![n] = After(class, @, s)]
      /\ stat'[n].out_of_order_errors = stat[n].out_of_order_errors + Late(rx_seq[n], s)
      /\ stat'[n].frame_id_errors = stat[n].frame_id_errors
      /\ \A m \in Nodes : m # n => stat'[m] = stat[m]
      /\ n = mir => backlog' = backlog /\ late' = late /\ badRtt' = badRtt
      /\ n # mir => /\ backlog' = [backlog EXCEPT ![(s % SeqMod) % backlog_len] = NONE]
                    /\ late' = (late \/ tx_seq - s > backlog_len)
                    /\ badRtt' = badRtt
                         + (IF backlog[(s % SeqMod) % backlog_len] = s THEN 0 ELSE 1)
      /\ \/ /\ s % SeqMod # rx_seq[n] \/ ~ f.pay \/ n = ref
            /\ buf' = buf /\ ring' = ring /\ faults' = faults
         \/ /\ s % SeqMod = rx_seq[n] /\ f.pay /\ n # ref
            /\ \E g \in AnyFrame : /\ g.seq = s /\ Known(class, g)
                                   /\ lport_tx_buffer_add(n, g)
  BY <1>0, Zenon DEF CountedOwn
<1>4. faults' \in Nat => Typed'
  <2>1. rx_seq' \in [Nodes -> Nat]
    <3>1. rx_seq[n] \in Nat /\ rx_seq \in [Nodes -> Nat]
      BY <1>2 DEF Typed
    <3>2. After(class, rx_seq[n], s) \in Nat
      BY <3>1, AfterNat
    <3>. QED BY <1>3, <3>1, <3>2, Zenon
  <2>2. backlog' = backlog \/ \E slot : backlog' = [backlog EXCEPT ![slot] = NONE]
    <3>1. CASE n = mir
      BY <1>3, <3>1
    <3>2. CASE n # mir
      BY <1>3, <3>2
    <3>. QED BY <3>1, <3>2
  <2>. QED BY <1>2, <1>3, <2>1, <2>2, CountTyped, Zenon
<1>5. faults \in Nat
  BY <1>2 DEF Typed
<1>6. CASE n = ref
  <2>1. buf' = buf /\ ring' = ring /\ faults' = faults /\ Typed'
    BY <1>3, <1>4, <1>5, <1>6, Zenon
  <2>2. n # mir /\ stat'[mir] = stat[mir]
    BY <1>3, <1>6, RxNodes, Zenon
  <2>3. s # NONE
    BY <1>1
  <2>. QED BY <1>1, <1>3, <1>6, <2>1, <2>2, <2>3, OwnAtReference, Zenon
<1>7. CASE n = mir /\ buf' = buf /\ ring' = ring /\ faults' = faults
           /\ (s % SeqMod # rx_seq[n] \/ ~ f.pay)
  <2>1. Typed' /\ stat'[ref] = stat[ref] /\ s # NONE
    BY <1>1, <1>3, <1>4, <1>5, <1>7, RxNodes, Zenon
  <2>. QED BY <1>1, <1>3, <1>7, <2>1, MirrorDrops, Zenon
<1>8. ASSUME n = mir, s % SeqMod = rx_seq[n], f.pay, NEW g \in AnyFrame, g.seq = s,
             Known(class, g), lport_tx_buffer_add(n, g)
      PROVE  Kept'
  <2>1. /\ burst[mir] # <<>> /\ f = Head(burst[mir]) /\ burst' = [burst EXCEPT ![mir] = Tail(@)]
        /\ in' = in /\ class' = class /\ tx_seq' = tx_seq
    BY <1>8, Zenon DEF Received
  <2>2. stat'[ref] = stat[ref] /\ s # NONE
    BY <1>1, <1>3, <1>8, RxNodes, Zenon
  <2>. QED BY <1>1, <1>3, <1>4, <1>8, <2>1, <2>2, MirrorForwards, Zenon
<1>. QED BY <1>3, <1>6, <1>7, <1>8, RxNodes, Zenon

\* A receiver of class dcp that missed a number does not move on.
LEMMA RxStill ==
    ASSUME Rules, Kept, Formed, NEW n \in Nodes, RxFrame(n), class = "dcp", NoWrap, NEW m \in Nodes,
           stat[m].out_of_order_errors > 0
    PROVE  rx_seq'[m] = rx_seq[m]
<1>1. PICK f, checks :
             /\ f \in AnyFrame /\ Received(n, f) /\ Known(class, f) /\ f \in Elements(burst[n])
             /\ burst[n] \in Seq(AnyFrame) /\ ("resync" \in checks <=> class # "dcp")
             /\ \/ Refuse(n, f)
                \/ check_frame(n, f, checks) /\ f.seq # NONE
  BY RxIs, Zenon
<1>2. CASE Refuse(n, f)
  BY <1>2 DEF Refuse
<1>3. CASE check_frame(n, f, checks) /\ f.seq # NONE
  <2>1. PICK s \in Nat : s = f.seq
    BY <1>1, <1>3 DEF Known
  <2>2. Typed /\ late \in BOOLEAN
    BY Zenon DEF Kept, Books, Ledger, Measured
  <2>3. rx_seq' = [rx_seq EXCEPT ![n] = After(class, @, s)]
    <3>1. s # NONE
      BY <1>3, <2>1
    <3>2. CountedOwn(n, f, s)
      BY <1>1, <1>3, <2>1, <2>2, <3>1, CountOwn, Zenon
    <3>. QED BY <3>2, Zenon DEF CountedOwn
  <2>4. rx_seq \in [Nodes -> Nat]
    BY <2>2 DEF Typed
  <2>5. CASE m # n
    BY <2>3, <2>4, <2>5
  <2>6. CASE m = n
    <3>1. PICK a \in Nat, b \in Nat : Books(a, b)
      BY DEF Kept
    <3>. DEFINE H == HomeOf(Way)
                O == OutOf(Way)
    <3>2. /\ Stuck(class, tx_seq, H \cup O, rx_seq[ref], stat[ref].out_of_order_errors)
          /\ Stuck(class, tx_seq, O, rx_seq[mir], stat[mir].out_of_order_errors)
          /\ \E G, er, em : Placed(class, tx_seq, a, b, H, O, G, er, em)
      BY <3>1, Zenon DEF Books, Ledger
    <3>3. s \in Numbers(burst[n])
      <4>1. Numbers(burst[n]) = {e.seq : e \in Elements(burst[n])} \ {NONE}
        BY <1>1, Zenon DEF Rules, NumbersOf
      <4>. QED BY <1>1, <1>3, <2>1, <4>1, Zenon
    <3>4. (n = ref => s \in H) /\ (n = mir => s \in O)
      BY <3>3, RxWay DEF HomeOf, OutOf
    <3>. HIDE DEF H, O
    <3>5. rx_seq[n] < s
      <4>1. CASE n = ref
        BY <2>6, <3>2, <3>4, <4>1, Zenon DEF Stuck, NoWrap
      <4>2. CASE n = mir
        BY <2>6, <3>2, <3>4, <4>2 DEF Stuck, NoWrap
      <4>. QED BY <4>1, <4>2, RxNodes
    <3>6. s < tx_seq /\ tx_seq \in Nat
      <4>1. s \in H \cup O
        BY <3>4, RxNodes
      <4>2. /\ H \subseteq a .. b - 1 /\ O \subseteq b .. tx_seq - 1 /\ b <= tx_seq
            /\ tx_seq \in Nat
        BY <3>2 DEF Placed
      <4>. QED BY <4>1, <4>2
    <3>7. s % SeqMod = s
      <4>1. s < SeqMod /\ SeqMod \in Nat
        BY <3>6 DEF NoWrap, Rules, SeqModOK
      <4>. QED BY <4>1
    <3>8. rx_seq[n] \in Nat
      BY <2>4
    <3>9. After(class, rx_seq[n], s) = rx_seq[n]
      <4>1. s % SeqMod # rx_seq[n]
        BY <3>5, <3>7, <3>8
      <4>. QED BY <4>1 DEF After
    <3>. QED BY <2>3, <2>4, <2>6, <3>9
  <2>. QED BY <2>5, <2>6
<1>. QED BY <1>1, <1>2, <1>3, Zenon
=============================================================================

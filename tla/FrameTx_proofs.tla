--------------------------- MODULE FrameTx_proofs ---------------------------
(***************************************************************************)
(* The steps of the cable, of the receive bursts and of the transmitting   *)
(* threads keep the invariant of the frame exchange, given the rules of    *)
(* FrameRules.                                                             *)
(***************************************************************************)
EXTENDS FrameInvariant, TLAPS

\* A frame that the reference generates is a frame.
LEMMA FrameTyped == ASSUME NEW q \in Int PROVE Frame(q) \in AnyFrame
<1>1. (class \notin {"lldp", "udp"}) \in BOOLEAN
  OBVIOUS
<1>2. FramesPerCycle \in Nat \ {0} /\ CycleMod \in Nat \ {0}
  BY CounterAssumption
<1>3. q \div FramesPerCycle \in Int /\ q % FramesPerCycle \in Int
  BY <1>2
<1>4. (q \div FramesPerCycle) % CycleMod \in Int
  BY <1>2, <1>3
<1>5. sequence_counter_to_meta_data(q) \in Meta
  BY <1>3, <1>4 DEF sequence_counter_to_meta_data, Meta
<1>. QED BY <1>1, <1>5 DEF Frame, AnyFrame

\* A frame that may have been damaged is a frame.
LEMMA DamagedTyped ==
    ASSUME NEW f \in AnyFrame, NEW ok \in BOOLEAN
    PROVE  [f EXCEPT !.pay = @ /\ ok] \in AnyFrame
<1>1. (f.pay /\ ok) \in BOOLEAN
  OBVIOUS
<1>. QED BY <1>1 DEF AnyFrame

\* Another station's frame is a frame.
LEMMA ForeignTyped == ASSUME NEW kind PROVE ForeignFrame(kind) \in AnyFrame
<1>1. (kind = "other_id") \in BOOLEAN /\ (kind # "untagged") \in BOOLEAN
  OBVIOUS
<1>2. [cycle_counter |-> CycleMod - 1, frame_counter |-> 0] \in Meta
  BY CounterAssumption DEF Meta
<1>3. (IF kind = "tiny" THEN TINY ELSE IF kind = "other_id" THEN 0 ELSE 1) \in Int
  BY DEF TINY
<1>. QED BY <1>1, <1>2, <1>3 DEF AnyFrame, ForeignFrame, NONE

\* The two nodes, each the peer of the other.
LEMMA TxNodes ==
    /\ ref \in Nodes /\ mir \in Nodes /\ ref # mir
    /\ \A n \in Nodes : n = ref \/ n = mir
    /\ peer(ref) = mir /\ peer(mir) = ref
  BY DEF Nodes, ref, mir, peer

\* The seven queues of the way.
LEMMA TxWay ==
    /\ Way[1] = burst[ref] /\ Way[2] = in[ref] /\ Way[3] = ring[mir] /\ Way[4] = buf[mir]
    /\ Way[5] = burst[mir] /\ Way[6] = in[mir] /\ Way[7] = ring[ref]
    /\ Way'[1] = burst'[ref] /\ Way'[2] = in'[ref] /\ Way'[3] = ring'[mir]
    /\ Way'[4] = buf'[mir] /\ Way'[5] = burst'[mir] /\ Way'[6] = in'[mir] /\ Way'[7] = ring'[ref]
  BY DEF Way
-----------------------------------------------------------------------------
(* What leaves the books as they are *)

\* A single number is a run.
LEMMA RunOfOne ==
    ASSUME NEW U \in SUBSET Int, NEW V \in SUBSET U, NEW s, U \ V \subseteq {s}
    PROVE  Run(U, V)
<1>. SUFFICES ASSUME NEW x \in U \ V, NEW y \in U \ V, NEW z \in V, x < z, z < y PROVE FALSE
  BY DEF Run
<1>1. x = y /\ x \in Int /\ z \in Int
  OBVIOUS
<1>. QED BY <1>1

\* The numbers under way are integers.
LEMMA WayIntegers ==
    ASSUME Rules, NEW cl, NEW S, Lined(cl, S)
    PROVE  HomeOf(S) \subseteq Int /\ OutOf(S) \subseteq Int /\ GoodOf(S) \subseteq Int
<1>1. /\ 1 \in 1 .. 7 /\ 2 \in 1 .. 7 /\ 3 \in 1 .. 7 /\ 4 \in 1 .. 7
      /\ 5 \in 1 .. 7 /\ 6 \in 1 .. 7 /\ 7 \in 1 .. 7
  OBVIOUS
<1>2. HomeOf(S) \subseteq Int
  BY <1>1, Zenon DEF HomeOf, Rules, LinedQueue
<1>3. OutOf(S) \subseteq Int
  BY <1>1, Zenon DEF OutOf, Rules, LinedQueue
<1>. QED BY <1>2, <1>3 DEF Rules, GoodOut

\* A step that changes no set and no counter.
LEMMA NothingKept ==
    ASSUME Kept, Typed', Lined(class', Way'), SameSets(Way, Way'), SameCounters,
           faults' + refused' = faults + refused
    PROVE  Kept'
<1>1. PICK a \in Nat, b \in Nat : Books(a, b)
  BY DEF Kept
<1>2. Books(a, b)'
  BY <1>1, TxNodes DEF Books, SameSets, SameCounters
<1>. QED BY <1>2 DEF Kept

\* A step that only loses a run of frames, and counts a fault for it.
LEMMA LossKept ==
    ASSUME Rules, Kept, Typed', Lined(class', Way'), SameCounters,
           HomeOf(Way') \subseteq HomeOf(Way), OutOf(Way') \subseteq OutOf(Way),
           GoodOf(Way') \subseteq GoodOf(Way), Run(OutOf(Way), OutOf(Way')),
           Run(HomeOf(Way) \cup GoodOf(Way), HomeOf(Way') \cup GoodOf(Way')),
           faults' + refused' >= faults + refused + 1
    PROVE  Kept'
<1>1. PICK a \in Nat, b \in Nat : Books(a, b)
  BY DEF Kept
<1>2. faults' + refused' \in Nat
  <2>1. faults' \in Nat /\ refused' \in Nat
    BY Zenon DEF Typed
  <2>2. \A x, y \in Nat : x + y \in Nat
    OBVIOUS
  <2>. QED BY <2>1, <2>2, Zenon
<1>3. GoodOf(Way') \subseteq OutOf(Way')
  BY DEF Rules, GoodOut
<1>4. Ledger(class, tx_seq, a, b, HomeOf(Way), OutOf(Way), GoodOf(Way), rx_seq[ref], rx_seq[mir],
           stat[ref].out_of_order_errors, stat[mir].out_of_order_errors,
           stat[ref].frame_id_errors, stat[mir].frame_id_errors,
           faults + refused, backlog, backlog_len, late, badRtt)
  BY <1>1 DEF Books
<1>5. Ledger(class, tx_seq, a, b, HomeOf(Way'), OutOf(Way'), GoodOf(Way'), rx_seq[ref], rx_seq[mir],
           stat[ref].out_of_order_errors, stat[mir].out_of_order_errors,
           stat[ref].frame_id_errors, stat[mir].frame_id_errors,
           faults' + refused', backlog, backlog_len, late, badRtt)
  BY <1>2, <1>3, <1>4, Zenon DEF Rules, LossStep
<1>6. Books(a, b)'
  BY <1>5, TxNodes DEF Books, SameCounters
<1>. QED BY <1>6 DEF Kept

\* A step that leaves what the receivers keep.
LEMMA TypedSame ==
    ASSUME Typed, class' = class, stat' = stat, rx_seq' = rx_seq, backlog' = backlog,
           adj' = adj, faults' \in Nat, refused' \in Nat
    PROVE  Typed'
  BY DEF Typed

\* A stuttering step.
LEMMA StutterKept == ASSUME Kept, UNCHANGED vars PROVE Kept'
<1>1. /\ class' = class /\ tx_seq' = tx_seq /\ rx_seq' = rx_seq /\ buf' = buf /\ ring' = ring
      /\ in' = in /\ burst' = burst /\ adj' = adj /\ stat' = stat /\ backlog' = backlog
      /\ faults' = faults /\ refused' = refused /\ late' = late /\ badRtt' = badRtt
  BY DEF vars
<1>2. Way' = Way
  BY <1>1 DEF Way
<1>3. Typed'
  BY <1>1, TypedSame DEF Kept, Typed
<1>4. Lined(class', Way') /\ SameSets(Way, Way')
  BY <1>1, <1>2 DEF Kept, SameSets
<1>5. SameCounters /\ faults' + refused' = faults + refused
  BY <1>1 DEF SameCounters
<1>. QED BY <1>3, <1>4, <1>5, NothingKept

\* The mbufs of dropped frames are freed.
LEMMA FreeKept == ASSUME Kept, NEW n \in Nodes, free_dropped(n) PROVE Kept'
<1>1. Typed'
  BY TypedSame DEF Kept, Typed, free_dropped
<1>2. Way' = Way
  BY DEF free_dropped, Way
<1>3. Lined(class', Way') /\ SameSets(Way, Way')
  BY <1>2 DEF Kept, free_dropped, SameSets
<1>4. SameCounters /\ faults' + refused' = faults + refused
  BY DEF free_dropped, SameCounters
<1>. QED BY <1>1, <1>3, <1>4, NothingKept
-----------------------------------------------------------------------------
(* The receive bursts and the cable *)

\* A node polls its port.
LEMMA PollKept == ASSUME Rules, Kept, Formed, NEW n \in Nodes, lport_process_pkts(n) PROVE Kept'
<1>1. SameCounters /\ faults' = faults /\ refused' = refused /\ stat' = stat
  BY DEF lport_process_pkts, SameCounters
<1>2. Typed'
  <2>1. adj' \in [Nodes -> Int] /\ (class \in {"lldp", "udp"} => \A m \in Nodes : adj'[m] = 0)
    BY DEF lport_process_pkts, Kept, Typed
  <2>. QED BY <1>1, <2>1 DEF Kept, Typed, SameCounters
<1>3. CASE in' = in /\ burst' = burst
  <2>1. Way' = Way
    BY <1>3 DEF lport_process_pkts, Way
  <2>2. Lined(class', Way') /\ SameSets(Way, Way')
    BY <1>1, <2>1 DEF Kept, SameSets, SameCounters
  <2>. QED BY <1>1, <1>2, <2>2, NothingKept
<1>4. ASSUME NEW k \in 1 .. Len(in[n]), burst' = [burst EXCEPT ![n] = SubSeq(in[n], 1, k)],
             in' = [in EXCEPT ![n] = SubSeq(@, k + 1, Len(@))]
      PROVE  Kept'
  <2>1. burst[n] = <<>> /\ ring' = ring /\ buf' = buf
    BY DEF lport_process_pkts, Idle
  <2>2. k \in 0 .. Len(in[n])
    OBVIOUS
  <2>3. /\ burst'[n] = SubSeq(in[n], 1, k) /\ in'[n] = SubSeq(in[n], k + 1, Len(in[n]))
        /\ \A m \in Nodes : m # n => burst'[m] = burst[m] /\ in'[m] = in[m]
    BY <1>4 DEF Formed
  <2>4. CASE n = ref
    <3>1. Parted(Way, Way', 1, 2, k)
      <4>1. SameBut(Way, Way', 1, 2)
        BY <2>1, <2>3, <2>4, TxWay, TxNodes DEF SameBut
      <4>. QED BY <2>1, <2>2, <2>3, <2>4, <4>1, TxWay DEF Parted
    <3>2. 1 \in {1, 5} /\ 2 = 1 + 1
      OBVIOUS
    <3>3. Lined(class, Way') /\ SameSets(Way, Way')
      BY <3>1, <3>2 DEF Kept, Rules, PartSets
    <3>. QED BY <1>1, <1>2, <3>3, NothingKept DEF SameCounters
  <2>5. CASE n = mir
    <3>1. Parted(Way, Way', 5, 6, k)
      <4>1. SameBut(Way, Way', 5, 6)
        BY <2>1, <2>3, <2>5, TxWay, TxNodes DEF SameBut
      <4>. QED BY <2>1, <2>2, <2>3, <2>5, <4>1, TxWay DEF Parted
    <3>2. 5 \in {1, 5} /\ 6 = 5 + 1
      OBVIOUS
    <3>3. Lined(class, Way') /\ SameSets(Way, Way')
      BY <3>1, <3>2, Zenon DEF Kept, Rules, PartSets
    <3>. QED BY <1>1, <1>2, <3>3, NothingKept DEF SameCounters
  <2>. QED BY <2>4, <2>5, TxNodes
<1>. QED BY <1>3, <1>4 DEF lport_process_pkts

\* A frame of another station arrives.
LEMMA ArriveKept ==
    ASSUME Rules, Kept, Formed, NEW n \in Nodes, NEW kind \in Foreign, Arrive(n, kind)
    PROVE  Kept'
<1>. DEFINE f == ForeignFrame(kind)
<1>1. SameCounters /\ faults' = faults /\ refused' = refused /\ stat' = stat /\ adj' = adj
  BY DEF Arrive, SameCounters
<1>2. Typed'
  BY <1>1 DEF Kept, Typed, SameCounters
<1>3. f \in AnyFrame /\ f.seq = NONE
  BY ForeignTyped DEF ForeignFrame
<1>4. Known(class, f)
  <2>1. kind \in {"tiny", "other_type", "untagged", "other_id"}
    BY ExchangeAssumption
  <2>2. ~ f.id /\ (f.type => kind = "other_id") /\ (~ f.type => f.short # 0)
    <3>0. ~ f.id /\ (kind # "other_id" => ~ f.type)
      BY Zenon DEF ForeignFrame
    <3>1. CASE kind = "tiny"
      <4>1. f.short = TINY
        BY <3>1 DEF ForeignFrame
      <4>. QED BY <3>0, <3>1, <4>1 DEF TINY
    <3>2. CASE kind \in {"other_type", "untagged"}
      <4>1. f.short = 1
        BY <3>2 DEF ForeignFrame
      <4>. QED BY <3>0, <3>2, <4>1
    <3>3. CASE kind = "other_id"
      BY <3>3, Zenon DEF ForeignFrame
    <3>. QED BY <2>1, <3>1, <3>2, <3>3
  <2>3. f.type => class \in {"tsn", "rtc", "rta"}
    BY <2>2 DEF Arrive
  <2>. QED BY <1>3, <2>2, <2>3 DEF Known
<1>5. /\ in'[n] = Append(in[n], f) /\ ring' = ring /\ buf' = buf /\ burst' = burst
      /\ \A m \in Nodes : m # n => in'[m] = in[m]
  BY DEF Arrive, Formed
<1>. HIDE DEF f
<1>6. CASE n = ref
  <2>1. Added(Way, Way', 2, f)
    <3>1. SameBut(Way, Way', 2, 2)
      BY <1>5, <1>6, TxWay, TxNodes DEF SameBut
    <3>. QED BY <1>5, <1>6, <3>1, TxWay DEF Added
  <2>2. 2 \in {2, 6}
    OBVIOUS
  <2>3. Lined(class, Way') /\ SameSets(Way, Way')
    BY <1>3, <1>4, <2>1, <2>2 DEF Kept, Rules, AddSets
  <2>. QED BY <1>1, <1>2, <2>3, NothingKept DEF SameCounters
<1>7. CASE n = mir
  <2>1. Added(Way, Way', 6, f)
    <3>1. SameBut(Way, Way', 6, 6)
      BY <1>5, <1>7, TxWay, TxNodes DEF SameBut
    <3>. QED BY <1>5, <1>7, <3>1, TxWay DEF Added
  <2>2. 6 \in {2, 6}
    OBVIOUS
  <2>3. Lined(class, Way') /\ SameSets(Way, Way')
    BY <1>3, <1>4, <2>1, <2>2 DEF Kept, Rules, AddSets
  <2>. QED BY <1>1, <1>2, <2>3, NothingKept DEF SameCounters
<1>. QED BY <1>6, <1>7, TxNodes

\* A frame of queue c goes lost.
LEMMA DropKept ==
    ASSUME Rules, Kept, Typed', SameCounters, NEW c \in 1 .. 7, NEW f, Pulled(Way, Way', c, f),
           \/ f.seq # NONE /\ faults' + refused' >= faults + refused + 1
           \/ f.seq = NONE /\ faults' + refused' = faults + refused
    PROVE  Kept'
<1>. DEFINE S == Way
            T == Way'
<1>1. Lined(class, S)
  BY DEF Kept
<1>. HIDE DEF S, T
<1>2. Pulled(S, T, c, f)
  BY DEF S, T
<1>3. Lined(class, T)
  BY <1>1, <1>2 DEF Rules, LineDrop
<1>4. c <= 4 => HomeOf(S) = Own(f) \cup HomeOf(T) /\ OutOf(T) = OutOf(S) /\ GoodOf(T) = GoodOf(S)
  BY <1>1, <1>2 DEF Rules, DropSets
<1>5. c > 4 => /\ HomeOf(T) = HomeOf(S) /\ OutOf(S) = Own(f) \cup OutOf(T)
               /\ GoodOf(S) = Fit(f) \cup GoodOf(T)
  BY <1>1, <1>2 DEF Rules, DropSets
<1>6. /\ HomeOf(T) \subseteq HomeOf(S) /\ HomeOf(S) \subseteq Own(f) \cup HomeOf(T)
      /\ OutOf(T) \subseteq OutOf(S) /\ OutOf(S) \subseteq Own(f) \cup OutOf(T)
      /\ GoodOf(T) \subseteq GoodOf(S) /\ GoodOf(S) \subseteq Own(f) \cup GoodOf(T)
  <2>1. Fit(f) \subseteq Own(f)
    BY DEF Fit
  <2>. QED BY <1>4, <1>5, <2>1
<1>7. Own(f) \subseteq {f.seq} /\ (f.seq = NONE => Own(f) = {})
  BY DEF Own
<1>8. CASE f.seq = NONE
  <2>1. SameSets(S, T)
    BY <1>6, <1>7, <1>8 DEF SameSets
  <2>2. Lined(class', Way') /\ SameSets(Way, Way')
    BY <1>3, <2>1 DEF S, T, SameCounters
  <2>. QED BY <1>8, <2>2, NothingKept
<1>9. CASE f.seq # NONE
  <2>1. HomeOf(S) \subseteq Int /\ OutOf(S) \subseteq Int /\ GoodOf(S) \subseteq Int
    BY <1>1, WayIntegers
  <2>2. Run(OutOf(S), OutOf(T))
    <3>1. OutOf(S) \ OutOf(T) \subseteq {f.seq}
      BY <1>6, <1>7
    <3>. QED BY <1>6, <2>1, <3>1, RunOfOne
  <2>3. Run(HomeOf(S) \cup GoodOf(S), HomeOf(T) \cup GoodOf(T))
    <3>1. (HomeOf(S) \cup GoodOf(S)) \ (HomeOf(T) \cup GoodOf(T)) \subseteq {f.seq}
      BY <1>6, <1>7
    <3>2. HomeOf(S) \cup GoodOf(S) \in SUBSET Int
      BY <2>1
    <3>3. HomeOf(T) \cup GoodOf(T) \in SUBSET (HomeOf(S) \cup GoodOf(S))
      BY <1>6
    <3>. QED BY <3>1, <3>2, <3>3, RunOfOne
  <2>4. Lined(class', Way')
    BY <1>3 DEF T, SameCounters
  <2>. QED BY <1>6, <1>9, <2>2, <2>3, <2>4, LossKept DEF S, T
<1>. QED BY <1>8, <1>9

\* A frame is lost on the cable, or for want of an mbuf.
LEMMA LoseKept == ASSUME Rules, Kept, Formed, NEW n \in Nodes, Lose(n) PROVE Kept'
<1>1. /\ SameCounters /\ faults' = faults + 1 /\ refused' = refused /\ stat' = stat /\ adj' = adj
      /\ ring[n] # <<>> /\ buf' = buf /\ in' = in /\ burst' = burst
  BY DEF Lose, SameCounters
<1>2. faults \in Nat /\ refused \in Nat
  BY DEF Kept, Typed
<1>3. Typed'
  <2>1. faults' \in Nat /\ refused' \in Nat
    BY <1>1, <1>2
  <2>. QED BY <1>1, <2>1, TypedSame DEF Kept, SameCounters
<1>4. ring'[n] = Tail(ring[n]) /\ \A m \in Nodes : m # n => ring'[m] = ring[m]
  BY DEF Lose, Sent, Formed
<1>5. faults' + refused' >= faults + refused + 1
  BY <1>1, <1>2
<1>6. ASSUME NEW c \in {3, 7}, NEW f, Pulled(Way, Way', c, f) PROVE Kept'
  <2>1. f.seq # NONE
    <3>1. Lined(class, Way) /\ c \in 1 .. 7 /\ c \in {3, 4, 7}
      BY DEF Kept
    <3>2. Queue(class, c, Way[c])
      BY <3>1 DEF Lined
    <3>3. f \in Elements(Way[c])
      BY <1>6, <3>2 DEF Queue, Pulled, Rules, TailQueue
    <3>. QED BY <3>1, <3>2, <3>3 DEF Queue
  <2>2. c \in 1 .. 7
    OBVIOUS
  <2>. QED BY <1>1, <1>3, <1>5, <1>6, <2>1, <2>2, DropKept
<1>7. CASE n = ref
  <2>1. Pulled(Way, Way', 7, Head(ring[ref]))
    <3>1. SameBut(Way, Way', 7, 7)
      BY <1>1, <1>4, <1>7, TxWay, TxNodes DEF SameBut
    <3>. QED BY <1>1, <1>4, <1>7, <3>1, TxWay DEF Pulled
  <2>. QED BY <1>6, <2>1
<1>8. CASE n = mir
  <2>1. Pulled(Way, Way', 3, Head(ring[mir]))
    <3>1. SameBut(Way, Way', 3, 3)
      BY <1>1, <1>4, <1>8, TxWay, TxNodes DEF SameBut
    <3>. QED BY <1>1, <1>4, <1>8, <3>1, TxWay DEF Pulled
  <2>. QED BY <1>6, <2>1
<1>. QED BY <1>7, <1>8, TxNodes

\* The frame that crosses the cable keeps its number.
Crosses(cl, h, f, ok) ==
    /\ f \in AnyFrame /\ Known(cl, f) /\ f.seq = h.seq /\ f.seq # NONE
    /\ f.pay => h.pay
    /\ ok => (h.pay => f.pay)

\* What the cable delivers is still known.
LEMMA CrossesKnown ==
    ASSUME NEW cl, NEW h \in AnyFrame, Known(cl, h), h.seq # NONE, NEW ok \in BOOLEAN
    PROVE  Crosses(cl, h, [h EXCEPT !.pay = @ /\ ok], ok)
<1>. DEFINE f == [h EXCEPT !.pay = @ /\ ok]
<1>3. f \in AnyFrame
  BY DamagedTyped
<1>4. /\ f.seq = h.seq /\ f.meta = h.meta /\ f.id = h.id
      /\ f.pay = (h.pay /\ ok)
  BY DEF AnyFrame
<1>5. Known(cl, f)
  BY <1>4 DEF Known
<1>6. f.pay => h.pay
  BY <1>4, Zenon
<1>7. ok => (h.pay => f.pay)
  BY <1>4, Zenon
<1>. HIDE DEF f
<1>8. Crosses(cl, h, f, ok)
  BY <1>3, <1>4, <1>5, <1>6, <1>7 DEF Crosses
<1>. QED BY <1>8 DEF f

\* A frame crosses the cable.
LEMMA DeliverKept == ASSUME Rules, Kept, Formed, NEW n \in Nodes, Deliver(n) PROVE Kept'
<1>0. PICK ok \in BOOLEAN :
        /\ faults' = IF ok THEN faults ELSE faults + 1
        /\ in' = [in EXCEPT ![peer(n)] =
                     Append(@, [Head(ring[n]) EXCEPT !.pay = @ /\ ok])]
  BY Zenon DEF Deliver
<1>. DEFINE h == Head(ring[n])
            f == [h EXCEPT !.pay = @ /\ ok]
<1>1. /\ SameCounters /\ refused' = refused /\ stat' = stat /\ adj' = adj
      /\ ring[n] # <<>> /\ buf' = buf /\ burst' = burst
  BY DEF Deliver, SameCounters
<1>2. faults \in Nat /\ refused \in Nat
  BY DEF Kept, Typed
<1>3. Typed'
  <2>1. faults' \in Nat /\ refused' \in Nat
    BY <1>0, <1>1, <1>2
  <2>. QED BY <1>1, <2>1, TypedSame DEF Kept, SameCounters
<1>4. ring'[n] = Tail(ring[n]) /\ \A m \in Nodes : m # n => ring'[m] = ring[m]
  BY DEF Deliver, Sent, Formed
<1>5. in'[peer(n)] = Append(in[peer(n)], f) /\ \A m \in Nodes : m # peer(n) => in'[m] = in[m]
  BY <1>0, TxNodes, Zenon DEF Formed
<1>6. Lined(class, Way)
  BY DEF Kept
<1>7. h \in AnyFrame /\ Known(class, h) /\ h.seq # NONE
  <2>. DEFINE c == IF n = ref THEN 7 ELSE 3
  <2>1. c \in 1 .. 7 /\ c \in {3, 4, 7}
    OBVIOUS
  <2>2. Way[c] = ring[n]
    BY TxWay, TxNodes
  <2>. HIDE DEF c
  <2>3. Queue(class, c, ring[n])
    BY <1>6, <2>1, <2>2 DEF Lined
  <2>4. h \in AnyFrame /\ h \in Elements(ring[n])
    BY <1>1, <2>3 DEF Queue, Rules, TailQueue
  <2>. QED BY <2>1, <2>3, <2>4 DEF Queue
<1>. HIDE DEF h
<1>8. /\ f \in AnyFrame /\ Known(class, f) /\ f.seq = h.seq /\ f.seq # NONE
      /\ f.pay => h.pay
      /\ ok => (h.pay => f.pay)
  <2>1. Crosses(class, h, f, ok)
    BY <1>7, CrossesKnown
  <2>. HIDE DEF f
  <2>. QED BY <2>1 DEF Crosses
<1>. HIDE DEF f
<1>9. \/ ok /\ faults' + refused' = faults + refused
      \/ ~ ok /\ faults' + refused' >= faults + refused + 1
  BY <1>0, <1>1, <1>2
<1>10. HomeOf(Way) \subseteq Int /\ OutOf(Way) \subseteq Int /\ GoodOf(Way) \subseteq Int
  BY <1>6, WayIntegers
<1>11. ASSUME Lined(class, Way'), HomeOf(Way') = HomeOf(Way), OutOf(Way') = OutOf(Way),
              GoodOf(Way') \subseteq GoodOf(Way), GoodOf(Way) \subseteq GoodOf(Way') \cup {f.seq},
              ok => GoodOf(Way') = GoodOf(Way)
       PROVE  Kept'
  <2>0. Lined(class', Way')
    BY <1>1, <1>11 DEF SameCounters
  <2>1. CASE ok
    <3>1. SameSets(Way, Way')
      BY <1>11, <2>1 DEF SameSets
    <3>2. faults' + refused' = faults + refused
      BY <1>9, <2>1
    <3>. QED BY <1>1, <1>3, <2>0, <3>1, <3>2, NothingKept
  <2>2. CASE ~ ok
    <3>1. faults' + refused' >= faults + refused + 1
      BY <1>9, <2>2
    <3>2. Run(OutOf(Way), OutOf(Way'))
      BY <1>11 DEF Run
    <3>3. Run(HomeOf(Way) \cup GoodOf(Way), HomeOf(Way') \cup GoodOf(Way'))
      <4>1. (HomeOf(Way) \cup GoodOf(Way)) \ (HomeOf(Way') \cup GoodOf(Way')) \subseteq {f.seq}
        BY <1>11
      <4>2. HomeOf(Way) \cup GoodOf(Way) \in SUBSET Int
        BY <1>10
      <4>3. HomeOf(Way') \cup GoodOf(Way') \in SUBSET (HomeOf(Way) \cup GoodOf(Way))
        BY <1>11
      <4>. QED BY <4>1, <4>2, <4>3, RunOfOne
    <3>4. HomeOf(Way') \subseteq HomeOf(Way) /\ OutOf(Way') \subseteq OutOf(Way)
      BY <1>11
    <3>. QED BY <1>1, <1>3, <1>11, <2>0, <3>1, <3>2, <3>3, <3>4, LossKept
  <2>. QED BY <2>1, <2>2
<1>12. CASE n = ref
  <2>1. Moved(Way, Way', 6, 7, h, f)
    <3>1. SameBut(Way, Way', 6, 7)
      BY <1>1, <1>4, <1>5, <1>12, TxWay, TxNodes DEF SameBut
    <3>2. Way'[6] = Append(Way[6], f) /\ Way'[7] = Tail(Way[7])
      BY <1>4, <1>5, <1>12, TxWay, TxNodes
    <3>3. Way[7] # <<>> /\ h = Head(Way[7])
      BY <1>1, <1>12, TxWay DEF h
    <3>. QED BY <3>1, <3>2, <3>3 DEF Moved
  <2>2. Lined(class, Way') /\ Crossed(Way, Way', h, f)
    BY <1>6, <1>8, <2>1 DEF Rules, MoveOut
  <2>3. /\ HomeOf(Way') = HomeOf(Way) /\ OutOf(Way') = OutOf(Way)
        /\ GoodOf(Way') \subseteq GoodOf(Way) /\ GoodOf(Way) \subseteq GoodOf(Way') \cup {f.seq}
        /\ ok => GoodOf(Way') = GoodOf(Way)
    BY <1>8, <2>2 DEF Crossed
  <2>. QED BY <1>11, <2>2, <2>3
<1>13. CASE n = mir
  <2>1. Moved(Way, Way', 2, 3, h, f)
    <3>1. SameBut(Way, Way', 2, 3)
      BY <1>1, <1>4, <1>5, <1>13, TxWay, TxNodes DEF SameBut
    <3>2. Way'[2] = Append(Way[2], f) /\ Way'[3] = Tail(Way[3])
      BY <1>4, <1>5, <1>13, TxWay, TxNodes
    <3>3. Way[3] # <<>> /\ h = Head(Way[3])
      BY <1>1, <1>13, TxWay DEF h
    <3>. QED BY <3>1, <3>2, <3>3 DEF Moved
  <2>2. Lined(class, Way') /\ SameSets(Way, Way')
    BY <1>6, <1>8, <2>1 DEF Rules, MoveHome
  <2>. QED BY <1>11, <2>2 DEF SameSets
<1>. QED BY <1>12, <1>13, TxNodes
-----------------------------------------------------------------------------
(* Frames that a node refuses *)

\* Taking a frame out of the burst takes it out of the line.
LEMMA RefusedPulls ==
    ASSUME Formed, NEW n \in Nodes, NEW f, Received(n, f), buf' = buf, ring' = ring
    PROVE  /\ n = ref => Pulled(Way, Way', 1, f)
           /\ n = mir => Pulled(Way, Way', 5, f)
<1>1. /\ burst[n] # <<>> /\ f = Head(burst[n]) /\ burst'[n] = Tail(burst[n]) /\ in' = in
      /\ \A m \in Nodes : m # n => burst'[m] = burst[m]
  BY DEF Received, Formed
<1>2. CASE n = ref
  <2>1. SameBut(Way, Way', 1, 1)
    BY <1>1, <1>2, TxWay, TxNodes DEF SameBut
  <2>2. Pulled(Way, Way', 1, f)
    BY <1>1, <1>2, <2>1, TxWay DEF Pulled
  <2>. QED BY <1>2, <2>2, TxNodes
<1>3. CASE n = mir
  <2>1. SameBut(Way, Way', 5, 5)
    BY <1>1, <1>3, TxWay, TxNodes DEF SameBut
  <2>2. Pulled(Way, Way', 5, f)
    BY <1>1, <1>3, <2>1, TxWay DEF Pulled
  <2>. QED BY <1>3, <2>2, TxNodes
<1>. QED BY <1>2, <1>3, TxNodes

\* A frame that is refused is lost.
LEMMA RefuseKept ==
    ASSUME Rules, Kept, Formed, NEW n \in Nodes, NEW f, Received(n, f), Refuse(n, f)
    PROVE  Kept'
<1>1. /\ buf' = buf /\ ring' = ring /\ stat' = stat /\ faults' = faults /\ SameCounters
      /\ rx_seq' = rx_seq /\ backlog' = backlog
      /\ refused' = IF f.seq = NONE THEN refused ELSE refused + 1
  BY DEF Refuse, drop, Received, SameCounters
<1>2. faults \in Nat /\ refused \in Nat
  BY DEF Kept, Typed
<1>3. Typed'
  <2>1. refused' \in Nat
    BY <1>1, <1>2
  <2>. QED BY <1>1, <2>1 DEF Kept, Typed, Received
<1>4. \/ f.seq # NONE /\ faults' + refused' >= faults + refused + 1
      \/ f.seq = NONE /\ faults' + refused' = faults + refused
  <2>1. CASE f.seq = NONE
    BY <1>1, <2>1
  <2>2. CASE f.seq # NONE
    BY <1>1, <1>2, <2>2
  <2>. QED BY <2>1, <2>2
<1>5. 1 \in 1 .. 7 /\ 5 \in 1 .. 7
  OBVIOUS
<1>6. CASE n = ref
  <2>1. Pulled(Way, Way', 1, f)
    BY <1>1, <1>6, RefusedPulls
  <2>. QED BY <1>1, <1>3, <1>4, <1>5, <2>1, DropKept
<1>7. CASE n = mir
  <2>1. Pulled(Way, Way', 5, f)
    BY <1>1, <1>7, RefusedPulls
  <2>. QED BY <1>1, <1>3, <1>4, <1>5, <2>1, DropKept
<1>. QED BY <1>6, <1>7, TxNodes
-----------------------------------------------------------------------------
(* The transmit ring and the rounds *)

\* Sending counts no error.
LEMMA SentStat ==
    ASSUME stat \in [Nodes -> Counters], NEW n \in Nodes, NEW k \in Nat, stat_frame_sent(n, k)
    PROVE  /\ stat' \in [Nodes -> Counters]
           /\ \A m \in Nodes : /\ stat'[m].out_of_order_errors = stat[m].out_of_order_errors
                               /\ stat'[m].frame_id_errors = stat[m].frame_id_errors
<1>1. stat[n] \in Counters
  OBVIOUS
<1>2. PICK u \in Nat : u = stat[n].frames_sent + k
  BY <1>1 DEF Counters
<1>. DEFINE r == [stat[n] EXCEPT !.frames_sent = u]
<1>3. stat' = [stat EXCEPT ![n] = r]
  BY <1>2 DEF stat_frame_sent
<1>4. /\ r \in Counters /\ r.out_of_order_errors = stat[n].out_of_order_errors
      /\ r.frame_id_errors = stat[n].frame_id_errors
  BY <1>1 DEF Counters
<1>. HIDE DEF r
<1>. QED BY <1>3, <1>4

\* The end of the mirror's buffer goes lost.
LEMMA UnsentKept ==
    ASSUME Rules, Kept, Typed', SameCounters, refused' = refused, NEW k, Joined(Way, Way', 3, 4, k),
           faults' = faults + (Len(buf[mir]) - k)
    PROVE  Kept'
<1>1. Lined(class, Way)
  BY DEF Kept
<1>2. /\ Lined(class, Way') /\ HomeOf(Way') \subseteq HomeOf(Way)
      /\ OutOf(Way') = OutOf(Way) /\ GoodOf(Way') = GoodOf(Way)
      /\ \A x \in HomeOf(Way) \ HomeOf(Way'), z \in HomeOf(Way') : z < x
      /\ k = Len(Way[4]) => HomeOf(Way') = HomeOf(Way)
  BY <1>1 DEF Rules, JoinSets
<1>3. Len(Way[4]) = Len(buf[mir]) /\ k \in 0 .. Len(Way[4]) /\ Len(Way[4]) \in Nat
  <2>1. Len(Way[4]) = Len(buf[mir]) /\ k \in 0 .. Len(Way[4])
    BY TxWay DEF Joined
  <2>2. 4 \in 1 .. 7
    OBVIOUS
  <2>3. Way[4] \in Seq(AnyFrame)
    BY <1>1, <2>2, Zenon DEF Rules, LinedQueue
  <2>. QED BY <2>1, <2>3
<1>4. Lined(class', Way')
  BY <1>2 DEF SameCounters
<1>5. faults \in Nat /\ refused \in Nat
  BY DEF Kept, Typed
<1>6. CASE k = Len(buf[mir])
  <2>1. SameSets(Way, Way')
    BY <1>2, <1>3, <1>6 DEF SameSets
  <2>2. faults' + refused' = faults + refused
    BY <1>3, <1>5, <1>6
  <2>. QED BY <1>4, <2>1, <2>2, NothingKept
<1>7. CASE k < Len(buf[mir])
  <2>1. faults' + refused' >= faults + refused + 1
    BY <1>3, <1>5, <1>7
  <2>2. Run(OutOf(Way), OutOf(Way'))
    BY <1>2 DEF Run
  <2>. DEFINE S == Way
              T == Way'
  <2>3. HomeOf(S) \subseteq Int /\ OutOf(S) \subseteq Int /\ GoodOf(S) \subseteq Int
    BY <1>1, WayIntegers
  <2>4. \A x \in HomeOf(S), y \in GoodOf(S) : x < y
    <3>1. PICK a \in Nat, b \in Nat : Books(a, b)
      BY DEF Kept
    <3>2. \E tx, er, em : Placed(class, tx, a, b, HomeOf(S), OutOf(S), GoodOf(S), er, em)
      BY <3>1, Zenon DEF Books, Ledger
    <3>. QED BY <3>2 DEF Placed
  <2>5. Run(HomeOf(S) \cup GoodOf(S), HomeOf(T) \cup GoodOf(T))
    <3>1. /\ HomeOf(T) \subseteq HomeOf(S) /\ GoodOf(T) = GoodOf(S)
          /\ \A x \in HomeOf(S) \ HomeOf(T), z \in HomeOf(T) : z < x
      BY <1>2
    <3>. HIDE DEF S, T
    <3>. SUFFICES ASSUME NEW x \in (HomeOf(S) \cup GoodOf(S)) \ (HomeOf(T) \cup GoodOf(T)),
                         NEW y \in (HomeOf(S) \cup GoodOf(S)) \ (HomeOf(T) \cup GoodOf(T)),
                         NEW z \in HomeOf(T) \cup GoodOf(T), x < z, z < y
                  PROVE  FALSE
      BY DEF Run
    <3>2. x \in HomeOf(S) \ HomeOf(T) /\ y \in HomeOf(S) \ HomeOf(T)
      BY <3>1
    <3>3. x \in Int /\ y \in Int /\ z \in Int
      BY <2>3, <3>1, <3>2
    <3>4. CASE z \in HomeOf(T)
      BY <3>1, <3>2, <3>3, <3>4
    <3>5. CASE z \in GoodOf(T)
      BY <2>4, <3>1, <3>2, <3>3, <3>5
    <3>. QED BY <3>4, <3>5
  <2>. QED BY <1>2, <1>4, <2>1, <2>2, <2>5, LossKept
<1>. QED BY <1>3, <1>6, <1>7

\* The mirror flushes its buffer.
LEMMA SendKept == ASSUME Rules, Kept, Formed, send_frames_common PROVE Kept'
<1>1. PICK k \in 0 .. Len(buf[mir]) :
        /\ ring' = [ring EXCEPT ![mir] = @ \o SubSeq(buf[mir], 1, k)]
        /\ faults' = faults + (Len(buf[mir]) - k)
  <2>1. PICK k \in 0 .. Len(buf[mir]) :
        /\ ring' = [ring EXCEPT ![mir] = @ \o SubSeq(buf[mir], 1, k)]
        /\ faults' = faults + (Len(buf[mir]) - k)
    BY Zenon DEF send_frames_common, flush
  <2>. QED BY <2>1, Zenon
<1>0. buf[mir] \in Seq(AnyFrame) /\ Len(buf[mir]) \in Nat
  BY TxNodes DEF Formed
<1>2. faults \in Nat /\ refused \in Nat /\ stat \in [Nodes -> Counters]
  BY DEF Kept, Typed
<1>3. /\ stat' \in [Nodes -> Counters]
      /\ \A m \in Nodes : /\ stat'[m].out_of_order_errors = stat[m].out_of_order_errors
                          /\ stat'[m].frame_id_errors = stat[m].frame_id_errors
  <2>1. stat_frame_sent(mir, Len(buf[mir]))
    BY DEF send_frames_common
  <2>. QED BY <1>0, <1>2, <2>1, SentStat, TxNodes
<1>4. /\ class' = class /\ tx_seq' = tx_seq /\ rx_seq' = rx_seq /\ backlog' = backlog
      /\ late' = late /\ badRtt' = badRtt /\ refused' = refused /\ adj' = adj
      /\ in' = in /\ burst' = burst /\ buf' = [buf EXCEPT ![mir] = <<>>]
  BY DEF send_frames_common
<1>5. SameCounters
  BY <1>3, <1>4 DEF SameCounters
<1>6. Typed'
  <2>1. faults' \in Nat
    BY <1>0, <1>1, <1>2
  <2>. QED BY <1>2, <1>3, <1>4, <2>1 DEF Kept, Typed
<1>7. Joined(Way, Way', 3, 4, k)
  <2>1. /\ ring'[mir] = ring[mir] \o SubSeq(buf[mir], 1, k) /\ ring'[ref] = ring[ref]
        /\ buf'[mir] = <<>>
    BY <1>1, <1>4, TxNodes, Zenon DEF Formed
  <2>2. SameBut(Way, Way', 3, 4)
    BY <1>4, <2>1, TxWay DEF SameBut
  <2>. QED BY <2>1, <2>2, TxWay DEF Joined
<1>. QED BY <1>1, <1>4, <1>5, <1>6, <1>7, UnsentKept

\* The frames of a round, and the backlog when their Tx times are in it.
RoundFrames(x) == [i \in 1 .. FramesPerCycle |-> Frame(x + i - 1)]

\* The backlog after the Tx times of the round of x have been noted.
RoundBacklog(x, bl) ==
    [i \in DOMAIN bl |->
        IF \E j \in 0 .. FramesPerCycle - 1 : i = (x + j) % backlog_len
        THEN CHOOSE q \in x .. x + FramesPerCycle - 1 : i = q % backlog_len
        ELSE bl[i]]

\* The frames of a round, one by one.
LEMMA RoundFramesOK ==
    ASSUME NEW x \in Nat
    PROVE  /\ RoundFrames(x) \in Seq(AnyFrame) /\ Len(RoundFrames(x)) = FramesPerCycle
           /\ \A i \in 1 .. FramesPerCycle : RoundFrames(x)[i] = Frame(x + i - 1)
<1>. DEFINE F == FramesPerCycle
<1>0. F \in Nat
  BY CounterAssumption
<1>1. \A i \in 1 .. F : Frame(x + i - 1) \in AnyFrame
  <2>. TAKE i \in 1 .. F
  <2>1. x + i - 1 \in Int
    BY <1>0
  <2>. QED BY <2>1, FrameTyped
<1>. HIDE DEF F
<1>2. RoundFrames(x) = [i \in 1 .. F |-> Frame(x + i - 1)]
  BY DEF RoundFrames, F
<1>3. RoundFrames(x) \in Seq(AnyFrame) /\ Len(RoundFrames(x)) = F
  <2>1. RoundFrames(x) \in [1 .. F -> AnyFrame]
    BY <1>1, <1>2
  <2>. QED BY <1>0, <2>1
<1>4. \A i \in 1 .. F : RoundFrames(x)[i] = Frame(x + i - 1)
  BY <1>2
<1>. QED BY <1>3, <1>4 DEF F

\* The frames of a round that the NIC takes.
LEMMA FreshFrames ==
    ASSUME Rules, NEW x \in Nat, NEW k \in 0 .. FramesPerCycle, NEW p,
           p = SubSeq(RoundFrames(x), 1, k)
    PROVE  /\ p \in Seq(AnyFrame) /\ Ascending(p) /\ Numbers(p) = x .. x + k - 1
           /\ Sound(p) = Numbers(p)
           /\ \A f \in Elements(p) : Known(class, f) /\ f.seq # NONE
<1>. DEFINE F == FramesPerCycle
            q == RoundFrames(x)
<1>0. F \in Nat /\ k \in Nat /\ k <= F
  BY CounterAssumption
<1>1. q \in Seq(AnyFrame) /\ Len(q) = F /\ \A i \in 1 .. F : q[i] = Frame(x + i - 1)
  BY RoundFramesOK
<1>. HIDE DEF q
<1>2. p \in Seq(AnyFrame) /\ Len(p) = k /\ \A i \in 1 .. k : p[i] = q[i]
  <2>1. p = SubSeq(q, 1, k)
    BY DEF q
  <2>2. 1 \in Int /\ k \in 0 .. Len(q)
    BY <1>0, <1>1
  <2>. QED BY <1>0, <1>1, <2>1
<1>3. \A i \in 1 .. k : p[i] = Frame(x + i - 1)
  BY <1>0, <1>1, <1>2
<1>4. \A i \in 1 .. k : /\ p[i].seq = x + i - 1 /\ p[i].pay /\ p[i].id
                        /\ p[i].meta = sequence_counter_to_meta_data(x + i - 1)
  <2>. TAKE i \in 1 .. k
  <2>1. PICK y : y = x + i - 1
    OBVIOUS
  <2>2. p[i] = Frame(y)
    BY <1>3, <2>1
  <2>3. /\ Frame(y).seq = y /\ Frame(y).pay /\ Frame(y).id
        /\ Frame(y).meta = sequence_counter_to_meta_data(y)
    BY DEF Frame
  <2>. QED BY <2>1, <2>2, <2>3, Zenon
<1>5. \A i \in 1 .. k : x + i - 1 \in Nat /\ p[i].seq # NONE
  BY <1>4 DEF NONE
<1>6. DOMAIN p = 1 .. k
  BY <1>2
<1>7. Ascending(p)
  <2>. SUFFICES ASSUME NEW i \in 1 .. k, NEW j \in 1 .. k, i < j PROVE p[i].seq < p[j].seq
    BY <1>6 DEF Ascending
  <2>. QED BY <1>4
<1>8. Numbers(p) = x .. x + k - 1
  <2>1. ASSUME NEW y \in x .. x + k - 1 PROVE y \in Numbers(p)
    <3>1. y - x + 1 \in 1 .. k /\ x + (y - x + 1) - 1 = y
      BY <1>0
    <3>2. p[y - x + 1].seq = y
      BY <1>4, <3>1
    <3>3. y # NONE
      BY DEF NONE
    <3>. QED BY <1>6, <3>1, <3>2, <3>3 DEF Numbers
  <2>2. ASSUME NEW y \in Numbers(p) PROVE y \in x .. x + k - 1
    <3>1. PICK i \in 1 .. k : y = p[i].seq
      BY <1>6 DEF Numbers
    <3>. QED BY <1>0, <1>4, <3>1
  <2>. QED BY <2>1, <2>2, Zenon
<1>9. \A f \in Elements(p) : Known(class, f) /\ f.seq # NONE /\ f.pay
  <2>. TAKE f \in Elements(p)
  <2>1. PICK i \in 1 .. k : f = p[i]
    BY <1>2 DEF Elements
  <2>. QED BY <1>4, <1>5, <2>1 DEF Known
<1>10. Sound(p) = Numbers(p)
  <2>1. Numbers(p) = {e.seq : e \in Elements(p)} \ {NONE}
    BY <1>2, Zenon DEF Rules, NumbersOf
  <2>. QED BY <1>9, <2>1 DEF Sound
<1>. QED BY <1>2, <1>7, <1>8, <1>9, <1>10

\* The backlog holds the frames of a round.
LEMMA BacklogLen == backlog_len \in Nat \ {0} /\ backlog_len >= FramesPerCycle
<1>. DEFINE m == StatMaxBacklog
            F == FramesPerCycle
<1>1. m \in Nat \ {0} /\ F \in Nat \ {0}
  BY CounterAssumption, ExchangeAssumption
<1>. HIDE DEF m, F
<1>2. PICK d \in Nat : d = m - 1
  BY <1>1
<1>3. m * F = d * F + F /\ d * F \in Nat
  BY <1>1, <1>2
<1>. QED BY <1>1, <1>3 DEF backlog_len, m, F

\* The slots of a round hold the numbers of the round, the others what they held.
Renewed(x, bl, bk) ==
    /\ bk \in [0 .. backlog_len - 1 -> Int]
    /\ \A q \in x .. x + FramesPerCycle - 1 : bk[q % backlog_len] = q
    /\ \A i \in 0 .. backlog_len - 1 :
           (\A q \in x .. x + FramesPerCycle - 1 : i # q % backlog_len) => bk[i] = bl[i]

\* The backlog after a round has the Tx times of its frames and the old ones else.
LEMMA NewBacklog ==
    ASSUME Rules, NEW x \in Nat, NEW bl \in [0 .. backlog_len - 1 -> Int], NEW bk,
           bk = RoundBacklog(x, bl)
    PROVE  Renewed(x, bl, bk)
<1>. DEFINE F == FramesPerCycle
            len == backlog_len
            R == x .. x + F - 1
<1>0. len \in Nat \ {0} /\ len >= F /\ F \in Nat
  BY CounterAssumption, BacklogLen
<1>. HIDE DEF F, len
<1>1. \A i \in 0 .. len - 1 :
        (\E j \in 0 .. F - 1 : i = (x + j) % len) <=> (\E q \in R : i = q % len)
  <2>. TAKE i \in 0 .. len - 1
  <2>1. ASSUME NEW j \in 0 .. F - 1, i = (x + j) % len PROVE \E q \in R : i = q % len
    <3>1. x + j \in R
      BY <1>0
    <3>. QED BY <2>1, <3>1
  <2>2. ASSUME NEW q \in R, i = q % len PROVE \E j \in 0 .. F - 1 : i = (x + j) % len
    <3>1. q - x \in 0 .. F - 1 /\ x + (q - x) = q
      BY <1>0
    <3>. QED BY <2>2, <3>1
  <2>. QED BY <2>1, <2>2
<1>2. /\ bk = [i \in 0 .. len - 1 |-> IF \E j \in 0 .. F - 1 : i = (x + j) % len
                                     THEN CHOOSE q \in R : i = q % len
                                     ELSE bl[i]]
      /\ bl \in [0 .. len - 1 -> Int]
  BY DEF F, len, RoundBacklog
<1>3. \A i \in 0 .. len - 1 :
          bk[i] = IF \E q \in R : i = q % len THEN CHOOSE q \in R : i = q % len ELSE bl[i]
  BY <1>1, <1>2
<1>4. \A i \in 0 .. len - 1 : (\A q \in R : i # q % len) => bk[i] = bl[i]
  BY <1>3
<1>. HIDE DEF R
<1>5. \A u, v \in R : u % len = v % len => u = v
  <2>. SUFFICES ASSUME NEW u \in R, NEW v \in R, u % len = v % len, u < v PROVE FALSE
    <3>1. R \subseteq Int
      BY DEF R
    <3>2. ASSUME NEW u \in R, NEW v \in R, u % len = v % len, u # v PROVE FALSE
      <4>1. CASE u < v
        BY <3>2, <4>1
      <4>2. CASE v < u
        BY <3>2, <4>2
      <4>. QED BY <3>1, <3>2, <4>1, <4>2
    <3>. QED BY <3>2
  <2>1. u \in Nat /\ v \in Nat /\ v - u < F
    BY <1>0 DEF R
  <2>2. v - u >= len
    <3>1. u \in Nat /\ v \in Nat /\ len \in Nat /\ len > 0 /\ u < v /\ u % len = v % len
      BY <1>0, <2>1
    <3>. QED BY <3>1, Zenon DEF Rules, ModGap
  <2>. QED BY <1>0, <2>1, <2>2
<1>6. \A q \in R : q % len \in 0 .. len - 1
  BY <1>0 DEF R
<1>7. ASSUME NEW i \in 0 .. len - 1, NEW q \in R, i = q % len PROVE bk[i] = q
  <2>. DEFINE c == CHOOSE r \in R : i = r % len
  <2>1. bk[i] = c
    BY <1>3, <1>7
  <2>2. c \in R /\ i = c % len
    BY <1>7
  <2>. QED BY <1>5, <1>7, <2>1, <2>2
<1>8. \A q \in R : bk[q % len] = q
  BY <1>6, <1>7
<1>9. bk \in [0 .. len - 1 -> Int]
  <2>1. \A i \in 0 .. len - 1 : bk[i] \in Int
    <3>. TAKE i \in 0 .. len - 1
    <3>1. CASE \E q \in R : i = q % len
      <4>1. R \subseteq Int
        BY DEF R
      <4>. QED BY <1>7, <3>1, <4>1
    <3>2. CASE \A q \in R : i # q % len
      BY <1>2, <1>4, <3>2, Zenon
    <3>. QED BY <3>1, <3>2
  <2>2. bk = [i \in 0 .. len - 1 |-> bk[i]]
    BY <1>2
  <2>. QED BY <2>1, <2>2
<1>. QED BY <1>4, <1>8, <1>9 DEF F, len, R, Renewed

\* The reference generates and sends a round.
LEMMA GenKept == ASSUME Rules, Kept, Formed, gen_and_send_frames PROVE Kept'
<1>. DEFINE F == FramesPerCycle
            frames == RoundFrames(tx_seq)
            S == Way
            T == Way'
<1>0. F \in Nat
  BY CounterAssumption
<1>4. PICK a \in Nat, b \in Nat : Books(a, b)
  BY DEF Kept
<1>5. /\ tx_seq \in Nat /\ \A y \in HomeOf(S) \cup OutOf(S) : y < tx_seq
  <2>1. Placed(class, tx_seq, a, b, HomeOf(S), OutOf(S), GoodOf(S), rx_seq[ref], rx_seq[mir])
    BY <1>4, Zenon DEF Books, Ledger
  <2>2. tx_seq \in Nat /\ a \in Nat /\ b \in Nat /\ b <= tx_seq
    BY <2>1 DEF Placed
  <2>3. HomeOf(S) \subseteq a .. b - 1 /\ OutOf(S) \subseteq b .. tx_seq - 1
    BY <2>1 DEF Placed
  <2>. QED BY <2>2, <2>3
<1>1. Len(frames) = F
  BY <1>5, RoundFramesOK
<1>2. PICK k \in 0 .. F : /\ ring' = [ring EXCEPT ![ref] = @ \o SubSeq(frames, 1, k)]
                          /\ faults' = faults + (F - k)
  <2>1. flush(ref, frames)
    BY DEF gen_and_send_frames, RoundFrames
  <2>. HIDE DEF frames
  <2>2. \E k \in 0 .. Len(frames) : /\ ring' = [ring EXCEPT ![ref] = @ \o SubSeq(frames, 1, k)]
                                    /\ faults' = faults + (Len(frames) - k)
    BY <2>1, Zenon DEF flush
  <2>. QED BY <1>1, <2>2, Zenon
<1>3. /\ class' = class /\ tx_seq' = tx_seq + F /\ rx_seq' = rx_seq /\ buf' = buf /\ in' = in
      /\ burst' = burst /\ adj' = adj /\ refused' = refused /\ late' = late /\ badRtt' = badRtt
      /\ stat_frame_sent(ref, F)
  BY DEF gen_and_send_frames
<1>6. PICK p : p = SubSeq(frames, 1, k)
  BY Zenon
<1>7. Fresh(class, S, T, tx_seq, k, p)
  <2>1. /\ p \in Seq(AnyFrame) /\ Ascending(p) /\ Numbers(p) = tx_seq .. tx_seq + k - 1
        /\ Sound(p) = Numbers(p)
        /\ \A f \in Elements(p) : Known(class, f) /\ f.seq # NONE
    BY <1>5, <1>6, FreshFrames, Zenon
  <2>2. ring'[ref] = ring[ref] \o p /\ ring'[mir] = ring[mir]
    BY <1>2, <1>6, TxNodes, Zenon DEF Formed
  <2>3. T[7] = S[7] \o p
    BY <2>2, TxWay
  <2>4. SameBut(S, T, 7, 7)
    BY <1>3, <2>2, TxWay DEF SameBut
  <2>. QED BY <2>1, <2>3, <2>4 DEF Fresh
<1>8. Lined(class, S) /\ k \in Nat
  BY <1>0 DEF Kept
<1>. HIDE DEF S, T
<1>9. /\ Lined(class, T) /\ HomeOf(T) = HomeOf(S)
      /\ OutOf(T) = OutOf(S) \cup (tx_seq .. tx_seq + k - 1)
      /\ GoodOf(T) = GoodOf(S) \cup (tx_seq .. tx_seq + k - 1)
  BY <1>5, <1>7, <1>8 DEF Rules, NewSets
<1>10. backlog \in [0 .. backlog_len - 1 -> Int]
  BY DEF Kept, Typed
<1>a. Renewed(tx_seq, backlog, backlog')
  <2>1. backlog' = RoundBacklog(tx_seq, backlog)
    BY DEF gen_and_send_frames, RoundBacklog
  <2>. QED BY <1>5, <1>10, <2>1, NewBacklog
<1>11. /\ backlog' \in [0 .. backlog_len - 1 -> Int]
       /\ \A q \in tx_seq .. tx_seq + FramesPerCycle - 1 : backlog'[q % backlog_len] = q
       /\ \A i \in 0 .. backlog_len - 1 :
            (\A q \in tx_seq .. tx_seq + FramesPerCycle - 1 : i # q % backlog_len)
              => backlog'[i] = backlog[i]
  BY <1>a DEF Renewed
<1>12. /\ stat' \in [Nodes -> Counters]
       /\ \A m \in Nodes : /\ stat'[m].out_of_order_errors = stat[m].out_of_order_errors
                           /\ stat'[m].frame_id_errors = stat[m].frame_id_errors
  <2>1. stat \in [Nodes -> Counters]
    BY DEF Kept, Typed
  <2>. QED BY <1>0, <1>3, <2>1, SentStat, TxNodes
<1>13. faults \in Nat /\ refused \in Nat
  BY DEF Kept, Typed
<1>14. Typed'
  <2>1. faults' \in Nat
    BY <1>0, <1>2, <1>13
  <2>. QED BY <1>3, <1>11, <1>12, <1>13, <2>1 DEF Kept, Typed
<1>. DEFINE fr == faults + refused
            N == tx_seq .. tx_seq + k - 1
<1>15. Ledger(class, tx_seq, a, b, HomeOf(S), OutOf(S), GoodOf(S), rx_seq[ref], rx_seq[mir],
           stat[ref].out_of_order_errors, stat[mir].out_of_order_errors,
           stat[ref].frame_id_errors, stat[mir].frame_id_errors,
           fr, backlog, backlog_len, late, badRtt)
  BY <1>4, Zenon DEF Books, S
<1>16. fr + (F - k) = faults' + refused'
  BY <1>0, <1>2, <1>3, <1>8, <1>13
<1>17. N = tx_seq .. tx_seq + k - 1
  OBVIOUS
<1>. HIDE DEF fr, N
<1>18. Ledger(class, tx_seq + FramesPerCycle, a, b, HomeOf(S), OutOf(S) \cup N, GoodOf(S) \cup N,
           rx_seq[ref], rx_seq[mir],
           stat[ref].out_of_order_errors, stat[mir].out_of_order_errors,
           stat[ref].frame_id_errors, stat[mir].frame_id_errors,
           fr + (FramesPerCycle - k), backlog', backlog_len, late, badRtt)
  <2>. DEFINE H == HomeOf(S)
              O == OutOf(S)
              G == GoodOf(S)
              er == rx_seq[ref]
              em == rx_seq[mir]
              or == stat[ref].out_of_order_errors
              om == stat[mir].out_of_order_errors
              ir == stat[ref].frame_id_errors
              im == stat[mir].frame_id_errors
              bk == backlog'
  <2>1. Ledger(class, tx_seq, a, b, H, O, G, er, em, or, om, ir, im, fr, backlog, backlog_len,
               late, badRtt)
    BY <1>15, Zenon
  <2>2. /\ \A q \in tx_seq .. tx_seq + FramesPerCycle - 1 : bk[q % backlog_len] = q
        /\ \A i \in 0 .. backlog_len - 1 :
            (\A q \in tx_seq .. tx_seq + FramesPerCycle - 1 : i # q % backlog_len)
              => bk[i] = backlog[i]
    BY <1>11, Zenon
  <2>3. k \in 0 .. FramesPerCycle
    OBVIOUS
  <2>. HIDE DEF H, O, G, er, em, or, om, ir, im, bk
  <2>4. Ledger(class, tx_seq + FramesPerCycle, a, b, H, O \cup N, G \cup N, er, em, or, om, ir, im,
               fr + (FramesPerCycle - k), bk, backlog_len, late, badRtt)
    BY <1>17, <2>1, <2>2, <2>3, Zenon DEF Rules, NewStep
  <2>. QED BY <2>4, Zenon DEF H, O, G, er, em, or, om, ir, im, bk
<1>19. Books(a, b)'
  BY <1>3, <1>9, <1>12, <1>16, <1>17, <1>18, TxNodes, Zenon DEF Books, T
<1>20. Lined(class', Way')
  BY <1>3, <1>9 DEF T
<1>. QED BY <1>14, <1>19, <1>20 DEF Kept
=============================================================================

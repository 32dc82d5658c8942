------------------------ MODULE FrameExchange_proofs ------------------------
(***************************************************************************)
(* Proofs about the mbufs of the frame exchange, for every number of       *)
(* frames per cycle, every pool, buffer and burst size and every pattern   *)
(* of lost, damaged, refused and foreign frames: no mbuf is lost or        *)
(* doubled before the Tx ring overflows.                                   *)
(***************************************************************************)
EXTENDS FrameExchange, TLAPS

\* The types that the count of the mbufs depends on.
Shape ==
    /\ tx_seq \in Int /\ txfree \in Int
    /\ rxfree \in [Nodes -> Int] /\ dropped \in [Nodes -> Int]
    /\ buf \in [Nodes -> Seq(AnyFrame)] /\ ring \in [Nodes -> Seq(AnyFrame)]
    /\ in \in [Nodes -> Seq(AnyFrame)] /\ burst \in [Nodes -> Seq(AnyFrame)]

Counted == Shape /\ MbufsCounted
-----------------------------------------------------------------------------
(* Sequences, in the form in which the proofs use them *)

\* A sequence, its length and its first, last and inner elements, in the form in which
\* the proofs use them.
LEMMA LenIs ==
    ASSUME NEW S, NEW s \in Seq(S)
    PROVE  Len(s) \in Nat /\ s \in [1 .. Len(s) -> S]
  OBVIOUS

\* A sequence given by its elements.
LEMMA SeqIs ==
    ASSUME NEW S, NEW n \in Nat, NEW s \in [1 .. n -> S]
    PROVE  s \in Seq(S) /\ Len(s) = n
  OBVIOUS

\* The empty sequence.
LEMMA EmptyIs ==
    ASSUME NEW S
    PROVE  << >> \in Seq(S) /\ Len(<< >>) = 0
  OBVIOUS

\* A part of a sequence.
LEMMA PartIs ==
    ASSUME NEW S, NEW s \in Seq(S), NEW m \in 1 .. Len(s) + 1, NEW n \in m - 1 .. Len(s)
    PROVE  /\ SubSeq(s, m, n) \in Seq(S) /\ Len(SubSeq(s, m, n)) = n - m + 1
           /\ \A i \in 1 .. n - m + 1 : SubSeq(s, m, n)[i] = s[m + i - 1]
  OBVIOUS

\* Two sequences, one after the other.
LEMMA ConcatIs ==
    ASSUME NEW S, NEW s \in Seq(S), NEW t \in Seq(S)
    PROVE  /\ s \o t \in Seq(S) /\ Len(s \o t) = Len(s) + Len(t)
           /\ \A i \in 1 .. Len(s) : (s \o t)[i] = s[i]
           /\ \A i \in 1 .. Len(t) : (s \o t)[Len(s) + i] = t[i]
  OBVIOUS

\* The first element of a sequence and the others.
LEMMA TailIs ==
    ASSUME NEW S, NEW s \in Seq(S), s # << >>
    PROVE  Head(s) \in S /\ Tail(s) \in Seq(S) /\ Len(Tail(s)) = Len(s) - 1
  OBVIOUS
-----------------------------------------------------------------------------
(* The frames that the nodes and the cable make are frames. *)

LEMMA FrameOK == ASSUME NEW q \in Int PROVE Frame(q) \in AnyFrame
<1>1. (class \notin {"lldp", "udp"}) \in BOOLEAN
  OBVIOUS
<1>2. FramesPerCycle \in Nat \ {0} /\ CycleMod \in Nat \ {0}
  BY CounterAssumption
<1>3. q \div FramesPerCycle \in Int /\ q % FramesPerCycle \in Int
  BY <1>2
<1>4. (q \div FramesPerCycle) % CycleMod \in Int
  BY <1>2, <1>3
<1>5. sequence_counter_to_meta_data(q) \in Meta
  BY <1>3, <1>4 DEF sequence_counter_to_meta_data, Meta
<1>. QED BY <1>1, <1>5 DEF Frame, AnyFrame

LEMMA DamagedOK ==
    ASSUME NEW f \in AnyFrame, NEW ok \in BOOLEAN
    PROVE  [f EXCEPT !.pay = @ /\ ok] \in AnyFrame
<1>1. (f.pay /\ ok) \in BOOLEAN
  OBVIOUS
<1>. QED BY <1>1 DEF AnyFrame

LEMMA RetaggedOK == ASSUME NEW f \in AnyFrame PROVE insert_vlan_tag(f) \in AnyFrame
<1>1. (class # "l2") \in BOOLEAN
  OBVIOUS
<1>. QED BY <1>1, Zenon DEF AnyFrame, insert_vlan_tag

LEMMA ForeignOK == ASSUME NEW kind PROVE ForeignFrame(kind) \in AnyFrame
<1>1. (kind = "other_id") \in BOOLEAN /\ (kind # "untagged") \in BOOLEAN
  OBVIOUS
<1>2. [cycle_counter |-> CycleMod - 1, frame_counter |-> 0] \in Meta
  BY CounterAssumption DEF Meta
<1>3. (IF kind = "tiny" THEN TINY ELSE IF kind = "other_id" THEN 0 ELSE 1) \in Int
  BY DEF TINY
<1>. QED BY <1>1, <1>2, <1>3 DEF AnyFrame, ForeignFrame, NONE
-----------------------------------------------------------------------------
(* The parts of the handlers that move mbufs. *)

\* One mbuf moves from one count to another.
LEMMA OneMoves ==
    ASSUME NEW a \in Int, NEW b \in Int
    PROVE  (a + 1) + (b - 1) = a + b
  OBVIOUS

\* What is flushed goes to the NIC or back to its pool.
LEMMA FlushCounts ==
    ASSUME Shape, NEW n \in Nodes, NEW q \in Seq(AnyFrame), flush(n, q)
    PROVE  /\ ring' \in [Nodes -> Seq(AnyFrame)] /\ txfree' \in Int
           /\ rxfree' \in [Nodes -> Int]
           /\ \A m \in Nodes : m # n => ring'[m] = ring[m] /\ rxfree'[m] = rxfree[m]
           /\ n = ref => /\ txfree' + Len(ring'[n]) = txfree + Len(ring[n])
                                                        - FramesPerCycle + Len(q)
                         /\ rxfree' = rxfree
           /\ n # ref => /\ rxfree'[n] + Len(ring'[n]) = rxfree[n] + Len(ring[n]) + Len(q)
                         /\ txfree' = txfree
<1>1. PICK k \in 0 .. Len(q) :
        /\ ring' = [ring EXCEPT ![n] = @ \o SubSeq(q, 1, k)]
        /\ IF n = ref
           THEN txfree' = txfree - FramesPerCycle + (Len(q) - k) /\ UNCHANGED rxfree
           ELSE rxfree' = [rxfree EXCEPT ![n] = @ + (Len(q) - k)] /\ UNCHANGED txfree
  BY Zenon DEF flush
<1>2. Len(q) \in Nat /\ k \in Nat /\ k <= Len(q) /\ FramesPerCycle \in Int
  BY CounterAssumption, LenIs
<1>3. SubSeq(q, 1, k) \in Seq(AnyFrame) /\ Len(SubSeq(q, 1, k)) = k
  BY <1>2, PartIs
<1>4. ring[n] \in Seq(AnyFrame) /\ Len(ring[n]) \in Nat
  BY LenIs DEF Shape
<1>5. /\ ring[n] \o SubSeq(q, 1, k) \in Seq(AnyFrame)
      /\ Len(ring[n] \o SubSeq(q, 1, k)) = Len(ring[n]) + k
  <2>1. PICK t \in Seq(AnyFrame) : t = SubSeq(q, 1, k) /\ Len(t) = k
    BY <1>3, Zenon
  <2>2. PICK r \in Seq(AnyFrame) : r = ring[n]
    BY <1>4
  <2>3. r \o t \in Seq(AnyFrame) /\ Len(r \o t) = Len(r) + Len(t)
    BY ConcatIs
  <2>. QED BY <2>1, <2>2, <2>3, Zenon
<1>6. ring' \in [Nodes -> Seq(AnyFrame)] /\ Len(ring'[n]) = Len(ring[n]) + k
  BY <1>1, <1>5 DEF Shape
<1>7. \A m \in Nodes : m # n => ring'[m] = ring[m] /\ rxfree'[m] = rxfree[m]
  BY <1>1 DEF Shape
<1>8. txfree' \in Int /\ rxfree' \in [Nodes -> Int]
  <2>1. txfree \in Int /\ rxfree \in [Nodes -> Int]
    BY DEF Shape
  <2>2. Len(q) - k \in Int /\ rxfree[n] + (Len(q) - k) \in Int
    BY <1>2, <2>1
  <2>3. txfree' \in Int
    BY <1>1, <1>2, <2>1
  <2>4. rxfree' \in [Nodes -> Int]
    BY <1>1, <2>1, <2>2
  <2>. QED BY <2>3, <2>4
<1>9. CASE n = ref
  <2>1. txfree' = txfree - FramesPerCycle + (Len(q) - k) /\ rxfree' = rxfree
    BY <1>1, <1>9
  <2>2. txfree' + Len(ring'[n]) = txfree + Len(ring[n]) - FramesPerCycle + Len(q)
    BY <1>2, <1>4, <1>6, <2>1 DEF Shape
  <2>. QED BY <1>6, <1>7, <1>8, <1>9, <2>1, <2>2
<1>10. CASE n # ref
  <2>1. rxfree' = [rxfree EXCEPT ![n] = @ + (Len(q) - k)] /\ txfree' = txfree
    BY <1>1, <1>10
  <2>2. rxfree[n] \in Int /\ rxfree'[n] = rxfree[n] + (Len(q) - k)
    BY <2>1 DEF Shape
  <2>3. rxfree'[n] + Len(ring'[n]) = rxfree[n] + Len(ring[n]) + Len(q)
    BY <1>2, <1>4, <1>6, <2>2
  <2>. QED BY <1>6, <1>7, <1>8, <1>10, <2>1, <2>3
<1>. QED BY <1>9, <1>10

\* One iteration of an *_rx_frame loop drops the frame or, on the mirror, puts
\* it into the Tx buffer.
LEMMA RxOutcome ==
    ASSUME Shape, NEW n \in Nodes, NEW checks, rx_frame(n, checks)
    PROVE  /\ burst[n] # <<>> /\ burst' = [burst EXCEPT ![n] = Tail(@)]
           /\ in' = in /\ tx_seq' = tx_seq
           /\ \/ drop(n)
              \/ /\ n # ref /\ dropped' = dropped
                 /\ \E f \in AnyFrame : lport_tx_buffer_add(n, f)
<1>. DEFINE f == Head(burst[n])
<1>1. burst[n] # <<>> /\ burst' = [burst EXCEPT ![n] = Tail(@)] /\ in' = in /\ tx_seq' = tx_seq
  BY DEF rx_frame
<1>2. f \in AnyFrame
  BY <1>1, TailIs DEF Shape
<1>3. Refuse(n, f) \/ check_frame(n, f, checks)
  BY DEF rx_frame
<1>4. CASE Refuse(n, f)
  BY <1>1, <1>4 DEF Refuse
<1>5. CASE check_frame(n, f, checks)
  <2>. DEFINE back == IF "retag" \in checks /\ ~ f.tag THEN insert_vlan_tag(f) ELSE f
  <2>1. back \in AnyFrame
    BY <1>2, RetaggedOK
  <2>2. drop(n) \/ (n # ref /\ lport_tx_buffer_add(n, back) /\ UNCHANGED dropped)
    BY <1>5 DEF check_frame
  <2>. HIDE DEF back
  <2>. QED BY <1>1, <2>1, <2>2
<1>. QED BY <1>3, <1>4, <1>5

\* The mbufs of a node's Rx pool that are free, dropped or hold a received
\* frame.
AtNode(n) == rxfree[n] + dropped[n] + Len(in[n]) + Len(burst[n])

LEMMA Conserved ==
    MbufsCounted <=> /\ txfree + Len(ring[ref]) = TxPool
                       /\ AtNode(ref) = RxPool
                       /\ AtNode(mir) + Len(buf[mir]) + Len(ring[mir]) = RxPool
  BY DEF MbufsCounted, AtNode

LEMMA Numbered ==
    ASSUME Shape, NEW n \in Nodes
    PROVE  /\ Len(buf[n]) \in Nat /\ Len(ring[n]) \in Nat /\ Len(in[n]) \in Nat
           /\ Len(burst[n]) \in Nat /\ rxfree[n] \in Int /\ dropped[n] \in Int
           /\ AtNode(n) \in Int
<1>1. /\ buf[n] \in Seq(AnyFrame) /\ ring[n] \in Seq(AnyFrame) /\ in[n] \in Seq(AnyFrame)
      /\ burst[n] \in Seq(AnyFrame) /\ rxfree[n] \in Int /\ dropped[n] \in Int
  BY DEF Shape
<1>2. /\ Len(buf[n]) \in Nat /\ Len(ring[n]) \in Nat /\ Len(in[n]) \in Nat
      /\ Len(burst[n]) \in Nat
  BY <1>1, LenIs
<1>. QED BY <1>1, <1>2 DEF AtNode

\* Such an iteration keeps the count.
LEMMA RxCounts ==
    ASSUME Counted, NEW n \in Nodes, NEW checks, rx_frame(n, checks)
    PROVE  Counted'
<1>. Shape /\ MbufsCounted /\ FreePending \in Int
  BY ExchangeAssumption DEF Counted
<1>1. /\ burst[n] # <<>> /\ burst' = [burst EXCEPT ![n] = Tail(@)]
      /\ in' = in /\ tx_seq' = tx_seq
      /\ \/ drop(n)
         \/ /\ n # ref /\ dropped' = dropped
            /\ \E f \in AnyFrame : lport_tx_buffer_add(n, f)
  BY RxOutcome
<1>2. Tail(burst[n]) \in Seq(AnyFrame) /\ Len(Tail(burst[n])) = Len(burst[n]) - 1
  BY <1>1, TailIs DEF Shape
<1>3. /\ burst' \in [Nodes -> Seq(AnyFrame)] /\ Len(burst'[n]) = Len(burst[n]) - 1
      /\ \A m \in Nodes : m # n => burst'[m] = burst[m]
  BY <1>1, <1>2 DEF Shape
<1>4. \A m \in Nodes : /\ Len(buf[m]) \in Nat /\ Len(ring[m]) \in Nat /\ Len(in[m]) \in Nat
                       /\ Len(burst[m]) \in Nat /\ rxfree[m] \in Int /\ dropped[m] \in Int
                       /\ AtNode(m) \in Int
  BY Numbered
<1>5. ref \in Nodes /\ mir \in Nodes /\ ref # mir /\ (n = ref \/ n = mir)
  BY DEF Nodes, ref, mir
<1>6. CASE drop(n)
  <2>1. /\ rxfree' \in [Nodes -> Int] /\ dropped' \in [Nodes -> Int]
        /\ rxfree'[n] + dropped'[n] = rxfree[n] + dropped[n] + 1
        /\ \A m \in Nodes : m # n => rxfree'[m] = rxfree[m] /\ dropped'[m] = dropped[m]
    <3>1. rxfree \in [Nodes -> Int] /\ dropped \in [Nodes -> Int]
      BY DEF Shape
    <3>2. CASE /\ dropped[n] + 1 = FreePending
               /\ rxfree' = [rxfree EXCEPT ![n] = @ + FreePending]
               /\ dropped' = [dropped EXCEPT ![n] = 0]
      <4>1. rxfree'[n] = rxfree[n] + FreePending /\ dropped'[n] = 0
        BY <3>1, <3>2
      <4>2. rxfree'[n] + dropped'[n] = rxfree[n] + dropped[n] + 1
        BY <1>4, <3>2, <4>1
      <4>. QED BY <3>1, <3>2, <4>2
    <3>3. CASE rxfree' = rxfree /\ dropped' = [dropped EXCEPT ![n] = @ + 1]
      BY <3>1, <3>3
    <3>. QED BY <1>6, <3>2, <3>3 DEF drop
  <2>2. txfree' = txfree /\ buf' = buf /\ ring' = ring
    BY <1>6 DEF drop
  <2>3. Shape'
    BY <1>1, <1>3, <2>1, <2>2 DEF Shape
  <2>4. AtNode(n)' = AtNode(n)
    <3>1. rxfree'[n] \in Int /\ dropped'[n] \in Int
      BY <2>1
    <3>2. /\ Len(in[n]) \in Nat /\ Len(burst[n]) \in Nat
          /\ rxfree[n] \in Int /\ dropped[n] \in Int
      BY <1>4
    <3>3. AtNode(n)' = rxfree'[n] + dropped'[n] + Len(in[n]) + (Len(burst[n]) - 1)
      BY <1>1, <1>3 DEF AtNode
    <3>4. rxfree'[n] + dropped'[n] = rxfree[n] + dropped[n] + 1
      BY <2>1
    <3>5. (rxfree[n] + dropped[n] + 1) + Len(in[n]) + (Len(burst[n]) - 1) = AtNode(n)
      <4>. DEFINE a == rxfree[n] + dropped[n]
                  i == Len(in[n])
                  b == Len(burst[n])
      <4>1. a \in Int /\ i \in Int /\ b \in Int
        BY <3>2
      <4>2. AtNode(n) = a + i + b
        BY DEF AtNode
      <4>. HIDE DEF a, i, b
      <4>3. (a + 1) + i + (b - 1) = a + i + b
        BY <4>1
      <4>. QED BY <4>2, <4>3, Zenon DEF a, i, b
    <3>. QED BY <3>3, <3>4, <3>5, Zenon
  <2>5. \A m \in Nodes : m # n => AtNode(m)' = AtNode(m)
    BY <1>1, <1>3, <2>1 DEF AtNode
  <2>6. AtNode(ref)' = AtNode(ref) /\ AtNode(mir)' = AtNode(mir)
    BY <1>5, <2>4, <2>5
  <2>7. MbufsCounted'
    BY <2>2, <2>6, Conserved DEF MbufsCounted, AtNode
  <2>. QED BY <2>3, <2>7 DEF Counted
<1>7. CASE n # ref /\ dropped' = dropped /\ \E f \in AnyFrame : lport_tx_buffer_add(n, f)
  <2>1. PICK f \in AnyFrame : lport_tx_buffer_add(n, f)
    BY <1>7
  <2>2. Append(buf[n], f) \in Seq(AnyFrame) /\ Len(Append(buf[n], f)) = Len(buf[n]) + 1
    BY DEF Shape
  <2>3. n = mir
    BY <1>5, <1>7
  <2>4. CASE buf' = [buf EXCEPT ![n] = Append(buf[n], f)]
             /\ UNCHANGED <<txfree, rxfree, ring, faults>>
    <3>1. buf' \in [Nodes -> Seq(AnyFrame)] /\ Len(buf'[n]) = Len(buf[n]) + 1
      BY <2>2, <2>4 DEF Shape
    <3>2. Shape'
      BY <1>1, <1>3, <1>7, <2>4, <3>1 DEF Shape
    <3>3. AtNode(mir)' = AtNode(mir) - 1 /\ AtNode(ref)' = AtNode(ref)
      <4>1. AtNode(ref)' = AtNode(ref)
        BY <1>1, <1>3, <1>5, <1>7, <2>3, <2>4 DEF AtNode
      <4>2. AtNode(mir)' = rxfree[mir] + dropped[mir] + Len(in[mir]) + (Len(burst[mir]) - 1)
        BY <1>1, <1>3, <1>7, <2>3, <2>4 DEF AtNode
      <4>3. /\ Len(in[mir]) \in Nat /\ Len(burst[mir]) \in Nat
            /\ rxfree[mir] \in Int /\ dropped[mir] \in Int
        BY <1>4, <1>5
      <4>4. rxfree[mir] + dropped[mir] + Len(in[mir]) + (Len(burst[mir]) - 1) = AtNode(mir) - 1
        <5>. DEFINE a == rxfree[mir] + dropped[mir] + Len(in[mir])
                    b == Len(burst[mir])
        <5>1. a \in Int /\ b \in Int
          BY <4>3
        <5>2. AtNode(mir) = a + b
          BY DEF AtNode
        <5>. HIDE DEF a, b
        <5>3. a + (b - 1) = (a + b) - 1
          BY <5>1
        <5>. QED BY <5>2, <5>3, Zenon DEF a, b
      <4>. QED BY <4>1, <4>2, <4>4, Zenon
    <3>4. AtNode(mir)' + Len(buf'[mir]) + Len(ring'[mir])
              = AtNode(mir) + Len(buf[mir]) + Len(ring[mir])
      BY <1>4, <1>5, <2>3, <2>4, <3>1, <3>3
    <3>5. MbufsCounted'
      BY <2>4, <3>3, <3>4, Conserved DEF MbufsCounted, AtNode
    <3>. QED BY <3>2, <3>5 DEF Counted
  <2>5. CASE buf' = [buf EXCEPT ![n] = <<>>] /\ flush(n, Append(buf[n], f))
    <3>1. buf' \in [Nodes -> Seq(AnyFrame)] /\ Len(buf'[n]) = 0
      BY <2>5, EmptyIs DEF Shape
    <3>2. /\ ring' \in [Nodes -> Seq(AnyFrame)] /\ txfree' = txfree
          /\ rxfree' \in [Nodes -> Int]
          /\ \A m \in Nodes : m # n => ring'[m] = ring[m] /\ rxfree'[m] = rxfree[m]
          /\ rxfree'[n] + Len(ring'[n])
                 = rxfree[n] + Len(ring[n]) + Len(Append(buf[n], f))
      BY <1>7, <2>2, <2>5, FlushCounts, Zenon
    <3>3. Shape'
      <4>1. txfree' \in Int
        BY <3>2 DEF Shape
      <4>. QED BY <1>1, <1>3, <1>7, <3>1, <3>2, <4>1 DEF Shape
    <3>4. Len(ring'[mir]) \in Nat /\ rxfree'[mir] \in Int
      BY <1>5, <3>2, LenIs
    <3>5. AtNode(ref)' = AtNode(ref) /\ ring'[ref] = ring[ref]
      BY <1>1, <1>3, <1>5, <1>7, <2>3, <3>2 DEF AtNode
    <3>6. AtNode(mir)' = rxfree'[mir] + dropped[mir] + Len(in[mir]) + (Len(burst[mir]) - 1)
      BY <1>1, <1>3, <1>7, <2>3 DEF AtNode
    <3>7. rxfree'[mir] + Len(ring'[mir]) = rxfree[mir] + Len(ring[mir]) + Len(buf[mir]) + 1
      <4>1. /\ rxfree'[mir] + Len(ring'[mir])
                  = rxfree[mir] + Len(ring[mir]) + Len(Append(buf[mir], f))
            /\ Len(Append(buf[mir], f)) = Len(buf[mir]) + 1
        BY <2>2, <2>3, <3>2
      <4>2. Len(buf[mir]) \in Nat /\ Len(ring[mir]) \in Nat /\ rxfree[mir] \in Int
        BY <1>4, <1>5
      <4>. QED BY <3>4, <4>1, <4>2
    <3>8. AtNode(mir)' + Len(buf'[mir]) + Len(ring'[mir])
              = AtNode(mir) + Len(buf[mir]) + Len(ring[mir])
      <4>1. /\ Len(buf[mir]) \in Nat /\ Len(ring[mir]) \in Nat /\ rxfree[mir] \in Int
            /\ Len(in[mir]) \in Nat /\ Len(burst[mir]) \in Nat /\ dropped[mir] \in Int
        BY <1>4, <1>5
      <4>2. Len(buf'[mir]) = 0
        BY <2>3, <3>1
      <4>3. AtNode(mir) = rxfree[mir] + dropped[mir] + Len(in[mir]) + Len(burst[mir])
        BY DEF AtNode
      <4>4. PICK r \in Int : r = rxfree[mir]
        BY <4>1
      <4>5. PICK g \in Int : g = Len(ring[mir])
        BY <4>1
      <4>6. PICK u \in Int : u = Len(buf[mir])
        BY <4>1
      <4>7. PICK x \in Int : x = dropped[mir] + Len(in[mir])
        BY <4>1
      <4>8. PICK b \in Int : b = Len(burst[mir])
        BY <4>1
      <4>9. PICK r2 \in Int, g2 \in Int : r2 = rxfree'[mir] /\ g2 = Len(ring'[mir])
        BY <3>4
      <4>10. AtNode(mir)' = r2 + x + (b - 1) /\ AtNode(mir) = r + x + b
        <5>1. PICK d \in Int, i \in Int : d = dropped[mir] /\ i = Len(in[mir])
          BY <4>1
        <5>2. AtNode(mir)' = r2 + d + i + (b - 1) /\ AtNode(mir) = r + d + i + b /\ x = d + i
          BY <3>6, <4>3, <4>4, <4>7, <4>8, <4>9, <5>1
        <5>. QED BY <5>2
      <4>11. r2 + g2 = r + g + u + 1
        BY <3>7, <4>4, <4>5, <4>6, <4>9
      <4>12. (r2 + x + (b - 1)) + 0 + g2 = (r + x + b) + u + g
        BY <4>11
      <4>. QED BY <4>2, <4>5, <4>6, <4>9, <4>10, <4>12, Zenon
    <3>9. MbufsCounted'
      BY <3>2, <3>5, <3>8, Conserved DEF MbufsCounted, AtNode
    <3>. QED BY <3>3, <3>9 DEF Counted
  <2>. QED BY <2>1, <2>4, <2>5 DEF lport_tx_buffer_add
<1>. QED BY <1>1, <1>6, <1>7
-----------------------------------------------------------------------------
(* The other handlers and the cable. *)

LEMMA TwoNodes == /\ ref \in Nodes /\ mir \in Nodes /\ ref # mir
                  /\ \A n \in Nodes : n = ref \/ n = mir
                  /\ peer(ref) = mir /\ peer(mir) = ref
  BY DEF Nodes, ref, mir, peer

\* A round takes as many mbufs from the Tx pool as it sends frames.
LEMMA GenCounts == ASSUME Counted, gen_and_send_frames PROVE Counted'
<1>. DEFINE frames == [i \in 1 .. FramesPerCycle |-> Frame(tx_seq + i - 1)]
<1>. Shape /\ FramesPerCycle \in Nat
  BY CounterAssumption DEF Counted
<1>1. frames \in Seq(AnyFrame) /\ Len(frames) = FramesPerCycle
  <2>1. \A i \in 1 .. FramesPerCycle : Frame(tx_seq + i - 1) \in AnyFrame
    BY FrameOK DEF Shape
  <2>2. frames \in [1 .. FramesPerCycle -> AnyFrame]
    BY <2>1
  <2>. QED BY <2>2, SeqIs
<1>2. flush(ref, frames)
  BY DEF gen_and_send_frames
<1>. HIDE DEF frames
<1>3. /\ ring' \in [Nodes -> Seq(AnyFrame)] /\ txfree' \in Int /\ rxfree' = rxfree
      /\ ring'[mir] = ring[mir]
      /\ txfree' + Len(ring'[ref]) = txfree + Len(ring[ref]) - FramesPerCycle + Len(frames)
  BY <1>1, <1>2, FlushCounts, TwoNodes
<1>4. /\ tx_seq' \in Int /\ buf' = buf /\ in' = in /\ burst' = burst /\ dropped' = dropped
  BY DEF gen_and_send_frames, Shape
<1>5. txfree' + Len(ring'[ref]) = txfree + Len(ring[ref])
  BY <1>1, <1>3, Numbered, TwoNodes DEF Shape
<1>6. Shape'
  BY <1>3, <1>4 DEF Shape
<1>7. MbufsCounted'
  BY <1>3, <1>4, <1>5 DEF Counted, MbufsCounted
<1>. QED BY <1>6, <1>7 DEF Counted

\* The mirror's buffer is emptied into the NIC and the pool.
LEMMA SendCounts == ASSUME Counted, send_frames_common PROVE Counted'
<1>. Shape
  BY DEF Counted
<1>1. buf[mir] \in Seq(AnyFrame) /\ flush(mir, buf[mir])
  BY TwoNodes DEF send_frames_common, Shape
<1>2. /\ ring' \in [Nodes -> Seq(AnyFrame)] /\ txfree' = txfree
      /\ rxfree' \in [Nodes -> Int] /\ ring'[ref] = ring[ref] /\ rxfree'[ref] = rxfree[ref]
      /\ rxfree'[mir] + Len(ring'[mir]) = rxfree[mir] + Len(ring[mir]) + Len(buf[mir])
  BY <1>1, FlushCounts, TwoNodes
<1>3. /\ tx_seq' = tx_seq /\ in' = in /\ burst' = burst /\ dropped' = dropped
      /\ buf' = [buf EXCEPT ![mir] = <<>>]
  BY DEF send_frames_common
<1>4. buf' \in [Nodes -> Seq(AnyFrame)] /\ Len(buf'[mir]) = 0
  BY <1>3, EmptyIs, TwoNodes DEF Shape
<1>5. Shape'
  BY <1>2, <1>3, <1>4, Zenon DEF Shape
<1>6. AtNode(ref)' = AtNode(ref)
  BY <1>2, <1>3 DEF AtNode
<1>7. AtNode(mir)' + Len(buf'[mir]) + Len(ring'[mir])
          = AtNode(mir) + Len(buf[mir]) + Len(ring[mir])
  <2>0. /\ Len(buf[mir]) \in Nat /\ Len(ring[mir]) \in Nat /\ rxfree[mir] \in Int
        /\ Len(in[mir]) \in Nat /\ Len(burst[mir]) \in Nat /\ dropped[mir] \in Int
    BY Numbered, TwoNodes
  <2>1. PICK r \in Int, g \in Int, u \in Int :
            r = rxfree[mir] /\ g = Len(ring[mir]) /\ u = Len(buf[mir])
    BY <2>0
  <2>2. PICK r2 \in Int, g2 \in Int : r2 = rxfree'[mir] /\ g2 = Len(ring'[mir])
    BY <1>2, TwoNodes, LenIs
  <2>3. PICK d \in Int, i \in Int, b \in Int :
            d = dropped[mir] /\ i = Len(in[mir]) /\ b = Len(burst[mir])
    BY <2>0
  <2>4. AtNode(mir)' = r2 + d + i + b /\ AtNode(mir) = r + d + i + b
    BY <1>3, <2>1, <2>2, <2>3 DEF AtNode
  <2>5. r2 + g2 = r + g + u
    BY <1>2, <2>1, <2>2
  <2>6. (r2 + d + i + b) + 0 + g2 = (r + d + i + b) + u + g
    BY <2>5
  <2>. QED BY <1>4, <2>1, <2>2, <2>4, <2>6
<1>8. MbufsCounted'
  BY <1>2, <1>6, <1>7, Conserved DEF Counted, MbufsCounted, AtNode
<1>. QED BY <1>5, <1>8 DEF Counted

\* A poll moves frames from the port to the burst.
LEMMA PollCounts == ASSUME Counted, NEW n \in Nodes, lport_process_pkts(n) PROVE Counted'
<1>. Shape
  BY DEF Counted
<1>1. /\ tx_seq' = tx_seq /\ txfree' = txfree /\ rxfree' = rxfree /\ buf' = buf
      /\ ring' = ring /\ dropped' = dropped
  BY DEF lport_process_pkts
<1>2. CASE in' = in /\ burst' = burst
  BY <1>1, <1>2, Zenon DEF Counted, Shape, MbufsCounted
<1>3. CASE \E k \in 1 .. Len(in[n]) : /\ burst' = [burst EXCEPT ![n] = SubSeq(in[n], 1, k)]
                                     /\ in' = [in EXCEPT ![n] = SubSeq(@, k + 1, Len(@))]
  <2>1. PICK k \in 1 .. Len(in[n]) : /\ burst' = [burst EXCEPT ![n] = SubSeq(in[n], 1, k)]
                                     /\ in' = [in EXCEPT ![n] = SubSeq(@, k + 1, Len(@))]
    BY <1>3, Zenon
  <2>2. in[n] \in Seq(AnyFrame) /\ Len(in[n]) \in Nat /\ k \in Nat /\ 1 <= k /\ k <= Len(in[n])
    BY Numbered DEF Shape
  <2>3. \A i \in 1 .. Len(in[n]) : in[n][i] \in AnyFrame
    BY <2>2, LenIs
  <2>4. SubSeq(in[n], 1, k) \in Seq(AnyFrame) /\ Len(SubSeq(in[n], 1, k)) = k
    BY <2>2, <2>3, PartIs
  <2>5. /\ SubSeq(in[n], k + 1, Len(in[n])) \in Seq(AnyFrame)
        /\ Len(SubSeq(in[n], k + 1, Len(in[n]))) = Len(in[n]) - k
    BY <2>2, <2>3, PartIs
  <2>6. /\ burst' \in [Nodes -> Seq(AnyFrame)] /\ in' \in [Nodes -> Seq(AnyFrame)]
        /\ Len(burst'[n]) = k /\ Len(in'[n]) = Len(in[n]) - k
        /\ \A m \in Nodes : m # n => burst'[m] = burst[m] /\ in'[m] = in[m]
    BY <2>1, <2>4, <2>5 DEF Shape
  <2>7. Len(burst[n]) = 0
    BY EmptyIs DEF lport_process_pkts, Idle
  <2>8. AtNode(n)' = AtNode(n)
    <3>1. PICK x \in Int, i \in Int : x = rxfree[n] + dropped[n] /\ i = Len(in[n])
      BY Numbered
    <3>2. AtNode(n)' = x + (i - k) + k /\ AtNode(n) = x + i + 0
      BY <1>1, <2>6, <2>7, <3>1 DEF AtNode
    <3>. QED BY <2>2, <3>1, <3>2
  <2>9. AtNode(ref)' = AtNode(ref) /\ AtNode(mir)' = AtNode(mir)
    BY <1>1, <2>6, <2>8, TwoNodes, Zenon DEF AtNode
  <2>10. Shape'
    BY <1>1, <2>6 DEF Shape
  <2>11. MbufsCounted'
    BY <1>1, <2>9, Conserved DEF Counted, MbufsCounted, AtNode
  <2>. QED BY <2>10, <2>11 DEF Counted
<1>. QED BY <1>2, <1>3 DEF lport_process_pkts

LEMMA FreeCounts == ASSUME Counted, NEW n \in Nodes, free_dropped(n) PROVE Counted'
<1>. Shape
  BY DEF Counted
<1>1. /\ tx_seq' = tx_seq /\ txfree' = txfree /\ buf' = buf /\ ring' = ring /\ in' = in
      /\ burst' = burst
  BY DEF free_dropped
<1>2. /\ rxfree' \in [Nodes -> Int] /\ dropped' \in [Nodes -> Int]
      /\ rxfree'[n] + dropped'[n] = rxfree[n] + dropped[n]
      /\ \A m \in Nodes : m # n => rxfree'[m] = rxfree[m] /\ dropped'[m] = dropped[m]
  BY DEF free_dropped, Shape
<1>3. AtNode(ref)' = AtNode(ref) /\ AtNode(mir)' = AtNode(mir)
  BY <1>1, <1>2, TwoNodes DEF AtNode
<1>4. Shape'
  BY <1>1, <1>2 DEF Shape
<1>5. MbufsCounted'
  BY <1>1, <1>3, Conserved DEF Counted, MbufsCounted, AtNode
<1>. QED BY <1>4, <1>5 DEF Counted

\* The frame at the head of a NIC's ring leaves it, and its mbuf is free again.
LEMMA SentCounts ==
    ASSUME Shape, NEW n \in Nodes, ring[n] # <<>>, Sent(n)
    PROVE  /\ ring' \in [Nodes -> Seq(AnyFrame)] /\ Len(ring'[n]) = Len(ring[n]) - 1
           /\ \A m \in Nodes : m # n => ring'[m] = ring[m]
           /\ Head(ring[n]) \in AnyFrame /\ txfree' \in Int
           /\ txfree' + Len(ring'[ref]) = txfree + Len(ring[ref])
<1>1. /\ Head(ring[n]) \in AnyFrame /\ Tail(ring[n]) \in Seq(AnyFrame)
      /\ Len(Tail(ring[n])) = Len(ring[n]) - 1
  BY TailIs DEF Shape
<1>2. /\ ring' \in [Nodes -> Seq(AnyFrame)] /\ Len(ring'[n]) = Len(ring[n]) - 1
      /\ \A m \in Nodes : m # n => ring'[m] = ring[m]
  BY <1>1 DEF Sent, Shape
<1>3. txfree' = IF n = ref THEN txfree + 1 ELSE txfree
  BY DEF Sent
<1>4. txfree' \in Int
  BY <1>3 DEF Shape
<1>5. Len(ring[ref]) \in Nat /\ txfree \in Int
  BY Numbered, TwoNodes DEF Shape
<1>6. txfree' + Len(ring'[ref]) = txfree + Len(ring[ref])
  <2>1. CASE n = ref
    <3>1. txfree' = txfree + 1 /\ Len(ring'[ref]) = Len(ring[ref]) - 1
      BY <1>2, <1>3, <2>1
    <3>2. (txfree + 1) + (Len(ring[ref]) - 1) = txfree + Len(ring[ref])
      <4>. DEFINE k == Len(ring[ref])
      <4>1. k \in Int
        BY <1>5
      <4>. HIDE DEF k
      <4>2. (txfree + 1) + (k - 1) = txfree + k
        BY <1>5, <4>1, OneMoves
      <4>. QED BY <4>2 DEF k
    <3>. QED BY <3>1, <3>2, Zenon
  <2>2. CASE n # ref
    BY <1>2, <1>3, <2>2, TwoNodes
  <2>. QED BY <2>1, <2>2
<1>. QED BY <1>1, <1>2, <1>4, <1>6

\* A frame that arrives takes an mbuf of the receiver's pool.
LEMMA ReceiveKeeps ==
    ASSUME Shape, NEW m \in Nodes, NEW f \in AnyFrame, in' = [in EXCEPT ![m] = Append(@, f)],
           rxfree'[m] = rxfree[m] - 1, dropped' = dropped, burst' = burst
    PROVE  in' \in [Nodes -> Seq(AnyFrame)] /\ AtNode(m)' = AtNode(m)
<1>1. Append(in[m], f) \in Seq(AnyFrame) /\ Len(Append(in[m], f)) = Len(in[m]) + 1
  BY DEF Shape
<1>2. in' \in [Nodes -> Seq(AnyFrame)] /\ Len(in'[m]) = Len(in[m]) + 1
  BY <1>1 DEF Shape
<1>3. PICK r \in Int, d \in Int, i \in Int, b \in Int :
          r = rxfree[m] /\ d = dropped[m] /\ i = Len(in[m]) /\ b = Len(burst[m])
  BY Numbered
<1>4. AtNode(m)' = (r - 1) + d + (i + 1) + b /\ AtNode(m) = r + d + i + b
  BY <1>2, <1>3 DEF AtNode
<1>. QED BY <1>2, <1>4

\* A frame that leaves the mirror's NIC returns its mbuf to the Rx pool.
LEMMA ReturnKeeps ==
    ASSUME Shape, rxfree'[mir] = rxfree[mir] + 1, Len(ring'[mir]) = Len(ring[mir]) - 1,
           dropped' = dropped, burst' = burst, in'[mir] = in[mir], buf' = buf
    PROVE  AtNode(mir)' + Len(buf'[mir]) + Len(ring'[mir])
               = AtNode(mir) + Len(buf[mir]) + Len(ring[mir])
<1>0. /\ Len(buf[mir]) \in Nat /\ Len(ring[mir]) \in Nat /\ rxfree[mir] \in Int
      /\ Len(in[mir]) \in Nat /\ Len(burst[mir]) \in Nat /\ dropped[mir] \in Int
  BY Numbered, TwoNodes
<1>1. PICK r \in Int, d \in Int, i \in Int, b \in Int :
          r = rxfree[mir] /\ d = dropped[mir] /\ i = Len(in[mir]) /\ b = Len(burst[mir])
  BY <1>0
<1>2. PICK u \in Int, g \in Int : u = Len(buf[mir]) /\ g = Len(ring[mir])
  BY <1>0
<1>3. AtNode(mir)' = (r + 1) + d + i + b /\ AtNode(mir) = r + d + i + b
  BY <1>1 DEF AtNode
<1>4. ((r + 1) + d + i + b) + u + (g - 1) = (r + d + i + b) + u + g
  OBVIOUS
<1>. QED BY <1>2, <1>3, <1>4, Zenon

LEMMA DeliverCounts == ASSUME Counted, NEW n \in Nodes, Deliver(n) PROVE Counted'
<1>. Shape
  BY DEF Counted
<1>1. /\ tx_seq' = tx_seq /\ buf' = buf /\ burst' = burst /\ dropped' = dropped
      /\ ring[n] # <<>> /\ Sent(n)
      /\ rxfree' = [k \in Nodes |-> rxfree[k] - (IF k = peer(n) THEN 1 ELSE 0)
                                             + (IF k = n /\ n = mir THEN 1 ELSE 0)]
  BY DEF Deliver
<1>2. /\ ring' \in [Nodes -> Seq(AnyFrame)] /\ Len(ring'[n]) = Len(ring[n]) - 1
      /\ \A m \in Nodes : m # n => ring'[m] = ring[m]
      /\ Head(ring[n]) \in AnyFrame /\ txfree' \in Int
      /\ txfree' + Len(ring'[ref]) = txfree + Len(ring[ref])
  BY <1>1, SentCounts
<1>3. PICK f \in AnyFrame : in' = [in EXCEPT ![peer(n)] = Append(@, f)]
  <2>1. PICK ok \in BOOLEAN :
            in' = [in EXCEPT ![peer(n)] =
                      Append(@, [Head(ring[n]) EXCEPT !.pay = @ /\ ok])]
    BY Zenon DEF Deliver
  <2>2. [Head(ring[n]) EXCEPT !.pay = @ /\ ok] \in AnyFrame
    BY <1>2, DamagedOK
  <2>. QED BY <2>1, <2>2, Zenon
<1>4. rxfree' \in [Nodes -> Int]
  BY <1>1 DEF Shape
<1>5. CASE n = ref
  <2>1. rxfree'[mir] = rxfree[mir] - 1 /\ rxfree'[ref] = rxfree[ref]
    BY <1>1, <1>5, TwoNodes DEF Shape
  <2>2. in' \in [Nodes -> Seq(AnyFrame)] /\ AtNode(mir)' = AtNode(mir)
    BY <1>1, <1>3, <1>5, <2>1, ReceiveKeeps, TwoNodes, Zenon
  <2>3. AtNode(ref)' = AtNode(ref) /\ ring'[mir] = ring[mir]
    BY <1>1, <1>2, <1>3, <1>5, <2>1, TwoNodes DEF AtNode, Shape
  <2>4. Shape'
    BY <1>1, <1>2, <1>4, <2>2, Zenon DEF Shape
  <2>5. MbufsCounted'
    BY <1>1, <1>2, <2>2, <2>3, Conserved DEF Counted, MbufsCounted, AtNode
  <2>. QED BY <2>4, <2>5 DEF Counted
<1>6. CASE n = mir
  <2>1. rxfree'[ref] = rxfree[ref] - 1 /\ rxfree'[mir] = rxfree[mir] + 1
    BY <1>1, <1>6, TwoNodes DEF Shape
  <2>2. in' \in [Nodes -> Seq(AnyFrame)] /\ AtNode(ref)' = AtNode(ref)
    BY <1>1, <1>3, <1>6, <2>1, ReceiveKeeps, TwoNodes, Zenon
  <2>3. in'[mir] = in[mir]
    BY <1>3, <1>6, TwoNodes DEF Shape
  <2>4. AtNode(mir)' + Len(buf'[mir]) + Len(ring'[mir])
            = AtNode(mir) + Len(buf[mir]) + Len(ring[mir])
    BY <1>1, <1>2, <1>6, <2>1, <2>3, ReturnKeeps
  <2>5. Shape'
    BY <1>1, <1>2, <1>4, <2>2, Zenon DEF Shape
  <2>6. MbufsCounted'
    BY <1>2, <2>2, <2>4, Conserved DEF Counted, MbufsCounted, AtNode
  <2>. QED BY <2>5, <2>6 DEF Counted
<1>. QED BY <1>5, <1>6, TwoNodes

LEMMA LoseCounts == ASSUME Counted, NEW n \in Nodes, Lose(n) PROVE Counted'
<1>. Shape
  BY DEF Counted
<1>1. /\ tx_seq' = tx_seq /\ buf' = buf /\ burst' = burst /\ dropped' = dropped /\ in' = in
      /\ ring[n] # <<>> /\ Sent(n)
      /\ rxfree' = IF n = mir THEN [rxfree EXCEPT ![mir] = @ + 1] ELSE rxfree
  BY DEF Lose
<1>2. /\ ring' \in [Nodes -> Seq(AnyFrame)] /\ Len(ring'[n]) = Len(ring[n]) - 1
      /\ \A m \in Nodes : m # n => ring'[m] = ring[m]
      /\ txfree' \in Int /\ txfree' + Len(ring'[ref]) = txfree + Len(ring[ref])
  BY <1>1, SentCounts
<1>3. Shape'
  <2>1. rxfree \in [Nodes -> Int]
    BY DEF Shape
  <2>2. rxfree' \in [Nodes -> Int]
    BY <1>1, <2>1
  <2>. QED BY <1>1, <1>2, <2>2, Zenon DEF Shape
<1>4. AtNode(ref)' = AtNode(ref)
  BY <1>1, TwoNodes DEF AtNode, Shape
<1>5. AtNode(mir)' + Len(buf'[mir]) + Len(ring'[mir])
          = AtNode(mir) + Len(buf[mir]) + Len(ring[mir])
  <2>1. CASE n = ref
    BY <1>1, <1>2, <2>1, TwoNodes DEF AtNode
  <2>2. CASE n = mir
    <3>1. rxfree'[mir] = rxfree[mir] + 1
      BY <1>1, <2>2, TwoNodes DEF Shape
    <3>. QED BY <1>1, <1>2, <2>2, <3>1, ReturnKeeps
  <2>. QED BY <2>1, <2>2, TwoNodes
<1>6. MbufsCounted'
  BY <1>2, <1>4, <1>5, Conserved DEF Counted, MbufsCounted, AtNode
<1>. QED BY <1>3, <1>6 DEF Counted

LEMMA ArriveCounts ==
    ASSUME Counted, NEW n \in Nodes, NEW kind, Arrive(n, kind)
    PROVE  Counted'
<1>. Shape
  BY DEF Counted
<1>1. /\ tx_seq' = tx_seq /\ txfree' = txfree /\ buf' = buf /\ ring' = ring
      /\ burst' = burst /\ dropped' = dropped
      /\ in' = [in EXCEPT ![n] = Append(@, ForeignFrame(kind))]
      /\ rxfree' = [rxfree EXCEPT ![n] = @ - 1]
  BY DEF Arrive
<1>2. /\ rxfree' \in [Nodes -> Int] /\ rxfree'[n] = rxfree[n] - 1
      /\ \A m \in Nodes : m # n => rxfree'[m] = rxfree[m] /\ in'[m] = in[m]
  BY <1>1 DEF Shape
<1>3. in' \in [Nodes -> Seq(AnyFrame)] /\ AtNode(n)' = AtNode(n)
  BY <1>1, <1>2, ForeignOK, ReceiveKeeps, Zenon
<1>4. AtNode(ref)' = AtNode(ref) /\ AtNode(mir)' = AtNode(mir)
  BY <1>1, <1>2, <1>3, TwoNodes DEF AtNode
<1>5. Shape'
  BY <1>1, <1>2, <1>3 DEF Shape
<1>6. MbufsCounted'
  BY <1>1, <1>4, Conserved DEF Counted, MbufsCounted, AtNode
<1>. QED BY <1>5, <1>6 DEF Counted

LEMMA CountedStep == Counted /\ [Next]_vars => Counted'
<1>. SUFFICES ASSUME Counted, [Next]_vars PROVE Counted'
  OBVIOUS
<1>1. CASE TxReference
  BY <1>1, GenCounts DEF TxReference, tsn_gen_and_send_frames, rtc_gen_and_send_frames,
     rta_gen_and_send_frames, dcp_gen_and_send_frames, lldp_gen_and_send_frames,
     udp_gen_and_send_frame, l2_gen_and_send_frames
<1>2. CASE send_frames_common
  BY <1>2, SendCounts
<1>3. ASSUME NEW n \in Nodes, RxRoutine(n) PROVE Counted'
  <2>1. lport_process_pkts(n)
    BY <1>3 DEF RxRoutine, tsn_rx_thread_routine, rtc_rx_thread_routine,
       rta_rx_thread_routine, dcp_rx_thread_routine, lldp_rx_thread_routine,
       udp_rx_thread_routine, l2_rx_thread_routine
  <2>. QED BY <2>1, PollCounts
<1>4. ASSUME NEW n \in Nodes, RxFrame(n) PROVE Counted'
  <2>1. PICK checks \in {{"small", "vlan", "id", "resync", "retag"}, {"vlan"}, {"resync"},
                         {"small", "vlan", "resync", "retag"}} : rx_frame(n, checks)
    BY <1>4 DEF RxFrame, tsn_rx_frame, rtc_rx_frame, rta_rx_frame, dcp_rx_frame,
       lldp_rx_frame, udp_rx_frame, l2_rx_frame
  <2>. QED BY <2>1, RxCounts
<1>5. ASSUME NEW n \in Nodes, free_dropped(n) PROVE Counted'
  BY <1>5, FreeCounts
<1>6. ASSUME NEW n \in Nodes, Deliver(n) \/ Lose(n) PROVE Counted'
  BY <1>6, DeliverCounts, LoseCounts
<1>7. ASSUME NEW n \in Nodes, NEW kind \in Foreign, Arrive(n, kind) PROVE Counted'
  BY <1>7, ArriveCounts
<1>8. CASE Overrun \/ UNCHANGED vars
  BY <1>8, Zenon DEF Overrun, vars, Counted, Shape, MbufsCounted
<1>. QED BY <1>1, <1>2, <1>3, <1>4, <1>5, <1>6, <1>7, <1>8 DEF Next

LEMMA InitCounted == Init => Counted
<1>. SUFFICES ASSUME Init PROVE Counted
  OBVIOUS
<1>1. Shape
  BY ExchangeAssumption, EmptyIs DEF Init, Shape
<1>2. MbufsCounted
  BY ExchangeAssumption, EmptyIs, TwoNodes DEF Init, MbufsCounted
<1>. QED BY <1>1, <1>2 DEF Counted

\* Until a flush finds the Tx ring too full, no mbuf leaks and none is freed twice,
\* on any path through the Rx loops, the array of dropped mbufs, the Tx buffer and
\* the NIC, for every size of the pools, buffers, arrays and bursts.
THEOREM MbufsConservedHolds == Spec => []MbufsConserved
<1>1. Counted => MbufsConserved
  BY DEF Counted, MbufsConserved
<1>. QED BY <1>1, InitCounted, CountedStep, PTL DEF Spec
=============================================================================

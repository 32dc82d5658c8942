--------------------------- MODULE FrameTheorems ----------------------------
(***************************************************************************)
(* The frames of a class keep their order, and the errors that a node      *)
(* counts have a cause, for every number of frames per cycle, every pool,  *)
(* buffer and burst size and every pattern of lost, damaged, refused and   *)
(* foreign frames.                                                         *)
(***************************************************************************)
EXTENDS FrameExchange_proofs, FrameTx_proofs, FrameRx_proofs, FrameLine, FrameLedger,
        FiniteSetTheorems
-----------------------------------------------------------------------------
(* The rules hold *)

\* The facts about counting, from the library.
LEMMA CountingHolds == Counting
<1>1. \A n \in Int : IsFiniteSet(0 .. n)
  BY FS_Interval
<1>2. ASSUME NEW S, IsFiniteSet(S), NEW T, T \subseteq S
      PROVE  /\ IsFiniteSet(T) /\ Cardinality(T) \in Nat /\ Cardinality(S) \in Nat
             /\ Cardinality(T) <= Cardinality(S)
  BY <1>2, FS_Subset, FS_CardinalityType
<1>3. ASSUME NEW S, IsFiniteSet(S), NEW x
      PROVE  IsFiniteSet(S \cup {x}) /\ Cardinality(S \cup {x}) <= Cardinality(S) + 1
  <2>1. Cardinality(S) \in Nat
    BY <1>3, FS_CardinalityType
  <2>2. /\ IsFiniteSet(S \cup {x})
        /\ Cardinality(S \cup {x}) = IF x \in S THEN Cardinality(S) ELSE Cardinality(S) + 1
    BY <1>3, FS_AddElement
  <2>. QED BY <2>1, <2>2
<1>4. ASSUME NEW S, IsFiniteSet(S), NEW x, NEW T, T \subseteq S \cup {x}
      PROVE  /\ IsFiniteSet(T) /\ Cardinality(T) \in Nat /\ Cardinality(S) \in Nat
             /\ Cardinality(T) <= Cardinality(S) + 1
  <2>1. IsFiniteSet(S \cup {x}) /\ Cardinality(S \cup {x}) <= Cardinality(S) + 1
    BY <1>3, <1>4
  <2>2. /\ IsFiniteSet(T) /\ Cardinality(T) \in Nat /\ Cardinality(S \cup {x}) \in Nat
        /\ Cardinality(T) <= Cardinality(S \cup {x})
    BY <1>2, <1>4, <2>1
  <2>3. Cardinality(S) \in Nat
    BY <1>4, FS_CardinalityType
  <2>. QED BY <2>1, <2>2, <2>3
<1>5. ASSUME NEW S, IsFiniteSet(S), NEW x \in S, NEW T, T \subseteq S \ {x}
      PROVE  /\ IsFiniteSet(T) /\ Cardinality(T) \in Nat /\ Cardinality(S) \in Nat
             /\ Cardinality(T) + 1 <= Cardinality(S)
  <2>1. IsFiniteSet(S \ {x}) /\ Cardinality(S \ {x}) = Cardinality(S) - 1
    BY <1>5, FS_RemoveElement
  <2>2. /\ IsFiniteSet(T) /\ Cardinality(T) \in Nat
        /\ Cardinality(T) <= Cardinality(S \ {x})
    BY <1>2, <1>5, <2>1
  <2>3. Cardinality(S) \in Nat
    BY <1>5, FS_CardinalityType
  <2>. QED BY <2>1, <2>2, <2>3
<1>. QED BY <1>1, <1>2, <1>4, <1>5, Zenon DEF Counting

\* The rules of the line and of the books hold.
LEMMA RulesHold == Rules
  BY CountingHolds, LineRulesHold, BookRulesHold, Zenon DEF Rules
-----------------------------------------------------------------------------
(* The invariant *)

\* The books are empty at first.
LEMMA InitKept == ASSUME Init PROVE Kept
<1>1. \A d \in 1 .. 7 : Way[d] = <<>>
  <2>1. /\ buf[mir] = <<>> /\ ring[ref] = <<>> /\ ring[mir] = <<>> /\ in[ref] = <<>>
        /\ in[mir] = <<>> /\ burst[ref] = <<>> /\ burst[mir] = <<>>
    BY TwoNodes DEF Init
  <2>2. \A d \in 1 .. 7 : d \in {1, 2, 3, 4, 5, 6, 7}
    OBVIOUS
  <2>. QED BY <2>1, <2>2, TxWay
<1>2. <<>> \in Seq(AnyFrame) /\ Ascending(<<>>) /\ Elements(<<>>) = {} /\ Numbers(<<>>) = {}
  BY EmptyQueue DEF Ascending, Elements
<1>3. Lined(class, Way)
  BY <1>1, <1>2, Zenon DEF Lined, InLine, Queue
<1>4. HomeOf(Way) = {} /\ OutOf(Way) = {} /\ GoodOf(Way) = {}
  <2>1. /\ 1 \in 1 .. 7 /\ 2 \in 1 .. 7 /\ 3 \in 1 .. 7 /\ 4 \in 1 .. 7
        /\ 5 \in 1 .. 7 /\ 6 \in 1 .. 7 /\ 7 \in 1 .. 7
    OBVIOUS
  <2>2. HomeOf(Way) = {} /\ OutOf(Way) = {}
    BY <1>1, <1>2, <2>1 DEF HomeOf, OutOf
  <2>3. GoodOf(Way) \subseteq OutOf(Way)
    BY <1>3, GoodOutHolds
  <2>. QED BY <2>2, <2>3
<1>5. /\ class \in Classes /\ tx_seq = 0 /\ rx_seq = [n \in Nodes |-> 0]
      /\ adj = [n \in Nodes |-> 0] /\ stat = [n \in Nodes |-> NoStat]
      /\ backlog = [i \in 0 .. backlog_len - 1 |-> NONE]
      /\ faults = 0 /\ refused = 0 /\ late = FALSE /\ badRtt = 0
  BY DEF Init
<1>6. NoStat \in Counters /\ NoStat.out_of_order_errors = 0 /\ NoStat.frame_id_errors = 0
  BY DEF NoStat, Counters
<1>7. Typed
  BY <1>5, <1>6 DEF Typed, NONE
<1>8. /\ rx_seq[ref] = 0 /\ rx_seq[mir] = 0
      /\ stat[ref].out_of_order_errors = 0 /\ stat[mir].out_of_order_errors = 0
      /\ stat[ref].frame_id_errors = 0 /\ stat[mir].frame_id_errors = 0
  BY <1>5, <1>6, TwoNodes
<1>9. faults + refused = 0
  BY <1>5
<1>10. Placed(class, 0, 0, 0, {}, {}, {}, 0, 0)
  <2>1. FramesPerCycle \in Nat \ {0} /\ SeqMod \in Nat \ {0}
    BY CounterAssumption, SeqModOKHolds
  <2>2. 0 % FramesPerCycle = 0
    BY <2>1
  <2>3. Cut(0) = 0
    BY <2>1 DEF Cut
  <2>. QED BY <2>2, <2>3 DEF Placed
<1>12. Explained(class, 0, 0, {}, 0, 0, 0)
  <2>1. Breaks(0, 0, {}) = {}
    BY DEF Breaks
  <2>2. Cardinality({}) = 0
    BY FS_EmptySet
  <2>3. 0 \div SeqMod \in Nat
    BY SeqModOKHolds
  <2>. QED BY <2>1, <2>2, <2>3 DEF Explained
<1>13. Measured(0, {}, backlog, backlog_len, FALSE, 0, 0)
  <2>1. Spoiled(0, {}, backlog, backlog_len) = {}
    BY DEF Spoiled
  <2>2. Cardinality({}) = 0
    BY FS_EmptySet
  <2>. QED BY <2>1, <2>2, BacklogLen DEF Measured
<1>14. Ledger(class, 0, 0, 0, {}, {}, {}, 0, 0, 0, 0, 0, 0, 0, backlog, backlog_len, FALSE, 0)
  <2>1. {} \cup {} = {}
    OBVIOUS
  <2>2. Stuck(class, 0, {}, 0, 0)
    BY DEF Stuck
  <2>. QED BY <1>10, <1>12, <1>13, <2>1, <2>2, Zenon DEF Ledger
<1>15. Books(0, 0)
  BY <1>4, <1>5, <1>8, <1>9, <1>14, Zenon DEF Books
<1>. QED BY <1>3, <1>7, <1>15 DEF Kept

\* A node handles a frame of its burst.
LEMMA RxKept == ASSUME Rules, Kept, Formed, NEW n \in Nodes, RxFrame(n) PROVE Kept'
<1>1. PICK f, checks :
             /\ f \in AnyFrame /\ Received(n, f) /\ Known(class, f)
             /\ "resync" \in checks <=> class # "dcp"
             /\ \/ Refuse(n, f)
                \/ /\ check_frame(n, f, checks) /\ f.seq = NONE /\ ~ f.id
                   /\ "id" \in checks /\ class # "dcp"
                \/ check_frame(n, f, checks) /\ f.seq # NONE
  BY RxIs
<1>2. CASE Refuse(n, f)
  BY <1>1, <1>2, RefuseKept
<1>3. CASE /\ check_frame(n, f, checks) /\ f.seq = NONE /\ ~ f.id
           /\ "id" \in checks /\ class # "dcp"
  BY <1>1, <1>3, ForeignKept
<1>4. CASE check_frame(n, f, checks) /\ f.seq # NONE
  BY <1>1, <1>4, OwnKept
<1>. QED BY <1>1, <1>2, <1>3, <1>4

\* Every step keeps the invariant.
LEMMA KeptStep == ASSUME Rules PROVE Formed /\ Kept /\ [Next]_vars => Kept'
<1>. SUFFICES ASSUME Formed, Kept, [Next]_vars PROVE Kept'
  OBVIOUS
<1>1. CASE TxReference
  <2>1. gen_and_send_frames
    BY <1>1 DEF TxReference, tsn_gen_and_send_frames, rtc_gen_and_send_frames,
         rta_gen_and_send_frames, dcp_gen_and_send_frames, lldp_gen_and_send_frames,
         udp_gen_and_send_frame, l2_gen_and_send_frames
  <2>. QED BY <2>1, GenKept
<1>2. CASE send_frames_common
  BY <1>2, SendKept
<1>3. ASSUME NEW n \in Nodes, RxRoutine(n) PROVE Kept'
  <2>1. lport_process_pkts(n)
    BY <1>3 DEF RxRoutine, tsn_rx_thread_routine, rtc_rx_thread_routine, rta_rx_thread_routine,
         dcp_rx_thread_routine, lldp_rx_thread_routine, udp_rx_thread_routine, l2_rx_thread_routine
  <2>. QED BY <2>1, PollKept
<1>4. ASSUME NEW n \in Nodes, RxFrame(n) PROVE Kept'
  BY <1>4, RxKept
<1>5. ASSUME NEW n \in Nodes, free_dropped(n) PROVE Kept'
  BY <1>5, FreeKept
<1>6. ASSUME NEW n \in Nodes, Deliver(n) PROVE Kept'
  BY <1>6, DeliverKept
<1>7. ASSUME NEW n \in Nodes, Lose(n) PROVE Kept'
  BY <1>7, LoseKept
<1>8. ASSUME NEW n \in Nodes, NEW kind \in Foreign, Arrive(n, kind) PROVE Kept'
  BY <1>8, ArriveKept
<1>9. CASE Overrun \/ UNCHANGED vars
  BY <1>9, StutterKept DEF Overrun
<1>. QED BY <1>1, <1>2, <1>3, <1>4, <1>5, <1>6, <1>7, <1>8, <1>9 DEF Next

\* Lost, damaged, refused and foreign frames included, the nodes keep their frames in
\* line and their books: the invariant behind the theorems below.
THEOREM KeptHolds == Spec => [](Counted /\ Kept)
<1>1. Init => Counted /\ Kept
  <2>1. Init => Counted
    BY InitCounted
  <2>. QED BY <2>1, InitKept
<1>2. Counted /\ Kept /\ [Next]_vars => (Counted /\ Kept)'
  <2>1. Counted => Formed
    BY DEF Counted, Shape, Formed
  <2>. QED BY <2>1, CountedStep, KeptStep, RulesHold
<1>. QED BY <1>1, <1>2, PTL DEF Spec
-----------------------------------------------------------------------------
(* The theorems *)

\* The line of frames is the order of OrderKept.
LEMMA InLineOrder == ASSUME Kept PROVE OrderKept
<1>1. Lined(class, Way) /\ DOMAIN Way = 1 .. 7
  BY DEF Kept, Way
<1>2. \A s \in 1 .. 7 : Ascending(Way[s])
  BY <1>1 DEF Lined, Queue
<1>3. \A s, t \in 1 .. 7 : s < t => \A x \in Numbers(Way[s]), y \in Numbers(Way[t]) : x < y
  BY <1>1 DEF Lined, InLine
<1>4. PICK a \in Nat, b \in Nat : Books(a, b)
  BY DEF Kept
<1>5. Placed(class, tx_seq, a, b, HomeOf(Way), OutOf(Way), GoodOf(Way), rx_seq[ref], rx_seq[mir])
  BY <1>4 DEF Books, Ledger
<1>6. ASSUME NEW x \in UnderWay PROVE rx_seq[ref] <= x /\ x < tx_seq
  <2>1. PICK s \in 1 .. 7 : x \in Numbers(Way[s])
    BY <1>1 DEF UnderWay
  <2>2. x \in HomeOf(Way) \cup OutOf(Way)
    <3>1. s \in {1, 2, 3, 4, 5, 6, 7}
      OBVIOUS
    <3>. QED BY <2>1, <3>1 DEF HomeOf, OutOf
  <2>3. /\ a \in Nat /\ b \in Nat /\ tx_seq \in Nat /\ rx_seq[ref] \in Nat
        /\ a <= b /\ b <= tx_seq /\ rx_seq[ref] <= a
        /\ HomeOf(Way) \subseteq a .. b - 1 /\ OutOf(Way) \subseteq b .. tx_seq - 1
    BY <1>5 DEF Placed
  <2>. QED BY <2>2, <2>3
<1>. QED BY <1>1, <1>2, <1>3, <1>6 DEF OrderKept

\* The frames of a class stay in order all the way round and none is there twice, and the
\* reference expects none that is still to come home later, whatever is lost on the way.
THEOREM OrderKeptHolds == Spec => []OrderKept
<1>1. Kept => OrderKept
  BY InLineOrder
<1>. QED BY <1>1, KeptHolds, PTL

\* No node expects a frame that was not generated yet, and the reference none that the
\* mirror has not seen, whatever other stations send.
THEOREM ExpectsNoFutureHolds == Spec => []ExpectsNoFuture
<1>1. ASSUME Kept PROVE ExpectsNoFuture
  <2>1. PICK a \in Nat, b \in Nat : Books(a, b)
    BY <1>1 DEF Kept
  <2>2. Placed(class, tx_seq, a, b, HomeOf(Way), OutOf(Way), GoodOf(Way), rx_seq[ref], rx_seq[mir])
    BY <2>1 DEF Books, Ledger
  <2>3. rx_seq[mir] \in Nat /\ rx_seq[mir] <= b /\ b <= tx_seq /\ tx_seq \in Nat
    BY <2>2 DEF Placed
  <2>4. tx_seq <= SeqMod => rx_seq[ref] <= rx_seq[mir]
    BY <2>2 DEF Placed
  <2>. QED BY <2>3, <2>4 DEF ExpectsNoFuture, NoWrap
<1>2. Kept => ExpectsNoFuture
  BY <1>1
<1>. QED BY <1>2, KeptHolds, PTL

\* A receiver that adjusts to missing frames counts no more out-of-order errors than there
\* were frames lost, damaged, refused or foreign, and wraps of the cycle number.
THEOREM OutOfOrderExplainedHolds == Spec => []OutOfOrderExplained
<1>1. ASSUME Kept PROVE OutOfOrderExplained
  <2>1. PICK a \in Nat, b \in Nat : Books(a, b)
    BY <1>1 DEF Kept
  <2>. DEFINE H == HomeOf(Way)
              O == OutOf(Way)
              G == GoodOf(Way)
              or == stat[ref].out_of_order_errors
              om == stat[mir].out_of_order_errors
              ir == stat[ref].frame_id_errors
              im == stat[mir].frame_id_errors
              fr == faults + refused
  <2>2. /\ Placed(class, tx_seq, a, b, H, O, G, rx_seq[ref], rx_seq[mir])
        /\ Explained(class, tx_seq, a, H \cup G, or, fr, ir)
        /\ Explained(class, tx_seq, b, O, om, fr, im)
    BY <2>1 DEF Books, Ledger
  <2>. HIDE DEF H, O, G, or, om, ir, im, fr
  <2>3. /\ H \cup G \in SUBSET (0 .. tx_seq - 1) /\ O \in SUBSET (0 .. tx_seq - 1)
        /\ tx_seq \in Nat
    BY <2>2, PlacedSets
  <2>4. /\ Cardinality(Breaks(tx_seq, a, H \cup G)) \in Nat
        /\ Cardinality(Breaks(tx_seq, b, O)) \in Nat
    BY <2>3, CountingHolds, BreaksFinite
  <2>5. wraps \in Nat /\ wraps = tx_seq \div SeqMod
    BY <2>3, SeqModOKHolds DEF wraps
  <2>6. fr \in Nat /\ or \in Nat /\ om \in Nat /\ ir \in Nat /\ im \in Nat
    BY <2>2 DEF Explained
  <2>7. class # "dcp" => or <= fr + wraps + ir
    BY <2>2, <2>4, <2>5, <2>6 DEF Explained
  <2>8. class # "dcp" => om <= fr + wraps + im
    BY <2>2, <2>4, <2>5, <2>6 DEF Explained
  <2>9. /\ class # "dcp" => stat[ref].out_of_order_errors
                               <= faults + refused + wraps + stat[ref].frame_id_errors
        /\ class # "dcp" => stat[mir].out_of_order_errors
                               <= faults + refused + wraps + stat[mir].frame_id_errors
    BY <2>7, <2>8 DEF or, om, ir, im, fr
  <2>. QED BY <2>9, TwoNodes DEF OutOfOrderExplained
<1>2. Kept => OutOfOrderExplained
  BY <1>1
<1>. QED BY <1>2, KeptHolds, PTL

\* A frame that is not too late is measured against its own Tx time in the backlog, but for
\* two frames for each foreign one.
THEOREM RoundTripTimesMatchHolds == Spec => []RoundTripTimesMatch
<1>1. ASSUME Kept PROVE RoundTripTimesMatch
  <2>1. PICK a \in Nat, b \in Nat : Books(a, b)
    BY <1>1 DEF Kept
  <2>. DEFINE H == HomeOf(Way)
              O == OutOf(Way)
              G == GoodOf(Way)
              ir == stat[ref].frame_id_errors
  <2>2. /\ Placed(class, tx_seq, a, b, H, O, G, rx_seq[ref], rx_seq[mir])
        /\ Measured(tx_seq, H \cup G, backlog, backlog_len, late, badRtt, ir)
    BY <2>1 DEF Books, Ledger
  <2>. HIDE DEF H, O, G, ir
  <2>3. H \cup G \in SUBSET (0 .. tx_seq - 1) /\ tx_seq \in Nat
    BY <2>2, PlacedSets
  <2>4. Cardinality(Spoiled(tx_seq, H \cup G, backlog, backlog_len)) \in Nat
    BY <2>3, CountingHolds, SpoiledFinite
  <2>5. (~ late /\ tx_seq <= SeqMod) => badRtt <= 2 * ir
    BY <2>2, <2>4 DEF Measured
  <2>. QED BY <2>5 DEF RoundTripTimesMatch, NoWrap, ir
<1>2. Kept => RoundTripTimesMatch
  BY <1>1
<1>. QED BY <1>2, KeptHolds, PTL

\* Once the DCP receiver has counted an error, no step moves what it expects until the
\* cycle number starts again.
THEOREM DcpNeverRecoversHolds == Spec => DcpNeverRecovers
<1>. DEFINE Still == \A n \in Nodes : (class = "dcp" /\ NoWrap /\ stat[n].out_of_order_errors > 0)
                            => rx_seq'[n] = rx_seq[n]
<1>1. ASSUME Counted, Kept, Next PROVE Still
  <2>. SUFFICES ASSUME NEW m \in Nodes, class = "dcp", NoWrap, stat[m].out_of_order_errors > 0
                PROVE  rx_seq'[m] = rx_seq[m]
    OBVIOUS
  <2>1. CASE \E n \in Nodes : RxFrame(n)
    BY <1>1, <2>1, RxStill, RulesHold DEF Counted, Shape, Formed
  <2>2. CASE TxReference
    BY <2>2 DEF TxReference, tsn_gen_and_send_frames, rtc_gen_and_send_frames,
         rta_gen_and_send_frames, dcp_gen_and_send_frames, lldp_gen_and_send_frames,
         udp_gen_and_send_frame, l2_gen_and_send_frames, gen_and_send_frames
  <2>3. CASE send_frames_common
    BY <2>3 DEF send_frames_common
  <2>4. CASE \E n \in Nodes : RxRoutine(n)
    BY <2>4, Zenon DEF RxRoutine, tsn_rx_thread_routine, rtc_rx_thread_routine, rta_rx_thread_routine,
         dcp_rx_thread_routine, lldp_rx_thread_routine, udp_rx_thread_routine,
         l2_rx_thread_routine, lport_process_pkts
  <2>5. CASE \E n \in Nodes : free_dropped(n)
    BY <2>5, Zenon DEF free_dropped
  <2>6. CASE \E n \in Nodes : Deliver(n)
    BY <2>6 DEF Deliver
  <2>7. CASE \E n \in Nodes : Lose(n)
    BY <2>7 DEF Lose
  <2>8. CASE \E n \in Nodes, kind \in Foreign : Arrive(n, kind)
    BY <2>8 DEF Arrive
  <2>9. CASE Overrun
    BY <2>9 DEF Overrun, vars
  <2>. QED BY <1>1, <2>1, <2>2, <2>3, <2>4, <2>5, <2>6, <2>7, <2>8, <2>9 DEF Next
<1>2. Counted /\ Kept /\ [Next]_vars => [Still]_vars
  BY <1>1
<1>. QED BY <1>2, KeptHolds, PTL DEF Spec, DcpNeverRecovers
=============================================================================

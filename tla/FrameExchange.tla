--------------------------- MODULE FrameExchange ----------------------------
(***************************************************************************)
(* The frames of one traffic class between the reference, which generates  *)
(* them, and the mirror, which sends them back.                            *)
(*                                                                         *)
(* On each of the two nodes one thread runs the class's Rx and Tx routines *)
(* in turn, so a node processes a received burst to its end before it      *)
(* sends.  The NICs and the cable between them move, lose or damage frames *)
(* at any time.  Every frame lives in an mbuf of some pool.                *)
(*                                                                         *)
(* The nodes run until a class finds the Tx ring, which it shares with the *)
(* other classes, too full for its frames (overrun).  What pflow_tx() and  *)
(* its caller then do with one and the same mbuf is the subject of PortTx. *)
(***************************************************************************)
EXTENDS Frames, FiniteSets

CONSTANTS Classes,      \* the traffic classes to look at
          BufSize,      \* TX_BUFFER_SIZE
          TxPool,       \* mbufs of the reference's Tx pool
          RxPool,       \* mbufs of each node's Rx pool
          FreePending,  \* LPORT_PKTMBUF_FREE_PENDING_SZ: dropped mbufs that are freed together
          StatMaxBacklog, \* STAT_MAX_BACKLOG: periods of Tx times that are kept
          MaxSeq,       \* bound on the frames generated (TLC)
          MaxFaults,    \* bound on the frames lost or damaged (TLC)
          Foreign,      \* kinds of foreign frames that may arrive, each once per node
          MaxForeign    \* bound on the foreign frames (TLC)

ASSUME ExchangeAssumption ==
    /\ Classes \subseteq {"tsn", "rtc", "rta", "dcp", "lldp", "udp", "l2"}
    /\ BufSize \in Nat /\ FramesPerCycle <= BufSize   \* MAX_PKT_BURST < TX_BUFFER_SIZE
    /\ TxPool \in Nat /\ RxPool \in Nat /\ StatMaxBacklog \in Nat \ {0}
    /\ FreePending \in Nat \ {0}
    /\ MaxSeq \in Nat /\ MaxFaults \in Nat /\ MaxForeign \in Nat
    /\ Foreign \subseteq {"tiny", "other_type", "untagged", "other_id"}

ref == "ref"
mir == "mir"
Nodes == {ref, mir}
peer(n) == IF n = ref THEN mir ELSE ref

backlog_len == StatMaxBacklog * FramesPerCycle

VARIABLES class,     \* the traffic class
          tx_seq,    \* tx_sequence_counter of the reference
          rx_seq,    \* rx_sequence_counter of each node
          txfree,    \* free mbufs of the reference's Tx pool
          rxfree,    \* free mbufs of each node's Rx pool
          buf,       \* tx_buffer->pkts of each node
          ring,      \* frames handed to each node's NIC
          in,        \* frames each node's NIC has received
          burst,     \* frames of the received burst still to be processed
          dropped,   \* drop_count of each node: mbufs that wait to be freed
          adj,       \* how often expected_frame_length was reduced in the burst
          stat,      \* the global statistics of each node
          backlog,   \* the frame whose Tx time each slot of the backlog holds
          faults,    \* frames lost or damaged
          refused,   \* frames of the class refused for their type or length
          foreign,   \* the foreign frames that have arrived
          late,      \* TRUE once a frame came back after its slot was reused
          badRtt,    \* round-trip times taken against another frame's Tx time
          overrun    \* TRUE once the Tx ring took only a part of a flush

vars == <<class, tx_seq, rx_seq, txfree, rxfree, buf, ring, in, burst, dropped, adj,
          stat, backlog, faults, refused, foreign, late, badRtt, overrun>>

\* A frame of the class as the reference generates it.
Frame(seq) ==
    [seq |-> seq, meta |-> sequence_counter_to_meta_data(seq),
     tag |-> class \notin {"lldp", "udp"}, short |-> 0,
     type |-> TRUE, id |-> TRUE, pay |-> TRUE]

NoStat == [frames_sent |-> 0, frames_received |-> 0, out_of_order_errors |-> 0,
           payload_errors |-> 0, frame_id_errors |-> 0]

Init ==
    /\ class \in Classes
    /\ tx_seq = 0 /\ rx_seq = [n \in Nodes |-> 0]
    /\ txfree = TxPool /\ rxfree = [n \in Nodes |-> RxPool]
    /\ buf = [n \in Nodes |-> <<>>] /\ ring = [n \in Nodes |-> <<>>]
    /\ in = [n \in Nodes |-> <<>>] /\ burst = [n \in Nodes |-> <<>>]
    /\ dropped = [n \in Nodes |-> 0] /\ adj = [n \in Nodes |-> 0]
    /\ stat = [n \in Nodes |-> NoStat]
    /\ backlog = [i \in 0 .. backlog_len - 1 |-> NONE]
    /\ faults = 0 /\ refused = 0 /\ foreign = {} /\ late = FALSE /\ badRtt = 0
    /\ overrun = FALSE

\* The node's thread is not inside an *_rx_frame() call.
Idle(n) == ~ overrun /\ burst[n] = <<>> /\ dropped[n] = 0
-----------------------------------------------------------------------------
(* lport_tx_buffer_flush() and lport_tx_buffer_add(). *)

\* pflow_tx() puts a prefix of the frames on the Tx ring and frees the others to
\* the pool they came from.  When there are others it returns 0, and the caller
\* goes on with frames that are no longer its own: the overrun.
flush(n, frames) ==
    \E k \in 0 .. Len(frames) :
        LET unsent == Len(frames) - k
        IN  /\ unsent = 0 \/ faults + unsent <= MaxFaults
            /\ ring' = [ring EXCEPT ![n] = @ \o SubSeq(frames, 1, k)]
            /\ faults' = faults + unsent
            /\ overrun' = (unsent > 0)
            /\ IF n = ref
               THEN txfree' = txfree - FramesPerCycle + unsent /\ UNCHANGED rxfree
               ELSE rxfree' = [rxfree EXCEPT ![n] = @ + unsent] /\ UNCHANGED txfree
-----------------------------------------------------------------------------
(* The Tx side. *)

\* stat_frame_sent() for each of count frames: the global counters.
stat_frame_sent(n, count) ==
    stat' = [stat EXCEPT ![n].frames_sent = @ + count]

\* What the *_gen_and_send_frames functions do: FramesPerCycle mbufs are taken
\* from the Tx pool, or the round is skipped; the frames get the next numbers,
\* their Tx time goes into the backlog, and they are sent.
gen_and_send_frames ==
    /\ Idle(ref)
    /\ tx_seq + FramesPerCycle <= MaxSeq
    /\ txfree >= FramesPerCycle
    /\ stat_frame_sent(ref, FramesPerCycle)
    /\ backlog' = [i \in DOMAIN backlog |->
                      IF \E j \in 0 .. FramesPerCycle - 1 : i = (tx_seq + j) % backlog_len
                      THEN CHOOSE q \in tx_seq .. tx_seq + FramesPerCycle - 1 : i = q % backlog_len
                      ELSE backlog[i]]
    /\ tx_seq' = tx_seq + FramesPerCycle
    /\ flush(ref, [i \in 1 .. FramesPerCycle |-> Frame(tx_seq + i - 1)])
    /\ UNCHANGED <<class, rx_seq, buf, in, burst, dropped, adj, refused, foreign,
                   late, badRtt>>

tsn_gen_and_send_frames  == class = "tsn" /\ gen_and_send_frames
rtc_gen_and_send_frames  == class = "rtc" /\ gen_and_send_frames
rta_gen_and_send_frames  == class = "rta" /\ gen_and_send_frames
dcp_gen_and_send_frames  == class = "dcp" /\ gen_and_send_frames
lldp_gen_and_send_frames == class = "lldp" /\ gen_and_send_frames
udp_gen_and_send_frame   == class = "udp" /\ gen_and_send_frames
l2_gen_and_send_frames   == class = "l2" /\ gen_and_send_frames

\* The reference's Tx routine.
TxReference ==
    \/ tsn_gen_and_send_frames
    \/ rtc_gen_and_send_frames
    \/ rta_gen_and_send_frames
    \/ dcp_gen_and_send_frames
    \/ lldp_gen_and_send_frames
    \/ udp_gen_and_send_frame
    \/ l2_gen_and_send_frames

\* Mutant: the buffer keeps its length when it is flushed.
send_frames_twice ==
    /\ Idle(mir)
    /\ buf[mir] # <<>>
    /\ stat_frame_sent(mir, Len(buf[mir]))
    /\ flush(mir, buf[mir])
    /\ UNCHANGED <<class, tx_seq, rx_seq, buf, in, burst, dropped, adj, backlog, refused,
                   foreign, late, badRtt>>

\* Mutant: the mirror waits until the buffer holds the frames of a cycle.
send_frames_full_cycle ==
    /\ Idle(mir)
    /\ Len(buf[mir]) >= FramesPerCycle
    /\ stat_frame_sent(mir, Len(buf[mir]))
    /\ flush(mir, buf[mir])
    /\ buf' = [buf EXCEPT ![mir] = <<>>]
    /\ UNCHANGED <<class, tx_seq, rx_seq, in, burst, dropped, adj, backlog, refused,
                   foreign, late, badRtt>>

\* The mirror's Tx routine: the frames of the Tx buffer are counted and sent.
send_frames_common ==
    /\ Idle(mir)
    /\ buf[mir] # <<>>
    /\ stat_frame_sent(mir, Len(buf[mir]))
    /\ flush(mir, buf[mir])
    /\ buf' = [buf EXCEPT ![mir] = <<>>]
    /\ UNCHANGED <<class, tx_seq, rx_seq, in, burst, dropped, adj, backlog, refused,
                   foreign, late, badRtt>>
-----------------------------------------------------------------------------
(* The Rx side. *)

\* lport_process_pkts() takes up to FramesPerCycle frames, fewer or none when
\* its timeout ends the wait.
lport_process_pkts(n) ==
    /\ Idle(n)
    /\ IF in[n] = <<>>
       THEN UNCHANGED <<burst, in, adj>>
       ELSE \E k \in 1 .. Len(in[n]) :
               /\ k <= FramesPerCycle
               /\ burst' = [burst EXCEPT ![n] = SubSeq(in[n], 1, k)]
               /\ in' = [in EXCEPT ![n] = SubSeq(@, k + 1, Len(@))]
               /\ adj' = [adj EXCEPT ![n] = 0]
    /\ UNCHANGED <<class, tx_seq, rx_seq, txfree, rxfree, buf, ring, dropped, stat,
                   backlog, faults, refused, foreign, late, badRtt, overrun>>

\* From the second call on (ThreadTimer) each class's Rx routine polls its port.
tsn_rx_thread_routine(n) == class = "tsn" /\ lport_process_pkts(n)
rtc_rx_thread_routine(n) == class = "rtc" /\ lport_process_pkts(n)
rta_rx_thread_routine(n) == class = "rta" /\ lport_process_pkts(n)
dcp_rx_thread_routine(n) == class = "dcp" /\ lport_process_pkts(n)
lldp_rx_thread_routine(n)== class = "lldp" /\ lport_process_pkts(n)
udp_rx_thread_routine(n) == class = "udp" /\ lport_process_pkts(n)
l2_rx_thread_routine(n)  == class = "l2" /\ lport_process_pkts(n)

RxRoutine(n) ==
    \/ tsn_rx_thread_routine(n)
    \/ rtc_rx_thread_routine(n)
    \/ rta_rx_thread_routine(n)
    \/ dcp_rx_thread_routine(n)
    \/ lldp_rx_thread_routine(n)
    \/ udp_rx_thread_routine(n)
    \/ l2_rx_thread_routine(n)

\* stat_frame_received(): the errors are counted, and on the reference the
\* round-trip time is taken against the slot of the frame's number, which is
\* then cleared.  Both happen whatever the errors are.
stat_frame_received(n, f, seq, ooo, pay, id) ==
    /\ stat' = [stat EXCEPT ![n] =
                   [frames_sent |-> @.frames_sent,
                    frames_received |-> @.frames_received + 1,
                    out_of_order_errors |-> @.out_of_order_errors + (IF ooo THEN 1 ELSE 0),
                    payload_errors |-> @.payload_errors + (IF pay THEN 1 ELSE 0),
                    frame_id_errors |-> @.frame_id_errors + (IF id THEN 1 ELSE 0)]]
    /\ IF n = mir
       THEN UNCHANGED <<backlog, late, badRtt>>
       ELSE LET slot == seq % backlog_len
            IN  /\ backlog' = [backlog EXCEPT ![slot] = NONE]
                /\ badRtt' = badRtt + (IF f.seq # NONE /\ backlog[slot] = f.seq THEN 0 ELSE 1)
                /\ late' = (late \/ (f.seq # NONE /\ tx_seq - f.seq > backlog_len))

\* Mutant: a full array of dropped mbufs is emptied and not freed.
drop_leaks(n) ==
    /\ dropped' = [dropped EXCEPT ![n] = (@ + 1) % FreePending]
    /\ UNCHANGED <<rxfree, txfree, buf, ring, overrun>>

\* goto drop: the mbuf joins the dropped ones, which are freed when their array
\* is full.
drop(n) ==
    /\ IF dropped[n] + 1 = FreePending
       THEN /\ rxfree' = [rxfree EXCEPT ![n] = @ + FreePending]
            /\ dropped' = [dropped EXCEPT ![n] = 0]
       ELSE dropped' = [dropped EXCEPT ![n] = @ + 1] /\ UNCHANGED rxfree
    /\ UNCHANGED <<txfree, buf, ring, overrun>>

\* Behind the loop of *_rx_frame(): the rest of the dropped mbufs is freed.
free_dropped(n) ==
    /\ ~ overrun
    /\ burst[n] = <<>>
    /\ dropped[n] > 0
    /\ rxfree' = [rxfree EXCEPT ![n] = @ + dropped[n]]
    /\ dropped' = [dropped EXCEPT ![n] = 0]
    /\ UNCHANGED <<class, tx_seq, rx_seq, txfree, buf, ring, in, burst, adj, stat, backlog,
                   faults, refused, foreign, late, badRtt, overrun>>

\* insert_vlan_tag() writes the tag and the PROFINET ether type, and moves the
\* bytes behind them; the length of the mbuf stays what it was.  The callers are
\* ready for it, though no frame with the right type reaches them without a tag:
\* rx_vlan_callback() leaves it to the packet handler.
insert_vlan_tag(f) == [f EXCEPT !.tag = TRUE, !.type = class # "l2"]

\* lport_tx_buffer_add(): a full buffer is sent at once.
lport_tx_buffer_add(n, f) ==
    LET b == Append(buf[n], f)
    IN  IF Len(b) < BufSize
        THEN buf' = [buf EXCEPT ![n] = b] /\ UNCHANGED <<txfree, rxfree, ring, faults, overrun>>
        ELSE buf' = [buf EXCEPT ![n] = <<>>] /\ flush(n, b)

\* The frame is refused before it is counted in the statistics.
Refuse(n, f) ==
    /\ drop(n)
    /\ refused' = IF f.seq = NONE THEN refused ELSE refused + 1
    /\ UNCHANGED <<rx_seq, stat, backlog, faults, late, badRtt>>

\* Mutant: a frame of another class resynchronises the counter too.
check_frame_order_first(n, f, checks) ==
    LET seq == meta_data_to_sequence_counter(f.meta)
        ooo == seq # rx_seq[n]
        otherId == "id" \in checks /\ ~ f.id
    IN  /\ stat_frame_received(n, f, seq, ooo, ~ f.pay, otherId)
        /\ rx_seq' = IF ooo /\ "resync" \in checks THEN [rx_seq EXCEPT ![n] = seq + 1]
                     ELSE IF ooo \/ otherId THEN rx_seq
                     ELSE [rx_seq EXCEPT ![n] = @ + 1]
        /\ drop(n)
        /\ UNCHANGED <<faults, refused>>

\* The frame has the right type and length: it is counted, compared with the
\* expected number, and sent back if the node is the mirror.
check_frame(n, f, checks) ==
    LET seq == meta_data_to_sequence_counter(f.meta)
        ooo == seq # rx_seq[n]
        otherId == "id" \in checks /\ ~ f.id
        back == IF "retag" \in checks /\ ~ f.tag THEN insert_vlan_tag(f) ELSE f
    IN  /\ stat_frame_received(n, f, seq, ooo, ~ f.pay, otherId)
        /\ rx_seq' = IF otherId THEN rx_seq
                     ELSE IF ~ ooo THEN [rx_seq EXCEPT ![n] = @ + 1]
                     ELSE IF "resync" \in checks THEN [rx_seq EXCEPT ![n] = seq + 1]
                     ELSE rx_seq
        /\ IF otherId \/ ooo \/ ~ f.pay \/ n = ref
           THEN drop(n) /\ UNCHANGED faults
           ELSE lport_tx_buffer_add(n, back) /\ UNCHANGED dropped
        /\ UNCHANGED refused

\* One iteration of an *_rx_frame loop.  "small": frames below the length of a
\* VLAN Ethernet header are refused first.  "vlan": the tag may be missing, and
\* a missing tag reduces expected_frame_length for the rest of the burst.
rx_frame(n, checks) ==
    /\ ~ overrun
    /\ burst[n] # <<>>
    /\ LET f == Head(burst[n])
           untagged == "vlan" \in checks /\ ~ f.tag
           missing == adj[n] + (IF untagged THEN 1 ELSE 0)
       IN  IF "small" \in checks /\ f.short = TINY
           THEN Refuse(n, f) /\ UNCHANGED adj
           ELSE /\ adj' = [adj EXCEPT ![n] = missing]
                /\ \/ /\ ("vlan" \in checks /\ ~ f.type) \/ f.short # missing
                      /\ Refuse(n, f)
                   \/ /\ ("vlan" \in checks => f.type) /\ f.short = missing
                      /\ check_frame(n, f, checks)
    /\ burst' = [burst EXCEPT ![n] = Tail(@)]
    /\ UNCHANGED <<class, tx_seq, in, foreign>>

\* Mutant: the counter is not adjusted to missing frames.
rtc_rx_no_resync(n) == class = "rtc" /\ rx_frame(n, {"small", "vlan", "id", "retag"})

\* Mutant: the counter is adjusted to missing frames.
dcp_rx_resync(n) == class = "dcp" /\ rx_frame(n, {"vlan", "resync"})

tsn_rx_frame(n)  == class = "tsn" /\ rx_frame(n, {"small", "vlan", "id", "resync", "retag"})
rtc_rx_frame(n)  == class = "rtc" /\ rx_frame(n, {"small", "vlan", "id", "resync", "retag"})
rta_rx_frame(n)  == class = "rta" /\ rx_frame(n, {"small", "vlan", "id", "resync", "retag"})
dcp_rx_frame(n)  == class = "dcp" /\ rx_frame(n, {"vlan"})
lldp_rx_frame(n) == class = "lldp" /\ rx_frame(n, {"resync"})
udp_rx_frame(n)  == class = "udp" /\ rx_frame(n, {"resync"})
l2_rx_frame(n)   == class = "l2" /\ rx_frame(n, {"small", "vlan", "resync", "retag"})

RxFrame(n) ==
    \/ tsn_rx_frame(n)
    \/ rtc_rx_frame(n)
    \/ rta_rx_frame(n)
    \/ dcp_rx_frame(n)
    \/ lldp_rx_frame(n)
    \/ udp_rx_frame(n)
    \/ l2_rx_frame(n)
-----------------------------------------------------------------------------
(* The NICs and the cable, which are not part of the code. *)

\* The frame has left the NIC, so its mbuf is free again.
Sent(n) ==
    /\ ring' = [ring EXCEPT ![n] = Tail(@)]
    /\ txfree' = IF n = ref THEN txfree + 1 ELSE txfree

\* The next frame crosses the cable, undamaged or not.
Deliver(n) ==
    /\ ~ overrun
    /\ ring[n] # <<>>
    /\ rxfree[peer(n)] > 0
    /\ Sent(n)
    /\ \E ok \in BOOLEAN :
        /\ ok \/ faults < MaxFaults
        /\ faults' = IF ok THEN faults ELSE faults + 1
        /\ in' = [in EXCEPT ![peer(n)] =
                     Append(@, [Head(ring[n]) EXCEPT !.pay = @ /\ ok])]
    /\ rxfree' = [k \in Nodes |-> rxfree[k] - (IF k = peer(n) THEN 1 ELSE 0)
                                          + (IF k = n /\ n = mir THEN 1 ELSE 0)]
    /\ UNCHANGED <<class, tx_seq, rx_seq, buf, burst, dropped, adj, stat, backlog,
                   refused, foreign, late, badRtt, overrun>>

\* The next frame is lost on the cable, or because the receiving port has no
\* mbuf for it.
Lose(n) ==
    /\ ~ overrun
    /\ ring[n] # <<>>
    /\ faults < MaxFaults \/ rxfree[peer(n)] = 0
    /\ Sent(n)
    /\ faults' = faults + 1
    /\ rxfree' = IF n = mir THEN [rxfree EXCEPT ![mir] = @ + 1] ELSE rxfree
    /\ UNCHANGED <<class, tx_seq, rx_seq, buf, in, burst, dropped, adj, stat, backlog,
                   refused, foreign, late, badRtt, overrun>>

\* Frames of other senders: a tiny one, one with another ether type or length,
\* one without a tag, and a PROFINET frame of another class whose number means
\* nothing here.
ForeignFrame(kind) ==
    [seq |-> NONE, meta |-> [cycle_counter |-> CycleMod - 1, frame_counter |-> 0],
     tag |-> kind # "untagged",
     short |-> IF kind = "tiny" THEN TINY ELSE IF kind = "other_id" THEN 0 ELSE 1,
     type |-> kind = "other_id", id |-> FALSE, pay |-> TRUE]

\* Only the classes that check the frame id share their queue with frames that
\* look like theirs.  A frame without a tag (LLDP or IPv4) comes to a class with
\* a tag when its VLAN id is one of those that stand for LLDP and UDP (Ports).
Arrive(n, kind) ==
    /\ ~ overrun
    /\ <<n, kind>> \notin foreign /\ Cardinality(foreign) < MaxForeign
    /\ kind = "other_id" => class \in {"tsn", "rtc", "rta"}
    /\ kind = "untagged" => class \notin {"lldp", "udp"}
    /\ rxfree[n] > 0
    /\ foreign' = foreign \union {<<n, kind>>}
    /\ in' = [in EXCEPT ![n] = Append(@, ForeignFrame(kind))]
    /\ rxfree' = [rxfree EXCEPT ![n] = @ - 1]
    /\ UNCHANGED <<class, tx_seq, rx_seq, txfree, buf, ring, burst, dropped, adj, stat,
                   backlog, faults, refused, late, badRtt, overrun>>

\* The frames of the class are no longer looked at.
Overrun == overrun /\ UNCHANGED vars

Next ==
    \/ TxReference
    \/ send_frames_common
    \/ \E n \in Nodes : \/ RxRoutine(n) \/ RxFrame(n) \/ free_dropped(n)
                         \/ Deliver(n) \/ Lose(n)
    \/ \E n \in Nodes, kind \in Foreign : Arrive(n, kind)
    \/ Overrun

Spec == Init /\ [][Next]_vars

\* The threads never block, the mirror's Tx routine has its turn in every
\* cycle, and a NIC sends what it was given.
Fairness ==
    /\ WF_vars(send_frames_common)
    /\ \A n \in Nodes : /\ WF_vars(RxRoutine(n)) /\ WF_vars(RxFrame(n))
                        /\ WF_vars(free_dropped(n))
                        /\ WF_vars(Deliver(n) \/ Lose(n))

FairSpec == Spec /\ Fairness
-----------------------------------------------------------------------------
\* Every mbuf is in its pool or holds a frame.
MbufsCounted ==
    /\ txfree + Len(ring[ref]) = TxPool
    /\ rxfree[ref] + dropped[ref] + Len(in[ref]) + Len(burst[ref]) = RxPool
    /\ rxfree[mir] + dropped[mir] + Len(in[mir]) + Len(burst[mir]) + Len(buf[mir])
           + Len(ring[mir]) = RxPool

\* As long as the Tx ring has room for what is flushed, no mbuf leaks and none is
\* freed twice, on every path through the Rx loops, the array of dropped mbufs,
\* the Tx buffer and the NIC.
MbufsConserved == ~ overrun => MbufsCounted

\* The queues that a frame passes on its way round, the last one first.
Way == <<burst[ref], in[ref], ring[mir], buf[mir], burst[mir], in[mir], ring[ref]>>

\* The numbers of all frames that are under way.
UnderWay == UNION {Numbers(Way[s]) : s \in DOMAIN Way}

\* The numbers that are read back have not started again at 0.
NoWrap == tx_seq <= SeqMod

\* The frames keep their order all the way round and none is there twice, and
\* what the reference expects next is not ahead of what is still under way.
OrderKept ==
    /\ \A s \in DOMAIN Way : Ascending(Way[s])
    /\ \A s, t \in DOMAIN Way :
           s < t => \A x \in Numbers(Way[s]), y \in Numbers(Way[t]) : x < y
    /\ \A x \in UnderWay : rx_seq[ref] <= x /\ x < tx_seq

\* No node expects a frame that was not generated yet, and the reference none
\* that the mirror has not seen: a frame of another class never moves the
\* expected number.
ExpectsNoFuture == rx_seq[mir] <= tx_seq /\ (NoWrap => rx_seq[ref] <= rx_seq[mir])

\* A receiver that adjusts to missing frames reports each interruption once:
\* never more out-of-order errors than frames that were really lost, damaged
\* or refused, plus one each time the 32-bit cycle number starts again.
wraps == tx_seq \div SeqMod
OutOfOrderExplained ==
    class # "dcp" =>
        \A n \in Nodes : stat[n].out_of_order_errors
                            <= faults + refused + wraps + stat[n].frame_id_errors

\* The DCP receiver does not adjust: once a number was missing it expects that
\* number until the cycle number starts again, and every frame is out of order.
DcpNeverRecovers ==
    [][\A n \in Nodes : (class = "dcp" /\ NoWrap /\ stat[n].out_of_order_errors > 0)
                            => rx_seq'[n] = rx_seq[n]]_vars

\* A frame that comes back within STAT_MAX_BACKLOG periods is measured against
\* its own Tx time, up to two false times for each foreign frame: its own, and
\* that of the frame whose slot it cleared.
RoundTripTimesMatch == (~ late /\ NoWrap) => badRtt <= 2 * stat[ref].frame_id_errors

\* Every frame that was generated is received by the reference or counted as
\* missing: none stays in a buffer, unless the Tx ring overflows.
EveryFrameSettles ==
    \A q \in 0 .. MaxSeq - 1 :
        (q \in UnderWay) ~> (q \notin UnderWay \/ overrun)
=============================================================================

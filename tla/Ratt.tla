-------------------------------- MODULE Ratt --------------------------------
(***************************************************************************)
(* RATT, the round trip test of src/apps/ratt: two processes on two        *)
(* machines.  The reference (reference.c) sends a burst of numbered        *)
(* packets per cycle and collects what comes back; the mirror (mirror.c)   *)
(* returns every packet it receives, either as it comes or, in serial      *)
(* mode, a whole burst at a time.  Both send through send_packets()        *)
(* (ratt.h), which retries while the ring of the card is full and gives    *)
(* up when the process is told to stop.                                    *)
(*                                                                         *)
(* Time is abstract: the receive window of a cycle may close at any step.  *)
(* The wire may lose packets and packets of other stations may arrive.     *)
(***************************************************************************)
EXTENDS Integers, Sequences, FiniteSets

CONSTANTS Burst,            \* pinfo->burst_count
          SkipCount,        \* pinfo->pkt_skip_cnt
          IdSpace,          \* 2^16: tx_id, rx_id and ts->id are uint16_t
          Pool,             \* DEFAULT_MBUF_COUNT, mbufs of the reference's tx_mp
          Ring,             \* DEFAULT_RING_SIZE, descriptors of a Tx ring
          Serial,           \* pinfo->mirror_serial_enabled
          ContinueOnError,  \* pinfo->continue_on_error
          Stopping,         \* the sides a user may stop
          MaxPackets,       \* bound: packets the reference sends
          MaxLost,          \* bound: packets the wire loses
          MaxForeign        \* bound: packets of other stations

\* What the constants have to be.
RattAssumption ==
  /\ Burst \in Nat \ {0} /\ IdSpace \in Nat \ {0} /\ Ring \in Nat \ {0}
  /\ SkipCount \in Nat /\ Pool \in Nat
  /\ MaxPackets \in Nat /\ MaxLost \in Nat /\ MaxForeign \in Nat
  /\ Serial \in BOOLEAN /\ ContinueOnError \in BOOLEAN
  /\ Stopping \subseteq {"reference", "mirror"}

Reference == "reference"
Mirror    == "mirror"
Sides     == {Reference, Mirror}

VARIABLES
  running,    \* running[s]: is_running() on side s
  pc,         \* pc[s]: where the worker of side s is
  tx_id,      \* lcore->tx_id
  rx_id,      \* lcore->rx_id
  skip_cnt,   \* lcore->skip_cnt
  txfree,     \* mbufs available in the reference's tx_mp
  unsent,     \* unsent[s]: the mbufs send_packets() still has to pass on
  txring,     \* txring[s]: packets on the Tx ring of side s
  rxq,        \* rxq[s]: packets on the Rx queue of side s
  rx_mbufs,   \* rx_mbufs[s]: lcore->rx_mbufs, what this burst received so far
  stats,      \* the counters of lcore->stats the properties are about
  sent,       \* history: packets the reference has built
  lost,       \* history: the numbers of the packets that never came back
  foreign     \* history: packets of other stations that arrived

rattVars == <<running, pc, tx_id, rx_id, skip_cnt, txfree, unsent, txring, rxq,
              rx_mbufs, stats, sent, lost, foreign>>

Other(s) == IF s = Reference THEN Mirror ELSE Reference
Min2(a, b) == IF a < b THEN a ELSE b

\* A packet of the reference: "no" is its true number, "id" the 16 bits of it
\* that travel in the timestamp; a packet of another station has no beef.
Packet(n, i) == [beef |-> TRUE, no |-> n, id |-> i]
Foreign      == [beef |-> FALSE]

Numbers(q) == {q[i].no : i \in {j \in 1 .. Len(q) : q[j].beef}}
Drop(q, k) == SubSeq(q, k + 1, Len(q))

Init ==
  /\ running = [s \in Sides |-> TRUE]
  /\ pc = [s \in Sides |-> "link"]
  /\ tx_id = 0 /\ rx_id = 0 /\ skip_cnt = 0
  /\ txfree = Pool
  /\ unsent = [s \in Sides |-> <<>>]
  /\ txring = [s \in Sides |-> <<>>]
  /\ rxq = [s \in Sides |-> <<>>]
  /\ rx_mbufs = [s \in Sides |-> <<>>]
  /\ stats = [id_error |-> 0, no_timestamp |-> 0, no_mbufs |-> 0,
              rx_timeout |-> 0]
  /\ sent = 0 /\ lost = {} /\ foreign = 0

-----------------------------------------------------------------------------
(* Waiting for the link, sending *)

\* The workers wait for their link and start, or leave when stopped meanwhile.
worker_starts(s) ==
  /\ pc[s] = "link"
  /\ IF running[s]
     THEN /\ pc' = [pc EXCEPT ![s] = "top"]
          /\ skip_cnt' = IF s = Reference THEN SkipCount ELSE skip_cnt
     ELSE pc' = [pc EXCEPT ![s] = "ended"] /\ UNCHANGED skip_cnt
  /\ UNCHANGED <<running, tx_id, rx_id, txfree, unsent, txring, rxq, rx_mbufs,
                 stats, sent, lost, foreign>>

\* The loops of both routines end when is_running() says so.
worker_ends(s) ==
  /\ pc[s] = "top" /\ ~running[s]
  /\ pc' = [pc EXCEPT ![s] = "ended"]
  /\ UNCHANGED <<running, tx_id, rx_id, skip_cnt, txfree, unsent, txring, rxq,
                 rx_mbufs, stats, sent, lost, foreign>>

AfterSend(s) == IF s = Reference THEN "rx" ELSE "top"

\* Mutant: retries from the first mbuf.
send_packets_again(s) ==
  LET k == Min2(Len(unsent[s]), Ring - Len(txring[s]))
  IN /\ pc[s] = "send"
     /\ txring' = [txring EXCEPT ![s] = @ \o SubSeq(unsent[s], 1, k)]
     /\ IF k < Len(unsent[s]) /\ running[s]
        THEN /\ unsent' = [unsent EXCEPT ![s] =
                             SubSeq(unsent[s], 1, Len(unsent[s]) - k)]
             /\ UNCHANGED pc
        ELSE /\ unsent' = [unsent EXCEPT ![s] = <<>>]
             /\ pc' = [pc EXCEPT ![s] = AfterSend(s)]
     /\ UNCHANGED <<running, tx_id, rx_id, skip_cnt, txfree, rxq, rx_mbufs,
                    stats, sent, lost, foreign>>

\* One turn of the loop in send_packets(): the ring takes what fits; the rest
\* is tried again while the process runs and freed otherwise.
send_packets(s) ==
  LET k    == Min2(Len(unsent[s]), Ring - Len(txring[s]))
      rest == Drop(unsent[s], k)
  IN /\ pc[s] = "send"
     /\ txring' = [txring EXCEPT ![s] = @ \o SubSeq(unsent[s], 1, k)]
     /\ IF rest # <<>> /\ running[s]
        THEN /\ unsent' = [unsent EXCEPT ![s] = rest]
             /\ UNCHANGED <<pc, txfree, lost>>
        ELSE /\ unsent' = [unsent EXCEPT ![s] = <<>>]
             /\ txfree' = IF s = Reference THEN txfree + Len(rest) ELSE txfree
             /\ lost' = lost \cup Numbers(rest)
             /\ pc' = [pc EXCEPT ![s] = AfterSend(s)]
     /\ UNCHANGED <<running, tx_id, rx_id, skip_cnt, rxq, rx_mbufs, stats, sent,
                    foreign>>

-----------------------------------------------------------------------------
(* The reference *)

\* The cycle is due: take Burst mbufs, stamp and number them, send them.
tx_timestamping ==
  /\ pc[Reference] = "top" /\ running[Reference]
  /\ txfree >= Burst
  /\ sent + Burst =< MaxPackets
  /\ txfree' = txfree - Burst
  /\ unsent' = [unsent EXCEPT ![Reference] =
                  [i \in 1 .. Burst |-> Packet(sent + i - 1,
                                               (tx_id + i - 1) % IdSpace)]]
  /\ tx_id' = (tx_id + Burst) % IdSpace
  /\ sent' = sent + Burst
  /\ rx_mbufs' = [rx_mbufs EXCEPT ![Reference] = <<>>]
  /\ pc' = [pc EXCEPT ![Reference] = "send"]
  /\ UNCHANGED <<running, rx_id, skip_cnt, txring, rxq, stats, lost, foreign>>

\* Too few mbufs: counted, and reference_routine() ends the process.
tx_timestamping_fails ==
  /\ pc[Reference] = "top" /\ running[Reference]
  /\ txfree < Burst
  /\ stats' = [stats EXCEPT !.no_mbufs = @ + 1]
  /\ pc' = [pc EXCEPT ![Reference] = "ended"]
  /\ running' = [running EXCEPT ![Reference] = FALSE]
  /\ UNCHANGED <<tx_id, rx_id, skip_cnt, txfree, unsent, txring, rxq, rx_mbufs,
                 sent, lost, foreign>>

\* One poll of the card within the window, or within its extension.
rx_poll ==
  LET got == Min2(Burst - Len(rx_mbufs[Reference]), Len(rxq[Reference]))
  IN /\ pc[Reference] \in {"rx", "extra"}
     /\ got > 0
     /\ rx_mbufs' = [rx_mbufs EXCEPT ![Reference] =
                       @ \o SubSeq(rxq[Reference], 1, got)]
     /\ rxq' = [rxq EXCEPT ![Reference] = Drop(@, got)]
     /\ pc' = IF Len(rx_mbufs'[Reference]) = Burst
              THEN [pc EXCEPT ![Reference] = "process"] ELSE pc
     /\ UNCHANGED <<running, tx_id, rx_id, skip_cnt, txfree, unsent, txring,
                    stats, sent, lost, foreign>>

\* The cycle ends: rx_try_extra_time, and a quarter of a cycle more.
rx_window_closes ==
  /\ pc[Reference] = "rx"
  /\ pc' = [pc EXCEPT ![Reference] = "extra"]
  /\ UNCHANGED <<running, tx_id, rx_id, skip_cnt, txfree, unsent, txring, rxq,
                 rx_mbufs, stats, sent, lost, foreign>>

\* The extension ends too: what came is processed, if anything came and the
\* process still runs; nothing is counted as a timeout.
rx_window_expires ==
  /\ pc[Reference] = "extra"
  /\ pc' = [pc EXCEPT ![Reference] =
              IF ~running[Reference] \/ rx_mbufs[Reference] = <<>>
              THEN "top" ELSE "process"]
  /\ UNCHANGED <<running, tx_id, rx_id, skip_cnt, txfree, unsent, txring, rxq,
                 rx_mbufs, stats, sent, lost, foreign>>

\* Mutant: expects the number after the first packet's, whatever came.
process_packets_one ==
  LET first == rx_mbufs[Reference][1]
  IN /\ pc[Reference] = "process"
     /\ rx_id' = (rx_id + 1) % IdSpace
     /\ skip_cnt' = IF skip_cnt > 0 THEN skip_cnt - 1 ELSE 0
     /\ stats' = IF skip_cnt = 0 /\ first.beef /\ rx_id # first.id
                 THEN [stats EXCEPT !.id_error = @ + 1] ELSE stats
     /\ rx_mbufs' = [rx_mbufs EXCEPT ![Reference] = <<>>]
     /\ pc' = [pc EXCEPT ![Reference] = "top"]
     /\ UNCHANGED <<running, tx_id, txfree, unsent, txring, rxq, sent, lost,
                    foreign>>

\* The first bursts are skipped but counted; later ones are judged by their
\* first packet.  A burst that starts with a packet of another station leaves
\* the expected number alone.
process_packets ==
  LET total == Len(rx_mbufs[Reference])
      first == rx_mbufs[Reference][1]
  IN /\ pc[Reference] = "process"
     /\ skip_cnt' = IF skip_cnt > 0 THEN skip_cnt - 1 ELSE 0
     /\ rx_id' = IF skip_cnt > 0 \/ first.beef
                 THEN (rx_id + total) % IdSpace ELSE rx_id
     /\ stats' = [stats EXCEPT
                    !.id_error = IF skip_cnt = 0 /\ first.beef /\ rx_id # first.id
                                 THEN @ + 1 ELSE @,
                    !.no_timestamp = IF skip_cnt = 0 /\ ~first.beef
                                     THEN @ + 1 ELSE @]
     /\ rx_mbufs' = [rx_mbufs EXCEPT ![Reference] = <<>>]
     /\ pc' = [pc EXCEPT ![Reference] = "top"]
     /\ UNCHANGED <<running, tx_id, txfree, unsent, txring, rxq, sent, lost,
                    foreign>>

-----------------------------------------------------------------------------
(* The mirror *)

\* Without serialisation: whatever the card has goes back at once.
mirror_receives ==
  /\ ~Serial
  /\ pc[Mirror] = "top" /\ running[Mirror]
  /\ rxq[Mirror] # <<>>
  /\ unsent' = [unsent EXCEPT ![Mirror] = rxq[Mirror]]
  /\ rxq' = [rxq EXCEPT ![Mirror] = <<>>]
  /\ pc' = [pc EXCEPT ![Mirror] = "send"]
  /\ UNCHANGED <<running, tx_id, rx_id, skip_cnt, txfree, txring, stats, rx_mbufs, sent,
                 lost, foreign>>

\* Serial mode, a new burst: to_recv = burst_count.
mirror_begins_burst ==
  /\ Serial
  /\ pc[Mirror] = "top" /\ running[Mirror]
  /\ rx_mbufs' = [rx_mbufs EXCEPT ![Mirror] = <<>>]
  /\ pc' = [pc EXCEPT ![Mirror] = "rx"]
  /\ UNCHANGED <<running, tx_id, rx_id, skip_cnt, txfree, unsent, txring, rxq,
                 stats, sent, lost, foreign>>

\* One poll of the inner loop; the burst is sent when it is complete.
mirror_collects ==
  LET got == Min2(Burst - Len(rx_mbufs[Mirror]), Len(rxq[Mirror]))
      all == rx_mbufs[Mirror] \o SubSeq(rxq[Mirror], 1, got)
  IN /\ pc[Mirror] = "rx"
     /\ got > 0
     /\ rxq' = [rxq EXCEPT ![Mirror] = Drop(@, got)]
     /\ rx_mbufs' = [rx_mbufs EXCEPT ![Mirror] = all]
     /\ IF Len(all) = Burst
        THEN /\ unsent' = [unsent EXCEPT ![Mirror] = all]
             /\ pc' = [pc EXCEPT ![Mirror] = "send"]
        ELSE UNCHANGED <<unsent, pc>>
     /\ UNCHANGED <<running, tx_id, rx_id, skip_cnt, txfree, txring, stats, sent, lost,
                    foreign>>

\* Stopped in the middle of a burst: a timeout is counted and the part that
\* came is sent back.
mirror_interrupted ==
  /\ pc[Mirror] = "rx" /\ ~running[Mirror]
  /\ stats' = [stats EXCEPT !.rx_timeout = @ + 1]
  /\ unsent' = [unsent EXCEPT ![Mirror] = rx_mbufs[Mirror]]
  /\ pc' = [pc EXCEPT ![Mirror] = "send"]
  /\ UNCHANGED <<running, tx_id, rx_id, skip_cnt, txfree, txring, rxq, rx_mbufs,
                 sent, lost, foreign>>

-----------------------------------------------------------------------------
(* The wire, other stations and the user *)

\* The card of side s sends a packet and returns its mbuf.
wire_carries(s) ==
  /\ txring[s] # <<>>
  /\ txring' = [txring EXCEPT ![s] = Tail(@)]
  /\ rxq' = [rxq EXCEPT ![Other(s)] = Append(@, Head(txring[s]))]
  /\ txfree' = IF s = Reference THEN txfree + 1 ELSE txfree
  /\ UNCHANGED <<running, pc, tx_id, rx_id, skip_cnt, unsent, rx_mbufs, stats,
                 sent, lost, foreign>>

\* ... but the packet does not arrive.
wire_loses(s) ==
  /\ txring[s] # <<>> /\ Head(txring[s]).beef
  /\ Cardinality(lost) < MaxLost
  /\ txring' = [txring EXCEPT ![s] = Tail(@)]
  /\ lost' = lost \cup {Head(txring[s]).no}
  /\ txfree' = IF s = Reference THEN txfree + 1 ELSE txfree
  /\ UNCHANGED <<running, pc, tx_id, rx_id, skip_cnt, unsent, rxq, rx_mbufs,
                 stats, sent, foreign>>

foreign_arrives(s) ==
  /\ foreign < MaxForeign
  /\ rxq' = [rxq EXCEPT ![s] = Append(@, Foreign)]
  /\ foreign' = foreign + 1
  /\ UNCHANGED <<running, pc, tx_id, rx_id, skip_cnt, txfree, unsent, txring,
                 rx_mbufs, stats, sent, lost>>

\* A signal, the key q or the end of the run duration.
stop_running(s) ==
  /\ s \in Stopping /\ running[s]
  /\ running' = [running EXCEPT ![s] = FALSE]
  /\ UNCHANGED <<pc, tx_id, rx_id, skip_cnt, txfree, unsent, txring, rxq,
                 rx_mbufs, stats, sent, lost, foreign>>

ReferenceStep ==
  \/ worker_starts(Reference) \/ worker_ends(Reference)
  \/ send_packets(Reference)
  \/ tx_timestamping \/ tx_timestamping_fails
  \/ rx_poll \/ rx_window_closes \/ rx_window_expires \/ process_packets

MirrorStep ==
  \/ worker_starts(Mirror) \/ worker_ends(Mirror)
  \/ send_packets(Mirror)
  \/ mirror_receives \/ mirror_begins_burst \/ mirror_collects
  \/ mirror_interrupted

Next ==
  \/ ReferenceStep
  \/ MirrorStep
  \/ \E s \in Sides : \/ wire_carries(s) \/ wire_loses(s)
                      \/ foreign_arrives(s) \/ stop_running(s)

\* The workers own a core each and never block; the wire delivers only when
\* the far card is up, so nothing is assumed of it here.
Spec == Init /\ [][Next]_rattVars /\ WF_rattVars(ReferenceStep)
             /\ WF_rattVars(MirrorStep)

\* A wire that does carry what is on a ring.
WireCarries == \A s \in Sides : WF_rattVars(wire_carries(s))

-----------------------------------------------------------------------------
(* Properties *)

Packets == [beef : {TRUE}, no : 0 .. MaxPackets, id : 0 .. IdSpace - 1]
             \cup [beef : {FALSE}]

TypeOK ==
  /\ running \in [Sides -> BOOLEAN]
  /\ pc \in [Sides -> {"link", "top", "send", "rx", "extra", "process", "ended"}]
  /\ tx_id \in 0 .. IdSpace - 1 /\ rx_id \in 0 .. IdSpace - 1
  /\ skip_cnt \in 0 .. SkipCount
  /\ txfree \in 0 .. Pool
  /\ \A s \in Sides : \A q \in {unsent[s], txring[s], rxq[s], rx_mbufs[s]} :
       q \in Seq(Packets)
  /\ \A s \in Sides : Len(txring[s]) =< Ring

\* The packets on their way, the one that is furthest first.
Held(s) == IF pc[s] \in {"rx", "extra", "process"} THEN rx_mbufs[s] ELSE <<>>
Way == Held(Reference) \o rxq[Reference] \o txring[Mirror] \o unsent[Mirror]
         \o Held(Mirror) \o rxq[Mirror] \o txring[Reference] \o unsent[Reference]

\* send_packets() and the bursts of both loops neither duplicate a packet nor
\* overtake one: all the way round, the numbers grow towards the sender.
InOrder ==
  \A i, j \in 1 .. Len(Way) :
    i < j /\ Way[i].beef /\ Way[j].beef => Way[i].no < Way[j].no

\* The Tx pool has mbufs for a burst in every cycle, because a ring full of
\* packets and one burst is all that can be out; the run never ends for want
\* of mbufs (reference.c:63).
NeverOutOfMbufs == Pool >= Ring + Burst => stats.no_mbufs = 0

\* As long as no other station is heard, a burst is counted as an ID error
\* exactly when packets sent before its first packet were lost, however late
\* or split the bursts arrive and however often the 16 bit numbers wrapped.
ErrorsAreLosses ==
  [][pc[Reference] = "process" /\ skip_cnt = 0 /\ foreign = 0 /\ pc'[Reference] = "top"
       => (stats'.id_error = stats.id_error + 1
             <=> Cardinality({n \in lost : n < rx_mbufs[Reference][1].no})
                   % IdSpace # 0)]_rattVars

\* A side that is told to stop leaves its loop, even when its ring is full and
\* the link is gone.
StopsEnd == \A s \in Sides : ~running[s] ~> pc[s] = "ended"

\* A mirror that need not serialise keeps nothing back while the wire works:
\* whatever reached it is on its ring soon, or the mirror was stopped.
MirrorReturns ==
  WireCarries =>
    (rxq[Mirror] # <<>> ~> \/ ~running[Mirror]
                           \/ rxq[Mirror] = <<>> /\ unsent[Mirror] = <<>>
                                /\ rx_mbufs[Mirror] = <<>>)

\* A serial mirror keeps back less than a burst, losses or not: a burst that is
\* there is sent, or the mirror was stopped.
SerialReturns ==
  WireCarries =>
    (Len(rxq[Mirror]) + Len(Held(Mirror)) >= Burst
       ~> \/ ~running[Mirror]
          \/ unsent[Mirror] = <<>> /\ Len(rxq[Mirror]) + Len(Held(Mirror)) < Burst)

=============================================================================

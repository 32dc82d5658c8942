--------------------------- MODULE FrameInvariant ---------------------------
(***************************************************************************)
(* The invariant behind the order of the frames: the types of the state,   *)
(* the line of queues and the books of FrameBooks.                         *)
(***************************************************************************)
EXTENDS FrameExchange, FrameRules

\* The types of the queues and of what counts the mbufs.
Formed ==
    /\ tx_seq \in Int /\ txfree \in Int
    /\ rxfree \in [Nodes -> Int] /\ dropped \in [Nodes -> Int]
    /\ buf \in [Nodes -> Seq(AnyFrame)] /\ ring \in [Nodes -> Seq(AnyFrame)]
    /\ in \in [Nodes -> Seq(AnyFrame)] /\ burst \in [Nodes -> Seq(AnyFrame)]

\* The counters of a node.
Counters == [frames_sent : Nat, frames_received : Nat, out_of_order_errors : Nat,
             payload_errors : Nat, frame_id_errors : Nat]

\* The types of what a receiver keeps; only tagged classes adjust the length.
Typed ==
    /\ class \in Classes /\ stat \in [Nodes -> Counters] /\ rx_seq \in [Nodes -> Nat]
    /\ backlog \in [0 .. backlog_len - 1 -> Int]
    /\ faults \in Nat /\ refused \in Nat
    /\ adj \in [Nodes -> Int]
    /\ class \in {"lldp", "udp"} => \A n \in Nodes : adj[n] = 0

\* The ledger of the state, for the marks a and b.
Books(a, b) ==
    Ledger(class, tx_seq, a, b, HomeOf(Way), OutOf(Way), GoodOf(Way), rx_seq[ref], rx_seq[mir],
           stat[ref].out_of_order_errors, stat[mir].out_of_order_errors,
           stat[ref].frame_id_errors, stat[mir].frame_id_errors,
           faults + refused, backlog, backlog_len, late, badRtt)

\* The inductive invariant: types, the line of frames and the books.
Kept == Typed /\ Lined(class, Way) /\ \E a, b \in Nat : Books(a, b)

\* The step touches no counter of the books but those of the lost frames.
SameCounters ==
    /\ class' = class /\ tx_seq' = tx_seq /\ rx_seq' = rx_seq
    /\ \A n \in Nodes : /\ stat'[n].out_of_order_errors = stat[n].out_of_order_errors
                        /\ stat'[n].frame_id_errors = stat[n].frame_id_errors
    /\ backlog' = backlog /\ late' = late /\ badRtt' = badRtt

\* The first frame of node n's burst is being processed.
Received(n, f) ==
    /\ burst[n] # <<>> /\ f = Head(burst[n]) /\ burst' = [burst EXCEPT ![n] = Tail(@)]
    /\ class' = class /\ tx_seq' = tx_seq /\ in' = in
    /\ adj' \in [Nodes -> Int]
    /\ class \in {"lldp", "udp"} => \A m \in Nodes : adj'[m] = 0
=============================================================================

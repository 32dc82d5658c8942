------------------------------- MODULE PortTx -------------------------------
(***************************************************************************)
(* The way of a frame from the Tx buffer of a class to the network card.   *)
(* lport_tx_buffer_add() collects the frames of a class and                *)
(* lport_tx_buffer_flush() gives them to the pflow port with up to 100     *)
(* retries (apps/testbench/lport-priv.h); pflow_tx() puts them on the one  *)
(* Tx ring of the port, and the packet handler, the only one to poll the   *)
(* queue of the physical port, moves the ring to the card.  Buffer, ring   *)
(* and card hold pointers to mbufs, and an mbuf may be reached twice.      *)
(* The classes are those of a reference, which has a Tx pool for each.     *)
(***************************************************************************)
EXTENDS Integers, Sequences, FiniteSets

CONSTANTS Classes,       \* the traffic classes that send
          PoolSize,      \* the mbufs of the Tx pool of a class
          BufferSize,    \* TX_BUFFER_SIZE
          MaxRetries,    \* the 100 attempts of lport_tx_buffer_flush()
          RingCapacity,  \* tx_ring_size - 1
          BurstCount,    \* burst_cnt
          MaxFrames      \* bound on the frames of a class

\* What the constants have to be.
PortTxAssumption ==
    /\ IsFiniteSet(Classes)
    /\ PoolSize \in Nat /\ BufferSize \in Nat \ {0} /\ MaxRetries \in Nat \ {0}
    /\ RingCapacity \in Nat \ {0} /\ BurstCount \in Nat \ {0} /\ MaxFrames \in Nat

Mbufs == Classes \X (1 .. PoolSize)

VARIABLES pool,      \* pool[m]: how many times m is in its pool
          number,    \* number[m]: the number of the frame in m
          next,      \* next[c]: the frames that c has written
          buffer,    \* buffer[c]: tx_buffer of c
          pkts,      \* pkts[c]: what the flush of c has still to send
          retries,   \* retries[c]
          ring,      \* tx_rng
          burst,     \* the mbufs that the packet handler gives to the card
          wire,      \* wire[c]: the last frame of c on the wire
          full       \* the classes that have met a ring without room for their burst

vars == <<pool, number, next, buffer, pkts, retries, ring, burst, wire, full>>

Init ==
    /\ pool = [m \in Mbufs |-> 1] /\ number = [m \in Mbufs |-> 0]
    /\ next = [c \in Classes |-> 0]
    /\ buffer = [c \in Classes |-> <<>>] /\ pkts = [c \in Classes |-> <<>>]
    /\ retries = [c \in Classes |-> 0]
    /\ ring = <<>> /\ burst = <<>>
    /\ wire = [c \in Classes |-> 0] /\ full = {}
-----------------------------------------------------------------------------
Elements(s) == {s[i] : i \in 1 .. Len(s)}

Occurrences(s, m) == Cardinality({i \in 1 .. Len(s) : s[i] = m})

\* rte_pktmbuf_free_bulk()
Freed(s) == [m \in Mbufs |-> pool[m] + Occurrences(s, m)]

(* A frame is written into an mbuf of the pool and lport_tx_buffer_add()   *)
(* buffers it; a full buffer is flushed.                                   *)
lport_tx_buffer_add(c, m) ==
    /\ pkts[c] = <<>> /\ pool[m] > 0 /\ m[1] = c /\ next[c] < MaxFrames
    /\ pool' = [pool EXCEPT ![m] = @ - 1]
    /\ next' = [next EXCEPT ![c] = @ + 1]
    /\ number' = [number EXCEPT ![m] = next[c] + 1]
    /\ LET b == Append(buffer[c], m)
       IN IF Len(b) < BufferSize
          THEN buffer' = [buffer EXCEPT ![c] = b] /\ UNCHANGED pkts
          ELSE buffer' = [buffer EXCEPT ![c] = <<>>] /\ pkts' = [pkts EXCEPT ![c] = b]
    /\ UNCHANGED <<retries, ring, burst, wire, full>>

\* Mutant: the length of the buffer is not set back to zero.
lport_send_kept(c) ==
    /\ pkts[c] = <<>> /\ buffer[c] # <<>>
    /\ pkts' = [pkts EXCEPT ![c] = buffer[c]]
    /\ UNCHANGED <<pool, number, next, buffer, retries, ring, burst, wire, full>>

\* lport_send() at the end of the frames of a cycle.
lport_send(c) ==
    /\ pkts[c] = <<>> /\ buffer[c] # <<>>
    /\ pkts' = [pkts EXCEPT ![c] = buffer[c]]
    /\ buffer' = [buffer EXCEPT ![c] = <<>>]
    /\ UNCHANGED <<pool, number, next, retries, ring, burst, wire, full>>

Room == RingCapacity - Len(ring)

(* pflow_tx() takes the whole burst.                                       *)
pflow_tx(c) ==
    /\ pkts[c] # <<>> /\ Len(pkts[c]) <= Room
    /\ ring' = ring \o pkts[c]
    /\ pkts' = [pkts EXCEPT ![c] = <<>>] /\ retries' = [retries EXCEPT ![c] = 0]
    /\ UNCHANGED <<pool, number, next, buffer, burst, wire, full>>

(* The ring takes only a part: pflow_tx() frees the rest and returns 0, so *)
(* that the flush tries the same mbufs again and in the end frees them     *)
(* all.                                                                    *)
pflow_tx_full(c) ==
    /\ pkts[c] # <<>> /\ Len(pkts[c]) > Room
    /\ ring' = ring \o SubSeq(pkts[c], 1, Room)
    /\ LET rest == SubSeq(pkts[c], Room + 1, Len(pkts[c]))
       IN IF retries[c] + 1 >= MaxRetries
          THEN /\ pool' = [m \in Mbufs |-> pool[m] + Occurrences(rest, m) + Occurrences(pkts[c], m)]
               /\ pkts' = [pkts EXCEPT ![c] = <<>>] /\ retries' = [retries EXCEPT ![c] = 0]
          ELSE /\ pool' = Freed(rest)
               /\ retries' = [retries EXCEPT ![c] = @ + 1] /\ UNCHANGED pkts
    /\ full' = full \cup {c}
    /\ UNCHANGED <<number, next, buffer, burst, wire>>

\* Mutant: what the handler leaves on the ring waits for a full burst.
pkt_handler_dequeue_bulk ==
    /\ burst = <<>> /\ Len(ring) >= BurstCount
    /\ burst' = SubSeq(ring, 1, BurstCount) /\ ring' = SubSeq(ring, BurstCount + 1, Len(ring))
    /\ UNCHANGED <<pool, number, next, buffer, pkts, retries, wire, full>>

(* The packet handler's empty burst on queue 0 moves the ring to the card. *)
pkt_handler_dequeue ==
    /\ burst = <<>> /\ ring # <<>>
    /\ LET n == IF Len(ring) < BurstCount THEN Len(ring) ELSE BurstCount
       IN burst' = SubSeq(ring, 1, n) /\ ring' = SubSeq(ring, n + 1, Len(ring))
    /\ UNCHANGED <<pool, number, next, buffer, pkts, retries, wire, full>>

\* rte_eth_tx_burst() of the physical port, repeated until all are sent; the
\* card frees the mbuf of a frame that is sent.
nic_sends ==
    /\ burst # <<>>
    /\ LET m == Head(burst)
       IN /\ wire' = [wire EXCEPT ![m[1]] = number[m]]
          /\ pool' = [pool EXCEPT ![m] = @ + 1]
    /\ burst' = Tail(burst)
    /\ UNCHANGED <<number, next, buffer, pkts, retries, ring, full>>

Next ==
    \/ \E c \in Classes : \/ \E m \in Mbufs : lport_tx_buffer_add(c, m)
                          \/ lport_send(c) \/ pflow_tx(c) \/ pflow_tx_full(c)
    \/ pkt_handler_dequeue \/ nic_sends

ClassSends(c) == lport_send(c) \/ pflow_tx(c) \/ pflow_tx_full(c)
PortSends == pkt_handler_dequeue \/ nic_sends

Fairness == (\A c \in Classes : WF_vars(ClassSends(c))) /\ WF_vars(PortSends)

Spec == Init /\ [][Next]_vars /\ Fairness
-----------------------------------------------------------------------------
(* Type correctness; the index of lport_tx_buffer_add() stays inside the   *)
(* buffer.                                                                 *)
TypeOK ==
    /\ pool \in [Mbufs -> Nat] /\ number \in [Mbufs -> Nat]
    /\ next \in [Classes -> Nat] /\ wire \in [Classes -> Nat]
    /\ retries \in [Classes -> 0 .. MaxRetries - 1]
    /\ \A c \in Classes : /\ Len(buffer[c]) < BufferSize /\ Len(pkts[c]) <= BufferSize
                          /\ Elements(buffer[c]) \cup Elements(pkts[c]) \subseteq Mbufs
    /\ Elements(ring) \cup Elements(burst) \subseteq Mbufs
    /\ Len(ring) <= RingCapacity /\ full \subseteq Classes

Holders(m) ==
    pool[m] + Occurrences(buffer[m[1]], m) + Occurrences(pkts[m[1]], m)
            + Occurrences(ring, m) + Occurrences(burst, m)

(* An mbuf is in exactly one place, in its pool, in the buffer or the flush *)
(* of its class, on the Tx ring or with the card, unless its own class has *)
(* met a ring without room: a class that has spoils no mbuf of another.    *)
OneHolder == \A m \in Mbufs : m[1] \notin full => Holders(m) = 1

(* No mbuf is ever lost, not even when the Tx ring is full and pflow_tx()  *)
(* and lport_tx_buffer_flush() free the same mbufs.                        *)
NeverLost == \A m \in Mbufs : Holders(m) >= 1

(* What the comment of lport_tx_buffer_add() says, "the unsent packets are *)
(* just freed back to the owning mempool": an mbuf is there at most once.  *)
FreedOnce == \A m \in Mbufs : pool[m] <= 1

(* The frames of a class leave in the order in which they were written,    *)
(* none lost and none sent twice, although buffer, ring and card take them *)
(* in bursts and the classes share the ring, until the class itself meets  *)
(* a ring without room.                                                    *)
NoneLost == [][\A c \in Classes \ full : wire'[c] \in {wire[c], wire[c] + 1}]_vars

(* Every frame that was written gets on the wire: the threads call         *)
(* lport_send() in every cycle and the packet handler polls.  For a ring   *)
(* that holds the mbufs of all classes.                                    *)
EveryFrameSent == \A c \in Classes : \A n \in 1 .. MaxFrames : next[c] >= n ~> wire[c] >= n
=============================================================================

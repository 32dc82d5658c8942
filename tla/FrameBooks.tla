------------------------------ MODULE FrameBooks ----------------------------
(***************************************************************************)
(* The notions in which the order of frames is argued about: the line of   *)
(* queues that a frame passes on its way round, and the books that say     *)
(* which numbers can still cause an error.                                 *)
(***************************************************************************)
EXTENDS Frames, SequenceElements, FiniteSets
-----------------------------------------------------------------------------
(* The line of queues *)

\* The number of frame f, if it is one of the reference's.
Own(f) == IF f.seq = NONE THEN {} ELSE {f.seq}

\* The same, if its payload is intact.
Fit(f) == IF f.pay THEN Own(f) ELSE {}

\* The numbers of the intact frames of queue q.
Sound(q) == {e.seq : e \in {d \in Elements(q) : d.pay}} \ {NONE}

\* What is known of every frame of traffic class cl: another station's has a foreign
\* frame ID, or is one that is dropped for its type or length; the reference's carries
\* the meta data of its number.
Known(cl, f) ==
    /\ f.seq = NONE => /\ ~ f.id
                       /\ f.type => cl \in {"tsn", "rtc", "rta"}
                       /\ ~ f.type => f.short # 0
    /\ f.seq # NONE => /\ f.id /\ f.seq \in Nat
                       /\ f.meta = sequence_counter_to_meta_data(f.seq)

\* What is known of queue d of the way; no frame of another station is in a transmit
\* queue.
Queue(cl, d, q) ==
    /\ q \in Seq(AnyFrame) /\ Ascending(q)
    /\ \A f \in Elements(q) : Known(cl, f) /\ (d \in {3, 4, 7} => f.seq # NONE)

\* What is further on its way has the lower number.
InLine(S) ==
    \A c, d \in 1 .. 7 : c < d => \A x \in Numbers(S[c]), y \in Numbers(S[d]) : x < y

\* Only the queues c and e change.
SameBut(S, T, c, e) == \A d \in 1 .. 7 : d # c /\ d # e => T[d] = S[d]

\* The seven queues from the reference's receive burst back to its transmit ring.
Lined(cl, S) == (\A d \in 1 .. 7 : Queue(cl, d, S[d])) /\ InLine(S)

\* The first frame of queue c is taken out.
Pulled(S, T, c, f) ==
    S[c] # <<>> /\ f = Head(S[c]) /\ T[c] = Tail(S[c]) /\ SameBut(S, T, c, c)

\* The first frame of queue c + 1 moves to the end of queue c.
Moved(S, T, c, e, h, f) ==
    /\ S[e] # <<>> /\ h = Head(S[e]) /\ T[e] = Tail(S[e])
    /\ T[c] = Append(S[c], f) /\ SameBut(S, T, c, e)

\* The numbers before and after such a move.
MovedSets(S, T, c, e, h, f) ==
    /\ Numbers(T[c]) = Numbers(S[c]) \cup {f.seq} /\ Sound(T[c]) = Sound(S[c]) \cup Fit(f)
    /\ Numbers(S[e]) = {f.seq} \cup Numbers(T[e]) /\ Sound(S[e]) = Fit(h) \cup Sound(T[e])

\* Queue c + 1 is emptied; its first k frames join the end of queue c.
Joined(S, T, c, e, k) ==
    /\ k \in 0 .. Len(S[e]) /\ T[e] = <<>>
    /\ T[c] = S[c] \o SubSeq(S[e], 1, k) /\ SameBut(S, T, c, e)

\* The numbers before and after; L are those of the frames that are freed.
JoinedSets(S, T, c, e, k) ==
    /\ Numbers(T[e]) = {}
    /\ \E L \in SUBSET Numbers(S[e]) :
          /\ Numbers(T[c]) = Numbers(S[c]) \cup (Numbers(S[e]) \ L)
          /\ \A x \in Numbers(S[e]) \ L, y \in L : x < y
          /\ k = Len(S[e]) => L = {}

\* The first k frames of queue c + 1 fill the empty queue c.
Parted(S, T, c, e, k) ==
    /\ k \in 0 .. Len(S[e]) /\ S[c] = <<>> /\ T[c] = SubSeq(S[e], 1, k)
    /\ T[e] = SubSeq(S[e], k + 1, Len(S[e])) /\ SameBut(S, T, c, e)

\* The numbers before and after.
PartedSets(S, T, c, e) ==
    /\ Numbers(S[c]) = {} /\ Sound(S[c]) = {}
    /\ Numbers(S[e]) = Numbers(T[c]) \cup Numbers(T[e])
    /\ Sound(S[e]) = Sound(T[c]) \cup Sound(T[e])

\* A foreign frame arrives in queue c.
Added(S, T, c, f) == T[c] = Append(S[c], f) /\ SameBut(S, T, c, c)

\* The numbers under way home, from the mirror's transmit buffer on.
HomeOf(S) == Numbers(S[1]) \cup Numbers(S[2]) \cup Numbers(S[3]) \cup Numbers(S[4])

\* The numbers under way out.
OutOf(S) == Numbers(S[5]) \cup Numbers(S[6]) \cup Numbers(S[7])

\* Those of the intact frames under way out, which are the ones that can come home.
GoodOf(S) == Sound(S[5]) \cup Sound(S[6]) \cup Sound(S[7])

\* The first frame on the way home, and the first on the way out.
TakenHome(S, T, s) ==
    /\ s \in HomeOf(S) /\ \A x \in HomeOf(S) : s <= x
    /\ HomeOf(T) = HomeOf(S) \ {s} /\ OutOf(T) = OutOf(S) /\ GoodOf(T) = GoodOf(S)

\* The first number under way out is taken, and does not go home.
TakenOut(S, T, s) ==
    /\ s \in OutOf(S) /\ \A x \in OutOf(S) : s <= x
    /\ OutOf(T) = OutOf(S) \ {s} /\ HomeOf(T) = HomeOf(S) /\ GoodOf(T) = GoodOf(S) \ {s}

\* Way sets are the same.
SameSets(S, T) == HomeOf(T) = HomeOf(S) /\ OutOf(T) = OutOf(S) /\ GoodOf(T) = GoodOf(S)

\* What a delivery on the way out may do: damage the frame.
Crossed(S, T, h, f) ==
    /\ HomeOf(T) = HomeOf(S) /\ OutOf(T) = OutOf(S)
    /\ GoodOf(T) \subseteq GoodOf(S) /\ GoodOf(S) \subseteq GoodOf(T) \cup {f.seq}
    /\ (h.pay => f.pay) => GoodOf(T) = GoodOf(S)

\* New frames are put at the end of the way.
Fresh(cl, S, T, x, k, p) ==
    /\ p \in Seq(AnyFrame) /\ Ascending(p) /\ Numbers(p) = x .. x + k - 1 /\ Sound(p) = Numbers(p)
    /\ \A f \in Elements(p) : Known(cl, f) /\ f.seq # NONE
    /\ T[7] = S[7] \o p /\ SameBut(S, T, 7, 7)
-----------------------------------------------------------------------------
(* The books *)

\* The facts about counting that the books rest on.
Counting ==
    /\ \A n \in Int : IsFiniteSet(0 .. n)
    /\ \A S, T : (IsFiniteSet(S) /\ T \subseteq S)
                  => /\ IsFiniteSet(T) /\ Cardinality(T) \in Nat /\ Cardinality(S) \in Nat
                     /\ Cardinality(T) <= Cardinality(S)
    /\ \A S, T, x : (IsFiniteSet(S) /\ T \subseteq S \cup {x})
                  => /\ IsFiniteSet(T) /\ Cardinality(T) \in Nat /\ Cardinality(S) \in Nat
                     /\ Cardinality(T) <= Cardinality(S) + 1
    /\ \A S, T, x : (IsFiniteSet(S) /\ x \in S /\ T \subseteq S \ {x})
                  => /\ IsFiniteSet(T) /\ Cardinality(T) \in Nat /\ Cardinality(S) \in Nat
                     /\ Cardinality(T) + 1 <= Cardinality(S)

\* What is expected after m numbers have passed: the last of them, as it is read,
\* and one more.
Cut(m) == IF m = 0 THEN 0 ELSE ((m - 1) % SeqMod) + 1

\* The numbers, of the set U under way and of the next one tx, before which a receiver
\* that has seen all below m will find a gap, or that it expects wrongly because the
\* numbers as they are read start again there.
Breaks(tx, m, U) ==
    {y \in 0 .. tx : /\ y \in U \cup {tx}
                     /\ (y # m /\ y - 1 \notin U) \/ (y > 0 /\ y % SeqMod = 0)}

\* The numbers under way whose slot, of bl slots, no longer holds their Tx time
\* although it was not yet given to a later frame.
Spoiled(tx, U, bl, len) == {u \in U : tx - u <= len /\ bl[u % len] # u}

\* Where the frames of class cl are.  a and b are the numbers below which no frame can
\* reach the reference, and the mirror, any more; H are under way home, O under way out,
\* G of those intact; er and em are what the two nodes expect.
Placed(cl, tx, a, b, H, O, G, er, em) ==
    /\ tx \in Nat /\ tx % FramesPerCycle = 0
    /\ a \in Nat /\ b \in Nat /\ a <= b /\ b <= tx
    /\ H \subseteq a .. b - 1 /\ O \subseteq b .. tx - 1 /\ G \subseteq O
    /\ er \in Nat /\ er <= a /\ em \in Nat /\ em <= b
    /\ cl # "dcp" => er = Cut(a) /\ em = Cut(b)
    /\ tx <= SeqMod => er <= em /\ \A x \in H : x < em

\* Class dcp is not synchronised again: after an error, what is expected has gone by.
Stuck(cl, tx, U, e, ooo) ==
    (cl = "dcp" /\ tx <= SeqMod /\ ooo > 0) => \A x \in U \cup {tx} : e < x

\* Every out-of-order error so far, and every one that the frames under way can still
\* cause, is one of the fr faults, a wrap of the numbers or a foreign frame counted.
Explained(cl, tx, m, U, ooo, fr, id) ==
    /\ ooo \in Nat /\ fr \in Nat /\ id \in Nat
    /\ cl # "dcp" => ooo + Cardinality(Breaks(tx, m, U)) <= fr + (tx \div SeqMod) + id

\* Every round trip measured with a wrong Tx time, and every one that still can be, is
\* the fault of a foreign frame, which spoils two at most.
Measured(tx, U, bl, len, late, bad, id) ==
    /\ len \in Nat \ {0} /\ late \in BOOLEAN /\ bad \in Nat /\ id \in Nat
    /\ (~ late /\ tx <= SeqMod) => bad + Cardinality(Spoiled(tx, U, bl, len)) <= 2 * id

\* The books of both nodes.
Ledger(cl, tx, a, b, H, O, G, er, em, or, om, ir, im, fr, bl, len, late, bad) ==
    /\ Placed(cl, tx, a, b, H, O, G, er, em)
    /\ Stuck(cl, tx, H \cup O, er, or) /\ Stuck(cl, tx, O, em, om)
    /\ Explained(cl, tx, a, H \cup G, or, fr, ir) /\ Explained(cl, tx, b, O, om, fr, im)
    /\ Measured(tx, H \cup G, bl, len, late, bad, ir)

\* U \ V is a run: nothing that stays lies between two that go.
Run(U, V) == \A x, y \in U \ V : \A z \in V : ~ (x < z /\ z < y)

\* The number that is expected once number s was read.
After(cl, e, s) == IF s % SeqMod = e \/ cl # "dcp" THEN (s % SeqMod) + 1 ELSE e

\* One if a frame with number s is not the one expected.
Late(e, s) == IF s % SeqMod = e THEN 0 ELSE 1

\* Whether slots were reused too early, and a round-trip time taken against
\* another frame's Tx time, when the reference counts frame s.
Overdue(late, tx, s, len) == late \/ tx - s > len

\* One if the slot of number s does not hold its Tx time.
WrongTime(bl, s, len) == IF bl[(s % SeqMod) % len] = s THEN 0 ELSE 1
=============================================================================

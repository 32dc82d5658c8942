----------------------------- MODULE FrameRules -----------------------------
(***************************************************************************)
(* The rules that the line and the books of FrameBooks obey. They do not   *)
(* depend on the state of the exchange. FrameLine proves those of the line *)
(* and FrameLedger those of the books; FrameTx_proofs and FrameRx_proofs   *)
(* show that the steps of the exchange keep the line and the books, given  *)
(* the rules; FrameTheorems puts both together.                            *)
(***************************************************************************)
EXTENDS FrameBooks
-----------------------------------------------------------------------------
(* The rules of the line *)

\* Numbers, by the elements of the queue.
NumbersOf ==
    \A q :
        q \in Seq(AnyFrame)
        => Numbers(q) = {e.seq : e \in Elements(q)} \ {NONE}

\* The first frame leaves a queue.
TailQueue ==
    \A q :
        (q \in Seq(AnyFrame) /\ q # <<>> /\ Ascending(q))
        => /\ Head(q) \in AnyFrame /\ Head(q) \in Elements(q) /\ Tail(q) \in Seq(AnyFrame)
           /\ Elements(Tail(q)) \subseteq Elements(q)
           /\ Ascending(Tail(q))
           /\ Numbers(q) = Own(Head(q)) \cup Numbers(Tail(q))
           /\ Sound(q) = Fit(Head(q)) \cup Sound(Tail(q))
           /\ \A x \in Own(Head(q)), y \in Numbers(Tail(q)) : x < y

\* The first frame of a queue leaves the line.
LineDrop ==
    \A cl, S, T, c, f :
        (Lined(cl, S) /\ c \in 1 .. 7 /\ Pulled(S, T, c, f))
        => /\ Lined(cl, T) /\ f \in AnyFrame /\ Known(cl, f)
           /\ c \in {3, 4, 7} => f.seq # NONE
           /\ Numbers(S[c]) = Own(f) \cup Numbers(T[c])
           /\ Sound(S[c]) = Fit(f) \cup Sound(T[c])
           /\ \A x \in Own(f), y \in Numbers(T[c]) : x < y

\* A frame that moves to the next queue keeps the line.
LineMove ==
    \A cl, S, T, c, e, h, f :
        (/\ Lined(cl, S) /\ c \in 1 .. 6 /\ e = c + 1 /\ f \in AnyFrame
         /\ Moved(S, T, c, e, h, f) /\ Known(cl, f) /\ f.seq = h.seq /\ f.seq # NONE)
        => Lined(cl, T) /\ MovedSets(S, T, c, e, h, f)

\* The queues of a line.
LinedQueue ==
    \A cl, S, d :
        (Lined(cl, S) /\ d \in 1 .. 7)
        => /\ S[d] \in Seq(AnyFrame) /\ Ascending(S[d]) /\ Sound(S[d]) \subseteq Numbers(S[d])
           /\ Numbers(S[d]) \subseteq Int

\* The intact frames under way out are under way out.
GoodOut ==
    \A cl, S :
        Lined(cl, S)
        => GoodOf(S) \subseteq OutOf(S)

\* A frame leaves the queues.
DropSets ==
    \A cl, S, T, c, f :
        (Lined(cl, S) /\ c \in 1 .. 7 /\ Pulled(S, T, c, f))
        => /\ c <= 4 => /\ HomeOf(S) = Own(f) \cup HomeOf(T)
                        /\ OutOf(T) = OutOf(S) /\ GoodOf(T) = GoodOf(S)
           /\ c > 4 => /\ HomeOf(T) = HomeOf(S)
                       /\ OutOf(S) = Own(f) \cup OutOf(T)
                       /\ GoodOf(S) = Fit(f) \cup GoodOf(T)

\* The first frame in line is the first of those under way home.
FirstHome ==
    \A cl, S, T, f :
        (Lined(cl, S) /\ Pulled(S, T, 1, f) /\ f.seq # NONE)
        => TakenHome(S, T, f.seq)

\* The first frame in the mirror's burst is the first of those under way out.
FirstOut ==
    \A cl, S, T, f :
        (Lined(cl, S) /\ Pulled(S, T, 5, f) /\ f.seq # NONE)
        => TakenOut(S, T, f.seq) /\ (f.seq \in GoodOf(S) <=> f.pay)

\* A delivery on the way home changes no set.
MoveHome ==
    \A cl, S, T, h, f :
        (/\ Lined(cl, S) /\ f \in AnyFrame /\ Moved(S, T, 2, 3, h, f) /\ Known(cl, f)
         /\ f.seq = h.seq /\ f.seq # NONE)
        => Lined(cl, T) /\ SameSets(S, T)

\* A delivery on the way out.
MoveOut ==
    \A cl, S, T, h, f :
        (/\ Lined(cl, S) /\ f \in AnyFrame /\ Moved(S, T, 6, 7, h, f) /\ Known(cl, f)
         /\ f.seq = h.seq /\ f.seq # NONE /\ (f.pay => h.pay))
        => Lined(cl, T) /\ Crossed(S, T, h, f)

\* A receive burst changes no set.
PartSets ==
    \A cl, S, T, c, e, k :
        (Lined(cl, S) /\ c \in {1, 5} /\ e = c + 1 /\ Parted(S, T, c, e, k))
        => Lined(cl, T) /\ SameSets(S, T)

\* A frame of another station changes no set.
AddSets ==
    \A cl, S, T, c, f :
        (/\ Lined(cl, S) /\ c \in {2, 6} /\ f \in AnyFrame /\ Known(cl, f)
         /\ f.seq = NONE /\ Added(S, T, c, f))
        => Lined(cl, T) /\ SameSets(S, T)

\* The mirror's buffer is sent; what the NIC refuses is the end of the way home.
JoinSets ==
    \A cl, S, T, k :
        (Lined(cl, S) /\ Joined(S, T, 3, 4, k))
        => /\ Lined(cl, T) /\ HomeOf(T) \subseteq HomeOf(S)
           /\ OutOf(T) = OutOf(S) /\ GoodOf(T) = GoodOf(S)
           /\ \A x \in HomeOf(S) \ HomeOf(T), z \in HomeOf(T) : z < x
           /\ k = Len(S[4]) => HomeOf(T) = HomeOf(S)

\* The frames of a round are the last under way out.
NewSets ==
    \A cl, S, T, x, k, p :
        (/\ Lined(cl, S) /\ x \in Nat /\ k \in Nat /\ Fresh(cl, S, T, x, k, p)
         /\ (\A y \in HomeOf(S) \cup OutOf(S) : y < x))
        => /\ Lined(cl, T) /\ HomeOf(T) = HomeOf(S)
           /\ OutOf(T) = OutOf(S) \cup (x .. x + k - 1)
           /\ GoodOf(T) = GoodOf(S) \cup (x .. x + k - 1)
-----------------------------------------------------------------------------
(* The rules of the books *)

\* Two numbers with the same remainder are at least the divisor apart.
ModGap ==
    \A u, v, m :
        (u \in Nat /\ v \in Nat /\ m \in Nat /\ m > 0 /\ u < v /\ u % m = v % m)
        => v - u >= m

\* What a receiver reads out of a frame is its number modulo SeqMod: the cycle
\* counter of the meta data wraps.
ReadBack ==
    \A q :
        q \in Nat
        => meta_data_to_sequence_counter(sequence_counter_to_meta_data(q)) = q % SeqMod

\* SeqMod is positive.
SeqModOK ==
    SeqMod \in Nat \ {0}

\* Frames that are lost in one piece are one fault.
LossStep ==
    \A cl, tx, a, b, H, O, G, er, em, or, om, ir, im, fr, bl, len, late, bad, H2, O2, G2,
       fs :
        (/\ Ledger(cl, tx, a, b, H, O, G, er, em, or, om, ir, im, fr, bl, len, late, bad)
         /\ H2 \in SUBSET H /\ O2 \in SUBSET O /\ G2 \in SUBSET G /\ G2 \subseteq O2
         /\ Run(O, O2) /\ Run(H \cup G, H2 \cup G2) /\ fs \in Nat /\ fs >= fr + 1)
        => Ledger(cl, tx, a, b, H2, O2, G2, er, em, or, om, ir, im, fs, bl, len, late, bad)

\* The frames of a round, of which the ring takes the first k.
NewStep ==
    \A cl, tx, a, b, H, O, G, er, em, or, om, ir, im, fr, bl, len, late, bad, k, N, bk :
        (/\ Ledger(cl, tx, a, b, H, O, G, er, em, or, om, ir, im, fr, bl, len, late, bad)
         /\ k \in 0 .. FramesPerCycle /\ N = tx .. tx + k - 1
         /\ (\A q \in tx .. tx + FramesPerCycle - 1 : bk[q % len] = q)
         /\ (\A i \in 0 .. len - 1 :
                (\A q \in tx .. tx + FramesPerCycle - 1 : i # q % len) => bk[i] = bl[i]))
        => Ledger(cl, tx + FramesPerCycle, a, b, H, O \cup N, G \cup N, er, em, or, om, ir, im,
                  fr + (FramesPerCycle - k), bk, len, late, bad)

\* The mirror counts a foreign frame.
ForeignAtMirror ==
    \A cl, tx, a, b, H, O, G, er, em, or, om, ir, im, fr, bl, len, late, bad, o :
        (/\ Ledger(cl, tx, a, b, H, O, G, er, em, or, om, ir, im, fr, bl, len, late, bad)
         /\ cl # "dcp" /\ o \in {0, 1})
        => Ledger(cl, tx, a, b, H, O, G, er, em, or, om + o, ir, im + 1, fr, bl, len, late, bad)

\* The reference counts a foreign frame, which clears a slot of the backlog.
ForeignAtReference ==
    \A cl, tx, a, b, H, O, G, er, em, or, om, ir, im, fr, bl, len, late, bad, o, slot, bk :
        (/\ Ledger(cl, tx, a, b, H, O, G, er, em, or, om, ir, im, fr, bl, len, late, bad)
         /\ cl # "dcp" /\ o \in {0, 1}
         /\ (\A i \in 0 .. len - 1 : i # slot => bk[i] = bl[i]))
        => Ledger(cl, tx, a, b, H, O, G, er, em, or + o, om, ir + 1, im, fr, bk, len, late, bad + 1)

\* The mirror takes the first frame under way out, and forwards it or not.
MirrorCounts ==
    \A cl, tx, a, b, H, O, G, er, em, or, om, ir, im, fr, bl, len, late, bad, s, H2 :
        (/\ Ledger(cl, tx, a, b, H, O, G, er, em, or, om, ir, im, fr, bl, len, late, bad)
         /\ s \in O /\ (\A x \in O : s <= x)
         /\ (\/ H2 = H /\ (s % SeqMod # em \/ s \notin G)
             \/ H2 = H \cup {s} /\ s % SeqMod = em /\ s \in G))
        => Ledger(cl, tx, a, s + 1, H2, O \ {s}, G \ {s}, er, After(cl, em, s), or,
                  om + Late(em, s), ir, im, fr, bl, len, late, bad)

\* The reference takes the first frame under way home, and measures its round trip.
ReferenceCounts ==
    \A cl, tx, a, b, H, O, G, er, em, or, om, ir, im, fr, bl, len, late, bad, s, bk :
        (/\ Ledger(cl, tx, a, b, H, O, G, er, em, or, om, ir, im, fr, bl, len, late, bad)
         /\ s \in H /\ (\A x \in H : s <= x)
         /\ (\A i \in 0 .. len - 1 : i # (s % SeqMod) % len => bk[i] = bl[i]))
        => Ledger(cl, tx, s + 1, b, H \ {s}, O, G, After(cl, er, s), em,
                  or + Late(er, s), om, ir, im, fr, bk, len, Overdue(late, tx, s, len),
                  bad + WrongTime(bl, s, len))

\* All of them.
Rules ==
    /\ NumbersOf /\ TailQueue /\ LineDrop /\ LineMove /\ LinedQueue /\ GoodOut
    /\ DropSets /\ FirstHome /\ FirstOut /\ MoveHome /\ MoveOut /\ PartSets
    /\ AddSets /\ JoinSets /\ NewSets /\ ModGap /\ ReadBack /\ SeqModOK /\ LossStep
    /\ NewStep /\ ForeignAtMirror /\ ForeignAtReference /\ MirrorCounts
    /\ ReferenceCounts
=============================================================================

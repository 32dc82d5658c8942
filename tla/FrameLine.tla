----------------------------- MODULE FrameLine ------------------------------
(***************************************************************************)
(* What happens to the line of queues that a frame passes on its way       *)
(* round when a frame, or several, move on, leave it or join it.           *)
(***************************************************************************)
EXTENDS FrameRules, TLAPS
-----------------------------------------------------------------------------
(* The elements of a queue *)

\* An element is put at the end, as on a ring.
LEMMA AppendElements ==
    ASSUME NEW S, NEW s \in Seq(S), NEW e \in S
    PROVE  /\ Append(s, e) \in Seq(S)
           /\ Elements(Append(s, e)) = Elements(s) \cup {e}
<1>1. Append(s, e) \in Seq(S) /\ Len(Append(s, e)) = Len(s) + 1 /\ Len(s) \in Nat
  OBVIOUS
<1>2. \A i \in 1 .. Len(s) : Append(s, e)[i] = s[i]
  OBVIOUS
<1>3. Append(s, e)[Len(s) + 1] = e
  OBVIOUS
<1>4. 1 .. Len(s) + 1 = (1 .. Len(s)) \cup {Len(s) + 1}
  BY <1>1
<1>5. Elements(Append(s, e)) = Elements(s) \cup {e}
  BY <1>1, <1>2, <1>3, <1>4 DEF Elements
<1>. QED BY <1>1, <1>5

\* A sequence cut in two.
LEMMA SplitElements ==
    ASSUME NEW S, NEW s \in Seq(S), NEW n \in 0 .. Len(s)
    PROVE  LET a == SubSeq(s, 1, n)
               b == SubSeq(s, n + 1, Len(s))
           IN  /\ a \in Seq(S) /\ b \in Seq(S) /\ Len(a) = n /\ Len(b) = Len(s) - n
               /\ \A i \in 1 .. n : a[i] = s[i]
               /\ \A i \in 1 .. Len(b) : b[i] = s[n + i]
               /\ Elements(s) = Elements(a) \cup Elements(b)
<1>. DEFINE a == SubSeq(s, 1, n)
            b == SubSeq(s, n + 1, Len(s))
<1>0. Len(s) \in Nat /\ n \in Nat /\ n <= Len(s)
  OBVIOUS
<1>1. a \in Seq(S) /\ Len(a) = n /\ \A i \in 1 .. n : a[i] = s[i]
  BY <1>0
<1>2. b \in Seq(S) /\ Len(b) = Len(s) - n /\ \A i \in 1 .. Len(b) : b[i] = s[n + i]
  BY <1>0
<1>. HIDE DEF a, b
<1>3. Elements(s) \subseteq Elements(a) \cup Elements(b)
  <2>. SUFFICES ASSUME NEW i \in 1 .. Len(s) PROVE s[i] \in Elements(a) \cup Elements(b)
    BY Zenon DEF Elements
  <2>1. CASE i <= n
    BY <1>0, <1>1, <2>1 DEF Elements
  <2>2. CASE i > n
    <3>1. i - n \in 1 .. Len(b) /\ n + (i - n) = i
      BY <1>0, <1>2, <2>2
    <3>2. b[i - n] = s[i]
      BY <1>2, <3>1
    <3>. QED BY <3>1, <3>2 DEF Elements
  <2>. QED BY <1>0, <2>1, <2>2
<1>4. \A i \in 1 .. Len(b) : n + i \in 1 .. Len(s)
  BY <1>0, <1>2
<1>5. \A i \in 1 .. n : i \in 1 .. Len(s)
  BY <1>0
<1>6. Elements(a) \cup Elements(b) \subseteq Elements(s)
  <2>1. \A i \in 1 .. n : a[i] \in Elements(s)
    BY <1>1, <1>5 DEF Elements
  <2>2. \A i \in 1 .. Len(b) : b[i] \in Elements(s)
    BY <1>2, <1>4 DEF Elements
  <2>. QED BY <1>1, <2>1, <2>2, Zenon DEF Elements
<1>8. Elements(s) = Elements(a) \cup Elements(b)
  BY <1>3, <1>6
<1>. QED BY <1>1, <1>2, <1>8, Zenon DEF a, b

\* The first element is taken off.
LEMMA TailElements ==
    ASSUME NEW S, NEW s \in Seq(S), s # <<>>
    PROVE  /\ Head(s) \in S /\ Head(s) = s[1] /\ 1 \in 1 .. Len(s)
           /\ Tail(s) \in Seq(S) /\ Len(Tail(s)) = Len(s) - 1
           /\ \A i \in 1 .. Len(Tail(s)) : Tail(s)[i] = s[i + 1] /\ i + 1 \in 1 .. Len(s)
           /\ Elements(s) = {Head(s)} \cup Elements(Tail(s))
<1>1. /\ Head(s) \in S /\ Head(s) = s[1] /\ Len(s) \in Nat /\ Len(s) > 0
      /\ Tail(s) \in Seq(S) /\ Len(Tail(s)) = Len(s) - 1
      /\ \A i \in 1 .. Len(Tail(s)) : Tail(s)[i] = s[i + 1]
  OBVIOUS
<1>2. \A i \in 1 .. Len(Tail(s)) : i + 1 \in 1 .. Len(s)
  BY <1>1
<1>3. \A i \in 1 .. Len(s) : i = 1 \/ (i - 1 \in 1 .. Len(Tail(s)) /\ Tail(s)[i - 1] = s[i])
  <2>. TAKE i \in 1 .. Len(s)
  <2>1. CASE i # 1
    <3>1. i - 1 \in 1 .. Len(Tail(s)) /\ (i - 1) + 1 = i
      BY <1>1, <2>1
    <3>. QED BY <1>1, <3>1
  <2>. QED BY <2>1
<1>4. 1 \in 1 .. Len(s)
  BY <1>1
<1>5. Elements(s) = {Head(s)} \cup Elements(Tail(s))
  <2>. DEFINE h == Head(s)
              t == Tail(s)
  <2>1. /\ h = s[1]
        /\ \A i \in 1 .. Len(t) : t[i] = s[i + 1] /\ i + 1 \in 1 .. Len(s)
        /\ \A i \in 1 .. Len(s) : i = 1 \/ (i - 1 \in 1 .. Len(t) /\ t[i - 1] = s[i])
    BY <1>1, <1>2, <1>3
  <2>. HIDE DEF h, t
  <2>2. ASSUME NEW e \in Elements(t) PROVE e \in Elements(s)
    <3>1. PICK i \in 1 .. Len(t) : e = t[i]
      BY DEF Elements
    <3>. QED BY <2>1, <3>1 DEF Elements
  <2>3. ASSUME NEW e \in Elements(s), e # h PROVE e \in Elements(t)
    <3>1. PICK i \in 1 .. Len(s) : e = s[i]
      BY DEF Elements
    <3>2. i - 1 \in 1 .. Len(t) /\ t[i - 1] = e
      BY <2>1, <2>3, <3>1
    <3>. QED BY <3>2 DEF Elements
  <2>4. h \in Elements(s)
    BY <1>4, <2>1 DEF Elements
  <2>5. Elements(s) = {h} \cup Elements(t)
    BY <2>2, <2>3, <2>4
  <2>. QED BY <2>5 DEF h, t
<1>. QED BY <1>1, <1>2, <1>4, <1>5

\* The elements of a concatenation, one by one.
LEMMA ConcatElements ==
    ASSUME NEW S, NEW p \in Seq(S), NEW q \in Seq(S)
    PROVE  /\ p \o q \in Seq(S) /\ Len(p \o q) = Len(p) + Len(q)
           /\ \A i \in 1 .. Len(p) : (p \o q)[i] = p[i]
           /\ \A i \in 1 .. Len(q) : (p \o q)[Len(p) + i] = q[i]
           /\ \A i \in 1 .. Len(p \o q) :
                  i \in 1 .. Len(p) \/ \E j \in 1 .. Len(q) : i = Len(p) + j
           /\ Elements(p \o q) = Elements(p) \cup Elements(q)
<1>. DEFINE r == p \o q
<1>0. Len(p) \in Nat /\ Len(q) \in Nat
  OBVIOUS
<1>1. /\ r \in Seq(S) /\ Len(r) = Len(p) + Len(q)
      /\ \A i \in 1 .. Len(p) : r[i] = p[i]
  OBVIOUS
<1>2. \A i \in 1 .. Len(q) : r[Len(p) + i] = q[i]
  OBVIOUS
<1>. HIDE DEF r
<1>3. ASSUME NEW i \in 1 .. Len(r), i \notin 1 .. Len(p)
      PROVE  i - Len(p) \in 1 .. Len(q) /\ i = Len(p) + (i - Len(p))
  BY <1>0, <1>1, <1>3
<1>4. \A i \in 1 .. Len(r) : i \in 1 .. Len(p) \/ \E j \in 1 .. Len(q) : i = Len(p) + j
  BY <1>3, Zenon
<1>5. \A i \in 1 .. Len(q) : Len(p) + i \in 1 .. Len(r)
  BY <1>0, <1>1
<1>6. \A i \in 1 .. Len(p) : i \in 1 .. Len(r)
  BY <1>0, <1>1
<1>7. ASSUME NEW e \in Elements(r) PROVE e \in Elements(p) \cup Elements(q)
  <2>1. PICK i \in 1 .. Len(r) : e = r[i]
    BY DEF Elements
  <2>2. CASE i \in 1 .. Len(p)
    BY <1>1, <2>1, <2>2 DEF Elements
  <2>3. CASE \E j \in 1 .. Len(q) : i = Len(p) + j
    BY <1>2, <2>1, <2>3 DEF Elements
  <2>. QED BY <1>4, <2>2, <2>3
<1>8. Elements(p) \subseteq Elements(r)
  BY <1>1, <1>6 DEF Elements
<1>9. Elements(q) \subseteq Elements(r)
  BY <1>2, <1>5 DEF Elements
<1>10. Elements(r) = Elements(p) \cup Elements(q)
  BY <1>7, <1>8, <1>9
<1>. QED BY <1>1, <1>2, <1>4, <1>10 DEF r
-----------------------------------------------------------------------------
(* The queues *)

\* Numbers, by the elements of the queue.
LEMMA NumbersOfHolds ==
    ASSUME NEW q \in Seq(AnyFrame)
    PROVE  Numbers(q) = {e.seq : e \in Elements(q)} \ {NONE}
<1>1. DOMAIN q = 1 .. Len(q)
  OBVIOUS
<1>. QED BY <1>1 DEF Numbers, Elements

\* Ascending, by the positions of the queue.
LEMMA AscendingOf ==
    ASSUME NEW q \in Seq(AnyFrame)
    PROVE  Ascending(q) <=> \A i, j \in 1 .. Len(q) :
               (i < j /\ q[i].seq # NONE /\ q[j].seq # NONE) => q[i].seq < q[j].seq
<1>1. DOMAIN q = 1 .. Len(q)
  OBVIOUS
<1>. QED BY <1>1 DEF Ascending

\* The empty queue.
LEMMA EmptyQueue ==
    /\ <<>> \in Seq(AnyFrame) /\ Ascending(<<>>) /\ Numbers(<<>>) = {} /\ Sound(<<>>) = {}
    /\ Elements(<<>>) = {}
<1>1. <<>> \in Seq(AnyFrame) /\ Len(<<>>) = 0
  OBVIOUS
<1>2. Elements(<<>>) = {}
  BY <1>1 DEF Elements
<1>3. Ascending(<<>>)
  <2>1. DOMAIN <<>> = 1 .. 0
    BY <1>1
  <2>. QED BY <2>1 DEF Ascending
<1>. QED BY <1>1, <1>2, <1>3, NumbersOfHolds, Zenon DEF Sound

\* The first frame leaves a queue.
LEMMA TailQueueHolds ==
    ASSUME NEW q \in Seq(AnyFrame), q # <<>>, Ascending(q)
    PROVE  /\ Head(q) \in AnyFrame /\ Head(q) \in Elements(q) /\ Tail(q) \in Seq(AnyFrame)
           /\ Elements(Tail(q)) \subseteq Elements(q)
           /\ Ascending(Tail(q))
           /\ Numbers(q) = Own(Head(q)) \cup Numbers(Tail(q))
           /\ Sound(q) = Fit(Head(q)) \cup Sound(Tail(q))
           /\ \A x \in Own(Head(q)), y \in Numbers(Tail(q)) : x < y
<1>. DEFINE f == Head(q)
            t == Tail(q)
<1>1. /\ f \in AnyFrame /\ f = q[1] /\ 1 \in 1 .. Len(q) /\ t \in Seq(AnyFrame)
      /\ Len(t) = Len(q) - 1 /\ Len(q) \in Nat
      /\ \A i \in 1 .. Len(t) : t[i] = q[i + 1] /\ i + 1 \in 1 .. Len(q)
      /\ Elements(q) = {f} \cup Elements(t)
  BY TailElements
<1>. HIDE DEF f, t
<1>2. Ascending(t)
  <2>1. ASSUME NEW i \in 1 .. Len(t), NEW j \in 1 .. Len(t), i < j, t[i].seq # NONE, t[j].seq # NONE
        PROVE  t[i].seq < t[j].seq
    <3>1. i + 1 < j + 1 /\ i + 1 \in 1 .. Len(q) /\ j + 1 \in 1 .. Len(q)
      BY <1>1, <2>1
    <3>2. t[i] = q[i + 1] /\ t[j] = q[j + 1]
      BY <1>1
    <3>. QED BY <2>1, <3>1, <3>2, AscendingOf
  <2>. QED BY <1>1, <2>1, AscendingOf
<1>3. Numbers(q) = Own(f) \cup Numbers(t)
  BY <1>1, NumbersOfHolds DEF Own
<1>4. Sound(q) = Fit(f) \cup Sound(t)
  BY <1>1 DEF Own, Fit, Sound
<1>5. ASSUME NEW x \in Own(f), NEW y \in Numbers(t) PROVE x < y
  <2>1. x = f.seq /\ f.seq # NONE
    BY DEF Own
  <2>2. PICK e \in Elements(t) : y = e.seq /\ y # NONE
    BY <1>1, NumbersOfHolds
  <2>3. PICK i \in 1 .. Len(t) : e = t[i]
    BY DEF Elements
  <2>4. 1 < i + 1 /\ i + 1 \in 1 .. Len(q) /\ t[i] = q[i + 1]
    BY <1>1
  <2>. QED BY <1>1, <2>1, <2>2, <2>3, <2>4, AscendingOf
<1>. QED BY <1>1, <1>2, <1>3, <1>4, <1>5 DEF f, t

\* A later frame joins a queue.
LEMMA AppendQueue ==
    ASSUME NEW q \in Seq(AnyFrame), NEW f \in AnyFrame, Ascending(q),
           \A x \in Numbers(q), y \in Own(f) : x < y
    PROVE  /\ Append(q, f) \in Seq(AnyFrame) /\ Ascending(Append(q, f))
           /\ Elements(Append(q, f)) = Elements(q) \cup {f}
           /\ Numbers(Append(q, f)) = Numbers(q) \cup Own(f)
           /\ Sound(Append(q, f)) = Sound(q) \cup Fit(f)
<1>. DEFINE r == Append(q, f)
<1>1. /\ r \in Seq(AnyFrame) /\ Elements(r) = Elements(q) \cup {f}
      /\ Len(r) = Len(q) + 1 /\ Len(q) \in Nat
      /\ \A i \in 1 .. Len(q) : r[i] = q[i]
      /\ r[Len(q) + 1] = f
  BY AppendElements
<1>. HIDE DEF r
<1>2. ASSUME NEW i \in 1 .. Len(r), NEW j \in 1 .. Len(r), i < j, r[i].seq # NONE, r[j].seq # NONE
      PROVE  r[i].seq < r[j].seq
  <2>1. i \in 1 .. Len(q) /\ r[i] = q[i]
    BY <1>1, <1>2
  <2>2. CASE j \in 1 .. Len(q)
    BY <1>1, <1>2, <2>1, <2>2, AscendingOf
  <2>3. CASE j = Len(q) + 1
    <3>1. r[i].seq \in Numbers(q)
      BY <1>2, <2>1, NumbersOfHolds DEF Elements
    <3>2. r[j].seq \in Own(f)
      BY <1>1, <1>2, <2>3 DEF Own
    <3>. QED BY <3>1, <3>2
  <2>. QED BY <1>1, <2>2, <2>3
<1>3. Ascending(r)
  BY <1>1, <1>2, AscendingOf
<1>4. Numbers(r) = Numbers(q) \cup Own(f)
  BY <1>1, NumbersOfHolds DEF Own
<1>5. Sound(r) = Sound(q) \cup Fit(f)
  BY <1>1 DEF Own, Fit, Sound
<1>. QED BY <1>1, <1>3, <1>4, <1>5 DEF r

\* A queue is cut in two.
LEMMA SplitQueue ==
    ASSUME NEW q \in Seq(AnyFrame), Ascending(q), NEW k \in 0 .. Len(q)
    PROVE  LET a == SubSeq(q, 1, k)
               b == SubSeq(q, k + 1, Len(q))
           IN  /\ a \in Seq(AnyFrame) /\ b \in Seq(AnyFrame) /\ Ascending(a) /\ Ascending(b)
               /\ Len(a) = k /\ Elements(q) = Elements(a) \cup Elements(b)
               /\ Numbers(q) = Numbers(a) \cup Numbers(b)
               /\ Sound(q) = Sound(a) \cup Sound(b)
               /\ \A x \in Numbers(a), y \in Numbers(b) : x < y
<1>. DEFINE a == SubSeq(q, 1, k)
            b == SubSeq(q, k + 1, Len(q))
<1>1. /\ a \in Seq(AnyFrame) /\ b \in Seq(AnyFrame) /\ Len(a) = k /\ Len(b) = Len(q) - k
      /\ \A i \in 1 .. k : a[i] = q[i]
      /\ \A i \in 1 .. Len(b) : b[i] = q[k + i]
      /\ Elements(q) = Elements(a) \cup Elements(b)
  BY SplitElements
<1>. HIDE DEF a, b
<1>2. Len(q) \in Nat /\ k \in Nat /\ k <= Len(q)
  OBVIOUS
<1>3. \A i \in 1 .. k : i \in 1 .. Len(q)
  BY <1>2
<1>4. \A i \in 1 .. Len(b) : k + i \in 1 .. Len(q) /\ k < k + i
  BY <1>1, <1>2
<1>5. Ascending(a)
  BY <1>1, <1>3, AscendingOf
<1>6. Ascending(b)
  <2>1. ASSUME NEW i \in 1 .. Len(b), NEW j \in 1 .. Len(b), i < j, b[i].seq # NONE, b[j].seq # NONE
        PROVE  b[i].seq < b[j].seq
    <3>1. k + i < k + j
      BY <1>1, <1>2, <2>1
    <3>2. k + i \in 1 .. Len(q) /\ k + j \in 1 .. Len(q)
      BY <1>4
    <3>3. b[i] = q[k + i] /\ b[j] = q[k + j]
      BY <1>1
    <3>4. q[k + i].seq # NONE /\ q[k + j].seq # NONE
      BY <2>1, <3>3
    <3>5. q[k + i].seq < q[k + j].seq
      BY <3>1, <3>2, <3>4, AscendingOf
    <3>. QED BY <3>3, <3>5
  <2>. QED BY <1>1, <2>1, AscendingOf, Zenon
<1>7. Numbers(q) = Numbers(a) \cup Numbers(b)
  BY <1>1, NumbersOfHolds
<1>8. Sound(q) = Sound(a) \cup Sound(b)
  BY <1>1 DEF Sound
<1>9. ASSUME NEW x \in Numbers(a), NEW y \in Numbers(b) PROVE x < y
  <2>a. (\E e \in Elements(a) : x = e.seq /\ x # NONE) /\ \E e \in Elements(b) : y = e.seq /\ y # NONE
    BY <1>1, NumbersOfHolds
  <2>1. PICK i \in 1 .. k : x = a[i].seq /\ x # NONE
    BY <1>1, <2>a DEF Elements
  <2>2. PICK j \in 1 .. Len(b) : y = b[j].seq /\ y # NONE
    BY <1>1, <2>a DEF Elements
  <2>3. i < k + j
    BY <1>2
  <2>4. i \in 1 .. Len(q) /\ k + j \in 1 .. Len(q) /\ x = q[i].seq /\ y = q[k + j].seq
    BY <1>1, <1>3, <1>4, <2>1, <2>2
  <2>. QED BY <2>1, <2>2, <2>3, <2>4, AscendingOf
<1>. QED BY <1>1, <1>5, <1>6, <1>7, <1>8, <1>9 DEF a, b

\* A queue of later frames joins a queue.
LEMMA ConcatQueue ==
    ASSUME NEW p \in Seq(AnyFrame), NEW q \in Seq(AnyFrame), Ascending(p), Ascending(q),
           \A x \in Numbers(p), y \in Numbers(q) : x < y
    PROVE  /\ p \o q \in Seq(AnyFrame) /\ Ascending(p \o q)
           /\ Elements(p \o q) = Elements(p) \cup Elements(q)
           /\ Numbers(p \o q) = Numbers(p) \cup Numbers(q)
           /\ Sound(p \o q) = Sound(p) \cup Sound(q)
<1>. DEFINE r == p \o q
<1>1. /\ r \in Seq(AnyFrame) /\ Len(r) = Len(p) + Len(q)
      /\ \A i \in 1 .. Len(p) : r[i] = p[i]
      /\ \A i \in 1 .. Len(q) : r[Len(p) + i] = q[i]
      /\ \A i \in 1 .. Len(r) : i \in 1 .. Len(p) \/ \E j \in 1 .. Len(q) : i = Len(p) + j
      /\ Elements(r) = Elements(p) \cup Elements(q)
  BY ConcatElements
<1>0. Len(p) \in Nat /\ Len(q) \in Nat
  OBVIOUS
<1>. HIDE DEF r
<1>2. ASSUME NEW i \in 1 .. Len(r), NEW j \in 1 .. Len(r), i < j, r[i].seq # NONE, r[j].seq # NONE
      PROVE  r[i].seq < r[j].seq
  <2>1. CASE j \in 1 .. Len(p)
    <3>1. i \in 1 .. Len(p)
      BY <1>0, <1>2, <2>1
    <3>. QED BY <1>1, <1>2, <2>1, <3>1, AscendingOf, Zenon
  <2>2. ASSUME NEW m \in 1 .. Len(q), j = Len(p) + m PROVE r[i].seq < r[j].seq
    <3>1. CASE i \in 1 .. Len(p)
      <4>1. r[i] \in Elements(p) /\ r[j] \in Elements(q)
        BY <1>1, <2>2, <3>1 DEF Elements
      <4>. QED BY <1>2, <4>1, NumbersOfHolds
    <3>2. ASSUME NEW l \in 1 .. Len(q), i = Len(p) + l PROVE r[i].seq < r[j].seq
      <4>1. l < m
        BY <1>0, <1>2, <2>2, <3>2
      <4>2. r[i] = q[l] /\ r[j] = q[m]
        BY <1>1, <2>2, <3>2
      <4>. QED BY <1>2, <4>1, <4>2, AscendingOf
    <3>. QED BY <1>1, <3>1, <3>2
  <2>. QED BY <1>1, <2>1, <2>2
<1>3. Ascending(r)
  BY <1>1, <1>2, AscendingOf
<1>4. Numbers(r) = Numbers(p) \cup Numbers(q)
  BY <1>1, NumbersOfHolds
<1>5. Sound(r) = Sound(p) \cup Sound(q)
  BY <1>1 DEF Sound
<1>. QED BY <1>1, <1>3, <1>4, <1>5 DEF r
-----------------------------------------------------------------------------
(* The line of queues *)

\* Numbers are integers.
LEMMA NumbersTyped ==
    ASSUME NEW q \in Seq(AnyFrame)
    PROVE  Numbers(q) \subseteq Int
<1>. SUFFICES ASSUME NEW i \in DOMAIN q PROVE q[i].seq \in Int
  BY DEF Numbers
<1>1. q[i] \in AnyFrame
  OBVIOUS
<1>. QED BY <1>1 DEF AnyFrame

\* Frames that move from a queue into the next keep the line.
LEMMA Regroup ==
    ASSUME NEW S, NEW T, InLine(S), NEW c \in 1 .. 6,
           \A d \in 1 .. 7 : d # c => Numbers(T[d]) \subseteq Numbers(S[d]),
           Numbers(T[c]) \subseteq Numbers(S[c]) \cup Numbers(S[c + 1]),
           \A x \in Numbers(T[c]), y \in Numbers(T[c + 1]) : x < y
    PROVE  InLine(T)
<1>. SUFFICES ASSUME NEW a \in 1 .. 7, NEW b \in 1 .. 7, a < b,
                     NEW x \in Numbers(T[a]), NEW y \in Numbers(T[b])
              PROVE  x < y
  BY DEF InLine
<1>1. CASE a # c /\ b # c
  BY <1>1 DEF InLine
<1>2. CASE a = c /\ b = c + 1
  BY <1>2
<1>3. CASE a = c /\ b # c + 1
  <2>1. c + 1 \in 1 .. 7 /\ c + 1 < b
    BY <1>3
  <2>2. x \in Numbers(S[c]) \/ x \in Numbers(S[c + 1])
    BY <1>3
  <2>3. y \in Numbers(S[b])
    BY <1>3
  <2>. QED BY <1>3, <2>1, <2>2, <2>3 DEF InLine
<1>4. CASE b = c
  <2>1. c + 1 \in 1 .. 7 /\ a < c + 1
    BY <1>4
  <2>2. y \in Numbers(S[c]) \/ y \in Numbers(S[c + 1])
    BY <1>4
  <2>3. x \in Numbers(S[a])
    BY <1>4
  <2>. QED BY <1>4, <2>1, <2>2, <2>3 DEF InLine
<1>. QED BY <1>1, <1>2, <1>3, <1>4

\* Frames that leave keep the line.
LEMMA Thinned ==
    ASSUME NEW S, NEW T, InLine(S), \A d \in 1 .. 7 : Numbers(T[d]) \subseteq Numbers(S[d])
    PROVE  InLine(T)
  BY DEF InLine

\* The first frame of a queue leaves the line.
LEMMA LineDropHolds ==
    ASSUME NEW cl, NEW S, NEW T, Lined(cl, S), NEW c \in 1 .. 7, NEW f, Pulled(S, T, c, f)
    PROVE  /\ Lined(cl, T) /\ f \in AnyFrame /\ Known(cl, f)
           /\ c \in {3, 4, 7} => f.seq # NONE
           /\ Numbers(S[c]) = Own(f) \cup Numbers(T[c])
           /\ Sound(S[c]) = Fit(f) \cup Sound(T[c])
           /\ \A x \in Own(f), y \in Numbers(T[c]) : x < y
<1>1. Queue(cl, c, S[c])
  BY DEF Lined
<1>2. /\ f \in AnyFrame /\ f \in Elements(S[c]) /\ T[c] \in Seq(AnyFrame)
      /\ Elements(T[c]) \subseteq Elements(S[c]) /\ Ascending(T[c])
      /\ Numbers(S[c]) = Own(f) \cup Numbers(T[c])
      /\ Sound(S[c]) = Fit(f) \cup Sound(T[c])
      /\ \A x \in Own(f), y \in Numbers(T[c]) : x < y
  <2>1. S[c] \in Seq(AnyFrame) /\ Ascending(S[c])
    BY <1>1 DEF Queue
  <2>. QED BY <2>1, TailQueueHolds DEF Pulled
<1>3. Queue(cl, c, T[c])
  BY <1>1, <1>2 DEF Queue
<1>4. \A d \in 1 .. 7 : Queue(cl, d, T[d])
  BY <1>3 DEF Lined, Pulled, SameBut
<1>5. \A d \in 1 .. 7 : Numbers(T[d]) \subseteq Numbers(S[d])
  BY <1>2 DEF Pulled, SameBut
<1>6. InLine(T)
  BY <1>5, Thinned DEF Lined
<1>7. Known(cl, f) /\ (c \in {3, 4, 7} => f.seq # NONE)
  BY <1>1, <1>2 DEF Queue
<1>. QED BY <1>2, <1>4, <1>6, <1>7 DEF Lined

\* A frame that moves to the next queue keeps the line.
LEMMA LineMoveHolds ==
    ASSUME NEW cl, NEW S, NEW T, Lined(cl, S), NEW c \in 1 .. 6, NEW e, e = c + 1,
           NEW h, NEW f \in AnyFrame,
           Moved(S, T, c, e, h, f), Known(cl, f), f.seq = h.seq, f.seq # NONE
    PROVE  Lined(cl, T) /\ MovedSets(S, T, c, e, h, f)
<1>0. e \in 1 .. 7 /\ c < e /\ e # c
  OBVIOUS
<1>1. Queue(cl, c, S[c]) /\ Queue(cl, e, S[e])
  BY <1>0 DEF Lined
<1>2. Own(f) = {f.seq} /\ Own(h) = {f.seq}
  BY DEF Own
<1>3. /\ T[e] \in Seq(AnyFrame)
      /\ Elements(T[e]) \subseteq Elements(S[e]) /\ Ascending(T[e])
      /\ Numbers(S[e]) = Own(h) \cup Numbers(T[e])
      /\ Sound(S[e]) = Fit(h) \cup Sound(T[e])
      /\ \A x \in Own(h), y \in Numbers(T[e]) : x < y
  <2>1. S[e] \in Seq(AnyFrame) /\ Ascending(S[e])
    BY <1>1 DEF Queue
  <2>. QED BY <2>1, TailQueueHolds DEF Moved
<1>4. \A x \in Numbers(S[c]), y \in Numbers(S[e]) : x < y
  BY <1>0 DEF Lined, InLine
<1>5. \A x \in Numbers(S[c]), y \in Own(f) : x < y
  BY <1>2, <1>3, <1>4
<1>6. /\ T[c] \in Seq(AnyFrame) /\ Ascending(T[c])
      /\ Elements(T[c]) = Elements(S[c]) \cup {f}
      /\ Numbers(T[c]) = Numbers(S[c]) \cup Own(f)
      /\ Sound(T[c]) = Sound(S[c]) \cup Fit(f)
  <2>1. S[c] \in Seq(AnyFrame) /\ Ascending(S[c])
    BY <1>1 DEF Queue
  <2>. QED BY <1>5, <2>1, AppendQueue DEF Moved
<1>7. Queue(cl, c, T[c])
  BY <1>1, <1>6 DEF Queue
<1>8. Queue(cl, e, T[e])
  BY <1>1, <1>3 DEF Queue
<1>9. \A d \in 1 .. 7 : Queue(cl, d, T[d])
  <2>. TAKE d \in 1 .. 7
  <2>1. CASE d # c /\ d # e
    BY <2>1 DEF Lined, Moved, SameBut
  <2>. QED BY <1>7, <1>8, <2>1
<1>10. InLine(T)
  <2>1. \A d \in 1 .. 7 : d # c => Numbers(T[d]) \subseteq Numbers(S[d])
    <3>. TAKE d \in 1 .. 7
    <3>1. CASE d = e
      BY <1>3, <3>1
    <3>2. CASE d # e
      BY <3>2 DEF Moved, SameBut
    <3>. QED BY <3>1, <3>2
  <2>2. Numbers(T[c]) \subseteq Numbers(S[c]) \cup Numbers(S[e])
    BY <1>2, <1>3, <1>6
  <2>3. \A x \in Numbers(T[c]), y \in Numbers(T[e]) : x < y
    BY <1>2, <1>3, <1>4, <1>6
  <2>. QED BY <2>1, <2>2, <2>3, Regroup DEF Lined
<1>. QED BY <1>2, <1>3, <1>6, <1>9, <1>10 DEF Lined, MovedSets

\* The frames of a flush keep the line.
LEMMA LineJoin ==
    ASSUME NEW cl, NEW S, NEW T, Lined(cl, S), NEW c \in {3}, NEW e, e = c + 1, NEW k, Joined(S, T, c, e, k)
    PROVE  Lined(cl, T) /\ JoinedSets(S, T, c, e, k)
<1>. DEFINE a == SubSeq(S[e], 1, k)
            b == SubSeq(S[e], k + 1, Len(S[e]))
<1>. k \in 0 .. Len(S[e])
  BY DEF Joined
<1>0. e \in 1 .. 7 /\ c \in 1 .. 7 /\ c < e /\ e # c /\ c \in 1 .. 6
  OBVIOUS
<1>1. Queue(cl, c, S[c]) /\ Queue(cl, e, S[e])
  BY <1>0 DEF Lined
<1>2. /\ a \in Seq(AnyFrame) /\ b \in Seq(AnyFrame) /\ Ascending(a) /\ Ascending(b)
      /\ Elements(S[e]) = Elements(a) \cup Elements(b)
      /\ Numbers(S[e]) = Numbers(a) \cup Numbers(b)
      /\ \A x \in Numbers(a), y \in Numbers(b) : x < y
  <2>1. S[e] \in Seq(AnyFrame) /\ Ascending(S[e])
    BY <1>1 DEF Queue
  <2>. QED BY <2>1, SplitQueue
<1>a. k = Len(S[e]) => Numbers(b) = {}
  <2>. SUFFICES ASSUME k = Len(S[e]) PROVE b = <<>>
    BY EmptyQueue, Zenon
  <2>1. Len(S[e]) \in Nat /\ S[e] \in Seq(AnyFrame)
    BY <1>1 DEF Queue
  <2>2. Len(b) = 0
    BY <2>1, SplitElements
  <2>. QED BY <1>2, <2>2
<1>3. \A x \in Numbers(S[c]), y \in Numbers(S[e]) : x < y
  BY <1>0 DEF Lined, InLine
<1>. HIDE DEF a, b
<1>4. /\ T[c] \in Seq(AnyFrame) /\ Ascending(T[c])
      /\ Elements(T[c]) = Elements(S[c]) \cup Elements(a)
      /\ Numbers(T[c]) = Numbers(S[c]) \cup Numbers(a)
  <2>1. S[c] \in Seq(AnyFrame) /\ Ascending(S[c]) /\ T[c] = S[c] \o a
    BY <1>1 DEF Queue, Joined, a
  <2>2. \A x \in Numbers(S[c]), y \in Numbers(a) : x < y
    BY <1>2, <1>3
  <2>3. /\ S[c] \o a \in Seq(AnyFrame) /\ Ascending(S[c] \o a)
        /\ Elements(S[c] \o a) = Elements(S[c]) \cup Elements(a)
        /\ Numbers(S[c] \o a) = Numbers(S[c]) \cup Numbers(a)
    <3>1. a \in Seq(AnyFrame) /\ Ascending(a)
      BY <1>2
    <3>. QED BY <3>1, <2>1, <2>2, ConcatQueue
  <2>. QED BY <2>1, <2>3
<1>5. Queue(cl, c, T[c])
  <2>1. c \in {3, 4, 7} /\ e \in {3, 4, 7}
    OBVIOUS
  <2>. QED BY <1>1, <1>2, <1>4, <2>1 DEF Queue
<1>6. Queue(cl, e, T[e]) /\ Numbers(T[e]) = {}
  BY EmptyQueue DEF Queue, Joined
<1>7. \A d \in 1 .. 7 : Queue(cl, d, T[d])
  <2>. TAKE d \in 1 .. 7
  <2>1. CASE d # c /\ d # e
    BY <2>1 DEF Lined, Joined, SameBut
  <2>. QED BY <1>5, <1>6, <2>1
<1>8. InLine(T)
  <2>1. \A d \in 1 .. 7 : d # c => Numbers(T[d]) \subseteq Numbers(S[d])
    <3>. TAKE d \in 1 .. 7
    <3>1. CASE d = e
      BY <1>6, <3>1
    <3>2. CASE d # e
      BY <3>2 DEF Joined, SameBut
    <3>. QED BY <3>1, <3>2
  <2>2. Numbers(T[c]) \subseteq Numbers(S[c]) \cup Numbers(S[e])
    BY <1>2, <1>4
  <2>3. \A x \in Numbers(T[c]), y \in Numbers(T[e]) : x < y
    BY <1>6
  <2>. QED BY <1>0, <2>1, <2>2, <2>3, Regroup DEF Lined
<1>b. Numbers(a) \cap Numbers(b) = {}
  <2>. SUFFICES ASSUME NEW x \in Numbers(a), x \in Numbers(b) PROVE FALSE
    OBVIOUS
  <2>1. x < x
    BY <1>2
  <2>2. x \in Int
    BY <1>2, NumbersTyped
  <2>. QED BY <2>1, <2>2
<1>c. Numbers(S[c]) \cap Numbers(S[e]) = {}
  <2>. SUFFICES ASSUME NEW x \in Numbers(S[c]), x \in Numbers(S[e]) PROVE FALSE
    OBVIOUS
  <2>1. x < x
    BY <1>3
  <2>2. x \in Int
    BY <1>1, NumbersTyped DEF Queue
  <2>. QED BY <2>1, <2>2
<1>9. \E L \in SUBSET Numbers(S[e]) :
                 /\ Numbers(T[c]) = Numbers(S[c]) \cup (Numbers(S[e]) \ L)
                 /\ \A x \in Numbers(S[e]) \ L, y \in L : x < y
                 /\ k = Len(S[e]) => L = {}
  <2>. Numbers(b) \in SUBSET Numbers(S[e])
    BY <1>2
  <2>. WITNESS Numbers(b) \in SUBSET Numbers(S[e])
  <2>. QED BY <1>2, <1>4, <1>a, <1>b, <1>c
<1>. QED BY <1>6, <1>7, <1>8, <1>9, Zenon DEF Lined, JoinedSets

\* A receive burst keeps the line.
LEMMA LineCut ==
    ASSUME NEW cl, NEW S, NEW T, Lined(cl, S), NEW c \in {1, 5}, NEW e, e = c + 1, NEW k, Parted(S, T, c, e, k)
    PROVE  Lined(cl, T) /\ PartedSets(S, T, c, e)
<1>0. e \in 1 .. 7 /\ c \in 1 .. 7 /\ c < e /\ e # c /\ c \in 1 .. 6
  OBVIOUS
<1>1. Queue(cl, e, S[e])
  BY <1>0 DEF Lined
<1>2. /\ T[c] \in Seq(AnyFrame) /\ T[e] \in Seq(AnyFrame) /\ Ascending(T[c]) /\ Ascending(T[e])
      /\ Elements(S[e]) = Elements(T[c]) \cup Elements(T[e])
      /\ Numbers(S[e]) = Numbers(T[c]) \cup Numbers(T[e])
      /\ Sound(S[e]) = Sound(T[c]) \cup Sound(T[e])
      /\ \A x \in Numbers(T[c]), y \in Numbers(T[e]) : x < y
  <2>1. S[e] \in Seq(AnyFrame) /\ Ascending(S[e])
    BY <1>1 DEF Queue
  <2>. QED BY <2>1, SplitQueue DEF Parted
<1>3. Queue(cl, c, T[c]) /\ Queue(cl, e, T[e])
  BY <1>1, <1>2 DEF Queue
<1>4. \A d \in 1 .. 7 : Queue(cl, d, T[d])
  <2>. TAKE d \in 1 .. 7
  <2>1. CASE d # c /\ d # e
    BY <2>1 DEF Lined, Parted, SameBut
  <2>. QED BY <1>3, <2>1
<1>5. InLine(T)
  <2>1. \A d \in 1 .. 7 : d # c => Numbers(T[d]) \subseteq Numbers(S[d])
    <3>. TAKE d \in 1 .. 7
    <3>1. CASE d = e
      BY <1>2, <3>1
    <3>2. CASE d # e
      BY <3>2 DEF Parted, SameBut
    <3>. QED BY <3>1, <3>2
  <2>2. Numbers(T[c]) \subseteq Numbers(S[c]) \cup Numbers(S[e])
    BY <1>2
  <2>. QED BY <1>0, <1>2, <2>1, <2>2, Regroup DEF Lined
<1>. QED BY <1>2, <1>4, <1>5, EmptyQueue DEF Lined, Parted, PartedSets

\* A frame of another station keeps the line, and adds no number to it.
LEMMA LineForeign ==
    ASSUME NEW cl, NEW S, NEW T, Lined(cl, S), NEW c \in {2, 6},
           NEW f \in AnyFrame, Known(cl, f), f.seq = NONE, Added(S, T, c, f)
    PROVE  Lined(cl, T) /\ Numbers(T[c]) = Numbers(S[c]) /\ Sound(T[c]) = Sound(S[c])
<1>1. Queue(cl, c, S[c])
  BY DEF Lined
<1>2. Own(f) = {} /\ Fit(f) = {}
  BY DEF Own, Fit
<1>3. /\ T[c] \in Seq(AnyFrame) /\ Ascending(T[c])
      /\ Elements(T[c]) = Elements(S[c]) \cup {f}
      /\ Numbers(T[c]) = Numbers(S[c]) /\ Sound(T[c]) = Sound(S[c])
  <2>1. S[c] \in Seq(AnyFrame) /\ Ascending(S[c])
    BY <1>1 DEF Queue
  <2>2. /\ Append(S[c], f) \in Seq(AnyFrame) /\ Ascending(Append(S[c], f))
        /\ Elements(Append(S[c], f)) = Elements(S[c]) \cup {f}
        /\ Numbers(Append(S[c], f)) = Numbers(S[c]) \cup Own(f)
        /\ Sound(Append(S[c], f)) = Sound(S[c]) \cup Fit(f)
    BY <1>2, <2>1, AppendQueue, Zenon
  <2>. QED BY <1>2, <2>2 DEF Added
<1>4. Queue(cl, c, T[c])
  <2>1. c \notin {3, 4, 7}
    OBVIOUS
  <2>. QED BY <1>1, <1>3, <2>1 DEF Queue
<1>5. \A d \in 1 .. 7 : Queue(cl, d, T[d])
  BY <1>4, Zenon DEF Lined, Added, SameBut
<1>6. \A d \in 1 .. 7 : Numbers(T[d]) \subseteq Numbers(S[d])
  BY <1>3, Zenon DEF Added, SameBut
<1>. QED BY <1>3, <1>5, <1>6, Thinned DEF Lined

\* Sound numbers are numbers.
LEMMA SoundNumbers == ASSUME NEW q \in Seq(AnyFrame) PROVE Sound(q) \subseteq Numbers(q)
  BY NumbersOfHolds DEF Sound

\* The queues of a line.
LEMMA LinedQueueHolds ==
    ASSUME NEW cl, NEW S, Lined(cl, S), NEW d \in 1 .. 7
    PROVE  /\ S[d] \in Seq(AnyFrame) /\ Ascending(S[d]) /\ Sound(S[d]) \subseteq Numbers(S[d])
           /\ Numbers(S[d]) \subseteq Int
  BY SoundNumbers, NumbersTyped DEF Lined, Queue

\* The intact frames under way out are under way out.
LEMMA GoodOutHolds ==
    ASSUME NEW cl, NEW S, Lined(cl, S)
    PROVE  GoodOf(S) \subseteq OutOf(S)
<1>1. 5 \in 1 .. 7 /\ 6 \in 1 .. 7 /\ 7 \in 1 .. 7
  OBVIOUS
<1>. QED BY <1>1, LinedQueueHolds, Zenon DEF GoodOf, OutOf

\* A frame leaves the queues.
LEMMA DropSetsHolds ==
    ASSUME NEW cl, NEW S, NEW T, Lined(cl, S), NEW c \in 1 .. 7, NEW f, Pulled(S, T, c, f)
    PROVE  /\ c <= 4 => /\ HomeOf(S) = Own(f) \cup HomeOf(T)
                        /\ OutOf(T) = OutOf(S) /\ GoodOf(T) = GoodOf(S)
           /\ c > 4 => /\ HomeOf(T) = HomeOf(S)
                       /\ OutOf(S) = Own(f) \cup OutOf(T)
                       /\ GoodOf(S) = Fit(f) \cup GoodOf(T)
<1>a. /\ Lined(cl, T) /\ f \in AnyFrame /\ Known(cl, f)
      /\ c \in {3, 4, 7} => f.seq # NONE
      /\ Numbers(S[c]) = Own(f) \cup Numbers(T[c])
      /\ Sound(S[c]) = Fit(f) \cup Sound(T[c])
      /\ \A x \in Own(f), y \in Numbers(T[c]) : x < y
  BY LineDropHolds, Zenon
<1>1. /\ Numbers(S[c]) = Own(f) \cup Numbers(T[c])
      /\ Sound(S[c]) = Fit(f) \cup Sound(T[c])
  BY <1>a, Zenon
<1>2. CASE c = 1
  BY <1>1, <1>2 DEF HomeOf, OutOf, GoodOf, Pulled, SameBut
<1>3. CASE c = 2
  BY <1>1, <1>3 DEF HomeOf, OutOf, GoodOf, Pulled, SameBut
<1>4. CASE c = 3
  BY <1>1, <1>4 DEF HomeOf, OutOf, GoodOf, Pulled, SameBut
<1>5. CASE c = 4
  BY <1>1, <1>5 DEF HomeOf, OutOf, GoodOf, Pulled, SameBut
<1>6. CASE c = 5
  BY <1>1, <1>6 DEF HomeOf, OutOf, GoodOf, Pulled, SameBut
<1>7. CASE c = 6
  BY <1>1, <1>7 DEF HomeOf, OutOf, GoodOf, Pulled, SameBut
<1>8. CASE c = 7
  BY <1>1, <1>8 DEF HomeOf, OutOf, GoodOf, Pulled, SameBut
<1>. QED BY <1>2, <1>3, <1>4, <1>5, <1>6, <1>7, <1>8

\* The first frame in line is the first of those under way home.
LEMMA FirstHomeHolds ==
    ASSUME NEW cl, NEW S, NEW T, Lined(cl, S), NEW f, Pulled(S, T, 1, f), f.seq # NONE
    PROVE  TakenHome(S, T, f.seq)
<1>. DEFINE s == f.seq
<1>1. Own(f) = {s} /\ s \in Own(f)
  BY DEF Own
<1>2. 1 \in 1 .. 7 /\ 2 \in 1 .. 7 /\ 3 \in 1 .. 7 /\ 4 \in 1 .. 7
  OBVIOUS
<1>3. /\ HomeOf(S) = Own(f) \cup HomeOf(T)
      /\ OutOf(T) = OutOf(S) /\ GoodOf(T) = GoodOf(S)
  BY <1>2, DropSetsHolds
<1>4. /\ Numbers(S[1]) = Own(f) \cup Numbers(T[1])
      /\ \A x \in Own(f), y \in Numbers(T[1]) : x < y
      /\ Lined(cl, T)
  BY <1>2, LineDropHolds
<1>5. \A d \in 2 .. 4 : \A y \in Numbers(S[d]) : s < y
  <2>. TAKE d \in 2 .. 4
  <2>1. d \in 1 .. 7 /\ 1 < d
    OBVIOUS
  <2>2. s \in Numbers(S[1])
    BY <1>1, <1>4
  <2>. QED BY <1>2, <2>1, <2>2 DEF Lined, InLine
<1>6. \A y \in HomeOf(T) : s < y
  <2>1. 2 \in 2 .. 4 /\ 3 \in 2 .. 4 /\ 4 \in 2 .. 4
    OBVIOUS
  <2>2. T[2] = S[2] /\ T[3] = S[3] /\ T[4] = S[4]
    BY <1>2 DEF Pulled, SameBut
  <2>. QED BY <1>1, <1>4, <1>5, <2>1, <2>2 DEF HomeOf
<1>7. HomeOf(T) \subseteq Int /\ s \in Int
  <2>1. f \in AnyFrame
    BY <1>2, LineDropHolds, Zenon
  <2>2. s \in Int
    BY <2>1 DEF AnyFrame
  <2>3. HomeOf(T) \subseteq Int
    BY <1>2, <1>4, LinedQueueHolds DEF HomeOf
  <2>. QED BY <2>2, <2>3
<1>. HIDE DEF s
<1>8. s \notin HomeOf(T)
  BY <1>6, <1>7
<1>9. \A x \in HomeOf(S) : s <= x
  BY <1>1, <1>3, <1>6, <1>7
<1>10. HomeOf(T) = HomeOf(S) \ {s} /\ s \in HomeOf(S)
  BY <1>1, <1>3, <1>8
<1>. QED BY <1>3, <1>9, <1>10 DEF s, TakenHome

\* The first frame in the mirror's burst is the first of those under way out.
LEMMA FirstOutHolds ==
    ASSUME NEW cl, NEW S, NEW T, Lined(cl, S), NEW f, Pulled(S, T, 5, f), f.seq # NONE
    PROVE  TakenOut(S, T, f.seq) /\ (f.seq \in GoodOf(S) <=> f.pay)
<1>. DEFINE s == f.seq
<1>1. Own(f) = {s} /\ s \in Own(f) /\ Fit(f) = IF f.pay THEN {s} ELSE {}
  BY DEF Own, Fit
<1>2. 5 \in 1 .. 7 /\ 6 \in 1 .. 7 /\ 7 \in 1 .. 7 /\ 5 > 4
  OBVIOUS
<1>3. /\ OutOf(S) = Own(f) \cup OutOf(T) /\ GoodOf(S) = Fit(f) \cup GoodOf(T)
      /\ HomeOf(T) = HomeOf(S)
  BY <1>2, DropSetsHolds
<1>4. /\ Numbers(S[5]) = Own(f) \cup Numbers(T[5])
      /\ \A x \in Own(f), y \in Numbers(T[5]) : x < y
      /\ Lined(cl, T) /\ f \in AnyFrame
  BY <1>2, LineDropHolds
<1>5. \A d \in 6 .. 7 : \A y \in Numbers(S[d]) : s < y
  <2>. TAKE d \in 6 .. 7
  <2>1. d \in 1 .. 7 /\ 5 < d
    OBVIOUS
  <2>2. s \in Numbers(S[5])
    BY <1>1, <1>4
  <2>. QED BY <1>2, <2>1, <2>2 DEF Lined, InLine
<1>6. \A y \in OutOf(T) : s < y
  <2>1. 6 \in 6 .. 7 /\ 7 \in 6 .. 7
    OBVIOUS
  <2>2. T[6] = S[6] /\ T[7] = S[7]
    BY <1>2 DEF Pulled, SameBut
  <2>. QED BY <1>1, <1>4, <1>5, <2>1, <2>2 DEF OutOf
<1>7. OutOf(T) \subseteq Int /\ s \in Int
  <2>2. s \in Int
    BY <1>4 DEF AnyFrame
  <2>3. OutOf(T) \subseteq Int
    BY <1>2, <1>4, LinedQueueHolds DEF OutOf
  <2>. QED BY <2>2, <2>3
<1>a. GoodOf(T) \subseteq OutOf(T)
  BY <1>4, GoodOutHolds
<1>. HIDE DEF s
<1>8. s \notin OutOf(T)
  BY <1>6, <1>7
<1>9. \A x \in OutOf(S) : s <= x
  BY <1>1, <1>3, <1>6, <1>7
<1>10. OutOf(T) = OutOf(S) \ {s} /\ s \in OutOf(S)
  BY <1>1, <1>3, <1>8
<1>b. s \notin GoodOf(T)
  BY <1>8, <1>a
<1>11. GoodOf(T) = GoodOf(S) \ {s}
  BY <1>1, <1>3, <1>b
<1>12. s \in GoodOf(S) <=> f.pay
  BY <1>1, <1>3, <1>b
<1>. QED BY <1>3, <1>9, <1>10, <1>11, <1>12 DEF s, TakenOut

\* A delivery on the way home changes no set.
LEMMA MoveHomeHolds ==
    ASSUME NEW cl, NEW S, NEW T, Lined(cl, S), NEW h, NEW f \in AnyFrame,
           Moved(S, T, 2, 3, h, f), Known(cl, f), f.seq = h.seq, f.seq # NONE
    PROVE  Lined(cl, T) /\ SameSets(S, T)
<1>. DEFINE c == 2
            e == 3
<1>0. c \in 1 .. 6 /\ e = c + 1
  OBVIOUS
<1>. HIDE DEF c, e
<1>1. Moved(S, T, c, e, h, f)
  BY DEF c, e
<1>2. Lined(cl, T) /\ MovedSets(S, T, c, e, h, f)
  BY <1>0, <1>1, LineMoveHolds
<1>3. Numbers(T[c]) = Numbers(S[c]) \cup {f.seq}
  BY <1>2 DEF MovedSets
<1>4. Numbers(S[e]) = {f.seq} \cup Numbers(T[e])
  BY <1>2 DEF MovedSets
<1>5. \A d \in {1, 4, 5, 6, 7} : T[d] = S[d]
  BY DEF Moved, SameBut
<1>6. Numbers(T[2]) = Numbers(S[2]) \cup {f.seq} /\ Numbers(S[3]) = {f.seq} \cup Numbers(T[3])
  BY <1>0, <1>3, <1>4 DEF c, e
<1>7. SameSets(S, T)
  BY <1>5, <1>6 DEF SameSets, HomeOf, OutOf, GoodOf
<1>. QED BY <1>2, <1>7

\* A delivery on the way out.
LEMMA MoveOutHolds ==
    ASSUME NEW cl, NEW S, NEW T, Lined(cl, S), NEW h, NEW f \in AnyFrame,
           Moved(S, T, 6, 7, h, f), Known(cl, f), f.seq = h.seq, f.seq # NONE, f.pay => h.pay
    PROVE  Lined(cl, T) /\ Crossed(S, T, h, f)
<1>. DEFINE c == 6
            e == 7
<1>0. c \in 1 .. 6 /\ e = c + 1
  OBVIOUS
<1>. HIDE DEF c, e
<1>1. Moved(S, T, c, e, h, f)
  BY DEF c, e
<1>2. Lined(cl, T) /\ MovedSets(S, T, c, e, h, f)
  BY <1>0, <1>1, LineMoveHolds
<1>3. Numbers(T[c]) = Numbers(S[c]) \cup {f.seq}
  BY <1>2 DEF MovedSets
<1>4. Numbers(S[e]) = {f.seq} \cup Numbers(T[e])
  BY <1>2 DEF MovedSets
<1>a. Sound(T[c]) = Sound(S[c]) \cup Fit(f)
  BY <1>2 DEF MovedSets
<1>b. Sound(S[e]) = Fit(h) \cup Sound(T[e])
  BY <1>2 DEF MovedSets
<1>5. \A d \in {1, 2, 3, 4, 5} : T[d] = S[d]
  BY DEF Moved, SameBut
<1>6. Numbers(T[6]) = Numbers(S[6]) \cup {f.seq} /\ Numbers(S[7]) = {f.seq} \cup Numbers(T[7])
  BY <1>0, <1>3, <1>4 DEF c, e
<1>7. HomeOf(T) = HomeOf(S) /\ OutOf(T) = OutOf(S)
  BY <1>5, <1>6 DEF HomeOf, OutOf
<1>8. Sound(T[6]) = Sound(S[6]) \cup Fit(f) /\ Sound(S[7]) = Fit(h) \cup Sound(T[7])
  BY <1>0, <1>a, <1>b DEF c, e
<1>9. /\ Fit(f) \subseteq Fit(h) /\ Fit(h) \subseteq {f.seq}
      /\ (h.pay => f.pay) => Fit(f) = Fit(h)
  BY DEF Fit, Own
<1>10. T[5] = S[5]
  BY <1>5
<1>11. /\ GoodOf(T) \subseteq GoodOf(S) /\ GoodOf(S) \subseteq GoodOf(T) \cup {f.seq}
       /\ (h.pay => f.pay) => GoodOf(T) = GoodOf(S)
  BY <1>8, <1>9, <1>10 DEF GoodOf
<1>. QED BY <1>2, <1>7, <1>11 DEF Crossed

\* A receive burst changes no set.
LEMMA PartSetsHolds ==
    ASSUME NEW cl, NEW S, NEW T, Lined(cl, S), NEW c \in {1, 5}, NEW e, e = c + 1,
           NEW k, Parted(S, T, c, e, k)
    PROVE  Lined(cl, T) /\ SameSets(S, T)
<1>1. Lined(cl, T) /\ PartedSets(S, T, c, e)
  BY LineCut
<1>2. Numbers(S[c]) = {} /\ Sound(S[c]) = {}
  BY <1>1 DEF PartedSets
<1>3. Numbers(S[e]) = Numbers(T[c]) \cup Numbers(T[e])
  BY <1>1 DEF PartedSets
<1>4. Sound(S[e]) = Sound(T[c]) \cup Sound(T[e])
  BY <1>1 DEF PartedSets
<1>5. CASE c = 1
  <2>1. \A d \in {3, 4, 5, 6, 7} : T[d] = S[d]
    BY <1>5 DEF Parted, SameBut
  <2>2. Numbers(S[1]) = {} /\ Numbers(S[2]) = Numbers(T[1]) \cup Numbers(T[2])
    BY <1>2, <1>3, <1>5
  <2>. QED BY <1>1, <2>1, <2>2 DEF SameSets, HomeOf, OutOf, GoodOf
<1>6. CASE c = 5
  <2>1. \A d \in {1, 2, 3, 4, 7} : T[d] = S[d]
    BY <1>6 DEF Parted, SameBut
  <2>2. Numbers(S[5]) = {} /\ Numbers(S[6]) = Numbers(T[5]) \cup Numbers(T[6])
    BY <1>2, <1>3, <1>6
  <2>3. Sound(S[5]) = {} /\ Sound(S[6]) = Sound(T[5]) \cup Sound(T[6])
    BY <1>2, <1>4, <1>6
  <2>. QED BY <1>1, <2>1, <2>2, <2>3 DEF SameSets, HomeOf, OutOf, GoodOf
<1>. QED BY <1>5, <1>6

\* A frame of another station changes no set.
LEMMA AddSetsHolds ==
    ASSUME NEW cl, NEW S, NEW T, Lined(cl, S), NEW c \in {2, 6},
           NEW f \in AnyFrame, Known(cl, f), f.seq = NONE, Added(S, T, c, f)
    PROVE  Lined(cl, T) /\ SameSets(S, T)
<1>1. Lined(cl, T)
  BY LineForeign
<1>2. Numbers(T[c]) = Numbers(S[c])
  BY LineForeign
<1>3. Sound(T[c]) = Sound(S[c])
  BY LineForeign
<1>4. \A d \in 1 .. 7 : Numbers(T[d]) = Numbers(S[d]) /\ Sound(T[d]) = Sound(S[d])
  BY <1>2, <1>3, Zenon DEF Added, SameBut
<1>. QED BY <1>1, <1>4 DEF SameSets, HomeOf, OutOf, GoodOf

\* The mirror's buffer is sent; what the NIC refuses is the end of the way home.
LEMMA JoinSetsHolds ==
    ASSUME NEW cl, NEW S, NEW T, Lined(cl, S), NEW k, Joined(S, T, 3, 4, k)
    PROVE  /\ Lined(cl, T) /\ HomeOf(T) \subseteq HomeOf(S)
           /\ OutOf(T) = OutOf(S) /\ GoodOf(T) = GoodOf(S)
           /\ \A x \in HomeOf(S) \ HomeOf(T), z \in HomeOf(T) : z < x
           /\ k = Len(S[4]) => HomeOf(T) = HomeOf(S)
<1>. DEFINE c == 3
            e == 4
<1>0. c \in {3} /\ e = c + 1
  OBVIOUS
<1>. HIDE DEF c, e
<1>1. Joined(S, T, c, e, k)
  BY DEF c, e
<1>2. Lined(cl, T) /\ JoinedSets(S, T, c, e, k)
  BY <1>0, <1>1, LineJoin
<1>3. \E L \in SUBSET Numbers(S[e]) :
                 /\ Numbers(T[c]) = Numbers(S[c]) \cup (Numbers(S[e]) \ L)
                 /\ \A x \in Numbers(S[e]) \ L, y \in L : x < y
                 /\ k = Len(S[e]) => L = {}
  BY <1>2 DEF JoinedSets
<1>4. Numbers(T[e]) = {}
  BY <1>2 DEF JoinedSets
<1>5. PICK L \in SUBSET Numbers(S[4]) :
                 /\ Numbers(T[3]) = Numbers(S[3]) \cup (Numbers(S[4]) \ L)
                 /\ \A x \in Numbers(S[4]) \ L, y \in L : x < y
                 /\ k = Len(S[4]) => L = {}
  BY <1>0, <1>3 DEF c, e
<1>6. Numbers(T[4]) = {}
  BY <1>4 DEF e
<1>7. T[1] = S[1] /\ T[2] = S[2] /\ T[5] = S[5] /\ T[6] = S[6] /\ T[7] = S[7]
  BY DEF Joined, SameBut
<1>8. OutOf(T) = OutOf(S) /\ GoodOf(T) = GoodOf(S)
  BY <1>7 DEF OutOf, GoodOf
<1>9. /\ HomeOf(T) \subseteq HomeOf(S) /\ HomeOf(S) \ HomeOf(T) \subseteq L
      /\ HomeOf(T) = Numbers(S[1]) \cup Numbers(S[2]) \cup Numbers(S[3]) \cup (Numbers(S[4]) \ L)
  BY <1>5, <1>6, <1>7 DEF HomeOf
<1>10. \A d \in 1 .. 3 : \A z \in Numbers(S[d]), x \in L : z < x
  <2>. TAKE d \in 1 .. 3
  <2>1. d \in 1 .. 7 /\ d < 4 /\ 4 \in 1 .. 7
    OBVIOUS
  <2>. QED BY <2>1 DEF Lined, InLine
<1>11. \A z \in HomeOf(T), x \in L : z < x
  <2>1. 1 \in 1 .. 3 /\ 2 \in 1 .. 3 /\ 3 \in 1 .. 3
    OBVIOUS
  <2>. QED BY <1>5, <1>9, <1>10, <2>1
<1>12. \A x \in HomeOf(S) \ HomeOf(T), z \in HomeOf(T) : z < x
  BY <1>9, <1>11
<1>13. k = Len(S[4]) => HomeOf(T) = HomeOf(S)
  BY <1>5, <1>9 DEF HomeOf
<1>. QED BY <1>2, <1>8, <1>9, <1>12, <1>13

\* The frames of a round are the last under way out.
LEMMA NewSetsHolds ==
    ASSUME NEW cl, NEW S, NEW T, Lined(cl, S), NEW x \in Nat, NEW k \in Nat, NEW p,
           Fresh(cl, S, T, x, k, p), \A y \in HomeOf(S) \cup OutOf(S) : y < x
    PROVE  /\ Lined(cl, T) /\ HomeOf(T) = HomeOf(S)
           /\ OutOf(T) = OutOf(S) \cup (x .. x + k - 1)
           /\ GoodOf(T) = GoodOf(S) \cup (x .. x + k - 1)
<1>0. 7 \in 1 .. 7
  OBVIOUS
<1>1. Queue(cl, 7, S[7])
  BY <1>0 DEF Lined
<1>2. /\ p \in Seq(AnyFrame) /\ Ascending(p) /\ Numbers(p) = x .. x + k - 1 /\ Sound(p) = Numbers(p)
      /\ \A f \in Elements(p) : Known(cl, f) /\ f.seq # NONE
      /\ T[7] = S[7] \o p
  BY DEF Fresh
<1>3. \A d \in 1 .. 6 : T[d] = S[d]
  BY DEF Fresh, SameBut
<1>4. \A d \in 1 .. 7 : Numbers(S[d]) \subseteq Int /\ \A y \in Numbers(S[d]) : y < x
  <2>. TAKE d \in 1 .. 7
  <2>1. Numbers(S[d]) \subseteq HomeOf(S) \cup OutOf(S)
    <3>1. d = 1 \/ d = 2 \/ d = 3 \/ d = 4 \/ d = 5 \/ d = 6 \/ d = 7
      OBVIOUS
    <3>. QED BY <3>1 DEF HomeOf, OutOf
  <2>. QED BY <2>1, LinedQueueHolds
<1>5. \A z \in Numbers(p) : z \in Int /\ x <= z
  BY <1>2
<1>6. /\ S[7] \o p \in Seq(AnyFrame) /\ Ascending(S[7] \o p)
      /\ Elements(S[7] \o p) = Elements(S[7]) \cup Elements(p)
      /\ Numbers(S[7] \o p) = Numbers(S[7]) \cup Numbers(p)
      /\ Sound(S[7] \o p) = Sound(S[7]) \cup Sound(p)
  <2>1. S[7] \in Seq(AnyFrame) /\ Ascending(S[7])
    BY <1>1 DEF Queue
  <2>2. \A y \in Numbers(S[7]), z \in Numbers(p) : y < z
    BY <1>0, <1>4, <1>5
  <2>. QED BY <1>2, <2>1, <2>2, ConcatQueue, Zenon
<1>7. Queue(cl, 7, T[7])
  <2>1. \A f \in Elements(T[7]) : Known(cl, f) /\ f.seq # NONE
    <3>1. \A f \in Elements(S[7]) : Known(cl, f) /\ f.seq # NONE
      BY <1>1 DEF Queue
    <3>. QED BY <1>2, <1>6, <3>1
  <2>. QED BY <1>2, <1>6, <2>1 DEF Queue
<1>8. \A d \in 1 .. 7 : Queue(cl, d, T[d])
  <2>. TAKE d \in 1 .. 7
  <2>1. CASE d = 7
    BY <1>7, <2>1
  <2>2. CASE d \in 1 .. 6
    BY <1>3, <2>2 DEF Lined
  <2>. QED BY <2>1, <2>2
<1>9. InLine(T)
  <2>. SUFFICES ASSUME NEW c \in 1 .. 7, NEW d \in 1 .. 7, c < d,
                       NEW y \in Numbers(T[c]), NEW z \in Numbers(T[d])
                PROVE  y < z
    BY DEF InLine
  <2>1. c \in 1 .. 6 /\ T[c] = S[c] /\ y \in Numbers(S[c])
    BY <1>3
  <2>2. CASE d = 7
    <3>1. z \in Numbers(S[7]) \/ z \in Numbers(p)
      BY <1>2, <1>6, <2>2, Zenon
    <3>2. z \in Numbers(S[7]) => y < z
      BY <1>0, <2>1, <2>2 DEF Lined, InLine
    <3>3. z \in Numbers(p) => y < z
      BY <1>4, <1>5, <2>1
    <3>. QED BY <3>1, <3>2, <3>3
  <2>3. CASE d \in 1 .. 6
    BY <1>3, <2>1, <2>3 DEF Lined, InLine
  <2>. QED BY <2>2, <2>3
<1>10. Lined(cl, T)
  BY <1>8, <1>9 DEF Lined
<1>11. T[1] = S[1] /\ T[2] = S[2] /\ T[3] = S[3] /\ T[4] = S[4] /\ T[5] = S[5] /\ T[6] = S[6]
  BY <1>3
<1>12. HomeOf(T) = HomeOf(S)
  BY <1>11 DEF HomeOf
<1>13. OutOf(T) = OutOf(S) \cup Numbers(p)
  BY <1>2, <1>6, <1>11 DEF OutOf
<1>14. GoodOf(T) = GoodOf(S) \cup Numbers(p)
  BY <1>2, <1>6, <1>11 DEF GoodOf
<1>. QED BY <1>2, <1>10, <1>12, <1>13, <1>14
-----------------------------------------------------------------------------
(* The rules of the line *)

\* The rules that FrameRules states about the line hold.
LEMMA LineRulesHold ==
    /\ NumbersOf /\ TailQueue /\ LineDrop /\ LineMove /\ LinedQueue /\ GoodOut
    /\ DropSets /\ FirstHome /\ FirstOut /\ MoveHome /\ MoveOut /\ PartSets
    /\ AddSets /\ JoinSets /\ NewSets
<1>1. NumbersOf
  BY NumbersOfHolds DEF NumbersOf
<1>2. TailQueue
  BY TailQueueHolds DEF TailQueue
<1>3. LineDrop
  BY LineDropHolds, Zenon DEF LineDrop
<1>4. LineMove
  <2>. USE DEF LineMove
  <2>. TAKE cl, S, T, c, e, h, f
  <2>. HAVE /\ Lined(cl, S) /\ c \in 1 .. 6 /\ e = c + 1 /\ f \in AnyFrame
            /\ Moved(S, T, c, e, h, f) /\ Known(cl, f) /\ f.seq = h.seq /\ f.seq # NONE
  <2>. QED BY Zenon, LineMoveHolds
<1>5. LinedQueue
  BY LinedQueueHolds, Zenon DEF LinedQueue
<1>6. GoodOut
  BY GoodOutHolds DEF GoodOut
<1>7. DropSets
  BY DropSetsHolds DEF DropSets
<1>8. FirstHome
  BY FirstHomeHolds DEF FirstHome
<1>9. FirstOut
  BY FirstOutHolds DEF FirstOut
<1>10. MoveHome
  BY MoveHomeHolds DEF MoveHome
<1>11. MoveOut
  BY MoveOutHolds DEF MoveOut
<1>12. PartSets
  BY PartSetsHolds DEF PartSets
<1>13. AddSets
  BY AddSetsHolds DEF AddSets
<1>14. JoinSets
  BY JoinSetsHolds DEF JoinSets
<1>15. NewSets
  BY NewSetsHolds DEF NewSets
<1>. QED
  BY <1>1, <1>2, <1>3, <1>4, <1>5, <1>6, <1>7, <1>8, <1>9, <1>10, <1>11, <1>12,
     <1>13, <1>14, <1>15
=============================================================================

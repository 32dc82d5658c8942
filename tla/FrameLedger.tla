---------------------------- MODULE FrameLedger -----------------------------
(***************************************************************************)
(* What happens to the books of the two nodes when frames are generated,   *)
(* lost, received or measured, for every number of frames per cycle and    *)
(* every wrap of the cycle counter.                                        *)
(***************************************************************************)
EXTENDS FrameRules, TLAPS
-----------------------------------------------------------------------------
(* The numbers of frames *)

\* Quotient and remainder are what they are written as, and a number is made of them.
LEMMA DivisionIs ==
    ASSUME NEW d \in Nat, NEW r \in Nat, NEW m \in Nat, r < m
    PROVE  (d * m + r) % m = r /\ (d * m + r) \div m = d
  OBVIOUS

\* A number is its quotient times the divisor plus its remainder.
LEMMA DivisionOf ==
    ASSUME NEW x \in Nat, NEW m \in Nat, m > 0
    PROVE  x = (x \div m) * m + (x % m) /\ x % m \in 0 .. m - 1 /\ x \div m \in Nat
  OBVIOUS

\* Two numbers with the same remainder are at least the divisor apart.
LEMMA ModGapHolds ==
    ASSUME NEW u \in Nat, NEW v \in Nat, NEW m \in Nat, m > 0, u < v, u % m = v % m
    PROVE  v - u >= m
<1>1. u = (u \div m) * m + (u % m) /\ v = (v \div m) * m + (v % m)
  OBVIOUS
<1>. DEFINE d == u \div m
            e == v \div m
<1>2. d \in Nat /\ e \in Nat
  OBVIOUS
<1>3. e * m - d * m = v - u
  BY <1>1
<1>. HIDE DEF d, e
<1>4. d < e
  <2>. SUFFICES ASSUME e <= d PROVE FALSE
    BY <1>2
  <2>1. e * m <= d * m
    BY <1>2
  <2>. QED BY <1>2, <1>3, <2>1
<1>5. d * m + m <= e * m
  BY <1>2, <1>4
<1>. QED BY <1>2, <1>3, <1>5

\* What a receiver reads out of a frame is its number modulo SeqMod: the cycle
\* counter of the meta data wraps.
LEMMA ReadBackHolds ==
    ASSUME NEW q \in Nat
    PROVE  meta_data_to_sequence_counter(sequence_counter_to_meta_data(q)) = q % SeqMod
<1>. DEFINE F == FramesPerCycle
            C == CycleMod
            k == q \div F
            i == q % F
            d == k \div C
            c == k % C
<1>. F \in Nat /\ F > 0 /\ C \in Nat /\ C > 0
  BY CounterAssumption
<1>1. q = k * F + i /\ k \in Nat /\ i \in Nat /\ i < F
  BY DivisionOf
<1>2. k = d * C + c /\ d \in Nat /\ c \in Nat /\ c < C
  BY <1>1, DivisionOf
<1>3. meta_data_to_sequence_counter(sequence_counter_to_meta_data(q)) = c * F + i
  BY DEF meta_data_to_sequence_counter, sequence_counter_to_meta_data
<1>. HIDE DEF k, i, d, c
<1>4. k * F = d * (C * F) + c * F
  BY <1>1, <1>2
<1>5. C * F \in Nat /\ c * F \in Nat
  BY <1>2
<1>6. c * F + F <= C * F
  BY <1>2
<1>. HIDE DEF F, C
<1>7. q = d * (C * F) + (c * F + i)
  BY <1>1, <1>2, <1>4, <1>5
<1>8. c * F + i \in Nat /\ c * F + i < C * F
  BY <1>1, <1>5, <1>6
<1>9. q % (C * F) = c * F + i
  <2>1. PICK m \in Nat : m = C * F
    BY <1>5
  <2>2. PICK r \in Nat : r = c * F + i
    BY <1>8
  <2>3. q = d * m + r /\ r < m
    BY <1>7, <1>8, <2>1, <2>2
  <2>4. (d * m + r) % m = r
    BY <1>2, <2>3, DivisionIs
  <2>. QED BY <2>1, <2>2, <2>3, <2>4
<1>. QED BY <1>3, <1>9 DEF SeqMod, C, F

\* A round adds FramesPerCycle numbers, of which only the last can complete a
\* run of SeqMod.
LEMMA RoundOfNumbers ==
    ASSUME NEW x \in Nat, x % FramesPerCycle = 0
    PROVE  LET y == x + FramesPerCycle
           IN  /\ y % FramesPerCycle = 0
               /\ y \div SeqMod = (x \div SeqMod) + (IF y % SeqMod = 0 THEN 1 ELSE 0)
               /\ \A z \in Nat : x < z /\ z < y => z % SeqMod # 0
<1>. DEFINE F == FramesPerCycle
            C == CycleMod
            M == C * F
            d == x \div M
            r == x % M
            k == x \div F
<1>. F \in Nat /\ F > 0 /\ C \in Nat /\ C > 0
  BY CounterAssumption
<1>1. M \in Nat /\ M > 0 /\ F <= M
  OBVIOUS
<1>2. x = d * M + r /\ d \in Nat /\ r \in Nat /\ r < M
  <2>. HIDE DEF M
  <2>. QED BY <1>1, DivisionOf
<1>3. x = k * F /\ k \in Nat
  BY DivisionOf
<1>4. r + F <= M
  <2>. HIDE DEF d, r, k
  <2>1. d * M = (d * C) * F
    BY <1>2
  <2>2. d * C \in Nat
    BY <1>2
  <2>3. PICK e \in Nat : e = d * C
    BY <2>2
  <2>4. r = (k - e) * F
    BY <1>2, <1>3, <2>1, <2>3
  <2>5. k - e < C
    <3>. SUFFICES ASSUME C <= k - e PROVE FALSE
      BY <1>3, <2>3
    <3>1. C * F <= (k - e) * F
      BY <1>3, <2>3
    <3>. QED BY <1>2, <2>4, <3>1
  <2>6. (k - e) * F + F <= C * F
    BY <1>3, <2>3, <2>5
  <2>. QED BY <2>4, <2>6
<1>5. (x + F) % F = 0
  <2>1. x + F = (k + 1) * F + 0
    BY <1>3
  <2>. HIDE DEF k
  <2>. QED BY <1>3, <2>1, DivisionIs
<1>6. CASE r + F < M
  <2>. HIDE DEF M, d, r, k
  <2>1. x + F = d * M + (r + F) /\ r + F \in Nat
    BY <1>1, <1>2
  <2>2. (x + F) % M = r + F /\ (x + F) \div M = d
    BY <1>1, <1>2, <1>6, <2>1, DivisionIs
  <2>3. ASSUME NEW z \in Nat, x < z, z < x + F PROVE z % M # 0
    <3>. DEFINE j == z - x
    <3>1. j \in Nat /\ z = x + j /\ 0 < j /\ j < F
      BY <2>3
    <3>. HIDE DEF j
    <3>a. r + j \in Nat /\ r + j < M
      BY <1>1, <1>2, <1>6, <3>1
    <3>b. PICK p \in Nat : p = d * M
      BY <1>1, <1>2
    <3>c. z = p + (r + j)
      BY <1>2, <3>1, <3>b
    <3>2. z = d * M + (r + j) /\ r + j \in Nat /\ r + j < M
      BY <3>a, <3>b, <3>c
    <3>3. PICK w \in Nat : w = r + j
      BY <3>2
    <3>d. d \in Nat /\ M \in Nat /\ w < M
      BY <1>1, <1>2, <3>a, <3>3
    <3>4. (d * M + w) % M = w
      BY <3>d, DivisionIs
    <3>5. z % M = w
      BY <3>2, <3>3, <3>4
    <3>. QED BY <1>2, <3>1, <3>3, <3>5
  <2>4. r + F # 0
    BY <1>2
  <2>. QED BY <1>2, <1>5, <2>2, <2>3, <2>4 DEF SeqMod, M, d
<1>7. CASE r + F = M
  <2>. HIDE DEF M, d, r, k
  <2>1. x + F = (d + 1) * M + 0
    BY <1>1, <1>2, <1>7
  <2>2. (x + F) % M = 0 /\ (x + F) \div M = d + 1
    BY <1>1, <1>2, <2>1, DivisionIs
  <2>3. ASSUME NEW z \in Nat, x < z, z < x + F PROVE z % M # 0
    <3>. DEFINE j == z - x
    <3>1. j \in Nat /\ z = x + j /\ 0 < j /\ j < F
      BY <2>3
    <3>. HIDE DEF j
    <3>a. r + j \in Nat /\ r + j < M
      BY <1>1, <1>2, <1>7, <3>1
    <3>b. PICK p \in Nat : p = d * M
      BY <1>1, <1>2
    <3>c. z = p + (r + j)
      BY <1>2, <3>1, <3>b
    <3>2. z = d * M + (r + j) /\ r + j \in Nat /\ r + j < M
      BY <3>a, <3>b, <3>c
    <3>3. PICK w \in Nat : w = r + j
      BY <3>2
    <3>d. d \in Nat /\ M \in Nat /\ w < M
      BY <1>1, <1>2, <3>a, <3>3
    <3>4. (d * M + w) % M = w
      BY <3>d, DivisionIs
    <3>5. z % M = w
      BY <3>2, <3>3, <3>4
    <3>. QED BY <1>2, <3>1, <3>3, <3>5
  <2>. QED BY <1>2, <1>5, <2>2, <2>3 DEF SeqMod, M, d
<1>. QED
  <2>. HIDE DEF M, d, r, k
  <2>. QED BY <1>1, <1>2, <1>4, <1>6, <1>7

\* Cut(m) is never ahead of m, is m until the numbers wrap, and agrees with m modulo
\* SeqMod except just after they wrapped.
LEMMA CutNumber ==
    ASSUME NEW m \in Nat
    PROVE  /\ Cut(m) \in Nat /\ Cut(m) <= m
           /\ Cut(m + 1) = (m % SeqMod) + 1
           /\ m <= SeqMod => Cut(m) = m
           /\ (m = 0 \/ m % SeqMod # 0) => Cut(m) = m % SeqMod
<1>1. SeqMod \in Nat /\ SeqMod > 0
  BY CounterAssumption DEF SeqMod
<1>2. Cut(m + 1) = (m % SeqMod) + 1
  BY DEF Cut
<1>3. CASE m = 0
  BY <1>1, <1>2, <1>3 DEF Cut
<1>4. CASE m # 0
  <2>. DEFINE M == SeqMod
              d == (m - 1) \div M
              r == (m - 1) % M
  <2>. HIDE DEF M
  <2>1. M \in Nat /\ M > 0
    BY <1>1 DEF M
  <2>2. m - 1 = d * M + r /\ d \in Nat /\ r \in Nat /\ r < M
    BY <1>4, <2>1, DivisionOf
  <2>3. Cut(m) = r + 1
    BY <1>4 DEF Cut, M
  <2>. HIDE DEF d, r
  <2>4. r + 1 <= m
    <3>1. PICK p \in Nat : p = d * M
      BY <2>1, <2>2
    <3>. QED BY <2>2, <3>1
  <2>5. m <= M => r + 1 = m
    <3>. SUFFICES ASSUME m <= M PROVE r = m - 1
      OBVIOUS
    <3>1. (m - 1) % M = m - 1
      BY <1>4, <2>1
    <3>. QED BY <3>1 DEF r
  <2>6. m % M # 0 => r + 1 = m % M
    <3>1. m = d * M + (r + 1)
      BY <2>1, <2>2
    <3>2. CASE r + 1 < M
      BY <2>1, <2>2, <3>1, <3>2, DivisionIs
    <3>3. CASE r + 1 = M
      <4>1. m = (d + 1) * M + 0
        BY <2>1, <2>2, <3>1, <3>3
      <4>2. m % M = 0
        BY <2>1, <2>2, <4>1, DivisionIs
      <4>. QED BY <4>2
    <3>. QED BY <2>1, <2>2, <3>2, <3>3
  <2>. QED BY <1>2, <1>4, <2>2, <2>3, <2>4, <2>5, <2>6 DEF M
<1>. QED BY <1>3, <1>4
-----------------------------------------------------------------------------
(* Gaps, and Tx times that are gone *)

\* A subset of a finite set has no more elements.
LEMMA Fewer ==
    ASSUME Counting, NEW S, IsFiniteSet(S), NEW T \in SUBSET S
    PROVE  IsFiniteSet(T) /\ Cardinality(T) \in Nat /\ Cardinality(S) \in Nat
           /\ Cardinality(T) <= Cardinality(S)
  BY DEF Counting

\* One element more.
LEMMA OneMore ==
    ASSUME Counting, NEW S, IsFiniteSet(S), NEW x, NEW T, T \subseteq S \cup {x}
    PROVE  IsFiniteSet(T) /\ Cardinality(T) \in Nat /\ Cardinality(S) \in Nat
           /\ Cardinality(T) <= Cardinality(S) + 1
  BY Zenon DEF Counting

\* One element less.
LEMMA OneLess ==
    ASSUME Counting, NEW S, IsFiniteSet(S), NEW x \in S, NEW T, T \subseteq S \ {x}
    PROVE  IsFiniteSet(T) /\ Cardinality(T) \in Nat /\ Cardinality(S) \in Nat
           /\ Cardinality(T) + 1 <= Cardinality(S)
  BY DEF Counting

\* There are finitely many breaks.
LEMMA BreaksFinite ==
    ASSUME Counting, NEW tx \in Nat, NEW m, NEW U
    PROVE  IsFiniteSet(Breaks(tx, m, U)) /\ Cardinality(Breaks(tx, m, U)) \in Nat
<1>1. Breaks(tx, m, U) \subseteq 0 .. tx
  BY DEF Breaks
<1>2. IsFiniteSet(0 .. tx)
  BY DEF Counting
<1>. QED BY <1>1, <1>2, Fewer

\* A run of frames that is lost opens one gap at most.
LEMMA LoseRun ==
    ASSUME Counting, NEW tx \in Nat, NEW m \in Nat, NEW U \in SUBSET Nat, NEW V \in SUBSET U,
           \A x, y \in U \ V : \A z \in V : ~ (x < z /\ z < y)
    PROVE  Cardinality(Breaks(tx, m, V)) <= Cardinality(Breaks(tx, m, U)) + 1
<1>. DEFINE B == Breaks(tx, m, U)
            D == Breaks(tx, m, V)
<1>1. IsFiniteSet(B) /\ IsFiniteSet(D) /\ Cardinality(B) \in Nat /\ Cardinality(D) \in Nat
  BY BreaksFinite
<1>2. ASSUME NEW y \in D, y \notin B
      PROVE  y \in Nat /\ y <= tx /\ y \in V \cup {tx} /\ y - 1 \in U \ V
  BY <1>2 DEF Breaks
<1>3. ASSUME NEW y \in D, y \notin B, NEW z \in D, z \notin B, y < z
      PROVE  FALSE
  <2>1. y \in V /\ y - 1 \in U \ V /\ z - 1 \in U \ V /\ y \in Nat /\ z \in Nat
    BY <1>2, <1>3
  <2>2. y # z - 1
    BY <2>1
  <2>3. y - 1 < y /\ y < z - 1
    BY <1>3, <2>1, <2>2
  <2>. QED BY <2>1, <2>3
<1>4. CASE D \subseteq B
  BY <1>1, <1>4, Fewer
<1>5. CASE ~ (D \subseteq B)
  <2>1. PICK y \in D : y \notin B
    BY <1>5
  <2>2. D \subseteq B \cup {y}
    <3>. SUFFICES ASSUME NEW z \in D, z \notin B, z # y PROVE FALSE
      OBVIOUS
    <3>1. y \in Nat /\ z \in Nat
      BY <1>2, <2>1
    <3>. QED BY <1>3, <2>1, <3>1
  <2>. HIDE DEF B, D
  <2>3. Cardinality(D) <= Cardinality(B) + 1
    BY <1>1, <2>2, OneMore, Zenon
  <2>. QED BY <2>3 DEF B, D
<1>. QED BY <1>4, <1>5

\* A frame that a break precedes is taken out: the break remains.
LEMMA LoseBroken ==
    ASSUME Counting, NEW tx \in Nat, NEW m \in Nat, NEW U \in SUBSET Nat, NEW s \in Breaks(tx, m, U), s # tx
    PROVE  Cardinality(Breaks(tx, m, U \ {s})) <= Cardinality(Breaks(tx, m, U))
<1>. DEFINE B == Breaks(tx, m, U)
            D == Breaks(tx, m, U \ {s})
<1>1. IsFiniteSet(B) /\ IsFiniteSet(D) /\ s \in B
  BY BreaksFinite
<1>2. D \subseteq (B \ {s}) \cup {s + 1}
  BY DEF Breaks
<1>. HIDE DEF B, D
<1>3. IsFiniteSet(B \ {s}) /\ Cardinality(B \ {s}) + 1 <= Cardinality(B)
      /\ Cardinality(B \ {s}) \in Nat /\ Cardinality(B) \in Nat
  BY <1>1, OneLess
<1>4. Cardinality(D) <= Cardinality(B \ {s}) + 1 /\ Cardinality(D) \in Nat
  BY <1>2, <1>3, OneMore, Zenon
<1>5. Cardinality(D) <= Cardinality(B)
  BY <1>3, <1>4
<1>. QED BY <1>5 DEF B, D

\* The first frame under way arrives: it is out of order only behind a break.
LEMMA CountFirst ==
    ASSUME Counting, NEW tx \in Nat, NEW m \in Nat, NEW U \in SUBSET Nat, NEW s \in U, s < tx, m <= s,
           \A x \in U : s <= x
    PROVE  /\ Cardinality(Breaks(tx, s + 1, U \ {s})) + (IF s % SeqMod # Cut(m) THEN 1 ELSE 0)
                 <= Cardinality(Breaks(tx, m, U))
           /\ s % SeqMod # Cut(m) => s \in Breaks(tx, m, U)
<1>. DEFINE B == Breaks(tx, m, U)
            D == Breaks(tx, s + 1, U \ {s})
<1>1. IsFiniteSet(B) /\ IsFiniteSet(D) /\ Cardinality(B) \in Nat /\ Cardinality(D) \in Nat
  BY BreaksFinite
<1>2. D \subseteq B \ {s}
  BY DEF Breaks
<1>3. ASSUME s % SeqMod # Cut(m) PROVE s \in B
  <2>1. s # m \/ (s > 0 /\ s % SeqMod = 0)
    BY <1>3, CutNumber
  <2>2. s - 1 \notin U
    OBVIOUS
  <2>. QED BY <2>1, <2>2 DEF Breaks
<1>. HIDE DEF B, D
<1>4. CASE s % SeqMod # Cut(m)
  <2>1. Cardinality(D) + 1 <= Cardinality(B)
    BY <1>1, <1>2, <1>3, <1>4, OneLess
  <2>. QED BY <1>3, <1>4, <2>1 DEF B, D
<1>5. CASE s % SeqMod = Cut(m)
  <2>1. Cardinality(D) <= Cardinality(B)
    BY <1>1, <1>2, Fewer
  <2>2. Cardinality(D) + 0 <= Cardinality(B)
    BY <1>1, <2>1
  <2>. QED BY <1>5, <2>2 DEF B, D
<1>. QED BY <1>4, <1>5

\* A round of new frames, of which the NIC takes the first k.
LEMMA NewFrames ==
    ASSUME Counting, NEW tx \in Nat, NEW m \in Nat, m <= tx, NEW U \in SUBSET (0 .. tx - 1),
           tx % FramesPerCycle = 0, NEW k \in 0 .. FramesPerCycle
    PROVE  LET ty == tx + FramesPerCycle
               V == U \cup (tx .. tx + k - 1)
           IN  Cardinality(Breaks(ty, m, V)) + (tx \div SeqMod)
                 <= Cardinality(Breaks(tx, m, U)) + (ty \div SeqMod)
                       + (IF k < FramesPerCycle THEN 1 ELSE 0)
<1>. DEFINE ty == tx + FramesPerCycle
            V == U \cup (tx .. tx + k - 1)
            B == Breaks(tx, m, U)
            D == Breaks(ty, m, V)
            g == IF k < FramesPerCycle THEN 1 ELSE 0
<1>. FramesPerCycle \in Nat /\ FramesPerCycle > 0 /\ SeqMod \in Nat /\ SeqMod > 0
  BY CounterAssumption DEF SeqMod
<1>1. ty \in Nat /\ tx < ty
  OBVIOUS
<1>2. IsFiniteSet(B) /\ IsFiniteSet(D) /\ Cardinality(B) \in Nat /\ Cardinality(D) \in Nat
  BY <1>1, BreaksFinite
<1>3. /\ ty \div SeqMod = (tx \div SeqMod) + (IF ty % SeqMod = 0 THEN 1 ELSE 0)
      /\ \A z \in Nat : tx < z /\ z < ty => z % SeqMod # 0
  BY RoundOfNumbers, Zenon
<1>4. ASSUME NEW y \in D, y # ty PROVE y \in B
  <2>1. y \in Nat /\ y \in V /\ ((y # m /\ y - 1 \notin V) \/ (y > 0 /\ y % SeqMod = 0))
    BY <1>4 DEF Breaks
  <2>2. CASE y \in U
    BY <2>1, <2>2 DEF Breaks
  <2>3. CASE y = tx
    BY <2>1, <2>3 DEF Breaks
  <2>4. CASE y \in tx + 1 .. tx + k - 1
    <3>1. y - 1 \in V
      BY <2>4
    <3>2. tx < y /\ y < ty
      BY <2>4
    <3>3. y % SeqMod # 0
      BY <1>3, <2>1, <3>2
    <3>. QED BY <2>1, <3>1, <3>3
  <2>. QED BY <2>1, <2>2, <2>3, <2>4
<1>5. ASSUME ty \in D PROVE k < FramesPerCycle \/ ty % SeqMod = 0
  <2>. SUFFICES ASSUME k = FramesPerCycle PROVE ty % SeqMod = 0
    OBVIOUS
  <2>1. ty - 1 \in V
    OBVIOUS
  <2>. QED BY <1>5, <2>1 DEF Breaks
<1>6. tx \div SeqMod \in Nat
  OBVIOUS
<1>7. Cardinality(D) <= Cardinality(B) + (IF ty \in D THEN 1 ELSE 0)
  <2>. HIDE DEF B, D, ty
  <2>1. CASE ty \in D
    <3>1. D \subseteq B \cup {ty}
      BY <1>4
    <3>2. Cardinality(D) <= Cardinality(B) + 1
      BY <1>2, <3>1, OneMore, Zenon
    <3>. QED BY <2>1, <3>2
  <2>2. CASE ty \notin D
    <3>1. D \subseteq B
      BY <1>4, <2>2
    <3>2. Cardinality(D) <= Cardinality(B)
      BY <1>2, <3>1, Fewer
    <3>. QED BY <1>2, <2>2, <3>2
  <2>. QED BY <2>1, <2>2
<1>8. Cardinality(D) + (tx \div SeqMod) <= Cardinality(B) + (ty \div SeqMod) + g
  <2>. DEFINE e == IF ty % SeqMod = 0 THEN 1 ELSE 0
              h == IF ty \in D THEN 1 ELSE 0
              w == tx \div SeqMod
  <2>1. h <= e + g /\ e \in Nat /\ h \in Nat /\ g \in Nat
    BY <1>5
  <2>2. ty \div SeqMod = w + e /\ w \in Nat
    BY <1>3, <1>6
  <2>3. Cardinality(D) <= Cardinality(B) + h
    BY <1>7
  <2>. HIDE DEF B, D, ty, e, g, h, w
  <2>4. Cardinality(D) + w <= Cardinality(B) + (w + e) + g
    BY <1>2, <2>1, <2>2, <2>3
  <2>. QED BY <2>2, <2>4 DEF w
<1>. QED BY <1>8

\* There are finitely many spoiled numbers.
LEMMA SpoiledFinite ==
    ASSUME Counting, NEW tx \in Nat, NEW U \in SUBSET (0 .. tx - 1), NEW bl, NEW len
    PROVE  IsFiniteSet(Spoiled(tx, U, bl, len)) /\ Cardinality(Spoiled(tx, U, bl, len)) \in Nat
<1>1. Spoiled(tx, U, bl, len) \subseteq 0 .. tx - 1
  BY Zenon DEF Spoiled
<1>2. IsFiniteSet(0 .. tx - 1)
  BY DEF Counting
<1>. QED BY <1>1, <1>2, Fewer

\* A frame that is lost spoils nothing.
LEMMA SpoiledFewer ==
    ASSUME Counting, NEW tx \in Nat, NEW U \in SUBSET (0 .. tx - 1), NEW V \in SUBSET U, NEW bl, NEW len
    PROVE  Cardinality(Spoiled(tx, V, bl, len)) <= Cardinality(Spoiled(tx, U, bl, len))
<1>1. Spoiled(tx, V, bl, len) \subseteq Spoiled(tx, U, bl, len)
  BY Zenon DEF Spoiled
<1>. QED BY <1>1, SpoiledFinite, Fewer

\* New Tx times only overwrite those of frames that are too old.
LEMMA SpoiledNew ==
    ASSUME Counting, NEW tx \in Nat, NEW U \in SUBSET (0 .. tx - 1), NEW k \in 0 .. FramesPerCycle,
           NEW len \in Nat, len > 0, NEW bl, NEW bk,
           \A q \in tx .. tx + FramesPerCycle - 1 : bk[q % len] = q,
           \A i \in 0 .. len - 1 :
               (\A q \in tx .. tx + FramesPerCycle - 1 : i # q % len) => bk[i] = bl[i]
    PROVE  Cardinality(Spoiled(tx + FramesPerCycle, U \cup (tx .. tx + k - 1), bk, len))
               <= Cardinality(Spoiled(tx, U, bl, len))
<1>. DEFINE ty == tx + FramesPerCycle
            S == Spoiled(tx, U, bl, len)
            T == Spoiled(ty, U \cup (tx .. tx + k - 1), bk, len)
<1>. FramesPerCycle \in Nat
  BY CounterAssumption
<1>1. IsFiniteSet(S)
  BY SpoiledFinite
<1>2. ASSUME NEW u \in T PROVE u \in S
  <2>1. u \in U \cup (tx .. tx + k - 1) /\ ty - u <= len /\ bk[u % len] # u
    BY DEF Spoiled
  <2>2. u \notin tx .. ty - 1
    BY <2>1
  <2>3. u \in U /\ u \in Nat
    BY <2>1, <2>2
  <2>4. ASSUME NEW q \in tx .. ty - 1, u % len = q % len PROVE FALSE
    <3>1. u \in Nat /\ q \in Nat /\ u < q
      BY <2>3
    <3>2. q - u >= len
      BY <2>4, <3>1, ModGapHolds
    <3>. QED BY <2>1, <3>1, <3>2
  <2>5. u % len \in 0 .. len - 1
    BY <2>3
  <2>6. bk[u % len] = bl[u % len]
    <3>. DEFINE i == u % len
    <3>1. \A q \in tx .. tx + FramesPerCycle - 1 : i # q % len
      BY <2>4
    <3>2. i \in 0 .. len - 1
      BY <2>5
    <3>. HIDE DEF i
    <3>3. bk[i] = bl[i]
      BY <3>1, <3>2
    <3>. QED BY <3>3 DEF i
  <2>7. tx - u <= len
    BY <2>1, <2>3
  <2>. QED BY <2>1, <2>3, <2>6, <2>7 DEF Spoiled
<1>3. T \subseteq S
  BY <1>2, Zenon
<1>4. Cardinality(T) <= Cardinality(S)
  <2>. HIDE DEF S, T
  <2>. QED BY <1>1, <1>3, Fewer
<1>. QED BY <1>4

\* The first frame under way is measured, and its slot is cleared.
LEMMA SpoiledFirst ==
    ASSUME Counting, NEW tx \in Nat, NEW U \in SUBSET (0 .. tx - 1), NEW s \in U, \A x \in U : s <= x,
           NEW len \in Nat, len > 0, tx - s <= len, NEW bl, NEW bk,
           \A i \in 0 .. len - 1 : i # s % len => bk[i] = bl[i]
    PROVE  Cardinality(Spoiled(tx, U \ {s}, bk, len)) + (IF bl[s % len] = s THEN 0 ELSE 1)
               <= Cardinality(Spoiled(tx, U, bl, len))
<1>. DEFINE S == Spoiled(tx, U, bl, len)
            T == Spoiled(tx, U \ {s}, bk, len)
<1>1. IsFiniteSet(S) /\ Cardinality(S) \in Nat
  BY SpoiledFinite
<1>2. ASSUME NEW u \in T PROVE u \in S /\ u # s
  <2>1. u \in U /\ u # s /\ tx - u <= len /\ bk[u % len] # u
    BY DEF Spoiled
  <2>2. u \in Nat /\ s \in Nat /\ s < u /\ u < tx
    BY <2>1
  <2>3. u % len # s % len
    <3>. SUFFICES ASSUME u % len = s % len PROVE FALSE
      OBVIOUS
    <3>1. u - s >= len
      BY <2>2, ModGapHolds, Zenon
    <3>. QED BY <2>2, <3>1
  <2>4. u % len \in 0 .. len - 1
    BY <2>2
  <2>. QED BY <2>1, <2>3, <2>4 DEF Spoiled
<1>3. bl[s % len] # s => s \in S
  BY DEF Spoiled
<1>. HIDE DEF S, T
<1>4. CASE bl[s % len] = s
  <2>1. T \subseteq S
    BY <1>2
  <2>2. Cardinality(T) <= Cardinality(S) /\ Cardinality(T) \in Nat
    BY <1>1, <2>1, Fewer
  <2>. QED BY <1>4, <2>2 DEF S, T
<1>5. CASE bl[s % len] # s
  <2>1. T \subseteq S \ {s} /\ s \in S
    BY <1>2, <1>3, <1>5
  <2>2. Cardinality(T) + 1 <= Cardinality(S)
    BY <1>1, <2>1, OneLess, Zenon
  <2>. QED BY <1>5, <2>2 DEF S, T
<1>. QED BY <1>4, <1>5

\* A foreign frame clears a slot, which is that of one frame under way at most.
LEMMA SpoiledForeign ==
    ASSUME Counting, NEW tx \in Nat, NEW U \in SUBSET (0 .. tx - 1), NEW len \in Nat, len > 0,
           NEW slot, NEW bl, NEW bk,
           \A i \in 0 .. len - 1 : i # slot => bk[i] = bl[i]
    PROVE  Cardinality(Spoiled(tx, U, bk, len)) <= Cardinality(Spoiled(tx, U, bl, len)) + 1
<1>. DEFINE S == Spoiled(tx, U, bl, len)
            T == Spoiled(tx, U, bk, len)
<1>1. IsFiniteSet(S) /\ Cardinality(S) \in Nat
  BY SpoiledFinite
<1>2. ASSUME NEW u \in T, u \notin S
      PROVE  u \in Nat /\ u < tx /\ tx - u <= len /\ u % len = slot
  <2>1. u \in U /\ tx - u <= len /\ bk[u % len] # u
    BY DEF Spoiled
  <2>2. u % len \in 0 .. len - 1 /\ u \in Nat /\ u < tx
    BY <2>1
  <2>. QED BY <1>2, <2>1, <2>2 DEF Spoiled
<1>3. ASSUME NEW u \in T, u \notin S, NEW v \in T, v \notin S, u < v PROVE FALSE
  <2>1. v - u >= len
    BY <1>2, <1>3, ModGapHolds, Zenon
  <2>. QED BY <1>2, <1>3, <2>1
<1>4. CASE T \subseteq S
  BY <1>1, <1>4, Fewer
<1>5. CASE ~ (T \subseteq S)
  <2>1. PICK u \in T : u \notin S
    BY <1>5
  <2>2. T \subseteq S \cup {u}
    <3>. SUFFICES ASSUME NEW v \in T, v \notin S, v # u PROVE FALSE
      OBVIOUS
    <3>1. u \in Nat /\ v \in Nat
      BY <1>2, <2>1
    <3>. QED BY <1>3, <2>1, <3>1
  <2>. HIDE DEF S, T
  <2>3. Cardinality(T) <= Cardinality(S) + 1
    BY <1>1, <2>2, OneMore, Zenon
  <2>. QED BY <2>3 DEF S, T
<1>. QED BY <1>4, <1>5
-----------------------------------------------------------------------------
(* The books *)

\* SeqMod is positive.
LEMMA SeqModOKHolds == SeqMod \in Nat \ {0}
  <1>1. FramesPerCycle \in Nat /\ CycleMod \in Nat /\ FramesPerCycle > 0 /\ CycleMod > 0
    BY CounterAssumption
  <1>2. CycleMod * FramesPerCycle \in Nat /\ CycleMod * FramesPerCycle > 0
    BY <1>1
  <1>. QED BY <1>2 DEF SeqMod

\* The types in Placed.
LEMMA PlacedSets ==
    ASSUME NEW cl, NEW tx, NEW a, NEW b, NEW H, NEW O, NEW G, NEW er, NEW em,
           Placed(cl, tx, a, b, H, O, G, er, em)
    PROVE  /\ H \cup G \in SUBSET (0 .. tx - 1) /\ O \in SUBSET (0 .. tx - 1)
           /\ H \cup G \in SUBSET Nat /\ O \in SUBSET Nat /\ tx \in Nat /\ a \in Nat /\ b \in Nat
  BY DEF Placed

\* Frames that are lost in one piece are one fault.
LEMMA LossStepHolds ==
    ASSUME Counting, NEW cl, NEW tx, NEW a, NEW b, NEW H, NEW O, NEW G, NEW er, NEW em, NEW or, NEW om,
           NEW ir, NEW im, NEW fr, NEW bl, NEW len, NEW late, NEW bad,
           Ledger(cl, tx, a, b, H, O, G, er, em, or, om, ir, im, fr, bl, len, late, bad),
           NEW H2 \in SUBSET H, NEW O2 \in SUBSET O, NEW G2 \in SUBSET G, G2 \subseteq O2,
           Run(O, O2), Run(H \cup G, H2 \cup G2), NEW fs \in Nat, fs >= fr + 1
    PROVE  Ledger(cl, tx, a, b, H2, O2, G2, er, em, or, om, ir, im, fs, bl, len, late, bad)
<1>. DEFINE U == H \cup G
            V == H2 \cup G2
<1>1. Placed(cl, tx, a, b, H, O, G, er, em)
  BY DEF Ledger
<1>2. Placed(cl, tx, a, b, H2, O2, G2, er, em)
  BY <1>1 DEF Placed
<1>3. Stuck(cl, tx, H2 \cup O2, er, or) /\ Stuck(cl, tx, O2, em, om)
  BY DEF Ledger, Stuck
<1>4. /\ V \in SUBSET U /\ U \in SUBSET (0 .. tx - 1) /\ O \in SUBSET (0 .. tx - 1)
      /\ U \in SUBSET Nat /\ O \in SUBSET Nat /\ tx \in Nat /\ a \in Nat /\ b \in Nat
  BY <1>1, PlacedSets
<1>. HIDE DEF U, V
<1>5. Explained(cl, tx, a, V, or, fs, ir)
  <2>1. Explained(cl, tx, a, U, or, fr, ir)
    BY DEF Ledger, U
  <2>2. Cardinality(Breaks(tx, a, V)) <= Cardinality(Breaks(tx, a, U)) + 1
    BY <1>4, LoseRun DEF Run, U, V
  <2>3. Cardinality(Breaks(tx, a, V)) \in Nat /\ Cardinality(Breaks(tx, a, U)) \in Nat
    BY <1>4, BreaksFinite
  <2>4. tx \div SeqMod \in Int
    BY <1>4, SeqModOKHolds
  <2>. QED BY <2>1, <2>2, <2>3, <2>4 DEF Explained
<1>6. Explained(cl, tx, b, O2, om, fs, im)
  <2>1. Explained(cl, tx, b, O, om, fr, im)
    BY DEF Ledger
  <2>2. Cardinality(Breaks(tx, b, O2)) <= Cardinality(Breaks(tx, b, O)) + 1
    BY <1>4, LoseRun DEF Run
  <2>3. Cardinality(Breaks(tx, b, O2)) \in Nat /\ Cardinality(Breaks(tx, b, O)) \in Nat
    BY <1>4, BreaksFinite
  <2>4. tx \div SeqMod \in Int
    BY <1>4, SeqModOKHolds
  <2>. QED BY <2>1, <2>2, <2>3, <2>4 DEF Explained
<1>7. Measured(tx, V, bl, len, late, bad, ir)
  <2>1. Measured(tx, U, bl, len, late, bad, ir)
    BY DEF Ledger, U
  <2>2. Cardinality(Spoiled(tx, V, bl, len)) <= Cardinality(Spoiled(tx, U, bl, len))
    BY <1>4, SpoiledFewer
  <2>3. V \in SUBSET (0 .. tx - 1)
    BY <1>4
  <2>4. Cardinality(Spoiled(tx, V, bl, len)) \in Nat /\ Cardinality(Spoiled(tx, U, bl, len)) \in Nat
    BY <1>4, <2>3, SpoiledFinite
  <2>. QED BY <2>1, <2>2, <2>4 DEF Measured
<1>. QED BY <1>2, <1>3, <1>5, <1>6, <1>7 DEF Ledger, V

\* How a round adds up.
LEMMA RoundSum ==
    ASSUME NEW o \in Nat, NEW c \in Nat, NEW d \in Nat, NEW f \in Nat, NEW i \in Nat,
           NEW v \in Int, NEW w \in Int, NEW g \in Nat, NEW r \in Nat,
           o + c <= f + v + i, d + v <= c + w + g, g <= r
    PROVE  o + d <= (f + r) + w + i
  OBVIOUS

\* The frames of a round, of which the ring takes the first k.
LEMMA NewStepHolds ==
    ASSUME Counting, NEW cl, NEW tx, NEW a, NEW b, NEW H, NEW O, NEW G, NEW er, NEW em, NEW or, NEW om,
           NEW ir, NEW im, NEW fr, NEW bl, NEW len, NEW late, NEW bad,
           Ledger(cl, tx, a, b, H, O, G, er, em, or, om, ir, im, fr, bl, len, late, bad),
           NEW k \in 0 .. FramesPerCycle, NEW N, N = tx .. tx + k - 1, NEW bk,
           \A q \in tx .. tx + FramesPerCycle - 1 : bk[q % len] = q,
           \A i \in 0 .. len - 1 :
               (\A q \in tx .. tx + FramesPerCycle - 1 : i # q % len) => bk[i] = bl[i]
    PROVE  Ledger(cl, tx + FramesPerCycle, a, b, H, O \cup N, G \cup N, er, em, or, om, ir, im,
                  fr + (FramesPerCycle - k), bk, len, late, bad)
<1>. DEFINE U == H \cup G
            F == FramesPerCycle
            ty == tx + F
            g == IF k < F THEN 1 ELSE 0
<1>0. F \in Nat /\ F > 0 /\ k \in Nat /\ k <= F
  BY CounterAssumption
<1>1. Placed(cl, tx, a, b, H, O, G, er, em)
  BY DEF Ledger
<1>a. /\ U \in SUBSET (0 .. tx - 1) /\ O \in SUBSET (0 .. tx - 1)
      /\ U \in SUBSET Nat /\ O \in SUBSET Nat /\ tx \in Nat /\ a \in Nat /\ b \in Nat
      /\ a <= tx /\ b <= tx /\ tx % FramesPerCycle = 0
  BY <1>1, PlacedSets DEF Placed
<1>b. ty \in Nat /\ ty > tx
  BY <1>0, <1>a
<1>c. N \subseteq tx .. ty - 1
  BY <1>0, <1>a
<1>d. ty % FramesPerCycle = 0
  BY <1>a, RoundOfNumbers
<1>. HIDE DEF ty, F
<1>2. Placed(cl, ty, a, b, H, O \cup N, G \cup N, er, em)
  <2>1. O \cup N \subseteq b .. ty - 1
    BY <1>1, <1>b, <1>c DEF Placed
  <2>2. ty <= SeqMod => tx <= SeqMod
    BY <1>a, <1>b, SeqModOKHolds
  <2>. QED BY <1>1, <1>a, <1>b, <1>d, <2>1, <2>2 DEF Placed
<1>3. /\ Stuck(cl, ty, H \cup (O \cup N), er, or)
      /\ Stuck(cl, ty, O \cup N, em, om)
  <2>1. ty <= SeqMod => tx <= SeqMod
    BY <1>a, <1>b, SeqModOKHolds
  <2>2. er \in Nat /\ em \in Nat
    BY <1>1 DEF Placed
  <2>3. ASSUME NEW x \in N \cup {ty}, NEW e \in Nat, e < tx PROVE e < x
    BY <1>a, <1>b, <1>c, <2>3
  <2>4. Stuck(cl, ty, H \cup (O \cup N), er, or)
    <3>. SUFFICES ASSUME cl = "dcp", ty <= SeqMod, or > 0,
                         NEW x \in (H \cup (O \cup N)) \cup {ty}
                  PROVE  er < x
      BY DEF Stuck
    <3>1. \A y \in (H \cup O) \cup {tx} : er < y
      BY <2>1 DEF Ledger, Stuck
    <3>. QED BY <2>2, <2>3, <3>1, Zenon
  <2>5. Stuck(cl, ty, O \cup N, em, om)
    <3>. SUFFICES ASSUME cl = "dcp", ty <= SeqMod, om > 0, NEW x \in (O \cup N) \cup {ty}
                  PROVE  em < x
      BY DEF Stuck
    <3>1. \A y \in O \cup {tx} : em < y
      BY <2>1 DEF Ledger, Stuck
    <3>. QED BY <2>2, <2>3, <3>1, Zenon
  <2>. QED BY <2>4, <2>5
<1>e. tx \div SeqMod \in Int /\ ty \div SeqMod \in Int
  BY <1>a, <1>b, SeqModOKHolds
<1>f. g <= F - k /\ g \in Nat
  BY <1>0
<1>. HIDE DEF U, g
<1>5. Explained(cl, ty, a, U \cup N, or, fr + (F - k), ir)
  <2>1. Explained(cl, tx, a, U, or, fr, ir)
    BY DEF Ledger, U
  <2>2. Cardinality(Breaks(ty, a, U \cup N)) + (tx \div SeqMod)
            <= Cardinality(Breaks(tx, a, U)) + (ty \div SeqMod) + g
    BY <1>a, NewFrames DEF ty, g, F
  <2>3. Cardinality(Breaks(ty, a, U \cup N)) \in Nat /\ Cardinality(Breaks(tx, a, U)) \in Nat
    BY <1>a, <1>b, BreaksFinite
  <2>4. PICK r \in Nat : r = F - k
    BY <1>0
  <2>5. or \in Nat /\ ir \in Nat /\ fr \in Nat /\ fr + (F - k) \in Nat
    BY <1>0, <2>1 DEF Explained
  <2>6. ASSUME cl # "dcp"
        PROVE  or + Cardinality(Breaks(ty, a, U \cup N)) <= (fr + r) + (ty \div SeqMod) + ir
    <3>1. or + Cardinality(Breaks(tx, a, U)) <= fr + (tx \div SeqMod) + ir
      BY <2>1, <2>6 DEF Explained
    <3>2. g \in Nat /\ g <= r
      BY <1>f, <2>4
    <3>3. PICK c \in Nat, d \in Nat, v \in Int, w \in Int :
              /\ c = Cardinality(Breaks(tx, a, U)) /\ d = Cardinality(Breaks(ty, a, U \cup N))
              /\ v = tx \div SeqMod /\ w = ty \div SeqMod
      BY <1>e, <2>3
    <3>4. or + c <= fr + v + ir /\ d + v <= c + w + g
      BY <2>2, <3>1, <3>3
    <3>5. or + d <= (fr + r) + w + ir
      BY <2>5, <3>2, <3>4, RoundSum
    <3>. QED BY <3>3, <3>5
  <2>. QED BY <2>4, <2>5, <2>6 DEF Explained
<1>6. Explained(cl, ty, b, O \cup N, om, fr + (F - k), im)
  <2>1. Explained(cl, tx, b, O, om, fr, im)
    BY DEF Ledger
  <2>2. Cardinality(Breaks(ty, b, O \cup N)) + (tx \div SeqMod)
            <= Cardinality(Breaks(tx, b, O)) + (ty \div SeqMod) + g
    BY <1>a, NewFrames DEF ty, g, F
  <2>3. Cardinality(Breaks(ty, b, O \cup N)) \in Nat /\ Cardinality(Breaks(tx, b, O)) \in Nat
    BY <1>a, <1>b, BreaksFinite
  <2>4. PICK r \in Nat : r = F - k
    BY <1>0
  <2>5. om \in Nat /\ im \in Nat /\ fr \in Nat /\ fr + (F - k) \in Nat
    BY <1>0, <2>1 DEF Explained
  <2>6. ASSUME cl # "dcp"
        PROVE  om + Cardinality(Breaks(ty, b, O \cup N)) <= (fr + r) + (ty \div SeqMod) + im
    <3>1. om + Cardinality(Breaks(tx, b, O)) <= fr + (tx \div SeqMod) + im
      BY <2>1, <2>6 DEF Explained
    <3>2. g \in Nat /\ g <= r
      BY <1>f, <2>4
    <3>3. PICK c \in Nat, d \in Nat, v \in Int, w \in Int :
              /\ c = Cardinality(Breaks(tx, b, O)) /\ d = Cardinality(Breaks(ty, b, O \cup N))
              /\ v = tx \div SeqMod /\ w = ty \div SeqMod
      BY <1>e, <2>3
    <3>4. om + c <= fr + v + im /\ d + v <= c + w + g
      BY <2>2, <3>1, <3>3
    <3>5. om + d <= (fr + r) + w + im
      BY <2>5, <3>2, <3>4, RoundSum
    <3>. QED BY <3>3, <3>5
  <2>. QED BY <2>4, <2>5, <2>6 DEF Explained
<1>7. Measured(ty, U \cup N, bk, len, late, bad, ir)
  <2>1. Measured(tx, U, bl, len, late, bad, ir)
    BY DEF Ledger, U
  <2>2. len \in Nat /\ len > 0
    BY <2>1 DEF Measured
  <2>3. Cardinality(Spoiled(ty, U \cup N, bk, len)) <= Cardinality(Spoiled(tx, U, bl, len))
    BY <1>a, <2>2, SpoiledNew DEF ty, F
  <2>4. U \cup N \in SUBSET (0 .. ty - 1)
    BY <1>a, <1>b, <1>c
  <2>5. /\ Cardinality(Spoiled(ty, U \cup N, bk, len)) \in Nat
        /\ Cardinality(Spoiled(tx, U, bl, len)) \in Nat
    BY <1>a, <1>b, <2>4, SpoiledFinite
  <2>6. ty <= SeqMod => tx <= SeqMod
    BY <1>a, <1>b, SeqModOKHolds
  <2>. QED BY <2>1, <2>3, <2>5, <2>6 DEF Measured
<1>8. U \cup N = H \cup (G \cup N)
  BY DEF U
<1>. QED BY <1>2, <1>3, <1>5, <1>6, <1>7, <1>8, Zenon DEF Ledger, ty, F

\* The mirror counts a foreign frame.
LEMMA ForeignAtMirrorHolds ==
    ASSUME Counting, NEW cl, NEW tx, NEW a, NEW b, NEW H, NEW O, NEW G, NEW er, NEW em, NEW or, NEW om,
           NEW ir, NEW im, NEW fr, NEW bl, NEW len, NEW late, NEW bad,
           Ledger(cl, tx, a, b, H, O, G, er, em, or, om, ir, im, fr, bl, len, late, bad),
           cl # "dcp", NEW o \in {0, 1}
    PROVE  Ledger(cl, tx, a, b, H, O, G, er, em, or, om + o, ir, im + 1, fr, bl, len, late, bad)
<1>1. Placed(cl, tx, a, b, H, O, G, er, em)
  BY DEF Ledger
<1>2. tx \in Nat /\ b \in Nat
  BY <1>1 DEF Placed
<1>3. Explained(cl, tx, b, O, om + o, fr, im + 1)
  <2>1. Explained(cl, tx, b, O, om, fr, im)
    BY DEF Ledger
  <2>2. Cardinality(Breaks(tx, b, O)) \in Nat
    BY <1>2, BreaksFinite
  <2>3. tx \div SeqMod \in Int
    BY <1>2, SeqModOKHolds
  <2>. QED BY <2>1, <2>2, <2>3 DEF Explained
<1>. QED BY <1>1, <1>3 DEF Ledger, Stuck

\* The reference counts a foreign frame, which clears a slot of the backlog.
LEMMA ForeignAtReferenceHolds ==
    ASSUME Counting, NEW cl, NEW tx, NEW a, NEW b, NEW H, NEW O, NEW G, NEW er, NEW em, NEW or, NEW om,
           NEW ir, NEW im, NEW fr, NEW bl, NEW len, NEW late, NEW bad,
           Ledger(cl, tx, a, b, H, O, G, er, em, or, om, ir, im, fr, bl, len, late, bad),
           cl # "dcp", NEW o \in {0, 1}, NEW slot, NEW bk,
           \A i \in 0 .. len - 1 : i # slot => bk[i] = bl[i]
    PROVE  Ledger(cl, tx, a, b, H, O, G, er, em, or + o, om, ir + 1, im, fr, bk, len, late, bad + 1)
<1>. DEFINE U == H \cup G
<1>1. Placed(cl, tx, a, b, H, O, G, er, em)
  BY DEF Ledger
<1>2. tx \in Nat /\ a \in Nat /\ U \in SUBSET (0 .. tx - 1)
  BY <1>1, PlacedSets
<1>. HIDE DEF U
<1>3. Explained(cl, tx, a, U, or + o, fr, ir + 1)
  <2>1. Explained(cl, tx, a, U, or, fr, ir)
    BY DEF Ledger, U
  <2>2. Cardinality(Breaks(tx, a, U)) \in Nat
    BY <1>2, BreaksFinite
  <2>3. tx \div SeqMod \in Int
    BY <1>2, SeqModOKHolds
  <2>. QED BY <2>1, <2>2, <2>3 DEF Explained
<1>4. Measured(tx, U, bk, len, late, bad + 1, ir + 1)
  <2>1. Measured(tx, U, bl, len, late, bad, ir)
    BY DEF Ledger, U
  <2>2. len \in Nat /\ len > 0
    BY <2>1 DEF Measured
  <2>3. Cardinality(Spoiled(tx, U, bk, len)) <= Cardinality(Spoiled(tx, U, bl, len)) + 1
    BY <1>2, <2>2, SpoiledForeign, Zenon
  <2>4. Cardinality(Spoiled(tx, U, bk, len)) \in Nat /\ Cardinality(Spoiled(tx, U, bl, len)) \in Nat
    BY <1>2, SpoiledFinite
  <2>. QED BY <2>1, <2>3, <2>4 DEF Measured
<1>. QED BY <1>1, <1>3, <1>4 DEF Ledger, Stuck, U

\* The number s as it is read.
LEMMA ReadNumber ==
    ASSUME NEW s \in Nat
    PROVE  /\ s % SeqMod \in Nat /\ s % SeqMod <= s
           /\ Cut(s + 1) = (s % SeqMod) + 1
           /\ s < SeqMod => s % SeqMod = s
<1>. DEFINE M == SeqMod
<1>1. M \in Nat /\ M > 0
  BY SeqModOKHolds
<1>2. Cut(s + 1) = (s % SeqMod) + 1
  BY CutNumber
<1>. HIDE DEF M
<1>3. PICK d \in Nat : d = s \div M
  BY <1>1, DivisionOf
<1>4. PICK r \in Nat : r = s % M
  BY <1>1, DivisionOf
<1>5. s = d * M + r /\ r < M
  BY <1>1, <1>3, <1>4, DivisionOf
<1>6. PICK p \in Nat : p = d * M
  BY <1>1
<1>7. r <= s
  BY <1>5, <1>6
<1>8. ASSUME s < M PROVE s % M = s
  <2>1. 0 * M + s = s
    BY <1>1
  <2>. QED BY <1>1, <1>8, <2>1, DivisionIs
<1>. QED BY <1>2, <1>4, <1>7, <1>8 DEF M

\* The mirror takes the first frame under way out, and forwards it or not.
LEMMA MirrorCountsHolds ==
    ASSUME Counting, NEW cl, NEW tx, NEW a, NEW b, NEW H, NEW O, NEW G, NEW er, NEW em, NEW or, NEW om,
           NEW ir, NEW im, NEW fr, NEW bl, NEW len, NEW late, NEW bad,
           Ledger(cl, tx, a, b, H, O, G, er, em, or, om, ir, im, fr, bl, len, late, bad),
           NEW s \in O, \A x \in O : s <= x, NEW H2,
           \/ H2 = H /\ (s % SeqMod # em \/ s \notin G)
           \/ H2 = H \cup {s} /\ s % SeqMod = em /\ s \in G
    PROVE  Ledger(cl, tx, a, s + 1, H2, O \ {s}, G \ {s}, er, After(cl, em, s), or,
                  om + Late(em, s), ir, im, fr, bl, len, late, bad)
<1>. DEFINE U == H \cup G
            V == H2 \cup (G \ {s})
            Q == O \ {s}
            en == After(cl, em, s)
            on == om + Late(em, s)
            q == s % SeqMod
<1>1. Placed(cl, tx, a, b, H, O, G, er, em)
  BY DEF Ledger
<1>2. /\ U \in SUBSET (0 .. tx - 1) /\ O \in SUBSET (0 .. tx - 1)
      /\ U \in SUBSET Nat /\ O \in SUBSET Nat /\ tx \in Nat /\ a \in Nat /\ b \in Nat
  BY <1>1, PlacedSets
<1>3. /\ s \in Nat /\ s < tx /\ b <= s /\ a <= b /\ em \in Nat /\ em <= b /\ er \in Nat
      /\ s \notin H /\ \A x \in O \ {s} : s < x
  BY <1>1 DEF Placed
<1>4. q \in Nat /\ q <= s /\ Cut(s + 1) = q + 1 /\ (s < SeqMod => q = s)
  BY <1>3, ReadNumber
<1>a. en = IF q = em \/ cl # "dcp" THEN q + 1 ELSE em
  BY DEF After
<1>b. on = om + IF q = em THEN 0 ELSE 1
  BY DEF Late
<1>c. om \in Nat /\ or \in Nat
  BY DEF Ledger, Explained
<1>d. tx <= SeqMod => s < SeqMod
  BY <1>2, <1>3, SeqModOKHolds
<1>. HIDE DEF en, on, q
<1>5. Placed(cl, tx, a, s + 1, H2, Q, G \ {s}, er, en)
  <2>1. H2 \subseteq a .. (s + 1) - 1
    <3>1. H \subseteq a .. s
      BY <1>1, <1>2, <1>3 DEF Placed
    <3>. QED BY <1>2, <1>3, <3>1
  <2>2. Q \subseteq s + 1 .. tx - 1
    BY <1>2, <1>3
  <2>3. en \in Nat /\ en <= s + 1
    BY <1>2, <1>3, <1>4, <1>a
  <2>4. cl # "dcp" => er = Cut(a) /\ en = Cut(s + 1)
    BY <1>1, <1>4, <1>a DEF Placed
  <2>5. ASSUME tx <= SeqMod PROVE er <= en /\ \A x \in H2 : x < en
    <3>1. q = s /\ em <= s
      BY <1>2, <1>3, <1>4, <1>d, <2>5
    <3>2. em <= en
      BY <1>3, <1>a, <3>1
    <3>3. er <= em /\ \A x \in H : x < em
      BY <1>1, <2>5 DEF Placed
    <3>4. er <= en
      BY <1>3, <2>3, <3>2, <3>3
    <3>5. ASSUME NEW x \in H PROVE x < en
      <4>1. x \in Nat /\ x < em
        BY <1>2, <3>3
      <4>. QED BY <1>3, <2>3, <3>2, <4>1
    <3>6. H2 # H => s < en
      BY <1>3, <1>a, <3>1 DEF q
    <3>. QED BY <3>4, <3>5, <3>6
  <2>6. a <= s + 1 /\ s + 1 <= tx /\ s + 1 \in Nat
    BY <1>2, <1>3
  <2>7. G \ {s} \subseteq Q
    BY <1>1 DEF Placed
  <2>. QED BY <1>1, <2>1, <2>2, <2>3, <2>4, <2>5, <2>6, <2>7 DEF Placed
<1>6. Stuck(cl, tx, H2 \cup Q, er, or)
  <2>1. H2 \cup Q \subseteq H \cup O
    OBVIOUS
  <2>. QED BY <2>1 DEF Ledger, Stuck
<1>7. Stuck(cl, tx, Q, en, on)
  <2>. SUFFICES ASSUME cl = "dcp", tx <= SeqMod, on > 0, NEW x \in Q \cup {tx} PROVE en < x
    BY DEF Stuck
  <2>1. q = s /\ s < x /\ x \in Nat
    BY <1>2, <1>3, <1>4, <1>d
  <2>2. em < s
    <3>1. CASE om > 0
      BY <3>1 DEF Ledger, Stuck
    <3>2. CASE om = 0
      <4>1. q # em
        BY <1>b, <3>2
      <4>. QED BY <1>2, <1>3, <2>1, <4>1
    <3>. QED BY <1>c, <3>1, <3>2
  <2>3. en = em
    BY <1>3, <1>a, <2>1, <2>2
  <2>. QED BY <1>3, <2>1, <2>2, <2>3
<1>e. tx \div SeqMod \in Int
  BY <1>2, SeqModOKHolds
<1>f. cl # "dcp" => em = Cut(b)
  BY <1>1 DEF Placed
<1>8. Explained(cl, tx, s + 1, Q, on, fr, im)
  <2>1. Explained(cl, tx, b, O, om, fr, im)
    BY DEF Ledger
  <2>2. Cardinality(Breaks(tx, s + 1, O \ {s})) + (IF s % SeqMod # Cut(b) THEN 1 ELSE 0)
            <= Cardinality(Breaks(tx, b, O))
    BY <1>2, <1>3, CountFirst
  <2>3. Cardinality(Breaks(tx, b, O)) \in Nat /\ Cardinality(Breaks(tx, s + 1, Q)) \in Nat
    BY <1>2, BreaksFinite
  <2>4. on \in Nat
    BY <1>b, <1>c
  <2>5. cl # "dcp" => Cardinality(Breaks(tx, s + 1, Q)) + on <= Cardinality(Breaks(tx, b, O)) + om
    BY <1>b, <1>c, <1>f, <2>2, <2>3 DEF q
  <2>. QED BY <1>e, <2>1, <2>3, <2>4, <2>5 DEF Explained
<1>9. V \in SUBSET U /\ (V = U \/ (V = U \ {s} /\ s % SeqMod # em /\ s \in G))
  BY <1>3
<1>. HIDE DEF U, V
<1>10. cl # "dcp" => Cardinality(Breaks(tx, a, V)) <= Cardinality(Breaks(tx, a, U))
  <2>. SUFFICES ASSUME cl # "dcp", V = U \ {s}, s % SeqMod # em, s \in G
                PROVE  Cardinality(Breaks(tx, a, V)) <= Cardinality(Breaks(tx, a, U))
    <3>1. Cardinality(Breaks(tx, a, U)) \in Nat
      BY <1>2, BreaksFinite
    <3>. QED BY <1>9, <3>1
  <2>1. s \in Breaks(tx, b, O)
    <3>1. s % SeqMod # Cut(b)
      BY <1>f
    <3>. QED BY <1>2, <1>3, <3>1, CountFirst, Zenon
  <2>2. (s # b /\ s - 1 \notin O) \/ (s > 0 /\ s % SeqMod = 0)
    BY <2>1 DEF Breaks
  <2>3. s \in U
    BY DEF U
  <2>4. ASSUME s # b, s - 1 \notin O PROVE s # a /\ s - 1 \notin U
    <3>1. b < s /\ s - 1 >= b /\ s # a
      BY <1>2, <1>3, <2>4
    <3>2. s - 1 \notin H
      BY <1>1, <1>2, <1>3, <3>1 DEF Placed
    <3>3. s - 1 \notin G
      BY <1>1, <2>4 DEF Placed
    <3>. QED BY <3>1, <3>2, <3>3 DEF U
  <2>5. s \in Breaks(tx, a, U)
    <3>1. s \in 0 .. tx
      BY <1>2, <1>3
    <3>. QED BY <2>2, <2>3, <2>4, <3>1 DEF Breaks
  <2>6. s # tx
    BY <1>2, <1>3
  <2>. QED BY <1>2, <2>5, <2>6, LoseBroken
<1>11. Explained(cl, tx, a, V, or, fr, ir)
  <2>1. Explained(cl, tx, a, U, or, fr, ir)
    BY DEF Ledger, U
  <2>2. Cardinality(Breaks(tx, a, U)) \in Nat /\ Cardinality(Breaks(tx, a, V)) \in Nat
    BY <1>2, BreaksFinite
  <2>. QED BY <1>e, <1>10, <2>1, <2>2 DEF Explained
<1>12. Measured(tx, V, bl, len, late, bad, ir)
  <2>1. Measured(tx, U, bl, len, late, bad, ir)
    BY DEF Ledger, U
  <2>2. Cardinality(Spoiled(tx, V, bl, len)) <= Cardinality(Spoiled(tx, U, bl, len))
    BY <1>2, <1>9, SpoiledFewer
  <2>3. V \in SUBSET (0 .. tx - 1)
    BY <1>2, <1>9
  <2>4. Cardinality(Spoiled(tx, V, bl, len)) \in Nat /\ Cardinality(Spoiled(tx, U, bl, len)) \in Nat
    BY <1>2, <2>3, SpoiledFinite
  <2>. QED BY <2>1, <2>2, <2>4 DEF Measured
<1>. QED BY <1>5, <1>6, <1>7, <1>8, <1>11, <1>12 DEF Ledger, V, en, on

\* The reference takes the first frame under way home, and measures its round trip.
LEMMA ReferenceCountsHolds ==
    ASSUME Counting, NEW cl, NEW tx, NEW a, NEW b, NEW H, NEW O, NEW G, NEW er, NEW em, NEW or, NEW om,
           NEW ir, NEW im, NEW fr, NEW bl, NEW len, NEW late, NEW bad,
           Ledger(cl, tx, a, b, H, O, G, er, em, or, om, ir, im, fr, bl, len, late, bad),
           NEW s \in H, \A x \in H : s <= x, NEW bk,
           \A i \in 0 .. len - 1 : i # (s % SeqMod) % len => bk[i] = bl[i]
    PROVE  Ledger(cl, tx, s + 1, b, H \ {s}, O, G, After(cl, er, s), em,
                  or + Late(er, s), om, ir, im, fr, bk, len, Overdue(late, tx, s, len),
                  bad + WrongTime(bl, s, len))
<1>. DEFINE U == H \cup G
            V == (H \ {s}) \cup G
            en == After(cl, er, s)
            on == or + Late(er, s)
            q == s % SeqMod
            lt == Overdue(late, tx, s, len)
            bn == bad + WrongTime(bl, s, len)
<1>1. Placed(cl, tx, a, b, H, O, G, er, em)
  BY Zenon DEF Ledger
<1>2. /\ U \in SUBSET (0 .. tx - 1) /\ O \in SUBSET (0 .. tx - 1)
      /\ U \in SUBSET Nat /\ O \in SUBSET Nat /\ tx \in Nat /\ a \in Nat /\ b \in Nat
  BY <1>1, PlacedSets, Zenon
<1>3. /\ s \in Nat /\ s < tx /\ s < b /\ a <= s /\ b <= tx /\ er \in Nat /\ er <= a /\ em \in Nat
      /\ s \notin G /\ \A x \in H \ {s} : s < x
  BY <1>1 DEF Placed
<1>g. \A x \in O : b <= x /\ s < x
  BY <1>1, <1>3 DEF Placed
<1>4. q \in Nat /\ q <= s /\ Cut(s + 1) = q + 1 /\ (s < SeqMod => q = s)
  BY <1>3, ReadNumber
<1>a. en = IF q = er \/ cl # "dcp" THEN q + 1 ELSE er
  BY DEF After
<1>b. on = or + IF q = er THEN 0 ELSE 1
  BY DEF Late
<1>c. om \in Nat /\ or \in Nat
  BY DEF Ledger, Explained
<1>d. tx <= SeqMod => s < SeqMod
  BY <1>2, <1>3, SeqModOKHolds
<1>. HIDE DEF en, on, q, lt, bn
<1>5. Placed(cl, tx, s + 1, b, H \ {s}, O, G, en, em)
  <2>1. H \ {s} \subseteq s + 1 .. b - 1
    BY <1>1, <1>2, <1>3 DEF Placed
  <2>3. en \in Nat /\ en <= s + 1
    BY <1>2, <1>3, <1>4, <1>a
  <2>4. cl # "dcp" => en = Cut(s + 1) /\ em = Cut(b)
    BY <1>1, <1>4, <1>a DEF Placed
  <2>5. ASSUME tx <= SeqMod PROVE en <= em /\ \A x \in H \ {s} : x < em
    <3>1. q = s
      BY <1>4, <1>d, <2>5
    <3>3. er <= em /\ \A x \in H : x < em
      BY <1>1, <2>5 DEF Placed
    <3>4. en <= em
      BY <1>3, <1>a, <3>1, <3>3
    <3>. QED BY <3>3, <3>4
  <2>6. s + 1 <= b /\ s + 1 \in Nat
    BY <1>2, <1>3
  <2>. QED BY <1>1, <2>1, <2>3, <2>4, <2>5, <2>6 DEF Placed
<1>6. Stuck(cl, tx, (H \ {s}) \cup O, en, on)
  <2>. SUFFICES ASSUME cl = "dcp", tx <= SeqMod, on > 0,
                       NEW x \in ((H \ {s}) \cup O) \cup {tx} PROVE en < x
    BY DEF Stuck
  <2>1. q = s /\ s < x /\ x \in Nat
    BY <1>2, <1>3, <1>4, <1>d, <1>g
  <2>2. er < s
    <3>1. CASE or > 0
      BY <3>1 DEF Ledger, Stuck
    <3>2. CASE or = 0
      <4>1. q # er
        BY <1>b, <3>2
      <4>. QED BY <1>2, <1>3, <2>1, <4>1
    <3>. QED BY <1>c, <3>1, <3>2
  <2>3. en = er
    BY <1>3, <1>a, <2>1, <2>2
  <2>. QED BY <1>3, <2>1, <2>2, <2>3
<1>e. tx \div SeqMod \in Int
  BY <1>2, SeqModOKHolds
<1>f. cl # "dcp" => er = Cut(a)
  BY <1>1 DEF Placed
<1>7. s \in U /\ V = U \ {s} /\ \A x \in U : s <= x
  <2>1. \A x \in G : s <= x
    BY <1>1, <1>2, <1>3, <1>g DEF Placed
  <2>2. s \in U /\ \A x \in U : s <= x
    BY <2>1
  <2>3. V = U \ {s}
    BY <1>3
  <2>. QED BY <2>2, <2>3
<1>. HIDE DEF U, V
<1>8. Explained(cl, tx, s + 1, V, on, fr, ir)
  <2>1. Explained(cl, tx, a, U, or, fr, ir)
    BY DEF Ledger, U
  <2>2. Cardinality(Breaks(tx, s + 1, V)) + (IF s % SeqMod # Cut(a) THEN 1 ELSE 0)
            <= Cardinality(Breaks(tx, a, U))
    BY <1>2, <1>3, <1>7, CountFirst
  <2>3. Cardinality(Breaks(tx, a, U)) \in Nat /\ Cardinality(Breaks(tx, s + 1, V)) \in Nat
    BY <1>2, BreaksFinite
  <2>4. on \in Nat
    BY <1>b, <1>c
  <2>5. cl # "dcp" => Cardinality(Breaks(tx, s + 1, V)) + on <= Cardinality(Breaks(tx, a, U)) + or
    BY <1>b, <1>c, <1>f, <2>2, <2>3 DEF q
  <2>. QED BY <1>e, <2>1, <2>3, <2>4, <2>5 DEF Explained
<1>9. Measured(tx, V, bk, len, lt, bn, ir)
  <2>1. Measured(tx, U, bl, len, late, bad, ir)
    BY DEF Ledger, U
  <2>2. len \in Nat /\ len > 0 /\ bad \in Nat /\ late \in BOOLEAN /\ ir \in Nat
    BY <2>1 DEF Measured
  <2>3. bn \in Nat /\ lt \in BOOLEAN
    BY <2>2 DEF bn, lt, Overdue, WrongTime
  <2>. SUFFICES ASSUME ~ lt, tx <= SeqMod
                PROVE  bn + Cardinality(Spoiled(tx, V, bk, len)) <= 2 * ir
    BY <2>2, <2>3 DEF Measured
  <2>4. ~ late /\ tx - s <= len
    BY <1>2, <1>3, <2>2 DEF lt, Overdue
  <2>5. q = s
    BY <1>4, <1>d
  <2>6. bn = bad + (IF bl[s % len] = s THEN 0 ELSE 1)
    BY <2>5 DEF bn, q, WrongTime
  <2>7. \A i \in 0 .. len - 1 : i # s % len => bk[i] = bl[i]
    BY <2>5 DEF q
  <2>8. Cardinality(Spoiled(tx, V, bk, len)) + (IF bl[s % len] = s THEN 0 ELSE 1)
            <= Cardinality(Spoiled(tx, U, bl, len))
    BY <1>2, <1>7, <2>2, <2>4, <2>7, SpoiledFirst, Zenon
  <2>9. V \in SUBSET (0 .. tx - 1)
    BY <1>2, <1>7
  <2>10. Cardinality(Spoiled(tx, V, bk, len)) \in Nat /\ Cardinality(Spoiled(tx, U, bl, len)) \in Nat
    BY <1>2, <2>9, SpoiledFinite
  <2>11. bad + Cardinality(Spoiled(tx, U, bl, len)) <= 2 * ir
    BY <2>1, <2>4 DEF Measured
  <2>. QED BY <2>2, <2>6, <2>8, <2>10, <2>11
<1>10. Stuck(cl, tx, O, em, om) /\ Explained(cl, tx, b, O, om, fr, im)
  BY DEF Ledger
<1>. QED BY <1>5, <1>6, <1>8, <1>9, <1>10 DEF Ledger, V, en, on, lt, bn, q
-----------------------------------------------------------------------------
(* The rules of the books *)

\* The rules that FrameRules states about the books hold, given the facts about
\* counting.
LEMMA BookRulesHold ==
    ASSUME Counting
    PROVE  /\ ModGap /\ ReadBack /\ SeqModOK /\ LossStep /\ NewStep
           /\ ForeignAtMirror /\ ForeignAtReference /\ MirrorCounts /\ ReferenceCounts
<1>1. ModGap
  BY ModGapHolds DEF ModGap
<1>2. ReadBack
  BY ReadBackHolds DEF ReadBack
<1>3. SeqModOK
  BY SeqModOKHolds DEF SeqModOK
<1>4. LossStep
  <2>. USE DEF LossStep
  <2>. TAKE cl, tx, a, b, H, O, G, er, em, or, om, ir, im, fr, bl, len, lt, bad, H2,
            O2, G2, fs
  <2>. HAVE /\ Ledger(cl, tx, a, b, H, O, G, er, em, or, om, ir, im, fr, bl, len, lt, bad)
            /\ H2 \in SUBSET H /\ O2 \in SUBSET O /\ G2 \in SUBSET G /\ G2 \subseteq O2
            /\ Run(O, O2) /\ Run(H \cup G, H2 \cup G2) /\ fs \in Nat /\ fs >= fr + 1
  <2>. QED BY ZenonT(40), LossStepHolds
<1>5. NewStep
  <2>. USE DEF NewStep
  <2>. TAKE cl, tx, a, b, H, O, G, er, em, or, om, ir, im, fr, bl, len, lt, bad, k, N,
            bk
  <2>. HAVE /\ Ledger(cl, tx, a, b, H, O, G, er, em, or, om, ir, im, fr, bl, len, lt, bad)
            /\ k \in 0 .. FramesPerCycle /\ N = tx .. tx + k - 1
            /\ (\A q \in tx .. tx + FramesPerCycle - 1 : bk[q % len] = q)
            /\ (\A i \in 0 .. len - 1 :
                   (\A q \in tx .. tx + FramesPerCycle - 1 : i # q % len) => bk[i] = bl[i])
  <2>. QED BY ZenonT(40), NewStepHolds
<1>6. ForeignAtMirror
  <2>. USE DEF ForeignAtMirror
  <2>. TAKE cl, tx, a, b, H, O, G, er, em, or, om, ir, im, fr, bl, len, lt, bad, o
  <2>. HAVE /\ Ledger(cl, tx, a, b, H, O, G, er, em, or, om, ir, im, fr, bl, len, lt, bad)
            /\ cl # "dcp" /\ o \in {0, 1}
  <2>. QED BY ZenonT(40), ForeignAtMirrorHolds
<1>7. ForeignAtReference
  <2>. USE DEF ForeignAtReference
  <2>. TAKE cl, tx, a, b, H, O, G, er, em, or, om, ir, im, fr, bl, len, lt, bad, o,
            slot, bk
  <2>. HAVE /\ Ledger(cl, tx, a, b, H, O, G, er, em, or, om, ir, im, fr, bl, len, lt, bad)
            /\ cl # "dcp" /\ o \in {0, 1}
            /\ (\A i \in 0 .. len - 1 : i # slot => bk[i] = bl[i])
  <2>. QED BY ZenonT(40), ForeignAtReferenceHolds
<1>8. MirrorCounts
  <2>. USE DEF MirrorCounts
  <2>. TAKE cl, tx, a, b, H, O, G, er, em, or, om, ir, im, fr, bl, len, lt, bad, s, H2
  <2>. HAVE /\ Ledger(cl, tx, a, b, H, O, G, er, em, or, om, ir, im, fr, bl, len, lt, bad)
            /\ s \in O /\ (\A x \in O : s <= x)
            /\ (\/ H2 = H /\ (s % SeqMod # em \/ s \notin G)
                \/ H2 = H \cup {s} /\ s % SeqMod = em /\ s \in G)
  <2>. QED BY ZenonT(40), MirrorCountsHolds
<1>9. ReferenceCounts
  <2>. USE DEF ReferenceCounts
  <2>. TAKE cl, tx, a, b, H, O, G, er, em, or, om, ir, im, fr, bl, len, lt, bad, s, bk
  <2>. HAVE /\ Ledger(cl, tx, a, b, H, O, G, er, em, or, om, ir, im, fr, bl, len, lt, bad)
            /\ s \in H /\ (\A x \in H : s <= x)
            /\ (\A i \in 0 .. len - 1 : i # (s % SeqMod) % len => bk[i] = bl[i])
  <2>. QED BY ZenonT(40), ReferenceCountsHolds
<1>. QED BY <1>1, <1>2, <1>3, <1>4, <1>5, <1>6, <1>7, <1>8, <1>9
=============================================================================

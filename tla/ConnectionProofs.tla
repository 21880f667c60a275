-------------------------- MODULE ConnectionProofs --------------------------
(***************************************************************************)
(* Proofs about the record layer for every word size, number of words and  *)
(* counter limit.  The lemmas follow the code: a distance splits uniquely  *)
(* into a word and a position, set_bit and get_bit act on one distance,    *)
(* shift moves every bit by n distances across word boundaries, and from   *)
(* these each branch of check_and_record keeps the window exact.  The loop *)
(* that computes shift in place is recursion and is checked by TLC only    *)
(* (ShiftLoopIsShift).                                                     *)
(*                                                                         *)
(* The second part applies the theorems of ServerProofs to the connections *)
(* of one server (ServerConnections). The third is about the management    *)
(* messages of its sessions (ManagementDelivery).                          *)
(***************************************************************************)
EXTENDS PacketCodec, ServerConnections, Sequences, FiniteSetTheorems, TLAPS

\* Multiplication by the word size is monotonic.
LEMMA Scale ==
    ASSUME NEW i \in Nat, NEW j \in Nat, i <= j
    PROVE  i * WordBits <= j * WordBits
BY WindowAssumption

\* A distance splits into a word and a position in that word.
LEMMA Split ==
    ASSUME NEW d \in Nat
    PROVE  /\ d \div WordBits \in Nat
           /\ d % WordBits \in Positions
           /\ d = (d \div WordBits) * WordBits + (d % WordBits)
BY WindowAssumption DEF Positions

\* The word and the position are determined by the distance.
LEMMA SplitUnique ==
    ASSUME NEW i \in Nat, NEW j \in Nat, NEW a \in Positions, NEW b \in Positions,
           i * WordBits + a = j * WordBits + b
    PROVE  i = j /\ a = b
<1>1. ASSUME NEW m \in Nat, NEW n \in Nat, m < n, NEW x \in Positions
      PROVE  m * WordBits + x < n * WordBits
    <2>1. (m + 1) * WordBits <= n * WordBits
        BY <1>1, Scale
    <2>2. (m + 1) * WordBits = m * WordBits + WordBits
        BY WindowAssumption
    <2> QED
        BY <2>1, <2>2, WindowAssumption DEF Positions
<1>2. ~(i < j)
    BY <1>1, WindowAssumption DEF Positions
<1>3. ~(j < i)
    BY <1>1, WindowAssumption DEF Positions
<1> QED
    BY <1>2, <1>3, WindowAssumption DEF Positions

\* A distance within the window lies in one of its words.
LEMMA InWindow ==
    ASSUME NEW d \in Nat, d < WindowSize
    PROVE  d \div WordBits \in WordIndex
<1>1. CASE Words <= d \div WordBits
    <2>1. Words * WordBits <= (d \div WordBits) * WordBits
        BY <1>1, Split, Scale, WindowAssumption
    <2> QED
        BY <2>1, Split, WindowAssumption DEF WindowSize, Positions
<1> QED
    BY <1>1, Split, WindowAssumption DEF WordIndex

-----------------------------------------------------------------------------
(* What the operations of ReplayWindow do to the bit at a distance.        *)

BitArray == [WordIndex -> SUBSET Positions]
Distance(i, b) == i * WordBits + b

\* A word and a position of the window are a distance within it.
LEMMA DistanceType ==
    ASSUME NEW i \in WordIndex, NEW b \in Positions
    PROVE  Distance(i, b) \in Nat /\ Distance(i, b) < WindowSize
<1>1. i \in Nat /\ b \in Nat /\ b < WordBits /\ i + 1 <= Words
    BY WindowAssumption DEF WordIndex, Positions
<1>2. (i + 1) * WordBits <= Words * WordBits
    BY <1>1, Scale, WindowAssumption
<1>3. (i + 1) * WordBits = i * WordBits + WordBits /\ i * WordBits \in Nat
    BY <1>1, WindowAssumption
<1> QED
    BY <1>1, <1>2, <1>3, WindowAssumption DEF Distance, WindowSize

\* The cleared window is a bit array.
LEMMA NoBitsType == NoBits \in BitArray
BY DEF NoBits, BitArray

\* set_bit adds the bit at its distance and no other.
LEMMA SetBitAt ==
    ASSUME NEW bits \in BitArray, NEW d \in Nat, d < WindowSize
    PROVE  /\ SetBit(bits, d) \in BitArray
           /\ \A i \in WordIndex, b \in Positions :
                 b \in SetBit(bits, d)[i] <=> b \in bits[i] \/ Distance(i, b) = d
<1> DEFINE w == d \div WordBits
           p == d % WordBits
<1>1. w \in WordIndex /\ p \in Positions /\ d = w * WordBits + p
    BY InWindow, Split
<1>2. SetBit(bits, d) = [bits EXCEPT ![w] = @ \cup {p}]
    BY DEF SetBit
<1> HIDE DEF w, p
<1>3. SetBit(bits, d) \in BitArray
    BY <1>1, <1>2 DEF BitArray
<1>4. ASSUME NEW i \in WordIndex, NEW b \in Positions
      PROVE  b \in SetBit(bits, d)[i] <=> b \in bits[i] \/ Distance(i, b) = d
    <2>1. i \in Nat /\ w \in Nat
        BY <1>1 DEF WordIndex
    <2>2. Distance(i, b) = d <=> i = w /\ b = p
        BY <1>1, <2>1, SplitUnique DEF Distance
    <2>3. b \in SetBit(bits, d)[i] <=> b \in bits[i] \/ (i = w /\ b = p)
        BY <1>1, <1>2 DEF BitArray
    <2> QED
        BY <2>2, <2>3
<1> QED
    BY <1>3, <1>4

\* get_bit reads the bit at its distance.
LEMMA GetBitAt ==
    ASSUME NEW bits \in BitArray, NEW i \in WordIndex, NEW b \in Positions
    PROVE  GetBit(bits, Distance(i, b)) <=> b \in bits[i]
<1> DEFINE d == Distance(i, b)
           w == d \div WordBits
           p == d % WordBits
<1>1. d \in Nat /\ d < WindowSize
    BY DistanceType
<1>2. w \in Nat /\ p \in Positions /\ d = w * WordBits + p
    BY <1>1, Split
<1>3. i \in Nat /\ d = i * WordBits + b
    BY DEF WordIndex, Distance
<1>4. GetBit(bits, d) <=> p \in bits[w]
    BY DEF GetBit
<1> HIDE DEF d, w, p
<1>5. w = i /\ p = b
    BY <1>2, <1>3, SplitUnique
<1> QED
    BY <1>4, <1>5 DEF d

\* shift moves the bit at distance d - n to distance d, across words, and
\* clears the distances below n.
LEMMA ShiftAt ==
    ASSUME NEW bits \in BitArray, NEW n \in Nat
    PROVE  /\ Shift(bits, n) \in BitArray
           /\ \A i \in WordIndex, b \in Positions :
                 b \in Shift(bits, n)[i] <=>
                    \E j \in WordIndex, a \in Positions :
                       a \in bits[j] /\ Distance(i, b) = Distance(j, a) + n
<1> DEFINE words == n \div WordBits
           off == n % WordBits
<1>1. words \in Nat /\ off \in Positions /\ n = words * WordBits + off
    BY Split
<1>2. \A i \in WordIndex : Shift(bits, n)[i] = ShiftedWord(bits, n, i)
    BY DEF Shift
<1>3. ASSUME NEW i \in WordIndex, NEW b \in Positions
      PROVE  b \in ShiftedWord(bits, n, i) <=>
                \/ i >= words /\ b >= off /\ (b - off) \in bits[i - words]
                \/ off > 0 /\ i > words /\ (b + (WordBits - off)) \in bits[i - words - 1]
    BY DEF ShiftedWord, ShiftLeft, ShiftRight
<1>4. Shift(bits, n) \in BitArray
    BY DEF Shift, ShiftedWord, ShiftLeft, ShiftRight, BitArray
<1> HIDE DEF words, off
<1>5. ASSUME NEW i \in WordIndex, NEW b \in Positions
      PROVE  b \in ShiftedWord(bits, n, i) <=>
                \E j \in WordIndex, a \in Positions :
                   a \in bits[j] /\ Distance(i, b) = Distance(j, a) + n
    <2>1. /\ i \in Nat /\ b \in Nat /\ off \in Nat /\ b < WordBits /\ off < WordBits
          /\ i < Words
        BY <1>1, WindowAssumption DEF WordIndex, Positions
    <2>2. ASSUME i >= words, b >= off, (b - off) \in bits[i - words]
          PROVE  \E j \in WordIndex, a \in Positions :
                    a \in bits[j] /\ Distance(i, b) = Distance(j, a) + n
        <3>1. (i - words) \in WordIndex /\ (b - off) \in Positions
            BY <1>1, <2>1, <2>2, WindowAssumption DEF WordIndex, Positions
        <3>2. Distance(i, b) = Distance(i - words, b - off) + n
            BY <1>1, <2>1, <2>2, WindowAssumption DEF Distance
        <3> QED
            BY <2>2, <3>1, <3>2
    <2>3. ASSUME off > 0, i > words, (b + (WordBits - off)) \in bits[i - words - 1]
          PROVE  \E j \in WordIndex, a \in Positions :
                    a \in bits[j] /\ Distance(i, b) = Distance(j, a) + n
        <3>1. (i - words - 1) \in WordIndex
            BY <1>1, <2>1, <2>3, WindowAssumption DEF WordIndex
        <3>2. (b + (WordBits - off)) \in Positions
            BY <2>3, <3>1 DEF BitArray
        <3>3. Distance(i, b) = Distance(i - words - 1, b + (WordBits - off)) + n
            BY <1>1, <2>1, <2>3, WindowAssumption DEF Distance
        <3> QED
            BY <2>3, <3>1, <3>2, <3>3
    <2>4. ASSUME NEW j \in WordIndex, NEW a \in Positions, a \in bits[j],
                 Distance(i, b) = Distance(j, a) + n
          PROVE  \/ i >= words /\ b >= off /\ (b - off) \in bits[i - words]
                 \/ off > 0 /\ i > words /\ (b + (WordBits - off)) \in bits[i - words - 1]
        <3>1. j \in Nat /\ a \in Nat /\ a < WordBits
            BY WindowAssumption DEF WordIndex, Positions
        <3>2. CASE a + off < WordBits
            <4>1. (j + words) * WordBits + (a + off) = i * WordBits + b
                BY <1>1, <2>1, <2>4, <3>1, WindowAssumption DEF Distance
            <4>2. (a + off) \in Positions /\ (j + words) \in Nat
                BY <1>1, <2>1, <3>1, <3>2, WindowAssumption DEF Positions
            <4>3. j + words = i /\ a + off = b
                BY <2>1, <4>1, <4>2, SplitUnique
            <4> QED
                BY <1>1, <2>1, <2>4, <3>1, <4>3
        <3>3. CASE a + off >= WordBits
            <4> DEFINE word == j + words + 1
                       position == a + off - WordBits
            <4>1. word * WordBits + position = i * WordBits + b
                BY <1>1, <2>1, <2>4, <3>1, WindowAssumption DEF Distance
            <4>2. position \in Positions /\ word \in Nat
                BY <1>1, <2>1, <3>1, <3>3, WindowAssumption DEF Positions
            <4> HIDE DEF word, position
            <4>3. word = i /\ position = b
                BY <2>1, <4>1, <4>2, SplitUnique
            <4> USE DEF word, position
            <4>4. i - words - 1 = j /\ b + (WordBits - off) = a /\ off > 0 /\ i > words
                BY <1>1, <2>1, <3>1, <4>3, WindowAssumption
            <4> QED
                BY <2>4, <4>4
        <3> QED
            BY <2>1, <3>1, <3>2, <3>3, WindowAssumption
    <2> QED
        BY <1>3, <2>2, <2>3, <2>4
<1> QED
    BY <1>2, <1>4, <1>5

-----------------------------------------------------------------------------
(* The inductive invariant.                                                *)

\* No record has been delivered twice: what makes the bit array exact is that
\* it is consulted before a delivery, and what keeps this is that it is exact.
AtMostOnce == \A c \in Counters : deliveries[c] \in {0, 1}

Inv == TypeOK /\ CountersAreFresh /\ WindowIsExact /\ AtMostOnce

\* A record the window accepts has not been delivered, because a delivered one
\* is too old or has its bit set.
LEMMA AcceptedIsFresh ==
    ASSUME Inv, NEW c \in Counters, Accepts(window, c)
    PROVE  ~Delivered(c)
<1> SUFFICES ASSUME Delivered(c) PROVE FALSE
    OBVIOUS
<1>1. c \in Nat /\ window.highest \in Nat /\ window.bits \in BitArray
    BY DEF Inv, TypeOK, ReplayWindow, BitArray, Counters
<1>2. window.initialized /\ c <= window.highest
    BY DEF Inv, CountersAreFresh
<1> DEFINE d == window.highest - c
<1>3. d \in Nat /\ d < WindowSize /\ ~GetBit(window.bits, d)
    BY <1>1, <1>2 DEF Accepts
<1> DEFINE i == d \div WordBits
           b == d % WordBits
<1>4. i \in WordIndex /\ b \in Positions /\ d = i * WordBits + b
    BY <1>3, InWindow, Split
<1>5. b \notin window.bits[i]
    BY <1>3 DEF GetBit
<1> HIDE DEF i, b
<1>6. window.highest - (i * WordBits + b) = c /\ i * WordBits + b <= window.highest
    BY <1>1, <1>2, <1>3, <1>4
<1> QED
    BY <1>2, <1>4, <1>5, <1>6 DEF Inv, WindowIsExact

\* An undelivered record within the window is accepted: its bit is clear.
LEMMA FreshIsAccepted ==
    ASSUME Inv, NEW c \in Counters, ~Delivered(c),
           window.initialized => c + WindowSize > window.highest
    PROVE  Accepts(window, c)
<1>1. c \in Nat /\ window.highest \in Nat /\ WindowSize \in Nat
    BY WindowAssumption DEF Inv, TypeOK, ReplayWindow, Counters, WindowSize
<1>2. CASE ~window.initialized \/ c > window.highest
    BY <1>2 DEF Accepts
<1>3. CASE window.initialized /\ c <= window.highest
    <2> DEFINE d == window.highest - c
               i == d \div WordBits
               b == d % WordBits
    <2>1. d \in Nat /\ d < WindowSize
        BY <1>1, <1>3
    <2>2. i \in WordIndex /\ b \in Positions /\ d = i * WordBits + b
        BY <2>1, InWindow, Split
    <2>3. GetBit(window.bits, d) <=> b \in window.bits[i]
        BY DEF GetBit
    <2> HIDE DEF i, b
    <2>4. window.highest - (i * WordBits + b) = c
        BY <1>1, <1>3, <2>2
    <2>5. b \notin window.bits[i]
        BY <1>3, <2>2, <2>4 DEF Inv, WindowIsExact
    <2> QED
        BY <1>3, <2>1, <2>3, <2>5 DEF Accepts
<1> QED
    BY <1>1, <1>2, <1>3

\* The first record: only the bit at distance zero is set.
LEMMA FirstIsExact ==
    ASSUME Inv, NEW c \in Counters, ~window.initialized,
           window' = Recorded(window, c), deliveries' = [deliveries EXCEPT ![c] = @ + 1]
    PROVE  window' \in ReplayWindow /\ WindowIsExact' /\ window'.highest = c
           /\ window'.initialized
<1>1. window' = [highest |-> c, bits |-> SetBit(NoBits, 0), initialized |-> TRUE]
    BY DEF Recorded
<1>2. /\ 0 < WindowSize
      /\ deliveries \in [Counters -> Nat] /\ c \in Nat
    BY WindowAssumption DEF WindowSize, Inv, TypeOK, Counters
<1>3. /\ SetBit(NoBits, 0) \in BitArray
      /\ \A i \in WordIndex, b \in Positions :
            b \in SetBit(NoBits, 0)[i] <=> Distance(i, b) = 0
    BY <1>2, NoBitsType, SetBitAt DEF NoBits
<1>4. ASSUME NEW i \in WordIndex, NEW b \in Positions
      PROVE  b \in window'.bits[i] <=>
                /\ Distance(i, b) <= c
                /\ deliveries'[c - Distance(i, b)] > 0
    <2>1. b \in window'.bits[i] <=> Distance(i, b) = 0
        BY <1>1, <1>3
    <2>2. Distance(i, b) \in Nat
        BY DistanceType
    <2>3. deliveries'[c] > 0
        BY <1>2
    <2>4. ASSUME Distance(i, b) # 0, Distance(i, b) <= c
          PROVE  ~(deliveries'[c - Distance(i, b)] > 0)
        <3>1. c - Distance(i, b) \in Counters /\ c - Distance(i, b) # c
            BY <1>2, <2>2, <2>4, LimitAssumption DEF Counters
        <3>2. ~Delivered(c - Distance(i, b))
            BY <3>1 DEF Inv, CountersAreFresh
        <3> QED
            BY <1>2, <3>1, <3>2 DEF Delivered
    <2> QED
        BY <1>2, <2>1, <2>2, <2>3, <2>4
<1>5. window' \in ReplayWindow
    BY <1>1, <1>2, <1>3 DEF ReplayWindow, BitArray
<1>6. window'.highest = c /\ window'.initialized
    BY <1>1
<1> QED
    BY <1>4, <1>5, <1>6 DEF WindowIsExact, Delivered, Distance

\* A record above the window: the delivered records keep their bits at their
\* new distances, whether the window is shifted or jumped over.
LEMMA AdvanceIsExact ==
    ASSUME Inv, NEW c \in Counters, window.initialized, c > window.highest,
           window' = Recorded(window, c), deliveries' = [deliveries EXCEPT ![c] = @ + 1]
    PROVE  window' \in ReplayWindow /\ WindowIsExact' /\ window'.highest = c
           /\ window'.initialized
<1> DEFINE n == c - window.highest
           moved == Advanced(window, c)
<1>1. /\ c \in Nat /\ window.highest \in Nat /\ window.bits \in BitArray /\ n \in Nat /\ n > 0
      /\ deliveries \in [Counters -> Nat] /\ WindowSize \in Nat /\ 0 < WindowSize
    BY WindowAssumption DEF Inv, TypeOK, ReplayWindow, BitArray, Counters, WindowSize
<1>2. window' = [window EXCEPT !.highest = c, !.bits = SetBit(moved, 0)]
    BY DEF Recorded
<1>3. /\ moved \in BitArray
      /\ \A i \in WordIndex, b \in Positions :
            b \in moved[i] <=>
               \E j \in WordIndex, a \in Positions :
                  a \in window.bits[j] /\ Distance(i, b) = Distance(j, a) + n
    <2>1. CASE n >= WindowSize
        <3>1. moved = NoBits
            BY <2>1 DEF Advanced
        <3>2. ASSUME NEW i \in WordIndex, NEW b \in Positions,
                     NEW j \in WordIndex, NEW a \in Positions
              PROVE  Distance(i, b) # Distance(j, a) + n
            BY <1>1, <2>1, DistanceType
        <3>3. \A i \in WordIndex : moved[i] = {}
            BY <3>1 DEF NoBits
        <3> HIDE DEF moved
        <3> QED
            BY <3>1, <3>2, <3>3, NoBitsType
    <2>2. CASE ~(n >= WindowSize)
        <3>1. moved = Shift(window.bits, n)
            BY <2>2 DEF Advanced
        <3> HIDE DEF moved
        <3> QED
            BY <1>1, <3>1, ShiftAt
    <2> QED
        BY <2>1, <2>2
<1> HIDE DEF moved
<1>4. /\ SetBit(moved, 0) \in BitArray
      /\ \A i \in WordIndex, b \in Positions :
            b \in SetBit(moved, 0)[i] <=> b \in moved[i] \/ Distance(i, b) = 0
    BY <1>1, <1>3, SetBitAt
<1>5. /\ window' \in ReplayWindow /\ window'.highest = c /\ window'.initialized
      /\ window'.bits = SetBit(moved, 0)
    BY <1>1, <1>2, <1>4 DEF Inv, TypeOK, ReplayWindow, BitArray
<1>6. ASSUME NEW i \in WordIndex, NEW b \in Positions
      PROVE  b \in window'.bits[i] <=>
                /\ Distance(i, b) <= c
                /\ deliveries'[c - Distance(i, b)] > 0
    <2> DEFINE d == Distance(i, b)
    <2>1. d \in Nat /\ d < WindowSize
        BY DistanceType
    <2>2. CASE d = 0
        <3>1. deliveries'[c - d] > 0
            BY <1>1, <2>2
        <3> QED
            BY <1>1, <1>4, <1>5, <2>2, <3>1
    <2>3. CASE d # 0 /\ d < n
        <3>1. b \notin window'.bits[i]
            <4>1. \A j \in WordIndex, a \in Positions : d # Distance(j, a) + n
                BY <1>1, <2>1, <2>3, DistanceType
            <4> QED
                BY <1>3, <1>4, <1>5, <2>3, <4>1
        <3>2. ASSUME d <= c PROVE ~(deliveries'[c - d] > 0)
            <4>1. c \in Counters /\ c - d \in Nat /\ c - d < c /\ c - d > window.highest
                BY <1>1, <2>1, <2>3, <3>2
            <4>2. c - d \in Counters /\ c - d # c
                BY <1>1, <4>1, LimitAssumption DEF Counters
            <4>3. ~Delivered(c - d)
                BY <1>1, <4>1, <4>2 DEF Inv, CountersAreFresh, Counters
            <4> QED
                BY <1>1, <4>2, <4>3 DEF Delivered
        <3> QED
            BY <3>1, <3>2
    <2>4. CASE d # 0 /\ d >= n
        <3> DEFINE e == d - n
                   j == e \div WordBits
                   a == e % WordBits
        <3>1. e \in Nat /\ e < WindowSize /\ d = e + n
            BY <1>1, <2>1, <2>4
        <3>2. j \in WordIndex /\ a \in Positions /\ e = Distance(j, a)
            BY <3>1, InWindow, Split DEF Distance
        <3> HIDE DEF j, a
        <3>3. b \in window'.bits[i] <=> a \in window.bits[j]
            <4>1. ASSUME NEW k \in WordIndex, NEW p \in Positions, d = Distance(k, p) + n
                  PROVE  k = j /\ p = a
                <5>1. Distance(k, p) = Distance(j, a) /\ k \in Nat /\ j \in Nat
                    BY <1>1, <3>1, <3>2, <4>1, DistanceType DEF WordIndex
                <5> QED
                    BY <3>2, <5>1, SplitUnique DEF Distance
            <4>2. b \in moved[i] <=> a \in window.bits[j]
                BY <1>3, <3>1, <3>2, <4>1
            <4> QED
                BY <1>4, <1>5, <2>4, <4>2
        <3>4. a \in window.bits[j] <=> e <= window.highest /\ Delivered(window.highest - e)
            BY <3>2 DEF Inv, WindowIsExact, Distance
        <3>5. (e <= window.highest <=> d <= c) /\ window.highest - e = c - d
            BY <1>1, <2>1, <3>1
        <3>6. ASSUME d <= c PROVE deliveries'[c - d] = deliveries[c - d]
            <4>1. c - d \in Counters /\ c - d # c
                BY <1>1, <2>1, <2>4, <3>6, LimitAssumption DEF Counters
            <4> QED
                BY <1>1, <4>1
        <3> QED
            BY <3>3, <3>4, <3>5, <3>6 DEF Delivered
    <2> QED
        BY <1>1, <2>1, <2>2, <2>3, <2>4
<1> QED
    BY <1>5, <1>6 DEF WindowIsExact, Delivered, Distance

\* A late record within the window: its bit is set and no other changes.
LEMMA LateIsExact ==
    ASSUME Inv, NEW c \in Counters, window.initialized, c <= window.highest,
           Accepts(window, c),
           window' = Recorded(window, c), deliveries' = [deliveries EXCEPT ![c] = @ + 1]
    PROVE  window' \in ReplayWindow /\ WindowIsExact' /\ window'.highest = window.highest
           /\ window'.initialized
<1> DEFINE d == window.highest - c
<1>1. /\ c \in Nat /\ window.highest \in Nat /\ window.bits \in BitArray
      /\ deliveries \in [Counters -> Nat] /\ d \in Nat /\ ~(c > window.highest)
    BY DEF Inv, TypeOK, ReplayWindow, BitArray, Counters
<1>2. d < WindowSize
    BY <1>1 DEF Accepts
<1>3. window' = [window EXCEPT !.bits = SetBit(@, d)]
    BY <1>1 DEF Recorded
<1>4. /\ SetBit(window.bits, d) \in BitArray
      /\ \A i \in WordIndex, b \in Positions :
            b \in SetBit(window.bits, d)[i] <=> b \in window.bits[i] \/ Distance(i, b) = d
    BY <1>1, <1>2, SetBitAt
<1>5. /\ window' \in ReplayWindow /\ window'.highest = window.highest
      /\ window'.initialized /\ window'.bits = SetBit(window.bits, d)
    BY <1>1, <1>3, <1>4 DEF Inv, TypeOK, ReplayWindow, BitArray
<1>6. ASSUME NEW i \in WordIndex, NEW b \in Positions
      PROVE  b \in window'.bits[i] <=>
                /\ Distance(i, b) <= window.highest
                /\ deliveries'[window.highest - Distance(i, b)] > 0
    <2> DEFINE e == Distance(i, b)
    <2>1. e \in Nat
        BY DistanceType
    <2>2. b \in window.bits[i] <=> e <= window.highest /\ Delivered(window.highest - e)
        BY DEF Inv, WindowIsExact, Distance
    <2>3. CASE e = d
        BY <1>1, <1>4, <1>5, <2>3
    <2>4. CASE e # d
        <3>1. ASSUME e <= window.highest
              PROVE  deliveries'[window.highest - e] = deliveries[window.highest - e]
            <4>1. window.highest - e # c
                BY <1>1, <2>1, <2>4
            <4> QED
                BY <1>1, <4>1
        <3> QED
            BY <1>4, <1>5, <2>2, <2>4, <3>1 DEF Delivered
    <2> QED
        BY <2>3, <2>4
<1> QED
    BY <1>5, <1>6 DEF WindowIsExact, Delivered, Distance

\* Both operations of the codec pair preserve the inductive invariant.
LEMMA CodecStep == Inv /\ [Next]_codecVars => Inv'
<1> SUFFICES ASSUME Inv, [Next]_codecVars PROVE Inv'
    OBVIOUS
<1>1. ASSUME NEW fails \in BOOLEAN, EncryptPacket(fails) PROVE Inv'
    <2>1. counter \in Counters /\ counter' = counter + 1 /\ counter + 1 <= CounterLimit
        BY <1>1, LimitAssumption DEF EncryptPacket, Inv, TypeOK, Counters
    <2>2. wire' \subseteq wire \cup {counter} /\ wire \subseteq wire'
        BY <1>1 DEF EncryptPacket
    <2>3. window' = window /\ deliveries' = deliveries
        BY <1>1 DEF EncryptPacket
    <2>4. TypeOK'
        BY <2>1, <2>2, <2>3 DEF Inv, TypeOK
    <2>5. \A c \in wire' : c < counter'
        BY <2>1, <2>2 DEF Inv, TypeOK, CountersAreFresh, Counters
    <2>6. CountersAreFresh'
        BY <2>2, <2>3, <2>5 DEF Inv, CountersAreFresh, Delivered
    <2> QED
        BY <2>3, <2>4, <2>6 DEF Inv, WindowIsExact, AtMostOnce, Delivered
<1>2. ASSUME NEW c \in Counters, NEW padding \in Paddings, DecryptPacket(c, padding)
      PROVE  Inv'
    <2>1. /\ c \in wire /\ Accepts(window, c) /\ window' = Recorded(window, c)
          /\ deliveries' = [deliveries EXCEPT ![c] = @ + 1]
          /\ counter' = counter /\ wire' = wire
        BY <1>2 DEF DecryptPacket
    <2>2. deliveries[c] = 0
        BY AcceptedIsFresh, <2>1 DEF Inv, AtMostOnce, Delivered
    <2>3. /\ deliveries \in [Counters -> Nat] /\ c \in Nat /\ window.highest \in Nat
          /\ window.initialized \in BOOLEAN
        BY DEF Inv, TypeOK, Counters, ReplayWindow
    <2>4. deliveries' \in [Counters -> Nat] /\ AtMostOnce' /\ deliveries'[c] = 1
        BY <2>1, <2>2, <2>3 DEF Inv, AtMostOnce
    <2>5. /\ window' \in ReplayWindow /\ WindowIsExact' /\ window'.initialized
          /\ window'.highest = IF ~window.initialized \/ c > window.highest
                               THEN c ELSE window.highest
        <3>1. CASE ~window.initialized
            BY <2>1, <3>1, FirstIsExact
        <3>2. CASE window.initialized /\ c > window.highest
            BY <2>1, <3>2, AdvanceIsExact
        <3>3. CASE window.initialized /\ ~(c > window.highest)
            <4>1. window.initialized /\ c <= window.highest
                BY <2>3, <3>3
            <4> QED
                BY <2>1, <3>3, <4>1, LateIsExact
        <3> QED
            BY <2>3, <3>1, <3>2, <3>3
    <2>6. TypeOK'
        BY <2>1, <2>4, <2>5 DEF Inv, TypeOK
    <2>7. \A x \in Counters : deliveries'[x] > 0 <=> x = c \/ Delivered(x)
        BY <2>1, <2>2, <2>3, <2>4 DEF Delivered
    <2>8. ASSUME NEW x \in Counters, deliveries'[x] > 0
          PROVE  x \in wire' /\ x <= window'.highest
        <3>1. x \in Nat
            BY DEF Counters
        <3>2. CASE x = c
            BY <2>1, <2>3, <2>5, <3>2
        <3>3. CASE Delivered(x)
            <4>1. x \in wire /\ x <= window.highest /\ window.initialized
                BY <3>3 DEF Inv, CountersAreFresh
            <4> QED
                BY <2>1, <2>3, <2>5, <3>1, <4>1
        <3> QED
            BY <2>7, <2>8, <3>2, <3>3
    <2>9. window'.highest \in Counters /\ deliveries'[window'.highest] > 0
        <3>1. CASE window'.highest = c
            BY <2>7, <3>1
        <3>2. CASE window'.highest # c
            <4>1. window'.highest = window.highest /\ window.initialized
                BY <2>5, <3>2
            <4>2. window.highest \in Counters /\ Delivered(window.highest)
                BY <4>1 DEF Inv, CountersAreFresh
            <4> QED
                BY <2>7, <4>1, <4>2
        <3> QED
            BY <3>1, <3>2
    <2>10. CountersAreFresh'
        BY <2>1, <2>5, <2>8, <2>9 DEF Inv, CountersAreFresh, Delivered
    <2> QED
        BY <2>4, <2>5, <2>6, <2>10 DEF Inv
<1>3. CASE UNCHANGED codecVars
    BY <1>3 DEF codecVars, Inv, TypeOK, CountersAreFresh, WindowIsExact, AtMostOnce, Delivered
<1> QED
    BY <1>1, <1>2, <1>3 DEF Next

\* The new codecs of a session satisfy the inductive invariant.
LEMMA CodecInit == Init => Inv
<1> SUFFICES ASSUME Init PROVE Inv
    OBVIOUS
<1>1. TypeOK
    BY NoBitsType, LimitAssumption DEF Init, TypeOK, ReplayWindow, BitArray
<1>2. ~window.initialized /\ wire = {} /\ \A c \in Counters : deliveries[c] = 0
    BY DEF Init
<1> QED
    BY <1>1, <1>2 DEF Inv, CountersAreFresh, WindowIsExact, AtMostOnce, Delivered

\* The inductive invariant holds throughout.
LEMMA CodecInvariant == Spec => []Inv
BY CodecInit, CodecStep, PTL DEF Spec

-----------------------------------------------------------------------------
\* For every word size, window length and counter limit, the bits of the replay
\* window are exactly the delivered records within it (check_and_record, shift).
THEOREM ExactWindow == Spec => []WindowIsExact
<1>1. Inv => WindowIsExact
    BY DEF Inv
<1> QED
    BY <1>1, CodecInvariant, PTL

\* For every word size, window length and counter limit, no undelivered record
\* within the window is ever rejected as a replay (check_and_record).
THEOREM ReorderingTolerated == Spec => []NoFalseReplay
<1>1. Inv => NoFalseReplay
    BY FreshIsAccepted DEF NoFalseReplay, Inv, TypeOK
<1> QED
    BY <1>1, CodecInvariant, PTL

\* The two codecs implement the promise of the record layer: encrypt never uses
\* a counter for two records and decrypt never returns a record twice.
THEOREM ImplementsDelivery == Spec => DeliversOnce
<1>1. Init => Delivery!Init
    BY DEF Init, Delivery!Init
<1>2. Inv /\ [Next]_codecVars => [Delivery!Next]_(Delivery!recordVars)
    <2> SUFFICES ASSUME Inv, [Next]_codecVars
                 PROVE  [Delivery!Next]_(Delivery!recordVars)
        OBVIOUS
    <2>1. ASSUME NEW fails \in BOOLEAN, EncryptPacket(fails)
          PROVE  [Delivery!Next]_(Delivery!recordVars)
        <3>1. CASE fails
            BY <2>1, <3>1 DEF EncryptPacket, Delivery!recordVars
        <3>2. CASE ~fails
            <4>1. counter \in Counters /\ counter \notin wire
                BY <2>1, LimitAssumption
                   DEF EncryptPacket, Inv, TypeOK, CountersAreFresh, Counters
            <4>2. Delivery!Send(counter)
                BY <2>1, <3>2, <4>1 DEF EncryptPacket, Delivery!Send
            <4> QED
                BY <4>1, <4>2 DEF Delivery!Next
        <3> QED
            BY <3>1, <3>2
    <2>2. ASSUME NEW c \in Counters, NEW padding \in Paddings, DecryptPacket(c, padding)
          PROVE  [Delivery!Next]_(Delivery!recordVars)
        <3>1. deliveries[c] = 0
            BY <2>2, AcceptedIsFresh DEF DecryptPacket, Inv, AtMostOnce, Delivered
        <3>2. Delivery!Deliver(c)
            BY <2>2, <3>1 DEF DecryptPacket, Delivery!Deliver, Inv, TypeOK
        <3> QED
            BY <3>2 DEF Delivery!Next
    <2>3. CASE UNCHANGED codecVars
        BY <2>3 DEF codecVars, Delivery!recordVars
    <2> QED
        BY <2>1, <2>2, <2>3 DEF Next
<1> QED
    BY <1>1, <1>2, CodecInvariant, PTL DEF Spec, DeliversOnce, Delivery!Spec

-----------------------------------------------------------------------------
(* The connections of a server: ServerProofs, for the values that          *)
(* ServerConnections gives to the constants.  One instance for several     *)
(* devices and one source, one for joined streams and competing sources.   *)

PA == INSTANCE ServerProofs WITH
  Kinds <- {"udp"}, Key <- {"ann1", "ann2", "bob"},
  User <- [ann1 |-> "ann", ann2 |-> "ann", bob |-> "bob"],
  Fixed <- [ann1 |-> 0, ann2 |-> 1, bob |-> 0],
  Subnets <- [ann1 |-> {}, ann2 |-> {"lan"}, bob |-> {"lan"}], Mac <- {}, Addr <- 1..3,
  MaxSessions <- 2, MaxClients <- 2, MaxStreams <- 1, Sid <- 1..3, MaxJoins <- 0,
  lock <- ssLock, step <- ssStep, last <- ssLast, sess <- ssSess, byIp <- ssByIp,
  lease <- ssLease, victims <- ssVictims, retiring <- ssRetiring, routes <- ssRoutes,
  pendingDel <- ssPendingDel, kernel <- ssKernel, streams <- ssStreams,
  lookups <- ssLookups, joining <- ssJoining, primary <- ssPrimary, torn <- ssTorn,
  flagged <- ssFlagged,
  Addrs <- {"a1"}, Cap <- 1, HelloLen <- 5, MaxReemits <- 1, Window <- 1, MaxHs <- 1,
  MaxRecv <- 7, MaxFaults <- 1, Dup <- TRUE, Ticks <- TRUE,
  cl <- hsCl, net <- hsNet, part <- hsPart, dir <- hsDir, task <- hsTask,
  made <- hsMade, faults <- hsFaults, sentOk <- hsSentOk, cover <- hsCover,
  credit <- hsCredit

PB == INSTANCE ServerProofs WITH
  Kinds <- {"tcp"}, Key <- {"ann1"},
  User <- [ann1 |-> "ann", ann2 |-> "ann", bob |-> "bob"],
  Fixed <- [ann1 |-> 0, ann2 |-> 1, bob |-> 0],
  Subnets <- [ann1 |-> {}, ann2 |-> {"lan"}, bob |-> {"lan"}], Mac <- {}, Addr <- 1..2,
  MaxSessions <- 1, MaxClients <- 2, MaxStreams <- 2, Sid <- 1..2, MaxJoins <- 2,
  lock <- ssLock, step <- ssStep, last <- ssLast, sess <- ssSess, byIp <- ssByIp,
  lease <- ssLease, victims <- ssVictims, retiring <- ssRetiring, routes <- ssRoutes,
  pendingDel <- ssPendingDel, kernel <- ssKernel, streams <- ssStreams,
  lookups <- ssLookups, joining <- ssJoining, primary <- ssPrimary, torn <- ssTorn,
  flagged <- ssFlagged,
  Addrs <- {"a1", "a2"}, Cap <- 1, HelloLen <- 5, MaxReemits <- 1, Window <- 0,
  MaxHs <- 1, MaxRecv <- 2, MaxFaults <- 0, Dup <- FALSE, Ticks <- FALSE,
  cl <- hsCl, net <- hsNet, part <- hsPart, dir <- hsDir, task <- hsTask,
  made <- hsMade, faults <- hsFaults, sentOk <- hsSentOk, cover <- hsCover,
  credit <- hsCredit

\* The sessions of this instance are those of SU, and its handshakes those of HT:
\* expanded, they are the same formulas.
LEMMA PASessionsStart == ASSUME SU!Init PROVE PA!Init
BY Zenon DEF SU!Init, PA!Init, SU!Blank, PA!Blank, SU!Cidr, PA!Cidr, SU!NoAddr, PA!NoAddr,
     SU!NoSession, PA!NoSession
LEMMA PASessionsStep == ASSUME SU!Next PROVE PA!Next
BY Zenon DEF SU!Next, PA!Next, SU!Allocate, PA!Allocate, SU!Answer, PA!Answer, SU!AnswerFails,
     PA!AnswerFails, SU!AttachPrimary, PA!AttachPrimary, SU!Begin, PA!Begin,
     SU!DhcpLease, PA!DhcpLease, SU!DhcpRelease, PA!DhcpRelease, SU!Evict, PA!Evict,
     SU!Exhausted, PA!Exhausted, SU!Expel, PA!Expel, SU!Flag, PA!Flag, SU!Insert,
     PA!Insert, SU!JoinAttach, PA!JoinAttach, SU!JoinLookup, PA!JoinLookup, SU!Kick,
     PA!Kick, SU!Program, PA!Program, SU!ProgramFails, PA!ProgramFails, SU!ReapStale,
     PA!ReapStale, SU!Retired, PA!Retired, SU!Room, PA!Room, SU!SetupFails,
     PA!SetupFails, SU!StreamEnds, PA!StreamEnds, SU!Teardown, PA!Teardown, SU!TooMany,
     PA!TooMany, SU!Violate, PA!Violate, SU!GiveBack, PA!GiveBack, SU!Grants, PA!Grants,
     SU!flow, PA!flow, SU!me, PA!me, SU!self, PA!self, SU!Unlocked, PA!Unlocked,
     SU!owned, PA!owned, SU!Revoked, PA!Revoked, SU!Rollback, PA!Rollback, SU!Attached,
     PA!Attached, SU!admission, PA!admission, SU!Blank, PA!Blank, SU!Victims,
     PA!Victims, SU!NoAddr, PA!NoAddr, SU!Released, PA!Released, SU!IsCurrent,
     PA!IsCurrent, SU!RoutesOf, PA!RoutesOf, SU!Unmapped, PA!Unmapped, SU!Unrouted,
     PA!Unrouted, SU!Retire, PA!Retire, SU!Live, PA!Live, SU!Cidr, PA!Cidr, SU!Keys,
     PA!Keys, SU!NoSession, PA!NoSession, SU!MayAttach, PA!MayAttach,
     SU!OldestBeyondCap, PA!OldestBeyondCap, SU!Addresses, PA!Addresses, SU!Cardinality,
     PA!Cardinality
LEMMA PASessionsHold == ASSUME PA!SessionsOwnTheirResources PROVE SU!SessionsOwnTheirResources
BY Zenon DEF SU!SessionsOwnTheirResources, PA!SessionsOwnTheirResources, SU!CapsHold,
     PA!CapsHold, SU!LiveSessionsOwnTheirAddress, PA!LiveSessionsOwnTheirAddress,
     SU!NoOrphanLease, PA!NoOrphanLease, SU!RoutesFollowSessions,
     PA!RoutesFollowSessions, SU!TypeOK, PA!TypeOK, SU!Live, PA!Live, SU!NoSession,
     PA!NoSession, SU!Keys, PA!Keys, SU!NoAddr, PA!NoAddr, SU!Cidr, PA!Cidr,
     SU!Cardinality, PA!Cardinality
LEMMA PASessionsEnd == ASSUME PA!EndsOnItsOwn PROVE SU!EndsOnItsOwn
BY Zenon DEF SU!EndsOnItsOwn, PA!EndsOnItsOwn, SU!LeavesOnItsOwn, PA!LeavesOnItsOwn,
     SU!NoStreamAfterKick, PA!NoStreamAfterKick, SU!Kick, PA!Kick, SU!Live, PA!Live,
     SU!self, PA!self, SU!Retire, PA!Retire, SU!Revoked, PA!Revoked, SU!flow, PA!flow,
     SU!NoSession, PA!NoSession, SU!RoutesOf, PA!RoutesOf, SU!Unmapped, PA!Unmapped,
     SU!Unrouted, PA!Unrouted, SU!Addresses, PA!Addresses, SU!Cidr, PA!Cidr, SU!NoAddr,
     PA!NoAddr
LEMMA PAHandshakesStart == ASSUME HT!Init PROVE PA!HS!Init
BY Zenon DEF HT!Init, PA!HS!Init, HT!Frags, PA!HS!Frags, HT!NoEntry, PA!HS!NoEntry, HT!NoTask,
     PA!HS!NoTask, HT!None, PA!HS!None
LEMMA PAHandshakesStep == ASSUME HT!Next PROVE PA!HS!Next
BY Zenon DEF HT!Next, PA!HS!Next, HT!AuthDecides, PA!HS!AuthDecides, HT!AuthEnds,
     PA!HS!AuthEnds, HT!AuthFails, PA!HS!AuthFails, HT!AuthPublishes,
     PA!HS!AuthPublishes, HT!AuthSends, PA!HS!AuthSends, HT!Cleanup, PA!HS!Cleanup,
     HT!ClientData, PA!HS!ClientData, HT!ClientLeaves, PA!HS!ClientLeaves,
     HT!ClientReceive, PA!HS!ClientReceive, HT!ClientSend, PA!HS!ClientSend, HT!Copies,
     PA!HS!Copies, HT!Cover, PA!HS!Cover, HT!ForgetPartial, PA!HS!ForgetPartial,
     HT!Lose, PA!HS!Lose, HT!Revoke, PA!HS!Revoke, HT!ServerReceive,
     PA!HS!ServerReceive, HT!Tick, PA!HS!Tick, HT!At, PA!HS!At, HT!Known, PA!HS!Known,
     HT!NoTask, PA!HS!NoTask, HT!NoEntry, PA!HS!NoEntry, HT!Answer, PA!HS!Answer,
     HT!Expired, PA!HS!Expired, HT!Frags, PA!HS!Frags, HT!Msg, PA!HS!Msg, HT!server,
     PA!HS!server, HT!ClientAnswer, PA!HS!ClientAnswer, HT!ClientHello,
     PA!HS!ClientHello, HT!FromClient, PA!HS!FromClient, HT!Auth, PA!HS!Auth, HT!Hello,
     PA!HS!Hello, HT!KnownSource, PA!HS!KnownSource, HT!RevokedSource,
     PA!HS!RevokedSource, HT!UnknownSource, PA!HS!UnknownSource, HT!Older, PA!HS!Older,
     HT!None, PA!HS!None, HT!Record, PA!HS!Record, HT!ReemitAnswer, PA!HS!ReemitAnswer,
     HT!ReemitHello, PA!HS!ReemitHello, HT!CompleteHello, PA!HS!CompleteHello,
     HT!Dropped, PA!HS!Dropped, HT!HoldFragment, PA!HS!HoldFragment, HT!Counted,
     PA!HS!Counted, HT!Decrypts, PA!HS!Decrypts, HT!MatchesAuth, PA!HS!MatchesAuth,
     HT!Proven, PA!HS!Proven, HT!ServerHello, PA!HS!ServerHello, HT!Admit, PA!HS!Admit,
     HT!Evictable, PA!HS!Evictable, HT!HalfOpen, PA!HS!HalfOpen, HT!Entry, PA!HS!Entry,
     HT!Cardinality, PA!HS!Cardinality, HT!Min, PA!HS!Min,
     HT!RemoveRevoked, PA!HS!RemoveRevoked, HT!Supersede, PA!HS!Supersede,
     HT!RoutedToRevoked, PA!HS!RoutedToRevoked
LEMMA PAHandshakesHold == ASSUME PA!HS!HandshakesAreSound PROVE HT!HandshakesAreSound
BY Zenon DEF HT!HandshakesAreSound, PA!HS!HandshakesAreSound, HT!HalfOpenIsBounded,
     PA!HS!HalfOpenIsBounded, HT!NothingPrecedesAuthOk, PA!HS!NothingPrecedesAuthOk,
     HT!ReflectionIsBounded, PA!HS!ReflectionIsBounded, HT!VerifierKeepsItsHandshake,
     PA!HS!VerifierKeepsItsHandshake, HT!HalfOpen, PA!HS!HalfOpen, HT!Known,
     PA!HS!Known, HT!NoTask, PA!HS!NoTask, HT!NoEntry, PA!HS!NoEntry, HT!None,
     PA!HS!None, HT!Cardinality, PA!HS!Cardinality, HT!At, PA!HS!At

\* The sessions of this instance are those of ST, and its handshakes those of HC:
\* expanded, they are the same formulas.
LEMMA PBSessionsStart == ASSUME ST!Init PROVE PB!Init
BY Zenon DEF ST!Init, PB!Init, ST!Blank, PB!Blank, ST!Cidr, PB!Cidr, ST!NoAddr, PB!NoAddr,
     ST!NoSession, PB!NoSession
LEMMA PBSessionsStep == ASSUME ST!Next PROVE PB!Next
BY Zenon DEF ST!Next, PB!Next, ST!Allocate, PB!Allocate, ST!Answer, PB!Answer, ST!AnswerFails,
     PB!AnswerFails, ST!AttachPrimary, PB!AttachPrimary, ST!Begin, PB!Begin,
     ST!DhcpLease, PB!DhcpLease, ST!DhcpRelease, PB!DhcpRelease, ST!Evict, PB!Evict,
     ST!Exhausted, PB!Exhausted, ST!Expel, PB!Expel, ST!Flag, PB!Flag, ST!Insert,
     PB!Insert, ST!JoinAttach, PB!JoinAttach, ST!JoinLookup, PB!JoinLookup, ST!Kick,
     PB!Kick, ST!Program, PB!Program, ST!ProgramFails, PB!ProgramFails, ST!ReapStale,
     PB!ReapStale, ST!Retired, PB!Retired, ST!Room, PB!Room, ST!SetupFails,
     PB!SetupFails, ST!StreamEnds, PB!StreamEnds, ST!Teardown, PB!Teardown, ST!TooMany,
     PB!TooMany, ST!Violate, PB!Violate, ST!GiveBack, PB!GiveBack, ST!Grants, PB!Grants,
     ST!flow, PB!flow, ST!me, PB!me, ST!self, PB!self, ST!Unlocked, PB!Unlocked,
     ST!owned, PB!owned, ST!Revoked, PB!Revoked, ST!Rollback, PB!Rollback, ST!Attached,
     PB!Attached, ST!admission, PB!admission, ST!Blank, PB!Blank, ST!Victims,
     PB!Victims, ST!NoAddr, PB!NoAddr, ST!Released, PB!Released, ST!IsCurrent,
     PB!IsCurrent, ST!RoutesOf, PB!RoutesOf, ST!Unmapped, PB!Unmapped, ST!Unrouted,
     PB!Unrouted, ST!Retire, PB!Retire, ST!Live, PB!Live, ST!Cidr, PB!Cidr, ST!Keys,
     PB!Keys, ST!NoSession, PB!NoSession, ST!MayAttach, PB!MayAttach,
     ST!OldestBeyondCap, PB!OldestBeyondCap, ST!Addresses, PB!Addresses, ST!Cardinality,
     PB!Cardinality
LEMMA PBSessionsHold == ASSUME PB!SessionsOwnTheirResources PROVE ST!SessionsOwnTheirResources
BY Zenon DEF ST!SessionsOwnTheirResources, PB!SessionsOwnTheirResources, ST!CapsHold,
     PB!CapsHold, ST!LiveSessionsOwnTheirAddress, PB!LiveSessionsOwnTheirAddress,
     ST!NoOrphanLease, PB!NoOrphanLease, ST!RoutesFollowSessions,
     PB!RoutesFollowSessions, ST!TypeOK, PB!TypeOK, ST!Live, PB!Live, ST!NoSession,
     PB!NoSession, ST!Keys, PB!Keys, ST!NoAddr, PB!NoAddr, ST!Cidr, PB!Cidr,
     ST!Cardinality, PB!Cardinality
LEMMA PBSessionsEnd == ASSUME PB!EndsOnItsOwn PROVE ST!EndsOnItsOwn
BY Zenon DEF ST!EndsOnItsOwn, PB!EndsOnItsOwn, ST!LeavesOnItsOwn, PB!LeavesOnItsOwn,
     ST!NoStreamAfterKick, PB!NoStreamAfterKick, ST!Kick, PB!Kick, ST!Live, PB!Live,
     ST!self, PB!self, ST!Retire, PB!Retire, ST!Revoked, PB!Revoked, ST!flow, PB!flow,
     ST!NoSession, PB!NoSession, ST!RoutesOf, PB!RoutesOf, ST!Unmapped, PB!Unmapped,
     ST!Unrouted, PB!Unrouted, ST!Addresses, PB!Addresses, ST!Cidr, PB!Cidr, ST!NoAddr,
     PB!NoAddr
LEMMA PBHandshakesStart == ASSUME HC!Init PROVE PB!HS!Init
BY Zenon DEF HC!Init, PB!HS!Init, HC!Frags, PB!HS!Frags, HC!NoEntry, PB!HS!NoEntry, HC!NoTask,
     PB!HS!NoTask, HC!None, PB!HS!None
LEMMA PBHandshakesStep == ASSUME HC!Next PROVE PB!HS!Next
BY Zenon DEF HC!Next, PB!HS!Next, HC!AuthDecides, PB!HS!AuthDecides, HC!AuthEnds,
     PB!HS!AuthEnds, HC!AuthFails, PB!HS!AuthFails, HC!AuthPublishes,
     PB!HS!AuthPublishes, HC!AuthSends, PB!HS!AuthSends, HC!Cleanup, PB!HS!Cleanup,
     HC!ClientData, PB!HS!ClientData, HC!ClientLeaves, PB!HS!ClientLeaves,
     HC!ClientReceive, PB!HS!ClientReceive, HC!ClientSend, PB!HS!ClientSend, HC!Copies,
     PB!HS!Copies, HC!Cover, PB!HS!Cover, HC!ForgetPartial, PB!HS!ForgetPartial,
     HC!Lose, PB!HS!Lose, HC!Revoke, PB!HS!Revoke, HC!ServerReceive,
     PB!HS!ServerReceive, HC!Tick, PB!HS!Tick, HC!At, PB!HS!At, HC!Known, PB!HS!Known,
     HC!NoTask, PB!HS!NoTask, HC!NoEntry, PB!HS!NoEntry, HC!Answer, PB!HS!Answer,
     HC!Expired, PB!HS!Expired, HC!Frags, PB!HS!Frags, HC!Msg, PB!HS!Msg, HC!server,
     PB!HS!server, HC!ClientAnswer, PB!HS!ClientAnswer, HC!ClientHello,
     PB!HS!ClientHello, HC!FromClient, PB!HS!FromClient, HC!Auth, PB!HS!Auth, HC!Hello,
     PB!HS!Hello, HC!KnownSource, PB!HS!KnownSource, HC!RevokedSource,
     PB!HS!RevokedSource, HC!UnknownSource, PB!HS!UnknownSource, HC!Older, PB!HS!Older,
     HC!None, PB!HS!None, HC!Record, PB!HS!Record, HC!ReemitAnswer, PB!HS!ReemitAnswer,
     HC!ReemitHello, PB!HS!ReemitHello, HC!CompleteHello, PB!HS!CompleteHello,
     HC!Dropped, PB!HS!Dropped, HC!HoldFragment, PB!HS!HoldFragment, HC!Counted,
     PB!HS!Counted, HC!Decrypts, PB!HS!Decrypts, HC!MatchesAuth, PB!HS!MatchesAuth,
     HC!Proven, PB!HS!Proven, HC!ServerHello, PB!HS!ServerHello, HC!Admit, PB!HS!Admit,
     HC!Evictable, PB!HS!Evictable, HC!HalfOpen, PB!HS!HalfOpen, HC!Entry, PB!HS!Entry,
     HC!Cardinality, PB!HS!Cardinality, HC!Min, PB!HS!Min,
     HC!RemoveRevoked, PB!HS!RemoveRevoked, HC!Supersede, PB!HS!Supersede,
     HC!RoutedToRevoked, PB!HS!RoutedToRevoked
LEMMA PBHandshakesHold == ASSUME PB!HS!HandshakesAreSound PROVE HC!HandshakesAreSound
BY Zenon DEF HC!HandshakesAreSound, PB!HS!HandshakesAreSound, HC!HalfOpenIsBounded,
     PB!HS!HalfOpenIsBounded, HC!NothingPrecedesAuthOk, PB!HS!NothingPrecedesAuthOk,
     HC!ReflectionIsBounded, PB!HS!ReflectionIsBounded, HC!VerifierKeepsItsHandshake,
     PB!HS!VerifierKeepsItsHandshake, HC!HalfOpen, PB!HS!HalfOpen, HC!Known,
     PB!HS!Known, HC!NoTask, PB!HS!NoTask, HC!NoEntry, PB!HS!NoEntry, HC!None,
     PB!HS!None, HC!Cardinality, PB!HS!Cardinality, HC!At, PB!HS!At

\* The values are within what ServerProofs assumes of a configuration.
LEMMA ConnectionConstants ==
  /\ PA!SessionConstants /\ PA!HandshakeConstants
  /\ PB!SessionConstants /\ PB!HandshakeConstants
<1>1. IsFiniteSet(1..3) /\ IsFiniteSet(1..2)
  <2>1. 1 \in Int /\ 2 \in Int /\ 3 \in Int
    OBVIOUS
  <2> QED
    BY <2>1, FS_Interval, Zenon
<1>2. IsFiniteSet({"a1"}) /\ IsFiniteSet({"a1", "a2"})
  <2>1. IsFiniteSet({"a1"}) /\ IsFiniteSet({"a2"})
    BY FS_Singleton, Zenon
  <2>2. {"a1", "a2"} = {"a1"} \cup {"a2"}
    OBVIOUS
  <2>3. IsFiniteSet({"a1"} \cup {"a2"})
    BY <2>1, FS_Union, Zenon
  <2> QED
    BY <2>1, <2>2, <2>3
<1>3. \A S : (PA!IsFiniteSet(S) <=> IsFiniteSet(S)) /\ (PB!IsFiniteSet(S) <=> IsFiniteSet(S))
  BY Zenon DEF IsFiniteSet, PA!IsFiniteSet, PB!IsFiniteSet
<1>4. PA!SessionConstants /\ PB!SessionConstants
  BY <1>1, <1>3 DEF PA!SessionConstants, PB!SessionConstants
<1>5. PA!HandshakeConstants /\ PB!HandshakeConstants
  BY <1>2, <1>3 DEF PA!HandshakeConstants, PB!HandshakeConstants
<1> QED
  BY <1>4, <1>5

\* A step of the composition is a step of the part it follows.
LEMMA ConnectionStep ==
  ASSUME [StepOne]_allVars
  PROVE  /\ part' = part
         /\ part # "cap" => [PA!HS!Next]_PA!HS!vars
         /\ part = "cap" => [PB!HS!Next]_PB!HS!vars
         /\ part # "streams" => [PA!Next]_PA!vars
         /\ part = "streams" => [PB!Next]_PB!vars
<1> USE DEF StepOne, allVars, hsVars, ssVars
<1>1. part' = part
  OBVIOUS
<1>2. part # "cap" => [PA!HS!Next]_PA!HS!vars
  BY PAHandshakesStep DEF PA!HS!vars, PA!HS!server
<1>3. part = "cap" => [PB!HS!Next]_PB!HS!vars
  BY PBHandshakesStep DEF PB!HS!vars, PB!HS!server
<1>4. part # "streams" => [PA!Next]_PA!vars
  BY PASessionsStep DEF PA!vars
<1>5. part = "streams" => [PB!Next]_PB!vars
  BY PBSessionsStep DEF PB!vars
<1> QED
  BY <1>1, <1>2, <1>3, <1>4, <1>5

\* An AUTH task keeps the entry it verifies until its answer is published, and its lease
\* while that entry is there; an unproven source is sent at most three
\* times what came from it, half-open entries stay within the cap and no traffic
\* precedes an AuthOK, whatever the network and the other tasks do
\* (udp_handler.rs): SoundHandshakes, for the handshakes of this server.
THEOREM ServerHandshakes == AnySpec => []HandshakesAreSound
<1> DEFINE HandshakeParts == IF part = "cap" THEN PB!HandshakeInv ELSE PA!HandshakeInv
<1>1. StartAll => HandshakeParts
  BY ConnectionConstants, PAHandshakesStart, PBHandshakesStart, PA!HandshakeStarts,
     PB!HandshakeStarts DEF StartAll
<1>2. HandshakeParts /\ [StepOne]_allVars => HandshakeParts'
  BY ConnectionConstants, ConnectionStep, PA!HandshakeStep, PB!HandshakeStep
<1>3. HandshakeParts => HandshakesAreSound
  BY PAHandshakesHold, PBHandshakesHold DEF HandshakesAreSound, PA!HandshakeInv, PB!HandshakeInv
<1> QED
  BY <1>1, <1>2, <1>3, PTL DEF AnySpec

\* The session map, the leases, the routes and the limits agree at every step of every
\* admission, eviction, join and teardown (handler.rs, udp_handler.rs):
\* SessionResources, for the sessions of this server.
THEOREM ServerSessionsOwn == AnySpec => []SessionsOwnTheirResources
<1> DEFINE SessionParts == IF part = "streams" THEN PB!SessionInv ELSE PA!SessionInv
<1>1. StartAll => SessionParts
  BY ConnectionConstants, PASessionsStart, PBSessionsStart, PA!SessionInit, PB!SessionInit
     DEF StartAll
<1>2. SessionParts /\ [StepOne]_allVars => SessionParts'
  BY ConnectionConstants, ConnectionStep, PA!SessionStep, PB!SessionStep
<1>3. SessionParts => SessionsOwnTheirResources
  BY ConnectionConstants, PA!SessionOwnership, PB!SessionOwnership, PASessionsHold,
     PBSessionsHold DEF SessionsOwnTheirResources
<1> QED
  BY <1>1, <1>2, <1>3, PTL DEF AnySpec

\* A session leaves the map on its own account only, and no stream attaches to a
\* revoked one: SessionsEndOnTheirOwn, for the sessions of this server.
THEOREM ServerSessionsEnd == AnySpec => NobodyElseEndsASession
<1> DEFINE SessionParts == IF part = "streams" THEN PB!SessionInv ELSE PA!SessionInv
           Ends == /\ part = "sessions" => SU!EndsOnItsOwn
                   /\ part = "streams" => ST!EndsOnItsOwn
<1>1. StartAll => SessionParts
  BY ConnectionConstants, PASessionsStart, PBSessionsStart, PA!SessionInit, PB!SessionInit
     DEF StartAll
<1>2. SessionParts /\ [StepOne]_allVars => SessionParts'
  BY ConnectionConstants, ConnectionStep, PA!SessionStep, PB!SessionStep
<1>3. SessionParts /\ [StepOne]_allVars => [Ends]_ssVars
  BY ConnectionConstants, ConnectionStep, PA!EndingStep, PB!EndingStep, PASessionsEnd,
     PBSessionsEnd
<1> QED
  BY <1>1, <1>2, <1>3, PTL DEF AnySpec, NobodyElseEndsASession

-----------------------------------------------------------------------------
(* Management messages (ManagementDelivery): a KICK that counts as         *)
(* delivered is one the client holds, and then nothing else decides how    *)
(* the session ends. The heart of it is that a KICK once held stays held   *)
(* (KickHeld), and that whatever speaks of a receipt (a registration that  *)
(* was taken, an acknowledgement under way, a repeat) comes after it.      *)

\* What DeliveriesAssumption says of one setting.
ManagementConstants(b) ==
  /\ b.kickers \cap b.notifiers = {} /\ b.abortable \subseteq b.kickers
  /\ MD(b)!NoSender \notin MD(b)!Senders
  /\ b.cache \in Nat \ {0}
  /\ b.datagram \in BOOLEAN

\* What a stream carries: one part, well formed, and only a KICK asks for a receipt.
Frames(b) ==
  {f \in [id : b.msgId, type : {"kick", "notice"}, ack : BOOLEAN, count : {1}, index : {0},
          payload : b.payload \ b.malformed] : f.ack = (f.type = "kick")}
\* The receipts a client keeps, and what a reader still has to do about a frame.
Receipts(b) ==
  [head : [id : b.msgId, type : {"kick", "notice"}, ack : BOOLEAN, count : {1}],
   parts : Seq(b.payload), validated : BOOLEAN]
Reassemblers(b) == [inflight : {{}}, completed : Seq(Receipts(b))]
Todos == {<<>>, <<"ack">>, <<"publish">>, <<"ack", "publish">>, <<"publish", "ack">>}

ManagementOK(b) ==
  /\ mdAcks \in [b.msgId -> MD(b)!Senders \cup {MD(b)!NoSender}]
  /\ mdSent \in [MD(b)!Senders -> BOOLEAN] /\ DOMAIN mdTask = MD(b)!Senders
  /\ mdTerminal \in [b.streams -> {<<>>} \cup {<<k>> : k \in b.kickers}]
  /\ mdOrdinary \in [b.streams -> Seq(b.notifiers)]
  /\ mdDown \in [b.streams -> Seq(Frames(b))]
  /\ DOMAIN mdUp = b.streams /\ DOMAIN mdLane = b.streams
  /\ mdReader \in [b.streams -> [todo : {<<>>}] \cup [todo : Todos, event : Frames(b)]]
  /\ mdReassembler \in Reassemblers(b)
  /\ mdSlot \in [event : {"none", "kick", "notice"}, unseen : BOOLEAN]
  /\ mdClient \in [phase : {"running", "closing", "finished"}, result : {"ok", "kick", "error"}]
  /\ mdReceipted \in BOOLEAN

\* What a writer takes from a queue has been started.
StartedTasks(b) ==
  [pc : {"writing", "acking", "over", "evicted"}, id : b.msgId,
   payload : b.payload \ b.malformed]
Started(b, k) == mdTask[k] \in StartedTasks(b)
QueuedIsStarted(b) ==
  \A s \in b.streams :
    /\ \A k \in b.kickers : mdTerminal[s] = <<k>> => Started(b, k)
    /\ \A i \in 1..Len(mdOrdinary[s]) : Started(b, mdOrdinary[s][i])

\* A delivery is idle, started, or has ended before it was offered to a stream; the
\* registry names only started ones, and after the end only aborted ones.
TasksAreSound(b) ==
  /\ \A k \in MD(b)!Senders :
       Started(b, k) \/ (mdTask[k].pc \in {"idle", "over", "evicted"} /\ ~mdSent[k])
  /\ \A k \in MD(b)!Senders : "pc" \in DOMAIN mdTask[k]
  /\ \A k \in b.notifiers : mdTask[k].pc \notin {"writing", "acking"}
  /\ \A m \in b.msgId : mdAcks[m] # MD(b)!NoSender =>
       /\ mdAcks[m] \in b.kickers /\ Started(b, mdAcks[m]) /\ mdTask[mdAcks[m]].id = m
       /\ mdTask[mdAcks[m]].pc \in {"writing", "acking"} \/ mdAcks[m] \in b.abortable

\* A delivery whose registration was taken has been acknowledged.
AcknowledgedHasIt(b) ==
  \A k \in b.kickers :
    Started(b, k) /\ mdTask[k].pc \in {"writing", "acking"} /\ mdAcks[mdTask[k].id] # k =>
      MD(b)!KickHeld

\* The client's side of it: a receipt kept, an acknowledgement due or queued.
ReceiptsAreHeld(b) ==
  /\ \A i \in 1..Len(mdReassembler.completed) :
       mdReassembler.completed[i].head.type = "kick" => MD(b)!KickHeld
  /\ \A s \in b.streams :
       (\E i \in DOMAIN mdReader[s].todo : mdReader[s].todo[i] = "ack") => MD(b)!KickHeld
  /\ mdReceipted => MD(b)!KickHeld
  /\ mdClient.phase = "finished" => \A s \in b.streams : mdReader[s].todo = <<>>

ManagementInv(b) ==
  /\ ManagementOK(b) /\ QueuedIsStarted(b) /\ TasksAreSound(b) /\ AcknowledgedHasIt(b)
  /\ ReceiptsAreHeld(b) /\ MD(b)!AcknowledgedIsHeld /\ MD(b)!RegistryIsOwned
  /\ MD(b)!ReceiptedKickWins

\* A KICK the client holds stays held: the slot keeps it, and a reader lets go of it only by
\* publishing it.
LEMMA ClientSame ==
  ASSUME NEW b, ManagementInv(b), UNCHANGED MD(b)!clientVars
  PROVE  /\ MD(b)!KickHeld' <=> MD(b)!KickHeld
         /\ ReceiptsAreHeld(b)' /\ MD(b)!ReceiptedKickWins'
         /\ mdReader' = mdReader /\ mdReassembler' = mdReassembler /\ mdLane' = mdLane
         /\ mdSlot' = mdSlot /\ mdClient' = mdClient /\ mdReceipted' = mdReceipted
<1>1. /\ mdReader' = mdReader /\ mdReassembler' = mdReassembler /\ mdLane' = mdLane
      /\ mdSlot' = mdSlot /\ mdClient' = mdClient /\ mdReceipted' = mdReceipted
  BY DEF MD!clientVars
<1>2. MD(b)!KickHeld' <=> MD(b)!KickHeld
  BY <1>1 DEF MD!KickHeld, MD!Publishing
<1>3. ReceiptsAreHeld(b)' /\ MD(b)!ReceiptedKickWins'
  BY <1>1, <1>2 DEF ManagementInv, ReceiptsAreHeld, MD!ReceiptedKickWins
<1> QED
  BY <1>1, <1>2, <1>3

\* What a step of a sending task has to keep.
LEMMA SenderKeeps ==
  ASSUME NEW b, ManagementConstants(b), ManagementInv(b),
         UNCHANGED <<mdDown, mdUp, MD(b)!clientVars>>,
         mdTerminal' \in [b.streams -> {<<>>} \cup {<<k>> : k \in b.kickers}],
         mdOrdinary' \in [b.streams -> Seq(b.notifiers)], QueuedIsStarted(b)',
         NEW k \in MD(b)!Senders, NEW t, mdTask' = [mdTask EXCEPT ![k] = t],
         "pc" \in DOMAIN t,
         mdAcks' \in [b.msgId -> MD(b)!Senders \cup {MD(b)!NoSender}], mdSent' \in [MD(b)!Senders -> BOOLEAN],
         \A j \in MD(b)!Senders \ {k} : mdSent'[j] = mdSent[j],
         Started(b, k)' \/ (t.pc \in {"idle", "over", "evicted"} /\ ~mdSent'[k]),
         k \in b.notifiers => t.pc \notin {"writing", "acking"},
         \A m \in b.msgId : mdAcks'[m] # mdAcks[m] =>
           {mdAcks'[m], mdAcks[m]} \subseteq {k, MD(b)!NoSender} \/ (mdAcks'[m] = MD(b)!NoSender
             /\ MD(b)!KickHeld),
         \A m \in b.msgId : mdAcks'[m] = k =>
           /\ k \in b.kickers /\ Started(b, k)' /\ t.id = m
           /\ t.pc \in {"writing", "acking"} \/ k \in b.abortable,
         k \in b.kickers /\ mdSent'[k] => MD(b)!KickHeld,
         k \in b.kickers /\ Started(b, k)' /\ t.pc \in {"writing", "acking"} =>
           mdAcks'[t.id] = k \/ MD(b)!KickHeld
  PROVE  ManagementInv(b)'
<1>1. MD(b)!KickHeld' <=> MD(b)!KickHeld
  BY ClientSame
<1>2. ReceiptsAreHeld(b)' /\ MD(b)!ReceiptedKickWins'
  BY ClientSame
<1>3. DOMAIN mdTask = MD(b)!Senders
  BY DEF ManagementInv, ManagementOK
<1>4. mdTask'[k] = t /\ \A j \in MD(b)!Senders \ {k} : mdTask'[j] = mdTask[j]
  BY <1>3
<1>5. \A j \in MD(b)!Senders \ {k} : Started(b, j) => Started(b, j)'
  BY <1>4 DEF Started
<1>6. \A j \in MD(b)!Senders \ {k} : Started(b, j)' => Started(b, j)
  BY <1>4 DEF Started
<1>7. ManagementOK(b)'
  BY <1>3, ClientSame DEF ManagementInv, ManagementOK
<1>9. TasksAreSound(b)'
  <2>1. ASSUME NEW j \in MD(b)!Senders
        PROVE  /\ Started(b, j)' \/ (mdTask'[j].pc \in {"idle", "over", "evicted"} /\ ~mdSent'[j])
               /\ "pc" \in DOMAIN mdTask'[j]
    <3>1. CASE j = k
      BY <1>4, <3>1
    <3>2. CASE j # k
      BY <1>4, <1>5, <3>2 DEF ManagementInv, TasksAreSound
    <3> QED
      BY <3>1, <3>2
  <2>2. ASSUME NEW m \in b.msgId, mdAcks'[m] # MD(b)!NoSender
        PROVE  /\ mdAcks'[m] \in b.kickers /\ mdTask'[mdAcks'[m]] \in StartedTasks(b)
               /\ mdTask'[mdAcks'[m]].id = m
               /\ mdTask'[mdAcks'[m]].pc \in {"writing", "acking"} \/ mdAcks'[m] \in b.abortable
    <3>1. CASE mdAcks'[m] = k
      BY <1>4, <3>1 DEF Started
    <3>2. CASE mdAcks'[m] # k
      <4>1. mdAcks'[m] = mdAcks[m]
        BY <2>2, <3>2
      <4>2. /\ mdAcks[m] \in b.kickers /\ Started(b, mdAcks[m]) /\ mdTask[mdAcks[m]].id = m
            /\ mdTask[mdAcks[m]].pc \in {"writing", "acking"} \/ mdAcks[m] \in b.abortable
        BY <2>2, <4>1 DEF ManagementInv, TasksAreSound
      <4> QED
        BY <1>4, <3>2, <4>1, <4>2 DEF MD!Senders, Started
    <3> QED
      BY <3>1, <3>2
  <2>3. \A j \in b.notifiers : mdTask'[j].pc \notin {"writing", "acking"}
    BY <1>4 DEF ManagementInv, TasksAreSound, MD!Senders
  <2> QED
    BY <2>1, <2>2, <2>3 DEF TasksAreSound, Started
<1>10. AcknowledgedHasIt(b)'
  <2> SUFFICES ASSUME NEW j \in b.kickers, Started(b, j)', mdTask'[j].pc \in {"writing", "acking"},
                      mdAcks'[mdTask'[j].id] # j
               PROVE  MD(b)!KickHeld
    BY <1>1 DEF AcknowledgedHasIt
  <2>1. CASE j = k
    BY <1>4, <2>1
  <2>2. CASE j # k
    <3>1. Started(b, j) /\ mdTask'[j] = mdTask[j] /\ mdTask[j].id \in b.msgId
      BY <1>4, <1>6, <2>2 DEF Started, StartedTasks, MD!Senders
    <3>2. mdAcks[mdTask[j].id] # j \/ MD(b)!KickHeld
      BY <2>2, <3>1 DEF ManagementConstants, MD!Senders
    <3> QED
      BY <3>1, <3>2 DEF ManagementInv, AcknowledgedHasIt
  <2> QED
    BY <2>1, <2>2
<1>11. MD(b)!AcknowledgedIsHeld'
  <2>1. \A j \in b.kickers : mdSent'[j] => MD(b)!KickHeld
    BY DEF ManagementInv, MD!AcknowledgedIsHeld, MD!Senders
  <2> QED
    BY <1>1, <2>1, ClientSame DEF ManagementInv, MD!AcknowledgedIsHeld
<1>12. MD(b)!RegistryIsOwned'
  BY <1>9 DEF TasksAreSound, MD!RegistryIsOwned
<1> QED
  BY <1>2, <1>7, <1>9, <1>10, <1>11, <1>12 DEF ManagementInv

\* What is known of the senders, and of the registry.
LEMMA SenderTypes ==
  ASSUME NEW b, ManagementInv(b)
  PROVE  /\ mdAcks \in [b.msgId -> MD(b)!Senders \cup {MD(b)!NoSender}]
              /\ mdSent \in [MD(b)!Senders -> BOOLEAN]
         /\ DOMAIN mdTask = MD(b)!Senders
         /\ \A k \in MD(b)!Senders : mdTask[k].pc \in {"writing", "acking"} => Started(b, k)
         /\ \A k \in MD(b)!Senders : "pc" \in DOMAIN mdTask[k]
         /\ \A k \in MD(b)!Senders : mdTask[k].pc \in {"writing", "acking"} => k \in b.kickers
         /\ \A k \in MD(b)!Senders : Started(b, k)
              \/ (mdTask[k].pc \in {"idle", "over", "evicted"} /\ ~mdSent[k])
         /\ \A k \in MD(b)!Senders : Started(b, k) => mdTask[k].id \in b.msgId
              /\ mdTask[k].pc # "idle"
         /\ \A m \in b.msgId : mdAcks[m] # MD(b)!NoSender => mdAcks[m] \in b.kickers
              /\ mdTask[mdAcks[m]].id = m
         /\ \A m \in b.msgId : mdAcks[m] # MD(b)!NoSender => Started(b, mdAcks[m])
         /\ \A m \in b.msgId : mdAcks[m] # MD(b)!NoSender =>
              mdTask[mdAcks[m]].pc \in {"writing", "acking"} \/ mdAcks[m] \in b.abortable
<1>1. \A k \in MD(b)!Senders : Started(b, k) => mdTask[k].id \in b.msgId /\ mdTask[k].pc # "idle"
  BY DEF Started, StartedTasks
<1> QED
  BY <1>1 DEF ManagementInv, ManagementOK, TasksAreSound, MD!Senders

\* The queues when only a task changed, and kept what it had.
LEMMA QueuesSame ==
  ASSUME NEW b, ManagementInv(b), UNCHANGED <<mdTerminal, mdOrdinary>>,
         \A j \in MD(b)!Senders : Started(b, j) => Started(b, j)'
  PROVE  /\ mdTerminal' \in [b.streams -> {<<>>} \cup {<<k>> : k \in b.kickers}]
         /\ mdOrdinary' \in [b.streams -> Seq(b.notifiers)] /\ QueuedIsStarted(b)'
<1>1. \A s \in b.streams : \A i \in 1..Len(mdOrdinary[s]) : mdOrdinary[s][i] \in MD(b)!Senders
  BY DEF ManagementInv, ManagementOK, MD!Senders
<1>2. QueuedIsStarted(b)'
  <2>1. \A s \in b.streams : \A k \in b.kickers : mdTerminal[s] = <<k>> => Started(b, k)'
    BY DEF ManagementInv, QueuedIsStarted, MD!Senders
  <2>2. \A s \in b.streams : \A i \in 1..Len(mdOrdinary[s]) : mdTask'[mdOrdinary[s][i]] \in StartedTasks(b)
    BY <1>1 DEF ManagementInv, QueuedIsStarted, Started
  <2> QED
    BY <2>1, <2>2 DEF QueuedIsStarted, Started
<1> QED
  BY <1>2 DEF ManagementInv, ManagementOK

\* A delivery that ends before it was offered to a stream.
LEMMA EndedKeeps ==
  ASSUME NEW b, ManagementConstants(b), ManagementInv(b),
         NEW k \in MD(b)!Senders, NEW id, mdTask[k].pc = "idle",
         MD(b)!Ended(k, id),
         UNCHANGED <<mdTerminal, mdOrdinary, mdDown, mdUp, MD(b)!clientVars, mdAcks>>
  PROVE  ManagementInv(b)'
<1> DEFINE t == [pc |-> "over", id |-> id, payload |-> "none"]
<1>1. mdTask[k].pc = "idle" /\ ~Started(b, k)
  BY DEF Started, StartedTasks
<1>2. mdTask' = [mdTask EXCEPT ![k] = t] /\ mdSent' = [mdSent EXCEPT ![k] = FALSE]
  BY DEF MD!Ended
<1>3. UNCHANGED <<mdTerminal, mdOrdinary, mdDown, mdUp, MD(b)!clientVars, mdAcks>>
  OBVIOUS
<1>4. mdAcks' = mdAcks /\ \A m \in b.msgId : mdAcks'[m] # k
  BY <1>1, <1>3, SenderTypes DEF ManagementConstants
<1>5. t.pc = "over" /\ "pc" \in DOMAIN t /\ ~mdSent'[k]
  BY <1>2, SenderTypes
<1>6. /\ mdAcks' \in [b.msgId -> MD(b)!Senders \cup {MD(b)!NoSender}]
           /\ mdSent' \in [MD(b)!Senders -> BOOLEAN]
      /\ \A j \in MD(b)!Senders \ {k} : mdSent'[j] = mdSent[j]
  BY <1>2, <1>3, SenderTypes
<1> HIDE DEF t
<1>7. ~(t.pc \in {"writing", "acking"}) /\ t.pc \in {"idle", "over", "evicted"}
  BY <1>5
<1>8. /\ mdTerminal' \in [b.streams -> {<<>>} \cup {<<j>> : j \in b.kickers}]
      /\ mdOrdinary' \in [b.streams -> Seq(b.notifiers)] /\ QueuedIsStarted(b)'
  <2>1. \A j \in MD(b)!Senders : Started(b, j) => Started(b, j)'
    BY <1>1, <1>2, SenderTypes DEF Started
  <2> QED
    BY <1>3, <2>1, QueuesSame
<1> QED
  BY <1>2, <1>3, <1>4, <1>5, <1>6, <1>7, <1>8, SenderKeeps

LEMMA RefuseStep ==
  ASSUME NEW b, ManagementConstants(b), ManagementInv(b), NEW k \in MD(b)!Senders, MD(b)!Refuse(k)
  PROVE  ManagementInv(b)'
BY EndedKeeps DEF MD!Refuse

\* A task that goes on to its next stage.
LEMMA StageKeeps ==
  ASSUME NEW b, ManagementConstants(b), ManagementInv(b),
         UNCHANGED <<mdTerminal, mdOrdinary, mdDown, mdUp, MD(b)!clientVars>>,
         NEW k \in MD(b)!Senders, NEW x \in {"acking", "over", "evicted"},
         mdTask' = [mdTask EXCEPT ![k].pc = x],
         mdAcks' \in [b.msgId -> MD(b)!Senders \cup {MD(b)!NoSender}], mdSent' \in [MD(b)!Senders -> BOOLEAN],
         \A j \in MD(b)!Senders \ {k} : mdSent'[j] = mdSent[j],
         ~Started(b, k) => x # "acking" /\ ~mdSent'[k],
         x = "acking" => k \in b.kickers,
         \A m \in b.msgId : mdAcks'[m] # mdAcks[m] => mdAcks'[m] = MD(b)!NoSender
           /\ (mdAcks[m] = k \/ MD(b)!KickHeld),
         \A m \in b.msgId : mdAcks'[m] = k => x = "acking" \/ k \in b.abortable,
         k \in b.kickers /\ mdSent'[k] => MD(b)!KickHeld,
         x = "acking" /\ k \in b.kickers => mdAcks'[mdTask[k].id] = k \/ MD(b)!KickHeld
  PROVE  ManagementInv(b)'
<1> DEFINE t == [mdTask[k] EXCEPT !.pc = x]
<1>1. mdTask' = [mdTask EXCEPT ![k] = t]
  BY SenderTypes
<1>2. "pc" \in DOMAIN t /\ t.pc = x
  BY SenderTypes
<1>3. Started(b, k) => t \in StartedTasks(b) /\ t.id = mdTask[k].id
  BY DEF Started, StartedTasks
<1> HIDE DEF t
<1>4. mdTask'[k] = t /\ \A j \in MD(b)!Senders \ {k} : mdTask'[j] = mdTask[j]
  BY <1>1, SenderTypes
<1>5. Started(b, k) => Started(b, k)'
  BY <1>3, <1>4 DEF Started
<1>6. Started(b, k)' \/ (t.pc \in {"idle", "over", "evicted"} /\ ~mdSent'[k])
  BY <1>2, <1>5
<1>7. /\ \A m \in b.msgId : mdAcks'[m] # mdAcks[m] =>
           {mdAcks'[m], mdAcks[m]} \subseteq {k, MD(b)!NoSender} \/ (mdAcks'[m] = MD(b)!NoSender
             /\ MD(b)!KickHeld)
      /\ k \in b.notifiers => t.pc \notin {"writing", "acking"}
  BY <1>2 DEF ManagementConstants
<1>8. \A m \in b.msgId : mdAcks'[m] = k =>
        /\ k \in b.kickers /\ Started(b, k)' /\ t.id = m
        /\ t.pc \in {"writing", "acking"} \/ k \in b.abortable
  <2> SUFFICES ASSUME NEW m \in b.msgId, mdAcks'[m] = k
               PROVE  /\ k \in b.kickers /\ Started(b, k)' /\ t.id = m
                      /\ t.pc \in {"writing", "acking"} \/ k \in b.abortable
    OBVIOUS
  <2>1. mdAcks[m] = k /\ k # MD(b)!NoSender
    BY DEF ManagementConstants
  <2>2. k \in b.kickers /\ Started(b, k) /\ mdTask[k].id = m
    BY <2>1, SenderTypes
  <2> QED
    BY <1>2, <1>3, <1>5, <2>2
<1>9. k \in b.kickers /\ Started(b, k)' /\ t.pc \in {"writing", "acking"} =>
        mdAcks'[t.id] = k \/ MD(b)!KickHeld
  BY <1>2, <1>3
<1>10. /\ mdTerminal' \in [b.streams -> {<<>>} \cup {<<j>> : j \in b.kickers}]
       /\ mdOrdinary' \in [b.streams -> Seq(b.notifiers)] /\ QueuedIsStarted(b)'
  <2>1. \A j \in MD(b)!Senders : Started(b, j) => Started(b, j)'
    BY <1>4, <1>5 DEF Started
  <2> QED
    BY <2>1, QueuesSame
<1> QED
  BY <1>1, <1>2, <1>6, <1>7, <1>8, <1>9, <1>10, SenderKeeps

LEMMA GiveUpWritingStep ==
  ASSUME NEW b, ManagementConstants(b), ManagementInv(b),
         NEW k \in MD(b)!Senders, MD(b)!GiveUpWriting(k)
  PROVE  ManagementInv(b)'
<1>1. mdTask[k].pc = "writing" /\ Started(b, k) /\ mdTask[k].id \in b.msgId /\ k \in b.kickers
  BY SenderTypes DEF MD!GiveUpWriting
<1>2. /\ mdTask' = [mdTask EXCEPT ![k].pc = "over"] /\ mdSent' = mdSent
      /\ mdAcks' = [mdAcks EXCEPT ![mdTask[k].id] = MD(b)!NoSender]
      /\ UNCHANGED <<mdTerminal, mdOrdinary, mdDown, mdUp, MD(b)!clientVars>>
  BY DEF MD!GiveUpWriting, MD!Unregister
<1>3. mdAcks' \in [b.msgId -> MD(b)!Senders \cup {MD(b)!NoSender}]
        /\ mdSent' \in [MD(b)!Senders -> BOOLEAN]
  BY <1>1, <1>2, SenderTypes
<1>4. mdAcks[mdTask[k].id] = k \/ MD(b)!KickHeld
  BY <1>1 DEF ManagementInv, AcknowledgedHasIt
<1>5. \A m \in b.msgId : mdAcks'[m] # mdAcks[m] => mdAcks'[m] = MD(b)!NoSender /\ (mdAcks[m] = k
        \/ MD(b)!KickHeld)
  BY <1>1, <1>2, <1>4, SenderTypes
<1>6. \A m \in b.msgId : mdAcks'[m] # k
  <2>1. k # MD(b)!NoSender /\ \A m \in b.msgId : mdAcks[m] = k => m = mdTask[k].id
    BY SenderTypes DEF ManagementConstants
  <2> QED
    BY <1>1, <1>2, <2>1, SenderTypes
<1>7. k \in b.kickers /\ mdSent'[k] => MD(b)!KickHeld
  BY <1>2 DEF ManagementInv, MD!AcknowledgedIsHeld
<1> QED
  BY <1>1, <1>2, <1>3, <1>5, <1>6, <1>7, StageKeeps

LEMMA WrittenStep ==
  ASSUME NEW b, ManagementConstants(b), ManagementInv(b), NEW k \in MD(b)!Senders, MD(b)!Written(k)
  PROVE  ManagementInv(b)'
<1>1. mdTask[k].pc = "writing" /\ Started(b, k) /\ mdTask[k].id \in b.msgId /\ k \in b.kickers
  BY SenderTypes DEF MD!Written
<1>2. /\ mdTask' = [mdTask EXCEPT ![k].pc = "acking"] /\ mdSent' = mdSent /\ mdAcks' = mdAcks
      /\ UNCHANGED <<mdTerminal, mdOrdinary, mdDown, mdUp, MD(b)!clientVars>>
  BY DEF MD!Written
<1>3. mdAcks' \in [b.msgId -> MD(b)!Senders \cup {MD(b)!NoSender}]
        /\ mdSent' \in [MD(b)!Senders -> BOOLEAN]
  BY <1>2, SenderTypes
<1>4. mdAcks'[mdTask[k].id] = k \/ MD(b)!KickHeld
  BY <1>1, <1>2 DEF ManagementInv, AcknowledgedHasIt
<1>5. k \in b.kickers /\ mdSent'[k] => MD(b)!KickHeld
  BY <1>2 DEF ManagementInv, MD!AcknowledgedIsHeld
<1> QED
  BY <1>1, <1>2, <1>3, <1>4, <1>5, StageKeeps

LEMMA AckWaitEndsStep ==
  ASSUME NEW b, ManagementConstants(b), ManagementInv(b),
         NEW k \in MD(b)!Senders, MD(b)!AckWaitEnds(k)
  PROVE  ManagementInv(b)'
<1>1. mdTask[k].pc = "acking" /\ Started(b, k) /\ mdTask[k].id \in b.msgId /\ k \in b.kickers
  BY SenderTypes DEF MD!AckWaitEnds
<1>2. /\ mdTask' = [mdTask EXCEPT ![k].pc = "over"]
      /\ mdSent' = [mdSent EXCEPT ![k] = mdAcks[mdTask[k].id] # k]
      /\ mdAcks' = [mdAcks EXCEPT ![mdTask[k].id] = MD(b)!NoSender] \/ mdAcks' = mdAcks
      /\ mdAcks[mdTask[k].id] # k => mdAcks' = mdAcks
      /\ mdAcks[mdTask[k].id] = k => mdAcks' = [mdAcks EXCEPT ![mdTask[k].id] = MD(b)!NoSender]
      /\ UNCHANGED <<mdTerminal, mdOrdinary, mdDown, mdUp, MD(b)!clientVars>>
  BY DEF MD!AckWaitEnds, MD!Unregister
<1>3. /\ mdAcks' \in [b.msgId -> MD(b)!Senders \cup {MD(b)!NoSender}]
           /\ mdSent' \in [MD(b)!Senders -> BOOLEAN]
      /\ \A j \in MD(b)!Senders \ {k} : mdSent'[j] = mdSent[j]
      /\ mdSent'[k] => mdAcks[mdTask[k].id] # k
  <2>1. mdAcks' \in [b.msgId -> MD(b)!Senders \cup {MD(b)!NoSender}]
    BY <1>1, <1>2, SenderTypes
  <2>2. (mdAcks[mdTask[k].id] # k) \in BOOLEAN
    OBVIOUS
  <2>3. /\ mdSent' \in [MD(b)!Senders -> BOOLEAN]
             /\ \A j \in MD(b)!Senders \ {k} : mdSent'[j] = mdSent[j]
        /\ mdSent'[k] = (mdAcks[mdTask[k].id] # k)
    BY <1>2, <2>2, SenderTypes
  <2> QED
    BY <2>1, <2>3
<1>4. mdSent'[k] => MD(b)!KickHeld
  BY <1>1, <1>3 DEF ManagementInv, AcknowledgedHasIt
<1>5. \A m \in b.msgId : mdAcks'[m] # mdAcks[m] => mdAcks'[m] = MD(b)!NoSender /\ (mdAcks[m] = k
        \/ MD(b)!KickHeld)
  BY <1>1, <1>2, SenderTypes
<1>6. \A m \in b.msgId : mdAcks'[m] # k
  <2>1. k # MD(b)!NoSender /\ \A m \in b.msgId : mdAcks[m] = k => m = mdTask[k].id
    BY SenderTypes DEF ManagementConstants
  <2> QED
    BY <1>1, <1>2, <2>1, SenderTypes
<1> QED
  BY <1>1, <1>2, <1>3, <1>4, <1>5, <1>6, StageKeeps

LEMMA AbortDeliveryStep ==
  ASSUME NEW b, ManagementConstants(b), ManagementInv(b),
         NEW k \in MD(b)!Senders, MD(b)!AbortDelivery(k)
  PROVE  ManagementInv(b)'
<1>1. mdTask[k].pc \in {"writing", "acking"} /\ Started(b, k) /\ k \in b.kickers
        /\ k \in b.abortable
  BY SenderTypes DEF MD!AbortDelivery
<1>2. /\ mdTask' = [mdTask EXCEPT ![k].pc = "over"] /\ mdSent' = mdSent /\ mdAcks' = mdAcks
      /\ UNCHANGED <<mdTerminal, mdOrdinary, mdDown, mdUp, MD(b)!clientVars>>
  BY DEF MD!AbortDelivery
<1>3. mdAcks' \in [b.msgId -> MD(b)!Senders \cup {MD(b)!NoSender}]
        /\ mdSent' \in [MD(b)!Senders -> BOOLEAN]
  BY <1>2, SenderTypes
<1>4. k \in b.kickers /\ mdSent'[k] => MD(b)!KickHeld
  BY <1>2 DEF ManagementInv, MD!AcknowledgedIsHeld
<1> QED
  BY <1>1, <1>2, <1>3, <1>4, StageKeeps

LEMMA KickAllStep ==
  ASSUME NEW b, ManagementConstants(b), ManagementInv(b), NEW k \in MD(b)!Senders, MD(b)!KickAll(k)
  PROVE  ManagementInv(b)'
<1>1. mdTask[k].pc = "over" /\ k \in b.kickers
  BY DEF MD!KickAll
<1>2. /\ mdTask' = [mdTask EXCEPT ![k].pc = "evicted"] /\ mdSent' = mdSent /\ mdAcks' = mdAcks
      /\ UNCHANGED <<mdTerminal, mdOrdinary, mdDown, mdUp, MD(b)!clientVars>>
  BY DEF MD!KickAll
<1>3. mdAcks' \in [b.msgId -> MD(b)!Senders \cup {MD(b)!NoSender}]
        /\ mdSent' \in [MD(b)!Senders -> BOOLEAN]
  BY <1>2, SenderTypes
<1>4. k \in b.kickers /\ mdSent'[k] => MD(b)!KickHeld
  BY <1>2 DEF ManagementInv, MD!AcknowledgedIsHeld
<1>5. ~Started(b, k) => ~mdSent'[k]
  BY <1>2, SenderTypes
<1>6. \A m \in b.msgId : mdAcks'[m] = k => k \in b.abortable
  BY <1>1, <1>2, SenderTypes DEF ManagementConstants
<1> QED
  BY <1>1, <1>2, <1>3, <1>4, <1>5, <1>6, StageKeeps

LEMMA StartKickStep ==
  ASSUME NEW b, ManagementConstants(b), ManagementInv(b), NEW k \in b.kickers, NEW m \in b.msgId,
         NEW p \in b.payload \ b.malformed, MD(b)!StartKick(k, m, p)
  PROVE  ManagementInv(b)'
<1> DEFINE taken == {s \in b.streams : mdServer[s] # "down" /\ mdTerminal[s] = <<>>}
           t == [pc |-> "writing", id |-> m, payload |-> p]
<1>1. k \in MD(b)!Senders /\ mdTask[k].pc = "idle" /\ mdAcks[m] = MD(b)!NoSender
  BY DEF MD!StartKick, MD!Senders
<1>2. CASE taken = {}
  <2>1. MD(b)!Ended(k, m)
          /\ UNCHANGED <<mdTerminal, mdOrdinary, mdDown, mdUp, MD(b)!clientVars, mdAcks>>
    BY <1>2 DEF MD!StartKick
  <2> QED
    BY <1>1, <2>1, EndedKeeps
<1>3. CASE taken # {}
  <2>1. /\ mdTask' = [mdTask EXCEPT ![k] = t] /\ mdAcks' = [mdAcks EXCEPT ![m] = k]
             /\ mdSent' = mdSent
        /\ mdTerminal' = [s \in b.streams |-> IF s \in taken THEN <<k>> ELSE mdTerminal[s]]
        /\ UNCHANGED <<mdOrdinary, mdDown, mdUp, MD(b)!clientVars>>
    BY <1>3 DEF MD!StartKick
  <2>2. t \in StartedTasks(b) /\ "pc" \in DOMAIN t /\ t.pc = "writing" /\ t.id = m
    BY DEF StartedTasks
  <2> HIDE DEF t, taken
  <2>3. mdTask'[k] = t /\ \A j \in MD(b)!Senders \ {k} : mdTask'[j] = mdTask[j]
    BY <1>1, <2>1, SenderTypes
  <2>4. Started(b, k)' /\ ~Started(b, k) /\ ~mdSent[k]
    BY <1>1, <2>2, <2>3, SenderTypes DEF Started
  <2>5. /\ mdAcks' \in [b.msgId -> MD(b)!Senders \cup {MD(b)!NoSender}]
             /\ mdSent' \in [MD(b)!Senders -> BOOLEAN]
        /\ mdAcks'[m] = k /\ \A n \in b.msgId \ {m} : mdAcks'[n] = mdAcks[n]
    BY <1>1, <2>1, SenderTypes
  <2>6. \A n \in b.msgId : mdAcks[n] # k
    BY <1>1, <2>4, SenderTypes DEF ManagementConstants
  <2>7. k \notin b.notifiers
    BY DEF ManagementConstants
  <2>8. mdTerminal' \in [b.streams -> {<<>>} \cup {<<j>> : j \in b.kickers}]
    BY <2>1 DEF ManagementInv, ManagementOK
  <2>9. mdOrdinary' \in [b.streams -> Seq(b.notifiers)]
    BY <2>1 DEF ManagementInv, ManagementOK
  <2>10. QueuedIsStarted(b)'
    <3>1. \A s \in b.streams : \A j \in b.kickers : mdTerminal'[s] = <<j>> => Started(b, j)'
      <4> SUFFICES ASSUME NEW s \in b.streams, NEW j \in b.kickers, mdTerminal'[s] = <<j>>, j # k
                   PROVE  Started(b, j)'
        BY <2>4
      <4>1. mdTerminal[s] = <<j>>
        BY <2>1
      <4>2. Started(b, j)
        BY <4>1 DEF ManagementInv, QueuedIsStarted
      <4> QED
        BY <2>3, <4>2 DEF Started, MD!Senders
    <3>2. \A s \in b.streams : \A i \in 1..Len(mdOrdinary[s]) : mdTask'[mdOrdinary[s][i]] \in StartedTasks(b)
      <4>1. \A s \in b.streams : \A i \in 1..Len(mdOrdinary[s]) : mdOrdinary[s][i] \in MD(b)!Senders
        BY DEF ManagementInv, ManagementOK, MD!Senders
      <4> QED
        BY <4>1, <2>2, <2>3 DEF ManagementInv, QueuedIsStarted, Started
    <3> QED
      BY <2>1, <3>1, <3>2 DEF QueuedIsStarted, Started
  <2>11. \A n \in b.msgId : mdAcks'[n] # mdAcks[n] =>
           {mdAcks'[n], mdAcks[n]} \subseteq {k, MD(b)!NoSender}
    BY <1>1, <2>5
  <2>12. \A n \in b.msgId : mdAcks'[n] = k => n = m
    BY <2>5, <2>6
  <2>13. /\ ~mdSent'[k] /\ t.pc \in {"writing", "acking"} /\ mdAcks'[t.id] = k
         /\ \A j \in MD(b)!Senders \ {k} : mdSent'[j] = mdSent[j]
    BY <2>1, <2>2, <2>4, <2>5
  <2> QED
    BY <1>1, <2>1, <2>2, <2>4, <2>5, <2>7, <2>8, <2>9, <2>10, <2>11, <2>12, <2>13, SenderKeeps
<1> QED
  BY <1>2, <1>3

\* A sequence of one element, with one more, and with the first one gone.
LEMMA OneMore ==
  ASSUME NEW b, NEW S, NEW x \in S, NEW s \in Seq(S)
  PROVE  Append(s, x) \in Seq(S) /\ <<x>> \in Seq(S) /\ (s # <<>> => Tail(s) \in Seq(S))
OBVIOUS

LEMMA StartNoticeStep ==
  ASSUME NEW b, ManagementConstants(b), ManagementInv(b), NEW k \in b.notifiers, NEW m \in b.msgId,
         NEW p \in b.payload \ b.malformed, NEW accepted \in SUBSET b.streams,
         MD(b)!StartNotice(k, m, p, accepted)
  PROVE  ManagementInv(b)'
<1> DEFINE t == [pc |-> "over", id |-> m, payload |-> p]
<1>1. k \in MD(b)!Senders /\ mdTask[k].pc = "idle" /\ k \notin b.kickers
  BY DEF MD!StartNotice, MD!Senders, ManagementConstants
<1>2. /\ mdTask' = [mdTask EXCEPT ![k] = t] /\ mdAcks' = mdAcks
      /\ mdSent' = [mdSent EXCEPT ![k] = accepted # {}]
      /\ mdOrdinary' = [s \in b.streams |->
                        IF s \in accepted THEN Append(mdOrdinary[s], k) ELSE mdOrdinary[s]]
      /\ UNCHANGED <<mdTerminal, mdDown, mdUp, MD(b)!clientVars>>
  BY DEF MD!StartNotice
<1>3. t \in StartedTasks(b) /\ "pc" \in DOMAIN t /\ t.pc = "over"
  BY DEF StartedTasks
<1> HIDE DEF t
<1>4. mdTask'[k] = t /\ \A j \in MD(b)!Senders \ {k} : mdTask'[j] = mdTask[j]
  BY <1>1, <1>2, SenderTypes
<1>5. Started(b, k)' /\ ~Started(b, k)
  BY <1>1, <1>3, <1>4, SenderTypes DEF Started
<1>6. /\ mdAcks' \in [b.msgId -> MD(b)!Senders \cup {MD(b)!NoSender}]
           /\ mdSent' \in [MD(b)!Senders -> BOOLEAN]
      /\ \A j \in MD(b)!Senders \ {k} : mdSent'[j] = mdSent[j]
  BY <1>1, <1>2, SenderTypes
<1>7. \A n \in b.msgId : mdAcks'[n] # k
  BY <1>1, <1>2, SenderTypes DEF ManagementConstants
<1>8. mdTerminal' \in [b.streams -> {<<>>} \cup {<<j>> : j \in b.kickers}]
  BY <1>2 DEF ManagementInv, ManagementOK
<1>9. mdOrdinary' \in [b.streams -> Seq(b.notifiers)]
  <2>1. mdOrdinary \in [b.streams -> Seq(b.notifiers)]
    BY DEF ManagementInv, ManagementOK
  <2>2. \A s \in b.streams : mdOrdinary'[s] \in Seq(b.notifiers)
    BY <1>2, <2>1, OneMore
  <2> QED
    BY <1>2, <2>2
<1>10. QueuedIsStarted(b)'
  <2>1. \A j \in MD(b)!Senders : Started(b, j) => Started(b, j)'
    BY <1>4, <1>5 DEF Started
  <2>2. \A s \in b.streams : \A j \in b.kickers : mdTerminal'[s] = <<j>> => Started(b, j)'
    BY <1>2, <2>1 DEF ManagementInv, QueuedIsStarted, MD!Senders
  <2>3. ASSUME NEW s \in b.streams, NEW i \in 1..Len(mdOrdinary'[s])
        PROVE  mdTask'[mdOrdinary'[s][i]] \in StartedTasks(b)
    <3>1. mdOrdinary[s] \in Seq(b.notifiers)
      BY DEF ManagementInv, ManagementOK
    <3>2. mdOrdinary'[s][i] = k \/ (i \in 1..Len(mdOrdinary[s])
            /\ mdOrdinary'[s][i] = mdOrdinary[s][i])
      BY <1>2, <3>1
    <3>3. i \in 1..Len(mdOrdinary[s]) => mdOrdinary[s][i] \in MD(b)!Senders
            /\ Started(b, mdOrdinary[s][i])
      BY <3>1 DEF ManagementInv, QueuedIsStarted, MD!Senders
    <3> QED
      BY <1>3, <1>4, <3>2, <3>3 DEF Started
  <2> QED
    BY <2>2, <2>3 DEF QueuedIsStarted, Started
<1> QED
  BY <1>1, <1>2, <1>3, <1>5, <1>6, <1>7, <1>8, <1>9, <1>10, SenderKeeps

\* What a step of a stream has to keep.
LEMMA StreamKeeps ==
  ASSUME NEW b, ManagementConstants(b), ManagementInv(b),
         UNCHANGED <<mdTask, mdSent, MD(b)!clientVars>>,
         mdAcks' \in [b.msgId -> MD(b)!Senders \cup {MD(b)!NoSender}],
         \A m \in b.msgId : mdAcks'[m] # mdAcks[m] => mdAcks'[m] = MD(b)!NoSender /\ MD(b)!KickHeld,
         mdTerminal' \in [b.streams -> {<<>>} \cup {<<k>> : k \in b.kickers}],
         mdOrdinary' \in [b.streams -> Seq(b.notifiers)],
         \A s \in b.streams : mdTerminal'[s] \in {mdTerminal[s], <<>>},
         \A s \in b.streams : mdOrdinary'[s] = mdOrdinary[s] \/ mdOrdinary'[s] = <<>>
                            \/ (mdOrdinary[s] # <<>> /\ mdOrdinary'[s] = Tail(mdOrdinary[s])),
         mdDown' \in [b.streams -> Seq(Frames(b))],
         DOMAIN mdUp' = b.streams, \A s \in b.streams : mdUp'[s] # <<>> => mdUp[s] # <<>>
  PROVE  ManagementInv(b)'
<1>1. MD(b)!KickHeld' <=> MD(b)!KickHeld
  BY ClientSame
<1>2. ReceiptsAreHeld(b)' /\ MD(b)!ReceiptedKickWins'
  BY ClientSame
<1>3. \A k \in MD(b)!Senders : Started(b, k)' <=> Started(b, k)
  BY DEF Started
<1>4. ManagementOK(b)'
  BY ClientSame DEF ManagementInv, ManagementOK
<1>5. QueuedIsStarted(b)'
  <2>1. ASSUME NEW s \in b.streams, NEW k \in b.kickers, mdTerminal'[s] = <<k>>
        PROVE  mdTask[k] \in StartedTasks(b)
    <3>1. <<k>> # <<>>
      OBVIOUS
    <3>2. mdTerminal[s] = <<k>>
      BY <2>1, <3>1
    <3> QED
      BY <3>2 DEF ManagementInv, QueuedIsStarted, Started
  <2>2. ASSUME NEW s \in b.streams, NEW i \in 1..Len(mdOrdinary'[s])
        PROVE  mdTask[mdOrdinary'[s][i]] \in StartedTasks(b)
    <3>1. mdOrdinary[s] \in Seq(b.notifiers)
      BY DEF ManagementInv, ManagementOK
    <3>2. PICK j \in 1..Len(mdOrdinary[s]) : mdOrdinary'[s][i] = mdOrdinary[s][j]
      <4>1. CASE mdOrdinary'[s] = mdOrdinary[s]
        BY <4>1
      <4>2. CASE mdOrdinary'[s] = <<>>
        BY <4>2
      <4>3. CASE mdOrdinary[s] # <<>> /\ mdOrdinary'[s] = Tail(mdOrdinary[s])
        <5>1. i + 1 \in 1..Len(mdOrdinary[s]) /\ mdOrdinary'[s][i] = mdOrdinary[s][i + 1]
          BY <3>1, <4>3
        <5> QED
          BY <5>1
      <4> QED
        BY <4>1, <4>2, <4>3
    <3> QED
      BY <3>2 DEF ManagementInv, QueuedIsStarted, Started
  <2> QED
    BY <2>1, <2>2 DEF QueuedIsStarted, Started
<1>6. TasksAreSound(b)'
  <2>1. ASSUME NEW m \in b.msgId, mdAcks'[m] # MD(b)!NoSender
        PROVE  mdAcks'[m] = mdAcks[m]
    BY <2>1
  <2> QED
    BY <2>1 DEF ManagementInv, TasksAreSound, Started
<1>7. AcknowledgedHasIt(b)'
  <2> SUFFICES ASSUME NEW k \in b.kickers, Started(b, k), mdTask[k].pc \in {"writing", "acking"},
                      mdAcks'[mdTask[k].id] # k
               PROVE  MD(b)!KickHeld
    BY <1>1 DEF AcknowledgedHasIt, Started
  <2>1. mdTask[k].id \in b.msgId
    BY DEF Started, StartedTasks
  <2> QED
    BY <2>1 DEF ManagementInv, AcknowledgedHasIt
<1>8. MD(b)!AcknowledgedIsHeld'
  BY <1>1, ClientSame DEF ManagementInv, MD!AcknowledgedIsHeld
<1>9. MD(b)!RegistryIsOwned'
  BY <1>6 DEF TasksAreSound, MD!RegistryIsOwned
<1> QED
  BY <1>2, <1>4, <1>5, <1>6, <1>7, <1>8, <1>9 DEF ManagementInv

LEMMA StreamTypes ==
  ASSUME NEW b, ManagementInv(b)
  PROVE  /\ mdAcks \in [b.msgId -> MD(b)!Senders \cup {MD(b)!NoSender}]
         /\ mdTerminal \in [b.streams -> {<<>>} \cup {<<k>> : k \in b.kickers}]
         /\ mdOrdinary \in [b.streams -> Seq(b.notifiers)]
         /\ mdDown \in [b.streams -> Seq(Frames(b))] /\ DOMAIN mdUp = b.streams
         /\ mdReader \in [b.streams -> [todo : {<<>>}] \cup [todo : Todos, event : Frames(b)]]
         /\ mdReassembler \in Reassemblers(b)
         /\ \A s \in b.streams : mdUp[s] # <<>> => MD(b)!KickHeld
BY DEF ManagementInv, ManagementOK, MD!AcknowledgedIsHeld

\* The event of a delivery that has been started.
LEMMA EventIsFrame ==
  ASSUME NEW b, ManagementConstants(b), NEW k \in MD(b)!Senders, Started(b, k)
  PROVE  MD(b)!Event(k) \in Frames(b)
<1>1. mdTask[k].id \in b.msgId /\ mdTask[k].payload \in b.payload \ b.malformed
  BY DEF Started, StartedTasks
<1>2. CASE k \in b.kickers
  BY <1>1, <1>2 DEF MD!Event, Frames
<1>3. CASE k \notin b.kickers
  BY <1>1, <1>3 DEF MD!Event, Frames
<1> QED
  BY <1>2, <1>3

LEMMA WriteTerminalStep ==
  ASSUME NEW b, ManagementConstants(b), ManagementInv(b),
         NEW s \in b.streams, MD(b)!WriteTerminal(s)
  PROVE  ManagementInv(b)'
<1> DEFINE k == mdTerminal[s][1]
           frames == [i \in 1..MD(b)!Repetitions |-> MD(b)!Event(k)]
<1>1. /\ mdTerminal[s] # <<>> /\ mdTerminal' = [mdTerminal EXCEPT ![s] = <<>>]
      /\ mdDown' = [mdDown EXCEPT ![s] = @ \o frames]
      /\ UNCHANGED <<mdTask, mdSent, mdAcks, mdOrdinary, mdUp, MD(b)!clientVars>>
  BY DEF MD!WriteTerminal
<1>2. k \in b.kickers /\ mdTerminal[s] = <<k>>
  BY <1>1, StreamTypes
<1>3. MD(b)!Event(k) \in Frames(b)
  BY <1>2, EventIsFrame DEF ManagementInv, QueuedIsStarted, MD!Senders
<1>4. frames \in Seq(Frames(b))
  BY <1>3 DEF MD!Repetitions
<1> HIDE DEF frames, k
<1>5. mdDown' \in [b.streams -> Seq(Frames(b))]
  BY <1>1, <1>4, StreamTypes
<1>6. /\ mdTerminal' \in [b.streams -> {<<>>} \cup {<<j>> : j \in b.kickers}]
      /\ \A t \in b.streams : mdTerminal'[t] \in {mdTerminal[t], <<>>}
  BY <1>1, StreamTypes
<1> QED
  BY <1>1, <1>5, <1>6, StreamTypes, StreamKeeps

LEMMA WriteOrdinaryStep ==
  ASSUME NEW b, ManagementConstants(b), ManagementInv(b),
         NEW s \in b.streams, MD(b)!WriteOrdinary(s)
  PROVE  ManagementInv(b)'
<1> DEFINE k == mdOrdinary[s][1]
<1>1. /\ mdOrdinary[s] # <<>> /\ mdOrdinary' = [mdOrdinary EXCEPT ![s] = Tail(@)]
      /\ mdDown' = [mdDown EXCEPT ![s] = Append(@, MD(b)!Event(k))]
      /\ UNCHANGED <<mdTask, mdSent, mdAcks, mdTerminal, mdUp, MD(b)!clientVars>>
  BY DEF MD!WriteOrdinary
<1>2. k \in b.notifiers /\ 1 \in 1..Len(mdOrdinary[s])
  BY <1>1, StreamTypes
<1>3. MD(b)!Event(k) \in Frames(b)
  BY <1>2, EventIsFrame DEF ManagementInv, QueuedIsStarted, MD!Senders
<1> HIDE DEF k
<1>4. mdDown' \in [b.streams -> Seq(Frames(b))]
  BY <1>1, <1>3, StreamTypes
<1>5. mdOrdinary' \in [b.streams -> Seq(b.notifiers)]
  <2>1. mdOrdinary[s] \in Seq(b.notifiers)
    BY StreamTypes
  <2>2. Tail(mdOrdinary[s]) \in Seq(b.notifiers)
    BY <1>1, <1>2, <2>1, OneMore
  <2> QED
    BY <1>1, <2>2, StreamTypes
<1>6. \A t \in b.streams : mdOrdinary'[t] = mdOrdinary[t] \/ mdOrdinary'[t] = <<>>
        \/ (mdOrdinary[t] # <<>> /\ mdOrdinary'[t] = Tail(mdOrdinary[t]))
  BY <1>1, StreamTypes
<1> QED
  BY <1>1, <1>4, <1>5, <1>6, StreamTypes, StreamKeeps

LEMMA DropKeeps ==
  ASSUME NEW b, ManagementConstants(b), ManagementInv(b),
         NEW s \in b.streams, MD(b)!Drop(s), UNCHANGED MD(b)!clientVars,
         mdUp' = [mdUp EXCEPT ![s] = <<>>], mdDown' \in [b.streams -> Seq(Frames(b))]
  PROVE  ManagementInv(b)'
<1>1. /\ mdTerminal' = [mdTerminal EXCEPT ![s] = <<>>]
           /\ mdOrdinary' = [mdOrdinary EXCEPT ![s] = <<>>]
      /\ UNCHANGED <<mdTask, mdSent, mdAcks>>
  BY DEF MD!Drop
<1>2. /\ mdTerminal' \in [b.streams -> {<<>>} \cup {<<j>> : j \in b.kickers}]
      /\ \A t \in b.streams : mdTerminal'[t] \in {mdTerminal[t], <<>>}
  BY <1>1, StreamTypes
<1>3. /\ mdOrdinary' \in [b.streams -> Seq(b.notifiers)]
      /\ \A t \in b.streams : mdOrdinary'[t] = mdOrdinary[t] \/ mdOrdinary'[t] = <<>>
  BY <1>1, StreamTypes
<1>4. DOMAIN mdUp' = b.streams /\ \A t \in b.streams : mdUp'[t] # <<>> => mdUp[t] # <<>>
  BY StreamTypes
<1> QED
  BY <1>1, <1>2, <1>3, <1>4, StreamTypes, StreamKeeps

LEMMA CloseKickedStep ==
  ASSUME NEW b, ManagementConstants(b), ManagementInv(b), NEW s \in b.streams, MD(b)!CloseKicked(s)
  PROVE  ManagementInv(b)'
BY DropKeeps, StreamTypes DEF MD!CloseKicked

LEMMA CarrierFailsStep ==
  ASSUME NEW b, ManagementConstants(b), ManagementInv(b), NEW s \in b.streams, MD(b)!CarrierFails(s)
  PROVE  ManagementInv(b)'
<1>1. mdDown' \in [b.streams -> Seq(Frames(b))]
  BY StreamTypes DEF MD!CarrierFails
<1> QED
  BY <1>1, DropKeeps DEF MD!CarrierFails

LEMMA ReceiveAckStep ==
  ASSUME NEW b, ManagementConstants(b), ManagementInv(b), NEW s \in b.streams,
         NEW i \in DOMAIN mdUp[s],
         MD(b)!ReceiveAck(s, i)
  PROVE  ManagementInv(b)'
<1>1. /\ mdAcks' = [mdAcks EXCEPT ![mdUp[s][i]] = MD(b)!NoSender]
      /\ mdUp' = [mdUp EXCEPT ![s] = SubSeq(@, 1, i - 1) \o SubSeq(@, i + 1, Len(@))]
      /\ UNCHANGED <<mdTask, mdSent, mdTerminal, mdOrdinary, mdDown, MD(b)!clientVars>>
  BY DEF MD!ReceiveAck
<1>2. mdUp[s] # <<>>
  OBVIOUS
<1>3. MD(b)!KickHeld
  BY <1>2, StreamTypes
<1>4. DOMAIN mdUp' = b.streams /\ \A t \in b.streams : mdUp'[t] # <<>> => mdUp[t] # <<>>
  BY <1>1, <1>2, StreamTypes
<1>5. /\ mdAcks' \in [b.msgId -> MD(b)!Senders \cup {MD(b)!NoSender}]
      /\ \A m \in b.msgId : mdAcks'[m] # mdAcks[m] => mdAcks'[m] = MD(b)!NoSender
  BY <1>1, StreamTypes
<1> QED
  BY <1>1, <1>3, <1>4, <1>5, StreamTypes, StreamKeeps

LEMMA LoseDatagramStep ==
  ASSUME NEW b, ManagementConstants(b), ManagementInv(b), NEW s \in b.streams, MD(b)!LoseDatagram(s)
  PROVE  ManagementInv(b)'
<1>1. UNCHANGED <<mdTask, mdSent, mdAcks, mdTerminal, mdOrdinary, MD(b)!clientVars>>
  BY DEF MD!LoseDatagram, MD!serverVars
<1>2. CASE mdDown[s] # <<>> /\ mdDown' = [mdDown EXCEPT ![s] = Tail(@)] /\ UNCHANGED mdUp
  <2>1. mdDown' \in [b.streams -> Seq(Frames(b))]
    BY <1>2, StreamTypes
  <2> QED
    BY <1>1, <1>2, <2>1, StreamTypes, StreamKeeps
<1>3. CASE mdUp[s] # <<>> /\ mdUp' = [mdUp EXCEPT ![s] = Tail(@)] /\ UNCHANGED mdDown
  <2>1. DOMAIN mdUp' = b.streams /\ \A t \in b.streams : mdUp'[t] # <<>> => mdUp[t] # <<>>
    BY <1>3, StreamTypes
  <2> QED
    BY <1>1, <1>3, <2>1, StreamTypes, StreamKeeps
<1> QED
  BY <1>2, <1>3 DEF MD!LoseDatagram

LEMMA NewReceipts ==
  ASSUME NEW b, NEW r, r = [inflight |-> {}, completed |-> r.completed], NEW s
  PROVE  [r EXCEPT !.completed = s] = [inflight |-> {}, completed |-> s]
OBVIOUS

\* One message of one part: a known identifier is a repeat or a conflict, a new one is
\* complete and leaves a receipt; the oldest receipt may have to go.
LEMMA PushFrame ==
  ASSUME NEW b, ManagementConstants(b), NEW r \in Reassemblers(b), NEW f \in Frames(b)
  PROVE  /\ MD(b)!PushManagement(r, 0, f).state \in Reassemblers(b)
         /\ \A i \in 1..Len(MD(b)!PushManagement(r, 0, f).state.completed) :
              MD(b)!PushManagement(r, 0, f).state.completed[i].head.type = "kick" =>
                \/ MD(b)!PushManagement(r, 0, f).outcome = "complete" /\ f.type = "kick"
                \/ \E j \in 1..Len(r.completed) : r.completed[j].head.type = "kick"
         /\ MD(b)!PushManagement(r, 0, f).outcome = "duplicate" /\ f.type = "kick" =>
              \E j \in 1..Len(r.completed) : r.completed[j].head.type = "kick"
<1>1. r.inflight = {} /\ r.completed \in Seq(Receipts(b))
        /\ r = [inflight |-> {}, completed |-> r.completed]
  BY DEF Reassemblers
<1>2. MD(b)!Expire(r, 0) = r
  BY <1>1 DEF MD!Expire
<1>3. /\ f.type \in {"notice", "kick"} /\ f.count = 1 /\ f.id \in b.msgId /\ f.ack \in BOOLEAN
      /\ f.payload \in b.payload \ b.malformed
      /\ f.type = "notice" => ~f.ack
  BY DEF Frames
<1>4. /\ MD(b)!Label(f).type = f.type
      /\ MD(b)!Label(f) \in [id : b.msgId, type : {"kick", "notice"}, ack : BOOLEAN, count : {1}]
  BY <1>3 DEF MD!Label
<1>5. CASE MD(b)!ReceiptsOf(r, f.id) # {}
  <2> DEFINE o == IF \E i \in MD(b)!ReceiptsOf(r, f.id) : MD(b)!Matches(r.completed[i], f)
                  THEN "duplicate" ELSE "conflict"
  <2>1. MD(b)!Push(r, 0, f) = MD(b)!Result(r, o)
    BY <1>2, <1>5 DEF MD!Push
  <2>2. o = "duplicate" => \E j \in 1..Len(r.completed) : r.completed[j].head.type = f.type
    BY <1>1, <1>4 DEF MD!ReceiptsOf, MD!Matches
  <2>3. o \in {"duplicate", "conflict"}
    OBVIOUS
  <2> HIDE DEF o
  <2>4. MD(b)!Push(r, 0, f).state = r /\ MD(b)!Push(r, 0, f).outcome = o
    BY <2>1 DEF MD!Result
  <2>5. MD(b)!PushManagement(r, 0, f) \in {MD(b)!Push(r, 0, f), MD(b)!Result(r, "invalid")}
    BY <1>3, <2>3, <2>4 DEF MD!PushManagement, MD!ManagementTypes
  <2>6. /\ MD(b)!PushManagement(r, 0, f).state = r
        /\ MD(b)!PushManagement(r, 0, f).outcome = "duplicate" => o = "duplicate"
    BY <2>4, <2>5 DEF MD!Result
  <2> QED
    BY <2>2, <2>6
<1>6. CASE MD(b)!ReceiptsOf(r, f.id) = {}
  <2> DEFINE c == [head |-> MD(b)!Label(f), parts |-> <<f.payload>>, validated |-> FALSE]
             kept == IF Len(r.completed) = b.cache THEN Tail(r.completed) ELSE r.completed
             new == Append(kept, c)
             marked == [i \in DOMAIN new |->
                          IF new[i].head.id = f.id THEN [new[i] EXCEPT !.validated = TRUE] ELSE new[i]]
  <2>1. c \in Receipts(b) /\ c.head.type = f.type
    <3>1. f.payload \in b.payload /\ <<>> \in Seq(b.payload)
      BY <1>3
    <3>2. <<f.payload>> \in Seq(b.payload)
      BY <3>1, OneMore
    <3> QED
      BY <1>4, <3>2 DEF Receipts
  <2>2. kept \in Seq(Receipts(b))
          /\ \A i \in 1..Len(kept) : \E j \in 1..Len(r.completed) : kept[i] = r.completed[j]
    <3>1. CASE Len(r.completed) = b.cache
      <4>1. r.completed # <<>>
        BY <1>1, <3>1 DEF ManagementConstants
      <4>2. kept \in Seq(Receipts(b)) /\ \A i \in 1..Len(kept) : i + 1 \in 1..Len(r.completed)
              /\ kept[i] = r.completed[i + 1]
        BY <1>1, <3>1, <4>1
      <4> QED
        BY <4>2
    <3>2. CASE Len(r.completed) # b.cache
      BY <1>1, <3>2
    <3> QED
      BY <3>1, <3>2
  <2>3. MD(b)!Push(r, 0, f) = MD(b)!Completed(r, MD(b)!Label(f), <<f.payload>>)
    BY <1>1, <1>2, <1>3, <1>6 DEF MD!Push, MD!InflightOf
  <2>4. MD(b)!RememberCompleted(r, c) = [inflight |-> {}, completed |-> new]
    <3>1. MD(b)!RememberCompleted(r, c) = [r EXCEPT !.completed = new]
      BY DEF MD!RememberCompleted
    <3> HIDE DEF new
    <3> QED
      BY <1>1, <3>1, NewReceipts
  <2> HIDE DEF c, kept
  <2>5. /\ Len(new) = Len(kept) + 1 /\ new \in Seq(Receipts(b)) /\ new[Len(kept) + 1] = c
        /\ \A i \in 1..Len(kept) : new[i] = kept[i]
    BY <2>1, <2>2
  <2>6. /\ MD(b)!Push(r, 0, f).state = [inflight |-> {}, completed |-> new]
        /\ MD(b)!Push(r, 0, f).outcome = "complete" /\ MD(b)!Push(r, 0, f).parts = <<f.payload>>
        /\ DOMAIN MD(b)!Push(r, 0, f) = {"state", "outcome", "parts"}
    BY <2>3, <2>4 DEF MD!Completed, c
  <2>7. MD(b)!DecodesAsManagement(MD(b)!Label(f), MD(b)!Push(r, 0, f).parts)
    <3>1. \A i \in DOMAIN <<f.payload>> : <<f.payload>>[i] \notin b.malformed
      BY <1>3
    <3>2. MD(b)!Label(f).type = "notice" => ~MD(b)!Label(f).ack
      BY <1>3 DEF MD!Label
    <3> QED
      BY <2>6, <3>1, <3>2 DEF MD!DecodesAsManagement
  <2>8. MD(b)!PushManagement(r, 0, f) = [MD(b)!Push(r, 0, f) EXCEPT !.state = MD(b)!Validate(@, f.id)]
    BY <1>3, <2>6, <2>7 DEF MD!PushManagement, MD!ManagementTypes
  <2>9. MD(b)!Validate(MD(b)!Push(r, 0, f).state, f.id) = [inflight |-> {}, completed |-> marked]
    <3> DEFINE q == MD(b)!Push(r, 0, f).state
    <3>1. q = [inflight |-> {}, completed |-> new] /\ q.completed = new
      BY <2>6
    <3>2. MD(b)!Validate(q, f.id) = [q EXCEPT !.completed = marked]
      BY <3>1 DEF MD!Validate
    <3> HIDE DEF q, marked
    <3>3. MD(b)!Validate(q, f.id) = [inflight |-> {}, completed |-> marked]
      BY <3>1, <3>2, NewReceipts
    <3> QED
      BY <3>3 DEF q
  <2>10. /\ MD(b)!PushManagement(r, 0, f).state = [inflight |-> {}, completed |-> marked]
         /\ MD(b)!PushManagement(r, 0, f).outcome = "complete"
    BY <2>6, <2>8, <2>9
  <2> HIDE DEF new
  <2>11. \A i \in 1..Len(new) : new[i] \in Receipts(b)
    BY <2>5
  <2>12. ASSUME NEW i \in 1..Len(new)
         PROVE  marked[i] \in Receipts(b) /\ marked[i].head = new[i].head
    <3>1. new[i] \in Receipts(b) /\ i \in DOMAIN new
      BY <2>5, <2>11
    <3>2. [new[i] EXCEPT !.validated = TRUE] \in Receipts(b)
            /\ [new[i] EXCEPT !.validated = TRUE].head = new[i].head
      BY <3>1 DEF Receipts
    <3> QED
      BY <3>1, <3>2
  <2>13. marked \in Seq(Receipts(b)) /\ Len(marked) = Len(new)
    <3>1. DOMAIN new = 1..Len(new) /\ Len(new) \in Nat
      BY <2>5
    <3>2. marked \in [1..Len(new) -> Receipts(b)]
      BY <2>12, <3>1
    <3> HIDE DEF marked
    <3> QED
      BY <3>1, <3>2
  <2> HIDE DEF marked
  <2>14. ASSUME NEW i \in 1..Len(marked), marked[i].head.type = "kick"
         PROVE  f.type = "kick" \/ \E j \in 1..Len(r.completed) : r.completed[j].head.type = "kick"
    <3>1. i \in 1..Len(kept) + 1 /\ new[i].head.type = "kick"
      BY <2>5, <2>12, <2>13, <2>14
    <3>2. CASE i = Len(kept) + 1
      BY <2>1, <2>5, <3>1, <3>2
    <3>3. CASE i \in 1..Len(kept)
      BY <2>2, <2>5, <3>1, <3>3
    <3> QED
      BY <2>2, <3>1, <3>2, <3>3
  <2> QED
    BY <2>10, <2>13, <2>14 DEF Reassemblers
<1> QED
  BY <1>5, <1>6

\* What a step of the client has to keep.
LEMMA ClientKeeps ==
  ASSUME NEW b, ManagementInv(b), UNCHANGED MD(b)!serverVars,
         mdDown' \in [b.streams -> Seq(Frames(b))], DOMAIN mdUp' = b.streams, DOMAIN mdLane' = b.streams,
         mdReader' \in [b.streams -> [todo : {<<>>}] \cup [todo : Todos, event : Frames(b)]],
         mdReassembler' \in Reassemblers(b),
         mdSlot' \in [event : {"none", "kick", "notice"}, unseen : BOOLEAN],
         mdClient' \in [phase : {"running", "closing", "finished"}, result : {"ok", "kick", "error"}],
         mdReceipted' \in BOOLEAN,
         MD(b)!KickHeld => MD(b)!KickHeld', ReceiptsAreHeld(b)', MD(b)!ReceiptedKickWins',
         \A s \in b.streams : mdUp'[s] # <<>> \/ mdLane'[s] # <<>> => MD(b)!KickHeld'
  PROVE  ManagementInv(b)'
<1>1. /\ mdTask' = mdTask /\ mdSent' = mdSent /\ mdAcks' = mdAcks /\ mdTerminal' = mdTerminal
      /\ mdOrdinary' = mdOrdinary
  BY DEF MD!serverVars
<1>2. ManagementOK(b)'
  BY <1>1 DEF ManagementInv, ManagementOK
<1>3. QueuedIsStarted(b)'
  BY <1>1 DEF ManagementInv, QueuedIsStarted, Started
<1>4. TasksAreSound(b)'
  BY <1>1 DEF ManagementInv, TasksAreSound, Started
<1>5. AcknowledgedHasIt(b)'
  BY <1>1 DEF ManagementInv, AcknowledgedHasIt, Started
<1>6. MD(b)!AcknowledgedIsHeld'
  BY <1>1 DEF ManagementInv, MD!AcknowledgedIsHeld
<1>7. MD(b)!RegistryIsOwned'
  BY <1>1 DEF ManagementInv, MD!RegistryIsOwned
<1> QED
  BY <1>2, <1>3, <1>4, <1>5, <1>6, <1>7 DEF ManagementInv

LEMMA ClientTypes ==
  ASSUME NEW b, ManagementInv(b)
  PROVE  /\ mdDown \in [b.streams -> Seq(Frames(b))] /\ DOMAIN mdUp = b.streams
              /\ DOMAIN mdLane = b.streams
         /\ mdReader \in [b.streams -> [todo : {<<>>}] \cup [todo : Todos, event : Frames(b)]]
         /\ mdReassembler \in Reassemblers(b)
         /\ mdSlot \in [event : {"none", "kick", "notice"}, unseen : BOOLEAN]
         /\ mdClient \in [phase : {"running", "closing", "finished"}, result : {"ok", "kick", "error"}]
         /\ mdReceipted \in BOOLEAN
         /\ \A s \in b.streams : mdUp[s] # <<>> \/ mdLane[s] # <<>> => MD(b)!KickHeld
         /\ \A s \in b.streams : mdReader[s].todo # <<>> => mdReader[s].todo \in Todos
              /\ mdReader[s].event \in Frames(b)
BY DEF ManagementInv, ManagementOK, MD!AcknowledgedIsHeld

LEMMA TwoInOrder ==
  ASSUME NEW b, NEW x, NEW y
  PROVE  <<x>> \o <<y>> = <<x, y>>
<1> DEFINE s == <<x>> \o <<y>>
           t == <<x, y>>
<1>1. <<x>> \in Seq({x, y}) /\ <<y>> \in Seq({x, y}) /\ Len(<<x>>) = 1 /\ Len(<<y>>) = 1
  OBVIOUS
<1>2. s \in Seq({x, y}) /\ Len(s) = 2
  BY <1>1
<1>3. s[1] = x /\ s[2] = y
  BY <1>1
<1>4. t \in Seq({x, y}) /\ Len(t) = 2
  OBVIOUS
<1>5. t[1] = x /\ t[2] = y
  OBVIOUS
<1> HIDE DEF s, t
<1>6. \A i \in 1..2 : s[i] = t[i]
  BY <1>3, <1>5
<1>7. s = t
  BY <1>2, <1>4, <1>6
<1> QED
  BY <1>7 DEF s, t

\* What a reader has to do about a frame.
LEMMA TodoCases ==
  ASSUME NEW b, ManagementConstants(b), NEW f \in Frames(b), NEW o
  PROVE  /\ MD(b)!Todo(f, o) \in Todos
         /\ o = "complete" => \E j \in DOMAIN MD(b)!Todo(f, o) : MD(b)!Todo(f, o)[j] = "publish"
         /\ o \notin {"complete", "duplicate"} => MD(b)!Todo(f, o) = <<>>
         /\ ~f.ack => \A j \in DOMAIN MD(b)!Todo(f, o) : MD(b)!Todo(f, o)[j] # "ack"
<1>1. f.ack \in BOOLEAN /\ b.datagram \in BOOLEAN
  BY DEF Frames, ManagementConstants
<1>2. CASE o = "complete" /\ f.ack
  <2>1. MD(b)!Todo(f, o) \in {<<"publish", "ack">>, <<"ack", "publish">>}
    <3>1. MD(b)!Todo(f, o) \in {<<"publish">> \o <<"ack">>, <<"ack">> \o <<"publish">>}
      BY <1>1, <1>2 DEF MD!Todo
    <3> QED
      BY <3>1, TwoInOrder
  <2>2. DOMAIN MD(b)!Todo(f, o) = {1, 2} /\ (MD(b)!Todo(f, o)[1] = "publish"
          \/ MD(b)!Todo(f, o)[2] = "publish")
    BY <2>1
  <2> QED
    BY <1>2, <2>1, <2>2 DEF Todos
<1>3. CASE o = "complete" /\ ~f.ack
  <2>1. MD(b)!Todo(f, o) = <<"publish">>
    BY <1>1, <1>3 DEF MD!Todo
  <2>2. DOMAIN MD(b)!Todo(f, o) = {1} /\ MD(b)!Todo(f, o)[1] = "publish"
    BY <2>1
  <2> QED
    BY <1>3, <2>1, <2>2 DEF Todos
<1>4. CASE o = "duplicate" /\ f.ack
  BY <1>4 DEF MD!Todo, Todos
<1>5. CASE o = "duplicate" /\ ~f.ack
  BY <1>5 DEF MD!Todo, Todos
<1>6. CASE o \notin {"complete", "duplicate"}
  BY <1>6 DEF MD!Todo, Todos
<1> QED
  BY <1>1, <1>2, <1>3, <1>4, <1>5, <1>6

LEMMA ReceiveStep ==
  ASSUME NEW b, ManagementConstants(b), ManagementInv(b), NEW s \in b.streams,
         NEW i \in DOMAIN mdDown[s],
         MD(b)!Receive(s, i)
  PROVE  ManagementInv(b)'
<1> DEFINE f == mdDown[s][i]
           q == MD(b)!PushManagement(mdReassembler, 0, f)
           work == [todo |-> MD(b)!Todo(f, q.outcome), event |-> f]
<1>1. /\ mdClient.phase # "finished" /\ mdReader[s].todo = <<>>
      /\ mdReassembler' = q.state /\ mdReader' = [mdReader EXCEPT ![s] = work]
      /\ mdDown' = [mdDown EXCEPT ![s] = SubSeq(@, 1, i - 1) \o SubSeq(@, i + 1, Len(@))]
      /\ UNCHANGED MD(b)!serverVars /\ UNCHANGED <<mdUp, mdLane, mdSlot, mdClient, mdReceipted>>
  BY DEF MD!Receive
<1>2. f \in Frames(b) /\ i \in 1..Len(mdDown[s])
  BY ClientTypes
<1>3. /\ q.state \in Reassemblers(b)
      /\ \A j \in 1..Len(q.state.completed) : q.state.completed[j].head.type = "kick" =>
           \/ q.outcome = "complete" /\ f.type = "kick"
           \/ \E l \in 1..Len(mdReassembler.completed) : mdReassembler.completed[l].head.type = "kick"
      /\ q.outcome = "duplicate" /\ f.type = "kick" =>
           \E l \in 1..Len(mdReassembler.completed) : mdReassembler.completed[l].head.type = "kick"
  BY <1>2, PushFrame, ClientTypes
<1>4. /\ MD(b)!Todo(f, q.outcome) \in Todos
      /\ q.outcome = "complete" =>
           \E j \in DOMAIN MD(b)!Todo(f, q.outcome) : MD(b)!Todo(f, q.outcome)[j] = "publish"
      /\ q.outcome \notin {"complete", "duplicate"} => MD(b)!Todo(f, q.outcome) = <<>>
      /\ ~f.ack => \A j \in DOMAIN MD(b)!Todo(f, q.outcome) : MD(b)!Todo(f, q.outcome)[j] # "ack"
  BY <1>2, TodoCases
<1>5. f.ack => f.type = "kick"
  BY <1>2 DEF Frames
<1>6. mdDown' \in [b.streams -> Seq(Frames(b))]
  BY <1>1, <1>2, ClientTypes
<1> HIDE DEF q, f
<1>7. work.todo = MD(b)!Todo(f, q.outcome) /\ work.event = f
      /\ work \in [todo : Todos, event : Frames(b)]
  BY <1>2, <1>4
<1> HIDE DEF work
<1>8. /\ mdReader' \in [b.streams -> [todo : {<<>>}] \cup [todo : Todos, event : Frames(b)]]
      /\ mdReader'[s] = work /\ \A t \in b.streams \ {s} : mdReader'[t] = mdReader[t]
  BY <1>1, <1>7, ClientTypes
<1>9. MD(b)!KickHeld => MD(b)!KickHeld'
  <2>1. ASSUME NEW t \in b.streams, MD(b)!Publishing(t), mdReader[t].event.type = "kick"
        PROVE  MD(b)!Publishing(t)' /\ mdReader'[t].event.type = "kick"
    <3>1. t # s
      BY <1>1, <2>1 DEF MD!Publishing
    <3> QED
      BY <1>8, <2>1, <3>1 DEF MD!Publishing
  <2> QED
    BY <1>1, <2>1 DEF MD!KickHeld
<1>10. q.outcome = "complete" /\ f.type = "kick" => MD(b)!KickHeld'
  BY <1>4, <1>7, <1>8 DEF MD!KickHeld, MD!Publishing
<1>11. (\E l \in 1..Len(mdReassembler.completed) : mdReassembler.completed[l].head.type = "kick") => MD(b)!KickHeld'
  BY <1>9 DEF ManagementInv, ReceiptsAreHeld
<1>12. ReceiptsAreHeld(b)'
  <2>1. \A j \in 1..Len(mdReassembler'.completed) :
          mdReassembler'.completed[j].head.type = "kick" => MD(b)!KickHeld'
    BY <1>1, <1>3, <1>10, <1>11
  <2>2. ASSUME NEW t \in b.streams, \E j \in DOMAIN mdReader'[t].todo : mdReader'[t].todo[j] = "ack"
        PROVE  MD(b)!KickHeld'
    <3>1. CASE t = s
      BY <1>3, <1>4, <1>5, <1>7, <1>8, <1>10, <1>11, <2>2, <3>1
    <3>2. CASE t # s
      BY <1>8, <1>9, <2>2, <3>2 DEF ManagementInv, ReceiptsAreHeld
    <3> QED
      BY <3>1, <3>2
  <2>3. mdReceipted' => MD(b)!KickHeld'
    BY <1>1, <1>9 DEF ManagementInv, ReceiptsAreHeld
  <2> QED
    BY <1>1, <2>1, <2>2, <2>3 DEF ReceiptsAreHeld
<1>13. MD(b)!ReceiptedKickWins'
  BY <1>1 DEF MD!ReceiptedKickWins
<1> QED
  BY <1>1, <1>3, <1>6, <1>8, <1>9, <1>12, <1>13, ClientTypes, ClientKeeps

\* The rest of a reader's work.
LEMMA ReaderStep ==
  ASSUME NEW b, ManagementInv(b), NEW s \in b.streams, mdReader[s].todo # <<>>,
         mdReader' = [mdReader EXCEPT ![s].todo = Tail(@)]
  PROVE  /\ mdReader' \in [b.streams -> [todo : {<<>>}] \cup [todo : Todos, event : Frames(b)]]
         /\ mdReader'[s].event = mdReader[s].event /\ mdReader'[s].todo = Tail(mdReader[s].todo)
         /\ \A t \in b.streams \ {s} : mdReader'[t] = mdReader[t]
         /\ \A t \in b.streams : (\E j \in DOMAIN mdReader'[t].todo : mdReader'[t].todo[j] = "ack") =>
              \E j \in DOMAIN mdReader[t].todo : mdReader[t].todo[j] = "ack"
         /\ \A t \in b.streams : t # s \/ mdReader[s].todo[1] = "ack" => (MD(b)!Publishing(t) =>
              MD(b)!Publishing(t)')
         /\ mdClient.phase # "finished"
<1>1. mdReader[s] \in [todo : Todos, event : Frames(b)]
  BY ClientTypes
<1> DEFINE todo == mdReader[s].todo
           work == [mdReader[s] EXCEPT !.todo = Tail(@)]
<1>2. /\ Tail(todo) \in Todos
      /\ (\E j \in DOMAIN Tail(todo) : Tail(todo)[j] = "ack") =>
           \E j \in DOMAIN todo : todo[j] = "ack"
      /\ todo[1] = "ack" /\ (\E j \in DOMAIN todo : todo[j] = "publish") =>
           \E j \in DOMAIN Tail(todo) : Tail(todo)[j] = "publish"
  <2>1. CASE todo = <<"ack">> \/ todo = <<"publish">>
    <3>1. Tail(<<"ack">>) = <<>> /\ Tail(<<"publish">>) = <<>>
      OBVIOUS
    <3>2. Tail(todo) = <<>>
      BY <2>1, <3>1
    <3>3. \A j \in DOMAIN <<"ack">> : <<"ack">>[j] # "publish"
      OBVIOUS
    <3>4. todo[1] = "ack" => todo = <<"ack">>
      BY <2>1
    <3> QED
      BY <3>2, <3>3, <3>4 DEF Todos
  <2>2. CASE todo = <<"ack", "publish">>
    <3>1. Tail(todo) = <<"publish">> /\ todo[1] = "ack"
      BY <2>2
    <3>2. DOMAIN <<"publish">> = {1} /\ <<"publish">>[1] = "publish"
      OBVIOUS
    <3> QED
      BY <3>1, <3>2 DEF Todos
  <2>3. CASE todo = <<"publish", "ack">>
    <3>1. Tail(todo) = <<"ack">> /\ todo[1] = "publish" /\ todo[2] = "ack" /\ 2 \in DOMAIN todo
      BY <2>3
    <3> QED
      BY <3>1 DEF Todos
  <2> QED
    BY <1>1, <2>1, <2>2, <2>3 DEF Todos
<1>3. mdReader' = [mdReader EXCEPT ![s] = work]
  BY ClientTypes
<1>4. work \in [todo : Todos, event : Frames(b)] /\ work.todo = Tail(todo)
        /\ work.event = mdReader[s].event
  BY <1>1, <1>2
<1> HIDE DEF work
<1>5. /\ mdReader'[s] = work /\ \A t \in b.streams \ {s} : mdReader'[t] = mdReader[t]
      /\ mdReader' \in [b.streams -> [todo : {<<>>}] \cup [todo : Todos, event : Frames(b)]]
  BY <1>3, <1>4, ClientTypes
<1>6. \A t \in b.streams : (\E j \in DOMAIN mdReader'[t].todo : mdReader'[t].todo[j] = "ack") =>
        \E j \in DOMAIN mdReader[t].todo : mdReader[t].todo[j] = "ack"
  BY <1>2, <1>4, <1>5
<1>7. \A t \in b.streams : t # s \/ mdReader[s].todo[1] = "ack" => (MD(b)!Publishing(t) =>
        MD(b)!Publishing(t)')
  BY <1>2, <1>4, <1>5 DEF MD!Publishing
<1>8. mdClient.phase # "finished"
  BY DEF ManagementInv, ReceiptsAreHeld
<1> QED
  BY <1>4, <1>5, <1>6, <1>7, <1>8

LEMMA QueueAckStep ==
  ASSUME NEW b, ManagementConstants(b), ManagementInv(b), NEW s \in b.streams, MD(b)!QueueAck(s)
  PROVE  ManagementInv(b)'
<1>1. /\ mdReader[s].todo # <<>> /\ mdReader[s].todo[1] = "ack" /\ mdReceipted' = TRUE
      /\ mdReader' = [mdReader EXCEPT ![s].todo = Tail(@)]
      /\ UNCHANGED MD(b)!serverVars /\ UNCHANGED <<mdDown, mdReassembler, mdSlot, mdClient>>
  BY DEF MD!QueueAck
<1>2. DOMAIN mdUp' = b.streams /\ DOMAIN mdLane' = b.streams
  BY ClientTypes DEF MD!QueueAck
<1>3. MD(b)!KickHeld
  <2>1. mdReader[s].todo \in Todos
    BY <1>1, ClientTypes
  <2>2. 1 \in DOMAIN mdReader[s].todo
    BY <1>1, <2>1 DEF Todos
  <2> QED
    BY <1>1, <2>2 DEF ManagementInv, ReceiptsAreHeld
<1>4. MD(b)!KickHeld'
  <2>1. \A t \in b.streams : MD(b)!Publishing(t) => MD(b)!Publishing(t)'
    BY <1>1, ReaderStep
  <2>2. \A t \in b.streams : mdReader'[t].event = mdReader[t].event
    BY <1>1, ReaderStep
  <2> QED
    BY <1>1, <1>3, <2>1, <2>2 DEF MD!KickHeld
<1>5. ReceiptsAreHeld(b)' /\ MD(b)!ReceiptedKickWins'
  BY <1>1, <1>4, ReaderStep DEF ReceiptsAreHeld, MD!ReceiptedKickWins
<1> QED
  BY <1>1, <1>2, <1>4, <1>5, ReaderStep, ClientTypes, ClientKeeps

LEMMA PublishStep ==
  ASSUME NEW b, ManagementConstants(b), ManagementInv(b), NEW s \in b.streams, MD(b)!Publish(s)
  PROVE  ManagementInv(b)'
<1> DEFINE e == mdReader[s].event.type
<1>1. /\ mdReader[s].todo # <<>> /\ mdReader[s].todo[1] = "publish"
      /\ mdReader' = [mdReader EXCEPT ![s].todo = Tail(@)]
      /\ \/ mdSlot' = mdSlot /\ e = "notice" /\ mdSlot.event = "kick"
         \/ mdSlot' = [event |-> e, unseen |-> TRUE] /\ ~(e = "notice" /\ mdSlot.event = "kick")
      /\ UNCHANGED MD(b)!serverVars
      /\ UNCHANGED <<mdDown, mdUp, mdReassembler, mdLane, mdClient, mdReceipted>>
  BY DEF MD!Publish
<1>2. e \in {"kick", "notice"}
  BY <1>1, ClientTypes DEF Frames
<1>3. mdSlot' \in [event : {"none", "kick", "notice"}, unseen : BOOLEAN]
  <2>1. CASE mdSlot' = mdSlot
    BY <2>1, ClientTypes
  <2>2. CASE mdSlot' = [event |-> e, unseen |-> TRUE]
    BY <1>2, <2>2
  <2> QED
    BY <1>1, <2>1, <2>2
<1>4. MD(b)!KickHeld => MD(b)!KickHeld'
  <2>1. mdSlot.event = "kick" \/ e = "kick" => mdSlot'.event = "kick"
    BY <1>1, <1>2
  <2>2. \A t \in b.streams \ {s} : mdReader'[t] = mdReader[t] /\ (MD(b)!Publishing(t) =>
          MD(b)!Publishing(t)')
    BY <1>1, ReaderStep
  <2> QED
    BY <2>1, <2>2 DEF MD!KickHeld
<1>5. ReceiptsAreHeld(b)'
  <2>1. \A t \in b.streams :
          (\E j \in DOMAIN mdReader'[t].todo : mdReader'[t].todo[j] = "ack") => MD(b)!KickHeld'
    <3>1. \A t \in b.streams : (\E j \in DOMAIN mdReader'[t].todo : mdReader'[t].todo[j] = "ack") =>
            \E j \in DOMAIN mdReader[t].todo : mdReader[t].todo[j] = "ack"
      BY <1>1, ReaderStep
    <3> QED
      BY <1>4, <3>1 DEF ManagementInv, ReceiptsAreHeld
  <2>2. mdClient'.phase # "finished"
    BY <1>1, ReaderStep
  <2>3. /\ \A i \in 1..Len(mdReassembler'.completed) :
             mdReassembler'.completed[i].head.type = "kick" => MD(b)!KickHeld'
        /\ mdReceipted' => MD(b)!KickHeld'
    BY <1>1, <1>4 DEF ManagementInv, ReceiptsAreHeld
  <2> QED
    BY <2>1, <2>2, <2>3 DEF ReceiptsAreHeld
<1>6. MD(b)!ReceiptedKickWins'
  BY <1>1 DEF ManagementInv, MD!ReceiptedKickWins
<1> QED
  BY <1>1, <1>3, <1>4, <1>5, <1>6, ReaderStep, ClientTypes, ClientKeeps

LEMMA SendAckStep ==
  ASSUME NEW b, ManagementConstants(b), ManagementInv(b), NEW s \in b.streams, MD(b)!SendAck(s)
  PROVE  ManagementInv(b)'
<1>1. /\ mdLane[s] # <<>> /\ mdLane' = [mdLane EXCEPT ![s] = Tail(@)]
      /\ mdUp' = [mdUp EXCEPT ![s] = Append(@, mdLane[s][1])] \/ mdUp' = mdUp
      /\ UNCHANGED MD(b)!serverVars
      /\ UNCHANGED <<mdDown, mdReassembler, mdReader, mdSlot, mdClient, mdReceipted>>
  BY DEF MD!SendAck
<1>2. MD(b)!KickHeld /\ MD(b)!KickHeld'
  BY <1>1, ClientTypes DEF MD!KickHeld, MD!Publishing
<1>3. DOMAIN mdUp' = b.streams /\ DOMAIN mdLane' = b.streams
  BY <1>1, ClientTypes
<1>4. ReceiptsAreHeld(b)' /\ MD(b)!ReceiptedKickWins'
  BY <1>1, <1>2 DEF ManagementInv, ReceiptsAreHeld, MD!ReceiptedKickWins
<1> QED
  BY <1>1, <1>2, <1>3, <1>4, ClientTypes, ClientKeeps

\* The supervisor: what it does with the slot and how the session ends.
LEMMA SupervisorKeeps ==
  ASSUME NEW b, ManagementInv(b), UNCHANGED MD(b)!serverVars,
         UNCHANGED <<mdDown, mdUp, mdReassembler, mdReader, mdLane, mdReceipted>>,
         mdSlot' \in [event : {"none", "kick", "notice"}, unseen : BOOLEAN],
         mdSlot'.event = mdSlot.event,
         mdClient' \in [phase : {"running", "closing", "finished"}, result : {"ok", "kick", "error"}],
         mdClient'.phase = "finished" =>
           /\ \A s \in b.streams : mdReader[s].todo = <<>>
           /\ mdSlot.event = "kick" => mdClient'.result = "kick"
  PROVE  ManagementInv(b)'
<1>1. MD(b)!KickHeld' <=> MD(b)!KickHeld
  BY DEF MD!KickHeld, MD!Publishing
<1>2. ReceiptsAreHeld(b)'
  BY <1>1 DEF ManagementInv, ReceiptsAreHeld
<1>3. MD(b)!ReceiptedKickWins'
  <2> SUFFICES ASSUME mdClient'.phase = "finished", mdReceipted
               PROVE  mdClient'.result = "kick"
    BY DEF MD!ReceiptedKickWins
  <2>1. MD(b)!KickHeld
    BY DEF ManagementInv, ReceiptsAreHeld
  <2>2. \A s \in b.streams : ~MD(b)!Publishing(s)
    BY DEF MD!Publishing
  <2> QED
    BY <2>1, <2>2 DEF MD!KickHeld
<1> QED
  BY <1>1, <1>2, <1>3, ClientTypes, ClientKeeps

LEMMA ObserveStep ==
  ASSUME NEW b, ManagementConstants(b), ManagementInv(b),
         NEW delivered \in BOOLEAN, MD(b)!Observe(delivered)
  PROVE  ManagementInv(b)'
<1>1. /\ mdClient.phase = "running" /\ mdSlot' = [mdSlot EXCEPT !.unseen = FALSE]
      /\ \/ mdClient' = [phase |-> "closing", result |-> "kick"]
         \/ mdClient' = [phase |-> "closing", result |-> "error"]
         \/ mdClient' = mdClient
      /\ UNCHANGED MD(b)!serverVars
           /\ UNCHANGED <<mdDown, mdUp, mdReassembler, mdReader, mdLane, mdReceipted>>
  BY DEF MD!Observe, MD!Close
<1>2. /\ mdSlot' \in [event : {"none", "kick", "notice"}, unseen : BOOLEAN]
      /\ mdSlot'.event = mdSlot.event
  BY <1>1, ClientTypes
<1>3. /\ mdClient' \in [phase : {"running", "closing", "finished"}, result : {"ok", "kick", "error"}]
      /\ mdClient'.phase # "finished"
  BY <1>1, ClientTypes
<1> QED
  BY <1>1, <1>2, <1>3, SupervisorKeeps

LEMMA CloseStep ==
  ASSUME NEW b, ManagementConstants(b), ManagementInv(b), MD(b)!Disconnected \/ MD(b)!Cancel
  PROVE  ManagementInv(b)'
<1>1. /\ mdClient' = [phase |-> "closing", result |-> "ok"] /\ mdSlot' = mdSlot
      /\ UNCHANGED MD(b)!serverVars
           /\ UNCHANGED <<mdDown, mdUp, mdReassembler, mdReader, mdLane, mdReceipted>>
  BY DEF MD!Disconnected, MD!Cancel, MD!Close
<1>2. /\ mdClient' \in [phase : {"running", "closing", "finished"}, result : {"ok", "kick", "error"}]
      /\ mdClient'.phase # "finished"
  BY <1>1
<1> QED
  BY <1>1, <1>2, ClientTypes, SupervisorKeeps

LEMMA FinishStep ==
  ASSUME NEW b, ManagementConstants(b), ManagementInv(b), MD(b)!Finish
  PROVE  ManagementInv(b)'
<1>1. /\ \A s \in b.streams : mdReader[s].todo = <<>>
      /\ mdClient' = [phase |-> "finished",
                    result |-> IF mdSlot.event = "kick" THEN "kick" ELSE mdClient.result]
      /\ mdSlot' = mdSlot
      /\ UNCHANGED MD(b)!serverVars
           /\ UNCHANGED <<mdDown, mdUp, mdReassembler, mdReader, mdLane, mdReceipted>>
  BY DEF MD!Finish
<1>2. /\ mdClient' \in [phase : {"running", "closing", "finished"}, result : {"ok", "kick", "error"}]
      /\ mdSlot.event = "kick" => mdClient'.result = "kick"
  BY <1>1, ClientTypes
<1> QED
  BY <1>1, <1>2, ClientTypes, SupervisorKeeps

\* The invariant holds at first, and every step keeps it.
LEMMA ManagementStart ==
  ASSUME NEW b, ManagementConstants(b), MD(b)!Init
  PROVE  ManagementInv(b)
<1>1. ManagementOK(b)
  <2>1. mdReassembler \in Reassemblers(b)
    BY DEF MD!Init, MD!EmptyReassembler, Reassemblers
  <2>2. mdReader \in [b.streams -> [todo : {<<>>}] \cup [todo : Todos, event : Frames(b)]]
    BY DEF MD!Init
  <2>3. /\ mdAcks \in [b.msgId -> MD(b)!Senders \cup {MD(b)!NoSender}]
        /\ mdSent \in [MD(b)!Senders -> BOOLEAN] /\ DOMAIN mdTask = MD(b)!Senders
    BY DEF MD!Init
  <2>4. /\ mdTerminal \in [b.streams -> {<<>>} \cup {<<k>> : k \in b.kickers}]
        /\ mdOrdinary \in [b.streams -> Seq(b.notifiers)]
             /\ mdDown \in [b.streams -> Seq(Frames(b))]
        /\ DOMAIN mdUp = b.streams /\ DOMAIN mdLane = b.streams
    BY DEF MD!Init
  <2>5. /\ mdSlot \in [event : {"none", "kick", "notice"}, unseen : BOOLEAN]
        /\ mdClient \in [phase : {"running", "closing", "finished"}, result : {"ok", "kick", "error"}]
        /\ mdReceipted \in BOOLEAN
    BY DEF MD!Init
  <2> QED
    BY <2>1, <2>2, <2>3, <2>4, <2>5 DEF ManagementOK
<1>2. QueuedIsStarted(b)
  <2>1. \A s \in b.streams : mdTerminal[s] = <<>> /\ Len(mdOrdinary[s]) = 0
    BY DEF MD!Init
  <2>2. \A k \in b.kickers : <<k>> # <<>>
    OBVIOUS
  <2> QED
    BY <2>1, <2>2 DEF QueuedIsStarted
<1>3. \A m \in b.msgId : mdAcks[m] = MD(b)!NoSender
  BY DEF MD!Init
<1>4. \A k \in MD(b)!Senders : mdTask[k] = [pc |-> "idle"] /\ ~mdSent[k]
  BY DEF MD!Init
<1>5. \A k \in MD(b)!Senders : mdTask[k].pc = "idle" /\ "pc" \in DOMAIN mdTask[k]
  BY <1>4
<1>6. TasksAreSound(b)
  BY <1>3, <1>4, <1>5 DEF TasksAreSound, MD!Senders
<1>7. AcknowledgedHasIt(b)
  BY <1>5 DEF AcknowledgedHasIt, MD!Senders
<1>8. ReceiptsAreHeld(b)
  <2>1. Len(mdReassembler.completed) = 0 /\ ~mdReceipted /\ mdClient.phase = "running"
    BY DEF MD!Init, MD!EmptyReassembler
  <2>2. \A s \in b.streams : mdReader[s].todo = <<>>
    BY DEF MD!Init
  <2> QED
    BY <2>1, <2>2 DEF ReceiptsAreHeld
<1>9. MD(b)!AcknowledgedIsHeld
  BY <1>4 DEF MD!Init, MD!AcknowledgedIsHeld, MD!Senders
<1>10. MD(b)!RegistryIsOwned
  BY <1>3 DEF MD!RegistryIsOwned
<1>11. MD(b)!ReceiptedKickWins
  BY DEF MD!Init, MD!ReceiptedKickWins
<1> QED
  BY <1>1, <1>2, <1>6, <1>7, <1>8, <1>9, <1>10, <1>11 DEF ManagementInv

LEMMA ManagementStep ==
  ASSUME NEW b, ManagementConstants(b), ManagementInv(b), [MD(b)!Next]_(MD(b)!vars)
  PROVE  ManagementInv(b)'
<1>1. CASE UNCHANGED MD(b)!vars
  <2>1. UNCHANGED MD(b)!serverVars /\ UNCHANGED <<mdDown, mdUp, MD(b)!clientVars>>
    BY <1>1 DEF MD!vars
  <2>2. UNCHANGED <<mdDown, mdUp, mdReassembler, mdReader, mdLane, mdReceipted, mdSlot, mdClient>>
    BY <2>1 DEF MD!clientVars
  <2>3. mdClient.phase = "finished" =>
           /\ \A s \in b.streams : mdReader[s].todo = <<>>
           /\ mdReceipted => mdClient.result = "kick"
    BY DEF ManagementInv, ReceiptsAreHeld, MD!ReceiptedKickWins
  <2>4. ReceiptsAreHeld(b)' /\ MD(b)!ReceiptedKickWins' /\ (MD(b)!KickHeld' <=> MD(b)!KickHeld)
    BY <2>1, ClientSame
  <2> QED
    BY <2>1, <2>2, <2>4, ClientTypes, ClientKeeps
<1>2. CASE \E k \in MD(b)!Senders : MD(b)!SenderStep(k)
  BY <1>2, RefuseStep, GiveUpWritingStep, WrittenStep, AckWaitEndsStep, AbortDeliveryStep,
     KickAllStep DEF MD!SenderStep
<1>3. CASE \E k \in b.kickers, m \in b.msgId, p \in b.payload \ b.malformed : MD(b)!StartKick(k, m, p)
  BY <1>3, StartKickStep
<1>4. CASE \E k \in b.notifiers, m \in b.msgId, p \in b.payload \ b.malformed,
              accepted \in SUBSET b.streams : MD(b)!StartNotice(k, m, p, accepted)
  BY <1>4, StartNoticeStep
<1>5. ASSUME NEW s \in b.streams,
             \/ MD(b)!WriteTerminal(s) \/ MD(b)!WriteOrdinary(s) \/ MD(b)!CloseKicked(s)
             \/ MD(b)!CarrierFails(s) \/ MD(b)!LoseDatagram(s)
             \/ \E i \in DOMAIN mdUp[s] : MD(b)!ReceiveAck(s, i)
             \/ \E i \in DOMAIN mdDown[s] : MD(b)!Receive(s, i)
             \/ MD(b)!QueueAck(s) \/ MD(b)!Publish(s) \/ MD(b)!SendAck(s)
      PROVE  ManagementInv(b)'
  BY <1>5, WriteTerminalStep, WriteOrdinaryStep, CloseKickedStep, CarrierFailsStep,
     LoseDatagramStep, ReceiveAckStep, ReceiveStep, QueueAckStep, PublishStep, SendAckStep
<1>6. CASE (\E delivered \in BOOLEAN : MD(b)!Observe(delivered)) \/ MD(b)!Disconnected
             \/ MD(b)!Cancel \/ MD(b)!Finish
  BY <1>6, ObserveStep, CloseStep, FinishStep
<1> QED
  BY <1>1, <1>2, <1>3, <1>4, <1>5, <1>6 DEF MD!Next

\* The setting that is followed.
DeliveriesInv == \A b \in Deliveries : part = b.part => ManagementInv(b)

LEMMA DeliveriesStart ==
  ASSUME StartAll
  PROVE  DeliveriesInv
<1> SUFFICES ASSUME NEW d \in Deliveries, part = d.part
             PROVE  ManagementInv(d)
  BY DEF DeliveriesInv
<1>1. PICK b \in Deliveries : part = b.part /\ MD(b)!Init
  BY DEF StartAll
<1>2. b = d /\ ManagementConstants(d)
  BY <1>1, DeliveriesAssumption DEF ManagementConstants, MD!Senders, MD!NoSender
<1> QED
  BY <1>1, <1>2, ManagementStart

\* A step of the server is a step of the setting that is followed, or leaves it alone.
LEMMA DeliveriesKept ==
  ASSUME DeliveriesInv, [StepOne]_allVars
  PROVE  DeliveriesInv'
<1> SUFFICES ASSUME NEW d \in Deliveries, part' = d.part
             PROVE  ManagementInv(d)'
  BY DEF DeliveriesInv
<1>1. part' = part
  BY DEF StepOne, allVars
<1>2. ManagementConstants(d) /\ ManagementInv(d)
  BY <1>1, DeliveriesAssumption DEF DeliveriesInv, ManagementConstants, MD!Senders, MD!NoSender
<1>3. CASE UNCHANGED mdVars
  <2>1. UNCHANGED MD(d)!vars
    BY <1>3 DEF mdVars, MD!vars, MD!serverVars, MD!clientVars
  <2> QED
    BY <1>2, <2>1, ManagementStep
<1>4. CASE \E b \in Deliveries : part = b.part /\ MD(b)!Next
  <2>1. MD(d)!Next
    BY <1>1, <1>4, DeliveriesAssumption
  <2> QED
    BY <1>2, <2>1, ManagementStep
<1> QED
  BY <1>3, <1>4 DEF StepOne, allVars

\* For any streams, tasks, identifiers and losses: an eviction that counts as delivered,
\* or whose receipt is under way, is one the client holds, no finished delivery keeps its
\* identifier, and a receipted KICK decides how the session ends (send_management,
\* management_acks, finish_pending_management).
THEOREM HonouredKicks == AnySpec => []KicksAreHonoured
<1>1. StartAll => DeliveriesInv
  BY DeliveriesStart
<1>2. DeliveriesInv /\ [StepOne]_allVars => DeliveriesInv'
  BY DeliveriesKept
<1>3. DeliveriesInv => KicksAreHonoured
  BY DEF DeliveriesInv, KicksAreHonoured, ManagementInv
<1> QED
  BY <1>1, <1>2, <1>3, PTL DEF AnySpec
=============================================================================

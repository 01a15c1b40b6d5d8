---------------------------- MODULE CodecProofs ----------------------------
(***************************************************************************)
(* Proofs about the checksum (Crc) and the packet codec (Codec).           *)
(***************************************************************************)
EXTENDS Codec, FiniteSetTheorems, WellFoundedInduction, TLAPS

-----------------------------------------------------------------------------
(* Induction over the bytes of a buffer.  The induction principle is the    *)
(* one that needs no operator for an argument: a least element.             *)

LEMMA LeastElement ==
  ASSUME NEW T \in SUBSET Nat, T # {}
  PROVE  \E n \in T : \A m \in T : n <= m
<1> DEFINE R == OpToRel(<, Nat)
<1>1. IsWellFoundedOn(R, Nat)
  BY NatLessThanWellFounded
<1> HIDE DEF R
<1>2. PICK n \in T : \A m \in T : ~ (<<m, n>> \in R)
  BY <1>1, WFMin
<1>3. \A m, l \in Nat : m < l => <<m, l>> \in R
  BY DEF R, OpToRel
<1>4. \A m \in T : n <= m
  <2> TAKE m \in T
  <2>1. n \in Nat /\ m \in Nat /\ ~ (m < n)
    BY <1>2, <1>3
  <2> QED
    BY <2>1
<1> QED
  BY <1>4

LEMMA InductionOnSet ==
  ASSUME NEW S, 0 \in S, \A n \in Nat : n \in S => n + 1 \in S
  PROVE  Nat \subseteq S
<1> DEFINE T == Nat \ S
<1>1. SUFFICES ASSUME T # {} PROVE FALSE
  OBVIOUS
<1> HIDE DEF T
<1>2. T \in SUBSET Nat
  BY DEF T
<1>3. PICK n \in T : \A m \in T : n <= m
  BY <1>1, <1>2, LeastElement
<1>4. n \in Nat /\ n # 0 /\ n \notin S
  BY DEF T
<1>5. n - 1 \in Nat /\ n - 1 \notin T
  BY <1>2, <1>3, <1>4
<1> QED
  BY <1>4, <1>5 DEF T

\* The loop of crc32, unrolled by one round.
LEMMA CrcStep ==
  ASSUME NEW buf, NEW n \in Nat
  PROVE  /\ crc32Calc(buf, 0) = {}
         /\ crc32Calc(buf, n + 1) = CrcRound(crc32Calc(buf, n), Byte(buf, n))
<1> DEFINE Round(crc, i) == CrcRound(crc, Byte(buf, i))
           Loop(f, m) == [i \in 0 .. m |-> IF i = 0 THEN {} ELSE Round(f[i - 1], i - 1)]
           Crc(m) == CHOOSE f : f = Loop(f, m)
           Defined == {m \in Nat : \E f : f = Loop(f, m)}
<1>0. \A m : crc32Calc(buf, m) = Crc(m)[m]
  BY DEF crc32Calc
<1> HIDE DEF Round, Crc
<1>1. 0 \in Defined
  <2> DEFINE f == [i \in 0 .. 0 |-> {}]
  <2>1. f = Loop(f, 0)
    OBVIOUS
  <2> QED
    BY <2>1
<1>2. ASSUME NEW m \in Nat, m \in Defined
      PROVE  m + 1 \in Defined
  <2>1. PICK f : f = Loop(f, m)
    BY <1>2
  <2> DEFINE g == [i \in 0 .. m + 1 |-> IF i = m + 1 THEN Round(f[m], m) ELSE f[i]]
  <2>2. \A i \in 0 .. m + 1 : g[i] = IF i = 0 THEN {} ELSE Round(g[i - 1], i - 1)
    <3> TAKE i \in 0 .. m + 1
    <3>1. CASE i = m + 1
      BY <3>1
    <3>2. CASE i # m + 1
      <4>1. i \in 0 .. m /\ (i # 0 => i - 1 \in 0 .. m + 1 /\ i - 1 # m + 1)
        BY <3>2
      <4>2. f[i] = IF i = 0 THEN {} ELSE Round(f[i - 1], i - 1)
        BY <2>1, <4>1
      <4> QED
        BY <4>1, <4>2
    <3> QED
      BY <3>1, <3>2
  <2>3. g = Loop(g, m + 1)
    BY <2>2
  <2> HIDE DEF g, Loop
  <2>4. \E h : h = Loop(h, m + 1)
    BY <2>3
  <2> QED
    BY <2>4
<1>3. \A m \in Nat : Crc(m) = Loop(Crc(m), m)
  <2>1. Nat \subseteq Defined
    <3> HIDE DEF Defined
    <3> QED
      BY <1>1, <1>2, InductionOnSet
  <2> QED
    BY <2>1 DEF Crc
<1>4. \A m \in Nat : \A i \in 0 .. m : Crc(m)[i] = IF i = 0 THEN {} ELSE Round(Crc(m)[i - 1], i - 1)
  BY <1>3
<1>5. \A i \in Nat : i <= n => Crc(n)[i] = Crc(n + 1)[i]
  <2> DEFINE Same == {i \in Nat : i <= n => Crc(n)[i] = Crc(n + 1)[i]}
  <2>1. 0 \in Same
    BY <1>4
  <2>2. ASSUME NEW i \in Nat, i \in Same
        PROVE  i + 1 \in Same
    <3>1. SUFFICES ASSUME i + 1 <= n PROVE Crc(n)[i + 1] = Crc(n + 1)[i + 1]
      OBVIOUS
    <3>2. i + 1 \in 0 .. n /\ i + 1 \in 0 .. n + 1 /\ n + 1 \in Nat /\ i + 1 # 0 /\ (i + 1) - 1 = i
      BY <3>1
    <3>3. Crc(n)[i] = Crc(n + 1)[i]
      BY <2>2, <3>1
    <3>4. Crc(n)[i + 1] = Round(Crc(n)[i], i) /\ Crc(n + 1)[i + 1] = Round(Crc(n + 1)[i], i)
      BY <1>4, <3>2
    <3> QED
      BY <3>3, <3>4
  <2>3. Nat \subseteq Same
    <3> HIDE DEF Same
    <3> QED
      BY <2>1, <2>2, InductionOnSet
  <2> QED
    BY <2>3
<1>6. Crc(n + 1)[n + 1] = Round(Crc(n + 1)[n], n)
  <2>1. n + 1 \in Nat /\ n + 1 \in 0 .. n + 1 /\ n + 1 # 0 /\ (n + 1) - 1 = n
    OBVIOUS
  <2> QED
    BY <1>4, <2>1
<1>7. Crc(0)[0] = {}
  BY <1>4
<1> QED
  BY <1>0, <1>5, <1>6, <1>7 DEF Round

-----------------------------------------------------------------------------
(* The checksum is linear: that of an exclusive or is the exclusive or of    *)
(* the checksums.                                                            *)

LEMMA XorMember ==
  \A a, b : \A x : x \in Xor(a, b) <=> (x \in a /\ x \notin b) \/ (x \notin a /\ x \in b)
BY DEF Xor

LEMMA XorAlgebra ==
  \A a, b, c : /\ Xor(a, a) = {} /\ Xor(a, {}) = a /\ Xor({}, a) = a
               /\ Xor(Xor(a, b), b) = a
               /\ Xor(Xor(a, b), c) = Xor(a, Xor(b, c))
BY DEF Xor

LEMMA XorEmpty ==
  \A a, b : Xor(a, b) = {} <=> a = b
BY DEF Xor

\* Whether a set has an odd number of members.
LEMMA Parity ==
  ASSUME NEW A, NEW B, IsFiniteSet(A), IsFiniteSet(B)
  PROVE  (Cardinality(Xor(A, B)) % 2 = 1) <=> ~ (Cardinality(A) % 2 = 1 <=> Cardinality(B) % 2 = 1)
<1> DEFINE a == Cardinality(A)
           b == Cardinality(B)
           c == Cardinality(A \cap B)
<1>1. IsFiniteSet(A \ B) /\ Cardinality(A \ B) = a - c
  BY FS_Difference
<1>2. IsFiniteSet(B \ A) /\ Cardinality(B \ A) = b - c
  <2>1. B \cap A = A \cap B
    OBVIOUS
  <2> QED
    BY <2>1, FS_Difference
<1>3. Cardinality((A \ B) \cup (B \ A)) = (a - c) + (b - c)
  <2>1. (A \ B) \cap (B \ A) = {}
    OBVIOUS
  <2>2. Cardinality((A \ B) \cup (B \ A))
          = Cardinality(A \ B) + Cardinality(B \ A) - Cardinality((A \ B) \cap (B \ A))
    BY <1>1, <1>2, FS_Union
  <2>3. Cardinality((A \ B) \cap (B \ A)) = 0
    BY <2>1, FS_EmptySet
  <2>4. a \in Nat /\ b \in Nat /\ c \in Nat
    BY FS_CardinalityType, FS_Intersection
  <2> HIDE DEF a, b, c
  <2> QED
    BY <1>1, <1>2, <2>2, <2>3, <2>4
<1>4. a \in Nat /\ b \in Nat /\ c \in Nat
  BY FS_CardinalityType, FS_Intersection
<1>5. Cardinality(Xor(A, B)) = (a - c) + (b - c)
  BY <1>3 DEF Xor
<1> HIDE DEF a, b, c
<1>6. ((a - c) + (b - c)) % 2 = (a + b) % 2
  BY <1>4
<1>7. ((a + b) % 2 = 1) <=> ~ (a % 2 = 1 <=> b % 2 = 1)
  BY <1>4
<1> QED
  BY <1>5, <1>6, <1>7 DEF a, b

LEMMA TableType ==
  \A byte \in SUBSET (0 .. 7) : crcTable[byte] \in SUBSET (0 .. 31)
BY DEF crcTable

LEMMA TableLinear ==
  ASSUME NEW a \in SUBSET (0 .. 7), NEW b \in SUBSET (0 .. 7)
  PROVE  crcTable[Xor(a, b)] = Xor(crcTable[a], crcTable[b])
<1> DEFINE ones(byte, bit) == {j \in byte : bit \in TableColumn[j]}
<1>1. Xor(a, b) \in SUBSET (0 .. 7)
  BY DEF Xor
<1>2. \A byte \in SUBSET (0 .. 7) : \A bit \in 0 .. 31 :
        bit \in crcTable[byte] <=> Cardinality(ones(byte, bit)) % 2 = 1
  BY DEF crcTable
<1>3. ASSUME NEW bit \in 0 .. 31
      PROVE  bit \in crcTable[Xor(a, b)] <=> bit \in Xor(crcTable[a], crcTable[b])
  <2>1. ones(Xor(a, b), bit) = Xor(ones(a, bit), ones(b, bit))
    BY DEF Xor
  <2>2. IsFiniteSet(ones(a, bit)) /\ IsFiniteSet(ones(b, bit))
    <3>1. IsFiniteSet(0 .. 7)
      <4>1. 0 \in Int /\ 7 \in Int
        OBVIOUS
      <4> QED
        BY <4>1, FS_Interval
    <3> QED
      BY <3>1, FS_Subset
  <2> HIDE DEF ones
  <2>3. (Cardinality(ones(Xor(a, b), bit)) % 2 = 1)
          <=> ~ (Cardinality(ones(a, bit)) % 2 = 1 <=> Cardinality(ones(b, bit)) % 2 = 1)
    BY <2>1, <2>2, Parity
  <2>4. bit \in crcTable[Xor(a, b)] <=> ~ (bit \in crcTable[a] <=> bit \in crcTable[b])
    BY <1>1, <1>2, <2>3
  <2> QED
    BY <2>4, XorMember
<1>4. crcTable[Xor(a, b)] \subseteq 0 .. 31 /\ Xor(crcTable[a], crcTable[b]) \subseteq 0 .. 31
  <2>1. crcTable[a] \subseteq 0 .. 31 /\ crcTable[b] \subseteq 0 .. 31
    BY TableType
  <2> QED
    BY <1>1, <2>1, TableType DEF Xor
<1> HIDE DEF ones
<1> QED
  BY <1>3, <1>4

LEMMA ByteLinear ==
  \A a, b, i : /\ Byte(Xor(a, b), i) = Xor(Byte(a, i), Byte(b, i))
               /\ Byte(a, i) \in SUBSET (0 .. 7)
BY DEF Byte, Xor

\* The bits of a word after a shift by whole bytes.
LEMMA ShiftMember ==
  ASSUME NEW word \in SUBSET Int, NEW by \in Int, NEW bit \in Int
  PROVE  bit \in Shift(word, by) <=> bit - by \in word
<1>1. ASSUME bit \in Shift(word, by) PROVE bit - by \in word
  <2>1. PICK b \in word : bit = b + by
    BY <1>1 DEF Shift
  <2> QED
    BY <2>1
<1>2. ASSUME bit - by \in word PROVE bit \in Shift(word, by)
  <2>1. bit = (bit - by) + by
    OBVIOUS
  <2> QED
    BY <1>2, <2>1 DEF Shift
<1> QED
  BY <1>1, <1>2

\* A round as it acts on single bits.
LEMMA RoundMember ==
  ASSUME NEW crc \in SUBSET (0 .. 31), NEW byte \in SUBSET (0 .. 7)
  PROVE  /\ CrcRound(crc, byte) \in SUBSET (0 .. 31)
         /\ Shift(crc \ (0 .. 7), -8) = {bit \in 0 .. 31 : bit + 8 \in crc}
         /\ Xor(crc \cap 0 .. 7, byte) \in SUBSET (0 .. 7)
<1> DEFINE high == Shift(crc \ (0 .. 7), -8)
<1>1. high \subseteq Int
  BY DEF Shift
<1>2. \A bit \in Int : bit \in high <=> bit \in 0 .. 31 /\ bit + 8 \in crc
  <2> TAKE bit \in Int
  <2>1. crc \ (0 .. 7) \in SUBSET Int /\ -8 \in Int
    OBVIOUS
  <2>2. bit \in high <=> bit - (-8) \in crc \ (0 .. 7)
    BY <2>1, ShiftMember
  <2>3. bit - (-8) = bit + 8
    OBVIOUS
  <2> HIDE DEF high
  <2>4. bit + 8 \in crc \ (0 .. 7) <=> bit \in 0 .. 31 /\ bit + 8 \in crc
    OBVIOUS
  <2> QED
    BY <2>2, <2>3, <2>4
<1> HIDE DEF high
<1>3. high = {bit \in 0 .. 31 : bit + 8 \in crc}
  <2> DEFINE rest == {bit \in 0 .. 31 : bit + 8 \in crc}
  <2>1. \A bit \in Int : bit \in rest <=> bit \in 0 .. 31 /\ bit + 8 \in crc
    OBVIOUS
  <2>2. rest \subseteq Int
    OBVIOUS
  <2> HIDE DEF rest
  <2>3. high = rest
    BY <1>1, <1>2, <2>1, <2>2
  <2> QED
    BY <2>3 DEF rest
<1>4. Xor(crc \cap 0 .. 7, byte) \in SUBSET (0 .. 7)
  BY DEF Xor
<1>5. CrcRound(crc, byte) \in SUBSET (0 .. 31)
  <2>1. crcTable[Xor(crc \cap 0 .. 7, byte)] \subseteq 0 .. 31
    BY <1>4, TableType
  <2>2. CrcRound(crc, byte) = Xor(high, crcTable[Xor(crc \cap 0 .. 7, byte)])
    BY DEF CrcRound, high
  <2> QED
    BY <1>3, <2>1, <2>2 DEF Xor
<1> QED
  BY <1>3, <1>4, <1>5 DEF high

LEMMA RoundLinear ==
  ASSUME NEW c \in SUBSET (0 .. 31), NEW d \in SUBSET (0 .. 31),
         NEW x \in SUBSET (0 .. 7), NEW y \in SUBSET (0 .. 7)
  PROVE  CrcRound(Xor(c, d), Xor(x, y)) = Xor(CrcRound(c, x), CrcRound(d, y))
<1> DEFINE high(crc) == Shift(crc \ (0 .. 7), -8)
           low(crc, byte) == Xor(crc \cap 0 .. 7, byte)
<1>1. Xor(c, d) \in SUBSET (0 .. 31) /\ Xor(x, y) \in SUBSET (0 .. 7)
  BY DEF Xor
<1>2. high(Xor(c, d)) = Xor(high(c), high(d))
  <2>1. /\ high(Xor(c, d)) = {bit \in 0 .. 31 : bit + 8 \in Xor(c, d)}
        /\ high(c) = {bit \in 0 .. 31 : bit + 8 \in c}
        /\ high(d) = {bit \in 0 .. 31 : bit + 8 \in d}
    BY <1>1, RoundMember
  <2> HIDE DEF high
  <2> QED
    BY <2>1 DEF Xor
<1>3. low(Xor(c, d), Xor(x, y)) = Xor(low(c, x), low(d, y))
  BY DEF Xor
<1>4. low(c, x) \in SUBSET (0 .. 7) /\ low(d, y) \in SUBSET (0 .. 7)
  BY DEF Xor
<1>5. /\ CrcRound(Xor(c, d), Xor(x, y)) = Xor(high(Xor(c, d)), crcTable[low(Xor(c, d), Xor(x, y))])
      /\ CrcRound(c, x) = Xor(high(c), crcTable[low(c, x)])
      /\ CrcRound(d, y) = Xor(high(d), crcTable[low(d, y)])
  BY DEF CrcRound
<1> HIDE DEF high, low
<1>6. crcTable[low(Xor(c, d), Xor(x, y))] = Xor(crcTable[low(c, x)], crcTable[low(d, y)])
  BY <1>3, <1>4, TableLinear
<1>7. \A p, q, r, s : Xor(Xor(p, q), Xor(r, s)) = Xor(Xor(p, r), Xor(q, s))
  BY DEF Xor
<1> QED
  BY <1>2, <1>5, <1>6, <1>7

\* The checksum of any buffer is a word.
LEMMA CrcType ==
  \A buf : \A n \in Nat : crc32Calc(buf, n) \in SUBSET (0 .. 31)
<1> TAKE buf
<1> DEFINE Words == {n \in Nat : crc32Calc(buf, n) \in SUBSET (0 .. 31)}
<1>1. 0 \in Words
  BY CrcStep
<1>2. ASSUME NEW n \in Nat, n \in Words
      PROVE  n + 1 \in Words
  <2>1. crc32Calc(buf, n + 1) = CrcRound(crc32Calc(buf, n), Byte(buf, n))
    BY CrcStep
  <2>2. Byte(buf, n) \in SUBSET (0 .. 7)
    BY ByteLinear
  <2>3. crc32Calc(buf, n) \in SUBSET (0 .. 31)
    BY <1>2
  <2>4. CrcRound(crc32Calc(buf, n), Byte(buf, n)) \in SUBSET (0 .. 31)
    BY <2>2, <2>3, RoundMember
  <2> QED
    BY <2>1, <2>4
<1> HIDE DEF Words
<1>3. Nat \subseteq Words
  BY <1>1, <1>2, InductionOnSet
<1> QED
  BY <1>3 DEF Words

\* The checksum of the exclusive or of two buffers, whatever they hold and
\* however long they are, is the exclusive or of their checksums
\* (crc32.c:145-147, without the inversions that are commented out there).
THEOREM CrcLinear ==
  \A a, b : \A n \in Nat :
    crc32Calc(Xor(a, b), n) = Xor(crc32Calc(a, n), crc32Calc(b, n))
<1> TAKE a, b
<1> DEFINE Linear == {n \in Nat : crc32Calc(Xor(a, b), n) = Xor(crc32Calc(a, n), crc32Calc(b, n))}
<1>1. 0 \in Linear
  BY CrcStep, XorAlgebra
<1>2. ASSUME NEW n \in Nat, n \in Linear
      PROVE  n + 1 \in Linear
  <2>1. \A buf : crc32Calc(buf, n + 1) = CrcRound(crc32Calc(buf, n), Byte(buf, n))
    BY CrcStep
  <2>2. /\ crc32Calc(a, n) \in SUBSET (0 .. 31) /\ crc32Calc(b, n) \in SUBSET (0 .. 31)
        /\ Byte(a, n) \in SUBSET (0 .. 7) /\ Byte(b, n) \in SUBSET (0 .. 7)
    BY CrcType, ByteLinear
  <2>3. CrcRound(Xor(crc32Calc(a, n), crc32Calc(b, n)), Xor(Byte(a, n), Byte(b, n)))
          = Xor(CrcRound(crc32Calc(a, n), Byte(a, n)), CrcRound(crc32Calc(b, n), Byte(b, n)))
    BY <2>2, RoundLinear
  <2>4. Byte(Xor(a, b), n) = Xor(Byte(a, n), Byte(b, n))
    BY ByteLinear
  <2>5. crc32Calc(Xor(a, b), n) = Xor(crc32Calc(a, n), crc32Calc(b, n))
    BY <1>2
  <2> QED
    BY <2>1, <2>3, <2>4, <2>5
<1> HIDE DEF Linear
<1>3. Nat \subseteq Linear
  BY <1>1, <1>2, InductionOnSet
<1> QED
  BY <1>3 DEF Linear

\* No bit behind the bytes that are read makes a difference.
LEMMA CrcLocal ==
  ASSUME NEW a, NEW b, NEW len \in Nat, a \cap Bits(len) = b \cap Bits(len)
  PROVE  crc32Calc(a, len) = crc32Calc(b, len)
<1> DEFINE Same == {n \in Nat : n <= len => crc32Calc(a, n) = crc32Calc(b, n)}
<1>1. 0 \in Same
  BY CrcStep
<1>2. ASSUME NEW n \in Nat, n \in Same
      PROVE  n + 1 \in Same
  <2>1. SUFFICES ASSUME n + 1 <= len
                 PROVE  crc32Calc(a, n + 1) = crc32Calc(b, n + 1)
    OBVIOUS
  <2>2. crc32Calc(a, n) = crc32Calc(b, n)
    BY <1>2, <2>1
  <2>3. \A j \in 0 .. 7 : 8 * n + j \in Bits(len)
    BY <2>1 DEF Bits
  <2>4. Byte(a, n) = Byte(b, n)
    BY <2>3 DEF Byte
  <2> QED
    BY <2>2, <2>4, CrcStep
<1> HIDE DEF Same
<1>3. Nat \subseteq Same
  BY <1>1, <1>2, InductionOnSet
<1> QED
  BY <1>3 DEF Same

-----------------------------------------------------------------------------
(* What the encoder sends has the checksum zero.                             *)

LEMMA RoundOfZeros == CrcRound({}, {}) = {}
<1>1. crcTable[{}] = {}
  <2>1. Xor({}, {}) = {}
    BY DEF Xor
  <2>2. crcTable[Xor({}, {})] = Xor(crcTable[{}], crcTable[{}])
    BY TableLinear
  <2> QED
    BY <2>1, <2>2, XorAlgebra
<1>2. Shift({} \ (0 .. 7), -8) = {}
  BY DEF Shift
<1>3. Xor({} \cap 0 .. 7, {}) = {} /\ Xor({}, {}) = {}
  BY DEF Xor
<1> QED
  BY <1>1, <1>2, <1>3 DEF CrcRound

LEMMA CrcOfZeros ==
  \A n \in Nat : crc32Calc({}, n) = {}
<1>1. Xor({}, {}) = {}
  BY DEF Xor
<1>2. ASSUME NEW n \in Nat
      PROVE  crc32Calc({}, n) = Xor(crc32Calc({}, n), crc32Calc({}, n))
  <2>1. crc32Calc(Xor({}, {}), n) = Xor(crc32Calc({}, n), crc32Calc({}, n))
    BY CrcLinear
  <2> QED
    BY <1>1, <2>1
<1> QED
  BY <1>2, XorAlgebra

\* packet8b10bEncode appends the checksum to the payload.
Message(payload, size) == payload \cup Shift(crc32Calc(payload, size), 8 * size)

LEMMA MessageMember ==
  ASSUME NEW size \in Nat, NEW payload, payload \subseteq Bits(size)
  PROVE  /\ Message(payload, size) \subseteq Bits(MessageLen(size))
         /\ Message(payload, size) \cap Bits(size) = payload
         /\ \A bit \in Int : bit >= 8 * size =>
              (bit \in Message(payload, size) <=> bit - 8 * size \in crc32Calc(payload, size))
<1> DEFINE c == crc32Calc(payload, size)
<1>1. c \in SUBSET (0 .. 31)
  BY CrcType
<1> HIDE DEF c
<1>2. \A bit \in Int : bit \in Shift(c, 8 * size) <=> bit - 8 * size \in c
  <2>1. c \in SUBSET Int /\ 8 * size \in Int
    BY <1>1
  <2> QED
    BY <2>1, ShiftMember
<1>3. Shift(c, 8 * size) \subseteq Bits(MessageLen(size)) /\ Shift(c, 8 * size) \cap Bits(size) = {}
  <2>1. ASSUME NEW bit \in Shift(c, 8 * size)
        PROVE  bit \in Bits(MessageLen(size)) /\ bit \notin Bits(size)
    <3>1. PICK b \in 0 .. 31 : bit = b + 8 * size
      BY <1>1 DEF Shift
    <3> QED
      BY <3>1 DEF Bits, MessageLen
  <2> QED
    BY <2>1
<1>4. Bits(size) \subseteq Bits(MessageLen(size))
  BY DEF Bits, MessageLen
<1>5. \A bit \in Int : bit >= 8 * size => bit \notin payload
  BY DEF Bits
<1>6. Message(payload, size) = payload \cup Shift(c, 8 * size)
  BY DEF Message, c
<1>7. /\ Message(payload, size) \subseteq Bits(MessageLen(size))
      /\ Message(payload, size) \cap Bits(size) = payload
  BY <1>3, <1>4, <1>6
<1>8. \A bit \in Int : bit >= 8 * size => (bit \in Message(payload, size) <=> bit - 8 * size \in c)
  BY <1>2, <1>5, <1>6
<1> QED
  BY <1>7, <1>8 DEF c

\* Every payload of every size: the checksum of the message is zero, and stays
\* so over any number of zero bytes behind it.  This is what packet8b10bDecode
\* tests for (packet.c:97-98).
THEOREM MessageChecksum ==
  ASSUME NEW size \in Nat, NEW payload, payload \subseteq Bits(size)
  PROVE  \A n \in Nat : n >= MessageLen(size) => crc32Calc(Message(payload, size), n) = {}
<1> DEFINE c == crc32Calc(payload, size)
           msg == Message(payload, size)
<1>1. c \in SUBSET (0 .. 31)
  BY CrcType
<1>2. /\ msg \subseteq Bits(MessageLen(size)) /\ msg \cap Bits(size) = payload
      /\ \A bit \in Int : bit >= 8 * size => (bit \in msg <=> bit - 8 * size \in c)
  BY MessageMember
<1>3. crc32Calc(msg, size) = c
  <2>1. msg \cap Bits(size) = payload \cap Bits(size)
    BY <1>2
  <2> HIDE DEF msg
  <2> QED
    BY <2>1, CrcLocal DEF c
<1> HIDE DEF c, msg
<1>4. \A buf : \A n \in Nat : crc32Calc(buf, n + 1) = CrcRound(crc32Calc(buf, n), Byte(buf, n))
  BY CrcStep
\* Each round over a byte of the checksum shifts that byte out.
<1>5. \A k \in Nat : k <= 4 => crc32Calc(msg, size + k) = {bit \in 0 .. 31 : bit + 8 * k \in c}
  <2> DEFINE left(k) == {bit \in 0 .. 31 : bit + 8 * k \in c}
             Shifted == {k \in Nat : k <= 4 => crc32Calc(msg, size + k) = left(k)}
  <2>1. 0 \in Shifted
    <3>1. left(0) = c
      <4>1. \A bit \in 0 .. 31 : bit + 8 * 0 = bit
        OBVIOUS
      <4> QED
        BY <1>1, <4>1
    <3> QED
      BY <1>3, <3>1
  <2>2. ASSUME NEW k \in Nat, k \in Shifted
        PROVE  k + 1 \in Shifted
    <3>1. SUFFICES ASSUME k + 1 <= 4
                   PROVE  crc32Calc(msg, size + (k + 1)) = left(k + 1)
      OBVIOUS
    <3>2. crc32Calc(msg, size + k) = left(k)
      BY <2>2, <3>1
    <3>3. crc32Calc(msg, size + (k + 1)) = CrcRound(left(k), Byte(msg, size + k))
      <4>1. size + k \in Nat /\ size + (k + 1) = (size + k) + 1
        OBVIOUS
      <4> HIDE DEF left
      <4> QED
        BY <1>4, <3>2, <4>1
    <3>4. Byte(msg, size + k) = left(k) \cap 0 .. 7
      <4>1. ASSUME NEW j \in 0 .. 7
            PROVE  j \in Byte(msg, size + k) <=> j \in left(k)
        <5>1. /\ 8 * (size + k) + j \in Int /\ 8 * (size + k) + j >= 8 * size
              /\ (8 * (size + k) + j) - 8 * size = j + 8 * k
          OBVIOUS
        <5>2. 8 * (size + k) + j \in msg <=> j + 8 * k \in c
          BY <1>2, <5>1
        <5>3. j \in left(k) <=> j + 8 * k \in c
          OBVIOUS
        <5> HIDE DEF left
        <5> QED
          BY <5>2, <5>3 DEF Byte
      <4>2. Byte(msg, size + k) \subseteq 0 .. 7
        BY DEF Byte
      <4> HIDE DEF left
      <4> QED
        BY <4>1, <4>2
    <3>5. Xor(left(k) \cap 0 .. 7, Byte(msg, size + k)) = {}
      BY <3>4, XorAlgebra
    <3>6. Shift(left(k) \ (0 .. 7), -8) = {bit \in 0 .. 31 : bit + 8 \in left(k)}
      <4>1. left(k) \in SUBSET (0 .. 31) /\ {} \in SUBSET (0 .. 7)
        OBVIOUS
      <4> HIDE DEF left
      <4> QED
        BY <4>1, RoundMember
    <3>7. {bit \in 0 .. 31 : bit + 8 \in left(k)} = left(k + 1)
      <4>1. ASSUME NEW bit \in 0 .. 31
            PROVE  bit + 8 \in left(k) <=> bit + 8 * (k + 1) \in c
        <5>1. (bit + 8) + 8 * k = bit + 8 * (k + 1)
          OBVIOUS
        <5>2. bit + 8 * (k + 1) \in c => bit + 8 \in 0 .. 31
          BY <1>1
        <5>3. bit + 8 \in left(k) <=> bit + 8 \in 0 .. 31 /\ (bit + 8) + 8 * k \in c
          OBVIOUS
        <5> HIDE DEF left
        <5> QED
          BY <5>1, <5>2, <5>3
      <4> QED
        BY <4>1
    <3>8. crcTable[{}] = {}
      <4>1. Shift({} \ (0 .. 7), -8) = {} /\ Xor({} \cap 0 .. 7, {}) = {}
        BY DEF Shift, Xor
      <4> QED
        BY <4>1, RoundOfZeros, XorAlgebra DEF CrcRound
    <3> HIDE DEF left
    <3>9. CrcRound(left(k), Byte(msg, size + k)) = Xor(left(k + 1), {})
      BY <3>5, <3>6, <3>7, <3>8 DEF CrcRound
    <3> QED
      BY <3>3, <3>9, XorAlgebra
  <2>3. Nat \subseteq Shifted
    <3> HIDE DEF Shifted
    <3> QED
      BY <2>1, <2>2, InductionOnSet
  <2> QED
    BY <2>3
<1>6. crc32Calc(msg, size + 4) = {}
  <2>1. crc32Calc(msg, size + 4) = {bit \in 0 .. 31 : bit + 8 * 4 \in c}
    BY <1>5
  <2> QED
    BY <1>1, <2>1
<1>7. \A k \in Nat : crc32Calc(msg, (size + 4) + k) = {}
  <2> DEFINE Zero == {k \in Nat : crc32Calc(msg, (size + 4) + k) = {}}
  <2>1. 0 \in Zero
    BY <1>6
  <2>2. ASSUME NEW k \in Nat, k \in Zero
        PROVE  k + 1 \in Zero
    <3>1. (size + 4) + k \in Nat /\ (size + 4) + (k + 1) = ((size + 4) + k) + 1
      OBVIOUS
    <3>2. Byte(msg, (size + 4) + k) = {}
      <4>1. \A j \in 0 .. 7 : 8 * ((size + 4) + k) + j \notin Bits(MessageLen(size))
        BY DEF Bits, MessageLen
      <4> QED
        BY <1>2, <4>1 DEF Byte
    <3>3. crc32Calc(msg, (size + 4) + k) = {}
      BY <2>2
    <3>4. crc32Calc(msg, (size + 4) + (k + 1)) = {}
      BY <1>4, <3>1, <3>2, <3>3, RoundOfZeros
    <3> QED
      BY <3>4
  <2>3. Nat \subseteq Zero
    <3> HIDE DEF Zero
    <3> QED
      BY <2>1, <2>2, InductionOnSet
  <2> QED
    BY <2>3
<1>8. ASSUME NEW n \in Nat, n >= MessageLen(size)
      PROVE  crc32Calc(msg, n) = {}
  <2>1. n - (size + 4) \in Nat /\ n = (size + 4) + (n - (size + 4))
    BY <1>8 DEF MessageLen
  <2> QED
    BY <1>7, <2>1
<1> QED
  BY <1>8 DEF msg

-----------------------------------------------------------------------------
(* Finding a wrong bit.                                                      *)

\* crc32Init and crc32IncorrectBit: the bit that is found has the checksum that
\* was asked for, and none is found only if none has it.
LEMMA Lookup ==
  ASSUME NEW len \in Nat, len <= MaxLen, NEW crc
  PROVE  /\ \A k \in Bits(len) : CorrectionTable[len][k] = crc32Calc({k}, len)
         /\ \/ /\ crc32IncorrectBit(crc, len) = NoBit
               /\ \A k \in Bits(len) : crc32Calc({k}, len) # crc
            \/ /\ crc32IncorrectBit(crc, len) \in Bits(len)
               /\ crc32Calc({crc32IncorrectBit(crc, len)}, len) = crc
<1> DEFINE found == {k \in Bits(len) : CorrectionTable[len][k] = crc}
           Least(k) == k \in found /\ \A l \in found : k <= l
           least == CHOOSE k \in found : \A l \in found : k <= l
<1>1. len \in 0 .. MaxLen
  BY PayloadAssumption
<1>2. \A k \in Bits(len) : CorrectionTable[len][k] = crc32Calc({k}, len)
  BY <1>1 DEF CorrectionTable, Bits
<1>3. crc32IncorrectBit(crc, len) = IF found = {} THEN NoBit ELSE least
  BY DEF crc32IncorrectBit, Bits
<1>4. CASE found = {}
  BY <1>2, <1>3, <1>4
<1>5. CASE found # {}
  <2>1. found \in SUBSET Nat
    BY DEF Bits
  <2>2. \E k \in found : \A l \in found : k <= l
    <3> HIDE DEF found
    <3> QED
      BY <1>5, <2>1, LeastElement
  <2>3. least \in found
    <3> HIDE DEF found
    <3> QED
      BY <2>2
  <2> HIDE DEF least
  <2> QED
    BY <1>2, <1>3, <1>5, <2>3
<1> QED
  BY <1>4, <1>5

\* DistanceAssumption, bit by bit.
LEMMA Distance ==
  ASSUME NEW size \in PayloadSizes
  PROVE  LET len == MessageLen(size)
             checked == CheckedLen(size)
         IN  /\ checked >= len => \A k \in Bits(len) : crc32Calc({k}, checked) # {}
             /\ checked >= len => \A k, l \in Bits(len) :
                  k # l => crc32Calc({k}, checked) # crc32Calc({l}, checked)
             /\ checked = len => \A k, l, m \in Bits(len) : k # l =>
                  Xor(crc32Calc({k}, checked), crc32Calc({l}, checked)) # crc32Calc({m}, checked)
             /\ checked # len => \A k \in Bits(len) :
                  CorrectionTable[len][k] # crc32Calc({k}, checked)
<1> DEFINE len == MessageLen(size)
           checked == CheckedLen(size)
           C(k) == crc32Calc({k}, checked)
           single == {<<k, C(k)>> : k \in Bits(len)}
           checksums == {p[2] : p \in single}
<1>1. /\ checked >= len => \A p, q \in single : p[2] # {} /\ (p # q => p[2] # q[2])
      /\ checked = len => \A p, q \in single : p # q => Xor(p[2], q[2]) \notin checksums
      /\ checked # len => \A p \in single : CorrectionTable[len][p[1]] # p[2]
  BY DistanceAssumption
<1> HIDE DEF len, checked, C
<1>2. \A k \in Bits(len) : /\ <<k, C(k)>> \in single /\ C(k) \in checksums
                           /\ <<k, C(k)>>[1] = k /\ <<k, C(k)>>[2] = C(k)
  <2> TAKE k \in Bits(len)
  <2> DEFINE p == <<k, C(k)>>
  <2>1. p[1] = k /\ p[2] = C(k)
    OBVIOUS
  <2>2. p \in single
    OBVIOUS
  <2> HIDE DEF p, single
  <2>3. C(k) \in checksums
    BY <2>1, <2>2
  <2> QED
    BY <2>1, <2>2, <2>3 DEF p
<1>3. \A k, l \in Bits(len) : k # l => <<k, C(k)>> # <<l, C(l)>>
  OBVIOUS
<1> HIDE DEF single, checksums
<1>4. checked >= len => \A k \in Bits(len) : C(k) # {}
  BY <1>1, <1>2
<1>5. checked >= len => \A k, l \in Bits(len) : k # l => C(k) # C(l)
  <2>1. SUFFICES ASSUME checked >= len, NEW k \in Bits(len), NEW l \in Bits(len), k # l
                 PROVE  C(k) # C(l)
    OBVIOUS
  <2> DEFINE p == <<k, C(k)>>
             q == <<l, C(l)>>
  <2>2. p \in single /\ q \in single /\ p # q /\ p[2] = C(k) /\ q[2] = C(l)
    BY <1>2, <1>3, <2>1
  <2> HIDE DEF p, q
  <2> QED
    BY <1>1, <2>1, <2>2
<1>6. checked = len => \A k, l, m \in Bits(len) : k # l => Xor(C(k), C(l)) # C(m)
  <2>1. SUFFICES ASSUME checked = len, NEW k \in Bits(len), NEW l \in Bits(len),
                        NEW m \in Bits(len), k # l
                 PROVE  Xor(C(k), C(l)) # C(m)
    OBVIOUS
  <2> DEFINE p == <<k, C(k)>>
             q == <<l, C(l)>>
  <2>2. p \in single /\ q \in single /\ p # q /\ p[2] = C(k) /\ q[2] = C(l)
    BY <1>2, <1>3, <2>1
  <2> HIDE DEF p, q
  <2>3. Xor(C(k), C(l)) \notin checksums
    BY <1>1, <2>1, <2>2
  <2> QED
    BY <1>2, <2>3
<1>7. checked # len => \A k \in Bits(len) : CorrectionTable[len][k] # C(k)
  <2>1. SUFFICES ASSUME checked # len, NEW k \in Bits(len)
                 PROVE  CorrectionTable[len][k] # C(k)
    OBVIOUS
  <2> DEFINE p == <<k, C(k)>>
  <2>2. p \in single /\ p[1] = k /\ p[2] = C(k)
    BY <1>2
  <2> HIDE DEF p
  <2> QED
    BY <1>1, <2>1, <2>2
<1> QED
  BY <1>4, <1>5, <1>6, <1>7 DEF len, checked, C

\* The cases of at most two wrong bits.
LEMMA AtMostTwo ==
  ASSUME NEW S, IsFiniteSet(S), Cardinality(S) <= 2
  PROVE  \/ S = {}
         \/ \E k \in S : S = {k}
         \/ \E k, l \in S : k # l /\ S = {k, l}
<1>1. SUFFICES ASSUME S # {}
               PROVE  (\E k \in S : S = {k}) \/ (\E k, l \in S : k # l /\ S = {k, l})
  OBVIOUS
<1>2. PICK k \in S : TRUE
  BY <1>1
<1>3. IsFiniteSet(S \ {k}) /\ Cardinality(S \ {k}) = Cardinality(S) - 1
  BY <1>2, FS_RemoveElement
<1>4. Cardinality(S) \in Nat /\ Cardinality(S \ {k}) \in Nat
  BY <1>3, FS_CardinalityType
<1>5. Cardinality(S \ {k}) = 0 \/ Cardinality(S \ {k}) = 1
  BY <1>3, <1>4
<1>6. CASE Cardinality(S \ {k}) = 0
  <2>1. S \ {k} = {}
    BY <1>3, <1>6, FS_EmptySet
  <2> QED
    BY <2>1
<1>7. CASE Cardinality(S \ {k}) = 1
  <2>1. PICK l : S \ {k} = {l}
    BY <1>3, <1>7, FS_Singleton
  <2>2. l \in S /\ l # k /\ S = {k, l}
    BY <2>1
  <2> QED
    BY <2>2
<1> QED
  BY <1>5, <1>6, <1>7

LEMMA AtMostOne ==
  ASSUME NEW S, IsFiniteSet(S), Cardinality(S) <= 1
  PROVE  S = {} \/ \E k \in S : S = {k}
<1>1. Cardinality(S) \in Nat
  BY FS_CardinalityType
<1>2. Cardinality(S) = 0 \/ Cardinality(S) = 1
  BY <1>1
<1>3. CASE Cardinality(S) = 0
  BY <1>3, FS_EmptySet
<1>4. CASE Cardinality(S) = 1
  <2>1. PICK l : S = {l}
    BY <1>4, FS_Singleton
  <2> QED
    BY <2>1
<1> QED
  BY <1>2, <1>3, <1>4

-----------------------------------------------------------------------------
(* The inductive invariant.                                                  *)

\* What is known of a packet from the encoder to the result of its decoding:
\* it belongs to the configured size, and what arrives is the message but for
\* the wrong bits.
PacketInv ==
  status # "idle" =>
    /\ payloadLen \in PayloadSizes /\ tblLen = 8 * MessageLen(payloadLen)
    /\ sent \subseteq Bits(payloadLen)
    /\ wrong \subseteq Bits(MessageLen(payloadLen))
    /\ IsFiniteSet(wrong) /\ Cardinality(wrong) <= 2
    /\ air = Xor(Message(sent, payloadLen), wrong)
    /\ status = "onAir" => wrong = {}

IInv ==
  /\ tblLen \in Nat
  /\ tblLen # 0 => payloadLen \in PayloadSizes /\ tblLen = 8 * MessageLen(payloadLen)
  /\ PacketInv
  /\ SingleErrorRepaired
  /\ Clean => NeverWrongPayload
  /\ IntactAccepted
  /\ RecheckRedundant
  /\ NoFalseCorrection

-----------------------------------------------------------------------------
(* Decoding.                                                                 *)

LEMMA Lengths ==
  ASSUME NEW size \in PayloadSizes
  PROVE  /\ size \in Nat /\ MessageLen(size) \in Nat /\ CheckedLen(size) \in Nat
         /\ MessageLen(size) <= MaxLen /\ MessageLen(size) > size
<1>1. size \in Nat /\ MessageLen(size) <= MaxLen
  BY PayloadAssumption
<1>2. rxlen(size) \in Nat /\ rxlen(size) >= 40
  BY <1>1 DEF rxlen, MessageLen
<1> QED
  BY <1>1, <1>2 DEF MessageLen, CheckedLen

\* What the checksum over the received bytes says, if behind the message there
\* are zeros: it is that of the wrong bits, whatever the payload.
LEMMA Syndrome ==
  ASSUME NEW size \in PayloadSizes, NEW payload, payload \subseteq Bits(size),
         NEW bits, bits \subseteq Bits(MessageLen(size)), NEW dest,
         CheckedLen(size) >= MessageLen(size),
         dest \cap Bits(CheckedLen(size)) = Xor(Message(payload, size), bits)
  PROVE  crc32Calc(dest, CheckedLen(size)) = crc32Calc(bits, CheckedLen(size))
<1> DEFINE msg == Message(payload, size)
           checked == CheckedLen(size)
<1>1. size \in Nat /\ checked \in Nat
  BY Lengths
<1>2. msg \subseteq Bits(MessageLen(size)) /\ crc32Calc(msg, checked) = {}
  BY <1>1, MessageMember, MessageChecksum
<1>3. Bits(MessageLen(size)) \subseteq Bits(checked)
  BY <1>1, Lengths DEF Bits
<1> HIDE DEF msg, checked
<1>4. Xor(msg, bits) \cap Bits(checked) = Xor(msg, bits)
  BY <1>2, <1>3 DEF Xor
<1>5. dest \cap Bits(checked) = Xor(msg, bits) \cap Bits(checked)
  BY <1>4 DEF msg, checked
<1>6. crc32Calc(dest, checked) = crc32Calc(Xor(msg, bits), checked)
  BY <1>1, <1>5, CrcLocal
<1>7. crc32Calc(Xor(msg, bits), checked) = Xor(crc32Calc(msg, checked), crc32Calc(bits, checked))
  BY <1>1, CrcLinear
<1> QED
  BY <1>2, <1>6, <1>7, XorAlgebra DEF checked

\* Two wrong bits.
LEMMA CrcOfPair ==
  \A k, l : \A n \in Nat :
    k # l => crc32Calc({k, l}, n) = Xor(crc32Calc({k}, n), crc32Calc({l}, n))
<1> TAKE k, l
<1> TAKE n \in Nat
<1>1. k # l => {k, l} = Xor({k}, {l})
  BY DEF Xor
<1>2. crc32Calc(Xor({k}, {l}), n) = Xor(crc32Calc({k}, n), crc32Calc({l}, n))
  BY CrcLinear
<1> QED
  BY <1>1, <1>2

LEMMA DecodeStep ==
  ASSUME PacketInv, Decode
  PROVE  /\ SingleErrorRepaired' /\ (Clean => NeverWrongPayload)'
         /\ IntactAccepted' /\ RecheckRedundant' /\ NoFalseCorrection'
<1> DEFINE size == payloadLen
           len == MessageLen(payloadLen)
           checked == CheckedLen(payloadLen)
           msg == Message(sent, size)
           dest == (rxPacket \ Bits(len)) \cup air
           crc == crc32Calc(dest, checked)
           i == crc32IncorrectBit(crc, len)
           corrected == Xor(dest, {i})
           C(k) == crc32Calc({k}, checked)
           zeros == checked >= len /\ rxPacket \cap Bits(checked) \subseteq Bits(len)
<1>1. /\ size \in PayloadSizes /\ sent \subseteq Bits(size) /\ tblLen = 8 * len
      /\ wrong \subseteq Bits(len) /\ IsFiniteSet(wrong) /\ Cardinality(wrong) <= 2
      /\ air = Xor(msg, wrong)
  BY DEF PacketInv, Decode
<1>2. size \in Nat /\ len \in Nat /\ checked \in Nat /\ len <= MaxLen /\ len > size
  BY <1>1, Lengths
<1>3. msg \subseteq Bits(len) /\ msg \cap Bits(size) = sent
  BY <1>1, <1>2, MessageMember
<1>4. air \subseteq Bits(len)
  <2> HIDE DEF msg, len
  <2> QED
    BY <1>1, <1>3 DEF Xor
<1>5. /\ payloadLen' = payloadLen /\ sent' = sent /\ wrong' = wrong /\ air' = air
      /\ \/ crc = {} /\ rxPacket' = dest /\ status' = "OK"
         \/ crc # {} /\ i = NoBit /\ rxPacket' = dest /\ status' = "CHECKSUM_FAIL"
         \/ /\ crc # {} /\ i # NoBit /\ rxPacket' = corrected
            /\ status' = IF crc32Calc(corrected, checked) = {} THEN "OK" ELSE "ECC_FAIL"
  <2>1. tblLen \div 8 = len
    <3> HIDE DEF len
    <3> QED
      BY <1>1, <1>2
  <2> QED
    BY <2>1 DEF Decode
<1>6. \/ i = NoBit /\ \A k \in Bits(len) : crc32Calc({k}, len) # crc
      \/ i \in Bits(len) /\ i # NoBit /\ crc32Calc({i}, len) = crc /\ CorrectionTable[len][i] = crc
  <2> HIDE DEF crc, len
  <2>1. /\ \A k \in Bits(len) : CorrectionTable[len][k] = crc32Calc({k}, len)
        /\ \/ i = NoBit /\ \A k \in Bits(len) : crc32Calc({k}, len) # crc
           \/ i \in Bits(len) /\ crc32Calc({i}, len) = crc
    BY <1>2, Lookup
  <2>2. NoBit \notin Bits(len)
    BY <1>2 DEF Bits, NoBit
  <2> HIDE DEF i
  <2> QED
    BY <2>1, <2>2
<1>7. crc32Calc(corrected, checked) = Xor(crc, C(i))
  <2> HIDE DEF dest, checked, i
  <2> QED
    BY <1>2, CrcLinear
\* Where there are zeros behind the message, only the wrong bits count.
<1>8. zeros => crc = crc32Calc(wrong, checked)
  <2>1. SUFFICES ASSUME zeros PROVE crc = crc32Calc(wrong, checked)
    OBVIOUS
  <2>2. Bits(len) \subseteq Bits(checked)
    <3> HIDE DEF len, checked
    <3> QED
      BY <1>2, <2>1 DEF Bits
  <2>3. dest \cap Bits(checked) = air
    <3> HIDE DEF len, checked
    <3> QED
      BY <1>4, <2>1, <2>2
  <2>4. dest \cap Bits(checked) = Xor(msg, wrong)
    BY <1>1, <2>3
  <2> HIDE DEF dest
  <2> QED
    BY <1>1, <2>1, <2>4, Syndrome
<1>9. checked = len => zeros
  <2> HIDE DEF len, checked
  <2> QED
    BY <1>2
<1>10. checked' = checked /\ len' = len /\ (Clean' => zeros)
  <2>1. checked' = checked /\ len' = len
    BY <1>5 DEF CheckedLen, rxlen, MessageLen
  <2>2. rxPacket' = dest \/ (rxPacket' = corrected /\ i \in Bits(len))
    BY <1>5, <1>6
  <2>3. rxPacket \ Bits(len) \subseteq rxPacket'
    <3> HIDE DEF len, i
    <3>1. CASE rxPacket' = dest
      BY <3>1
    <3>2. CASE rxPacket' = corrected /\ i \in Bits(len)
      BY <3>2 DEF Xor
    <3> QED
      BY <2>2, <3>1, <3>2
  <2>4. Clean' => checked >= len /\ rxPacket' \cap Bits(checked) \subseteq Bits(len)
    <3>1. Clean' => checked' >= len' /\ rxPacket' \cap Bits(checked') \subseteq Bits(len')
      BY DEF Clean, Bits
    <3> HIDE DEF checked, len
    <3> QED
      BY <2>1, <3>1
  <2> HIDE DEF checked, len
  <2> QED
    BY <2>1, <2>3, <2>4
<1>11. /\ checked >= len => \A k \in Bits(len) : C(k) # {}
       /\ checked >= len => \A k, l \in Bits(len) : k # l => C(k) # C(l)
       /\ checked = len => \A k, l, m \in Bits(len) : k # l => Xor(C(k), C(l)) # C(m)
       /\ checked # len => \A k \in Bits(len) : CorrectionTable[len][k] # C(k)
  BY <1>1, Distance
<1>12. C(i) = crc => crc32Calc(corrected, checked) = {}
  BY <1>7, XorAlgebra
<1>13. crc32Calc(corrected, checked) = {} => C(i) = crc
  BY <1>7, XorEmpty
<1>14. wrong = {} /\ zeros => crc = {}
  <2>1. crc32Calc({}, checked) = {}
    BY <1>2, CrcOfZeros
  <2> QED
    BY <1>8, <2>1
\* Bits of the message are those of the payload, and those behind it.
<1>15. \A buf : Xor(msg, buf) = msg => buf = {}
  BY DEF Xor
<1>16. dest \cap Bits(len) = air /\ Bits(size) \subseteq Bits(len)
  <2>1. Bits(size) \subseteq Bits(len)
    <3> HIDE DEF len
    <3> QED
      BY <1>2 DEF Bits
  <2> HIDE DEF len
  <2> QED
    BY <1>4, <2>1
<1> HIDE DEF size, len, checked, msg, dest, crc, i, corrected, C, zeros
<1>20. RecheckRedundant'
  <2>1. SUFFICES ASSUME checked = len PROVE status' # "ECC_FAIL"
    BY <1>10 DEF RecheckRedundant, checked, len
  <2>2. i # NoBit => C(i) = crc
    BY <1>6, <2>1 DEF C
  <2> QED
    BY <1>5, <1>12, <2>2
<1>21. NoFalseCorrection'
  <2>1. SUFFICES ASSUME checked # len, status' = "OK"
                 PROVE  rxPacket' \cap Bits(len) = air
    BY <1>5, <1>10 DEF NoFalseCorrection, checked, len, Bits
  <2>2. i # NoBit => C(i) # crc
    BY <1>6, <1>11, <2>1
  <2>3. rxPacket' = dest
    BY <1>5, <1>13, <2>1, <2>2
  <2> QED
    BY <1>16, <2>3
<1>22. IntactAccepted'
  <2>1. SUFFICES ASSUME zeros, wrong = {} PROVE status' = "OK"
    BY <1>5, <1>10 DEF IntactAccepted
  <2> QED
    BY <1>5, <1>14, <2>1
<1>23. SingleErrorRepaired'
  <2>1. SUFFICES ASSUME checked = len, Cardinality(wrong) <= 1
                 PROVE  status' \notin {"CHECKSUM_FAIL", "ECC_FAIL"}
    BY <1>5, <1>10 DEF SingleErrorRepaired, checked, len
  <2>2. zeros /\ status' # "ECC_FAIL"
    BY <1>9, <1>10, <1>20, <2>1 DEF RecheckRedundant, checked, len
  <2>3. CASE wrong = {}
    BY <1>5, <1>14, <2>2, <2>3
  <2>4. CASE \E k \in wrong : wrong = {k}
    <3>1. PICK k \in Bits(len) : wrong = {k}
      BY <1>1, <2>4
    <3>2. crc = crc32Calc({k}, len)
      BY <1>8, <2>1, <2>2, <3>1
    <3>3. i # NoBit
      BY <1>6, <3>2
    <3> QED
      BY <1>5, <2>2, <3>3
  <2> QED
    BY <1>1, <2>1, <2>3, <2>4, AtMostOne
<1>24. (Clean => NeverWrongPayload)'
  <2>1. SUFFICES ASSUME zeros, status' = "OK" PROVE rxPacket' \cap Bits(size) = sent
    BY <1>5, <1>10 DEF NeverWrongPayload, size, Bits
  <2>2. checked >= len
    BY <2>1 DEF zeros
  <2>3. \/ wrong = {}
        \/ \E k \in Bits(len) : wrong = {k}
        \/ \E k, l \in Bits(len) : k # l /\ wrong = {k, l}
    BY <1>1, AtMostTwo
  <2>4. crc = crc32Calc(wrong, checked)
    BY <1>8, <2>1
\* Two wrong bits are never accepted.
  <2>5. ASSUME NEW k \in Bits(len), NEW l \in Bits(len), k # l, wrong = {k, l}
        PROVE  FALSE
    <3>1. C(k) # C(l)
      BY <1>11, <2>2, <2>5
    <3>2. crc = Xor(C(k), C(l))
      <4>1. crc32Calc({k, l}, checked) = Xor(crc32Calc({k}, checked), crc32Calc({l}, checked))
        BY <1>2, <2>5, CrcOfPair
      <4> QED
        BY <2>4, <2>5, <4>1 DEF C
    <3>3. crc # {}
      BY <3>1, <3>2, XorEmpty
    <3>4. i \in Bits(len) /\ i # NoBit /\ C(i) = crc /\ CorrectionTable[len][i] = crc
      BY <1>5, <1>6, <1>13, <2>1, <3>3
    <3>5. checked = len
      BY <1>11, <3>4
    <3> QED
      BY <1>11, <2>5, <3>2, <3>4, <3>5
\* One wrong bit is accepted only if it has been put right.
  <2>6. ASSUME NEW k \in Bits(len), wrong = {k}
        PROVE  rxPacket' \cap Bits(size) = sent
    <3>1. crc = C(k) /\ crc # {}
      BY <1>11, <2>2, <2>4, <2>6 DEF C
    <3>2. i \in Bits(len) /\ C(i) = crc /\ rxPacket' = corrected
      BY <1>5, <1>6, <1>13, <2>1, <3>1
    <3>3. i = k
      BY <1>11, <2>2, <3>1, <3>2
    <3>4. corrected \cap Bits(len) = Xor(air, {k})
      BY <1>16, <3>2, <3>3 DEF corrected, Xor
    <3>5. Xor(air, {k}) = msg
      BY <1>1, <2>6, XorAlgebra
    <3> QED
      BY <1>3, <1>16, <3>2, <3>4, <3>5
  <2>7. CASE wrong = {}
    <3>1. rxPacket' = dest /\ air = msg
      BY <1>1, <1>5, <1>14, <2>1, <2>7, XorAlgebra
    <3> QED
      BY <1>3, <1>16, <3>1
  <2> QED
    BY <2>3, <2>5, <2>6, <2>7
<1> QED
  BY <1>20, <1>21, <1>22, <1>23, <1>24

-----------------------------------------------------------------------------
(* The invariant holds.                                                      *)

LEMMA InitInv == Init => IInv
<1> SUFFICES ASSUME Init PROVE IInv
  OBVIOUS
<1>1. tblLen = 0 /\ status = "idle"
  BY DEF Init
<1>2. PacketInv
  BY <1>1 DEF PacketInv
<1> QED
  BY <1>1, <1>2 DEF IInv, SingleErrorRepaired, NeverWrongPayload, IntactAccepted,
     RecheckRedundant, NoFalseCorrection

\* Properties of results say nothing of a packet that has none yet.
LEMMA NoResult ==
  status' \notin {"OK", "CHECKSUM_FAIL", "ECC_FAIL"} =>
    /\ SingleErrorRepaired' /\ (Clean => NeverWrongPayload)'
    /\ IntactAccepted' /\ RecheckRedundant' /\ NoFalseCorrection'
BY DEF SingleErrorRepaired, NeverWrongPayload, IntactAccepted, RecheckRedundant, NoFalseCorrection

\* A step that leaves the codec alone.
LEMMA CodecUnchanged ==
  ASSUME IInv, UNCHANGED <<payloadLen, tblLen, sent, wrong, air, rxPacket, status>>
  PROVE  IInv'
BY DEF IInv, PacketInv, SingleErrorRepaired, Clean, NeverWrongPayload, IntactAccepted,
   RecheckRedundant, NoFalseCorrection, CheckedLen, rxlen, MessageLen, Bits, Message, Xor

LEMMA ConfigureStep ==
  ASSUME IInv, NEW size \in PayloadSizes, Configure(size)
  PROVE  IInv'
<1>1. CASE \E assertion : Fail(assertion)
  BY <1>1, CodecUnchanged DEF Fail
<1>2. CASE payloadLen' = size /\ tblLen' = 8 * MessageLen(size) /\ status' = "idle"
  <2>1. tblLen' \in Nat
    BY <1>2, Lengths
  <2>2. PacketInv'
    BY <1>2 DEF PacketInv
  <2>3. tblLen' # 0 => payloadLen' \in PayloadSizes /\ tblLen' = 8 * MessageLen(payloadLen')
    BY <1>2
  <2> QED
    BY <1>2, <2>1, <2>2, <2>3, NoResult DEF IInv, MessageLen
<1> QED
  BY <1>1, <1>2 DEF Configure

LEMMA EncodeStep ==
  ASSUME IInv, NEW payload \in Payloads(payloadLen), Encode(payload)
  PROVE  IInv'
<1>1. CASE \E assertion : Fail(assertion)
  BY <1>1, CodecUnchanged DEF Fail
<1>2. CASE /\ UNCHANGED <<payloadLen, tblLen>>
           /\ sent' = payload /\ wrong' = {} /\ status' = "onAir"
           /\ air' = Message(payload, payloadLen)
  <2>1. tblLen \in Nat /\ tblLen > 0
    BY DEF Encode, IInv
  <2>2. payloadLen \in PayloadSizes /\ tblLen = 8 * MessageLen(payloadLen)
    BY <2>1 DEF IInv
  <2>3. payload \subseteq Bits(payloadLen)
    BY <2>2, PayloadAssumption
  <2>4. IsFiniteSet({}) /\ Cardinality({}) <= 2
    BY FS_EmptySet
  <2>5. air' = Xor(Message(payload, payloadLen), {})
    BY <1>2, XorAlgebra
  <2>6. PacketInv'
    BY <1>2, <2>2, <2>3, <2>4, <2>5 DEF PacketInv, Bits, MessageLen, Message
  <2> QED
    BY <1>2, <2>1, <2>2, <2>6, NoResult DEF IInv, MessageLen
<1> QED
  BY <1>1, <1>2 DEF Encode, Message

LEMMA DisturbStep ==
  ASSUME IInv, NEW bits \in Disturbed(payloadLen), Disturb(bits)
  PROVE  IInv'
<1>1. /\ UNCHANGED <<payloadLen, tblLen, sent>> /\ status = "onAir" /\ status' = "arrived"
      /\ wrong' = bits /\ air' = Xor(air, bits)
  BY DEF Disturb
<1>2. /\ payloadLen \in PayloadSizes /\ tblLen = 8 * MessageLen(payloadLen)
      /\ sent \subseteq Bits(payloadLen) /\ air = Xor(Message(sent, payloadLen), {})
  BY <1>1 DEF IInv, PacketInv
<1>3. bits \subseteq Bits(MessageLen(payloadLen)) /\ IsFiniteSet(bits) /\ Cardinality(bits) <= 2
  BY <1>2, ChannelAssumption
<1>4. air' = Xor(Message(sent', payloadLen'), wrong')
  BY <1>1, <1>2, XorAlgebra
<1>5. PacketInv'
  BY <1>1, <1>2, <1>3, <1>4 DEF PacketInv, Bits, MessageLen, Message
<1> QED
  BY <1>1, <1>2, <1>5, NoResult DEF IInv, MessageLen

LEMMA LinecodeFailStep ==
  ASSUME IInv, LinecodeFail
  PROVE  IInv'
<1>1. /\ UNCHANGED <<payloadLen, tblLen, sent, wrong, air>>
      /\ status = "onAir" /\ status' = "LINECODE_FAIL"
  BY DEF LinecodeFail
<1>2. PacketInv'
  BY <1>1 DEF IInv, PacketInv, Bits, MessageLen, Message
<1> QED
  BY <1>1, <1>2, NoResult DEF IInv, MessageLen

LEMMA NextInv ==
  ASSUME IInv, [Next]_vars
  PROVE  IInv'
<1>1. CASE \E size \in PayloadSizes : Configure(size)
  BY <1>1, ConfigureStep
<1>2. CASE \E payload \in Payloads(payloadLen) : Encode(payload)
  BY <1>2, EncodeStep
<1>3. CASE \E bits \in Disturbed(payloadLen) : Disturb(bits)
  BY <1>3, DisturbStep
<1>4. CASE LinecodeFail
  BY <1>4, LinecodeFailStep
<1>5. CASE Decode
  <2>1. /\ UNCHANGED <<payloadLen, tblLen, sent, wrong, air>>
        /\ status = "arrived" /\ status' \in {"OK", "CHECKSUM_FAIL", "ECC_FAIL"}
    BY <1>5 DEF Decode
  <2>2. PacketInv'
    BY <2>1 DEF IInv, PacketInv, Bits, MessageLen, Message
  <2>3. /\ SingleErrorRepaired' /\ (Clean => NeverWrongPayload)'
        /\ IntactAccepted' /\ RecheckRedundant' /\ NoFalseCorrection'
    BY <1>5, DecodeStep DEF IInv
  <2> QED
    BY <2>1, <2>2, <2>3 DEF IInv, MessageLen
<1>6. CASE UNCHANGED vars
  BY <1>6, CodecUnchanged DEF vars
<1> QED
  BY <1>1, <1>2, <1>3, <1>4, <1>5, <1>6 DEF Next

LEMMA Invariance == Spec => []IInv
BY InitInv, NextInv, PTL DEF Spec

-----------------------------------------------------------------------------
(* Results.                                                                  *)

\* The decoder takes the CRC of srcBits / 8 - 4 bytes (packet.c:97), where
\* srcBits counts ten bits for a byte.  Of the sizes that can be sent
\* (packet.c:65 wants a multiple of four) that is the message's length for 12
\* bytes only; it ends too early for less, and too late for more.
THEOREM CheckedLenFitsTwelve ==
  \A size \in Nat : size % 4 = 0 =>
    /\ CheckedLen(size) = MessageLen(size) <=> size = 12
    /\ CheckedLen(size) < MessageLen(size) <=> size < 12
<1> TAKE size \in Nat
<1>1. CheckedLen(size) = ((size + 4) * 10) \div 8 - 4 /\ MessageLen(size) = size + 4
  BY DEF CheckedLen, rxlen, MessageLen
<1>2. SUFFICES ASSUME size % 4 = 0
               PROVE  /\ ((size + 4) * 10) \div 8 - 4 = size + 4 <=> size = 12
                      /\ ((size + 4) * 10) \div 8 - 4 < size + 4 <=> size < 12
  BY <1>1
<1>3. PICK q \in Nat : size = 4 * q
  <2>1. size = 4 * (size \div 4) /\ size \div 4 \in Nat
    BY <1>2
  <2> QED
    BY <2>1
<1>4. ((size + 4) * 10) \div 8 = 5 * (q + 1)
  BY <1>3
<1> QED
  BY <1>3, <1>4

\* For every payload and every size, also after packets of other sizes: where
\* the decoder checks as many bytes as were sent (packet.c:97), a packet with
\* at most one wrong bit is accepted.
THEOREM SingleErrorRepairedHolds == Spec => []SingleErrorRepaired
BY Invariance, PTL DEF IInv

\* Where the decoder checks the message to its end, and only zeros behind it,
\* an accepted payload is the one that was sent: one wrong bit is put right and
\* two are rejected.
THEOREM NeverWrongPayloadIfClean == Spec => [](Clean => NeverWrongPayload)
BY Invariance, PTL DEF IInv

\* A packet that arrives as it was sent is accepted, if there are only zeros
\* behind it.
THEOREM IntactAcceptedHolds == Spec => []IntactAccepted
BY Invariance, PTL DEF IInv

\* The second check of the checksum (packet.c:106) never fails where the lengths
\* agree, whatever the channel has done to the packet.
THEOREM RecheckRedundantHolds == Spec => []RecheckRedundant
BY Invariance, PTL DEF IInv

\* And where they do not, it always fails: no packet that was changed by the
\* correction is accepted.
THEOREM NoFalseCorrectionHolds == Spec => []NoFalseCorrection
BY Invariance, PTL DEF IInv

-----------------------------------------------------------------------------
(* The same without a condition on the receiver's buffer.                    *)

\* Nothing follows the longest message, and the channel keeps to what it may do.
BufferInv ==
  /\ rxPacket \subseteq UNION {Bits(MessageLen(size)) : size \in PayloadSizes}
  /\ status \in {"arrived", "OK"} => wrong \in Disturbed(payloadLen)

LEMMA BufferStep ==
  ASSUME IInv, BufferInv, [Next]_vars
  PROVE  BufferInv'
<1> DEFINE Everything == UNION {Bits(MessageLen(size)) : size \in PayloadSizes}
           len == MessageLen(payloadLen)
<1>1. rxPacket \subseteq Everything
  BY DEF BufferInv
<1>2. ASSUME status \in {"onAir", "arrived"}
      PROVE  /\ tblLen \div 8 = len /\ len \in Nat /\ len <= MaxLen
             /\ Bits(len) \subseteq Everything /\ air \subseteq Bits(len)
  <2>1. /\ payloadLen \in PayloadSizes /\ tblLen = 8 * len /\ sent \subseteq Bits(payloadLen)
        /\ wrong \subseteq Bits(len) /\ air = Xor(Message(sent, payloadLen), wrong)
    BY <1>2 DEF IInv, PacketInv
  <2>2. len \in Nat /\ len <= MaxLen /\ Message(sent, payloadLen) \subseteq Bits(len)
    BY <2>1, Lengths, MessageMember
  <2>3. Bits(len) \subseteq Everything
    BY <2>1
  <2> HIDE DEF len, Everything
  <2>4. air \subseteq Bits(len)
    BY <2>1, <2>2 DEF Xor
  <2> QED
    BY <2>1, <2>2, <2>3, <2>4
<1>3. rxPacket' \subseteq Everything
  <2>1. CASE UNCHANGED rxPacket
    BY <1>1, <2>1
  <2>2. CASE LinecodeFail
    <3>1. PICK decoded \in Decodable(payloadLen) :
            rxPacket' = (rxPacket \ Bits(decoded)) \cup (air \cap Bits(decoded))
      BY <2>2 DEF LinecodeFail
    <3>2. air \subseteq Everything
      BY <1>2, <2>2 DEF LinecodeFail
    <3> HIDE DEF Everything
    <3> QED
      BY <1>1, <3>1, <3>2
  <2>3. CASE Decode
    <3> DEFINE dest == (rxPacket \ Bits(len)) \cup air
               i == crc32IncorrectBit(crc32Calc(dest, CheckedLen(payloadLen)), len)
    <3>1. /\ tblLen \div 8 = len /\ len \in Nat /\ len <= MaxLen
          /\ Bits(len) \subseteq Everything /\ air \subseteq Bits(len)
      BY <1>2, <2>3 DEF Decode
    <3>2. rxPacket' = dest \/ (i # NoBit /\ rxPacket' = Xor(dest, {i}))
      BY <2>3, <3>1 DEF Decode
    <3>3. i = NoBit \/ i \in Bits(len)
      <4> HIDE DEF len, dest
      <4> QED
        BY <3>1, Lookup
    <3> HIDE DEF len, i, Everything
    <3>4. dest \subseteq Everything
      BY <1>1, <3>1
    <3> QED
      BY <3>1, <3>2, <3>3, <3>4 DEF Xor
  <2> QED
    BY <2>1, <2>2, <2>3 DEF Next, Configure, Encode, Disturb, Fail, vars
<1>4. (status \in {"arrived", "OK"} => wrong \in Disturbed(payloadLen))'
  <2>1. CASE \E bits \in Disturbed(payloadLen) : Disturb(bits)
    BY <2>1 DEF Disturb
  <2>2. CASE Decode
    BY <2>2 DEF Decode, BufferInv
  <2>3. CASE UNCHANGED <<status, wrong, payloadLen>>
    BY <2>3 DEF BufferInv
  <2>4. CASE status' \in {"idle", "onAir", "LINECODE_FAIL"}
    BY <2>4
  <2> QED
    BY <2>1, <2>2, <2>3, <2>4 DEF Next, Configure, Encode, LinecodeFail, Fail, vars
<1> QED
  BY <1>3, <1>4 DEF BufferInv, Bits, MessageLen

\* Nothing changes over the zeros that follow a message of checksum zero.
LEMMA ZerosBehind ==
  ASSUME NEW buf, NEW n \in Nat, buf \subseteq Bits(n), crc32Calc(buf, n) = {}
  PROVE  \A m \in Nat : m >= n => crc32Calc(buf, m) = {}
<1> DEFINE Zero == {m \in Nat : m >= n => crc32Calc(buf, m) = {}}
<1>1. 0 \in Zero
  BY DEF Bits
<1>2. ASSUME NEW m \in Nat, m \in Zero
      PROVE  m + 1 \in Zero
  <2>1. CASE m + 1 <= n
    <3>1. m + 1 >= n => m + 1 = n
      BY <2>1
    <3> QED
      BY <3>1
  <2>2. CASE m + 1 > n
    <3>1. m >= n
      BY <2>2
    <3>2. crc32Calc(buf, m) = {}
      BY <1>2, <3>1
    <3>3. \A j \in 0 .. 7 : 8 * m + j \notin Bits(n)
      BY <3>1 DEF Bits
    <3>4. Byte(buf, m) = {}
      BY <3>3 DEF Byte
    <3>5. crc32Calc(buf, m + 1) = {}
      BY <3>2, <3>4, CrcStep, RoundOfZeros
    <3> QED
      BY <3>5
  <2> QED
    BY <2>1, <2>2
<1> HIDE DEF Zero
<1>3. Nat \subseteq Zero
  BY <1>1, <1>2, InductionOnSet
<1> QED
  BY <1>3 DEF Zero

\* A buffer that passes the check holds the message, the wrong bits and what is
\* beyond; then the last two have the same checksum.
LEMMA Hiding ==
  ASSUME NEW size \in PayloadSizes, NEW payload, payload \subseteq Bits(size),
         NEW bits, bits \subseteq Bits(MessageLen(size)), NEW buf,
         buf \cap Bits(MessageLen(size)) = Xor(Message(payload, size), bits),
         crc32Calc(buf, CheckedLen(size)) = {}
  PROVE  LET len == MessageLen(size)
             checked == CheckedLen(size)
             all == IF checked >= len THEN checked ELSE len
         IN  \E beyond \in SUBSET Beyond(size) :
               crc32Calc(bits \cap Bits(checked), all) = crc32Calc(beyond, all)
<1> DEFINE len == MessageLen(size)
           checked == CheckedLen(size)
           all == IF checked >= len THEN checked ELSE len
           msg == Message(payload, size)
           seen == buf \cap Bits(checked)
           beyond == Xor(Xor(msg, seen), bits \cap Bits(checked))
<1>1. len \in Nat /\ checked \in Nat /\ all \in Nat /\ all >= len /\ all >= checked
  BY Lengths
<1>2. msg \subseteq Bits(len) /\ crc32Calc(msg, all) = {}
  BY <1>1, Lengths, MessageMember, MessageChecksum
<1>3. crc32Calc(seen, all) = {}
  <2>1. crc32Calc(seen, checked) = {}
    <3>1. seen \cap Bits(checked) = buf \cap Bits(checked)
      OBVIOUS
    <3> HIDE DEF seen, checked
    <3> QED
      BY <1>1, <3>1, CrcLocal DEF checked
  <2>2. seen \subseteq Bits(checked)
    OBVIOUS
  <2> HIDE DEF seen, checked, all
  <2> QED
    BY <1>1, <2>1, <2>2, ZerosBehind
<1>4. Bits(len) \subseteq Bits(checked) \/ Bits(checked) \subseteq Bits(len)
  <2> HIDE DEF len, checked
  <2> QED
    BY <1>1 DEF Bits
<1>5. beyond \in SUBSET Beyond(size)
  <2>1. buf \cap Bits(len) = Xor(msg, bits) /\ bits \subseteq Bits(len)
    OBVIOUS
  <2>2. Beyond(size) = Xor(Bits(len), Bits(checked))
    BY DEF Beyond
  <2> HIDE DEF len, checked, msg
  <2>3. ASSUME NEW x \in beyond PROVE x \in Xor(Bits(len), Bits(checked))
    BY <1>2, <1>4, <2>1, <2>3, XorMember
  <2> QED
    BY <2>2, <2>3
<1>6. crc32Calc(beyond, all) = crc32Calc(bits \cap Bits(checked), all)
  <2> HIDE DEF all, msg, seen, checked
  <2> DEFINE both == Xor(msg, seen)
             counted == bits \cap Bits(checked)
  <2>1. crc32Calc(both, all) = Xor(crc32Calc(msg, all), crc32Calc(seen, all))
    BY <1>1, CrcLinear
  <2>2. crc32Calc(both, all) = {}
    BY <1>2, <1>3, <2>1, XorAlgebra
  <2> HIDE DEF both, counted
  <2>3. crc32Calc(Xor(both, counted), all) = Xor(crc32Calc(both, all), crc32Calc(counted, all))
    BY <1>1, CrcLinear
  <2>4. crc32Calc(Xor(both, counted), all) = crc32Calc(counted, all)
    BY <2>2, <2>3, XorAlgebra
  <2> QED
    BY <2>4 DEF both, counted
<1> QED
  BY <1>5, <1>6

\* For every payload, every size and whatever packets of other sizes have left
\* in the buffer, up to two wrong bits never make the decoder accept a payload
\* that was not sent, if the sizes in use are Telltale.
THEOREM NeverWrongPayloadHolds ==
  ASSUME \A size \in PayloadSizes : Telltale(size)
  PROVE  Spec => []NeverWrongPayload
<1>1. Init => BufferInv /\ NeverWrongPayload
  BY DEF Init, BufferInv, NeverWrongPayload
<1>2. ASSUME IInv, BufferInv, [Next]_vars, NeverWrongPayload
      PROVE  NeverWrongPayload'
  <2> DEFINE size == payloadLen
             len == MessageLen(size)
             checked == CheckedLen(size)
  <2>1. IInv' /\ BufferInv'
    BY <1>2, NextInv, BufferStep
  <2>2. CASE UNCHANGED <<status, rxPacket, payloadLen, sent>>
    BY <1>2, <2>2 DEF NeverWrongPayload, Bits
  <2>3. CASE status' # "OK"
    BY <2>3 DEF NeverWrongPayload
  <2>4. CASE Decode /\ status' = "OK"
    <3>1. /\ size \in PayloadSizes /\ sent \subseteq Bits(size)
          /\ wrong \subseteq Bits(len) /\ air = Xor(Message(sent, size), wrong)
          /\ wrong \in Disturbed(size)
      BY <1>2, <2>4 DEF IInv, PacketInv, BufferInv, Decode
    <3>2. UNCHANGED <<payloadLen, sent, wrong, air>> /\ checked' = checked /\ len' = len
      BY <2>4 DEF Decode, CheckedLen, rxlen, MessageLen
    <3>3. len \in Nat /\ checked \in Nat /\ size \in Nat /\ len > size
      BY <3>1, Lengths
    <3>4. SUFFICES ASSUME ~ Clean' PROVE NeverWrongPayload'
      BY <2>1 DEF IInv
    <3>5. ~ (checked >= len /\ rxPacket' \cap Bits(checked) \subseteq Bits(len))
      BY <3>2, <3>4 DEF Clean, Bits
    <3>6. checked # len
      <4> HIDE DEF checked, len
      <4> QED
        BY <3>3, <3>5
    <3>7. ~ (checked >= len /\ \A other \in PayloadSizes : MessageLen(other) <= len)
      <4>1. SUFFICES ASSUME checked >= len, \A other \in PayloadSizes : MessageLen(other) <= len
                     PROVE  rxPacket' \subseteq Bits(len)
        BY <3>5
      <4>2. ASSUME NEW other \in PayloadSizes PROVE Bits(MessageLen(other)) \subseteq Bits(len)
        <5>1. MessageLen(other) \in Nat /\ MessageLen(other) <= len
          BY <4>1, Lengths
        <5> HIDE DEF len
        <5> QED
          BY <3>3, <5>1 DEF Bits
      <4> HIDE DEF len
      <4> QED
        BY <2>1, <4>2 DEF BufferInv, Bits, MessageLen
    <3>8. crc32Calc(rxPacket', checked) = {}
      BY <2>4 DEF Decode
    <3>9. rxPacket' \cap Bits(len) = Xor(Message(sent, size), wrong)
      <4>1. rxPacket' \cap Bits(len) = air
        BY <2>1, <2>4, <3>2, <3>6 DEF IInv, NoFalseCorrection, Bits
      <4> QED
        BY <3>1, <4>1
    <3>10. wrong \cap Bits(size) = {}
      <4> DEFINE all == IF checked >= len THEN checked ELSE len
      <4>1. \E beyond \in SUBSET Beyond(size) :
              crc32Calc(wrong \cap Bits(checked), all) = crc32Calc(beyond, all)
        BY <3>1, <3>8, <3>9, Hiding
      <4>2. \A bits \in Disturbed(size), beyond \in SUBSET Beyond(size) :
              crc32Calc(bits \cap Bits(checked), all) = crc32Calc(beyond, all) =>
                bits \cap Bits(size) = {}
        <5>1. Telltale(size)
          BY <3>1
        <5> QED
          BY <3>6, <3>7, <5>1 DEF Telltale
      <4> HIDE DEF all, checked
      <4> QED
        BY <3>1, <4>1, <4>2
    <3>11. Message(sent, size) \cap Bits(size) = sent /\ Bits(size) \subseteq Bits(len)
      <4>1. Message(sent, size) \cap Bits(size) = sent
        BY <3>1, <3>3, MessageMember
      <4> HIDE DEF len
      <4>2. Bits(size) \subseteq Bits(len)
        BY <3>3 DEF Bits
      <4> QED
        BY <4>1, <4>2
    <3>12. rxPacket' \cap Bits(size) = sent
      <4> HIDE DEF len, size
      <4>1. rxPacket' \cap Bits(size) = Xor(Message(sent, size), wrong) \cap Bits(size)
        BY <3>9, <3>11
      <4> QED
        BY <3>10, <3>11, <4>1 DEF Xor
    <3> QED
      BY <3>2, <3>12 DEF NeverWrongPayload, Bits
  <2> QED
    BY <1>2, <2>2, <2>3, <2>4 DEF Next, Configure, Encode, Disturb, LinecodeFail, Fail, vars
<1>3. IInv /\ BufferInv /\ [Next]_vars => BufferInv'
  BY BufferStep
<1> QED
  BY <1>1, <1>2, <1>3, Invariance, PTL DEF Spec

=============================================================================

----------------------------- MODULE AirProofs -----------------------------
(***************************************************************************)
(* Proof of the promise of f-MAC for any number of stations, any table     *)
(* that satisfies TableAssumption and any packet time, switching time and  *)
(* jitter within TimeAssumption: of every packet one framelet meets no     *)
(* framelet of another station and no deaf station, and so the stations    *)
(* together implement module Broadcast.                                    *)
(*                                                                         *)
(* The argument is about ages of framelets only.  Two framelets of one     *)
(* packet are some multiple of the station's wait apart, two framelets of  *)
(* another station a multiple of its wait, or the pause t'; TableAssumption *)
(* keeps the two distances at least delta apart, but to hit both framelets *)
(* they would have to be closer than the time a framelet is on air and the *)
(* time its sender is deaf together.  So every other station hits at most  *)
(* one framelet, and there is one framelet more than there are other       *)
(* stations.                                                               *)
(***************************************************************************)
EXTENDS Air, TLAPS, FiniteSetTheorems, WellFoundedInduction

-----------------------------------------------------------------------------
(* Arithmetic *)

\* Products of natural numbers, which the solver does not find by itself.
LEMMA Products ==
  ASSUME NEW x \in Nat, NEW y \in Nat, NEW z \in Nat
  PROVE  /\ x * y \in Nat
         /\ x * (y + z) = x * y + x * z
         /\ (x + y) * z = x * z + y * z
         /\ x <= y => x * z <= y * z
         /\ x < y => x * z + z <= y * z
         /\ (x * y) * z = x * (y * z)
         /\ x * y = y * x
<1>1. x * y \in Nat /\ x * z \in Nat /\ y * z \in Nat /\ (x + y) * z = x * z + y * z
  OBVIOUS
<1>2. x <= y => x * z <= y * z
  <2> SUFFICES ASSUME x <= y PROVE x * z <= y * z
    OBVIOUS
  <2>1. PICK k \in Nat : y = x + k
    <3>1. y - x \in Nat /\ y = x + (y - x)
      OBVIOUS
    <3> QED
      BY <3>1
  <2>2. y * z = x * z + k * z /\ k * z \in Nat
    BY <2>1
  <2> QED
    BY <2>2, <1>1
<1>3. x < y => x * z + z <= y * z
  <2> SUFFICES ASSUME x < y PROVE x * z + z <= y * z
    OBVIOUS
  <2>1. PICK k \in Nat : y = x + 1 + k
    <3>1. y - x - 1 \in Nat /\ y = x + 1 + (y - x - 1)
      OBVIOUS
    <3> QED
      BY <3>1
  <2>2. y * z = x * z + z + k * z /\ k * z \in Nat
    BY <2>1
  <2> QED
    BY <2>2, <1>1
<1> QED
  BY <1>1, <1>2, <1>3

\* A set of natural numbers that is not empty has a least element.
LEMMA Least ==
  ASSUME NEW T \in SUBSET Nat, T # {}
  PROVE  \E x \in T : \A y \in T : x <= y
<1>1. PICK x \in T : \A y \in T : ~ (<<y, x>> \in OpToRel(<, Nat))
  BY NatLessThanWellFounded, WFMin
<1>2. \A y \in T : ~ (y < x)
  BY <1>1 DEF OpToRel
<1> QED
  BY <1>2

\* kmax exists and bounds the table.
LEMMA KmaxBounds == kmax \in Nat /\ \A i \in Stations : K[i] <= kmax
<1> DEFINE Top(n) == \E k \in 0 .. n - 1 : \A i \in 0 .. n - 1 : K[i] <= K[k]
           Bad == {n \in 1 .. N : ~ Top(n)}
<1> USE CountAssumption, TableAssumption DEF Stations
<1>1. Bad = {}
  <2> SUFFICES ASSUME Bad # {} PROVE FALSE
    OBVIOUS
  <2>a. Bad \in SUBSET Nat
    OBVIOUS
  <2>1. PICK n \in Bad : \A y \in Bad : n <= y
    <3> HIDE DEF Bad
    <3> QED
      BY <2>a, Least
  <2>2. n \in 1 .. N /\ ~ Top(n)
    OBVIOUS
  <2>3. CASE n = 1
    <3>1. 0 \in 0 .. n - 1 /\ \A i \in 0 .. n - 1 : i = 0
      BY <2>3
    <3>2. K[0] <= K[0]
      BY <2>3
    <3> QED
      BY <2>2, <3>1, <3>2
  <2>4. CASE n # 1
    <3>1. n - 1 \in 1 .. N /\ (n - 1) - 1 = n - 2
      BY <2>2, <2>4
    <3>2. Top(n - 1)
      <4>1. n - 1 \notin Bad
        <5> HIDE DEF Bad
        <5> QED
          BY <2>1, <2>2
      <4> QED
        BY <3>1, <4>1
    <3>3. PICK k \in 0 .. n - 2 : \A i \in 0 .. n - 2 : K[i] <= K[k]
      BY <3>1, <3>2
    <3>4. /\ n - 1 \in 0 .. n - 1 /\ k \in 0 .. n - 1
          /\ n - 1 \in Stations /\ k \in Stations
          /\ K[n - 1] \in Nat /\ K[k] \in Nat
      BY <3>1, <2>2
    <3>5. \A i \in 0 .. n - 1 : K[i] \in Nat /\ (i = n - 1 \/ K[i] <= K[k])
      <4> TAKE i \in 0 .. n - 1
      <4>1. i \in Stations /\ (i = n - 1 \/ i \in 0 .. n - 2)
        BY <2>2
      <4> QED
        BY <4>1, <3>3
    <3> HIDE DEF Top
    <3>6. CASE K[n - 1] <= K[k]
      <4>1. \A i \in 0 .. n - 1 : K[i] <= K[k]
        BY <3>5, <3>6
      <4> QED
        BY <2>2, <3>4, <4>1 DEF Top
    <3>7. CASE K[k] < K[n - 1]
      <4>1. \A i \in 0 .. n - 1 : K[i] <= K[n - 1]
        <5> TAKE i \in 0 .. n - 1
        <5>1. i = n - 1 \/ (K[i] \in Nat /\ K[i] <= K[k])
          BY <3>5
        <5>2. CASE i = n - 1
          <6>1. K[i] = K[n - 1]
            BY <5>2
          <6> QED
            BY <6>1, <3>4
        <5>3. CASE K[i] \in Nat /\ K[i] <= K[k]
          BY <5>3, <3>4, <3>7
        <5> QED
          BY <5>1, <5>2, <5>3
      <4> QED
        BY <2>2, <3>4, <4>1 DEF Top
    <3> QED
      BY <3>4, <3>6, <3>7
  <2> QED
    BY <2>3, <2>4
<1>2. PICK t \in Stations : \A i \in Stations : K[i] <= K[t]
  <2>1. N \in 1 .. N /\ N \notin Bad
    <3> HIDE DEF Bad
    <3> QED
      BY <1>1
  <2>2. Top(N)
    BY <2>1
  <2> QED
    BY <2>2
<1>3. \E k \in {K[i] : i \in Stations} : \A i \in Stations : K[i] <= k
  BY <1>2
<1>4. kmax \in {K[i] : i \in Stations} /\ \A i \in Stations : K[i] <= kmax
  BY <1>3 DEF kmax
<1> QED
  BY <1>4

\* The times: framelets are shorter than delta by what the jitter may add.
LEMMA Times ==
  /\ AirTime \in Nat \ {0} /\ DeafTime \in Nat \ {0} /\ delta \in Nat /\ Jitter \in Nat
  /\ AirTime + DeafTime + (N - 1) * Jitter <= delta
  /\ (N - 1) * Jitter \in Nat
<1>1. N - 1 \in Nat
  BY CountAssumption
<1>2. (N - 1) * Jitter \in Nat
  BY <1>1, TimeAssumption, Products
<1> QED
  BY <1>2, TimeAssumption DEF AirTime, DeafTime, delta

-----------------------------------------------------------------------------
(* Ages of framelets *)

\* a holds the ages of the first r framelets of station i's packet: they are
\* its wait apart, up to the jitter.
Spaced(i, a, r) ==
  \A m1, m2 \in 1 .. r : m1 < m2 =>
    /\ (m2 - m1) * Wait(i) <= a[m1] - a[m2]
    /\ a[m1] - a[m2] <= (m2 - m1) * (Wait(i) + Jitter)

\* A framelet of age x overlapped one of the s framelets whose ages b holds ...
Touch(x, b, s) == \E l \in 1 .. s : x < b[l] + AirTime /\ b[l] < x + DeafTime

\* ... or may have overlapped one of the packet before these.
Gone(x, b, s) == x + DeafTime > WaitEnd + (IF s = 0 THEN 0 ELSE b[1])

\* The distance between two framelets of one packet.
LEMMA Distance ==
  ASSUME NEW i \in Stations, NEW a \in [Framelets -> Nat], NEW r \in 0 .. N,
         Spaced(i, a, r), NEW m1 \in 1 .. r, NEW m2 \in 1 .. r, m1 < m2
  PROVE  /\ m2 - m1 \in 1 .. N - 1
         /\ (m2 - m1) * K[i] \in Nat \ {0}
         /\ ((m2 - m1) * K[i]) * delta <= a[m1] - a[m2]
         /\ a[m1] - a[m2] <= ((m2 - m1) * K[i]) * delta + (N - 1) * Jitter
         /\ ((m2 - m1) * K[i]) * delta <= (kmax * (N - 1)) * delta
<1> DEFINE d == m2 - m1
<1>1. d \in 1 .. N - 1 /\ d \in Nat /\ N - 1 \in Nat /\ d <= N - 1
  BY CountAssumption
<1>2. K[i] \in Nat \ {0}
  BY TableAssumption
<1>3. d * K[i] \in Nat \ {0}
  <2>1. d * K[i] \in Nat
    BY <1>1, <1>2, Products
  <2>2. 1 * K[i] <= d * K[i]
    BY <1>1, <1>2, Products
  <2> QED
    BY <2>1, <2>2, <1>2
<1>4. Wait(i) \in Nat /\ d * Wait(i) = (d * K[i]) * delta
  <2>1. Wait(i) = K[i] * delta /\ Wait(i) \in Nat
    BY <1>2, Times, Products DEF Wait
  <2>2. (d * K[i]) * delta = d * (K[i] * delta)
    BY <1>1, <1>2, Times, Products
  <2> QED
    BY <2>1, <2>2
<1>5. d * (Wait(i) + Jitter) = d * Wait(i) + d * Jitter
  BY <1>1, <1>4, Times, Products
<1>6. d * Jitter <= (N - 1) * Jitter
  BY <1>1, Times, Products
<1>7. (d * K[i]) * delta <= (kmax * (N - 1)) * delta
  <2>1. K[i] <= kmax /\ kmax \in Nat
    BY KmaxBounds
  <2>2. K[i] * d <= kmax * d
    BY <1>1, <1>2, <2>1, Products
  <2>3. d * kmax <= (N - 1) * kmax
    BY <1>1, <2>1, Products
  <2>4. d * K[i] <= kmax * (N - 1) /\ kmax * (N - 1) \in Nat
    <3>1. K[i] * d = d * K[i] /\ d * kmax = kmax * d /\ (N - 1) * kmax = kmax * (N - 1)
      BY <1>1, <1>2, <2>1, Products
    <3>2. kmax * d \in Nat /\ kmax * (N - 1) \in Nat
      BY <1>1, <2>1, Products
    <3> QED
      BY <2>2, <2>3, <3>1, <3>2, <1>3
  <2> QED
    BY <2>4, <1>3, Times, Products
<1>8. /\ d * Wait(i) <= a[m1] - a[m2]
      /\ a[m1] - a[m2] <= d * (Wait(i) + Jitter)
  BY DEF Spaced
<1>9. a[m1] - a[m2] \in Int /\ d * Jitter \in Nat /\ (d * K[i]) * delta \in Nat
  <2>1. m1 \in Framelets /\ m2 \in Framelets
    BY CountAssumption DEF Framelets
  <2> QED
    BY <2>1, <1>1, <1>3, Times, Products
<1> HIDE DEF d
<1>10. a[m1] - a[m2] <= (d * K[i]) * delta + (N - 1) * Jitter
  BY <1>4, <1>5, <1>6, <1>8, <1>9, Times
<1> QED
  BY <1>1, <1>3, <1>4, <1>7, <1>8, <1>10 DEF d

\* No other station hits two framelets of a packet: not the later one with a
\* framelet of its packet and the earlier one with a framelet of the same packet
\* or of one before it.
LEMMA NoSecondHit ==
  ASSUME NEW i \in Stations, NEW j \in Stations, i # j,
         NEW a \in [Framelets -> Nat], NEW b \in [Framelets -> Nat],
         NEW r \in 0 .. N, NEW s \in 0 .. N, Spaced(i, a, r), Spaced(j, b, s),
         NEW m1 \in 1 .. r, NEW m2 \in 1 .. r, m1 < m2,
         Touch(a[m2], b, s), Touch(a[m1], b, s) \/ Gone(a[m1], b, s)
  PROVE  FALSE
<1> DEFINE p == (m2 - m1) * K[i]
           X == (N - 1) * Jitter
           W == (kmax * (N - 1)) * delta
<1>1. /\ p \in Nat \ {0} /\ X \in Nat
      /\ p * delta <= a[m1] - a[m2] /\ a[m1] - a[m2] <= p * delta + X
      /\ p * delta <= W
      /\ delta \in Nat /\ AirTime \in Nat \ {0} /\ DeafTime \in Nat \ {0}
      /\ AirTime + DeafTime + X <= delta
  BY Distance, Times
<1>2. delta <= p * delta /\ p * delta \in Nat
  <2>1. 1 * delta <= p * delta
    BY <1>1, Products
  <2> QED
    BY <2>1, <1>1, Products
<1>3. a[m1] \in Nat /\ a[m2] \in Nat
  BY CountAssumption DEF Framelets
<1>4. W \in Nat /\ WaitEnd = W + delta
  <2>1. kmax * (N - 1) \in Nat
    BY KmaxBounds, CountAssumption, Products
  <2>2. (kmax * (N - 1) + 1) * delta = W + 1 * delta
    BY <2>1, <1>1, Products
  <2> QED
    BY <2>1, <2>2, <1>1, Products DEF WaitEnd
<1>5. PICK l2 \in 1 .. s : a[m2] < b[l2] + AirTime /\ b[l2] < a[m2] + DeafTime
  BY DEF Touch
<1>6. \A l \in 1 .. s : b[l] \in Nat
  BY CountAssumption DEF Framelets
<1> HIDE DEF p, X, W
<1>7. CASE Touch(a[m1], b, s)
  <2>1. PICK l1 \in 1 .. s : a[m1] < b[l1] + AirTime /\ b[l1] < a[m1] + DeafTime
    BY <1>7 DEF Touch
  <2>2. b[l1] \in Nat /\ b[l2] \in Nat
    BY <1>6
  <2>3. CASE l1 < l2
    <3> DEFINE q == (l2 - l1) * K[j]
    <3>1. /\ q \in Nat \ {0}
          /\ q * delta <= b[l1] - b[l2] /\ b[l1] - b[l2] <= q * delta + X
      BY <2>3, Distance DEF X
    <3>2. p # q
      <4>1. m2 - m1 \in 1 .. N - 1 /\ l2 - l1 \in 1 .. N - 1
        BY <2>3, CountAssumption
      <4> QED
        BY <4>1, TableAssumption DEF p
    <3>3. q * delta \in Nat
      BY <3>1, <1>1, Products
    <3> HIDE DEF q
    <3>4. CASE p < q
      <4>1. p * delta + delta <= q * delta
        BY <3>1, <3>4, <1>1, Products
      <4> QED
        BY <4>1, <3>1, <3>3, <2>1, <2>2, <1>1, <1>2, <1>3, <1>5
    <3>5. CASE q < p
      <4>1. q * delta + delta <= p * delta
        BY <3>1, <3>5, <1>1, Products
      <4> QED
        BY <4>1, <3>1, <3>3, <2>1, <2>2, <1>1, <1>2, <1>3, <1>5
    <3> QED
      BY <3>1, <3>2, <3>4, <3>5, <1>1
  <2>4. CASE l1 >= l2
    <3>1. b[l1] <= b[l2]
      <4>1. CASE l1 = l2
        BY <4>1, <2>2
      <4>2. CASE l2 < l1
        <5>1. /\ ((l1 - l2) * K[j]) \in Nat \ {0}
              /\ ((l1 - l2) * K[j]) * delta <= b[l2] - b[l1]
          BY <4>2, Distance
        <5>2. ((l1 - l2) * K[j]) * delta \in Nat
          BY <5>1, <1>1, Products
        <5> QED
          BY <5>1, <5>2, <2>2
      <4> QED
        BY <2>4, <4>1, <4>2
    <3> QED
      BY <3>1, <2>1, <2>2, <1>1, <1>2, <1>3, <1>5
  <2> QED
    BY <2>3, <2>4
<1>8. CASE Gone(a[m1], b, s)
  <2>1. s # 0 /\ a[m1] + DeafTime > WaitEnd + b[1] /\ 1 \in 1 .. s
    BY <1>8, <1>5 DEF Gone
  <2>2. b[1] \in Nat /\ b[l2] \in Nat /\ b[l2] <= b[1]
    <3>1. b[1] \in Nat /\ b[l2] \in Nat
      BY <2>1, <1>6
    <3>2. CASE l2 = 1
      BY <3>1, <3>2
    <3>3. CASE l2 # 1
      <4>1. /\ ((l2 - 1) * K[j]) \in Nat \ {0}
            /\ ((l2 - 1) * K[j]) * delta <= b[1] - b[l2]
        BY <3>3, <2>1, Distance
      <4>2. ((l2 - 1) * K[j]) * delta \in Nat
        BY <4>1, <1>1, Products
      <4> QED
        BY <4>1, <4>2, <3>1
    <3> QED
      BY <3>2, <3>3
  <2> QED
    BY <2>1, <2>2, <1>1, <1>2, <1>3, <1>4, <1>5
<1> QED
  BY <1>7, <1>8

\* Another framelet is started, the wait after the last one.
LEMMA SpacedAgain ==
  ASSUME NEW i \in Stations, NEW a \in [Framelets -> Nat], NEW r \in 0 .. N - 1,
         Spaced(i, a, r), r > 0 => Wait(i) <= a[r] /\ a[r] <= Wait(i) + Jitter
  PROVE  Spaced(i, [a EXCEPT ![r + 1] = 0], r + 1)
<1> DEFINE c == [a EXCEPT ![r + 1] = 0]
<1>1. /\ r \in Nat /\ r + 1 \in Framelets
      /\ c[r + 1] = 0
      /\ \A m \in 1 .. r : m \in Framelets /\ c[m] = a[m] /\ a[m] \in Nat
  BY CountAssumption DEF Framelets
<1>2. Wait(i) \in Nat /\ Wait(i) + Jitter \in Nat
  <2>1. K[i] \in Nat
    BY TableAssumption
  <2> QED
    BY <2>1, Times, Products DEF Wait
<1> HIDE DEF c
<1>3. SUFFICES ASSUME NEW m1 \in 1 .. r + 1, NEW m2 \in 1 .. r + 1, m1 < m2
               PROVE  /\ (m2 - m1) * Wait(i) <= c[m1] - c[m2]
                      /\ c[m1] - c[m2] <= (m2 - m1) * (Wait(i) + Jitter)
  BY DEF Spaced, c
<1>4. CASE m2 # r + 1
  <2>1. m1 \in 1 .. r /\ m2 \in 1 .. r
    BY <1>1, <1>3, <1>4
  <2> QED
    BY <2>1, <1>1, <1>3 DEF Spaced
<1>5. CASE m2 = r + 1
  <2>1. m1 \in 1 .. r /\ r > 0 /\ c[m1] = a[m1] /\ c[m2] = 0 /\ a[m1] \in Nat /\ a[r] \in Nat
    BY <1>1, <1>3, <1>5
  <2>2. CASE m1 = r
    <3>1. m2 - m1 = 1
      BY <1>5, <2>2, <1>1
    <3>2. 1 * Wait(i) = Wait(i) /\ 1 * (Wait(i) + Jitter) = Wait(i) + Jitter
      BY <1>2
    <3> QED
      BY <3>1, <3>2, <2>1, <2>2, <1>2
  <2>3. CASE m1 < r
    <3>1. /\ (r - m1) * Wait(i) <= a[m1] - a[r]
          /\ a[m1] - a[r] <= (r - m1) * (Wait(i) + Jitter)
      BY <2>1, <2>3, <1>1 DEF Spaced
    <3>2. r - m1 \in Nat /\ m2 - m1 = (r - m1) + 1
      BY <2>1, <2>3, <1>5, <1>1
    <3>3. /\ ((r - m1) + 1) * Wait(i) = (r - m1) * Wait(i) + 1 * Wait(i)
          /\ ((r - m1) + 1) * (Wait(i) + Jitter)
               = (r - m1) * (Wait(i) + Jitter) + 1 * (Wait(i) + Jitter)
          /\ (r - m1) * Wait(i) \in Nat /\ (r - m1) * (Wait(i) + Jitter) \in Nat
      BY <3>2, <1>2, Products
    <3> QED
      BY <3>1, <3>2, <3>3, <2>1, <1>2
  <2> QED
    BY <2>1, <2>2, <2>3, <1>1
<1> QED
  BY <1>4, <1>5

\* Witnesses of hits stay while the other station starts framelet s + 1 ...
LEMMA WitnessAgain ==
  ASSUME NEW x \in Nat, NEW b \in [Framelets -> Nat], NEW s \in 0 .. N - 1,
         Touch(x, b, s) \/ Gone(x, b, s)
  PROVE  LET c == [b EXCEPT ![s + 1] = 0]
         IN  Touch(x, c, s + 1) \/ Gone(x, c, s + 1)
<1> DEFINE c == [b EXCEPT ![s + 1] = 0]
<1>1. /\ s \in Nat /\ s + 1 \in 1 .. s + 1 /\ c[s + 1] = 0
      /\ \A l \in 1 .. s : l \in 1 .. s + 1 /\ c[l] = b[l] /\ b[l] \in Nat
  BY CountAssumption DEF Framelets
<1> HIDE DEF c
<1>2. CASE Touch(x, b, s)
  BY <1>1, <1>2 DEF Touch
<1>3. CASE Gone(x, b, s)
  <2>1. CASE s = 0
    <3>1. s + 1 # 0 /\ c[1] = 0
      <4>1. s + 1 = 1
        BY <2>1
      <4> QED
        BY <4>1, <1>1
    <3>2. x + DeafTime > WaitEnd + 0
      <4>1. (IF s = 0 THEN 0 ELSE b[1]) = 0
        BY <2>1
      <4> QED
        BY <4>1, <1>3 DEF Gone
    <3>3. (IF s + 1 = 0 THEN 0 ELSE c[1]) = 0
      BY <3>1
    <3>4. Gone(x, c, s + 1)
      BY <3>2, <3>3 DEF Gone
    <3> QED
      BY <3>4 DEF c
  <2>2. CASE s # 0
    <3>1. s + 1 # 0 /\ c[1] = b[1]
      BY <1>1, <2>2
    <3> QED
      BY <3>1, <1>3, <2>2 DEF Gone
  <2> QED
    BY <2>1, <2>2
<1> QED
  BY <1>2, <1>3 DEF c

\* ... and while it finishes its packet.
LEMMA WitnessFinish ==
  ASSUME NEW j \in Stations, NEW x \in Nat, NEW b \in [Framelets -> Nat],
         Spaced(j, b, N), b[N] >= WaitEnd, NEW c,
         Touch(x, b, N) \/ Gone(x, b, N)
  PROVE  Gone(x, c, 0)
<1>1. WaitEnd \in Nat /\ AirTime \in Nat /\ DeafTime \in Nat /\ N \in Nat /\ N # 0
  <2>1. kmax * (N - 1) \in Nat
    BY KmaxBounds, CountAssumption, Products
  <2> QED
    BY <2>1, CountAssumption, Times, Products DEF WaitEnd
<1>2. \A l \in 1 .. N : b[l] \in Nat
  BY DEF Framelets
<1>3. CASE Touch(x, b, N)
  <2>1. PICK l \in 1 .. N : x < b[l] + AirTime /\ b[l] < x + DeafTime
    BY <1>3 DEF Touch
  <2>2. b[l] >= b[N]
    <3>1. CASE l = N
      BY <3>1, <1>1, <1>2
    <3>2. CASE l < N
      <4>1. N \in 0 .. N /\ N \in 1 .. N
        BY <1>1
      <4>2. /\ ((N - l) * K[j]) \in Nat \ {0}
            /\ ((N - l) * K[j]) * delta <= b[l] - b[N]
        BY <4>1, <3>2, Distance
      <4>3. ((N - l) * K[j]) * delta \in Nat
        BY <4>2, Times, Products
      <4> QED
        BY <4>1, <4>2, <4>3, <1>2
    <3> QED
      BY <3>1, <3>2, <1>1
  <2> QED
    BY <2>1, <2>2, <1>1, <1>2 DEF Gone
<1>4. CASE Gone(x, b, N)
  <2>1. b[1] \in Nat
    BY <1>1, <1>2
  <2> QED
    BY <2>1, <1>4, <1>1 DEF Gone
<1> QED
  BY <1>3, <1>4

-----------------------------------------------------------------------------
(* The inductive invariant *)

\* Every hit has a witness in the ages of the station that hit.
Witnessed ==
  \A i \in Stations : \A m \in Framelets : \A j \in hit[i][m] :
    /\ m <= rep[i] /\ j # i
    /\ \/ Touch(age[i][m], age[j], rep[j])
       \/ Gone(age[i][m], age[j], rep[j])

\* No station that has another framelet to send is later than the jitter.
InTime == \A i \in Stations : state[i] = "SEND" => Last(i) <= Wait(i) + Jitter

AllSpaced == \A i \in Stations : Spaced(i, age[i], rep[i])

IInv == TypeOK /\ AllSpaced /\ InTime /\ Witnessed /\ NoDoubleHit

\* The invariant holds initially.
LEMMA InitIInv == Init => IInv
<1> SUFFICES ASSUME Init PROVE IInv
  OBVIOUS
<1> USE DEF Init
<1>1. TypeOK
  BY CountAssumption DEF TypeOK
<1>2. AllSpaced
  BY DEF AllSpaced, Spaced
<1>3. InTime
  BY DEF InTime
<1>4. Witnessed /\ NoDoubleHit
  BY DEF Witnessed, NoDoubleHit
<1> QED
  BY <1>1, <1>2, <1>3, <1>4 DEF IInv

\* A station starts its next framelet.
LEMMA TransmitKeeps ==
  ASSUME IInv, NEW i \in Stations, state[i] # "WAIT_END",
         rep[i] > 0 => Wait(i) <= Last(i) /\ Last(i) <= Wait(i) + Jitter,
         Transmit(i, rep[i] + 1)
  PROVE  IInv'
<1> DEFINE n == rep[i] + 1
<1>1. TypeOK /\ AllSpaced /\ InTime /\ Witnessed /\ NoDoubleHit
  BY DEF IInv
<1>2. /\ rep \in [Stations -> 0 .. N] /\ age \in [Stations -> [Framelets -> Nat]]
      /\ rep[i] \in 0 .. N - 1 /\ n \in Framelets /\ n > 0 /\ n \in 0 .. N
  <2>1. rep[i] \in 0 .. N /\ rep[i] # N
    BY <1>1 DEF TypeOK
  <2> QED
    BY <1>1, <2>1, CountAssumption DEF TypeOK, Framelets
<1>3. /\ rep'[i] = n /\ age'[i] = [age[i] EXCEPT ![n] = 0] /\ age'[i][n] = 0
      /\ \A j \in Stations \ {i} : rep'[j] = rep[j] /\ age'[j] = age[j]
  BY <1>2 DEF Transmit
<1>4. AirTime \in Nat \ {0} /\ DeafTime \in Nat \ {0} /\ AirTime <= DeafTime
  BY Times, TimeAssumption DEF AirTime, DeafTime
<1>5. TypeOK'
  <2>1. state' \in [Stations -> {"IDLE", "SEND", "WAIT_END"}]
    BY <1>1 DEF TypeOK, Transmit
  <2>2. rep' \in [Stations -> 0 .. N]
    BY <1>1, <1>2 DEF TypeOK, Transmit
  <2>3. age' \in [Stations -> [Framelets -> Nat]]
    BY <1>1, <1>2 DEF TypeOK, Transmit
  <2>4. hit' \in [Stations -> [Framelets -> SUBSET Stations]]
    <3>1. Deaf(i) \in SUBSET Stations
      BY DEF Deaf
    <3>2. hit' = [j \in Stations |-> hit'[j]]
      BY DEF Transmit
    <3>3. ASSUME NEW j \in Stations PROVE hit'[j] \in [Framelets -> SUBSET Stations]
      <4>1. hit[j] \in [Framelets -> SUBSET Stations]
        BY <1>1 DEF TypeOK
      <4>2. CASE j = i
        <5>1. hit'[j] = [hit[i] EXCEPT ![n] = Deaf(i)]
          BY <4>2 DEF Transmit, Busy
        <5> QED
          BY <5>1, <4>1, <4>2, <3>1
      <4>3. CASE j # i /\ j \in Busy(i)
        <5>1. hit'[j] = [hit[j] EXCEPT ![rep[j]] = @ \cup {i}]
          BY <4>3 DEF Transmit
        <5>2. rep[j] \in Framelets
          BY <4>3, <1>2, CountAssumption DEF Busy, Framelets
        <5> QED
          BY <5>1, <5>2, <4>1
      <4>4. CASE j # i /\ j \notin Busy(i)
        BY <4>1, <4>4 DEF Transmit
      <4> QED
        BY <4>2, <4>3, <4>4
    <3> QED
      BY <3>2, <3>3
  <2>5. ASSUME NEW j \in Stations
        PROVE  (rep[j] = 0 <=> state[j] = "IDLE")' /\ (rep[j] = N <=> state[j] = "WAIT_END")'
    <3>1. CASE j = i
      <4>1. state'[j] = IF n = N THEN "WAIT_END" ELSE "SEND"
        BY <3>1, <1>1 DEF Transmit, TypeOK
      <4> QED
        BY <4>1, <3>1, <1>2, <1>3, CountAssumption
    <3>2. CASE j # i
      BY <3>2, <1>1, <1>3 DEF Transmit, TypeOK
    <3> QED
      BY <3>1, <3>2
  <2> QED
    BY <2>1, <2>2, <2>3, <2>4, <2>5 DEF TypeOK
<1>6. AllSpaced'
  <2>1. Spaced(i, age'[i], rep'[i])
    <3>1. Spaced(i, age[i], rep[i]) /\ age[i] \in [Framelets -> Nat]
      BY <1>1, <1>2 DEF AllSpaced
    <3>2. rep[i] > 0 => Wait(i) <= age[i][rep[i]] /\ age[i][rep[i]] <= Wait(i) + Jitter
      BY DEF Last
    <3>3. Spaced(i, [age[i] EXCEPT ![rep[i] + 1] = 0], rep[i] + 1)
      <4> HIDE DEF n
      <4> QED
        BY <3>1, <3>2, <1>2, SpacedAgain
    <3> QED
      BY <3>3, <1>3
  <2>2. ASSUME NEW j \in Stations \ {i} PROVE Spaced(j, age'[j], rep'[j])
    BY <1>1, <1>3 DEF AllSpaced
  <2> QED
    BY <2>1, <2>2 DEF AllSpaced, Spaced
<1>7. InTime'
  <2>1. \A j \in Stations : Wait(j) + Jitter \in Nat
    <3>1. \A j \in Stations : Wait(j) \in Nat
      BY TableAssumption, Times, Products DEF Wait
    <3> QED
      BY <3>1, Times
  <2>2. age'[i][rep'[i]] <= Wait(i) + Jitter
    BY <2>1, <1>3
  <2>3. ASSUME NEW j \in Stations \ {i}, state'[j] = "SEND"
        PROVE  age'[j][rep'[j]] <= Wait(j) + Jitter
    BY <2>3, <1>1, <1>3 DEF InTime, Last, Transmit, TypeOK
  <2> QED
    BY <2>2, <2>3 DEF InTime, Last, Wait
<1>8. ASSUME NEW x \in Stations, NEW l \in Framelets, NEW j \in hit'[x][l]
      PROVE  \/ j \in hit[x][l] /\ ~ (x = i /\ l = n)
             \/ x = i /\ l = n /\ j \in Deaf(i)
             \/ x \in Busy(i) /\ l = rep[x] /\ j = i /\ x # i
  <2>0. hit[x] \in [Framelets -> SUBSET Stations]
    BY <1>1 DEF TypeOK
  <2>1. CASE x = i
    <3>1. hit'[x] = [hit[i] EXCEPT ![n] = Deaf(i)]
      BY <2>1 DEF Transmit, Busy
    <3> QED
      BY <3>1, <2>0, <2>1, <1>2
  <2>2. CASE x # i /\ x \in Busy(i)
    <3>1. hit'[x] = [hit[x] EXCEPT ![rep[x]] = @ \cup {i}]
      BY <2>2 DEF Transmit
    <3> QED
      BY <3>1, <2>0, <2>2
  <2>3. CASE x # i /\ x \notin Busy(i)
    BY <2>3 DEF Transmit
  <2> QED
    BY <2>1, <2>2, <2>3
<1>9. ASSUME NEW x \in Stations, NEW l \in Framelets, NEW j \in hit'[x][l],
             ~ (j \in hit[x][l] /\ ~ (x = i /\ l = n))
      PROVE  /\ j \in Stations /\ j # x /\ l = rep'[x]
             /\ Touch(age'[x][l], age'[j], rep'[j])
  <2>1. CASE x = i /\ l = n /\ j \in Deaf(i)
    <3>1. j \in Stations \ {i} /\ rep[j] > 0 /\ age[j][rep[j]] < DeafTime
      BY <2>1 DEF Deaf, Last
    <3>2. rep[j] \in 1 .. rep[j] /\ rep[j] \in Framelets /\ age[j][rep[j]] \in Nat
      <4>1. rep[j] \in 0 .. N /\ age[j] \in [Framelets -> Nat]
        BY <3>1, <1>2
      <4>2. rep[j] \in 1 .. rep[j] /\ rep[j] \in Framelets
        BY <4>1, <3>1, CountAssumption DEF Framelets
      <4> QED
        BY <4>1, <4>2
    <3>3. age'[x][l] = 0 /\ l = rep'[x] /\ age'[j] = age[j] /\ rep'[j] = rep[j]
      BY <2>1, <3>1, <1>3
    <3>4. 0 < age[j][rep[j]] + AirTime /\ age[j][rep[j]] < 0 + DeafTime
      BY <3>1, <3>2, <1>4
    <3> QED
      BY <3>1, <3>2, <3>3, <3>4, <2>1 DEF Touch
  <2>2. CASE x \in Busy(i) /\ l = rep[x] /\ j = i /\ x # i
    <3>1. age[x][rep[x]] < AirTime /\ age[x][rep[x]] \in Nat
      BY <2>2, <1>2 DEF Busy, Last
    <3>2. age'[x] = age[x] /\ rep'[x] = rep[x] /\ rep'[j] = n /\ age'[j][n] = 0 /\ n \in 1 .. n
      BY <2>2, <1>2, <1>3
    <3>3. age[x][rep[x]] < 0 + AirTime /\ 0 < age[x][rep[x]] + DeafTime
      BY <3>1, <1>4
    <3> QED
      BY <3>2, <3>3, <2>2 DEF Touch
  <2> QED
    BY <1>8, <1>9, <2>1, <2>2
<1>10. ASSUME NEW x \in Stations, NEW l \in Framelets, NEW j \in hit'[x][l]
       PROVE  /\ l <= rep'[x] /\ j # x
              /\ \/ Touch(age'[x][l], age'[j], rep'[j])
                 \/ Gone(age'[x][l], age'[j], rep'[j])
  <2>1. CASE ~ (j \in hit[x][l] /\ ~ (x = i /\ l = n))
    <3>1. l = rep'[x] /\ rep'[x] \in 0 .. N
      BY <1>9, <2>1, <1>5 DEF TypeOK
    <3> QED
      BY <3>1, <1>9, <2>1
  <2>2. CASE j \in hit[x][l] /\ ~ (x = i /\ l = n)
    <3>1. /\ l <= rep[x] /\ j # x /\ j \in Stations
          /\ \/ Touch(age[x][l], age[j], rep[j])
             \/ Gone(age[x][l], age[j], rep[j])
      BY <1>1, <2>2 DEF Witnessed, TypeOK
    <3>2. age'[x][l] = age[x][l] /\ age[x][l] \in Nat
      <4>1. CASE x = i
        BY <4>1, <2>2, <1>2, <1>3
      <4>2. CASE x # i
        BY <4>2, <1>2, <1>3
      <4> QED
        BY <4>1, <4>2
    <3>3. l <= rep'[x]
      <4>1. CASE x = i
        <5>1. l \in Nat /\ l <= rep[i] /\ rep'[x] = rep[i] + 1 /\ rep[i] \in Nat
          BY <4>1, <3>1, <1>2, <1>3 DEF Framelets
        <5> QED
          BY <5>1
      <4>2. CASE x # i
        BY <4>2, <3>1, <1>3
      <4> QED
        BY <4>1, <4>2
    <3>4. CASE j = i
      <4>1. \/ Touch(age[x][l], [age[i] EXCEPT ![rep[i] + 1] = 0], rep[i] + 1)
            \/ Gone(age[x][l], [age[i] EXCEPT ![rep[i] + 1] = 0], rep[i] + 1)
        BY <3>1, <3>2, <3>4, <1>2, WitnessAgain
      <4> QED
        BY <4>1, <3>1, <3>2, <3>3, <3>4, <1>3
    <3>5. CASE j # i
      BY <3>1, <3>2, <3>3, <3>5, <1>3
    <3> QED
      BY <3>4, <3>5
  <2> QED
    BY <2>1, <2>2
<1>11. Witnessed'
  BY <1>10 DEF Witnessed, Touch, Gone
<1>12. NoDoubleHit'
  <2>1. ASSUME NEW x \in Stations, NEW l1 \in Framelets, NEW l2 \in Framelets, l1 < l2,
               NEW j \in hit'[x][l1] \cap hit'[x][l2]
        PROVE  FALSE
    <3>1. /\ x \in Stations /\ j \in Stations /\ x # j
          /\ age'[x] \in [Framelets -> Nat] /\ age'[j] \in [Framelets -> Nat]
          /\ rep'[x] \in 0 .. N /\ rep'[j] \in 0 .. N
          /\ Spaced(x, age'[x], rep'[x]) /\ Spaced(j, age'[j], rep'[j])
      <4>1. j \in Stations
        BY <1>5 DEF TypeOK
      <4> QED
        BY <4>1, <1>5, <1>6, <1>10 DEF TypeOK, AllSpaced, Spaced
    <3>2. l1 \in 1 .. rep'[x] /\ l2 \in 1 .. rep'[x]
      BY <1>10, <3>1 DEF Framelets
    <3>3. Touch(age'[x][l1], age'[j], rep'[j]) \/ Gone(age'[x][l1], age'[j], rep'[j])
      BY <1>10
    <3>4. Touch(age'[x][l2], age'[j], rep'[j])
      <4>1. CASE ~ (j \in hit[x][l2] /\ ~ (x = i /\ l2 = n))
        BY <4>1, <1>9
      <4>2. CASE ~ (j \in hit[x][l1] /\ ~ (x = i /\ l1 = n))
        <5>1. l1 = rep'[x]
          BY <4>2, <1>9
        <5> QED
          BY <5>1, <3>1, <3>2, <2>1
      <4>3. CASE j \in hit[x][l1] /\ j \in hit[x][l2]
        BY <4>3, <2>1, <1>1 DEF NoDoubleHit, Framelets
      <4> QED
        BY <4>1, <4>2, <4>3
    <3> HIDE DEF n
    <3> QED
      BY <2>1, <3>1, <3>2, <3>3, <3>4, NoSecondHit
  <2>2. ASSUME NEW x \in Stations, NEW l1 \in Framelets, NEW l2 \in Framelets, l1 # l2,
               NEW j \in hit'[x][l1] \cap hit'[x][l2]
        PROVE  FALSE
    <3>1. l1 < l2 \/ l2 < l1
      BY <2>2 DEF Framelets
    <3> QED
      BY <3>1, <2>1
  <2> QED
    BY <2>2 DEF NoDoubleHit
<1> QED
  BY <1>5, <1>6, <1>7, <1>11, <1>12 DEF IInv

\* A station becomes idle: what its packet hit it has hit before its next one.
LEMMA FinishKeeps ==
  ASSUME IInv, NEW i \in Stations, Finish(i)
  PROVE  IInv'
<1>1. TypeOK /\ AllSpaced /\ InTime /\ Witnessed /\ NoDoubleHit
  BY DEF IInv
<1>2. rep[i] = N /\ age[i][N] >= WaitEnd /\ age[i] \in [Framelets -> Nat] /\ Spaced(i, age[i], N)
  BY <1>1 DEF Finish, TypeOK, Last, AllSpaced
<1>3. /\ rep'[i] = 0 /\ state'[i] = "IDLE" /\ hit'[i] = [m \in Framelets |-> {}]
      /\ \A j \in Stations \ {i} : /\ rep'[j] = rep[j] /\ age'[j] = age[j]
                                   /\ hit'[j] = hit[j] /\ state'[j] = state[j]
  BY <1>1 DEF Finish, TypeOK
<1>4. TypeOK'
  <2>1. /\ state' \in [Stations -> {"IDLE", "SEND", "WAIT_END"}]
        /\ rep' \in [Stations -> 0 .. N]
    BY <1>1, CountAssumption DEF Finish, TypeOK
  <2>2. age' \in [Stations -> [Framelets -> Nat]]
    BY <1>1 DEF Finish, TypeOK
  <2>3. hit' \in [Stations -> [Framelets -> SUBSET Stations]]
    BY <1>1 DEF Finish, TypeOK
  <2>4. ASSUME NEW j \in Stations
        PROVE  (rep[j] = 0 <=> state[j] = "IDLE")' /\ (rep[j] = N <=> state[j] = "WAIT_END")'
    BY <1>1, <1>3, CountAssumption DEF TypeOK
  <2> QED
    BY <2>1, <2>2, <2>3, <2>4 DEF TypeOK
<1>5. AllSpaced'
  <2>1. Spaced(i, age'[i], rep'[i])
    BY <1>3 DEF Spaced
  <2>2. ASSUME NEW j \in Stations \ {i} PROVE Spaced(j, age'[j], rep'[j])
    BY <1>1, <1>3 DEF AllSpaced
  <2> QED
    BY <2>1, <2>2 DEF AllSpaced, Spaced
<1>6. InTime'
  BY <1>1, <1>3 DEF InTime, Last, Wait
<1>7. Witnessed'
  <2>1. ASSUME NEW x \in Stations, NEW m \in Framelets, NEW j \in hit'[x][m]
        PROVE  /\ m <= rep'[x] /\ j # x
               /\ \/ Touch(age'[x][m], age'[j], rep'[j])
                  \/ Gone(age'[x][m], age'[j], rep'[j])
    <3>1. x # i /\ j \in hit[x][m]
      BY <1>3
    <3>2. /\ m <= rep[x] /\ j # x /\ j \in Stations /\ age[x][m] \in Nat
          /\ \/ Touch(age[x][m], age[j], rep[j])
             \/ Gone(age[x][m], age[j], rep[j])
          /\ rep'[x] = rep[x] /\ age'[x] = age[x]
      <4>1. hit[x] \in [Framelets -> SUBSET Stations] /\ age[x] \in [Framelets -> Nat]
        BY <1>1 DEF TypeOK
      <4>2. j \in Stations /\ age[x][m] \in Nat
        BY <4>1, <3>1
      <4> QED
        BY <4>2, <3>1, <1>1, <1>3 DEF Witnessed
    <3>3. CASE j = i
      <4>1. Gone(age[x][m], age'[i], 0)
        BY <3>2, <3>3, <1>2, WitnessFinish
      <4> QED
        BY <4>1, <3>2, <3>3, <1>3
    <3>4. CASE j # i
      BY <3>2, <3>4, <1>3
    <3> QED
      BY <3>3, <3>4
  <2> QED
    BY <2>1 DEF Witnessed, Touch, Gone
<1>8. NoDoubleHit'
  BY <1>1, <1>3 DEF NoDoubleHit
<1> QED
  BY <1>4, <1>5, <1>6, <1>7, <1>8 DEF IInv

\* All framelets grow older together.
LEMMA TickKeeps ==
  ASSUME IInv, Tick
  PROVE  IInv'
<1>1. TypeOK /\ AllSpaced /\ InTime /\ Witnessed /\ NoDoubleHit
  BY DEF IInv
<1>2. state' = state /\ rep' = rep /\ hit' = hit
  BY DEF Tick
<1>3. /\ age' \in [Stations -> [Framelets -> Nat]]
      /\ \A i \in Stations : /\ rep[i] \in 0 .. N
                             /\ \A m \in 1 .. rep[i] : /\ m \in Framelets
                                                       /\ age[i][m] \in Nat
                                                       /\ age'[i][m] = age[i][m] + 1
  BY <1>1, CountAssumption DEF Tick, TypeOK, Framelets
<1>4. TypeOK'
  BY <1>1, <1>2, <1>3 DEF TypeOK
<1>5. AllSpaced'
  <2>1. ASSUME NEW i \in Stations, NEW m1 \in 1 .. rep[i], NEW m2 \in 1 .. rep[i], m1 < m2
        PROVE  /\ (m2 - m1) * Wait(i) <= age'[i][m1] - age'[i][m2]
               /\ age'[i][m1] - age'[i][m2] <= (m2 - m1) * (Wait(i) + Jitter)
    <3>1. /\ (m2 - m1) * Wait(i) <= age[i][m1] - age[i][m2]
          /\ age[i][m1] - age[i][m2] <= (m2 - m1) * (Wait(i) + Jitter)
      BY <2>1, <1>1 DEF AllSpaced, Spaced
    <3>2. age'[i][m1] - age'[i][m2] = age[i][m1] - age[i][m2]
      <4>1. /\ age[i][m1] \in Nat /\ age'[i][m1] = age[i][m1] + 1
            /\ age[i][m2] \in Nat /\ age'[i][m2] = age[i][m2] + 1
        BY <1>3
      <4> QED
        BY <4>1
    <3> QED
      BY <3>1, <3>2
  <2> QED
    BY <2>1, <1>2 DEF AllSpaced, Spaced, Wait
<1>6. InTime'
  <2>1. ASSUME NEW i \in Stations, state[i] = "SEND"
        PROVE  age'[i][rep[i]] <= Wait(i) + Jitter
    <3>1. age[i][rep[i]] < Wait(i) + Jitter
      BY <2>1 DEF Tick, Last
    <3>2. rep[i] \in 1 .. rep[i]
      BY <2>1, <1>1, <1>3 DEF TypeOK
    <3>3. Wait(i) + Jitter \in Nat
      <4>1. Wait(i) \in Nat
        BY TableAssumption, Times, Products DEF Wait
      <4> QED
        BY <4>1, Times
    <3> QED
      BY <3>1, <3>2, <3>3, <1>3
  <2> QED
    BY <2>1, <1>2 DEF InTime, Last, Wait
<1>7. Witnessed'
  <2>1. ASSUME NEW x \in Stations, NEW m \in Framelets, NEW j \in hit[x][m]
        PROVE  /\ m <= rep[x] /\ j # x
               /\ \/ Touch(age'[x][m], age'[j], rep[j])
                  \/ Gone(age'[x][m], age'[j], rep[j])
    <3>1. /\ m <= rep[x] /\ j # x /\ j \in Stations /\ m \in 1 .. rep[x]
          /\ \/ Touch(age[x][m], age[j], rep[j])
             \/ Gone(age[x][m], age[j], rep[j])
      <4>1. hit[x] \in [Framelets -> SUBSET Stations] /\ rep[x] \in 0 .. N
        BY <1>1 DEF TypeOK
      <4>2. j \in Stations
        BY <4>1, <2>1
      <4>3. /\ m <= rep[x] /\ j # x
            /\ \/ Touch(age[x][m], age[j], rep[j])
               \/ Gone(age[x][m], age[j], rep[j])
        BY <2>1, <1>1 DEF Witnessed
      <4> QED
        BY <4>1, <4>2, <4>3 DEF Framelets
    <3>2. age[x][m] \in Nat /\ age'[x][m] = age[x][m] + 1 /\ AirTime \in Nat /\ DeafTime \in Nat
      BY <3>1, <1>3, Times
    <3>3. CASE Touch(age[x][m], age[j], rep[j])
      <4>1. PICK l \in 1 .. rep[j] : /\ age[x][m] < age[j][l] + AirTime
                                     /\ age[j][l] < age[x][m] + DeafTime
        BY <3>3 DEF Touch
      <4>2. age[j][l] \in Nat /\ age'[j][l] = age[j][l] + 1
        BY <3>1, <1>3
      <4>3. age'[x][m] < age'[j][l] + AirTime /\ age'[j][l] < age'[x][m] + DeafTime
        BY <4>1, <4>2, <3>2
      <4> QED
        BY <4>3, <3>1 DEF Touch
    <3>4. CASE Gone(age[x][m], age[j], rep[j])
      <4>1. WaitEnd \in Nat
        <5>1. kmax * (N - 1) \in Nat
          BY KmaxBounds, CountAssumption, Products
        <5> QED
          BY <5>1, Times, Products DEF WaitEnd
      <4>2. CASE rep[j] = 0
        BY <4>1, <4>2, <3>1, <3>2, <3>4 DEF Gone
      <4>3. CASE rep[j] # 0
        <5>1. age[j][1] \in Nat /\ age'[j][1] = age[j][1] + 1
          <6>1. 1 \in 1 .. rep[j]
            BY <4>3, <3>1, <1>3
          <6> QED
            BY <6>1, <3>1, <1>3
        <5> QED
          BY <5>1, <4>1, <4>3, <3>1, <3>2, <3>4 DEF Gone
      <4> QED
        BY <4>2, <4>3
    <3> QED
      BY <3>1, <3>3, <3>4
  <2> QED
    BY <2>1, <1>2 DEF Witnessed, Touch, Gone
<1>8. NoDoubleHit'
  BY <1>1, <1>2 DEF NoDoubleHit
<1> QED
  BY <1>4, <1>5, <1>6, <1>7, <1>8 DEF IInv

\* Every step keeps the invariant.
LEMMA NextIInv == IInv /\ [Next]_vars => IInv'
<1> SUFFICES ASSUME IInv, [Next]_vars PROVE IInv'
  OBVIOUS
<1>1. TypeOK /\ InTime
  BY DEF IInv
<1>2. CASE \E i \in Stations : Send(i)
  <2>1. PICK i \in Stations : Send(i)
    BY <1>2
  <2>2. rep[i] = 0 /\ state[i] # "WAIT_END" /\ ~ (rep[i] > 0)
    BY <2>1, <1>1 DEF Send, TypeOK
  <2>3. Transmit(i, rep[i] + 1)
    BY <2>1, <2>2 DEF Send
  <2> QED
    BY <2>2, <2>3, TransmitKeeps
<1>3. CASE \E i \in Stations : Again(i)
  <2>1. PICK i \in Stations : Again(i)
    BY <1>3
  <2>2. state[i] # "WAIT_END" /\ Wait(i) <= Last(i) /\ Last(i) <= Wait(i) + Jitter
    <3>1. Last(i) >= Wait(i) /\ state[i] = "SEND"
      BY <2>1 DEF Again
    <3> QED
      BY <3>1, <1>1 DEF InTime
  <2> QED
    BY <2>1, <2>2, TransmitKeeps DEF Again
<1>4. CASE \E i \in Stations : Finish(i)
  BY <1>4, FinishKeeps
<1>5. CASE Tick
  BY <1>5, TickKeeps
<1>6. CASE UNCHANGED vars
  BY <1>6 DEF vars, IInv, TypeOK, AllSpaced, InTime, Witnessed, NoDoubleHit, Spaced, Touch, Gone, Last, Wait
<1> QED
  BY <1>2, <1>3, <1>4, <1>5, <1>6 DEF Next

\* The invariant holds in every state.
LEMMA Invariance == Spec => []IInv
<1> QED
  BY InitIInv, NextIInv, PTL DEF Spec

-----------------------------------------------------------------------------
(* Theorems *)

\* The stations' variables keep their types; repetition and fm->state agree.
THEOREM TypeCorrect == Spec => []TypeOK
<1>1. IInv => TypeOK
  BY DEF IInv
<1> QED
  BY <1>1, Invariance, PTL

\* The spacing chosen by the optimalK table keeps every other station from
\* disturbing two framelets of one packet.
THEOREM AtMostOneHit == Spec => []NoDoubleHit
<1>1. IInv => NoDoubleHit
  BY DEF IInv
<1> QED
  BY <1>1, Invariance, PTL

\* N framelets and N - 1 other stations, each of which hits at most one.
LEMMA Counting ==
  ASSUME TypeOK, Witnessed, NoDoubleHit, NEW i \in Stations
  PROVE  \E m \in Framelets : hit[i][m] = {}
<1> SUFFICES ASSUME \A m \in Framelets : hit[i][m] # {} PROVE FALSE
  OBVIOUS
<1> DEFINE Others == Stations \ {i}
           f == [m \in Framelets |-> CHOOSE j \in Others : j \in hit[i][m]]
<1>1. \A m \in Framelets : f[m] \in Others /\ f[m] \in hit[i][m]
  <2> TAKE m \in Framelets
  <2>1. PICK j : j \in hit[i][m]
    OBVIOUS
  <2>2. j \in Others
    BY <2>1 DEF Witnessed, TypeOK
  <2>3. f[m] = CHOOSE j2 \in Others : j2 \in hit[i][m]
    OBVIOUS
  <2> HIDE DEF f, Others
  <2> QED
    BY <2>1, <2>2, <2>3
<1>2. f \in [Framelets -> Others]
  <2>1. f = [m \in Framelets |-> f[m]]
    OBVIOUS
  <2> HIDE DEF f, Others
  <2> QED
    BY <2>1, <1>1
<1>3. IsFiniteSet(Framelets) /\ Cardinality(Framelets) = N
  <2>1. N \in Int /\ N >= 1
    BY CountAssumption
  <2> QED
    BY <2>1, FS_Interval DEF Framelets
<1>4. IsFiniteSet(Others) /\ Cardinality(Others) = N - 1
  <2>1. IsFiniteSet(Stations) /\ Cardinality(Stations) = N
    <3>1. 0 \in Int /\ N - 1 \in Int /\ (N - 1) - 0 + 1 = N /\ ~ (0 > N - 1)
      BY CountAssumption
    <3> QED
      BY <3>1, FS_Interval DEF Stations
  <2> QED
    BY <2>1, FS_RemoveElement
<1> HIDE DEF f, Others
<1>5. \E m1, m2 \in Framelets : m1 # m2 /\ f[m1] = f[m2]
  <2>1. Cardinality(Others) < Cardinality(Framelets)
    BY <1>3, <1>4, CountAssumption
  <2> QED
    BY <2>1, <1>2, <1>3, <1>4, FS_PigeonHole
<1> QED
  BY <1>1, <1>5 DEF NoDoubleHit

\* The promise of f-MAC, for any number of stations with a valid table: when
\* fm->n framelets have been sent, one of them met no other framelet.
THEOREM SomeFrameletGetsThrough == Spec => []OneFrameletGetsThrough
<1>1. IInv => OneFrameletGetsThrough
  BY Counting DEF IInv, OneFrameletGetsThrough
<1> QED
  BY <1>1, Invariance, PTL

-----------------------------------------------------------------------------
(* Refinement *)

\* What station j's others have received of it, and whether it sends.
Got(j) == Received(j) # {}
Active(j) == state[j] # "IDLE"

\* A framelet that starts changes nothing about those that have left the air.
LEMMA TransmitReceived ==
  ASSUME IInv, NEW i \in Stations, state[i] # "WAIT_END", Transmit(i, rep[i] + 1),
         NEW j \in Stations
  PROVE  Received(j)' = Received(j)
<1> DEFINE n == rep[i] + 1
<1>1. /\ rep \in [Stations -> 0 .. N] /\ age \in [Stations -> [Framelets -> Nat]]
      /\ hit \in [Stations -> [Framelets -> SUBSET Stations]]
      /\ rep[i] \in 0 .. N - 1 /\ n \in Framelets /\ AirTime \in Nat \ {0}
  <2>1. TypeOK
    BY DEF IInv
  <2>2. rep[i] \in 0 .. N /\ rep[i] # N
    BY <2>1 DEF TypeOK
  <2>3. N \in Nat
    BY CountAssumption
  <2>4. rep[i] \in 0 .. N - 1 /\ n \in Framelets
    BY <2>2, <2>3 DEF Framelets
  <2> QED
    BY <2>1, <2>4, Times DEF TypeOK
<1>2. CASE j = i
  <2>1. rep'[i] = n /\ age'[i] = [age[i] EXCEPT ![n] = 0]
    BY <1>1 DEF Transmit
  <2>2. hit'[i] = [hit[i] EXCEPT ![n] = Deaf(i)]
    BY DEF Transmit, Busy
  <2>3. ASSUME NEW m \in 1 .. rep[i]
        PROVE  age'[i][m] = age[i][m] /\ hit'[i][m] = hit[i][m]
    <3>1. m \in Framelets /\ m # n
      BY <1>1, CountAssumption DEF Framelets
    <3> QED
      BY <3>1, <2>1, <2>2, <1>1
  <2>4. age'[i][n] = 0 /\ ~ (0 >= AirTime)
    BY <2>1, <1>1
  <2>5. ASSUME NEW m PROVE m \in 1 .. n <=> (m \in 1 .. rep[i] \/ m = n)
    <3>1. rep[i] \in Nat /\ n \in Nat /\ n = rep[i] + 1 /\ n >= 1
      BY <1>1, CountAssumption
    <3> HIDE DEF n
    <3> QED
      BY <3>1
  <2> HIDE DEF n
  <2> QED
    BY <1>2, <2>1, <2>3, <2>4, <2>5 DEF Received
<1>3. CASE j # i
  <2>1. rep'[j] = rep[j] /\ age'[j] = age[j]
    BY <1>1, <1>3 DEF Transmit
  <2>2. ASSUME NEW m \in 1 .. rep[j], age[j][m] >= AirTime
        PROVE  hit'[j][m] = hit[j][m]
    <3>1. m \in Framelets /\ age[j][m] \in Nat
      <4>1. rep[j] \in 0 .. N
        BY <1>1
      <4>2. m \in Framelets
        BY <4>1, CountAssumption DEF Framelets
      <4> QED
        BY <4>2, <1>1
    <3>2. CASE j \in Busy(i)
      <4>1. m # rep[j]
        BY <2>2, <3>1, <3>2, <1>1 DEF Busy, Last
      <4>2. hit'[j] = [hit[j] EXCEPT ![rep[j]] = @ \cup {i}]
        BY <3>2, <1>3 DEF Transmit
      <4> QED
        BY <4>1, <4>2, <3>1, <1>1
    <3>3. CASE j \notin Busy(i)
      BY <3>3, <1>3 DEF Transmit
    <3> QED
      BY <3>2, <3>3
  <2> QED
    BY <2>1, <2>2 DEF Received
<1> QED
  BY <1>2, <1>3

\* A station that has sent all framelets has one that has left the air and met
\* nothing when its last pause is over.
LEMMA FinishReceived ==
  ASSUME IInv, OneFrameletGetsThrough, NEW i \in Stations, Finish(i)
  PROVE  Got(i)
<1>1. /\ rep[i] = N /\ state[i] = "WAIT_END" /\ age[i] \in [Framelets -> Nat]
      /\ Spaced(i, age[i], N) /\ age[i][N] >= WaitEnd
  BY DEF IInv, TypeOK, AllSpaced, Finish, Last
<1>2. PICK m \in Framelets : hit[i][m] = {}
  BY <1>1 DEF OneFrameletGetsThrough
<1>3. N \in Framelets /\ N \in 0 .. N /\ m \in 1 .. N
  BY CountAssumption DEF Framelets
<1>4. age[i][m] >= age[i][N]
  <2>1. CASE m = N
    BY <2>1, <1>1, <1>3
  <2>2. CASE m < N
    <3>1. N \in 1 .. N
      BY <1>3 DEF Framelets
    <3>2. /\ ((N - m) * K[i]) \in Nat \ {0}
          /\ ((N - m) * K[i]) * delta <= age[i][m] - age[i][N]
      BY <3>1, <2>2, <1>1, <1>3, Distance
    <3>3. ((N - m) * K[i]) * delta \in Nat
      BY <3>2, Times, Products
    <3> QED
      BY <3>2, <3>3, <1>1, <1>3
  <2> QED
    BY <2>1, <2>2, <1>3
<1>5. WaitEnd \in Nat /\ WaitEnd >= AirTime
  <2>1. kmax * (N - 1) \in Nat
    BY KmaxBounds, CountAssumption, Products
  <2>2. (kmax * (N - 1) + 1) * delta = (kmax * (N - 1)) * delta + 1 * delta
    BY <2>1, Times, Products
  <2>3. (kmax * (N - 1)) * delta \in Nat
    BY <2>1, Times, Products
  <2> QED
    BY <2>2, <2>3, Times DEF WaitEnd
<1>6. age[i][m] >= AirTime
  <2>1. age[i][m] \in Nat /\ age[i][N] \in Nat
    BY <1>1, <1>3
  <2> QED
    BY <2>1, <1>1, <1>4, <1>5, Times
<1> QED
  BY <1>1, <1>2, <1>3, <1>6 DEF Got, Received

\* While time passes, what has been received stays received, and only stations
\* that are sending are newly received.
LEMMA TickReceived ==
  ASSUME IInv, Tick, NEW i \in Stations
  PROVE  /\ Got(i) => Got(i)'
         /\ Got(i)' => Active(i)
<1>1. /\ rep' = rep /\ state' = state /\ hit' = hit /\ rep[i] \in 0 .. N
      /\ rep[i] = 0 <=> state[i] = "IDLE"
  BY DEF IInv, TypeOK, Tick
<1>2. ASSUME NEW m \in 1 .. rep[i]
      PROVE  /\ m \in Framelets /\ age[i][m] \in Nat /\ age'[i][m] = age[i][m] + 1
             /\ AirTime \in Nat
  <2>1. m \in Framelets /\ m <= rep[i]
    BY <1>1, CountAssumption DEF Framelets
  <2>2. age[i][m] \in Nat
    BY <2>1 DEF IInv, TypeOK
  <2> QED
    BY <2>1, <2>2, Times DEF Tick
<1>3. Got(i) => Got(i)'
  BY <1>1, <1>2 DEF Got, Received
<1>4. Got(i)' => Active(i)
  <2>1. Got(i)' => rep[i] # 0
    BY <1>1 DEF Got, Received
  <2> QED
    BY <2>1, <1>1 DEF Active
<1> QED
  BY <1>3, <1>4

\* Every step of the stations is one of the broadcast, or none.
LEMMA BroadcastStep ==
  ASSUME IInv, OneFrameletGetsThrough, [Next]_vars
  PROVE  [Channel!Next]_(Channel!bvars)
<1> DEFINE sending == [j \in Stations |-> Active(j)]
           reached == [j \in Stations |-> Got(j)]
<1>1. TypeOK
  BY DEF IInv
<1>a. sending = [j \in Stations |-> state[j] # "IDLE"] /\ reached = [j \in Stations |-> Received(j) # {}]
  BY DEF Active, Got
<1>2. ASSUME NEW i \in Stations, state[i] # "WAIT_END", Transmit(i, rep[i] + 1)
      PROVE  /\ Active(i)' /\ reached' = reached
             /\ \A j \in Stations \ {i} : Active(j)' = Active(j)
  <2>1. \A j \in Stations : Received(j)' = Received(j)
    BY <1>2, TransmitReceived
  <2>2. \A j \in Stations : Got(j)' = Got(j)
    BY <2>1 DEF Got
  <2>3. state'[i] # "IDLE" /\ \A j \in Stations \ {i} : state'[j] = state[j]
    BY <1>1, <1>2 DEF Transmit, TypeOK
  <2> QED
    BY <2>2, <2>3 DEF Active
<1>3. ASSUME NEW i \in Stations, Send(i) PROVE Channel!Start(i)
  <2>1. state[i] = "IDLE" /\ Transmit(i, rep[i] + 1)
    <3>1. rep[i] = 0
      BY <1>1, <1>3 DEF Send, TypeOK
    <3>2. rep[i] + 1 = 1
      BY <3>1
    <3> QED
      BY <3>2, <1>3 DEF Send
  <2>2. /\ Active(i)' /\ reached' = reached
        /\ \A j \in Stations \ {i} : Active(j)' = Active(j)
    BY <2>1, <1>2
  <2>3. ~ sending[i] /\ sending' = [sending EXCEPT ![i] = TRUE]
    BY <2>1, <2>2, Zenon DEF Active
  <2> HIDE DEF sending, reached
  <2> QED
    BY <2>2, <2>3 DEF Channel!Start, sending, reached, Active, Got
<1>4. ASSUME NEW i \in Stations, Again(i) PROVE UNCHANGED Channel!bvars
  <2>1. state[i] = "SEND" /\ Transmit(i, rep[i] + 1)
    BY <1>4 DEF Again
  <2>2. /\ Active(i)' /\ reached' = reached /\ Active(i)
        /\ \A j \in Stations \ {i} : Active(j)' = Active(j)
    BY <2>1, <1>2 DEF Active
  <2>3. \A j \in Stations : Active(j)' = Active(j)
    BY <2>2 DEF Active
  <2>4. sending' = sending
    BY <2>3
  <2> QED
    BY <2>2, <2>4 DEF Channel!bvars, Active, Got
<1>5. ASSUME NEW i \in Stations, Finish(i) PROVE Channel!End(i)
  <2>1. Got(i) /\ Active(i)
    BY <1>5, FinishReceived DEF Finish, Active
  <2>2. /\ rep'[i] = 0 /\ state'[i] = "IDLE"
        /\ \A j \in Stations \ {i} : /\ rep'[j] = rep[j] /\ age'[j] = age[j]
                                     /\ hit'[j] = hit[j] /\ state'[j] = state[j]
    BY <1>1, <1>5 DEF Finish, TypeOK
  <2>3. /\ Got(i)' = FALSE /\ Active(i)' = FALSE
        /\ \A j \in Stations \ {i} : Got(j)' = Got(j) /\ Active(j)' = Active(j)
    BY <2>2 DEF Got, Received, Active
  <2>4. /\ sending[i] /\ reached[i]
        /\ sending' = [sending EXCEPT ![i] = FALSE]
        /\ reached' = [reached EXCEPT ![i] = FALSE]
    <3>1. sending' = [j \in Stations |-> IF j = i THEN FALSE ELSE Active(j)]
      BY <2>3, Zenon
    <3>2. reached' = [j \in Stations |-> IF j = i THEN FALSE ELSE Got(j)]
      BY <2>3, Zenon
    <3> QED
      BY <2>1, <3>1, <3>2, Zenon
  <2> QED
    BY <2>4 DEF Channel!End, Active, Got
<1>6. ASSUME Tick PROVE \E senders \in SUBSET Stations : Channel!Reach(senders)
  <2> DEFINE new == {i \in Stations : Got(i)' /\ ~ Got(i)}
  <2>1. \A i \in Stations : /\ Got(i) => Got(i)'
                            /\ Got(i)' => Active(i)
    BY <1>6, TickReceived
  <2>2. \A i \in new : sending[i] /\ ~ reached[i]
    BY <2>1
  <2>3. reached' = [i \in Stations |-> reached[i] \/ i \in new]
    <3>1. \A i \in Stations : Got(i)' = (reached[i] \/ i \in new)
      BY <2>1 DEF Got
    <3> QED
      BY <3>1
  <2>4. sending' = sending
    BY <1>6 DEF Tick, Active
  <2>5. Channel!Reach(new)
    BY <2>2, <2>3, <2>4 DEF Channel!Reach, Active, Got
  <2>6. new \in SUBSET Stations
    OBVIOUS
  <2> HIDE DEF new
  <2> QED
    BY <2>5, <2>6
<1>7. CASE UNCHANGED vars
  <2>1. \A j \in Stations : Active(j)' = Active(j) /\ Got(j)' = Got(j)
    BY <1>7 DEF vars, Active, Got, Received
  <2> QED
    BY <2>1 DEF Channel!bvars, Active, Got
<1> QED
  BY <1>3, <1>4, <1>5, <1>6, <1>7 DEF Next, Channel!Next

\* The promise of f-MAC as a refinement, for any number of stations with a valid
\* table: when a station is ready for its next packet, all others have received
\* the one before, and nothing disturbs what has been received.
THEOREM ReliableBroadcast == Spec => ImplementsBroadcast
<1>1. Init => Channel!Init
  <2> SUFFICES ASSUME Init PROVE Channel!Init
    OBVIOUS
  <2>1. \A i \in Stations : state[i] = "IDLE" /\ rep[i] = 0
    BY DEF Init
  <2>2. \A i \in Stations : Received(i) = {}
    BY <2>1 DEF Received
  <2> QED
    BY <2>1, <2>2 DEF Channel!Init
<1>2. IInv => OneFrameletGetsThrough
  BY Counting DEF IInv, OneFrameletGetsThrough
<1>3. IInv /\ [Next]_vars => [Channel!Next]_(Channel!bvars)
  BY <1>2, BroadcastStep
<1> QED
  BY <1>1, <1>3, Invariance, PTL DEF Spec, ImplementsBroadcast, Channel!Spec

=============================================================================

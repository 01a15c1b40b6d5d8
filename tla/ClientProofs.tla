---------------------------- MODULE ClientProofs ----------------------------
(***************************************************************************)
(* Proofs about the receiving side of a station, for any ring size, any    *)
(* number of packets and any payload sizes: what the host reads is in      *)
(* order, whole and announced, and its count of the overflows is never     *)
(* less than it should be.                                                 *)
(***************************************************************************)
EXTENDS Client, TLAPS

-----------------------------------------------------------------------------
(* The inductive invariant *)

\* The ring holds packets in the order of their arrival, all of them newer than
\* the one in the host interface's hands, which is newer than what was read.
Ordered ==
  /\ lastRead <= arrived
  /\ \A k \in DOMAIN rxFifo : lastRead < rxFifo[k].number /\ rxFifo[k].number <= arrived
  /\ \A j, k \in DOMAIN rxFifo : j < k => rxFifo[j].number < rxFifo[k].number
  /\ pc = "respond" =>
       /\ lastRead < inHand.number /\ inHand.number <= arrived
       /\ \A k \in DOMAIN rxFifo : inHand.number < rxFifo[k].number

\* The two variables for the payload size differ while CONFIG is at work only.
SizesAgree == pc \in {"idle", "respond", "readOverflow", "resetOverflow"} =>
                payloadLen = payloadSize

\* A packet has the size that READBUF answers with.
Fits(packet) == packet.early \/ packet.size = payloadSize

\* Packets of the old payload size are gone once fifoInit has set read.
RingFits ==
  /\ pc # "initFifos" => \A k \in DOMAIN rxFifo : Fits(rxFifo[k])
  /\ pc = "initWrite" => rxFifo = <<>>
  /\ pc = "fmacInit" => \A k \in DOMAIN rxFifo : rxFifo[k].early
  /\ pc = "respond" => Fits(inHand)

\* The answer is being put together.
Reading == pc = "readOverflow" => answer.count \in Nat /\ byte \in 1 .. 3

\* What the host has been told or will be told when it reads on: the counter, or
\* the bytes taken from it and those still to be taken, or no more than the sum.
Told ==
  CASE pc = "readOverflow" ->
         reported + (answer.count + Weight[byte] * (overflowCount \div Weight[byte]))
    [] pc = "resetOverflow" -> reported
    [] OTHER -> reported + overflowCount

\* None too few at any time, and the right number as long as nothing is torn.
Counted ==
  /\ overflowCount <= dropped /\ dropped <= arrived
  /\ Told + missed >= dropped
  /\ ~ torn => Told + missed = dropped

IInv ==
  /\ TypeOK
  /\ arrived <= MaxArrivals
  /\ Ordered
  /\ SizesAgree
  /\ RingFits
  /\ WholePackets
  /\ PendingIsPromise
  /\ Reading

-----------------------------------------------------------------------------
(* Sequences of packets *)

\* Append adds an element behind the others.
LEMMA AppendFacts ==
  ASSUME NEW s \in Seq(Packet), NEW p \in Packet
  PROVE  /\ Append(s, p) \in Seq(Packet)
         /\ Len(Append(s, p)) = Len(s) + 1
         /\ DOMAIN s = 1 .. Len(s) /\ DOMAIN Append(s, p) = 1 .. Len(s) + 1
         /\ \A k \in 1 .. Len(s) : Append(s, p)[k] = s[k]
         /\ Append(s, p)[Len(s) + 1] = p
  OBVIOUS

\* Head and Tail split a sequence behind its first element.
LEMMA TailFacts ==
  ASSUME NEW s \in Seq(Packet), s # <<>>
  PROVE  /\ Len(s) \in Nat \ {0} /\ DOMAIN s = 1 .. Len(s)
         /\ Head(s) = s[1] /\ Head(s) \in Packet
         /\ Tail(s) \in Seq(Packet) /\ Len(Tail(s)) = Len(s) - 1
         /\ DOMAIN Tail(s) = 1 .. Len(s) - 1
         /\ \A k \in 1 .. Len(s) - 1 : Tail(s)[k] = s[k + 1]
  OBVIOUS

\* A slot after Advance is a slot of the ring.
LEMMA AdvanceType ==
  ASSUME NEW slot \in 0 .. Capacity
  PROVE  Advance(slot) \in 0 .. Capacity
  BY ClientAssumption DEF Advance

-----------------------------------------------------------------------------
(* Division, for numbers that are not constants of the language *)

\* Multiplication by a natural number keeps the order.
LEMMA ProdLe ==
  ASSUME NEW d \in Nat, NEW x \in Int, NEW y \in Int, x <= y
  PROVE d * x <= d * y
  OBVIOUS

\* Quotient and remainder.
LEMMA DivMod ==
  ASSUME NEW v \in Nat, NEW d \in Nat \ {0}
  PROVE  /\ v \div d \in Nat /\ v % d \in Nat /\ v % d < d
         /\ v = d * (v \div d) + (v % d)
<1>1. v \div d \in Int /\ v % d \in Nat /\ v % d < d
  OBVIOUS
<1>2. v = d * (v \div d) + (v % d)
  OBVIOUS
<1>3. v \div d >= 0
  <2> DEFINE q == v \div d
  <2>1. v = d * q + (v % d) /\ q \in Int
    BY <1>1, <1>2
  <2> HIDE DEF q
  <2>2. ASSUME q <= -1 PROVE FALSE
    <3>1. d * q <= d * (-1) /\ d * (-1) = -d /\ d * q \in Int
      BY <2>1, <2>2, ProdLe
    <3> QED
      BY <1>1, <2>1, <3>1
  <2>3. q >= 0
    BY <2>1, <2>2
  <2> QED
    BY <2>3 DEF q
<1> QED
  BY <1>1, <1>2, <1>3

\* There is only one quotient.
LEMMA Unique ==
  ASSUME NEW d \in Nat \ {0}, NEW q \in Int, NEW r \in 0 .. d - 1, NEW p \in Int, NEW s \in 0 .. d - 1,
         d * q + r = d * p + s
  PROVE  q = p
<1>1. CASE q >= p + 1
  <2>1. d * (p + 1) <= d * q
    BY <1>1, ProdLe
  <2>2. d * (p + 1) = d * p + d
    OBVIOUS
  <2>3. d * p \in Int /\ d * q \in Int
    OBVIOUS
  <2> QED BY <2>1, <2>2, <2>3
<1>2. CASE p >= q + 1
  <2>1. d * (q + 1) <= d * p
    BY <1>2, ProdLe
  <2>2. d * (q + 1) = d * q + d
    OBVIOUS
  <2>3. d * p \in Int /\ d * q \in Int
    OBVIOUS
  <2> QED BY <2>1, <2>2, <2>3
<1> QED BY <1>1, <1>2

\* What is left of v above one weight is a byte and what is left above the next.
LEMMA Split ==
  ASSUME NEW v \in Nat, NEW w \in Nat \ {0}, NEW b \in Nat \ {0}, NEW d \in Nat \ {0}, d = w * b
  PROVE  w * (v \div w) = ((v \div w) % b) * w + d * (v \div d)
<1> DEFINE q == v \div w  s == v % w  p == q \div b  r == q % b  x == v \div d  y == v % d
<1>1. q \in Nat /\ s \in Nat /\ s < w /\ v = w * q + s
  BY DivMod
<1>2. p \in Nat /\ r \in Nat /\ r < b /\ q = b * p + r
  BY <1>1, DivMod
<1>3. x \in Nat /\ y \in Nat /\ y < d /\ v = d * x + y
  BY DivMod
<1> HIDE DEF q, s, p, r, x, y
<1>4. w * q = d * p + w * r /\ d * p \in Int /\ w * r \in Nat
  <2>1. w * (b * p + r) = (w * b) * p + w * r
    BY <1>2
  <2>2. d * p \in Int /\ w * r \in Nat
    BY <1>2
  <2> QED
    BY <1>2, <2>1, <2>2
<1>5. w * r + s \in 0 .. d - 1
  <2>1. w * (r + 1) <= w * b
    BY <1>2, ProdLe
  <2>2. w * (r + 1) = w * r + w
    BY <1>2
  <2> QED
    BY <1>1, <1>4, <2>1, <2>2
<1>6. d * p + (w * r + s) = d * x + y
  BY <1>1, <1>3, <1>4
<1> DEFINE t == w * r + s
<1>7. p = x
  <2>1. d * p + t = d * x + y /\ t \in 0 .. d - 1
    BY <1>5, <1>6
  <2> HIDE DEF t
  <2> QED
    BY <2>1, <1>2, <1>3, Unique
<1>8. w * q = r * w + d * x
  BY <1>2, <1>4, <1>7
<1> QED
  BY <1>8 DEF q, p, r, x

\* Counting on changes a quotient with a carry only.
LEMMA Inc ==
  ASSUME NEW v \in Nat, NEW w \in Nat \ {0}
  PROVE  /\ (v + 1) \div w >= v \div w
         /\ (v + 1) % w # 0 => (v + 1) \div w = v \div w
<1> DEFINE q == v \div w  s == v % w  p == (v + 1) \div w  r == (v + 1) % w
<1>1. q \in Nat /\ s \in Nat /\ s < w /\ v = w * q + s
  BY DivMod
<1>2. p \in Nat /\ r \in Nat /\ r < w /\ v + 1 = w * p + r
  BY DivMod
<1> HIDE DEF q, s, p, r
<1>3. CASE s + 1 < w
  <2>1. w * q + (s + 1) = w * p + r
    BY <1>1, <1>2
  <2>2. q = p
    BY <1>1, <1>2, <1>3, <2>1, Unique
  <2> QED
    BY <2>2, <1>1 DEF p, q
<1>4. CASE s + 1 = w
  <2>1. w * (q + 1) + 0 = w * p + r
    BY <1>1, <1>2, <1>4
  <2>2. q + 1 = p /\ r = 0
    <3>1. q + 1 = p
      BY <1>1, <1>2, <2>1, Unique
    <3> QED
      BY <3>1, <2>1, <1>1, <1>2
  <2> QED
    BY <2>2, <1>1 DEF p, q, r
<1> QED
  BY <1>1, <1>3, <1>4

\* The weights of the bytes.
LEMMA WeightFacts ==
  /\ ByteBase \in Nat \ {0}
  /\ Weight[1] = ByteBase /\ Weight[2] = Weight[1] * ByteBase
  /\ Weight[3] = Weight[2] * ByteBase
  /\ \A k \in 1 .. 3 : Weight[k] \in Nat \ {0}
  /\ MaxArrivals < ByteBase * Weight[3]
<1>1. ByteBase \in Nat \ {0}
  BY ClientAssumption
<1>2. /\ Weight[1] = ByteBase /\ Weight[2] = ByteBase * ByteBase
      /\ Weight[3] = ByteBase * ByteBase * ByteBase
  BY DEF Weight
<1>3. ASSUME NEW x \in Nat \ {0}, NEW y \in Nat \ {0} PROVE x * y \in Nat \ {0}
  OBVIOUS
<1>4. Weight[2] \in Nat \ {0}
  BY <1>1, <1>2, <1>3
<1>5. Weight[3] = Weight[2] * ByteBase
  BY <1>2
<1>6. Weight[3] \in Nat \ {0}
  BY <1>1, <1>3, <1>4, <1>5
<1> QED
  BY <1>1, <1>2, <1>4, <1>5, <1>6, ClientAssumption

-----------------------------------------------------------------------------
(* The invariant is inductive *)

LEMMA InitIInv == Init => IInv
<1> SUFFICES ASSUME Init PROVE IInv
  OBVIOUS
<1>1. TypeOK
  <2>1. inHand \in Packet
    BY ClientAssumption DEF Init, Packet, NoPacket
  <2>2. rxFifo \in Seq(Packet) /\ Len(rxFifo) <= Capacity /\ write \in 0 .. Capacity
    BY ClientAssumption DEF Init
  <2>3. torn \in BOOLEAN
    BY Zenon DEF Init
  <2>6. byte \in 0 .. 3 /\ overflowCount \in Nat
    BY DEF Init
  <2>4. {arrived, dropped, reported, missed, lastRead, promised} \subseteq Nat
    BY DEF Init
  <2>5. /\ payloadSize \in Lengths \cup {0} /\ payloadLen \in Lengths \cup {0}
        /\ pc \in {"idle", "respond", "readOverflow", "resetOverflow", "initFifos",
                   "initWrite", "fmacInit"}
    BY DEF Init
  <2> QED
    BY <2>1, <2>2, <2>3, <2>4, <2>5, <2>6 DEF TypeOK
<1> QED
  BY <1>1, ClientAssumption
     DEF Init, IInv, Ordered, SizesAgree, RingFits, WholePackets, PendingIsPromise, Reading,
         NoAnswer

\* Packets carry natural numbers.
LEMMA NumberTypes ==
  ASSUME TypeOK
  PROVE  /\ DOMAIN rxFifo = 1 .. Len(rxFifo) /\ Len(rxFifo) \in Nat
         /\ \A k \in DOMAIN rxFifo : rxFifo[k].number \in Nat /\ rxFifo[k].early \in BOOLEAN
         /\ inHand.number \in Nat /\ arrived \in Nat /\ lastRead \in Nat
<1>1. \A packet \in Packet : packet.number \in Nat /\ packet.early \in BOOLEAN
  BY ClientAssumption DEF Packet
<1>2. \A k \in DOMAIN rxFifo : rxFifo[k] \in Packet
  BY DEF TypeOK
<1> QED
  BY <1>1, <1>2 DEF TypeOK

\* A message that is not stored leaves the order as it is.
LEMMA OrderKept ==
  ASSUME IInv, arrived' = arrived + 1, UNCHANGED <<rxFifo, pc, inHand, lastRead>>
  PROVE  Ordered'
<1>1. TypeOK /\ Ordered
  BY DEF IInv
<1> QED
  BY <1>1, NumberTypes DEF Ordered

\* The radio's handler for a message that does not reach the ring.
LEMMA LostStep ==
  ASSUME IInv, ReceiveBroken \/ ReceiveLost
  PROVE  IInv'
<1> USE DEF ReceiveBroken, ReceiveLost
<1>1. TypeOK'
  <2>1. TypeOK /\ write' \in {write, Advance(write)} /\ arrived' = arrived + 1
    BY DEF IInv
  <2>2. write' \in 0 .. Capacity
    BY <2>1, AdvanceType DEF TypeOK
  <2>3. /\ UNCHANGED <<payloadSize, payloadLen, rxFifo, counterVars, pc, inHand, dropped>>
        /\ UNCHANGED <<lastRead, promised>>
    OBVIOUS
  <2> HIDE DEF ReceiveBroken, ReceiveLost
  <2> QED
    BY <2>1, <2>2, <2>3 DEF TypeOK, counterVars
<1>2. arrived' <= MaxArrivals /\ Ordered'
  BY OrderKept, ClientAssumption DEF IInv, TypeOK
<1>3. (SizesAgree /\ RingFits /\ WholePackets /\ PendingIsPromise /\ Reading)'
  BY DEF counterVars, Reading, IInv, SizesAgree, RingFits, Fits, WholePackets, PendingIsPromise
<1> QED
  BY <1>1, <1>2, <1>3 DEF IInv

\* A packet that finds room is newer than all others and has the size of the
\* configuration, or comes while the MAC still has the old one.
LEMMA ReceiveStep ==
  ASSUME IInv, Receive
  PROVE  IInv'
<1> DEFINE p == [number |-> arrived + 1, size |-> payloadLen, early |-> pc = "fmacInit"]
<1>1. rxFifo' = Append(rxFifo, p)
  BY DEF Receive
<1>2. p \in Packet
  BY ClientAssumption DEF Receive, IInv, TypeOK, Packet
<1>3. /\ rxFifo \in Seq(Packet) /\ Len(rxFifo) \in Nat
      /\ rxFifo' \in Seq(Packet) /\ Len(rxFifo') = Len(rxFifo) + 1
      /\ DOMAIN rxFifo = 1 .. Len(rxFifo) /\ DOMAIN rxFifo' = 1 .. Len(rxFifo) + 1
      /\ \A k \in 1 .. Len(rxFifo) : rxFifo'[k] = rxFifo[k]
      /\ rxFifo'[Len(rxFifo) + 1] = p
  BY <1>1, <1>2, AppendFacts DEF IInv, TypeOK
<1>4. Len(rxFifo') <= Capacity
  <2>1. Len(rxFifo) # Capacity
    BY DEF Receive, RingFull
  <2>2. Len(rxFifo) <= Capacity
    BY DEF IInv, TypeOK
  <2>3. Capacity \in Nat
    BY ClientAssumption
  <2>4. Len(rxFifo) \in Nat /\ Len(rxFifo') = Len(rxFifo) + 1
    BY <1>3
  <2> HIDE DEF p
  <2> QED
    BY <2>1, <2>2, <2>3, <2>4
<1>5. TypeOK'
  <2>1. TypeOK /\ write' = Advance(write) /\ arrived' = arrived + 1
    BY DEF Receive, IInv
  <2>2. write' \in 0 .. Capacity
    BY <2>1, AdvanceType DEF TypeOK
  <2>3. /\ UNCHANGED <<payloadSize, payloadLen, counterVars, pc, inHand, dropped>>
        /\ UNCHANGED <<lastRead, promised>>
    BY DEF Receive
  <2>4. rxFifo' \in Seq(Packet) /\ Len(rxFifo') <= Capacity
    BY <1>3, <1>4
  <2> QED
    BY <2>1, <2>2, <2>3, <2>4 DEF TypeOK, counterVars
<1>6. p.number = arrived + 1 /\ p.size = payloadLen /\ p.early = (pc = "fmacInit")
  OBVIOUS
<1> HIDE DEF p
<1>7. arrived' <= MaxArrivals /\ Ordered'
  <2>1. /\ arrived \in Nat /\ lastRead \in Nat /\ inHand.number \in Nat
        /\ arrived' = arrived + 1 /\ arrived' <= MaxArrivals
        /\ UNCHANGED <<lastRead, inHand, pc>>
    BY ClientAssumption DEF Receive, IInv, TypeOK, Packet
  <2>2. \A k \in 1 .. Len(rxFifo) : rxFifo[k].number \in Nat
    BY <1>3, NumberTypes DEF IInv
  <2>3. \A k \in 1 .. Len(rxFifo) : lastRead < rxFifo[k].number /\ rxFifo[k].number <= arrived
    BY <1>3 DEF IInv, Ordered
  <2>4. \A k \in DOMAIN rxFifo' :
          lastRead' < rxFifo'[k].number /\ rxFifo'[k].number <= arrived'
    BY <1>3, <1>6, <2>1, <2>2, <2>3 DEF IInv, Ordered
  <2>5. \A j, k \in DOMAIN rxFifo' : j < k => rxFifo'[j].number < rxFifo'[k].number
    <3> SUFFICES ASSUME NEW j \in 1 .. Len(rxFifo) + 1, NEW k \in 1 .. Len(rxFifo) + 1, j < k
                 PROVE  rxFifo'[j].number < rxFifo'[k].number
      BY <1>3
    <3>1. j \in 1 .. Len(rxFifo) /\ rxFifo'[j] = rxFifo[j]
      BY <1>3
    <3>2. CASE k = Len(rxFifo) + 1
      BY <1>3, <1>6, <2>1, <2>2, <2>3, <3>1, <3>2
    <3>3. CASE k # Len(rxFifo) + 1
      <4>1. k \in 1 .. Len(rxFifo) /\ rxFifo'[k] = rxFifo[k]
        BY <1>3, <3>3
      <4> QED
        BY <1>3, <3>1, <4>1 DEF IInv, Ordered
    <3> QED
      BY <3>2, <3>3
  <2>6. pc' = "respond" =>
          /\ lastRead' < inHand'.number /\ inHand'.number <= arrived'
          /\ \A k \in DOMAIN rxFifo' : inHand'.number < rxFifo'[k].number
    BY <1>3, <1>6, <2>1, <2>2 DEF IInv, Ordered
  <2> QED
    BY <2>1, <2>4, <2>5, <2>6 DEF IInv, Ordered
<1>8. RingFits'
  <2>1. pc # "initFifos" => Fits(p)
    BY <1>6 DEF Receive, Fits, IInv, TypeOK, SizesAgree
  <2>2. pc # "initFifos" => \A k \in DOMAIN rxFifo' : Fits(rxFifo'[k])
    BY <1>3, <2>1 DEF IInv, RingFits
  <2>3. pc = "fmacInit" => \A k \in DOMAIN rxFifo' : rxFifo'[k].early
    <3> SUFFICES ASSUME pc = "fmacInit", NEW k \in 1 .. Len(rxFifo) + 1
                 PROVE  rxFifo'[k].early
      BY <1>3
    <3>1. CASE k = Len(rxFifo) + 1
      BY <1>3, <1>6, <3>1
    <3>2. CASE k # Len(rxFifo) + 1
      <4>1. k \in 1 .. Len(rxFifo) /\ rxFifo'[k] = rxFifo[k]
        BY <1>3, <3>2
      <4> QED
        BY <1>3, <4>1 DEF IInv, RingFits
    <3> QED
      BY <3>1, <3>2
  <2>4. UNCHANGED <<pc, inHand, payloadSize>> /\ pc # "initWrite"
    BY DEF Receive
  <2> QED
    BY <2>2, <2>3, <2>4 DEF IInv, RingFits, Fits
<1>9. (SizesAgree /\ WholePackets /\ Reading)'
  BY DEF counterVars, Reading, Receive, IInv, SizesAgree, WholePackets
<1>10. PendingIsPromise'
  BY <1>3 DEF Receive, IInv, TypeOK, PendingIsPromise
<1> QED
  BY <1>5, <1>7, <1>8, <1>9, <1>10 DEF IInv

\* An overflow leaves the ring as it is.
LEMMA OverflowStep ==
  ASSUME IInv, ReceiveOverflow
  PROVE  IInv'
<1> USE DEF ReceiveOverflow
<1>1. TypeOK'
  BY DEF IInv, TypeOK
<1>2. arrived' <= MaxArrivals /\ Ordered'
  BY OrderKept, ClientAssumption DEF IInv, TypeOK
<1>3. (SizesAgree /\ RingFits /\ WholePackets /\ PendingIsPromise /\ Reading)'
  BY DEF Reading, IInv, SizesAgree, RingFits, Fits, WholePackets, PendingIsPromise
<1> QED
  BY <1>1, <1>2, <1>3 DEF IInv

\* fifoPop hands out the oldest packet.
LEMMA ReadBufStep ==
  ASSUME IInv, ReadBuf
  PROVE  IInv'
<1>1. /\ rxFifo \in Seq(Packet) /\ Len(rxFifo) \in Nat \ {0}
      /\ inHand' = rxFifo[1] /\ inHand' \in Packet
      /\ rxFifo' \in Seq(Packet) /\ Len(rxFifo') = Len(rxFifo) - 1
      /\ DOMAIN rxFifo = 1 .. Len(rxFifo) /\ DOMAIN rxFifo' = 1 .. Len(rxFifo) - 1
      /\ \A k \in 1 .. Len(rxFifo) - 1 : rxFifo'[k] = rxFifo[k + 1]
  BY TailFacts DEF ReadBuf, IInv, TypeOK, counterVars
<1>2. TypeOK'
  BY <1>1, ClientAssumption DEF ReadBuf, IInv, TypeOK, counterVars
<1>3. Ordered'
  <2>1. UNCHANGED <<lastRead, arrived>>
    BY DEF ReadBuf
  <2>2. \A k \in DOMAIN rxFifo' : k + 1 \in DOMAIN rxFifo /\ rxFifo'[k] = rxFifo[k + 1]
    BY <1>1
  <2>3. 1 \in DOMAIN rxFifo /\ \A k \in DOMAIN rxFifo' : k \in Nat /\ 1 < k + 1
    BY <1>1
  <2>4. \A j, k \in DOMAIN rxFifo' : j < k => j + 1 < k + 1
    BY <1>1
  <2> QED
    BY <1>1, <2>1, <2>2, <2>3, <2>4 DEF IInv, Ordered
<1>4. RingFits'
  BY <1>1 DEF ReadBuf, IInv, RingFits, Fits
<1>5. PendingIsPromise'
  BY <1>1 DEF ReadBuf, IInv, TypeOK, PendingIsPromise
<1>6. (arrived <= MaxArrivals /\ SizesAgree /\ WholePackets /\ Reading)'
  BY DEF Reading, ReadBuf, IInv, SizesAgree, WholePackets, NoAnswer
<1> QED
  BY <1>2, <1>3, <1>4, <1>5, <1>6 DEF IInv

\* The answer has the size of the packet in hand.
LEMMA RespondStep ==
  ASSUME IInv, Respond
  PROVE  IInv'
<1>1. TypeOK'
  BY ClientAssumption DEF Respond, IInv, TypeOK, counterVars, Packet, NoPacket
<1>2. Ordered'
  BY ClientAssumption DEF Respond, IInv, TypeOK, Ordered, Packet
<1>3. WholePackets'
  BY DEF Respond, IInv, WholePackets, RingFits, Fits
<1>4. (arrived <= MaxArrivals /\ SizesAgree /\ RingFits /\ PendingIsPromise /\ Reading)'
  BY DEF Reading, Respond, IInv, SizesAgree, RingFits, Fits, PendingIsPromise
<1> QED
  BY <1>1, <1>2, <1>3, <1>4 DEF IInv

\* Commands that leave the ring alone.
LEMMA CommandStep ==
  ASSUME IInv,
         \/ ReadBufEmpty \/ ReadPending
         \/ ReadOverflow \/ ReadOverflowByte \/ ResetOverflow
         \/ \E len \in Lengths : Config(len)
  PROVE  IInv'
<1>1. CASE ReadBufEmpty
  <2>1. TypeOK'
    BY <1>1 DEF ReadBufEmpty, IInv, TypeOK, counterVars
  <2> QED
    BY <1>1, <2>1 DEF ReadBufEmpty, IInv, TypeOK, Ordered, SizesAgree, RingFits, Fits,
                      WholePackets, PendingIsPromise, Reading, NoAnswer
<1>2. CASE ReadPending
  <2>1. TypeOK'
    BY <1>2 DEF ReadPending, IInv, TypeOK, counterVars
  <2> QED
    BY <1>2, <2>1 DEF ReadPending, IInv, TypeOK, Ordered, SizesAgree, RingFits, Fits,
                      WholePackets, PendingIsPromise, Reading
<1>3. CASE ReadOverflow
  <2>1. TypeOK'
    BY <1>3 DEF ReadOverflow, IInv, TypeOK, counterVars
  <2>2. answer'.count \in Nat /\ answer'.kind = "overflow"
    BY <1>3, WeightFacts, DivMod DEF ReadOverflow, IInv, TypeOK
  <2> QED
    BY <1>3, <2>1, <2>2 DEF ReadOverflow, IInv, TypeOK, Ordered, SizesAgree, RingFits, Fits,
                      WholePackets, PendingIsPromise, Reading
<1>6. CASE ReadOverflowByte
  <2> DEFINE value == (overflowCount \div Weight[byte]) % ByteBase
  <2>1. byte \in 1 .. 3 /\ Weight[byte] \in Nat \ {0} /\ ByteBase \in Nat \ {0}
    BY <1>6, WeightFacts DEF ReadOverflowByte, IInv, Reading
  <2>2. overflowCount \div Weight[byte] \in Nat
    BY <2>1, DivMod DEF IInv, TypeOK
  <2>3. value \in Nat
    BY <2>1, <2>2, DivMod
  <2>4. /\ answer' = [kind |-> "overflow", count |-> answer.count + value * Weight[byte]]
        /\ answer.count \in Nat
    BY <1>6 DEF ReadOverflowByte, IInv, Reading
  <2> HIDE DEF value
  <2>5. answer'.count \in Nat /\ answer'.kind = "overflow"
    BY <2>1, <2>3, <2>4
  <2>6. /\ byte' \in 0 .. 3 /\ reported' \in Nat /\ pc' \in {"readOverflow", "resetOverflow"}
        /\ pc' = "readOverflow" => byte' \in 1 .. 3
    BY <1>6, <2>1, <2>5 DEF ReadOverflowByte, IInv, TypeOK
  <2>7. UNCHANGED <<payloadSize, payloadLen, rxFifo, write, overflowCount, inHand, arrived,
                    dropped, missed, torn, lastRead, promised>> /\ pc = "readOverflow"
    BY <1>6 DEF ReadOverflowByte
  <2>8. TypeOK'
    BY <2>6, <2>7 DEF IInv, TypeOK
  <2> QED
    BY <2>5, <2>6, <2>7, <2>8 DEF IInv, Ordered, SizesAgree, RingFits, Fits, WholePackets,
                                  PendingIsPromise, Reading
<1>4. CASE ResetOverflow
  <2>1. TypeOK'
    BY <1>4 DEF ResetOverflow, IInv, TypeOK, counterVars
  <2> QED
    BY <1>4, <2>1 DEF ResetOverflow, IInv, TypeOK, Ordered, SizesAgree, RingFits, Fits,
                      WholePackets, PendingIsPromise, Reading
<1>5. ASSUME NEW len \in Lengths, Config(len) PROVE IInv'
  <2>1. TypeOK'
    BY <1>5 DEF Config, IInv, TypeOK, counterVars
  <2> QED
    BY <1>5, <2>1 DEF Config, IInv, TypeOK, Ordered, SizesAgree, RingFits, Fits,
                      WholePackets, PendingIsPromise, Reading, NoAnswer
<1> QED
  BY <1>1, <1>2, <1>3, <1>4, <1>5, <1>6

\* The rest of CONFIG: an empty ring first, the MAC's payload size last.
LEMMA ConfigStep ==
  ASSUME IInv, InitRead \/ InitWrite \/ MacInit
  PROVE  IInv'
<1>1. CASE InitRead
  <2>1. TypeOK' /\ Len(rxFifo') = 0 /\ DOMAIN rxFifo' = {}
    BY <1>1, ClientAssumption DEF InitRead, IInv, TypeOK, counterVars
  <2> QED
    BY <1>1, <2>1 DEF InitRead, IInv, TypeOK, Ordered, SizesAgree, RingFits, Fits,
                      WholePackets, PendingIsPromise, Reading
<1>2. CASE InitWrite
  <2>1. TypeOK'
    BY <1>2, ClientAssumption DEF InitWrite, IInv, TypeOK, counterVars
  <2>2. DOMAIN rxFifo = {}
    BY <1>2 DEF InitWrite, IInv, RingFits
  <2> QED
    BY <1>2, <2>1, <2>2 DEF InitWrite, IInv, TypeOK, Ordered, SizesAgree, RingFits, Fits,
                      WholePackets, PendingIsPromise, Reading
<1>3. CASE MacInit
  <2>1. TypeOK'
    BY <1>3 DEF MacInit, IInv, TypeOK, counterVars
  <2> QED
    BY <1>3, <2>1 DEF MacInit, IInv, TypeOK, Ordered, SizesAgree, RingFits, Fits,
                      WholePackets, PendingIsPromise, Reading
<1> QED
  BY <1>1, <1>2, <1>3

LEMMA NextIInv == IInv /\ [Next]_vars => IInv'
<1> SUFFICES ASSUME IInv, [Next]_vars PROVE IInv'
  OBVIOUS
<1>1. CASE UNCHANGED vars
  BY <1>1 DEF vars, counterVars, IInv, TypeOK, Ordered, SizesAgree, RingFits, Fits, WholePackets,
              PendingIsPromise, Reading
<1>2. CASE Next
  BY <1>2, LostStep, ReceiveStep, OverflowStep, ReadBufStep, RespondStep, CommandStep,
     ConfigStep DEF Next
<1> QED
  BY <1>1, <1>2

LEMMA Inductive == Spec => []IInv
  BY InitIInv, NextIInv, PTL DEF Spec

-----------------------------------------------------------------------------
(* The account of the overflows *)

\* An overflow is in the counter and in what will be told of it, or too late
\* for the reading.
LEMMA CountedOverflow ==
  ASSUME IInv, Counted, ReceiveOverflow
  PROVE  Counted'
<1>1. /\ overflowCount' = overflowCount + 1 /\ dropped' = dropped + 1 /\ arrived' = arrived + 1
      /\ missed' = IF pc \in {"readOverflow", "resetOverflow"} THEN missed + 1 ELSE missed
      /\ torn' = (torn \/ (pc = "readOverflow" /\ Carries(byte)))
      /\ UNCHANGED <<byte, answer, pc, reported>>
  BY DEF ReceiveOverflow
<1>2. /\ {overflowCount, dropped, arrived, missed, reported} \subseteq Nat
      /\ torn \in BOOLEAN
  BY DEF IInv, TypeOK
<1>3. overflowCount' <= dropped' /\ dropped' <= arrived'
  BY <1>1, <1>2 DEF Counted
<1>4. CASE pc = "readOverflow"
  <2> DEFINE w == Weight[byte]
             x == w * (overflowCount \div w)  y == w * ((overflowCount + 1) \div w)
  <2>1. w \in Nat \ {0} /\ answer.count \in Nat
    BY <1>4, WeightFacts DEF IInv, Reading
  <2>2. overflowCount \div w \in Nat /\ (overflowCount + 1) \div w \in Nat
    BY <1>2, <2>1, DivMod
  <2>3. x \in Nat /\ y \in Nat
    BY <2>1, <2>2
  <2>4. y >= x
    <3>1. overflowCount \div w <= (overflowCount + 1) \div w
      BY <1>2, <2>1, <2>2, Inc
    <3> HIDE DEF w
    <3> QED
      BY <2>1, <2>2, <3>1, ProdLe
  <2>5. ~ Carries(byte) => y = x
    BY <1>2, <2>1, Inc DEF Carries
  <2>6. Told = reported + (answer.count + x) /\ Told' = reported + (answer.count + y)
    BY <1>1, <1>4 DEF Told
  <2>7. missed' = missed + 1 /\ torn' = (torn \/ Carries(byte))
    BY <1>1, <1>4
  <2> HIDE DEF w, x, y
  <2>8. Told' + missed' >= dropped'
    BY <1>1, <1>2, <2>1, <2>3, <2>4, <2>6, <2>7 DEF Counted
  <2>9. ASSUME ~ torn' PROVE Told' + missed' = dropped'
    <3>1. ~ torn /\ y = x
      BY <2>5, <2>7, <2>9
    <3> QED
      BY <1>1, <1>2, <2>1, <2>3, <2>6, <2>7, <3>1 DEF Counted
  <2> QED
    BY <1>3, <2>8, <2>9 DEF Counted
<1>5. CASE pc = "resetOverflow"
  BY <1>1, <1>2, <1>3, <1>5 DEF Counted, Told
<1>6. CASE pc \notin {"readOverflow", "resetOverflow"}
  BY <1>1, <1>2, <1>3, <1>6 DEF Counted, Told
<1> QED
  BY <1>4, <1>5, <1>6

\* The reading of a byte moves it from the counter to the answer.
LEMMA CountedReading ==
  ASSUME IInv, Counted, ReadOverflow \/ ReadOverflowByte
  PROVE  Counted'
<1>1. {overflowCount, dropped, arrived, missed, reported} \subseteq Nat
      /\ UNCHANGED <<overflowCount, dropped, arrived, missed, torn>>
  BY DEF IInv, TypeOK, ReadOverflow, ReadOverflowByte
<1>2. SUFFICES Told' = Told
  BY <1>1, <1>2 DEF Counted
<1>3. CASE ReadOverflow
  <2>1. /\ pc = "idle" /\ pc' = "readOverflow" /\ byte' = 1 /\ UNCHANGED reported
        /\ answer' = [kind |-> "overflow", count |-> overflowCount % ByteBase]
    BY <1>3 DEF ReadOverflow
  <2>2. overflowCount = Weight[1] * (overflowCount \div Weight[1]) + (overflowCount % ByteBase)
    BY <1>1, WeightFacts, DivMod
  <2>3. overflowCount % ByteBase \in Nat /\ Weight[1] * (overflowCount \div Weight[1]) \in Int
    BY <1>1, WeightFacts, DivMod
  <2>4. /\ Told = reported + overflowCount
        /\ Told' = reported + (answer'.count + Weight[1] * (overflowCount \div Weight[1]))
    BY <1>1, <2>1 DEF Told
  <2> QED
    BY <1>1, <2>1, <2>2, <2>3, <2>4
<1>4. CASE ReadOverflowByte
  <2> DEFINE w == Weight[byte]  q == overflowCount \div w
             part == (q % ByteBase) * w
  <2>1. /\ pc = "readOverflow" /\ answer.count \in Nat /\ byte \in 1 .. 3
        /\ w \in Nat \ {0} /\ ByteBase \in Nat \ {0}
    BY <1>4, WeightFacts DEF ReadOverflowByte, IInv, Reading
  <2>2. q \in Nat /\ q % ByteBase \in Nat
    BY <1>1, <2>1, DivMod
  <2>3. part \in Nat /\ w * q \in Nat
    BY <2>1, <2>2
  <2>4. answer' = [kind |-> "overflow", count |-> answer.count + part]
    BY <1>4 DEF ReadOverflowByte
  <2>5. Told = reported + (answer.count + w * q)
    BY <2>1 DEF Told
  <2>6. CASE byte = 3
    <3>1. reported' = reported + answer'.count /\ pc' = "resetOverflow"
      BY <1>4, <2>6 DEF ReadOverflowByte
    <3>2. w * q <= overflowCount
      BY <1>1, <2>1, DivMod
    <3>3. overflowCount < w * ByteBase
      BY <1>1, <2>6, WeightFacts, ClientAssumption DEF Counted, IInv
    <3>4. q < ByteBase
      <4>1. ASSUME q >= ByteBase PROVE FALSE
        <5>1. w * ByteBase <= w * q
          BY <2>1, <2>2, <4>1, ProdLe
        <5>2. w * ByteBase \in Nat
          BY <2>1
        <5> QED
          BY <1>1, <2>3, <3>2, <3>3, <5>1, <5>2
      <4> QED
        BY <2>1, <2>2, <4>1
    <3> HIDE DEF w, q
    <3>5. q % ByteBase = q
      BY <2>1, <2>2, <3>4
    <3>6. part = w * q
      BY <2>1, <2>2, <3>5
    <3> QED
      BY <1>1, <2>1, <2>3, <2>4, <2>5, <3>1, <3>6 DEF Told
  <2>7. CASE byte # 3
    <3>1. byte' = byte + 1 /\ UNCHANGED <<reported, pc>>
      BY <1>4, <2>7 DEF ReadOverflowByte
    <3>2. Weight[byte + 1] \in Nat \ {0} /\ Weight[byte + 1] = w * ByteBase
      BY <2>1, <2>7, WeightFacts
    <3> DEFINE v == Weight[byte + 1]  z == v * (overflowCount \div v)
    <3>3. w * q = part + z
      <4>1. v \in Nat \ {0} /\ v = w * ByteBase
        BY <3>2
      <4>2. overflowCount \in Nat
        BY <1>1
      <4>3. w \in Nat \ {0} /\ ByteBase \in Nat \ {0}
        BY <2>1
      <4> HIDE DEF w, v
      <4>4. w * (overflowCount \div w)
              = ((overflowCount \div w) % ByteBase) * w + v * (overflowCount \div v)
        BY <4>1, <4>2, <4>3, Split, ZenonT(60)
      <4> QED
        BY <4>4, ZenonT(60) DEF q, part, z
    <3>4. z \in Int
      BY <1>1, <3>2, DivMod
    <3>5. Told' = reported + (answer'.count + z)
      BY <1>1, <2>1, <3>1 DEF Told
    <3> HIDE DEF w, q, part, z
    <3> QED
      BY <1>1, <2>1, <2>3, <2>4, <2>5, <3>3, <3>4, <3>5
  <2> QED
    BY <2>6, <2>7
<1> QED
  BY <1>3, <1>4

\* The other steps of radio and host do not touch the counter, or set it to
\* zero when it has been told of.
LEMMA CountedKept ==
  ASSUME IInv, Counted, [Next]_vars
  PROVE  Counted'
<1>1. /\ {overflowCount, dropped, arrived, missed, reported} \subseteq Nat
  BY DEF IInv, TypeOK
<1>2. CASE UNCHANGED <<counterVars, answer, pc, dropped>> /\ arrived' \in {arrived, arrived + 1}
  BY <1>1, <1>2 DEF Counted, Told, counterVars
<1>3. CASE /\ pc \notin {"readOverflow", "resetOverflow"} /\ pc' \notin {"readOverflow", "resetOverflow"}
           /\ UNCHANGED <<counterVars, dropped, arrived>>
  BY <1>1, <1>3 DEF Counted, Told, counterVars
<1>4. CASE ResetOverflow
  BY <1>1, <1>4 DEF ResetOverflow, Counted, Told
<1>5. CASE ReceiveBroken \/ Receive \/ ReceiveLost
  BY <1>2, <1>5 DEF ReceiveBroken, Receive, ReceiveLost
<1>6. CASE \/ ReadBufEmpty \/ ReadBuf \/ Respond \/ ReadPending
           \/ (\E len \in Lengths : Config(len)) \/ InitRead \/ InitWrite \/ MacInit
  BY <1>3, <1>6 DEF ReadBufEmpty, ReadBuf, Respond, ReadPending, Config, InitRead, InitWrite,
                    MacInit
<1>7. CASE UNCHANGED vars
  BY <1>2, <1>7 DEF vars
<1> QED
  BY <1>4, <1>5, <1>6, <1>7, CountedOverflow, CountedReading DEF Next

-----------------------------------------------------------------------------
(* The theorems *)

\* The receive path's variables keep their types, the ring its limit.
THEOREM TypeCorrect == Spec => []TypeOK
<1>1. IInv => TypeOK
  BY DEF IInv
<1> QED
  BY <1>1, Inductive, PTL

\* READBUF always answers with the whole packet, apart from those that the
\* radio receives in the middle of CONFIG.
THEOREM PacketsAreWhole == Spec => []WholePackets
<1>1. IInv => WholePackets
  BY DEF IInv
<1> QED
  BY <1>1, Inductive, PTL

\* The host can rely on RXPENDING.
THEOREM PendingCanBeRead == Spec => []PendingIsPromise
<1>1. IInv => PendingIsPromise
  BY DEF IInv
<1> QED
  BY <1>1, Inductive, PTL

\* Every overflow is in what the host has been told or will be told, but for
\* those between the reading of the counter's first byte and its reset; without
\* a carry into a byte not yet read the sum is exact.  For a byte of any size.
THEOREM OverflowAccount == Spec => []OverflowsCounted
<1>1. Init => Counted
  BY DEF Init, Counted, Told
<1>2. IInv /\ Counted /\ [Next]_vars => Counted'
  BY CountedKept
<1>3. Counted => OverflowsCounted
  BY DEF Counted, Told, OverflowsCounted, ReadingOverflow
<1> QED
  BY <1>1, <1>2, <1>3, Inductive, PTL DEF Spec

\* The host reads packets in the order of their arrival, none twice.
THEOREM ReadsInOrder == Spec => InOrder
<1> DEFINE InOrderStep == lastRead' # lastRead =>
                            /\ lastRead' > lastRead
                            /\ \A k \in DOMAIN rxFifo : rxFifo[k].number > lastRead'
<1>1. IInv /\ [Next]_vars => [InOrderStep]_vars
  <2> SUFFICES ASSUME IInv, Next, lastRead' # lastRead PROVE InOrderStep
    OBVIOUS
  <2>1. Respond
    BY DEF Next, ReceiveBroken, Receive, ReceiveLost, ReceiveOverflow, ReadBufEmpty, ReadBuf,
           ReadPending, ReadOverflow, ReadOverflowByte, ResetOverflow, Config, InitRead,
           InitWrite, MacInit
  <2>2. inHand.number \in Nat /\ lastRead \in Nat
        /\ \A k \in DOMAIN rxFifo : rxFifo[k].number \in Nat
    BY NumberTypes DEF IInv
  <2> QED
    BY <2>1, <2>2 DEF Respond, IInv, Ordered
<1> QED
  BY <1>1, Inductive, PTL DEF Spec, InOrder

=============================================================================

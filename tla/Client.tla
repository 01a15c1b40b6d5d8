------------------------------- MODULE Client -------------------------------
(***************************************************************************)
(* The receiving side of a station: from the end of a message (rxeom of    *)
(* fmac.c) over the receive ring to the host's commands READBUF, READREG   *)
(* and WRITEREG (spiclient.c).                                             *)
(*                                                                         *)
(* The radio interrupts the host interface between any two of its steps    *)
(* and runs to completion, so its handler is one step.  The receive ring   *)
(* is the bounded queue that module Fifo shows it to be, except while      *)
(* fifoInit stores its pointers one after the other: then what counts is   *)
(* where write points to.  WRITEBUF and the sending half of CONFIG are in  *)
(* module Fmac, the words of a command in module Line.                     *)
(***************************************************************************)
EXTENDS Integers, Sequences

CONSTANTS
  Lengths,    \* payload sizes a CONFIG command may carry
  Capacity,   \* packets the receive ring holds (spiclient.h:42: 2)
  MaxArrivals,\* bound: packets that arrive altogether
  ByteBase    \* values of a byte: 256

\* What one of bytes 1, 2 and 3 of a counter counts for.
Weight == <<ByteBase, ByteBase * ByteBase, ByteBase * ByteBase * ByteBase>>

\* Fewer packets arrive than the four bytes of overflowCount can count.
ASSUME ClientAssumption ==
  /\ Capacity \in Nat \ {0} /\ MaxArrivals \in Nat
  /\ ByteBase \in Nat /\ ByteBase > 1 /\ MaxArrivals < ByteBase * Weight[3]
  /\ Lengths \subseteq 1 .. 28  \* crc32Init accepts no more

VARIABLES
  payloadSize,   \* spiclient.payloadSize
  payloadLen,    \* fmacCtx.payloadLen, 0 before the first CONFIG
  rxFifo,        \* receive ring: its packets ...
  write,         \* ... and the slot the next one goes to
  overflowCount, \* packets that found the ring full
  answer, byte,  \* what the hardware FIFO holds for the host; next byte of
                 \* the counter to go there
  pc, inHand,    \* next step of the host interface, the packet it has popped
  \* history: packets received, packets lost to a full ring, overflows the
  \* host has been told of, overflows between the reading of the counter's
  \* first byte and its reset, has one of them carried into a byte not yet
  \* read, number of the last packet the host was given, packets the host may
  \* still expect after the last RXPENDING
  arrived, dropped, reported, missed, torn, lastRead, promised

counterVars == <<overflowCount, byte, reported, missed, torn>>
vars == <<payloadSize, payloadLen, rxFifo, write, counterVars, answer, pc, inHand,
          arrived, dropped, lastRead, promised>>

NoPacket == [number |-> 0, size |-> 0, early |-> FALSE]
NoAnswer == [kind |-> "none"]

Init ==
  /\ payloadSize = 0 /\ payloadLen = 0
  /\ rxFifo = <<>> /\ write = 0 /\ overflowCount = 0
  /\ answer = NoAnswer /\ byte = 0
  /\ pc = "idle" /\ inHand = NoPacket
  /\ arrived = 0 /\ dropped = 0 /\ reported = 0 /\ missed = 0 /\ torn = FALSE
  /\ lastRead = 0 /\ promised = 0

\* fifoPushAlloc and fifoPushCommit on the ring's Capacity + 1 slots.
Advance(slot) == IF slot = Capacity THEN 0 ELSE slot + 1

\* Between the two stores of fifoInit, read is 0 already.
RingFull == IF pc = "initWrite" THEN Advance(write) = 0 ELSE Len(rxFifo) = Capacity

-----------------------------------------------------------------------------
(* The radio *)

\* A message the radio's FIFO overflowed on, or that does not decode: rxeom
\* gives it up.  The assertion on a full bit buffer (fmac.c:142) holds: the
\* radio ends a message after the number of bits fmacInit has set, which fits.
ReceiveBroken ==
  /\ payloadLen > 0 /\ arrived < MaxArrivals
  /\ arrived' = arrived + 1
  /\ UNCHANGED <<payloadSize, payloadLen, rxFifo, write, counterVars, answer, pc,
                 inHand, dropped, lastRead, promised>>

\* Seeded fault: the ring's limit is not looked at.
ReceiveNoLimit ==
  /\ payloadLen > 0 /\ arrived < MaxArrivals
  /\ write' = Advance(write)
  /\ arrived' = arrived + 1
  /\ rxFifo' = Append(rxFifo, [number |-> arrived', size |-> payloadLen,
                               early |-> pc = "fmacInit"])
  /\ UNCHANGED <<payloadSize, payloadLen, counterVars, answer, pc, inHand, dropped,
                 lastRead, promised>>

\* rxeom and spiclientRx, there is room: payloadLen bytes are copied.
Receive ==
  /\ payloadLen > 0 /\ arrived < MaxArrivals
  /\ pc # "initWrite" /\ ~ RingFull
  /\ write' = Advance(write)
  /\ arrived' = arrived + 1
  /\ rxFifo' = Append(rxFifo, [number |-> arrived', size |-> payloadLen,
                               early |-> pc = "fmacInit"])
  /\ UNCHANGED <<payloadSize, payloadLen, counterVars, answer, pc, inHand, dropped,
                 lastRead, promised>>

\* Between the two stores of fifoInit the packet goes to a slot that the second
\* store puts out of the ring.
ReceiveLost ==
  /\ payloadLen > 0 /\ arrived < MaxArrivals
  /\ pc = "initWrite" /\ ~ RingFull
  /\ write' = Advance(write)
  /\ arrived' = arrived + 1
  /\ UNCHANGED <<payloadSize, payloadLen, rxFifo, counterVars, answer, pc, inHand,
                 dropped, lastRead, promised>>

\* Seeded fault: a full ring makes room by dropping its oldest packet.
ReceiveOverflowShifts ==
  /\ payloadLen > 0 /\ arrived < MaxArrivals
  /\ RingFull
  /\ arrived' = arrived + 1
  /\ rxFifo' = IF rxFifo = <<>> THEN <<>> ELSE Tail(rxFifo)
  /\ overflowCount' = overflowCount + 1
  /\ dropped' = dropped + 1
  /\ UNCHANGED <<payloadSize, payloadLen, write, byte, answer, pc, inHand, reported,
                 missed, torn, lastRead, promised>>

\* The increment carries into byte k of the counter.
Carries(k) == (overflowCount + 1) % Weight[k] = 0

\* rxeom and spiclientRx, the ring is full.  While the host interface reads the
\* counter the increment comes too late for its first byte, and tears the value
\* if it carries into the next one to be read.
ReceiveOverflow ==
  /\ payloadLen > 0 /\ arrived < MaxArrivals
  /\ RingFull
  /\ arrived' = arrived + 1
  /\ overflowCount' = overflowCount + 1
  /\ dropped' = dropped + 1
  /\ missed' = IF pc \in {"readOverflow", "resetOverflow"} THEN missed + 1 ELSE missed
  /\ torn' = (torn \/ (pc = "readOverflow" /\ Carries(byte)))
  /\ UNCHANGED <<payloadSize, payloadLen, rxFifo, write, byte, answer, pc, inHand,
                 reported, lastRead, promised>>

-----------------------------------------------------------------------------
(* Commands of the host.  Each one discards an answer not yet collected. *)

\* READBUF, nothing received: no answer.
ReadBufEmpty ==
  /\ pc = "idle" /\ rxFifo = <<>>
  /\ answer' = NoAnswer
  /\ promised' = 0
  /\ UNCHANGED <<payloadSize, payloadLen, rxFifo, write, counterVars, pc, inHand,
                 arrived, dropped, lastRead>>

\* Seeded fault: the ring gives its newest packet.
ReadBufNewest ==
  /\ pc = "idle" /\ rxFifo # <<>>
  /\ answer' = NoAnswer
  /\ inHand' = rxFifo[Len(rxFifo)]
  /\ rxFifo' = SubSeq(rxFifo, 1, Len(rxFifo) - 1)
  /\ promised' = IF promised > 0 THEN promised - 1 ELSE 0
  /\ pc' = "respond"
  /\ UNCHANGED <<payloadSize, payloadLen, write, counterVars, arrived, dropped,
                 lastRead>>

\* READBUF: fifoPop ...
ReadBuf ==
  /\ pc = "idle" /\ rxFifo # <<>>
  /\ answer' = NoAnswer
  /\ inHand' = Head(rxFifo)
  /\ rxFifo' = Tail(rxFifo)
  /\ promised' = IF promised > 0 THEN promised - 1 ELSE 0
  /\ pc' = "respond"
  /\ UNCHANGED <<payloadSize, payloadLen, write, counterVars, arrived, dropped,
                 lastRead>>

\* ... and queueResponse of payloadSize bytes, whatever was copied into the slot.
Respond ==
  /\ pc = "respond"
  /\ answer' = [kind |-> "packet", packet |-> inHand, size |-> payloadSize]
  /\ lastRead' = inHand.number
  /\ inHand' = NoPacket
  /\ pc' = "idle"
  /\ UNCHANGED <<payloadSize, payloadLen, rxFifo, write, counterVars, arrived, dropped,
                 promised>>

\* READREG RXPENDING
ReadPending ==
  /\ pc = "idle"
  /\ answer' = [kind |-> "pending", count |-> Len(rxFifo)]
  /\ promised' = Len(rxFifo)
  /\ UNCHANGED <<payloadSize, payloadLen, rxFifo, write, counterVars, pc, inHand,
                 arrived, dropped, lastRead>>

\* READREG RXOVERFLOW: queueResponse gets the address of the counter and takes
\* its bytes, the lowest one first ...
ReadOverflow ==
  /\ pc = "idle"
  /\ answer' = [kind |-> "overflow", count |-> overflowCount % ByteBase]
  /\ byte' = 1
  /\ pc' = "readOverflow"
  /\ UNCHANGED <<payloadSize, payloadLen, rxFifo, write, overflowCount, inHand, arrived,
                 dropped, reported, missed, torn, lastRead, promised>>

\* ... from the variable the radio goes on counting in ...
ReadOverflowByte ==
  /\ pc = "readOverflow"
  /\ LET value == (overflowCount \div Weight[byte]) % ByteBase
     IN  answer' = [kind |-> "overflow", count |-> answer.count + value * Weight[byte]]
  /\ IF byte = 3
       THEN byte' = 0 /\ reported' = reported + answer'.count /\ pc' = "resetOverflow"
       ELSE byte' = byte + 1 /\ UNCHANGED <<reported, pc>>
  /\ UNCHANGED <<payloadSize, payloadLen, rxFifo, write, overflowCount, inHand, arrived,
                 dropped, missed, torn, lastRead, promised>>

\* Seeded fault: the counter is not reset.
ResetOverflowNot ==
  /\ pc = "resetOverflow"
  /\ pc' = "idle"
  /\ UNCHANGED <<payloadSize, payloadLen, rxFifo, write, counterVars, answer, inHand,
                 arrived, dropped, lastRead, promised>>

\* ... which is then set to zero.
ResetOverflow ==
  /\ pc = "resetOverflow"
  /\ overflowCount' = 0
  /\ pc' = "idle"
  /\ UNCHANGED <<payloadSize, payloadLen, rxFifo, write, byte, answer, inHand, arrived,
                 dropped, reported, missed, torn, lastRead, promised>>

\* WRITEREG CONFIG: the new size ...
Config(len) ==
  /\ pc = "idle"
  /\ answer' = NoAnswer
  /\ payloadSize' = len
  /\ pc' = "initFifos"
  /\ UNCHANGED <<payloadLen, rxFifo, write, counterVars, inHand, arrived, dropped,
                 lastRead, promised>>

\* Seeded fault: the pointer to the oldest packet stays.
InitReadNot ==
  /\ pc = "initFifos"
  /\ promised' = 0
  /\ pc' = "initWrite"
  /\ UNCHANGED <<payloadSize, payloadLen, rxFifo, write, counterVars, answer, inHand,
                 arrived, dropped, lastRead>>

\* ... initFifos: fifoInit sets read ...
InitRead ==
  /\ pc = "initFifos"
  /\ rxFifo' = <<>>
  /\ promised' = 0
  /\ pc' = "initWrite"
  /\ UNCHANGED <<payloadSize, payloadLen, write, counterVars, answer, inHand, arrived,
                 dropped, lastRead>>

\* ... and write ...
InitWrite ==
  /\ pc = "initWrite"
  /\ write' = 0
  /\ pc' = "fmacInit"
  /\ UNCHANGED <<payloadSize, payloadLen, rxFifo, counterVars, answer, inHand, arrived,
                 dropped, lastRead, promised>>

\* ... and fmacInit.
MacInit ==
  /\ pc = "fmacInit"
  /\ payloadLen' = payloadSize
  /\ pc' = "idle"
  /\ UNCHANGED <<payloadSize, rxFifo, write, counterVars, answer, inHand, arrived,
                 dropped, lastRead, promised>>

Next ==
  \/ ReceiveBroken \/ Receive \/ ReceiveLost \/ ReceiveOverflow
  \/ ReadBufEmpty \/ ReadBuf \/ Respond \/ ReadPending
  \/ ReadOverflow \/ ReadOverflowByte \/ ResetOverflow
  \/ (\E len \in Lengths : Config(len)) \/ InitRead \/ InitWrite \/ MacInit

Spec == Init /\ [][Next]_vars

-----------------------------------------------------------------------------
(* Properties *)

Packet == [number : 0 .. MaxArrivals, size : Lengths \cup {0}, early : BOOLEAN]

TypeOK ==
  /\ payloadSize \in Lengths \cup {0} /\ payloadLen \in Lengths \cup {0}
  /\ rxFifo \in Seq(Packet) /\ Len(rxFifo) <= Capacity
  /\ write \in 0 .. Capacity /\ overflowCount \in Nat
  /\ byte \in 0 .. 3 /\ torn \in BOOLEAN
  /\ inHand \in Packet
  /\ pc \in {"idle", "respond", "readOverflow", "resetOverflow", "initFifos", "initWrite",
             "fmacInit"}
  /\ {arrived, dropped, reported, missed, lastRead, promised} \subseteq Nat

\* Packets reach the host in the order in which the radio received them, none
\* twice, however READBUF is interrupted.
InOrder ==
  [][lastRead' # lastRead =>
       /\ lastRead' > lastRead
       /\ \A k \in DOMAIN rxFifo : rxFifo[k].number > lastRead']_vars

\* READBUF answers with the whole packet and nothing else: the ring never holds
\* packets of an earlier payload size, apart from those the radio receives in
\* the middle of CONFIG.
WholePackets ==
  answer.kind = "packet" /\ ~ answer.packet.early => answer.size = answer.packet.size

\* After RXPENDING has said k, each of the next k READBUFs yields a packet, as
\* long as the host does not reconfigure the station.
PendingIsPromise == promised <= Len(rxFifo)

ReadingOverflow == pc \in {"readOverflow", "resetOverflow"}

\* The host's sum of RXOVERFLOW and the counter are the overflows there were,
\* less those that fell between the reading of the counter's first byte and its
\* reset: no other is lost, and CONFIG keeps the counter.  None is counted twice
\* either, unless a carry has torn a value the host was reading: it is then told
\* of too many, never of too few.  (Packets fifoInit puts out of the ring are no
\* overflows for the code either.)
OverflowsCounted ==
  ~ ReadingOverflow =>
    /\ reported + overflowCount + missed >= dropped
    /\ ~ torn => reported + overflowCount + missed = dropped

\* "buffer overflows, reset on read": what the host adds up is what happened.
OverflowsAccounted == ~ ReadingOverflow => reported + overflowCount = dropped

=============================================================================

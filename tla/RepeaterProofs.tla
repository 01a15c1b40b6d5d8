--------------------------- MODULE RepeaterProofs ---------------------------
(***************************************************************************)
(* Proof that a station implements the safety part of Repeater: packets    *)
(* are sent in the order in which the host wrote them, each one n times,   *)
(* for any packets, ring size and number of framelets, if the host sends   *)
(* CONFIG to a quiet station only.  The invariant is that of FmacProofs.   *)
(***************************************************************************)
EXTENDS FmacProofs

-----------------------------------------------------------------------------
(* Packets not yet taken, as a function of control, hands and ring *)

Taken(place) == {c \in Contexts : place[c] \in {"send", "start"}}

Queue(place, hands, ring) ==
  IF Taken(place) = {} THEN ring
  ELSE <<hands[CHOOSE c \in Taken(place) : TRUE]>> \o ring

\* The refinement mapping in these terms.
LEMMA WaitingIsQueue ==
  /\ Waiting = Queue(pc, item, InRing)
  /\ Waiting' = Queue(pc', item', InRing')
  BY DEF Waiting, Queue, Taken

\* A set with one element leaves no choice.
LEMMA OnlyChoice == \A c : (CHOOSE d \in {c} : TRUE) = c
  OBVIOUS

\* Taking the first packet into one's hands does not change the order.
LEMMA HeadInHand ==
  ASSUME NEW ring \in Seq(Packets), ring # <<>>
  PROVE  Head(ring) \in Packets /\ Tail(ring) \in Seq(Packets)
         /\ <<Head(ring)>> \o Tail(ring) = ring
  OBVIOUS

\* What is in hand is the head of the queue.
LEMMA HandIsHead ==
  ASSUME NEW ring \in Seq(Packets), NEW p \in Packets
  PROVE  /\ <<p>> \o ring # <<>>
         /\ Head(<<p>> \o ring) = p
         /\ Tail(<<p>> \o ring) = ring
  OBVIOUS

\* No two contexts hold a packet, and whoever pops or holds one does so while
\* the station is idle.
LEMMA OneTaker ==
  ASSUME IInv, NEW c \in Contexts, pc[c] \in SendPath \cup {"dispatch"} \cup FlushSteps,
         At(c, pc[c])
  PROVE  \A d \in Contexts : d # c => pc[d] \notin SendPath
  BY DEF IInv, Control, Contexts, SendPath, FlushSteps, At

\* A context that neither begins nor ends to hold a packet does not change who
\* holds one.
LEMMA TakenKept ==
  ASSUME pc \in [Contexts -> Labels], NEW c \in Contexts, NEW label, Goto(c, label),
         pc[c] \in {"send", "start"} <=> label \in {"send", "start"}
  PROVE  Taken(pc') = Taken(pc)
  BY DEF Taken, Goto

\* A step outside of fifoInit that leaves the ring alone does not change what
\* is in it.
LEMMA RingKept ==
  ASSUME pc \in [Contexts -> Labels], NEW c \in Contexts, NEW label, Goto(c, label),
         pc[c] # "initWrite", label # "initWrite", UNCHANGED txFifo
  PROVE  InRing' = InRing
  BY DEF InRing, Goto, Contexts

\* While a packet is pushed or taken, the ring holds what it seems to hold.
LEMMA RingOpen ==
  ASSUME IInv, NEW c \in Contexts, pc[c] \in SendPath \cup {"commit"}
  PROVE  pc["spi"] # "initWrite" /\ txFifo \in Seq(Packets)
<1>1. pc["spi"] # "initWrite"
  <2>1. CASE c = "spi"
    BY <2>1 DEF SendPath
  <2>2. CASE c = "sched"
    <3>1. pc["sched"] \in SendPath
      BY <2>2 DEF IInv, TypeOK, ControlTypeOK, HostLabels
    <3> QED
      BY <3>1 DEF IInv, Control, ConfigSteps, SendPath
  <2> QED
    BY <2>1, <2>2 DEF Contexts
<1> QED
  BY <1>1 DEF IInv, Wakeup

\* Nothing the repeater sees has changed.
LEMMA Unseen ==
  ASSUME UNCHANGED <<initialized, current, attempts, n, InRing, item>>,
         Taken(pc') = Taken(pc)
  PROVE  UNCHANGED Service!rvars
  BY WaitingIsQueue DEF Queue, Service!rvars

-----------------------------------------------------------------------------
(* Every step of a station is a step of the repeater or unseen *)

\* Steps between framelets, of the radio, the timer and the encoder.
LEMMA InnerStep ==
  ASSUME IInv, NEW c \in Contexts,
         \/ DispatchSend(c) \/ Event(c) \/ TestMode(c) \/ ModeSet(c) \/ ModeSetFails(c)
         \/ TxReadyDirect(c) \/ FifoWrite(c) \/ PopEmpty(c) \/ SendEncode(c)
  PROVE  UNCHANGED Service!rvars
<1> USE DEF At, fmVars, radioVars, ghostVars
<1>1. pc \in [Contexts -> Labels]
  BY DEF IInv, TypeOK, ControlTypeOK
<1>2. CASE DispatchSend(c)
  BY <1>1, <1>2, TakenKept, RingKept, Unseen DEF DispatchSend
<1>10. CASE Event(c)
  BY <1>1, <1>10, TakenKept, RingKept, Unseen DEF Event
<1>3. CASE TestMode(c)
  <2> DEFINE label == IF InTx THEN "direct" ELSE "modeSet"
  <2>1. Goto(c, label) /\ label \notin {"send", "start", "initWrite"} /\ pc[c] = "testMode"
    BY <1>3 DEF TestMode
  <2> HIDE DEF label
  <2>2. Taken(pc') = Taken(pc)
    BY <1>1, <2>1, TakenKept
  <2>3. InRing' = InRing
    BY <1>1, <1>3, <2>1, RingKept DEF TestMode
  <2> QED
    BY <1>3, <2>2, <2>3, Unseen DEF TestMode
<1>4. CASE ModeSet(c)
  BY <1>1, <1>4, TakenKept, RingKept, Unseen DEF ModeSet
<1>5. CASE ModeSetFails(c)
  BY <1>1, <1>5, TakenKept, RingKept, Unseen DEF ModeSetFails
<1>6. CASE TxReadyDirect(c)
  BY <1>1, <1>6, TakenKept, RingKept, Unseen DEF TxReadyDirect, InRing, Fail
<1>7. CASE FifoWrite(c)
  BY <1>1, <1>7, TakenKept, RingKept, Unseen DEF FifoWrite
<1>8. CASE PopEmpty(c)
  BY <1>1, <1>8, TakenKept, RingKept, Unseen DEF PopEmpty
<1>9. CASE SendEncode(c)
  BY <1>1, <1>9, TakenKept, RingKept, Unseen DEF SendEncode, InRing, Fail
<1> QED
  BY <1>2, <1>3, <1>4, <1>5, <1>6, <1>7, <1>8, <1>9, <1>10

\* Commands other than the commit of a packet, and CONFIG's steps around
\* fmacInit: a station that is configured is quiet, its ring empty already, and
\* nothing pops while fifoInit is between its stores.
LEMMA HostStep ==
  ASSUME IInv,
         \/ \E p \in Packets : HostWrite(p)
         \/ \E len \in Lengths : HostConfig(len)
         \/ HostTrigger \/ InitRead \/ InitWrite \/ InitRegisters \/ InitWaitEnd
  PROVE  UNCHANGED Service!rvars
<1> USE DEF At, fmVars, radioVars, ghostVars
<1>1. pc \in [Contexts -> Labels] /\ "spi" \in Contexts
  BY DEF IInv, TypeOK, ControlTypeOK, Contexts
<1>2. ASSUME NEW p \in Packets, HostWrite(p) PROVE UNCHANGED Service!rvars
  <2>1. Taken(pc) = {} /\ Taken(pc') = {}
    BY <1>1, <1>2 DEF HostWrite, Taken, Goto, Contexts
  <2>2. InRing' = InRing
    BY <1>1, <1>2, RingKept DEF HostWrite
  <2>3. Waiting' = Waiting
    BY <2>1, <2>2, WaitingIsQueue DEF Queue
  <2> QED
    BY <1>2, <2>3 DEF HostWrite, Service!rvars
<1>3. ASSUME NEW len \in Lengths, HostConfig(len) PROVE UNCHANGED Service!rvars
  BY <1>1, <1>3, TakenKept, RingKept, Unseen DEF HostConfig
<1>4. CASE HostTrigger
  <2> DEFINE label == IF fmacCanSend THEN "pop" ELSE "idle"
  <2>1. Goto("spi", label) /\ label \notin {"send", "start", "initWrite"} /\ pc["spi"] = "trigger"
    BY <1>4 DEF HostTrigger
  <2> HIDE DEF label
  <2>2. Taken(pc') = Taken(pc)
    BY <1>1, <2>1, TakenKept
  <2>3. InRing' = InRing
    BY <1>1, <1>4, <2>1, RingKept DEF HostTrigger
  <2> QED
    BY <1>4, <2>2, <2>3, Unseen DEF HostTrigger
<1>5. CASE InitRead
  <2>1. InRing' = InRing
    BY <1>1, <1>5 DEF InitRead, Goto, InRing, IInv, Wakeup, ConfigSteps
  <2> QED
    BY <1>1, <1>5, <2>1, TakenKept, Unseen DEF InitRead
<1>6. CASE InitWrite
  <2>1. write - Len(txFifo) = 0
    BY <1>6 DEF InitWrite, IInv, Wakeup, TypeOK, ClientTypeOK
  <2>2. InRing = <<>> /\ InRing' = <<>>
    BY <1>1, <1>6, <2>1 DEF InitWrite, Goto, InRing
  <2> QED
    BY <1>1, <1>6, <2>2, TakenKept, Unseen DEF InitWrite
<1>7. CASE InitRegisters
  BY <1>7, Unseen DEF InitRegisters, Fail, InRing
<1>8. CASE InitWaitEnd
  BY <1>1, <1>8, TakenKept, RingKept, Unseen DEF InitWaitEnd
<1> QED
  BY <1>2, <1>3, <1>4, <1>5, <1>6, <1>7, <1>8

\* The interrupts of timer and radio.
LEMMA InterruptStep ==
  ASSUME IInv, Expire \/ SchedIrq \/ TxReadyIrq \/ TxEmptyIrq \/ ReturnToRx
  PROVE  UNCHANGED Service!rvars
<1> USE DEF At, fmVars, radioVars, ghostVars
<1>1. pc \in [Contexts -> Labels] /\ "sched" \in Contexts
  BY DEF IInv, TypeOK, ControlTypeOK, Contexts
<1>2. CASE SchedIrq
  BY <1>1, <1>2, TakenKept, RingKept, Unseen DEF SchedIrq
<1>3. CASE Expire \/ TxReadyIrq \/ TxEmptyIrq \/ ReturnToRx
  BY <1>3, Unseen DEF Expire, TxReadyIrq, TxEmptyIrq, ReturnToRx, InRing
<1> QED
  BY <1>2, <1>3

\* fifoPushCommit submits a packet: the ring has room since fifoPushAlloc said
\* so, nobody else pushes.
LEMMA CommitStep ==
  ASSUME IInv, HostCommit
  PROVE  \E p \in Packets : Service!Submit(p)
<1>1. pc["spi"] = "commit" /\ pc["sched"] = "idle" /\ pc \in [Contexts -> Labels]
  BY DEF HostCommit, At, IInv, TypeOK, ControlTypeOK
<1>2. Taken(pc) = {} /\ Taken(pc') = {}
  BY <1>1 DEF HostCommit, Goto, Taken, Contexts
<1>3. Waiting = txFifo /\ Waiting' = txFifo'
  <2>1. InRing = txFifo /\ InRing' = txFifo'
    BY <1>1 DEF HostCommit, Goto, InRing, Contexts
  <2> QED
    BY <1>2, <2>1, WaitingIsQueue DEF Queue
<1>4. item["spi"] \in Packets /\ Len(txFifo) < Capacity
  BY <1>1 DEF IInv, Sending, Wakeup
<1> QED
  BY <1>3, <1>4 DEF HostCommit, Service!Submit, fmVars, ghostVars

\* fmacInit configures an idle station.
LEMMA InitStep ==
  ASSUME IInv, NEW count \in FrameletCounts, NEW obeys \in BOOLEAN, fmacInit(count, obeys)
  PROVE  Service!Configure
<1>1. pc["spi"] = "fmacInit" /\ pc \in [Contexts -> Labels] /\ "spi" \in Contexts
  BY DEF fmacInit, At, IInv, TypeOK, ControlTypeOK, Contexts
<1>2. current = NoPacket
  BY <1>1 DEF IInv, StateFits, Sending, ConfigSteps
<1>3. Taken(pc') = Taken(pc)
  BY <1>1, TakenKept DEF fmacInit
<1>4. Waiting' = Waiting
  <2>1. InRing' = InRing
    BY <1>1, RingKept DEF fmacInit
  <2> QED
    BY <1>3, <2>1, WaitingIsQueue DEF fmacInit, Queue
<1> QED
  BY <1>2, <1>4 DEF fmacInit, Service!Configure, ghostVars

\* A flush is an attempt: the station counts framelets before it sends them and
\* stops counting at n.
LEMMA FlushStep ==
  ASSUME IInv, NEW c \in Contexts, Flush(c)
  PROVE  Service!Attempt
<1>1. pc[c] = "flush" /\ pc \in [Contexts -> Labels]
  BY DEF Flush, At, IInv, TypeOK, ControlTypeOK
<1>2. timer = "running" /\ current # NoPacket /\ state \in {"SEND", "WAIT_END"}
  BY <1>1 DEF IInv, Control, StateFits, Sending, FlushSteps, TypeOK, StationTypeOK
<1>3. attempts + 1 = repetition /\ repetition <= n
  <2>1. attempts + 1 = repetition
    BY <1>1, <1>2 DEF IInv, Counting
  <2>2. n \in Nat /\ repetition \in Nat
    BY CountsAssumption DEF IInv, TypeOK, StationTypeOK
  <2>3. state = "SEND" => repetition < n
    BY DEF IInv, Counting
  <2>4. state = "WAIT_END" => repetition = n
    BY <1>2 DEF IInv, Counting
  <2> QED
    BY <1>2, <2>1, <2>2, <2>3, <2>4
<1>4. attempts \in Nat /\ n \in Nat
  BY CountsAssumption DEF IInv, TypeOK, StationTypeOK, ControlTypeOK
<1>5. Waiting' = Waiting
  <2>1. Taken(pc') = Taken(pc)
    BY <1>1, TakenKept DEF Flush
  <2>2. InRing' = InRing
    BY <1>1, RingKept DEF Flush
  <2> QED
    BY <2>1, <2>2, WaitingIsQueue DEF Flush, Queue
<1>6. UNCHANGED <<initialized, current, n>> /\ attempts' = attempts + 1
  BY DEF Flush, fmVars
<1> QED
  BY <1>2, <1>3, <1>4, <1>5, <1>6 DEF Service!Attempt

\* The end of a transmission: all framelets have been flushed.  After CONFIG
\* there was none, and nothing is seen.
LEMMA WaitEndStep ==
  ASSUME IInv, NEW c \in Contexts, DispatchWaitEnd(c)
  PROVE  Service!End \/ UNCHANGED Service!rvars
<1>1. pc[c] = "dispatch" /\ state = "WAIT_END" /\ pc \in [Contexts -> Labels]
  BY DEF DispatchWaitEnd, At, IInv, TypeOK, ControlTypeOK
<1>2. Taken(pc') = Taken(pc)
  BY <1>1, TakenKept DEF DispatchWaitEnd
<1>3. UNCHANGED <<initialized, attempts, n, InRing, item>> /\ current' = NoPacket
  <2>1. InRing' = InRing
    BY <1>1, RingKept DEF DispatchWaitEnd
  <2> QED
    BY <2>1 DEF DispatchWaitEnd
<1>4. CASE current = NoPacket
  BY <1>2, <1>3, <1>4, Unseen
<1>5. CASE current # NoPacket
  <2>1. timer = "off"
    BY <1>1 DEF IInv, Control, Contexts
  <2>2. ~ \E d \in Contexts : pc[d] \in {"event", "flush"}
    BY <1>1, <2>1 DEF IInv, Control, FlushSteps, Contexts, At, DispatchWaitEnd
  <2>3. attempts = n
    BY <1>1, <1>5, <2>2 DEF IInv, Counting
  <2>4. n \in Nat
    BY CountsAssumption DEF IInv, TypeOK, StationTypeOK
  <2>5. Waiting' = Waiting
    BY <1>2, <1>3, WaitingIsQueue DEF Queue
  <2> QED
    BY <1>3, <1>5, <2>3, <2>4, <2>5 DEF Service!End
<1> QED
  BY <1>4, <1>5

\* fifoPop moves the first packet from the ring to the popper's hands.
LEMMA PopStep ==
  ASSUME IInv, NEW c \in Contexts, Pop(c)
  PROVE  UNCHANGED Service!rvars
<1>1. pc[c] = "pop" /\ At(c, pc[c]) /\ pc \in [Contexts -> Labels]
      /\ item \in [Contexts -> Packets \cup {Stale, NoPacket}] /\ txFifo # <<>>
  BY DEF Pop, At, IInv, TypeOK, ControlTypeOK
<1>a. InRing = txFifo /\ InRing' = txFifo' /\ txFifo \in Seq(Packets)
  <2>1. pc["spi"] # "initWrite" /\ txFifo \in Seq(Packets)
    BY <1>1, RingOpen DEF SendPath
  <2> QED
    BY <1>1, <2>1 DEF Pop, Goto, InRing, Contexts
<1>2. \A d \in Contexts : d # c => pc[d] \notin SendPath
  BY <1>1, OneTaker DEF SendPath
<1>3. Taken(pc) = {} /\ Taken(pc') = {c}
  BY <1>1, <1>2 DEF Pop, Goto, Taken, SendPath
<1>4. item'[c] = Head(txFifo) /\ txFifo' = Tail(txFifo)
  BY <1>1 DEF Pop
<1>5. Waiting = txFifo
  BY <1>3, <1>a, WaitingIsQueue DEF Queue
<1>6. Waiting' = <<item'[c]>> \o txFifo'
  <2>1. Waiting' = Queue(pc', item', txFifo')
    BY <1>a, WaitingIsQueue
  <2>2. Queue(pc', item', txFifo') = <<item'[c]>> \o txFifo'
    BY <1>3, OnlyChoice DEF Queue
  <2> QED
    BY <2>1, <2>2
<1>7. Waiting' = Waiting
  BY <1>1, <1>a, <1>4, <1>5, <1>6, HeadInHand
<1> QED
  BY <1>7 DEF Pop, Service!rvars, fmVars, ghostVars

\* Only an unconfigured station throws a packet away.
LEMMA RefusedStep ==
  ASSUME IInv, NEW c \in Contexts, SendRefused(c)
  PROVE  Service!Discard
<1>1. pc[c] = "send" /\ At(c, pc[c]) /\ pc \in [Contexts -> Labels]
  BY DEF SendRefused, At, IInv, TypeOK, ControlTypeOK
<1>a. InRing = txFifo /\ InRing' = txFifo' /\ txFifo' = txFifo /\ txFifo \in Seq(Packets)
  <2>1. pc["spi"] # "initWrite" /\ txFifo \in Seq(Packets)
    BY <1>1, RingOpen DEF SendPath
  <2> QED
    BY <1>1, <2>1 DEF SendRefused, Goto, InRing, Contexts
<1>2. \A d \in Contexts : d # c => pc[d] \notin SendPath
  BY <1>1, OneTaker DEF SendPath
<1>3. Taken(pc) = {c} /\ Taken(pc') = {}
  BY <1>1, <1>2 DEF SendRefused, Goto, Taken, SendPath
<1>4. item[c] \in Packets
  BY <1>1 DEF IInv, Sending
<1>5. ~ initialized
  BY <1>1 DEF SendRefused, IInv, StateFits, SendPath, fmacCanSend
<1>6. Waiting = <<item[c]>> \o txFifo
  <2>1. Waiting = Queue(pc, item, txFifo)
    BY <1>a, WaitingIsQueue
  <2>2. Queue(pc, item, txFifo) = <<item[c]>> \o txFifo
    BY <1>3, OnlyChoice DEF Queue
  <2> QED
    BY <2>1, <2>2
<1>7. Waiting' = txFifo
  BY <1>3, <1>a, WaitingIsQueue DEF Queue
<1>8. Waiting # <<>> /\ Waiting' = Tail(Waiting)
  BY <1>a, <1>4, <1>6, <1>7, HandIsHead
<1> QED
  BY <1>5, <1>8 DEF SendRefused, Service!Discard, fmVars, ghostVars

\* fmacSend begins with the oldest packet, and only when the one before is done.
LEMMA SendStep ==
  ASSUME IInv, NEW c \in Contexts, SendStart(c)
  PROVE  Service!Begin
<1>1. pc[c] = "start" /\ At(c, pc[c]) /\ pc \in [Contexts -> Labels]
  BY DEF SendStart, At, IInv, TypeOK, ControlTypeOK
<1>a. InRing = txFifo /\ InRing' = txFifo' /\ txFifo' = txFifo /\ txFifo \in Seq(Packets)
  <2>1. pc["spi"] # "initWrite" /\ txFifo \in Seq(Packets)
    BY <1>1, RingOpen DEF SendPath
  <2> QED
    BY <1>1, <2>1 DEF SendStart, Goto, InRing, Contexts
<1>2. \A d \in Contexts : d # c => pc[d] \notin SendPath
  BY <1>1, OneTaker DEF SendPath
<1>3. Taken(pc) = {c} /\ Taken(pc') = {}
  BY <1>1, <1>2 DEF SendStart, Goto, Taken, SendPath
<1>4. item[c] \in Packets /\ current = NoPacket /\ initialized /\ n \in FrameletCounts
  BY <1>1 DEF IInv, Sending, StateFits, SendPath, Configured
<1>5. Waiting = <<item[c]>> \o txFifo
  <2>1. Waiting = Queue(pc, item, txFifo)
    BY <1>a, WaitingIsQueue
  <2>2. Queue(pc, item, txFifo) = <<item[c]>> \o txFifo
    BY <1>3, OnlyChoice DEF Queue
  <2> QED
    BY <2>1, <2>2
<1>6. Waiting' = txFifo
  BY <1>3, <1>a, WaitingIsQueue DEF Queue
<1>7. Waiting # <<>> /\ Waiting' = Tail(Waiting) /\ Head(Waiting) = item[c]
  BY <1>a, <1>4, <1>5, <1>6, HandIsHead
<1>8. current' = item[c] /\ current' # NoPacket /\ attempts' = 0
      /\ UNCHANGED <<n, initialized>>
  BY <1>4, PacketsAssumption DEF SendStart
<1>9. n - 0 = n
  BY <1>4, CountsAssumption
<1> QED
  BY <1>4, <1>7, <1>8, <1>9 DEF Service!Begin

-----------------------------------------------------------------------------
(* The refinement *)

LEMMA StepSimulation ==
  ASSUME IInv, [Next]_vars
  PROVE  [Service!Next]_(Service!rvars)
<1>1. CASE UNCHANGED vars
  <2>1. Taken(pc') = Taken(pc)
    BY <1>1 DEF vars
  <2> QED
    BY <1>1, <2>1, Unseen DEF vars, fmVars, ghostVars, InRing
<1>2. CASE Host
  BY <1>2, HostStep DEF Host
<1>3. CASE SpiStep
  <2>1. ASSUME NEW count \in FrameletCounts, NEW obeys \in BOOLEAN, fmacInit(count, obeys)
        PROVE  Service!Next
    BY <2>1, InitStep DEF Service!Next
  <2>2. CASE HostCommit
    BY <2>2, CommitStep DEF Service!Next
  <2> QED
    BY <1>3, <2>1, <2>2, HostStep DEF SpiStep
<1>4. ASSUME NEW c \in Contexts, Step(c) PROVE [Service!Next]_(Service!rvars)
  <2>1. ~ DispatchIdle(c) /\ ~ EventBusy(c)
    BY DEF DispatchIdle, EventBusy, At, IInv, StateFits, Control, Contexts
  <2> QED
    BY <1>4, <2>1, InnerStep, FlushStep, WaitEndStep, PopStep, RefusedStep, SendStep
       DEF Step, Service!Next
<1>5. CASE Expire \/ SchedIrq \/ TxReadyIrq \/ TxEmptyIrq \/ ReturnToRx
  BY <1>5, InterruptStep
<1> QED
  BY <1>1, <1>2, <1>3, <1>4, <1>5 DEF Next

\* A station under a host that waits is a repeater: packets are taken in the
\* order of writing, each with its n attempts before the next, in every instance.
THEOREM RepeaterSafety == HostWaits => (Spec => Service!SafeSpec)
<1> SUFFICES ASSUME HostWaits PROVE Spec => Service!SafeSpec
  OBVIOUS
<1>1. Init => Service!Init
  <2> SUFFICES ASSUME Init PROVE Service!Init
    OBVIOUS
  <2>1. Taken(pc) = {}
    BY DEF Init, Taken, Contexts
  <2>2. Waiting = <<>>
    BY <2>1, WaitingIsQueue DEF Init, Queue, InRing, Contexts
  <2> QED
    BY <2>2 DEF Init, Service!Init
<1>2. IInv /\ [Next]_vars => [Service!Next]_(Service!rvars)
  BY StepSimulation
<1> QED
  BY <1>1, <1>2, Invariance, PTL DEF Spec, Service!SafeSpec

=============================================================================

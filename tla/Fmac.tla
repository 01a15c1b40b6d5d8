-------------------------------- MODULE Fmac --------------------------------
(***************************************************************************)
(* The sending side of one station: fmac.c with the parts of main.c and    *)
(* spiclient.c that drive it and the radio and the timer it drives.        *)
(*                                                                         *)
(* Three interrupt levels share the state without a lock, main() only      *)
(* loops.  From high to low: the radio interrupt (one step per interrupt,  *)
(* except for the loop of txempty), the timer interrupt (context "sched")  *)
(* and the host interface (context "spi").  A context stands still while a *)
(* higher one runs.  Both contexts run the same code - pop a packet,       *)
(* fmacSend, dispatch, flush - so its steps are parameterised by the       *)
(* context; pc names the next step, "idle" outside the handlers.           *)
(*                                                                         *)
(* The transmit ring is the bounded queue that module Fifo shows it to be. *)
(***************************************************************************)
EXTENDS Integers, Sequences

CONSTANTS
  Packets,        \* packets the host may write
  NoPacket, Torn, \* no packet; a packet buffer that is being overwritten
  Stale,          \* the old contents of a slot, popped although not queued
  FrameletCounts, \* values of n a CONFIG command may carry
  Lengths,        \* payload sizes a CONFIG command may carry
  Capacity,       \* packets the transmit ring holds (spiclient.h:42: 2)
  HostWaits       \* does the host send CONFIG to a quiet station only

\* n arrives in one byte and has to be larger than the station's number
\* (fmac.c:359).  The sizes are those fmacInit survives: a multiple of four up
\* to 28, module Codec (fmac.c:366, packet.c:65, crc32.c:170).
ASSUME CountsAssumption == FrameletCounts \subseteq 1 .. 255
ASSUME PacketsAssumption ==
  NoPacket \notin Packets /\ Torn \notin Packets /\ NoPacket # Stale /\ Torn # Stale
ASSUME ParameterAssumption == Capacity \in Nat /\ Lengths # {} /\ HostWaits \in BOOLEAN

Contexts == {"spi", "sched"}

VARIABLES
  \* fmacCtx
  state, repetition, n, txPacket, txPacketValid, payloadLen, initialized,
  \* spiclient: configured payload size; transmit ring: slot the next packet
  \* goes to, packets from the oldest to the newest
  payloadSize, write, txFifo,
  \* CCU40 compare timer: "off", "running" or "expired" (interrupt pending)
  timer,
  \* radio: "rx" or one of the transmit modes "switching" (not ready yet),
  \* "ready" (nothing to send), "sending" and "returning" (callback txempty
  \* asks it to receive until it obeys); its two callbacks, set or NULL
  radio, txready, txempty,
  \* control: next step of a context, and the packet in its hands
  pc, item,
  \* the assertion that stopped the program, or "none"
  fault,
  \* history: packet being sent, flushes done for it, last framelet handed
  \* to the radio
  current, attempts, onAir

fmVars    == <<state, repetition, n, txPacket, txPacketValid, payloadLen, initialized>>
radioVars == <<radio, txready, txempty, onAir>>
ghostVars == <<current, attempts>>
vars == <<fmVars, payloadSize, write, txFifo, timer, radioVars, pc, item, fault, ghostVars>>

\* All of main's globals are zero at start (state 0 is FMAC_IDLE); the radio
\* has been reset and is not transmitting.
Init ==
  /\ state = "IDLE" /\ repetition = 0 /\ n = 0
  /\ txPacket = Torn /\ txPacketValid = FALSE
  /\ payloadLen = 0 /\ initialized = FALSE
  /\ payloadSize = 0 /\ write = 0 /\ txFifo = <<>>
  /\ timer = "off"
  /\ radio = "rx" /\ txready = FALSE /\ txempty = FALSE /\ onAir = NoPacket
  /\ pc = [c \in Contexts |-> "idle"]
  /\ item = [c \in Contexts |-> NoPacket]
  /\ fault = "none"
  /\ current = NoPacket /\ attempts = 0

InTx == radio # "rx" \* tda->mode == TDA_TRANSMIT_MODE

\* Seeded fault: a station waiting for the end counts as ready to send.
CanSendEarly == state # "SEND"

fmacCanSend == state = "IDLE"

-----------------------------------------------------------------------------
(* Control *)

\* c may take the step named label: no assertion has stopped the program and
\* no interrupt above c is being handled.
At(c, label) ==
  /\ fault = "none"
  /\ radio # "returning"
  /\ pc[c] = label
  /\ c = "spi" => pc["sched"] = "idle"

Goto(c, label) == pc' = [pc EXCEPT ![c] = label]

\* __assert_func: interrupts off, loop forever.
Fail(assertion) ==
  /\ fault' = assertion
  /\ UNCHANGED <<fmVars, payloadSize, write, txFifo, timer, radioVars, pc, item, ghostVars>>

-----------------------------------------------------------------------------
(* dispatch, event and flush *)

DispatchIdle(c) ==
  /\ At(c, "dispatch") /\ state = "IDLE"
  /\ Fail("dispatch while idle")

\* Case FMAC_SEND up to the call of event.
DispatchSend(c) ==
  /\ At(c, "dispatch") /\ state = "SEND"
  /\ repetition' = (repetition + 1) % 256
  /\ IF repetition' = n
       THEN state' = "WAIT_END" /\ txPacketValid' = FALSE
       ELSE UNCHANGED <<state, txPacketValid>>
  /\ Goto(c, "event")
  /\ UNCHANGED <<n, txPacket, payloadLen, initialized, payloadSize, write, txFifo,
                 timer, radioVars, item, fault, ghostVars>>

\* Seeded fault: no timer after the last framelet.
EventNoEnd(c) ==
  /\ At(c, "event") /\ timer = "off"
  /\ timer' = IF state = "WAIT_END" THEN "off" ELSE "running"
  /\ Goto(c, "flush")
  /\ UNCHANGED <<fmVars, payloadSize, write, txFifo, radioVars, item, fault, ghostVars>>

\* event: the timer is started.
Event(c) ==
  /\ At(c, "event") /\ timer = "off"
  /\ timer' = "running"
  /\ Goto(c, "flush")
  /\ UNCHANGED <<fmVars, payloadSize, write, txFifo, radioVars, item, fault, ghostVars>>

\* The assertions at the top of event.
EventBusy(c) ==
  /\ At(c, "event") /\ timer # "off"
  /\ Fail("timer already running")

\* Seeded fault: txcb is not called at the end of a transmission.
DispatchWaitEndNoTxcb(c) ==
  /\ At(c, "dispatch") /\ state = "WAIT_END"
  /\ state' = "IDLE"
  /\ current' = NoPacket
  /\ Goto(c, "idle")
  /\ UNCHANGED <<repetition, n, txPacket, txPacketValid, payloadLen, initialized,
                 payloadSize, write, txFifo, timer, radioVars, item, fault, attempts>>

\* Case FMAC_WAIT_END up to the call of txcb.
DispatchWaitEnd(c) ==
  /\ At(c, "dispatch") /\ state = "WAIT_END"
  /\ state' = "IDLE"
  /\ current' = NoPacket
  /\ Goto(c, "pop")
  /\ UNCHANGED <<repetition, n, txPacket, txPacketValid, payloadLen, initialized,
                 payloadSize, write, txFifo, timer, radioVars, item, fault, attempts>>

\* Seeded fault: flush leaves the callback of the previous framelet in place.
FlushKeepsTxempty(c) ==
  /\ At(c, "flush")
  /\ txready' = TRUE
  /\ attempts' = attempts + 1
  /\ Goto(c, "testMode")
  /\ UNCHANGED <<fmVars, payloadSize, write, txFifo, timer, radio, txempty, onAir, item,
                 fault, current>>

\* flush: the callbacks are set before the radio's mode is looked at.
Flush(c) ==
  /\ At(c, "flush")
  /\ txempty' = FALSE
  /\ txready' = TRUE
  /\ attempts' = attempts + 1
  /\ Goto(c, "testMode")
  /\ UNCHANGED <<fmVars, payloadSize, write, txFifo, timer, radio, onAir, item, fault, current>>

TestMode(c) ==
  /\ At(c, "testMode")
  /\ Goto(c, IF InTx THEN "direct" ELSE "modeSet")
  /\ UNCHANGED <<fmVars, payloadSize, write, txFifo, timer, radioVars, item, fault, ghostVars>>

\* tda5340ModeSet succeeds: the radio is told to go to transmit mode.
ModeSet(c) ==
  /\ At(c, "modeSet")
  /\ radio' = "switching"
  /\ Goto(c, "idle")
  /\ UNCHANGED <<fmVars, payloadSize, write, txFifo, timer, txready, txempty, onAir, item,
                 fault, ghostVars>>

\* Seeded fault: a failed flush gives the transmission up.
ModeSetFailsStops(c) ==
  /\ At(c, "modeSet")
  /\ txready' = FALSE
  /\ timer' = "off"
  /\ Goto(c, "idle")
  /\ UNCHANGED <<fmVars, payloadSize, write, txFifo, radio, txempty, onAir, item, fault,
                 ghostVars>>

\* tda5340ModeSet fails: flush returns false and dispatch ignores that.
ModeSetFails(c) ==
  /\ At(c, "modeSet")
  /\ txready' = FALSE
  /\ Goto(c, "idle")
  /\ UNCHANGED <<fmVars, payloadSize, write, txFifo, timer, radio, txempty, onAir, item,
                 fault, ghostVars>>

\* Seeded fault: the direct call does not ask for TXEMPTY.
TxReadyDirectNoTxempty(c) ==
  /\ At(c, "direct")
  /\ txready' = FALSE
  /\ Goto(c, "fifoWrite")
  /\ UNCHANGED <<fmVars, payloadSize, write, txFifo, timer, radio, txempty, onAir, item,
                 fault, ghostVars>>

\* txready called by flush itself because the radio is still transmitting.
TxReadyDirect(c) ==
  /\ At(c, "direct")
  /\ IF InTx
       THEN /\ txready' = FALSE
            /\ txempty' = TRUE
            /\ Goto(c, "fifoWrite")
            /\ UNCHANGED <<fmVars, payloadSize, write, txFifo, timer, radio, onAir, item,
                           fault, ghostVars>>
       ELSE Fail("not in transmit mode")

\* tda5340FifoWrite: only a transmitting radio sends what is written.
FifoWrite(c) ==
  /\ At(c, "fifoWrite")
  /\ IF InTx
       THEN radio' = "sending" /\ onAir' = txPacket
       ELSE UNCHANGED <<radio, onAir>>
  /\ Goto(c, "idle")
  /\ UNCHANGED <<fmVars, payloadSize, write, txFifo, timer, txready, txempty, item, fault,
                 ghostVars>>

-----------------------------------------------------------------------------
(* Getting the next packet: txcb (spiclientTx) and fmacSend *)

PopEmpty(c) ==
  /\ At(c, "pop") /\ txFifo = <<>>
  /\ Goto(c, "idle")
  /\ UNCHANGED <<fmVars, payloadSize, write, txFifo, timer, radioVars, item, fault, ghostVars>>

Pop(c) ==
  /\ At(c, "pop") /\ txFifo # <<>>
  /\ item' = [item EXCEPT ![c] = Head(txFifo)]
  /\ txFifo' = Tail(txFifo)
  /\ Goto(c, "send")
  /\ UNCHANGED <<fmVars, payloadSize, write, timer, radioVars, fault, ghostVars>>

\* fmacSend returning false: its callers ignore that, the packet is gone.
SendRefused(c) ==
  /\ At(c, "send") /\ ~ (initialized /\ fmacCanSend)
  /\ Goto(c, "idle")
  /\ UNCHANGED <<fmVars, payloadSize, write, txFifo, timer, radioVars, item, fault, ghostVars>>

\* fmacSend past its guards and assertions: the encoder overwrites txPacket.
\* The assertion on the encoded length (fmac.c:421) holds for every packet: it
\* is computed from payloadLen exactly as frameletLen is.
SendEncode(c) ==
  /\ At(c, "send") /\ initialized /\ fmacCanSend
  /\ IF txPacketValid THEN Fail("packet still valid")
     ELSE IF payloadSize # payloadLen THEN Fail("payload length mismatch")
     ELSE /\ txPacket' = Torn
          /\ Goto(c, "start")
          /\ UNCHANGED <<state, repetition, n, txPacketValid, payloadLen, initialized,
                         payloadSize, write, txFifo, timer, radioVars, item, fault, ghostVars>>

\* Seeded fault: repetition is not reset for a new packet.
SendStartNoReset(c) ==
  /\ At(c, "start")
  /\ txPacket' = item[c]
  /\ state' = "SEND" /\ txPacketValid' = TRUE
  /\ current' = item[c] /\ attempts' = 0
  /\ Goto(c, "dispatch")
  /\ UNCHANGED <<repetition, n, payloadLen, initialized, payloadSize, write, txFifo, timer,
                 radioVars, item, fault>>

\* The packet is encoded; the first dispatch follows.
SendStart(c) ==
  /\ At(c, "start")
  /\ txPacket' = item[c]
  /\ state' = "SEND" /\ txPacketValid' = TRUE /\ repetition' = 0
  /\ current' = item[c] /\ attempts' = 0
  /\ Goto(c, "dispatch")
  /\ UNCHANGED <<n, payloadLen, initialized, payloadSize, write, txFifo, timer, radioVars,
                 item, fault>>

-----------------------------------------------------------------------------
(* Commands of the host *)

\* Seeded fault: the ring's limit is not looked at.
HostWriteUnbounded(p) ==
  /\ At("spi", "idle")
  /\ item' = [item EXCEPT !["spi"] = p]
  /\ Goto("spi", "commit")
  /\ UNCHANGED <<fmVars, payloadSize, write, txFifo, timer, radioVars, fault, ghostVars>>

\* WRITEBUF, fifoPushAlloc and copying the data.  A full ring drops the packet.
HostWrite(p) ==
  /\ At("spi", "idle") /\ Len(txFifo) < Capacity
  /\ item' = [item EXCEPT !["spi"] = p]
  /\ Goto("spi", "commit")
  /\ UNCHANGED <<fmVars, payloadSize, write, txFifo, timer, radioVars, fault, ghostVars>>

\* WRITEBUF, fifoPushCommit.
HostCommit ==
  /\ At("spi", "commit")
  /\ txFifo' = Append(txFifo, item["spi"])
  /\ write' = IF write = Capacity THEN 0 ELSE write + 1
  /\ Goto("spi", "trigger")
  /\ UNCHANGED <<fmVars, payloadSize, timer, radioVars, item, fault, ghostVars>>

\* Seeded fault: triggerSend does not ask whether the station can send.
HostTriggerAlways ==
  /\ At("spi", "trigger")
  /\ Goto("spi", "pop")
  /\ UNCHANGED <<fmVars, payloadSize, write, txFifo, timer, radioVars, item, fault, ghostVars>>

\* WRITEBUF, triggerSend.
HostTrigger ==
  /\ At("spi", "trigger")
  /\ Goto("spi", IF fmacCanSend THEN "pop" ELSE "idle")
  /\ UNCHANGED <<fmVars, payloadSize, write, txFifo, timer, radioVars, item, fault, ghostVars>>

\* Nothing queued, nothing on its way, radio listening.
Quiet ==
  /\ state = "IDLE" /\ txFifo = <<>> /\ radio = "rx"
  /\ \A c \in Contexts : pc[c] = "idle"

\* WRITEREG CONFIG: the new payload size ...
HostConfig(len) ==
  /\ At("spi", "idle")
  /\ HostWaits => Quiet
  /\ payloadSize' = len
  /\ Goto("spi", "initFifos")
  /\ UNCHANGED <<fmVars, write, txFifo, timer, radioVars, item, fault, ghostVars>>

\* ... initFifos, that is fifoInit: its store of read makes the slots in front
\* of write the contents of the ring, whatever has become of them ...
InitRead ==
  /\ At("spi", "initFifos")
  /\ txFifo' = [k \in 1 .. write |-> Stale]
  /\ Goto("spi", "initWrite")
  /\ UNCHANGED <<fmVars, payloadSize, write, timer, radioVars, item, fault, ghostVars>>

\* ... and its store of write empties it, unless a timer interrupt has popped
\* in between: then read is ahead and everything from there to the end of the
\* ring counts as queued ...
InitWrite ==
  /\ At("spi", "initWrite")
  /\ LET read == write - Len(txFifo)
     IN  txFifo' = IF read = 0 THEN <<>> ELSE [k \in 1 .. Capacity + 1 - read |-> Stale]
  /\ write' = 0
  /\ Goto("spi", "fmacInit")
  /\ UNCHANGED <<fmVars, payloadSize, timer, radioVars, item, fault, ghostVars>>

\* ... and initMac, that is fmacInit.  A radio that does not take its registers
\* stops the station (fmac.c:390) ...
InitRegisters ==
  /\ At("spi", "fmacInit")
  /\ Fail("registers not written")

\* ... otherwise it is told to receive, and whether it obeys is ignored.  The
\* timer is not stopped.
fmacInit(count, obeys) ==
  /\ At("spi", "fmacInit")
  /\ txPacketValid' = FALSE
  /\ payloadLen' = payloadSize
  /\ n' = count
  /\ initialized' = TRUE
  /\ radio' = IF obeys THEN "rx" ELSE radio
  /\ Goto("spi", "waitEnd")
  /\ UNCHANGED <<state, repetition, txPacket, payloadSize, write, txFifo, timer, txready,
                 txempty, onAir, item, fault, ghostVars>>

\* fmacInit's end: one dispatch so that a queued packet is picked up.
InitWaitEnd ==
  /\ At("spi", "waitEnd")
  /\ state' = "WAIT_END"
  /\ Goto("spi", "dispatch")
  /\ UNCHANGED <<repetition, n, txPacket, txPacketValid, payloadLen, initialized,
                 payloadSize, write, txFifo, timer, radioVars, item, fault, ghostVars>>

-----------------------------------------------------------------------------
(* Interrupts *)

FlushSteps == {"flush", "testMode", "modeSet", "direct", "fifoWrite"}

\* Compare match.  All waits are multiples of delta, which counts the packet's
\* air time and both mode switches twice (fmac.c:370-371): by then the flush
\* that followed the start of the timer has returned and the radio, if it
\* obeyed, has reached transmit mode.  A loop of txempty that interrupts that
\* very flush has ended by then or never ends; one that begins later may be
\* running.
Expire ==
  /\ fault = "none" /\ timer = "running"
  /\ radio # "switching"
  /\ \A c \in Contexts : pc[c] \notin FlushSteps
  /\ timer' = "expired"
  /\ UNCHANGED <<fmVars, payloadSize, write, txFifo, radioVars, pc, item, fault, ghostVars>>

\* Seeded fault: the handler does not stop the timer.
SchedIrqNoStop ==
  /\ At("sched", "idle") /\ timer = "expired"
  /\ timer' = "running"
  /\ Goto("sched", "dispatch")
  /\ UNCHANGED <<fmVars, payloadSize, write, txFifo, radioVars, item, fault, ghostVars>>

\* fmacIrqHandle: stop, then dispatch.
SchedIrq ==
  /\ At("sched", "idle") /\ timer = "expired"
  /\ timer' = "off"
  /\ Goto("sched", "dispatch")
  /\ UNCHANGED <<fmVars, payloadSize, write, txFifo, radioVars, item, fault, ghostVars>>

\* TXREADY: the radio has reached transmit mode; callback txready.
TxReadyIrq ==
  /\ fault = "none" /\ radio = "switching"
  /\ IF txready
       THEN /\ txready' = FALSE /\ txempty' = TRUE
            /\ radio' = "sending" /\ onAir' = txPacket
       ELSE radio' = "ready" /\ UNCHANGED <<txready, txempty, onAir>>
  /\ UNCHANGED <<fmVars, payloadSize, write, txFifo, timer, pc, item, fault, ghostVars>>

\* TXEMPTY: the radio's buffer has run empty; callback txempty.  Its assertion
\* (fmac.c:73) holds: a radio that is not in transmit mode has nothing to send.
TxEmptyIrq ==
  /\ fault = "none" /\ radio = "sending"
  /\ radio' = IF txempty THEN "returning" ELSE "ready"
  /\ txempty' = FALSE
  /\ UNCHANGED <<fmVars, payloadSize, write, txFifo, timer, txready, onAir, pc, item, fault,
                 ghostVars>>

\* txempty asks until tda5340ModeSet succeeds and lets nobody else run.  Each
\* refusal leaves everything as it is.
ReturnToRx ==
  /\ fault = "none" /\ radio = "returning"
  /\ radio' = "rx"
  /\ UNCHANGED <<fmVars, payloadSize, write, txFifo, timer, txready, txempty, onAir, pc,
                 item, fault, ghostVars>>

-----------------------------------------------------------------------------

\* One step of the code both contexts run.
Step(c) ==
  \/ DispatchIdle(c) \/ DispatchSend(c) \/ DispatchWaitEnd(c)
  \/ Event(c) \/ EventBusy(c)
  \/ Flush(c) \/ TestMode(c) \/ ModeSet(c) \/ ModeSetFails(c)
  \/ TxReadyDirect(c) \/ FifoWrite(c)
  \/ PopEmpty(c) \/ Pop(c) \/ SendRefused(c) \/ SendEncode(c) \/ SendStart(c)

\* The rest of a command the host interface has begun.
SpiStep ==
  \/ HostCommit \/ HostTrigger \/ InitRead \/ InitWrite \/ InitRegisters \/ InitWaitEnd
  \/ \E count \in FrameletCounts, obeys \in BOOLEAN : fmacInit(count, obeys)

Host ==
  \/ \E p \in Packets : HostWrite(p)
  \/ \E len \in Lengths : HostConfig(len)

Next ==
  \/ Host \/ SpiStep
  \/ \E c \in Contexts : Step(c)
  \/ Expire \/ SchedIrq \/ TxReadyIrq \/ TxEmptyIrq \/ ReturnToRx

\* Handlers run to completion, the timer runs and interrupts are taken, and a
\* radio that accepts a framelet sends it.  Nothing is assumed of the host, and
\* tda5340ModeSet may fail each time, in txempty too: ReturnToRx is not fair.
Fairness ==
  /\ WF_vars(SpiStep)
  /\ \A c \in Contexts : WF_vars(Step(c))
  /\ WF_vars(Expire) /\ WF_vars(SchedIrq)
  /\ WF_vars(TxReadyIrq) /\ WF_vars(TxEmptyIrq)

Spec == Init /\ [][Next]_vars
FairSpec == Spec /\ Fairness

-----------------------------------------------------------------------------
(* Properties *)

Idle == \A c \in Contexts : pc[c] = "idle"

HostLabels == {"commit", "trigger", "initFifos", "initWrite", "fmacInit", "waitEnd"}
Labels == {"idle", "dispatch", "event", "pop", "send", "start"} \cup FlushSteps \cup HostLabels
Faults == {"none", "dispatch while idle", "timer already running",
           "not in transmit mode", "packet still valid", "payload length mismatch",
           "registers not written"}

StationTypeOK ==
  /\ state \in {"IDLE", "SEND", "WAIT_END"}
  /\ repetition \in 0 .. 255
  /\ n \in FrameletCounts \cup {0}
  /\ txPacket \in Packets \cup {Stale, Torn}
  /\ txPacketValid \in BOOLEAN /\ initialized \in BOOLEAN
  /\ payloadLen \in Lengths \cup {0}

ClientTypeOK ==
  /\ payloadSize \in Lengths \cup {0}
  /\ write \in 0 .. Capacity
  /\ txFifo \in Seq(Packets \cup {Stale}) /\ Len(txFifo) <= Capacity

RadioTypeOK ==
  /\ timer \in {"off", "running", "expired"}
  /\ radio \in {"rx", "switching", "ready", "sending", "returning"}
  /\ txready \in BOOLEAN /\ txempty \in BOOLEAN
  /\ onAir \in Packets \cup {Stale, NoPacket, Torn}

ControlTypeOK ==
  /\ pc \in [Contexts -> Labels] /\ pc["sched"] \notin HostLabels
  /\ item \in [Contexts -> Packets \cup {Stale, NoPacket}]
  /\ fault \in Faults
  /\ current \in Packets \cup {Stale, NoPacket} /\ attempts \in Nat

TypeOK == StationTypeOK /\ ClientTypeOK /\ RadioTypeOK /\ ControlTypeOK

\* None of the assertions in dispatch, event, txready and fmacSend stops the
\* station.  That of fmacInit concerns the radio alone.
NoAssertionFails == fault \in {"none", "registers not written"}

\* flush reads the radio's mode and then calls txready, which asserts it: the
\* mode cannot change in between because txempty was taken away first.  Holds
\* even if CONFIG interferes.
TransmitModeHolds == fault # "not in transmit mode"

\* The two assertions a CONFIG command in the middle of a transmission breaks:
\* "case FMAC_IDLE: assert (0)" and "assert (len == fm->payloadLen)".
NeverDispatchedIdle == fault # "dispatch while idle"
LengthsMatch == fault # "payload length mismatch"

\* The timer runs exactly as long as there is something to wait for: an idle
\* station is never woken (dispatch would assert), and a station between two
\* framelets or waiting for the end always will be.
TimerFollowsState ==
  /\ fmacCanSend => timer = "off"
  /\ Idle /\ ~ fmacCanSend => timer # "off"

\* The test in triggerSend and the WAIT_END branch of dispatch race for the
\* ring; they never both overlook a packet: an idle station has an empty ring.
NoLostWakeup == Idle /\ fmacCanSend => txFifo = <<>>

\* The ring allows one popper at a time: while one context is between popping
\* a packet and starting its transmission the other is not, and no timer can
\* let it in.
SinglePopper ==
  pc["spi"] \in {"pop", "send", "start"} =>
    timer = "off" /\ pc["sched"] \notin {"pop", "send", "start"}

\* From the moment a flush begins until the radio has taken the framelet,
\* txPacket is the complete packet being sent: the next one is never encoded
\* into the buffer too early.
PacketStable ==
  (\E c \in Contexts : pc[c] \in FlushSteps) \/ (radio = "switching" /\ txready) =>
    txPacket = current

\* The one thing that takes the processor away for good: a radio that has sent
\* its framelet and refuses to receive again keeps txempty in its loop, above
\* the timer and the host.
Refusing == radio = "returning"

\* Every transmission comes to an end, however often the radio refuses to send,
\* unless it refuses for good to return.
TransmissionEnds == state # "IDLE" ~> state = "IDLE" \/ []Refusing

\* The packets in the ring.  What it seems to hold between the two stores of
\* fifoInit is not queued.
InRing == IF pc["spi"] = "initWrite" THEN <<>> ELSE txFifo

\* A packet waiting in the ring is taken from it eventually without further
\* commands of the host, with the same exception.
QueueServed == InRing # <<>> ~> (\E c \in Contexts : pc[c] = "send") \/ []Refusing


\* What RadioListens rests on, under any host: outside of a flush a radio in
\* transmit mode always has the callback that is needed next, txready to get a
\* framelet or txempty to go back to receiving.
CallbackPending ==
  (\A c \in Contexts : pc[c] \notin FlushSteps) =>
    /\ radio # "ready"
    /\ radio = "switching" => txready
    /\ radio = "sending" => txempty

\* Packets not yet taken by a transmission: those in the ring, and before them
\* the one in the hands of fmacSend.
Waiting ==
  LET inHand == {c \in Contexts : pc[c] \in {"send", "start"}}
  IN  IF inHand = {} THEN InRing
      ELSE <<item[CHOOSE c \in inHand : TRUE]>> \o InRing

Service == INSTANCE Repeater WITH
  Counts <- FrameletCounts,
  configured <- initialized,
  waiting <- Waiting,
  left <- IF current = NoPacket THEN 0 ELSE n - attempts

\* The station implements the repeater; it goes on working unless the radio
\* refuses for good to return to receive mode.
ImplementsRepeater ==
  /\ Service!SafeSpec
  /\ []<>(~ Refusing) => Service!Fairness

=============================================================================

---------------------------------- MODULE Line ----------------------------------
(***************************************************************************)
(* The host interface word by word (spiclient.c, UART build).  The words   *)
(* of a message arrive one by one in the hardware's receive FIFO, a break  *)
(* symbol raises the interrupt, the handler takes the command apart, and   *)
(* the answer leaves through the hardware's transmit FIFO.  Nothing tells  *)
(* the host that a command has been handled, so a message may arrive while *)
(* the handler still works on the one before.                              *)
(*                                                                         *)
(* A word is modelled with the message it belongs to.  The transmit ring   *)
(* is modelled slot by slot, because WRITEBUF fills a slot in place and    *)
(* CONFIG resets the pointers one after the other; the timer interrupt     *)
(* takes packets out of it between any two steps (module Fmac says when).  *)
(* What the receive ring holds is left to module Client.                   *)
(***************************************************************************)
EXTENDS FifoOps, Sequences

CONSTANTS
  HwSize,      \* words in each hardware FIFO (32)
  ItemSize,    \* SPICLIENT_TX_ITEM_SIZE, a slot of the ring (64)
  RegWords,    \* words of a register's value (4)
  MacSizes,    \* payload sizes fmacInit survives
  MaxStations, \* largest n with an entry in optimalKOff (3)
  Bytes,       \* what a read of the empty FIFO may yield
  Messages,    \* what the host may send: sequences of bytes
  Patience,    \* bound: messages, from the first, a host always waits with
  MaxMessages  \* bound: messages altogether

ASSUME LineAssumption ==
  /\ {HwSize, ItemSize, RegWords, MaxStations} \subseteq Nat \ {0}
  /\ MacSizes \subseteq 0 .. ItemSize
  \* an answer and its break symbol fit into the hardware FIFO
  /\ RegWords < HwSize /\ \A size \in MacSizes : size < HwSize
  \* so do a command and its arguments, of which CONFIG has the most
  /\ HwSize > 4
  /\ Messages \subseteq Seq(Nat) \ {<<>>} /\ Bytes \subseteq Nat
  /\ {Patience, MaxMessages} \subseteq Nat

CMD_READBUF  == 1
CMD_WRITEBUF == 2
CMD_READREG  == 3
CMD_WRITEREG == 4
CMD_COUNT    == 5

REG_CONFIG == 5
\* RXPENDING, TXPENDING, RXOVERFLOW and CONFIG
Registers == 2 .. 5

VARIABLES
  rxHw, flag, txHw,    \* the two hardware FIFOs, "break detected"
  pc, filled,          \* next step of ISR, words readFifoInto has read
  payloadSize,         \* spiclient.payloadSize
  arg,                 \* CONFIG's station id and number of stations
  read, write, slot,   \* spiclient.txFifo and its entries
  initialized,         \* fmacCtx.initialized
  boot,                \* glue assignments main has made (of GlueSteps)
  fault,               \* the assertion that stopped the program, or "none"
  number, message, pos,  \* messages begun, the current one, its words sent
  \* history: a message was begun before the last one was done with, a command
  \* came before main was ready, a message was malformed, the timer took a
  \* packet in the middle of fifoInit
  eager, early, malformed, disturbed,
  executed,            \* the word last taken for a command
  taken,               \* the packet last taken from the ring
  heard, answer        \* words the host has received since the last break, and
                       \* those up to it, itself included

hw    == <<rxHw, flag, txHw>>
conf  == <<payloadSize, arg, initialized>>
ring  == <<read, write, slot>>
host  == <<number, message, pos>>
blame == <<eager, early, malformed>>
ears  == <<heard, answer>>
vars  == <<hw, pc, filled, conf, ring, boot, fault, host, blame, disturbed,
           executed, taken, ears>>

Word(m, k, byte) == [msg |-> m, pos |-> k, val |-> byte]
NoWord == Word(0, 0, 0)

\* The break symbol behind an answer of n words.
Break(n) == [to |-> 0, pos |-> 0, of |-> n]

\* An entry of the ring: of which message it is (0: not, or no longer, due), how
\* many words of it were read, and what is in the slot.  "size" is the number of
\* words the MAC was told of when it took the entry.
NoItem == [origin |-> 0, own |-> 0, size |-> 0,
           words |-> [k \in 1 .. ItemSize |-> NoWord]]

\* The interrupt handler's next step; an assertion that failed stops it, the timer
\* and, for all that is of interest here, the line.
At(step) == fault = "none" /\ pc = step

GlueSteps == <<"initMac", "triggerSend", "macData">>
HasGlue(name) == \E k \in 1 .. boot : GlueSteps[k] = name

Init ==
  /\ rxHw = <<>> /\ flag = FALSE /\ txHw = <<>>
  /\ pc = "idle" /\ filled = 0
  /\ payloadSize = 0 /\ arg = <<0, 0>> /\ initialized = FALSE
  /\ read = 0 /\ write = 0 /\ slot = [s \in SlotIndex |-> NoItem]
  /\ boot = 0 /\ fault = "none"
  /\ number = 0 /\ message = <<>> /\ pos = 0
  /\ eager = FALSE /\ early = FALSE /\ malformed = FALSE /\ disturbed = FALSE
  /\ executed = NoWord
  /\ taken = NoItem
  /\ heard = <<>> /\ answer = <<>>

-----------------------------------------------------------------------------
(* The line: hardware and host *)

\* The message before has been handled, its answer has been sent.
Quiet == pc = "idle" /\ ~ flag /\ txHw = <<>>

\* A CONFIG that fmacInit survives.
Accepted(i, n, size) == i < n /\ n <= MaxStations /\ size \in MacSizes

\* A command with its arguments, as the documentation has them.
WellFormed(msg) ==
  CASE msg[1] = CMD_WRITEREG ->
         /\ Len(msg) > 1
         /\ msg[2] = REG_CONFIG => Len(msg) > 4 /\ Accepted(msg[3], msg[4], msg[5])
    [] msg[1] = CMD_READREG -> Len(msg) > 1
    [] OTHER -> TRUE

\* A word that finds the FIFO full is lost; in the UART build nobody looks.
Arrive(w) == rxHw' = IF Len(rxHw) < HwSize THEN Append(rxHw, w) ELSE rxHw

\* The first word of a message.
HostStart(msg) ==
  /\ fault = "none" /\ pos = 0 /\ number < MaxMessages
  /\ number < Patience => Quiet
  /\ number' = number + 1 /\ message' = msg /\ pos' = 1
  /\ Arrive(Word(number', 1, msg[1]))
  /\ eager' = (eager \/ ~ Quiet)
  /\ malformed' = (malformed \/ ~ WellFormed(msg))
  /\ answer' = <<>>
  /\ UNCHANGED <<flag, txHw, pc, filled, conf, ring, boot, fault, early, disturbed,
                 executed, taken, heard>>

HostWord ==
  /\ fault = "none" /\ 0 < pos /\ pos < Len(message)
  /\ pos' = pos + 1
  /\ Arrive(Word(number, pos', message[pos']))
  /\ UNCHANGED <<flag, txHw, pc, filled, conf, ring, boot, fault, number, message,
                 blame, disturbed, executed, taken, ears>>

HostBreak ==
  /\ fault = "none" /\ pos > 0 /\ pos = Len(message)
  /\ pos' = 0
  /\ flag' = TRUE
  /\ UNCHANGED <<rxHw, txHw, pc, filled, conf, ring, boot, fault, number, message,
                 blame, disturbed, executed, taken, ears>>

\* The hardware sends the next word of an answer.
Drain ==
  /\ fault = "none" /\ txHw # <<>>
  /\ txHw' = Tail(txHw)
  /\ IF Head(txHw).pos = 0
       THEN answer' = Append(heard, Head(txHw)) /\ heard' = <<>>
       ELSE heard' = Append(heard, Head(txHw)) /\ UNCHANGED answer
  /\ UNCHANGED <<rxHw, flag, pc, filled, conf, ring, boot, fault, host, blame,
                 disturbed, executed, taken>>

\* main goes on after spiclientInit, which has enabled the interrupt already.
Boot ==
  /\ At("idle") /\ ~ flag /\ boot < Len(GlueSteps)
  /\ boot' = boot + 1
  /\ UNCHANGED <<hw, pc, filled, conf, ring, fault, host, blame, disturbed, executed,
                 taken, ears>>

-----------------------------------------------------------------------------
(* The interrupt handler *)

\* XMC_USIC_CH_RXFIFO_GetData: nobody asks whether there is a word.
GetData(fifo) == IF fifo = <<>> THEN {Word(0, 0, byte) : byte \in Bytes} ELSE {Head(fifo)}
Rest(fifo) == IF fifo = <<>> THEN <<>> ELSE Tail(fifo)

\* The first step of a command; CMD_INVALID and unknown ones have none.
Handler(command) ==
  CASE command = CMD_READBUF  -> "readBuf"
    [] command = CMD_WRITEBUF -> "alloc"
    [] command = CMD_READREG  -> "readReg"
    [] command = CMD_WRITEREG -> "writeReg"
    [] OTHER                  -> "clear"

\* Seeded fault: the answer to the command before stays.
IsrKeepsAnswer ==
  /\ At("idle") /\ flag
  /\ \E w \in GetData(rxHw) :
       /\ executed' = w
       /\ txHw' = txHw
       /\ pc' = Handler(w.val)
  /\ rxHw' = Rest(rxHw)
  /\ early' = (early \/ boot < Len(GlueSteps))
  /\ UNCHANGED <<flag, filled, conf, ring, boot, fault, host, eager, malformed,
                 disturbed, taken, ears>>

\* The handler starts: the first word is the command.
Isr ==
  /\ At("idle") /\ flag
  /\ \E w \in GetData(rxHw) :
       /\ executed' = w
       /\ txHw' = IF w.val < CMD_COUNT THEN <<>> ELSE txHw
       /\ pc' = Handler(w.val)
  /\ rxHw' = Rest(rxHw)
  /\ early' = (early \/ boot < Len(GlueSteps))
  /\ UNCHANGED <<flag, filled, conf, ring, boot, fault, host, eager, malformed,
                 disturbed, taken, ears>>

AnswerWords(size) == [k \in 1 .. size |-> [to |-> executed.msg, pos |-> k, of |-> size]]

\* Seeded fault: the answer does not end in a break symbol.
queueResponseOpen(size) ==
  IF Len(txHw) + size <= HwSize
    THEN txHw' = txHw \o AnswerWords(size) /\ UNCHANGED fault
    ELSE fault' = "TXFIFO_IsFull" /\ UNCHANGED txHw

\* Transmission is disabled meanwhile.  There has to be room for the words; a
\* break symbol for which there is none is lost.
queueResponse(size) ==
  IF Len(txHw) + size <= HwSize
    THEN /\ txHw' = txHw \o AnswerWords(size)
                         \o (IF Len(txHw) + size < HwSize THEN <<Break(size)>> ELSE <<>>)
         /\ UNCHANGED fault
    ELSE fault' = "TXFIFO_IsFull" /\ UNCHANGED txHw

\* READBUF: one packet, if there is one.
ReadBuf ==
  /\ At("readBuf")
  /\ \/ initialized /\ queueResponse(payloadSize)
     \/ UNCHANGED <<txHw, fault>>
  /\ pc' = "clear"
  /\ UNCHANGED <<rxHw, flag, filled, conf, ring, boot, host, blame, disturbed,
                 executed, taken, ears>>

\* READREG
ReadReg ==
  /\ At("readReg")
  /\ \E w \in GetData(rxHw) :
       IF w.val \in Registers THEN queueResponse(RegWords) ELSE UNCHANGED <<txHw, fault>>
  /\ rxHw' = Rest(rxHw)
  /\ pc' = "clear"
  /\ UNCHANGED <<flag, filled, conf, ring, boot, host, blame, disturbed, executed,
                 taken, ears>>

\* WRITEBUF, the ring is full: the packet is refused, the host is not told.
AllocFull ==
  /\ At("alloc") /\ IsFull(read, write)
  /\ pc' = "clear"
  /\ UNCHANGED <<hw, filled, conf, ring, boot, fault, host, blame, disturbed, executed,
                 taken, ears>>

\* WRITEBUF, fifoPushAlloc
Alloc ==
  /\ At("alloc") /\ ~ IsFull(read, write)
  /\ filled' = 0
  /\ pc' = "fill"
  /\ UNCHANGED <<hw, conf, ring, boot, fault, host, blame, disturbed, executed, taken,
                 ears>>

\* Seeded fault: words of the slot are counted from the command byte.
FillShifted ==
  /\ At("fill") /\ filled < payloadSize /\ rxHw # <<>>
  /\ slot' = [slot EXCEPT ![write].words[IF filled = 0 THEN 1 ELSE filled] = Head(rxHw)]
  /\ rxHw' = Tail(rxHw)
  /\ filled' = filled + 1
  /\ UNCHANGED <<flag, txHw, pc, conf, read, write, boot, fault, host, blame, disturbed,
                 executed, taken, ears>>

\* readFifoInto
Fill ==
  /\ At("fill") /\ filled < payloadSize /\ rxHw # <<>>
  /\ slot' = [slot EXCEPT ![write].words[filled + 1] = Head(rxHw)]
  /\ rxHw' = Tail(rxHw)
  /\ filled' = filled + 1
  /\ UNCHANGED <<flag, txHw, pc, conf, read, write, boot, fault, host, blame, disturbed,
                 executed, taken, ears>>

\* Seeded fault: readFifoInto waits for the words that are missing.
CommitFull ==
  /\ At("fill") /\ filled = payloadSize
  /\ slot' = [slot EXCEPT ![write].origin = executed.msg, ![write].own = filled]
  /\ write' = Advance(write)
  /\ pc' = "trigger"
  /\ UNCHANGED <<hw, filled, conf, read, boot, fault, host, blame, disturbed, executed,
                 taken, ears>>

\* fifoPushCommit, however many words there were.
Commit ==
  /\ At("fill") /\ (filled = payloadSize \/ rxHw = <<>>)
  /\ slot' = [slot EXCEPT ![write].origin = executed.msg, ![write].own = filled]
  /\ write' = Advance(write)
  /\ pc' = "trigger"
  /\ UNCHANGED <<hw, filled, conf, read, boot, fault, host, blame, disturbed, executed,
                 taken, ears>>

\* triggerSend, which is what Take stands for: its pointer and argument are set?
Trigger ==
  /\ At("trigger")
  /\ fault' = CASE ~ HasGlue("triggerSend") -> "call of NULL"
                [] ~ HasGlue("macData")     -> "data != NULL"
                [] OTHER                    -> "none"
  /\ pc' = "clear"
  /\ UNCHANGED <<hw, filled, conf, ring, boot, host, blame, disturbed, executed, taken,
                 ears>>

\* WRITEREG: only CONFIG is known.
WriteReg ==
  /\ At("writeReg")
  /\ \E w \in GetData(rxHw) : pc' = IF w.val = REG_CONFIG THEN "config" ELSE "clear"
  /\ rxHw' = Rest(rxHw)
  /\ UNCHANGED <<flag, txHw, filled, conf, ring, boot, fault, host, blame, disturbed,
                 executed, taken, ears>>

\* CONFIG: three bytes, read at once here (a host that waits has sent them all), of
\* which the size is looked at and stored ...
Config ==
  /\ At("config")
  /\ \E i \in GetData(rxHw), n \in GetData(Rest(rxHw)), size \in GetData(Rest(Rest(rxHw))) :
       IF size.val <= ItemSize
         THEN /\ arg' = <<i.val, n.val>>
              /\ payloadSize' = size.val
              /\ UNCHANGED fault
         ELSE fault' = "payloadSize" /\ UNCHANGED <<payloadSize, arg>>
  /\ rxHw' = Rest(Rest(Rest(rxHw)))
  /\ pc' = "initRead"
  /\ UNCHANGED <<flag, txHw, filled, initialized, ring, boot, host, blame, disturbed,
                 executed, taken, ears>>

\* ... fifoInit of the transmit ring stores read ...
InitRead ==
  /\ At("initRead")
  /\ read' = 0
  /\ disturbed' = FALSE
  /\ slot' = [s \in SlotIndex |-> [slot[s] EXCEPT !.origin = 0]]
  /\ pc' = "initWrite"
  /\ UNCHANGED <<hw, filled, conf, write, boot, fault, host, blame, executed, taken, ears>>

\* Seeded fault: fifoInit forgets one of the pointers.
InitWriteNot ==
  /\ At("initWrite")
  /\ pc' = "initMac"
  /\ UNCHANGED <<hw, filled, conf, ring, boot, fault, host, blame, disturbed, executed,
                 taken, ears>>

\* ... and then write ...
InitWrite ==
  /\ At("initWrite")
  /\ write' = 0
  /\ pc' = "initMac"
  /\ UNCHANGED <<hw, filled, conf, read, slot, boot, fault, host, blame, disturbed,
                 executed, taken, ears>>

\* ... and initMac hands over to fmacInit.
InitMac ==
  /\ At("initMac")
  /\ fault' = CASE ~ HasGlue("initMac") -> "client->initMac != NULL"
                [] ~ HasGlue("macData") -> "data != NULL"
                [] ~ Accepted(arg[1], arg[2], payloadSize) -> "fmacInit"
                [] OTHER -> "none"
  /\ initialized' = (fault' = "none")
  /\ pc' = "clear"
  /\ UNCHANGED <<hw, filled, payloadSize, arg, ring, boot, host, blame, disturbed,
                 executed, taken, ears>>

\* The flag goes first ...
ClearFlag ==
  /\ At("clear")
  /\ flag' = FALSE
  /\ pc' = "flush"
  /\ UNCHANGED <<rxHw, txHw, filled, conf, ring, boot, fault, host, blame, disturbed,
                 executed, taken, ears>>

\* Seeded fault: what the command has not read stays in the FIFO.
FlushNot ==
  /\ At("flush")
  /\ pc' = "idle"
  /\ UNCHANGED <<hw, filled, conf, ring, boot, fault, host, blame, disturbed, executed,
                 taken, ears>>

\* ... then what is left in the FIFO, of whatever message it is.
Flush ==
  /\ At("flush")
  /\ rxHw' = <<>>
  /\ pc' = "idle"
  /\ UNCHANGED <<flag, txHw, filled, conf, ring, boot, fault, host, blame, disturbed,
                 executed, taken, ears>>

\* spiclientTx, called by the timer interrupt or by triggerSend.
Take ==
  /\ fault = "none"
  /\ initialized \/ (pc = "trigger" /\ HasGlue("macData"))
  /\ ~ IsEmpty(read, write)
  /\ taken' = [slot[read] EXCEPT !.size = payloadSize,
                 !.words = [k \in 1 .. ItemSize |->
                              IF k <= payloadSize THEN @[k] ELSE NoWord]]
  /\ slot' = [slot EXCEPT ![read].origin = 0]
  /\ read' = Advance(read)
  /\ disturbed' = (disturbed \/ pc = "initWrite")
  /\ UNCHANGED <<hw, pc, filled, conf, write, boot, fault, host, blame, executed, ears>>

IsrStep ==
  \/ Isr \/ ReadBuf \/ ReadReg
  \/ AllocFull \/ Alloc \/ Fill \/ Commit \/ Trigger
  \/ WriteReg \/ Config \/ InitRead \/ InitWrite \/ InitMac
  \/ ClearFlag \/ Flush

Next ==
  \/ \E msg \in Messages : HostStart(msg)
  \/ HostWord \/ HostBreak \/ Drain \/ Boot \/ IsrStep \/ Take

\* The handler runs to its end, and the hardware sends.
Fairness == WF_vars(IsrStep) /\ WF_vars(Drain)

Spec == Init /\ [][Next]_vars /\ Fairness

-----------------------------------------------------------------------------
(* Properties *)

TypeOK ==
  /\ Len(rxHw) <= HwSize /\ Len(txHw) <= HwSize
  /\ filled \in 0 .. ItemSize /\ payloadSize \in 0 .. ItemSize
  /\ {read, write} \subseteq SlotIndex
  /\ \A s \in SlotIndex : slot[s].origin \in 0 .. number
  /\ {flag, initialized, disturbed} \cup {eager, early, malformed} \subseteq BOOLEAN
  /\ boot \in 0 .. Len(GlueSteps)
  /\ pos \in 0 .. Len(message)

\* No host makes the hardware FIFO overflow with an answer, however many answers
\* it leaves uncollected.  Every other assertion of the interface takes a host
\* that does not wait for the command before, that sends its command before main
\* is done, or that sends a malformed one.
FaultsHaveCause ==
  /\ fault # "TXFIFO_IsFull"
  /\ fault # "none" => eager \/ early \/ malformed

\* A host that waits is understood: every message is executed once, in order, by
\* its first word, whatever the one before it left in the FIFO.
CommandsAreCommands ==
  [][executed' # executed /\ ~ eager =>
       executed'.pos = 1 /\ executed'.msg = executed.msg + 1]_vars

\* A packet the MAC is given is the one the host wrote.  Where the message was
\* too short, the rest is that of an earlier packet in the same slot, never of
\* a later one.
PacketsWhole ==
  taken.origin # 0 /\ ~ eager =>
    \A k \in 1 .. taken.size :
      IF k <= taken.own
        THEN taken.words[k].msg = taken.origin /\ taken.words[k].pos = k + 1
        ELSE taken.words[k].msg < taken.origin

\* Packets leave the ring in the order they were written, none twice and nothing
\* that was not written, except while a timer interrupt has hit fifoInit between
\* its two stores.
TakenOnce ==
  [][taken' # taken /\ ~ disturbed' /\ ~ eager => taken'.origin > taken.origin]_vars

\* What the host hears up to a break symbol ends with one whole answer.  If it has
\* waited, that is all it hears, it is the answer to its last message, and reading
\* a register is always answered.
AnswersWhole ==
  /\ answer # <<>> =>
       LET n    == answer[Len(answer)].of
           skip == Len(answer) - 1 - n
       IN  /\ skip >= 0
           /\ \A k \in 1 .. n : /\ answer[skip + k].pos = k /\ answer[skip + k].of = n
                                /\ answer[skip + k].to = answer[skip + 1].to
           /\ ~ eager => skip = 0 /\ \A k \in 1 .. n : answer[k].to = number
  /\ Quiet /\ executed.msg = number /\ ~ eager /\ Len(message) > 1 /\ fault = "none" =>
       (message[1] = CMD_READREG /\ message[2] \in Registers => Len(answer) = RegWords + 1)

\* No host, however impatient, makes the handler hang: it comes to the point where
\* it acknowledges the break symbol.  That of a host that waits is followed by the
\* execution of its message and by the whole answer.
MessageHandled ==
  /\ flag ~> (~ flag \/ fault # "none")
  /\ \A m \in 1 .. MaxMessages :
       (flag /\ number = m) ~>
         ((executed.msg = m /\ Quiet) \/ eager \/ fault # "none")

=============================================================================

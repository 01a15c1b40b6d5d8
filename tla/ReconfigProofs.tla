--------------------------- MODULE ReconfigProofs ---------------------------
(***************************************************************************)
(* Proofs about the sending side of a station for every host, also one     *)
(* that sends CONFIG in the middle of a transmission: what then still      *)
(* holds.  The invariant of FmacProofs does not survive such a host; this  *)
(* one is what is left of it.                                              *)
(***************************************************************************)
EXTENDS Fmac, TLAPS

-----------------------------------------------------------------------------
(* The inductive invariant *)

Places == pc \in [Contexts -> Labels]

\* While the host interface flushes, the timer keeps the other context out.
\* The radio is never on its way to transmit mode when a flush begins.
Settled ==
  /\ \A c \in Contexts : pc[c] \in FlushSteps => timer = "running"
  /\ pc["spi"] \in FlushSteps => pc["sched"] = "idle"
  /\ radio = "switching" => timer = "running"
  /\ \A c \in Contexts : pc[c] \in FlushSteps => radio # "switching"

\* From the test of the radio's mode to the call of txready nobody can take
\* the radio out of transmit mode: TXEMPTY has no callback and its loop does
\* not run.
ModeKept ==
  /\ \A c \in Contexts : pc[c] \in {"testMode", "direct"} => ~ txempty /\ radio # "returning"
  /\ \A c \in Contexts : pc[c] = "direct" => InTx
  /\ fault # "not in transmit mode"

\* A flush leaves no radio in transmit mode behind without a callback.
Returning ==
  /\ \A c \in Contexts :
       /\ pc[c] \in {"testMode", "modeSet"} => txready
       /\ pc[c] = "modeSet" => radio = "rx"
       /\ pc[c] = "fifoWrite" => txempty \/ radio \in {"rx", "returning"}
  /\ CallbackPending

\* Before the first CONFIG nothing happens but writing and throwing away.
Unconfigured ==
  ~ initialized =>
    /\ state = "IDLE" /\ timer = "off" /\ pc["sched"] = "idle"
    /\ pc["spi"] \in {"idle", "commit", "trigger", "pop", "send", "initFifos", "initWrite",
                       "fmacInit"}
    /\ IF pc["spi"] = "initWrite" THEN Len(txFifo) = write
       ELSE Len(txFifo) <= (IF pc["spi"] \in {"trigger", "pop"} THEN 1 ELSE 0)

\* Packets in the ring of an idle station have somebody who is about to take
\* them or to throw them away.  What fifoInit leaves in the ring, if the timer
\* comes between its stores, is taken from the dispatch of fmacInit on.
Wakeup ==
  /\ state = "IDLE" /\ txFifo # <<>> =>
       \/ pc["spi"] \in {"trigger", "initFifos", "initWrite", "fmacInit", "waitEnd"}
       \/ \E c \in Contexts : pc[c] = "pop"
       \/ initialized /\ \E c \in Contexts : pc[c] \in {"send", "start"}
  /\ write \in 0 .. Capacity
  /\ txFifo \in Seq(Packets \cup {Stale})
  /\ pc["spi"] = "commit" => item["spi"] \in Packets
  /\ item \in [Contexts -> Packets \cup {Stale, NoPacket}]

IInv == Places /\ Settled /\ ModeKept /\ Returning /\ Unconfigured /\ Wakeup

-----------------------------------------------------------------------------
(* Init and every action *)

\* The parts of the control state every step looks at.
LEMMA Facts ==
  ASSUME IInv
  PROVE  /\ pc["spi"] \in Labels /\ pc["sched"] \in Labels
         /\ DOMAIN pc = Contexts /\ DOMAIN item = Contexts
         /\ Contexts = {"spi", "sched"}
  BY DEF IInv, Places, Wakeup, Contexts

LEMMA InitIInv == Init => IInv
<1> SUFFICES ASSUME Init PROVE IInv
  OBVIOUS
<1> USE DEF Init, Contexts
<1>1. Places
  BY DEF Places, Labels
<1>2. Settled /\ ModeKept
  BY DEF Settled, ModeKept, FlushSteps
<1>3. Unconfigured /\ Wakeup
  BY ParameterAssumption DEF Unconfigured, Wakeup
<1>4. Returning
  BY DEF Returning, CallbackPending
<1> QED
  BY <1>1, <1>2, <1>3, <1>4 DEF IInv

\* The radio is left alone until the timer has been started.
LEMMA DispatchSendKeeps ==
  ASSUME IInv, NEW c \in Contexts, DispatchSend(c)
  PROVE  IInv'
<1> USE Facts DEF DispatchSend, At, Goto, Fail, fmVars, radioVars, ghostVars, InTx
<1>1. Places'
  BY DEF IInv, Places, Labels, HostLabels, FlushSteps
<1>2. Settled'
  BY DEF IInv, Settled, FlushSteps
<1>3. ModeKept'
  BY DEF IInv, Settled, ModeKept, FlushSteps
<1>4. Unconfigured'
  BY DEF IInv, Unconfigured, Wakeup, fmacCanSend
<1>5. Wakeup'
  BY DEF IInv, Unconfigured, Wakeup, fmacCanSend
<1>6. Returning'
  BY DEF IInv, Settled, ModeKept, Returning, CallbackPending, FlushSteps
<1> QED
  BY <1>1, <1>2, <1>3, <1>4, <1>5, <1>6 DEF IInv

\* The timer starts and the flush begins with a settled radio.
LEMMA EventKeeps ==
  ASSUME IInv, NEW c \in Contexts, Event(c)
  PROVE  IInv'
<1> USE Facts DEF Event, At, Goto, Fail, fmVars, radioVars, ghostVars, InTx
<1>1. Places'
  BY DEF IInv, Places, Labels, HostLabels, FlushSteps
<1>2. Settled'
  BY DEF IInv, Settled, FlushSteps
<1>3. ModeKept'
  BY DEF IInv, Settled, ModeKept, FlushSteps
<1>4. Unconfigured'
  BY DEF IInv, Unconfigured, Wakeup, fmacCanSend
<1>5. Wakeup'
  BY DEF IInv, Unconfigured, Wakeup, fmacCanSend
<1>6. Returning'
  BY DEF IInv, Settled, ModeKept, Returning, CallbackPending, FlushSteps
<1> QED
  BY <1>1, <1>2, <1>3, <1>4, <1>5, <1>6 DEF IInv

\* The station is idle and about to take the next packet.
LEMMA DispatchWaitEndKeeps ==
  ASSUME IInv, NEW c \in Contexts, DispatchWaitEnd(c)
  PROVE  IInv'
<1> USE Facts DEF DispatchWaitEnd, At, Goto, Fail, fmVars, radioVars, ghostVars, InTx
<1>1. Places'
  BY DEF IInv, Places, Labels, HostLabels, FlushSteps
<1>2. Settled'
  BY DEF IInv, Settled, FlushSteps
<1>3. ModeKept'
  BY DEF IInv, Settled, ModeKept, FlushSteps
<1>4. Unconfigured'
  BY DEF IInv, Unconfigured, Wakeup, fmacCanSend
<1>5. Wakeup'
  BY DEF IInv, Unconfigured, Wakeup, fmacCanSend
<1>6. Returning'
  BY DEF IInv, Settled, ModeKept, Returning, CallbackPending, FlushSteps
<1> QED
  BY <1>1, <1>2, <1>3, <1>4, <1>5, <1>6 DEF IInv

\* txempty loses its callback before the mode is looked at.
LEMMA FlushKeeps ==
  ASSUME IInv, NEW c \in Contexts, Flush(c)
  PROVE  IInv'
<1> USE Facts DEF Flush, At, Goto, Fail, fmVars, radioVars, ghostVars, InTx
<1>1. Places'
  BY DEF IInv, Places, Labels, HostLabels, FlushSteps
<1>2. Settled'
  BY DEF IInv, Settled, FlushSteps
<1>3. ModeKept'
  BY DEF IInv, Settled, ModeKept, FlushSteps
<1>4. Unconfigured'
  BY DEF IInv, Unconfigured, Wakeup, fmacCanSend
<1>5. Wakeup'
  BY DEF IInv, Unconfigured, Wakeup, fmacCanSend
<1>6. Returning'
  BY DEF IInv, Settled, ModeKept, Returning, CallbackPending, FlushSteps
<1> QED
  BY <1>1, <1>2, <1>3, <1>4, <1>5, <1>6 DEF IInv

\* Only a transmitting radio is called directly.
LEMMA TestModeKeeps ==
  ASSUME IInv, NEW c \in Contexts, TestMode(c)
  PROVE  IInv'
<1> USE Facts DEF TestMode, At, Goto, Fail, fmVars, radioVars, ghostVars, InTx
<1>1. Places'
  BY DEF IInv, Places, Labels, HostLabels, FlushSteps
<1>2. Settled'
  BY DEF IInv, Settled, FlushSteps
<1>3. ModeKept'
  BY DEF IInv, Settled, ModeKept, FlushSteps
<1>4. Unconfigured'
  BY DEF IInv, Unconfigured, Wakeup, fmacCanSend
<1>5. Wakeup'
  BY DEF IInv, Unconfigured, Wakeup, fmacCanSend
<1>6. Returning'
  BY DEF IInv, Settled, ModeKept, Returning, CallbackPending, FlushSteps
<1> QED
  BY <1>1, <1>2, <1>3, <1>4, <1>5, <1>6 DEF IInv

\* The flush is over when the radio begins to switch.
LEMMA ModeSetKeeps ==
  ASSUME IInv, NEW c \in Contexts, ModeSet(c)
  PROVE  IInv'
<1> USE Facts DEF ModeSet, At, Goto, Fail, fmVars, radioVars, ghostVars, InTx
<1>1. Places'
  BY DEF IInv, Places, Labels, HostLabels, FlushSteps
<1>2. Settled'
  BY DEF IInv, Settled, FlushSteps
<1>3. ModeKept'
  BY DEF IInv, Settled, ModeKept, FlushSteps
<1>4. Unconfigured'
  BY DEF IInv, Unconfigured, Wakeup, fmacCanSend
<1>5. Wakeup'
  BY DEF IInv, Unconfigured, Wakeup, fmacCanSend
<1>6. Returning'
  BY DEF IInv, Settled, ModeKept, Returning, CallbackPending, FlushSteps
<1> QED
  BY <1>1, <1>2, <1>3, <1>4, <1>5, <1>6 DEF IInv

\* The flush is over, the radio stays where it is.
LEMMA ModeSetFailsKeeps ==
  ASSUME IInv, NEW c \in Contexts, ModeSetFails(c)
  PROVE  IInv'
<1> USE Facts DEF ModeSetFails, At, Goto, Fail, fmVars, radioVars, ghostVars, InTx
<1>1. Places'
  BY DEF IInv, Places, Labels, HostLabels, FlushSteps
<1>2. Settled'
  BY DEF IInv, Settled, FlushSteps
<1>3. ModeKept'
  BY DEF IInv, Settled, ModeKept, FlushSteps
<1>4. Unconfigured'
  BY DEF IInv, Unconfigured, Wakeup, fmacCanSend
<1>5. Wakeup'
  BY DEF IInv, Unconfigured, Wakeup, fmacCanSend
<1>6. Returning'
  BY DEF IInv, Settled, ModeKept, Returning, CallbackPending, FlushSteps
<1> QED
  BY <1>1, <1>2, <1>3, <1>4, <1>5, <1>6 DEF IInv

\* The assertion holds; afterwards TXEMPTY may switch the radio back.
LEMMA TxReadyDirectKeeps ==
  ASSUME IInv, NEW c \in Contexts, TxReadyDirect(c)
  PROVE  IInv'
<1> USE Facts DEF TxReadyDirect, At, Goto, Fail, fmVars, radioVars, ghostVars, InTx
<1>1. Places'
  BY DEF IInv, Places, Labels, HostLabels, FlushSteps
<1>2. Settled'
  BY DEF IInv, Settled, FlushSteps
<1>3. ModeKept'
  BY DEF IInv, Settled, ModeKept, FlushSteps
<1>4. Unconfigured'
  BY DEF IInv, Unconfigured, Wakeup, fmacCanSend
<1>5. Wakeup'
  BY DEF IInv, Unconfigured, Wakeup, fmacCanSend
<1>6. Returning'
  BY DEF IInv, Settled, ModeKept, Returning, CallbackPending, FlushSteps
<1> QED
  BY <1>1, <1>2, <1>3, <1>4, <1>5, <1>6 DEF IInv

\* A radio in transmit mode stays there.
LEMMA FifoWriteKeeps ==
  ASSUME IInv, NEW c \in Contexts, FifoWrite(c)
  PROVE  IInv'
<1> USE Facts DEF FifoWrite, At, Goto, Fail, fmVars, radioVars, ghostVars, InTx
<1>1. Places'
  BY DEF IInv, Places, Labels, HostLabels, FlushSteps
<1>2. Settled'
  BY DEF IInv, Settled, FlushSteps
<1>3. ModeKept'
  BY DEF IInv, Settled, ModeKept, FlushSteps
<1>4. Unconfigured'
  BY DEF IInv, Unconfigured, Wakeup, fmacCanSend
<1>5. Wakeup'
  BY DEF IInv, Unconfigured, Wakeup, fmacCanSend
<1>6. Returning'
  BY DEF IInv, Settled, ModeKept, Returning, CallbackPending, FlushSteps
<1> QED
  BY <1>1, <1>2, <1>3, <1>4, <1>5, <1>6 DEF IInv

\* Nobody has to wake up for an empty ring.
LEMMA PopEmptyKeeps ==
  ASSUME IInv, NEW c \in Contexts, PopEmpty(c)
  PROVE  IInv'
<1> USE Facts DEF PopEmpty, At, Goto, Fail, fmVars, radioVars, ghostVars, InTx
<1>1. Places'
  BY DEF IInv, Places, Labels, HostLabels, FlushSteps
<1>2. Settled'
  BY DEF IInv, Settled, FlushSteps
<1>3. ModeKept'
  BY DEF IInv, Settled, ModeKept, FlushSteps
<1>4. Unconfigured'
  BY DEF IInv, Unconfigured, Wakeup, fmacCanSend
<1>5. Wakeup'
  BY DEF IInv, Unconfigured, Wakeup, fmacCanSend
<1>6. Returning'
  BY DEF IInv, Settled, ModeKept, Returning, CallbackPending, FlushSteps
<1> QED
  BY <1>1, <1>2, <1>3, <1>4, <1>5, <1>6 DEF IInv

\* A packet is in the hands of a context.
LEMMA PopKeeps ==
  ASSUME IInv, NEW c \in Contexts, Pop(c)
  PROVE  IInv'
<1> USE Facts DEF Pop, At, Goto, Fail, fmVars, radioVars, ghostVars, InTx
<1>1. Places'
  BY DEF IInv, Places, Labels, HostLabels, FlushSteps
<1>2. Settled'
  BY DEF IInv, Settled, FlushSteps
<1>3. ModeKept'
  BY DEF IInv, Settled, ModeKept, FlushSteps
<1>4. Unconfigured'
  BY DEF IInv, Unconfigured, Wakeup, fmacCanSend
<1>5. Wakeup'
  BY DEF IInv, Unconfigured, Wakeup, fmacCanSend
<1>6. Returning'
  BY DEF IInv, Settled, ModeKept, Returning, CallbackPending, FlushSteps
<1> QED
  BY <1>1, <1>2, <1>3, <1>4, <1>5, <1>6 DEF IInv

\* A packet is thrown away by a station that is busy or not configured.
LEMMA SendRefusedKeeps ==
  ASSUME IInv, NEW c \in Contexts, SendRefused(c)
  PROVE  IInv'
<1> USE Facts DEF SendRefused, At, Goto, Fail, fmVars, radioVars, ghostVars, InTx
<1>1. Places'
  BY DEF IInv, Places, Labels, HostLabels, FlushSteps
<1>2. Settled'
  BY DEF IInv, Settled, FlushSteps
<1>3. ModeKept'
  BY DEF IInv, Settled, ModeKept, FlushSteps
<1>4. Unconfigured'
  BY DEF IInv, Unconfigured, Wakeup, fmacCanSend
<1>5. Wakeup'
  BY DEF IInv, Unconfigured, Wakeup, fmacCanSend
<1>6. Returning'
  BY DEF IInv, Settled, ModeKept, Returning, CallbackPending, FlushSteps
<1> QED
  BY <1>1, <1>2, <1>3, <1>4, <1>5, <1>6 DEF IInv

\* The packet stays in the hands of its context, whether an assertion fails or not.
LEMMA SendEncodeKeeps ==
  ASSUME IInv, NEW c \in Contexts, SendEncode(c)
  PROVE  IInv'
<1> USE Facts DEF SendEncode, At, Goto, Fail, fmVars, radioVars, ghostVars, InTx
<1>1. Places'
  BY DEF IInv, Places, Labels, HostLabels, FlushSteps
<1>2. Settled'
  BY DEF IInv, Settled, FlushSteps
<1>3. ModeKept'
  BY DEF IInv, Settled, ModeKept, FlushSteps
<1>4. Unconfigured'
  BY DEF IInv, Unconfigured, Wakeup, fmacCanSend
<1>5. Wakeup'
  BY DEF IInv, Unconfigured, Wakeup, fmacCanSend
<1>6. Returning'
  BY DEF IInv, Settled, ModeKept, Returning, CallbackPending, FlushSteps
<1> QED
  BY <1>1, <1>2, <1>3, <1>4, <1>5, <1>6 DEF IInv

\* The station is no longer idle.
LEMMA SendStartKeeps ==
  ASSUME IInv, NEW c \in Contexts, SendStart(c)
  PROVE  IInv'
<1> USE Facts DEF SendStart, At, Goto, Fail, fmVars, radioVars, ghostVars, InTx
<1>1. Places'
  BY DEF IInv, Places, Labels, HostLabels, FlushSteps
<1>2. Settled'
  BY DEF IInv, Settled, FlushSteps
<1>3. ModeKept'
  BY DEF IInv, Settled, ModeKept, FlushSteps
<1>4. Unconfigured'
  BY DEF IInv, Unconfigured, Wakeup, fmacCanSend
<1>5. Wakeup'
  BY DEF IInv, Unconfigured, Wakeup, fmacCanSend
<1>6. Returning'
  BY DEF IInv, Settled, ModeKept, Returning, CallbackPending, FlushSteps
<1> QED
  BY <1>1, <1>2, <1>3, <1>4, <1>5, <1>6 DEF IInv

\* A failed assertion other than that of txready changes nothing else.
LEMMA FailKeeps ==
  ASSUME IInv, NEW c \in Contexts, DispatchIdle(c) \/ EventBusy(c) \/ InitRegisters
  PROVE  IInv'
<1> USE DEF DispatchIdle, EventBusy, InitRegisters, Fail, fmVars, radioVars, ghostVars
<1>1. Places' /\ Settled'
  BY DEF IInv, Places, Settled
<1>2. ModeKept'
  <2>1. fault' # "not in transmit mode" /\ UNCHANGED <<pc, radio, txempty>>
    OBVIOUS
  <2> QED
    BY <2>1 DEF IInv, ModeKept, InTx
<1>3. Unconfigured' /\ Wakeup'
  BY DEF IInv, Unconfigured, Wakeup
<1>4. Returning'
  BY DEF IInv, Returning, CallbackPending, InTx
<1> QED
  BY <1>1, <1>2, <1>3, <1>4 DEF IInv

\* The host interface fills a slot.
LEMMA HostWriteKeeps ==
  ASSUME IInv, NEW p \in Packets, HostWrite(p)
  PROVE  IInv'
<1> USE Facts DEF HostWrite, At, Goto, Fail, fmVars, radioVars, ghostVars, InTx
<1>1. Places'
  BY DEF IInv, Places, Labels, HostLabels, FlushSteps
<1>2. Settled'
  BY DEF IInv, Settled, FlushSteps
<1>3. ModeKept'
  BY DEF IInv, Settled, ModeKept, FlushSteps
<1>4. Unconfigured'
  BY DEF IInv, Unconfigured, Wakeup, fmacCanSend
<1>5. Wakeup'
  BY DEF IInv, Unconfigured, Wakeup, fmacCanSend
<1>6. Returning'
  BY DEF IInv, Settled, ModeKept, Returning, CallbackPending, FlushSteps
<1> QED
  BY <1>1, <1>2, <1>3, <1>4, <1>5, <1>6 DEF IInv

\* The packet is in the ring, triggerSend follows.
LEMMA HostCommitKeeps ==
  ASSUME IInv, HostCommit
  PROVE  IInv'
<1> USE Facts DEF HostCommit, At, Goto, Fail, fmVars, radioVars, ghostVars, InTx
<1>1. Places'
  BY DEF IInv, Places, Labels, HostLabels, FlushSteps
<1>2. Settled'
  BY DEF IInv, Settled, FlushSteps
<1>3. ModeKept'
  BY DEF IInv, Settled, ModeKept, FlushSteps
<1>4. Unconfigured'
  BY DEF IInv, Unconfigured, Wakeup, fmacCanSend
<1>5. Wakeup'
  BY ParameterAssumption DEF IInv, Unconfigured, Wakeup, fmacCanSend
<1>6. Returning'
  BY DEF IInv, Settled, ModeKept, Returning, CallbackPending, FlushSteps
<1> QED
  BY <1>1, <1>2, <1>3, <1>4, <1>5, <1>6 DEF IInv

\* A busy station takes the packet at the end of its transmission.
LEMMA HostTriggerKeeps ==
  ASSUME IInv, HostTrigger
  PROVE  IInv'
<1> USE Facts DEF HostTrigger, At, Goto, Fail, fmVars, radioVars, ghostVars, InTx
<1>1. Places'
  BY DEF IInv, Places, Labels, HostLabels, FlushSteps
<1>2. Settled'
  BY DEF IInv, Settled, FlushSteps
<1>3. ModeKept'
  BY DEF IInv, Settled, ModeKept, FlushSteps
<1>4. Unconfigured'
  BY DEF IInv, Unconfigured, Wakeup, fmacCanSend
<1>5. Wakeup'
  BY DEF IInv, Unconfigured, Wakeup, fmacCanSend
<1>6. Returning'
  BY DEF IInv, Settled, ModeKept, Returning, CallbackPending, FlushSteps
<1> QED
  BY <1>1, <1>2, <1>3, <1>4, <1>5, <1>6 DEF IInv

\* The ring is about to be emptied.
LEMMA HostConfigKeeps ==
  ASSUME IInv, NEW len \in Lengths, HostConfig(len)
  PROVE  IInv'
<1> USE Facts DEF HostConfig, At, Goto, Fail, fmVars, radioVars, ghostVars, InTx
<1>1. Places'
  BY DEF IInv, Places, Labels, HostLabels, FlushSteps
<1>2. Settled'
  BY DEF IInv, Settled, FlushSteps
<1>3. ModeKept'
  BY DEF IInv, Settled, ModeKept, FlushSteps
<1>4. Unconfigured'
  BY DEF IInv, Unconfigured, Wakeup, fmacCanSend
<1>5. Wakeup'
  BY DEF IInv, Unconfigured, Wakeup, fmacCanSend
<1>6. Returning'
  BY DEF IInv, Settled, ModeKept, Returning, CallbackPending, FlushSteps
<1> QED
  BY <1>1, <1>2, <1>3, <1>4, <1>5, <1>6 DEF IInv

\* The ring holds whatever lies in front of write.
LEMMA InitReadKeeps ==
  ASSUME IInv, InitRead
  PROVE  IInv'
<1> USE Facts DEF InitRead, At, Goto, Fail, fmVars, radioVars, ghostVars, InTx
<1>1. Places'
  BY DEF IInv, Places, Labels, HostLabels, FlushSteps
<1>2. Settled'
  BY DEF IInv, Settled, FlushSteps
<1>3. ModeKept'
  BY DEF IInv, Settled, ModeKept, FlushSteps
<1>4. Unconfigured'
  BY DEF IInv, Unconfigured, Wakeup, fmacCanSend
<1>5. Wakeup'
  BY DEF IInv, Unconfigured, Wakeup, fmacCanSend
<1>6. Returning'
  BY DEF IInv, Settled, ModeKept, Returning, CallbackPending, FlushSteps
<1> QED
  BY <1>1, <1>2, <1>3, <1>4, <1>5, <1>6 DEF IInv

\* The ring is empty or what the timer has left of it is stale.
LEMMA InitWriteKeeps ==
  ASSUME IInv, InitWrite
  PROVE  IInv'
<1> USE Facts DEF InitWrite, At, Goto, Fail, fmVars, radioVars, ghostVars, InTx
<1>1. Places'
  BY DEF IInv, Places, Labels, HostLabels, FlushSteps
<1>2. Settled'
  BY DEF IInv, Settled, FlushSteps
<1>3. ModeKept'
  BY DEF IInv, Settled, ModeKept, FlushSteps
<1>4. Unconfigured'
  BY DEF IInv, Unconfigured, Wakeup, fmacCanSend
<1>a. write' \in 0 .. Capacity /\ Capacity + 1 - (write - Len(txFifo)) \in Nat
  BY ParameterAssumption DEF IInv, Wakeup
<1>b. txFifo' \in Seq(Packets \cup {Stale})
  BY <1>a DEF IInv, Wakeup
<1>5. Wakeup'
  BY <1>a, <1>b DEF IInv, Unconfigured, Wakeup, fmacCanSend
<1>6. Returning'
  BY DEF IInv, Settled, ModeKept, Returning, CallbackPending, FlushSteps
<1> QED
  BY <1>1, <1>2, <1>3, <1>4, <1>5, <1>6 DEF IInv

\* No context is in a flush when CONFIG switches the radio.
LEMMA fmacInitKeeps ==
  ASSUME IInv, NEW count \in FrameletCounts, NEW obeys \in BOOLEAN, fmacInit(count, obeys)
  PROVE  IInv'
<1> USE Facts DEF fmacInit, At, Goto, Fail, fmVars, radioVars, ghostVars, InTx
<1>1. Places'
  BY DEF IInv, Places, Labels, HostLabels, FlushSteps
<1>2. Settled'
  BY DEF IInv, Settled, FlushSteps
<1>3. ModeKept'
  BY DEF IInv, Settled, ModeKept, FlushSteps
<1>4. Unconfigured'
  BY DEF IInv, Unconfigured, Wakeup, fmacCanSend
<1>5. Wakeup'
  BY DEF IInv, Unconfigured, Wakeup, fmacCanSend
<1>6. Returning'
  BY DEF IInv, Settled, ModeKept, Returning, CallbackPending, FlushSteps
<1> QED
  BY <1>1, <1>2, <1>3, <1>4, <1>5, <1>6 DEF IInv

\* CONFIG ends with a dispatch.
LEMMA InitWaitEndKeeps ==
  ASSUME IInv, InitWaitEnd
  PROVE  IInv'
<1> USE Facts DEF InitWaitEnd, At, Goto, Fail, fmVars, radioVars, ghostVars, InTx
<1>1. Places'
  BY DEF IInv, Places, Labels, HostLabels, FlushSteps
<1>2. Settled'
  BY DEF IInv, Settled, FlushSteps
<1>3. ModeKept'
  BY DEF IInv, Settled, ModeKept, FlushSteps
<1>4. Unconfigured'
  BY DEF IInv, Unconfigured, Wakeup, fmacCanSend
<1>5. Wakeup'
  BY DEF IInv, Unconfigured, Wakeup, fmacCanSend
<1>6. Returning'
  BY DEF IInv, Settled, ModeKept, Returning, CallbackPending, FlushSteps
<1> QED
  BY <1>1, <1>2, <1>3, <1>4, <1>5, <1>6 DEF IInv

\* The timer expires outside of flushes and mode switches only.
LEMMA ExpireKeeps ==
  ASSUME IInv, Expire
  PROVE  IInv'
<1> USE Facts DEF Expire, At, Goto, Fail, fmVars, radioVars, ghostVars, InTx
<1>1. Places'
  BY DEF IInv, Places, Labels, HostLabels, FlushSteps
<1>2. Settled'
  BY DEF IInv, Settled, FlushSteps
<1>3. ModeKept'
  BY DEF IInv, Settled, ModeKept, FlushSteps
<1>4. Unconfigured'
  BY DEF IInv, Unconfigured, Wakeup, fmacCanSend
<1>5. Wakeup'
  BY DEF IInv, Unconfigured, Wakeup, fmacCanSend
<1>6. Returning'
  BY DEF IInv, Settled, ModeKept, Returning, CallbackPending, FlushSteps
<1> QED
  BY <1>1, <1>2, <1>3, <1>4, <1>5, <1>6 DEF IInv

\* The timer's handler begins.
LEMMA SchedIrqKeeps ==
  ASSUME IInv, SchedIrq
  PROVE  IInv'
<1> USE Facts DEF SchedIrq, At, Goto, Fail, fmVars, radioVars, ghostVars, InTx
<1>1. Places'
  BY DEF IInv, Places, Labels, HostLabels, FlushSteps
<1>2. Settled'
  BY DEF IInv, Settled, FlushSteps
<1>3. ModeKept'
  BY DEF IInv, Settled, ModeKept, FlushSteps
<1>4. Unconfigured'
  BY DEF IInv, Unconfigured, Wakeup, fmacCanSend
<1>5. Wakeup'
  BY DEF IInv, Unconfigured, Wakeup, fmacCanSend
<1>6. Returning'
  BY DEF IInv, Settled, ModeKept, Returning, CallbackPending, FlushSteps
<1> QED
  BY <1>1, <1>2, <1>3, <1>4, <1>5, <1>6 DEF IInv

\* No context is in a flush while the radio switches.
LEMMA TxReadyIrqKeeps ==
  ASSUME IInv, TxReadyIrq
  PROVE  IInv'
<1> USE Facts DEF TxReadyIrq, At, Goto, Fail, fmVars, radioVars, ghostVars, InTx
<1>1. Places'
  BY DEF IInv, Places, Labels, HostLabels, FlushSteps
<1>2. Settled'
  BY DEF IInv, Settled, FlushSteps
<1>3. ModeKept'
  BY DEF IInv, Settled, ModeKept, FlushSteps
<1>4. Unconfigured'
  BY DEF IInv, Unconfigured, Wakeup, fmacCanSend
<1>5. Wakeup'
  BY DEF IInv, Unconfigured, Wakeup, fmacCanSend
<1>6. Returning'
  BY DEF IInv, Settled, ModeKept, Returning, CallbackPending, FlushSteps
<1> QED
  BY <1>1, <1>2, <1>3, <1>4, <1>5, <1>6 DEF IInv

\* The radio leaves transmit mode only if txempty has its callback.
LEMMA TxEmptyIrqKeeps ==
  ASSUME IInv, TxEmptyIrq
  PROVE  IInv'
<1> USE Facts DEF TxEmptyIrq, At, Goto, Fail, fmVars, radioVars, ghostVars, InTx
<1>1. Places'
  BY DEF IInv, Places, Labels, HostLabels, FlushSteps
<1>2. Settled'
  BY DEF IInv, Settled, FlushSteps
<1>3. ModeKept'
  BY DEF IInv, Settled, ModeKept, FlushSteps
<1>4. Unconfigured'
  BY DEF IInv, Unconfigured, Wakeup, fmacCanSend
<1>5. Wakeup'
  BY DEF IInv, Unconfigured, Wakeup, fmacCanSend
<1>6. Returning'
  BY DEF IInv, Settled, ModeKept, Returning, CallbackPending, FlushSteps
<1> QED
  BY <1>1, <1>2, <1>3, <1>4, <1>5, <1>6 DEF IInv

\* No context relies on the mode while txempty is in its loop.
LEMMA ReturnToRxKeeps ==
  ASSUME IInv, ReturnToRx
  PROVE  IInv'
<1> USE Facts DEF ReturnToRx, At, Goto, Fail, fmVars, radioVars, ghostVars, InTx
<1>1. Places'
  BY DEF IInv, Places, Labels, HostLabels, FlushSteps
<1>2. Settled'
  BY DEF IInv, Settled, FlushSteps
<1>3. ModeKept'
  BY DEF IInv, Settled, ModeKept, FlushSteps
<1>4. Unconfigured'
  BY DEF IInv, Unconfigured, Wakeup, fmacCanSend
<1>5. Wakeup'
  BY DEF IInv, Unconfigured, Wakeup, fmacCanSend
<1>6. Returning'
  BY DEF IInv, Settled, ModeKept, Returning, CallbackPending, FlushSteps
<1> QED
  BY <1>1, <1>2, <1>3, <1>4, <1>5, <1>6 DEF IInv

LEMMA NextIInv == IInv /\ [Next]_vars => IInv'
<1> SUFFICES ASSUME IInv, [Next]_vars PROVE IInv'
  OBVIOUS
<1>1. CASE UNCHANGED vars
  <2> USE <1>1 DEF vars, fmVars, radioVars, ghostVars
  <2>1. Places' /\ Settled' /\ ModeKept'
    BY DEF IInv, Places, Settled, ModeKept, InTx
  <2>2. Unconfigured' /\ Wakeup'
    BY DEF IInv, Unconfigured, Wakeup
  <2>3. Returning'
    BY DEF IInv, Returning, CallbackPending, InTx
  <2> QED
    BY <2>1, <2>2, <2>3 DEF IInv
<1>2. CASE Host
  BY <1>2, HostWriteKeeps, HostConfigKeeps DEF Host
<1>3. CASE SpiStep
  BY <1>3, HostCommitKeeps, HostTriggerKeeps, InitReadKeeps, InitWriteKeeps, FailKeeps,
     fmacInitKeeps, InitWaitEndKeeps DEF SpiStep, Contexts
<1>4. ASSUME NEW c \in Contexts, Step(c) PROVE IInv'
  BY <1>4, FailKeeps, DispatchSendKeeps, EventKeeps, DispatchWaitEndKeeps, FlushKeeps, TestModeKeeps,
     ModeSetKeeps, ModeSetFailsKeeps, TxReadyDirectKeeps, FifoWriteKeeps, PopEmptyKeeps,
     PopKeeps, SendRefusedKeeps, SendEncodeKeeps, SendStartKeeps DEF Step
<1>5. CASE Expire \/ SchedIrq \/ TxReadyIrq \/ TxEmptyIrq \/ ReturnToRx
  BY <1>5, ExpireKeeps, SchedIrqKeeps, TxReadyIrqKeeps, TxEmptyIrqKeeps, ReturnToRxKeeps
<1> QED
  BY <1>1, <1>2, <1>3, <1>4, <1>5 DEF Next

LEMMA Invariance == Spec => []IInv
  BY InitIInv, NextIInv, PTL DEF Spec

-----------------------------------------------------------------------------
(* The theorems *)

\* flush's direct call of txready finds the radio in transmit mode, whenever
\* the host sends CONFIG.
THEOREM ModeSurvivesConfig == Spec => []TransmitModeHolds
<1>1. IInv => TransmitModeHolds
  BY DEF IInv, ModeKept, TransmitModeHolds
<1> QED
  BY <1>1, Invariance, PTL

\* A station at rest has an empty ring, whenever the host sends CONFIG.
THEOREM WakeupSurvivesConfig == Spec => []NoLostWakeup
<1>1. IInv => NoLostWakeup
  BY Facts DEF IInv, Wakeup, NoLostWakeup, Idle, fmacCanSend
<1> QED
  BY <1>1, Invariance, PTL

\* However flush, TXREADY, TXEMPTY and CONFIG interleave, a radio that flush has
\* left in transmit mode has the callback that takes it back to receiving.
THEOREM RadioComesBack == Spec => []CallbackPending
<1>1. IInv => CallbackPending
  BY DEF IInv, Returning
<1> QED
  BY <1>1, Invariance, PTL

=============================================================================

----------------------------- MODULE FmacProofs -----------------------------
(***************************************************************************)
(* Proofs about the sending side of a station, for every set of packets,   *)
(* every ring size and every number of framelets that fits in a byte, and  *)
(* for a host that reconfigures a quiet station only.                      *)
(***************************************************************************)
EXTENDS Fmac, TLAPS

SendPath == {"pop", "send", "start"}
ConfigSteps == {"initFifos", "initWrite", "fmacInit", "waitEnd"}

-----------------------------------------------------------------------------
(* The inductive invariant, part by part *)

\* Who may be where.  The contexts share fmacCtx without a lock; what keeps
\* them apart is the timer, which is off whenever one of them is in the part
\* of the code the other must not enter.
Control ==
  /\ pc["spi"] \in ConfigSteps \cup SendPath \cup {"dispatch", "event"} =>
       timer = "off" /\ pc["sched"] = "idle"
  /\ pc["sched"] \in SendPath \cup {"dispatch", "event"} => timer = "off"
  /\ \A c \in Contexts : pc[c] \in FlushSteps => timer = "running"
  /\ pc["spi"] \in FlushSteps => pc["sched"] = "idle"

\* The state belongs to the place in the code and to the timer.
StateFits ==
  /\ \A c \in Contexts : pc[c] \in SendPath => state = "IDLE"
  /\ \A c \in Contexts : pc[c] \in {"dispatch", "event"} => state # "IDLE"
  /\ pc["spi"] \in ConfigSteps => state = "IDLE"
  /\ state = "IDLE" => timer = "off"
  /\ state # "IDLE" /\ timer = "off" =>
       \E c \in Contexts : pc[c] \in {"dispatch", "event"}

\* Configuration data agree outside CONFIG.
Configured ==
  /\ pc["spi"] \notin {"initFifos", "initWrite", "fmacInit"} => payloadSize = payloadLen
  /\ initialized => n \in FrameletCounts
  /\ state # "IDLE" => initialized
  /\ \A c \in Contexts : pc[c] = "start" => initialized
  /\ pc["spi"] = "waitEnd" \/ pc["sched"] # "idle" => initialized

\* The packet being sent.
Sending ==
  /\ txPacketValid => state = "SEND"
  /\ state = "IDLE" => current = NoPacket
  /\ state = "SEND" => current # NoPacket
  /\ timer # "off" => current # NoPacket
  /\ \A c \in Contexts : pc[c] = "event" => current # NoPacket
  /\ current # NoPacket => txPacket = current
  /\ \A c \in Contexts : pc[c] \in {"send", "start"} => item[c] \in Packets
  /\ pc["spi"] = "commit" => item["spi"] \in Packets

\* Framelets counted so far.
Counting ==
  /\ state = "SEND" => repetition < n
  /\ current # NoPacket =>
       /\ state = "WAIT_END" => repetition = n
       /\ IF \E c \in Contexts : pc[c] \in {"event", "flush"}
            THEN attempts + 1 = repetition ELSE attempts = repetition

\* The radio has settled whenever the timer does not run and during flush,
\* and txempty stays away from the mode test to the direct call of txready: its
\* loop cannot run there.
Radio ==
  /\ radio = "switching" => timer = "running"
  /\ \A c \in Contexts : pc[c] \in FlushSteps => radio # "switching"
  /\ \A c \in Contexts : pc[c] \in {"testMode", "direct"} => ~ txempty /\ radio # "returning"
  /\ \A c \in Contexts : pc[c] = "direct" => InTx

\* Packets in the ring while the station is idle have somebody who is about to
\* take them.  Between the two stores of fifoInit nothing has been popped.
Wakeup ==
  /\ state = "IDLE" /\ txFifo # <<>> =>
       \/ pc["spi"] \in {"trigger", "initWrite"}
       \/ \E c \in Contexts : pc[c] = "pop"
       \/ initialized /\ \E c \in Contexts : pc[c] \in {"send", "start"}
  /\ ~ initialized /\ pc["spi"] # "initWrite" =>
       Len(txFifo) <= (IF pc["spi"] \in {"trigger", "pop"} THEN 1 ELSE 0)
  /\ pc["spi"] \in ConfigSteps \ {"initWrite"} => txFifo = <<>>
  /\ pc["spi"] = "initWrite" => Len(txFifo) = write
  /\ pc["spi"] # "initWrite" => txFifo \in Seq(Packets)
  /\ pc["spi"] = "commit" => Len(txFifo) < Capacity

IInv ==
  /\ TypeOK /\ NoAssertionFails
  /\ Control /\ StateFits /\ Configured /\ Sending /\ Counting /\ Radio /\ Wakeup

\* The invariant holds initially.
LEMMA InitIInv == Init => IInv
<1> SUFFICES ASSUME Init PROVE IInv
  OBVIOUS
<1> USE DEF Init, Contexts
<1>1. StationTypeOK /\ RadioTypeOK
  <2>1. repetition \in 0 .. 255
    OBVIOUS
  <2> QED
    BY <2>1, Zenon DEF StationTypeOK, RadioTypeOK
<1>2. ClientTypeOK
  BY ParameterAssumption DEF ClientTypeOK
<1>3. ControlTypeOK
  <2>1. pc \in [Contexts -> Labels] /\ pc["sched"] \notin HostLabels
    BY DEF Labels, HostLabels
  <2>2. item \in [Contexts -> Packets \cup {NoPacket}]
    OBVIOUS
  <2> QED
    BY <2>1, <2>2 DEF ControlTypeOK, Faults
<1>4. Control /\ StateFits /\ Configured
  BY DEF Control, StateFits, Configured, SendPath, ConfigSteps, FlushSteps
<1>5. Sending /\ Counting
  BY DEF Sending, Counting
<1>6. Radio /\ Wakeup
  BY DEF Radio, Wakeup, FlushSteps, ConfigSteps
<1>7. NoAssertionFails
  BY DEF NoAssertionFails
<1> QED
  BY <1>1, <1>2, <1>3, <1>4, <1>5, <1>6, <1>7 DEF IInv, TypeOK

\* DispatchSend preserves the invariant.
LEMMA DispatchSendKeeps ==
  ASSUME IInv, NEW c \in Contexts, DispatchSend(c)
  PROVE  IInv'
<1> USE DEF DispatchSend, At, Goto, Contexts, fmVars, radioVars, ghostVars, IInv, TypeOK
<1>1. StationTypeOK'
  <2>1. repetition' \in 0 .. 255
    BY DEF StationTypeOK
  <2>2. state' \in {"IDLE", "SEND", "WAIT_END"} /\ txPacketValid' \in BOOLEAN
    BY Zenon DEF StationTypeOK
  <2> QED
    BY <2>1, <2>2, Zenon DEF StationTypeOK
<1>2. ClientTypeOK'
  BY DEF ClientTypeOK
<1>3. RadioTypeOK'
  BY DEF RadioTypeOK, StationTypeOK
<1>4. ControlTypeOK'
  BY DEF ControlTypeOK, Labels, HostLabels, FlushSteps, ClientTypeOK
<1>5. Control'
  BY DEF Control, SendPath, ConfigSteps, ControlTypeOK, Labels, HostLabels, FlushSteps
<1>6. StateFits'
  BY DEF StateFits, Control, StationTypeOK, SendPath, ConfigSteps, ControlTypeOK,
     Labels, HostLabels, FlushSteps
<1>7. Configured'
  BY DEF Configured, Control, StateFits, ConfigSteps, ControlTypeOK, Labels,
     HostLabels, FlushSteps
<1>8. Sending'
  BY DEF Sending, StateFits, StationTypeOK, SendPath, ControlTypeOK, Labels,
     HostLabels, FlushSteps
<1>9. Counting'
  BY CountsAssumption DEF Counting, Configured, Control, Sending, StationTypeOK,
     ControlTypeOK, Labels, HostLabels, FlushSteps, StateFits
<1>10. Radio'
  BY DEF Radio, Control, RadioTypeOK, InTx, ControlTypeOK, Labels, HostLabels,
     FlushSteps
<1>11. Wakeup'
  BY DEF Wakeup, Configured, StateFits, Control, ClientTypeOK, SendPath, ConfigSteps,
     ControlTypeOK, Labels, HostLabels, FlushSteps
<1>12. NoAssertionFails'
  BY DEF NoAssertionFails
<1> QED
  BY <1>1, <1>2, <1>3, <1>4, <1>5, <1>6, <1>7, <1>8, <1>9, <1>10, <1>11, <1>12

\* Event preserves the invariant.
LEMMA EventKeeps ==
  ASSUME IInv, NEW c \in Contexts, Event(c)
  PROVE  IInv'
<1> USE DEF Event, At, Goto, Contexts, fmVars, radioVars, ghostVars, IInv, TypeOK
<1>1. StationTypeOK'
  BY DEF StationTypeOK
<1>2. ClientTypeOK'
  BY DEF ClientTypeOK
<1>3. RadioTypeOK'
  BY DEF RadioTypeOK, StationTypeOK
<1>4. ControlTypeOK'
  BY DEF ControlTypeOK, Labels, HostLabels, FlushSteps, ClientTypeOK
<1>5. Control'
  BY DEF Control, SendPath, ConfigSteps, ControlTypeOK, Labels, HostLabels, FlushSteps
<1>6. StateFits'
  BY DEF StateFits, Control, StationTypeOK, SendPath, ConfigSteps, ControlTypeOK,
     Labels, HostLabels, FlushSteps
<1>7. Configured'
  BY DEF Configured, Control, StateFits, ConfigSteps, ControlTypeOK, Labels,
     HostLabels, FlushSteps
<1>8. Sending'
  BY DEF Sending, StateFits, StationTypeOK, SendPath, ControlTypeOK, Labels,
     HostLabels, FlushSteps
<1>9. Counting'
  BY DEF Counting, Configured, Control, Sending, StationTypeOK, ControlTypeOK, Labels,
     HostLabels, FlushSteps
<1>10. Radio'
  BY DEF Radio, Control, RadioTypeOK, InTx, ControlTypeOK, Labels, HostLabels,
     FlushSteps
<1>11. Wakeup'
  BY DEF Wakeup, Configured, StateFits, Control, ClientTypeOK, SendPath, ConfigSteps,
     ControlTypeOK, Labels, HostLabels, FlushSteps
<1>12. NoAssertionFails'
  BY DEF NoAssertionFails
<1> QED
  BY <1>1, <1>2, <1>3, <1>4, <1>5, <1>6, <1>7, <1>8, <1>9, <1>10, <1>11, <1>12

\* DispatchWaitEnd preserves the invariant.
LEMMA DispatchWaitEndKeeps ==
  ASSUME IInv, NEW c \in Contexts, DispatchWaitEnd(c)
  PROVE  IInv'
<1> USE DEF DispatchWaitEnd, At, Goto, Contexts, fmVars, radioVars, ghostVars, IInv, TypeOK
<1>1. StationTypeOK'
  BY DEF StationTypeOK
<1>2. ClientTypeOK'
  BY DEF ClientTypeOK
<1>3. RadioTypeOK'
  BY DEF RadioTypeOK, StationTypeOK
<1>4. ControlTypeOK'
  BY DEF ControlTypeOK, Labels, HostLabels, FlushSteps, ClientTypeOK
<1>5. Control'
  BY DEF Control, SendPath, ConfigSteps, ControlTypeOK, Labels, HostLabels, FlushSteps
<1>6. StateFits'
  BY DEF StateFits, Control, StationTypeOK, SendPath, ConfigSteps, ControlTypeOK,
     Labels, HostLabels, FlushSteps
<1>7. Configured'
  BY DEF Configured, Control, StateFits, ConfigSteps, ControlTypeOK, Labels,
     HostLabels, FlushSteps
<1>8. Sending'
  BY DEF Sending, StateFits, StationTypeOK, SendPath, ControlTypeOK, Labels,
     HostLabels, FlushSteps, Control
<1>9. Counting'
  BY DEF Counting, Configured, Control, Sending, StationTypeOK, ControlTypeOK, Labels,
     HostLabels, FlushSteps
<1>10. Radio'
  BY DEF Radio, Control, RadioTypeOK, InTx, ControlTypeOK, Labels, HostLabels,
     FlushSteps
<1>11. Wakeup'
  BY DEF Wakeup, Configured, StateFits, Control, ClientTypeOK, SendPath, ConfigSteps,
     ControlTypeOK, Labels, HostLabels, FlushSteps
<1>12. NoAssertionFails'
  BY DEF NoAssertionFails
<1> QED
  BY <1>1, <1>2, <1>3, <1>4, <1>5, <1>6, <1>7, <1>8, <1>9, <1>10, <1>11, <1>12

\* Flush preserves the invariant.
LEMMA FlushKeeps ==
  ASSUME IInv, NEW c \in Contexts, Flush(c)
  PROVE  IInv'
<1> USE DEF Flush, At, Goto, Contexts, fmVars, radioVars, ghostVars, IInv, TypeOK
<1>1. StationTypeOK'
  BY DEF StationTypeOK
<1>2. ClientTypeOK'
  BY DEF ClientTypeOK
<1>3. RadioTypeOK'
  BY DEF RadioTypeOK, StationTypeOK
<1>4. ControlTypeOK'
  BY DEF ControlTypeOK, Labels, HostLabels, FlushSteps, ClientTypeOK
<1>5. Control'
  BY DEF Control, SendPath, ConfigSteps, ControlTypeOK, Labels, HostLabels, FlushSteps
<1>6. StateFits'
  BY DEF StateFits, Control, StationTypeOK, SendPath, ConfigSteps, ControlTypeOK,
     Labels, HostLabels, FlushSteps
<1>7. Configured'
  BY DEF Configured, Control, StateFits, ConfigSteps, ControlTypeOK, Labels,
     HostLabels, FlushSteps
<1>8. Sending'
  BY DEF Sending, StateFits, StationTypeOK, SendPath, ControlTypeOK, Labels,
     HostLabels, FlushSteps
<1>9. Counting'
  BY DEF Counting, Configured, Control, Sending, StationTypeOK, ControlTypeOK, Labels,
     HostLabels, FlushSteps
<1>10. Radio'
  BY DEF Radio, Control, RadioTypeOK, InTx, ControlTypeOK, Labels, HostLabels,
     FlushSteps
<1>11. Wakeup'
  BY DEF Wakeup, Configured, StateFits, Control, ClientTypeOK, SendPath, ConfigSteps,
     ControlTypeOK, Labels, HostLabels, FlushSteps
<1>12. NoAssertionFails'
  BY DEF NoAssertionFails
<1> QED
  BY <1>1, <1>2, <1>3, <1>4, <1>5, <1>6, <1>7, <1>8, <1>9, <1>10, <1>11, <1>12

\* TestMode preserves the invariant.
LEMMA TestModeKeeps ==
  ASSUME IInv, NEW c \in Contexts, TestMode(c)
  PROVE  IInv'
<1> USE DEF TestMode, At, Goto, Contexts, fmVars, radioVars, ghostVars, IInv, TypeOK
<1>1. StationTypeOK'
  BY DEF StationTypeOK
<1>2. ClientTypeOK'
  BY DEF ClientTypeOK
<1>3. RadioTypeOK'
  BY DEF RadioTypeOK, StationTypeOK
<1>4. ControlTypeOK'
  BY DEF ControlTypeOK, Labels, HostLabels, FlushSteps, ClientTypeOK
<1>5. Control'
  BY DEF Control, SendPath, ConfigSteps, ControlTypeOK, Labels, HostLabels, FlushSteps
<1>6. StateFits'
  BY DEF StateFits, Control, StationTypeOK, SendPath, ConfigSteps, ControlTypeOK,
     Labels, HostLabels, FlushSteps
<1>7. Configured'
  BY DEF Configured, Control, StateFits, ConfigSteps, ControlTypeOK, Labels,
     HostLabels, FlushSteps
<1>8. Sending'
  BY DEF Sending, StateFits, StationTypeOK, SendPath, ControlTypeOK, Labels,
     HostLabels, FlushSteps
<1>9. Counting'
  BY DEF Counting, Configured, Control, Sending, StationTypeOK, ControlTypeOK, Labels,
     HostLabels, FlushSteps
<1>10. Radio'
  BY DEF Radio, Control, RadioTypeOK, InTx, ControlTypeOK, Labels, HostLabels,
     FlushSteps
<1>11. Wakeup'
  BY DEF Wakeup, Configured, StateFits, Control, ClientTypeOK, SendPath, ConfigSteps,
     ControlTypeOK, Labels, HostLabels, FlushSteps
<1>12. NoAssertionFails'
  BY DEF NoAssertionFails
<1> QED
  BY <1>1, <1>2, <1>3, <1>4, <1>5, <1>6, <1>7, <1>8, <1>9, <1>10, <1>11, <1>12

\* ModeSet preserves the invariant.
LEMMA ModeSetKeeps ==
  ASSUME IInv, NEW c \in Contexts, ModeSet(c)
  PROVE  IInv'
<1> USE DEF ModeSet, At, Goto, Contexts, fmVars, radioVars, ghostVars, IInv, TypeOK
<1>1. StationTypeOK'
  BY DEF StationTypeOK
<1>2. ClientTypeOK'
  BY DEF ClientTypeOK
<1>3. RadioTypeOK'
  BY DEF RadioTypeOK, StationTypeOK
<1>4. ControlTypeOK'
  BY DEF ControlTypeOK, Labels, HostLabels, FlushSteps, ClientTypeOK
<1>5. Control'
  BY DEF Control, SendPath, ConfigSteps, ControlTypeOK, Labels, HostLabels, FlushSteps
<1>6. StateFits'
  BY DEF StateFits, Control, StationTypeOK, SendPath, ConfigSteps, ControlTypeOK,
     Labels, HostLabels, FlushSteps
<1>7. Configured'
  BY DEF Configured, Control, StateFits, ConfigSteps, ControlTypeOK, Labels,
     HostLabels, FlushSteps
<1>8. Sending'
  BY DEF Sending, StateFits, StationTypeOK, SendPath, ControlTypeOK, Labels,
     HostLabels, FlushSteps
<1>9. Counting'
  BY DEF Counting, Configured, Control, Sending, StationTypeOK, ControlTypeOK, Labels,
     HostLabels, FlushSteps
<1>10. Radio'
  BY DEF Radio, Control, RadioTypeOK, InTx, ControlTypeOK, Labels, HostLabels,
     FlushSteps
<1>11. Wakeup'
  BY DEF Wakeup, Configured, StateFits, Control, ClientTypeOK, SendPath, ConfigSteps,
     ControlTypeOK, Labels, HostLabels, FlushSteps
<1>12. NoAssertionFails'
  BY DEF NoAssertionFails
<1> QED
  BY <1>1, <1>2, <1>3, <1>4, <1>5, <1>6, <1>7, <1>8, <1>9, <1>10, <1>11, <1>12

\* ModeSetFails preserves the invariant.
LEMMA ModeSetFailsKeeps ==
  ASSUME IInv, NEW c \in Contexts, ModeSetFails(c)
  PROVE  IInv'
<1> USE DEF ModeSetFails, At, Goto, Contexts, fmVars, radioVars, ghostVars, IInv, TypeOK
<1>1. StationTypeOK'
  BY DEF StationTypeOK
<1>2. ClientTypeOK'
  BY DEF ClientTypeOK
<1>3. RadioTypeOK'
  BY DEF RadioTypeOK, StationTypeOK
<1>4. ControlTypeOK'
  BY DEF ControlTypeOK, Labels, HostLabels, FlushSteps, ClientTypeOK
<1>5. Control'
  BY DEF Control, SendPath, ConfigSteps, ControlTypeOK, Labels, HostLabels, FlushSteps
<1>6. StateFits'
  BY DEF StateFits, Control, StationTypeOK, SendPath, ConfigSteps, ControlTypeOK,
     Labels, HostLabels, FlushSteps
<1>7. Configured'
  BY DEF Configured, Control, StateFits, ConfigSteps, ControlTypeOK, Labels,
     HostLabels, FlushSteps
<1>8. Sending'
  BY DEF Sending, StateFits, StationTypeOK, SendPath, ControlTypeOK, Labels,
     HostLabels, FlushSteps
<1>9. Counting'
  BY DEF Counting, Configured, Control, Sending, StationTypeOK, ControlTypeOK, Labels,
     HostLabels, FlushSteps
<1>10. Radio'
  BY DEF Radio, Control, RadioTypeOK, InTx, ControlTypeOK, Labels, HostLabels,
     FlushSteps
<1>11. Wakeup'
  BY DEF Wakeup, Configured, StateFits, Control, ClientTypeOK, SendPath, ConfigSteps,
     ControlTypeOK, Labels, HostLabels, FlushSteps
<1>12. NoAssertionFails'
  BY DEF NoAssertionFails
<1> QED
  BY <1>1, <1>2, <1>3, <1>4, <1>5, <1>6, <1>7, <1>8, <1>9, <1>10, <1>11, <1>12

\* TxReadyDirect preserves the invariant.
LEMMA TxReadyDirectKeeps ==
  ASSUME IInv, NEW c \in Contexts, TxReadyDirect(c)
  PROVE  IInv'
<1>a. InTx /\ fault' = fault
  <2>1. InTx
    BY DEF TxReadyDirect, At, Contexts, Radio, IInv
  <2> QED
    BY <2>1 DEF TxReadyDirect, IInv
<1>b. /\ pc[c] = "direct" /\ (c = "spi" => pc["sched"] = "idle")
      /\ pc' = [pc EXCEPT ![c] = "fifoWrite"]
      /\ txready' = FALSE /\ txempty' = TRUE
      /\ UNCHANGED <<fmVars, payloadSize, write, txFifo, timer, radio, onAir, item, ghostVars>>
  BY <1>a DEF TxReadyDirect, At, Goto
<1> USE <1>a, <1>b DEF Contexts, fmVars, ghostVars, IInv, TypeOK
<1>1. StationTypeOK'
  BY DEF StationTypeOK
<1>2. ClientTypeOK'
  BY DEF ClientTypeOK
<1>3. RadioTypeOK'
  BY DEF RadioTypeOK, StationTypeOK
<1>4. ControlTypeOK'
  BY DEF ControlTypeOK, Labels, HostLabels, FlushSteps, ClientTypeOK
<1>5. Control'
  BY DEF Control, SendPath, ConfigSteps, ControlTypeOK, Labels, HostLabels, FlushSteps
<1>6. StateFits'
  BY DEF StateFits, Control, StationTypeOK, SendPath, ConfigSteps, ControlTypeOK,
     Labels, HostLabels, FlushSteps
<1>7. Configured'
  BY DEF Configured, Control, StateFits, ConfigSteps, ControlTypeOK, Labels,
     HostLabels, FlushSteps
<1>8. Sending'
  BY DEF Sending, StateFits, StationTypeOK, SendPath, ControlTypeOK, Labels,
     HostLabels, FlushSteps
<1>9. Counting'
  BY DEF Counting, Configured, Control, Sending, StationTypeOK, ControlTypeOK, Labels,
     HostLabels, FlushSteps
<1>10. Radio'
  BY DEF Radio, Control, RadioTypeOK, InTx, ControlTypeOK, Labels, HostLabels,
     FlushSteps
<1>11. Wakeup'
  BY DEF Wakeup, Configured, StateFits, Control, ClientTypeOK, SendPath, ConfigSteps,
     ControlTypeOK, Labels, HostLabels, FlushSteps
<1>12. NoAssertionFails'
  BY DEF NoAssertionFails
<1> QED
  BY <1>1, <1>2, <1>3, <1>4, <1>5, <1>6, <1>7, <1>8, <1>9, <1>10, <1>11, <1>12

\* FifoWrite preserves the invariant.
LEMMA FifoWriteKeeps ==
  ASSUME IInv, NEW c \in Contexts, FifoWrite(c)
  PROVE  IInv'
<1> USE DEF FifoWrite, At, Goto, Contexts, fmVars, radioVars, ghostVars, IInv, TypeOK
<1>1. StationTypeOK'
  BY DEF StationTypeOK
<1>2. ClientTypeOK'
  BY DEF ClientTypeOK
<1>3. RadioTypeOK'
  BY DEF RadioTypeOK, StationTypeOK
<1>4. ControlTypeOK'
  BY DEF ControlTypeOK, Labels, HostLabels, FlushSteps, ClientTypeOK
<1>5. Control'
  BY DEF Control, SendPath, ConfigSteps, ControlTypeOK, Labels, HostLabels, FlushSteps
<1>6. StateFits'
  BY DEF StateFits, Control, StationTypeOK, SendPath, ConfigSteps, ControlTypeOK,
     Labels, HostLabels, FlushSteps
<1>7. Configured'
  BY DEF Configured, Control, StateFits, ConfigSteps, ControlTypeOK, Labels,
     HostLabels, FlushSteps
<1>8. Sending'
  BY DEF Sending, StateFits, StationTypeOK, SendPath, ControlTypeOK, Labels,
     HostLabels, FlushSteps
<1>9. Counting'
  BY DEF Counting, Configured, Control, Sending, StationTypeOK, ControlTypeOK, Labels,
     HostLabels, FlushSteps
<1>10. Radio'
  BY DEF Radio, Control, RadioTypeOK, InTx, ControlTypeOK, Labels, HostLabels,
     FlushSteps
<1>11. Wakeup'
  BY DEF Wakeup, Configured, StateFits, Control, ClientTypeOK, SendPath, ConfigSteps,
     ControlTypeOK, Labels, HostLabels, FlushSteps
<1>12. NoAssertionFails'
  BY DEF NoAssertionFails
<1> QED
  BY <1>1, <1>2, <1>3, <1>4, <1>5, <1>6, <1>7, <1>8, <1>9, <1>10, <1>11, <1>12

\* PopEmpty preserves the invariant.
LEMMA PopEmptyKeeps ==
  ASSUME IInv, NEW c \in Contexts, PopEmpty(c)
  PROVE  IInv'
<1> USE DEF PopEmpty, At, Goto, Contexts, fmVars, radioVars, ghostVars, IInv, TypeOK
<1>1. StationTypeOK'
  BY DEF StationTypeOK
<1>2. ClientTypeOK'
  BY DEF ClientTypeOK
<1>3. RadioTypeOK'
  BY DEF RadioTypeOK, StationTypeOK
<1>4. ControlTypeOK'
  BY DEF ControlTypeOK, Labels, HostLabels, FlushSteps, ClientTypeOK
<1>5. Control'
  BY DEF Control, SendPath, ConfigSteps, ControlTypeOK, Labels, HostLabels, FlushSteps
<1>6. StateFits'
  BY DEF StateFits, Control, StationTypeOK, SendPath, ConfigSteps, ControlTypeOK,
     Labels, HostLabels, FlushSteps
<1>7. Configured'
  BY DEF Configured, Control, StateFits, ConfigSteps, ControlTypeOK, Labels,
     HostLabels, FlushSteps
<1>8. Sending'
  BY DEF Sending, StateFits, StationTypeOK, SendPath, ControlTypeOK, Labels,
     HostLabels, FlushSteps
<1>9. Counting'
  BY DEF Counting, Configured, Control, Sending, StationTypeOK, ControlTypeOK, Labels,
     HostLabels, FlushSteps
<1>10. Radio'
  BY DEF Radio, Control, RadioTypeOK, InTx, ControlTypeOK, Labels, HostLabels,
     FlushSteps
<1>11. Wakeup'
  BY DEF Wakeup, Configured, StateFits, Control, ClientTypeOK, SendPath, ConfigSteps,
     ControlTypeOK, Labels, HostLabels, FlushSteps
<1>12. NoAssertionFails'
  BY DEF NoAssertionFails
<1> QED
  BY <1>1, <1>2, <1>3, <1>4, <1>5, <1>6, <1>7, <1>8, <1>9, <1>10, <1>11, <1>12

\* Pop preserves the invariant.
LEMMA PopKeeps ==
  ASSUME IInv, NEW c \in Contexts, Pop(c)
  PROVE  IInv'
<1> USE DEF Pop, At, Goto, Contexts, fmVars, radioVars, ghostVars, IInv, TypeOK
<1>1. StationTypeOK'
  BY DEF StationTypeOK
<1>2. ClientTypeOK'
  BY ParameterAssumption DEF ClientTypeOK
<1>3. RadioTypeOK'
  BY DEF RadioTypeOK, StationTypeOK
<1>4. ControlTypeOK'
  BY DEF ControlTypeOK, Labels, HostLabels, FlushSteps, ClientTypeOK
<1>5. Control'
  BY DEF Control, SendPath, ConfigSteps, ControlTypeOK, Labels, HostLabels, FlushSteps
<1>6. StateFits'
  BY DEF StateFits, Control, StationTypeOK, SendPath, ConfigSteps, ControlTypeOK,
     Labels, HostLabels, FlushSteps
<1>7. Configured'
  BY DEF Configured, Control, StateFits, ConfigSteps, ControlTypeOK, Labels,
     HostLabels, FlushSteps
<1>a. pc["spi"] # "initWrite"
  BY DEF Control, SendPath, ConfigSteps
<1>b. txFifo \in Seq(Packets) /\ Head(txFifo) \in Packets /\ Tail(txFifo) \in Seq(Packets)
  BY <1>a DEF Wakeup
<1>8. Sending'
  BY <1>b DEF Sending, StateFits, StationTypeOK, SendPath, ControlTypeOK, Labels,
     HostLabels, FlushSteps
<1>9. Counting'
  BY DEF Counting, Configured, Control, Sending, StationTypeOK, ControlTypeOK, Labels,
     HostLabels, FlushSteps
<1>10. Radio'
  BY DEF Radio, Control, RadioTypeOK, InTx, ControlTypeOK, Labels, HostLabels,
     FlushSteps
<1>11. Wakeup'
  <2>1. Len(txFifo') = Len(txFifo) - 1 /\ Len(txFifo) \in Nat
    BY DEF ClientTypeOK
  <2>2. ~ initialized' => Len(txFifo') <= 0 /\ txFifo' = <<>>
    <3>1. ~ initialized => Len(txFifo) <= 1
      BY <1>a, <2>1 DEF Wakeup
    <3>2. Len(txFifo') <= 0 => txFifo' = <<>>
      BY DEF ClientTypeOK
    <3> QED
      BY <2>1, <3>1, <3>2
  <2>3. pc'["spi"] \notin ConfigSteps
    BY DEF Control, SendPath, ConfigSteps, ControlTypeOK
  <2>4. pc'["spi"] = "commit" => Len(txFifo') < Capacity
    BY <2>1, ParameterAssumption DEF ClientTypeOK
  <2>5. initialized' => pc'[c] = "send"
    BY DEF ControlTypeOK
  <2>6. txFifo' \in Seq(Packets) /\ pc'["spi"] # "initWrite"
    BY <1>b, <2>3 DEF ConfigSteps
  <2> QED
    BY <2>2, <2>3, <2>4, <2>5, <2>6 DEF Wakeup
<1>12. NoAssertionFails'
  BY DEF NoAssertionFails
<1> QED
  BY <1>1, <1>2, <1>3, <1>4, <1>5, <1>6, <1>7, <1>8, <1>9, <1>10, <1>11, <1>12

\* SendRefused preserves the invariant.
LEMMA SendRefusedKeeps ==
  ASSUME IInv, NEW c \in Contexts, SendRefused(c)
  PROVE  IInv'
<1> USE DEF SendRefused, At, Goto, Contexts, fmVars, radioVars, ghostVars, IInv, TypeOK
<1>1. StationTypeOK'
  BY DEF StationTypeOK
<1>2. ClientTypeOK'
  BY DEF ClientTypeOK
<1>3. RadioTypeOK'
  BY DEF RadioTypeOK, StationTypeOK
<1>4. ControlTypeOK'
  BY DEF ControlTypeOK, Labels, HostLabels, FlushSteps, ClientTypeOK
<1>5. Control'
  BY DEF Control, SendPath, ConfigSteps, ControlTypeOK, Labels, HostLabels, FlushSteps
<1>6. StateFits'
  BY DEF StateFits, Control, StationTypeOK, SendPath, ConfigSteps, ControlTypeOK,
     Labels, HostLabels, FlushSteps
<1>7. Configured'
  BY DEF Configured, Control, StateFits, ConfigSteps, ControlTypeOK, Labels,
     HostLabels, FlushSteps
<1>8. Sending'
  BY DEF Sending, StateFits, StationTypeOK, SendPath, ControlTypeOK, Labels,
     HostLabels, FlushSteps
<1>9. Counting'
  BY DEF Counting, Configured, Control, Sending, StationTypeOK, ControlTypeOK, Labels,
     HostLabels, FlushSteps
<1>10. Radio'
  BY DEF Radio, Control, RadioTypeOK, InTx, ControlTypeOK, Labels, HostLabels,
     FlushSteps
<1>11. Wakeup'
  BY DEF Wakeup, Configured, StateFits, Control, ClientTypeOK, SendPath, ConfigSteps,
     ControlTypeOK, Labels, HostLabels, FlushSteps, fmacCanSend
<1>12. NoAssertionFails'
  BY DEF NoAssertionFails
<1> QED
  BY <1>1, <1>2, <1>3, <1>4, <1>5, <1>6, <1>7, <1>8, <1>9, <1>10, <1>11, <1>12

\* SendEncode preserves the invariant.
LEMMA SendEncodeKeeps ==
  ASSUME IInv, NEW c \in Contexts, SendEncode(c)
  PROVE  IInv'
<1>a. ~ txPacketValid /\ payloadSize = payloadLen
  BY DEF SendEncode, At, Contexts, fmacCanSend, IInv, Sending, Configured, Control,
     ConfigSteps, TypeOK, ControlTypeOK
<1>b. /\ pc[c] = "send" /\ (c = "spi" => pc["sched"] = "idle") /\ initialized
      /\ pc' = [pc EXCEPT ![c] = "start"]
      /\ txPacket' = Torn /\ fault' = "none"
      /\ UNCHANGED <<state, repetition, n, txPacketValid, payloadLen, initialized,
                     payloadSize, write, txFifo, timer, radioVars, item, ghostVars>>
  BY <1>a DEF SendEncode, At, Goto, IInv
<1> USE <1>a, <1>b DEF Contexts, radioVars, ghostVars, IInv, TypeOK
<1>1. StationTypeOK'
  BY DEF StationTypeOK
<1>2. ClientTypeOK'
  BY DEF ClientTypeOK
<1>3. RadioTypeOK'
  BY DEF RadioTypeOK, StationTypeOK
<1>4. ControlTypeOK'
  BY DEF ControlTypeOK, Labels, HostLabels, FlushSteps, Faults
<1>5. Control'
  BY DEF Control, SendPath, ConfigSteps, ControlTypeOK, Labels, HostLabels, FlushSteps
<1>6. StateFits'
  BY DEF StateFits, Control, StationTypeOK, SendPath, ConfigSteps, ControlTypeOK,
     Labels, HostLabels, FlushSteps
<1>7. Configured'
  BY DEF Configured, Control, StateFits, ConfigSteps, ControlTypeOK, Labels,
     HostLabels, FlushSteps
<1>8. Sending'
  BY DEF Sending, StateFits, StationTypeOK, SendPath, ControlTypeOK, Labels,
     HostLabels, FlushSteps
<1>9. Counting'
  BY DEF Counting, Configured, Control, Sending, StationTypeOK, ControlTypeOK, Labels,
     HostLabels, FlushSteps
<1>10. Radio'
  BY DEF Radio, Control, RadioTypeOK, InTx, ControlTypeOK, Labels, HostLabels,
     FlushSteps
<1>11. Wakeup'
  BY DEF Wakeup, Configured, StateFits, Control, ClientTypeOK, SendPath, ConfigSteps,
     ControlTypeOK, Labels, HostLabels, FlushSteps
<1>12. NoAssertionFails'
  BY DEF NoAssertionFails
<1> QED
  BY <1>1, <1>2, <1>3, <1>4, <1>5, <1>6, <1>7, <1>8, <1>9, <1>10, <1>11, <1>12

\* SendStart preserves the invariant.
LEMMA SendStartKeeps ==
  ASSUME IInv, NEW c \in Contexts, SendStart(c)
  PROVE  IInv'
<1> USE DEF SendStart, At, Goto, Contexts, fmVars, radioVars, ghostVars, IInv, TypeOK
<1>1. StationTypeOK'
  BY DEF StationTypeOK, Sending
<1>2. ClientTypeOK'
  BY DEF ClientTypeOK
<1>3. RadioTypeOK'
  BY DEF RadioTypeOK, StationTypeOK
<1>4. ControlTypeOK'
  BY DEF ControlTypeOK, Labels, HostLabels, FlushSteps, ClientTypeOK, Sending
<1>5. Control'
  BY DEF Control, SendPath, ConfigSteps, ControlTypeOK, Labels, HostLabels, FlushSteps
<1>6. StateFits'
  BY DEF StateFits, Control, StationTypeOK, SendPath, ConfigSteps, ControlTypeOK,
     Labels, HostLabels, FlushSteps
<1>7. Configured'
  BY DEF Configured, Control, StateFits, ConfigSteps, ControlTypeOK, Labels,
     HostLabels, FlushSteps
<1>8. Sending'
  BY PacketsAssumption DEF Sending, StateFits, StationTypeOK, SendPath, ControlTypeOK,
     Labels, HostLabels, FlushSteps, Control
<1>9. Counting'
  BY CountsAssumption DEF Counting, Configured, Control, Sending, StationTypeOK,
     ControlTypeOK, Labels, HostLabels, FlushSteps, StateFits
<1>10. Radio'
  BY DEF Radio, Control, RadioTypeOK, InTx, ControlTypeOK, Labels, HostLabels,
     FlushSteps
<1>11. Wakeup'
  BY DEF Wakeup, Configured, StateFits, Control, ClientTypeOK, SendPath, ConfigSteps,
     ControlTypeOK, Labels, HostLabels, FlushSteps
<1>12. NoAssertionFails'
  BY DEF NoAssertionFails
<1> QED
  BY <1>1, <1>2, <1>3, <1>4, <1>5, <1>6, <1>7, <1>8, <1>9, <1>10, <1>11, <1>12

\* HostWrite preserves the invariant.
LEMMA HostWriteKeeps ==
  ASSUME IInv, NEW p \in Packets, HostWrite(p)
  PROVE  IInv'
<1> USE DEF HostWrite, At, Goto, Contexts, fmVars, radioVars, ghostVars, IInv, TypeOK
<1>1. StationTypeOK'
  BY DEF StationTypeOK
<1>2. ClientTypeOK'
  BY DEF ClientTypeOK
<1>3. RadioTypeOK'
  BY DEF RadioTypeOK, StationTypeOK
<1>4. ControlTypeOK'
  BY DEF ControlTypeOK, Labels, HostLabels, FlushSteps, ClientTypeOK
<1>5. Control'
  BY DEF Control, SendPath, ConfigSteps, ControlTypeOK, Labels, HostLabels, FlushSteps
<1>6. StateFits'
  BY DEF StateFits, Control, StationTypeOK, SendPath, ConfigSteps, ControlTypeOK,
     Labels, HostLabels, FlushSteps
<1>7. Configured'
  BY DEF Configured, Control, StateFits, ConfigSteps, ControlTypeOK, Labels,
     HostLabels, FlushSteps
<1>8. Sending'
  BY DEF Sending, StateFits, StationTypeOK, SendPath, ControlTypeOK, Labels,
     HostLabels, FlushSteps
<1>9. Counting'
  BY DEF Counting, Configured, Control, Sending, StationTypeOK, ControlTypeOK, Labels,
     HostLabels, FlushSteps
<1>10. Radio'
  BY DEF Radio, Control, RadioTypeOK, InTx, ControlTypeOK, Labels, HostLabels,
     FlushSteps
<1>11. Wakeup'
  BY DEF Wakeup, Configured, StateFits, Control, ClientTypeOK, SendPath, ConfigSteps,
     ControlTypeOK, Labels, HostLabels, FlushSteps
<1>12. NoAssertionFails'
  BY DEF NoAssertionFails
<1> QED
  BY <1>1, <1>2, <1>3, <1>4, <1>5, <1>6, <1>7, <1>8, <1>9, <1>10, <1>11, <1>12

\* HostCommit preserves the invariant.
LEMMA HostCommitKeeps ==
  ASSUME IInv, HostCommit
  PROVE  IInv'
<1> USE DEF HostCommit, At, Goto, Contexts, fmVars, radioVars, ghostVars, IInv, TypeOK
<1>1. StationTypeOK'
  BY DEF StationTypeOK
<1>2. ClientTypeOK'
  BY ParameterAssumption DEF ClientTypeOK, Sending, Wakeup
<1>3. RadioTypeOK'
  BY DEF RadioTypeOK, StationTypeOK
<1>4. ControlTypeOK'
  BY DEF ControlTypeOK, Labels, HostLabels, FlushSteps, ClientTypeOK
<1>5. Control'
  BY DEF Control, SendPath, ConfigSteps, ControlTypeOK, Labels, HostLabels, FlushSteps
<1>6. StateFits'
  BY DEF StateFits, Control, StationTypeOK, SendPath, ConfigSteps, ControlTypeOK,
     Labels, HostLabels, FlushSteps
<1>7. Configured'
  BY DEF Configured, Control, StateFits, ConfigSteps, ControlTypeOK, Labels,
     HostLabels, FlushSteps
<1>8. Sending'
  BY DEF Sending, StateFits, StationTypeOK, SendPath, ControlTypeOK, Labels,
     HostLabels, FlushSteps
<1>9. Counting'
  BY DEF Counting, Configured, Control, Sending, StationTypeOK, ControlTypeOK, Labels,
     HostLabels, FlushSteps
<1>10. Radio'
  BY DEF Radio, Control, RadioTypeOK, InTx, ControlTypeOK, Labels, HostLabels,
     FlushSteps
<1>a. txFifo \in Seq(Packets) /\ item["spi"] \in Packets
  BY DEF Wakeup, Sending
<1>b. txFifo' \in Seq(Packets) /\ Len(txFifo') = Len(txFifo) + 1
  BY <1>a
<1>11. Wakeup'
  BY <1>a, <1>b DEF Wakeup, Configured, StateFits, Control, ClientTypeOK, SendPath, ConfigSteps,
     ControlTypeOK, Labels, HostLabels, FlushSteps
<1>12. NoAssertionFails'
  BY DEF NoAssertionFails
<1> QED
  BY <1>1, <1>2, <1>3, <1>4, <1>5, <1>6, <1>7, <1>8, <1>9, <1>10, <1>11, <1>12

\* HostTrigger preserves the invariant.
LEMMA HostTriggerKeeps ==
  ASSUME IInv, HostTrigger
  PROVE  IInv'
<1> USE DEF HostTrigger, At, Goto, Contexts, fmVars, radioVars, ghostVars, IInv, TypeOK
<1>1. StationTypeOK'
  BY DEF StationTypeOK
<1>2. ClientTypeOK'
  BY DEF ClientTypeOK
<1>3. RadioTypeOK'
  BY DEF RadioTypeOK, StationTypeOK
<1>4. ControlTypeOK'
  BY DEF ControlTypeOK, Labels, HostLabels, FlushSteps, ClientTypeOK
<1>5. Control'
  BY DEF Control, SendPath, ConfigSteps, ControlTypeOK, Labels, HostLabels,
     FlushSteps, fmacCanSend, StateFits
<1>6. StateFits'
  BY DEF StateFits, Control, StationTypeOK, SendPath, ConfigSteps, ControlTypeOK,
     Labels, HostLabels, FlushSteps, fmacCanSend
<1>7. Configured'
  BY DEF Configured, Control, StateFits, ConfigSteps, ControlTypeOK, Labels,
     HostLabels, FlushSteps
<1>8. Sending'
  BY DEF Sending, StateFits, StationTypeOK, SendPath, ControlTypeOK, Labels,
     HostLabels, FlushSteps
<1>9. Counting'
  BY DEF Counting, Configured, Control, Sending, StationTypeOK, ControlTypeOK, Labels,
     HostLabels, FlushSteps
<1>10. Radio'
  BY DEF Radio, Control, RadioTypeOK, InTx, ControlTypeOK, Labels, HostLabels,
     FlushSteps
<1>11. Wakeup'
  BY DEF Wakeup, Configured, StateFits, Control, ClientTypeOK, SendPath, ConfigSteps,
     ControlTypeOK, Labels, HostLabels, FlushSteps, fmacCanSend
<1>12. NoAssertionFails'
  BY DEF NoAssertionFails
<1> QED
  BY <1>1, <1>2, <1>3, <1>4, <1>5, <1>6, <1>7, <1>8, <1>9, <1>10, <1>11, <1>12

\* HostConfig preserves the invariant.
LEMMA HostConfigKeeps ==
  ASSUME IInv, HostWaits, NEW len \in Lengths, HostConfig(len)
  PROVE  IInv'
<1> USE DEF HostConfig, At, Goto, Contexts, fmVars, radioVars, ghostVars, IInv, TypeOK
<1>1. StationTypeOK'
  BY DEF StationTypeOK
<1>2. ClientTypeOK'
  BY DEF ClientTypeOK
<1>3. RadioTypeOK'
  BY DEF RadioTypeOK, StationTypeOK
<1>4. ControlTypeOK'
  BY DEF ControlTypeOK, Labels, HostLabels, FlushSteps, ClientTypeOK
<1>5. Control'
  BY DEF Control, SendPath, ConfigSteps, ControlTypeOK, Labels, HostLabels,
     FlushSteps, Quiet, StateFits
<1>6. StateFits'
  BY DEF StateFits, Control, StationTypeOK, SendPath, ConfigSteps, ControlTypeOK,
     Labels, HostLabels, FlushSteps, Quiet
<1>7. Configured'
  BY DEF Configured, Control, StateFits, ConfigSteps, ControlTypeOK, Labels,
     HostLabels, FlushSteps
<1>8. Sending'
  BY DEF Sending, StateFits, StationTypeOK, SendPath, ControlTypeOK, Labels,
     HostLabels, FlushSteps
<1>9. Counting'
  BY DEF Counting, Configured, Control, Sending, StationTypeOK, ControlTypeOK, Labels,
     HostLabels, FlushSteps
<1>10. Radio'
  BY DEF Radio, Control, RadioTypeOK, InTx, ControlTypeOK, Labels, HostLabels,
     FlushSteps
<1>11. Wakeup'
  BY DEF Wakeup, Configured, StateFits, Control, ClientTypeOK, SendPath, ConfigSteps,
     ControlTypeOK, Labels, HostLabels, FlushSteps, Quiet
<1>12. NoAssertionFails'
  BY DEF NoAssertionFails
<1> QED
  BY <1>1, <1>2, <1>3, <1>4, <1>5, <1>6, <1>7, <1>8, <1>9, <1>10, <1>11, <1>12

\* InitRead preserves the invariant.
LEMMA InitReadKeeps ==
  ASSUME IInv, InitRead
  PROVE  IInv'
<1> USE DEF InitRead, At, Goto, Contexts, fmVars, radioVars, ghostVars, IInv, TypeOK
<1>1. StationTypeOK'
  BY DEF StationTypeOK
<1>2. ClientTypeOK'
  BY ParameterAssumption DEF ClientTypeOK
<1>3. RadioTypeOK'
  BY DEF RadioTypeOK, StationTypeOK
<1>4. ControlTypeOK'
  BY DEF ControlTypeOK, Labels, HostLabels, FlushSteps, ClientTypeOK
<1>5. Control'
  BY DEF Control, SendPath, ConfigSteps, ControlTypeOK, Labels, HostLabels, FlushSteps
<1>6. StateFits'
  BY DEF StateFits, Control, StationTypeOK, SendPath, ConfigSteps, ControlTypeOK,
     Labels, HostLabels, FlushSteps
<1>7. Configured'
  BY DEF Configured, Control, StateFits, ConfigSteps, ControlTypeOK, Labels,
     HostLabels, FlushSteps
<1>8. Sending'
  BY DEF Sending, StateFits, StationTypeOK, SendPath, ControlTypeOK, Labels,
     HostLabels, FlushSteps
<1>9. Counting'
  BY DEF Counting, Configured, Control, Sending, StationTypeOK, ControlTypeOK, Labels,
     HostLabels, FlushSteps
<1>10. Radio'
  BY DEF Radio, Control, RadioTypeOK, InTx, ControlTypeOK, Labels, HostLabels,
     FlushSteps
<1>11. Wakeup'
  BY DEF Wakeup, Configured, StateFits, Control, ClientTypeOK, SendPath, ConfigSteps,
     ControlTypeOK, Labels, HostLabels, FlushSteps
<1>12. NoAssertionFails'
  BY DEF NoAssertionFails
<1> QED
  BY <1>1, <1>2, <1>3, <1>4, <1>5, <1>6, <1>7, <1>8, <1>9, <1>10, <1>11, <1>12

\* InitWrite preserves the invariant.
LEMMA InitWriteKeeps ==
  ASSUME IInv, InitWrite
  PROVE  IInv'
<1> USE DEF InitWrite, At, Goto, Contexts, fmVars, radioVars, ghostVars, IInv, TypeOK
<1>a. write - Len(txFifo) = 0 /\ txFifo' = <<>> /\ write' = 0
  BY DEF Wakeup, ClientTypeOK
<1>1. StationTypeOK'
  BY DEF StationTypeOK
<1>2. ClientTypeOK'
  BY <1>a, ParameterAssumption DEF ClientTypeOK
<1>3. RadioTypeOK'
  BY DEF RadioTypeOK, StationTypeOK
<1>4. ControlTypeOK'
  BY DEF ControlTypeOK, Labels, HostLabels, FlushSteps, ClientTypeOK
<1>5. Control'
  BY DEF Control, SendPath, ConfigSteps, ControlTypeOK, Labels, HostLabels, FlushSteps
<1>6. StateFits'
  BY DEF StateFits, Control, StationTypeOK, SendPath, ConfigSteps, ControlTypeOK,
     Labels, HostLabels, FlushSteps
<1>7. Configured'
  BY DEF Configured, Control, StateFits, ConfigSteps, ControlTypeOK, Labels,
     HostLabels, FlushSteps
<1>8. Sending'
  BY DEF Sending, StateFits, StationTypeOK, SendPath, ControlTypeOK, Labels,
     HostLabels, FlushSteps
<1>9. Counting'
  BY DEF Counting, Configured, Control, Sending, StationTypeOK, ControlTypeOK, Labels,
     HostLabels, FlushSteps
<1>10. Radio'
  BY DEF Radio, Control, RadioTypeOK, InTx, ControlTypeOK, Labels, HostLabels,
     FlushSteps
<1>11. Wakeup'
  BY <1>a DEF Wakeup, Configured, StateFits, Control, ClientTypeOK, SendPath, ConfigSteps,
     ControlTypeOK, Labels, HostLabels, FlushSteps
<1>12. NoAssertionFails'
  BY DEF NoAssertionFails
<1> QED
  BY <1>1, <1>2, <1>3, <1>4, <1>5, <1>6, <1>7, <1>8, <1>9, <1>10, <1>11, <1>12

\* fmacInit preserves the invariant.
LEMMA fmacInitKeeps ==
  ASSUME IInv, NEW count \in FrameletCounts, NEW obeys \in BOOLEAN, fmacInit(count, obeys)
  PROVE  IInv'
<1> USE DEF fmacInit, At, Goto, Contexts, fmVars, radioVars, ghostVars, IInv, TypeOK
<1>1. StationTypeOK'
  BY DEF StationTypeOK, ClientTypeOK
<1>2. ClientTypeOK'
  BY DEF ClientTypeOK
<1>3. RadioTypeOK'
  BY DEF RadioTypeOK, StationTypeOK
<1>4. ControlTypeOK'
  BY DEF ControlTypeOK, Labels, HostLabels, FlushSteps, ClientTypeOK
<1>5. Control'
  BY DEF Control, SendPath, ConfigSteps, ControlTypeOK, Labels, HostLabels, FlushSteps
<1>6. StateFits'
  BY DEF StateFits, Control, StationTypeOK, SendPath, ConfigSteps, ControlTypeOK,
     Labels, HostLabels, FlushSteps
<1>7. Configured'
  BY DEF Configured, Control, StateFits, ConfigSteps, ControlTypeOK, Labels,
     HostLabels, FlushSteps
<1>8. Sending'
  BY DEF Sending, StateFits, StationTypeOK, SendPath, ControlTypeOK, Labels,
     HostLabels, FlushSteps
<1>9. Counting'
  BY DEF Counting, Configured, Control, Sending, StationTypeOK, ControlTypeOK, Labels,
     HostLabels, FlushSteps, StateFits, ConfigSteps
<1>10. Radio'
  BY DEF Radio, Control, RadioTypeOK, InTx, ControlTypeOK, Labels, HostLabels,
     FlushSteps
<1>11. Wakeup'
  BY DEF Wakeup, Configured, StateFits, Control, ClientTypeOK, SendPath, ConfigSteps,
     ControlTypeOK, Labels, HostLabels, FlushSteps
<1>12. NoAssertionFails'
  BY DEF NoAssertionFails
<1> QED
  BY <1>1, <1>2, <1>3, <1>4, <1>5, <1>6, <1>7, <1>8, <1>9, <1>10, <1>11, <1>12

\* InitWaitEnd preserves the invariant.
LEMMA InitWaitEndKeeps ==
  ASSUME IInv, InitWaitEnd
  PROVE  IInv'
<1> USE DEF InitWaitEnd, At, Goto, Contexts, fmVars, radioVars, ghostVars, IInv, TypeOK
<1>1. StationTypeOK'
  BY DEF StationTypeOK
<1>2. ClientTypeOK'
  BY DEF ClientTypeOK
<1>3. RadioTypeOK'
  BY DEF RadioTypeOK, StationTypeOK
<1>4. ControlTypeOK'
  BY DEF ControlTypeOK, Labels, HostLabels, FlushSteps, ClientTypeOK
<1>5. Control'
  BY DEF Control, SendPath, ConfigSteps, ControlTypeOK, Labels, HostLabels, FlushSteps
<1>6. StateFits'
  BY DEF StateFits, Control, StationTypeOK, SendPath, ConfigSteps, ControlTypeOK,
     Labels, HostLabels, FlushSteps
<1>7. Configured'
  BY DEF Configured, Control, StateFits, ConfigSteps, ControlTypeOK, Labels,
     HostLabels, FlushSteps
<1>8. Sending'
  BY DEF Sending, StateFits, StationTypeOK, SendPath, ControlTypeOK, Labels,
     HostLabels, FlushSteps, ConfigSteps
<1>9. Counting'
  BY DEF Counting, Configured, Control, Sending, StationTypeOK, ControlTypeOK, Labels,
     HostLabels, FlushSteps, StateFits, ConfigSteps
<1>10. Radio'
  BY DEF Radio, Control, RadioTypeOK, InTx, ControlTypeOK, Labels, HostLabels,
     FlushSteps
<1>11. Wakeup'
  BY DEF Wakeup, Configured, StateFits, Control, ClientTypeOK, SendPath, ConfigSteps,
     ControlTypeOK, Labels, HostLabels, FlushSteps
<1>12. NoAssertionFails'
  BY DEF NoAssertionFails
<1> QED
  BY <1>1, <1>2, <1>3, <1>4, <1>5, <1>6, <1>7, <1>8, <1>9, <1>10, <1>11, <1>12

\* Expire preserves the invariant.
LEMMA ExpireKeeps ==
  ASSUME IInv, Expire
  PROVE  IInv'
<1> USE DEF Expire, At, Goto, Contexts, fmVars, radioVars, ghostVars, IInv, TypeOK
<1>1. StationTypeOK'
  BY DEF StationTypeOK
<1>2. ClientTypeOK'
  BY DEF ClientTypeOK
<1>3. RadioTypeOK'
  BY DEF RadioTypeOK, StationTypeOK
<1>4. ControlTypeOK'
  BY DEF ControlTypeOK, Labels, HostLabels, FlushSteps, ClientTypeOK
<1>5. Control'
  BY DEF Control, SendPath, ConfigSteps, ControlTypeOK, Labels, HostLabels, FlushSteps
<1>6. StateFits'
  BY DEF StateFits, Control, StationTypeOK, SendPath, ConfigSteps, ControlTypeOK,
     Labels, HostLabels, FlushSteps
<1>7. Configured'
  BY DEF Configured, Control, StateFits, ConfigSteps, ControlTypeOK, Labels,
     HostLabels, FlushSteps
<1>8. Sending'
  BY DEF Sending, StateFits, StationTypeOK, SendPath, ControlTypeOK, Labels,
     HostLabels, FlushSteps
<1>9. Counting'
  BY DEF Counting, Configured, Control, Sending, StationTypeOK, ControlTypeOK, Labels,
     HostLabels, FlushSteps
<1>10. Radio'
  BY DEF Radio, Control, RadioTypeOK, InTx, ControlTypeOK, Labels, HostLabels,
     FlushSteps
<1>11. Wakeup'
  BY DEF Wakeup, Configured, StateFits, Control, ClientTypeOK, SendPath, ConfigSteps,
     ControlTypeOK, Labels, HostLabels, FlushSteps
<1>12. NoAssertionFails'
  BY DEF NoAssertionFails
<1> QED
  BY <1>1, <1>2, <1>3, <1>4, <1>5, <1>6, <1>7, <1>8, <1>9, <1>10, <1>11, <1>12

\* SchedIrq preserves the invariant.
LEMMA SchedIrqKeeps ==
  ASSUME IInv, SchedIrq
  PROVE  IInv'
<1> USE DEF SchedIrq, At, Goto, Contexts, fmVars, radioVars, ghostVars, IInv, TypeOK
<1>1. StationTypeOK'
  BY DEF StationTypeOK
<1>2. ClientTypeOK'
  BY DEF ClientTypeOK
<1>3. RadioTypeOK'
  BY DEF RadioTypeOK, StationTypeOK
<1>4. ControlTypeOK'
  BY DEF ControlTypeOK, Labels, HostLabels, FlushSteps, ClientTypeOK
<1>5. Control'
  BY DEF Control, SendPath, ConfigSteps, ControlTypeOK, Labels, HostLabels, FlushSteps
<1>6. StateFits'
  BY DEF StateFits, Control, StationTypeOK, SendPath, ConfigSteps, ControlTypeOK,
     Labels, HostLabels, FlushSteps
<1>7. Configured'
  BY DEF Configured, Control, StateFits, ConfigSteps, ControlTypeOK, Labels,
     HostLabels, FlushSteps
<1>8. Sending'
  BY DEF Sending, StateFits, StationTypeOK, SendPath, ControlTypeOK, Labels,
     HostLabels, FlushSteps
<1>9. Counting'
  BY DEF Counting, Configured, Control, Sending, StationTypeOK, ControlTypeOK, Labels,
     HostLabels, FlushSteps
<1>10. Radio'
  BY DEF Radio, Control, RadioTypeOK, InTx, ControlTypeOK, Labels, HostLabels,
     FlushSteps
<1>11. Wakeup'
  BY DEF Wakeup, Configured, StateFits, Control, ClientTypeOK, SendPath, ConfigSteps,
     ControlTypeOK, Labels, HostLabels, FlushSteps
<1>12. NoAssertionFails'
  BY DEF NoAssertionFails
<1> QED
  BY <1>1, <1>2, <1>3, <1>4, <1>5, <1>6, <1>7, <1>8, <1>9, <1>10, <1>11, <1>12

\* TxReadyIrq preserves the invariant.
LEMMA TxReadyIrqKeeps ==
  ASSUME IInv, TxReadyIrq
  PROVE  IInv'
<1> USE DEF TxReadyIrq, At, Goto, Contexts, fmVars, radioVars, ghostVars, IInv, TypeOK
<1>1. StationTypeOK'
  BY DEF StationTypeOK
<1>2. ClientTypeOK'
  BY DEF ClientTypeOK
<1>3. RadioTypeOK'
  BY DEF RadioTypeOK, StationTypeOK
<1>4. ControlTypeOK'
  BY DEF ControlTypeOK, Labels, HostLabels, FlushSteps, ClientTypeOK
<1>5. Control'
  BY DEF Control, SendPath, ConfigSteps, ControlTypeOK, Labels, HostLabels, FlushSteps
<1>6. StateFits'
  BY DEF StateFits, Control, StationTypeOK, SendPath, ConfigSteps, ControlTypeOK,
     Labels, HostLabels, FlushSteps
<1>7. Configured'
  BY DEF Configured, Control, StateFits, ConfigSteps, ControlTypeOK, Labels,
     HostLabels, FlushSteps
<1>8. Sending'
  BY DEF Sending, StateFits, StationTypeOK, SendPath, ControlTypeOK, Labels,
     HostLabels, FlushSteps
<1>9. Counting'
  BY DEF Counting, Configured, Control, Sending, StationTypeOK, ControlTypeOK, Labels,
     HostLabels, FlushSteps
<1>10. Radio'
  BY DEF Radio, Control, RadioTypeOK, InTx, ControlTypeOK, Labels, HostLabels,
     FlushSteps
<1>11. Wakeup'
  BY DEF Wakeup, Configured, StateFits, Control, ClientTypeOK, SendPath, ConfigSteps,
     ControlTypeOK, Labels, HostLabels, FlushSteps
<1>12. NoAssertionFails'
  BY DEF NoAssertionFails
<1> QED
  BY <1>1, <1>2, <1>3, <1>4, <1>5, <1>6, <1>7, <1>8, <1>9, <1>10, <1>11, <1>12

\* TxEmptyIrq preserves the invariant.
LEMMA TxEmptyIrqKeeps ==
  ASSUME IInv, TxEmptyIrq
  PROVE  IInv'
<1> USE DEF TxEmptyIrq, At, Goto, Contexts, fmVars, radioVars, ghostVars, IInv, TypeOK
<1>1. StationTypeOK'
  BY DEF StationTypeOK
<1>2. ClientTypeOK'
  BY DEF ClientTypeOK
<1>3. RadioTypeOK'
  BY DEF RadioTypeOK, StationTypeOK
<1>4. ControlTypeOK'
  BY DEF ControlTypeOK, Labels, HostLabels, FlushSteps, ClientTypeOK
<1>5. Control'
  BY DEF Control, SendPath, ConfigSteps, ControlTypeOK, Labels, HostLabels, FlushSteps
<1>6. StateFits'
  BY DEF StateFits, Control, StationTypeOK, SendPath, ConfigSteps, ControlTypeOK,
     Labels, HostLabels, FlushSteps
<1>7. Configured'
  BY DEF Configured, Control, StateFits, ConfigSteps, ControlTypeOK, Labels,
     HostLabels, FlushSteps
<1>8. Sending'
  BY DEF Sending, StateFits, StationTypeOK, SendPath, ControlTypeOK, Labels,
     HostLabels, FlushSteps
<1>9. Counting'
  BY DEF Counting, Configured, Control, Sending, StationTypeOK, ControlTypeOK, Labels,
     HostLabels, FlushSteps
<1>10. Radio'
  BY DEF Radio, Control, RadioTypeOK, InTx, ControlTypeOK, Labels, HostLabels,
     FlushSteps
<1>11. Wakeup'
  BY DEF Wakeup, Configured, StateFits, Control, ClientTypeOK, SendPath, ConfigSteps,
     ControlTypeOK, Labels, HostLabels, FlushSteps
<1>12. NoAssertionFails'
  BY DEF NoAssertionFails
<1> QED
  BY <1>1, <1>2, <1>3, <1>4, <1>5, <1>6, <1>7, <1>8, <1>9, <1>10, <1>11, <1>12

\* ReturnToRx preserves the invariant.
LEMMA ReturnToRxKeeps ==
  ASSUME IInv, ReturnToRx
  PROVE  IInv'
<1> USE DEF ReturnToRx, At, Goto, Contexts, fmVars, radioVars, ghostVars, IInv, TypeOK
<1>1. StationTypeOK'
  BY DEF StationTypeOK
<1>2. ClientTypeOK'
  BY DEF ClientTypeOK
<1>3. RadioTypeOK'
  BY DEF RadioTypeOK, StationTypeOK
<1>4. ControlTypeOK'
  BY DEF ControlTypeOK, Labels, HostLabels, FlushSteps, ClientTypeOK
<1>5. Control'
  BY DEF Control, SendPath, ConfigSteps, ControlTypeOK, Labels, HostLabels, FlushSteps
<1>6. StateFits'
  BY DEF StateFits, Control, StationTypeOK, SendPath, ConfigSteps, ControlTypeOK,
     Labels, HostLabels, FlushSteps
<1>7. Configured'
  BY DEF Configured, Control, StateFits, ConfigSteps, ControlTypeOK, Labels,
     HostLabels, FlushSteps
<1>8. Sending'
  BY DEF Sending, StateFits, StationTypeOK, SendPath, ControlTypeOK, Labels,
     HostLabels, FlushSteps
<1>9. Counting'
  BY DEF Counting, Configured, Control, Sending, StationTypeOK, ControlTypeOK, Labels,
     HostLabels, FlushSteps
<1>10. Radio'
  BY DEF Radio, Control, RadioTypeOK, InTx, ControlTypeOK, Labels, HostLabels,
     FlushSteps
<1>11. Wakeup'
  BY DEF Wakeup, Configured, StateFits, Control, ClientTypeOK, SendPath, ConfigSteps,
     ControlTypeOK, Labels, HostLabels, FlushSteps
<1>12. NoAssertionFails'
  BY DEF NoAssertionFails
<1> QED
  BY <1>1, <1>2, <1>3, <1>4, <1>5, <1>6, <1>7, <1>8, <1>9, <1>10, <1>11, <1>12

\* A radio that does not take its registers stops the station before fmacInit
\* dispatches anything.
LEMMA InitRegistersKeeps ==
  ASSUME IInv, InitRegisters
  PROVE  IInv'
<1>1. fault' = "registers not written"
  BY DEF InitRegisters, Fail
<1>2. UNCHANGED <<fmVars, payloadSize, write, txFifo, timer, radioVars, pc, item, ghostVars>>
  BY DEF InitRegisters, Fail
<1> USE <1>2 DEF fmVars, radioVars, ghostVars, IInv, TypeOK
<1>3. NoAssertionFails'
  BY <1>1 DEF NoAssertionFails
<1>4. StationTypeOK' /\ ClientTypeOK' /\ RadioTypeOK'
  BY DEF StationTypeOK, ClientTypeOK, RadioTypeOK
<1>5. ControlTypeOK'
  BY <1>1 DEF ControlTypeOK, Faults
<1>6. Control' /\ StateFits'
  BY DEF Control, StateFits
<1>7. Configured' /\ Sending'
  BY DEF Configured, Sending
<1>8. Counting'
  BY DEF Counting
<1>9. Radio'
  BY DEF Radio, InTx
<1>10. Wakeup'
  BY DEF Wakeup
<1> QED
  BY <1>3, <1>4, <1>5, <1>6, <1>7, <1>8, <1>9, <1>10

(* Every step of the station preserves the invariant. *)
LEMMA NextIInv ==
  ASSUME HostWaits, IInv, [Next]_vars
  PROVE  IInv'
<1>1. CASE UNCHANGED vars
  <2> USE <1>1 DEF vars, fmVars, radioVars, ghostVars, IInv, TypeOK
  <2>1. StationTypeOK' /\ ClientTypeOK' /\ RadioTypeOK' /\ ControlTypeOK'
    BY DEF StationTypeOK, ClientTypeOK, RadioTypeOK, ControlTypeOK
  <2>2. Control' /\ StateFits' /\ Configured' /\ Sending'
    BY DEF Control, StateFits, Configured, Sending
  <2>3. Counting' /\ Wakeup' /\ Radio' /\ NoAssertionFails'
    BY DEF Counting, Wakeup, Radio, InTx, NoAssertionFails
  <2> QED
    BY <2>1, <2>2, <2>3
<1>2. CASE Host
  <2>1. ASSUME NEW p \in Packets, HostWrite(p) PROVE IInv'
    BY <2>1, HostWriteKeeps
  <2>2. ASSUME NEW len \in Lengths, HostConfig(len) PROVE IInv'
    BY <2>2, HostConfigKeeps
  <2> QED
    BY <1>2, <2>1, <2>2 DEF Host
<1>3. CASE SpiStep
  <2>1. ASSUME NEW count \in FrameletCounts, NEW obeys \in BOOLEAN, fmacInit(count, obeys)
        PROVE  IInv'
    BY <2>1, fmacInitKeeps
  <2> QED
    BY <1>3, <2>1, HostCommitKeeps, HostTriggerKeeps, InitReadKeeps, InitWriteKeeps,
       InitRegistersKeeps, InitWaitEndKeeps
       DEF SpiStep
<1>4. ASSUME NEW c \in Contexts, Step(c) PROVE IInv'
  <2>1. ~ DispatchIdle(c)
    BY DEF DispatchIdle, At, IInv, StateFits
  <2>2. ~ EventBusy(c)
    BY DEF EventBusy, At, IInv, Control, Contexts
  <2> QED
    BY <1>4, <2>1, <2>2, DispatchSendKeeps, EventKeeps, DispatchWaitEndKeeps, FlushKeeps,
       TestModeKeeps, ModeSetKeeps, ModeSetFailsKeeps, TxReadyDirectKeeps,
       FifoWriteKeeps, PopEmptyKeeps, PopKeeps, SendRefusedKeeps, SendEncodeKeeps,
       SendStartKeeps DEF Step
<1>5. CASE Expire \/ SchedIrq \/ TxReadyIrq \/ TxEmptyIrq \/ ReturnToRx
  BY <1>5, ExpireKeeps, SchedIrqKeeps, TxReadyIrqKeeps, TxEmptyIrqKeeps, ReturnToRxKeeps
<1> QED
  BY <1>1, <1>2, <1>3, <1>4, <1>5 DEF Next

(* The invariant holds in every reachable state of a station whose host    *)
(* sends CONFIG to a quiet station only.                                   *)
LEMMA Invariance == HostWaits => (Spec => []IInv)
<1> SUFFICES ASSUME HostWaits PROVE Spec => []IInv
  OBVIOUS
<1>1. IInv /\ [Next]_vars => IInv'
  BY NextIInv
<1> QED
  BY <1>1, InitIInv, PTL DEF Spec

-----------------------------------------------------------------------------
(* The properties *)

\* The variables of fmacCtx, of the host interface and of the radio keep their
\* types; repetition stays in its byte.
THEOREM TypeCorrect == HostWaits => (Spec => []TypeOK)
<1>1. IInv => TypeOK
  BY DEF IInv
<1> QED
  BY <1>1, Invariance, PTL

\* No assertion in dispatch, event, txready and fmacSend stops the station, for
\* any packets, ring size and number of framelets.
THEOREM AssertionsHold == HostWaits => (Spec => []NoAssertionFails)
<1>1. IInv => NoAssertionFails
  BY DEF IInv, NoAssertionFails
<1> QED
  BY <1>1, Invariance, PTL

\* The timer is off while fmacCanSend holds, and whenever no handler runs in a
\* station that cannot send it is on: no transmission is ever left behind.
THEOREM TimerAndState == HostWaits => (Spec => []TimerFollowsState)
<1>1. IInv => TimerFollowsState
  BY DEF IInv, TypeOK, ControlTypeOK, RadioTypeOK, StateFits, TimerFollowsState,
     fmacCanSend, Idle, Contexts
<1> QED
  BY <1>1, Invariance, PTL

\* triggerSend and the end of a transmission never both overlook a packet in
\* the ring, although neither locks it.
THEOREM NoPacketForgotten == HostWaits => (Spec => []NoLostWakeup)
<1>1. IInv => NoLostWakeup
  BY DEF IInv, Wakeup, NoLostWakeup, fmacCanSend, Idle, Contexts
<1> QED
  BY <1>1, Invariance, PTL

\* spiclientTx is never entered by the timer interrupt while the host interface
\* is in it: the ring has one popper at a time.
THEOREM PopperExclusion == HostWaits => (Spec => []SinglePopper)
<1>1. IInv => SinglePopper
  BY DEF IInv, Control, SendPath, SinglePopper
<1> QED
  BY <1>1, Invariance, PTL

\* The radio only ever takes the complete packet that is being sent out of
\* txPacket.
THEOREM StableBuffer == HostWaits => (Spec => []PacketStable)
<1>1. IInv => PacketStable
  <2>1. IInv /\ (\E c \in Contexts : pc[c] \in FlushSteps) => current # NoPacket
    BY DEF IInv, Control, Sending
  <2>2. IInv /\ radio = "switching" => current # NoPacket
    BY DEF IInv, Radio, Sending
  <2> QED
    BY <2>1, <2>2 DEF IInv, Sending, PacketStable
<1> QED
  BY <1>1, Invariance, PTL

=============================================================================

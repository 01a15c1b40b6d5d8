----------------------------- MODULE LineProofs -----------------------------
(***************************************************************************)
(* Proofs about the host interface, for any messages, FIFO and ring sizes: *)
(* no host can make an answer overflow the hardware FIFO; one that waits,  *)
(* speaks after start-up and keeps to the documentation does not stop the  *)
(* program; and one that waits is understood, is answered, and has its     *)
(* packets taken as it wrote them, once and in order.                      *)
(***************************************************************************)
EXTENDS Line, TLAPS

-----------------------------------------------------------------------------
(* The inductive invariant, part by part *)

Words   == [msg : Nat, pos : Nat, val : Nat]
Answers == [to : Nat, pos : Nat, of : Nat]
Entries   == [origin : Nat, own : Nat, size : Nat, words : [1 .. ItemSize -> Words]]

InitSteps == {"initRead", "initWrite", "initMac"}
Steps ==
  {"idle", "readBuf", "readReg", "alloc", "fill", "trigger", "writeReg", "config",
   "clear", "flush"} \cup InitSteps

\* Words and items are of messages that have been begun.
Known(w) == w \in Words /\ w.msg <= number

LineTypeOK ==
  /\ number \in Nat /\ message \in Seq(Nat) /\ pos \in 0 .. Len(message)
  /\ rxHw \in Seq(Words) /\ Len(rxHw) <= HwSize
  /\ \A k \in 1 .. Len(rxHw) : rxHw[k].msg <= number
  /\ txHw \in Seq(Answers) /\ Len(txHw) <= HwSize
  /\ Known(executed)
  /\ {flag, eager, early, malformed} \subseteq BOOLEAN

ClientTypeOK ==
  /\ pc \in Steps /\ boot \in 0 .. Len(GlueSteps)
  /\ filled \in 0 .. ItemSize /\ payloadSize \in 0 .. ItemSize
  /\ arg \in Nat \X Nat
  /\ read \in SlotIndex /\ write \in SlotIndex
  /\ slot \in [SlotIndex -> Entries]
  /\ \A s \in SlotIndex : slot[s].origin <= number
  /\ {initialized, disturbed} \subseteq BOOLEAN

\* An answer begins in an empty FIFO, and a packet fits into it.
AnswerFits ==
  /\ pc \in {"readBuf", "readReg"} => txHw = <<>>
  /\ initialized /\ pc \notin InitSteps /\ fault = "none" => payloadSize \in MacSizes
  /\ fault # "TXFIFO_IsFull"

\* The FIFO holds the message's words from number "first" to number "sent", as
\* many as there was room for.
Kept(sent) == IF sent < HwSize THEN sent ELSE HwSize

From(fifo, first, sent) ==
  /\ Len(fifo) = IF Kept(sent) < first THEN 0 ELSE Kept(sent) + 1 - first
  /\ \A k \in 1 .. Len(fifo) :
       fifo[k] = Word(number, k + first - 1, message[k + first - 1])

\* While a waiting host speaks the handler is idle, and what it has said is in
\* the FIFO ...
Speaking ==
  pos > 0 => /\ pc = "idle" /\ ~ flag
             /\ executed.msg = number - 1 /\ From(rxHw, 1, pos)

\* ... when the handler starts it finds the message, and when it ends nothing.
Handling ==
  /\ pc = "idle" /\ pos = 0 /\ flag =>
       message # <<>> /\ executed.msg = number - 1 /\ From(rxHw, 1, Len(message))
  /\ pc = "idle" /\ pos = 0 /\ ~ flag => rxHw = <<>> /\ executed.msg = number
  /\ pc = "flush" => ~ flag
  /\ pc # "idle" => message # <<>> /\ executed = Word(number, 1, message[1])

\* The arguments of WRITEREG are read from the message.
Arguments ==
  /\ pc = "writeReg" => message[1] = CMD_WRITEREG /\ From(rxHw, 2, Len(message))
  /\ pc = "config" /\ ~ malformed =>
       /\ message[1] = CMD_WRITEREG /\ Len(message) > 1 /\ message[2] = REG_CONFIG
       /\ From(rxHw, 3, Len(message))
  /\ pc \in InitSteps /\ ~ malformed => Accepted(arg[1], arg[2], payloadSize)

Understood == ~ eager => Speaking /\ Handling /\ Arguments

\* What is to blame for a failed assertion.
Blamed ==
  /\ pc # "idle" => early \/ boot = Len(GlueSteps)
  /\ ~ malformed => message = <<>> \/ WellFormed(message)
  /\ fault # "none" => eager \/ early \/ malformed

IInv == LineTypeOK /\ ClientTypeOK /\ AnswerFits /\ Understood /\ Blamed

-----------------------------------------------------------------------------
(* Sequences and words *)

\* The empty sequence, Append and Tail, element by element.
LEMMA AppendFacts ==
  ASSUME NEW S, NEW q \in Seq(S), NEW e \in S
  PROVE  /\ Append(q, e) \in Seq(S) /\ Len(Append(q, e)) = Len(q) + 1
         /\ \A k \in 1 .. Len(q) : Append(q, e)[k] = q[k]
         /\ Append(q, e)[Len(q) + 1] = e
  OBVIOUS

LEMMA TailFacts ==
  ASSUME NEW S, NEW q \in Seq(S), q # <<>>
  PROVE  /\ Len(q) \in Nat \ {0} /\ Head(q) = q[1] /\ Head(q) \in S
         /\ Tail(q) \in Seq(S) /\ Len(Tail(q)) = Len(q) - 1
         /\ \A k \in 1 .. Len(q) - 1 : Tail(q)[k] = q[k + 1]
  OBVIOUS

LEMMA EmptyFacts ==
  ASSUME NEW S, NEW q \in Seq(S)
  PROVE  Len(q) \in Nat /\ (q = <<>> <=> Len(q) = 0) /\ <<>> \in Seq(S) /\ Len(<<>>) = 0
  OBVIOUS

LEMMA WordFacts ==
  ASSUME NEW m \in Nat, NEW k \in Nat, NEW byte \in Nat
  PROVE  /\ Word(m, k, byte) \in Words
         /\ Word(m, k, byte).msg = m /\ Word(m, k, byte).pos = k /\ Word(m, k, byte).val = byte
  BY DEF Word, Words

\* Sizes.
LEMMA Constants ==
  /\ HwSize \in Nat /\ HwSize > 4 /\ ItemSize \in Nat \ {0} /\ RegWords \in Nat \ {0}
  /\ RegWords < HwSize /\ MaxStations \in Nat
  /\ \A size \in MacSizes : size \in 0 .. ItemSize /\ size < HwSize
  /\ \A byte \in Bytes : byte \in Nat
  /\ \A msg \in Messages : msg \in Seq(Nat) /\ msg # <<>>
  /\ Slots \in Nat \ {0}
  BY LineAssumption, SlotsAssumption

\* Reading the FIFO yields a word of a message that has begun, or an arbitrary
\* byte of none.
LEMMA GetDataFacts ==
  ASSUME NEW fifo \in Seq(Words), NEW top \in Nat,
         \A k \in 1 .. Len(fifo) : fifo[k].msg <= top, Len(fifo) <= HwSize
  PROVE  /\ \A w \in GetData(fifo) : w \in Words /\ w.msg <= top
         /\ Rest(fifo) \in Seq(Words) /\ Len(Rest(fifo)) <= HwSize
         /\ \A k \in 1 .. Len(Rest(fifo)) : Rest(fifo)[k].msg <= top
<1>1. CASE fifo = <<>>
  <2>1. ASSUME NEW w \in GetData(fifo) PROVE w \in Words /\ w.msg = 0
    <3>1. PICK byte \in Bytes : w = Word(0, 0, byte)
      BY <1>1 DEF GetData
    <3> QED
      BY <3>1, WordFacts, Constants
  <2>2. Rest(fifo) = fifo
    BY <1>1 DEF Rest
  <2> QED
    BY <2>1, <2>2
<1>2. CASE fifo # <<>>
  <2>1. GetData(fifo) = {fifo[1]} /\ fifo[1] \in Words /\ Rest(fifo) = Tail(fifo)
    BY <1>2, TailFacts DEF GetData, Rest
  <2>2. /\ Len(fifo) \in Nat \ {0} /\ Tail(fifo) \in Seq(Words)
        /\ Len(Tail(fifo)) = Len(fifo) - 1
        /\ \A k \in 1 .. Len(fifo) - 1 : Tail(fifo)[k] = fifo[k + 1]
    BY <1>2, TailFacts
  <2>3. \A k \in 1 .. Len(fifo) - 1 : k + 1 \in 1 .. Len(fifo)
    BY <2>2
  <2>4. Len(Tail(fifo)) <= HwSize
    BY <2>2, Constants
  <2>5. \A k \in 1 .. Len(Tail(fifo)) : Tail(fifo)[k].msg <= top
    BY <2>2, <2>3
  <2>6. 1 \in 1 .. Len(fifo)
    BY <2>2
  <2> QED
    BY <2>1, <2>2, <2>4, <2>5, <2>6
<1> QED
  BY <1>1, <1>2

\* The word that is read of a message is the first of those that are left.
LEMMA FromFacts ==
  ASSUME NEW fifo \in Seq(Words), NEW first \in Nat \ {0}, NEW sent \in Nat,
         From(fifo, first, sent), first <= Kept(sent)
  PROVE  /\ fifo # <<>>
         /\ \A w \in GetData(fifo) : w = Word(number, first, message[first])
<1>1. Len(fifo) = Kept(sent) + 1 - first /\ Kept(sent) \in Nat
  BY Constants DEF From, Kept
<1>2. fifo # <<>> /\ 1 \in 1 .. Len(fifo)
  BY <1>1
<1>3. fifo[1] = Word(number, 1 + first - 1, message[1 + first - 1]) /\ 1 + first - 1 = first
  BY <1>2 DEF From
<1>4. Head(fifo) = fifo[1]
  BY <1>1, <1>2, TailFacts
<1>5. fifo[1] = Word(number, first, message[first])
  BY <1>3
<1> QED
  BY <1>2, <1>4, <1>5 DEF GetData

\* What follows it begins with the next.
LEMMA FromRest ==
  ASSUME NEW fifo \in Seq(Words), NEW first \in Nat \ {0}, NEW sent \in Nat,
         From(fifo, first, sent)
  PROVE  Rest(fifo) \in Seq(Words) /\ From(Rest(fifo), first + 1, sent)
<1>1. Kept(sent) \in Nat
  BY Constants DEF Kept
<1>2. CASE fifo = <<>>
  <2>1. Len(fifo) = 0 /\ Rest(fifo) = fifo
    BY <1>2 DEF Rest
  <2>2. Kept(sent) < first + 1
    BY <1>1, <2>1 DEF From
  <2> QED
    BY <1>1, <2>1, <2>2 DEF From
<1>3. CASE fifo # <<>>
  <2>1. /\ Len(fifo) \in Nat \ {0} /\ Rest(fifo) = Tail(fifo)
        /\ Tail(fifo) \in Seq(Words) /\ Len(Tail(fifo)) = Len(fifo) - 1
        /\ \A k \in 1 .. Len(fifo) - 1 : Tail(fifo)[k] = fifo[k + 1]
    BY <1>3, TailFacts DEF Rest
  <2>2. Len(fifo) = Kept(sent) + 1 - first
    BY <1>1, <2>1 DEF From
  <2>3. Len(Tail(fifo)) = IF Kept(sent) < first + 1 THEN 0 ELSE Kept(sent) + 1 - (first + 1)
    BY <1>1, <2>1, <2>2
  <2>4. ASSUME NEW k \in 1 .. Len(Tail(fifo))
        PROVE  Tail(fifo)[k] = Word(number, k + (first + 1) - 1, message[k + (first + 1) - 1])
    <3>1. k + 1 \in 1 .. Len(fifo) /\ Tail(fifo)[k] = fifo[k + 1]
      BY <2>1, <2>4
    <3>2. (k + 1) + first - 1 = k + (first + 1) - 1
      BY <2>1, <2>4
    <3>3. fifo[k + 1] = Word(number, (k + 1) + first - 1, message[(k + 1) + first - 1])
      BY <3>1 DEF From
    <3> QED
      BY <3>1, <3>2, <3>3
  <2> QED
    BY <2>1, <2>3, <2>4 DEF From
<1> QED
  BY <1>2, <1>3

\* An answer in an empty FIFO leaves room for the break symbol.
LEMMA ResponseFacts ==
  ASSUME NEW size \in Nat, size < HwSize, txHw = <<>>, Known(executed), number \in Nat,
         queueResponse(size)
  PROVE  txHw' \in Seq(Answers) /\ Len(txHw') <= HwSize /\ UNCHANGED fault
<1>1. AnswerWords(size) \in Seq(Answers) /\ Len(AnswerWords(size)) = size
  BY DEF AnswerWords, Answers, Known, Words
<1>2. Len(txHw) = 0 /\ txHw \o AnswerWords(size) = AnswerWords(size)
  BY <1>1
<1>3. Break(size) \in Answers
  BY DEF Break, Answers
<1>4. UNCHANGED fault /\ txHw' = AnswerWords(size) \o <<Break(size)>>
  BY <1>2, Constants DEF queueResponse
<1>5. AnswerWords(size) \o <<Break(size)>> = Append(AnswerWords(size), Break(size))
  BY <1>1, <1>3
<1> QED
  BY <1>1, <1>3, <1>4, <1>5, AppendFacts, Constants

-----------------------------------------------------------------------------
(* Init and every action *)

LEMMA InitIInv == Init => IInv
<1> SUFFICES ASSUME Init PROVE IInv
  OBVIOUS
<1> USE DEF Init, NoWord
<1>1. LineTypeOK
  <2>1. /\ <<>> \in Seq(Words) /\ <<>> \in Seq(Nat) /\ <<>> \in Seq(Answers)
        /\ Len(<<>>) = 0
    OBVIOUS
  <2>2. Known(executed)
    BY WordFacts DEF Known
  <2>3. 0 <= HwSize /\ pos \in 0 .. Len(message)
    BY <2>1, Constants
  <2>4. \A k \in 1 .. Len(rxHw) : rxHw[k].msg <= number
    BY <2>1
  <2> QED
    BY <2>1, <2>2, <2>3, <2>4 DEF LineTypeOK
<1>2. ClientTypeOK
  <2>1. NoItem \in Entries /\ NoItem.origin = 0
    BY WordFacts DEF NoItem, Entries
  <2>2. 0 \in SlotIndex
    BY Constants DEF SlotIndex
  <2>3. slot \in [SlotIndex -> Entries] /\ \A s \in SlotIndex : slot[s].origin <= number
    BY <2>1
  <2>4. boot \in 0 .. Len(GlueSteps) /\ 0 \in 0 .. ItemSize
    BY Constants DEF GlueSteps
  <2> HIDE DEF NoItem
  <2> QED
    BY <2>2, <2>3, <2>4 DEF ClientTypeOK, Steps
<1>3. AnswerFits /\ Understood /\ Blamed
  BY WordFacts DEF AnswerFits, Understood, Speaking, Handling, Arguments, Blamed, InitSteps
<1> QED
  BY <1>1, <1>2, <1>3 DEF IInv

\* Steps that change neither FIFO contents nor host nor command keep the
\* interface's types.
LEMMA LineFrame ==
  ASSUME LineTypeOK, UNCHANGED <<number, message, pos, rxHw, txHw, executed, flag, blame>>
  PROVE  LineTypeOK'
  BY DEF LineTypeOK, Known, blame

\* Steps of the line keep the client's types.
LEMMA ClientFrame ==
  ASSUME ClientTypeOK, number' \in Nat, number <= number', number \in Nat,
         UNCHANGED <<pc, boot, filled, conf, ring, disturbed>>
  PROVE  ClientTypeOK'
<1>1. \A s \in SlotIndex : slot[s].origin \in Nat
  BY DEF ClientTypeOK, Entries
<1> QED
  BY <1>1 DEF ClientTypeOK, conf, ring

\* Once main is done every pointer is set.
LEMMA AllGlue ==
  /\ Len(GlueSteps) = 3
  /\ boot = 3 => HasGlue("initMac") /\ HasGlue("triggerSend") /\ HasGlue("macData")
<1>1. /\ Len(GlueSteps) = 3 /\ GlueSteps[1] = "initMac" /\ GlueSteps[2] = "triggerSend"
      /\ GlueSteps[3] = "macData"
  BY DEF GlueSteps
<1>2. 1 \in 1 .. 3 /\ 2 \in 1 .. 3 /\ 3 \in 1 .. 3
  OBVIOUS
<1> QED
  BY <1>1, <1>2 DEF HasGlue

\* A word that arrives is the last in the FIFO or lost.
LEMMA ArriveFacts ==
  ASSUME rxHw \in Seq(Words), NEW top \in Nat, NEW w \in Words, Arrive(w),
         \A k \in 1 .. Len(rxHw) : rxHw[k].msg <= top, w.msg <= top, Len(rxHw) <= HwSize
  PROVE  /\ rxHw' \in Seq(Words) /\ Len(rxHw') <= HwSize
         /\ \A k \in 1 .. Len(rxHw') : rxHw'[k].msg <= top
<1>1. CASE Len(rxHw) < HwSize
  <2>1. rxHw' = Append(rxHw, w) /\ Len(rxHw) \in Nat
    BY <1>1 DEF Arrive
  <2>2. /\ rxHw' \in Seq(Words) /\ Len(rxHw') = Len(rxHw) + 1
        /\ \A k \in 1 .. Len(rxHw) : rxHw'[k] = rxHw[k]
        /\ rxHw'[Len(rxHw) + 1] = w
    BY <2>1, AppendFacts
  <2>3. \A k \in 1 .. Len(rxHw') : k \in 1 .. Len(rxHw) \/ k = Len(rxHw) + 1
    BY <2>1, <2>2
  <2> QED
    BY <1>1, <2>1, <2>2, <2>3, Constants
<1>2. CASE ~ Len(rxHw) < HwSize
  BY <1>2 DEF Arrive
<1> QED
  BY <1>1, <1>2

\* The FIFO's contents grow with the message until it is full.
LEMMA FromArrive ==
  ASSUME LineTypeOK, From(rxHw, 1, pos), pos > 0, pos' = pos + 1, UNCHANGED <<number, message>>,
         Arrive(Word(number, pos', message[pos']))
  PROVE  From(rxHw, 1, pos)'
<1> DEFINE w == Word(number, pos + 1, message[pos + 1])
<1>1. pos \in Nat /\ HwSize \in Nat /\ HwSize > 4 /\ rxHw \in Seq(Words)
  BY Constants DEF LineTypeOK
<1>2. Len(rxHw) = Kept(pos) /\ Kept(pos) \in Nat
  BY <1>1 DEF From, Kept
<1>3. CASE pos < HwSize
  <2>1. Len(rxHw) = pos /\ rxHw' = Append(rxHw, w)
    BY <1>1, <1>2, <1>3 DEF Kept, Arrive
  <2>2. /\ Len(rxHw') = pos + 1
        /\ \A k \in 1 .. pos : rxHw'[k] = rxHw[k]
        /\ rxHw'[pos + 1] = w
    BY <1>1, <2>1
  <2>3. Len(rxHw') = Kept(pos + 1) /\ Kept(pos + 1) \in Nat
    BY <1>1, <1>3, <2>2 DEF Kept
  <2>4. ASSUME NEW k \in 1 .. Len(rxHw')
        PROVE  rxHw'[k] = Word(number, k + 1 - 1, message[k + 1 - 1])
    <3>1. k + 1 - 1 = k
      BY <1>1, <2>2
    <3>2. CASE k = pos + 1
      BY <2>2, <3>1, <3>2
    <3>3. CASE k # pos + 1
      <4>1. k \in 1 .. Len(rxHw) /\ rxHw'[k] = rxHw[k]
        BY <1>1, <2>1, <2>2, <3>3
      <4> QED
        BY <4>1 DEF From
    <3> QED
      BY <3>2, <3>3
  <2> QED
    BY <2>3, <2>4 DEF From, Kept, Word
<1>4. CASE ~ pos < HwSize
  <2>1. rxHw' = rxHw /\ Kept(pos + 1) = Kept(pos)
    BY <1>1, <1>2, <1>4 DEF Kept, Arrive
  <2> QED
    BY <1>1, <1>4, <2>1 DEF From, Kept, Word
<1> QED
  BY <1>3, <1>4

\* Three words are read in a row.
LEMMA ThreeRests ==
  ASSUME LineTypeOK
  PROVE  /\ \A i \in GetData(rxHw) : i \in Words
         /\ \A n \in GetData(Rest(rxHw)) : n \in Words
         /\ \A size \in GetData(Rest(Rest(rxHw))) : size \in Words
         /\ GetData(rxHw) # {} /\ GetData(Rest(rxHw)) # {} /\ GetData(Rest(Rest(rxHw))) # {} =>
              /\ Rest(Rest(Rest(rxHw))) \in Seq(Words)
              /\ Len(Rest(Rest(Rest(rxHw)))) <= HwSize
              /\ \A k \in 1 .. Len(Rest(Rest(Rest(rxHw)))) :
                   Rest(Rest(Rest(rxHw)))[k].msg <= number
<1>1. /\ rxHw \in Seq(Words) /\ number \in Nat /\ Len(rxHw) <= HwSize
      /\ \A k \in 1 .. Len(rxHw) : rxHw[k].msg <= number
  BY DEF LineTypeOK
<1> DEFINE one == Rest(rxHw)
           two == Rest(one)
           three == Rest(two)
<1>2. /\ \A w \in GetData(rxHw) : w \in Words
      /\ one \in Seq(Words) /\ Len(one) <= HwSize
      /\ \A k \in 1 .. Len(one) : one[k].msg <= number
  BY <1>1, GetDataFacts
<1> HIDE DEF one
<1>3. /\ \A w \in GetData(one) : w \in Words
      /\ two \in Seq(Words) /\ Len(two) <= HwSize
      /\ \A k \in 1 .. Len(two) : two[k].msg <= number
  BY <1>1, <1>2, GetDataFacts
<1> HIDE DEF two
<1>4. /\ \A w \in GetData(two) : w \in Words
      /\ three \in Seq(Words) /\ Len(three) <= HwSize
      /\ \A k \in 1 .. Len(three) : three[k].msg <= number
  BY <1>1, <1>3, GetDataFacts
<1> USE DEF one, two
<1> QED
  BY <1>2, <1>3, <1>4

\* The three arguments of a waiting host's CONFIG are those of its message.
LEMMA ConfigArguments ==
  ASSUME IInv, ~ eager, ~ malformed, Config
  PROVE  UNCHANGED fault /\ Accepted(arg'[1], arg'[2], payloadSize')
<1> DEFINE sent == Len(message)
           one == Rest(rxHw)
           two == Rest(one)
<1>1. /\ message[1] = CMD_WRITEREG /\ sent > 1 /\ message[2] = REG_CONFIG
      /\ From(rxHw, 3, sent) /\ message # <<>>
  BY DEF IInv, Understood, Handling, Arguments, Config, At
<1>2. rxHw \in Seq(Words) /\ message \in Seq(Nat) /\ sent \in Nat /\ number \in Nat
  BY DEF IInv, LineTypeOK
<1>3. sent > 4 /\ Accepted(message[3], message[4], message[5])
  <2>1. WellFormed(message)
    BY <1>1 DEF IInv, Blamed
  <2> QED
    BY <1>1, <2>1 DEF WellFormed, CMD_WRITEREG, CMD_READREG
<1>4. 5 <= Kept(sent) /\ message[3] \in Nat /\ message[4] \in Nat /\ message[5] \in Nat
  BY <1>2, <1>3, Constants DEF Kept
<1>5. Kept(sent) \in Nat
  BY <1>2, Constants DEF Kept
<1> HIDE DEF sent
<1>6. /\ \A w \in GetData(rxHw) : w = Word(number, 3, message[3])
      /\ one \in Seq(Words) /\ From(one, 4, sent)
  <2>1. 3 \in Nat \ {0} /\ 3 <= Kept(sent)
    BY <1>4, <1>5
  <2>2. \A w \in GetData(rxHw) : w = Word(number, 3, message[3])
    BY <1>1, <1>2, <2>1, FromFacts
  <2>3. one \in Seq(Words) /\ From(one, 3 + 1, sent)
    BY <1>1, <1>2, <2>1, FromRest
  <2> QED
    BY <2>2, <2>3
<1> HIDE DEF one
<1>7. /\ \A w \in GetData(one) : w = Word(number, 4, message[4])
      /\ two \in Seq(Words) /\ From(two, 5, sent)
  <2>1. 4 \in Nat \ {0} /\ 4 <= Kept(sent)
    BY <1>4, <1>5
  <2>2. \A w \in GetData(one) : w = Word(number, 4, message[4])
    BY <1>2, <1>6, <2>1, FromFacts
  <2>3. two \in Seq(Words) /\ From(two, 4 + 1, sent)
    BY <1>2, <1>6, <2>1, FromRest
  <2> QED
    BY <2>2, <2>3
<1> HIDE DEF two
<1>8. \A w \in GetData(two) : w = Word(number, 5, message[5])
  BY <1>2, <1>4, <1>5, <1>7, FromFacts
<1>9. PICK i \in GetData(rxHw), n \in GetData(one), size \in GetData(two) :
        IF size.val <= ItemSize
          THEN arg' = <<i.val, n.val>> /\ payloadSize' = size.val /\ UNCHANGED fault
          ELSE fault' = "payloadSize" /\ UNCHANGED <<payloadSize, arg>>
  BY DEF Config, one, two
<1>10. i.val = message[3] /\ n.val = message[4] /\ size.val = message[5]
  <2>1. /\ i = Word(number, 3, message[3]) /\ n = Word(number, 4, message[4])
        /\ size = Word(number, 5, message[5])
    BY <1>6, <1>7, <1>8
  <2> QED
    BY <2>1 DEF Word
<1>11. message[5] \in MacSizes /\ message[5] <= ItemSize
  BY <1>3, Constants DEF Accepted
<1> QED
  BY <1>3, <1>9, <1>10, <1>11

\* The first word of a message goes into the FIFO; the handler of a host that waits is idle.
LEMMA HostStartKeeps ==
  ASSUME IInv, NEW msg \in Messages, HostStart(msg)
  PROVE  IInv'
<1> USE DEF HostStart, At, hw, conf, ring, host, blame, ears
<1>1. LineTypeOK'
  <2>1. msg \in Seq(Nat) /\ msg # <<>> /\ Len(msg) \in Nat \ {0} /\ msg[1] \in Nat
    BY Constants, TailFacts
  <2>2. number \in Nat /\ number' = number + 1
    BY DEF IInv, LineTypeOK
  <2>3. Word(number', 1, msg[1]) \in Words /\ Word(number', 1, msg[1]).msg = number'
    BY <2>1, <2>2, WordFacts
  <2>4. /\ rxHw' \in Seq(Words) /\ Len(rxHw') <= HwSize
        /\ \A k \in 1 .. Len(rxHw') : rxHw'[k].msg <= number'
    <3>1. rxHw \in Seq(Words) /\ Len(rxHw) <= HwSize
      BY DEF IInv, LineTypeOK
    <3>2. ASSUME NEW k \in 1 .. Len(rxHw) PROVE rxHw[k].msg <= number'
      <4>1. rxHw[k] \in Words /\ rxHw[k].msg <= number
        BY <3>1 DEF IInv, LineTypeOK
      <4>2. rxHw[k].msg \in Nat
        BY <4>1 DEF Words
      <4> QED
        BY <2>2, <4>1, <4>2
    <3> HIDE DEF HostStart
    <3>3. Arrive(Word(number', 1, msg[1])) /\ number' \in Nat
      BY <2>2 DEF HostStart
    <3>4. Word(number', 1, msg[1]).msg <= number'
      BY <2>2, <2>3
    <3> QED
      BY <2>3, <3>1, <3>2, <3>3, <3>4, ArriveFacts
  <2>5. Known(executed)'
    BY <2>2 DEF IInv, LineTypeOK, Known, Words
  <2>6. {flag, eager, early, malformed}' \subseteq BOOLEAN
    BY DEF IInv, LineTypeOK
  <2> QED
    BY <2>1, <2>2, <2>4, <2>5, <2>6 DEF IInv, LineTypeOK
<1>2. ClientTypeOK'
  BY ClientFrame DEF IInv, LineTypeOK
<1>3. AnswerFits'
  BY DEF IInv, AnswerFits, InitSteps
<1>4. Understood'
  <2> SUFFICES ASSUME ~ eager' PROVE (Speaking /\ Handling /\ Arguments)'
    BY DEF Understood
  <2>1. ~ eager /\ Quiet
    BY DEF IInv, LineTypeOK
  <2>2. pc = "idle" /\ ~ flag /\ rxHw = <<>> /\ executed.msg = number
    BY <2>1 DEF Quiet, IInv, Understood, Handling
  <2>3. number \in Nat /\ number' = number + 1 /\ message' = msg /\ pos' = 1
    BY DEF IInv, LineTypeOK
  <2>4. rxHw' = <<Word(number', 1, message'[1])>>
    BY <2>2, <2>3, Constants DEF Arrive
  <2>5. From(rxHw, 1, pos)'
    BY <2>3, <2>4, Constants DEF From, Kept
  <2> QED
    BY <2>2, <2>3, <2>5 DEF Speaking, Handling, Arguments, InitSteps
<1>5. Blamed'
  BY DEF IInv, Blamed, LineTypeOK
<1> QED
  BY <1>1, <1>2, <1>3, <1>4, <1>5 DEF IInv

\* The next word follows those before.
LEMMA HostWordKeeps ==
  ASSUME IInv, HostWord
  PROVE  IInv'
<1> USE DEF HostWord, At, hw, conf, ring, host, blame, ears
<1>1. LineTypeOK'
  <2>1. message \in Seq(Nat) /\ pos + 1 \in 1 .. Len(message) /\ number \in Nat
    BY DEF IInv, LineTypeOK
  <2>2. message[pos + 1] \in Nat
    BY <2>1
  <2>3. Word(number, pos + 1, message[pos + 1]) \in Words
        /\ Word(number, pos + 1, message[pos + 1]).msg = number
    <3> HIDE DEF HostWord
    <3>1. pos + 1 \in Nat
      BY <2>1
    <3> QED
      BY <2>1, <2>2, <3>1 DEF Word, Words
  <2>4. /\ rxHw' \in Seq(Words) /\ Len(rxHw') <= HwSize
        /\ \A k \in 1 .. Len(rxHw') : rxHw'[k].msg <= number'
    BY <2>1, <2>3, ArriveFacts DEF IInv, LineTypeOK
  <2> QED
    BY <2>1, <2>4 DEF IInv, LineTypeOK, Known
<1>2. ClientTypeOK'
  BY ClientFrame DEF IInv, LineTypeOK
<1>3. AnswerFits'
  BY DEF IInv, AnswerFits, InitSteps
<1>4. Understood'
  <2> SUFFICES ASSUME ~ eager' PROVE (Speaking /\ Handling /\ Arguments)'
    BY DEF Understood
  <2>1. pc = "idle" /\ ~ flag /\ executed.msg = number - 1 /\ From(rxHw, 1, pos)
    BY DEF IInv, Understood, Speaking
  <2>2. pos \in Nat /\ pos' = pos + 1 /\ pos' > 0 /\ rxHw \in Seq(Words) /\ number \in Nat
    BY DEF IInv, LineTypeOK
  <2>3. From(rxHw, 1, pos)'
    BY <2>1, <2>2, FromArrive DEF IInv
  <2> QED
    BY <2>1, <2>2, <2>3 DEF Speaking, Handling, Arguments, InitSteps
<1>5. Blamed'
  BY DEF IInv, Blamed
<1> QED
  BY <1>1, <1>2, <1>3, <1>4, <1>5 DEF IInv

\* The message is complete as far as the FIFO had room.
LEMMA HostBreakKeeps ==
  ASSUME IInv, HostBreak
  PROVE  IInv'
<1> USE DEF HostBreak, At, hw, conf, ring, host, blame, ears
<1>1. LineTypeOK'
  BY DEF IInv, LineTypeOK, Known
<1>2. ClientTypeOK'
  BY DEF IInv, ClientTypeOK, Steps, InitSteps
<1>3. AnswerFits'
  BY DEF IInv, AnswerFits, InitSteps
<1>4. Understood'
  <2> SUFFICES ASSUME ~ eager' PROVE (Speaking /\ Handling /\ Arguments)'
    BY DEF Understood
  <2>1. pc = "idle" /\ executed.msg = number - 1 /\ From(rxHw, 1, Len(message))
    BY DEF IInv, Understood, Speaking
  <2>2. message # <<>>
    BY EmptyFacts DEF IInv, LineTypeOK
  <2>3. From(rxHw, 1, Len(message))'
    BY <2>1 DEF From, Kept, Word
  <2> QED
    BY <2>1, <2>2, <2>3 DEF Speaking, Handling, Arguments, InitSteps
<1>5. Blamed'
  BY DEF IInv, Blamed
<1> QED
  BY <1>1, <1>2, <1>3, <1>4, <1>5 DEF IInv

\* A word of an answer leaves.
LEMMA DrainKeeps ==
  ASSUME IInv, Drain
  PROVE  IInv'
<1> USE DEF Drain, At, hw, conf, ring, host, blame, ears
<1>1. LineTypeOK'
  <2>1. txHw' \in Seq(Answers) /\ Len(txHw') <= HwSize
    BY TailFacts, Constants DEF IInv, LineTypeOK
  <2> QED
    BY <2>1 DEF IInv, LineTypeOK, Known
<1>2. ClientTypeOK'
  BY DEF IInv, ClientTypeOK, Steps, InitSteps
<1>3. AnswerFits'
  BY DEF IInv, AnswerFits, InitSteps
<1>4. Understood'
  BY DEF IInv, Understood, Speaking, Handling, Arguments, From, InitSteps
<1>5. Blamed'
  BY DEF IInv, Blamed
<1> QED
  BY <1>1, <1>2, <1>3, <1>4, <1>5 DEF IInv

\* main goes on while the handler is idle.
LEMMA BootKeeps ==
  ASSUME IInv, Boot
  PROVE  IInv'
<1> USE DEF Boot, At, hw, conf, ring, host, blame, ears
<1>1. LineTypeOK'
  BY LineFrame DEF IInv
<1>2. ClientTypeOK'
  BY DEF IInv, ClientTypeOK, Steps, InitSteps, GlueSteps
<1>3. AnswerFits'
  BY DEF IInv, AnswerFits, InitSteps
<1>4. Understood'
  BY DEF IInv, Understood, Speaking, Handling, Arguments, From, InitSteps
<1>5. Blamed'
  BY DEF IInv, Blamed
<1> QED
  BY <1>1, <1>2, <1>3, <1>4, <1>5 DEF IInv

\* The handler of a waiting host reads the first word of the next message.
LEMMA IsrReads ==
  ASSUME IInv, Isr, ~ eager
  PROVE  /\ number \in Nat /\ executed.msg = number - 1
         /\ executed' = Word(number, 1, message[1])
         /\ From(rxHw, 2, Len(message))'
<1>1. /\ pos = 0 /\ message # <<>> /\ executed.msg = number - 1
      /\ From(rxHw, 1, Len(message))
  BY DEF Isr, At, IInv, Understood, Speaking, Handling, LineTypeOK
<1>2. /\ rxHw \in Seq(Words) /\ message \in Seq(Nat) /\ Len(message) \in Nat \ {0}
      /\ number \in Nat
  BY <1>1, EmptyFacts DEF IInv, LineTypeOK
<1>3. 1 <= Kept(Len(message))
  BY <1>2, Constants DEF Kept
<1>4. /\ executed' \in GetData(rxHw) /\ rxHw' = Rest(rxHw)
      /\ UNCHANGED <<number, message>>
  BY DEF Isr, host
<1>5. executed' = Word(number, 1, message[1])
  BY <1>1, <1>2, <1>3, <1>4, FromFacts
<1>6. From(Rest(rxHw), 1 + 1, Len(message))
  BY <1>1, <1>2, FromRest
<1>7. From(rxHw, 2, Len(message))'
  BY <1>4, <1>6 DEF From, Kept, Word
<1> QED
  BY <1>1, <1>2, <1>5, <1>7

\* The handler of a waiting host finds the command first.
LEMMA IsrKeeps ==
  ASSUME IInv, Isr
  PROVE  IInv'
<1> USE DEF Isr, At, hw, conf, ring, host, blame, ears
<1>1. LineTypeOK'
  <2>1. rxHw \in Seq(Words) /\ number \in Nat /\ Len(rxHw) <= HwSize
        /\ \A k \in 1 .. Len(rxHw) : rxHw[k].msg <= number
    BY DEF IInv, LineTypeOK
  <2>2. executed' \in GetData(rxHw) /\ rxHw' = Rest(rxHw)
    OBVIOUS
  <2>3. /\ Known(executed)' /\ rxHw' \in Seq(Words) /\ Len(rxHw') <= HwSize
        /\ \A k \in 1 .. Len(rxHw') : rxHw'[k].msg <= number
    BY <2>1, <2>2, GetDataFacts DEF Known
  <2>4. txHw' \in Seq(Answers) /\ Len(txHw') <= HwSize
    BY EmptyFacts, Constants DEF IInv, LineTypeOK
  <2> QED
    BY <2>3, <2>4 DEF IInv, LineTypeOK
<1>2. ClientTypeOK'
  BY DEF IInv, ClientTypeOK, Steps, InitSteps, Handler
<1>3. AnswerFits'
  BY DEF IInv, AnswerFits, InitSteps, Handler, CMD_READBUF,
         CMD_READREG, CMD_WRITEBUF, CMD_WRITEREG, CMD_COUNT
<1>4. Understood'
  <2> SUFFICES ASSUME ~ eager' PROVE (Speaking /\ Handling /\ Arguments)'
    BY DEF Understood
  <2>1. pos = 0 /\ message # <<>>
    BY DEF IInv, Understood, Speaking, Handling, LineTypeOK
  <2>2. message[1] \in Nat /\ number \in Nat
    BY <2>1, TailFacts DEF IInv, LineTypeOK
  <2>4. executed' = Word(number, 1, message[1])
    BY IsrReads
  <2>5. From(rxHw, 2, Len(message))'
    BY IsrReads
  <2>6. pc' = Handler(message[1])
    BY <2>2, <2>4, WordFacts
  <2>7. pc' \notin {"idle", "flush", "config"} /\ pc' \notin InitSteps
        /\ (pc' = "writeReg" => message[1] = CMD_WRITEREG)
    BY <2>6 DEF Handler, InitSteps
  <2> QED
    BY <2>1, <2>4, <2>5, <2>7 DEF Speaking, Handling, Arguments, Word
<1>5. Blamed'
  <2>1. boot \in 0 .. 3 /\ Len(GlueSteps) = 3 /\ early \in BOOLEAN
    BY AllGlue DEF IInv, ClientTypeOK, LineTypeOK
  <2>2. boot = 3 \/ boot < 3
    BY <2>1
  <2>3. early' = (early \/ boot < 3)
    BY <2>1
  <2>4. early' \/ boot' = 3
    BY <2>2, <2>3
  <2>5. (early => early') /\ UNCHANGED <<eager, malformed, message, fault>>
    BY <2>3
  <2> HIDE DEF Isr
  <2> QED
    BY <2>1, <2>4, <2>5 DEF IInv, Blamed
<1> QED
  BY <1>1, <1>2, <1>3, <1>4, <1>5 DEF IInv

\* A packet of the configured size fits into the empty FIFO.
LEMMA ReadBufKeeps ==
  ASSUME IInv, ReadBuf
  PROVE  IInv'
<1> USE DEF ReadBuf, At, hw, conf, ring, host, blame, ears
<1>1. LineTypeOK'
  <2>1. txHw = <<>> /\ Known(executed) /\ number \in Nat
    BY DEF IInv, AnswerFits, LineTypeOK
  <2>2. initialized => payloadSize \in Nat /\ payloadSize < HwSize
    BY Constants DEF IInv, AnswerFits, InitSteps
  <2>3. txHw' \in Seq(Answers) /\ Len(txHw') <= HwSize
    BY <2>1, <2>2, ResponseFacts DEF IInv, LineTypeOK
  <2> QED
    BY <2>3 DEF IInv, LineTypeOK, Known
<1>2. ClientTypeOK'
  BY DEF IInv, ClientTypeOK, Steps, InitSteps
<1>3. AnswerFits'
  <2>1. txHw = <<>> /\ Known(executed) /\ number \in Nat
    BY DEF IInv, AnswerFits, LineTypeOK
  <2>2. initialized => payloadSize \in Nat /\ payloadSize < HwSize
    BY Constants DEF IInv, AnswerFits, InitSteps
  <2>3. UNCHANGED fault
    BY <2>1, <2>2, ResponseFacts
  <2> QED
    BY <2>3 DEF IInv, AnswerFits, InitSteps
<1>4. Understood'
  BY DEF IInv, Understood, Speaking, Handling, Arguments, From, InitSteps
<1>5. Blamed'
  <2>1. txHw = <<>> /\ Known(executed) /\ number \in Nat
    BY DEF IInv, AnswerFits, LineTypeOK
  <2>2. initialized => payloadSize \in Nat /\ payloadSize < HwSize
    BY Constants DEF IInv, AnswerFits, InitSteps
  <2>3. UNCHANGED fault
    BY <2>1, <2>2, ResponseFacts
  <2> QED
    BY <2>3 DEF IInv, Blamed
<1> QED
  BY <1>1, <1>2, <1>3, <1>4, <1>5 DEF IInv

\* A register's value fits into the empty FIFO.
LEMMA ReadRegKeeps ==
  ASSUME IInv, ReadReg
  PROVE  IInv'
<1> USE DEF ReadReg, At, hw, conf, ring, host, blame, ears
<1>1. LineTypeOK'
  <2>1. rxHw \in Seq(Words) /\ number \in Nat /\ Len(rxHw) <= HwSize
        /\ \A k \in 1 .. Len(rxHw) : rxHw[k].msg <= number
    BY DEF IInv, LineTypeOK
  <2>2. \E w \in GetData(rxHw) : TRUE
    OBVIOUS
  <2>3. /\ rxHw' \in Seq(Words) /\ Len(rxHw') <= HwSize
        /\ \A k \in 1 .. Len(rxHw') : rxHw'[k].msg <= number
    BY <2>1, <2>2, GetDataFacts
  <2>4. txHw = <<>> /\ Known(executed)
    BY DEF IInv, AnswerFits, LineTypeOK
  <2>5. txHw' \in Seq(Answers) /\ Len(txHw') <= HwSize
    BY <2>1, <2>4, ResponseFacts, Constants DEF IInv, LineTypeOK
  <2> QED
    BY <2>3, <2>5 DEF IInv, LineTypeOK, Known
<1>2. ClientTypeOK'
  BY DEF IInv, ClientTypeOK, Steps, InitSteps
<1>3. AnswerFits'
  <2>1. txHw = <<>> /\ Known(executed) /\ number \in Nat
    BY DEF IInv, AnswerFits, LineTypeOK
  <2>2. UNCHANGED fault
    BY <2>1, Constants, ResponseFacts
  <2> QED
    BY <2>2 DEF IInv, AnswerFits, InitSteps
<1>4. Understood'
  BY DEF IInv, Understood, Speaking, Handling, Arguments, From, InitSteps
<1>5. Blamed'
  <2>1. txHw = <<>> /\ Known(executed) /\ number \in Nat
    BY DEF IInv, AnswerFits, LineTypeOK
  <2>2. UNCHANGED fault
    BY <2>1, Constants, ResponseFacts
  <2> QED
    BY <2>2 DEF IInv, Blamed
<1> QED
  BY <1>1, <1>2, <1>3, <1>4, <1>5 DEF IInv

\* The packet is refused.
LEMMA AllocFullKeeps ==
  ASSUME IInv, AllocFull
  PROVE  IInv'
<1> USE DEF AllocFull, At, hw, conf, ring, host, blame, ears
<1>1. LineTypeOK'
  BY LineFrame DEF IInv
<1>2. ClientTypeOK'
  BY DEF IInv, ClientTypeOK, Steps, InitSteps
<1>3. AnswerFits'
  BY DEF IInv, AnswerFits, InitSteps
<1>4. Understood'
  BY DEF IInv, Understood, Speaking, Handling, Arguments, From, InitSteps
<1>5. Blamed'
  BY DEF IInv, Blamed
<1> QED
  BY <1>1, <1>2, <1>3, <1>4, <1>5 DEF IInv

\* A slot is handed out.
LEMMA AllocKeeps ==
  ASSUME IInv, Alloc
  PROVE  IInv'
<1> USE DEF Alloc, At, hw, conf, ring, host, blame, ears
<1>1. LineTypeOK'
  BY LineFrame DEF IInv
<1>2. ClientTypeOK'
  BY Constants DEF IInv, ClientTypeOK, Steps, InitSteps
<1>3. AnswerFits'
  BY DEF IInv, AnswerFits, InitSteps
<1>4. Understood'
  BY DEF IInv, Understood, Speaking, Handling, Arguments, From, InitSteps
<1>5. Blamed'
  BY DEF IInv, Blamed
<1> QED
  BY <1>1, <1>2, <1>3, <1>4, <1>5 DEF IInv

\* A word goes into the slot.
LEMMA FillKeeps ==
  ASSUME IInv, Fill
  PROVE  IInv'
<1> USE DEF Fill, At, hw, conf, ring, host, blame, ears
<1>1. LineTypeOK'
  <2>1. rxHw \in Seq(Words) /\ number \in Nat /\ Len(rxHw) <= HwSize
        /\ \A k \in 1 .. Len(rxHw) : rxHw[k].msg <= number
    BY DEF IInv, LineTypeOK
  <2>2. Head(rxHw) \in GetData(rxHw) /\ rxHw' = Rest(rxHw)
    BY DEF GetData, Rest
  <2>3. /\ rxHw' \in Seq(Words) /\ Len(rxHw') <= HwSize
        /\ \A k \in 1 .. Len(rxHw') : rxHw'[k].msg <= number
    BY <2>1, <2>2, GetDataFacts
  <2> QED
    BY <2>3 DEF IInv, LineTypeOK, Known
<1>2. ClientTypeOK'
  <2>1. Head(rxHw) \in Words /\ filled + 1 \in 1 .. ItemSize
    <3>1. rxHw \in Seq(Words) /\ rxHw # <<>>
      BY DEF IInv, LineTypeOK
    <3>2. filled \in Nat /\ payloadSize \in 0 .. ItemSize /\ filled < payloadSize
      BY Constants DEF IInv, ClientTypeOK
    <3> HIDE DEF Fill
    <3> QED
      BY <3>1, <3>2, TailFacts, Constants
  <2>2. slot' \in [SlotIndex -> Entries] /\ \A s \in SlotIndex : slot'[s].origin = slot[s].origin
    BY <2>1 DEF IInv, ClientTypeOK, Entries
  <2> QED
    BY <2>1, <2>2 DEF IInv, ClientTypeOK, Steps
<1>3. AnswerFits'
  BY DEF IInv, AnswerFits, InitSteps
<1>4. Understood'
  BY DEF IInv, Understood, Speaking, Handling, Arguments, From, InitSteps
<1>5. Blamed'
  BY DEF IInv, Blamed
<1> QED
  BY <1>1, <1>2, <1>3, <1>4, <1>5 DEF IInv

\* The slot becomes part of the ring.
LEMMA CommitKeeps ==
  ASSUME IInv, Commit
  PROVE  IInv'
<1> USE DEF Commit, At, hw, conf, ring, host, blame, ears
<1>1. LineTypeOK'
  BY LineFrame DEF IInv
<1>2. ClientTypeOK'
  <2>1. executed.msg \in Nat /\ executed.msg <= number /\ filled \in Nat
    BY Constants DEF IInv, LineTypeOK, ClientTypeOK, Known, Words
  <2>2. slot' \in [SlotIndex -> Entries] /\ \A s \in SlotIndex : slot'[s].origin <= number
    BY <2>1 DEF IInv, ClientTypeOK, Entries
  <2>3. write' \in SlotIndex
    BY Constants DEF IInv, ClientTypeOK, SlotIndex, Advance
  <2> QED
    BY <2>2, <2>3 DEF IInv, ClientTypeOK, Steps
<1>3. AnswerFits'
  BY DEF IInv, AnswerFits, InitSteps
<1>4. Understood'
  BY DEF IInv, Understood, Speaking, Handling, Arguments, From, InitSteps
<1>5. Blamed'
  BY DEF IInv, Blamed
<1> QED
  BY <1>1, <1>2, <1>3, <1>4, <1>5 DEF IInv

\* Only a command that came too early finds a pointer missing.
LEMMA TriggerKeeps ==
  ASSUME IInv, Trigger
  PROVE  IInv'
<1> USE DEF Trigger, At, hw, conf, ring, host, blame, ears
<1>1. LineTypeOK'
  BY LineFrame DEF IInv
<1>2. ClientTypeOK'
  BY DEF IInv, ClientTypeOK, Steps, InitSteps
<1>3. AnswerFits'
  BY DEF IInv, AnswerFits, InitSteps
<1>4. Understood'
  BY DEF IInv, Understood, Speaking, Handling, Arguments, From, InitSteps
<1>5. Blamed'
  <2>1. early \/ boot = 3
    BY AllGlue DEF IInv, Blamed
  <2>2. early \/ (HasGlue("initMac") /\ HasGlue("triggerSend") /\ HasGlue("macData"))
    BY <2>1, AllGlue
  <2> QED
    BY <2>2 DEF IInv, Blamed
<1> QED
  BY <1>1, <1>2, <1>3, <1>4, <1>5 DEF IInv

\* The register's number follows the command.
LEMMA WriteRegKeeps ==
  ASSUME IInv, WriteReg
  PROVE  IInv'
<1> USE DEF WriteReg, At, hw, conf, ring, host, blame, ears
<1>1. LineTypeOK'
  <2>1. rxHw \in Seq(Words) /\ number \in Nat /\ Len(rxHw) <= HwSize
        /\ \A k \in 1 .. Len(rxHw) : rxHw[k].msg <= number
    BY DEF IInv, LineTypeOK
  <2>2. \E w \in GetData(rxHw) : TRUE
    OBVIOUS
  <2>3. /\ rxHw' \in Seq(Words) /\ Len(rxHw') <= HwSize
        /\ \A k \in 1 .. Len(rxHw') : rxHw'[k].msg <= number
    BY <2>1, <2>2, GetDataFacts
  <2> QED
    BY <2>3 DEF IInv, LineTypeOK, Known
<1>2. ClientTypeOK'
  BY DEF IInv, ClientTypeOK, Steps, InitSteps
<1>3. AnswerFits'
  BY DEF IInv, AnswerFits, InitSteps
<1>4. Understood'
  <2> SUFFICES ASSUME ~ eager' PROVE (Speaking /\ Handling /\ Arguments)'
    BY DEF Understood
  <2>1. pos = 0 /\ message # <<>> /\ executed = Word(number, 1, message[1])
        /\ message[1] = CMD_WRITEREG /\ From(rxHw, 2, Len(message))
    BY DEF IInv, Understood, Speaking, Handling, Arguments, LineTypeOK
  <2>2. LineTypeOK /\ message \in Seq(Nat) /\ Len(message) \in Nat \ {0} /\ number \in Nat
    BY <2>1, EmptyFacts DEF IInv, LineTypeOK
  <2>3. ASSUME ~ malformed, pc' = "config"
        PROVE  Len(message) > 1 /\ message[2] = REG_CONFIG /\ From(rxHw, 3, Len(message))'
    <3>1. Len(message) > 1
      BY <2>1, <2>3 DEF IInv, Blamed, WellFormed, CMD_READREG, CMD_WRITEREG
    <3>2. 2 <= Kept(Len(message)) /\ message[2] \in Nat
      BY <2>2, <3>1, Constants DEF Kept
    <3>3. \A w \in GetData(rxHw) : w = Word(number, 2, message[2])
      BY <2>1, <2>2, <3>2, FromFacts DEF LineTypeOK
    <3>4. Word(number, 2, message[2]).val = message[2]
      BY DEF Word
    <3>5. message[2] = REG_CONFIG
      BY <2>3, <3>3, <3>4
    <3>6. From(Rest(rxHw), 2 + 1, Len(message))
      BY <2>1, <2>2, FromRest DEF LineTypeOK
    <3>7. rxHw' = Rest(rxHw) /\ UNCHANGED <<number, message>>
      OBVIOUS
    <3>8. From(rxHw, 3, Len(message))'
      BY <3>6, <3>7 DEF From, Kept, Word
    <3> QED
      BY <3>1, <3>5, <3>8
  <2>4. pc' \in {"config", "clear"}
    OBVIOUS
  <2> QED
    BY <2>1, <2>3, <2>4 DEF Speaking, Handling, Arguments, InitSteps, Word
<1>5. Blamed'
  BY DEF IInv, Blamed
<1> QED
  BY <1>1, <1>2, <1>3, <1>4, <1>5 DEF IInv

\* CONFIG's arguments are those of the message.
LEMMA ConfigKeeps ==
  ASSUME IInv, Config
  PROVE  IInv'
<1> USE DEF Config, At, hw, conf, ring, host, blame, ears
<1>1. LineTypeOK'
  <2>1. rxHw' \in Seq(Words) /\ Len(rxHw') <= HwSize
        /\ \A k \in 1 .. Len(rxHw') : rxHw'[k].msg <= number
    BY ThreeRests DEF IInv
  <2> QED
    BY <2>1 DEF IInv, LineTypeOK, Known
<1>2. ClientTypeOK'
  <2>1. \A i \in GetData(rxHw), n \in GetData(Rest(rxHw)), size \in GetData(Rest(Rest(rxHw))) :
          i.val \in Nat /\ n.val \in Nat /\ size.val \in Nat
    BY ThreeRests DEF IInv, Words
  <2>2. arg' \in Nat \X Nat /\ payloadSize' \in 0 .. ItemSize
    BY <2>1, Constants DEF IInv, ClientTypeOK
  <2> QED
    BY <2>2 DEF IInv, ClientTypeOK, Steps, InitSteps
<1>3. AnswerFits'
  BY DEF IInv, AnswerFits, InitSteps
<1>4. Understood'
  <2> SUFFICES ASSUME ~ eager' PROVE (Speaking /\ Handling /\ Arguments)'
    BY DEF Understood
  <2>1. pos = 0 /\ message # <<>> /\ executed = Word(number, 1, message[1])
    BY DEF IInv, Understood, Speaking, Handling, LineTypeOK
  <2>2. ~ malformed => Accepted(arg'[1], arg'[2], payloadSize')
    BY ConfigArguments DEF IInv, Understood
  <2> QED
    BY <2>1, <2>2 DEF Speaking, Handling, Arguments, InitSteps, Word, Accepted
<1>5. Blamed'
  <2>1. ~ eager /\ ~ malformed => UNCHANGED fault
    BY ConfigArguments DEF IInv, Understood
  <2> QED
    BY <2>1 DEF IInv, Blamed
<1> QED
  BY <1>1, <1>2, <1>3, <1>4, <1>5 DEF IInv

\* What is in the slots is not due any more.
LEMMA InitReadKeeps ==
  ASSUME IInv, InitRead
  PROVE  IInv'
<1> USE DEF InitRead, At, hw, conf, ring, host, blame, ears
<1>1. LineTypeOK'
  BY LineFrame DEF IInv
<1>2. ClientTypeOK'
  <2>1. slot' \in [SlotIndex -> Entries] /\ \A s \in SlotIndex : slot'[s].origin = 0
    BY DEF IInv, ClientTypeOK, Entries
  <2>2. 0 \in SlotIndex /\ number \in Nat
    BY Constants DEF SlotIndex, IInv, LineTypeOK
  <2>3. \A s \in SlotIndex : slot'[s].origin <= number'
    BY <2>1, <2>2
  <2> HIDE DEF InitRead
  <2>4. UNCHANGED <<filled, payloadSize, arg, write, boot, initialized>>
        /\ read' = 0 /\ pc' = "initWrite" /\ disturbed' = FALSE
    BY DEF InitRead
  <2> QED
    BY <2>1, <2>2, <2>3, <2>4 DEF IInv, ClientTypeOK, Steps, InitSteps
<1>3. AnswerFits'
  BY DEF IInv, AnswerFits, InitSteps
<1>4. Understood'
  BY DEF IInv, Understood, Speaking, Handling, Arguments, From, InitSteps, Accepted
<1>5. Blamed'
  BY DEF IInv, Blamed
<1> QED
  BY <1>1, <1>2, <1>3, <1>4, <1>5 DEF IInv

\* The ring is empty.
LEMMA InitWriteKeeps ==
  ASSUME IInv, InitWrite
  PROVE  IInv'
<1> USE DEF InitWrite, At, hw, conf, ring, host, blame, ears
<1>1. LineTypeOK'
  BY LineFrame DEF IInv
<1>2. ClientTypeOK'
  <2>1. 0 \in SlotIndex
    BY Constants DEF SlotIndex
  <2> QED
    BY <2>1 DEF IInv, ClientTypeOK, Steps, InitSteps
<1>3. AnswerFits'
  BY DEF IInv, AnswerFits, InitSteps
<1>4. Understood'
  BY DEF IInv, Understood, Speaking, Handling, Arguments, From, InitSteps, Accepted
<1>5. Blamed'
  BY DEF IInv, Blamed
<1> QED
  BY <1>1, <1>2, <1>3, <1>4, <1>5 DEF IInv

\* fmacInit meets what the host has sent.
LEMMA InitMacKeeps ==
  ASSUME IInv, InitMac
  PROVE  IInv'
<1> USE DEF InitMac, At, hw, conf, ring, host, blame, ears
<1>1. LineTypeOK'
  BY LineFrame DEF IInv
<1>2. ClientTypeOK'
  BY DEF IInv, ClientTypeOK, Steps, InitSteps
<1>3. AnswerFits'
  BY DEF IInv, AnswerFits, InitSteps, Accepted
<1>4. Understood'
  BY DEF IInv, Understood, Speaking, Handling, Arguments, From, InitSteps
<1>5. Blamed'
  <2>1. early \/ boot = 3
    BY AllGlue DEF IInv, Blamed
  <2>2. early \/ (HasGlue("initMac") /\ HasGlue("triggerSend") /\ HasGlue("macData"))
    BY <2>1, AllGlue
  <2>3. ~ eager /\ ~ malformed => Accepted(arg[1], arg[2], payloadSize)
    BY DEF IInv, Understood, Arguments, InitSteps
  <2> QED
    BY <2>2, <2>3 DEF IInv, Blamed
<1> QED
  BY <1>1, <1>2, <1>3, <1>4, <1>5 DEF IInv

\* The message is done with.
LEMMA ClearFlagKeeps ==
  ASSUME IInv, ClearFlag
  PROVE  IInv'
<1> USE DEF ClearFlag, At, hw, conf, ring, host, blame, ears
<1>1. LineTypeOK'
  BY DEF IInv, LineTypeOK, Known
<1>2. ClientTypeOK'
  BY DEF IInv, ClientTypeOK, Steps, InitSteps
<1>3. AnswerFits'
  BY DEF IInv, AnswerFits, InitSteps
<1>4. Understood'
  BY DEF IInv, Understood, Speaking, Handling, Arguments, From, InitSteps
<1>5. Blamed'
  BY DEF IInv, Blamed
<1> QED
  BY <1>1, <1>2, <1>3, <1>4, <1>5 DEF IInv

\* Nothing is left of a message.
LEMMA FlushKeeps ==
  ASSUME IInv, Flush
  PROVE  IInv'
<1> USE DEF Flush, At, hw, conf, ring, host, blame, ears
<1>1. LineTypeOK'
  BY EmptyFacts, Constants DEF IInv, LineTypeOK, Known
<1>2. ClientTypeOK'
  BY DEF IInv, ClientTypeOK, Steps, InitSteps
<1>3. AnswerFits'
  BY DEF IInv, AnswerFits, InitSteps
<1>4. Understood'
  <2> SUFFICES ASSUME ~ eager' PROVE (Speaking /\ Handling /\ Arguments)'
    BY DEF Understood
  <2>1. pos = 0 /\ ~ flag /\ message # <<>> /\ executed = Word(number, 1, message[1])
    BY DEF IInv, Understood, Speaking, Handling, LineTypeOK
  <2>2. executed.msg = number
    BY <2>1 DEF Word
  <2> QED
    BY <2>1, <2>2 DEF Speaking, Handling, Arguments, InitSteps
<1>5. Blamed'
  BY DEF IInv, Blamed
<1> QED
  BY <1>1, <1>2, <1>3, <1>4, <1>5 DEF IInv

\* The timer takes a packet out of the ring.
LEMMA TakeKeeps ==
  ASSUME IInv, Take
  PROVE  IInv'
<1> USE DEF Take, At, hw, conf, ring, host, blame, ears
<1>1. LineTypeOK'
  BY LineFrame DEF IInv
<1>2. ClientTypeOK'
  <2>1. slot' \in [SlotIndex -> Entries]
        /\ \A s \in SlotIndex : slot'[s].origin \in {0, slot[s].origin}
    BY DEF IInv, ClientTypeOK, Entries
  <2>2. read' \in SlotIndex /\ number \in Nat
    <3>1. read' = Advance(read) /\ read \in SlotIndex /\ number \in Nat
      BY DEF IInv, ClientTypeOK, LineTypeOK
    <3> HIDE DEF Take
    <3> QED
      BY <3>1, Constants DEF SlotIndex, Advance
  <2> QED
    BY <2>1, <2>2 DEF IInv, ClientTypeOK
<1>3. AnswerFits'
  BY DEF IInv, AnswerFits, InitSteps
<1>4. Understood'
  BY DEF IInv, Understood, Speaking, Handling, Arguments, From, InitSteps
<1>5. Blamed'
  BY DEF IInv, Blamed
<1> QED
  BY <1>1, <1>2, <1>3, <1>4, <1>5 DEF IInv

\* Nothing happens.
LEMMA UnchangedKeeps ==
  ASSUME IInv, UNCHANGED vars
  PROVE  IInv'
<1> USE DEF vars, At, hw, conf, ring, host, blame, ears
<1>1. LineTypeOK'
  BY LineFrame DEF IInv, vars
<1>2. ClientTypeOK'
  BY DEF IInv, ClientTypeOK, Steps, InitSteps
<1>3. AnswerFits'
  BY DEF IInv, AnswerFits, InitSteps
<1>4. Understood'
  BY DEF IInv, Understood, Speaking, Handling, Arguments, From, InitSteps
<1>5. Blamed'
  BY DEF IInv, Blamed
<1> QED
  BY <1>1, <1>2, <1>3, <1>4, <1>5 DEF IInv

-----------------------------------------------------------------------------
(* The invariant and what follows from it *)

LEMMA NextIInv == IInv /\ [Next]_vars => IInv'
<1> SUFFICES ASSUME IInv, [Next]_vars PROVE IInv'
  OBVIOUS
<1>1. ASSUME NEW msg \in Messages, HostStart(msg) PROVE IInv'
  BY <1>1, HostStartKeeps
<1>2. CASE HostWord
  BY <1>2, HostWordKeeps
<1>3. CASE HostBreak
  BY <1>3, HostBreakKeeps
<1>4. CASE Drain
  BY <1>4, DrainKeeps
<1>5. CASE Boot
  BY <1>5, BootKeeps
<1>6. CASE Take
  BY <1>6, TakeKeeps
<1>7. CASE IsrStep
  <2>1. CASE Isr
    BY <2>1, IsrKeeps
  <2>2. CASE ReadBuf \/ ReadReg
    BY <2>2, ReadBufKeeps, ReadRegKeeps
  <2>3. CASE AllocFull \/ Alloc
    BY <2>3, AllocFullKeeps, AllocKeeps
  <2>4. CASE Fill \/ Commit \/ Trigger
    BY <2>4, FillKeeps, CommitKeeps, TriggerKeeps
  <2>5. CASE WriteReg \/ Config
    BY <2>5, WriteRegKeeps, ConfigKeeps
  <2>6. CASE InitRead \/ InitWrite \/ InitMac
    BY <2>6, InitReadKeeps, InitWriteKeeps, InitMacKeeps
  <2>7. CASE ClearFlag \/ Flush
    BY <2>7, ClearFlagKeeps, FlushKeeps
  <2> QED
    BY <1>7, <2>1, <2>2, <2>3, <2>4, <2>5, <2>6, <2>7 DEF IsrStep
<1>8. CASE UNCHANGED vars
  BY <1>8, UnchangedKeeps
<1> QED
  BY <1>1, <1>2, <1>3, <1>4, <1>5, <1>6, <1>7, <1>8 DEF Next

\* The invariant holds throughout, for every host.
LEMMA Invariance == Spec => []IInv
<1>1. Init => IInv
  BY InitIInv
<1>2. IInv /\ [Next]_vars => IInv'
  BY NextIInv
<1> QED
  BY <1>1, <1>2, PTL DEF Spec

\* Every variable of the interface has its type, whatever the host sends and whenever.
THEOREM TypeCorrect == Spec => []TypeOK
<1>1. IInv => TypeOK
  <2> SUFFICES ASSUME IInv PROVE TypeOK
    OBVIOUS
  <2>1. \A s \in SlotIndex : slot[s].origin \in 0 .. number
    <3> SUFFICES ASSUME NEW s \in SlotIndex PROVE slot[s].origin \in 0 .. number
      OBVIOUS
    <3>1. slot[s].origin \in Nat /\ slot[s].origin <= number /\ number \in Nat
      BY DEF IInv, ClientTypeOK, LineTypeOK, Entries
    <3> QED
      BY <3>1
  <2> QED
    BY <2>1 DEF IInv, LineTypeOK, ClientTypeOK, TypeOK
<1> QED
  BY <1>1, Invariance, PTL

\* No host can make an answer overflow the hardware FIFO (the assertion of
\* queueResponse), and every other failed assertion of the interface has a host
\* that did not wait, was too early or sent a malformed message.
THEOREM HostCauses == Spec => []FaultsHaveCause
<1>1. IInv => FaultsHaveCause
  BY DEF IInv, AnswerFits, Blamed, FaultsHaveCause
<1> QED
  BY <1>1, Invariance, PTL

\* What the handler of a waiting host takes for a command is the first word of the
\* next message, whatever the message before left in the FIFO.
THEOREM CommandsUnderstood == Spec => CommandsAreCommands
<1>1. IInv /\ [Next]_vars =>
        [executed' # executed /\ ~ eager =>
           executed'.pos = 1 /\ executed'.msg = executed.msg + 1]_vars
  <2> SUFFICES ASSUME IInv, Next, executed' # executed, ~ eager
               PROVE  executed'.pos = 1 /\ executed'.msg = executed.msg + 1
    OBVIOUS
  <2>1. Isr
    BY DEF Next, IsrStep, HostStart, HostWord, HostBreak, Drain, Boot, ReadBuf, ReadReg,
           AllocFull, Alloc, Fill, Commit, Trigger, WriteReg, Config, InitRead, InitWrite,
           InitMac, ClearFlag, Flush, Take
  <2> QED
    BY <2>1, IsrReads DEF Word
<1> QED
  BY <1>1, Invariance, PTL DEF Spec, CommandsAreCommands

-----------------------------------------------------------------------------
(* The packets in the ring *)

\* The slots between read and write, and their order.
InRing(s) == IF read <= write THEN read <= s /\ s < write ELSE read <= s \/ s < write
Place(s)  == IF s < read THEN s + Slots ELSE s

\* What is due lies in the ring; CONFIG makes nothing due, and WRITEBUF has found
\* room.
RingSpace ==
  /\ taken \in Entries
  /\ \A s \in SlotIndex : InRing(s) \/ slot[s].origin = 0
  /\ pc = "initWrite" => \A s \in SlotIndex : slot[s].origin = 0
  /\ pc = "initWrite" /\ ~ disturbed => read = 0
  /\ pc = "fill" => ~ IsFull(read, write)

\* No word and no packet is of a message to come.
Past ==
  /\ taken.origin <= executed.msg
  /\ \A s \in SlotIndex : slot[s].origin <= executed.msg
  /\ \A s \in SlotIndex : \A k \in 1 .. ItemSize : slot[s].words[k].msg <= executed.msg

\* Before the first word is stored, they are all of messages before this one ...
Before ==
  pc = "alloc" =>
    /\ taken.origin < executed.msg
    /\ \A s \in SlotIndex : slot[s].origin < executed.msg
    /\ \A s \in SlotIndex : \A k \in 1 .. ItemSize : slot[s].words[k].msg < executed.msg
    /\ From(rxHw, 2, Len(message))

\* ... and then all but those that readFifoInto has stored.
Filling ==
  pc = "fill" =>
    /\ taken.origin < executed.msg
    /\ \A s \in SlotIndex : slot[s].origin < executed.msg
    /\ \A s \in SlotIndex : \A k \in 1 .. ItemSize :
         (s = write /\ k <= filled) \/ slot[s].words[k].msg < executed.msg
    /\ \A k \in 1 .. ItemSize : k <= filled =>
         slot[write].words[k].msg = executed.msg /\ slot[write].words[k].pos = k + 1
    /\ From(rxHw, filled + 2, Len(message))

\* The words of a packet that is due.
WholeItem(item, size) ==
  item.origin # 0 =>
    \A k \in 1 .. ItemSize : k <= size =>
      IF k <= item.own
        THEN item.words[k].msg = item.origin /\ item.words[k].pos = k + 1
        ELSE item.words[k].msg < item.origin

Whole ==
  /\ \A s \in SlotIndex : WholeItem(slot[s], ItemSize)
  /\ WholeItem(taken, taken.size) /\ taken.size <= ItemSize

\* Those in the ring are in order, and later than the one taken last.
InOrder ==
  ~ disturbed /\ pc # "initWrite" =>
    /\ \A s \in SlotIndex : InRing(s) => slot[s].origin > taken.origin
    /\ \A s, t \in SlotIndex :
         InRing(s) /\ InRing(t) /\ Place(s) < Place(t) => slot[s].origin < slot[t].origin

RingInv == RingSpace /\ (~ eager => Past /\ Before /\ Filling /\ Whole /\ InOrder)

\* The types the steps below need.
LEMMA RingTypes ==
  ASSUME IInv
  PROVE  /\ read \in 0 .. Slots - 1 /\ write \in 0 .. Slots - 1 /\ Slots \in Nat \ {0}
         /\ filled \in 0 .. ItemSize /\ payloadSize \in 0 .. ItemSize
         /\ ItemSize \in Nat /\ eager \in BOOLEAN /\ disturbed \in BOOLEAN
         /\ slot \in [SlotIndex -> Entries] /\ executed.msg \in Nat
         /\ \A s \in SlotIndex : slot[s].origin \in Nat
         /\ \A s \in SlotIndex : \A k \in 1 .. ItemSize : slot[s].words[k].msg \in Nat
  BY Constants DEF IInv, ClientTypeOK, LineTypeOK, Known, Words, Entries, SlotIndex

LEMMA InitRing == Init => RingInv
<1> SUFFICES ASSUME Init PROVE RingInv
  OBVIOUS
<1>1. /\ NoItem \in Entries /\ NoItem.origin = 0 /\ NoItem.size = 0
      /\ \A k \in 1 .. ItemSize : NoItem.words[k].msg = 0
  BY WordFacts DEF NoItem, NoWord, Word, Entries, Words
<1>2. executed.msg = 0
  BY DEF Init, NoWord, Word
<1>3. taken = NoItem /\ \A s \in SlotIndex : slot[s] = NoItem
  BY DEF Init
<1>4. pc = "idle" /\ read = 0 /\ write = 0
  BY DEF Init
<1>5. \A s \in SlotIndex : ~ InRing(s)
  BY <1>4, Constants DEF InRing, SlotIndex
<1>6. WholeItem(NoItem, ItemSize) /\ WholeItem(NoItem, 0)
  BY <1>1 DEF WholeItem
<1> HIDE DEF NoItem
<1>7. Whole
  BY <1>1, <1>3, <1>6, Constants DEF Whole
<1> QED
  BY <1>1, <1>2, <1>3, <1>4, <1>5, <1>7
     DEF RingInv, RingSpace, Past, Before, Filling, InOrder

\* Steps that leave the ring alone, and the FIFO while a packet is written.
LEMMA RingFrame ==
  ASSUME IInv, RingInv, UNCHANGED <<read, write, slot, taken, disturbed>>,
         eager => eager',
         ~ eager' => UNCHANGED executed,
         pc' = pc \/ (pc # "initWrite" /\ pc' \notin {"alloc", "fill", "initWrite"}),
         ~ eager' /\ pc' \in {"alloc", "fill"} => UNCHANGED <<rxHw, filled, number, message>>
  PROVE  RingInv'
<1>1. RingSpace'
  BY DEF RingInv, RingSpace, InRing
<1>2. ASSUME ~ eager' PROVE (Past /\ Before /\ Filling /\ Whole /\ InOrder)'
  <2>1. Past /\ Before /\ Filling /\ Whole /\ InOrder /\ UNCHANGED executed
    BY <1>2 DEF RingInv
  <2>2. Past' /\ Whole'
    BY <2>1 DEF Past, Whole, WholeItem
  <2>3. Before' /\ Filling'
    BY <1>2, <2>1 DEF Before, Filling, From, Kept
  <2>4. InOrder'
    <3>1. CASE pc # "initWrite"
      BY <2>1, <3>1 DEF InOrder, InRing, Place
    <3>2. CASE pc = "initWrite"
      BY <3>2 DEF InOrder
    <3> QED
      BY <3>1, <3>2
  <2> QED
    BY <2>2, <2>3, <2>4
<1> QED
  BY <1>1, <1>2 DEF RingInv

\* A command of a waiting host is later than everything there is.
LEMMA IsrRing ==
  ASSUME IInv, RingInv, Isr
  PROVE  RingInv'
<1>1. /\ UNCHANGED <<read, write, slot, taken, disturbed, eager, number, message, filled>>
      /\ pc = "idle" /\ pc' \in {"readBuf", "alloc", "readReg", "writeReg", "clear"}
  BY DEF Isr, At, ring, host, Handler
<1>2. RingSpace'
  BY <1>1 DEF RingInv, RingSpace, InRing
<1>3. ASSUME ~ eager' PROVE (Past /\ Before /\ Filling /\ Whole /\ InOrder)'
  <2>1. Past /\ Whole /\ InOrder /\ ~ eager
    BY <1>1, <1>3 DEF RingInv
  <2>2. /\ number \in Nat /\ executed.msg = number - 1 /\ executed'.msg = number
        /\ From(rxHw, 2, Len(message))'
    BY <2>1, IsrReads DEF Word
  <2>3. /\ taken.origin < executed'.msg
        /\ \A s \in SlotIndex : slot[s].origin < executed'.msg
        /\ \A s \in SlotIndex : \A k \in 1 .. ItemSize : slot[s].words[k].msg < executed'.msg
    <3>1. \A a \in Nat : a <= executed.msg => a < executed'.msg /\ a <= executed'.msg
      BY <2>2
    <3>2. taken.origin \in Nat
      BY DEF RingInv, RingSpace, Entries
    <3> QED
      BY <2>1, <3>1, <3>2, RingTypes DEF Past
  <2>4. Past'
    <3>1. \A a \in Nat : a < executed'.msg => a <= executed'.msg
      BY <2>2
    <3>2. taken.origin \in Nat
      BY DEF RingInv, RingSpace, Entries
    <3> QED
      BY <1>1, <2>3, <3>1, <3>2, RingTypes DEF Past
  <2>5. Before'
    BY <1>1, <2>2, <2>3 DEF Before
  <2>6. Filling' /\ Whole' /\ InOrder'
    BY <1>1, <2>1 DEF Filling, Whole, WholeItem, InOrder, InRing, Place
  <2> QED
    BY <2>4, <2>5, <2>6
<1> QED
  BY <1>2, <1>3 DEF RingInv

\* No word is stored yet.
LEMMA AllocRing ==
  ASSUME IInv, RingInv, Alloc
  PROVE  RingInv'
<1>1. /\ UNCHANGED <<read, write, slot, taken, disturbed, eager, rxHw, number, message, executed>>
      /\ pc = "alloc" /\ pc' = "fill" /\ filled' = 0 /\ ~ IsFull(read, write)
  BY DEF Alloc, At, ring, host, hw, blame
<1>2. RingSpace'
  BY <1>1 DEF RingInv, RingSpace, InRing
<1>3. ASSUME ~ eager' PROVE (Past /\ Before /\ Filling /\ Whole /\ InOrder)'
  <2>1. Past /\ Before /\ Whole /\ InOrder
    BY <1>1, <1>3 DEF RingInv
  <2>2. Past' /\ Before' /\ Whole' /\ InOrder'
    BY <1>1, <2>1 DEF Past, Before, Whole, WholeItem, InOrder, InRing, Place
  <2>3. Filling'
    <3>1. From(rxHw, filled + 2, Len(message))'
      BY <1>1, <2>1 DEF Before, From, Kept
    <3>2. \A k \in 1 .. ItemSize : ~ k <= filled'
      BY <1>1, Constants
    <3> QED
      BY <1>1, <2>1, <3>1, <3>2 DEF Before, Filling
  <2> QED
    BY <2>2, <2>3
<1> QED
  BY <1>2, <1>3 DEF RingInv

\* The word that is stored is the message's next.
LEMMA FillRing ==
  ASSUME IInv, RingInv, Fill
  PROVE  RingInv'
<1> DEFINE place == filled + 1
<1>1. /\ UNCHANGED <<read, write, taken, disturbed, eager, number, message, executed>>
      /\ pc = "fill" /\ pc' = "fill" /\ filled' = place /\ rxHw # <<>>
      /\ slot' = [slot EXCEPT ![write].words[place] = Head(rxHw)]
      /\ rxHw' = Rest(rxHw) /\ Head(rxHw) \in GetData(rxHw)
  BY DEF Fill, At, host, blame, Rest, GetData
<1>2. place \in 1 .. ItemSize /\ write \in SlotIndex /\ rxHw \in Seq(Words) /\ Head(rxHw) \in Words
  <2>1. filled < payloadSize /\ rxHw \in Seq(Words)
    BY DEF Fill, IInv, LineTypeOK
  <2> QED
    BY <1>1, <2>1, RingTypes, TailFacts DEF SlotIndex
<1>3. /\ \A s \in SlotIndex : slot'[s].origin = slot[s].origin /\ slot'[s].own = slot[s].own
      /\ \A s \in SlotIndex : \A k \in 1 .. ItemSize :
           slot'[s].words[k] = IF s = write /\ k = place THEN Head(rxHw) ELSE slot[s].words[k]
  BY <1>1, <1>2, RingTypes DEF Entries
<1>4. RingSpace'
  BY <1>1, <1>3 DEF RingInv, RingSpace, InRing
<1>5. ASSUME ~ eager' PROVE (Past /\ Before /\ Filling /\ Whole /\ InOrder)'
  <2>1. Past /\ Filling /\ Whole /\ InOrder /\ ~ eager
    BY <1>1, <1>5 DEF RingInv
  <2>2. executed.msg = number /\ message \in Seq(Nat) /\ Len(message) \in Nat /\ number \in Nat
    BY <1>1, <2>1 DEF IInv, Understood, Handling, LineTypeOK, Word
  <2>3. From(rxHw, place + 1, Len(message)) /\ place + 1 \in Nat \ {0}
    <3>1. place + 1 = filled + 2
      BY RingTypes
    <3> QED
      BY <1>1, <1>2, <2>1, <3>1 DEF Filling
  <2> HIDE DEF place
  <2>4. Head(rxHw).msg = executed.msg /\ Head(rxHw).pos = place + 1
    <3>1. Len(rxHw) \in Nat \ {0} /\ Kept(Len(message)) \in Nat
      BY <1>1, <1>2, <2>2, EmptyFacts, Constants DEF Kept
    <3>2. place + 1 <= Kept(Len(message))
      BY <1>2, <2>3, <3>1 DEF From
    <3>3. Head(rxHw) = Word(number, place + 1, message[place + 1])
      BY <1>1, <1>2, <2>2, <2>3, <3>2, FromFacts
    <3> QED
      BY <2>2, <3>3 DEF Word
  <2>5. From(rxHw, filled + 2, Len(message))'
    <3>1. From(Rest(rxHw), (place + 1) + 1, Len(message))
      BY <1>2, <2>2, <2>3, FromRest
    <3>2. (place + 1) + 1 = place + 2
      BY <1>2
    <3>3. From(Rest(rxHw), place + 2, Len(message))
      BY <3>1, <3>2
    <3> QED
      BY <1>1, <3>3 DEF From, Kept
  <2>6. Past'
    BY <1>1, <1>3, <2>1, <2>4, RingTypes DEF Past
  <2>7. Filling'
    <3>1. /\ taken.origin < executed.msg
          /\ \A s \in SlotIndex : slot[s].origin < executed.msg
          /\ \A s \in SlotIndex : \A k \in 1 .. ItemSize :
               (s = write /\ k <= filled) \/ slot[s].words[k].msg < executed.msg
          /\ \A k \in 1 .. ItemSize : k <= filled =>
               slot[write].words[k].msg = executed.msg /\ slot[write].words[k].pos = k + 1
      BY <1>1, <2>1 DEF Filling
    <3>2. \A k \in 1 .. ItemSize : k <= filled' <=> k <= filled \/ k = place
      BY <1>1, RingTypes DEF place
    <3>3. ASSUME NEW s \in SlotIndex, NEW k \in 1 .. ItemSize
          PROVE  (s = write /\ k <= filled') \/ slot'[s].words[k].msg < executed.msg
      BY <1>3, <3>1, <3>2
    <3>4. ASSUME NEW k \in 1 .. ItemSize, k <= filled'
          PROVE  slot'[write].words[k].msg = executed.msg /\ slot'[write].words[k].pos = k + 1
      BY <1>2, <1>3, <2>4, <3>1, <3>2, <3>4
    <3> QED
      BY <1>1, <1>3, <3>1, <2>5, <3>3, <3>4 DEF Filling
  <2>8. Whole'
    <3>1. slot[write].origin = 0
      BY <1>2, RingTypes DEF RingInv, RingSpace, InRing, SlotIndex
    <3>2. \A s \in SlotIndex : s # write => slot'[s] = slot[s]
      BY <1>1, RingTypes
    <3>3. ASSUME NEW s \in SlotIndex PROVE WholeItem(slot'[s], ItemSize)
      <4>1. CASE s = write
        BY <1>3, <3>1, <4>1 DEF WholeItem
      <4>2. CASE s # write
        BY <2>1, <3>2, <4>2 DEF Whole
      <4> QED
        BY <4>1, <4>2
    <3> QED
      BY <1>1, <2>1, <3>3 DEF Whole
  <2>9. Before' /\ InOrder'
    BY <1>1, <1>3, <2>1 DEF Before, InOrder, InRing, Place
  <2> QED
    BY <2>6, <2>7, <2>8, <2>9
<1> QED
  BY <1>4, <1>5 DEF RingInv

\* The packet comes behind the others.
LEMMA CommitRing ==
  ASSUME IInv, RingInv, Commit
  PROVE  RingInv'
<1>1. /\ UNCHANGED <<read, taken, disturbed, eager, executed>>
      /\ pc = "fill" /\ pc' = "trigger" /\ write' = Advance(write)
      /\ slot' = [slot EXCEPT ![write].origin = executed.msg, ![write].own = filled]
  BY DEF Commit, At, host, blame
<1>2. write \in SlotIndex /\ Advance(write) # read
  BY <1>1, RingTypes DEF RingInv, RingSpace, IsFull, SlotIndex
<1>3. /\ \A s \in SlotIndex : slot'[s].words = slot[s].words
      /\ \A s \in SlotIndex : s # write => slot'[s] = slot[s]
      /\ slot'[write].origin = executed.msg /\ slot'[write].own = filled
  BY <1>1, <1>2, RingTypes DEF Entries
<1>4. ASSUME NEW s \in SlotIndex PROVE InRing(s)' <=> InRing(s) \/ s = write
  BY <1>1, <1>2, RingTypes DEF InRing, Advance, SlotIndex
<1>5. ~ InRing(write)
  BY RingTypes DEF InRing
<1>6. \A s \in SlotIndex : InRing(s) => Place(s) < Place(write)
  BY <1>2, RingTypes DEF InRing, Place, SlotIndex
<1>7. \A s \in SlotIndex : Place(s) \in Nat /\ Place(s)' = Place(s)
  BY <1>1, RingTypes DEF Place, SlotIndex
<1>8. RingSpace'
  BY <1>1, <1>3, <1>4 DEF RingInv, RingSpace
<1>9. ASSUME ~ eager' PROVE (Past /\ Before /\ Filling /\ Whole /\ InOrder)'
  <2>1. Past /\ Filling /\ Whole /\ InOrder
    BY <1>1, <1>9 DEF RingInv
  <2>2. Past'
    BY <1>1, <1>3, <2>1, RingTypes DEF Past
  <2>3. WholeItem(slot'[write], ItemSize)
    BY <1>1, <1>2, <1>3, <2>1 DEF Filling, WholeItem
  <2>4. Whole'
    BY <1>1, <1>3, <2>1, <2>3 DEF Whole
  <2>5. InOrder'
    <3> SUFFICES ASSUME ~ disturbed
                 PROVE  /\ \A s \in SlotIndex : InRing(s)' => slot'[s].origin > taken.origin
                        /\ \A s, t \in SlotIndex :
                             InRing(s)' /\ InRing(t)' /\ Place(s)' < Place(t)' =>
                               slot'[s].origin < slot'[t].origin
      BY <1>1 DEF InOrder
    <3>1. /\ \A s \in SlotIndex : InRing(s) => slot[s].origin > taken.origin
          /\ \A s, t \in SlotIndex :
               InRing(s) /\ InRing(t) /\ Place(s) < Place(t) => slot[s].origin < slot[t].origin
      BY <1>1, <2>1 DEF InOrder
    <3>2. taken.origin < executed.msg /\ \A s \in SlotIndex : slot[s].origin < executed.msg
      BY <1>1, <2>1 DEF Filling
    <3>3. taken.origin \in Nat
      BY DEF RingInv, RingSpace, Entries
    <3>4. ASSUME NEW s \in SlotIndex, InRing(s)' PROVE slot'[s].origin > taken.origin
      BY <1>3, <1>4, <3>1, <3>2, <3>3, <3>4, RingTypes
    <3>5. ASSUME NEW s \in SlotIndex, NEW t \in SlotIndex, InRing(s)', InRing(t)',
                 Place(s)' < Place(t)'
          PROVE  slot'[s].origin < slot'[t].origin
      <4>1. Place(s) < Place(t)
        BY <1>7, <3>5
      <4>2. CASE t = write
        <5>1. s # write
          BY <1>7, <4>1, <4>2
        <5> QED
          BY <1>3, <3>2, <4>2, <5>1
      <4>3. CASE t # write
        <5>1. InRing(t) /\ Place(t) < Place(write)
          BY <1>4, <1>6, <3>5, <4>3
        <5>2. s # write
          BY <1>2, <1>7, <4>1, <5>1
        <5>3. InRing(s)
          BY <1>4, <3>5, <5>2
        <5> QED
          BY <1>3, <3>1, <4>1, <4>3, <5>1, <5>2, <5>3
      <4> QED
        BY <4>2, <4>3
    <3> QED
      BY <3>4, <3>5
  <2> QED
    BY <1>1, <2>2, <2>4, <2>5 DEF Before, Filling
<1> QED
  BY <1>8, <1>9 DEF RingInv

\* CONFIG: nothing is due, whatever the pointers are.
LEMMA InitReadRing ==
  ASSUME IInv, RingInv, InitRead
  PROVE  RingInv'
<1>1. /\ UNCHANGED <<write, taken, eager, executed>> /\ pc' = "initWrite" /\ read' = 0
      /\ slot' = [s \in SlotIndex |-> [slot[s] EXCEPT !.origin = 0]]
  BY DEF InitRead, At, host, blame
<1>2. \A s \in SlotIndex : slot'[s].origin = 0 /\ slot'[s].words = slot[s].words
  BY <1>1, RingTypes DEF Entries
<1>3. RingSpace'
  BY <1>1, <1>2 DEF RingInv, RingSpace
<1>4. ASSUME ~ eager' PROVE (Past /\ Before /\ Filling /\ Whole /\ InOrder)'
  <2>1. Past /\ Whole
    BY <1>1, <1>4 DEF RingInv
  <2>2. Past'
    BY <1>1, <1>2, <2>1, RingTypes DEF Past
  <2> QED
    BY <1>1, <1>2, <2>1, <2>2 DEF Before, Filling, Whole, WholeItem, InOrder
<1> QED
  BY <1>3, <1>4 DEF RingInv

\* CONFIG: the ring is empty, unless the timer has moved read meanwhile.
LEMMA InitWriteRing ==
  ASSUME IInv, RingInv, InitWrite
  PROVE  RingInv'
<1>1. /\ UNCHANGED <<read, slot, taken, disturbed, eager, executed>>
      /\ pc = "initWrite" /\ pc' = "initMac" /\ write' = 0
  BY DEF InitWrite, At, host, blame
<1>2. /\ \A s \in SlotIndex : slot[s].origin = 0
      /\ ~ disturbed => read = 0
  BY <1>1 DEF RingInv, RingSpace
<1>3. RingSpace'
  BY <1>1, <1>2 DEF RingInv, RingSpace
<1>4. ASSUME ~ eager' PROVE (Past /\ Before /\ Filling /\ Whole /\ InOrder)'
  <2>1. Past /\ Whole
    BY <1>1, <1>4 DEF RingInv
  <2>2. Past' /\ Before' /\ Filling' /\ Whole'
    BY <1>1, <2>1 DEF Past, Before, Filling, Whole, WholeItem
  <2>3. ~ disturbed => \A s \in SlotIndex : ~ InRing(s)'
    BY <1>1, <1>2, RingTypes DEF InRing, SlotIndex
  <2>4. InOrder'
    BY <1>1, <2>3 DEF InOrder
  <2> QED
    BY <2>2, <2>4
<1> QED
  BY <1>3, <1>4 DEF RingInv

\* The packet that is taken is the first of the ring.
LEMMA TakeRing ==
  ASSUME IInv, RingInv, Take
  PROVE  RingInv' /\ (~ disturbed' /\ ~ eager => taken'.origin > taken.origin)
<1>1. /\ UNCHANGED <<write, eager, executed, pc, filled, rxHw, number, message>>
      /\ read' = Advance(read) /\ read # write
      /\ slot' = [slot EXCEPT ![read].origin = 0]
      /\ disturbed' = (disturbed \/ pc = "initWrite")
  BY DEF Take, hw, host, blame, IsEmpty
<1>2. read \in SlotIndex
  BY RingTypes DEF SlotIndex
<1>3. /\ taken' \in Entries /\ taken'.origin = slot[read].origin
      /\ taken'.own = slot[read].own /\ taken'.size = payloadSize
      /\ \A k \in 1 .. ItemSize : k <= payloadSize => taken'.words[k] = slot[read].words[k]
  <2>1. taken' = [slot[read] EXCEPT !.size = payloadSize,
                    !.words = [k \in 1 .. ItemSize |->
                                 IF k <= payloadSize THEN slot[read].words[k] ELSE NoWord]]
    BY DEF Take
  <2>2. slot[read] \in Entries /\ payloadSize \in Nat /\ NoWord \in Words
    BY <1>2, RingTypes, WordFacts DEF NoWord
  <2> QED
    BY <2>1, <2>2 DEF Entries
<1>4. /\ \A s \in SlotIndex : slot'[s].words = slot[s].words /\ slot'[s].own = slot[s].own
      /\ \A s \in SlotIndex : s # read => slot'[s] = slot[s]
      /\ slot'[read].origin = 0
  BY <1>1, <1>2, RingTypes DEF Entries
<1>5. ASSUME NEW s \in SlotIndex PROVE InRing(s)' <=> InRing(s) /\ s # read
  BY <1>1, <1>2, RingTypes DEF InRing, Advance, SlotIndex
<1>6. InRing(read) /\ \A s \in SlotIndex : InRing(s) /\ s # read => Place(read) < Place(s)
  BY <1>1, <1>2, RingTypes DEF InRing, Place, SlotIndex
<1>7. \A s, t \in SlotIndex : s # read /\ t # read =>
        (Place(s)' < Place(t)' => Place(s) < Place(t))
  BY <1>1, <1>2, RingTypes DEF Place, Advance, SlotIndex
<1>8. RingSpace'
  <2>1. \A s \in SlotIndex : InRing(s)' \/ slot'[s].origin = 0
    BY <1>4, <1>5 DEF RingInv, RingSpace
  <2>2. pc = "initWrite" => \A s \in SlotIndex : slot'[s].origin = 0
    BY <1>4 DEF RingInv, RingSpace
  <2>3. pc = "fill" => ~ IsFull(read', write)
    BY <1>1, <1>2, RingTypes DEF IsFull, Advance, RingInv, RingSpace, SlotIndex
  <2> QED
    BY <1>1, <1>3, <2>1, <2>2, <2>3 DEF RingSpace
<1>9. ASSUME ~ eager
      PROVE  /\ (Past /\ Before /\ Filling /\ Whole /\ InOrder)'
             /\ ~ disturbed' => taken'.origin > taken.origin
  <2>1. Past /\ Before /\ Filling /\ Whole /\ InOrder
    BY <1>9 DEF RingInv
  <2>2. Past'
    BY <1>1, <1>2, <1>3, <1>4, <2>1, RingTypes DEF Past
  <2>3. Before'
    BY <1>1, <1>2, <1>3, <1>4, <2>1, RingTypes DEF Before, From, Kept
  <2>4. Filling'
    <3> SUFFICES ASSUME pc = "fill" PROVE Filling'
      BY <1>1 DEF Filling
    <3>1. /\ \A s \in SlotIndex : slot[s].origin < executed.msg
          /\ \A s \in SlotIndex : \A k \in 1 .. ItemSize :
               (s = write /\ k <= filled) \/ slot[s].words[k].msg < executed.msg
          /\ \A k \in 1 .. ItemSize : k <= filled =>
               slot[write].words[k].msg = executed.msg /\ slot[write].words[k].pos = k + 1
          /\ From(rxHw, filled + 2, Len(message))
      BY <2>1 DEF Filling
    <3>2. From(rxHw, filled + 2, Len(message))'
      BY <1>1, <3>1 DEF From, Kept
    <3>3. write \in SlotIndex
      BY RingTypes DEF SlotIndex
    <3>4. taken'.origin < executed'.msg /\ \A s \in SlotIndex : slot'[s].origin < executed'.msg
      <4>1. 0 < executed.msg
        BY <1>2, <3>1, RingTypes
      <4> QED
        BY <1>1, <1>2, <1>3, <1>4, <3>1, <4>1
    <3> QED
      BY <1>1, <1>4, <3>1, <3>2, <3>3, <3>4 DEF Filling
  <2>5. Whole'
    <3>1. ASSUME NEW s \in SlotIndex PROVE WholeItem(slot'[s], ItemSize)
      BY <1>4, <2>1 DEF Whole, WholeItem
    <3>2. WholeItem(slot[read], ItemSize)
      BY <1>2, <2>1 DEF Whole
    <3>3. payloadSize <= ItemSize /\ \A k \in 1 .. ItemSize : k <= ItemSize
      BY RingTypes
    <3>4. WholeItem(taken', taken'.size)
      BY <1>3, <3>2, <3>3 DEF WholeItem
    <3> QED
      BY <1>3, <3>1, <3>3, <3>4 DEF Whole
  <2>6. ASSUME ~ disturbed'
        PROVE  /\ taken'.origin > taken.origin
               /\ \A s \in SlotIndex : InRing(s)' => slot'[s].origin > taken'.origin
               /\ \A s, t \in SlotIndex :
                    InRing(s)' /\ InRing(t)' /\ Place(s)' < Place(t)' =>
                      slot'[s].origin < slot'[t].origin
    <3>1. /\ \A s \in SlotIndex : InRing(s) => slot[s].origin > taken.origin
          /\ \A s, t \in SlotIndex :
               InRing(s) /\ InRing(t) /\ Place(s) < Place(t) => slot[s].origin < slot[t].origin
      BY <1>1, <2>1, <2>6 DEF InOrder
    <3>2. taken'.origin > taken.origin
      BY <1>2, <1>3, <1>6, <3>1
    <3>3. ASSUME NEW s \in SlotIndex, InRing(s)' PROVE slot'[s].origin > taken'.origin
      <4>1. InRing(s) /\ s # read /\ slot[read].origin < slot[s].origin
        BY <1>2, <1>5, <1>6, <3>1, <3>3
      <4> QED
        BY <1>2, <1>3, <1>4, <4>1, RingTypes
    <3>4. ASSUME NEW s \in SlotIndex, NEW t \in SlotIndex, InRing(s)', InRing(t)',
                 Place(s)' < Place(t)'
          PROVE  slot'[s].origin < slot'[t].origin
      BY <1>4, <1>5, <1>7, <3>1, <3>4
    <3> QED
      BY <3>2, <3>3, <3>4
  <2>7. InOrder'
    BY <2>6 DEF InOrder
  <2> QED
    BY <2>2, <2>3, <2>4, <2>5, <2>6, <2>7
<1> QED
  BY <1>1, <1>8, <1>9 DEF RingInv

LEMMA NextRing == IInv /\ RingInv /\ [Next]_vars => RingInv'
<1> SUFFICES ASSUME IInv, RingInv, [Next]_vars PROVE RingInv'
  OBVIOUS
<1>1. CASE \E msg \in Messages : HostStart(msg)
  <2>1. PICK msg \in Messages : HostStart(msg)
    BY <1>1
  <2>2. ~ eager' => pc = "idle"
    BY <2>1 DEF HostStart, Quiet, IInv, LineTypeOK
  <2> QED
    BY <2>1, <2>2, RingFrame DEF HostStart, ring
<1>2. CASE HostWord
  <2>1. ~ eager => pc = "idle"
    BY <1>2 DEF HostWord, IInv, Understood, Speaking
  <2> QED
    BY <1>2, <2>1, RingFrame DEF HostWord, ring, blame
<1>3. CASE HostBreak \/ Drain \/ Boot
  BY <1>3, RingFrame DEF HostBreak, Drain, Boot, ring, blame, hw, host, At
<1>4. CASE Take
  BY <1>4, TakeRing
<1>5. CASE IsrStep
  <2>1. CASE Isr \/ Alloc \/ Fill \/ Commit \/ InitRead \/ InitWrite
    BY <2>1, IsrRing, AllocRing, FillRing, CommitRing, InitReadRing, InitWriteRing
  <2>2. CASE ReadBuf \/ ReadReg \/ AllocFull
    BY <2>2, RingFrame DEF ReadBuf, ReadReg, AllocFull, ring, blame, At
  <2>3. CASE Trigger \/ WriteReg
    <3>1. /\ pc \in {"trigger", "writeReg"} /\ pc' \in {"config", "clear"}
          /\ UNCHANGED <<read, write, slot, taken, disturbed, eager, executed>>
      BY <2>3 DEF Trigger, WriteReg, ring, blame, At
    <3> QED
      BY <3>1, RingFrame
  <2>4. CASE Config \/ InitMac
    <3>1. /\ pc \in {"config", "initMac"} /\ pc' \in {"initRead", "clear"}
          /\ UNCHANGED <<read, write, slot, taken, disturbed, eager, executed>>
      BY <2>4 DEF Config, InitMac, ring, blame, At
    <3> QED
      BY <3>1, RingFrame
  <2>5. CASE ClearFlag \/ Flush
    BY <2>5, RingFrame DEF ClearFlag, Flush, ring, blame, At
  <2> QED
    BY <1>5, <2>1, <2>2, <2>3, <2>4, <2>5 DEF IsrStep
<1>6. CASE UNCHANGED vars
  BY <1>6, RingFrame DEF vars, hw, ring, blame, host
<1> QED
  BY <1>1, <1>2, <1>3, <1>4, <1>5, <1>6 DEF Next

LEMMA RingInvariance == Spec => [](IInv /\ RingInv)
<1>1. Init => IInv /\ RingInv
  BY InitIInv, InitRing
<1>2. (IInv /\ RingInv) /\ [Next]_vars => (IInv /\ RingInv)'
  BY NextIInv, NextRing
<1> QED
  BY <1>1, <1>2, PTL DEF Spec

\* What the MAC is given is the packet a waiting host wrote, and where it wrote too
\* little the rest is of an earlier packet (spiclientTx, readFifoInto).
THEOREM PacketsTaken == Spec => []PacketsWhole
<1>1. IInv /\ RingInv => PacketsWhole
  <2> SUFFICES ASSUME RingInv, taken.origin # 0, ~ eager, NEW k \in 1 .. taken.size
               PROVE  IF k <= taken.own
                        THEN taken.words[k].msg = taken.origin /\ taken.words[k].pos = k + 1
                        ELSE taken.words[k].msg < taken.origin
    BY DEF PacketsWhole
  <2>1. WholeItem(taken, taken.size) /\ taken.size <= ItemSize /\ taken.size \in Nat
    BY DEF RingInv, RingSpace, Whole, Entries
  <2>2. k \in 1 .. ItemSize /\ k <= taken.size
    BY <2>1, Constants
  <2> QED
    BY <2>1, <2>2 DEF WholeItem
<1> QED
  BY <1>1, RingInvariance, PTL

\* A waiting host's packets leave the ring once each and in its order, except while
\* the timer has hit fifoInit between its two stores.
THEOREM PacketsInOrder == Spec => TakenOnce
<1>1. IInv /\ RingInv /\ [Next]_vars =>
        [taken' # taken /\ ~ disturbed' /\ ~ eager => taken'.origin > taken.origin]_vars
  <2> SUFFICES ASSUME IInv, RingInv, Next, taken' # taken, ~ disturbed', ~ eager
               PROVE  taken'.origin > taken.origin
    OBVIOUS
  <2>1. Take
    BY DEF Next, IsrStep, HostStart, HostWord, HostBreak, Drain, Boot, Isr, ReadBuf, ReadReg,
           AllocFull, Alloc, Fill, Commit, Trigger, WriteReg, Config, InitRead, InitWrite,
           InitMac, ClearFlag, Flush
  <2> QED
    BY <2>1, TakeRing
<1> QED
  BY <1>1, RingInvariance, PTL DEF Spec, TakenOnce

-----------------------------------------------------------------------------
(* The answers *)

Piece(to, k, n) == [to |-> to, pos |-> k, of |-> n]

\* An answer of n words of which j have left, and which the host has heard last.
Sending(to, j, n) ==
  /\ Len(txHw) = n - j + 1
  /\ \A k \in 1 .. n - j : txHw[k] = Piece(to, j + k, n)
  /\ txHw[n - j + 1] = Break(n)

EndsIn(q, to, j, n) ==
  /\ j <= Len(q)
  /\ \A k \in 1 .. j : q[Len(q) - j + k] = Piece(to, k, n)

\* What is in the FIFO is the rest of one answer; a waiting host has heard nothing
\* else since.
Underway ==
  txHw # <<>> =>
    \E to \in Nat, n \in Nat : \E j \in 0 .. n :
      /\ Sending(to, j, n) /\ EndsIn(heard, to, j, n)
      /\ ~ eager => to = number /\ Len(heard) = j /\ answer = <<>>

Received ==
  answer # <<>> =>
    \E to \in Nat, n \in Nat : \E q \in Seq(Answers) :
      /\ answer = Append(q, Break(n)) /\ EndsIn(q, to, n, n)
      /\ ~ eager => to = number /\ Len(q) = n

\* Between a waiting host's message and the answer there is silence ...
Silence ==
  /\ txHw = <<>> => heard = <<>>
  /\ pos > 0 \/ (pc = "idle" /\ flag) \/ pc \in {"readBuf", "readReg"} =>
       txHw = <<>> /\ answer = <<>>

\* ... and a register it asks for is on its way or received.
Asked == Len(message) > 1 /\ message[1] = CMD_READREG /\ message[2] \in Registers

Coming ==
  \E j \in 0 .. RegWords :
    Sending(number, j, RegWords) /\ EndsIn(heard, number, j, RegWords) /\ Len(heard) = j

Register ==
  /\ pc = "readReg" => From(rxHw, 2, Len(message))
  /\ pc # "idle" /\ message[1] = CMD_READREG => pc \in {"readReg", "clear", "flush"}
  /\ pos = 0 /\ Asked /\ (pc \in {"clear", "flush"} \/ (pc = "idle" /\ ~ flag)) =>
       Len(answer) = RegWords + 1 \/ Coming

AnswerInv ==
  /\ heard \in Seq(Answers) /\ answer \in Seq(Answers)
  /\ Underway /\ Received
  /\ ~ eager => Silence /\ Register

LEMMA InitAnswer == Init => AnswerInv
<1> SUFFICES ASSUME Init PROVE AnswerInv
  OBVIOUS
<1>1. /\ heard = <<>> /\ answer = <<>> /\ txHw = <<>> /\ pc = "idle" /\ message = <<>>
      /\ pos = 0 /\ flag = FALSE
  BY DEF Init
<1>2. ~ Asked
  BY <1>1 DEF Asked
<1> QED
  BY <1>1, <1>2 DEF AnswerInv, Underway, Received, Silence, Register

\* Steps of the handler, of main and of the timer that neither read the register's
\* number nor answer.
LEMMA AnswerFrame ==
  ASSUME IInv, AnswerInv,
         UNCHANGED <<txHw, heard, answer, eager, number, message, executed, pos>>,
         pc' = "readReg" => UNCHANGED <<pc, rxHw>>,
         pc = "readReg" => UNCHANGED pc,
         pc' = "readBuf" => UNCHANGED pc,
         pc' = "idle" => pc \in {"idle", "flush"} /\ UNCHANGED flag,
         pc = "idle" => UNCHANGED <<pc, flag>>,
         pc \in {"clear", "flush"} => pc' \in {"clear", "flush", "idle"}
  PROVE  AnswerInv'
<1>1. Underway' /\ Received'
  BY DEF AnswerInv, Underway, Received, Sending, EndsIn
<1>2. ASSUME ~ eager PROVE Silence' /\ Register'
  <2>1. Silence /\ Register /\ (pc = "flush" => ~ flag)
    BY <1>2 DEF AnswerInv, IInv, Understood, Handling
  <2>2. Silence'
    BY <2>1 DEF Silence
  <2>3. pc' = "readReg" => From(rxHw, 2, Len(message))'
    BY <2>1 DEF Register, From, Kept
  <2>4. pc' # "idle" /\ message[1] = CMD_READREG => pc' \in {"readReg", "clear", "flush"}
    BY <2>1 DEF Register
  <2>5. pc' \in {"clear", "flush"} \/ (pc' = "idle" /\ ~ flag') =>
          pc \in {"clear", "flush"} \/ (pc = "idle" /\ ~ flag) \/ message[1] # CMD_READREG
    BY <2>1 DEF Register
  <2>6. Asked' <=> Asked
    BY DEF Asked
  <2>7. pos = 0 /\ Asked /\ (pc \in {"clear", "flush"} \/ (pc = "idle" /\ ~ flag)) =>
          Len(answer) = RegWords + 1 \/ Coming
    BY <2>1 DEF Register
  <2>8. Asked => message[1] = CMD_READREG
    BY DEF Asked
  <2>9. pos' = 0 /\ Asked' /\ (pc' \in {"clear", "flush"} \/ (pc' = "idle" /\ ~ flag')) =>
          Len(answer') = RegWords + 1 \/ Coming'
    <3>1. Coming' <=> Coming
      BY DEF Coming, Sending, EndsIn
    <3> QED
      BY <2>5, <2>6, <2>7, <2>8, <3>1
  <2> QED
    BY <2>2, <2>3, <2>4, <2>9 DEF Register
<1> QED
  BY <1>1, <1>2 DEF AnswerInv

\* A host that speaks without waiting excuses everything but the form of answers.
LEMMA HostStartAnswer ==
  ASSUME IInv, AnswerInv, NEW msg \in Messages, HostStart(msg)
  PROVE  AnswerInv'
<1>1. /\ UNCHANGED <<txHw, heard, pc, flag>> /\ answer' = <<>> /\ pos' = 1
      /\ eager' = (eager \/ ~ Quiet)
  BY DEF HostStart
<1>2. ~ eager' => ~ eager /\ Quiet
  BY <1>1 DEF IInv, LineTypeOK
<1>3. heard' \in Seq(Answers) /\ answer' \in Seq(Answers) /\ Received'
  BY <1>1 DEF AnswerInv, Received
<1>4. Underway'
  <2> SUFFICES ASSUME txHw # <<>> PROVE Underway'
    BY <1>1 DEF Underway
  <2>1. PICK to \in Nat, n \in Nat : \E j \in 0 .. n :
          Sending(to, j, n) /\ EndsIn(heard, to, j, n)
    BY DEF AnswerInv, Underway
  <2>2. PICK j \in 0 .. n : Sending(to, j, n) /\ EndsIn(heard, to, j, n)
    BY <2>1
  <2>3. Sending(to, j, n)' /\ EndsIn(heard, to, j, n)'
    BY <1>1, <2>2 DEF Sending, EndsIn
  <2>4. eager'
    BY <1>2 DEF Quiet
  <2> QED
    BY <2>1, <2>3, <2>4 DEF Underway
<1>5. ASSUME ~ eager' PROVE Silence' /\ Register'
  <2>1. txHw = <<>> /\ pc = "idle" /\ heard = <<>>
    BY <1>2, <1>5 DEF Quiet, AnswerInv, Silence
  <2> QED
    BY <1>1, <2>1 DEF Silence, Register
<1> QED
  BY <1>3, <1>4, <1>5 DEF AnswerInv

\* The next words of a message, and its break symbol.
LEMMA SpeechAnswer ==
  ASSUME IInv, AnswerInv, HostWord \/ HostBreak
  PROVE  AnswerInv'
<1>1. /\ UNCHANGED <<txHw, heard, answer, pc, eager, number, message>> /\ pos > 0
      /\ (pos' > 0 /\ UNCHANGED flag) \/ flag'
  <2>1. CASE HostWord
    BY <2>1, RingTypes DEF HostWord, ears, blame, IInv, LineTypeOK
  <2>2. CASE HostBreak
    BY <2>2 DEF HostBreak, ears, blame
  <2> QED
    BY <2>1, <2>2
<1>2. Underway' /\ Received'
  BY <1>1 DEF AnswerInv, Underway, Received, Sending, EndsIn
<1>3. ASSUME ~ eager PROVE Silence' /\ Register'
  <2>1. pc = "idle" /\ ~ flag /\ txHw = <<>> /\ answer = <<>> /\ heard = <<>>
    BY <1>1, <1>3 DEF AnswerInv, Silence, IInv, Understood, Speaking
  <2>2. pos' > 0 => pos' # 0
    OBVIOUS
  <2> QED
    BY <1>1, <2>1, <2>2 DEF Silence, Register
<1> QED
  BY <1>1, <1>2, <1>3 DEF AnswerInv

\* A word of the answer moves from the FIFO to the host; the break symbol ends it.
LEMMA DrainFacts ==
  ASSUME IInv, AnswerInv, Drain, NEW to \in Nat, NEW n \in Nat, NEW j \in 0 .. n,
         Sending(to, j, n), EndsIn(heard, to, j, n)
  PROVE  /\ j < n => /\ Sending(to, j + 1, n)' /\ EndsIn(heard, to, j + 1, n)'
                     /\ Len(heard') = Len(heard) + 1
                     /\ heard' \in Seq(Answers) /\ UNCHANGED answer
         /\ j = n => txHw' = <<>> /\ heard' = <<>> /\ answer' = Append(heard, Break(n))
<1>1. /\ txHw \in Seq(Answers) /\ heard \in Seq(Answers) /\ txHw # <<>>
      /\ txHw' = Tail(txHw)
      /\ Head(txHw).pos = 0 => answer' = Append(heard, Head(txHw)) /\ heard' = <<>>
      /\ Head(txHw).pos # 0 => heard' = Append(heard, Head(txHw)) /\ UNCHANGED answer
  BY DEF Drain, IInv, LineTypeOK, AnswerInv
<1>2. /\ Len(txHw) \in Nat \ {0} /\ Head(txHw) = txHw[1] /\ Head(txHw) \in Answers
      /\ Tail(txHw) \in Seq(Answers) /\ Len(Tail(txHw)) = Len(txHw) - 1
      /\ \A k \in 1 .. Len(txHw) - 1 : Tail(txHw)[k] = txHw[k + 1]
  BY <1>1, TailFacts
<1>3. Len(txHw) = n - j + 1 /\ Len(heard) \in Nat /\ j <= Len(heard)
  BY <1>1 DEF Sending, EndsIn
<1>4. CASE j < n
  <2>1. Head(txHw) = Piece(to, j + 1, n) /\ Head(txHw).pos # 0
    <3>1. 1 \in 1 .. n - j
      BY <1>4
    <3>2. txHw[1] = Piece(to, j + 1, n)
      BY <3>1 DEF Sending
    <3>3. Piece(to, j + 1, n).pos # 0
      BY <1>4 DEF Piece
    <3> QED
      BY <1>2, <3>2, <3>3
  <2>2. /\ heard' = Append(heard, Head(txHw)) /\ UNCHANGED answer
        /\ heard' \in Seq(Answers) /\ Len(heard') = Len(heard) + 1
        /\ \A k \in 1 .. Len(heard) : heard'[k] = heard[k]
        /\ heard'[Len(heard) + 1] = Piece(to, j + 1, n)
    <3>1. heard' = Append(heard, Head(txHw)) /\ UNCHANGED answer
      BY <1>1, <2>1
    <3>2. /\ Append(heard, Head(txHw)) \in Seq(Answers)
          /\ Len(Append(heard, Head(txHw))) = Len(heard) + 1
          /\ \A k \in 1 .. Len(heard) : Append(heard, Head(txHw))[k] = heard[k]
          /\ Append(heard, Head(txHw))[Len(heard) + 1] = Head(txHw)
      BY <1>1, <1>2, AppendFacts
    <3> QED
      BY <2>1, <3>1, <3>2
  <2>3. Sending(to, j + 1, n)'
    <3>1. Len(txHw') = n - (j + 1) + 1
      BY <1>1, <1>2, <1>3
    <3>2. ASSUME NEW k \in 1 .. n - (j + 1) PROVE txHw'[k] = Piece(to, (j + 1) + k, n)
      <4>1. k \in 1 .. Len(txHw) - 1 /\ k + 1 \in 1 .. n - j /\ j + (k + 1) = (j + 1) + k
        BY <1>3, <1>4
      <4>2. txHw[k + 1] = Piece(to, j + (k + 1), n)
        BY <4>1 DEF Sending
      <4> QED
        BY <1>1, <1>2, <4>1, <4>2
    <3>3. txHw'[n - (j + 1) + 1] = Break(n)
      <4>1. n - j \in 1 .. Len(txHw) - 1 /\ n - (j + 1) + 1 = n - j
        BY <1>3, <1>4
      <4>2. txHw[n - j + 1] = Break(n)
        BY DEF Sending
      <4> QED
        BY <1>1, <1>2, <4>1, <4>2
    <3> QED
      BY <3>1, <3>2, <3>3 DEF Sending, Piece, Break
  <2>4. EndsIn(heard, to, j + 1, n)'
    <3>1. ASSUME NEW k \in 1 .. j + 1 PROVE heard'[Len(heard') - (j + 1) + k] = Piece(to, k, n)
      <4>1. Len(heard') - (j + 1) + k = Len(heard) - j + k
        BY <1>3, <2>2
      <4>2. CASE k = j + 1
        <5>1. Len(heard) - j + k = Len(heard) + 1
          BY <1>3, <4>2
        <5> QED
          BY <2>2, <4>1, <4>2, <5>1
      <4>3. CASE k # j + 1
        <5>1. k \in 1 .. j /\ Len(heard) - j + k \in 1 .. Len(heard)
          BY <1>3, <4>3
        <5>2. heard[Len(heard) - j + k] = Piece(to, k, n)
          BY <5>1 DEF EndsIn
        <5> QED
          BY <2>2, <4>1, <5>1, <5>2
      <4> QED
        BY <4>2, <4>3
    <3>2. j + 1 <= Len(heard')
      BY <1>3, <2>2
    <3> QED
      BY <3>1, <3>2 DEF EndsIn, Piece
  <2> QED
    BY <1>4, <2>2, <2>3, <2>4
<1>5. CASE j = n
  <2>1. n - j + 1 = 1 /\ Len(Tail(txHw)) = 0
    BY <1>2, <1>3, <1>5
  <2>2. Head(txHw) = Break(n) /\ Break(n).pos = 0
    BY <1>2, <2>1 DEF Sending, Break
  <2>3. txHw' = <<>>
    BY <1>1, <1>2, <2>1, EmptyFacts
  <2> QED
    BY <1>1, <1>5, <2>2, <2>3
<1> QED
  BY <1>4, <1>5

LEMMA DrainAnswer ==
  ASSUME IInv, AnswerInv, Drain
  PROVE  AnswerInv'
<1>1. txHw # <<>> /\ UNCHANGED <<rxHw, flag, pc, eager, number, message, pos>>
  BY DEF Drain, host, blame
<1>2. PICK to \in Nat, n \in Nat : \E j \in 0 .. n :
        /\ Sending(to, j, n) /\ EndsIn(heard, to, j, n)
        /\ ~ eager => to = number /\ Len(heard) = j /\ answer = <<>>
  BY <1>1 DEF AnswerInv, Underway
<1>3. PICK j \in 0 .. n :
        /\ Sending(to, j, n) /\ EndsIn(heard, to, j, n)
        /\ ~ eager => to = number /\ Len(heard) = j /\ answer = <<>>
  BY <1>2
<1>4. /\ j < n => /\ Sending(to, j + 1, n)' /\ EndsIn(heard, to, j + 1, n)'
                  /\ Len(heard') = Len(heard) + 1
                  /\ heard' \in Seq(Answers) /\ UNCHANGED answer
      /\ j = n => txHw' = <<>> /\ heard' = <<>> /\ answer' = Append(heard, Break(n))
  BY <1>2, <1>3, DrainFacts
<1>5. heard' \in Seq(Answers) /\ answer' \in Seq(Answers)
  <2>1. <<>> \in Seq(Answers) /\ Break(n) \in Answers
    BY <1>2 DEF Break, Answers
  <2>2. heard \in Seq(Answers) /\ Append(heard, Break(n)) \in Seq(Answers)
    BY <2>1 DEF AnswerInv
  <2>3. j < n \/ j = n
    BY <1>2
  <2> QED
    BY <1>4, <2>1, <2>2, <2>3 DEF AnswerInv
<1>6. Underway'
  <2>1. CASE j < n
    <3>1. j + 1 \in 0 .. n
      BY <1>2, <2>1
    <3>2. ~ eager' => to = number' /\ Len(heard') = j + 1 /\ answer' = <<>>
      BY <1>1, <1>3, <1>4, <2>1
    <3> QED
      BY <1>2, <1>4, <2>1, <3>1, <3>2 DEF Underway
  <2>2. CASE j = n
    BY <1>4, <2>2 DEF Underway
  <2> QED
    BY <1>2, <2>1, <2>2
<1>7. Received'
  <2>1. CASE j < n
    BY <1>1, <1>4, <2>1 DEF AnswerInv, Received, EndsIn
  <2>2. CASE j = n
    <3>1. /\ heard \in Seq(Answers) /\ EndsIn(heard, to, n, n)
          /\ answer' = Append(heard, Break(n))
      BY <1>3, <1>4, <2>2 DEF AnswerInv
    <3>2. ~ eager' => to = number' /\ Len(heard) = n
      BY <1>1, <1>3, <1>4, <2>2
    <3> QED
      BY <1>2, <3>1, <3>2 DEF Received, EndsIn, Break
  <2> QED
    BY <1>2, <2>1, <2>2
<1>8. ASSUME ~ eager PROVE Silence' /\ Register'
  <2>1. Silence /\ Register /\ answer = <<>>
    BY <1>3, <1>8 DEF AnswerInv
  <2>2. Silence'
    <3>1. ~ (pos > 0 \/ (pc = "idle" /\ flag) \/ pc \in {"readBuf", "readReg"})
      BY <1>1, <2>1 DEF Silence
    <3>2. txHw' = <<>> => heard' = <<>>
      <4>1. CASE j < n
        <5>1. Len(txHw') = n - (j + 1) + 1 /\ n - (j + 1) + 1 # 0
          BY <1>2, <1>4, <4>1 DEF Sending
        <5> QED
          BY <5>1
      <4>2. CASE j = n
        BY <1>4, <4>2
      <4> QED
        BY <1>2, <4>1, <4>2
    <3> QED
      BY <1>1, <3>1, <3>2 DEF Silence
  <2>3. ASSUME pos = 0, Asked, pc \in {"clear", "flush"} \/ (pc = "idle" /\ ~ flag)
        PROVE  Len(answer') = RegWords + 1 \/ Coming'
    <3>1. Len(answer) # RegWords + 1
      BY <2>1, Constants
    <3>2. PICK i \in 0 .. RegWords :
            Sending(number, i, RegWords) /\ EndsIn(heard, number, i, RegWords) /\ Len(heard) = i
      BY <2>1, <2>3, <3>1 DEF Register, Coming
    <3>3. number \in Nat /\ RegWords \in Nat \ {0}
      BY Constants DEF IInv, LineTypeOK
    <3>4. /\ i < RegWords => /\ Sending(number, i + 1, RegWords)'
                             /\ EndsIn(heard, number, i + 1, RegWords)'
                             /\ Len(heard') = i + 1
          /\ i = RegWords => answer' = Append(heard, Break(RegWords))
      <4>1. /\ i < RegWords => /\ Sending(number, i + 1, RegWords)'
                               /\ EndsIn(heard, number, i + 1, RegWords)'
                               /\ Len(heard') = Len(heard) + 1
            /\ i = RegWords => answer' = Append(heard, Break(RegWords))
        <5>1. PICK m \in Nat : m = number
          BY <3>3
        <5>2. Sending(m, i, RegWords) /\ EndsIn(heard, m, i, RegWords)
          BY <3>2, <5>1
        <5>3. /\ i < RegWords => /\ Sending(m, i + 1, RegWords)'
                                 /\ EndsIn(heard, m, i + 1, RegWords)'
                                 /\ Len(heard') = Len(heard) + 1
              /\ i = RegWords => answer' = Append(heard, Break(RegWords))
          BY <3>2, <3>3, <5>2, DrainFacts
        <5>4. m = number'
          BY <1>1, <5>1
        <5> QED
          BY <5>3, <5>4
      <4> QED
        BY <3>2, <4>1
    <3>5. CASE i < RegWords
      <4>1. i + 1 \in 0 .. RegWords
        BY <3>3, <3>5
      <4> QED
        BY <3>4, <3>5, <4>1 DEF Coming
    <3>6. CASE i = RegWords
      <4>1. heard \in Seq(Answers) /\ Break(RegWords) \in Answers
        BY <3>3 DEF AnswerInv, Break, Answers
      <4>2. Len(Append(heard, Break(RegWords))) = Len(heard) + 1
        BY <4>1, AppendFacts
      <4> QED
        BY <3>2, <3>4, <3>6, <4>2
    <3> QED
      BY <3>3, <3>5, <3>6
  <2>4. Asked' <=> Asked
    BY <1>1 DEF Asked
  <2>5. pc' = "readReg" => From(rxHw, 2, Len(message))'
    BY <1>1, <2>1 DEF Register, From, Kept
  <2> QED
    BY <1>1, <2>1, <2>2, <2>3, <2>4, <2>5 DEF Register
<1> QED
  BY <1>1, <1>5, <1>6, <1>7, <1>8 DEF AnswerInv

\* A waiting host has had the last answer when its next command starts.
LEMMA IsrAnswer ==
  ASSUME IInv, AnswerInv, Isr
  PROVE  AnswerInv'
<1>1. /\ UNCHANGED <<heard, answer, flag, eager, number, message, pos>>
      /\ pc = "idle" /\ flag /\ txHw' \in {<<>>, txHw} /\ pc' # "idle" /\ pc' # "flush"
      /\ pc' = Handler(executed'.val)
  BY DEF Isr, At, host, ears, Handler
<1>2. Received'
  BY <1>1 DEF AnswerInv, Received, EndsIn
<1>3. Underway'
  <2>1. CASE txHw' = <<>>
    BY <2>1 DEF Underway
  <2>2. CASE txHw' = txHw
    BY <1>1, <2>2 DEF AnswerInv, Underway, Sending, EndsIn
  <2> QED
    BY <1>1, <2>1, <2>2
<1>4. ASSUME ~ eager PROVE Silence' /\ Register'
  <2>1. txHw = <<>> /\ answer = <<>> /\ heard = <<>> /\ pos = 0 /\ message # <<>>
    BY <1>1, <1>4 DEF AnswerInv, Silence, IInv, Understood, Speaking, Handling, LineTypeOK
  <2>2. executed' = Word(number, 1, message[1]) /\ From(rxHw, 2, Len(message))'
    BY <1>4, IsrReads
  <2>3. executed'.val = message[1]
    BY <2>2 DEF Word
  <2>4. message[1] = CMD_READREG <=> pc' = "readReg"
    BY <1>1, <2>3 DEF Handler, CMD_READBUF, CMD_READREG, CMD_WRITEBUF, CMD_WRITEREG
  <2>5. pc' = "clear" => ~ Asked'
    BY <1>1, <2>4 DEF Asked
  <2>6. Silence'
    BY <1>1, <2>1 DEF Silence
  <2> QED
    BY <1>1, <2>2, <2>4, <2>5, <2>6 DEF Register
<1> QED
  BY <1>1, <1>2, <1>3, <1>4 DEF AnswerInv

\* An answer in an empty FIFO.
LEMMA ResponseSends ==
  ASSUME NEW size \in Nat, size < HwSize, txHw = <<>>, queueResponse(size),
         NEW to \in Nat, to = executed.msg, UNCHANGED heard, heard \in Seq(Answers)
  PROVE  txHw' # <<>> /\ Sending(to, 0, size)' /\ EndsIn(heard, to, 0, size)'
<1> DEFINE words == [k \in 1 .. size |-> Piece(to, k, size)]
<1>1. AnswerWords(size) = words
  BY DEF AnswerWords, Piece
<1>2. /\ words \in Seq(Answers) /\ Len(words) = size
      /\ \A k \in 1 .. size : words[k] = Piece(to, k, size)
  BY DEF Piece, Answers
<1> HIDE DEF words
<1>3. Break(size) \in Answers
  BY DEF Break, Answers
<1>4. txHw' = words \o <<Break(size)>>
  <2>1. Len(txHw) = 0 /\ txHw \o words = words
    BY <1>2
  <2> QED
    BY <1>1, <1>2, <2>1, Constants DEF queueResponse
<1>5. txHw' = Append(words, Break(size))
  BY <1>2, <1>3, <1>4
<1>6. /\ Len(txHw') = size + 1 /\ txHw'[size + 1] = Break(size)
      /\ \A k \in 1 .. size : txHw'[k] = words[k]
  BY <1>2, <1>3, <1>5, AppendFacts
<1>7. Sending(to, 0, size)'
  <2>1. \A k \in 1 .. size - 0 : k \in 1 .. size /\ 0 + k = k
    OBVIOUS
  <2>2. Len(txHw') = size - 0 + 1 /\ txHw'[size - 0 + 1] = Break(size)
    BY <1>6
  <2>3. ASSUME NEW k \in 1 .. size - 0 PROVE txHw'[k] = Piece(to, 0 + k, size)
    BY <1>2, <1>6, <2>1
  <2> QED
    BY <2>2, <2>3 DEF Sending, Piece, Break
<1>8. EndsIn(heard, to, 0, size)'
  <2>1. 0 <= Len(heard') /\ \A k \in 1 .. 0 : FALSE
    OBVIOUS
  <2> QED
    BY <2>1 DEF EndsIn
<1>9. txHw' # <<>>
  <2>1. Len(txHw') # 0
    BY <1>6
  <2> QED
    BY <2>1
<1> QED
  BY <1>7, <1>8, <1>9

\* After the answer the silence is over.
LEMMA SilenceAnswered ==
  ASSUME pc' = "clear", pos' = 0, txHw' = <<>> => heard' = <<>>
  PROVE  Silence'
  BY DEF Silence

\* READBUF: the answer, if there is one, is all that is under way.
LEMMA ReadBufAnswer ==
  ASSUME IInv, AnswerInv, ReadBuf
  PROVE  AnswerInv'
<1>1. /\ UNCHANGED <<rxHw, flag, heard, answer, eager, number, message, pos, executed>>
      /\ pc = "readBuf" /\ pc' = "clear" /\ txHw = <<>>
      /\ (initialized /\ queueResponse(payloadSize)) \/ UNCHANGED txHw
  BY DEF ReadBuf, At, host, ears, blame, IInv, AnswerFits
<1>2. initialized => payloadSize \in Nat /\ payloadSize < HwSize
  BY <1>1, Constants DEF ReadBuf, At, IInv, AnswerFits, InitSteps
<1>3. heard \in Seq(Answers) /\ answer \in Seq(Answers) /\ executed.msg \in Nat
  BY DEF AnswerInv, IInv, LineTypeOK, Known, Words
<1>4. ~ eager => /\ heard = <<>> /\ answer = <<>> /\ message[1] # CMD_READREG
                 /\ executed.msg = number
  BY <1>1 DEF AnswerInv, Silence, Register, IInv, Understood, Handling, Word
<1>5. Received' /\ (~ eager => pos = 0)
  <2>1. Received'
    BY <1>1 DEF AnswerInv, Received, EndsIn
  <2>2. pos \in Nat /\ (~ eager /\ pos > 0 => pc = "idle")
    BY DEF IInv, Understood, Speaking, LineTypeOK
  <2> QED
    BY <1>1, <2>1, <2>2
<1>6. Underway' /\ (~ eager => Silence')
  <2>1. CASE initialized /\ queueResponse(payloadSize)
    <3>1. PICK to \in Nat : to = executed.msg
      BY <1>3
    <3>2. PICK size \in Nat : size = payloadSize /\ size < HwSize
      BY <1>2, <2>1
    <3>3. txHw' # <<>> /\ Sending(to, 0, size)' /\ EndsIn(heard, to, 0, size)'
      BY <1>1, <1>3, <2>1, <3>1, <3>2, ResponseSends
    <3>4. 0 \in 0 .. size
      BY <3>2
    <3>5. ~ eager' => to = number' /\ Len(heard') = 0 /\ answer' = <<>>
      BY <1>1, <1>4, <3>1
    <3>6. Underway'
      BY <3>1, <3>2, <3>3, <3>4, <3>5 DEF Underway
    <3> QED
      BY <1>1, <1>4, <1>5, <3>3, <3>6, SilenceAnswered
  <2>2. CASE UNCHANGED txHw
    BY <1>1, <1>4, <1>5, <2>2, SilenceAnswered DEF Underway
  <2> QED
    BY <1>1, <2>1, <2>2
<1>7. ~ eager => Register'
  BY <1>1, <1>4 DEF Register, Asked
<1> QED
  BY <1>1, <1>3, <1>5, <1>6, <1>7 DEF AnswerInv

\* READREG: the number read is the one the host has sent.
LEMMA ReadRegAnswer ==
  ASSUME IInv, AnswerInv, ReadReg
  PROVE  AnswerInv'
<1>1. /\ UNCHANGED <<flag, heard, answer, eager, number, message, pos, executed>>
      /\ pc = "readReg" /\ pc' = "clear" /\ txHw = <<>>
  BY DEF ReadReg, At, host, ears, blame, IInv, AnswerFits
<1>2. PICK w \in GetData(rxHw) :
        IF w.val \in Registers THEN queueResponse(RegWords) ELSE UNCHANGED <<txHw, fault>>
  BY DEF ReadReg
<1>3. heard \in Seq(Answers) /\ answer \in Seq(Answers) /\ executed.msg \in Nat
  BY DEF AnswerInv, IInv, LineTypeOK, Known, Words
<1>4. ~ eager => /\ heard = <<>> /\ answer = <<>> /\ executed.msg = number
                 /\ From(rxHw, 2, Len(message))
  BY <1>1 DEF AnswerInv, Silence, Register, IInv, Understood, Handling, Word
<1>5. Received' /\ (~ eager => pos = 0)
  <2>1. Received'
    BY <1>1 DEF AnswerInv, Received, EndsIn
  <2>2. pos \in Nat /\ (~ eager /\ pos > 0 => pc = "idle")
    BY DEF IInv, Understood, Speaking, LineTypeOK
  <2> QED
    BY <1>1, <2>1, <2>2
<1>6. PICK to \in Nat : to = executed.msg
  BY <1>3
<1>7. w.val \in Registers =>
        txHw' # <<>> /\ Sending(to, 0, RegWords)' /\ EndsIn(heard, to, 0, RegWords)'
  BY <1>1, <1>2, <1>3, <1>6, ResponseSends, Constants
<1>8. Underway' /\ (~ eager => Silence')
  <2>1. CASE w.val \in Registers
    <3>1. 0 \in 0 .. RegWords /\ RegWords \in Nat \ {0}
      BY Constants
    <3>2. ~ eager' => to = number' /\ Len(heard') = 0 /\ answer' = <<>>
      BY <1>1, <1>4, <1>6
    <3>3. Underway'
      BY <1>6, <1>7, <2>1, <3>1, <3>2 DEF Underway
    <3> QED
      BY <1>1, <1>4, <1>5, <1>7, <2>1, <3>3, SilenceAnswered
  <2>2. CASE w.val \notin Registers
    BY <1>1, <1>2, <1>4, <1>5, <2>2, SilenceAnswered DEF Underway
  <2> QED
    BY <2>1, <2>2
<1>9. ASSUME ~ eager PROVE Register'
  <2>1. ASSUME Asked PROVE Coming'
    <3>1. /\ rxHw \in Seq(Words) /\ message \in Seq(Nat) /\ Len(message) \in Nat
          /\ Len(message) > 1 /\ number \in Nat
      BY <2>1 DEF Asked, IInv, LineTypeOK
    <3>2. 2 <= Kept(Len(message)) /\ 2 \in Nat \ {0}
      BY <3>1, Constants DEF Kept
    <3>3. w = Word(number, 2, message[2])
      BY <1>2, <1>4, <1>9, <3>1, <3>2, FromFacts
    <3>4. w.val \in Registers
      BY <2>1, <3>3 DEF Word, Asked
    <3>5. to = number /\ number' = number /\ Len(heard') = 0 /\ 0 \in 0 .. RegWords
      BY <1>1, <1>4, <1>6, <1>9, Constants
    <3>6. Sending(number, 0, RegWords)' /\ EndsIn(heard, number, 0, RegWords)'
      BY <1>7, <3>4, <3>5
    <3> QED
      BY <3>5, <3>6 DEF Coming
  <2>2. Asked' <=> Asked
    BY <1>1 DEF Asked
  <2> QED
    BY <1>1, <2>1, <2>2 DEF Register
<1> QED
  BY <1>1, <1>3, <1>5, <1>8, <1>9 DEF AnswerInv

LEMMA NextAnswer == IInv /\ AnswerInv /\ [Next]_vars => AnswerInv'
<1> SUFFICES ASSUME IInv, AnswerInv, [Next]_vars PROVE AnswerInv'
  OBVIOUS
<1>1. CASE \E msg \in Messages : HostStart(msg)
  BY <1>1, HostStartAnswer
<1>2. CASE HostWord \/ HostBreak
  BY <1>2, SpeechAnswer
<1>3. CASE Drain
  BY <1>3, DrainAnswer
<1>4. CASE Boot \/ Take
  BY <1>4, AnswerFrame DEF Boot, Take, hw, host, blame, ears
<1>5. CASE IsrStep
  <2>1. CASE Isr \/ ReadBuf \/ ReadReg
    BY <2>1, IsrAnswer, ReadBufAnswer, ReadRegAnswer
  <2>2. CASE AllocFull \/ Alloc \/ Fill \/ Commit \/ Trigger
    <3>1. /\ UNCHANGED <<txHw, heard, answer, eager, number, message, executed, pos>>
          /\ pc \in {"alloc", "fill", "trigger"} /\ pc' \in {"clear", "fill", "trigger"}
      BY <2>2 DEF AllocFull, Alloc, Fill, Commit, Trigger, At, hw, host, blame, ears
    <3> QED
      BY <3>1, AnswerFrame
  <2>3. CASE WriteReg \/ Config \/ InitRead \/ InitWrite \/ InitMac
    <3>1. /\ UNCHANGED <<txHw, heard, answer, eager, number, message, executed, pos>>
          /\ pc \in {"writeReg", "config"} \cup InitSteps
          /\ pc' \in {"clear", "config"} \cup InitSteps
      BY <2>3 DEF WriteReg, Config, InitRead, InitWrite, InitMac, InitSteps, At, hw, host, blame,
                  ears
    <3> QED
      BY <3>1, AnswerFrame DEF InitSteps
  <2>4. CASE ClearFlag \/ Flush
    BY <2>4, AnswerFrame DEF ClearFlag, Flush, At, host, blame, ears
  <2> QED
    BY <1>5, <2>1, <2>2, <2>3, <2>4 DEF IsrStep
<1>6. CASE UNCHANGED vars
  BY <1>6, AnswerFrame DEF vars, hw, host, blame, ears
<1> QED
  BY <1>1, <1>2, <1>3, <1>4, <1>5, <1>6 DEF Next

\* Up to each break symbol a host hears one whole answer at the end, and a waiting
\* host exactly the answer to its last message; a register is always answered
\* (queueResponse, ISR).
THEOREM AnswersHeard == Spec => []AnswersWhole
<1>1. Init => IInv /\ AnswerInv
  BY InitIInv, InitAnswer
<1>2. (IInv /\ AnswerInv) /\ [Next]_vars => (IInv /\ AnswerInv)'
  BY NextIInv, NextAnswer
<1>3. IInv /\ AnswerInv => AnswersWhole
  <2> SUFFICES ASSUME IInv, AnswerInv PROVE AnswersWhole
    OBVIOUS
  <2>1. ASSUME answer # <<>>
        PROVE  LET n    == answer[Len(answer)].of
                   skip == Len(answer) - 1 - n
               IN  /\ skip >= 0
                   /\ \A k \in 1 .. n : /\ answer[skip + k].pos = k /\ answer[skip + k].of = n
                                        /\ answer[skip + k].to = answer[skip + 1].to
                   /\ ~ eager => skip = 0 /\ \A k \in 1 .. n : answer[k].to = number
    <3>1. PICK to \in Nat, n \in Nat : \E q \in Seq(Answers) :
            /\ answer = Append(q, Break(n)) /\ EndsIn(q, to, n, n)
            /\ ~ eager => to = number /\ Len(q) = n
      BY <2>1 DEF AnswerInv, Received
    <3>2. PICK q \in Seq(Answers) :
            /\ answer = Append(q, Break(n)) /\ EndsIn(q, to, n, n)
            /\ ~ eager => to = number /\ Len(q) = n
      BY <3>1
    <3>3. /\ Len(q) \in Nat /\ n <= Len(q) /\ Len(answer) = Len(q) + 1
          /\ answer[Len(answer)].of = n /\ \A k \in 1 .. Len(q) : answer[k] = q[k]
      <4>1. Break(n) \in Answers /\ Break(n).of = n
        BY <3>1 DEF Break, Answers
      <4>2. Len(answer) = Len(q) + 1 /\ answer[Len(q) + 1] = Break(n)
            /\ Len(q) \in Nat /\ \A k \in 1 .. Len(q) : answer[k] = q[k]
        BY <3>2, <4>1, AppendFacts
      <4> QED
        BY <3>2, <4>1, <4>2 DEF EndsIn
    <3>4. ASSUME NEW k \in 1 .. n
          PROVE  /\ answer[Len(q) - n + k].pos = k /\ answer[Len(q) - n + k].of = n
                 /\ answer[Len(q) - n + k].to = to
      <4>1. Len(q) - n + k \in 1 .. Len(q)
        BY <3>1, <3>3
      <4>2. answer[Len(q) - n + k] = Piece(to, k, n)
        BY <3>2, <3>3, <4>1 DEF EndsIn
      <4>3. Piece(to, k, n).pos = k /\ Piece(to, k, n).of = n /\ Piece(to, k, n).to = to
        BY DEF Piece
      <4> QED
        BY <4>2, <4>3
    <3>5. Len(answer) - 1 - n = Len(q) - n /\ Len(q) - n >= 0
      BY <3>1, <3>3
    <3>6. ASSUME NEW k \in 1 .. n PROVE answer[Len(q) - n + 1].to = to
      <4>1. 1 \in 1 .. n
        BY <3>1
      <4> QED
        BY <3>4, <4>1
    <3>7. ~ eager => Len(q) - n = 0 /\ \A k \in 1 .. n : answer[k].to = number
      <4> SUFFICES ASSUME ~ eager
                   PROVE  Len(q) - n = 0 /\ \A k \in 1 .. n : answer[k].to = number
        OBVIOUS
      <4>1. Len(q) - n = 0 /\ to = number
        BY <3>1, <3>2
      <4>2. \A k \in 1 .. n : Len(q) - n + k = k
        BY <4>1
      <4> QED
        BY <3>4, <4>1, <4>2
    <3> QED
      BY <3>3, <3>4, <3>5, <3>6, <3>7
  <2>2. ASSUME Quiet, executed.msg = number, ~ eager, Len(message) > 1,
               message[1] = CMD_READREG, message[2] \in Registers
        PROVE  Len(answer) = RegWords + 1
    <3>1. pos = 0
      <4>1. number \in Nat /\ number # number - 1 /\ pos \in Nat
        BY DEF IInv, LineTypeOK
      <4>2. pos > 0 => executed.msg = number - 1
        BY <2>2 DEF IInv, Understood, Speaking
      <4> QED
        BY <2>2, <4>1, <4>2
    <3>2. Len(answer) = RegWords + 1 \/ Coming
      BY <2>2, <3>1 DEF AnswerInv, Register, Asked, Quiet
    <3>3. ~ Coming
      <4> SUFFICES ASSUME NEW j \in 0 .. RegWords, Sending(number, j, RegWords) PROVE FALSE
        BY DEF Coming
      <4>1. Len(txHw) = 0
        BY <2>2 DEF Quiet
      <4> QED
        BY <4>1, Constants DEF Sending
    <3> QED
      BY <3>2, <3>3
  <2> QED
    BY <2>1, <2>2 DEF AnswersWhole
<1> QED
  BY <1>1, <1>2, <1>3, PTL DEF Spec

=============================================================================

----------------------------- MODULE FifoProofs -----------------------------
(***************************************************************************)
(* Proofs about fifo.c for a ring of any size: the inductive invariant of  *)
(* Fifo, the absence of shared and torn slots, and the refinement of       *)
(* BoundedQueue.                                                           *)
(***************************************************************************)
EXTENDS Fifo, TLAPS

-----------------------------------------------------------------------------
(* Ring arithmetic *)

\* Advance stays inside the ring and maps no two slots to the same one.
LEMMA AdvanceIsPermutation ==
  ASSUME NEW i \in SlotIndex, NEW j \in SlotIndex
  PROVE  /\ Advance(i) \in SlotIndex
         /\ Advance(i) = Advance(j) => i = j
  BY SlotsAssumption DEF SlotIndex, Advance

\* fifoItems is the number of steps from read to write; 0 exactly when empty
\* and Capacity exactly when full.
LEMMA ItemsRange ==
  ASSUME NEW r \in SlotIndex, NEW w \in SlotIndex
  PROVE  /\ Items(r, w) \in 0 .. Capacity
         /\ IsEmpty(r, w) <=> Items(r, w) = 0
         /\ IsFull(r, w) <=> Items(r, w) = Capacity
  BY SlotsAssumption DEF SlotIndex, Advance, Items, Capacity, IsEmpty, IsFull

\* A push into a ring that is not full adds one item, a pop from a ring that
\* is not empty takes one.
LEMMA ItemsStep ==
  ASSUME NEW r \in SlotIndex, NEW w \in SlotIndex
  PROVE  /\ ~ IsFull(r, w) => Items(r, Advance(w)) = Items(r, w) + 1
         /\ ~ IsEmpty(r, w) => Items(Advance(r), w) = Items(r, w) - 1
  BY SlotsAssumption DEF SlotIndex, Advance, Items, IsEmpty, IsFull

\* The occupied slots are SlotAt(r, 0 .. Items - 1); write's slot follows them.
LEMMA SlotAtFacts ==
  ASSUME NEW r \in SlotIndex, NEW w \in SlotIndex
  PROVE  /\ SlotAt(r, 0) = r
         /\ SlotAt(r, Items(r, w)) = w
         /\ \A k \in 0 .. Items(r, w) - 1 :
              SlotAt(r, k) \in SlotIndex /\ SlotAt(r, k) # w
         /\ ~ IsEmpty(r, w) =>
              \A k \in 0 .. Items(r, w) - 2 : SlotAt(Advance(r), k) = SlotAt(r, k + 1)
  BY SlotsAssumption DEF SlotIndex, Advance, Items, SlotAt, IsEmpty

-----------------------------------------------------------------------------
(* The inductive invariant *)

\* What a slot holds can be relied on: a whole item, or it is known that an
\* interrupted fifoInit made it part of the contents.
Known(s) == data[s] \in Values \/ s \in phantom

\* A slot handed out by fifoPushAlloc is locked and stays free to commit.
Allocated ==
  /\ pushPc # "idle" => pushLocked /\ ~ IsFull(read, write)
  /\ pushPc = "filled" => data[write] \in Values /\ write \notin phantom

\* The popper's slot is the oldest one before the store and the one just
\* behind read after it.  The pusher never has that slot: as long as it is
\* the one behind read it can only be write's when the ring counts as full.
InHand ==
  /\ popPc = "loaded" => popSlot = read /\ ~ IsEmpty(read, write)
  /\ popPc = "using" => /\ read = Advance(popSlot)
                        /\ Known(popSlot)
                        /\ pushPc # "idle" => write # popSlot

\* Every item between read and write is complete.
Complete == \A k \in 0 .. Items(read, write) - 1 : Known(SlotAt(read, k))

\* The slots in front of write have been filled since the pusher last began
\* at the start of the ring: what can be popped between the two stores of
\* fifoInit is stale but whole.
Written == \A s \in SlotIndex : s < write => data[s] \in Values /\ s \notin phantom

\* Between the two stores the side that runs fifoInit does nothing else.  The
\* popper's turn can take read as far as write, but the pusher's cannot touch
\* read.
Window ==
  /\ initBy = "pusher" => pushPc = "idle" /\ read <= write
  /\ initBy = "popper" => popPc = "idle" /\ read = 0

IInv == TypeOK /\ Allocated /\ InHand /\ Complete /\ Written /\ Window /\ CountsAreSafe

\* "No answer yet" is a legal value of the remembered counts.
LEMMA UnknownIsCount == Unknown \in Unknown .. Capacity
  BY SlotsAssumption DEF Unknown, Capacity

LEMMA InitIInv == Init => IInv
<1> SUFFICES ASSUME Init PROVE IInv
  OBVIOUS
<1>1. TypeOK
  <2>1. 0 \in SlotIndex
    BY SlotsAssumption DEF SlotIndex
  <2> QED
    BY <2>1, UnknownIsCount DEF Init, TypeOK
<1>2. Allocated /\ InHand /\ CountsAreSafe /\ Window
  BY DEF Init, Allocated, InHand, CountsAreSafe, Window
<1>3. Complete
  BY DEF Init, Complete, Items
<1>4. Written
  BY SlotsAssumption DEF Init, Written, SlotIndex
<1> QED
  BY <1>1, <1>2, <1>3, <1>4 DEF IInv

LEMMA NextIInv == IInv /\ [Next]_vars => IInv'
<1> SUFFICES ASSUME IInv, [Next]_vars PROVE IInv'
  OBVIOUS
<1> USE DEF IInv
<1>t. TypeOK
  OBVIOUS
<1>r. read \in SlotIndex /\ write \in SlotIndex /\ popSlot \in SlotIndex
  BY DEF TypeOK
<1>i. Items(read, write) \in 0 .. Capacity
  BY <1>r, ItemsRange
<1>1. CASE PushAlloc
  <2> USE <1>1 DEF PushAlloc, pushVars, popVars, initVars
  <2>1. TypeOK'
    BY <1>t DEF TypeOK
  <2>2. Allocated'
    BY DEF Allocated
  <2>k. \A s \in SlotIndex : s # write /\ Known(s) => Known(s)'
    BY <1>t, <1>r DEF TypeOK, Known
  <2>3. InHand'
    <3>1. popPc = "using" => write # popSlot
      BY DEF InHand, IsFull
    <3> QED
      BY <3>1, <2>k, <1>r DEF InHand
  <2>4. Complete'
    BY <1>r, <2>k, SlotAtFacts DEF Complete
  <2>5. CountsAreSafe'
    BY DEF CountsAreSafe
  <2>6. Written'
    BY <1>t, <1>r DEF Written, TypeOK, SlotIndex
  <2>7. Window'
    BY DEF Window
  <2> QED
    BY <2>1, <2>2, <2>3, <2>4, <2>5, <2>6, <2>7
<1>2. CASE PushFull
  BY <1>2, SlotsAssumption DEF PushFull, popVars, initVars, TypeOK, Allocated, InHand, Complete,
     Known, Written, Window, CountsAreSafe, Unknown, Capacity
<1>3. ASSUME NEW v \in Values, Fill(v) PROVE IInv'
  <2> USE <1>3 DEF Fill, pushVars, popVars
  <2>1. TypeOK'
    BY <1>t DEF TypeOK
  <2>2. Allocated'
    BY <1>t, <1>r DEF Allocated, TypeOK
  <2>k. \A s \in SlotIndex : Known(s) => Known(s)'
    BY <1>t, <1>r DEF TypeOK, Known
  <2>3. InHand'
    BY <2>k, <1>r DEF InHand
  <2>4. Complete'
    BY <1>r, <2>k, SlotAtFacts DEF Complete
  <2>5. CountsAreSafe'
    BY DEF CountsAreSafe
  <2>6. Written'
    BY <1>t, <1>r DEF Written, TypeOK, SlotIndex
  <2>7. Window'
    BY DEF Window
  <2> QED
    BY <2>1, <2>2, <2>3, <2>4, <2>5, <2>6, <2>7
<1>4. CASE PushCommit
  <2> USE <1>4 DEF PushCommit, pushVars, popVars, initVars
  <2>n. ~ IsFull(read, write) /\ Items(read, Advance(write)) = Items(read, write) + 1
    BY <1>r, ItemsStep DEF Allocated
  <2>1. TypeOK'
    <3>1. Advance(write) \in SlotIndex
      BY <1>r, AdvanceIsPermutation
    <3> QED
      BY <3>1, <1>t, UnknownIsCount DEF TypeOK
  <2>2. Allocated'
    BY DEF Allocated
  <2>k. \A s : Known(s)' <=> Known(s)
    BY DEF Known
  <2>3. InHand'
    <3>1. Items(read, Advance(write)) # 0
      BY <2>n, <1>i
    <3>2. ~ IsEmpty(read, Advance(write))
      BY <3>1, <1>r, ItemsRange, AdvanceIsPermutation
    <3> QED
      BY <3>2, <2>k DEF InHand
  <2>4. Complete'
    <3> SUFFICES ASSUME NEW k \in 0 .. Items(read, write) PROVE Known(SlotAt(read, k))
      BY <2>n, <1>i, <2>k DEF Complete
    <3>1. CASE k = Items(read, write)
      BY <3>1, <1>r, SlotAtFacts DEF Allocated, Known
    <3>2. CASE k \in 0 .. Items(read, write) - 1
      BY <3>2 DEF Complete
    <3> QED
      BY <3>1, <3>2, <1>i
  <2>5. CountsAreSafe'
    BY <2>n, <1>t, <1>i DEF CountsAreSafe, TypeOK, Capacity, Unknown
  <2>6. Written'
    BY <1>r DEF Written, Allocated, SlotIndex, Advance
  <2>7. Window'
    BY DEF Window
  <2> QED
    BY <2>1, <2>2, <2>3, <2>4, <2>5, <2>6, <2>7
<1>5. CASE CountByPusher
  BY <1>5, <1>i DEF CountByPusher, popVars, initVars, TypeOK, Allocated, InHand, Complete,
     Known, Written, Window, CountsAreSafe, Unknown, Capacity
<1>6. CASE PopLoad
  <2> USE <1>6 DEF PopLoad, pushVars, initVars
  <2>1. TypeOK'
    BY <1>t DEF TypeOK
  <2> QED
    BY <2>1 DEF Allocated, InHand, Complete, Known, Written, Window, CountsAreSafe
<1>7. CASE PopEmpty
  BY <1>7, SlotsAssumption DEF PopEmpty, pushVars, initVars, TypeOK, Allocated, InHand, Complete,
     Known, Written, Window, CountsAreSafe, Unknown, Capacity
<1>8. CASE PopStore
  <2> USE <1>8 DEF PopStore, pushVars, initVars
  <2>n. /\ popSlot = read
        /\ ~ IsEmpty(read, write)
        /\ Advance(read) \in SlotIndex
        /\ Items(Advance(read), write) = Items(read, write) - 1
    BY <1>r, ItemsStep, AdvanceIsPermutation DEF InHand
  <2>z. Items(read, write) # 0
    BY <2>n, <1>r, ItemsRange
  <2>1. TypeOK'
    BY <1>t, <2>n, UnknownIsCount DEF TypeOK
  <2>2. Allocated'
    BY <2>n, <1>r, AdvanceIsPermutation DEF Allocated, IsFull, IsEmpty
  <2>k. \A s : Known(s)' <=> Known(s)
    BY DEF Known
  <2>3. InHand'
    <3>1. Known(read)
      BY <2>z, <1>i, <1>r, SlotAtFacts DEF Complete
    <3> QED
      BY <3>1, <2>n, <2>k DEF InHand, IsEmpty
  <2>4. Complete'
    <3> SUFFICES ASSUME NEW k \in 0 .. Items(read, write) - 2
                 PROVE  Known(SlotAt(Advance(read), k))
      BY <2>n, <2>k, <1>i DEF Complete
    <3>1. SlotAt(Advance(read), k) = SlotAt(read, k + 1)
      BY <2>n, <1>r, SlotAtFacts
    <3> QED
      BY <3>1, <1>i DEF Complete
  <2>5. CountsAreSafe'
    BY <2>n, <1>t, <1>i DEF CountsAreSafe, TypeOK, Capacity, Unknown
  <2>6. Written'
    BY DEF Written
  <2>7. Window'
    BY <2>n, <1>r DEF Window, IsEmpty, Advance, SlotIndex
  <2> QED
    BY <2>1, <2>2, <2>3, <2>4, <2>5, <2>6, <2>7
<1>9. CASE Done
  BY <1>9 DEF Done, pushVars, initVars, TypeOK, Allocated, InHand, Complete, Known, Written,
     Window, CountsAreSafe
<1>10. CASE CountByPopper
  BY <1>10, <1>i DEF CountByPopper, pushVars, initVars, TypeOK, Allocated, InHand, Complete,
     Known, Written, Window, CountsAreSafe, Unknown, Capacity
<1>11. ASSUME NEW side \in {"pusher", "popper"}, InitRead(side) PROVE IInv'
  <2> USE <1>11 DEF InitRead
  <2>0. 0 \in SlotIndex
    BY SlotsAssumption DEF SlotIndex
  <2>1. TypeOK'
    BY <1>t, <2>0, UnknownIsCount DEF TypeOK
  <2>2. Allocated' /\ InHand' /\ CountsAreSafe'
    BY DEF Allocated, InHand, CountsAreSafe
  <2>3. Complete'
    <3> SUFFICES ASSUME NEW k \in 0 .. write - 1 PROVE Known(SlotAt(0, k))
      BY <1>r DEF Complete, Items, Known, SlotIndex
    <3>1. SlotAt(0, k) = k /\ k \in SlotIndex /\ k < write
      BY <1>r, SlotsAssumption DEF SlotAt, SlotIndex
    <3> QED
      BY <3>1 DEF Written, Known
  <2>4. Written'
    BY DEF Written
  <2>5. Window'
    BY <1>r DEF Window, SlotIndex
  <2> QED
    BY <2>1, <2>2, <2>3, <2>4, <2>5
<1>12. CASE InitWrite
  <2> USE <1>12 DEF InitWrite
  <2>0. 0 \in SlotIndex
    BY SlotsAssumption DEF SlotIndex
  <2>1. TypeOK'
    BY <1>t, <2>0, UnknownIsCount DEF TypeOK
  <2>2. Allocated' /\ InHand' /\ CountsAreSafe'
    BY DEF Allocated, InHand, CountsAreSafe
  <2>3. Complete'
    <3> SUFFICES ASSUME NEW k \in 0 .. Items(read, 0) - 1 PROVE SlotAt(read, k) \in phantom'
      BY DEF Complete, Known
    <3>1. read # 0 /\ k \in 0 .. Slots - read - 1
      BY <1>r DEF Items, SlotIndex
    <3> QED
      BY <3>1, <1>r, SlotsAssumption DEF SlotAt, SlotIndex
  <2>4. Written'
    BY DEF Written, SlotIndex
  <2>5. Window'
    BY DEF Window
  <2> QED
    BY <2>1, <2>2, <2>3, <2>4, <2>5
<1>13. CASE UNCHANGED vars
  BY <1>13 DEF vars, pushVars, popVars, initVars, TypeOK, Allocated, InHand, Complete, Known,
     Written, Window, CountsAreSafe
<1> QED
  BY <1>1, <1>2, <1>3, <1>4, <1>5, <1>6, <1>7, <1>8, <1>9, <1>10, <1>11, <1>12, <1>13 DEF Next

\* Type correctness of the ring for every number of slots and every order in
\* which pusher and popper interrupt each other.
THEOREM TypeCorrect == Spec => []TypeOK
<1> QED
  BY InitIInv, NextIInv, PTL DEF Spec, IInv

\* The pusher never writes the slot the popper still reads, although fifoPop
\* has already given it back.
THEOREM SlotExclusion == Spec => []NoSharedSlot
<1>1. IInv => NoSharedSlot
  BY ItemsRange DEF IInv, TypeOK, Allocated, InHand, NoSharedSlot, IsEmpty
<1> QED
  BY <1>1, InitIInv, NextIInv, PTL DEF Spec

\* The popper only ever sees complete items, before, during and after a
\* fifoInit, except in the slots that an interrupted one counted as occupied.
THEOREM WholeItems == Spec => []NoTornItem
<1>1. IInv => NoTornItem
  <2> SUFFICES ASSUME IInv, popPc # "idle" PROVE Known(popSlot)
    BY ValuesAssumption DEF NoTornItem, Known
  <2>1. CASE popPc = "using"
    BY <2>1 DEF IInv, InHand
  <2>2. CASE popPc = "loaded"
    <3>1. Items(read, write) \in Nat \ {0}
      BY <2>2, ItemsRange, SlotsAssumption DEF IInv, InHand, TypeOK, Capacity
    <3> QED
      BY <2>2, <3>1, SlotAtFacts DEF IInv, InHand, Complete, TypeOK
  <2> QED
    BY <2>1, <2>2 DEF IInv, TypeOK
<1> QED
  BY <1>1, InitIInv, NextIInv, PTL DEF Spec

\* The pending counters stay on the safe side until the reader's own next
\* transfer.
THEOREM SafeCounts == Spec => []CountsAreSafe
<1> QED
  BY InitIInv, NextIInv, PTL DEF Spec, IInv

-----------------------------------------------------------------------------
(* Refinement *)

\* The contents are a sequence as long as the ring says.
LEMMA ContentsType ==
  TypeOK => Contents \in Seq(Values \cup {Torn}) /\ Len(Contents) = Items(read, write)
<1> SUFFICES ASSUME TypeOK
             PROVE  Contents \in Seq(Values \cup {Torn}) /\ Len(Contents) = Items(read, write)
  OBVIOUS
<1>r. read \in SlotIndex /\ write \in SlotIndex /\ Items(read, write) \in 0 .. Capacity
  BY ItemsRange DEF TypeOK
<1>n. Items(read, write) \in Nat
  BY <1>r, SlotsAssumption DEF Capacity
<1>1. \A k \in 1 .. Items(read, write) : SlotAt(read, k - 1) \in SlotIndex
  BY <1>r, <1>n, SlotAtFacts
<1>2. \A k \in 1 .. Items(read, write) : data[SlotAt(read, k - 1)] \in Values \cup {Torn}
  BY <1>1 DEF TypeOK
<1> QED
  BY <1>2, <1>n DEF Contents

\* Committing a filled slot appends its item; taking one removes the head.
LEMMA ContentsSteps ==
  ASSUME IInv
  PROVE  /\ Len(Contents) = Items(read, write)
         /\ Contents \in Seq(Values \cup {Torn})
         /\ PushCommit => Contents' = Append(Contents, data[write])
         /\ PopStore => Contents # <<>> /\ Contents' = Tail(Contents)
                        /\ data[popSlot] = Head(Contents)
<1> USE DEF IInv
<1>r. read \in SlotIndex /\ write \in SlotIndex /\ Items(read, write) \in 0 .. Capacity
  BY ItemsRange DEF TypeOK
<1>n. Items(read, write) \in Nat
  BY <1>r, SlotsAssumption DEF Capacity
<1>1. Contents \in Seq(Values \cup {Torn}) /\ Len(Contents) = Items(read, write)
  BY ContentsType
<1>2. ASSUME PushCommit PROVE Contents' = Append(Contents, data[write])
  <2>1. Items(read', write') = Items(read, write) + 1
    BY <1>2, <1>r, ItemsStep DEF PushCommit, Allocated
  <2>2. Contents' = [k \in 1 .. Items(read, write) + 1 |-> data[SlotAt(read, k - 1)]]
    BY <1>2, <2>1 DEF PushCommit, Contents
  <2>3. SlotAt(read, Items(read, write)) = write
    BY <1>r, SlotAtFacts
  <2>4. \A k \in 1 .. Items(read, write) : Contents[k] = data[SlotAt(read, k - 1)]
    BY DEF Contents
  <2>5. Append(Contents, data[write]) =
          [k \in 1 .. Items(read, write) + 1 |->
             IF k = Items(read, write) + 1 THEN data[write] ELSE Contents[k]]
    BY <1>1, <1>n
  <2>6. \A k \in 1 .. Items(read, write) + 1 :
          data[SlotAt(read, k - 1)] =
            (IF k = Items(read, write) + 1 THEN data[write] ELSE Contents[k])
    BY <2>3, <2>4, <1>n
  <2> QED
    BY <2>2, <2>5, <2>6
<1>3. ASSUME PopStore
      PROVE  Contents # <<>> /\ Contents' = Tail(Contents) /\ data[popSlot] = Head(Contents)
  <2>1. popSlot = read /\ ~ IsEmpty(read, write)
    BY <1>3 DEF PopStore, InHand
  <2>2. Items(read', write') = Items(read, write) - 1 /\ Items(read, write) # 0
    BY <1>3, <2>1, <1>r, ItemsStep, ItemsRange DEF PopStore
  <2>3. Contents' = [k \in 1 .. Items(read, write) - 1 |-> data[SlotAt(Advance(read), k - 1)]]
    BY <1>3, <2>1, <2>2 DEF PopStore, Contents
  <2>4. \A k \in 1 .. Items(read, write) - 1 : SlotAt(Advance(read), k - 1) = SlotAt(read, k)
    <3> TAKE k \in 1 .. Items(read, write) - 1
    <3>1. k - 1 \in 0 .. Items(read, write) - 2 /\ (k - 1) + 1 = k
      BY <1>n
    <3> QED
      BY <3>1, <2>1, <1>r, SlotAtFacts
  <2>5. Contents' = [k \in 1 .. Items(read, write) - 1 |-> data[SlotAt(read, k)]]
    BY <2>3, <2>4
  <2>6. SlotAt(read, 0) = read
    BY <1>r, SlotAtFacts
  <2>7. Contents # <<>>
    BY <2>2, <1>1
  <2>8. Head(Contents) = data[popSlot]
    BY <2>1, <2>2, <2>6, <1>n DEF Contents
  <2>9. Contents' = Tail(Contents)
    BY <2>5, <2>2, <1>n, <1>1 DEF Contents
  <2> QED
    BY <2>7, <2>8, <2>9
<1> QED
  BY <1>1, <1>2, <1>3

LEMMA ContentsUnchanged ==
  ASSUME UNCHANGED <<read, write, data>>
  PROVE  UNCHANGED Contents
  BY DEF Contents

LEMMA QueueStep == IInv /\ IInv' /\ [Next]_vars => [Queue!Next]_Queue!qvars
<1> SUFFICES ASSUME IInv, IInv', [Next]_vars PROVE [Queue!Next]_Queue!qvars
  OBVIOUS
<1> USE DEF Queue!qvars
<1>t. TypeOK
  BY DEF IInv
<1>r. /\ read \in SlotIndex /\ write \in SlotIndex /\ popSlot \in SlotIndex
      /\ Items(read, write) \in 0 .. Capacity
      /\ IsEmpty(read, write) <=> Items(read, write) = 0
      /\ IsFull(read, write) <=> Items(read, write) = Capacity
  BY <1>t, ItemsRange DEF TypeOK
<1>h. data[popSlot] # Nothing
  BY <1>t, <1>r, ValuesAssumption DEF TypeOK
<1>c. Contents \in Seq(Values \cup {Torn}) /\ Len(Contents) = Items(read, write)
  BY ContentsSteps
<1>e. Contents = <<>> <=> IsEmpty(read, write)
  BY <1>c, <1>r
<1>w. Window /\ initBy \in {"none", "pusher", "popper"}
  BY <1>t DEF IInv, TypeOK
<1>1. CASE PushAlloc
  <2>1. UNCHANGED Contents
    <3>1. \A k \in 0 .. Items(read, write) - 1 :
            SlotAt(read, k) \in SlotIndex /\ SlotAt(read, k) # write
      BY <1>r, SlotAtFacts
    <3>2. \A k \in 1 .. Items(read, write) : k - 1 \in 0 .. Items(read, write) - 1
      BY <1>r, SlotsAssumption DEF Capacity
    <3>3. \A k \in 1 .. Items(read, write) : data'[SlotAt(read, k - 1)] = data[SlotAt(read, k - 1)]
      BY <1>1, <3>1, <3>2 DEF PushAlloc, IInv, TypeOK
    <3> QED
      BY <1>1, <3>3 DEF PushAlloc, Contents
  <2>2. popPc = "using" => data'[popSlot] = data[popSlot]
    BY <1>1 DEF PushAlloc, IInv, TypeOK, InHand, IsFull, popVars
  <2> QED
    BY <1>1, <2>1, <2>2 DEF PushAlloc, popVars, initVars
<1>2. CASE PushFull
  <2>1. UNCHANGED Contents
    BY <1>2, ContentsUnchanged DEF PushFull
  <2>2. CASE initBy = "none"
    <3>1. Queue!Refuse
      BY <1>2, <2>1, <2>2, <1>c, <1>r DEF PushFull, popVars, initVars, Queue!Refuse
    <3> QED
      BY <3>1 DEF Queue!Next
  <2>3. CASE initBy = "popper"
    <3>1. Queue!PutLost
      BY <1>2, <2>3 DEF PushFull, popVars, initVars, Queue!PutLost
    <3> QED
      BY <3>1 DEF Queue!Next
  <2> QED
    BY <1>2, <2>2, <2>3, <1>w DEF PushFull
<1>3. ASSUME NEW v \in Values, Fill(v) PROVE [Queue!Next]_Queue!qvars
  <2>1. UNCHANGED Contents
    <3>1. \A k \in 0 .. Items(read, write) - 1 :
            SlotAt(read, k) \in SlotIndex /\ SlotAt(read, k) # write
      BY <1>r, SlotAtFacts
    <3>2. \A k \in 1 .. Items(read, write) : k - 1 \in 0 .. Items(read, write) - 1
      BY <1>r, SlotsAssumption DEF Capacity
    <3>3. \A k \in 1 .. Items(read, write) : data'[SlotAt(read, k - 1)] = data[SlotAt(read, k - 1)]
      BY <1>3, <3>1, <3>2 DEF Fill, IInv, TypeOK
    <3> QED
      BY <1>3, <3>3 DEF Fill, Contents
  <2>2. popPc = "using" => data'[popSlot] = data[popSlot]
    BY <1>3 DEF Fill, IInv, TypeOK, InHand, popVars
  <2> QED
    BY <1>3, <2>1, <2>2 DEF Fill, popVars
<1>4. CASE PushCommit
  <2>1. Contents' = Append(Contents, data[write]) /\ data[write] \in Values
    BY <1>4, ContentsSteps DEF PushCommit, IInv, Allocated
  <2>2. Len(Contents) < Capacity
    BY <1>4, <1>c, <1>r, SlotsAssumption DEF PushCommit, IInv, Allocated, Capacity
  <2>3. CASE initBy = "none"
    <3>1. Queue!Put(data[write])
      BY <1>4, <2>1, <2>2, <2>3 DEF PushCommit, popVars, initVars, Queue!Put
    <3> QED
      BY <2>1, <3>1 DEF Queue!Next
  <2>4. CASE initBy = "popper"
    <3>1. Queue!PutLost
      BY <1>4, <2>4 DEF PushCommit, popVars, initVars, Queue!PutLost
    <3> QED
      BY <3>1 DEF Queue!Next
  <2> QED
    BY <1>4, <2>3, <2>4, <1>w DEF PushCommit, Window
<1>5. CASE CountByPusher
  BY <1>5, ContentsUnchanged DEF CountByPusher, popVars, initVars
<1>6. CASE PopLoad
  BY <1>6, ContentsUnchanged DEF PopLoad, pushVars, initVars
<1>7. CASE PopEmpty
  <2>1. UNCHANGED Contents
    BY <1>7, ContentsUnchanged DEF PopEmpty
  <2>2. Queue!GetNothing
    BY <1>7, <2>1, <1>e DEF PopEmpty, pushVars, initVars, Queue!GetNothing
  <2> QED
    BY <2>2 DEF Queue!Next
<1>8. CASE PopStore
  <2>1. CASE initBy = "none"
    <3>1. Queue!Get
      BY <1>8, <2>1, ContentsSteps DEF PopStore, pushVars, initVars, Queue!Get
    <3> QED
      BY <3>1 DEF Queue!Next
  <2>2. CASE initBy = "pusher"
    <3>1. popSlot = read /\ read < write
      BY <1>8, <2>2, <1>r, <1>w DEF PopStore, IInv, InHand, Window, IsEmpty, SlotIndex
    <3>2. data[popSlot] \in Values
      BY <3>1, <1>r DEF IInv, Written
    <3>3. Advance(popSlot) # 0
      BY <3>1, <1>r, SlotsAssumption DEF Advance, SlotIndex
    <3>4. Queue!GetStale
      BY <1>8, <2>2, <3>2, <3>3 DEF PopStore, pushVars, initVars, Queue!GetStale
    <3> QED
      BY <3>4 DEF Queue!Next
  <2> QED
    BY <1>8, <2>1, <2>2, <1>w DEF PopStore, Window
<1>9. CASE Done
  <2>1. UNCHANGED Contents
    BY <1>9, ContentsUnchanged DEF Done
  <2>2. Queue!Release
    BY <1>9, <2>1, <1>h DEF Done, pushVars, initVars, Queue!Release
  <2> QED
    BY <2>2 DEF Queue!Next
<1>10. CASE CountByPopper
  BY <1>10, ContentsUnchanged DEF CountByPopper, pushVars, initVars
<1>11. ASSUME NEW side \in {"pusher", "popper"}, InitRead(side) PROVE [Queue!Next]_Queue!qvars
  <2>1. Queue!BeginClear(side)
    BY <1>11 DEF InitRead, Queue!BeginClear
  <2> QED
    BY <2>1 DEF Queue!Next
<1>12. CASE InitWrite
  <2>1. CASE initBy = "pusher" /\ read # 0
    <3>0. (TypeOK => Contents \in Seq(Values \cup {Torn}) /\ Len(Contents) = Items(read, write))'
      BY ContentsType, PTL
    <3>1. Contents' \in Seq(Values \cup {Torn}) /\ Len(Contents') = Items(read', write')
      BY <3>0 DEF IInv
    <3>2. Items(read', write') \in 1 .. Capacity
      BY <1>12, <2>1, <1>r, SlotsAssumption DEF InitWrite, Items, Capacity, SlotIndex
    <3>3. Queue!EndDisturbed
      BY <1>12, <2>1, <3>1, <3>2 DEF InitWrite, Queue!EndDisturbed
    <3> QED
      BY <3>3 DEF Queue!Next
  <2>2. CASE read = 0
    <3>1. Contents' = <<>>
      BY <1>12, <2>2 DEF InitWrite, Contents, Items
    <3>2. Queue!EndClear
      BY <1>12, <2>2, <3>1, <1>w DEF InitWrite, Queue!EndClear
    <3> QED
      BY <3>2 DEF Queue!Next
  <2> QED
    BY <1>12, <2>1, <2>2, <1>w DEF InitWrite, Window
<1>13. CASE UNCHANGED vars
  BY <1>13, ContentsUnchanged DEF vars, pushVars, popVars, initVars
<1> QED
  BY <1>1, <1>2, <1>3, <1>4, <1>5, <1>6, <1>7, <1>8, <1>9, <1>10, <1>11, <1>12, <1>13 DEF Next

\* The ring buffer implements the bounded queue for every number of slots,
\* with all that can come between the two stores of fifoInit.
THEOREM Refinement == Spec => ImplementsQueue
<1>1. Init => Queue!Init
  <2>1. Init => Contents = <<>>
    BY DEF Init, Contents, Items
  <2> QED
    BY <2>1 DEF Init, Queue!Init
<1> QED
  BY <1>1, InitIInv, NextIInv, QueueStep, PTL DEF Spec, ImplementsQueue, Queue!Spec

=============================================================================

-------------------------------- MODULE Fifo --------------------------------
(***************************************************************************)
(* fifo.c used by one pusher and one popper that interrupt each other: for *)
(* the receive ring the radio interrupt pushes and the host interface      *)
(* pops, for the transmit ring the host interface pushes and the timer     *)
(* interrupt (or the host interface itself) pops.  No lock protects the    *)
(* ring, so every load or store of a pointer the other side changes is a   *)
(* step of its own:                                                        *)
(*   pusher   PushAlloc -> Fill -> PushCommit                              *)
(*   popper   PopLoad   -> PopStore -> Done                                *)
(*   either   InitRead  -> InitWrite                                       *)
(* fifoPop frees the slot before its caller has read the item; the slot is *)
(* still in use until Done.  fifoInit is run by the host interface, which  *)
(* is one of the two sides; the other side interrupts it and is therefore  *)
(* in no operation of its own at either store, but may get whole           *)
(* operations in between.                                                  *)
(***************************************************************************)
EXTENDS FifoOps, Sequences

CONSTANTS Values,  \* what a slot can hold
          Nothing, \* no item
          Torn     \* contents of a slot that is being written

ASSUME ValuesAssumption ==
  Nothing \notin Values /\ Torn \notin Values /\ Nothing # Torn

VARIABLES
  read, write,  \* the ring's pointers, as slot numbers
  pushLocked,   \* an allocated slot has not been committed yet
  data,         \* contents of the slots
  pushPc,       \* "idle", "alloc" (slot handed out) or "filled"
  popPc,        \* "idle", "loaded" (item seen, read not stored) or "using"
  popSlot,      \* the slot fifoPop returned (its local ret)
  full, empty,  \* did the last fifoPushAlloc / fifoPop return NULL
  pushCount,    \* last fifoItems answer of the pushing side, -1 once it pushed
  popCount,     \* last fifoItems answer of the popping side, -1 once it popped
  initBy,       \* the side between the two stores of fifoInit, or "none"
  phantom       \* history: slots that the second store of fifoInit made part
                \* of the ring's contents although nobody put anything there

pushVars == <<pushPc, full, pushCount>>
popVars  == <<popPc, popSlot, empty, popCount>>
initVars == <<initBy, phantom>>
vars == <<read, write, pushLocked, data, pushVars, popVars, initVars>>

Unknown == -1

Init ==
  /\ read = 0 /\ write = 0
  /\ pushLocked = FALSE
  /\ data \in [SlotIndex -> {Torn}]
  /\ pushPc = "idle" /\ full = FALSE /\ pushCount = Unknown
  /\ popPc = "idle" /\ popSlot = 0 /\ empty = FALSE /\ popCount = Unknown
  /\ initBy = "none" /\ phantom = {}

-----------------------------------------------------------------------------
(* The pushing side *)

\* Seeded fault: write is advanced before the slot is filled.
PushAllocEarlyCommit ==
  /\ pushPc = "idle" /\ initBy # "pusher"
  /\ ~ IsFull(read, write)
  /\ pushLocked' = TRUE
  /\ data' = [data EXCEPT ![write] = Torn]
  /\ write' = Advance(write)
  /\ pushPc' = "alloc"
  /\ UNCHANGED <<read, full, pushCount, popVars, initVars>>

\* fifoPushAlloc: one load of read decides.
PushAlloc ==
  /\ pushPc = "idle" /\ initBy # "pusher"
  /\ ~ IsFull(read, write)
  /\ pushLocked' = TRUE
  /\ data' = [data EXCEPT ![write] = Torn]
  /\ pushPc' = "alloc"
  /\ UNCHANGED <<read, write, full, pushCount, popVars, initVars>>

\* fifoPushAlloc returning NULL.
PushFull ==
  /\ pushPc = "idle" /\ initBy # "pusher"
  /\ IsFull(read, write)
  /\ full' = TRUE
  /\ pushCount' = Unknown
  /\ UNCHANGED <<read, write, pushLocked, data, pushPc, popVars, initVars>>

\* The caller's memcpy (spiclientRx) or readFifoInto (WRITEBUF).
Fill(v) ==
  /\ pushPc = "alloc"
  /\ data' = [data EXCEPT ![write] = v]
  /\ phantom' = phantom \ {write}
  /\ pushPc' = "filled"
  /\ UNCHANGED <<read, write, pushLocked, full, pushCount, popVars, initBy>>

\* fifoPushCommit.  Its assertion that the slot is locked holds whenever the
\* step is enabled (conjunct Allocated of the inductive invariant).
PushCommit ==
  /\ pushPc = "filled"
  /\ pushLocked' = FALSE
  /\ write' = Advance(write)
  /\ full' = FALSE
  /\ pushCount' = Unknown
  /\ pushPc' = "idle"
  /\ UNCHANGED <<read, data, popVars, initVars>>

\* fifoItems asked by the side that pushes (REG_TXPENDING): write is its own,
\* so the only load that races is that of read.
CountByPusher ==
  /\ pushPc = "idle" /\ initBy # "pusher"
  /\ pushCount' = Items(read, write)
  /\ UNCHANGED <<read, write, pushLocked, data, pushPc, full, popVars, initVars>>

-----------------------------------------------------------------------------
(* The popping side *)

\* fifoPop up to the emptiness test: loads read (its own) and write.
PopLoad ==
  /\ popPc = "idle" /\ initBy # "popper"
  /\ ~ IsEmpty(read, write)
  /\ popSlot' = read
  /\ popPc' = "loaded"
  /\ UNCHANGED <<read, write, pushLocked, data, empty, popCount, pushVars, initVars>>

\* fifoPop returning NULL.
PopEmpty ==
  /\ popPc = "idle" /\ initBy # "popper"
  /\ IsEmpty(read, write)
  /\ empty' = TRUE
  /\ popCount' = Unknown
  /\ UNCHANGED <<read, write, pushLocked, data, popPc, popSlot, pushVars, initVars>>

\* Seeded fault: the popper skips to the newest item.
PopStoreWrite ==
  /\ popPc = "loaded"
  /\ read' = write
  /\ empty' = FALSE
  /\ popCount' = Unknown
  /\ popPc' = "using"
  /\ UNCHANGED <<write, pushLocked, data, popSlot, pushVars, initVars>>

\* fifoPop's store of the advanced pointer; the caller now reads the slot.
PopStore ==
  /\ popPc = "loaded"
  /\ read' = Advance(popSlot)
  /\ empty' = FALSE
  /\ popCount' = Unknown
  /\ popPc' = "using"
  /\ UNCHANGED <<write, pushLocked, data, popSlot, pushVars, initVars>>

\* The caller has copied the item (queueResponse, packet encoder).
Done ==
  /\ popPc = "using"
  /\ popPc' = "idle"
  /\ UNCHANGED <<read, write, pushLocked, data, popSlot, empty, popCount, pushVars, initVars>>

\* fifoItems asked by the side that pops (REG_RXPENDING).
CountByPopper ==
  /\ popPc = "idle" /\ initBy # "popper"
  /\ popCount' = Items(read, write)
  /\ UNCHANGED <<read, write, pushLocked, data, popPc, popSlot, empty, pushVars, initVars>>

-----------------------------------------------------------------------------
(* fifoInit, called by initFifos for both rings when the host writes CONFIG *)

\* The first store.  Nobody is inside an operation; pushLocked and the slots'
\* contents stay as they are.
InitRead(side) ==
  /\ initBy = "none"
  /\ pushPc = "idle" /\ popPc = "idle"
  /\ read' = 0
  /\ initBy' = side
  /\ pushCount' = Unknown /\ popCount' = Unknown
  /\ UNCHANGED <<write, pushLocked, data, pushPc, full, popPc, popSlot, empty, phantom>>

\* The second store.  If the popper took something in between, read is ahead
\* of write now and the ring seems to hold all slots from read to its end.
InitWrite ==
  /\ initBy # "none"
  /\ pushPc = "idle" /\ popPc = "idle"
  /\ write' = 0
  /\ initBy' = "none"
  /\ phantom' = {s \in SlotIndex : read # 0 /\ s >= read}
  /\ pushCount' = Unknown /\ popCount' = Unknown
  /\ UNCHANGED <<read, pushLocked, data, pushPc, full, popPc, popSlot, empty>>

Next ==
  \/ PushAlloc \/ PushFull \/ (\E v \in Values : Fill(v)) \/ PushCommit
  \/ CountByPusher
  \/ PopLoad \/ PopEmpty \/ PopStore \/ Done
  \/ CountByPopper
  \/ (\E side \in {"pusher", "popper"} : InitRead(side)) \/ InitWrite

Spec == Init /\ [][Next]_vars

-----------------------------------------------------------------------------
(* Properties *)

TypeOK ==
  /\ read \in SlotIndex /\ write \in SlotIndex /\ popSlot \in SlotIndex
  /\ pushLocked \in BOOLEAN
  /\ data \in [SlotIndex -> Values \cup {Torn}]
  /\ pushPc \in {"idle", "alloc", "filled"}
  /\ popPc \in {"idle", "loaded", "using"}
  /\ full \in BOOLEAN /\ empty \in BOOLEAN
  /\ pushCount \in Unknown .. Capacity
  /\ popCount \in Unknown .. Capacity
  /\ initBy \in {"none", "pusher", "popper"}
  /\ phantom \subseteq SlotIndex

\* The slot a push is writing is never the slot the popper is still reading,
\* although fifoPop gave that slot back before its caller touched it.
NoSharedSlot ==
  ~ (pushPc # "idle" /\ popPc # "idle" /\ write = popSlot)

\* What the popper is reading is a whole item, never a slot in the making or
\* one that was never written.  The exception is a fifoInit that was
\* interrupted by a pop: what it leaves between read and write are slots of
\* any content.  The pops between the two stores, and everything that is
\* pushed afterwards, are not excepted.
NoTornItem == popPc # "idle" => data[popSlot] # Torn \/ popSlot \in phantom

\* A host that read a pending counter can rely on it until its next transfer:
\* TXPENDING never under-reports the occupied entries and RXPENDING never
\* over-reports them, whatever the other side did in between.
CountsAreSafe ==
  /\ pushCount # Unknown => Items(read, write) <= pushCount
  /\ popCount # Unknown => popCount <= Items(read, write)

\* The items committed and not yet popped, oldest first.
Contents == [k \in 1 .. Items(read, write) |-> data[SlotAt(read, k - 1)]]

Queue == INSTANCE BoundedQueue WITH
  queue    <- IF initBy = "none" THEN Contents ELSE <<>>,
  held     <- IF popPc = "using" THEN data[popSlot] ELSE Nothing,
  clearing <- IF initBy = "pusher" /\ read # 0 THEN "disturbed" ELSE initBy

\* The ring implements the bounded queue: order, capacity, no loss, no
\* duplicate, refusals only when full, NULL only when empty, and the item in
\* the popper's hand does not change under it.  What fifoInit does to a queue
\* whose other side goes on using it is part of the abstract queue.
ImplementsQueue == Queue!Spec

=============================================================================

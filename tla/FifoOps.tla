------------------------------ MODULE FifoOps ------------------------------
(***************************************************************************)
(* The pointer arithmetic of fifo.c on slot numbers: a ring of Slots       *)
(* entries of entrySize bytes each.  Slot i stands for the address         *)
(* dataStart + i * entrySize, so "+= entrySize" is "+ 1" and dataEnd is    *)
(* Slots.  fifoInit's assertion (len is a multiple of entrySize) is what   *)
(* makes this exact.                                                       *)
(***************************************************************************)
EXTENDS Integers

CONSTANT Slots

\* spiclient.h:42 gives both rings three entries; nothing in fifo.c needs
\* more than one.
ASSUME SlotsAssumption == Slots \in Nat \ {0}

SlotIndex == 0 .. Slots - 1

\* One entry always stays empty, so that read = write can only mean "empty".
Capacity == Slots - 1

\* Seeded fault: the wrap comes one slot too late.
AdvanceNoWrap(i) == IF i + 1 > Slots THEN 0 ELSE i + 1

Advance(i) == IF i + 1 >= Slots THEN 0 ELSE i + 1

\* Seeded fault: the wrapped case is computed like the other.
ItemsNoWrap(r, w) == IF r > w THEN r - w ELSE w - r

Items(r, w) == IF r > w THEN Slots - (r - w) ELSE w - r

\* Seeded fault: no slot is kept empty.
IsFullLate(r, w) == FALSE

IsFull(r, w) == Advance(w) = r

IsEmpty(r, w) == r = w

\* The slot k places after slot i (k < Slots).
SlotAt(i, k) == IF i + k >= Slots THEN i + k - Slots ELSE i + k

=============================================================================

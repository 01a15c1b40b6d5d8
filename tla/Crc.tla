-------------------------------- MODULE Crc --------------------------------
(***************************************************************************)
(* crc32.c: the checksum and the table that finds a single wrong bit.      *)
(*                                                                         *)
(* Words, bytes and buffers are the sets of the numbers of their one bits; *)
(* bit j of byte i of a buffer has number 8 * i + j, which is also how the *)
(* table counts.  Exclusive or is the symmetric difference.                *)
(***************************************************************************)
EXTENDS Integers, FiniteSets

CONSTANT MaxLen \* longest buffer a checksum is taken of, in bytes

Xor(a, b) == (a \ b) \cup (b \ a)

Shift(word, by) == {bit + by : bit \in word}

Byte(buf, i) == {j \in 0 .. 7 : 8 * i + j \in buf}

\* TB_POLY, 0x04C11DB7
Poly == {0, 1, 2, 4, 5, 7, 8, 10, 11, 12, 16, 22, 23, 26}

\* crcTable[1 << j].  The table is the one of the polynomial, not reversed.
TableColumn ==
  [j \in 0 .. 7 |->
     LET column[k \in 0 .. j] ==
           IF k = 0 THEN Poly
           ELSE LET next == Shift(column[k - 1], 1)
                IN  IF 32 \in next THEN Xor(next \ {32}, Poly) ELSE next
     IN  column[j]]

\* crcTable[byte]: the table is linear.
crcTable ==
  [byte \in SUBSET (0 .. 7) |->
     {bit \in 0 .. 31 :
        Cardinality({j \in byte : bit \in TableColumn[j]}) % 2 = 1}]

\* One round of the loop in crc32.
CrcRound(crc, byte) ==
  Xor(Shift(crc \ (0 .. 7), -8), crcTable[Xor(crc \cap 0 .. 7, byte)])

crc32Calc(buf, len) ==
  LET crc[i \in 0 .. len] == IF i = 0 THEN {} ELSE CrcRound(crc[i - 1], Byte(buf, i - 1))
  IN  crc[len]

\* crc32Init, for every length a message can have: the checksum of each
\* message with a single bit set.
CorrectionTable ==
  [len \in 0 .. MaxLen |-> [k \in 0 .. 8 * len - 1 |-> crc32Calc({k}, len)]]

NoBit == -1

\* crc32IncorrectBit with the table for messages of len bytes.
crc32IncorrectBit(crc, len) ==
  LET found == {k \in 0 .. 8 * len - 1 : CorrectionTable[len][k] = crc}
  IN  IF found = {} THEN NoBit ELSE CHOOSE k \in found : \A l \in found : k <= l

=============================================================================

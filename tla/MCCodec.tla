------------------------------ MODULE MCCodec ------------------------------
(* Model checking instances of Codec. *)
EXTENDS Codec

\* One payload of each size, with ones in every byte.
OnePayload(size) == {{k \in Bits(size) : k % 3 # 1}}

\* Nothing, one bit or two bits, at the ends of payload and CRC.
Ends(size) == {{}, {0}, {8 * size - 1}, {8 * size + 31}, {0, 8 * size + 31}}

\* The same; for the size whose lengths fit every single bit as well.
UpToTwoBits(size) == Ends(size) \cup IF size = 12 THEN {{k} : k \in Bits(16)} ELSE {}

\* A symbol is rejected at once, in the middle of the payload or of the CRC.
Prefixes(size) == {0, size \div 2, size + 2}

\* What NeverWrongPayload needs of the sizes.
ASSUME EverySizeIsTelltale == \A size \in PayloadSizes : Telltale(size)

\* It cannot be had of all sizes.  Three bytes of the checksum of this payload
\* of 28 bytes stay behind a message with 24 bytes of payload and hide two wrong
\* bits there.
ASSUME NotEverySizeIs ==
  LET payload == {2, 5, 7, 13, 16, 19, 23, 24}
      left == Shift(crc32Calc(payload, 28), 8 * 28) \cap Beyond(24)
  IN  crc32Calc({1, 175} \cup left, CheckedLen(24)) = {}
=============================================================================

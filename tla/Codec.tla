------------------------------- MODULE Codec -------------------------------
(***************************************************************************)
(* packet.c: a payload is followed by its CRC, put on air, disturbed,      *)
(* received, and repaired if one bit is wrong.  Sender and receiver are    *)
(* configured with the same payload size, which may change between         *)
(* packets; the receiver's buffer keeps what it held before.               *)
(*                                                                         *)
(* The line code (a submodule) maps a byte to a symbol and back or         *)
(* rejects the symbol, so disturbances are bits that come out wrong of the *)
(* line decoder, or a failure of it.  The preamble is left out; only its   *)
(* length and that of the trailing zeros counts.                           *)
(***************************************************************************)
EXTENDS Crc

CONSTANTS
  PayloadSizes, \* payload sizes a CONFIG command may carry, in bytes
  Payloads(_),  \* payloads of a size, as sets of bits
  Disturbed(_), \* sets of bits that may come out wrong, by payload size
  Decodable(_)  \* bytes that may be decoded before a symbol is rejected

FMAC_MAX_PACKET_LEN == 64
PREAMBLE == 3
TRAILING_ZEROS_BYTES == 1

VARIABLES
  payloadLen, \* configured size, 0 before the first CONFIG
  tblLen,     \* entries of the correction table in use
  sent,       \* the payload on its way
  wrong,      \* the bits of it that were disturbed
  air,        \* the message, payload and CRC, as the line decoder yields it
  rxPacket,   \* the receiver's buffer
  status,     \* "idle", "onAir", "arrived" or the result of the last decode
  fault       \* the assertion that stopped the program, or "none"

vars == <<payloadLen, tblLen, sent, wrong, air, rxPacket, status, fault>>

Init ==
  /\ payloadLen = 0 /\ tblLen = 0
  /\ sent = {} /\ wrong = {} /\ air = {}
  /\ rxPacket = {}
  /\ status = "idle" /\ fault = "none"

InFlight == status \in {"onAir", "arrived"}

Fail(assertion) ==
  /\ fault' = assertion
  /\ UNCHANGED <<payloadLen, tblLen, sent, wrong, air, rxPacket, status>>

MessageLen(size) == size + 4

\* packet8b10bTxLen and packet8b10bRxLen: bytes on air, bits received.
txlen(size) == PREAMBLE + (MessageLen(size) * 10) \div 8 + TRAILING_ZEROS_BYTES
rxlen(size) == MessageLen(size) * 10

\* Bytes of the received message the decoder takes the CRC of.
CheckedLen(size) == (rxlen(size) \div 8) - 4

Bits(len) == 0 .. 8 * len - 1

ASSUME PayloadAssumption ==
  /\ PayloadSizes \subseteq Nat /\ MaxLen \in Nat
  /\ \A size \in PayloadSizes :
       /\ MessageLen(size) <= MaxLen
       /\ \A payload \in Payloads(size) : payload \subseteq Bits(size)

ASSUME ChannelAssumption ==
  \A size \in PayloadSizes :
    /\ \A bits \in Disturbed(size) :
         /\ bits \subseteq Bits(MessageLen(size))
         /\ IsFiniteSet(bits) /\ Cardinality(bits) <= 2
    /\ Decodable(size) \subseteq 0 .. MessageLen(size)

\* What the polynomial has to do at these lengths.  If every bit of the message
\* is checked, no bit has the checksum zero and no two have the same.  The table
\* holds these checksums if the lengths fit, and no two of them make a third;
\* if they do not fit, no entry is the checksum of its bit.
ASSUME DistanceAssumption ==
  \A size \in PayloadSizes :
    LET len == MessageLen(size)
        single == {<<k, crc32Calc({k}, CheckedLen(size))>> : k \in Bits(len)}
        checksums == {p[2] : p \in single}
    IN  /\ CheckedLen(size) >= len =>
             \A p, q \in single : p[2] # {} /\ (p # q => p[2] # q[2])
        /\ CheckedLen(size) = len =>
             \A p, q \in single : p # q => Xor(p[2], q[2]) \notin checksums
        /\ CheckedLen(size) # len =>
             \A p \in single : CorrectionTable[len][p[1]] # p[2]

\* Seeded fault: the correction table is built without the CRC.
ConfigureShortTable(size) ==
  /\ fault = "none" /\ ~ InFlight
  /\ payloadLen' = size
  /\ tblLen' = 8 * size
  /\ status' = "idle" /\ sent' = {} /\ wrong' = {} /\ air' = {}
  /\ UNCHANGED <<rxPacket, fault>>

\* fmacInit on both stations, as far as the codec is concerned.
Configure(size) ==
  /\ fault = "none" /\ ~ InFlight
  /\ IF txlen(size) >= FMAC_MAX_PACKET_LEN THEN Fail("framelet too long")
     ELSE IF 8 * MessageLen(size) > 256 THEN Fail("correction table too small")
     ELSE /\ payloadLen' = size
          /\ tblLen' = 8 * MessageLen(size)
          /\ status' = "idle" /\ sent' = {} /\ wrong' = {} /\ air' = {}
          /\ UNCHANGED <<rxPacket, fault>>

\* Seeded fault: the most significant byte of the CRC comes first.
EncodeSwapped(payload) ==
  /\ fault = "none" /\ ~ InFlight /\ tblLen > 0
  /\ sent' = payload
  /\ air' = payload \cup {8 * (payloadLen + 3 - bit \div 8) + (bit % 8) :
                           bit \in crc32Calc(payload, payloadLen)}
  /\ wrong' = {}
  /\ status' = "onAir"
  /\ UNCHANGED <<payloadLen, tblLen, rxPacket, fault>>

\* packet8b10bEncode
Encode(payload) ==
  /\ fault = "none" /\ ~ InFlight /\ tblLen > 0
  /\ IF payloadLen = 0 THEN Fail("nothing to encode")
     ELSE IF MessageLen(payloadLen) > FMAC_MAX_PACKET_LEN THEN Fail("message too long")
     ELSE IF (MessageLen(payloadLen) * 10) % 8 # 0 THEN Fail("no whole number of bytes")
     ELSE /\ sent' = payload
          /\ air' = payload \cup Shift(crc32Calc(payload, payloadLen), 8 * payloadLen)
          /\ wrong' = {}
          /\ status' = "onAir"
          /\ UNCHANGED <<payloadLen, tblLen, rxPacket, fault>>

\* The channel.
Disturb(bits) ==
  /\ fault = "none" /\ status = "onAir"
  /\ air' = Xor(air, bits)
  /\ wrong' = bits
  /\ status' = "arrived"
  /\ UNCHANGED <<payloadLen, tblLen, sent, rxPacket, fault>>

\* A symbol arrives that is none: eightbtenbDecode fails, those before it are in
\* the buffer already.
LinecodeFail ==
  /\ fault = "none" /\ status = "onAir"
  /\ \E decoded \in Decodable(payloadLen) :
       rxPacket' = (rxPacket \ Bits(decoded)) \cup (air \cap Bits(decoded))
  /\ status' = "LINECODE_FAIL"
  /\ UNCHANGED <<payloadLen, tblLen, sent, wrong, air, fault>>

\* Seeded fault: after the correction the packet is assumed to be correct.
DecodeNoRecheck ==
  /\ fault = "none" /\ status = "arrived"
  /\ LET dest == (rxPacket \ Bits(MessageLen(payloadLen))) \cup air
         crc == crc32Calc(dest, CheckedLen(payloadLen))
         incorrect == crc32IncorrectBit(crc, tblLen \div 8)
     IN  IF crc # {} /\ incorrect = NoBit
           THEN rxPacket' = dest /\ status' = "CHECKSUM_FAIL"
           ELSE rxPacket' = (IF crc = {} THEN dest ELSE Xor(dest, {incorrect}))
                /\ status' = "OK"
  /\ UNCHANGED <<payloadLen, tblLen, sent, wrong, air, fault>>

\* Seeded fault: the bits of a byte are counted from the other end.
DecodeBitOrder ==
  /\ fault = "none" /\ status = "arrived"
  /\ LET dest == (rxPacket \ Bits(MessageLen(payloadLen))) \cup air
         crc == crc32Calc(dest, CheckedLen(payloadLen))
         incorrect == crc32IncorrectBit(crc, tblLen \div 8)
         mirrored == 8 * (incorrect \div 8) + 7 - (incorrect % 8)
         corrected == Xor(dest, {mirrored})
     IN  IF crc # {} /\ incorrect = NoBit
           THEN rxPacket' = dest /\ status' = "CHECKSUM_FAIL"
           ELSE /\ rxPacket' = IF crc = {} THEN dest ELSE corrected
                /\ status' = IF crc # {} /\ crc32Calc(corrected, CheckedLen(payloadLen)) # {}
                               THEN "ECC_FAIL" ELSE "OK"
  /\ UNCHANGED <<payloadLen, tblLen, sent, wrong, air, fault>>

\* packet8b10bDecode past the line code.
Decode ==
  /\ fault = "none" /\ status = "arrived"
  /\ LET dest == (rxPacket \ Bits(MessageLen(payloadLen))) \cup air
         crc == crc32Calc(dest, CheckedLen(payloadLen))
         incorrect == crc32IncorrectBit(crc, tblLen \div 8)
         corrected == Xor(dest, {incorrect})
     IN  \/ /\ crc = {}
            /\ rxPacket' = dest /\ status' = "OK"
         \/ /\ crc # {} /\ incorrect = NoBit
            /\ rxPacket' = dest /\ status' = "CHECKSUM_FAIL"
         \/ /\ crc # {} /\ incorrect # NoBit
            /\ rxPacket' = corrected
            /\ status' = IF crc32Calc(corrected, CheckedLen(payloadLen)) = {}
                           THEN "OK" ELSE "ECC_FAIL"
  /\ UNCHANGED <<payloadLen, tblLen, sent, wrong, air, fault>>

Next ==
  \/ \E size \in PayloadSizes : Configure(size)
  \/ \E payload \in Payloads(payloadLen) : Encode(payload)
  \/ \E bits \in Disturbed(payloadLen) : Disturb(bits)
  \/ LinecodeFail \/ Decode

Spec == Init /\ [][Next]_vars

-----------------------------------------------------------------------------
(* Properties *)

\* The bits only the encoder or only the decoder takes into account: the end of
\* the message, or what earlier packets have left behind it.
Beyond(size) == Xor(Bits(MessageLen(size)), Bits(CheckedLen(size)))

\* Wrong bits in a payload of this size show in the checksum, whatever is there
\* beyond: nothing, because the lengths agree or because no message is longer, or
\* bits that cannot make up for them.
Telltale(size) ==
  LET len == MessageLen(size)
      checked == CheckedLen(size)
      all == IF checked >= len THEN checked ELSE len
  IN  \/ checked = len
      \/ checked >= len /\ \A other \in PayloadSizes : MessageLen(other) <= len
      \/ \A bits \in Disturbed(size), beyond \in SUBSET Beyond(size) :
           crc32Calc(bits \cap Bits(checked), all) = crc32Calc(beyond, all) =>
             bits \cap Bits(size) = {}

\* What the decoder accepts is what was sent, whatever one or two bits were
\* disturbed, whatever the buffer held before and even where the CRC is taken
\* over the wrong number of bytes; if all sizes are Telltale, as those are that
\* runs check it for.
NeverWrongPayload ==
  status = "OK" => rxPacket \cap Bits(payloadLen) = sent

\* Where the decoder checks as many bytes as the encoder has sent, a packet
\* with at most one wrong bit is accepted.
SingleErrorRepaired ==
  /\ CheckedLen(payloadLen) = MessageLen(payloadLen)
  /\ Cardinality(wrong) <= 1
  => status \notin {"CHECKSUM_FAIL", "ECC_FAIL"}

\* The decoder checks the message to its end, and behind it there are zeros.
Clean ==
  /\ CheckedLen(payloadLen) >= MessageLen(payloadLen)
  /\ rxPacket \cap Bits(CheckedLen(payloadLen)) \subseteq Bits(MessageLen(payloadLen))

\* A packet that arrives as it was sent is accepted, at the sizes for which
\* the CRC is taken over too many bytes as well, if these hold nothing.
IntactAccepted ==
  Clean /\ wrong = {} => status \notin {"CHECKSUM_FAIL", "ECC_FAIL"}

\* "try again, XXX: is this required" (packet.c:104): no, where the decoder
\* checks what was sent: whatever it corrects passes the second check.
RecheckRedundant ==
  CheckedLen(payloadLen) = MessageLen(payloadLen) => status # "ECC_FAIL"

\* Yes, at every other size: the table belongs to another length, and no
\* packet that was "corrected" with it is accepted.
NoFalseCorrection ==
  /\ CheckedLen(payloadLen) # MessageLen(payloadLen)
  /\ status = "OK"
  => rxPacket \cap Bits(MessageLen(payloadLen)) = air

\* The correction the decoder announces ("correct that bit") at every size.
OneBitIsCorrected ==
  Cardinality(wrong) <= 1 => status \notin {"CHECKSUM_FAIL", "ECC_FAIL"}

\* Every size the documentation allows can be configured and sent.
SizesAccepted == fault = "none"

=============================================================================

----------------------------- MODULE LinkFrame ------------------------------
(***************************************************************************)
(* The Link frame (src/src/link.c): its layout, its encoder and its strict  *)
(* decoder, byte by byte and with the real frame check.                     *)
(*                                                                          *)
(* Decode gives the status, the number of bytes consumed and the caller's   *)
(* struct as the call leaves it, which on an error is neither the old one   *)
(* nor the new one.  The payload of a decoded frame is borrowed: the struct *)
(* holds where it begins in the input (0 for NULL) and how long it is.      *)
(***************************************************************************)
EXTENDS Octets

CONSTANT MaxPayload   \* MCL_LINK_FRAME_MAX_PAYLOAD, 1024

ASSUME MaxPayloadAssumption == MaxPayload \in Word \ {0}

Majors == {0, 1}

MinSize == 8

MaxSize == MinSize + 16 + MaxPayload

Class == [CONTACT |-> 0, CAPABILITY |-> 1, NEGOTIATION |-> 2, DATA |-> 3,
          ACK |-> 4, NACK |-> 5, KEEPALIVE |-> 6, ADAPT |-> 7, HANDOFF |-> 8,
          CLOSE |-> 9]

ClassIsAssigned(class) == class < 10 /\ class # Class.ADAPT

\* The flags byte, bit by bit: 1 if the optional field is there.
Destination(flags) == flags % 2
Session(flags)     == (flags \div 2) % 2
Sequenced(flags)   == (flags \div 4) % 2
Freshness(flags)   == (flags \div 8) % 2
FrameCheck(flags)  == (flags \div 16) % 2

\* Slip: only the top bit is looked at.
HasReservedSlip(flags) == flags >= 128

HasReserved(flags) == flags >= 32

OptionalSize(flags) ==
    4 * Destination(flags) + 4 * Session(flags) + 2 * Sequenced(flags)
    + 2 * Freshness(flags) + 4 * FrameCheck(flags)

-----------------------------------------------------------------------------
(* CRC-32/IEEE, a register being the set of its bits that are 1.            *)

Polynomial == {5, 8, 9, 15, 19, 20, 21, 23, 24, 26, 27, 29, 30, 31}

Xor(a, b) == (a \ b) \cup (b \ a)

BitsOf(octet) == {i \in 0..7 : (octet \div 2^i) % 2 = 1}

Registers == SUBSET (0..31)

ShiftOut[register \in Registers] ==
    LET shifted == {i - 1 : i \in register \ {0}}
    IN  IF 0 \in register THEN Xor(shifted, Polynomial) ELSE shifted

\* Eight shifts for every byte.
Feed[register \in Registers, octet \in Octet] ==
    LET after[n \in 0..8] ==
            IF n = 0 THEN Xor(register, BitsOf(octet))
            ELSE ShiftOut[after[n - 1]]
    IN  after[8]

\* mcl_link_crc32(data, size).
Crc32(data) ==
    LET after[n \in 0..Len(data)] ==
            IF n = 0 THEN 0..31 ELSE Feed[after[n - 1], data[n]]
    IN  (0..31) \ after[Len(data)]

\* Bit i of a register, and the numbers its bits from low upwards make.
Bit(register, i) == IF i \in register THEN 1 ELSE 0

Byte(register, low) ==
    128 * Bit(register, low + 7) + 64 * Bit(register, low + 6)
    + 32 * Bit(register, low + 5) + 16 * Bit(register, low + 4)
    + 8 * Bit(register, low + 3) + 4 * Bit(register, low + 2)
    + 2 * Bit(register, low + 1) + Bit(register, low)

Half(register, low) == 256 * Byte(register, low + 8) + Byte(register, low)

CheckWord(data) ==
    LET register == Crc32(data)
    IN  <<Half(register, 16), Half(register, 0)>>

-----------------------------------------------------------------------------
(* Encoding. *)

Encodable(f) ==
    /\ ClassIsAssigned(f.frame_class)
    /\ ~HasReserved(f.flags)
    /\ Len(f.payload) <= MaxPayload

EncodedSize(f) ==
    IF Encodable(f) THEN MinSize + OptionalSize(f.flags) + Len(f.payload)
    ELSE 0

EncodeStatus(major, f, capacity) ==
    IF major \notin Majors THEN "INCOMPATIBLE_VERSION"
    ELSE IF ~Encodable(f) THEN "RANGE"
    ELSE IF capacity < EncodedSize(f) THEN "RANGE"
    ELSE "OK"

Present(bit, bytes) == IF bit = 1 THEN bytes ELSE <<>>

\* Slip: the sequence is written before the session.
EncodeSlip(major, f) ==
    LET covered ==
            <<16 * major + f.frame_class, f.flags>>
            \o PutU32(f.source_ref)
            \o Present(Destination(f.flags), PutU32(f.destination_ref))
            \o Present(Sequenced(f.flags), PutU16(f.sequence))
            \o Present(Session(f.flags), PutU32(f.session_ref))
            \o Present(Freshness(f.flags), PutU16(f.freshness_ms))
            \o PutU16(Len(f.payload))
            \o f.payload
    IN  covered \o Present(FrameCheck(f.flags),
                           PutU32(CheckWord(covered)))

\* The bytes of a frame that can be encoded.
Encode(major, f) ==
    LET covered ==
            <<16 * major + f.frame_class, f.flags>>
            \o PutU32(f.source_ref)
            \o Present(Destination(f.flags), PutU32(f.destination_ref))
            \o Present(Session(f.flags), PutU32(f.session_ref))
            \o Present(Sequenced(f.flags), PutU16(f.sequence))
            \o Present(Freshness(f.flags), PutU16(f.freshness_ms))
            \o PutU16(Len(f.payload))
            \o f.payload
    IN  covered \o Present(FrameCheck(f.flags),
                           PutU32(CheckWord(covered)))

-----------------------------------------------------------------------------
(* Decoding. *)

ZeroFrame ==
    [link_major |-> 0, frame_class |-> 0, flags |-> 0, source_ref |-> NoRef,
     destination_ref |-> NoRef, session_ref |-> NoRef, sequence |-> 0,
     freshness_ms |-> 0, payload |-> 0, payload_len |-> 0]

\* Where the fields behind source_ref begin.
SessionAt(flags)  == 6 + 4 * Destination(flags)
SequenceAt(flags) == SessionAt(flags) + 4 * Session(flags)
FreshAt(flags)    == SequenceAt(flags) + 2 * Sequenced(flags)
LengthAt(flags)   == FreshAt(flags) + 2 * Freshness(flags)

\* The length the input declares, once its header is there.
DeclaredLength(in) == GetU16(in, LengthAt(in[2]))

CheckAt(in) == LengthAt(in[2]) + 2 + DeclaredLength(in)

\* The bytes the frame check is of.
Covered(in) == SubSeq(in, 1, CheckAt(in))

\* Slip: a length is compared with what has arrived before it is compared
\* with what is legal.
DecodeStatusSlip(in) ==
    IF Len(in) < MinSize THEN "TRUNCATED"
    ELSE IF in[1] \div 16 \notin Majors THEN "INCOMPATIBLE_VERSION"
    ELSE IF ~ClassIsAssigned(in[1] % 16) THEN "RANGE"
    ELSE IF HasReserved(in[2]) THEN "RANGE"
    ELSE IF Len(in) < MinSize + OptionalSize(in[2]) THEN "TRUNCATED"
    ELSE IF Len(in) < CheckAt(in) + 4 * FrameCheck(in[2]) THEN "TRUNCATED"
    ELSE IF DeclaredLength(in) > MaxPayload THEN "RANGE"
    ELSE IF /\ FrameCheck(in[2]) = 1
            /\ GetU32(in, CheckAt(in)) # CheckWord(Covered(in))
         THEN "FRAME_CHECK"
    ELSE "OK"

DecodeStatus(in) ==
    IF Len(in) < MinSize THEN "TRUNCATED"
    ELSE IF in[1] \div 16 \notin Majors THEN "INCOMPATIBLE_VERSION"
    ELSE IF ~ClassIsAssigned(in[1] % 16) THEN "RANGE"
    ELSE IF HasReserved(in[2]) THEN "RANGE"
    ELSE IF Len(in) < MinSize + OptionalSize(in[2]) THEN "TRUNCATED"
    ELSE IF DeclaredLength(in) > MaxPayload THEN "RANGE"
    ELSE IF Len(in) < CheckAt(in) THEN "TRUNCATED"
    ELSE IF FrameCheck(in[2]) = 0 THEN "OK"
    ELSE IF Len(in) < CheckAt(in) + 4 THEN "TRUNCATED"
    ELSE IF GetU32(in, CheckAt(in)) # CheckWord(Covered(in))
         THEN "FRAME_CHECK"
    ELSE "OK"

\* How far the decoder of a given input gets, in the order of its assignments.
ReadsMajor(in) == Len(in) >= MinSize /\ in[1] \div 16 \in Majors

ReadsFlags(in) ==
    ReadsMajor(in) /\ ClassIsAssigned(in[1] % 16) /\ ~HasReserved(in[2])

ReadsHeader(in) ==
    ReadsFlags(in) /\ Len(in) >= MinSize + OptionalSize(in[2])

\* Slip: the length is stored before it is known to be covered by bytes.
ReadsPayloadSlip(in) == ReadsHeader(in)

ReadsPayload(in) ==
    /\ ReadsHeader(in)
    /\ DeclaredLength(in) <= MaxPayload
    /\ Len(in) >= CheckAt(in)

Optional(bit, value, none) == IF bit = 1 THEN value ELSE none

\* The caller's struct after the call.
Decode(in, frame) ==
    LET flags == in[2]
        version == [frame EXCEPT !.link_major = in[1] \div 16,
                                 !.frame_class = in[1] % 16]
        flagged == [version EXCEPT !.flags = flags]
        header ==
            [flagged EXCEPT
                !.source_ref = GetU32(in, 2),
                !.destination_ref =
                    Optional(Destination(flags), GetU32(in, 6), NoRef),
                !.session_ref =
                    Optional(Session(flags), GetU32(in, SessionAt(flags)),
                             NoRef),
                !.sequence =
                    Optional(Sequenced(flags), GetU16(in, SequenceAt(flags)),
                             0),
                !.freshness_ms =
                    Optional(Freshness(flags), GetU16(in, FreshAt(flags)), 0)]
        whole ==
            [header EXCEPT
                !.payload_len = DeclaredLength(in),
                !.payload = IF DeclaredLength(in) # 0
                            THEN LengthAt(flags) + 2 ELSE 0]
    IN  CASE ReadsPayload(in) -> whole
          [] ReadsHeader(in) /\ ~ReadsPayload(in) -> header
          [] ReadsFlags(in) /\ ~ReadsHeader(in) -> flagged
          [] ReadsMajor(in) /\ ~ReadsFlags(in) -> version
          [] OTHER -> frame

\* Slip: the frame check is left in the stream.
ConsumedSlip(in) == CheckAt(in)

\* *consumed, which only a decode that returns OK writes.
Consumed(in) == CheckAt(in) + 4 * FrameCheck(in[2])

=============================================================================

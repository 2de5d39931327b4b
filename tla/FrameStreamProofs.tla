-------------------------- MODULE FrameStreamProofs -------------------------
(***************************************************************************)
(* Safety of the frame decoder over a stream of bytes of any traffic, cut   *)
(* and altered in any way, for every payload limit; that frames arrive in   *)
(* order while nothing was altered; and what the decoders of the Link       *)
(* controls leave in the structs they share.                                *)
(***************************************************************************)
EXTENDS FrameStream, TLAPS

-----------------------------------------------------------------------------
(* Strings of bytes.                                                        *)

\* Two strings joined: each is found where it was put.
LEMMA Joined ==
    ASSUME NEW x \in Seq(Octet), NEW y \in Seq(Octet)
    PROVE  /\ x \o y \in Seq(Octet)
           /\ Len(x \o y) = Len(x) + Len(y)
           /\ \A i \in 1..Len(x) : (x \o y)[i] = x[i]
           /\ \A i \in 1..Len(y) : (x \o y)[Len(x) + i] = y[i]
  OBVIOUS

\* Bytes and 16-bit numbers are numbers, within their width.
LEMMA Widths ==
    /\ \A x \in Nat : x <= 255 => x \in Octet
    /\ \A x \in Octet : x \in Nat /\ x <= 255
    /\ \A x \in Nat : x <= 65535 => x \in Word
    /\ \A x \in Word : x \in Nat /\ x <= 65535
<1>2. ASSUME NEW x \in Nat, x <= 255
      PROVE  x \in Octet
  BY <1>2 DEF Octet
<1>3. ASSUME NEW x \in Octet
      PROVE  x \in Nat /\ x <= 255
  BY DEF Octet
<1>4. ASSUME NEW x \in Nat, x <= 65535
      PROVE  x \in Word
  <2> DEFINE n == 65535
  <2>1. n \in Nat /\ x <= n
    BY <1>4
  <2>2. Word = 0..n
    BY DEF Word
  <2> HIDE DEF n
  <2>3. x \in 0..n
    BY <2>1
  <2> QED
    BY <2>2, <2>3
<1>5. ASSUME NEW x \in Word
      PROVE  x \in Nat /\ x <= 65535
  BY DEF Word
<1> QED
  BY <1>2, <1>3, <1>4, <1>5

\* What is left behind the first n bytes.
LEMMA DropType ==
    ASSUME NEW s \in Seq(Octet), NEW n \in 0..Len(s)
    PROVE  Drop(s, n) \in Seq(Octet) /\ Len(Drop(s, n)) = Len(s) - n
<1>1. n + 1 \in 1..Len(s) + 1 /\ Len(s) \in Nat
  OBVIOUS
<1> QED
  BY <1>1 DEF Drop

\* The bytes of a 16-bit and of a 32-bit number.
LEMMA PutType ==
    /\ \A v \in Word : /\ PutU16(v) \in Seq(Octet) /\ Len(PutU16(v)) = 2
                       /\ PutU16(v)[1] = v \div 256 /\ PutU16(v)[2] = v % 256
    /\ \A v \in Word \X Word : PutU32(v) \in Seq(Octet) /\ Len(PutU32(v)) = 4
<1>1. ASSUME NEW v \in Word
      PROVE  v \div 256 \in Octet /\ v % 256 \in Octet
  <2>1. v \in Nat /\ v <= 65535
    BY DEF Word
  <2>2. v \div 256 \in Nat /\ v \div 256 <= 255
    BY <2>1
  <2>3. v % 256 \in Nat /\ v % 256 <= 255
    BY <2>1
  <2> QED
    BY <2>2, <2>3 DEF Octet
<1>2. \A v \in Word : /\ PutU16(v) \in Seq(Octet) /\ Len(PutU16(v)) = 2
                      /\ PutU16(v)[1] = v \div 256 /\ PutU16(v)[2] = v % 256
  BY <1>1 DEF PutU16
<1>3. ASSUME NEW v \in Word \X Word
      PROVE  PutU32(v) \in Seq(Octet) /\ Len(PutU32(v)) = 4
  <2>1. v[1] \in Word /\ v[2] \in Word
    OBVIOUS
  <2> DEFINE hi == PutU16(v[1])
             lo == PutU16(v[2])
  <2>2. /\ hi \in Seq(Octet) /\ Len(hi) = 2
        /\ lo \in Seq(Octet) /\ Len(lo) = 2
    BY <1>2, <2>1
  <2>3. PutU32(v) = hi \o lo
    BY DEF PutU32
  <2> HIDE DEF hi, lo
  <2>4. PutU32(v) \in Seq(Octet) /\ Len(PutU32(v)) = Len(hi) + Len(lo)
    BY <2>2, <2>3, Joined
  <2> QED
    BY <2>2, <2>4
<1> QED
  BY <1>2, <1>3

\* A number read from within the input.
LEMMA GetType ==
    ASSUME NEW in \in Seq(Octet), NEW at \in Nat
    PROVE  /\ at + 2 <= Len(in) => GetU16(in, at) \in Word
           /\ at + 4 <= Len(in) => GetU32(in, at) \in Word \X Word
<1>1. ASSUME NEW k \in Nat, k + 2 <= Len(in)
      PROVE  GetU16(in, k) \in Word
  <2>1. k + 1 \in 1..Len(in) /\ k + 2 \in 1..Len(in)
    BY <1>1
  <2>2. in[k + 1] \in Octet /\ in[k + 2] \in Octet
    BY <2>1
  <2>3. ASSUME NEW a \in Octet, NEW b \in Octet
        PROVE  256 * a + b \in Word
    <3>1. a \in Nat /\ a <= 255 /\ b \in Nat /\ b <= 255
      BY Widths
    <3>2. 256 * a + b \in Nat /\ 256 * a + b <= 65535
      BY <3>1
    <3> QED
      BY <3>2, Widths
  <2> QED
    BY <2>2, <2>3 DEF GetU16
<1>2. ASSUME at + 4 <= Len(in)
      PROVE  GetU32(in, at) \in Word \X Word
  <2>1. at + 2 \in Nat /\ at + 2 + 2 <= Len(in) /\ at + 2 <= Len(in)
    BY <1>2
  <2> QED
    BY <1>1, <2>1 DEF GetU32
<1> QED
  BY <1>1, <1>2

\* Two strings of the same bytes are the same.
LEMMA SameBytes ==
    ASSUME NEW x \in Seq(Octet), NEW y \in Seq(Octet), Len(x) = Len(y),
           \A i \in 1..Len(x) : x[i] = y[i]
    PROVE  x = y
  OBVIOUS

\* in begins with the bytes of x.
Begins(x, in) == x \in Seq(Octet) /\ \A i \in 1..Len(x) : x[i] = in[i]

\* Behind its first at bytes, in holds these bytes.
Has(in, at, bytes) ==
    /\ at \in Nat /\ at + Len(bytes) <= Len(in)
    /\ \A i \in 1..Len(bytes) : in[at + i] = bytes[i]

\* What a string holds, a string that begins with it holds.
LEMMA HasExtended ==
    ASSUME NEW x \in Seq(Octet), NEW in \in Seq(Octet), NEW at,
           NEW bytes \in Seq(Octet), Has(x, at, bytes), Begins(x, in),
           Len(x) <= Len(in)
    PROVE  Has(in, at, bytes)
<1>1. /\ at \in Nat /\ at + Len(bytes) <= Len(x)
      /\ \A i \in 1..Len(bytes) : x[at + i] = bytes[i]
  BY DEF Has
<1>2. Len(x) \in Nat /\ Len(in) \in Nat /\ Len(bytes) \in Nat
  OBVIOUS
<1>3. ASSUME NEW i \in 1..Len(bytes)
      PROVE  in[at + i] = bytes[i]
  <2>1. at + i \in 1..Len(x)
    BY <1>1, <1>2
  <2> QED
    BY <1>1, <2>1 DEF Begins
<1>4. at + Len(bytes) <= Len(in)
  BY <1>1, <1>2
<1> QED
  BY <1>1, <1>3, <1>4 DEF Has

\* A string that begins with one that begins with x begins with x.
LEMMA BeginsTrans ==
    ASSUME NEW x, NEW y \in Seq(Octet), NEW z, Begins(x, y), Begins(y, z),
           Len(x) <= Len(y)
    PROVE  Begins(x, z)
<1>1. Len(x) \in Nat /\ Len(y) \in Nat
  BY DEF Begins
<1> QED
  BY <1>1 DEF Begins

\* Lengths are ordered.
LEMMA Longer ==
    ASSUME NEW x \in Seq(Octet), NEW y \in Seq(Octet), NEW z \in Seq(Octet),
           Len(x) <= Len(y), Len(y) <= Len(z)
    PROVE  Len(x) <= Len(z)
<1>1. Len(x) \in Nat /\ Len(y) \in Nat /\ Len(z) \in Nat
  OBVIOUS
<1> QED
  BY <1>1

\* The first n bytes of a string.
LEMMA FirstBytes ==
    ASSUME NEW in \in Seq(Octet), NEW n \in Nat, n <= Len(in)
    PROVE  /\ SubSeq(in, 1, n) \in Seq(Octet)
           /\ Len(SubSeq(in, 1, n)) = n
           /\ \A i \in 1..n : SubSeq(in, 1, n)[i] = in[i]
<1>1. Len(in) \in Nat
  OBVIOUS
<1> QED
  BY <1>1

\* A field that is written behind x: x stays where it is, and the field begins
\* where x ends.
LEMMA FieldPut ==
    ASSUME NEW x \in Seq(Octet), NEW y \in Seq(Octet)
    PROVE  /\ x \o y \in Seq(Octet)
           /\ Len(x \o y) = Len(x) + Len(y) /\ Len(x) <= Len(x \o y)
           /\ Begins(x, x \o y)
           /\ Has(x \o y, Len(x), y)
<1> DEFINE z == x \o y
<1>1. Len(x) \in Nat /\ Len(y) \in Nat
  OBVIOUS
<1>2. /\ z \in Seq(Octet) /\ Len(z) = Len(x) + Len(y)
      /\ \A i \in 1..Len(x) : z[i] = x[i]
      /\ \A i \in 1..Len(y) : z[Len(x) + i] = y[i]
  BY Joined
<1> HIDE DEF z
<1>3. Begins(x, z) /\ Has(z, Len(x), y)
  BY <1>1, <1>2 DEF Begins, Has
<1>4. Len(x) <= Len(z)
  BY <1>1, <1>2
<1> QED
  BY <1>2, <1>3, <1>4 DEF z

\* A number is read as it was written.
LEMMA GetPut ==
    ASSUME NEW in, NEW at
    PROVE  /\ \A v \in Word : Has(in, at, PutU16(v)) => GetU16(in, at) = v
           /\ \A v \in Word \X Word :
                  Has(in, at, PutU32(v)) => GetU32(in, at) = v
<1>1. ASSUME NEW k \in Nat, NEW v \in Word,
             in[k + 1] = v \div 256, in[k + 2] = v % 256
      PROVE  GetU16(in, k) = v
  <2>1. v \in Nat
    BY Widths
  <2>2. 256 * (v \div 256) + (v % 256) = v
    BY <2>1
  <2> QED
    BY <1>1, <2>2 DEF GetU16
<1>2. ASSUME NEW v \in Word, Has(in, at, PutU16(v))
      PROVE  GetU16(in, at) = v
  <2>1. /\ Len(PutU16(v)) = 2
        /\ PutU16(v)[1] = v \div 256 /\ PutU16(v)[2] = v % 256
    BY PutType
  <2>2. at \in Nat /\ \A i \in 1..2 : in[at + i] = PutU16(v)[i]
    BY <1>2, <2>1 DEF Has
  <2>3. in[at + 1] = v \div 256 /\ in[at + 2] = v % 256
    BY <2>1, <2>2
  <2> QED
    BY <1>1, <2>2, <2>3
<1>3. ASSUME NEW v \in Word \X Word, Has(in, at, PutU32(v))
      PROVE  GetU32(in, at) = v
  <2> DEFINE a == v[1]
             b == v[2]
             x == PutU16(a)
             y == PutU16(b)
  <2>1. a \in Word /\ b \in Word /\ v = <<a, b>>
    OBVIOUS
  <2>2. PutU32(v) = x \o y
    BY DEF PutU32
  <2> HIDE DEF a, b
  <2>3. /\ x \in Seq(Octet) /\ Len(x) = 2 /\ x[1] = a \div 256 /\ x[2] = a % 256
        /\ y \in Seq(Octet) /\ Len(y) = 2 /\ y[1] = b \div 256 /\ y[2] = b % 256
    BY <2>1, PutType
  <2> HIDE DEF x, y
  <2>4. /\ Len(x \o y) = 4
        /\ (x \o y)[1] = x[1] /\ (x \o y)[2] = x[2]
        /\ (x \o y)[3] = y[1] /\ (x \o y)[4] = y[2]
    <3> DEFINE w == x \o y
    <3>a. x \in Seq(Octet) /\ y \in Seq(Octet)
      BY <2>3
    <3>1. /\ Len(w) = Len(x) + Len(y)
          /\ \A i \in 1..Len(x) : w[i] = x[i]
          /\ \A i \in 1..Len(y) : w[Len(x) + i] = y[i]
      BY <3>a, Joined
    <3> HIDE DEF w
    <3>0. Len(x) = 2 /\ Len(y) = 2
      BY <2>3
    <3>2. /\ Len(w) = 2 + 2
          /\ \A i \in 1..2 : w[i] = x[i]
          /\ \A i \in 1..2 : w[2 + i] = y[i]
      BY <3>0, <3>1, Zenon
    <3>3. 1 \in 1..2 /\ 2 \in 1..2 /\ 2 + 1 = 3 /\ 2 + 2 = 4
      OBVIOUS
    <3>4. /\ Len(w) = 4 /\ w[1] = x[1] /\ w[2] = x[2]
          /\ w[3] = y[1] /\ w[4] = y[2]
      BY <3>2, <3>3
    <3> QED
      BY <3>4 DEF w
  <2>5. at \in Nat /\ \A i \in 1..4 : in[at + i] = (x \o y)[i]
    <3>1. Has(in, at, x \o y)
      BY <1>3, <2>2
    <3> QED
      BY <2>4, <3>1 DEF Has
  <2>6. /\ in[at + 1] = a \div 256 /\ in[at + 2] = a % 256
        /\ in[at + 3] = b \div 256 /\ in[at + 4] = b % 256
    BY <2>3, <2>4, <2>5
  <2>7. GetU16(in, at) = a
    BY <1>1, <2>1, <2>5, <2>6
  <2>8. GetU16(in, at + 2) = b
    <3>1. at + 2 \in Nat /\ (at + 2) + 1 = at + 3 /\ (at + 2) + 2 = at + 4
      BY <2>5
    <3> QED
      BY <1>1, <2>1, <2>6, <3>1
  <2> QED
    BY <2>1, <2>7, <2>8 DEF GetU32
<1> QED
  BY <1>2, <1>3

-----------------------------------------------------------------------------
(* The layout the flags byte announces.                                     *)

\* A flags byte without a reserved bit.
Flags == 0..31

\* mcl_link_frame_decode refuses every other.
LEMMA FlagsRange ==
    ASSUME NEW x \in Octet
    PROVE  /\ ~HasReserved(x) => x \in Flags
           /\ x \in Flags => x \in Nat /\ x < 32
<1>1. x \in Nat
  BY Widths
<1> QED
  BY <1>1 DEF HasReserved, Flags

\* Every flag is a bit.
LEMMA FlagBits ==
    ASSUME NEW flags \in Nat
    PROVE  /\ Destination(flags) \in {0, 1} /\ Session(flags) \in {0, 1}
           /\ Sequenced(flags) \in {0, 1} /\ Freshness(flags) \in {0, 1}
           /\ FrameCheck(flags) \in {0, 1}
<1>1. \A n \in Nat : n % 2 \in {0, 1}
  OBVIOUS
<1>2. /\ flags \div 2 \in Nat /\ flags \div 4 \in Nat /\ flags \div 8 \in Nat
      /\ flags \div 16 \in Nat
  OBVIOUS
<1> QED
  BY <1>1, <1>2
  DEF Destination, Session, Sequenced, Freshness, FrameCheck

\* The optional fields follow one another, and the length field them.
LEMMA Layout ==
    ASSUME NEW flags \in Nat
    PROVE  /\ SessionAt(flags) \in Nat /\ SequenceAt(flags) \in Nat
           /\ FreshAt(flags) \in Nat /\ LengthAt(flags) \in 6..18
           /\ MinSize + OptionalSize(flags)
                  = LengthAt(flags) + 2 + 4 * FrameCheck(flags)
           /\ Destination(flags) = 1 => 6 + 4 <= LengthAt(flags)
           /\ Session(flags) = 1 => SessionAt(flags) + 4 <= LengthAt(flags)
           /\ Sequenced(flags) = 1 => SequenceAt(flags) + 2 <= LengthAt(flags)
           /\ Freshness(flags) = 1 => FreshAt(flags) + 2 <= LengthAt(flags)
  BY FlagBits
  DEF SessionAt, SequenceAt, FreshAt, LengthAt, OptionalSize, MinSize

-----------------------------------------------------------------------------
(* The encoder.                                                             *)

\* Sixteen bits make a 16-bit number.
LEMMA HalfType ==
    ASSUME NEW register, NEW low \in Nat
    PROVE  Half(register, low) \in Word
<1>1. \A i : Bit(register, i) \in {0, 1}
  BY DEF Bit
<1>2. ASSUME NEW at \in Nat
      PROVE  Byte(register, at) \in Nat /\ Byte(register, at) <= 255
  BY <1>1 DEF Byte
<1>3. low + 8 \in Nat
  OBVIOUS
<1>4. /\ Byte(register, low) \in Nat /\ Byte(register, low) <= 255
      /\ Byte(register, low + 8) \in Nat /\ Byte(register, low + 8) <= 255
  BY <1>2, <1>3
<1>5. Half(register, low) \in Nat /\ Half(register, low) <= 65535
  BY <1>4 DEF Half
<1> QED
  BY <1>5, Widths

\* The frame check is a 32-bit number.
LEMMA CheckWordType ==
    ASSUME NEW data
    PROVE  CheckWord(data) \in Word \X Word
<1>1. \A register : Half(register, 16) \in Word /\ Half(register, 0) \in Word
  BY HalfType
<1> QED
  BY <1>1 DEF CheckWord

\* The same for a field that is there if its flag says so.
LEMMA FieldAdded ==
    ASSUME NEW x \in Seq(Octet), NEW y \in Seq(Octet), NEW bit \in {0, 1}
    PROVE  LET z == x \o Present(bit, y)
           IN  /\ z \in Seq(Octet)
               /\ Len(z) = Len(x) + Len(y) * bit /\ Len(x) <= Len(z)
               /\ Begins(x, z)
               /\ bit = 1 => Has(z, Len(x), y)
<1> DEFINE z == x \o Present(bit, y)
<1>1. Len(x) \in Nat /\ Len(y) \in Nat
  OBVIOUS
<1>2. CASE bit = 1
  <2>1. z = x \o y
    BY <1>2 DEF Present
  <2> HIDE DEF z
  <2>2. /\ z \in Seq(Octet) /\ Len(z) = Len(x) + Len(y) /\ Len(x) <= Len(z)
        /\ Begins(x, z) /\ Has(z, Len(x), y)
    BY <2>1, FieldPut
  <2>3. Len(x) + Len(y) * bit = Len(x) + Len(y)
    BY <1>1, <1>2
  <2> QED
    BY <2>2, <2>3 DEF z
<1>3. CASE bit = 0
  <2>1. z = x \o << >>
    BY <1>3 DEF Present
  <2> HIDE DEF z
  <2>2. z = x
    <3>1. << >> \in Seq(Octet) /\ Len(<< >>) = 0
      OBVIOUS
    <3>2. /\ z \in Seq(Octet) /\ Len(z) = Len(x)
          /\ \A i \in 1..Len(x) : z[i] = x[i]
      BY <1>1, <2>1, <3>1, Joined
    <3> QED
      BY <3>2, SameBytes
  <2>3. Begins(x, z) /\ Len(x) <= Len(z) /\ Len(z) = Len(x)
    BY <1>1, <2>2 DEF Begins
  <2>4. bit # 1 /\ Len(x) + Len(y) * bit = Len(x)
    BY <1>1, <1>3
  <2> QED
    BY <2>2, <2>3, <2>4 DEF z
<1> QED
  BY <1>2, <1>3

\* Where the frame check of f begins.
EndOf(f) == LengthAt(f.flags) + 2 + Len(f.payload)

\* The fields of f are in e where the decoder looks for them.
IsFrame(e, f) ==
    /\ e \in Seq(Octet)
    /\ Len(e) = EndOf(f) + 4 * FrameCheck(f.flags)
    /\ e[1] = 16 * f.link_major + f.frame_class /\ e[2] = f.flags
    /\ Has(e, 2, PutU32(f.source_ref))
    /\ Destination(f.flags) = 1 => Has(e, 6, PutU32(f.destination_ref))
    /\ Session(f.flags) = 1 =>
           Has(e, SessionAt(f.flags), PutU32(f.session_ref))
    /\ Sequenced(f.flags) = 1 =>
           Has(e, SequenceAt(f.flags), PutU16(f.sequence))
    /\ Freshness(f.flags) = 1 =>
           Has(e, FreshAt(f.flags), PutU16(f.freshness_ms))
    /\ Has(e, LengthAt(f.flags), PutU16(Len(f.payload)))
    /\ Has(e, LengthAt(f.flags) + 2, f.payload)
    /\ FrameCheck(f.flags) = 1 =>
           Has(e, EndOf(f), PutU32(CheckWord(SubSeq(e, 1, EndOf(f)))))

\* A frame the encoder takes, and its numbers.
LEMMA EncodableFrame ==
    ASSUME NEW f \in Frames, EncodeStatus(f.link_major, f, MaxSize) = "OK"
    PROVE  /\ f.link_major \in {0, 1}
           /\ f.frame_class \in 0..9 /\ ClassIsAssigned(f.frame_class)
           /\ f.flags \in Octet /\ f.flags \in Nat /\ ~HasReserved(f.flags)
           /\ f.source_ref \in Word \X Word
           /\ f.destination_ref \in Word \X Word
           /\ f.session_ref \in Word \X Word
           /\ f.sequence \in Word /\ f.freshness_ms \in Word
           /\ f.payload \in Seq(Octet)
           /\ Len(f.payload) \in Word /\ Len(f.payload) \in Nat
           /\ Len(f.payload) <= MaxPayload
<1>1. f.link_major \in Majors /\ Encodable(f)
  BY DEF EncodeStatus
<1>2. /\ f.frame_class \in Octet /\ f.flags \in Octet
      /\ f.source_ref \in Word \X Word /\ f.destination_ref \in Word \X Word
      /\ f.session_ref \in Word \X Word /\ f.sequence \in Word
      /\ f.freshness_ms \in Word /\ f.payload \in Seq(Octet)
  BY DEF Frames
<1>3. f.link_major \in {0, 1} /\ f.frame_class < 10
      /\ ClassIsAssigned(f.frame_class) /\ ~HasReserved(f.flags)
  BY <1>1 DEF Majors, Encodable, ClassIsAssigned
<1>4. f.frame_class \in Nat /\ f.flags \in Nat
  BY <1>2, Widths
<1>5. f.frame_class \in 0..9
  BY <1>3, <1>4
<1>6. Len(f.payload) \in Nat /\ Len(f.payload) <= MaxPayload
  BY <1>1, <1>2 DEF Encodable
<1>7. MaxPayload \in Nat /\ MaxPayload <= 65535
  BY MaxPayloadAssumption, Widths
<1>8. Len(f.payload) <= 65535
  BY <1>6, <1>7
<1>9. Len(f.payload) \in Word
  BY <1>6, <1>8, Widths
<1> QED
  BY <1>2, <1>3, <1>4, <1>5, <1>6, <1>9, Zenon

\* mcl_link_frame_encode_at_major puts every field where the decoder looks for
\* it, for every combination of flags.
LEMMA EncodeIsFrame ==
    ASSUME NEW f \in Frames, EncodeStatus(f.link_major, f, MaxSize) = "OK"
    PROVE  IsFrame(Encode(f.link_major, f), f)
<1> DEFINE fl == f.flags
           first == 16 * f.link_major + f.frame_class
           dst == PutU32(f.destination_ref)
           ses == PutU32(f.session_ref)
           num == PutU16(f.sequence)
           fresh == PutU16(f.freshness_ms)
           len == PutU16(Len(f.payload))
           b1 == <<first, fl>>
           b2 == b1 \o PutU32(f.source_ref)
           b3 == b2 \o Present(Destination(fl), dst)
           b4 == b3 \o Present(Session(fl), ses)
           b5 == b4 \o Present(Sequenced(fl), num)
           b6 == b5 \o Present(Freshness(fl), fresh)
           b7 == b6 \o len
           b8 == b7 \o f.payload
           check == PutU32(CheckWord(b8))
           b9 == b8 \o Present(FrameCheck(fl), check)
<1>1. /\ fl \in Octet /\ fl \in Nat /\ f.payload \in Seq(Octet)
      /\ Len(f.payload) \in Nat
  BY EncodableFrame
<1>2. /\ PutU32(f.source_ref) \in Seq(Octet) /\ Len(PutU32(f.source_ref)) = 4
      /\ dst \in Seq(Octet) /\ Len(dst) = 4
      /\ ses \in Seq(Octet) /\ Len(ses) = 4
      /\ num \in Seq(Octet) /\ Len(num) = 2
      /\ fresh \in Seq(Octet) /\ Len(fresh) = 2
      /\ len \in Seq(Octet) /\ Len(len) = 2
      /\ check \in Seq(Octet) /\ Len(check) = 4
  BY EncodableFrame, CheckWordType, PutType
<1>3. /\ Destination(fl) \in {0, 1} /\ Session(fl) \in {0, 1}
      /\ Sequenced(fl) \in {0, 1} /\ Freshness(fl) \in {0, 1}
      /\ FrameCheck(fl) \in {0, 1}
  BY <1>1, FlagBits
<1>4. first \in Octet
  <2>1. f.link_major \in {0, 1} /\ f.frame_class \in 0..9
    BY EncodableFrame
  <2>2. first \in Nat /\ first <= 255
    BY <2>1
  <2> QED
    BY <2>2, Widths
<1>5. Encode(f.link_major, f) = b9
  BY DEF Encode
<1> HIDE DEF first, dst, ses, num, fresh, len, check
<1>11. /\ b1 \in Seq(Octet) /\ Len(b1) = 2 /\ b1[1] = first /\ b1[2] = fl
  BY <1>1, <1>4
<1> HIDE DEF b1
<1>12. /\ b2 \in Seq(Octet) /\ Len(b2) = 6
       /\ Begins(b1, b2) /\ Len(b1) <= Len(b2)
       /\ Has(b2, 2, PutU32(f.source_ref))
  <2>1. /\ b2 \in Seq(Octet) /\ Len(b2) = Len(b1) + Len(PutU32(f.source_ref))
        /\ Begins(b1, b2) /\ Len(b1) <= Len(b2)
        /\ Has(b2, Len(b1), PutU32(f.source_ref))
    BY <1>2, <1>11, FieldPut
  <2> QED
    BY <1>2, <1>11, <2>1
<1> HIDE DEF b2
<1>13. /\ b3 \in Seq(Octet) /\ Len(b3) = SessionAt(fl)
       /\ Begins(b2, b3) /\ Len(b2) <= Len(b3)
       /\ Destination(fl) = 1 => Has(b3, 6, dst)
  <2>1. b3 = b2 \o Present(Destination(fl), dst)
    OBVIOUS
  <2> HIDE DEF b3
  <2>2. /\ b2 \in Seq(Octet) /\ Len(b2) = 6
        /\ dst \in Seq(Octet) /\ Len(dst) = 4 /\ Destination(fl) \in {0, 1}
    BY <1>2, <1>3, <1>12
  <2>3. /\ b3 \in Seq(Octet)
        /\ Len(b3) = Len(b2) + Len(dst) * Destination(fl)
        /\ Begins(b2, b3) /\ Len(b2) <= Len(b3)
        /\ Destination(fl) = 1 => Has(b3, Len(b2), dst)
    BY <2>1, <2>2, FieldAdded
  <2> QED
    BY <2>2, <2>3, Zenon DEF SessionAt
<1> HIDE DEF b3
<1>14. /\ b4 \in Seq(Octet) /\ Len(b4) = SequenceAt(fl)
       /\ Begins(b3, b4) /\ Len(b3) <= Len(b4)
       /\ Session(fl) = 1 => Has(b4, SessionAt(fl), ses)
  <2>1. b4 = b3 \o Present(Session(fl), ses)
    OBVIOUS
  <2> HIDE DEF b4
  <2>2. /\ b3 \in Seq(Octet) /\ Len(b3) = SessionAt(fl)
        /\ ses \in Seq(Octet) /\ Len(ses) = 4 /\ Session(fl) \in {0, 1}
    BY <1>2, <1>3, <1>13
  <2>3. /\ b4 \in Seq(Octet)
        /\ Len(b4) = Len(b3) + Len(ses) * Session(fl)
        /\ Begins(b3, b4) /\ Len(b3) <= Len(b4)
        /\ Session(fl) = 1 => Has(b4, Len(b3), ses)
    BY <2>1, <2>2, FieldAdded
  <2> QED
    BY <2>2, <2>3, Zenon DEF SequenceAt
<1> HIDE DEF b4
<1>15. /\ b5 \in Seq(Octet) /\ Len(b5) = FreshAt(fl)
       /\ Begins(b4, b5) /\ Len(b4) <= Len(b5)
       /\ Sequenced(fl) = 1 => Has(b5, SequenceAt(fl), num)
  <2>1. b5 = b4 \o Present(Sequenced(fl), num)
    OBVIOUS
  <2> HIDE DEF b5
  <2>2. /\ b4 \in Seq(Octet) /\ Len(b4) = SequenceAt(fl)
        /\ num \in Seq(Octet) /\ Len(num) = 2 /\ Sequenced(fl) \in {0, 1}
    BY <1>2, <1>3, <1>14
  <2>3. /\ b5 \in Seq(Octet)
        /\ Len(b5) = Len(b4) + Len(num) * Sequenced(fl)
        /\ Begins(b4, b5) /\ Len(b4) <= Len(b5)
        /\ Sequenced(fl) = 1 => Has(b5, Len(b4), num)
    BY <2>1, <2>2, FieldAdded
  <2> QED
    BY <2>2, <2>3, Zenon DEF FreshAt
<1> HIDE DEF b5
<1>16. /\ b6 \in Seq(Octet) /\ Len(b6) = LengthAt(fl)
       /\ Begins(b5, b6) /\ Len(b5) <= Len(b6)
       /\ Freshness(fl) = 1 => Has(b6, FreshAt(fl), fresh)
  <2>1. b6 = b5 \o Present(Freshness(fl), fresh)
    OBVIOUS
  <2> HIDE DEF b6
  <2>2. /\ b5 \in Seq(Octet) /\ Len(b5) = FreshAt(fl)
        /\ fresh \in Seq(Octet) /\ Len(fresh) = 2 /\ Freshness(fl) \in {0, 1}
    BY <1>2, <1>3, <1>15
  <2>3. /\ b6 \in Seq(Octet)
        /\ Len(b6) = Len(b5) + Len(fresh) * Freshness(fl)
        /\ Begins(b5, b6) /\ Len(b5) <= Len(b6)
        /\ Freshness(fl) = 1 => Has(b6, Len(b5), fresh)
    BY <2>1, <2>2, FieldAdded
  <2> QED
    BY <2>2, <2>3, Zenon DEF LengthAt
<1> HIDE DEF b6
<1>17. /\ b7 \in Seq(Octet) /\ Len(b7) = LengthAt(fl) + 2
       /\ Begins(b6, b7) /\ Len(b6) <= Len(b7)
       /\ Has(b7, LengthAt(fl), len)
  <2>1. /\ b7 \in Seq(Octet) /\ Len(b7) = Len(b6) + Len(len)
        /\ Begins(b6, b7) /\ Len(b6) <= Len(b7) /\ Has(b7, Len(b6), len)
    BY <1>2, <1>16, FieldPut
  <2> QED
    BY <1>2, <1>16, <2>1
<1> HIDE DEF b7
<1>18. /\ b8 \in Seq(Octet) /\ Len(b8) = EndOf(f)
       /\ Begins(b7, b8) /\ Len(b7) <= Len(b8)
       /\ Has(b8, LengthAt(fl) + 2, f.payload)
  <2>1. /\ b8 \in Seq(Octet) /\ Len(b8) = Len(b7) + Len(f.payload)
        /\ Begins(b7, b8) /\ Len(b7) <= Len(b8) /\ Has(b8, Len(b7), f.payload)
    BY <1>1, <1>17, FieldPut
  <2> QED
    BY <1>17, <2>1 DEF EndOf
<1> HIDE DEF b8
<1>19. /\ b9 \in Seq(Octet) /\ Len(b9) = EndOf(f) + 4 * FrameCheck(fl)
       /\ Begins(b8, b9) /\ Len(b8) <= Len(b9)
       /\ FrameCheck(fl) = 1 => Has(b9, EndOf(f), check)
  <2>1. b9 = b8 \o Present(FrameCheck(fl), check)
    OBVIOUS
  <2> HIDE DEF b9
  <2>2. /\ b8 \in Seq(Octet) /\ Len(b8) = EndOf(f)
        /\ check \in Seq(Octet) /\ Len(check) = 4 /\ FrameCheck(fl) \in {0, 1}
    BY <1>2, <1>3, <1>18
  <2>3. /\ b9 \in Seq(Octet)
        /\ Len(b9) = Len(b8) + Len(check) * FrameCheck(fl)
        /\ Begins(b8, b9) /\ Len(b8) <= Len(b9)
        /\ FrameCheck(fl) = 1 => Has(b9, Len(b8), check)
    BY <2>1, <2>2, FieldAdded
  <2> QED
    BY <2>2, <2>3
<1> HIDE DEF b9
<1>20. Begins(b7, b9) /\ Len(b7) <= Len(b9)
  BY <1>17, <1>18, <1>19, BeginsTrans, Longer
<1>21. Begins(b6, b9) /\ Len(b6) <= Len(b9)
  BY <1>16, <1>17, <1>19, <1>20, BeginsTrans, Longer
<1>22. Begins(b5, b9) /\ Len(b5) <= Len(b9)
  BY <1>15, <1>16, <1>19, <1>21, BeginsTrans, Longer
<1>23. Begins(b4, b9) /\ Len(b4) <= Len(b9)
  BY <1>14, <1>15, <1>19, <1>22, BeginsTrans, Longer
<1>24. Begins(b3, b9) /\ Len(b3) <= Len(b9)
  BY <1>13, <1>14, <1>19, <1>23, BeginsTrans, Longer
<1>25. Begins(b2, b9) /\ Len(b2) <= Len(b9)
  BY <1>12, <1>13, <1>19, <1>24, BeginsTrans, Longer
<1>26. Begins(b1, b9) /\ Len(b1) <= Len(b9)
  BY <1>11, <1>12, <1>19, <1>25, BeginsTrans, Longer
<1>27. b9[1] = first /\ b9[2] = fl
  <2>1. 1 \in 1..Len(b1) /\ 2 \in 1..Len(b1)
    BY <1>11
  <2> QED
    BY <1>11, <1>26, <2>1 DEF Begins
<1>28. Has(b9, 2, PutU32(f.source_ref))
  BY <1>2, <1>12, <1>19, <1>25, HasExtended
<1>29. Destination(fl) = 1 => Has(b9, 6, dst)
  BY <1>2, <1>13, <1>19, <1>24, HasExtended
<1>30. Session(fl) = 1 => Has(b9, SessionAt(fl), ses)
  BY <1>2, <1>14, <1>19, <1>23, HasExtended
<1>31. Sequenced(fl) = 1 => Has(b9, SequenceAt(fl), num)
  BY <1>2, <1>15, <1>19, <1>22, HasExtended
<1>32. Freshness(fl) = 1 => Has(b9, FreshAt(fl), fresh)
  BY <1>2, <1>16, <1>19, <1>21, HasExtended
<1>33. Has(b9, LengthAt(fl), len)
  BY <1>2, <1>17, <1>19, <1>20, HasExtended
<1>34. Has(b9, LengthAt(fl) + 2, f.payload)
  BY <1>1, <1>18, <1>19, HasExtended
<1>35. SubSeq(b9, 1, EndOf(f)) = b8
  <2>1. EndOf(f) \in Nat /\ Len(b9) \in Nat /\ EndOf(f) <= Len(b9)
    BY <1>18, <1>19
  <2>2. /\ SubSeq(b9, 1, EndOf(f)) \in Seq(Octet)
        /\ Len(SubSeq(b9, 1, EndOf(f))) = EndOf(f)
        /\ \A i \in 1..EndOf(f) : SubSeq(b9, 1, EndOf(f))[i] = b9[i]
    BY <1>19, <2>1, FirstBytes
  <2>3. \A i \in 1..EndOf(f) : b9[i] = b8[i]
    BY <1>18, <1>19 DEF Begins
  <2> QED
    BY <1>18, <2>2, <2>3, SameBytes
<1> DEFINE e == Encode(f.link_major, f)
<1>36. e = b9
  BY <1>5
<1> HIDE DEF e
<1>37. FrameCheck(fl) = 1 =>
           Has(e, EndOf(f), PutU32(CheckWord(SubSeq(e, 1, EndOf(f)))))
  BY <1>19, <1>35, <1>36 DEF check
<1>38. IsFrame(e, f)
  BY <1>19, <1>27, <1>28, <1>29, <1>30, <1>31, <1>32, <1>33, <1>34, <1>36,
     <1>37, Zenon
  DEF IsFrame, first, dst, ses, num, fresh, len
<1> QED
  BY <1>38 DEF e

\* What mcl_link_frame_encode writes is bytes.
LEMMA EncodeType ==
    ASSUME NEW f \in Frames, EncodeStatus(f.link_major, f, MaxSize) = "OK"
    PROVE  Encode(f.link_major, f) \in Seq(Octet)
  BY EncodeIsFrame DEF IsFrame

-----------------------------------------------------------------------------
(* The decoder.                                                             *)

\* The receiver's mcl_link_frame_t.
Structs ==
    [link_major: Octet, frame_class: Octet, flags: Flags,
     source_ref: Word \X Word, destination_ref: Word \X Word,
     session_ref: Word \X Word, sequence: Word, freshness_ms: Word,
     payload: Nat, payload_len: 0..MaxPayload]

\* Once the header is there, so is the length it ends with.
LEMMA HeaderRead ==
    ASSUME NEW in \in Seq(Octet), ReadsHeader(in)
    PROVE  /\ in[1] \in Octet /\ in[2] \in Flags /\ in[2] \in Nat
           /\ Len(in) >= LengthAt(in[2]) + 2 + 4 * FrameCheck(in[2])
           /\ FrameCheck(in[2]) \in {0, 1}
           /\ LengthAt(in[2]) \in 6..18
           /\ DeclaredLength(in) \in Word
<1>1. Len(in) \in Nat /\ Len(in) >= 8
  BY DEF ReadsHeader, ReadsFlags, ReadsMajor, MinSize
<1>2. in[1] \in Octet /\ in[2] \in Octet
  BY <1>1
<1>3. in[2] \in Flags /\ in[2] \in Nat
  BY <1>2, FlagsRange DEF ReadsHeader, ReadsFlags
<1>4. FrameCheck(in[2]) \in {0, 1}
  BY <1>3, FlagBits
<1>5. /\ LengthAt(in[2]) \in 6..18
      /\ Len(in) >= LengthAt(in[2]) + 2 + 4 * FrameCheck(in[2])
  BY <1>3, Layout DEF ReadsHeader
<1>6. LengthAt(in[2]) \in Nat /\ LengthAt(in[2]) + 2 <= Len(in)
  BY <1>1, <1>4, <1>5
<1>7. DeclaredLength(in) \in Word
  BY <1>6, GetType DEF DeclaredLength
<1> QED
  BY <1>2, <1>3, <1>4, <1>5, <1>7

\* What each answer of the decoder says about the input: TRUNCATED only of one
\* smaller than the largest frame, OK only of one that holds the whole frame,
\* an error only of one that holds at least the smallest.
LEMMA Verdicts ==
    ASSUME NEW in \in Seq(Octet)
    PROVE  /\ DecodeStatus(in) = "TRUNCATED" => Len(in) < MaxSize
           /\ DecodeStatus(in) = "OK" =>
                  ReadsPayload(in) /\ Consumed(in) \in 0..Len(in)
           /\ DecodeStatus(in) # "TRUNCATED" => 1 <= Len(in)
<1>1. Len(in) \in Nat
  OBVIOUS
<1>2. MaxPayload \in Nat
  BY MaxPayloadAssumption, Widths
<1> DEFINE short == Len(in) < MinSize
<1>short. short <=> ~(Len(in) >= MinSize)
  BY <1>1 DEF MinSize
<1>3. CASE ~ReadsFlags(in)
  <2>0. \/ short
        \/ in[1] \div 16 \notin Majors
        \/ ~ClassIsAssigned(in[1] % 16)
        \/ HasReserved(in[2])
    BY <1>3, <1>short DEF ReadsFlags, ReadsMajor
  <2> HIDE DEF short
  <2>1. DecodeStatus(in) \in {"INCOMPATIBLE_VERSION", "RANGE"} \/ short
    BY <2>0, Zenon DEF DecodeStatus, short
  <2>2. DecodeStatus(in) = "TRUNCATED" => Len(in) < MinSize
    BY <2>1 DEF short
  <2>3. Len(in) < MinSize => DecodeStatus(in) = "TRUNCATED"
    BY Zenon DEF DecodeStatus
  <2>4. DecodeStatus(in) # "OK"
    BY <2>1, <2>3 DEF short
  <2> QED
    BY <1>1, <1>2, <2>2, <2>3, <2>4 DEF MinSize, MaxSize
<1>4. CASE ReadsFlags(in) /\ ~ReadsHeader(in)
  <2>2. Len(in) >= 8
    BY <1>4 DEF ReadsFlags, ReadsMajor, MinSize
  <2>3. in[2] \in Octet
    BY <1>1, <2>2
  <2>4. in[2] \in Nat
    BY <2>3, Widths
  <2>5. ~(Len(in) >= LengthAt(in[2]) + 2 + 4 * FrameCheck(in[2]))
    BY <1>4, <2>4, Layout DEF ReadsHeader
  <2>6. LengthAt(in[2]) \in 6..18 /\ FrameCheck(in[2]) \in {0, 1}
    BY <2>4, Layout, FlagBits
  <2>7. Len(in) < 24
    BY <1>1, <2>5, <2>6
  <2>8. DecodeStatus(in) = "TRUNCATED"
    <3>1. ~short /\ in[1] \div 16 \in Majors
          /\ ClassIsAssigned(in[1] % 16) /\ ~HasReserved(in[2])
      BY <1>4, <1>short DEF ReadsFlags, ReadsMajor
    <3>2. MinSize + OptionalSize(in[2])
              = LengthAt(in[2]) + 2 + 4 * FrameCheck(in[2])
      BY <2>4, Layout
    <3>3. Len(in) < MinSize + OptionalSize(in[2])
      BY <1>1, <2>5, <2>6, <3>2
    <3> QED
      BY <3>1, <3>3, Zenon DEF DecodeStatus
  <2> QED
    BY <1>1, <1>2, <2>2, <2>7, <2>8 DEF MinSize, MaxSize
<1>5. CASE ReadsHeader(in)
  <2> DEFINE at == LengthAt(in[2])
             len == DeclaredLength(in)
             bit == FrameCheck(in[2])
  <2>1. /\ at \in 6..18 /\ len \in Nat /\ bit \in {0, 1}
        /\ Len(in) >= at + 2 + 4 * bit
    BY <1>5, HeaderRead, Widths
  <2>2. CheckAt(in) = at + 2 + len
    BY DEF CheckAt
  <2>3. DecodeStatus(in) =
            IF len > MaxPayload THEN "RANGE"
            ELSE IF Len(in) < CheckAt(in) THEN "TRUNCATED"
            ELSE IF bit = 0 THEN "OK"
            ELSE IF Len(in) < CheckAt(in) + 4 THEN "TRUNCATED"
            ELSE IF GetU32(in, CheckAt(in)) # CheckWord(Covered(in))
                 THEN "FRAME_CHECK"
            ELSE "OK"
    <3>1. /\ ~(Len(in) < MinSize) /\ in[1] \div 16 \in Majors
          /\ ClassIsAssigned(in[1] % 16) /\ ~HasReserved(in[2])
      BY <1>1, <1>5 DEF ReadsHeader, ReadsFlags, ReadsMajor, MinSize
    <3>2. ~(Len(in) < MinSize + OptionalSize(in[2]))
      <4>1. in[2] \in Nat
        BY <1>5, HeaderRead
      <4>2. MinSize + OptionalSize(in[2]) = at + 2 + 4 * bit
        BY <4>1, Layout
      <4> QED
        BY <1>1, <2>1, <4>2
    <3> QED
      BY <3>1, <3>2 DEF DecodeStatus
  <2>4. Consumed(in) = CheckAt(in) + 4 * bit
    BY DEF Consumed
  <2>5. ReadsPayload(in) <=> len <= MaxPayload /\ Len(in) >= CheckAt(in)
    BY <1>5 DEF ReadsPayload
  <2>6. MaxSize = 24 + MaxPayload
    BY <1>2 DEF MaxSize, MinSize
  <2> HIDE DEF at, len, bit
  <2>7. DecodeStatus(in) = "TRUNCATED" => Len(in) < MaxSize
    BY <1>1, <1>2, <2>1, <2>2, <2>3, <2>6
  <2>8. DecodeStatus(in) = "OK" =>
            ReadsPayload(in) /\ Consumed(in) \in 0..Len(in)
    BY <1>1, <1>2, <2>1, <2>2, <2>3, <2>4, <2>5
  <2> QED
    BY <1>1, <2>1, <2>7, <2>8
<1> QED
  BY <1>3, <1>4, <1>5

\* mcl_link_frame_decode assigns to the caller's struct as it goes: it keeps
\* its type however far the call gets, and the payload it points to is either
\* the one it had or lies within this input.
LEMMA DecodeEffect ==
    ASSUME NEW in \in Seq(Octet), NEW f \in Structs
    PROVE  /\ Decode(in, f) \in Structs
           /\ ReadsPayload(in) =>
                  Decode(in, f).payload + Decode(in, f).payload_len <= Len(in)
           /\ ~ReadsPayload(in) =>
                  /\ Decode(in, f).payload = f.payload
                  /\ Decode(in, f).payload_len = f.payload_len
<1> DEFINE
        flags == in[2]
        version == [f EXCEPT !.link_major = in[1] \div 16,
                             !.frame_class = in[1] % 16]
        flagged == [version EXCEPT !.flags = flags]
        header ==
            [flagged EXCEPT
                !.source_ref = GetU32(in, 2),
                !.destination_ref =
                    Optional(Destination(flags), GetU32(in, 6), NoRef),
                !.session_ref =
                    Optional(Session(flags), GetU32(in, SessionAt(flags)),
                             NoRef),
                !.sequence =
                    Optional(Sequenced(flags), GetU16(in, SequenceAt(flags)),
                             0),
                !.freshness_ms =
                    Optional(Freshness(flags), GetU16(in, FreshAt(flags)), 0)]
        whole ==
            [header EXCEPT
                !.payload_len = DeclaredLength(in),
                !.payload = IF DeclaredLength(in) # 0
                            THEN LengthAt(flags) + 2 ELSE 0]
        same(d) == d.payload = f.payload /\ d.payload_len = f.payload_len
<1>1. /\ ReadsPayload(in) => ReadsHeader(in)
      /\ ReadsHeader(in) => ReadsFlags(in)
      /\ ReadsFlags(in) => ReadsMajor(in)
  BY DEF ReadsPayload, ReadsHeader, ReadsFlags
<1>2. /\ ReadsPayload(in) => Decode(in, f) = whole
      /\ ReadsHeader(in) /\ ~ReadsPayload(in) => Decode(in, f) = header
      /\ ReadsFlags(in) /\ ~ReadsHeader(in) => Decode(in, f) = flagged
      /\ ReadsMajor(in) /\ ~ReadsFlags(in) => Decode(in, f) = version
      /\ ~ReadsMajor(in) => Decode(in, f) = f
  BY <1>1 DEF Decode
<1>3. ReadsMajor(in) => version \in Structs /\ same(version)
  <2>1. SUFFICES ASSUME ReadsMajor(in)
                 PROVE  version \in Structs /\ same(version)
    OBVIOUS
  <2>2. Len(in) >= 8 /\ Len(in) \in Nat
    BY <2>1 DEF ReadsMajor, MinSize
  <2>3. in[1] \in Octet
    BY <2>2
  <2>4. in[1] \in Nat /\ in[1] <= 255
    BY <2>3, Widths
  <2>5. /\ in[1] \div 16 \in Nat /\ in[1] \div 16 <= 255
        /\ in[1] % 16 \in Nat /\ in[1] % 16 <= 255
    BY <2>4
  <2>6. in[1] \div 16 \in Octet /\ in[1] % 16 \in Octet
    BY <2>5, Widths
  <2> QED
    BY <2>6 DEF Structs
<1>4. ReadsFlags(in) => flagged \in Structs /\ same(flagged)
  <2>1. SUFFICES ASSUME ReadsFlags(in)
                 PROVE  flagged \in Structs /\ same(flagged)
    OBVIOUS
  <2>2. version \in Structs /\ same(version)
    BY <1>1, <1>3, <2>1
  <2>3. Len(in) >= 8 /\ Len(in) \in Nat
    BY <2>1 DEF ReadsFlags, ReadsMajor, MinSize
  <2>4. in[2] \in Octet
    BY <2>3
  <2>5. in[2] \in Flags
    BY <2>1, <2>4, FlagsRange DEF ReadsFlags
  <2> HIDE DEF version
  <2> QED
    BY <2>2, <2>5 DEF Structs
<1>5. ReadsHeader(in) => header \in Structs /\ same(header)
  <2>1. SUFFICES ASSUME ReadsHeader(in)
                 PROVE  header \in Structs /\ same(header)
    OBVIOUS
  <2>2. flagged \in Structs /\ same(flagged)
    BY <1>1, <1>4, <2>1
  <2>3. /\ flags \in Nat /\ FrameCheck(flags) \in {0, 1}
        /\ Len(in) >= LengthAt(flags) + 2 + 4 * FrameCheck(flags)
        /\ LengthAt(flags) \in 6..18 /\ Len(in) \in Nat
    BY <2>1, HeaderRead
  <2> HIDE DEF flagged, flags
  <2>4. LengthAt(flags) + 2 <= Len(in) /\ LengthAt(flags) \in Nat
    BY <2>3
  <2>layout. /\ Destination(flags) = 1 => 6 + 4 <= LengthAt(flags)
             /\ Session(flags) = 1 => SessionAt(flags) + 4 <= LengthAt(flags)
             /\ Sequenced(flags) = 1 =>
                    SequenceAt(flags) + 2 <= LengthAt(flags)
             /\ Freshness(flags) = 1 => FreshAt(flags) + 2 <= LengthAt(flags)
    BY <2>3, Layout
  <2>5. NoRef \in Word \X Word /\ 0 \in Word
    <3>1. 0 \in Word
      BY Widths
    <3> QED
      BY <3>1 DEF NoRef
  <2>6. GetU32(in, 2) \in Word \X Word
    <3>1. 2 \in Nat /\ 2 + 4 <= Len(in)
      BY <2>3
    <3> QED
      BY <3>1, GetType
  <2>7. Optional(Destination(flags), GetU32(in, 6), NoRef) \in Word \X Word
    <3>1. Destination(flags) = 1 => 6 \in Nat /\ 6 + 4 <= Len(in)
      BY <2>3, <2>4, <2>layout
    <3> QED
      BY <2>5, <3>1, GetType DEF Optional
  <2>8. Optional(Session(flags), GetU32(in, SessionAt(flags)), NoRef)
            \in Word \X Word
    <3>1. SessionAt(flags) \in Nat
      BY <2>3, Layout
    <3>2. Session(flags) = 1 => SessionAt(flags) + 4 <= Len(in)
      BY <2>3, <2>4, <2>layout, <3>1
    <3> QED
      BY <2>5, <3>1, <3>2, GetType DEF Optional
  <2>9. Optional(Sequenced(flags), GetU16(in, SequenceAt(flags)), 0) \in Word
    <3>1. SequenceAt(flags) \in Nat
      BY <2>3, Layout
    <3>2. Sequenced(flags) = 1 => SequenceAt(flags) + 2 <= Len(in)
      BY <2>3, <2>4, <2>layout, <3>1
    <3> QED
      BY <2>5, <3>1, <3>2, GetType DEF Optional
  <2>10. Optional(Freshness(flags), GetU16(in, FreshAt(flags)), 0) \in Word
    <3>1. FreshAt(flags) \in Nat
      BY <2>3, Layout
    <3>2. Freshness(flags) = 1 => FreshAt(flags) + 2 <= Len(in)
      BY <2>3, <2>4, <2>layout, <3>1
    <3> QED
      BY <2>5, <3>1, <3>2, GetType DEF Optional
  <2> QED
    BY <2>2, <2>6, <2>7, <2>8, <2>9, <2>10 DEF Structs
<1>6. ReadsPayload(in) =>
          whole \in Structs /\ whole.payload + whole.payload_len <= Len(in)
  <2>1. SUFFICES ASSUME ReadsPayload(in)
                 PROVE  /\ whole \in Structs
                        /\ whole.payload + whole.payload_len <= Len(in)
    OBVIOUS
  <2>2. header \in Structs
    BY <1>1, <1>5, <2>1
  <2>3. LengthAt(flags) \in 6..18 /\ DeclaredLength(in) \in Word
    BY <1>1, <2>1, HeaderRead
  <2>4. DeclaredLength(in) \in Nat
    BY <2>3, Widths
  <2>5. /\ DeclaredLength(in) <= MaxPayload
        /\ Len(in) >= LengthAt(flags) + 2 + DeclaredLength(in)
    BY <2>1 DEF ReadsPayload, CheckAt
  <2>6. MaxPayload \in Nat /\ Len(in) \in Nat
    BY MaxPayloadAssumption, Widths
  <2> HIDE DEF header, flags
  <2>7. DeclaredLength(in) \in 0..MaxPayload
    BY <2>4, <2>5, <2>6
  <2>8. (IF DeclaredLength(in) # 0 THEN LengthAt(flags) + 2 ELSE 0) \in Nat
    BY <2>3
  <2>9. whole \in Structs
    BY <2>2, <2>7, <2>8 DEF Structs
  <2>10. /\ whole.payload_len = DeclaredLength(in)
         /\ whole.payload = IF DeclaredLength(in) # 0
                            THEN LengthAt(flags) + 2 ELSE 0
    BY <2>2 DEF Structs
  <2> HIDE DEF whole
  <2> QED
    BY <2>3, <2>4, <2>5, <2>6, <2>9, <2>10
<1> HIDE DEF version, flagged, header, whole
<1> QED
  BY <1>1, <1>2, <1>3, <1>4, <1>5, <1>6

\* The two halves of the first byte.
LEMMA FirstByte ==
    ASSUME NEW major \in {0, 1}, NEW class \in 0..9
    PROVE  /\ (16 * major + class) \div 16 = major
           /\ (16 * major + class) % 16 = class
<1>1. CASE major = 0
  BY <1>1
<1>2. CASE major = 1
  BY <1>2
<1> QED
  BY <1>1, <1>2

\* The numbers of the layout of a frame that was encoded.
LEMMA FrameLayout ==
    ASSUME NEW f \in Frames, EncodeStatus(f.link_major, f, MaxSize) = "OK",
           NEW e, IsFrame(e, f)
    PROVE  /\ e[1] \div 16 \in Majors /\ e[1] \div 16 = f.link_major
           /\ ClassIsAssigned(e[1] % 16) /\ e[1] % 16 = f.frame_class
           /\ e[2] = f.flags /\ ~HasReserved(e[2])
           /\ LengthAt(f.flags) \in 6..18 /\ FrameCheck(f.flags) \in {0, 1}
           /\ MinSize + OptionalSize(f.flags)
                  = LengthAt(f.flags) + 2 + 4 * FrameCheck(f.flags)
           /\ Len(f.payload) \in Nat /\ Len(f.payload) <= MaxPayload
           /\ MaxPayload \in Nat
           /\ EndOf(f) = LengthAt(f.flags) + 2 + Len(f.payload)
           /\ EndOf(f) \in Nat
           /\ e \in Seq(Octet) /\ Len(e) \in Nat
           /\ Len(e) = EndOf(f) + 4 * FrameCheck(f.flags)
<1>1. /\ f.link_major \in {0, 1} /\ f.frame_class \in 0..9
      /\ ClassIsAssigned(f.frame_class) /\ f.flags \in Nat
      /\ ~HasReserved(f.flags)
      /\ Len(f.payload) \in Nat /\ Len(f.payload) <= MaxPayload
  BY EncodableFrame
<1>2. /\ e \in Seq(Octet) /\ Len(e) = EndOf(f) + 4 * FrameCheck(f.flags)
      /\ e[1] = 16 * f.link_major + f.frame_class /\ e[2] = f.flags
  BY DEF IsFrame
<1>3. e[1] \div 16 = f.link_major /\ e[1] % 16 = f.frame_class
  BY <1>1, <1>2, FirstByte
<1>4. f.link_major \in Majors
  BY <1>1 DEF Majors
<1>5. /\ LengthAt(f.flags) \in 6..18 /\ FrameCheck(f.flags) \in {0, 1}
      /\ MinSize + OptionalSize(f.flags)
             = LengthAt(f.flags) + 2 + 4 * FrameCheck(f.flags)
  BY <1>1, Layout, FlagBits
<1>6. EndOf(f) = LengthAt(f.flags) + 2 + Len(f.payload) /\ EndOf(f) \in Nat
  BY <1>1, <1>5 DEF EndOf
<1>7. Len(e) \in Nat /\ MaxPayload \in Nat
  BY <1>2, MaxPayloadAssumption, Widths
<1> QED
  BY <1>1, <1>2, <1>3, <1>4, <1>5, <1>6, <1>7, Zenon

\* link.c mcl_link_frame_decode on a beginning of an encoded frame: it asks
\* for more, wherever the frame was cut.
LEMMA FramePrefix ==
    ASSUME NEW f \in Frames, EncodeStatus(f.link_major, f, MaxSize) = "OK",
           NEW e, IsFrame(e, f), NEW in, Begins(in, e), Len(in) < Len(e)
    PROVE  DecodeStatus(in) = "TRUNCATED"
<1> DEFINE at == LengthAt(f.flags)
           bit == FrameCheck(f.flags)
           len == Len(f.payload)
<1>1. /\ in \in Seq(Octet) /\ Len(in) \in Nat
      /\ \A i \in 1..Len(in) : in[i] = e[i]
  BY DEF Begins
<1>2. /\ e[1] \div 16 \in Majors /\ ClassIsAssigned(e[1] % 16)
      /\ e[2] = f.flags /\ ~HasReserved(e[2])
      /\ at \in 6..18 /\ bit \in {0, 1}
      /\ MinSize + OptionalSize(f.flags) = at + 2 + 4 * bit
      /\ len \in Nat /\ len <= MaxPayload /\ MaxPayload \in Nat
      /\ Len(e) = at + 2 + len + 4 * bit
  <2>1. EndOf(f) = at + 2 + len /\ Len(e) = EndOf(f) + 4 * bit
    BY FrameLayout, Zenon
  <2>2. Len(e) = at + 2 + len + 4 * bit
    BY <2>1, Zenon
  <2> QED
    BY <2>2, FrameLayout, Zenon
<1>3. CASE Len(in) < MinSize
  BY <1>3, Zenon DEF DecodeStatus
<1>4. CASE ~(Len(in) < MinSize)
  <2>1. in[1] = e[1] /\ in[2] = f.flags
    <3>1. 1 \in 1..Len(in) /\ 2 \in 1..Len(in)
      BY <1>1, <1>4 DEF MinSize
    <3> QED
      BY <1>1, <1>2, <3>1
  <2>2. /\ in[1] \div 16 \in Majors /\ ClassIsAssigned(in[1] % 16)
        /\ ~HasReserved(in[2])
    BY <1>2, <2>1, Zenon
  <2>3. CASE Len(in) < MinSize + OptionalSize(in[2])
    BY <1>4, <2>2, <2>3, Zenon DEF DecodeStatus
  <2>4. CASE ~(Len(in) < MinSize + OptionalSize(in[2]))
    <3> HIDE DEF at, bit, len
    <3>1. Len(in) >= at + 2 + 4 * bit
      BY <1>1, <1>2, <2>1, <2>4
    <3>2. DeclaredLength(in) = len
      <4>1. Has(e, at, PutU16(len)) /\ len \in Word
        BY EncodableFrame DEF IsFrame, at, len
      <4>2. GetU16(e, at) = len
        BY <4>1, GetPut
      <4>3. at + 1 \in 1..Len(in) /\ at + 2 \in 1..Len(in)
        BY <1>1, <1>2, <3>1
      <4>4. in[at + 1] = e[at + 1] /\ in[at + 2] = e[at + 2]
        BY <1>1, <4>3
      <4>5. GetU16(in, at) = len
        BY <4>2, <4>4, Zenon DEF GetU16
      <4> QED
        BY <2>1, <4>5, Zenon DEF DeclaredLength, at
    <3>3. CheckAt(in) = at + 2 + len
      BY <2>1, <3>2, Zenon DEF CheckAt, at
    <3>4. ~(DeclaredLength(in) > MaxPayload)
      BY <1>2, <3>2
    <3>5. FrameCheck(in[2]) = bit
      BY <2>1, Zenon DEF bit
    <3>6. CASE Len(in) < CheckAt(in)
      BY <1>4, <2>2, <2>4, <3>4, <3>6, Zenon DEF DecodeStatus
    <3>7. CASE ~(Len(in) < CheckAt(in))
      <4>1. bit # 0 /\ Len(in) < CheckAt(in) + 4
        BY <1>1, <1>2, <3>3, <3>7
      <4> QED
        BY <1>4, <2>2, <2>4, <3>4, <3>5, <3>7, <4>1, Zenon DEF DecodeStatus
    <3> QED
      BY <3>6, <3>7
  <2> QED
    BY <2>3, <2>4
<1> QED
  BY <1>3, <1>4

\* An input that begins with an encoded frame, and the fields it holds.
LEMMA FrameSeen ==
    ASSUME NEW f \in Frames, EncodeStatus(f.link_major, f, MaxSize) = "OK",
           NEW e, IsFrame(e, f), NEW in \in Seq(Octet), Begins(e, in),
           Len(e) <= Len(in)
    PROVE  /\ in[1] = e[1] /\ in[2] = f.flags
           /\ Has(in, 2, PutU32(f.source_ref))
           /\ Destination(f.flags) = 1 => Has(in, 6, PutU32(f.destination_ref))
           /\ Session(f.flags) = 1 =>
                  Has(in, SessionAt(f.flags), PutU32(f.session_ref))
           /\ Sequenced(f.flags) = 1 =>
                  Has(in, SequenceAt(f.flags), PutU16(f.sequence))
           /\ Freshness(f.flags) = 1 =>
                  Has(in, FreshAt(f.flags), PutU16(f.freshness_ms))
           /\ DeclaredLength(in) = Len(f.payload)
           /\ Has(in, LengthAt(f.flags) + 2, f.payload)
           /\ FrameCheck(f.flags) = 1 =>
                  Has(in, EndOf(f), PutU32(CheckWord(SubSeq(in, 1, EndOf(f)))))
<1> DEFINE fl == f.flags
           src == PutU32(f.source_ref)
           dst == PutU32(f.destination_ref)
           ses == PutU32(f.session_ref)
           num == PutU16(f.sequence)
           fresh == PutU16(f.freshness_ms)
           len == PutU16(Len(f.payload))
           check == PutU32(CheckWord(SubSeq(e, 1, EndOf(f))))
<1>1. /\ src \in Seq(Octet) /\ dst \in Seq(Octet) /\ ses \in Seq(Octet)
      /\ num \in Seq(Octet) /\ fresh \in Seq(Octet) /\ len \in Seq(Octet)
      /\ check \in Seq(Octet) /\ f.payload \in Seq(Octet)
      /\ Len(f.payload) \in Word
  BY EncodableFrame, CheckWordType, PutType
<1>2. /\ e \in Seq(Octet)
      /\ e[2] = fl
      /\ Has(e, 2, src)
      /\ Destination(fl) = 1 => Has(e, 6, dst)
      /\ Session(fl) = 1 => Has(e, SessionAt(fl), ses)
      /\ Sequenced(fl) = 1 => Has(e, SequenceAt(fl), num)
      /\ Freshness(fl) = 1 => Has(e, FreshAt(fl), fresh)
      /\ Has(e, LengthAt(fl), len)
      /\ Has(e, LengthAt(fl) + 2, f.payload)
      /\ FrameCheck(fl) = 1 => Has(e, EndOf(f), check)
  BY Zenon DEF IsFrame
<1>3. ASSUME NEW at, NEW bytes \in Seq(Octet), Has(e, at, bytes)
      PROVE  Has(in, at, bytes)
  BY <1>2, <1>3, HasExtended
<1>4. in[1] = e[1] /\ in[2] = fl
  <2>0. /\ Len(e) \in Nat /\ Len(e) = EndOf(f) + 4 * FrameCheck(fl)
        /\ EndOf(f) = LengthAt(fl) + 2 + Len(f.payload)
        /\ LengthAt(fl) \in 6..18 /\ Len(f.payload) \in Nat
        /\ FrameCheck(fl) \in {0, 1}
    BY FrameLayout, Zenon
  <2>1. Len(e) \in Nat /\ Len(e) >= 2
    <3> DEFINE a == LengthAt(fl)
               b == Len(f.payload)
               c == FrameCheck(fl)
    <3>1. Len(e) = a + 2 + b + 4 * c
      BY <2>0, Zenon
    <3>2. a \in 6..18 /\ b \in Nat /\ c \in {0, 1} /\ Len(e) \in Nat
      BY <2>0, Zenon
    <3> HIDE DEF a, b, c
    <3> QED
      BY <3>1, <3>2
  <2>2. 1 \in 1..Len(e) /\ 2 \in 1..Len(e)
    BY <2>1
  <2> QED
    BY <1>2, <2>2 DEF Begins
<1>5. DeclaredLength(in) = Len(f.payload)
  <2>1. Has(in, LengthAt(fl), len)
    BY <1>1, <1>2, <1>3, Zenon
  <2>2. GetU16(in, LengthAt(fl)) = Len(f.payload)
    BY <1>1, <2>1, GetPut
  <2> QED
    BY <1>4, <2>2, Zenon DEF DeclaredLength
<1>6. SubSeq(in, 1, EndOf(f)) = SubSeq(e, 1, EndOf(f))
  <2> DEFINE n == EndOf(f)
             x == SubSeq(in, 1, n)
             y == SubSeq(e, 1, n)
  <2>1. /\ n \in Nat /\ Len(e) \in Nat /\ n <= Len(e) /\ Len(in) \in Nat
        /\ n <= Len(in)
    BY FrameLayout
  <2> HIDE DEF n
  <2>2. x \in Seq(Octet) /\ Len(x) = n /\ \A i \in 1..n : x[i] = in[i]
    BY <2>1, FirstBytes
  <2>3. y \in Seq(Octet) /\ Len(y) = n /\ \A i \in 1..n : y[i] = e[i]
    BY <1>2, <2>1, FirstBytes
  <2> HIDE DEF x, y
  <2>4. \A i \in 1..n : x[i] = y[i]
    BY <2>1, <2>2, <2>3 DEF Begins
  <2>5. x = y
    BY <2>2, <2>3, <2>4, SameBytes
  <2> QED
    BY <2>5 DEF x, y, n
<1>7. FrameCheck(fl) = 1 => Has(in, EndOf(f), check)
  BY <1>1, <1>2, <1>3, Zenon
<1>8. /\ Has(in, 2, src)
      /\ Destination(fl) = 1 => Has(in, 6, dst)
      /\ Session(fl) = 1 => Has(in, SessionAt(fl), ses)
      /\ Sequenced(fl) = 1 => Has(in, SequenceAt(fl), num)
      /\ Freshness(fl) = 1 => Has(in, FreshAt(fl), fresh)
      /\ Has(in, LengthAt(fl) + 2, f.payload)
  BY <1>1, <1>2, <1>3, Zenon
<1> QED
  BY <1>4, <1>5, <1>6, <1>7, <1>8, Zenon

\* link.c mcl_link_frame_decode on an input that begins with an encoded frame:
\* it accepts it, whatever follows, and consumes exactly the frame.
LEMMA FrameDecodes ==
    ASSUME NEW f \in Frames, EncodeStatus(f.link_major, f, MaxSize) = "OK",
           NEW e, IsFrame(e, f), NEW in \in Seq(Octet), Begins(e, in),
           Len(e) <= Len(in)
    PROVE  /\ DecodeStatus(in) = "OK" /\ ReadsPayload(in)
           /\ Consumed(in) = Len(e)
<1> DEFINE at == LengthAt(f.flags)
           bit == FrameCheck(f.flags)
           len == Len(f.payload)
<1>1. Len(in) \in Nat
  OBVIOUS
<1>2. /\ e[1] \div 16 \in Majors /\ ClassIsAssigned(e[1] % 16)
      /\ e[2] = f.flags /\ ~HasReserved(e[2])
      /\ at \in 6..18 /\ bit \in {0, 1}
      /\ MinSize + OptionalSize(f.flags) = at + 2 + 4 * bit
      /\ len \in Nat /\ len <= MaxPayload /\ MaxPayload \in Nat
      /\ EndOf(f) = at + 2 + len /\ Len(e) = EndOf(f) + 4 * bit
  BY FrameLayout, Zenon
<1>3. in[1] = e[1] /\ in[2] = f.flags /\ DeclaredLength(in) = len
  BY FrameSeen, Zenon
<1>4. CheckAt(in) = EndOf(f) /\ FrameCheck(in[2]) = bit
  BY <1>2, <1>3, Zenon DEF CheckAt
<1>5. bit = 1 => GetU32(in, CheckAt(in)) = CheckWord(Covered(in))
  <2>1. SUFFICES ASSUME bit = 1
                 PROVE  GetU32(in, EndOf(f)) = CheckWord(SubSeq(in, 1, EndOf(f)))
    BY <1>4, Zenon DEF Covered
  <2>2. Has(in, EndOf(f), PutU32(CheckWord(SubSeq(in, 1, EndOf(f)))))
    BY <2>1, FrameSeen, Zenon
  <2>3. CheckWord(SubSeq(in, 1, EndOf(f))) \in Word \X Word
    BY CheckWordType
  <2> QED
    BY <2>2, <2>3, GetPut, Zenon
<1>6. /\ in[1] \div 16 \in Majors /\ ClassIsAssigned(in[1] % 16)
      /\ ~HasReserved(in[2])
  BY <1>2, <1>3, Zenon
<1>7. Consumed(in) = Len(e)
  BY <1>2, <1>4, Zenon DEF Consumed
<1>opt. MinSize + OptionalSize(in[2]) = at + 2 + 4 * bit
  BY <1>2, <1>3, Zenon
<1> HIDE DEF at, bit, len
<1>8. /\ ~(Len(in) < MinSize) /\ Len(in) >= MinSize
      /\ ~(Len(in) < MinSize + OptionalSize(in[2]))
      /\ Len(in) >= MinSize + OptionalSize(in[2])
      /\ ~(DeclaredLength(in) > MaxPayload) /\ DeclaredLength(in) <= MaxPayload
      /\ ~(Len(in) < CheckAt(in)) /\ Len(in) >= CheckAt(in)
      /\ bit = 1 => ~(Len(in) < CheckAt(in) + 4)
  <2>1. at + 2 + 4 * bit <= Len(in) /\ 8 <= Len(in)
    BY <1>1, <1>2
  <2>2. EndOf(f) <= Len(in) /\ (bit = 1 => EndOf(f) + 4 <= Len(in))
        /\ EndOf(f) \in Nat
    BY <1>1, <1>2
  <2> QED
    BY <1>1, <1>2, <1>3, <1>4, <1>opt, <2>1, <2>2 DEF MinSize
<1>9. ReadsPayload(in)
  BY <1>6, <1>8, Zenon DEF ReadsPayload, ReadsHeader, ReadsFlags, ReadsMajor
<1>10. DecodeStatus(in) = "OK"
  <2>1. CASE bit = 0
    BY <1>4, <1>6, <1>8, <2>1, Zenon DEF DecodeStatus
  <2>2. CASE bit = 1
    <3>1. FrameCheck(in[2]) # 0
      BY <1>4, <2>2
    <3> QED
      BY <1>5, <1>6, <1>8, <2>2, <3>1, Zenon DEF DecodeStatus
  <2> QED
    BY <1>2, <2>1, <2>2
<1> QED
  BY <1>7, <1>9, <1>10

\* The struct a successful call leaves, field by field.
LEMMA DecodedFields ==
    ASSUME NEW in, NEW s \in Structs, ReadsPayload(in)
    PROVE  LET d == Decode(in, s)
               flags == in[2]
           IN  /\ d.link_major = in[1] \div 16 /\ d.frame_class = in[1] % 16
               /\ d.flags = flags /\ d.source_ref = GetU32(in, 2)
               /\ d.destination_ref
                      = Optional(Destination(flags), GetU32(in, 6), NoRef)
               /\ d.session_ref
                      = Optional(Session(flags),
                                 GetU32(in, SessionAt(flags)), NoRef)
               /\ d.sequence
                      = Optional(Sequenced(flags),
                                 GetU16(in, SequenceAt(flags)), 0)
               /\ d.freshness_ms
                      = Optional(Freshness(flags),
                                 GetU16(in, FreshAt(flags)), 0)
               /\ d.payload_len = DeclaredLength(in)
               /\ d.payload = IF DeclaredLength(in) # 0
                              THEN LengthAt(flags) + 2 ELSE 0
  BY DEF Decode, Structs, ReadsPayload, ReadsHeader, ReadsFlags

\* The bytes found behind the first at ones.
LEMMA HasIsSubSeq ==
    ASSUME NEW in \in Seq(Octet), NEW at \in Nat, NEW bytes \in Seq(Octet),
           Has(in, at, bytes)
    PROVE  SubSeq(in, at + 1, at + Len(bytes)) = bytes
<1> DEFINE n == Len(bytes)
           x == SubSeq(in, at + 1, at + n)
<1>1. n \in Nat /\ Len(in) \in Nat /\ at + n <= Len(in)
      /\ \A i \in 1..n : in[at + i] = bytes[i]
  BY DEF Has
<1> HIDE DEF n
<1>2. x \in Seq(Octet) /\ Len(x) = n /\ \A i \in 1..n : x[i] = in[at + i]
  <2>1. at + 1 \in 1..Len(in) + 1 /\ at + n \in at..Len(in)
    BY <1>1
  <2> QED
    BY <1>1, <2>1
<1> HIDE DEF x
<1>3. x = bytes
  BY <1>1, <1>2, SameBytes DEF n
<1> QED
  BY <1>3 DEF x, n

\* A frame is received as it was sent: the struct of any earlier calls, decoded
\* into from a buffer that begins with the bytes of an encoded frame, holds the
\* frame that was encoded, fields without their flag as 0.
LEMMA FrameReceived ==
    ASSUME NEW f \in Frames, EncodeStatus(f.link_major, f, MaxSize) = "OK",
           NEW e, IsFrame(e, f), NEW in \in Seq(Octet), Begins(e, in),
           Len(e) <= Len(in), NEW s \in Structs
    PROVE  Received(in, Decode(in, s)) = Meaning(f)
<1> DEFINE d == Decode(in, s)
           fl == f.flags
<1>1. /\ in[1] \div 16 = f.link_major /\ in[1] % 16 = f.frame_class
      /\ in[2] = fl
  <2>1. in[1] = e[1] /\ in[2] = fl
    BY FrameSeen, Zenon
  <2>2. e[1] \div 16 = f.link_major /\ e[1] % 16 = f.frame_class
    BY FrameLayout, Zenon
  <2> QED
    BY <2>1, <2>2, Zenon
<1>2. ReadsPayload(in)
  BY FrameDecodes, Zenon
<1>3. /\ f.source_ref \in Word \X Word /\ f.destination_ref \in Word \X Word
      /\ f.session_ref \in Word \X Word
      /\ f.sequence \in Word /\ f.freshness_ms \in Word
      /\ f.payload \in Seq(Octet) /\ fl \in Nat
  BY EncodableFrame, Zenon
<1>4. /\ d.link_major = f.link_major /\ d.frame_class = f.frame_class
      /\ d.flags = fl /\ d.source_ref = GetU32(in, 2)
      /\ d.destination_ref
             = Optional(Destination(fl), GetU32(in, 6), NoRef)
      /\ d.session_ref
             = Optional(Session(fl), GetU32(in, SessionAt(fl)), NoRef)
      /\ d.sequence = Optional(Sequenced(fl), GetU16(in, SequenceAt(fl)), 0)
      /\ d.freshness_ms = Optional(Freshness(fl), GetU16(in, FreshAt(fl)), 0)
      /\ d.payload_len = DeclaredLength(in)
      /\ d.payload = IF DeclaredLength(in) # 0 THEN LengthAt(fl) + 2 ELSE 0
  BY <1>1, <1>2, DecodedFields, Zenon
<1> HIDE DEF d
<1>5. /\ Has(in, 2, PutU32(f.source_ref))
      /\ Destination(fl) = 1 => Has(in, 6, PutU32(f.destination_ref))
      /\ Session(fl) = 1 => Has(in, SessionAt(fl), PutU32(f.session_ref))
      /\ Sequenced(fl) = 1 => Has(in, SequenceAt(fl), PutU16(f.sequence))
      /\ Freshness(fl) = 1 => Has(in, FreshAt(fl), PutU16(f.freshness_ms))
      /\ DeclaredLength(in) = Len(f.payload)
      /\ Has(in, LengthAt(fl) + 2, f.payload)
  BY FrameSeen, Zenon
<1>6. d.source_ref = f.source_ref
  <2>1. GetU32(in, 2) = f.source_ref
    BY <1>3, <1>5, GetPut
  <2> QED
    BY <1>4, <2>1, Zenon
<1>7. d.destination_ref = Optional(Destination(fl), f.destination_ref, NoRef)
  <2>1. Destination(fl) = 1 => GetU32(in, 6) = f.destination_ref
    BY <1>3, <1>5, GetPut
  <2> QED
    BY <1>4, <2>1, Zenon DEF Optional
<1>8. d.session_ref = Optional(Session(fl), f.session_ref, NoRef)
  <2>1. Session(fl) = 1 => GetU32(in, SessionAt(fl)) = f.session_ref
    BY <1>3, <1>5, GetPut
  <2> QED
    BY <1>4, <2>1, Zenon DEF Optional
<1>9. d.sequence = Optional(Sequenced(fl), f.sequence, 0)
  <2>1. Sequenced(fl) = 1 => GetU16(in, SequenceAt(fl)) = f.sequence
    BY <1>3, <1>5, GetPut
  <2> QED
    BY <1>4, <2>1, Zenon DEF Optional
<1>10. d.freshness_ms = Optional(Freshness(fl), f.freshness_ms, 0)
  <2>1. Freshness(fl) = 1 => GetU16(in, FreshAt(fl)) = f.freshness_ms
    BY <1>3, <1>5, GetPut
  <2> QED
    BY <1>4, <2>1, Zenon DEF Optional
<1>11. PayloadOf(in, d) = f.payload
  <2>1. CASE Len(f.payload) # 0
    <3>1. d.payload = LengthAt(fl) + 2 /\ d.payload_len = Len(f.payload)
      BY <1>4, <1>5, <2>1, Zenon
    <3>2. LengthAt(fl) + 2 \in Nat
      <4>1. LengthAt(fl) \in 6..18
        BY <1>3, Layout
      <4> QED
        BY <4>1
    <3>3. SubSeq(in, (LengthAt(fl) + 2) + 1,
                 (LengthAt(fl) + 2) + Len(f.payload)) = f.payload
      BY <1>3, <1>5, <3>2, HasIsSubSeq
    <3> QED
      BY <3>1, <3>3, Zenon DEF PayloadOf
  <2>2. CASE Len(f.payload) = 0
    <3>1. d.payload = 0 /\ d.payload_len = 0
      BY <1>4, <1>5, <2>2, Zenon
    <3>2. << >> \in Seq(Octet) /\ Len(<< >>) = 0
      OBVIOUS
    <3>3. f.payload = << >>
      BY <1>3, <2>2, <3>2, SameBytes
    <3>4. SubSeq(in, 0 + 1, 0 + 0) = << >>
      OBVIOUS
    <3> QED
      BY <3>1, <3>3, <3>4, Zenon DEF PayloadOf
  <2> QED
    BY <2>1, <2>2, Zenon
<1>12. \A bit : /\ Optional(bit, f.destination_ref, NoRef) \in Word \X Word
                /\ Optional(bit, f.session_ref, NoRef) \in Word \X Word
                /\ Optional(bit, f.sequence, 0) \in Word
                /\ Optional(bit, f.freshness_ms, 0) \in Word
  <2>1. 0 \in Word
    BY Widths
  <2>2. NoRef \in Word \X Word
    BY <2>1 DEF NoRef
  <2> QED
    BY <1>3, <2>1, <2>2, Zenon DEF Optional
<1> DEFINE m == Meaning(f)
           r == Received(in, d)
<1>13. /\ m \in Frames
       /\ m.link_major = f.link_major /\ m.frame_class = f.frame_class
       /\ m.flags = fl /\ m.source_ref = f.source_ref
       /\ m.destination_ref
              = Optional(Destination(fl), f.destination_ref, NoRef)
       /\ m.session_ref = Optional(Session(fl), f.session_ref, NoRef)
       /\ m.sequence = Optional(Sequenced(fl), f.sequence, 0)
       /\ m.freshness_ms = Optional(Freshness(fl), f.freshness_ms, 0)
       /\ m.payload = f.payload
  BY <1>12 DEF Meaning, Frames
<1>14. /\ r.link_major = d.link_major /\ r.frame_class = d.frame_class
       /\ r.flags = d.flags /\ r.source_ref = d.source_ref
       /\ r.destination_ref = d.destination_ref
       /\ r.session_ref = d.session_ref /\ r.sequence = d.sequence
       /\ r.freshness_ms = d.freshness_ms /\ r.payload = PayloadOf(in, d)
  BY DEF Received
<1>15. /\ r.link_major = m.link_major /\ r.frame_class = m.frame_class
       /\ r.flags = m.flags /\ r.source_ref = m.source_ref
       /\ r.destination_ref = m.destination_ref
       /\ r.session_ref = m.session_ref /\ r.sequence = m.sequence
       /\ r.freshness_ms = m.freshness_ms /\ r.payload = m.payload
  BY <1>4, <1>6, <1>7, <1>8, <1>9, <1>10, <1>11, <1>13, <1>14, Zenon
<1>16. r = [link_major |-> r.link_major, frame_class |-> r.frame_class,
            flags |-> r.flags, source_ref |-> r.source_ref,
            destination_ref |-> r.destination_ref,
            session_ref |-> r.session_ref, sequence |-> r.sequence,
            freshness_ms |-> r.freshness_ms, payload |-> r.payload]
  BY <1>14, Zenon DEF Received
<1> HIDE DEF m, r
<1>17. m = [link_major |-> m.link_major, frame_class |-> m.frame_class,
            flags |-> m.flags, source_ref |-> m.source_ref,
            destination_ref |-> m.destination_ref,
            session_ref |-> m.session_ref, sequence |-> m.sequence,
            freshness_ms |-> m.freshness_ms, payload |-> m.payload]
  BY <1>13 DEF Frames
<1>18. r = m
  BY <1>15, <1>16, <1>17, Zenon
<1> QED
  BY <1>18 DEF m, r, d

-----------------------------------------------------------------------------
(* The carriage and its buffer.                                             *)

\* Inductive.  PayloadIsReadable alone is not: the struct is kept when a call
\* fails, so what it says of its payload has to survive the bytes it was read
\* from; and a frame that is delivered must lie in the buffer, not only in
\* storage that was once written, or the carriage would consume bytes it does
\* not have.
StreamInv ==
    /\ wire \in Seq(Octet) /\ buffer \in Seq(Octet)
    /\ extent \in Nat /\ Len(buffer) <= extent /\ extent <= MaxSize
    /\ altered \in BOOLEAN
    /\ frame \in Structs
    /\ sent \in Seq({Meaning(f) : f \in Traffic}) /\ Len(sent) <= SendMax
    /\ delivered \in Seq(Frames)
    /\ verdict = DecodeStatus(buffer)
    /\ PayloadIsReadable
    /\ verdict = "OK" => frame.payload + frame.payload_len <= Len(buffer)

\* The receiver starts with an empty buffer, an empty wire and a zeroed struct.
LEMMA InitStream == Init => StreamInv
<1> SUFFICES ASSUME Init
             PROVE  StreamInv
  OBVIOUS
<1>1. MaxPayload \in Nat
  BY MaxPayloadAssumption, Widths
<1>2. ZeroFrame \in Structs
  <2>1. 0 \in Word /\ 0 \in Octet
    BY Widths
  <2>2. 0 \in Flags /\ 0 \in 0..MaxPayload
    BY <1>1 DEF Flags
  <2> QED
    BY <2>1, <2>2 DEF ZeroFrame, Structs, NoRef
<1>3. frame.payload_len = 0
  BY DEF Init, ZeroFrame
<1>4. DecodeStatus(<<>>) = "TRUNCATED"
  BY DEF DecodeStatus, MinSize
<1>5. 0 <= MaxSize /\ 0 <= SendMax
  BY <1>1, StreamAssumption DEF MaxSize, MinSize
<1>6. <<>> \in Seq(Octet) /\ <<>> \in Seq(Frames) /\ Len(<<>>) = 0
      /\ <<>> \in Seq({Meaning(f) : f \in Traffic})
  OBVIOUS
<1>7. PayloadIsReadable
  BY <1>3 DEF PayloadIsReadable
<1>8. extent = 0 /\ extent \in Nat /\ Len(buffer) <= extent
      /\ extent <= MaxSize /\ Len(sent) <= SendMax
  BY <1>5, <1>6 DEF Init
<1>9. wire \in Seq(Octet) /\ buffer \in Seq(Octet) /\ delivered \in Seq(Frames)
      /\ sent \in Seq({Meaning(f) : f \in Traffic})
  BY <1>6 DEF Init
<1>10. verdict = DecodeStatus(buffer) /\ verdict # "OK" /\ altered = FALSE
       /\ frame \in Structs
  BY <1>2, <1>4 DEF Init
<1> QED
  BY <1>7, <1>8, <1>9, <1>10 DEF StreamInv

\* Whatever bytes the buffer holds next, if they fit: the decoder's answer and
\* the struct agree with them.
LEMMA JudgeInv ==
    ASSUME StreamInv, NEW bytes \in Seq(Octet), Len(bytes) <= MaxSize,
           Judge(bytes)
    PROVE  /\ buffer' \in Seq(Octet)
           /\ extent' \in Nat /\ Len(buffer') <= extent' /\ extent' <= MaxSize
           /\ frame' \in Structs
           /\ verdict' = DecodeStatus(buffer')
           /\ PayloadIsReadable'
           /\ verdict' = "OK" =>
                  frame'.payload + frame'.payload_len <= Len(buffer')
<1>1. /\ buffer' = bytes /\ verdict' = DecodeStatus(bytes)
      /\ frame' = Decode(bytes, frame)
      /\ extent' = IF Len(bytes) > extent THEN Len(bytes) ELSE extent
  BY DEF Judge
<1>2. frame \in Structs /\ extent \in Nat /\ extent <= MaxSize
      /\ (frame.payload_len # 0 =>
              frame.payload + frame.payload_len <= extent)
  BY DEF StreamInv, PayloadIsReadable
<1>3. Len(bytes) \in Nat
  OBVIOUS
<1>4. /\ extent' \in Nat /\ Len(bytes) <= extent' /\ extent <= extent'
      /\ extent' <= MaxSize
  BY <1>1, <1>2, <1>3
<1>5. /\ frame' \in Structs
      /\ ReadsPayload(bytes) =>
             frame'.payload + frame'.payload_len <= Len(bytes)
      /\ ~ReadsPayload(bytes) => /\ frame'.payload = frame.payload
                                 /\ frame'.payload_len = frame.payload_len
  BY <1>1, <1>2, DecodeEffect
<1>6. /\ frame.payload \in Nat /\ frame.payload_len \in Nat
      /\ frame'.payload \in Nat /\ frame'.payload_len \in Nat
  BY <1>2, <1>5, MaxPayloadAssumption, Widths DEF Structs
<1>7. frame'.payload_len # 0 => frame'.payload + frame'.payload_len <= extent'
  BY <1>2, <1>3, <1>4, <1>5, <1>6
<1>8. verdict' = "OK" => ReadsPayload(bytes)
  BY <1>1, Verdicts
<1> QED
  BY <1>1, <1>4, <1>5, <1>7, <1>8 DEF PayloadIsReadable

\* A piece that arrives is there and fits.
LEMMA PiecesFit ==
    ASSUME StreamInv, NEW n \in Pieces
    PROVE  n \in 1..Len(wire) /\ n \in Nat /\ Len(buffer) + n <= MaxSize
<1>1. n \in 1..Len(wire) /\ n <= Room
  BY DEF Pieces
<1>2. Len(buffer) \in Nat /\ Len(wire) \in Nat /\ MaxSize \in Nat
  BY MaxPayloadAssumption, Widths DEF StreamInv, MaxSize, MinSize
<1>3. Len(buffer) <= MaxSize
  BY <1>2 DEF StreamInv
<1> QED
  BY <1>1, <1>2, <1>3 DEF Room

\* mcl_link_frame_encode at the sender appends bytes to the wire.
LEMMA SendInv == StreamInv /\ Send => StreamInv'
<1> SUFFICES ASSUME StreamInv, Send
             PROVE  StreamInv'
  OBVIOUS
<1>1. PICK f \in Traffic : /\ EncodeStatus(f.link_major, f, MaxSize) = "OK"
                           /\ wire' = wire \o Encode(f.link_major, f)
                           /\ sent' = Append(sent, Meaning(f))
  BY DEF Send
<1>2. f \in Frames
  BY StreamAssumption
<1>3. wire' \in Seq(Octet)
  BY <1>1, <1>2, EncodeType, Joined DEF StreamInv
<1>4. sent' \in Seq({Meaning(g) : g \in Traffic}) /\ Len(sent') <= SendMax
  <2>1. Len(sent) < SendMax /\ SendMax \in Nat
    BY StreamAssumption DEF Send
  <2>2. sent \in Seq({Meaning(g) : g \in Traffic})
    BY DEF StreamInv
  <2>3. /\ sent' \in Seq({Meaning(g) : g \in Traffic})
        /\ Len(sent') = Len(sent) + 1 /\ Len(sent) \in Nat
    BY <1>1, <2>2
  <2> QED
    BY <2>1, <2>3
<1>5. UNCHANGED <<buffer, verdict, extent, frame, delivered, altered>>
  BY DEF Send
<1> QED
  BY <1>3, <1>4, <1>5 DEF StreamInv, PayloadIsReadable

\* The read that ends in mcl_link_frame_decode: the buffer stays within its
\* capacity, and the struct is what DecodeEffect says.
LEMMA ArriveInv == StreamInv /\ Arrive => StreamInv'
<1> SUFFICES ASSUME StreamInv, Arrive
             PROVE  StreamInv'
  OBVIOUS
<1>1. PICK n \in Pieces : /\ wire' = Drop(wire, n)
                          /\ Judge(buffer \o SubSeq(wire, 1, n))
  BY DEF Arrive
<1>2. n \in 1..Len(wire) /\ n \in Nat /\ Len(buffer) + n <= MaxSize
  BY PiecesFit
<1>3. wire \in Seq(Octet) /\ buffer \in Seq(Octet)
  BY DEF StreamInv
<1>4. SubSeq(wire, 1, n) \in Seq(Octet) /\ Len(SubSeq(wire, 1, n)) = n
  BY <1>2, <1>3
<1>5. /\ buffer \o SubSeq(wire, 1, n) \in Seq(Octet)
      /\ Len(buffer \o SubSeq(wire, 1, n)) = Len(buffer) + n
  <2> DEFINE piece == SubSeq(wire, 1, n)
  <2>1. piece \in Seq(Octet) /\ Len(piece) = n
    BY <1>4
  <2> HIDE DEF piece
  <2>2. buffer \o piece \in Seq(Octet) /\ Len(buffer \o piece) = Len(buffer) + n
    BY <1>3, <2>1, Joined
  <2> QED
    BY <2>2 DEF piece
<1>6. wire' \in Seq(Octet)
  BY <1>1, <1>2, <1>3, DropType
<1>7. UNCHANGED <<sent, delivered, altered>>
  BY DEF Arrive
<1> QED
  BY <1>1, <1>2, <1>5, <1>6, <1>7, JudgeInv DEF StreamInv

\* The same read, with one byte altered by the carriage.
LEMMA ArriveAlteredInv == StreamInv /\ ArriveAltered => StreamInv'
<1> SUFFICES ASSUME StreamInv, ArriveAltered
             PROVE  StreamInv'
  OBVIOUS
<1>1. PICK n \in Pieces, d \in Noise :
          /\ wire' = Drop(wire, n)
          /\ Judge(buffer \o SubSeq(wire, 1, n - 1)
                          \o <<(wire[n] + d) % 256>>)
  BY DEF ArriveAltered
<1>2. n \in 1..Len(wire) /\ n \in Nat /\ Len(buffer) + n <= MaxSize
  BY PiecesFit
<1>3. wire \in Seq(Octet) /\ buffer \in Seq(Octet)
  BY DEF StreamInv
<1> DEFINE start == SubSeq(wire, 1, n - 1)
           last == <<(wire[n] + d) % 256>>
           joined == buffer \o start
<1>4. start \in Seq(Octet) /\ Len(start) = n - 1
  <2>1. n - 1 \in 0..Len(wire) /\ 1 \in 1..Len(wire) + 1
    BY <1>2
  <2> QED
    BY <1>2, <1>3, <2>1
<1>5. last \in Seq(Octet) /\ Len(last) = 1
  <2>1. wire[n] \in Octet /\ d \in Octet
    BY <1>2, <1>3, StreamAssumption
  <2>2. wire[n] \in Nat /\ d \in Nat
    BY <2>1, Widths
  <2>3. (wire[n] + d) % 256 \in Nat /\ (wire[n] + d) % 256 <= 255
    BY <2>2
  <2>4. (wire[n] + d) % 256 \in Octet
    BY <2>3, Widths
  <2> QED
    BY <2>4
<1>6. Judge(joined \o last)
  BY <1>1
<1> HIDE DEF start, last
<1>7. joined \in Seq(Octet) /\ Len(joined) = Len(buffer) + (n - 1)
  BY <1>3, <1>4, Joined
<1> HIDE DEF joined
<1>8. /\ joined \o last \in Seq(Octet)
      /\ Len(joined \o last) = Len(joined) + Len(last)
  BY <1>5, <1>7, Joined
<1>9. Len(joined \o last) <= MaxSize
  <2>1. Len(buffer) \in Nat
    BY <1>3
  <2> QED
    BY <1>2, <1>5, <1>7, <1>8, <2>1
<1>10. wire' \in Seq(Octet)
  BY <1>1, <1>2, <1>3, DropType
<1>11. altered' = TRUE /\ UNCHANGED <<sent, delivered>>
  BY DEF ArriveAltered
<1> QED
  BY <1>6, <1>8, <1>9, <1>10, <1>11, JudgeInv DEF StreamInv

\* What is delivered lies in the buffer.
LEMMA ReceivedType ==
    ASSUME StreamInv, verdict = "OK"
    PROVE  /\ PayloadOf(buffer, frame) \in Seq(Octet)
           /\ Received(buffer, frame) \in Frames
<1>1. buffer \in Seq(Octet) /\ frame \in Structs
      /\ frame.payload + frame.payload_len <= Len(buffer)
  BY DEF StreamInv
<1>2. frame.payload \in Nat /\ frame.payload_len \in Nat
  BY <1>1, MaxPayloadAssumption, Widths DEF Structs
<1>3. PayloadOf(buffer, frame) \in Seq(Octet)
  <2> DEFINE a == frame.payload + 1
             b == frame.payload + frame.payload_len
  <2>1. a \in 1..Len(buffer) + 1 /\ b \in 0..Len(buffer)
    BY <1>1, <1>2
  <2> HIDE DEF a, b
  <2>2. SubSeq(buffer, a, b) \in Seq(Octet)
    BY <1>1, <2>1
  <2> QED
    BY <2>2 DEF PayloadOf, a, b
<1>4. frame.flags \in Octet
  <2>1. frame.flags \in Flags
    BY <1>1 DEF Structs
  <2>2. frame.flags \in Nat /\ frame.flags <= 255
    BY <2>1 DEF Flags
  <2> QED
    BY <2>2, Widths
<1> QED
  BY <1>1, <1>3, <1>4 DEF Received, Frames, Structs

\* Taking the decoded frame out of the buffer and reading its control.
LEMMA DeliverInv == StreamInv /\ Deliver => StreamInv'
<1> SUFFICES ASSUME StreamInv, Deliver
             PROVE  StreamInv'
  OBVIOUS
<1>1. /\ verdict = "OK" /\ delivered' = Append(delivered, Received(buffer, frame))
      /\ Judge(Drop(buffer, Consumed(buffer)))
      /\ UNCHANGED <<wire, sent, altered>>
  BY DEF Deliver
<1>2. buffer \in Seq(Octet) /\ Len(buffer) <= extent /\ extent <= MaxSize
      /\ verdict = DecodeStatus(buffer) /\ extent \in Nat
  BY DEF StreamInv
<1>3. Consumed(buffer) \in 0..Len(buffer)
  BY <1>1, <1>2, Verdicts
<1>4. /\ Drop(buffer, Consumed(buffer)) \in Seq(Octet)
      /\ Len(Drop(buffer, Consumed(buffer))) = Len(buffer) - Consumed(buffer)
  BY <1>2, <1>3, DropType
<1>5. Len(Drop(buffer, Consumed(buffer))) <= MaxSize
  <2>1. Len(buffer) \in Nat /\ MaxSize \in Nat
    BY <1>2, MaxPayloadAssumption, Widths DEF MaxSize, MinSize
  <2> QED
    BY <1>2, <1>3, <1>4, <2>1
<1>6. delivered' \in Seq(Frames)
  BY <1>1, ReceivedType DEF StreamInv
<1> QED
  BY <1>1, <1>4, <1>5, <1>6, JudgeInv DEF StreamInv

\* Dropping one byte, or all of them, after an error and decoding what is left.
LEMMA ResynchroniseInv == StreamInv /\ Resynchronise => StreamInv'
<1> SUFFICES ASSUME StreamInv, Resynchronise
             PROVE  StreamInv'
  OBVIOUS
<1>1. PICK n \in {1, Len(buffer)} : Judge(Drop(buffer, n))
  BY DEF Resynchronise
<1>2. buffer \in Seq(Octet) /\ Len(buffer) <= extent /\ extent <= MaxSize
      /\ verdict = DecodeStatus(buffer) /\ extent \in Nat
  BY DEF StreamInv
<1>3. Len(buffer) \in Nat /\ 1 <= Len(buffer)
  BY <1>2, Verdicts DEF Resynchronise
<1>4. n \in 0..Len(buffer)
  BY <1>1, <1>3
<1>5. Drop(buffer, n) \in Seq(Octet) /\ Len(Drop(buffer, n)) = Len(buffer) - n
  BY <1>2, <1>4, DropType
<1>6. Len(Drop(buffer, n)) <= MaxSize
  <2>1. MaxSize \in Nat
    BY MaxPayloadAssumption, Widths DEF MaxSize, MinSize
  <2> QED
    BY <1>2, <1>3, <1>4, <1>5, <2>1
<1>7. UNCHANGED <<wire, sent, delivered, altered>>
  BY DEF Resynchronise
<1> QED
  BY <1>1, <1>5, <1>6, <1>7, JudgeInv DEF StreamInv

\* StreamInv is an invariant: every action of the stream preserves it.
LEMMA AlwaysStream == Spec => []StreamInv
<1>1. StreamInv /\ UNCHANGED vars => StreamInv'
  BY DEF StreamInv, vars, PayloadIsReadable
<1>2. StreamInv /\ [Next]_vars => StreamInv'
  BY <1>1, SendInv, ArriveInv, ArriveAlteredInv, DeliverInv, ResynchroniseInv
  DEF Next, Carry
<1> QED
  BY <1>2, InitStream, PTL DEF Spec

-----------------------------------------------------------------------------
(* A stream nobody altered.                                                 *)

\* Two strings at the same place: the shorter one is the beginning of the
\* longer one.
LEMMA HasBoth ==
    ASSUME NEW in, NEW at, NEW x \in Seq(Octet), NEW y \in Seq(Octet),
           Has(in, at, x), Has(in, at, y), Len(x) <= Len(y)
    PROVE  Begins(x, y)
<1>1. Len(x) \in Nat /\ Len(y) \in Nat
  OBVIOUS
<1> QED
  BY <1>1 DEF Has, Begins

\* Two strings, one behind the other.
LEMMA HasJoined ==
    ASSUME NEW in \in Seq(Octet), NEW at, NEW x \in Seq(Octet),
           NEW y \in Seq(Octet), Has(in, at, x), Has(in, at + Len(x), y)
    PROVE  Has(in, at, x \o y)
<1> DEFINE z == x \o y
           m == Len(x)
           n == Len(y)
<1>1. /\ at \in Nat /\ m \in Nat /\ n \in Nat /\ at + m + n <= Len(in)
      /\ \A i \in 1..m : in[at + i] = x[i]
      /\ \A i \in 1..n : in[at + m + i] = y[i]
  BY DEF Has
<1>2. /\ Len(z) = m + n /\ \A i \in 1..m : z[i] = x[i]
      /\ \A i \in 1..n : z[m + i] = y[i]
  BY Joined
<1> HIDE DEF z, m, n
<1>3. ASSUME NEW i \in 1..m + n
      PROVE  in[at + i] = z[i]
  <2>1. CASE i <= m
    BY <1>1, <1>2, <2>1
  <2>2. CASE ~(i <= m)
    <3> DEFINE k == i - m
    <3>1. k \in 1..n /\ m + k = i /\ at + m + k = at + i
      BY <1>1, <2>2
    <3> HIDE DEF k
    <3>2. in[at + m + k] = y[k] /\ z[m + k] = y[k]
      BY <1>1, <1>2, <3>1, Zenon
    <3> QED
      BY <3>1, <3>2, Zenon
  <2> QED
    BY <2>1, <2>2
<1>4. at + Len(z) <= Len(in)
  BY <1>1, <1>2
<1>5. Has(in, at, z)
  BY <1>1, <1>2, <1>3, <1>4 DEF Has
<1> QED
  BY <1>5 DEF z

\* The first n bytes of a string, and the rest behind them.
LEMMA HasSplit ==
    ASSUME NEW in \in Seq(Octet), NEW at, NEW w \in Seq(Octet),
           Has(in, at, w), NEW n \in 0..Len(w)
    PROVE  /\ Has(in, at, SubSeq(w, 1, n))
           /\ Has(in, at + n, Drop(w, n))
<1> DEFINE x == SubSeq(w, 1, n)
           y == Drop(w, n)
<1>1. /\ at \in Nat /\ Len(w) \in Nat /\ at + Len(w) <= Len(in)
      /\ \A i \in 1..Len(w) : in[at + i] = w[i]
      /\ n \in Nat /\ n <= Len(w) /\ Len(in) \in Nat
  BY DEF Has
<1>2. Len(x) = n /\ \A i \in 1..n : x[i] = w[i]
  BY <1>1, FirstBytes
<1>3. Len(y) = Len(w) - n /\ \A i \in 1..(Len(w) - n) : y[i] = w[n + i]
  <2>1. n + 1 \in 1..Len(w) + 1
    BY <1>1
  <2> QED
    BY <1>1, <2>1 DEF Drop
<1> HIDE DEF x, y
<1>4. Has(in, at, x)
  <2>1. at + Len(x) <= Len(in)
    BY <1>1, <1>2
  <2>2. ASSUME NEW i \in 1..Len(x)
        PROVE  in[at + i] = x[i]
    <3>1. i \in 1..n /\ i \in 1..Len(w)
      BY <1>1, <1>2
    <3> QED
      BY <1>1, <1>2, <3>1
  <2> QED
    BY <1>1, <2>1, <2>2 DEF Has
<1>5. Has(in, at + n, y)
  <2>1. at + n \in Nat /\ at + n + Len(y) <= Len(in) /\ Len(y) \in Nat
    BY <1>1, <1>3
  <2>2. ASSUME NEW i \in 1..Len(y)
        PROVE  in[at + n + i] = y[i]
    <3>1. i \in 1..(Len(w) - n) /\ n + i \in 1..Len(w)
          /\ at + n + i = at + (n + i)
      BY <1>1, <1>3, <2>1
    <3>2. in[at + (n + i)] = w[n + i] /\ y[i] = w[n + i]
      BY <1>1, <1>3, <3>1
    <3> QED
      BY <3>1, <3>2, Zenon
  <2> QED
    BY <2>1, <2>2 DEF Has
<1> QED
  BY <1>4, <1>5 DEF x, y

\* The bytes of a frame of the traffic.
Bytes(f) == Encode(f.link_major, f)

\* All the bytes ever sent, in frames: frame i begins behind the first pos[i]
\* of them and is received as messages[i].
Laid(stream, src, pos, messages) ==
    /\ pos[Len(messages) + 1] = Len(stream)
    /\ \A i \in 1..Len(messages) :
           /\ EncodeStatus(src[i].link_major, src[i], MaxSize) = "OK"
           /\ messages[i] = Meaning(src[i])
           /\ pos[i + 1] = pos[i] + Len(Bytes(src[i]))
           /\ Has(stream, pos[i], Bytes(src[i]))

\* What comes behind the first at bytes is in arrived, and then in coming.
Held(stream, at, arrived, coming) ==
    /\ at + Len(arrived) + Len(coming) = Len(stream)
    /\ Has(stream, at, arrived)
    /\ Has(stream, at + Len(arrived), coming)

\* Frames arrived as they were sent.
InOrder ==
    /\ Len(delivered) <= Len(sent)
    /\ \A i \in 1..Len(delivered) : delivered[i] = sent[i]

\* Inductive.  That frames arrive in order is not: what the next one will be
\* depends on the bytes in the buffer and on the wire, which must begin where
\* a frame begins.
Intact ==
    /\ InOrder
    /\ \E stream \in Seq(Octet) :
       \E src \in [1..Len(sent) -> Traffic] :
       \E pos \in [1..Len(sent) + 1 -> Nat] :
           /\ Laid(stream, src, pos, sent)
           /\ Held(stream, pos[Len(delivered) + 1], buffer, wire)

\* What the decoder says of a buffer that begins where a frame begins.
LEMMA NextFrame ==
    ASSUME StreamInv, InOrder, NEW stream \in Seq(Octet),
           NEW src \in [1..Len(sent) -> Traffic],
           NEW pos \in [1..Len(sent) + 1 -> Nat],
           Laid(stream, src, pos, sent),
           Held(stream, pos[Len(delivered) + 1], buffer, wire)
    PROVE  \/ DecodeStatus(buffer) = "TRUNCATED"
           \/ /\ DecodeStatus(buffer) = "OK" /\ Len(delivered) < Len(sent)
              /\ pos[Len(delivered) + 2]
                     = pos[Len(delivered) + 1] + Consumed(buffer)
              /\ \A s \in Structs : Received(buffer, Decode(buffer, s))
                                        = sent[Len(delivered) + 1]
<1> DEFINE d == Len(delivered)
           n == Len(sent)
           b == pos[d + 1]
<1>1. /\ d \in Nat /\ n \in Nat /\ d <= n /\ buffer \in Seq(Octet)
      /\ wire \in Seq(Octet)
  BY DEF StreamInv, InOrder
<1>2. /\ b \in Nat /\ b + Len(buffer) + Len(wire) = Len(stream)
      /\ Has(stream, b, buffer)
      /\ Len(buffer) \in Nat /\ Len(wire) \in Nat /\ Len(stream) \in Nat
  BY <1>1 DEF Held
<1>3. CASE d = n
  <2>1. b = Len(stream)
    BY <1>3 DEF Laid
  <2> HIDE DEF b, d, n
  <2>2. Len(buffer) < MinSize
    BY <1>2, <2>1 DEF MinSize
  <2> QED
    BY <2>2, Zenon DEF DecodeStatus
<1>4. CASE d < n
  <2> DEFINE f == src[d + 1]
             e == Bytes(f)
  <2>1. d + 1 \in 1..n /\ (d + 1) + 1 = d + 2
    BY <1>1, <1>4
  <2>2. /\ EncodeStatus(f.link_major, f, MaxSize) = "OK"
        /\ sent[d + 1] = Meaning(f) /\ pos[d + 2] = b + Len(e)
        /\ Has(stream, b, e)
    BY <2>1 DEF Laid
  <2>3. f \in Traffic
    BY <2>1
  <2>4. f \in Frames
    BY <2>3, StreamAssumption
  <2> HIDE DEF f
  <2>5. IsFrame(e, f) /\ e \in Seq(Octet)
    BY <2>2, <2>4, EncodeIsFrame, EncodeType DEF Bytes
  <2> HIDE DEF e, b, d, n
  <2>6. CASE Len(buffer) < Len(e)
    <3>1. Len(buffer) <= Len(e)
      BY <1>2, <2>5, <2>6
    <3>2. Begins(buffer, e)
      BY <1>1, <1>2, <2>2, <2>5, <3>1, HasBoth
    <3> QED
      BY <2>2, <2>4, <2>5, <2>6, <3>2, FramePrefix
  <2>7. CASE ~(Len(buffer) < Len(e))
    <3>1. Len(e) <= Len(buffer)
      BY <1>2, <2>5, <2>7
    <3>2. Begins(e, buffer)
      BY <1>1, <1>2, <2>2, <2>5, <3>1, HasBoth
    <3>3. DecodeStatus(buffer) = "OK" /\ Consumed(buffer) = Len(e)
      BY <1>1, <2>2, <2>4, <2>5, <3>1, <3>2, FrameDecodes
    <3>4. \A s \in Structs : Received(buffer, Decode(buffer, s)) = Meaning(f)
      BY <1>1, <2>2, <2>4, <2>5, <3>1, <3>2, FrameReceived
    <3> QED
      BY <1>4, <2>2, <3>3, <3>4, Zenon DEF b, d, n
  <2> QED
    BY <2>6, <2>7
<1> QED
  BY <1>1, <1>3, <1>4

\* A frame that can be delivered was decoded from the buffer as it is.
Fresh == verdict = "OK" => \E s \in Structs : frame = Decode(buffer, s)

\* The carriage asks the decoder whenever the bytes of the buffer change.
LEMMA AlwaysFresh == Spec => []Fresh
<1>1. Init => Fresh
  BY DEF Init, Fresh
<1>2. ASSUME StreamInv, NEW bytes, Judge(bytes)
      PROVE  Fresh'
  <2>1. frame' = Decode(buffer', frame) /\ frame \in Structs
    BY <1>2 DEF Judge, StreamInv
  <2> QED
    BY <2>1 DEF Fresh
<1>3. ASSUME Fresh, UNCHANGED <<verdict, frame, buffer>>
      PROVE  Fresh'
  BY <1>3 DEF Fresh
<1>4. StreamInv /\ Fresh /\ [Next]_vars => Fresh'
  <2> SUFFICES ASSUME StreamInv, Fresh, [Next]_vars
               PROVE  Fresh'
    OBVIOUS
  <2>1. (\E bytes : Judge(bytes)) \/ UNCHANGED <<verdict, frame, buffer>>
    BY Zenon DEF Next, Carry, Send, Arrive, ArriveAltered, Deliver,
                 Resynchronise, vars
  <2> QED
    BY <1>2, <1>3, <2>1
<1> QED
  BY <1>1, <1>4, AlwaysStream, PTL DEF Spec

\* Nothing has been sent.
LEMMA InitIntact == Init => Intact
<1> SUFFICES ASSUME Init
             PROVE  Intact
  OBVIOUS
<1> DEFINE src == [i \in 1..0 |-> 0]
           pos == [i \in 1..1 |-> 0]
<1>1. /\ wire = <<>> /\ buffer = <<>> /\ sent = <<>> /\ delivered = <<>>
      /\ Len(wire) = 0 /\ Len(buffer) = 0 /\ Len(sent) = 0
      /\ Len(delivered) = 0 /\ <<>> \in Seq(Octet) /\ Len(<<>>) = 0
  BY DEF Init
<1>2. src \in [1..Len(sent) -> Traffic]
  <2>1. 1..Len(sent) = 1..0 /\ \A i \in 1..0 : FALSE
    BY <1>1
  <2> QED
    BY <2>1
<1>3. pos \in [1..Len(sent) + 1 -> Nat] /\ pos[Len(sent) + 1] = 0
      /\ pos[Len(delivered) + 1] = 0
  BY <1>1
<1> HIDE DEF src, pos
<1>4. Laid(<<>>, src, pos, sent)
  BY <1>1, <1>3 DEF Laid
<1>5. Held(<<>>, pos[Len(delivered) + 1], buffer, wire)
  BY <1>1, <1>3 DEF Held, Has
<1>6. InOrder
  BY <1>1 DEF InOrder
<1> QED
  BY <1>1, <1>2, <1>3, <1>4, <1>5, <1>6 DEF Intact

\* mcl_link_frame_encode at the sender: the new frame comes behind all others.
LEMMA SendIntact ==
    ASSUME StreamInv, Intact, Send
    PROVE  Intact'
<1> DEFINE n == Len(sent)
           d == Len(delivered)
<1>1. PICK f \in Traffic : /\ EncodeStatus(f.link_major, f, MaxSize) = "OK"
                           /\ wire' = wire \o Bytes(f)
                           /\ sent' = Append(sent, Meaning(f))
  BY DEF Send, Bytes
<1>2. UNCHANGED <<buffer, delivered>>
  BY DEF Send
<1>3. PICK stream \in Seq(Octet), src \in [1..n -> Traffic],
           pos \in [1..n + 1 -> Nat] :
               /\ Laid(stream, src, pos, sent)
               /\ Held(stream, pos[d + 1], buffer, wire)
  BY DEF Intact
<1>4. /\ n \in Nat /\ d \in Nat /\ d <= n
      /\ \A i \in 1..d : delivered[i] = sent[i]
      /\ wire \in Seq(Octet) /\ buffer \in Seq(Octet)
  BY DEF StreamInv, Intact, InOrder
<1> DEFINE e == Bytes(f)
           stream1 == stream \o e
           src1 == [i \in 1..n + 1 |-> IF i = n + 1 THEN f ELSE src[i]]
           pos1 == [i \in 1..n + 2 |->
                        IF i = n + 2 THEN Len(stream) + Len(e) ELSE pos[i]]
<1>5. e \in Seq(Octet) /\ Len(e) \in Nat /\ Len(stream) \in Nat
  <2>1. f \in Frames
    BY StreamAssumption
  <2> QED
    BY <1>1, <2>1, EncodeType DEF Bytes
<1>6. /\ Len(sent') = n + 1 /\ sent'[n + 1] = Meaning(f)
      /\ \A i \in 1..n : sent'[i] = sent[i]
  <2>1. sent \in Seq({Meaning(g) : g \in Traffic})
    BY DEF StreamInv
  <2> QED
    BY <1>1, <2>1
<1> HIDE DEF n, d, e
<1>7. /\ stream1 \in Seq(Octet) /\ Len(stream1) = Len(stream) + Len(e)
      /\ Len(stream) <= Len(stream1) /\ Begins(stream, stream1)
      /\ Has(stream1, Len(stream), e)
  BY <1>5, FieldPut
<1> HIDE DEF stream1
<1>8. /\ pos[n + 1] = Len(stream)
      /\ \A i \in 1..n :
             /\ EncodeStatus(src[i].link_major, src[i], MaxSize) = "OK"
             /\ sent[i] = Meaning(src[i])
             /\ pos[i + 1] = pos[i] + Len(Bytes(src[i]))
             /\ Has(stream, pos[i], Bytes(src[i]))
  BY <1>3 DEF Laid, n
<1>9. src1 \in [1..n + 1 -> Traffic] /\ src1[n + 1] = f
      /\ \A i \in 1..n : src1[i] = src[i]
  BY <1>4
<1>10. pos1 \in [1..n + 2 -> Nat] /\ pos1[n + 2] = Len(stream) + Len(e)
       /\ \A i \in 1..n + 1 : pos1[i] = pos[i]
  BY <1>4, <1>5
<1> HIDE DEF src1, pos1
<1>11. ASSUME NEW i \in 1..n + 1
       PROVE  /\ EncodeStatus(src1[i].link_major, src1[i], MaxSize) = "OK"
              /\ sent'[i] = Meaning(src1[i])
              /\ pos1[i + 1] = pos1[i] + Len(Bytes(src1[i]))
              /\ Has(stream1, pos1[i], Bytes(src1[i]))
  <2>1. CASE i = n + 1
    <3>1. i + 1 = n + 2 /\ i \in 1..n + 1
      BY <1>4, <2>1
    <3>2. /\ src1[i] = f /\ pos1[i] = Len(stream) /\ sent'[i] = Meaning(f)
          /\ pos1[i + 1] = Len(stream) + Len(e)
      BY <1>6, <1>8, <1>9, <1>10, <2>1, <3>1, Zenon
    <3> QED
      BY <1>1, <1>7, <3>2, Zenon DEF e
  <2>2. CASE i # n + 1
    <3>1. i \in 1..n /\ i + 1 \in 1..n + 1
      BY <1>4, <2>2
    <3>2. /\ src1[i] = src[i] /\ pos1[i] = pos[i] /\ pos1[i + 1] = pos[i + 1]
          /\ sent'[i] = sent[i]
      BY <1>6, <1>9, <1>10, <3>1
    <3>3. src[i] \in Traffic
      BY <3>1
    <3>4. src[i] \in Frames /\ EncodeStatus(src[i].link_major, src[i], MaxSize) = "OK"
      BY <1>8, <3>1, <3>3, StreamAssumption
    <3>5. Bytes(src[i]) \in Seq(Octet)
      BY <3>4, EncodeType DEF Bytes
    <3>6. Has(stream, pos[i], Bytes(src[i]))
      BY <1>8, <3>1
    <3>7. Has(stream1, pos[i], Bytes(src[i]))
      BY <1>7, <3>5, <3>6, HasExtended
    <3> QED
      BY <1>8, <3>1, <3>2, <3>7, Zenon
  <2> QED
    BY <2>1, <2>2
<1>12. (n + 1) + 1 = n + 2
  BY <1>4
<1>13. Laid(stream1, src1, pos1, sent')
  BY <1>6, <1>7, <1>10, <1>11, <1>12, Zenon DEF Laid
<1>14. Held(stream1, pos1[d + 1], buffer', wire')
  <2>1. d + 1 \in 1..n + 1
    BY <1>4
  <2> DEFINE b == pos[d + 1]
  <2>2. pos1[d + 1] = b /\ b \in Nat
    BY <1>10, <2>1
  <2>3. /\ b + Len(buffer) + Len(wire) = Len(stream)
        /\ Has(stream, b, buffer) /\ Has(stream, b + Len(buffer), wire)
    BY <1>3 DEF Held
  <2> HIDE DEF b
  <2>4. Has(stream1, b, buffer) /\ Has(stream1, b + Len(buffer), wire)
    BY <1>4, <1>7, <2>3, HasExtended
  <2>5. (b + Len(buffer)) + Len(wire) = Len(stream)
    BY <2>3
  <2>6. Has(stream1, b + Len(buffer), wire \o e)
    BY <1>4, <1>5, <1>7, <2>4, <2>5, HasJoined
  <2>7. Len(wire \o e) = Len(wire) + Len(e) /\ Len(wire) \in Nat
        /\ Len(buffer) \in Nat
    BY <1>4, <1>5, Joined
  <2>8. b + Len(buffer) + Len(wire \o e) = Len(stream1)
    <3>1. /\ b + Len(buffer) + Len(wire) = Len(stream)
          /\ Len(wire \o e) = Len(wire) + Len(e)
          /\ Len(stream1) = Len(stream) + Len(e)
      BY <1>7, <2>3, <2>7, Zenon
    <3>2. /\ b \in Nat /\ Len(buffer) \in Nat /\ Len(wire) \in Nat
          /\ Len(e) \in Nat /\ Len(stream) \in Nat
      BY <1>5, <2>2, <2>7, Zenon
    <3> QED
      BY <3>1, <3>2
  <2>9. wire' = wire \o e /\ buffer' = buffer
    BY <1>1, <1>2 DEF e
  <2> QED
    BY <2>2, <2>4, <2>6, <2>8, <2>9, Zenon DEF Held
<1>15. InOrder'
  <2>1. d <= n + 1 /\ \A i \in 1..d : i \in 1..n
    BY <1>4
  <2>2. \A i \in 1..d : delivered[i] = sent'[i]
    BY <1>4, <1>6, <2>1
  <2> QED
    BY <1>2, <1>6, <2>1, <2>2 DEF InOrder, d
<1>16. Len(delivered') = d /\ Len(sent') + 1 = n + 2
  BY <1>2, <1>6, <1>12 DEF d
<1> QED
  <2>1. /\ src1 \in [1..Len(sent') -> Traffic]
        /\ pos1 \in [1..Len(sent') + 1 -> Nat]
        /\ Held(stream1, pos1[Len(delivered') + 1], buffer', wire')
    BY <1>6, <1>9, <1>10, <1>14, <1>16, Zenon
  <2> QED
    BY <1>7, <1>13, <1>15, <2>1, Zenon DEF Intact

\* Bytes that arrive go from the wire to the buffer.
LEMMA ArriveIntact ==
    ASSUME StreamInv, Intact, Arrive
    PROVE  Intact'
<1> DEFINE d == Len(delivered)
<1>1. PICK n \in Pieces : /\ wire' = Drop(wire, n)
                          /\ Judge(buffer \o SubSeq(wire, 1, n))
  BY DEF Arrive
<1>2. UNCHANGED <<sent, delivered>>
  BY DEF Arrive
<1>3. PICK stream \in Seq(Octet), src \in [1..Len(sent) -> Traffic],
           pos \in [1..Len(sent) + 1 -> Nat] :
               /\ Laid(stream, src, pos, sent)
               /\ Held(stream, pos[d + 1], buffer, wire)
  BY DEF Intact
<1> DEFINE b == pos[d + 1]
           piece == SubSeq(wire, 1, n)
           rest == Drop(wire, n)
<1>4. /\ wire \in Seq(Octet) /\ buffer \in Seq(Octet)
      /\ n \in 0..Len(wire) /\ n \in Nat
  BY PiecesFit DEF StreamInv
<1>5. /\ b + Len(buffer) + Len(wire) = Len(stream)
      /\ Has(stream, b, buffer) /\ Has(stream, b + Len(buffer), wire)
  BY <1>3 DEF Held
<1>6. b \in Nat
  BY <1>5 DEF Has
<1>7. /\ piece \in Seq(Octet) /\ Len(piece) = n
      /\ rest \in Seq(Octet) /\ Len(rest) = Len(wire) - n
  <2>1. n <= Len(wire)
    BY <1>4
  <2> QED
    BY <1>4, <2>1, FirstBytes, DropType
<1> HIDE DEF b
<1>8. /\ Has(stream, b + Len(buffer), piece)
      /\ Has(stream, (b + Len(buffer)) + n, rest)
  BY <1>4, <1>5, HasSplit
<1> HIDE DEF piece, rest
<1>9. Has(stream, b, buffer \o piece)
  BY <1>4, <1>5, <1>7, <1>8, HasJoined
<1>10. Len(buffer \o piece) = Len(buffer) + n
  BY <1>4, <1>7, Joined
<1>11. /\ b + Len(buffer \o piece) + Len(rest) = Len(stream)
       /\ b + Len(buffer \o piece) = (b + Len(buffer)) + n
  <2>1. /\ Len(buffer \o piece) = Len(buffer) + n
        /\ Len(rest) = Len(wire) - n
        /\ b + Len(buffer) + Len(wire) = Len(stream)
    BY <1>5, <1>7, <1>10, Zenon
  <2>2. Len(buffer) \in Nat /\ Len(wire) \in Nat /\ n \in Nat /\ b \in Nat
    BY <1>4, <1>6
  <2>3. ASSUME NEW x \in Nat, NEW y \in Nat
        PROVE  /\ b + (x + n) + (y - n) = b + x + y
               /\ b + (x + n) = (b + x) + n
    BY <2>2
  <2> QED
    BY <2>1, <2>2, <2>3, Zenon
<1>12. Held(stream, b, buffer \o piece, rest)
  BY <1>8, <1>9, <1>11, Zenon DEF Held
<1>13. buffer' = buffer \o piece /\ wire' = rest
  BY <1>1 DEF Judge, piece, rest
<1>14. InOrder'
  BY <1>2 DEF Intact, InOrder
<1>15. Held(stream, pos[Len(delivered') + 1], buffer', wire')
  BY <1>2, <1>12, <1>13, Zenon DEF b
<1> QED
  BY <1>2, <1>3, <1>14, <1>15, Zenon DEF Intact

\* The frame that is delivered is the next that was sent, and what is left in
\* the buffer begins with the one behind it.
LEMMA DeliverIntact ==
    ASSUME StreamInv, Fresh, Intact, Deliver
    PROVE  /\ Intact'
           /\ Len(delivered) < Len(sent)
           /\ delivered' = Append(delivered, sent[Len(delivered) + 1])
<1> DEFINE d == Len(delivered)
           n == Len(sent)
           k == Consumed(buffer)
<1>1. /\ verdict = "OK" /\ wire' = wire /\ sent' = sent
      /\ delivered' = Append(delivered, Received(buffer, frame))
      /\ buffer' = Drop(buffer, k)
  BY DEF Deliver, Judge
<1>2. PICK stream \in Seq(Octet), src \in [1..n -> Traffic],
           pos \in [1..n + 1 -> Nat] :
               /\ Laid(stream, src, pos, sent)
               /\ Held(stream, pos[d + 1], buffer, wire)
  BY DEF Intact
<1>3. InOrder /\ verdict = DecodeStatus(buffer) /\ buffer \in Seq(Octet)
      /\ wire \in Seq(Octet) /\ delivered \in Seq(Frames) /\ d \in Nat
  BY DEF Intact, StreamInv
<1>4. DecodeStatus(buffer) = "OK"
  BY <1>1, <1>3, Zenon
<1>5. /\ d < n /\ pos[d + 2] = pos[d + 1] + k
      /\ \A s \in Structs : Received(buffer, Decode(buffer, s)) = sent[d + 1]
  <2>1. "OK" # "TRUNCATED"
    OBVIOUS
  <2>2. DecodeStatus(buffer) # "TRUNCATED"
    BY <1>4, <2>1, Zenon
  <2> QED
    BY <1>2, <1>3, <2>2, NextFrame, Zenon
<1>6. Received(buffer, frame) = sent[d + 1]
  BY <1>1, <1>5 DEF Fresh
<1>7. k \in 0..Len(buffer)
  BY <1>3, <1>4, Verdicts
<1> DEFINE b == pos[d + 1]
           rest == Drop(buffer, k)
<1>8. /\ b + Len(buffer) + Len(wire) = Len(stream)
      /\ Has(stream, b, buffer) /\ Has(stream, b + Len(buffer), wire)
  BY <1>2 DEF Held
<1>9. b \in Nat
  BY <1>8 DEF Has
<1>10. rest \in Seq(Octet) /\ Len(rest) = Len(buffer) - k
  BY <1>3, <1>7, DropType
<1> HIDE DEF b, k
<1>11. Has(stream, b + k, rest)
  BY <1>3, <1>7, <1>8, HasSplit
<1> HIDE DEF rest
<1>12. /\ (b + k) + Len(rest) + Len(wire) = Len(stream)
       /\ (b + k) + Len(rest) = b + Len(buffer)
  <2>1. Len(rest) = Len(buffer) - k
        /\ b + Len(buffer) + Len(wire) = Len(stream)
    BY <1>8, <1>10, Zenon
  <2>2. Len(buffer) \in Nat /\ Len(wire) \in Nat /\ k \in Nat /\ b \in Nat
    BY <1>3, <1>7, <1>9
  <2>3. ASSUME NEW x \in Nat, NEW y \in Nat
        PROVE  /\ (b + k) + (x - k) + y = b + x + y
               /\ (b + k) + (x - k) = b + x
    BY <2>2
  <2> QED
    BY <2>1, <2>2, <2>3, Zenon
<1>13. Held(stream, b + k, rest, wire)
  BY <1>8, <1>11, <1>12, Zenon DEF Held
<1>14. /\ Len(delivered') = d + 1 /\ delivered'[d + 1] = sent[d + 1]
       /\ \A i \in 1..d : delivered'[i] = delivered[i]
  <2>1. Received(buffer, frame) \in Frames
    BY <1>1, ReceivedType
  <2> DEFINE r == Received(buffer, frame)
  <2>2. delivered' = Append(delivered, r) /\ r = sent[d + 1] /\ r \in Frames
    BY <1>1, <1>6, <2>1
  <2> HIDE DEF r
  <2> QED
    BY <1>3, <2>2
<1>15. pos[Len(delivered') + 1] = b + k
  <2>1. (d + 1) + 1 = d + 2
    BY <1>3
  <2> QED
    BY <1>5, <1>14, <2>1, Zenon DEF b
<1>16. InOrder'
  <2>1. d \in Nat /\ n \in Nat /\ d < n
        /\ \A i \in 1..d : delivered[i] = sent[i]
    BY <1>3, <1>5 DEF StreamInv, InOrder
  <2> HIDE DEF d, n
  <2>2. d + 1 <= n
    BY <2>1
  <2>3. ASSUME NEW i \in 1..d + 1
        PROVE  delivered'[i] = sent[i]
    <3>1. CASE i = d + 1
      BY <1>14, <3>1
    <3>2. CASE i # d + 1
      <4>1. i \in 1..d
        BY <2>1, <3>2
      <4> QED
        BY <1>14, <2>1, <4>1
    <3> QED
      BY <3>1, <3>2
  <2> QED
    BY <1>1, <1>14, <2>2, <2>3 DEF InOrder, n
<1>17. Held(stream, pos[Len(delivered') + 1], buffer', wire')
  BY <1>1, <1>13, <1>15, Zenon DEF rest
<1>18. Intact'
  BY <1>1, <1>2, <1>16, <1>17, Zenon DEF Intact
<1> QED
  BY <1>1, <1>5, <1>6, <1>18, Zenon

\* There is nothing to resynchronise on.
LEMMA NeverResynchronises ==
    ASSUME StreamInv, Intact, Resynchronise
    PROVE  FALSE
<1>1. verdict # "OK" /\ verdict # "TRUNCATED" /\ verdict = DecodeStatus(buffer)
  BY DEF Resynchronise, StreamInv
<1>2. PICK stream \in Seq(Octet), src \in [1..Len(sent) -> Traffic],
           pos \in [1..Len(sent) + 1 -> Nat] :
               /\ Laid(stream, src, pos, sent)
               /\ Held(stream, pos[Len(delivered) + 1], buffer, wire)
  BY DEF Intact
<1>3. InOrder
  BY DEF Intact
<1>4. DecodeStatus(buffer) = "TRUNCATED" \/ DecodeStatus(buffer) = "OK"
  BY <1>2, <1>3, NextFrame, Zenon
<1> QED
  BY <1>1, <1>4, Zenon

\* As long as nothing was altered, the stream is intact.
LEMMA AlwaysIntact == Spec => [](~altered => Intact)
<1>1. Init => (~altered => Intact)
  BY InitIntact
<1>2. ASSUME StreamInv, Fresh, ~altered => Intact, [Next]_vars, ~altered'
      PROVE  Intact'
  <2>1. ~altered /\ ~ArriveAltered
    BY <1>2 DEF Next, Carry, Send, Arrive, ArriveAltered, Deliver,
                Resynchronise, vars
  <2>2. Intact
    BY <1>2, <2>1
  <2>3. CASE UNCHANGED vars
    BY <2>2, <2>3 DEF Intact, InOrder, vars
  <2>4. CASE Next
    <3>1. Send \/ Arrive \/ Deliver \/ Resynchronise
      BY <2>1, <2>4 DEF Next, Carry
    <3> QED
      BY <1>2, <2>2, <3>1, SendIntact, ArriveIntact, DeliverIntact,
         NeverResynchronises
  <2> QED
    BY <1>2, <2>3, <2>4
<1>3. StreamInv /\ Fresh /\ (~altered => Intact) /\ [Next]_vars
          => (~altered => Intact)'
  BY <1>2
<1> QED
  BY <1>1, <1>3, AlwaysStream, AlwaysFresh, PTL DEF Spec

-----------------------------------------------------------------------------
(* The controls.                                                            *)

\* A number that was read is written as the bytes it was read from.
LEMMA PutGet16 ==
    ASSUME NEW a \in Octet, NEW b \in Octet
    PROVE  /\ 256 * a + b \in Word
           /\ PutU16(256 * a + b) = <<a, b>>
<1>1. a \in Nat /\ a <= 255 /\ b \in Nat /\ b <= 255
  BY Widths
<1>2. 256 * a + b \in Nat /\ 256 * a + b <= 65535
  BY <1>1
<1>3. 256 * a + b \in Word
  BY <1>2, Widths
<1>4. (256 * a + b) \div 256 = a /\ (256 * a + b) % 256 = b
  BY <1>1
<1> QED
  BY <1>3, <1>4 DEF PutU16

\* The bytes that four bytes of the input, read as a 32-bit number, are
\* written as.
LEMMA PutGet32 ==
    ASSUME NEW in \in Seq(Octet), NEW at \in Nat, at + 4 <= Len(in)
    PROVE  LET w == PutU32(GetU32(in, at))
           IN  /\ GetU32(in, at) \in Word \X Word
               /\ w \in Seq(Octet) /\ Len(w) = 4
               /\ \A i \in 1..4 : w[i] = in[at + i]
<1> DEFINE a == in[at + 1]
           b == in[at + 2]
           c == in[at + 2 + 1]
           d == in[at + 2 + 2]
<1>1. /\ at + 1 \in 1..Len(in) /\ at + 2 \in 1..Len(in)
      /\ at + 2 + 1 \in 1..Len(in) /\ at + 2 + 2 \in 1..Len(in)
      /\ at + 2 + 1 = at + 3 /\ at + 2 + 2 = at + 4
  OBVIOUS
<1>2. a \in Octet /\ b \in Octet /\ c \in Octet /\ d \in Octet
  BY <1>1
<1>3. GetU32(in, at) = <<256 * a + b, 256 * c + d>>
  BY DEF GetU32, GetU16
<1>4. c = in[at + 3] /\ d = in[at + 4]
  BY <1>1
<1> HIDE DEF a, b, c, d
<1>5. PutU32(GetU32(in, at)) = <<a, b>> \o <<c, d>>
  <2> DEFINE u == 256 * a + b
             v == 256 * c + d
  <2>1. PutU16(u) = <<a, b>> /\ PutU16(v) = <<c, d>>
    BY <1>2, PutGet16
  <2>2. GetU32(in, at) = <<u, v>>
    BY <1>3
  <2> HIDE DEF u, v
  <2>3. PutU32(<<u, v>>) = PutU16(u) \o PutU16(v)
    BY DEF PutU32
  <2> QED
    BY <2>1, <2>2, <2>3, Zenon
<1>6. GetU32(in, at) \in Word \X Word
  BY <1>2, <1>3, PutGet16
<1> DEFINE x == <<a, b>>
           y == <<c, d>>
           w == PutU32(GetU32(in, at))
<1>7. /\ x \in Seq(Octet) /\ Len(x) = 2 /\ x[1] = a /\ x[2] = b
      /\ y \in Seq(Octet) /\ Len(y) = 2 /\ y[1] = c /\ y[2] = d
  BY <1>2
<1>8. w = x \o y
  BY <1>5
<1> HIDE DEF x, y, w
<1>9. /\ w \in Seq(Octet) /\ Len(w) = Len(x) + Len(y)
      /\ \A i \in 1..Len(x) : w[i] = x[i]
      /\ \A i \in 1..Len(y) : w[Len(x) + i] = y[i]
  BY <1>7, <1>8, Joined
<1>10. Len(w) = 4 /\ w[1] = a /\ w[2] = b
  BY <1>7, <1>9
<1>11. w[2 + 1] = c /\ w[2 + 2] = d /\ 2 + 1 = 3 /\ 2 + 2 = 4
  BY <1>7, <1>9
<1>12. w[3] = c /\ w[4] = d
  BY <1>11
<1>13. \A i \in 1..4 : w[i] = in[at + i]
  <2>1. \A i \in 1..4 : i = 1 \/ i = 2 \/ i = 3 \/ i = 4
    OBVIOUS
  <2>2. w[1] = in[at + 1] /\ w[2] = in[at + 2] /\ w[3] = in[at + 3]
        /\ w[4] = in[at + 4]
    BY <1>4, <1>10, <1>12 DEF a, b
  <2> QED
    BY <2>1, <2>2
<1> QED
  BY <1>6, <1>9, <1>10, <1>13 DEF w

\* The structs a receiver keeps.
AckStructs == [control_version: Octet, reason: Octet, acked_sequence: Word]

CloseStructs == [control_version: Octet, reason: Octet]

HandoffStructs ==
    [operation: Octet, migration_ref: Word \X Word, session_ref: Word \X Word,
     challenge_present: BOOLEAN, challenge: Seq(Octet)]

\* A string that may be read as exactly n bytes is n bytes long.
LEMMA ExactLengthOK ==
    ASSUME NEW size \in Nat, NEW n \in Nat, ExactLength(size, n) = "OK"
    PROVE  size = n
  BY DEF ExactLength

\* mcl_link_ack_decode followed by mcl_link_ack_encode gives back the bytes.
LEMMA AckRoundTrip ==
    ASSUME NEW in \in Seq(Octet), NEW is_ack \in BOOLEAN,
           AckDecodeStatus(in, is_ack) = "OK"
    PROVE  /\ AckDecode(in) \in AckStructs
           /\ AckEncodeStatus(AckDecode(in), is_ack, AckSize) = "OK"
           /\ AckEncode(AckDecode(in)) = in
<1>1. ExactLength(Len(in), AckSize) = "OK" /\ in[1] = ControlVersion
      /\ AckReasonIsLegal(is_ack, in[2])
  BY DEF AckDecodeStatus
<1>2. Len(in) = 4
  <2>1. Len(in) \in Nat /\ 4 \in Nat
    OBVIOUS
  <2>2. ExactLength(Len(in), 4) = "OK"
    BY <1>1 DEF AckSize
  <2> QED
    BY <2>1, <2>2, ExactLengthOK, Zenon
<1>3. in[1] \in Octet /\ in[2] \in Octet /\ in[3] \in Octet /\ in[4] \in Octet
  BY <1>2
<1>4. GetU16(in, 2) = 256 * in[3] + in[4]
  <2>1. 2 + 1 = 3 /\ 2 + 2 = 4
    OBVIOUS
  <2> QED
    BY <2>1 DEF GetU16
<1>5. GetU16(in, 2) \in Word /\ PutU16(GetU16(in, 2)) = <<in[3], in[4]>>
  BY <1>3, <1>4, PutGet16
<1>6. AckDecode(in) \in AckStructs
  BY <1>3, <1>5 DEF AckDecode, AckStructs
<1>7. /\ AckDecode(in).control_version = in[1] /\ AckDecode(in).reason = in[2]
      /\ AckDecode(in).acked_sequence = GetU16(in, 2)
  BY DEF AckDecode
<1>8. AckEncodeStatus(AckDecode(in), is_ack, AckSize) = "OK"
  BY <1>1, <1>7 DEF AckEncodeStatus, AckSize
<1> DEFINE x == <<in[1], in[2]>>
           y == <<in[3], in[4]>>
<1>9. AckEncode(AckDecode(in)) = x \o y
  BY <1>5, <1>7 DEF AckEncode
<1>10. /\ x \in Seq(Octet) /\ Len(x) = 2 /\ x[1] = in[1] /\ x[2] = in[2]
       /\ y \in Seq(Octet) /\ Len(y) = 2 /\ y[1] = in[3] /\ y[2] = in[4]
  BY <1>3
<1> HIDE DEF x, y
<1>11. x \o y = in
  <2> DEFINE w == x \o y
  <2>1. /\ w \in Seq(Octet) /\ Len(w) = Len(x) + Len(y)
        /\ \A i \in 1..Len(x) : w[i] = x[i]
        /\ \A i \in 1..Len(y) : w[Len(x) + i] = y[i]
    BY <1>10, Joined
  <2> HIDE DEF w
  <2>2. Len(w) = 4 /\ w[1] = in[1] /\ w[2] = in[2]
    BY <1>10, <2>1
  <2>3. w[2 + 1] = in[3] /\ w[2 + 2] = in[4] /\ 2 + 1 = 3 /\ 2 + 2 = 4
    BY <1>10, <2>1
  <2>4. w[3] = in[3] /\ w[4] = in[4]
    BY <2>3
  <2>5. \A i \in 1..4 : i = 1 \/ i = 2 \/ i = 3 \/ i = 4
    OBVIOUS
  <2>6. \A i \in 1..Len(w) : w[i] = in[i]
    BY <2>2, <2>4, <2>5
  <2>7. w = in
    BY <1>2, <2>1, <2>2, <2>6, SameBytes
  <2> QED
    BY <2>7 DEF w
<1> QED
  BY <1>6, <1>8, <1>9, <1>11

\* mcl_link_close_decode followed by mcl_link_close_encode.
LEMMA CloseRoundTrip ==
    ASSUME NEW in \in Seq(Octet), CloseDecodeStatus(in) = "OK"
    PROVE  /\ CloseDecode(in) \in CloseStructs
           /\ CloseEncodeStatus(CloseDecode(in), CloseSize) = "OK"
           /\ CloseEncode(CloseDecode(in)) = in
<1>1. ExactLength(Len(in), CloseSize) = "OK" /\ in[1] = ControlVersion
      /\ CloseReasonIsAssigned(in[2])
  BY DEF CloseDecodeStatus
<1>2. Len(in) = 2
  <2>1. Len(in) \in Nat
    OBVIOUS
  <2> QED
    BY <1>1, <2>1 DEF ExactLength, CloseSize
<1>3. in[1] \in Octet /\ in[2] \in Octet
  BY <1>2
<1>4. CloseDecode(in) \in CloseStructs
  BY <1>3 DEF CloseDecode, CloseStructs
<1>5. CloseEncodeStatus(CloseDecode(in), CloseSize) = "OK"
  BY <1>1 DEF CloseEncodeStatus, CloseDecode, CloseSize
<1> DEFINE x == <<in[1], in[2]>>
<1>6. CloseEncode(CloseDecode(in)) = x
  BY DEF CloseEncode, CloseDecode
<1>7. x \in Seq(Octet) /\ Len(x) = 2 /\ x[1] = in[1] /\ x[2] = in[2]
  BY <1>3
<1> HIDE DEF x
<1>8. \A i \in 1..2 : i = 1 \/ i = 2
  OBVIOUS
<1>9. x = in
  BY <1>2, <1>7, <1>8, SameBytes
<1> QED
  BY <1>4, <1>5, <1>6, <1>9

\* A beginning of a string, and what follows it there.
LEMMA BeginsJoined ==
    ASSUME NEW x, NEW y \in Seq(Octet), NEW in \in Seq(Octet), Begins(x, in),
           \A i \in 1..Len(y) : y[i] = in[Len(x) + i]
    PROVE  Begins(x \o y, in) /\ Len(x \o y) = Len(x) + Len(y)
<1> DEFINE w == x \o y
<1>1. /\ w \in Seq(Octet) /\ Len(w) = Len(x) + Len(y)
      /\ \A i \in 1..Len(x) : w[i] = x[i]
      /\ \A i \in 1..Len(y) : w[Len(x) + i] = y[i]
  BY Joined DEF Begins
<1>2. Len(x) \in Nat /\ Len(y) \in Nat
  BY DEF Begins
<1> HIDE DEF w
<1>3. ASSUME NEW i \in 1..Len(w)
      PROVE  w[i] = in[i]
  <2>1. CASE i <= Len(x)
    <3>1. i \in 1..Len(x)
      BY <1>2, <2>1
    <3> QED
      BY <1>1, <3>1 DEF Begins
  <2>2. CASE ~(i <= Len(x))
    <3>1. i - Len(x) \in 1..Len(y) /\ Len(x) + (i - Len(x)) = i
      BY <1>1, <1>2, <2>2
    <3>2. w[Len(x) + (i - Len(x))] = in[Len(x) + (i - Len(x))]
      BY <1>1, <3>1
    <3> QED
      BY <3>1, <3>2
  <2> QED
    BY <2>1, <2>2
<1> QED
  BY <1>1, <1>3 DEF Begins, w

\* The operations of the HANDOFF control and the length each has.
LEMMA HandoffSizes ==
    ASSUME NEW op
    PROVE  /\ CarriesChallenge(op) <=> op \in {1, 2}
           /\ OpIsAssigned(op) =>
                  HandoffEncodedSize(op) = IF CarriesChallenge(op) THEN 18 ELSE 10
  BY DEF CarriesChallenge, Op, OpIsAssigned, HandoffEncodedSize,
         HandoffMaxSize, HandoffHeaderSize, ChallengeSize

\* A slice of a string.
LEMMA SliceType ==
    ASSUME NEW in \in Seq(Octet), NEW a \in 1..Len(in) + 1,
           NEW b \in 0..Len(in)
    PROVE  /\ SubSeq(in, a, b) \in Seq(Octet)
           /\ a <= b => Len(SubSeq(in, a, b)) = b - a + 1
<1>1. SubSeq(in, a, b) \in Seq(Octet)
  OBVIOUS
<1>2. a <= b => Len(SubSeq(in, a, b)) = b - a + 1
  OBVIOUS
<1> QED
  BY <1>1, <1>2

\* The challenge is the last eight bytes.
LEMMA ChallengeBytes ==
    ASSUME NEW in \in Seq(Octet), Len(in) = 18
    PROVE  /\ SubSeq(in, 11, 18) \in Seq(Octet)
           /\ Len(SubSeq(in, 11, 18)) = 8
           /\ \A i \in 1..8 : SubSeq(in, 11, 18)[i] = in[11 + i - 1]
<1>1. SubSeq(in, 11, 18) \in Seq(Octet) /\ Len(SubSeq(in, 11, 18)) = 8
  <2>1. 11 \in 1..Len(in) + 1 /\ 18 \in 0..Len(in) /\ 11 <= 18
    OBVIOUS
  <2>2. /\ SubSeq(in, 11, 18) \in Seq(Octet)
        /\ Len(SubSeq(in, 11, 18)) = 18 - 11 + 1
    BY <2>1, SliceType, Zenon
  <2>3. 18 - 11 + 1 = 8
    OBVIOUS
  <2> QED
    BY <2>2, <2>3, Zenon
<1>2. ASSUME NEW i \in 1..8
      PROVE  SubSeq(in, 11, 18)[i] = in[11 + i - 1]
  OBVIOUS
<1> QED
  BY <1>1, <1>2

\* mcl_handoff_control_decode into a struct that holds any earlier control,
\* followed by mcl_handoff_control_encode: the bytes come back, and nothing of
\* the earlier control is left.
LEMMA HandoffRoundTrip ==
    ASSUME NEW in \in Seq(Octet), NEW control \in HandoffStructs,
           HandoffDecodeStatus(in) = "OK"
    PROVE  LET d == HandoffDecode(in, control)
           IN  /\ d \in HandoffStructs
               /\ HandoffEncodeStatus(d, HandoffMaxSize) = "OK"
               /\ HandoffEncode(d) = in
               /\ CarriesChallenge(d.operation)
                      \/ d.challenge = Zeros(ChallengeSize)
<1> DEFINE op == in[2]
           carries == CarriesChallenge(op)
           mig == GetU32(in, 2)
           ses == GetU32(in, 6)
           tail == IF carries THEN SubSeq(in, 11, 18) ELSE <<>>
           challenge == IF carries THEN SubSeq(in, 11, 18) ELSE Zeros(8)
           d == HandoffDecode(in, control)
<1>1. /\ ~(Len(in) < HandoffHeaderSize) /\ in[1] = ControlVersion
      /\ OpIsAssigned(op)
      /\ ExactLength(Len(in), HandoffEncodedSize(op)) = "OK"
      /\ mig # NoRef /\ ses # NoRef
  BY Zenon DEF HandoffDecodeStatus
<1>2. Len(in) = IF carries THEN 18 ELSE 10
  <2>1. Len(in) \in Nat /\ HandoffEncodedSize(op) \in Nat
    BY <1>1, HandoffSizes
  <2>2. Len(in) = HandoffEncodedSize(op)
    BY <1>1, <2>1, ExactLengthOK
  <2> QED
    BY <1>1, <2>2, HandoffSizes
<1>3. Len(in) \in Nat /\ 10 <= Len(in)
  BY <1>2
<1>4. in[1] \in Octet /\ in[2] \in Octet
  BY <1>3
<1>5. /\ mig \in Word \X Word /\ PutU32(mig) \in Seq(Octet)
      /\ Len(PutU32(mig)) = 4 /\ \A i \in 1..4 : PutU32(mig)[i] = in[2 + i]
  <2>1. 2 \in Nat /\ 2 + 4 <= Len(in)
    BY <1>3
  <2> QED
    BY <2>1, PutGet32
<1>6. /\ ses \in Word \X Word /\ PutU32(ses) \in Seq(Octet)
      /\ Len(PutU32(ses)) = 4 /\ \A i \in 1..4 : PutU32(ses)[i] = in[6 + i]
  <2>1. 6 \in Nat /\ 6 + 4 <= Len(in)
    BY <1>3
  <2> QED
    BY <2>1, PutGet32
<1>7. /\ tail \in Seq(Octet) /\ Len(in) = 10 + Len(tail)
      /\ \A i \in 1..Len(tail) : tail[i] = in[10 + i]
  <2>1. CASE carries
    <3> DEFINE t == SubSeq(in, 11, 18)
    <3>0. Len(in) = 18
      BY <1>2, <2>1
    <3>1. /\ t \in Seq(Octet) /\ Len(t) = 8
          /\ \A i \in 1..8 : t[i] = in[11 + i - 1]
      BY <3>0, ChallengeBytes
    <3>2. tail = t
      BY <2>1
    <3> HIDE DEF t
    <3>3. \A i \in 1..8 : 11 + i - 1 = 10 + i
      OBVIOUS
    <3>4. \A i \in 1..8 : t[i] = in[10 + i]
      BY <3>1, <3>3
    <3> HIDE DEF tail
    <3>5. 18 = 10 + 8
      OBVIOUS
    <3> QED
      BY <3>0, <3>1, <3>2, <3>4, <3>5, Zenon
  <2>2. CASE ~carries
    BY <1>2, <2>2
  <2> QED
    BY <2>1, <2>2
<1>8. challenge \in Seq(Octet)
  <2>1. Zeros(8) \in Seq(Octet)
    <3>1. 0 \in Octet
      BY Widths
    <3> QED
      BY <3>1 DEF Zeros
  <2> QED
    BY <1>7, <2>1
<1>9. /\ d \in HandoffStructs
      /\ d.operation = op /\ d.migration_ref = mig /\ d.session_ref = ses
      /\ d.challenge_present = carries /\ d.challenge = challenge
  <2>1. HandoffHeaderSize + 1 = 11 /\ HandoffMaxSize = 18 /\ ChallengeSize = 8
    BY DEF HandoffHeaderSize, HandoffMaxSize, ChallengeSize
  <2>2. d = [control EXCEPT !.operation = op, !.migration_ref = mig,
                            !.session_ref = ses,
                            !.challenge_present = carries,
                            !.challenge = challenge]
    BY <2>1 DEF HandoffDecode
  <2>3. carries \in BOOLEAN
    BY DEF CarriesChallenge
  <2> HIDE DEF d, op, mig, ses, challenge, carries
  <2>4. op \in Octet
    BY <1>4 DEF op
  <2> QED
    BY <1>5, <1>6, <1>8, <2>2, <2>3, <2>4 DEF HandoffStructs
<1>10. HandoffEncodeStatus(d, HandoffMaxSize) = "OK"
  <2>1. ~(HandoffMaxSize < HandoffEncodedSize(op))
    BY <1>1, HandoffSizes DEF HandoffMaxSize, HandoffHeaderSize, ChallengeSize
  <2> HIDE DEF d, op, mig, ses, challenge
  <2> QED
    BY <1>1, <1>9, <2>1, Zenon DEF HandoffEncodeStatus
<1>11. HandoffEncode(d) = in
  <2> DEFINE e0 == <<in[1], in[2]>>
             e1 == e0 \o PutU32(mig)
             e2 == e1 \o PutU32(ses)
             e3 == e2 \o tail
  <2>1. HandoffEncode(d) = e3
    <3> HIDE DEF d, mig, ses
    <3> QED
      BY <1>1, <1>9 DEF HandoffEncode
  <2>2. Begins(e0, in) /\ Len(e0) = 2
    <3>1. e0 \in Seq(Octet) /\ Len(e0) = 2 /\ e0[1] = in[1] /\ e0[2] = in[2]
      BY <1>4
    <3> HIDE DEF e0
    <3>2. \A i \in 1..2 : i = 1 \/ i = 2
      OBVIOUS
    <3> QED
      BY <3>1, <3>2 DEF Begins
  <2> HIDE DEF e0, mig, ses, tail
  <2>3. Begins(e1, in) /\ Len(e1) = 6
    <3>1. Begins(e1, in) /\ Len(e1) = Len(e0) + Len(PutU32(mig))
      BY <1>5, <2>2, BeginsJoined
    <3> HIDE DEF e1
    <3> QED
      BY <1>5, <2>2, <3>1
  <2> HIDE DEF e1
  <2>4. Begins(e2, in) /\ Len(e2) = 10
    <3>1. Begins(e2, in) /\ Len(e2) = Len(e1) + Len(PutU32(ses))
      BY <1>6, <2>3, BeginsJoined
    <3> HIDE DEF e2
    <3> QED
      BY <1>6, <2>3, <3>1
  <2> HIDE DEF e2
  <2>5. Begins(e3, in) /\ Len(e3) = Len(in)
    <3>1. Begins(e3, in) /\ Len(e3) = Len(e2) + Len(tail)
      BY <1>7, <2>4, BeginsJoined
    <3> HIDE DEF e3
    <3> QED
      BY <1>7, <2>4, <3>1
  <2> HIDE DEF e3
  <2>6. e3 = in
    BY <2>5, SameBytes DEF Begins
  <2> QED
    BY <2>1, <2>6
<1>12. CarriesChallenge(d.operation) \/ d.challenge = Zeros(ChallengeSize)
  <2> HIDE DEF d
  <2> QED
    BY <1>9 DEF ChallengeSize
<1> HIDE DEF d
<1> QED
  BY <1>9, <1>10, <1>11, <1>12 DEF d

\* A struct holds the control r, a class and the bytes read under it.
AckAsRead(ack, r) ==
    /\ AckEncodeStatus(ack, r.class = Class.ACK, AckSize) = "OK"
    /\ AckEncode(ack) = r.payload

CloseAsRead(close, r) ==
    /\ CloseEncodeStatus(close, CloseSize) = "OK"
    /\ CloseEncode(close) = r.payload

HandoffAsRead(handoff, r) ==
    /\ HandoffEncodeStatus(handoff, HandoffMaxSize) = "OK"
    /\ HandoffEncode(handoff) = r.payload
    /\ CarriesChallenge(handoff.operation)
           \/ handoff.challenge = Zeros(ChallengeSize)

ControlStructs ==
    [ack: AckStructs, close: CloseStructs, handoff: HandoffStructs]

\* Inductive, given that the bytes that are delivered are bytes.
ControlsInv ==
    /\ controls \in ControlStructs
    /\ read \in [{"ack", "close", "handoff"} ->
                      SUBSET [class: Octet, payload: Seq(Octet)]]
    /\ \A r \in read["ack"] : AckAsRead(controls.ack, r)
    /\ \A r \in read["close"] : CloseAsRead(controls.close, r)
    /\ \A r \in read["handoff"] : HandoffAsRead(controls.handoff, r)

\* The control structs start zeroed and nothing has been read into them.
LEMMA InitControls == Init => ControlsInv
<1> SUFFICES ASSUME Init
             PROVE  ControlsInv
  OBVIOUS
<1>1. 0 \in Octet /\ 0 \in Word
  BY Widths
<1>2. Zeros(ChallengeSize) \in Seq(Octet)
  BY <1>1 DEF Zeros, ChallengeSize
<1>3. /\ ZeroAck \in AckStructs /\ ZeroClose \in CloseStructs
      /\ ZeroHandoff \in HandoffStructs
  BY <1>1, <1>2
  DEF ZeroAck, ZeroClose, ZeroHandoff, AckStructs, CloseStructs,
      HandoffStructs, NoRef
<1>4. controls \in ControlStructs
  BY <1>3 DEF Init, ControlStructs
<1>5. /\ read \in [{"ack", "close", "handoff"} ->
                       SUBSET [class: Octet, payload: Seq(Octet)]]
      /\ read["ack"] = {} /\ read["close"] = {} /\ read["handoff"] = {}
  BY DEF Init
<1> QED
  BY <1>4, <1>5 DEF ControlsInv

\* The numbers of the classes a control has a struct for.
LEMMA Classes ==
    /\ Class.ACK = 4 /\ Class.NACK = 5 /\ Class.KEEPALIVE = 6
    /\ Class.HANDOFF = 8 /\ Class.CLOSE = 9
  BY DEF Class

\* Which decoder a class is read by.
LEMMA Contracts ==
    ASSUME NEW class, NEW payload
    PROVE  /\ class = 4 => /\ StructOf(class) = "ack"
                          /\ ContractStatus(class, payload)
                                 = AckDecodeStatus(payload, TRUE)
           /\ class = 5 => /\ StructOf(class) = "ack"
                          /\ ContractStatus(class, payload)
                                 = AckDecodeStatus(payload, FALSE)
           /\ class = 8 => /\ StructOf(class) = "handoff"
                          /\ ContractStatus(class, payload)
                                 = HandoffDecodeStatus(payload)
           /\ class = 9 => /\ StructOf(class) = "close"
                          /\ ContractStatus(class, payload)
                                 = CloseDecodeStatus(payload)
           /\ class \notin {4, 5, 8, 9} => StructOf(class) = "none"
<1>1. CASE class = 4
  BY <1>1, Classes DEF StructOf, ContractStatus
<1>2. CASE class = 5
  BY <1>2, Classes DEF StructOf, ContractStatus
<1>3. CASE class = 8
  BY <1>3, Classes DEF StructOf, ContractStatus
<1>4. CASE class = 9
  BY <1>4, Classes DEF StructOf, ContractStatus
<1>5. CASE class \notin {4, 5, 8, 9}
  BY <1>5, Classes DEF StructOf
<1> QED
  BY <1>1, <1>2, <1>3, <1>4, <1>5

\* What DecodeControl assigns.
LEMMA Decoders ==
    ASSUME NEW class, NEW payload, NEW structs
    PROVE  /\ class \in {4, 5} => DecodeControl(class, payload, structs)
                  = [structs EXCEPT !.ack = AckDecode(payload)]
           /\ class = 9 => DecodeControl(class, payload, structs)
                  = [structs EXCEPT !.close = CloseDecode(payload)]
           /\ class = 8 => DecodeControl(class, payload, structs)
                  = [structs EXCEPT !.handoff = HandoffDecode(payload, @)]
<1>1. CASE class \in {4, 5}
  BY <1>1, Classes DEF DecodeControl
<1>2. CASE class = 8
  BY <1>2, Classes DEF DecodeControl
<1>3. CASE class = 9
  BY <1>3, Classes DEF DecodeControl
<1> QED
  BY <1>1, <1>2, <1>3

\* A control read under its contract replaces what its struct held, and leaves
\* the other structs alone.
LEMMA ReadControlInv ==
    ASSUME ControlsInv, NEW class \in Octet, NEW payload \in Seq(Octet),
           ReadControl(class, payload)
    PROVE  ControlsInv'
<1> DEFINE r == [class |-> class, payload |-> payload]
<1>1. /\ controls \in ControlStructs
      /\ read \in [{"ack", "close", "handoff"} ->
                       SUBSET [class: Octet, payload: Seq(Octet)]]
      /\ r \in [class: Octet, payload: Seq(Octet)]
      /\ r.class = class /\ r.payload = payload
  BY DEF ControlsInv
<1>2. CASE ~(StructOf(class) # "none" /\ ContractStatus(class, payload) = "OK")
  BY <1>2 DEF ReadControl, ControlsInv
<1>3. ASSUME StructOf(class) # "none", ContractStatus(class, payload) = "OK"
      PROVE  /\ controls' = DecodeControl(class, payload, controls)
             /\ read' = [read EXCEPT ![StructOf(class)] = {r}]
  BY <1>3 DEF ReadControl
<1> HIDE DEF r
<1>4. ASSUME NEW a \in AckStructs, class \in {4, 5}, a = AckDecode(payload),
             StructOf(class) = "ack", ContractStatus(class, payload) = "OK",
             AckAsRead(a, r)
      PROVE  ControlsInv'
  <2>1. controls' = [controls EXCEPT !.ack = a]
    BY <1>3, <1>4, Decoders
  <2>2. read' = [read EXCEPT !["ack"] = {r}]
    BY <1>3, <1>4
  <2>3. /\ controls' \in ControlStructs /\ controls'.ack = a
        /\ controls'.close = controls.close
        /\ controls'.handoff = controls.handoff
    BY <1>1, <2>1 DEF ControlStructs
  <2>4. /\ read' \in [{"ack", "close", "handoff"} ->
                          SUBSET [class: Octet, payload: Seq(Octet)]]
        /\ read'["ack"] = {r} /\ read'["close"] = read["close"]
        /\ read'["handoff"] = read["handoff"]
    BY <1>1, <2>2
  <2> QED
    BY <1>4, <2>3, <2>4 DEF ControlsInv
<1>5. CASE class = 4 /\ ContractStatus(class, payload) = "OK"
  <2>1. AckDecodeStatus(payload, TRUE) = "OK" /\ StructOf(class) = "ack"
    BY <1>5, Contracts
  <2>2. /\ AckDecode(payload) \in AckStructs
        /\ AckEncodeStatus(AckDecode(payload), TRUE, AckSize) = "OK"
        /\ AckEncode(AckDecode(payload)) = payload
    BY <2>1, AckRoundTrip
  <2>3. (r.class = Class.ACK) = TRUE
    BY <1>1, <1>5, Classes
  <2>4. AckAsRead(AckDecode(payload), r)
    BY <1>1, <2>2, <2>3, Zenon DEF AckAsRead
  <2> QED
    BY <1>4, <1>5, <2>1, <2>2, <2>4
<1>6. CASE class = 5 /\ ContractStatus(class, payload) = "OK"
  <2>1. AckDecodeStatus(payload, FALSE) = "OK" /\ StructOf(class) = "ack"
    BY <1>6, Contracts
  <2>2. /\ AckDecode(payload) \in AckStructs
        /\ AckEncodeStatus(AckDecode(payload), FALSE, AckSize) = "OK"
        /\ AckEncode(AckDecode(payload)) = payload
    BY <2>1, AckRoundTrip
  <2>3. (r.class = Class.ACK) = FALSE
    BY <1>1, <1>6, Classes
  <2>4. AckAsRead(AckDecode(payload), r)
    BY <1>1, <2>2, <2>3, Zenon DEF AckAsRead
  <2> QED
    BY <1>4, <1>6, <2>1, <2>2, <2>4
<1>7. CASE class = 9 /\ ContractStatus(class, payload) = "OK"
  <2> DEFINE a == CloseDecode(payload)
  <2>1. CloseDecodeStatus(payload) = "OK" /\ StructOf(class) = "close"
    BY <1>7, Contracts
  <2>2. a \in CloseStructs /\ CloseAsRead(a, r)
    BY <1>1, <2>1, CloseRoundTrip DEF CloseAsRead
  <2>3. controls' = [controls EXCEPT !.close = a]
    BY <1>3, <1>7, <2>1, Decoders
  <2>4. read' = [read EXCEPT !["close"] = {r}]
    BY <1>3, <1>7, <2>1
  <2> HIDE DEF a
  <2>5. /\ controls' \in ControlStructs /\ controls'.close = a
        /\ controls'.ack = controls.ack
        /\ controls'.handoff = controls.handoff
    BY <1>1, <2>2, <2>3 DEF ControlStructs
  <2>6. /\ read' \in [{"ack", "close", "handoff"} ->
                          SUBSET [class: Octet, payload: Seq(Octet)]]
        /\ read'["close"] = {r} /\ read'["ack"] = read["ack"]
        /\ read'["handoff"] = read["handoff"]
    BY <1>1, <2>4
  <2> QED
    BY <2>2, <2>5, <2>6 DEF ControlsInv
<1>8. CASE class = 8 /\ ContractStatus(class, payload) = "OK"
  <2> DEFINE a == HandoffDecode(payload, controls.handoff)
  <2>1. HandoffDecodeStatus(payload) = "OK" /\ StructOf(class) = "handoff"
    BY <1>8, Contracts
  <2>2. controls.handoff \in HandoffStructs
    BY <1>1 DEF ControlStructs
  <2>3. a \in HandoffStructs /\ HandoffAsRead(a, r)
    BY <1>1, <2>1, <2>2, HandoffRoundTrip DEF HandoffAsRead
  <2>4. controls' = [controls EXCEPT !.handoff = a]
    BY <1>3, <1>8, <2>1, Decoders
  <2>5. read' = [read EXCEPT !["handoff"] = {r}]
    BY <1>3, <1>8, <2>1
  <2> HIDE DEF a
  <2>6. /\ controls' \in ControlStructs /\ controls'.handoff = a
        /\ controls'.ack = controls.ack
        /\ controls'.close = controls.close
    BY <1>1, <2>3, <2>4 DEF ControlStructs
  <2>7. /\ read' \in [{"ack", "close", "handoff"} ->
                          SUBSET [class: Octet, payload: Seq(Octet)]]
        /\ read'["handoff"] = {r} /\ read'["ack"] = read["ack"]
        /\ read'["close"] = read["close"]
    BY <1>1, <2>5
  <2> QED
    BY <2>3, <2>6, <2>7 DEF ControlsInv
<1>9. CASE class \notin {4, 5, 8, 9}
  BY <1>2, <1>9, Contracts
<1> QED
  BY <1>2, <1>5, <1>6, <1>7, <1>8, <1>9

\* ControlsInv is an invariant: only Deliver touches the control structs.
LEMMA AlwaysControls == Spec => []ControlsInv
<1>1. ASSUME StreamInv, ControlsInv, Deliver
      PROVE  ControlsInv'
  <2>1. verdict = "OK" /\ ReadControl(frame.frame_class, PayloadOf(buffer, frame))
    BY <1>1 DEF Deliver
  <2>2. frame.frame_class \in Octet
    BY <1>1 DEF StreamInv, Structs
  <2>3. PayloadOf(buffer, frame) \in Seq(Octet)
    BY <1>1, <2>1, ReceivedType
  <2> QED
    BY <1>1, <2>1, <2>2, <2>3, ReadControlInv
<1>2. ASSUME ControlsInv, Send \/ Arrive \/ ArriveAltered \/ Resynchronise
                              \/ UNCHANGED vars
      PROVE  ControlsInv'
  <2>1. UNCHANGED <<controls, read>>
    BY <1>2 DEF Send, Arrive, ArriveAltered, Resynchronise, vars
  <2> QED
    BY <1>2, <2>1 DEF ControlsInv
<1>3. StreamInv /\ ControlsInv /\ [Next]_vars => ControlsInv'
  BY <1>1, <1>2 DEF Next, Carry
<1> QED
  BY <1>3, InitControls, AlwaysStream, PTL DEF Spec

-----------------------------------------------------------------------------
(* The properties.                                                          *)

\* What is on the wire and in the buffer is bytes, the buffer never outgrows
\* the largest frame, and the receiver's struct keeps its type through every
\* sequence of successful and failed calls of mcl_link_frame_decode.
THEOREM StreamTypes == Spec => []TypeOK
<1>1. StreamInv => TypeOK
  <2> SUFFICES ASSUME StreamInv
               PROVE  TypeOK
    OBVIOUS
  <2>1. frame \in Structs
    BY DEF StreamInv
  <2>2. frame.flags \in Flags /\ frame.payload_len \in 0..MaxPayload
    BY <2>1 DEF Structs
  <2>3. frame.flags < 32
    BY <2>2 DEF Flags
  <2> QED
    BY <2>2, <2>3 DEF StreamInv, TypeOK
<1> QED
  BY <1>1, AlwaysStream, PTL

\* link.h:35-41 and 188-196: a buffer of the size of the largest frame is
\* enough, whatever bytes arrive.  With it full the decoder says that there is
\* a frame or that there can be none, and the carriage goes on.
THEOREM StreamDecides == Spec => []FullBufferIsDecided
<1>1. StreamInv => FullBufferIsDecided
  BY Verdicts DEF StreamInv, FullBufferIsDecided
<1> QED
  BY <1>1, AlwaysStream, PTL

\* link.c mcl_link_frame_decode: no sequence of successes and errors leaves
\* the struct with a payload beyond the bytes that were received.
THEOREM StreamReadable == Spec => []PayloadIsReadable
<1>1. StreamInv => PayloadIsReadable
  BY DEF StreamInv
<1> QED
  BY <1>1, AlwaysStream, PTL

\* control.c and handoff.c: a struct that is decoded into again and again
\* holds exactly the control that was accepted last.
THEOREM StreamControls == Spec => []ControlsAreWhatWasRead
<1>1. ControlsInv => ControlsAreWhatWasRead
  BY DEF ControlsInv, ControlsAreWhatWasRead, AckAsRead, CloseAsRead,
         HandoffAsRead
<1> QED
  BY <1>1, AlwaysControls, PTL

\* control.c mcl_link_ack_decode, as an ACK: four bytes, the second of which
\* is no reason.
LEMMA AckShape ==
    ASSUME NEW p \in Seq(Octet), AckDecodeStatus(p, TRUE) = "OK"
    PROVE  Len(p) = 4 /\ p[2] = 0
<1>1. ExactLength(Len(p), AckSize) = "OK" /\ p[2] = 0
  BY Zenon DEF AckDecodeStatus, AckReasonIsLegal
<1>2. Len(p) \in Nat
  OBVIOUS
<1>3. AckSize = 4 /\ AckSize \in Nat
  BY DEF AckSize
<1>4. Len(p) = AckSize
  BY <1>1, <1>2, <1>3, ExactLengthOK, Zenon
<1> QED
  BY <1>1, <1>3, <1>4, Zenon

\* control.c mcl_link_ack_decode, as a NACK: four bytes, the second of which
\* is an assigned reason.
LEMMA NackShape ==
    ASSUME NEW p \in Seq(Octet), AckDecodeStatus(p, FALSE) = "OK"
    PROVE  Len(p) = 4 /\ p[2] \in 1..5
<1>1. ExactLength(Len(p), AckSize) = "OK" /\ NackReasonIsAssigned(p[2])
  BY Zenon DEF AckDecodeStatus, AckReasonIsLegal
<1>2. Len(p) \in Nat
  OBVIOUS
<1>3. AckSize = 4 /\ AckSize \in Nat
  BY DEF AckSize
<1>4. Len(p) = AckSize
  BY <1>1, <1>2, <1>3, ExactLengthOK, Zenon
<1>5. p[2] \in 1..5
  BY <1>1, Zenon DEF NackReasonIsAssigned
<1> QED
  BY <1>3, <1>4, <1>5, Zenon

\* control.c mcl_link_close_decode: two bytes.
LEMMA CloseShape ==
    ASSUME NEW p \in Seq(Octet), CloseDecodeStatus(p) = "OK"
    PROVE  Len(p) = 2
<1>1. ExactLength(Len(p), CloseSize) = "OK"
  BY Zenon DEF CloseDecodeStatus
<1>2. Len(p) \in Nat
  OBVIOUS
<1>3. CloseSize = 2 /\ CloseSize \in Nat
  BY DEF CloseSize
<1>4. Len(p) = CloseSize
  BY <1>1, <1>2, <1>3, ExactLengthOK, Zenon
<1> QED
  BY <1>3, <1>4, Zenon

\* handoff.c mcl_handoff_decode: ten bytes, or eighteen with a challenge.
LEMMA HandoffShape ==
    ASSUME NEW p \in Seq(Octet), HandoffDecodeStatus(p) = "OK"
    PROVE  Len(p) \in {10, 18}
<1>1. /\ OpIsAssigned(p[2])
      /\ ExactLength(Len(p), HandoffEncodedSize(p[2])) = "OK"
  BY Zenon DEF HandoffDecodeStatus
<1>2. Len(p) \in Nat
  OBVIOUS
<1>3. HandoffEncodedSize(p[2]) \in {10, 18}
  BY <1>1, HandoffSizes
<1>4. HandoffEncodedSize(p[2]) \in Nat
  BY <1>3
<1>5. Len(p) = HandoffEncodedSize(p[2])
  BY <1>1, <1>2, <1>4, ExactLengthOK, Zenon
<1> QED
  BY <1>3, <1>5, Zenon

\* control.h and handoff.h: the length of a legal control tells its class, but
\* for ACK and NACK, which the reason byte tells apart.
LEMMA ControlShape ==
    ASSUME NEW p \in Seq(Octet), NEW c \in {4, 5, 6, 8, 9},
           ContractStatus(c, p) = "OK"
    PROVE  /\ c \in {4, 5} <=> Len(p) = 4
           /\ c = 6 <=> Len(p) = 0
           /\ c = 9 <=> Len(p) = 2
           /\ c = 4 => p[2] = 0
           /\ c = 5 => p[2] # 0
<1>1. CASE c = 4
  <2>1. AckDecodeStatus(p, TRUE) = "OK"
    BY <1>1, Contracts
  <2>2. Len(p) = 4 /\ p[2] = 0
    BY <2>1, AckShape
  <2> QED
    BY <1>1, <2>2
<1>2. CASE c = 5
  <2>1. AckDecodeStatus(p, FALSE) = "OK"
    BY <1>2, Contracts
  <2>2. Len(p) = 4 /\ p[2] \in 1..5
    BY <2>1, NackShape
  <2> QED
    BY <1>2, <2>2
<1>3. CASE c = 6
  <2>1. KeepaliveCheck(Len(p)) = "OK"
    BY <1>3, Classes DEF ContractStatus
  <2> QED
    BY <1>3, <2>1 DEF KeepaliveCheck
<1>4. CASE c = 8
  <2>1. HandoffDecodeStatus(p) = "OK"
    BY <1>4, Contracts
  <2>2. Len(p) \in {10, 18}
    BY <2>1, HandoffShape
  <2>3. Len(p) # 4 /\ Len(p) # 0 /\ Len(p) # 2
    <3>1. CASE Len(p) = 10
      BY <3>1
    <3>2. CASE Len(p) = 18
      BY <3>2
    <3> QED
      BY <2>2, <3>1, <3>2, Zenon
  <2> QED
    BY <1>4, <2>3
<1>5. CASE c = 9
  <2>1. CloseDecodeStatus(p) = "OK"
    BY <1>5, Contracts
  <2>2. Len(p) = 2
    BY <2>1, CloseShape
  <2> QED
    BY <1>5, <2>2
<1> QED
  BY <1>1, <1>2, <1>3, <1>4, <1>5

\* link.h:269-272: no payload is a legal control of two classes.
THEOREM StreamContracts == Spec => []OneContract
<1>1. ASSUME NEW p \in Seq(Octet), NEW a \in LinkControls,
             NEW b \in LinkControls,
             ContractStatus(a, p) = "OK", ContractStatus(b, p) = "OK"
      PROVE  a = b
  <2>1. a \in {4, 5, 6, 8, 9} /\ b \in {4, 5, 6, 8, 9}
    BY Classes DEF LinkControls
  <2>2. /\ a \in {4, 5} <=> Len(p) = 4
        /\ a = 6 <=> Len(p) = 0
        /\ a = 9 <=> Len(p) = 2
        /\ a = 4 => p[2] = 0
        /\ a = 5 => p[2] # 0
    BY <1>1, <2>1, ControlShape, Zenon
  <2>3. /\ b \in {4, 5} <=> Len(p) = 4
        /\ b = 6 <=> Len(p) = 0
        /\ b = 9 <=> Len(p) = 2
        /\ b = 4 => p[2] = 0
        /\ b = 5 => p[2] # 0
    BY <1>1, <2>1, ControlShape, Zenon
  <2>4. /\ a \in {4, 5} <=> b \in {4, 5}
        /\ a = 6 <=> b = 6
        /\ a = 9 <=> b = 9
        /\ ~(a = 4 /\ b = 5) /\ ~(a = 5 /\ b = 4)
    BY <2>2, <2>3, Zenon
  <2>5. CASE a \in {4, 5}
    BY <2>4, <2>5
  <2>6. CASE a \in {6, 9}
    BY <2>4, <2>6
  <2>7. CASE a = 8
    BY <2>1, <2>4, <2>7
  <2> QED
    BY <2>1, <2>5, <2>6, <2>7
<1>2. StreamInv => OneContract
  <2> SUFFICES ASSUME StreamInv, NEW i \in 1..Len(delivered),
                      NEW a \in LinkControls, NEW b \in LinkControls,
                      ContractStatus(a, delivered[i].payload) = "OK",
                      ContractStatus(b, delivered[i].payload) = "OK"
               PROVE  a = b
    BY DEF OneContract
  <2>1. delivered[i] \in Frames
    BY DEF StreamInv
  <2>2. delivered[i].payload \in Seq(Octet)
    BY <2>1 DEF Frames
  <2> QED
    BY <1>1, <2>2
<1> QED
  BY <1>2, AlwaysStream, PTL

\* The channel without what the frame check adds: a frame made up behind an
\* altered byte may be any.
NoCheck(m) == FALSE

Unchecked ==
    INSTANCE FrameChannel WITH
        Messages <- {Meaning(f) : f \in Traffic}, IsChecked <- NoCheck

\* link.h:188-196 and 308-314, for every traffic, every payload limit and every
\* way to cut the stream: until a byte is altered the frames arrive as they
\* were sent, each once and in order, none is missed and none is made up;
\* afterwards a frame is still received one at a time, and what was received
\* and sent before stays.
THEOREM StreamInOrder == Spec => Unchecked!Spec
<1>1. Init => Unchecked!Init
  BY DEF Init, Unchecked!Init
<1>2. ASSUME StreamInv, Fresh, ~altered => Intact, [Next]_vars
      PROVE  [Unchecked!Next]_Unchecked!channelVars
  <2>1. CASE Send
    BY <2>1 DEF Send, Unchecked!Next, Unchecked!Send
  <2>2. CASE Arrive \/ Resynchronise \/ UNCHANGED vars
    BY <2>2 DEF Arrive, Resynchronise, vars, Unchecked!channelVars
  <2>3. CASE ArriveAltered
    BY <2>3 DEF ArriveAltered, Unchecked!Next, Unchecked!Alter
  <2>4. CASE Deliver /\ ~altered
    <3>1. /\ Len(delivered) < Len(sent) /\ UNCHANGED <<sent, altered>>
          /\ delivered' = Append(delivered, sent[Len(delivered) + 1])
      BY <1>2, <2>4, DeliverIntact DEF Deliver
    <3> QED
      BY <3>1 DEF Unchecked!Next, Unchecked!Deliver
  <2>5. CASE Deliver /\ altered
    <3>1. delivered \in Seq(Frames) /\ Received(buffer, frame) \in Frames
      BY <1>2, <2>5, ReceivedType DEF StreamInv, Deliver
    <3>2. /\ delivered' = Append(delivered, Received(buffer, frame))
          /\ UNCHANGED <<sent, altered>>
      BY <2>5 DEF Deliver
    <3>3. /\ Len(delivered') = Len(delivered) + 1
          /\ SubSeq(delivered', 1, Len(delivered') - 1) = delivered
      BY <3>1, <3>2
    <3>4. Unchecked!DeliverAfterAlteration
      BY <2>5, <3>2, <3>3 DEF Unchecked!DeliverAfterAlteration, NoCheck
    <3> QED
      BY <3>4 DEF Unchecked!Next
  <2> QED
    BY <1>2, <2>1, <2>2, <2>3, <2>4, <2>5 DEF Next, Carry
<1> QED
  BY <1>1, <1>2, AlwaysStream, AlwaysFresh, AlwaysIntact, PTL
  DEF Spec, Unchecked!Spec

-----------------------------------------------------------------------------
(* A frame has one encoding.                                                *)

\* The bytes a 16-bit number of the input is written as.
LEMMA PutGetU16 ==
    ASSUME NEW in \in Seq(Octet), NEW at \in Nat, at + 2 <= Len(in)
    PROVE  LET w == PutU16(GetU16(in, at))
           IN  /\ GetU16(in, at) \in Word
               /\ w \in Seq(Octet) /\ Len(w) = 2
               /\ \A i \in 1..2 : w[i] = in[at + i]
<1> DEFINE a == in[at + 1]
           b == in[at + 2]
           w == <<a, b>>
<1>1. at + 1 \in 1..Len(in) /\ at + 2 \in 1..Len(in)
  OBVIOUS
<1>2. a \in Octet /\ b \in Octet
  BY <1>1
<1>3. GetU16(in, at) = 256 * a + b
  BY DEF GetU16
<1> HIDE DEF a, b
<1>4. 256 * a + b \in Word /\ PutU16(256 * a + b) = w
  BY <1>2, PutGet16
<1>5. GetU16(in, at) \in Word /\ PutU16(GetU16(in, at)) = w
  BY <1>3, <1>4, Zenon
<1>6. w \in Seq(Octet) /\ Len(w) = 2 /\ w[1] = a /\ w[2] = b
  BY <1>2
<1> HIDE DEF w
<1>7. w[1] = in[at + 1] /\ w[2] = in[at + 2]
  BY <1>6 DEF a, b
<1>8. \A i \in 1..2 : i = 1 \/ i = 2
  OBVIOUS
<1>9. \A i \in 1..2 : w[i] = in[at + i]
  BY <1>7, <1>8
<1> QED
  BY <1>5, <1>6, <1>9

\* A beginning of the input, and an optional field the input goes on with if
\* its flag says so.
LEMMA FieldRead ==
    ASSUME NEW in \in Seq(Octet), NEW x \in Seq(Octet), NEW y \in Seq(Octet),
           NEW bit \in {0, 1}, Begins(x, in), bit = 1 => Has(in, Len(x), y)
    PROVE  Begins(x \o Present(bit, y), in)
<1> DEFINE z == x \o Present(bit, y)
<1>1. CASE bit = 1
  <2>1. z = x \o y
    BY <1>1 DEF Present
  <2>2. \A i \in 1..Len(y) : y[i] = in[Len(x) + i]
    BY <1>1 DEF Has
  <2> QED
    BY <2>1, <2>2, BeginsJoined
<1>2. CASE bit = 0
  <2>1. z = x \o << >>
    BY <1>2 DEF Present
  <2>2. << >> \in Seq(Octet) /\ Len(<< >>) = 0 /\ Len(x) \in Nat
    OBVIOUS
  <2>3. /\ z \in Seq(Octet) /\ Len(z) = Len(x)
        /\ \A i \in 1..Len(x) : z[i] = x[i]
    BY <2>1, <2>2, Joined
  <2>4. z = x
    BY <2>3, SameBytes
  <2> QED
    BY <2>4
<1> QED
  BY <1>1, <1>2

\* An optional 32-bit number of the input is written as the bytes it was read
\* from.
LEMMA OptionalRead32 ==
    ASSUME NEW in \in Seq(Octet), NEW at \in Nat, NEW bit \in {0, 1},
           bit = 1 => at + 4 <= Len(in),
           NEW v, v = Optional(bit, GetU32(in, at), NoRef)
    PROVE  /\ PutU32(v) \in Seq(Octet) /\ Len(PutU32(v)) = 4
           /\ bit = 1 => \A i \in 1..4 : PutU32(v)[i] = in[at + i]
<1>1. CASE bit = 1
  <2>1. v = GetU32(in, at) /\ at + 4 <= Len(in)
    BY <1>1 DEF Optional
  <2>2. /\ PutU32(GetU32(in, at)) \in Seq(Octet)
        /\ Len(PutU32(GetU32(in, at))) = 4
        /\ \A i \in 1..4 : PutU32(GetU32(in, at))[i] = in[at + i]
    BY <2>1, PutGet32
  <2> QED
    BY <2>1, <2>2, Zenon
<1>2. CASE bit = 0
  <2>1. bit # 1
    BY <1>2
  <2>2. v = NoRef
    BY <2>1, Zenon DEF Optional
  <2>3. 0 \in Word
    BY Widths
  <2>4. NoRef \in Word \X Word
    BY <2>3 DEF NoRef
  <2> QED
    BY <2>1, <2>2, <2>4, PutType, Zenon
<1> QED
  BY <1>1, <1>2

\* The same for a 16-bit number.
LEMMA OptionalRead16 ==
    ASSUME NEW in \in Seq(Octet), NEW at \in Nat, NEW bit \in {0, 1},
           bit = 1 => at + 2 <= Len(in),
           NEW v, v = Optional(bit, GetU16(in, at), 0)
    PROVE  /\ PutU16(v) \in Seq(Octet) /\ Len(PutU16(v)) = 2
           /\ bit = 1 => \A i \in 1..2 : PutU16(v)[i] = in[at + i]
<1>1. CASE bit = 1
  <2>1. v = GetU16(in, at) /\ at + 2 <= Len(in)
    BY <1>1 DEF Optional
  <2>2. /\ PutU16(GetU16(in, at)) \in Seq(Octet)
        /\ Len(PutU16(GetU16(in, at))) = 2
        /\ \A i \in 1..2 : PutU16(GetU16(in, at))[i] = in[at + i]
    BY <2>1, PutGetU16
  <2> QED
    BY <2>1, <2>2, Zenon
<1>2. CASE bit = 0
  <2>1. bit # 1
    BY <1>2
  <2>2. v = 0
    BY <2>1, Zenon DEF Optional
  <2>3. 0 \in Word
    BY Widths
  <2> QED
    BY <2>1, <2>2, <2>3, PutType, Zenon
<1> QED
  BY <1>1, <1>2

\* Every field of an accepted input, as the decoder finds it: what is written
\* again for it are the bytes it was read from.
LEMMA FieldsRead ==
    ASSUME NEW in \in Seq(Octet), DecodeStatus(in) = "OK", NEW s \in Structs,
           NEW f, f = Received(in, Decode(in, s))
    PROVE  LET fl == in[2]
           IN  /\ f \in Frames
               /\ f.flags = fl /\ fl \in Nat /\ fl \in Octet
               /\ f.link_major \in Majors /\ Encodable(f)
               /\ 16 * f.link_major + f.frame_class = in[1]
               /\ f.source_ref = GetU32(in, 2)
               /\ f.destination_ref
                      = Optional(Destination(fl), GetU32(in, 6), NoRef)
               /\ f.session_ref
                      = Optional(Session(fl), GetU32(in, SessionAt(fl)), NoRef)
               /\ f.sequence
                      = Optional(Sequenced(fl), GetU16(in, SequenceAt(fl)), 0)
               /\ f.freshness_ms
                      = Optional(Freshness(fl), GetU16(in, FreshAt(fl)), 0)
               /\ Len(f.payload) = DeclaredLength(in)
               /\ Has(in, LengthAt(fl) + 2, f.payload)
<1> DEFINE fl == in[2]
           d == Decode(in, s)
           at == LengthAt(fl)
           len == DeclaredLength(in)
           body == PayloadOf(in, d)
<1>1. ReadsPayload(in) /\ ReadsHeader(in)
  BY Verdicts DEF ReadsPayload
<1>2. /\ in[1] \in Octet /\ fl \in Flags /\ fl \in Nat /\ at \in 6..18
      /\ len \in Word
  BY <1>1, HeaderRead
<1>3. /\ d.link_major = in[1] \div 16 /\ d.frame_class = in[1] % 16
      /\ d.flags = fl /\ d.source_ref = GetU32(in, 2)
      /\ d.destination_ref = Optional(Destination(fl), GetU32(in, 6), NoRef)
      /\ d.session_ref
             = Optional(Session(fl), GetU32(in, SessionAt(fl)), NoRef)
      /\ d.sequence = Optional(Sequenced(fl), GetU16(in, SequenceAt(fl)), 0)
      /\ d.freshness_ms = Optional(Freshness(fl), GetU16(in, FreshAt(fl)), 0)
      /\ d.payload_len = len
      /\ d.payload = IF len # 0 THEN at + 2 ELSE 0
  BY <1>1, DecodedFields, Zenon
<1>4. d \in Structs
  BY DecodeEffect
<1>5. /\ in[1] \div 16 \in Majors /\ ClassIsAssigned(in[1] % 16)
      /\ ~HasReserved(fl) /\ len <= MaxPayload /\ Len(in) >= at + 2 + len
  BY <1>1 DEF ReadsPayload, ReadsHeader, ReadsFlags, ReadsMajor, CheckAt
<1> HIDE DEF d
<1>6. /\ f.link_major = d.link_major /\ f.frame_class = d.frame_class
      /\ f.flags = d.flags /\ f.source_ref = d.source_ref
      /\ f.destination_ref = d.destination_ref
      /\ f.session_ref = d.session_ref /\ f.sequence = d.sequence
      /\ f.freshness_ms = d.freshness_ms /\ f.payload = body
  BY DEF Received, d
<1>7. body \in Seq(Octet) /\ Len(body) = len /\ Has(in, at + 2, body)
  <2>0. len \in Nat /\ at \in Nat /\ Len(in) \in Nat
    BY <1>2, Widths
  <2>1. CASE len = 0
    <3>1. d.payload = 0 /\ d.payload_len = 0
      BY <1>3, <2>1, Zenon
    <3>2. body = SubSeq(in, 1, 0)
      BY <3>1 DEF PayloadOf
    <3> HIDE DEF body
    <3>3. body \in Seq(Octet) /\ Len(body) = 0
      <4>1. 0 \in Nat /\ 0 <= Len(in)
        BY <2>0
      <4> QED
        BY <3>2, <4>1, FirstBytes
    <3>4. at + 2 \in Nat /\ at + 2 + Len(body) <= Len(in)
      BY <1>5, <2>0, <2>1, <3>3
    <3>5. 1..Len(body) = {}
      BY <3>3
    <3> QED
      BY <2>1, <3>3, <3>4, <3>5 DEF Has
  <2>2. CASE len # 0
    <3>1. d.payload = at + 2 /\ d.payload_len = len
      BY <1>3, <2>2, Zenon
    <3>2. body = SubSeq(in, at + 2 + 1, at + 2 + len)
      BY <3>1, Zenon DEF PayloadOf
    <3> HIDE DEF body, at, len
    <3>3. /\ at + 2 + 1 \in 1..Len(in) + 1 /\ at + 2 + len \in 0..Len(in)
          /\ at + 2 + 1 <= at + 2 + len
          /\ (at + 2 + len) - (at + 2 + 1) + 1 = len
      BY <1>5, <2>0, <2>2
    <3>4. body \in Seq(Octet) /\ Len(body) = len
      BY <3>2, <3>3, SliceType
    <3>5. \A i \in 1..len : body[i] = in[at + 2 + i]
      BY <1>5, <2>0, <3>2, <3>3
    <3>6. at + 2 \in Nat /\ at + 2 + len <= Len(in)
      BY <1>5, <2>0
    <3> QED
      BY <3>4, <3>5, <3>6 DEF Has
  <2> QED
    BY <2>1, <2>2
<1>8. fl \in Octet
  <2>1. \A x \in Flags : x \in Octet
    BY DEF Flags, Octet
  <2> QED
    BY <1>2, <2>1
<1>9. f \in Frames
  <2>1. /\ d.link_major \in Octet /\ d.frame_class \in Octet
        /\ d.source_ref \in Word \X Word /\ d.destination_ref \in Word \X Word
        /\ d.session_ref \in Word \X Word /\ d.sequence \in Word
        /\ d.freshness_ms \in Word
    BY <1>4 DEF Structs
  <2>2. d.flags \in Octet
    BY <1>3, <1>8, Zenon
  <2>3. f = Received(in, d)
    BY DEF d
  <2>4. PayloadOf(in, d) \in Seq(Octet)
    BY <1>7
  <2> QED
    BY <2>1, <2>2, <2>3, <2>4 DEF Received, Frames
<1>10. f.link_major \in Majors /\ Encodable(f)
  <2>1. /\ f.link_major \in Majors /\ ClassIsAssigned(f.frame_class)
        /\ ~HasReserved(f.flags) /\ Len(f.payload) <= MaxPayload
    BY <1>3, <1>5, <1>6, <1>7, Zenon
  <2> QED
    BY <2>1, Zenon DEF Encodable
<1>11. 16 * f.link_major + f.frame_class = in[1]
  <2>1. in[1] \in Nat
    BY <1>2, Widths
  <2>2. 16 * (in[1] \div 16) + (in[1] % 16) = in[1]
    BY <2>1
  <2> QED
    BY <1>3, <1>6, <2>2, Zenon
<1> QED
  BY <1>2, <1>3, <1>6, <1>7, <1>8, <1>9, <1>10, <1>11, Zenon

\* mcl_link_frame_decode accepts no frame the encoder would write differently:
\* whatever input it accepts, mcl_link_frame_encode_at_major makes of the
\* frame it found exactly the bytes it consumed, in a buffer of the largest
\* frame.  The reserved bits, the class and the payload limit are checked for
\* this, and no optional field has two ways to be absent.
THEOREM FrameIsCanonical ==
    ASSUME NEW in \in Seq(Octet), DecodeStatus(in) = "OK", NEW s \in Structs,
           NEW f, f = Received(in, Decode(in, s))
    PROVE  /\ EncodeStatus(f.link_major, f, MaxSize) = "OK"
           /\ Encode(f.link_major, f) = SubSeq(in, 1, Consumed(in))
<1> DEFINE fl == in[2]
           at == LengthAt(fl)
           len == DeclaredLength(in)
           src == PutU32(f.source_ref)
           dst == PutU32(f.destination_ref)
           ses == PutU32(f.session_ref)
           num == PutU16(f.sequence)
           fresh == PutU16(f.freshness_ms)
           size == PutU16(Len(f.payload))
           b1 == <<in[1], fl>>
           b2 == b1 \o src
           b3 == b2 \o Present(Destination(fl), dst)
           b4 == b3 \o Present(Session(fl), ses)
           b5 == b4 \o Present(Sequenced(fl), num)
           b6 == b5 \o Present(Freshness(fl), fresh)
           b7 == b6 \o size
           b8 == b7 \o f.payload
           check == PutU32(CheckWord(b8))
           b9 == b8 \o Present(FrameCheck(fl), check)
<1>1. /\ f \in Frames /\ f.flags = fl /\ fl \in Nat /\ fl \in Octet
      /\ f.link_major \in Majors /\ Encodable(f)
      /\ 16 * f.link_major + f.frame_class = in[1]
      /\ f.source_ref = GetU32(in, 2)
      /\ f.destination_ref = Optional(Destination(fl), GetU32(in, 6), NoRef)
      /\ f.session_ref
             = Optional(Session(fl), GetU32(in, SessionAt(fl)), NoRef)
      /\ f.sequence = Optional(Sequenced(fl), GetU16(in, SequenceAt(fl)), 0)
      /\ f.freshness_ms = Optional(Freshness(fl), GetU16(in, FreshAt(fl)), 0)
      /\ Len(f.payload) = len /\ Has(in, at + 2, f.payload)
  BY FieldsRead
<1>2. Encode(f.link_major, f) = b9
  BY <1>1, Zenon DEF Encode
<1>3. /\ ReadsPayload(in) /\ ReadsHeader(in)
      /\ Consumed(in) \in Nat /\ Consumed(in) <= Len(in)
  BY Verdicts DEF ReadsPayload
<1>4. /\ in[1] \in Octet /\ at \in 6..18 /\ len \in Word
      /\ Len(in) >= at + 2 + 4 * FrameCheck(fl)
      /\ FrameCheck(fl) \in {0, 1}
  BY <1>3, HeaderRead
<1>5. /\ Destination(fl) \in {0, 1} /\ Session(fl) \in {0, 1}
      /\ Sequenced(fl) \in {0, 1} /\ Freshness(fl) \in {0, 1}
  BY <1>1, FlagBits
<1>6. /\ SessionAt(fl) \in Nat /\ SequenceAt(fl) \in Nat /\ FreshAt(fl) \in Nat
      /\ SessionAt(fl) = 6 + 4 * Destination(fl)
      /\ SequenceAt(fl) = SessionAt(fl) + 4 * Session(fl)
      /\ FreshAt(fl) = SequenceAt(fl) + 2 * Sequenced(fl)
      /\ at = FreshAt(fl) + 2 * Freshness(fl)
      /\ Destination(fl) = 1 => 6 + 4 <= at
      /\ Session(fl) = 1 => SessionAt(fl) + 4 <= at
      /\ Sequenced(fl) = 1 => SequenceAt(fl) + 2 <= at
      /\ Freshness(fl) = 1 => FreshAt(fl) + 2 <= at
  BY <1>1, Layout, Zenon DEF SessionAt, SequenceAt, FreshAt, LengthAt
<1>7. CheckAt(in) = at + 2 + len /\ Len(in) >= CheckAt(in)
      /\ Consumed(in) = CheckAt(in) + 4 * FrameCheck(fl)
  BY <1>3 DEF CheckAt, Consumed, ReadsPayload
<1>8. /\ len \in Nat /\ Len(in) \in Nat /\ at \in Nat /\ 8 <= Len(in)
      /\ at + 2 <= Len(in) /\ 2 + 4 <= Len(in)
      /\ Destination(fl) = 1 => 6 + 4 <= Len(in)
      /\ Session(fl) = 1 => SessionAt(fl) + 4 <= Len(in)
      /\ Sequenced(fl) = 1 => SequenceAt(fl) + 2 <= Len(in)
      /\ Freshness(fl) = 1 => FreshAt(fl) + 2 <= Len(in)
  <2>1. len \in Nat
    BY <1>4, Widths
  <2>2. at \in 6..18 /\ FrameCheck(fl) \in {0, 1} /\ Len(in) \in Nat
        /\ Len(in) >= at + 2 + 4 * FrameCheck(fl)
    BY <1>4
  <2> HIDE DEF at, len, fl
  <2>3. 8 <= Len(in) /\ at + 2 <= Len(in) /\ at \in Nat
    BY <2>2
  <2>4. ASSUME NEW k \in Nat, k <= at
        PROVE  k <= Len(in)
    BY <2>2, <2>3, <2>4
  <2>5. /\ 6 + 4 \in Nat /\ SessionAt(fl) + 4 \in Nat
        /\ SequenceAt(fl) + 2 \in Nat /\ FreshAt(fl) + 2 \in Nat
    BY <1>6
  <2>6. 2 + 4 <= Len(in)
    BY <2>2, <2>3
  <2> QED
    BY <1>6, <2>1, <2>2, <2>3, <2>4, <2>5, <2>6, Zenon
<1>9. /\ src \in Seq(Octet) /\ Len(src) = 4
      /\ \A i \in 1..4 : src[i] = in[2 + i]
  BY <1>1, <1>8, PutGet32
<1>10. /\ dst \in Seq(Octet) /\ Len(dst) = 4
       /\ Destination(fl) = 1 => \A i \in 1..4 : dst[i] = in[6 + i]
  <2> DEFINE bit == Destination(fl)
             v == f.destination_ref
             from == 6
  <2>1. /\ bit \in {0, 1} /\ from \in Nat
        /\ bit = 1 => from + 4 <= Len(in)
        /\ v = Optional(bit, GetU32(in, from), NoRef)
    BY <1>1, <1>5, <1>8, Zenon
  <2> HIDE DEF bit, v, from
  <2>2. /\ PutU32(v) \in Seq(Octet) /\ Len(PutU32(v)) = 4
        /\ bit = 1 => \A i \in 1..4 : PutU32(v)[i] = in[from + i]
    BY <2>1, OptionalRead32
  <2> QED
    BY <2>2, Zenon DEF bit, v, from
<1>11. /\ ses \in Seq(Octet) /\ Len(ses) = 4
       /\ Session(fl) = 1 => \A i \in 1..4 : ses[i] = in[SessionAt(fl) + i]
  <2> DEFINE bit == Session(fl)
             v == f.session_ref
             from == SessionAt(fl)
  <2>1. /\ bit \in {0, 1} /\ from \in Nat
        /\ bit = 1 => from + 4 <= Len(in)
        /\ v = Optional(bit, GetU32(in, from), NoRef)
    BY <1>1, <1>5, <1>6, <1>8, Zenon
  <2> HIDE DEF bit, v, from
  <2>2. /\ PutU32(v) \in Seq(Octet) /\ Len(PutU32(v)) = 4
        /\ bit = 1 => \A i \in 1..4 : PutU32(v)[i] = in[from + i]
    BY <2>1, OptionalRead32
  <2> QED
    BY <2>2, Zenon DEF bit, v, from
<1>12. /\ num \in Seq(Octet) /\ Len(num) = 2
       /\ Sequenced(fl) = 1 => \A i \in 1..2 : num[i] = in[SequenceAt(fl) + i]
  <2> DEFINE bit == Sequenced(fl)
             v == f.sequence
             from == SequenceAt(fl)
  <2>1. /\ bit \in {0, 1} /\ from \in Nat
        /\ bit = 1 => from + 2 <= Len(in)
        /\ v = Optional(bit, GetU16(in, from), 0)
    BY <1>1, <1>5, <1>6, <1>8, Zenon
  <2> HIDE DEF bit, v, from
  <2>2. /\ PutU16(v) \in Seq(Octet) /\ Len(PutU16(v)) = 2
        /\ bit = 1 => \A i \in 1..2 : PutU16(v)[i] = in[from + i]
    BY <2>1, OptionalRead16
  <2> QED
    BY <2>2, Zenon DEF bit, v, from
<1>13. /\ fresh \in Seq(Octet) /\ Len(fresh) = 2
       /\ Freshness(fl) = 1 => \A i \in 1..2 : fresh[i] = in[FreshAt(fl) + i]
  <2> DEFINE bit == Freshness(fl)
             v == f.freshness_ms
             from == FreshAt(fl)
  <2>1. /\ bit \in {0, 1} /\ from \in Nat
        /\ bit = 1 => from + 2 <= Len(in)
        /\ v = Optional(bit, GetU16(in, from), 0)
    BY <1>1, <1>5, <1>6, <1>8, Zenon
  <2> HIDE DEF bit, v, from
  <2>2. /\ PutU16(v) \in Seq(Octet) /\ Len(PutU16(v)) = 2
        /\ bit = 1 => \A i \in 1..2 : PutU16(v)[i] = in[from + i]
    BY <2>1, OptionalRead16
  <2> QED
    BY <2>2, Zenon DEF bit, v, from
<1>14. /\ size \in Seq(Octet) /\ Len(size) = 2
       /\ \A i \in 1..2 : size[i] = in[at + i]
  <2>1. Len(f.payload) = GetU16(in, at)
    BY <1>1 DEF DeclaredLength
  <2> QED
    BY <1>8, <2>1, PutGetU16
<1> HIDE DEF src, dst, ses, num, fresh, size, at, len
<1>15. Begins(b1, in) /\ Len(b1) = 2
  <2>1. fl \in Octet /\ in[1] \in Octet
    BY <1>1, <1>4
  <2>2. b1 \in Seq(Octet) /\ Len(b1) = 2 /\ b1[1] = in[1] /\ b1[2] = fl
    BY <2>1
  <2>3. \A i \in 1..2 : i = 1 \/ i = 2
    OBVIOUS
  <2> HIDE DEF b1
  <2> QED
    BY <2>2, <2>3 DEF Begins
<1> HIDE DEF b1
<1>16. Begins(b2, in) /\ Len(b2) = 6
  <2>1. \A i \in 1..Len(src) : src[i] = in[Len(b1) + i]
    BY <1>9, <1>15
  <2>2. Begins(b2, in) /\ Len(b2) = Len(b1) + Len(src)
    BY <1>9, <1>15, <2>1, BeginsJoined
  <2> HIDE DEF b2
  <2> QED
    BY <1>9, <1>15, <2>2
<1> HIDE DEF b2
<1>17. Begins(b3, in) /\ Len(b3) = SessionAt(fl)
  <2>1. /\ Destination(fl) \in {0, 1} /\ dst \in Seq(Octet) /\ Begins(b2, in)
        /\ b2 \in Seq(Octet) /\ Len(b2) = 6 /\ Len(dst) = 4
    BY <1>5, <1>10, <1>16 DEF Begins
  <2>2. ASSUME Destination(fl) = 1
        PROVE  Has(in, Len(b2), dst)
    <3>1. 6 \in Nat /\ 6 + 4 <= Len(in)
      BY <1>6, <1>8, <2>2
    <3> QED
      BY <1>10, <2>1, <2>2, <3>1 DEF Has
  <2>3. Begins(b3, in)
    BY <2>1, <2>2, FieldRead
  <2>4. Len(b3) = Len(b2) + Len(dst) * Destination(fl)
    BY <2>1, FieldAdded
  <2> HIDE DEF b3, fl
  <2> QED
    BY <1>5, <1>6, <2>1, <2>3, <2>4
<1> HIDE DEF b3
<1>18. Begins(b4, in) /\ Len(b4) = SequenceAt(fl)
  <2>1. /\ Session(fl) \in {0, 1} /\ ses \in Seq(Octet) /\ Begins(b3, in)
        /\ b3 \in Seq(Octet) /\ Len(b3) = SessionAt(fl) /\ Len(ses) = 4
    BY <1>5, <1>11, <1>17 DEF Begins
  <2>2. ASSUME Session(fl) = 1
        PROVE  Has(in, Len(b3), ses)
    <3>1. SessionAt(fl) \in Nat /\ SessionAt(fl) + 4 <= Len(in)
      BY <1>6, <1>8, <2>2
    <3> QED
      BY <1>11, <2>1, <2>2, <3>1 DEF Has
  <2>3. Begins(b4, in)
    BY <2>1, <2>2, FieldRead
  <2>4. Len(b4) = Len(b3) + Len(ses) * Session(fl)
    BY <2>1, FieldAdded
  <2> HIDE DEF b4, fl
  <2> QED
    BY <1>5, <1>6, <2>1, <2>3, <2>4
<1> HIDE DEF b4
<1>19. Begins(b5, in) /\ Len(b5) = FreshAt(fl)
  <2>1. /\ Sequenced(fl) \in {0, 1} /\ num \in Seq(Octet) /\ Begins(b4, in)
        /\ b4 \in Seq(Octet) /\ Len(b4) = SequenceAt(fl) /\ Len(num) = 2
    BY <1>5, <1>12, <1>18 DEF Begins
  <2>2. ASSUME Sequenced(fl) = 1
        PROVE  Has(in, Len(b4), num)
    <3>1. SequenceAt(fl) \in Nat /\ SequenceAt(fl) + 2 <= Len(in)
      BY <1>6, <1>8, <2>2
    <3> QED
      BY <1>12, <2>1, <2>2, <3>1 DEF Has
  <2>3. Begins(b5, in)
    BY <2>1, <2>2, FieldRead
  <2>4. Len(b5) = Len(b4) + Len(num) * Sequenced(fl)
    BY <2>1, FieldAdded
  <2> HIDE DEF b5, fl
  <2> QED
    BY <1>5, <1>6, <2>1, <2>3, <2>4
<1> HIDE DEF b5
<1>20. Begins(b6, in) /\ Len(b6) = at
  <2>1. /\ Freshness(fl) \in {0, 1} /\ fresh \in Seq(Octet) /\ Begins(b5, in)
        /\ b5 \in Seq(Octet) /\ Len(b5) = FreshAt(fl) /\ Len(fresh) = 2
    BY <1>5, <1>13, <1>19 DEF Begins
  <2>2. ASSUME Freshness(fl) = 1
        PROVE  Has(in, Len(b5), fresh)
    <3>1. FreshAt(fl) \in Nat /\ FreshAt(fl) + 2 <= Len(in)
      BY <1>6, <1>8, <2>2
    <3> QED
      BY <1>13, <2>1, <2>2, <3>1 DEF Has
  <2>3. Begins(b6, in)
    BY <2>1, <2>2, FieldRead
  <2>4. Len(b6) = Len(b5) + Len(fresh) * Freshness(fl)
    BY <2>1, FieldAdded
  <2> HIDE DEF b6, fl
  <2> QED
    BY <1>5, <1>6, <2>1, <2>3, <2>4
<1> HIDE DEF b6
<1>21. Begins(b7, in) /\ Len(b7) = at + 2
  BY <1>14, <1>20, BeginsJoined
<1> HIDE DEF b7
<1>22. Begins(b8, in) /\ Len(b8) = CheckAt(in) /\ b8 \in Seq(Octet)
  <2>1. f.payload \in Seq(Octet)
    BY <1>1 DEF Frames
  <2>2. \A i \in 1..Len(f.payload) : f.payload[i] = in[Len(b7) + i]
    BY <1>1, <1>21 DEF Has
  <2>3. Begins(b8, in) /\ Len(b8) = Len(b7) + Len(f.payload)
    BY <1>21, <2>1, <2>2, BeginsJoined
  <2> HIDE DEF b8
  <2> QED
    BY <1>1, <1>7, <1>21, <2>3, Zenon DEF Begins
<1> HIDE DEF b8
<1>23. CheckAt(in) \in Nat /\ CheckAt(in) <= Len(in)
  BY <1>7, <1>8
<1>24. Covered(in) = b8
  <2>1. /\ Covered(in) \in Seq(Octet) /\ Len(Covered(in)) = CheckAt(in)
        /\ \A i \in 1..CheckAt(in) : Covered(in)[i] = in[i]
    BY <1>23, FirstBytes DEF Covered
  <2>2. \A i \in 1..CheckAt(in) : Covered(in)[i] = b8[i]
    BY <1>22, <2>1 DEF Begins
  <2> QED
    BY <1>22, <2>1, <2>2, SameBytes
<1>25. /\ check \in Seq(Octet) /\ Len(check) = 4
       /\ FrameCheck(fl) = 1 =>
              \A i \in 1..4 : check[i] = in[CheckAt(in) + i]
  <2>1. check \in Seq(Octet) /\ Len(check) = 4
    BY CheckWordType, PutType
  <2>2. ASSUME FrameCheck(fl) = 1
        PROVE  \A i \in 1..4 : check[i] = in[CheckAt(in) + i]
    <3>1. GetU32(in, CheckAt(in)) = CheckWord(b8)
      <4>1. FrameCheck(in[2]) # 0
        BY <2>2
      <4>2. GetU32(in, CheckAt(in)) = CheckWord(Covered(in))
        BY <4>1, Zenon DEF DecodeStatus
      <4> QED
        BY <1>24, <4>2, Zenon
    <3>2. CheckAt(in) + 4 <= Len(in)
      BY <1>3, <1>7, <2>2
    <3> QED
      BY <1>23, <3>1, <3>2, PutGet32
  <2> QED
    BY <2>1, <2>2
<1> HIDE DEF check
<1>26. Begins(b9, in) /\ Len(b9) = Consumed(in)
  <2>1. /\ FrameCheck(fl) \in {0, 1} /\ check \in Seq(Octet)
        /\ Begins(b8, in) /\ b8 \in Seq(Octet)
        /\ Len(b8) = CheckAt(in) /\ Len(check) = 4
    BY <1>4, <1>22, <1>25
  <2>2. ASSUME FrameCheck(fl) = 1
        PROVE  Has(in, Len(b8), check)
    <3>1. CheckAt(in) + 4 <= Len(in)
      BY <1>3, <1>7, <2>2
    <3> QED
      BY <1>23, <1>25, <2>1, <2>2, <3>1 DEF Has
  <2>3. Begins(b9, in)
    BY <2>1, <2>2, FieldRead
  <2>4. Len(b9) = Len(b8) + Len(check) * FrameCheck(fl)
    BY <2>1, FieldAdded
  <2> HIDE DEF b9, fl
  <2> QED
    BY <1>7, <1>23, <2>1, <2>3, <2>4
<1> HIDE DEF b9
<1>27. b9 = SubSeq(in, 1, Consumed(in))
  <2> DEFINE y == SubSeq(in, 1, Consumed(in))
  <2>1. /\ y \in Seq(Octet) /\ Len(y) = Consumed(in)
        /\ \A i \in 1..Consumed(in) : y[i] = in[i]
    BY <1>3, FirstBytes
  <2> HIDE DEF y
  <2>2. b9 \in Seq(Octet) /\ \A i \in 1..Len(b9) : b9[i] = y[i]
    BY <1>26, <2>1 DEF Begins
  <2>3. b9 = y
    BY <1>26, <2>1, <2>2, SameBytes
  <2> QED
    BY <2>3 DEF y
<1>28. EncodeStatus(f.link_major, f, MaxSize) = "OK"
  <2>1. EncodedSize(f) = MinSize + OptionalSize(fl) + len
    BY <1>1, Zenon DEF EncodedSize
  <2>2. MinSize + OptionalSize(fl) = at + 2 + 4 * FrameCheck(fl)
    BY <1>1, Layout, Zenon DEF at
  <2>3. len <= MaxPayload /\ MaxPayload \in Nat
    BY <1>3, MaxPayloadAssumption, Widths DEF ReadsPayload, len
  <2>4. ~(MaxSize < EncodedSize(f))
    <3>1. EncodedSize(f) = at + 2 + 4 * FrameCheck(fl) + len
      BY <2>1, <2>2, Zenon
    <3> HIDE DEF fl
    <3> QED
      BY <1>4, <1>8, <2>3, <3>1 DEF MaxSize, MinSize
  <2> QED
    BY <1>1, <2>4, Zenon DEF EncodeStatus
<1> QED
  BY <1>2, <1>27, <1>28, Zenon

\* What mcl_link_frame_encode_at_major writes, mcl_link_frame_decode reads as
\* the frame that was meant, whatever bytes follow and whatever the caller's
\* struct held, and consumes exactly; of any smaller part of it the decoder
\* asks for more.
THEOREM FrameRoundTrip ==
    ASSUME NEW f \in Frames, EncodeStatus(f.link_major, f, MaxSize) = "OK",
           NEW e, e = Encode(f.link_major, f), NEW in \in Seq(Octet)
    PROVE  /\ Begins(in, e) /\ Len(in) < Len(e) => DecodeStatus(in) = "TRUNCATED"
           /\ Begins(e, in) /\ Len(e) <= Len(in) =>
                  /\ DecodeStatus(in) = "OK" /\ Consumed(in) = Len(e)
                  /\ \A s \in Structs : Received(in, Decode(in, s)) = Meaning(f)
<1>1. IsFrame(e, f)
  BY EncodeIsFrame
<1>2. ASSUME Begins(in, e), Len(in) < Len(e)
      PROVE  DecodeStatus(in) = "TRUNCATED"
  BY <1>1, <1>2, FramePrefix
<1>3. ASSUME Begins(e, in), Len(e) <= Len(in)
      PROVE  DecodeStatus(in) = "OK" /\ Consumed(in) = Len(e)
  BY <1>1, <1>3, FrameDecodes
<1>4. ASSUME Begins(e, in), Len(e) <= Len(in), NEW s \in Structs
      PROVE  Received(in, Decode(in, s)) = Meaning(f)
  BY <1>1, <1>4, FrameReceived
<1> QED
  BY <1>2, <1>3, <1>4

=============================================================================

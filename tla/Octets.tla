------------------------------- MODULE Octets -------------------------------
(***************************************************************************)
(* Bytes, and the numbers of more than one byte that the codecs put into    *)
(* them in network order.  A 32-bit number is a pair of 16-bit halves, the  *)
(* high one first: every value of the field, and none too large for TLC.    *)
(***************************************************************************)
EXTENDS Naturals, Sequences

Octet == 0..255

Word == 0..65535

NoRef == <<0, 0>>   \* the 32-bit 0, reserved wherever a reference is required

PutU16(v) == <<v \div 256, v % 256>>

PutU32(v) == PutU16(v[1]) \o PutU16(v[2])

\* The number behind the first at bytes of in.
GetU16(in, at) == 256 * in[at + 1] + in[at + 2]

GetU32(in, at) == <<GetU16(in, at), GetU16(in, at + 2)>>

Zeros(n) == [i \in 1..n |-> 0]

=============================================================================

--------------------------- MODULE HandoffVectors ---------------------------
(***************************************************************************)
(* The tool that checks the published handoff vectors against the decoder   *)
(* (src/tools/validate_handoff_vectors.c).                                  *)
(*                                                                          *)
(* The tool has no JSON parser: it searches the text for the next "key".    *)
(* So a section of the file is a sequence of fields, in which nothing shows *)
(* where one vector ends and the next begins.  A field has its key, whether *)
(* its value is a string or a number, the length of the text, and the value *)
(* read from it.  A bytes_hex value is a sequence of bytes, in which        *)
(* NotHex stands for two characters that are no hexadecimal byte.           *)
(***************************************************************************)
EXTENDS Controls, SequencesExt

CONSTANTS
    PositiveVectors,   \* vectors a file may have under "positive"
    NegativeVectors,   \* and under "negative"
    VectorsMax         \* the most vectors of one section

VARIABLES
    file,      \* its vectors, section by section, and whether it has sections
    section,   \* "open", "positive", "negative" or "end"
    cursor,    \* the field the search goes on from
    checked,   \* g_checked
    failed,    \* g_failed
    exit       \* what main returned, or NoExit

vars == <<file, section, cursor, checked, failed, exit>>

NoExit == 3

NotHex == 256

NameSize == 128     \* the arrays name, hex, expect and bytes
HexSize == 512
ExpectSize == 64
BytesSize == 64

Fields == FlattenSeq(file[section])

-----------------------------------------------------------------------------
(* Searching the text. *)

\* The first string value of key behind the cursor; 0 if there is none or if
\* it does not fit into size characters and the terminator.
FindString(s, from, key, size) ==
    LET at == {i \in from..Len(s) : s[i].key = key /\ s[i].kind = "string"}
    IN  IF at = {} THEN 0
        ELSE IF s[Min(at)].len >= size THEN 0
        ELSE Min(at)

\* The first value of key in from..to, which must be a number.
FindNumber(s, from, to, key) ==
    LET at == {i \in from..to : s[i].key = key}
    IN  IF at = {} THEN 0
        ELSE IF s[Min(at)].kind # "number" THEN 0
        ELSE Min(at)

\* Two characters a byte, all of them digits, and no more bytes than fit.
HexDecodes(f) ==
    /\ f.len % 2 = 0
    /\ f.len \div 2 <= BytesSize
    /\ f.val \in Seq(Octet)

\* Anything but the three names stands for a status the decoder never gives.
StatusFromName(name) ==
    IF name \in {"TRUNCATED", "RANGE", "INCOMPATIBLE_VERSION"}
    THEN name ELSE "INVALID_ARGUMENT"

-----------------------------------------------------------------------------
(* Judging one vector. *)

\* The numbers declared between the name and the bytes are those decoded.
Declares(s, name, hex, key, value) ==
    LET at == FindNumber(s, name + 1, hex, key)
    IN  at # 0 /\ s[at].val = value

PositiveHolds(s, name, hex) ==
    LET bytes   == s[hex].val
        control == HandoffDecode(bytes, ZeroHandoff)
    IN  /\ HexDecodes(s[hex])
        /\ HandoffDecodeStatus(bytes) = "OK"
        /\ Declares(s, name, hex, "operation", control.operation)
        /\ Declares(s, name, hex, "migration_ref", control.migration_ref)
        /\ Declares(s, name, hex, "session_ref", control.session_ref)
        /\ Declares(s, name, hex, "size", Len(bytes))
        /\ HandoffEncodeStatus(control, HandoffMaxSize) = "OK"
        /\ HandoffEncode(control) = bytes

NegativeHolds(s, hex, expect) ==
    /\ expect # 0
    /\ HandoffDecodeStatus(s[hex].val) = StatusFromName(s[expect].val)

Count(holds) ==
    /\ checked' = checked + 1
    /\ failed' = IF holds THEN failed ELSE failed + 1

-----------------------------------------------------------------------------
(* main and check_section. *)

\* A file that is empty, too large or lacks a section is not looked into.
Open ==
    /\ section = "open"
    /\ IF file.has_sections
       THEN section' = "positive" /\ UNCHANGED exit
       ELSE section' = "end" /\ exit' = 2
    /\ cursor' = 1
    /\ UNCHANGED <<file, checked, failed>>

\* The name and the bytes of the next vector; 0 ends the section.
NextName == FindString(Fields, cursor, "name", NameSize)

NextHex ==
    IF NextName = 0 THEN 0
    ELSE FindString(Fields, NextName + 1, "bytes_hex", HexSize)

CheckPositive ==
    /\ section = "positive"
    /\ NextHex # 0
    /\ Count(PositiveHolds(Fields, NextName, NextHex))
    /\ cursor' = NextHex + 1
    /\ UNCHANGED <<file, section, exit>>

\* The expectation is searched for only if the bytes are bytes.
CheckNegative ==
    /\ section = "negative"
    /\ NextHex # 0
    /\ IF HexDecodes(Fields[NextHex])
       THEN LET expect == FindString(Fields, NextHex + 1, "expect", ExpectSize)
            IN  /\ Count(NegativeHolds(Fields, NextHex, expect))
                /\ cursor' = IF expect = 0 THEN NextHex + 1 ELSE expect + 1
       ELSE Count(FALSE) /\ cursor' = NextHex + 1
    /\ UNCHANGED <<file, section, exit>>

Verdict == IF checked = 0 THEN 2 ELSE IF failed = 0 THEN 0 ELSE 1

EndSection ==
    /\ section \in {"positive", "negative"}
    /\ NextHex = 0
    /\ IF section = "positive"
       THEN section' = "negative" /\ UNCHANGED exit
       ELSE section' = "end" /\ exit' = Verdict
    /\ cursor' = 1
    /\ UNCHANGED <<file, checked, failed>>

Init ==
    /\ file \in [positive: BoundedSeq(PositiveVectors, VectorsMax),
                 negative: BoundedSeq(NegativeVectors, VectorsMax),
                 has_sections: BOOLEAN]
    /\ section = "open"
    /\ cursor = 1
    /\ checked = 0
    /\ failed = 0
    /\ exit = NoExit

Next == Open \/ CheckPositive \/ CheckNegative \/ EndSection

Spec == Init /\ [][Next]_vars

-----------------------------------------------------------------------------

Declared(vector, key) == \E i \in DOMAIN vector : vector[i].key = key

Value(vector, key) ==
    vector[CHOOSE i \in DOMAIN vector : vector[i].key = key].val

\* The bytes are the encoding of the control that is declared, whatever the
\* challenge: the tool does not read the declared one.
TruthfulPositive(vector) ==
    LET bytes == Value(vector, "bytes_hex")
        op    == Value(vector, "operation")
    IN  /\ \A key \in {"operation", "migration_ref", "session_ref", "size"} :
               Declared(vector, key)
        /\ Value(vector, "size") = Len(bytes)
        /\ LET control ==
                   [MakeHandoff(op, Value(vector, "migration_ref"),
                                Value(vector, "session_ref"))
                       EXCEPT !.challenge_present = CarriesChallenge(op),
                              !.challenge = SubSeq(bytes, 11, Len(bytes))]
           IN  /\ HandoffEncodeStatus(control, HandoffMaxSize) = "OK"
               /\ Len(bytes) = HandoffEncodedSize(op)
               /\ HandoffEncode(control) = bytes

\* The decoder refuses the bytes, if they are bytes, in the way that is
\* declared.
TruthfulNegative(vector) ==
    /\ Value(vector, "bytes_hex") \in Seq(Octet)
    /\ HandoffDecodeStatus(Value(vector, "bytes_hex"))
           = Value(vector, "expect")
    /\ Value(vector, "expect") # "OK"

\* validate_handoff_vectors.c:9-12.  The tool decodes every bytes_hex in the
\* file: if the bytes of a vector were edited, or what it expects of them no
\* longer holds, the tool fails.
SuccessVouches ==
    exit = 0 =>
        /\ \A i \in DOMAIN file.positive :
               Declared(file.positive[i], "bytes_hex")
                   => TruthfulPositive(file.positive[i])
        /\ \A i \in DOMAIN file.negative :
               Declared(file.negative[i], "bytes_hex")
               /\ Declared(file.negative[i], "expect")
                   => TruthfulNegative(file.negative[i])

=============================================================================

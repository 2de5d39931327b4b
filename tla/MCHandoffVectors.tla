-------------------------- MODULE MCHandoffVectors --------------------------
(* Values for TLC: true vectors, vectors of which one value was edited, and   *)
(* a vector that lacks a field.                                               *)
EXTENDS HandoffVectors

Text(key, len, val) ==
    [key |-> key, kind |-> "string", len |-> len, val |-> val]

Number(key, val) ==
    [key |-> key, kind |-> "number", len |-> 0, val |-> val]

Hex(bytes) == Text("bytes_hex", 2 * Len(bytes), bytes)

Mig == <<1, 2>>

Ses == <<3, 4>>

Commit == HandoffEncode(MakeHandoff(Op.COMMIT, Mig, Ses))

Positive(name, op, mig, ses, size, hex) ==
    <<Text("name", name, "any"), Number("operation", op),
      Number("migration_ref", mig), Number("session_ref", ses),
      Number("size", size), hex>>

Negative(name, hex, expect) ==
    <<Text("name", name, "any"), hex, Text("expect", Len(expect), expect)>>

\* A true vector, and two of which a value was edited.
MCPositiveVectors ==
    {Positive(6, Op.COMMIT, Mig, Ses, 10, Hex(Commit)),
     Positive(6, Op.CONFIRM, Mig, Ses, 10, Hex(Commit)),
     Positive(6, Op.COMMIT, Mig, Ses, 11, Hex(Append(Commit, 0)))}

\* True vectors, one whose bytes were edited, and one without its expectation.
MCNegativeVectors ==
    {Negative(5, Hex(<<>>), "TRUNCATED"),
     Negative(5, Hex([Commit EXCEPT ![1] = 1]), "INCOMPATIBLE_VERSION"),
     Negative(5, Hex(Commit), "TRUNCATED"),
     SubSeq(Negative(5, Hex(<<>>), "TRUNCATED"), 1, 2)}

=============================================================================

------------------------------ MODULE Controls ------------------------------
(***************************************************************************)
(* The payloads whose contracts Link itself owns: ACK, NACK, CLOSE and      *)
(* KEEPALIVE (src/src/control.c), the HANDOFF control (src/src/handoff.c)   *)
(* and the rendezvous beacon (src/src/endpoint_rendezvous.c).               *)
(*                                                                          *)
(* As in LinkFrame, fStatus is what a call returns.  fEncode gives the      *)
(* bytes and fDecode the caller's struct; each is meant where the status is *)
(* OK.  A decoder that refuses leaves the struct as it was.                 *)
(***************************************************************************)
EXTENDS Octets

ControlVersion == 0   \* of the ACK, NACK, CLOSE and HANDOFF controls

ExactLength(size, expected) ==
    IF size < expected THEN "TRUNCATED"
    ELSE IF size > expected THEN "RANGE"
    ELSE "OK"

-----------------------------------------------------------------------------
(* ACK and NACK: one layout, told apart by the frame class. *)

AckSize == 4

\* Slip: a NACK of reason 0 passes.
NackReasonIsAssignedSlip(reason) == reason \in 0..5

NackReasonIsAssigned(reason) == reason \in 1..5

ZeroAck == [control_version |-> 0, reason |-> 0, acked_sequence |-> 0]

MakeAck(sequence) ==
    [control_version |-> ControlVersion, reason |-> 0,
     acked_sequence |-> sequence]

MakeNackStatus(reason) ==
    IF ~NackReasonIsAssigned(reason) THEN "INVALID_ARGUMENT" ELSE "OK"

MakeNack(sequence, reason) ==
    [control_version |-> ControlVersion, reason |-> reason,
     acked_sequence |-> sequence]

AckReasonIsLegal(is_ack, reason) ==
    IF is_ack THEN reason = 0 ELSE NackReasonIsAssigned(reason)

AckEncodeStatus(ack, is_ack, capacity) ==
    IF ack.control_version # ControlVersion THEN "INCOMPATIBLE_VERSION"
    ELSE IF ~AckReasonIsLegal(is_ack, ack.reason) THEN "INVALID_ARGUMENT"
    ELSE IF capacity < AckSize THEN "RANGE"
    ELSE "OK"

AckEncode(ack) ==
    <<ack.control_version, ack.reason>> \o PutU16(ack.acked_sequence)

AckDecodeStatus(data, is_ack) ==
    IF ExactLength(Len(data), AckSize) # "OK"
    THEN ExactLength(Len(data), AckSize)
    ELSE IF data[1] # ControlVersion THEN "INCOMPATIBLE_VERSION"
    ELSE IF ~AckReasonIsLegal(is_ack, data[2]) THEN "RANGE"
    ELSE "OK"

AckDecode(data) ==
    [control_version |-> data[1], reason |-> data[2],
     acked_sequence |-> GetU16(data, 2)]

-----------------------------------------------------------------------------
(* CLOSE and KEEPALIVE. *)

CloseSize == 2

CloseReasonIsAssigned(reason) == reason \in 1..4

ZeroClose == [control_version |-> 0, reason |-> 0]

MakeCloseStatus(reason) ==
    IF ~CloseReasonIsAssigned(reason) THEN "INVALID_ARGUMENT" ELSE "OK"

MakeClose(reason) == [control_version |-> ControlVersion, reason |-> reason]

CloseEncodeStatus(close, capacity) ==
    IF close.control_version # ControlVersion THEN "INCOMPATIBLE_VERSION"
    ELSE IF ~CloseReasonIsAssigned(close.reason) THEN "INVALID_ARGUMENT"
    ELSE IF capacity < CloseSize THEN "RANGE"
    ELSE "OK"

CloseEncode(close) == <<close.control_version, close.reason>>

CloseDecodeStatus(data) ==
    IF ExactLength(Len(data), CloseSize) # "OK"
    THEN ExactLength(Len(data), CloseSize)
    ELSE IF data[1] # ControlVersion THEN "INCOMPATIBLE_VERSION"
    ELSE IF ~CloseReasonIsAssigned(data[2]) THEN "RANGE"
    ELSE "OK"

CloseDecode(data) == [control_version |-> data[1], reason |-> data[2]]

KeepaliveCheck(payload_len) == IF payload_len # 0 THEN "RANGE" ELSE "OK"

-----------------------------------------------------------------------------
(* The HANDOFF control. *)

Op == [PATH_CHALLENGE |-> 1, PATH_RESPONSE |-> 2, COMMIT |-> 3, CONFIRM |-> 4]

ChallengeSize == 8

HandoffHeaderSize == 10

HandoffMaxSize == HandoffHeaderSize + ChallengeSize

OpIsAssigned(op) == op \in 1..4

CarriesChallenge(op) == op \in {Op.PATH_CHALLENGE, Op.PATH_RESPONSE}

HandoffEncodedSize(op) ==
    IF ~OpIsAssigned(op) THEN 0
    ELSE IF CarriesChallenge(op) THEN HandoffMaxSize
    ELSE HandoffHeaderSize

ZeroHandoff ==
    [operation |-> 0, migration_ref |-> NoRef, session_ref |-> NoRef,
     challenge_present |-> FALSE, challenge |-> Zeros(ChallengeSize)]

HandoffEncodeStatus(c, capacity) ==
    IF ~OpIsAssigned(c.operation) THEN "RANGE"
    ELSE IF c.migration_ref = NoRef \/ c.session_ref = NoRef THEN "RANGE"
    ELSE IF c.challenge_present # CarriesChallenge(c.operation)
         THEN "INVALID_ARGUMENT"
    ELSE IF capacity < HandoffEncodedSize(c.operation) THEN "RANGE"
    ELSE "OK"

HandoffEncode(c) ==
    <<ControlVersion, c.operation>>
    \o PutU32(c.migration_ref) \o PutU32(c.session_ref)
    \o (IF CarriesChallenge(c.operation) THEN c.challenge ELSE <<>>)

HandoffDecodeStatus(in) ==
    IF Len(in) < HandoffHeaderSize THEN "TRUNCATED"
    ELSE IF in[1] # ControlVersion THEN "INCOMPATIBLE_VERSION"
    ELSE IF ~OpIsAssigned(in[2]) THEN "RANGE"
    ELSE IF ExactLength(Len(in), HandoffEncodedSize(in[2])) # "OK"
         THEN ExactLength(Len(in), HandoffEncodedSize(in[2]))
    ELSE IF GetU32(in, 2) = NoRef \/ GetU32(in, 6) = NoRef THEN "RANGE"
    ELSE "OK"

\* Slip: a control without a challenge leaves the one before it in place.
HandoffDecodeSlip(in, control) ==
    LET op == in[2]
        named == [control EXCEPT !.operation = op,
                                 !.migration_ref = GetU32(in, 2),
                                 !.session_ref = GetU32(in, 6)]
    IN  IF CarriesChallenge(op)
        THEN [named EXCEPT !.challenge_present = TRUE,
                           !.challenge = SubSeq(in, HandoffHeaderSize + 1,
                                                    HandoffMaxSize)]
        ELSE named

\* The caller's struct, which may hold an earlier control.
HandoffDecode(in, control) ==
    LET op == in[2]
    IN  [control EXCEPT
            !.operation = op,
            !.migration_ref = GetU32(in, 2),
            !.session_ref = GetU32(in, 6),
            !.challenge_present = CarriesChallenge(op),
            !.challenge = IF CarriesChallenge(op)
                          THEN SubSeq(in, HandoffHeaderSize + 1,
                                          HandoffMaxSize)
                          ELSE Zeros(ChallengeSize)]

MakeHandoffStatus(mig, session) ==
    IF mig = NoRef \/ session = NoRef THEN "RANGE" ELSE "OK"

\* make_commit and make_confirm; with a challenge, the two path controls.
MakeHandoff(op, mig, session) ==
    [operation |-> op, migration_ref |-> mig, session_ref |-> session,
     challenge_present |-> FALSE, challenge |-> Zeros(ChallengeSize)]

MakeHandoffWith(op, mig, session, challenge) ==
    [MakeHandoff(op, mig, session) EXCEPT !.challenge_present = TRUE,
                                          !.challenge = challenge]

-----------------------------------------------------------------------------
(* The rendezvous beacon. *)

BeaconSize == 8

Magic == <<77, 67>>   \* 0x4D 0x43

BeaconVersion == 0

BeaconEncodeStatus(transport, token, capacity) ==
    IF transport = 0 \/ token = NoRef THEN "INVALID_ARGUMENT"
    ELSE IF capacity < BeaconSize THEN "RANGE"
    ELSE "OK"

BeaconEncode(transport, token) ==
    Magic \o <<BeaconVersion, transport>> \o PutU32(token)

BeaconDecodeStatus(in) ==
    IF Len(in) < BeaconSize THEN "TRUNCATED"
    ELSE IF SubSeq(in, 1, 2) # Magic THEN "CONTEXT_MISMATCH"
    ELSE IF in[3] # BeaconVersion THEN "INCOMPATIBLE_VERSION"
    ELSE IF in[4] = 0 \/ GetU32(in, 4) = NoRef THEN "RANGE"
    ELSE "OK"

\* Slip: any beacon for the transport will do.
BeaconMatchesSlip(data, transport, token) ==
    BeaconDecodeStatus(data) = "OK" /\ data[4] = transport

BeaconMatches(data, transport, token) ==
    /\ BeaconDecodeStatus(data) = "OK"
    /\ data[4] = transport
    /\ GetU32(data, 4) = token

=============================================================================

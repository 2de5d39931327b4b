---------------------------- MODULE FrameStream -----------------------------
(***************************************************************************)
(* Frames over a carriage that delivers a stream of bytes in pieces of any  *)
(* size and may alter one of them.                                          *)
(*                                                                          *)
(* The carriage belongs to a transport binding; it is modelled from what    *)
(* src/include/mcl/link.h asks of it (lines 35-41, 188-196 and 308-314).    *)
(* It keeps a reassembly buffer of the size of the largest frame and calls  *)
(* the decoder whenever its bytes have changed.  It waits for more when the *)
(* decoder says TRUNCATED, goes on behind the bytes consumed when it says   *)
(* OK, and otherwise scans on by a byte or drops what it has.               *)
(*                                                                          *)
(* The receiver keeps one struct of each kind and decodes into it again and *)
(* again, a Link control by the contract of the frame's class.              *)
(***************************************************************************)
EXTENDS LinkFrame, Controls

CONSTANTS
    Traffic,    \* the frames a sender may want to send
    SendMax,    \* bound on the frames sent
    PieceSizes, \* bound on the pieces the stream is cut into
    Noise       \* what an alteration may add to a byte, modulo 256

\* The mcl_link_frame_t of a sender, with the bytes its payload points to.
Frames ==
    [link_major: Octet, frame_class: Octet, flags: Octet,
     source_ref: Word \X Word, destination_ref: Word \X Word,
     session_ref: Word \X Word, sequence: Word, freshness_ms: Word,
     payload: Seq(Octet)]

ASSUME StreamAssumption ==
    /\ Traffic \subseteq Frames
    /\ SendMax \in Nat \ {0} /\ PieceSizes \subseteq Nat /\ Noise \subseteq Octet

VARIABLES
    wire,       \* bytes sent and not yet arrived
    buffer,     \* bytes arrived and not yet consumed
    verdict,    \* what the decoder said of them
    extent,     \* bytes of the buffer's storage that were ever written
    frame,      \* the receiver's mcl_link_frame_t
    controls,   \* its mcl_link_ack_t, mcl_link_close_t, mcl_handoff_control_t
    read,       \* {} or {[class, payload] last decoded into each of them}
    sent,       \* frames sent, as a receiver sees them
    delivered,  \* frames received
    altered     \* has a byte been altered?

vars == <<wire, buffer, verdict, extent, frame, controls, read, sent,
          delivered, altered>>

Drop(bytes, n) == SubSeq(bytes, n + 1, Len(bytes))

\* Fields without their flag mean nothing and arrive as 0.
Meaning(f) ==
    [f EXCEPT
        !.destination_ref = Optional(Destination(f.flags), @, NoRef),
        !.session_ref = Optional(Session(f.flags), @, NoRef),
        !.sequence = Optional(Sequenced(f.flags), @, 0),
        !.freshness_ms = Optional(Freshness(f.flags), @, 0)]

\* The bytes a decoded frame borrows.
PayloadOf(in, decoded) ==
    SubSeq(in, decoded.payload + 1, decoded.payload + decoded.payload_len)

Received(in, decoded) ==
    [link_major |-> decoded.link_major, frame_class |-> decoded.frame_class,
     flags |-> decoded.flags, source_ref |-> decoded.source_ref,
     destination_ref |-> decoded.destination_ref,
     session_ref |-> decoded.session_ref, sequence |-> decoded.sequence,
     freshness_ms |-> decoded.freshness_ms,
     payload |-> PayloadOf(in, decoded)]

-----------------------------------------------------------------------------
(* Which contract a payload is read under. *)

ContractStatus(class, payload) ==
    CASE class = Class.ACK -> AckDecodeStatus(payload, TRUE)
      [] class = Class.NACK -> AckDecodeStatus(payload, FALSE)
      [] class = Class.KEEPALIVE -> KeepaliveCheck(Len(payload))
      [] class = Class.HANDOFF -> HandoffDecodeStatus(payload)
      [] class = Class.CLOSE -> CloseDecodeStatus(payload)

LinkControls == {Class.ACK, Class.NACK, Class.KEEPALIVE, Class.HANDOFF,
                 Class.CLOSE}

\* The struct a class is decoded into; a KEEPALIVE has nothing to decode, and
\* the other classes are read above Link or by the negotiation.
StructOf(class) ==
    CASE class \in {Class.ACK, Class.NACK} -> "ack"
      [] class = Class.CLOSE -> "close"
      [] class = Class.HANDOFF -> "handoff"
      [] OTHER -> "none"

DecodeControl(class, payload, structs) ==
    CASE class \in {Class.ACK, Class.NACK} ->
             [structs EXCEPT !.ack = AckDecode(payload)]
      [] class = Class.CLOSE -> [structs EXCEPT !.close = CloseDecode(payload)]
      [] class = Class.HANDOFF ->
             [structs EXCEPT !.handoff = HandoffDecode(payload, @)]

ReadControl(class, payload) ==
    IF StructOf(class) # "none" /\ ContractStatus(class, payload) = "OK"
    THEN /\ controls' = DecodeControl(class, payload, controls)
         /\ read' = [read EXCEPT ![StructOf(class)] =
                        {[class |-> class, payload |-> payload]}]
    ELSE UNCHANGED <<controls, read>>

-----------------------------------------------------------------------------

Init ==
    /\ wire = <<>> /\ buffer = <<>> /\ verdict = "TRUNCATED" /\ extent = 0
    /\ frame = ZeroFrame
    /\ controls = [ack |-> ZeroAck, close |-> ZeroClose,
                   handoff |-> ZeroHandoff]
    /\ read = [s \in {"ack", "close", "handoff"} |-> {}]
    /\ sent = <<>> /\ delivered = <<>> /\ altered = FALSE

\* To bound the states, nothing new is sent behind an altered byte.
Send ==
    /\ Len(sent) < SendMax /\ ~altered
    /\ \E f \in Traffic :
           /\ EncodeStatus(f.link_major, f, MaxSize) = "OK"
           /\ wire' = wire \o Encode(f.link_major, f)
           /\ sent' = Append(sent, Meaning(f))
    /\ UNCHANGED <<buffer, verdict, extent, frame, controls, read, delivered,
                   altered>>

\* The buffer holds other bytes than before, and the decoder is asked.
Judge(bytes) ==
    /\ buffer' = bytes
    /\ verdict' = DecodeStatus(buffer')
    /\ frame' = Decode(buffer', frame)
    /\ extent' = IF Len(buffer') > extent THEN Len(buffer') ELSE extent

Room == MaxSize - Len(buffer)

\* Bounds: a piece is of one of the sizes PieceSizes, or all that is there
\* and fits; behind an altered byte, only that.
Pieces ==
    LET possible == {n \in 1..Len(wire) : n <= Room}
        largest == {n \in possible : n + 1 \notin possible}
    IN  IF altered THEN largest ELSE largest \cup (possible \cap PieceSizes)

Arrive ==
    /\ verdict = "TRUNCATED"
    /\ \E n \in Pieces :
           /\ wire' = Drop(wire, n)
           /\ Judge(buffer \o SubSeq(wire, 1, n))
    /\ UNCHANGED <<controls, read, sent, delivered, altered>>

\* The last byte of the piece that arrives was altered on the way.
ArriveAltered ==
    /\ ~altered
    /\ verdict = "TRUNCATED"
    /\ \E n \in Pieces, d \in Noise :
           /\ wire' = Drop(wire, n)
           /\ Judge(buffer \o SubSeq(wire, 1, n - 1)
                           \o <<(wire[n] + d) % 256>>)
    /\ altered' = TRUE
    /\ UNCHANGED <<controls, read, sent, delivered>>

\* The frame is used before its bytes are given up.
Deliver ==
    /\ verdict = "OK"
    /\ delivered' = Append(delivered, Received(buffer, frame))
    /\ ReadControl(frame.frame_class, PayloadOf(buffer, frame))
    /\ Judge(Drop(buffer, Consumed(buffer)))
    /\ UNCHANGED <<wire, sent, altered>>

Resynchronise ==
    /\ verdict \notin {"OK", "TRUNCATED"}
    /\ \E n \in {1, Len(buffer)} : Judge(Drop(buffer, n))
    /\ UNCHANGED <<wire, controls, read, sent, delivered, altered>>

\* What the carriage does; the verdict decides which of the three it is.
Carry == Arrive \/ Deliver \/ Resynchronise

Next == Send \/ ArriveAltered \/ Carry

Spec == Init /\ [][Next]_vars

\* The medium delivers what was sent and the carriage does its work; nobody
\* has to send, or to alter.
FairSpec == Spec /\ WF_vars(Carry)

-----------------------------------------------------------------------------

TypeOK ==
    /\ wire \in Seq(Octet) /\ buffer \in Seq(Octet)
    /\ Len(buffer) <= extent /\ extent <= MaxSize
    /\ altered \in BOOLEAN
    /\ frame.flags < 32 /\ frame.payload_len \in 0..MaxPayload
    /\ Len(sent) <= SendMax

\* link.h:35-41 and 188-196.  The decoder never asks for more than a carriage
\* that can hold the largest frame can hold: whatever bytes it has, altered
\* ones included, a full buffer is a frame or can never be one.
FullBufferIsDecided == verdict = "TRUNCATED" => Len(buffer) < MaxSize

\* mcl_link_frame_decode assigns to the caller's struct as it goes.  Whatever
\* sequence of successes and errors went into one struct, the payload it
\* points to lies within bytes that have been received.
PayloadIsReadable ==
    frame.payload_len # 0 => frame.payload + frame.payload_len <= extent

\* A struct decoded into again and again holds exactly the control accepted
\* last: encoding it gives back the bytes it came from, with no challenge of
\* an earlier control and nothing of a refused one.
ControlsAreWhatWasRead ==
    /\ \A r \in read["ack"] :
           /\ AckEncodeStatus(controls.ack, r.class = Class.ACK, AckSize) = "OK"
           /\ AckEncode(controls.ack) = r.payload
    /\ \A r \in read["close"] :
           /\ CloseEncodeStatus(controls.close, CloseSize) = "OK"
           /\ CloseEncode(controls.close) = r.payload
    /\ \A r \in read["handoff"] :
           /\ HandoffEncodeStatus(controls.handoff, HandoffMaxSize) = "OK"
           /\ HandoffEncode(controls.handoff) = r.payload
           /\ CarriesChallenge(controls.handoff.operation)
                  \/ controls.handoff.challenge = Zeros(ChallengeSize)

\* link.h:269-272.  No payload is a legal control of two of the five classes
\* with a Link contract, so a class altered from one of them to another cannot
\* give the bytes a second meaning.
OneContract ==
    \A i \in 1..Len(delivered) :
        \A a, b \in LinkControls :
            /\ ContractStatus(a, delivered[i].payload) = "OK"
            /\ ContractStatus(b, delivered[i].payload) = "OK"
            => a = b

CarriesCheck(m) == FrameCheck(m.flags) = 1

Channel ==
    INSTANCE FrameChannel WITH
        Messages <- {Meaning(f) : f \in Traffic}, IsChecked <- CarriesCheck

\* However the bytes are cut into pieces, the stream is a channel of frames:
\* in order and once while nothing was altered, and afterwards no frame with
\* a frame check that was not sent.
ImplementsChannel == Channel!Spec

\* Unless a byte is altered every frame sent arrives.
EverythingArrives ==
    \A n \in 1..SendMax :
        (Len(sent) = n) ~> (Len(delivered) >= n \/ altered)

=============================================================================

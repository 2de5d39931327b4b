----------------------------- MODULE AckWindow ------------------------------
(***************************************************************************)
(* Acknowledgements that name a frame by a sequence that wraps              *)
(* (mcl_link_sequence_is_live, src/src/control.c).                          *)
(*                                                                          *)
(* Frames are counted here without wrapping, which nobody on the link can   *)
(* do, so that the model can tell which frame an acknowledgement was meant  *)
(* for.  The machines see the count modulo Space only.                      *)
(*                                                                          *)
(* The sender is the library's caller.  It keeps a table indexed by         *)
(* sequence, obeys the limit of src/include/mcl/control.h:211-213 on the    *)
(* frames outstanding, and matches an acknowledgement only if the library   *)
(* calls its sequence live.  Link retransmits nothing: a frame that was     *)
(* lost stays outstanding until the caller gives it up or its sequence is   *)
(* used again.  Nothing bounds the time an acknowledgement is under way.    *)
(***************************************************************************)
EXTENDS Integers, FiniteSets

CONSTANTS
    Space,      \* 65536: the sequence is 16 bits
    Window,     \* MCL_LINK_SEQUENCE_WINDOW_MAX, a quarter of Space
    SentMax,    \* bound on the frames sent
    AcksMax     \* bound on the acknowledgements in flight

ASSUME WindowAssumption ==
    /\ Space \in Nat \ {0}
    /\ Window \in 1..Space
    /\ SentMax \in Nat \ {0} /\ AcksMax \in Nat \ {0}

VARIABLES
    sent,         \* frames sent so far; frame k was the k-th, from 0
    outstanding,  \* frames in the sender's table
    arrived,      \* those of them the peer received
    acks,         \* frames whose acknowledgement is in flight
    matched       \* {} or {the frame the last acknowledgement was matched to}

vars == <<sent, outstanding, arrived, acks, matched>>

Sequence(k) == k % Space

\* Slip: the difference stays an int, negative when acked is the larger.
DistanceSlip(highest, acked) == highest - acked

\* Subtraction taken back to 16 bits.
Distance(highest, acked) == (highest - acked) % Space

\* Slip: half the space, as RFC 1982 permits.
IsLiveSlip(highest, acked) == Distance(highest, acked) < Space \div 2

IsLive(highest, acked) == Distance(highest, acked) < Window

\* Slip: one frame too many.
HasRoomSlip(table) == Cardinality(table) <= Window

\* No more than Window frames are outstanding and unacknowledged.
HasRoom(table) == Cardinality(table) < Window

-----------------------------------------------------------------------------

HighestSent == Sequence(sent - 1)

Age(k) == sent - 1 - k

\* The frame that used this sequence before leaves the table.
SendFrame ==
    LET table == {k \in outstanding : Sequence(k) # Sequence(sent)}
    IN  /\ sent < SentMax
        /\ HasRoom(table)
        /\ sent' = sent + 1
        /\ outstanding' = table \cup {sent}
        /\ arrived' = arrived \cap table
        /\ matched' = {}
        /\ UNCHANGED acks

\* The peer receives a frame, however late, and acknowledges it, even if the
\* sender has stopped waiting for it.
ReceiveFrame(k) ==
    /\ Cardinality(acks \cup {k}) <= AcksMax
    /\ arrived' = arrived \cup ({k} \cap outstanding)
    /\ acks' = acks \cup {k}
    /\ matched' = {}
    /\ UNCHANGED <<sent, outstanding>>

\* The acknowledgement may be repeated, so it can arrive again.
ReceiveAck(k) ==
    LET hit == {j \in outstanding : Sequence(j) = Sequence(k)}
    IN  /\ IsLive(HighestSent, Sequence(k))
        /\ outstanding' = outstanding \ hit
        /\ arrived' = arrived \ hit
        /\ matched' = hit
        /\ UNCHANGED <<sent, acks>>

LoseAck(k) ==
    /\ acks' = acks \ {k}
    /\ matched' = {}
    /\ UNCHANGED <<sent, outstanding, arrived>>

\* The caller stops waiting for a frame.
GiveUp(k) ==
    /\ outstanding' = outstanding \ {k}
    /\ arrived' = arrived \ {k}
    /\ matched' = {}
    /\ UNCHANGED <<sent, acks>>

Init ==
    /\ sent = 0
    /\ outstanding = {} /\ arrived = {} /\ acks = {} /\ matched = {}

Next ==
    \/ SendFrame
    \/ \E k \in 0..(sent - 1) : ReceiveFrame(k)
    \/ \E k \in outstanding : GiveUp(k)
    \/ \E k \in acks : ReceiveAck(k) \/ LoseAck(k)

Spec == Init /\ [][Next]_vars

-----------------------------------------------------------------------------

\* The limit on the outstanding frames is kept, and no two of them have one
\* sequence.
TypeOK ==
    /\ sent \in 0..SentMax
    /\ outstanding \subseteq 0..(sent - 1)
    /\ arrived \subseteq outstanding
    /\ acks \subseteq 0..(sent - 1)
    /\ matched \subseteq 0..(sent - 1)
    /\ Cardinality(outstanding) <= Window
    /\ \A k \in outstanding : Age(k) < Space

\* A frame sent after k and within the window has the sequence of k.
Ambiguous(k) ==
    \E j \in (k + 1)..(sent - 1) :
        Age(j) < Window /\ Sequence(j) = Sequence(k)

\* control.h:205-215.  However late it is, an acknowledgement is matched to the
\* frame it was sent for, which then did arrive, or to none, unless one of the
\* last Window frames has the very same sequence: of such a one nothing on the
\* link can tell which frame it means, and it is matched to the younger.
MatchedWasReceived ==
    [][\A k \in acks :
           ReceiveAck(k) /\ ~Ambiguous(k) => matched' \subseteq {k} \cap arrived
      ]_vars

\* An outstanding frame is live exactly if it is one of the last Window sent,
\* on whichever side of the wrap the two sequences fall.
LiveIsRecent ==
    \A k \in outstanding :
        IsLive(HighestSent, Sequence(k)) <=> Age(k) < Window

=============================================================================

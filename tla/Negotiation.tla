---------------------------- MODULE Negotiation -----------------------------
(***************************************************************************)
(* Capability and version negotiation (src/src/negotiation.c), as operators *)
(* on the two controls.                                                     *)
(*                                                                          *)
(* A bitmap is the set of its bit indices: & is intersection, the highest   *)
(* set bit is the largest member.  The two controls are records of their    *)
(* fields; the length a payload arrived with is an argument of the decoders *)
(* and the control_version is a field, because decoding decides on both     *)
(* before it reads anything else.                                           *)
(***************************************************************************)
EXTENDS Naturals

CONSTANTS
    Majors,          \* indices of a major bitmap; a nibble on the wire
    MajorMax,        \* 15: the largest nibble
    Features,        \* indices of the feature bitmap
    FrameSizes,      \* values of max_frame
    Floor,           \* MCL_LINK_NEGOTIATED_FRAME_FLOOR
    ControlVersion   \* MCL_LINK_CONTROL_VERSION

ASSUME NegotiationAssumption ==
    /\ MajorMax \in Nat /\ Majors \subseteq 0..MajorMax
    /\ FrameSizes \subseteq Nat
    /\ Floor \in Nat
    /\ ControlVersion \in Nat

Capabilities ==
    [control_version: {ControlVersion}, wire_majors: SUBSET Majors,
     link_majors: SUBSET Majors, max_frame: FrameSizes,
     features: SUBSET Features]

Selections ==
    [control_version: {ControlVersion}, wire_major: Majors, link_major: Majors,
     max_frame: FrameSizes, features: SUBSET Features]

-----------------------------------------------------------------------------
(* Building, sending and receiving the controls. *)

Capability(wire, link, frame, features) ==
    [control_version |-> ControlVersion, wire_majors |-> wire,
     link_majors |-> link, max_frame |-> frame, features |-> features]

MakeCapabilityStatus(wire, link, frame) ==
    IF wire = {} \/ link = {} THEN "INVALID_ARGUMENT"
    ELSE IF frame < Floor THEN "RANGE"
    ELSE "OK"

CapabilityEncodeStatus(c) ==
    IF c.control_version # ControlVersion THEN "INCOMPATIBLE_VERSION"
    ELSE MakeCapabilityStatus(c.wire_majors, c.link_majors, c.max_frame)

\* `length` is how the payload's length compares with the exact one.
ExactLength(length) ==
    CASE length = "short" -> "TRUNCATED"
      [] length = "long"  -> "RANGE"
      [] length = "exact" -> "OK"

CapabilityDecodeStatus(length, c) ==
    IF ExactLength(length) # "OK" THEN ExactLength(length)
    ELSE IF c.control_version # ControlVersion THEN "INCOMPATIBLE_VERSION"
    ELSE IF c.wire_majors = {} \/ c.link_majors = {} THEN "RANGE"
    ELSE IF c.max_frame < Floor THEN "RANGE"
    ELSE "OK"

NegotiationEncodeStatus(n) ==
    IF n.control_version # ControlVersion THEN "INCOMPATIBLE_VERSION"
    ELSE IF n.wire_major > MajorMax \/ n.link_major > MajorMax THEN "RANGE"
    ELSE IF n.max_frame < Floor THEN "RANGE"
    ELSE "OK"

NegotiationDecodeStatus(length, n) ==
    IF ExactLength(length) # "OK" THEN ExactLength(length)
    ELSE NegotiationEncodeStatus(n)

-----------------------------------------------------------------------------
(* The selection, which both peers compute from the same two capabilities.  *)

\* Slip: the index is counted from one.
HighestBitSlip(mask) ==
    (CHOOSE i \in mask : \A j \in mask : j <= i) + 1

\* -1 in the code stands for "no bit"; here the callers ask for that first.
HighestBit(mask) ==
    CHOOSE i \in mask : \A j \in mask : j <= i

\* Slip: the limit is this machine's own, not the smaller of the two.
MinFrameSlip(local, peer) == local.max_frame

MinFrame(local, peer) ==
    IF local.max_frame < peer.max_frame THEN local.max_frame
    ELSE peer.max_frame

CommonWire(local, peer) == local.wire_majors \cap peer.wire_majors

CommonLink(local, peer) == local.link_majors \cap peer.link_majors

SelectStatus(local, peer) ==
    IF CommonWire(local, peer) = {} \/ CommonLink(local, peer) = {} THEN "RANGE"
    ELSE IF MinFrame(local, peer) < Floor THEN "RANGE"
    ELSE "OK"

\* Slip: this machine's features, whether or not the peer has them.
SelectSlip(local, peer) ==
    [control_version |-> ControlVersion,
     wire_major |-> HighestBit(CommonWire(local, peer)),
     link_major |-> HighestBit(CommonLink(local, peer)),
     max_frame |-> MinFrame(local, peer),
     features |-> local.features]

Select(local, peer) ==
    [control_version |-> ControlVersion,
     wire_major |-> HighestBit(CommonWire(local, peer)),
     link_major |-> HighestBit(CommonLink(local, peer)),
     max_frame |-> MinFrame(local, peer),
     features |-> local.features \cap peer.features]

\* With the peer's capability the answer is known and must be met.
CheckKnownStatus(proposal, local, peer) ==
    IF SelectStatus(local, peer) # "OK" THEN SelectStatus(local, peer)
    ELSE IF /\ proposal.wire_major = Select(local, peer).wire_major
            /\ proposal.link_major = Select(local, peer).link_major
            /\ proposal.max_frame = Select(local, peer).max_frame
            /\ proposal.features = Select(local, peer).features
         THEN "OK"
    ELSE "RANGE"

\* Slip: the frame limit is not checked against this machine's own.
CheckAloneStatusSlip(proposal, local) ==
    IF /\ proposal.wire_major \in local.wire_majors
       /\ proposal.link_major \in local.link_majors
       /\ proposal.features \subseteq local.features
    THEN "OK" ELSE "RANGE"

\* Without it, only that the proposal is legal here.
CheckAloneStatus(proposal, local) ==
    IF /\ proposal.wire_major \in local.wire_majors
       /\ proposal.link_major \in local.link_majors
       /\ proposal.max_frame \in Floor..local.max_frame
       /\ proposal.features \subseteq local.features
    THEN "OK" ELSE "RANGE"

\* mcl_link_negotiation_check; heard is {} or {the peer's capability}.
CheckStatus(proposal, local, heard) ==
    IF proposal.control_version # ControlVersion THEN "INCOMPATIBLE_VERSION"
    ELSE IF proposal.wire_major > MajorMax \/ proposal.link_major > MajorMax
         THEN "RANGE"
    ELSE IF heard = {} THEN CheckAloneStatus(proposal, local)
    ELSE CheckKnownStatus(proposal, local, CHOOSE c \in heard : TRUE)

=============================================================================

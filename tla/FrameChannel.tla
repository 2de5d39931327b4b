---------------------------- MODULE FrameChannel ----------------------------
(***************************************************************************)
(* What a stream of Link frames promises to its two ends.  As long as no    *)
(* byte was altered on the way, frames arrive as they were sent, in order   *)
(* and once.  Afterwards frames may be missed or made up, but none that     *)
(* carries a frame check unless it was sent.                                *)
(***************************************************************************)
EXTENDS Sequences, Naturals

CONSTANTS
    Messages,       \* frames as their receiver sees them
    IsChecked(_)    \* does a frame carry a frame check?

VARIABLES sent, delivered, altered

channelVars == <<sent, delivered, altered>>

Init == sent = <<>> /\ delivered = <<>> /\ altered = FALSE

Send ==
    /\ \E m \in Messages : sent' = Append(sent, m)
    /\ UNCHANGED <<delivered, altered>>

Deliver ==
    /\ Len(delivered) < Len(sent)
    /\ delivered' = Append(delivered, sent[Len(delivered) + 1])
    /\ UNCHANGED <<sent, altered>>

Alter == altered' = TRUE /\ UNCHANGED <<sent, delivered>>

DeliverAfterAlteration ==
    LET count == Len(delivered')
    IN  /\ altered
        /\ count = Len(delivered) + 1
        /\ SubSeq(delivered', 1, count - 1) = delivered
        /\ IsChecked(delivered'[count]) =>
               \E i \in 1..Len(sent) : sent[i] = delivered'[count]
        /\ UNCHANGED <<sent, altered>>

Next == Send \/ Deliver \/ Alter \/ DeliverAfterAlteration

Spec == Init /\ [][Next]_channelVars

=============================================================================

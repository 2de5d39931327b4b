------------------------------- MODULE MCNode --------------------------------
(* Values for TLC: two offers of one transport, of which either may be       *)
(* abandoned and followed by the other, and a way back whose token is the    *)
(* reserved 0, so that nobody can publish it.                                *)
EXTENDS Node

MCMayOffer ==
    {[mig |-> 1, transport |-> 2, profile |-> 1, terms |-> 1],
     [mig |-> 2, transport |-> 2, profile |-> 1, terms |-> 2],
     [mig |-> 3, transport |-> 1, profile |-> 1, terms |-> 0]}

=============================================================================

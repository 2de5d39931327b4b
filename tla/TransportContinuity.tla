------------------------ MODULE TransportContinuity -------------------------
(***************************************************************************)
(* What a contact promises the machine that owns it, without the messages  *)
(* by which it keeps the promise (src/include/mcl/contact.h).               *)
(*                                                                          *)
(* A contact has one carrier.  A candidate may be proposed and dropped      *)
(* again without touching the carrier, until the move is decided; only a    *)
(* candidate that was proven reachable becomes the carrier; and the session *)
(* that names the contact outlives every such move.                         *)
(***************************************************************************)
EXTENDS Naturals

CONSTANTS Transports, Sessions

VARIABLES
    phase,       \* how far a change of carrier has come
    carrier,     \* the transport carrying the contact, 0 before it begins
    candidate,   \* the transport it may move to, 0 when there is none
    session      \* the reference naming the contact, 0 until one is bound

vars == <<phase, carrier, candidate, session>>

Phases == {"none", "settled", "proposed", "proven", "decided", "closed"}

Init == phase = "none" /\ carrier = 0 /\ candidate = 0 /\ session = 0

\* A new contact in the same storage.
Begin(t) ==
    /\ phase' = "settled"
    /\ carrier' = t
    /\ candidate' = 0
    /\ session' = 0

\* A proposal, or the winning one of two that collided.
Propose(t) ==
    /\ phase \in {"settled", "proposed"}
    /\ t # carrier
    /\ phase' = "proposed"
    /\ candidate' = t
    /\ UNCHANGED <<carrier, session>>

Bind(s) ==
    /\ phase = "proposed"
    /\ session = 0
    /\ session' = s
    /\ UNCHANGED <<phase, carrier, candidate>>

Prove ==
    /\ phase = "proposed"
    /\ session # 0
    /\ phase' = "proven"
    /\ UNCHANGED <<carrier, candidate, session>>

Decide ==
    /\ phase = "proven"
    /\ phase' = "decided"
    /\ UNCHANGED <<carrier, candidate, session>>

Move ==
    /\ phase \in {"proven", "decided"}
    /\ phase' = "settled"
    /\ carrier' = candidate
    /\ candidate' = 0
    /\ UNCHANGED session

Drop ==
    /\ phase \in {"proposed", "proven"}
    /\ phase' = "settled"
    /\ candidate' = 0
    /\ UNCHANGED <<carrier, session>>

Close ==
    /\ phase # "none"
    /\ phase' = "closed"
    /\ candidate' = 0
    /\ session' = 0
    /\ UNCHANGED carrier

Next ==
    \/ \E t \in Transports : Begin(t) \/ Propose(t)
    \/ \E s \in Sessions : Bind(s)
    \/ Prove \/ Decide \/ Move \/ Drop \/ Close

Spec == Init /\ [][Next]_vars

=============================================================================

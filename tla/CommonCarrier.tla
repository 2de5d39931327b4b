---------------------------- MODULE CommonCarrier ----------------------------
(***************************************************************************)
(* What two machines that share a contact promise together, without the     *)
(* frames, the sessions and the retransmissions by which they keep it       *)
(* (src/spec/link-handoff-control-v0.1.md).                                 *)
(*                                                                          *)
(* The machines are on one carrier.  To change it, one of them pledges      *)
(* itself to an offer, and from then on cannot withdraw; the other follows  *)
(* the pledge; the first settles it once the other has followed.  Nobody    *)
(* pledges itself before the last change is settled, nobody follows         *)
(* anything but a pledge, and no migration is made twice in a row.  A       *)
(* machine that closed the contact no longer constrains its peer.           *)
(***************************************************************************)
EXTENDS Naturals

CONSTANTS
    Machines,
    Offers,     \* records with a migration reference and a transport
    First       \* the carrier on which the machines met

VARIABLES
    carrier,    \* the transport each machine has the contact on
    pledge,     \* {}, or the one offer the machine cannot go back on
    done,       \* the migration each machine completed last, 0 for none
    closed      \* has the machine closed the contact?

vars == <<carrier, pledge, done, closed>>

Init ==
    /\ carrier = [p \in Machines |-> First]
    /\ pledge = [p \in Machines |-> {}]
    /\ done = [p \in Machines |-> 0]
    /\ closed = [p \in Machines |-> FALSE]

\* p goes to the transport of o and has completed its migration.
Arrive(p, o) ==
    /\ carrier' = [carrier EXCEPT ![p] = o.transport]
    /\ done' = [done EXCEPT ![p] = o.mig]

\* p binds itself to leave the carrier it shares with q.
Pledge(p, q, o) ==
    /\ ~closed[p]
    /\ pledge[p] = {}
    /\ closed[q] \/ (pledge[q] = {} /\ carrier[q] = carrier[p])
    /\ o.transport # carrier[p]
    /\ o.mig # done[p]
    /\ pledge' = [pledge EXCEPT ![p] = {o}]
    /\ UNCHANGED <<carrier, done, closed>>

\* p goes where q is pledged to go.
Follow(p, q, o) ==
    /\ ~closed[p]
    /\ pledge[p] = {}
    /\ closed[q] \/ pledge[q] = {o}
    /\ o.transport # carrier[p]
    /\ o.mig # done[p]
    /\ Arrive(p, o)
    /\ UNCHANGED <<pledge, closed>>

\* p goes where it pledged to go, after q.
Settle(p, q, o) ==
    /\ pledge[p] = {o}
    /\ closed[q] \/ (done[q] = o.mig /\ carrier[q] = o.transport)
    /\ Arrive(p, o)
    /\ pledge' = [pledge EXCEPT ![p] = {}]
    /\ UNCHANGED closed

Close(p) ==
    /\ closed' = [closed EXCEPT ![p] = TRUE]
    /\ pledge' = [pledge EXCEPT ![p] = {}]
    /\ UNCHANGED <<carrier, done>>

Change(p, q) ==
    \E o \in Offers : Pledge(p, q, o) \/ Follow(p, q, o) \/ Settle(p, q, o)

Next ==
    \/ \E p, q \in Machines : p # q /\ Change(p, q)
    \/ \E p \in Machines : Close(p)

Spec == Init /\ [][Next]_vars

=============================================================================

-------------------------------- MODULE Node --------------------------------
(***************************************************************************)
(* A node: one link and one contact, which do not know of each other, and   *)
(* the SDK that owns the place where they cross                             *)
(* (src/spec/link-contact-ownership-v0.1.md, section 3).  The SDK is not    *)
(* part of the repository; its two gates are modelled from that section,    *)
(* everything behind them is LinkMachine, ContactMachine and Controls.      *)
(*                                                                          *)
(* The caller and the radios may do anything at any time: the lifecycle is  *)
(* walked by hand, frames of this and of earlier transactions arrive, the   *)
(* node restarts.  Only calls that succeed are steps.                       *)
(*                                                                          *)
(* OnTheAir is what a scanner of the candidate transport may hear: the      *)
(* beacon of every offer ever made, abandoned ones included, and traffic    *)
(* that only resembles one.                                                 *)
(***************************************************************************)
EXTENDS LinkMachine, ContactMachine, Controls

CONSTANTS
    MayOffer,         \* the offers this node or its peer may make
    FirstTransport,   \* where the contact begins
    SupportedMajors   \* what the link is initialised with

\* endpoint_rendezvous.h: a token is fresh per migration transaction.
ASSUME NodeAssumption ==
    /\ MayOffer \subseteq Offers
    /\ FirstTransport \in Transports
    /\ SupportedMajors \subseteq 0..WireMajorMax
    /\ \A o, q \in MayOffer : o.terms = q.terms => o.mig = q.mig

VARIABLES
    link,       \* the mcl_link_t
    contact,    \* the mcl_contact_t
    endpoint    \* {} or {the beacon that resolved the pending offer}

vars == <<link, contact, endpoint>>

-----------------------------------------------------------------------------
(* Rendezvous on the candidate transport. *)

\* The endpoint_token of an offer.
Token(o) == <<0, o.terms>>

\* A payload heard on a medium; of is the transaction whose offering peer
\* published it, which the bytes do not say, or 0.
Heard(medium, bytes, of) == [medium |-> medium, bytes |-> bytes, of |-> of]

\* The offering peer publishes what mcl_rendezvous_beacon_encode makes of its
\* offer, if it makes anything.
Published ==
    {Heard(o.transport, BeaconEncode(o.transport, Token(o)), o.mig) :
        o \in {p \in MayOffer :
                   BeaconEncodeStatus(p.transport, Token(p), BeaconSize)
                       = "OK"}}

\* Another protocol, another version, another medium's beacon, half of one.
Resembling(o) ==
    LET beacon == BeaconEncode(o.transport, Token(o))
    IN  {[beacon EXCEPT ![2] = 0], [beacon EXCEPT ![3] = 1],
         [beacon EXCEPT ![4] = o.transport + 1], SubSeq(beacon, 1, 7)}

OnTheAir ==
    Published \cup
    UNION {{Heard(o.transport, bytes, 0) : bytes \in Resembling(o)} :
               o \in MayOffer}

\* The accepting peer searches the candidate transport for the token.
Search ==
    /\ contact.state = "AGREED"
    /\ \E h \in OnTheAir :
           /\ h.medium = ControlTransport(contact)
           /\ BeaconMatches(h.bytes, contact.pending.transport,
                            Token(contact.pending))
           /\ endpoint' = {h}
    /\ UNCHANGED <<link, contact>>

\* The contact becomes c; the endpoint was resolved for its transaction only.
SetContact(c) ==
    /\ contact' = c
    /\ endpoint' = IF c.pending = contact.pending THEN endpoint ELSE {}

-----------------------------------------------------------------------------
(* What is not gated: ordinary frames, first contact, giving up. *)

Offer(o) ==
    /\ RecordOfferStatus(contact, o) = "OK"
    /\ SetContact(RecordOffer(contact, o))
    /\ UNCHANGED link

Collide(source, o) ==
    /\ ResolveOfferCollisionStatus(contact, source, o) = "OK"
    /\ SetContact(ResolveOfferCollision(contact, source, o))
    /\ UNCHANGED link

Accept(s) ==
    LET o == contact.pending
    IN  /\ AgreeStatus(contact, o.mig, o.transport, o.profile, s) = "OK"
        /\ SetContact(Agree(contact, o.mig, o.transport, o.profile, s))
        /\ UNCHANGED link

LearnPeer(ref) ==
    /\ SetPeerRefStatus(contact, ref) = "OK"
    /\ SetContact(SetPeerRef(contact, ref))
    /\ UNCHANGED link

GiveUp ==
    /\ AbandonMigrationStatus(contact) = "OK"
    /\ SetContact(AbandonMigration(contact))
    /\ UNCHANGED link

CloseContact ==
    /\ CloseStatus(contact) = "OK"
    /\ SetContact(Close(contact))
    /\ UNCHANGED link

-----------------------------------------------------------------------------
(* mcl_node_send_handoff and mcl_node_apply_handoff. *)

Carries(state) == state \in {"ESTABLISHED", "HANDOFF"}

\* The first gate: a migration is driven in two states of the lifecycle.
MayDrive == Carries(link.state)

SendChallenge(ch) ==
    /\ MayDrive
    /\ ValidationBeginStatus(contact) = "OK"
    /\ SetContact(ValidationBegin(contact, ch))
    /\ UNCHANGED link

SendCommit ==
    /\ MayDrive
    /\ CommitBeginStatus(contact) = "OK"
    /\ SetContact(CommitBegin(contact))
    /\ UNCHANGED link

\* The receiving peer records the challenge and echoes it.
ApplyChallenge(m, s, ch) ==
    /\ MayDrive
    /\ contact.state = "AGREED"
    /\ CheckTransaction(contact, m, s) = "OK"
    /\ SetContact(ValidationResponse(ValidationBegin(contact, ch), m, s, ch))
    /\ UNCHANGED link

ApplyResponse(m, s, ch) ==
    /\ MayDrive
    /\ ValidationResponseStatus(contact, m, s, ch) = "OK"
    /\ SetContact(ValidationResponse(contact, m, s, ch))
    /\ UNCHANGED link

ApplyCommit(m, s) ==
    /\ MayDrive
    /\ CommitAcceptStatus(contact, m, s) = "OK"
    /\ SetContact(CommitAccept(contact, m, s))
    /\ UNCHANGED link

ApplyConfirm(m, s) ==
    /\ MayDrive
    /\ CommitConfirmStatus(contact, m, s) = "OK"
    /\ SetContact(CommitConfirm(contact, m, s))
    /\ UNCHANGED link

-----------------------------------------------------------------------------
(* mcl_node_link_transition, the context, restart. *)

\* The second gate: those two states are not left with a transaction
\* outstanding (mcl_contact_migration_active).
MayGo(next) ==
    Carries(link.state) /\ ~Carries(next) => ~MigrationInProgress(contact)

LinkTransition(next) ==
    /\ MayGo(next)
    /\ TransitionStatus(link, next) = "OK"
    /\ link' = Transition(link, next)
    /\ UNCHANGED <<contact, endpoint>>

Install(key) ==
    /\ InstallContextStatus(link, key) = "OK"
    /\ link' = InstallContext(link, key)
    /\ UNCHANGED <<contact, endpoint>>

Restart(ref) ==
    /\ link' = Fresh(SupportedMajors)
    /\ contact' = Begin(contact, ref, FirstTransport)
    /\ endpoint' = {}

-----------------------------------------------------------------------------

Init ==
    /\ link = Fresh(SupportedMajors)
    /\ \E ref \in LocalRefs : contact = Begin(Cleared, ref, FirstTransport)
    /\ endpoint = {}

Next ==
    \/ \E o \in MayOffer :
           Offer(o) \/ \E source \in LocalRefs : Collide(source, o)
    \/ \E s \in Sessions : Accept(s)
    \/ Search
    \/ \E ref \in LocalRefs : LearnPeer(ref)
    \/ \E ch \in Challenges : SendChallenge(ch)
    \/ SendCommit
    \/ \E m \in MigrationRefs, s \in Sessions :
           \/ \E ch \in Challenges :
                  ApplyChallenge(m, s, ch) \/ ApplyResponse(m, s, ch)
           \/ ApplyCommit(m, s)
           \/ ApplyConfirm(m, s)
    \/ GiveUp
    \/ CloseContact
    \/ \E next \in LinkStates : LinkTransition(next)
    \/ \E key \in Keys : Install(key)
    \/ \E ref \in LocalRefs : Restart(ref)

Spec == Init /\ [][Next]_vars

-----------------------------------------------------------------------------

\* Link and contact keep their types; an endpoint is one beacon, heard while
\* the offer it resolves is pending.
TypeOK ==
    /\ link \in Links
    /\ contact \in Contacts
    /\ endpoint \subseteq OnTheAir
    /\ endpoint # {} => MigrationInProgress(contact)

\* Past the first control of a migration: a challenge was sent or answered.
Driven(c) == c.state \in {"VALIDATING", "VALIDATED", "COMMITTING"}

\* A migration that is being driven finds the lifecycle ESTABLISHED or in
\* HANDOFF, however the caller walks the lifecycle and whenever the offer was
\* taken up: before the link was established, during it, or left over from it.
DrivenWhileEstablished == Driven(contact) => Carries(link.state)

\* From the first challenge to the settled move the context that authorizes
\* the peer's frames is not lost: no step of a driven migration, and no step
\* of the lifecycle during one, drops it.  Restart loses both.
MoveKeepsContext ==
    [][Driven(contact) /\ link.context_valid =>
           \/ link'.context_valid
           \/ \E ref \in LocalRefs : Restart(ref)]_vars

\* The endpoint a machine resolved is published by the peer that made the very
\* offer it agreed to, on the candidate transport: not by one whose attempt
\* was abandoned, and not by a stranger (beacon_matches).
EndpointIsTheOffered ==
    \A h \in endpoint :
        /\ h.of = contact.pending.mig
        /\ h.medium = contact.pending.transport

=============================================================================

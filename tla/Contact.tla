------------------------------ MODULE Contact -------------------------------
(***************************************************************************)
(* One mcl_contact_t in the hands of its caller (src/src/contact.c).       *)
(*                                                                          *)
(* The library is driven from outside: it has no clock, no transport and no *)
(* say in which function is called next, and the arguments come from frames *)
(* a radio delivered late, twice or out of order.  So every operation may   *)
(* be called in every state, with every combination of known references     *)
(* and the reserved 0.  A call the code refuses leaves the contact alone.   *)
(***************************************************************************)
EXTENDS ContactMachine

VARIABLE contact

vars == contact

Init == contact = Cleared

\* Offers as a caller may pass them: any field but the terms may be 0.
OfferArguments ==
    [mig: MigrationRefs \cup {0}, transport: Transports \cup {0},
     profile: Profiles \cup {0}, terms: Terms]

-----------------------------------------------------------------------------
(* One action per operation. *)

DoBegin ==
    \E ref \in LocalRefs, t \in Transports \cup {0} :
        contact' = Begin(contact, ref, t)

DoSetPeerRef ==
    \E ref \in LocalRefs : contact' = SetPeerRef(contact, ref)

DoRecordOffer ==
    \E o \in OfferArguments : contact' = RecordOffer(contact, o)

DoResolveOfferCollision ==
    \E source \in LocalRefs, o \in OfferArguments :
        contact' = ResolveOfferCollision(contact, source, o)

DoAgree ==
    \E m \in MigrationRefs \cup {0}, t \in Transports \cup {0},
       p \in Profiles \cup {0}, s \in Sessions \cup {0} :
        contact' = Agree(contact, m, t, p, s)

DoValidationBegin ==
    \E ch \in Challenges : contact' = ValidationBegin(contact, ch)

DoValidationResponse ==
    \E m \in MigrationRefs \cup {0}, s \in Sessions \cup {0},
       ch \in Challenges :
        contact' = ValidationResponse(contact, m, s, ch)

DoCommitBegin == contact' = CommitBegin(contact)

DoCommitConfirm ==
    \E m \in MigrationRefs \cup {0}, s \in Sessions \cup {0} :
        contact' = CommitConfirm(contact, m, s)

DoCommitAccept ==
    \E m \in MigrationRefs \cup {0}, s \in Sessions \cup {0} :
        contact' = CommitAccept(contact, m, s)

DoAbandonMigration == contact' = AbandonMigration(contact)

DoClose == contact' = Close(contact)

Next ==
    \/ DoBegin
    \/ DoSetPeerRef
    \/ DoRecordOffer
    \/ DoResolveOfferCollision
    \/ DoAgree
    \/ DoValidationBegin
    \/ DoValidationResponse
    \/ DoCommitBegin
    \/ DoCommitConfirm
    \/ DoCommitAccept
    \/ DoAbandonMigration
    \/ DoClose

Spec == Init /\ [][Next]_vars

-----------------------------------------------------------------------------
(* Invariants. *)

\* Every field of the contact keeps its type: a saturating counter stays in
\* its 16 bits and no call stores a half-formed offer.
TypeOK == contact \in Contacts

\* The fields that describe one transaction agree with each other and with
\* the state, whatever sequence of calls, refused ones included, led here
\* (clear_pending, settle_commit and abandon must each reset all of them).
TransactionCoherent == Coherent(contact)

-----------------------------------------------------------------------------
(* Duplicates (contact.h, "Duplicates and retransmission"). *)

\* Every control that is accepted could be a copy whose answer gets lost, so
\* the very next copy is answered the same way and changes nothing: OFFER,
\* ACCEPT, PATH_RESPONSE and CONFIRM succeed again, PATH_CHALLENGE is echoed
\* again and COMMIT is confirmed again.
RepeatAnsweredAlike ==
    /\ \A o \in Offers :
           RecordOfferStatus(contact, o) = "OK" =>
               LET c == RecordOffer(contact, o)
               IN  RecordOfferStatus(c, o) = "OK" /\ RecordOffer(c, o) = c
    /\ \A o \in Offers, s \in Sessions :
           AgreeStatus(contact, o.mig, o.transport, o.profile, s) = "OK" =>
               LET c == Agree(contact, o.mig, o.transport, o.profile, s)
               IN  /\ AgreeStatus(c, o.mig, o.transport, o.profile, s) = "OK"
                   /\ Agree(c, o.mig, o.transport, o.profile, s) = c
    /\ \A m \in MigrationRefs, s \in Sessions, ch \in Challenges :
           ValidationResponseStatus(contact, m, s, ch) = "OK" =>
               LET c == ValidationResponse(contact, m, s, ch)
               IN  /\ ValidationResponseStatus(c, m, s, ch) = "OK"
                   /\ ValidationResponse(c, m, s, ch) = c
                   /\ ChallengeRepeat(c, m, s, ch)
    /\ \A m \in MigrationRefs, s \in Sessions :
           CommitAcceptStatus(contact, m, s) = "OK" =>
               CommitRepeat(CommitAccept(contact, m, s), m, s)
    /\ \A m \in MigrationRefs, s \in Sessions :
           CommitConfirmStatus(contact, m, s) = "OK" =>
               LET c == CommitConfirm(contact, m, s)
               IN  /\ CommitConfirmStatus(c, m, s) = "OK"
                   /\ CommitConfirm(c, m, s) = c

-----------------------------------------------------------------------------
(* What one call may never do. *)

\* The storage was given to a new contact.
Rebegun ==
    \E ref \in LocalRefs, t \in Transports :
        contact' = Begin(contact, ref, t)

\* contact.h: one session reference for the life of the contact.  No
\* acceptance, abandonment, collision or completed move rebinds or loses it;
\* only closing ends it.
SessionOutlivesMigrations ==
    [][contact.session_valid =>
           \/ /\ contact'.session_valid
              /\ contact'.session_ref = contact.session_ref
           \/ contact'.state = "CLOSED"
           \/ Rebegun]_vars

\* contact.h, abandon_migration: once COMMIT may have been sent there are
\* two ways out, the confirmed move or the end of the contact.
CommitIsIrrevocable ==
    [][contact.state = "COMMITTING" =>
           \/ /\ contact'.state = "COMMITTING"
              /\ contact'.pending = contact.pending
              /\ contact'.active_transport = contact.active_transport
           \/ /\ contact'.state = "ACTIVE"
              /\ contact'.active_transport = contact.pending.transport
              /\ contact'.completed_migration_ref = contact.pending.mig
           \/ contact'.state = "CLOSED"
           \/ Rebegun]_vars

\* The active transport changes only to the candidate of a transaction whose
\* path was validated, and the move is recorded under its reference.
MovesOnlyWhenValidated ==
    [][contact'.active_transport # contact.active_transport =>
           \/ /\ contact.state \in {"VALIDATED", "COMMITTING"}
              /\ contact'.active_transport = contact.pending.transport
              /\ contact'.completed_migration_ref = contact.pending.mig
           \/ Rebegun]_vars

Stage(c) ==
    CASE c.state = "OFFERED"    -> 1
      [] c.state = "AGREED"     -> 2
      [] c.state = "VALIDATING" -> 3
      [] c.state = "VALIDATED"  -> 4
      [] c.state = "COMMITTING" -> 5
      [] OTHER                  -> 0

\* A delayed copy of a step already completed never undoes the progress made
\* after it (the rule agree states for a late ACCEPT, here for every call),
\* and never changes what the transaction names once it is agreed.
ProgressIsKept ==
    [][MigrationInProgress(contact) /\ MigrationInProgress(contact)' =>
           \/ contact.state = "OFFERED"
           \/ /\ Stage(contact') >= Stage(contact)
              /\ contact'.pending = contact.pending
              /\ (contact.challenge_valid =>
                      contact'.challenge = contact.challenge)]_vars

-----------------------------------------------------------------------------
(* The contact keeps the promise of TransportContinuity. *)

Continuity ==
    INSTANCE TransportContinuity WITH
        phase <- PhaseOf(contact),
        carrier <- contact.active_transport,
        candidate <- contact.pending.transport,
        session <- contact.session_ref

\* Every call is a step of the abstract contact, or none.
ImplementsContinuity == Continuity!Spec

=============================================================================

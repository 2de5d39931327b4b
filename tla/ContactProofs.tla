---------------------------- MODULE ContactProofs ----------------------------
(***************************************************************************)
(* Theorems about one contact (module Contact), for every set of references *)
(* and every counter width.                                                 *)
(***************************************************************************)
EXTENDS Contact, MachineProofs

\* One step of Next, whichever operation it is, keeps the contact well-formed.
LEMMA StepWellFormed == WellFormed(contact) /\ [Next]_vars => WellFormed(contact)'
<1> SUFFICES ASSUME WellFormed(contact), [Next]_vars
             PROVE  WellFormed(contact)'
  OBVIOUS
<1>1. CASE DoBegin
  BY <1>1, BeginWellFormed DEF DoBegin
<1>2. CASE DoSetPeerRef
  BY <1>2, SetPeerRefWellFormed DEF DoSetPeerRef
<1>3. CASE DoRecordOffer
  BY <1>3, RecordOfferWellFormed DEF DoRecordOffer, OfferArguments
<1>4. CASE DoResolveOfferCollision
  BY <1>4, ResolveOfferCollisionWellFormed
  DEF DoResolveOfferCollision, OfferArguments
<1>5. CASE DoAgree
  BY <1>5, AgreeWellFormed DEF DoAgree
<1>6. CASE DoValidationBegin
  BY <1>6, ValidationBeginWellFormed DEF DoValidationBegin
<1>7. CASE DoValidationResponse
  BY <1>7, ValidationResponseWellFormed DEF DoValidationResponse
<1>8. CASE DoCommitBegin
  BY <1>8, CommitBeginWellFormed DEF DoCommitBegin
<1>9. CASE DoCommitConfirm
  BY <1>9, CommitConfirmWellFormed DEF DoCommitConfirm
<1>10. CASE DoCommitAccept
  BY <1>10, CommitAcceptWellFormed DEF DoCommitAccept
<1>11. CASE DoAbandonMigration
  BY <1>11, AbandonMigrationWellFormed DEF DoAbandonMigration
<1>12. CASE DoClose
  BY <1>12, CloseWellFormed DEF DoClose
<1>13. CASE UNCHANGED vars
  BY <1>13 DEF vars
<1> QED
  BY <1>1, <1>2, <1>3, <1>4, <1>5, <1>6, <1>7, <1>8, <1>9, <1>10, <1>11,
     <1>12, <1>13 DEF Next

\* The inductive invariant: type and coherence need each other.
LEMMA AlwaysWellFormed == Spec => []WellFormed(contact)
<1>1. Init => WellFormed(contact)
  BY ClearedWellFormed DEF Init
<1> QED BY <1>1, StepWellFormed, PTL DEF Spec

\* Every field of the contact keeps its type under every sequence of calls.
THEOREM ContactTypeCorrect == Spec => []TypeOK
<1>1. WellFormed(contact) => TypeOK
  BY DEF WellFormed, TypeOK
<1> QED BY <1>1, AlwaysWellFormed, PTL

\* The transaction, its challenge, its session and the record of the last
\* move agree with the state after every sequence of calls.
THEOREM ContactCoherent == Spec => []TransactionCoherent
<1>1. WellFormed(contact) => TransactionCoherent
  BY DEF WellFormed, TransactionCoherent
<1> QED BY <1>1, AlwaysWellFormed, PTL


-----------------------------------------------------------------------------
(* What one call may never do.                                             *)
(*                                                                          *)
(* The twelve operations leave few kinds of traces on a contact.  Outcome   *)
(* lists them; the action properties and the refinement follow from it.     *)

Adopts ==
    /\ contact.state \in {"ACTIVE", "OFFERED"}
    /\ \E o \in Offers : /\ o.transport # contact.active_transport
                         /\ contact' = AdoptOffer(contact, o)

Agrees ==
    /\ contact.state = "OFFERED"
    /\ \E s \in Sessions :
          /\ contact.session_valid => s = contact.session_ref
          /\ contact' = [contact EXCEPT !.session_ref = s,
                                        !.session_valid = TRUE,
                                        !.state = "AGREED"]

GetsChallenge ==
    /\ contact.state = "AGREED"
    /\ \E ch \in Challenges :
          contact' = StoreChallenge([contact EXCEPT !.state = "VALIDATING"], ch)

Validates ==
    /\ contact.state = "VALIDATING"
    /\ contact' = [contact EXCEPT !.state = "VALIDATED"]

Commits ==
    /\ contact.state = "VALIDATED"
    /\ contact' = [contact EXCEPT !.state = "COMMITTING"]

Settles ==
    /\ contact.state \in {"VALIDATED", "COMMITTING"}
    /\ contact' = SettleCommit(contact, contact.pending.mig)

Abandons ==
    /\ MigrationIsRevocable(contact)
    /\ contact' = ClearPending([contact EXCEPT !.state = "ACTIVE"])

Closes ==
    /\ contact.state # "NONE"
    /\ contact' = ClearPending([contact EXCEPT !.session_ref = 0,
                                               !.session_valid = FALSE,
                                               !.state = "CLOSED"])

LearnsPeer ==
    \E ref \in LocalRefs :
        contact' = [contact EXCEPT !.peer_ref = ref, !.peer_ref_valid = TRUE]

Outcome ==
    \/ contact' = contact
    \/ Rebegun \/ LearnsPeer
    \/ Adopts \/ Agrees \/ GetsChallenge \/ Validates
    \/ Commits \/ Settles \/ Abandons \/ Closes

\* The returns of contact.c, one operation at a time.
LEMMA StepOutcome == WellFormed(contact) /\ [Next]_vars => Outcome
<1> SUFFICES ASSUME WellFormed(contact), [Next]_vars
             PROVE  Outcome
  OBVIOUS
<1>0. contact \in Contacts
  BY DEF WellFormed
<1>1. CASE DoBegin
  BY <1>1 DEF DoBegin, Begin, BeginStatus, After, Rebegun, Outcome
<1>2. CASE DoSetPeerRef
  BY <1>2 DEF DoSetPeerRef, SetPeerRef, After, LearnsPeer, Outcome
<1>3. CASE DoRecordOffer
  BY <1>3, WellFormedOfferType
  DEF DoRecordOffer, OfferArguments, RecordOffer, RecordOfferStatus, After,
      Adopts, Outcome
<1>4. CASE DoResolveOfferCollision
  <2> PICK source \in LocalRefs, o \in OfferArguments :
          contact' = ResolveOfferCollision(contact, source, o)
    BY <1>4 DEF DoResolveOfferCollision
  <2>1. CASE contact' = contact
    BY <2>1 DEF Outcome
  <2>2. CASE contact' # contact
    <3>1. contact.state = "OFFERED" /\ WellFormedOffer(o)
      BY <2>2 DEF ResolveOfferCollision, ResolveOfferCollisionStatus, After
    <3>2. \/ contact' = ClearPending([contact EXCEPT !.state = "ACTIVE"])
          \/ /\ contact' = AdoptOffer(contact, o)
             /\ o.transport # contact.active_transport
      BY <2>2, <3>1
      DEF ResolveOfferCollision, ResolveOfferCollisionStatus,
          CollisionOutcome, After
    <3> QED
      BY <3>1, <3>2, WellFormedOfferType
      DEF OfferArguments, MigrationIsRevocable, Abandons, Adopts, Outcome
  <2> QED BY <2>1, <2>2
<1>5. CASE DoAgree
  BY <1>5
  DEF DoAgree, Agree, AgreeStatus, MigrationInProgress, After, Agrees, Outcome
<1>6. CASE DoValidationBegin
  BY <1>6
  DEF DoValidationBegin, ValidationBegin, ValidationBeginStatus, After,
      GetsChallenge, Outcome
<1>7. CASE DoValidationResponse
  <2>1. contact.state = "VALIDATED" =>
            [contact EXCEPT !.state = "VALIDATED"] = contact
    BY <1>0 DEF Contacts
  <2> QED
    BY <1>7, <2>1
    DEF DoValidationResponse, ValidationResponse, ValidationResponseStatus,
        After, Validates, Outcome
<1>8. CASE DoCommitBegin
  BY <1>8
  DEF DoCommitBegin, CommitBegin, CommitBeginStatus, After, Commits, Outcome
<1>9. CASE DoCommitConfirm
  BY <1>9
  DEF DoCommitConfirm, CommitConfirm, CommitConfirmStatus, CheckTransaction,
      After, Settles, Outcome
<1>10. CASE DoCommitAccept
  BY <1>10
  DEF DoCommitAccept, CommitAccept, CommitAcceptStatus, CheckTransaction,
      After, Settles, Outcome
<1>11. CASE DoAbandonMigration
  BY <1>11
  DEF DoAbandonMigration, AbandonMigration, AbandonMigrationStatus, After,
      Abandons, Outcome
<1>12. CASE DoClose
  BY <1>12 DEF DoClose, Close, CloseStatus, After, Closes, Outcome
<1>13. CASE UNCHANGED vars
  BY <1>13 DEF vars, Outcome
<1> QED
  BY <1>1, <1>2, <1>3, <1>4, <1>5, <1>6, <1>7, <1>8, <1>9, <1>10, <1>11,
     <1>12, <1>13 DEF Next

\* The session bound by the first acceptance survives every later call but
\* mcl_contact_close, and mcl_contact_begin for a new contact.
THEOREM ContactSession == Spec => SessionOutlivesMigrations
<1> DEFINE A == contact.session_valid =>
                   \/ /\ contact'.session_valid
                      /\ contact'.session_ref = contact.session_ref
                   \/ contact'.state = "CLOSED"
                   \/ Rebegun
<1>1. ASSUME WellFormed(contact), [Next]_vars
      PROVE  [A]_vars
  <2>0. contact \in Contacts
    BY <1>1 DEF WellFormed
  <2>1. CASE Adopts \/ GetsChallenge \/ Validates \/ Commits \/ LearnsPeer
    BY <2>0, <2>1
    DEF Contacts, Adopts, GetsChallenge, Validates, Commits, LearnsPeer,
        AdoptOffer, StoreChallenge, ClearChallenge
  <2>2. CASE Agrees
    BY <2>0, <2>2 DEF Contacts, Agrees
  <2>3. CASE Settles \/ Abandons
    BY <2>0, <2>3
    DEF Contacts, Settles, Abandons, SettleCommit, ClearPending, ClearChallenge
  <2>4. CASE Closes
    BY <2>0, <2>4 DEF Contacts, Closes, ClearPending, ClearChallenge
  <2>5. CASE contact' = contact \/ Rebegun
    BY <2>5 DEF vars
  <2> QED BY <1>1, <2>1, <2>2, <2>3, <2>4, <2>5, StepOutcome DEF Outcome, vars
<1> QED BY <1>1, AlwaysWellFormed, PTL DEF Spec, SessionOutlivesMigrations

\* A contact that may have sent COMMIT leaves COMMITTING by the confirmed
\* move, by mcl_contact_close, or as a new contact.
THEOREM ContactCommit == Spec => CommitIsIrrevocable
<1> DEFINE A == contact.state = "COMMITTING" =>
                   \/ /\ contact'.state = "COMMITTING"
                      /\ contact'.pending = contact.pending
                      /\ contact'.active_transport = contact.active_transport
                   \/ /\ contact'.state = "ACTIVE"
                      /\ contact'.active_transport = contact.pending.transport
                      /\ contact'.completed_migration_ref = contact.pending.mig
                   \/ contact'.state = "CLOSED"
                   \/ Rebegun
<1>1. ASSUME WellFormed(contact), [Next]_vars
      PROVE  [A]_vars
  <2>0. contact \in Contacts
    BY <1>1 DEF WellFormed
  <2>1. CASE Settles
    BY <2>0, <2>1
    DEF Contacts, Settles, SettleCommit, ClearPending, ClearChallenge
  <2>2. CASE LearnsPeer \/ Closes
    BY <2>0, <2>2
    DEF Contacts, LearnsPeer, Closes, ClearPending, ClearChallenge
  <2>3. CASE contact' = contact \/ Rebegun
    BY <2>3 DEF vars
  <2>4. contact.state = "COMMITTING" =>
            ~ (\/ Adopts \/ Agrees \/ GetsChallenge \/ Validates
               \/ Commits \/ Abandons)
    BY DEF Adopts, Agrees, GetsChallenge, Validates, Commits, Abandons,
           MigrationIsRevocable
  <2> QED BY <1>1, <2>1, <2>2, <2>3, <2>4, StepOutcome DEF Outcome, vars
<1> QED BY <1>1, AlwaysWellFormed, PTL DEF Spec, CommitIsIrrevocable

\* The active transport changes only to the candidate of a validated
\* transaction, which is remembered as the completed one.
THEOREM ContactMoves == Spec => MovesOnlyWhenValidated
<1> DEFINE A == contact'.active_transport # contact.active_transport =>
                   \/ /\ contact.state \in {"VALIDATED", "COMMITTING"}
                      /\ contact'.active_transport = contact.pending.transport
                      /\ contact'.completed_migration_ref = contact.pending.mig
                   \/ Rebegun
<1>1. ASSUME WellFormed(contact), [Next]_vars
      PROVE  [A]_vars
  BY <1>1, StepOutcome
  DEF WellFormed, Contacts, Outcome, LearnsPeer, Adopts, Agrees, GetsChallenge,
      Validates, Commits, Settles, Abandons, Closes, AdoptOffer,
      StoreChallenge, SettleCommit, ClearPending, ClearChallenge, vars
<1> QED BY <1>1, AlwaysWellFormed, PTL DEF Spec, MovesOnlyWhenValidated


\* A late copy of any control leaves an agreed transaction at least as far as
\* it was, naming what it named, under the challenge it had.
THEOREM ContactProgress == Spec => ProgressIsKept
<1> DEFINE A == MigrationInProgress(contact) /\ MigrationInProgress(contact)' =>
                   \/ contact.state = "OFFERED"
                   \/ /\ Stage(contact') >= Stage(contact)
                      /\ contact'.pending = contact.pending
                      /\ (contact.challenge_valid =>
                              contact'.challenge = contact.challenge)
<1>1. ASSUME WellFormed(contact), [Next]_vars
      PROVE  [A]_vars
  <2>0. contact \in Contacts /\ ChallengeMatchesState(contact)
    BY <1>1 DEF WellFormed, Coherent
  <2>1. CASE LearnsPeer
    BY <2>0, <2>1 DEF Contacts, LearnsPeer, Stage
  <2>2. CASE GetsChallenge
    BY <2>0, <2>2
    DEF Contacts, GetsChallenge, StoreChallenge, Stage, ChallengeMatchesState
  <2>3. CASE Validates \/ Commits
    BY <2>0, <2>3 DEF Contacts, Validates, Commits, Stage
  <2>4. CASE Settles \/ Abandons \/ Closes
    BY <2>0, <2>4
    DEF Contacts, Settles, Abandons, Closes, SettleCommit, ClearPending,
        ClearChallenge, MigrationInProgress
  <2>5. CASE Rebegun
    BY <2>5, RefsAssumption
    DEF Rebegun, Begin, BeginStatus, Cleared, After, MigrationInProgress
  <2>6. CASE contact' = contact
    BY <2>6 DEF vars
  <2>7. CASE Adopts \/ Agrees
    BY <2>7 DEF Adopts, Agrees, MigrationInProgress
  <2> QED
    BY <1>1, <2>1, <2>2, <2>3, <2>4, <2>5, <2>6, <2>7, StepOutcome
    DEF Outcome, vars
<1> QED BY <1>1, AlwaysWellFormed, PTL DEF Spec, ProgressIsKept

-----------------------------------------------------------------------------
(* Repeats. *)

\* What both completions of a commit leave behind for a repeated control.
LEMMA SettledAnswers ==
    ASSUME NEW c \in Contacts, NEW m
    PROVE  LET d == SettleCommit(c, m)
           IN  /\ d.state = "ACTIVE"
               /\ d.completed_migration_ref = m
               /\ d.session_ref = c.session_ref
               /\ d.session_valid = c.session_valid
  BY DEF Contacts, SettleCommit, ClearPending, ClearChallenge

\* Every accepted control is answered the same way a second time, and the
\* second copy changes nothing, whatever was called before it.
THEOREM ContactRepeats == Spec => []RepeatAnsweredAlike
<1>1. ASSUME WellFormed(contact)
      PROVE  RepeatAnsweredAlike
  <2>0. contact \in Contacts
    BY <1>1 DEF WellFormed
  <2>1. ASSUME NEW o \in Offers, RecordOfferStatus(contact, o) = "OK"
        PROVE  LET c == RecordOffer(contact, o)
               IN  RecordOfferStatus(c, o) = "OK" /\ RecordOffer(c, o) = c
    BY <2>0, <2>1
    DEF Contacts, RecordOffer, RecordOfferStatus, AdoptOffer, ClearChallenge,
        After
  <2>2. ASSUME NEW o \in Offers, NEW s \in Sessions,
               AgreeStatus(contact, o.mig, o.transport, o.profile, s) = "OK"
        PROVE  LET c == Agree(contact, o.mig, o.transport, o.profile, s)
               IN  /\ AgreeStatus(c, o.mig, o.transport, o.profile, s) = "OK"
                   /\ Agree(c, o.mig, o.transport, o.profile, s) = c
    BY <2>0, <2>2
    DEF Contacts, Agree, AgreeStatus, MigrationInProgress, After
  <2>3. ASSUME NEW m \in MigrationRefs, NEW s \in Sessions,
               NEW ch \in Challenges,
               ValidationResponseStatus(contact, m, s, ch) = "OK"
        PROVE  LET c == ValidationResponse(contact, m, s, ch)
               IN  /\ ValidationResponseStatus(c, m, s, ch) = "OK"
                   /\ ValidationResponse(c, m, s, ch) = c
                   /\ ChallengeRepeat(c, m, s, ch)
    BY <2>0, <2>3
    DEF Contacts, ValidationResponse, ValidationResponseStatus,
        CheckTransaction, ChallengeEquals, ChallengeRepeat, After
  <2>4. ASSUME NEW m \in MigrationRefs, NEW s \in Sessions,
               CommitAcceptStatus(contact, m, s) = "OK"
        PROVE  CommitRepeat(CommitAccept(contact, m, s), m, s)
    <3>1. /\ CommitAccept(contact, m, s) = SettleCommit(contact, m)
          /\ contact.session_valid /\ s = contact.session_ref
      BY <2>4 DEF CommitAccept, CommitAcceptStatus, CheckTransaction, After
    <3> QED BY <2>0, <3>1, SettledAnswers, RefsAssumption DEF CommitRepeat
  <2>5. ASSUME NEW m \in MigrationRefs, NEW s \in Sessions,
               CommitConfirmStatus(contact, m, s) = "OK"
        PROVE  LET c == CommitConfirm(contact, m, s)
               IN  /\ CommitConfirmStatus(c, m, s) = "OK"
                   /\ CommitConfirm(c, m, s) = c
    <3>1. CASE contact.state = "ACTIVE"
      BY <2>5, <3>1 DEF CommitConfirm, After
    <3>2. CASE contact.state # "ACTIVE"
      <4>1. /\ CommitConfirm(contact, m, s) = SettleCommit(contact, m)
            /\ contact.session_valid /\ s = contact.session_ref
        BY <2>5, <3>2
        DEF CommitConfirm, CommitConfirmStatus, CheckTransaction, After
      <4> QED
        BY <2>0, <4>1, SettledAnswers, RefsAssumption
        DEF CommitConfirm, CommitConfirmStatus, After
    <3> QED BY <3>1, <3>2
  <2> QED BY <2>1, <2>2, <2>3, <2>4, <2>5 DEF RepeatAnsweredAlike
<1> QED BY <1>1, AlwaysWellFormed, PTL

-----------------------------------------------------------------------------
(* The refinement of TransportContinuity. *)

\* A step of the contact is a step of the abstract contact or leaves it alone.
LEMMA StepContinuity ==
    WellFormed(contact) /\ Outcome => [Continuity!Next]_(Continuity!vars)
<1> SUFFICES ASSUME WellFormed(contact), Outcome
             PROVE  [Continuity!Next]_(Continuity!vars)
  OBVIOUS
<1> USE DEF PhaseOf, Continuity!vars
<1>0. contact \in Contacts
  BY DEF WellFormed
<1>1. CASE contact' = contact
  BY <1>1
<1>2. CASE Rebegun
  <2> PICK ref \in LocalRefs, t \in Transports : contact' = Begin(contact, ref, t)
    BY <1>2 DEF Rebegun
  <2>1. Continuity!Begin(t)
    BY RefsAssumption
    DEF Continuity!Begin, Begin, BeginStatus, Cleared, NoOffer, After
  <2> QED BY <2>1 DEF Continuity!Next
<1>3. CASE LearnsPeer
  BY <1>0, <1>3 DEF Contacts, LearnsPeer
<1>4. CASE Adopts
  <2> PICK o \in Offers : /\ o.transport # contact.active_transport
                          /\ contact' = AdoptOffer(contact, o)
    BY <1>4 DEF Adopts
  <2>1. Continuity!Propose(o.transport)
    BY <1>0, <1>4
    DEF Adopts, Continuity!Propose, Contacts, AdoptOffer, ClearChallenge
  <2>2. o.transport \in Transports
    BY DEF Offers
  <2> QED BY <2>1, <2>2 DEF Continuity!Next
<1>5. CASE Agrees
  <2> PICK s \in Sessions :
          /\ contact.session_valid => s = contact.session_ref
          /\ contact' = [contact EXCEPT !.session_ref = s,
                                        !.session_valid = TRUE,
                                        !.state = "AGREED"]
    BY <1>5 DEF Agrees
  <2>0. contact.state = "OFFERED"
    BY <1>5 DEF Agrees
  <2>1. CASE contact.session_valid
    BY <1>0, <2>0, <2>1 DEF Contacts
  <2>2. CASE ~contact.session_valid
    <3>1. contact.session_ref = 0
      BY <2>2 DEF WellFormed, Coherent, SessionMatchesState
    <3>2. Continuity!Bind(s)
      BY <1>0, <2>0, <3>1 DEF Contacts, Continuity!Bind
    <3> QED BY <3>2 DEF Continuity!Next
  <2> QED BY <2>1, <2>2
<1>6. CASE GetsChallenge
  BY <1>0, <1>6 DEF Contacts, GetsChallenge, StoreChallenge
<1>7. CASE Validates
  <2>1. contact.session_ref # 0
    BY <1>7 DEF Validates, WellFormed, Coherent, SessionMatchesState
  <2>2. Continuity!Prove
    BY <1>0, <1>7, <2>1 DEF Contacts, Validates, Continuity!Prove
  <2> QED BY <2>2 DEF Continuity!Next
<1>8. CASE Commits
  BY <1>0, <1>8 DEF Contacts, Commits, Continuity!Decide, Continuity!Next
<1>9. CASE Settles
  <2>1. Continuity!Move
    BY <1>0, <1>9
    DEF Contacts, Settles, SettleCommit, ClearPending, ClearChallenge,
        NoOffer, Continuity!Move
  <2> QED BY <2>1 DEF Continuity!Next
<1>10. CASE Abandons
  <2>1. Continuity!Drop
    BY <1>0, <1>10
    DEF Contacts, Abandons, MigrationIsRevocable, ClearPending,
        ClearChallenge, NoOffer, Continuity!Drop
  <2> QED BY <2>1 DEF Continuity!Next
<1>11. CASE Closes
  <2>1. Continuity!Close
    BY <1>0, <1>11
    DEF Contacts, Closes, States, ClearPending, ClearChallenge, NoOffer,
        Continuity!Close
  <2> QED BY <2>1 DEF Continuity!Next
<1> QED
  BY <1>1, <1>2, <1>3, <1>4, <1>5, <1>6, <1>7, <1>8, <1>9, <1>10, <1>11
  DEF Outcome

\* A contact keeps the promise of TransportContinuity: one carrier, moved
\* only to a proven candidate, under a session that outlives the move.
THEOREM ContactImplementsContinuity == Spec => ImplementsContinuity
<1>1. Init => Continuity!Init
  BY DEF Init, Cleared, NoOffer, Continuity!Init, PhaseOf
<1>2. WellFormed(contact) /\ [Next]_vars => [Continuity!Next]_(Continuity!vars)
  BY StepOutcome, StepContinuity
<1> QED
  BY <1>1, <1>2, AlwaysWellFormed, PTL
  DEF Spec, ImplementsContinuity, Continuity!Spec

=============================================================================

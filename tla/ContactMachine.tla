--------------------------- MODULE ContactMachine ---------------------------
(***************************************************************************)
(* The transport-continuity machine of src/src/contact.c, as operators on  *)
(* one mcl_contact_t.                                                       *)
(*                                                                          *)
(* Every C function f(contact, args) becomes two operators: fStatus, the    *)
(* status it returns, with its early returns in the order of the code, and  *)
(* f, the contact it leaves behind.  A call that does not return OK leaves  *)
(* the contact as it was; that is a fact about the code (each function      *)
(* checks everything before it assigns), so f says so once, through After.  *)
(* The const functions have one operator, the answer they give.             *)
(*                                                                          *)
(* Operators named Slip, Forgets or Any... are one plausible mistake each,  *)
(* which no specification uses: put in the place of the definition they     *)
(* precede, they break a property that holds of the code.                   *)
(*                                                                          *)
(* NULL arguments and an out-of-range role are refused before anything is   *)
(* read and are not modelled; nor is the role, which no function reads.     *)
(***************************************************************************)
EXTENDS Naturals

CONSTANTS
    LocalRefs,       \* participant references (local_ref, peer_ref)
    MigrationRefs,   \* references naming one transport change, without 0
    Transports,      \* transport identifiers, without 0
    Profiles,        \* transport profile identifiers, without 0
    Terms,           \* (endpoint_token, validity) pairs of an offer
    Sessions,        \* session references, without 0
    Challenges,      \* values of the 8 challenge bytes, all-zero included
    CountMax         \* 0xFFFF in the code: where migration_count saturates

ASSUME RefsAssumption ==
    /\ LocalRefs \subseteq Nat /\ 0 \in LocalRefs
    /\ MigrationRefs \subseteq Nat \ {0}
    /\ Transports \subseteq Nat \ {0}
    /\ Profiles \subseteq Nat \ {0}
    /\ Terms \subseteq Nat /\ 0 \in Terms
    /\ Sessions \subseteq Nat \ {0}
    /\ Challenges \subseteq Nat /\ 0 \in Challenges

ASSUME CountMaxAssumption == CountMax \in Nat \ {0}

-----------------------------------------------------------------------------
(* The contact.  0 is the reserved value of every reference, as in the code. *)

States == {"NONE", "ACTIVE", "OFFERED", "AGREED", "VALIDATING", "VALIDATED",
           "COMMITTING", "CLOSED"}

Statuses == {"OK", "INVALID_ARGUMENT", "INVALID_STATE", "CONTEXT_MISMATCH"}

\* What an offer names; the pending_* fields hold one.
Offers == [mig: MigrationRefs, transport: Transports, profile: Profiles,
           terms: Terms]

NoOffer == [mig |-> 0, transport |-> 0, profile |-> 0, terms |-> 0]

Contacts ==
    [local_ref: LocalRefs,
     peer_ref: LocalRefs,                  peer_ref_valid: BOOLEAN,
     session_ref: Sessions \cup {0},       session_valid: BOOLEAN,
     state: States,
     active_transport: Transports \cup {0},
     pending: Offers \cup {NoOffer},
     challenge: Challenges,                challenge_valid: BOOLEAN,
     migration_count: 0..CountMax,
     completed_migration_ref: MigrationRefs \cup {0}]

\* Slip: a commit under way does not count.
MigrationInProgressSlip(c) ==
    c.state \in {"OFFERED", "AGREED", "VALIDATING", "VALIDATED"}

MigrationInProgress(c) ==
    c.state \in {"OFFERED", "AGREED", "VALIDATING", "VALIDATED", "COMMITTING"}

\* Slip: every migration in progress may be dropped.
MigrationIsRevocableSlip(c) == MigrationInProgress(c)

MigrationIsRevocable(c) ==
    c.state \in {"OFFERED", "AGREED", "VALIDATING", "VALIDATED"}

-----------------------------------------------------------------------------
(* Helpers shared by the operations. *)

After(status, changed, c) == IF status = "OK" THEN changed ELSE c

ClearChallenge(c) == [c EXCEPT !.challenge = 0, !.challenge_valid = FALSE]

StoreChallenge(c, ch) == [c EXCEPT !.challenge = ch, !.challenge_valid = TRUE]

ChallengeEquals(c, echo) == c.challenge = echo

\* Slip: the challenge of the dropped transaction stays behind.
ClearPendingSlip(c) == [c EXCEPT !.pending = NoOffer]

ClearPending(c) == ClearChallenge([c EXCEPT !.pending = NoOffer])

Cleared ==
    [local_ref |-> 0,
     peer_ref |-> 0,                 peer_ref_valid |-> FALSE,
     session_ref |-> 0,              session_valid |-> FALSE,
     state |-> "NONE",
     active_transport |-> 0,
     pending |-> NoOffer,
     challenge |-> 0,                challenge_valid |-> FALSE,
     migration_count |-> 0,
     completed_migration_ref |-> 0]

\* Slip: the counter runs past its width.
SettleCommitSlip(c, mig) ==
    ClearPending(
        [c EXCEPT !.active_transport = c.pending.transport,
                  !.completed_migration_ref = mig,
                  !.state = "ACTIVE",
                  !.migration_count = @ + 1])

\* Slip: the completed transaction is not remembered.
SettleCommitForgets(c, mig) ==
    ClearPending(
        [c EXCEPT !.active_transport = c.pending.transport,
                  !.state = "ACTIVE",
                  !.migration_count = IF @ < CountMax THEN @ + 1 ELSE @])

\* Both commit completions end here: the candidate carries the contact, and
\* the transaction is remembered so that a repeated COMMIT can be answered.
SettleCommit(c, mig) ==
    ClearPending(
        [c EXCEPT !.active_transport = c.pending.transport,
                  !.completed_migration_ref = mig,
                  !.state = "ACTIVE",
                  !.migration_count = IF @ < CountMax THEN @ + 1 ELSE @])

CheckTransaction(c, mig, session) ==
    IF ~c.session_valid THEN "INVALID_STATE"
    ELSE IF mig # c.pending.mig THEN "CONTEXT_MISMATCH"
    ELSE IF session # c.session_ref THEN "CONTEXT_MISMATCH"
    ELSE "OK"

-----------------------------------------------------------------------------
(* Beginning a contact and learning the peer's reference. *)

BeginStatus(transport) ==
    IF transport = 0 THEN "INVALID_ARGUMENT" ELSE "OK"

Begin(c, ref, transport) ==
    After(BeginStatus(transport),
          [Cleared EXCEPT !.local_ref = ref,
                          !.active_transport = transport,
                          !.state = "ACTIVE"],
          c)

SetPeerRefStatus(c, ref) ==
    IF c.state \in {"NONE", "CLOSED"} THEN "INVALID_STATE"
    ELSE IF c.peer_ref_valid /\ ref # c.peer_ref THEN "CONTEXT_MISMATCH"
    ELSE "OK"

SetPeerRef(c, ref) ==
    After(SetPeerRefStatus(c, ref),
          [c EXCEPT !.peer_ref = ref, !.peer_ref_valid = TRUE],
          c)

-----------------------------------------------------------------------------
(* Offers, their repetition and their collision. *)

WellFormedOffer(o) == o.mig # 0 /\ o.transport # 0 /\ o.profile # 0

\* The pending transaction becomes the one the offer names.
AdoptOffer(c, o) ==
    ClearChallenge([c EXCEPT !.pending = o, !.state = "OFFERED"])

\* Slip: adaptation on the active transport passes for migration.
RecordOfferStatusSlip(c, o) ==
    IF ~WellFormedOffer(o) THEN "INVALID_ARGUMENT"
    ELSE IF c.state = "OFFERED" /\ o.mig = c.pending.mig
         THEN IF o # c.pending THEN "CONTEXT_MISMATCH" ELSE "OK"
    ELSE IF c.state # "ACTIVE" THEN "INVALID_STATE"
    ELSE "OK"

RecordOfferStatus(c, o) ==
    IF ~WellFormedOffer(o) THEN "INVALID_ARGUMENT"
    ELSE IF c.state = "OFFERED" /\ o.mig = c.pending.mig
         THEN IF o # c.pending THEN "CONTEXT_MISMATCH" ELSE "OK"
    ELSE IF c.state # "ACTIVE" THEN "INVALID_STATE"
    ELSE IF o.transport = c.active_transport THEN "INVALID_ARGUMENT"
    ELSE "OK"

RecordOffer(c, o) ==
    After(RecordOfferStatus(c, o),
          IF c.state = "ACTIVE" THEN AdoptOffer(c, o) ELSE c,
          c)

\* Slip: a tie lets the peer win, on both sides.
CollisionOutcomeSlip(c, source, o) ==
    IF source # c.local_ref
    THEN IF source > c.local_ref THEN "PEER_WINS" ELSE "LOCAL_WINS"
    ELSE IF o.mig < c.pending.mig THEN "LOCAL_WINS" ELSE "PEER_WINS"

\* (source_ref, migration_ref) compared as one key; the larger controls.
CollisionOutcome(c, source, o) ==
    IF source # c.local_ref
    THEN IF source > c.local_ref THEN "PEER_WINS" ELSE "LOCAL_WINS"
    ELSE IF o.mig # c.pending.mig
    THEN IF o.mig > c.pending.mig THEN "PEER_WINS" ELSE "LOCAL_WINS"
    ELSE "TIE_ABORT"

ResolveOfferCollisionStatus(c, source, o) ==
    IF ~WellFormedOffer(o) THEN "INVALID_ARGUMENT"
    ELSE IF c.state # "OFFERED" THEN "INVALID_STATE"
    ELSE IF /\ CollisionOutcome(c, source, o) = "PEER_WINS"
            /\ o.transport = c.active_transport
         THEN "INVALID_ARGUMENT"
    ELSE "OK"

ResolveOfferCollision(c, source, o) ==
    LET outcome == CollisionOutcome(c, source, o)
        resolved ==
            IF outcome = "TIE_ABORT"
            THEN ClearPending([c EXCEPT !.state = "ACTIVE"])
            ELSE IF outcome = "PEER_WINS" THEN AdoptOffer(c, o)
            ELSE c
    IN  After(ResolveOfferCollisionStatus(c, source, o), resolved, c)

-----------------------------------------------------------------------------
(* Agreement and path validation. *)

\* Slip: a later acceptance may name another session.
AgreeStatusSlip(c, mig, transport, profile, session) ==
    IF session = 0 THEN "INVALID_ARGUMENT"
    ELSE IF ~MigrationInProgress(c) THEN "INVALID_STATE"
    ELSE IF c.pending # [mig |-> mig, transport |-> transport,
                         profile |-> profile, terms |-> c.pending.terms]
         THEN "CONTEXT_MISMATCH"
    ELSE "OK"

AgreeStatus(c, mig, transport, profile, session) ==
    LET sameOffer == /\ mig = c.pending.mig
                     /\ transport = c.pending.transport
                     /\ profile = c.pending.profile
    IN  IF session = 0 THEN "INVALID_ARGUMENT"
        ELSE IF c.session_valid /\ session # c.session_ref
             THEN "CONTEXT_MISMATCH"
        ELSE IF ~MigrationInProgress(c) THEN "INVALID_STATE"
        ELSE IF ~sameOffer THEN "CONTEXT_MISMATCH"
        ELSE "OK"

\* Slip: a late acceptance returns the contact to AGREED.
AgreeSlip(c, mig, transport, profile, session) ==
    After(AgreeStatus(c, mig, transport, profile, session),
          [c EXCEPT !.session_ref = session, !.session_valid = TRUE,
                    !.state = "AGREED"],
          c)

\* A repeat after agreement succeeds and changes nothing.
Agree(c, mig, transport, profile, session) ==
    After(AgreeStatus(c, mig, transport, profile, session),
          IF c.state = "OFFERED"
          THEN [c EXCEPT !.session_ref = session,
                         !.session_valid = TRUE,
                         !.state = "AGREED"]
          ELSE c,
          c)

ValidationBeginStatus(c) ==
    IF c.state # "AGREED" \/ ~c.session_valid THEN "INVALID_STATE" ELSE "OK"

ValidationBegin(c, ch) ==
    After(ValidationBeginStatus(c),
          StoreChallenge([c EXCEPT !.state = "VALIDATING"], ch),
          c)

\* Slip: only the first response is accepted.
ValidationResponseStatusSlip(c, mig, session, echo) ==
    IF c.state # "VALIDATING" THEN "INVALID_STATE"
    ELSE IF CheckTransaction(c, mig, session) # "OK"
         THEN CheckTransaction(c, mig, session)
    ELSE IF ~ChallengeEquals(c, echo) THEN "CONTEXT_MISMATCH"
    ELSE "OK"

ValidationResponseStatus(c, mig, session, echo) ==
    LET transaction == CheckTransaction(c, mig, session)
    IN  IF c.state \notin {"VALIDATING", "VALIDATED"} THEN "INVALID_STATE"
        ELSE IF c.state = "VALIDATING" /\ ~c.challenge_valid
             THEN "INVALID_STATE"
        ELSE IF transaction # "OK" THEN transaction
        ELSE IF ~c.challenge_valid \/ ~ChallengeEquals(c, echo)
             THEN "CONTEXT_MISMATCH"
        ELSE "OK"

ValidationResponse(c, mig, session, echo) ==
    After(ValidationResponseStatus(c, mig, session, echo),
          [c EXCEPT !.state = "VALIDATED"],
          c)

\* Slip: a repeated challenge is never echoed.
ChallengeRepeatSlip(c, mig, session, ch) == FALSE

\* mcl_contact_challenge_repeat: is a repeated PATH_CHALLENGE echoed again?
ChallengeRepeat(c, mig, session, ch) ==
    /\ c.state = "VALIDATED"
    /\ c.challenge_valid
    /\ CheckTransaction(c, mig, session) = "OK"
    /\ ChallengeEquals(c, ch)

-----------------------------------------------------------------------------
(* Commitment: the sender enters COMMITTING, the receiver never does. *)

\* Slip: COMMIT may be sent before the response arrives.
CommitBeginStatusSlip(c) ==
    IF c.state \in {"VALIDATING", "VALIDATED"} THEN "OK" ELSE "INVALID_STATE"

CommitBeginStatus(c) ==
    IF c.state # "VALIDATED" THEN "INVALID_STATE" ELSE "OK"

CommitBegin(c) ==
    After(CommitBeginStatus(c), [c EXCEPT !.state = "COMMITTING"], c)

CommitConfirmStatus(c, mig, session) ==
    IF c.state = "ACTIVE"
    THEN IF ~c.session_valid \/ c.completed_migration_ref = 0
         THEN "INVALID_STATE"
         ELSE IF \/ mig # c.completed_migration_ref
                 \/ session # c.session_ref
              THEN "CONTEXT_MISMATCH"
         ELSE "OK"
    ELSE IF c.state # "COMMITTING" THEN "INVALID_STATE"
    ELSE CheckTransaction(c, mig, session)

CommitConfirm(c, mig, session) ==
    After(CommitConfirmStatus(c, mig, session),
          IF c.state = "COMMITTING" THEN SettleCommit(c, mig) ELSE c,
          c)

\* Slip: a COMMIT is accepted before the path is validated.
CommitAcceptStatusSlip(c, mig, session) ==
    IF c.state \in {"AGREED", "VALIDATING", "VALIDATED"}
    THEN CheckTransaction(c, mig, session) ELSE "INVALID_STATE"

\* Slip: a COMMIT of any transaction of this session is accepted.
CommitAcceptStatusAnyMigration(c, mig, session) ==
    IF c.state # "VALIDATED" THEN "INVALID_STATE"
    ELSE CheckTransaction(c, c.pending.mig, session)

CommitAcceptStatus(c, mig, session) ==
    IF c.state # "VALIDATED" THEN "INVALID_STATE"
    ELSE CheckTransaction(c, mig, session)

CommitAccept(c, mig, session) ==
    After(CommitAcceptStatus(c, mig, session), SettleCommit(c, mig), c)

\* Slip: a settled contact answers no COMMIT.
CommitRepeatSlip(c, mig, session) == FALSE

\* mcl_contact_commit_repeat: is a repeated COMMIT confirmed again?
CommitRepeat(c, mig, session) ==
    /\ c.state = "ACTIVE"
    /\ c.completed_migration_ref # 0
    /\ c.session_valid
    /\ mig = c.completed_migration_ref
    /\ session = c.session_ref

-----------------------------------------------------------------------------
(* Giving up on a migration, and on the contact. *)

AbandonMigrationStatus(c) ==
    IF MigrationIsRevocable(c) THEN "OK" ELSE "INVALID_STATE"

AbandonMigration(c) ==
    After(AbandonMigrationStatus(c),
          ClearPending([c EXCEPT !.state = "ACTIVE"]),
          c)

CloseStatus(c) == IF c.state = "NONE" THEN "INVALID_STATE" ELSE "OK"

Close(c) ==
    After(CloseStatus(c),
          ClearPending([c EXCEPT !.session_ref = 0,
                                 !.session_valid = FALSE,
                                 !.state = "CLOSED"]),
          c)

-----------------------------------------------------------------------------
(* Which transport the bytes go on; 0 where the C function has no answer.  *)

ControlTransport(c) ==
    IF c.state \in {"NONE", "CLOSED"} THEN 0
    ELSE IF MigrationInProgress(c) THEN c.pending.transport
    ELSE c.active_transport

DataTransport(c) ==
    IF c.state \in {"NONE", "CLOSED"} THEN 0 ELSE c.active_transport

Quiesced(c) == c.state = "COMMITTING"

-----------------------------------------------------------------------------
(* What every call keeps true of a contact, in named parts.                *)

\* A pending offer is held exactly while a migration is in progress.
PendingMatchesState(c) ==
    (c.pending \in Offers) <=> MigrationInProgress(c)

\* The candidate is never the transport the contact is already on.
CandidateIsElsewhere(c) ==
    MigrationInProgress(c) => c.pending.transport # c.active_transport

\* A challenge is held exactly from validation_begin to the end of the
\* transaction.
ChallengeMatchesState(c) ==
    c.challenge_valid <=> c.state \in {"VALIDATING", "VALIDATED", "COMMITTING"}

\* A transaction past agreement has its session; an unbound one is 0.
SessionMatchesState(c) ==
    /\ c.session_valid <=> c.session_ref # 0
    /\ c.state \in {"AGREED", "VALIDATING", "VALIDATED", "COMMITTING"} =>
           c.session_valid
    /\ c.state \in {"NONE", "CLOSED"} => ~c.session_valid

BegunHasTransport(c) == c.state # "NONE" => c.active_transport # 0

\* A contact that has moved never again looks like one that has not: the
\* counter saturates instead of wrapping to 0.
MovesAreRemembered(c) ==
    c.completed_migration_ref # 0 <=> c.migration_count > 0

Coherent(c) ==
    /\ PendingMatchesState(c)
    /\ CandidateIsElsewhere(c)
    /\ ChallengeMatchesState(c)
    /\ SessionMatchesState(c)
    /\ BegunHasTransport(c)
    /\ MovesAreRemembered(c)

-----------------------------------------------------------------------------
(* How far a change of transport has come, as module TransportContinuity     *)
(* counts it.                                                                *)

PhaseOf(c) ==
    CASE c.state = "NONE"       -> "none"
      [] c.state = "ACTIVE"     -> "settled"
      [] c.state = "VALIDATED"  -> "proven"
      [] c.state = "COMMITTING" -> "decided"
      [] c.state = "CLOSED"     -> "closed"
      [] OTHER                  -> "proposed"

=============================================================================

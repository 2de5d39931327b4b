--------------------------- MODULE MachineProofs ----------------------------
(***************************************************************************)
(* What every operation of src/src/contact.c makes of one contact, and every *)
(* operation of src/src/link.c of one link, for whatever module drives the  *)
(* machines.  The two know nothing of each other, and neither do the parts  *)
(* of this module.                                                          *)
(***************************************************************************)
EXTENDS ContactMachine, LinkMachine, TLAPS

-----------------------------------------------------------------------------
(* The contact: a well-formed one stays well-formed.                        *)

\* Of its type, and with the fields of its transaction in agreement.
WellFormed(c) == c \in Contacts /\ Coherent(c)

\* contact.c mcl_contact_clear: storage that was cleared is well-formed.
LEMMA ClearedWellFormed == WellFormed(Cleared)
  BY RefsAssumption, CountMaxAssumption
  DEF WellFormed, Contacts, Offers, NoOffer, Cleared, States, Coherent,
      PendingMatchesState, CandidateIsElsewhere, ChallengeMatchesState,
      SessionMatchesState, BegunHasTransport, MovesAreRemembered,
      MigrationInProgress

\* mcl_contact_begin
LEMMA BeginWellFormed ==
    ASSUME NEW c, WellFormed(c), NEW ref \in LocalRefs,
           NEW t \in Transports \cup {0}
    PROVE  WellFormed(Begin(c, ref, t))
<1>1. CASE t = 0
  BY <1>1 DEF Begin, BeginStatus, After
<1>2. CASE t # 0
  <2> DEFINE b == [Cleared EXCEPT !.local_ref = ref,
                                  !.active_transport = t,
                                  !.state = "ACTIVE"]
  <2>1. Begin(c, ref, t) = b
    BY <1>2 DEF Begin, BeginStatus, After
  <2>2. b \in Contacts
    BY ClearedWellFormed DEF WellFormed, Contacts, States
  <2>3. Coherent(b)
    BY <1>2, RefsAssumption
    DEF Cleared, NoOffer, Offers, Coherent, PendingMatchesState,
        CandidateIsElsewhere, ChallengeMatchesState, SessionMatchesState,
        BegunHasTransport, MovesAreRemembered, MigrationInProgress
  <2> QED BY <2>1, <2>2, <2>3 DEF WellFormed
<1> QED BY <1>1, <1>2

\* mcl_contact_set_peer_ref
LEMMA SetPeerRefWellFormed ==
    ASSUME NEW c, WellFormed(c), NEW ref \in LocalRefs
    PROVE  WellFormed(SetPeerRef(c, ref))
  BY RefsAssumption
  DEF WellFormed, Contacts, Coherent,
      PendingMatchesState, CandidateIsElsewhere, ChallengeMatchesState,
      SessionMatchesState, BegunHasTransport, MovesAreRemembered,
      MigrationInProgress, SetPeerRef, SetPeerRefStatus, After

-----------------------------------------------------------------------------
(* Types of what the helpers build. *)

\* mcl_contact_clear_pending
LEMMA ClearPendingType ==
    ASSUME NEW c \in Contacts
    PROVE  ClearPending(c) \in Contacts
  BY RefsAssumption DEF Contacts, ClearPending, ClearChallenge

\* The assignments of record_offer and of a lost collision.
LEMMA AdoptOfferType ==
    ASSUME NEW c \in Contacts, NEW o \in Offers
    PROVE  AdoptOffer(c, o) \in Contacts
  BY RefsAssumption DEF Contacts, AdoptOffer, ClearChallenge, States

\* mcl_contact_settle_commit
LEMMA SettleCommitType ==
    ASSUME NEW c \in Contacts, NEW m \in MigrationRefs, c.pending \in Offers
    PROVE  SettleCommit(c, m) \in Contacts
<1> DEFINE d == [c EXCEPT !.active_transport = c.pending.transport,
                          !.completed_migration_ref = m,
                          !.state = "ACTIVE",
                          !.migration_count = IF @ < CountMax THEN @ + 1
                                                              ELSE @]
<1>1. c.pending.transport \in Transports
  BY DEF Offers
<1>2. (IF c.migration_count < CountMax THEN c.migration_count + 1
                                       ELSE c.migration_count) \in 0..CountMax
  BY CountMaxAssumption DEF Contacts
<1>3. d \in Contacts
  BY <1>1, <1>2 DEF Contacts, States
<1> QED BY <1>3, ClearPendingType DEF SettleCommit

-----------------------------------------------------------------------------
(* The operations. *)

\* An argument offer with no reserved field is an offer.
LEMMA WellFormedOfferType ==
    ASSUME NEW o \in [mig: MigrationRefs \cup {0},
                      transport: Transports \cup {0},
                      profile: Profiles \cup {0}, terms: Terms],
           WellFormedOffer(o)
    PROVE  o \in Offers
  BY DEF WellFormedOffer, Offers

\* mcl_contact_record_offer
LEMMA RecordOfferWellFormed ==
    ASSUME NEW c, WellFormed(c),
           NEW o \in [mig: MigrationRefs \cup {0},
                      transport: Transports \cup {0},
                      profile: Profiles \cup {0}, terms: Terms]
    PROVE  WellFormed(RecordOffer(c, o))
<1>1. RecordOffer(c, o) \in Contacts
  BY AdoptOfferType, WellFormedOfferType
  DEF WellFormed, RecordOffer, RecordOfferStatus, After
<1>2. Coherent(RecordOffer(c, o))
  BY RefsAssumption
  DEF WellFormed, Contacts, Offers, NoOffer, RecordOffer, RecordOfferStatus,
      WellFormedOffer, AdoptOffer, ClearChallenge, After,
      Coherent, PendingMatchesState, CandidateIsElsewhere,
      ChallengeMatchesState, SessionMatchesState, BegunHasTransport,
      MovesAreRemembered, MigrationInProgress
<1> QED BY <1>1, <1>2 DEF WellFormed

\* mcl_contact_resolve_offer_collision
LEMMA ResolveOfferCollisionWellFormed ==
    ASSUME NEW c, WellFormed(c), NEW source \in LocalRefs,
           NEW o \in [mig: MigrationRefs \cup {0},
                      transport: Transports \cup {0},
                      profile: Profiles \cup {0}, terms: Terms]
    PROVE  WellFormed(ResolveOfferCollision(c, source, o))
<1> DEFINE r == ResolveOfferCollision(c, source, o)
           a == [c EXCEPT !.state = "ACTIVE"]
<1>1. CASE r = c
  BY <1>1
<1>2. CASE /\ c.state = "OFFERED"
           /\ r = ClearPending(a)
  <2>1. a \in Contacts
    BY DEF WellFormed, Contacts, States
  <2>2. Coherent(r)
    BY <1>2, RefsAssumption
    DEF WellFormed, Contacts, NoOffer, Offers, ClearPending, ClearChallenge,
        Coherent, PendingMatchesState, CandidateIsElsewhere,
        ChallengeMatchesState, SessionMatchesState, BegunHasTransport,
        MovesAreRemembered, MigrationInProgress
  <2> QED BY <1>2, <2>1, <2>2, ClearPendingType DEF WellFormed
<1>3. CASE /\ c.state = "OFFERED"
           /\ WellFormedOffer(o)
           /\ o.transport # c.active_transport
           /\ r = AdoptOffer(c, o)
  <2>1. o \in Offers
    BY <1>3, WellFormedOfferType
  <2>2. Coherent(r)
    BY <1>3, <2>1, RefsAssumption
    DEF WellFormed, Contacts, AdoptOffer, ClearChallenge,
        Coherent, PendingMatchesState, CandidateIsElsewhere,
        ChallengeMatchesState, SessionMatchesState, BegunHasTransport,
        MovesAreRemembered, MigrationInProgress
  <2> QED BY <1>3, <2>1, <2>2, AdoptOfferType DEF WellFormed
<1> QED
  BY <1>1, <1>2, <1>3
  DEF ResolveOfferCollision, ResolveOfferCollisionStatus, CollisionOutcome,
      After


\* mcl_contact_agree
LEMMA AgreeWellFormed ==
    ASSUME NEW c, WellFormed(c), NEW m, NEW t, NEW p,
           NEW s \in Sessions \cup {0}
    PROVE  WellFormed(Agree(c, m, t, p, s))
<1>1. Agree(c, m, t, p, s) \in Contacts
  BY DEF WellFormed, Contacts, States, Agree, AgreeStatus, After
<1>2. Coherent(Agree(c, m, t, p, s))
  BY RefsAssumption
  DEF WellFormed, Contacts, Agree, AgreeStatus, After,
      Coherent, PendingMatchesState, CandidateIsElsewhere,
      ChallengeMatchesState, SessionMatchesState, BegunHasTransport,
      MovesAreRemembered, MigrationInProgress
<1> QED BY <1>1, <1>2 DEF WellFormed

\* mcl_contact_validation_begin
LEMMA ValidationBeginWellFormed ==
    ASSUME NEW c, WellFormed(c), NEW ch \in Challenges
    PROVE  WellFormed(ValidationBegin(c, ch))
  BY DEF WellFormed, Contacts, States, ValidationBegin, ValidationBeginStatus,
      StoreChallenge, After,
      Coherent, PendingMatchesState, CandidateIsElsewhere,
      ChallengeMatchesState, SessionMatchesState, BegunHasTransport,
      MovesAreRemembered, MigrationInProgress

\* mcl_contact_validation_response
LEMMA ValidationResponseWellFormed ==
    ASSUME NEW c, WellFormed(c), NEW m, NEW s, NEW ch
    PROVE  WellFormed(ValidationResponse(c, m, s, ch))
  BY DEF WellFormed, Contacts, States, ValidationResponse,
      ValidationResponseStatus, CheckTransaction, ChallengeEquals, After,
      Coherent, PendingMatchesState, CandidateIsElsewhere,
      ChallengeMatchesState, SessionMatchesState, BegunHasTransport,
      MovesAreRemembered, MigrationInProgress

\* mcl_contact_commit_begin
LEMMA CommitBeginWellFormed ==
    ASSUME NEW c, WellFormed(c)
    PROVE  WellFormed(CommitBegin(c))
  BY DEF WellFormed, Contacts, States, CommitBegin, CommitBeginStatus, After,
      Coherent, PendingMatchesState, CandidateIsElsewhere,
      ChallengeMatchesState, SessionMatchesState, BegunHasTransport,
      MovesAreRemembered, MigrationInProgress

\* Both completions of a commit: the transaction that settles is the pending
\* one, so its candidate is a transport and its reference is not 0.
LEMMA SettleCommitWellFormed ==
    ASSUME NEW c, WellFormed(c), MigrationInProgress(c), c.session_valid
    PROVE  WellFormed(SettleCommit(c, c.pending.mig))
<1>1. c.pending \in Offers /\ c.pending.mig \in MigrationRefs
  BY DEF WellFormed, Coherent, PendingMatchesState, Offers
<1>2. SettleCommit(c, c.pending.mig) \in Contacts
  BY <1>1, SettleCommitType DEF WellFormed
<1>3. Coherent(SettleCommit(c, c.pending.mig))
  BY <1>1, RefsAssumption, CountMaxAssumption
  DEF WellFormed, Contacts, Offers, NoOffer, SettleCommit, ClearPending,
      ClearChallenge,
      Coherent, PendingMatchesState, CandidateIsElsewhere,
      ChallengeMatchesState, SessionMatchesState, BegunHasTransport,
      MovesAreRemembered, MigrationInProgress
<1> QED BY <1>2, <1>3 DEF WellFormed

\* mcl_contact_commit_confirm
LEMMA CommitConfirmWellFormed ==
    ASSUME NEW c, WellFormed(c), NEW m, NEW s
    PROVE  WellFormed(CommitConfirm(c, m, s))
  BY SettleCommitWellFormed
  DEF CommitConfirm, CommitConfirmStatus, CheckTransaction, After,
      MigrationInProgress

\* mcl_contact_commit_accept
LEMMA CommitAcceptWellFormed ==
    ASSUME NEW c, WellFormed(c), NEW m, NEW s
    PROVE  WellFormed(CommitAccept(c, m, s))
  BY SettleCommitWellFormed
  DEF CommitAccept, CommitAcceptStatus, CheckTransaction, After,
      MigrationInProgress

\* mcl_contact_abandon_migration
LEMMA AbandonMigrationWellFormed ==
    ASSUME NEW c, WellFormed(c)
    PROVE  WellFormed(AbandonMigration(c))
<1>1. [c EXCEPT !.state = "ACTIVE"] \in Contacts
  BY DEF WellFormed, Contacts, States
<1>2. AbandonMigration(c) \in Contacts
  BY <1>1, ClearPendingType
  DEF WellFormed, AbandonMigration, AbandonMigrationStatus, After
<1>3. Coherent(AbandonMigration(c))
  BY RefsAssumption
  DEF WellFormed, Contacts, NoOffer, Offers, AbandonMigration,
      AbandonMigrationStatus, MigrationIsRevocable, ClearPending,
      ClearChallenge, After,
      Coherent, PendingMatchesState, CandidateIsElsewhere,
      ChallengeMatchesState, SessionMatchesState, BegunHasTransport,
      MovesAreRemembered, MigrationInProgress
<1> QED BY <1>2, <1>3 DEF WellFormed

\* mcl_contact_close
LEMMA CloseWellFormed ==
    ASSUME NEW c, WellFormed(c)
    PROVE  WellFormed(Close(c))
<1>1. [c EXCEPT !.session_ref = 0, !.session_valid = FALSE,
                !.state = "CLOSED"] \in Contacts
  BY DEF WellFormed, Contacts, States
<1>2. Close(c) \in Contacts
  BY <1>1, ClearPendingType DEF WellFormed, Close, CloseStatus, After
<1>3. Coherent(Close(c))
  BY RefsAssumption
  DEF WellFormed, Contacts, NoOffer, Offers, Close, CloseStatus,
      ClearPending, ClearChallenge, After,
      Coherent, PendingMatchesState, CandidateIsElsewhere,
      ChallengeMatchesState, SessionMatchesState, BegunHasTransport,
      MovesAreRemembered, MigrationInProgress
<1> QED BY <1>2, <1>3 DEF WellFormed

-----------------------------------------------------------------------------
(* The link: its type, and what a transition keeps of the context.          *)

\* A cleared key has its type and an all-zero digest.
LEMMA ZeroKeyType ==
    /\ ZeroKey \in Keys
    /\ \A i \in 1..DigestMax : ZeroKey.digest[i] = 0
<1>1. /\ 0 \in WireMajors /\ 0 \in ContextIds /\ 0 \in Generations
      /\ 0 \in Bytes /\ 0 \in 0..ClaimMax
  BY LinkAssumption
<1> QED
  BY <1>1 DEF ZeroKey, Keys

\* Storing a key keeps its type, its size and the bytes its size covers, and
\* zeroes the rest.
LEMMA StoredType ==
    ASSUME NEW key \in Keys
    PROVE  /\ Stored(key) \in Keys
           /\ Stored(key).digest_size = key.digest_size
           /\ \A i \in 1..DigestMax :
                  Stored(key).digest[i] =
                      IF i <= key.digest_size THEN key.digest[i] ELSE 0
<1> DEFINE kept == [i \in 1..DigestMax |->
                        IF i <= key.digest_size THEN key.digest[i] ELSE 0]
<1>1. kept \in [1..DigestMax -> Bytes]
  BY LinkAssumption DEF Keys
<1>2. Stored(key) = [key EXCEPT !.digest = kept]
  BY DEF Stored, Keys
<1>3. Stored(key) = [wire_major |-> key.wire_major,
                     context_id |-> key.context_id,
                     generation |-> key.generation,
                     digest |-> kept, digest_size |-> key.digest_size]
  BY <1>2 DEF Keys
<1> HIDE DEF kept
<1>4. Stored(key) \in Keys
  BY <1>1, <1>3 DEF Keys
<1> QED
  BY <1>3, <1>4 DEF kept

\* Clearing a link drops its context and leaves state and majors alone.
LEMMA ClearContextType ==
    ASSUME NEW l \in Links
    PROVE  /\ ClearContext(l) \in Links
           /\ ClearContext(l).state = l.state
           /\ ~ClearContext(l).context_valid
           /\ ClearContext(l).active_context = ZeroKey
  BY ZeroKeyType DEF ClearContext, Links

\* A link fresh from init is IDLE and has no context.
LEMMA FreshLink ==
    ASSUME NEW majors \in SUBSET (0..WireMajorMax)
    PROVE  /\ Fresh(majors) \in Links
           /\ Fresh(majors).state = "IDLE"
           /\ ~Fresh(majors).context_valid
           /\ Fresh(majors).active_context = ZeroKey
  BY ZeroKeyType DEF Fresh, Links, LinkStates

\* A successor state is a state, and only a negotiated state leads to one.
LEMMA SuccessorsType ==
    ASSUME NEW state \in LinkStates, NEW next \in Successors(state)
    PROVE  /\ next \in LinkStates
           /\ next = "DISCOVERED" => state \in {"IDLE", "FALLBACK"}
           /\ next \in {"ESTABLISHED", "ADAPTING", "HANDOFF", "FALLBACK"} =>
                  state \in {"NEGOTIATING", "ESTABLISHED", "ADAPTING",
                             "HANDOFF", "FALLBACK"}
           /\ state = "NEGOTIATING" => next \in {"ESTABLISHED", "IDLE", "CLOSED"}
  BY DEF LinkStates, Successors

\* mcl_link_transition keeps the type, and leaves the state it was asked for.
LEMMA TransitionType ==
    ASSUME NEW l \in Links, NEW next \in LinkStates,
           TransitionStatus(l, next) = "OK"
    PROVE  /\ Transition(l, next) \in Links
           /\ Transition(l, next).state = next
           /\ ~DropsContext(l.state, next) =>
                  Transition(l, next).context_valid = l.context_valid
<1> DEFINE moved == [l EXCEPT !.state = next]
<1>1. /\ moved \in Links /\ moved.state = next
      /\ moved.context_valid = l.context_valid
  BY DEF Links
<1>2. Transition(l, next) =
          IF DropsContext(l.state, next) THEN ClearContext(moved) ELSE moved
  BY DEF Transition
<1> HIDE DEF moved
<1> QED
  BY <1>1, <1>2, ClearContextType

\* mcl_link_install_context keeps the type and the state.
LEMMA InstallContextType ==
    ASSUME NEW l \in Links, NEW key \in Keys,
           InstallContextStatus(l, key) = "OK"
    PROVE  /\ InstallContext(l, key) \in Links
           /\ InstallContext(l, key).state = l.state
           /\ InstallContext(l, key).context_valid
<1>1. Stored(key) \in Keys
  BY StoredType
<1> QED
  BY <1>1 DEF InstallContext, Links

=============================================================================

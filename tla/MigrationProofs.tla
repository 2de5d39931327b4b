-------------------------- MODULE MigrationProofs ---------------------------
(***************************************************************************)
(* The migration exchange is safe for every set of references, transports, *)
(* offers and sessions, on a medium that loses, delays, duplicates and      *)
(* reorders frames, provided that each caller                               *)
(*   - ignores an offer it took up before (RemembersOffers), and            *)
(*   - does not give up as the VALIDATED acceptor (AcceptorWaits);          *)
(* MigrationLateCopies.cfg and MigrationAbandon.cfg show what happens to a  *)
(* pair of machines when one of the two is missing.  Each single contact    *)
(* keeps its promise without either (SidesKeepPromise); one session for     *)
(* both needs two duties more (SessionsSafe).                               *)
(***************************************************************************)
EXTENDS Migration, MachineProofs

AcceptorWaits == <<"acceptor", "VALIDATED">> \notin MayGiveUp

-----------------------------------------------------------------------------
(* Two machines, and the types of what they exchange. *)

\* Other names the second of the two machines.
LEMMA OtherIsPeer ==
    ASSUME NEW p \in Peers, NEW q \in Peers, p # q
    PROVE  Other(p) = q /\ Peers = {p, q}
  BY PeersAssumption DEF Other

\* Every machine has a peer, and is its peer's peer.
LEMMA OtherInPeers ==
    ASSUME NEW p \in Peers
    PROVE  Other(p) \in Peers /\ Other(p) # p /\ Other(Other(p)) = p
  BY PeersAssumption DEF Other

\* The members of a frame are where Frames says, by kind.
LEMMA FrameFields ==
    ASSUME NEW f \in Frames
    PROVE  /\ f.to \in Peers /\ f.via \in Transports
           /\ f.kind = "OFFER" => f.offer \in Offers
           /\ f.kind = "ACCEPT" => f.offer \in Offers /\ f.session \in Sessions
           /\ f.kind \in {"PATH_CHALLENGE", "PATH_RESPONSE", "COMMIT",
                          "CONFIRM"} =>
                  /\ f.mig \in MigrationRefs
                  /\ f.session \in Sessions
                  /\ f.challenge \in Challenges
  BY DEF Frames

\* Nobody works on reference 0: what a contact's state says of its fields.
LEMMA ContactFields ==
    ASSUME NEW c, WellFormed(c)
    PROVE  /\ MigrationInProgress(c) =>
                  c.pending \in Offers /\ c.pending.mig \in MigrationRefs
           /\ ~MigrationInProgress(c) => c.pending = NoOffer
           /\ c.state \in {"AGREED", "VALIDATING", "VALIDATED", "COMMITTING"} =>
                  c.session_valid /\ c.session_ref \in Sessions
           /\ c.session_valid <=> c.session_ref # 0
           /\ c.state # "NONE" => c.active_transport \in Transports
           /\ 0 \notin MigrationRefs /\ NoOffer.mig = 0
           /\ 0 \notin Sessions
  BY RefsAssumption
  DEF WellFormed, Contacts, Offers, NoOffer, Coherent, PendingMatchesState,
      SessionMatchesState, BegunHasTransport, MigrationInProgress

\* A control p sends about its transaction is a frame.
LEMMA ControlToType ==
    ASSUME NEW p \in Peers, NEW c, WellFormed(c), c.session_valid,
           NEW m \in MigrationRefs,
           NEW kind \in {"PATH_CHALLENGE", "PATH_RESPONSE", "COMMIT",
                         "CONFIRM"}
    PROVE  /\ ControlTo(kind, p, c, m) \in Frames
           /\ ControlTo(kind, p, c, m).kind = kind
           /\ ControlTo(kind, p, c, m).to = Other(p)
           /\ ControlTo(kind, p, c, m).mig = m
           /\ ControlTo(kind, p, c, m).via = ControlTransport(c)
<1>1. c.session_ref \in Sessions
  BY DEF WellFormed, Contacts, Coherent, SessionMatchesState
<1>2. c.state \notin {"NONE", "CLOSED"}
  BY DEF WellFormed, Coherent, SessionMatchesState
<1>3. ControlTransport(c) \in Transports
  BY <1>2, ContactFields DEF ControlTransport, Offers
<1>4. (IF kind \in {"PATH_CHALLENGE", "PATH_RESPONSE"}
       THEN ChallengeOf[m] ELSE 0) \in Challenges
  BY PeersAssumption, RefsAssumption
<1> QED
  BY <1>1, <1>3, <1>4, OtherInPeers DEF ControlTo, ControlFrame, Frames

\* OFFER and ACCEPT are frames.
LEMMA OfferFrameType ==
    ASSUME NEW q \in Peers, NEW t \in Transports, NEW o \in Offers
    PROVE  /\ OfferFrame(q, t, o) \in Frames
           /\ \A s \in Sessions : AcceptFrame(q, t, o, s) \in Frames
  BY DEF OfferFrame, AcceptFrame, Frames

-----------------------------------------------------------------------------
(* What each operation leaves in the fields the exchange depends on.        *)

\* d is c with this state, pending offer, session, carrier and completed
\* reference.
Becomes(d, c, st, o, s, t, m) ==
    /\ d.local_ref = c.local_ref
    /\ d.state = st
    /\ d.pending = o
    /\ d.session_ref = s
    /\ d.active_transport = t
    /\ d.completed_migration_ref = m

\* mcl_contact_record_offer on an ACTIVE contact adopts the offer.
LEMMA RecordOfferEffect ==
    ASSUME NEW c \in Contacts, NEW o, c.state = "ACTIVE",
           RecordOfferStatus(c, o) = "OK"
    PROVE  Becomes(RecordOffer(c, o), c, "OFFERED", o, c.session_ref,
                   c.active_transport, c.completed_migration_ref)
  BY DEF Becomes, Contacts, RecordOffer, AdoptOffer, ClearChallenge, After

\* mcl_contact_resolve_offer_collision adopts the peer's offer, when the peer
\* has the larger key, or drops a tie.
LEMMA ResolveOfferCollisionEffect ==
    ASSUME NEW c \in Contacts, NEW source \in LocalRefs, NEW o \in Offers,
           ResolveOfferCollisionStatus(c, source, o) = "OK",
           CollisionOutcome(c, source, o) # "LOCAL_WINS"
    PROVE  LET d == ResolveOfferCollision(c, source, o)
           IN  \/ /\ Becomes(d, c, "OFFERED", o, c.session_ref,
                             c.active_transport, c.completed_migration_ref)
                  /\ \/ source > c.local_ref
                     \/ source = c.local_ref /\ o.mig > c.pending.mig
               \/ /\ Becomes(d, c, "ACTIVE", NoOffer, c.session_ref,
                             c.active_transport, c.completed_migration_ref)
                  /\ o.mig = c.pending.mig /\ source = c.local_ref
<1>1. CASE CollisionOutcome(c, source, o) = "TIE_ABORT"
  <2>1. ResolveOfferCollision(c, source, o)
            = ClearPending([c EXCEPT !.state = "ACTIVE"])
    BY <1>1 DEF ResolveOfferCollision, After
  <2>2. o.mig = c.pending.mig /\ source = c.local_ref
    BY <1>1 DEF CollisionOutcome
  <2> QED
    BY <2>1, <2>2 DEF Becomes, Contacts, ClearPending, ClearChallenge
<1>2. CASE CollisionOutcome(c, source, o) = "PEER_WINS"
  <2>1. ResolveOfferCollision(c, source, o) = AdoptOffer(c, o)
    BY <1>2 DEF ResolveOfferCollision, After
  <2>2. \/ source > c.local_ref
        \/ source = c.local_ref /\ o.mig > c.pending.mig
    BY <1>2 DEF CollisionOutcome
  <2> QED
    BY <2>1, <2>2 DEF Becomes, Contacts, AdoptOffer, ClearChallenge
<1> QED BY <1>1, <1>2 DEF CollisionOutcome

\* mcl_contact_agree binds the session, or changes nothing.
LEMMA AgreeEffect ==
    ASSUME NEW c \in Contacts, NEW m, NEW t, NEW f, NEW s,
           \/ Agree(c, m, t, f, s) # c
           \/ c.state = "OFFERED" /\ AgreeStatus(c, m, t, f, s) = "OK"
    PROVE  /\ Becomes(Agree(c, m, t, f, s), c, "AGREED", c.pending, s,
                      c.active_transport, c.completed_migration_ref)
           /\ c.state = "OFFERED"
           /\ c.pending.mig = m
           /\ c.session_valid => c.session_ref = s
  BY DEF Becomes, Contacts, Agree, AgreeStatus, After

\* mcl_contact_validation_begin
LEMMA ValidationBeginEffect ==
    ASSUME NEW c \in Contacts, NEW ch, ValidationBeginStatus(c) = "OK"
    PROVE  /\ Becomes(ValidationBegin(c, ch), c, "VALIDATING", c.pending,
                      c.session_ref, c.active_transport,
                      c.completed_migration_ref)
           /\ c.state = "AGREED"
  BY DEF Becomes, Contacts, ValidationBegin, ValidationBeginStatus,
         StoreChallenge, After

\* mcl_contact_validation_response, when it changes the contact
LEMMA ValidationResponseEffect ==
    ASSUME NEW c \in Contacts, NEW m, NEW s, NEW echo,
           ValidationResponse(c, m, s, echo) # c
    PROVE  /\ Becomes(ValidationResponse(c, m, s, echo), c, "VALIDATED",
                      c.pending, c.session_ref, c.active_transport,
                      c.completed_migration_ref)
           /\ c.state = "VALIDATING"
           /\ m = c.pending.mig
  BY DEF Becomes, Contacts, ValidationResponse, ValidationResponseStatus,
         CheckTransaction, After

\* Recording a challenge and echoing it: the receiving peer is VALIDATED.
LEMMA EchoEffect ==
    ASSUME NEW c \in Contacts, NEW m, NEW s, NEW ch \in Challenges,
           c.state = "AGREED", CheckTransaction(c, m, s) = "OK"
    PROVE  Becomes(ValidationResponse(ValidationBegin(c, ch), m, s, ch), c,
                   "VALIDATED", c.pending, c.session_ref, c.active_transport,
                   c.completed_migration_ref)
<1> DEFINE d == ValidationBegin(c, ch)
<1>1. /\ d = [c EXCEPT !.state = "VALIDATING", !.challenge = ch,
                       !.challenge_valid = TRUE]
      /\ m = c.pending.mig
  BY DEF Contacts, ValidationBegin, ValidationBeginStatus, StoreChallenge,
         After, CheckTransaction
<1>2. ValidationResponseStatus(d, m, s, ch) = "OK"
  BY <1>1 DEF Contacts, ValidationResponseStatus, CheckTransaction,
         ChallengeEquals
<1>3. ValidationResponse(d, m, s, ch) = [d EXCEPT !.state = "VALIDATED"]
  BY <1>2 DEF ValidationResponse, After
<1> QED BY <1>1, <1>3 DEF Becomes, Contacts

\* mcl_contact_commit_begin
LEMMA CommitBeginEffect ==
    ASSUME NEW c \in Contacts, CommitBeginStatus(c) = "OK"
    PROVE  /\ Becomes(CommitBegin(c), c, "COMMITTING", c.pending,
                      c.session_ref, c.active_transport,
                      c.completed_migration_ref)
           /\ c.state = "VALIDATED"
  BY DEF Becomes, Contacts, CommitBegin, CommitBeginStatus, After

\* mcl_contact_settle_commit
LEMMA SettleCommitEffect ==
    ASSUME NEW c \in Contacts, NEW m
    PROVE  Becomes(SettleCommit(c, m), c, "ACTIVE", NoOffer, c.session_ref,
                   c.pending.transport, m)
  BY DEF Becomes, Contacts, SettleCommit, ClearPending, ClearChallenge

\* mcl_contact_commit_accept
LEMMA CommitAcceptEffect ==
    ASSUME NEW c \in Contacts, NEW m, NEW s,
           CommitAcceptStatus(c, m, s) = "OK"
    PROVE  /\ Becomes(CommitAccept(c, m, s), c, "ACTIVE", NoOffer,
                      c.session_ref, c.pending.transport, m)
           /\ c.state = "VALIDATED"
           /\ m = c.pending.mig
<1>1. CommitAccept(c, m, s) = SettleCommit(c, m)
  BY DEF CommitAccept, After
<1> QED
  BY <1>1, SettleCommitEffect DEF CommitAcceptStatus, CheckTransaction

\* mcl_contact_commit_confirm, when it changes the contact
LEMMA CommitConfirmEffect ==
    ASSUME NEW c \in Contacts, NEW m, NEW s, CommitConfirm(c, m, s) # c
    PROVE  /\ Becomes(CommitConfirm(c, m, s), c, "ACTIVE", NoOffer,
                      c.session_ref, c.pending.transport, m)
           /\ c.state = "COMMITTING"
           /\ m = c.pending.mig
<1>1. /\ CommitConfirm(c, m, s) = SettleCommit(c, m)
      /\ c.state = "COMMITTING"
      /\ CheckTransaction(c, m, s) = "OK"
  BY DEF CommitConfirm, CommitConfirmStatus, After
<1> QED BY <1>1, SettleCommitEffect DEF CheckTransaction

\* mcl_contact_abandon_migration
LEMMA AbandonMigrationEffect ==
    ASSUME NEW c \in Contacts, AbandonMigrationStatus(c) = "OK"
    PROVE  /\ Becomes(AbandonMigration(c), c, "ACTIVE", NoOffer, c.session_ref,
                      c.active_transport, c.completed_migration_ref)
           /\ MigrationIsRevocable(c)
  BY DEF Becomes, Contacts, AbandonMigration, AbandonMigrationStatus,
         ClearPending, ClearChallenge, After

\* mcl_contact_close
LEMMA CloseEffect ==
    ASSUME NEW c \in Contacts, CloseStatus(c) = "OK"
    PROVE  Becomes(Close(c), c, "CLOSED", NoOffer, 0, c.active_transport,
                   c.completed_migration_ref)
  BY DEF Becomes, Contacts, Close, ClearPending, ClearChallenge, After

-----------------------------------------------------------------------------
(* Type correctness: every contact stays well-formed, every frame a frame.  *)

Sound ==
    /\ TypeOK
    /\ \A p \in Peers : WellFormed(contact[p]) /\ contact[p].state # "NONE"

\* A contact replaced by a well-formed one that has begun.
LEMMA SetContactSound ==
    ASSUME Sound, NEW p \in Peers, NEW c, SetContact(p, c),
           WellFormed(c), c.state # "NONE"
    PROVE  /\ contact' \in [Peers -> Contacts]
           /\ \A r \in Peers :
                  WellFormed(contact'[r]) /\ contact'[r].state # "NONE"
           /\ contact'[p] = c
           /\ \A r \in Peers : r # p => contact'[r] = contact[r]
  BY DEF Sound, TypeOK, SetContact, WellFormed

\* Lost or kept, a delivered frame leaves no frame but the reply behind.
LEMMA DeliveredNet ==
    ASSUME NEW f, NEW reply, Delivered(f, reply)
    PROVE  net' \subseteq net \cup reply
  BY DEF Delivered

\* Init: both machines have begun their contact on the first transport.
LEMMA InitSound == Init => Sound
<1> SUFFICES ASSUME Init PROVE Sound
  OBVIOUS
<1>1. PICK ref \in [Peers -> LocalRefs] :
          contact = [p \in Peers |-> Begin(Cleared, ref[p], FirstTransport)]
  BY DEF Init
<1>2. ASSUME NEW p \in Peers
      PROVE  WellFormed(contact[p]) /\ contact[p].state # "NONE"
  <2>1. FirstTransport \in Transports \cup {0} /\ FirstTransport # 0
    BY PeersAssumption, RefsAssumption
  <2>2. WellFormed(Begin(Cleared, ref[p], FirstTransport))
    BY <2>1, ClearedWellFormed, BeginWellFormed
  <2>3. Begin(Cleared, ref[p], FirstTransport).state = "ACTIVE"
    BY <2>1 DEF Begin, BeginStatus, After, Cleared
  <2> QED BY <1>1, <2>2, <2>3
<1>3. contact \in [Peers -> Contacts]
  BY <1>1, <1>2 DEF WellFormed
<1> QED BY <1>2, <1>3 DEF Init, Sound, TypeOK

\* The frames a machine repeats are frames.
LEMMA OutstandingType ==
    ASSUME Sound, NEW p \in Peers
    PROVE  Outstanding(p) \subseteq Frames
<1> DEFINE c == contact[p]
<1>1. WellFormed(c) /\ c.state # "NONE" /\ Other(p) \in Peers
  BY OtherInPeers DEF Sound
<1>2. CASE c.state = "OFFERED"
  BY <1>1, <1>2, ContactFields, OfferFrameType
  DEF Outstanding, MigrationInProgress
<1>3. CASE c.state = "AGREED"
  BY <1>1, <1>3, ContactFields, OfferFrameType
  DEF Outstanding, MigrationInProgress
<1>4. CASE c.state \in {"VALIDATING", "COMMITTING"}
  BY <1>1, <1>4, ContactFields, ControlToType
  DEF Outstanding, MigrationInProgress
<1> QED BY <1>2, <1>3, <1>4 DEF Outstanding

\* One step keeps both contacts well-formed and every frame a frame.
LEMMA SoundStep == Sound /\ [Next]_vars => Sound'
<1> SUFFICES ASSUME Sound, [Next]_vars PROVE Sound'
  OBVIOUS
<1>a. ASSUME NEW p \in Peers
      PROVE  /\ WellFormed(contact[p]) /\ contact[p] \in Contacts
             /\ contact[p].state # "NONE"
             /\ Other(p) \in Peers
  BY OtherInPeers DEF Sound, TypeOK
<1>b. ASSUME NEW f \in net
      PROVE  f \in Frames
  BY DEF Sound, TypeOK
<1>c. ASSUME NEW o \in Offers
      PROVE  o \in [mig: MigrationRefs \cup {0},
                    transport: Transports \cup {0},
                    profile: Profiles \cup {0}, terms: Terms]
  BY DEF Offers
<1>1. ASSUME NEW p \in Peers, NEW o \in MayOffer[p], MakeOffer(p, o)
      PROVE  Sound'
  <2>1. o \in Offers
    BY PeersAssumption
  <2>2. contact[p].state = "ACTIVE" /\ RecordOfferStatus(contact[p], o) = "OK"
    BY <1>1 DEF MakeOffer
  <2>3. WellFormed(RecordOffer(contact[p], o))
    BY <1>a, <1>c, <2>1, RecordOfferWellFormed
  <2>4. RecordOffer(contact[p], o).state # "NONE"
    BY <1>a, <2>2, RecordOfferEffect DEF Becomes
  <2>5. OfferFrame(Other(p), contact[p].active_transport, o) \in Frames
    BY <1>a, <2>1, ContactFields, OfferFrameType
  <2>6. o.mig \in MigrationRefs
    BY <2>1 DEF Offers
  <2> QED
    BY <1>1, <2>3, <2>4, <2>5, <2>6, SetContactSound
    DEF MakeOffer, Sound, TypeOK
<1>2. ASSUME NEW p \in Peers, NEW f \in net, TakeUpOffer(p, f)
      PROVE  Sound'
  <2>1. f.offer \in Offers /\ f.offer.mig \in MigrationRefs
    BY <1>2, <1>b, FrameFields DEF TakeUpOffer, Arrives, Offers
  <2>2. /\ contact[p].state = "ACTIVE"
        /\ RecordOfferStatus(contact[p], f.offer) = "OK"
    BY <1>2 DEF TakeUpOffer
  <2>3. WellFormed(RecordOffer(contact[p], f.offer))
    BY <1>a, <1>c, <2>1, RecordOfferWellFormed
  <2>4. RecordOffer(contact[p], f.offer).state # "NONE"
    BY <1>a, <2>2, RecordOfferEffect DEF Becomes
  <2>5. net' \subseteq net
    BY <1>2, DeliveredNet DEF TakeUpOffer
  <2> QED
    BY <1>2, <2>1, <2>3, <2>4, <2>5, SetContactSound
    DEF TakeUpOffer, Sound, TypeOK
<1>3. ASSUME NEW p \in Peers, NEW f \in net, CollideOffer(p, f)
      PROVE  Sound'
  <2> DEFINE source == contact[Other(p)].local_ref
             d == ResolveOfferCollision(contact[p], source, f.offer)
  <2>1. f.offer \in Offers /\ f.offer.mig \in MigrationRefs
    BY <1>3, <1>b, FrameFields DEF CollideOffer, Arrives, Offers
  <2>2. source \in LocalRefs
    BY <1>a DEF Contacts
  <2>3. WellFormed(d)
    BY <1>a, <1>c, <2>1, <2>2, ResolveOfferCollisionWellFormed
  <2>4. d.state # "NONE"
    BY <1>3, <1>a, <2>1, <2>2, ResolveOfferCollisionEffect
    DEF CollideOffer, Becomes
  <2>5. net' \subseteq net
    BY <1>3, DeliveredNet DEF CollideOffer
  <2>6. /\ SetContact(p, d)
        /\ known' = [known EXCEPT ![p] = @ \cup {f.offer.mig}]
        /\ controls' = [controls EXCEPT ![p] = FALSE]
        /\ UNCHANGED crossed
    BY <1>3 DEF CollideOffer
  <2> QED
    BY <2>1, <2>3, <2>4, <2>5, <2>6, SetContactSound DEF Sound, TypeOK
<1>4. ASSUME NEW p \in Peers, AcceptOffer(p)
      PROVE  Sound'
  <2> DEFINE o == contact[p].pending
  <2>1. PICK s \in IF contact[p].session_valid
                   THEN {contact[p].session_ref} ELSE MayChoose[p] :
            LET c == Agree(contact[p], o.mig, o.transport, o.profile, s)
            IN  /\ SetContact(p, c)
                /\ net' = net \cup
                       {AcceptFrame(Other(p), c.active_transport, o, s)}
    BY <1>4 DEF AcceptOffer
  <2> DEFINE c == Agree(contact[p], o.mig, o.transport, o.profile, s)
  <2>2. o \in Offers /\ contact[p].state = "OFFERED"
    BY <1>4, <1>a, ContactFields DEF AcceptOffer, MigrationInProgress
  <2>3. s \in Sessions
    BY <1>a, PeersAssumption, ContactFields DEF Contacts
  <2>4. WellFormed(c)
    BY <1>a, <2>3, AgreeWellFormed
  <2>5. AgreeStatus(contact[p], o.mig, o.transport, o.profile, s) = "OK"
    BY <2>1, <2>2, <2>3, RefsAssumption DEF AgreeStatus, MigrationInProgress
  <2>6. c.state # "NONE" /\ c.active_transport = contact[p].active_transport
    BY <1>a, <2>2, <2>5, AgreeEffect DEF Becomes
  <2>7. AcceptFrame(Other(p), c.active_transport, o, s) \in Frames
    BY <1>a, <2>2, <2>3, <2>6, ContactFields, OfferFrameType
  <2> QED
    BY <1>4, <2>1, <2>4, <2>6, <2>7, SetContactSound
    DEF AcceptOffer, Sound, TypeOK
<1>5. ASSUME NEW p \in Peers, NEW f \in net, ReceiveAccept(p, f)
      PROVE  Sound'
  <2> DEFINE o == f.offer
             c == Agree(contact[p], o.mig, o.transport, o.profile, f.session)
  <2>1. f.session \in Sessions
    BY <1>5, <1>b, FrameFields DEF ReceiveAccept, Arrives
  <2>2. c # contact[p] /\ SetContact(p, c)
    BY <1>5 DEF ReceiveAccept
  <2>3. WellFormed(c)
    BY <1>a, <2>1, AgreeWellFormed
  <2>4. c.state # "NONE"
    BY <1>a, <2>2, AgreeEffect DEF Becomes
  <2>5. net' \subseteq net
    BY <1>5, DeliveredNet DEF ReceiveAccept
  <2> QED
    BY <1>5, <2>2, <2>3, <2>4, <2>5, SetContactSound
    DEF ReceiveAccept, Sound, TypeOK
<1>6. ASSUME NEW p \in Peers, SendChallenge(p)
      PROVE  Sound'
  <2> DEFINE m == contact[p].pending.mig
             c == ValidationBegin(contact[p], ChallengeOf[m])
  <2>1. /\ SetContact(p, c)
        /\ net' = net \cup {ControlTo("PATH_CHALLENGE", p, contact[p], m)}
        /\ ValidationBeginStatus(contact[p]) = "OK"
    BY <1>6 DEF SendChallenge
  <2>2. m \in MigrationRefs /\ contact[p].session_valid
    BY <1>a, <2>1, ContactFields DEF ValidationBeginStatus, MigrationInProgress
  <2>3. WellFormed(c) /\ c.state # "NONE"
    BY <1>a, <2>1, <2>2, PeersAssumption, ValidationBeginWellFormed,
       ValidationBeginEffect DEF Becomes
  <2>4. ControlTo("PATH_CHALLENGE", p, contact[p], m) \in Frames
    BY <1>a, <2>2, ControlToType
  <2> QED
    BY <1>6, <2>1, <2>3, <2>4, SetContactSound
    DEF SendChallenge, Sound, TypeOK
<1>7. ASSUME NEW p \in Peers, NEW f \in net, ReceiveChallenge(p, f)
      PROVE  Sound'
  <2> DEFINE d == ValidationBegin(contact[p], f.challenge)
             c == ValidationResponse(d, f.mig, f.session, f.challenge)
  <2>1. /\ contact[p].state = "AGREED"
        /\ CheckTransaction(contact[p], f.mig, f.session) = "OK"
        /\ SetContact(p, c)
        /\ Delivered(f, {ControlTo("PATH_RESPONSE", p, contact[p], f.mig)})
    BY <1>7 DEF ReceiveChallenge
  <2>2. /\ f.mig \in MigrationRefs /\ f.challenge \in Challenges
        /\ f.via \in Transports
    BY <1>7, <1>b, FrameFields DEF ReceiveChallenge, Arrives
  <2>3. WellFormed(c)
    BY <1>a, <2>2, ValidationBeginWellFormed, ValidationResponseWellFormed
  <2>4. c.state # "NONE"
    BY <1>a, <2>1, <2>2, EchoEffect DEF Becomes
  <2>5. ControlTo("PATH_RESPONSE", p, contact[p], f.mig) \in Frames
    BY <1>a, <2>1, <2>2, ContactFields, ControlToType
  <2>6. net' \subseteq Frames
    BY <2>1, <2>5, DeliveredNet DEF Sound, TypeOK
  <2> QED
    BY <1>7, <2>1, <2>2, <2>3, <2>4, <2>6, SetContactSound
    DEF ReceiveChallenge, Sound, TypeOK
<1>8. ASSUME NEW p \in Peers, NEW f \in net, RepeatResponse(p, f)
      PROVE  Sound'
  <2>1. f.mig \in MigrationRefs
    BY <1>8, <1>b, FrameFields DEF RepeatResponse, Arrives
  <2>2. contact[p].session_valid
    BY <1>8 DEF RepeatResponse, ChallengeRepeat, CheckTransaction
  <2>3. ControlTo("PATH_RESPONSE", p, contact[p], f.mig) \in Frames
    BY <1>a, <2>1, <2>2, ControlToType
  <2>4. net' \subseteq Frames
    BY <1>8, <2>3, DeliveredNet DEF RepeatResponse, Sound, TypeOK
  <2> QED BY <1>8, <2>4 DEF RepeatResponse, Sound, TypeOK
<1>9. ASSUME NEW p \in Peers, NEW f \in net, ReceiveResponse(p, f)
      PROVE  Sound'
  <2> DEFINE c == ValidationResponse(contact[p], f.mig, f.session, f.challenge)
  <2>1. c # contact[p] /\ SetContact(p, c)
    BY <1>9 DEF ReceiveResponse
  <2>2. f.mig \in MigrationRefs /\ f.via \in Transports
    BY <1>9, <1>b, FrameFields DEF ReceiveResponse, Arrives
  <2>3. WellFormed(c) /\ c.state # "NONE"
    BY <1>a, <2>1, ValidationResponseWellFormed, ValidationResponseEffect
    DEF Becomes
  <2>4. net' \subseteq net
    BY <1>9, DeliveredNet DEF ReceiveResponse
  <2> QED
    BY <1>9, <2>1, <2>2, <2>3, <2>4, SetContactSound
    DEF ReceiveResponse, Sound, TypeOK
<1>10. ASSUME NEW p \in Peers, SendCommit(p)
       PROVE  Sound'
  <2>1. contact[p].state = "VALIDATED"
    BY <1>10 DEF SendCommit, CommitBeginStatus
  <2>2. contact[p].session_valid /\ contact[p].pending.mig \in MigrationRefs
    BY <1>a, <2>1, ContactFields DEF MigrationInProgress
  <2>3. /\ WellFormed(CommitBegin(contact[p]))
        /\ CommitBegin(contact[p]).state # "NONE"
    BY <1>10, <1>a, CommitBeginWellFormed, CommitBeginEffect
    DEF SendCommit, Becomes
  <2>4. ControlTo("COMMIT", p, contact[p], contact[p].pending.mig) \in Frames
    BY <1>a, <2>2, ControlToType
  <2> QED
    BY <1>10, <2>3, <2>4, SetContactSound DEF SendCommit, Sound, TypeOK
<1>11. ASSUME NEW p \in Peers, NEW f \in net, ReceiveCommit(p, f)
       PROVE  Sound'
  <2> DEFINE c == CommitAccept(contact[p], f.mig, f.session)
  <2>1. /\ CommitAcceptStatus(contact[p], f.mig, f.session) = "OK"
        /\ SetContact(p, c)
        /\ Delivered(f, {ControlTo("CONFIRM", p, c, f.mig)})
    BY <1>11 DEF ReceiveCommit
  <2>2. f.mig \in MigrationRefs
    BY <1>11, <1>b, FrameFields DEF ReceiveCommit, Arrives
  <2>3. WellFormed(c)
    BY <1>a, CommitAcceptWellFormed
  <2>4. /\ contact[p].state = "VALIDATED"
        /\ c.state # "NONE" /\ c.session_ref = contact[p].session_ref
    BY <1>a, <2>1, CommitAcceptEffect DEF Becomes
  <2>5. contact[p].session_ref # 0
    BY <1>a, <2>4, ContactFields
  <2>6. ControlTo("CONFIRM", p, c, f.mig) \in Frames
    BY <2>2, <2>3, <2>4, <2>5, ContactFields, ControlToType
  <2>7. net' \subseteq Frames
    BY <2>1, <2>6, DeliveredNet DEF Sound, TypeOK
  <2> QED
    BY <1>11, <2>1, <2>3, <2>4, <2>7, SetContactSound
    DEF ReceiveCommit, Sound, TypeOK
<1>12. ASSUME NEW p \in Peers, NEW f \in net, RepeatConfirm(p, f)
       PROVE  Sound'
  <2>1. f.mig \in MigrationRefs
    BY <1>12, <1>b, FrameFields DEF RepeatConfirm, Arrives
  <2>2. ControlTo("CONFIRM", p, contact[p], f.mig) \in Frames
    BY <1>12, <1>a, <2>1, ControlToType DEF RepeatConfirm, CommitRepeat
  <2>3. net' \subseteq Frames
    BY <1>12, <2>2, DeliveredNet DEF RepeatConfirm, Sound, TypeOK
  <2> QED BY <1>12, <2>3 DEF RepeatConfirm, Sound, TypeOK
<1>13. ASSUME NEW p \in Peers, NEW f \in net, ReceiveConfirm(p, f)
       PROVE  Sound'
  <2> DEFINE c == CommitConfirm(contact[p], f.mig, f.session)
  <2>1. c # contact[p] /\ SetContact(p, c)
    BY <1>13 DEF ReceiveConfirm
  <2>2. WellFormed(c) /\ c.state # "NONE"
    BY <1>a, <2>1, CommitConfirmWellFormed, CommitConfirmEffect DEF Becomes
  <2>3. net' \subseteq net
    BY <1>13, DeliveredNet DEF ReceiveConfirm
  <2> QED
    BY <1>13, <2>1, <2>2, <2>3, SetContactSound
    DEF ReceiveConfirm, Sound, TypeOK
<1>14. ASSUME NEW p \in Peers, Retransmit(p)
       PROVE  Sound'
  BY <1>14, OutstandingType DEF Retransmit, Sound, TypeOK
<1>15. ASSUME NEW p \in Peers, GiveUp(p)
       PROVE  Sound'
  <2>1. /\ WellFormed(AbandonMigration(contact[p]))
        /\ AbandonMigration(contact[p]).state # "NONE"
    BY <1>15, <1>a, AbandonMigrationWellFormed, AbandonMigrationEffect
    DEF GiveUp, Becomes
  <2> QED BY <1>15, <2>1, SetContactSound DEF GiveUp, Sound, TypeOK
<1>16. ASSUME NEW p \in Peers, CloseContact(p)
       PROVE  Sound'
  <2>1. WellFormed(Close(contact[p])) /\ Close(contact[p]).state # "NONE"
    BY <1>16, <1>a, CloseWellFormed, CloseEffect DEF CloseContact, Becomes
  <2> QED BY <1>16, <2>1, SetContactSound DEF CloseContact, Sound, TypeOK
<1>17. ASSUME NEW f \in net, Lose(f)
       PROVE  Sound'
  BY <1>17 DEF Lose, Sound, TypeOK
<1>18. CASE UNCHANGED vars
  BY <1>18 DEF vars, Sound, TypeOK
<1> QED
  BY <1>1, <1>2, <1>3, <1>4, <1>5, <1>6, <1>7, <1>8, <1>9, <1>10, <1>11,
     <1>12, <1>13, <1>14, <1>15, <1>16, <1>17, <1>18
  DEF Next, Send, Receive

\* Every reachable state of the exchange has its type: every frame sent is
\* well formed and both contacts are ones contact.c can hold, whatever the
\* callers remember, give up on or close.
THEOREM TypeCorrect == Spec => []TypeOK
<1>1. Sound => TypeOK
  BY DEF Sound
<1> QED BY <1>1, InitSound, SoundStep, PTL DEF Spec

-----------------------------------------------------------------------------
(* The steps of the exchange, as changes of the fields that matter.  p acts, *)
(* q is its peer.                                                            *)

\* Every frame p puts on the media is justified by the contact it leaves: it
\* belongs to the transaction p then works on or has just completed.
Sends(p, q) ==
    \A f \in net' : f \in net \/
        /\ f.to = q
        /\ \/ /\ f.kind = "OFFER"
              /\ controls'[p] /\ contact'[p].state = "OFFERED"
              /\ f.offer = contact'[p].pending
           \/ /\ f.kind = "ACCEPT"
              /\ ~controls'[p] /\ contact'[p].state = "AGREED"
              /\ f.offer = contact'[p].pending
              /\ f.session = contact'[p].session_ref
           \/ /\ f.kind = "PATH_CHALLENGE"
              /\ contact'[p].state = "VALIDATING"
              /\ f.mig = contact'[p].pending.mig
           \/ /\ f.kind = "COMMIT"
              /\ contact'[p].state = "COMMITTING"
              /\ f.mig = contact'[p].pending.mig
           \/ /\ f.kind = "PATH_RESPONSE"
              /\ contact'[p].state = "VALIDATED"
              /\ f.mig = contact'[p].pending.mig
              /\ f.via = contact'[p].pending.transport
              /\ \E g \in net : /\ g.kind = "PATH_CHALLENGE"
                                /\ g.to = p /\ g.mig = f.mig
           \/ /\ f.kind = "CONFIRM"
              /\ contact'[p].state = "ACTIVE"
              /\ \E g \in net : /\ g.kind = "COMMIT"
                                /\ g.to = p /\ g.mig = f.mig

\* What no step of p disturbs.
Stands(p, q) ==
    /\ contact'[q] = contact[q]
    /\ controls'[q] = controls[q]
    /\ known'[q] = known[q]
    /\ known[p] \subseteq known'[p]
    /\ crossed \subseteq crossed'
    /\ Sends(p, q)

\* A frame of this kind is waiting for p.
Waits(p, kind, f) == f \in net /\ f.kind = kind /\ f.to = p

\* contact[p] enters a state and keeps its session and its carrier.
Enters(p, st, o) ==
    LET c == contact[p]
    IN  Becomes(contact'[p], c, st, o, c.session_ref, c.active_transport,
                c.completed_migration_ref)

\* contact[p] moves to the candidate.
Settles(p, m) ==
    LET c == contact[p]
    IN  Becomes(contact'[p], c, "ACTIVE", NoOffer, c.session_ref,
                c.pending.transport, m)

\* contact[p] is bound to session s in AGREED.
Binds(p, s) ==
    LET c == contact[p]
    IN  /\ c.state = "OFFERED"
        /\ c.session_valid => c.session_ref = s
        /\ Becomes(contact'[p], c, "AGREED", c.pending, s, c.active_transport,
                   c.completed_migration_ref)

\* An offer m of q wins over the offer p has outstanding.
Outbids(q, m, p) ==
    \/ contact[q].local_ref > contact[p].local_ref
    \/ /\ contact[q].local_ref = contact[p].local_ref
       /\ m > contact[p].pending.mig

\* p heard an offer of its peer with the key of its own.
HearsTie(p) ==
    /\ contact[p].state = "OFFERED" /\ controls[p]
    /\ contact[Other(p)].local_ref = contact[p].local_ref
    /\ \E f \in net : Waits(p, "OFFER", f)
                      /\ f.offer.mig = contact[p].pending.mig

\* MakeOffer
MakesOffer(p, o) ==
    /\ contact[p].state = "ACTIVE"
    /\ o \in Offers /\ o.mig \notin known[p] /\ o.mig \in known'[p]
    /\ controls'[p]
    /\ Enters(p, "OFFERED", o)

\* TakeUpOffer, and CollideOffer when the peer wins
Takes(p, q, f) ==
    LET m == f.offer.mig
    IN  /\ Waits(p, "OFFER", f)
        /\ contact[p].state \in {"ACTIVE", "OFFERED"}
        /\ \/ m \notin known[p]
           \/ /\ controls[p] /\ contact[p].pending.mig = m
              /\ contact[q].local_ref > contact[p].local_ref
        /\ contact[p].state = "OFFERED" => controls[p] /\ Outbids(q, m, p)
        /\ m \in known'[p]
        /\ ~controls'[p]
        /\ Enters(p, "OFFERED", f.offer)

\* GiveUp, and CollideOffer when the keys tie
Drops(p) ==
    /\ contact[p].state \in {"OFFERED", "AGREED", "VALIDATING", "VALIDATED"}
    /\ contact[p].state = "VALIDATED" => controls[p]
    /\ <<Role(p), contact[p].state>> \in MayGiveUp \/ HearsTie(p)
    /\ Enters(p, "ACTIVE", NoOffer)

\* AcceptOffer
Accepts(p) ==
    /\ ~controls[p] /\ controls'[p] = controls[p]
    /\ \E s \in Sessions : Binds(p, s)

\* ReceiveAccept
IsAccepted(p, f) ==
    /\ Waits(p, "ACCEPT", f)
    /\ f.offer.mig = contact[p].pending.mig
    /\ controls'[p] = controls[p]
    /\ Binds(p, f.session)

\* SendChallenge
StartsValidation(p) ==
    /\ contact[p].state = "AGREED"
    /\ controls[p] /\ controls'[p] = controls[p]
    /\ Enters(p, "VALIDATING", contact[p].pending)

\* ReceiveChallenge
Echoes(p, f) ==
    /\ Waits(p, "PATH_CHALLENGE", f)
    /\ contact[p].state = "AGREED" /\ contact[p].pending.mig = f.mig
    /\ controls'[p] = controls[p]
    /\ Enters(p, "VALIDATED", contact[p].pending)
    /\ <<p, f.mig, contact[p].pending.transport>> \in crossed'

\* ReceiveResponse
IsProven(p, f) ==
    /\ Waits(p, "PATH_RESPONSE", f)
    /\ f.via = contact[p].pending.transport
    /\ contact[p].state = "VALIDATING" /\ contact[p].pending.mig = f.mig
    /\ controls'[p] = controls[p]
    /\ Enters(p, "VALIDATED", contact[p].pending)
    /\ <<p, f.mig, f.via>> \in crossed'

\* SendCommit
Commits(p) ==
    /\ contact[p].state = "VALIDATED"
    /\ controls[p] /\ controls'[p] = controls[p]
    /\ Enters(p, "COMMITTING", contact[p].pending)

\* ReceiveCommit
Moves(p, f) ==
    /\ Waits(p, "COMMIT", f)
    /\ contact[p].state = "VALIDATED" /\ contact[p].pending.mig = f.mig
    /\ Settles(p, f.mig)

\* ReceiveConfirm
IsConfirmed(p, f) ==
    /\ Waits(p, "CONFIRM", f)
    /\ contact[p].state = "COMMITTING" /\ contact[p].pending.mig = f.mig
    /\ Settles(p, f.mig)

\* CloseContact
Closes(p) ==
    LET c == contact[p]
    IN  Becomes(contact'[p], c, "CLOSED", NoOffer, 0, c.active_transport,
                c.completed_migration_ref)

\* Retransmit, RepeatResponse, RepeatConfirm and Lose change the media only.
Idles(p) == contact'[p] = contact[p] /\ controls'[p] = controls[p]

StepOf(p, q) ==
    /\ Stands(p, q)
    /\ \/ \E o \in Offers : MakesOffer(p, o)
       \/ \E f \in net : Takes(p, q, f)
       \/ Drops(p)
       \/ Accepts(p)
       \/ \E f \in net : IsAccepted(p, f)
       \/ StartsValidation(p)
       \/ \E f \in net : Echoes(p, f)
       \/ \E f \in net : IsProven(p, f)
       \/ Commits(p)
       \/ \E f \in net : Moves(p, f)
       \/ \E f \in net : IsConfirmed(p, f)
       \/ Closes(p)
       \/ Idles(p)

\* A caller that forgets takes up an offer it took up before.
Retakes(p, f) ==
    /\ ~RemembersOffers
    /\ contact[p].state \in {"ACTIVE", "OFFERED"}
    /\ Waits(p, "OFFER", f)
    /\ Enters(p, "OFFERED", f.offer)

\* An acceptor that does not wait gives up in VALIDATED.
Forsakes(p) ==
    /\ ~AcceptorWaits
    /\ contact[p].state = "VALIDATED"
    /\ Enters(p, "ACTIVE", NoOffer)

\* A step of p, whatever its caller's duties.
AnyStepOf(p, q) ==
    \/ StepOf(p, q)
    \/ Stands(p, q) /\ \E f \in net : Retakes(p, f)
    \/ Stands(p, q) /\ Forsakes(p)

\* Every step of the exchange is one of these, of one of the two machines.
LEMMA EveryStep ==
    ASSUME Sound, [Next]_vars
    PROVE  \E p, q \in Peers : p # q /\ AnyStepOf(p, q)
<1>a. ASSUME NEW p \in Peers
      PROVE  /\ WellFormed(contact[p]) /\ contact[p] \in Contacts
             /\ contact[p].state # "NONE"
             /\ Other(p) \in Peers /\ Other(p) # p
  BY OtherInPeers DEF Sound, TypeOK
<1>b. ASSUME NEW f \in net
      PROVE  f \in Frames
  BY DEF Sound, TypeOK
<1>c. /\ controls \in [Peers -> BOOLEAN]
      /\ known \in [Peers -> SUBSET MigrationRefs]
      /\ contact \in [Peers -> Contacts]
  BY DEF Sound, TypeOK
\* A contact replaced, and at most the frame x sent.
<1>d. ASSUME NEW p \in Peers, NEW c, SetContact(p, c)
      PROVE  contact'[p] = c /\ contact'[Other(p)] = contact[Other(p)]
  BY <1>a, <1>c, <1>d DEF SetContact
<1>e. ASSUME NEW p \in Peers, net' \subseteq net
      PROVE  Sends(p, Other(p))
  BY <1>e DEF Sends
<1>1. ASSUME NEW p \in Peers, NEW o \in MayOffer[p], MakeOffer(p, o)
      PROVE  StepOf(p, Other(p))
  <2>1. o \in Offers /\ o.mig \in MigrationRefs
    BY PeersAssumption DEF Offers
  <2>2. contact'[p] = RecordOffer(contact[p], o)
    BY <1>1, <1>d DEF MakeOffer
  <2>3. Enters(p, "OFFERED", o)
    BY <1>1, <1>a, <2>2, RecordOfferEffect DEF MakeOffer, Enters
  <2>4. controls'[p] /\ contact'[p].state = "OFFERED"
        /\ contact'[p].pending = o
    BY <1>1, <1>c, <2>3 DEF MakeOffer, Enters, Becomes
  <2>5. Sends(p, Other(p))
    BY <1>1, <2>4 DEF MakeOffer, Sends, OfferFrame
  <2>6. Stands(p, Other(p))
    BY <1>1, <1>a, <1>c, <1>d, <2>5 DEF MakeOffer, Stands
  <2>7. MakesOffer(p, o)
    BY <1>1, <1>c, <2>1, <2>3, <2>4 DEF MakeOffer, MakesOffer
  <2> QED BY <2>1, <2>6, <2>7 DEF StepOf
<1>2. ASSUME NEW p \in Peers, NEW f \in net, TakeUpOffer(p, f)
      PROVE  AnyStepOf(p, Other(p))
  <2>1. f.offer \in Offers /\ f.offer.mig \in MigrationRefs
    BY <1>2, <1>b, FrameFields DEF TakeUpOffer, Arrives, Offers
  <2>2. contact'[p] = RecordOffer(contact[p], f.offer)
    BY <1>2, <1>d DEF TakeUpOffer
  <2>3. Enters(p, "OFFERED", f.offer)
    BY <1>2, <1>a, <2>2, RecordOfferEffect DEF TakeUpOffer, Enters
  <2>4. Stands(p, Other(p))
    <3>1. Sends(p, Other(p))
      BY <1>2, <1>e, DeliveredNet DEF TakeUpOffer
    <3>2. contact'[Other(p)] = contact[Other(p)]
      BY <1>2, <1>d DEF TakeUpOffer
    <3> QED BY <1>2, <1>a, <1>c, <3>1, <3>2 DEF TakeUpOffer, Stands
  <2>5. CASE RemembersOffers
    <3>1. Takes(p, Other(p), f)
      BY <1>2, <1>c, <2>3, <2>5
      DEF TakeUpOffer, Takes, Arrives, Waits, IsNews
    <3> QED BY <2>4, <3>1 DEF StepOf, AnyStepOf
  <2>6. CASE ~RemembersOffers
    <3>1. Retakes(p, f)
      BY <1>2, <2>3, <2>6 DEF TakeUpOffer, Retakes, Arrives, Waits
    <3> QED BY <2>4, <3>1 DEF AnyStepOf
  <2> QED BY <2>5, <2>6
<1>3. ASSUME NEW p \in Peers, NEW f \in net, CollideOffer(p, f)
      PROVE  AnyStepOf(p, Other(p))
  <2> DEFINE source == contact[Other(p)].local_ref
             d == ResolveOfferCollision(contact[p], source, f.offer)
  <2>1. f.offer \in Offers /\ f.offer.mig \in MigrationRefs
    BY <1>3, <1>b, FrameFields DEF CollideOffer, Arrives, Offers
  <2>2. /\ contact[p].state = "OFFERED" /\ controls[p]
        /\ RemembersOffers => \/ f.offer.mig \notin known[p]
                              \/ f.offer.mig = contact[p].pending.mig
        /\ ResolveOfferCollisionStatus(contact[p], source, f.offer) = "OK"
        /\ CollisionOutcome(contact[p], source, f.offer) # "LOCAL_WINS"
        /\ SetContact(p, d)
        /\ Waits(p, "OFFER", f)
    BY <1>3 DEF CollideOffer, IsNews, Arrives, Waits
  <2>3. /\ f.offer.mig \in known'[p] /\ ~controls'[p]
        /\ Stands(p, Other(p))
    <3>1. Sends(p, Other(p))
      BY <1>3, <1>e, DeliveredNet DEF CollideOffer
    <3>2. contact'[Other(p)] = contact[Other(p)]
      BY <1>d, <2>2
    <3>3. /\ known' = [known EXCEPT ![p] = @ \cup {f.offer.mig}]
          /\ controls' = [controls EXCEPT ![p] = FALSE]
          /\ UNCHANGED crossed
      BY <1>3 DEF CollideOffer
    <3> QED BY <1>a, <1>c, <3>1, <3>2, <3>3 DEF Stands
  <2>4. contact'[p] = d /\ source \in LocalRefs
    BY <1>a, <1>d, <2>2 DEF Contacts
  <2>5. \/ /\ Enters(p, "OFFERED", f.offer)
           /\ Outbids(Other(p), f.offer.mig, p)
        \/ Enters(p, "ACTIVE", NoOffer) /\ HearsTie(p)
    BY <1>a, <2>1, <2>2, <2>4, ResolveOfferCollisionEffect
    DEF Enters, Outbids, HearsTie
  <2>6. CASE Enters(p, "ACTIVE", NoOffer) /\ HearsTie(p)
    BY <2>2, <2>3, <2>6 DEF Drops, StepOf, AnyStepOf
  <2>7. CASE /\ Enters(p, "OFFERED", f.offer)
             /\ Outbids(Other(p), f.offer.mig, p)
    <3>1. f.offer.mig = contact[p].pending.mig =>
              contact[Other(p)].local_ref > contact[p].local_ref
      <4> DEFINE m == f.offer.mig
      <4>1. m \in Nat
        BY <2>1, RefsAssumption
      <4>2. ~(m > m)
        <5> HIDE DEF m
        <5> QED BY <4>1
      <4> QED BY <2>7, <4>2 DEF Outbids
    <3>2. RemembersOffers => Takes(p, Other(p), f)
      BY <2>2, <2>3, <2>7, <3>1 DEF Takes
    <3>3. ~RemembersOffers => Retakes(p, f)
      BY <2>2, <2>7 DEF Retakes
    <3> QED BY <2>3, <3>2, <3>3 DEF StepOf, AnyStepOf
  <2> QED BY <2>5, <2>6, <2>7
<1>4. ASSUME NEW p \in Peers, AcceptOffer(p)
      PROVE  StepOf(p, Other(p))
  <2> DEFINE o == contact[p].pending
  <2>1. PICK s \in IF contact[p].session_valid
                   THEN {contact[p].session_ref} ELSE MayChoose[p] :
            LET c == Agree(contact[p], o.mig, o.transport, o.profile, s)
            IN  /\ SetContact(p, c)
                /\ net' = net \cup
                       {AcceptFrame(Other(p), c.active_transport, o, s)}
    BY <1>4 DEF AcceptOffer
  <2> DEFINE c == Agree(contact[p], o.mig, o.transport, o.profile, s)
  <2>2. s \in Sessions /\ contact[p].state = "OFFERED"
    BY <1>4, <1>a, PeersAssumption, ContactFields DEF AcceptOffer, Contacts
  <2>3. AgreeStatus(contact[p], o.mig, o.transport, o.profile, s) = "OK"
    BY <2>1, <2>2, RefsAssumption DEF AgreeStatus, MigrationInProgress
  <2>4. Binds(p, s)
    BY <1>a, <1>d, <2>1, <2>2, <2>3, AgreeEffect DEF Binds
  <2>5. ~controls[p] /\ controls'[p] = controls[p]
    BY <1>4 DEF AcceptOffer
  <2>6. Sends(p, Other(p))
    BY <2>1, <2>4, <2>5 DEF Sends, AcceptFrame, Binds, Becomes
  <2>7. Stands(p, Other(p))
    BY <1>4, <1>a, <1>d, <2>1, <2>6 DEF AcceptOffer, Stands
  <2> QED BY <2>2, <2>4, <2>5, <2>7 DEF Accepts, StepOf
<1>5. ASSUME NEW p \in Peers, NEW f \in net, ReceiveAccept(p, f)
      PROVE  StepOf(p, Other(p))
  <2> DEFINE o == f.offer
             c == Agree(contact[p], o.mig, o.transport, o.profile, f.session)
  <2>1. c # contact[p] /\ SetContact(p, c) /\ Waits(p, "ACCEPT", f)
    BY <1>5 DEF ReceiveAccept, Arrives, Waits
  <2>2. Binds(p, f.session) /\ o.mig = contact[p].pending.mig
    BY <1>a, <1>d, <2>1, AgreeEffect DEF Binds
  <2>3. Stands(p, Other(p))
    BY <1>5, <1>a, <1>d, <1>e, <2>1, DeliveredNet DEF ReceiveAccept, Stands
  <2>4. IsAccepted(p, f)
    BY <1>5, <2>1, <2>2 DEF ReceiveAccept, IsAccepted
  <2> QED BY <2>3, <2>4 DEF StepOf
<1>6. ASSUME NEW p \in Peers, SendChallenge(p)
      PROVE  StepOf(p, Other(p))
  <2> DEFINE m == contact[p].pending.mig
             x == ControlTo("PATH_CHALLENGE", p, contact[p], m)
  <2>1. /\ SetContact(p, ValidationBegin(contact[p], ChallengeOf[m]))
        /\ net' = net \cup {x}
        /\ ValidationBeginStatus(contact[p]) = "OK"
        /\ controls[p] /\ controls'[p] = controls[p]
    BY <1>6 DEF SendChallenge
  <2>2. Enters(p, "VALIDATING", contact[p].pending)
        /\ contact[p].state = "AGREED"
    BY <1>a, <1>d, <2>1, ValidationBeginEffect DEF Enters
  <2>3. m \in MigrationRefs /\ contact[p].session_valid
    BY <1>a, <2>2, ContactFields DEF MigrationInProgress
  <2>4. x.kind = "PATH_CHALLENGE" /\ x.to = Other(p) /\ x.mig = m
    BY <1>a, <2>3, ControlToType
  <2>5. Sends(p, Other(p))
    <3> HIDE DEF x
    <3> QED BY <2>1, <2>2, <2>4 DEF Sends, Enters, Becomes
  <2>6. Stands(p, Other(p))
    BY <1>6, <1>a, <1>d, <2>1, <2>5 DEF SendChallenge, Stands
  <2> QED BY <2>1, <2>2, <2>6 DEF StartsValidation, StepOf
<1>7. ASSUME NEW p \in Peers, NEW f \in net, ReceiveChallenge(p, f)
      PROVE  StepOf(p, Other(p))
  <2> DEFINE d == ValidationBegin(contact[p], f.challenge)
             c == ValidationResponse(d, f.mig, f.session, f.challenge)
             x == ControlTo("PATH_RESPONSE", p, contact[p], f.mig)
  <2>1. /\ contact[p].state = "AGREED"
        /\ CheckTransaction(contact[p], f.mig, f.session) = "OK"
        /\ SetContact(p, c)
        /\ Delivered(f, {x})
        /\ Waits(p, "PATH_CHALLENGE", f)
        /\ f.via = ControlTransport(contact[p])
        /\ crossed' = crossed \cup {<<p, f.mig, f.via>>}
    BY <1>7 DEF ReceiveChallenge, Arrives, Waits
  <2>2. f.mig \in MigrationRefs /\ f.challenge \in Challenges
    BY <1>b, <2>1, FrameFields DEF Waits
  <2>3. Enters(p, "VALIDATED", contact[p].pending)
    BY <1>a, <1>d, <2>1, <2>2, EchoEffect DEF Enters
  <2>4. /\ contact[p].session_valid /\ f.mig = contact[p].pending.mig
        /\ ControlTransport(contact[p]) = contact[p].pending.transport
    BY <2>1 DEF CheckTransaction, ControlTransport, MigrationInProgress
  <2>5. /\ x.kind = "PATH_RESPONSE" /\ x.to = Other(p) /\ x.mig = f.mig
        /\ x.via = contact[p].pending.transport
    BY <1>a, <2>2, <2>4, ControlToType
  <2>6. Sends(p, Other(p))
    <3> HIDE DEF x
    <3> QED
      BY <2>1, <2>3, <2>4, <2>5, DeliveredNet DEF Sends, Enters, Becomes, Waits
  <2>7. Stands(p, Other(p))
    BY <1>7, <1>a, <1>d, <2>1, <2>6 DEF ReceiveChallenge, Stands
  <2>8. Echoes(p, f)
    BY <1>7, <2>1, <2>3, <2>4 DEF ReceiveChallenge, Echoes
  <2> QED BY <2>7, <2>8 DEF StepOf
<1>8. ASSUME NEW p \in Peers, NEW f \in net, RepeatResponse(p, f)
      PROVE  StepOf(p, Other(p))
  <2> DEFINE x == ControlTo("PATH_RESPONSE", p, contact[p], f.mig)
  <2>1. /\ Waits(p, "PATH_CHALLENGE", f)
        /\ contact[p].state = "VALIDATED"
        /\ CheckTransaction(contact[p], f.mig, f.session) = "OK"
        /\ Delivered(f, {x})
        /\ UNCHANGED <<contact, controls, known, crossed>>
    BY <1>8 DEF RepeatResponse, ChallengeRepeat, Arrives, Waits
  <2>2. /\ f.mig \in MigrationRefs
        /\ contact[p].session_valid /\ f.mig = contact[p].pending.mig
        /\ ControlTransport(contact[p]) = contact[p].pending.transport
    BY <1>b, <2>1, FrameFields
    DEF Waits, CheckTransaction, ControlTransport, MigrationInProgress
  <2>3. /\ x.kind = "PATH_RESPONSE" /\ x.to = Other(p) /\ x.mig = f.mig
        /\ x.via = contact[p].pending.transport
    BY <1>a, <2>2, ControlToType
  <2>4. Sends(p, Other(p))
    <3> HIDE DEF x
    <3> QED BY <2>1, <2>2, <2>3, DeliveredNet DEF Sends, Waits
  <2> QED BY <2>1, <2>4 DEF Stands, Idles, StepOf
<1>9. ASSUME NEW p \in Peers, NEW f \in net, ReceiveResponse(p, f)
      PROVE  StepOf(p, Other(p))
  <2> DEFINE c == ValidationResponse(contact[p], f.mig, f.session, f.challenge)
  <2>1. /\ c # contact[p] /\ SetContact(p, c)
        /\ Waits(p, "PATH_RESPONSE", f)
        /\ f.via = ControlTransport(contact[p])
        /\ crossed' = crossed \cup {<<p, f.mig, f.via>>}
        /\ UNCHANGED <<controls, known>>
        /\ net' \subseteq net
    BY <1>9, DeliveredNet DEF ReceiveResponse, Arrives, Waits
  <2>2. /\ Enters(p, "VALIDATED", contact[p].pending)
        /\ contact[p].state = "VALIDATING" /\ f.mig = contact[p].pending.mig
    BY <1>a, <1>d, <2>1, ValidationResponseEffect DEF Enters
  <2>3. f.via = contact[p].pending.transport
    BY <2>1, <2>2 DEF ControlTransport, MigrationInProgress
  <2>4. Stands(p, Other(p))
    BY <1>a, <1>d, <1>e, <2>1 DEF Stands
  <2>5. IsProven(p, f)
    BY <2>1, <2>2, <2>3 DEF IsProven
  <2> QED BY <2>4, <2>5 DEF StepOf
<1>10. ASSUME NEW p \in Peers, SendCommit(p)
       PROVE  StepOf(p, Other(p))
  <2> DEFINE m == contact[p].pending.mig
             x == ControlTo("COMMIT", p, contact[p], m)
  <2>1. /\ SetContact(p, CommitBegin(contact[p]))
        /\ net' = net \cup {x}
        /\ CommitBeginStatus(contact[p]) = "OK"
        /\ controls[p] /\ controls'[p] = controls[p]
    BY <1>10 DEF SendCommit
  <2>2. Enters(p, "COMMITTING", contact[p].pending)
        /\ contact[p].state = "VALIDATED"
    BY <1>a, <1>d, <2>1, CommitBeginEffect DEF Enters
  <2>3. m \in MigrationRefs /\ contact[p].session_valid
    BY <1>a, <2>2, ContactFields DEF MigrationInProgress
  <2>4. x.kind = "COMMIT" /\ x.to = Other(p) /\ x.mig = m
    BY <1>a, <2>3, ControlToType
  <2>5. Sends(p, Other(p))
    <3> HIDE DEF x
    <3> QED BY <2>1, <2>2, <2>4 DEF Sends, Enters, Becomes
  <2>6. Stands(p, Other(p))
    BY <1>10, <1>a, <1>d, <2>1, <2>5 DEF SendCommit, Stands
  <2> QED BY <2>1, <2>2, <2>6 DEF Commits, StepOf
<1>11. ASSUME NEW p \in Peers, NEW f \in net, ReceiveCommit(p, f)
       PROVE  StepOf(p, Other(p))
  <2> DEFINE c == CommitAccept(contact[p], f.mig, f.session)
             x == ControlTo("CONFIRM", p, c, f.mig)
  <2>1. /\ CommitAcceptStatus(contact[p], f.mig, f.session) = "OK"
        /\ SetContact(p, c)
        /\ Delivered(f, {x})
        /\ Waits(p, "COMMIT", f)
        /\ UNCHANGED <<controls, known, crossed>>
    BY <1>11 DEF ReceiveCommit, Arrives, Waits
  <2>2. f.mig \in MigrationRefs
    BY <1>b, <2>1, FrameFields DEF Waits
  <2>3. /\ Settles(p, f.mig) /\ c = contact'[p]
        /\ contact[p].state = "VALIDATED" /\ f.mig = contact[p].pending.mig
        /\ c.session_ref = contact[p].session_ref
    BY <1>a, <1>d, <2>1, CommitAcceptEffect DEF Settles, Becomes
  <2>4. WellFormed(c) /\ c.session_valid
    <3>1. WellFormed(c)
      BY <1>a, CommitAcceptWellFormed
    <3>2. contact[p].session_ref # 0
      BY <1>a, <2>3, ContactFields
    <3> QED BY <2>3, <3>1, <3>2, ContactFields
  <2>5. x.kind = "CONFIRM" /\ x.to = Other(p) /\ x.mig = f.mig
    <3> HIDE DEF c
    <3> QED BY <2>2, <2>4, ControlToType
  <2>6. Sends(p, Other(p))
    <3> HIDE DEF x
    <3> QED
      BY <2>1, <2>3, <2>5, DeliveredNet DEF Sends, Settles, Becomes, Waits
  <2>7. Stands(p, Other(p))
    BY <1>a, <1>d, <2>1, <2>6 DEF Stands
  <2>8. Moves(p, f)
    BY <2>1, <2>3 DEF Moves
  <2> QED BY <2>7, <2>8 DEF StepOf
<1>12. ASSUME NEW p \in Peers, NEW f \in net, RepeatConfirm(p, f)
       PROVE  StepOf(p, Other(p))
  <2> DEFINE x == ControlTo("CONFIRM", p, contact[p], f.mig)
  <2>1. /\ Waits(p, "COMMIT", f)
        /\ contact[p].state = "ACTIVE" /\ contact[p].session_valid
        /\ Delivered(f, {x})
        /\ UNCHANGED <<contact, controls, known, crossed>>
    BY <1>12 DEF RepeatConfirm, CommitRepeat, Arrives, Waits
  <2>2. f.mig \in MigrationRefs
    BY <1>b, <2>1, FrameFields DEF Waits
  <2>3. x.kind = "CONFIRM" /\ x.to = Other(p) /\ x.mig = f.mig
    BY <1>a, <2>1, <2>2, ControlToType
  <2>4. Sends(p, Other(p))
    <3> HIDE DEF x
    <3> QED BY <2>1, <2>3, DeliveredNet DEF Sends, Waits
  <2> QED BY <2>1, <2>4 DEF Stands, Idles, StepOf
<1>13. ASSUME NEW p \in Peers, NEW f \in net, ReceiveConfirm(p, f)
       PROVE  StepOf(p, Other(p))
  <2> DEFINE c == CommitConfirm(contact[p], f.mig, f.session)
  <2>1. /\ c # contact[p] /\ SetContact(p, c)
        /\ Waits(p, "CONFIRM", f)
        /\ UNCHANGED <<controls, known, crossed>>
        /\ net' \subseteq net
    BY <1>13, DeliveredNet DEF ReceiveConfirm, Arrives, Waits
  <2>2. /\ Settles(p, f.mig)
        /\ contact[p].state = "COMMITTING" /\ f.mig = contact[p].pending.mig
    BY <1>a, <1>d, <2>1, CommitConfirmEffect DEF Settles
  <2>3. Stands(p, Other(p))
    BY <1>a, <1>d, <1>e, <2>1 DEF Stands
  <2>4. IsConfirmed(p, f)
    BY <2>1, <2>2 DEF IsConfirmed
  <2> QED BY <2>3, <2>4 DEF StepOf
<1>14. ASSUME NEW p \in Peers, Retransmit(p)
       PROVE  StepOf(p, Other(p))
  <2> DEFINE c == contact[p]
             x == ControlTo("PATH_CHALLENGE", p, c, c.pending.mig)
             y == ControlTo("COMMIT", p, c, c.pending.mig)
  <2>1. /\ net' = net \cup Outstanding(p)
        /\ UNCHANGED <<contact, controls, known, crossed>>
    BY <1>14 DEF Retransmit
  <2>2. CASE c.state \in {"VALIDATING", "COMMITTING"}
    <3>1. c.session_valid /\ c.pending.mig \in MigrationRefs
      BY <1>a, <2>2, ContactFields DEF MigrationInProgress
    <3>2. /\ x.kind = "PATH_CHALLENGE" /\ x.to = Other(p)
          /\ x.mig = c.pending.mig
          /\ y.kind = "COMMIT" /\ y.to = Other(p) /\ y.mig = c.pending.mig
      BY <1>a, <3>1, ControlToType
    <3>3. Outstanding(p) = IF c.state = "VALIDATING" THEN {x} ELSE {y}
      BY <2>2 DEF Outstanding
    <3>4. Sends(p, Other(p))
      <4> HIDE DEF x, y
      <4> QED BY <2>1, <2>2, <3>2, <3>3 DEF Sends
    <3> QED BY <2>1, <3>4 DEF Stands, Idles, StepOf
  <2>3. CASE c.state \notin {"VALIDATING", "COMMITTING"}
    <3>1. Sends(p, Other(p))
      BY <2>1, <2>3 DEF Outstanding, Sends, OfferFrame, AcceptFrame
    <3> QED BY <2>1, <3>1 DEF Stands, Idles, StepOf
  <2> QED BY <2>2, <2>3
<1>15. ASSUME NEW p \in Peers, GiveUp(p)
       PROVE  AnyStepOf(p, Other(p))
  <2>1. /\ SetContact(p, AbandonMigration(contact[p]))
        /\ AbandonMigrationStatus(contact[p]) = "OK"
        /\ UNCHANGED <<controls, known, net, crossed>>
    BY <1>15 DEF GiveUp
  <2>2. Enters(p, "ACTIVE", NoOffer) /\ MigrationIsRevocable(contact[p])
    BY <1>a, <1>d, <2>1, AbandonMigrationEffect DEF Enters
  <2>3. AcceptorWaits /\ contact[p].state = "VALIDATED" => controls[p]
    BY <1>15 DEF GiveUp, Role, AcceptorWaits
  <2>4. Stands(p, Other(p))
    BY <1>a, <1>d, <1>e, <2>1 DEF Stands
  <2>5. Drops(p) \/ Forsakes(p)
    BY <1>15, <2>2, <2>3 DEF GiveUp, Drops, Forsakes, MigrationIsRevocable
  <2> QED BY <2>4, <2>5 DEF StepOf, AnyStepOf
<1>16. ASSUME NEW p \in Peers, CloseContact(p)
       PROVE  StepOf(p, Other(p))
  <2>1. Closes(p)
    BY <1>16, <1>a, <1>d, CloseEffect DEF CloseContact, Closes
  <2>2. Stands(p, Other(p))
    BY <1>16, <1>a, <1>d, <1>e DEF CloseContact, Stands
  <2> QED BY <2>1, <2>2 DEF StepOf
<1>17. ASSUME NEW p \in Peers, NEW f \in net, Lose(f)
       PROVE  StepOf(p, Other(p))
  BY <1>17 DEF Lose, Sends, Stands, Idles, StepOf
<1>18. ASSUME NEW p \in Peers, UNCHANGED vars
       PROVE  StepOf(p, Other(p))
  BY <1>18 DEF vars, Sends, Stands, Idles, StepOf
<1>19. \E p \in Peers : AnyStepOf(p, Other(p))
  BY <1>1, <1>2, <1>3, <1>4, <1>5, <1>6, <1>7, <1>8, <1>9, <1>10, <1>11,
     <1>12, <1>13, <1>14, <1>15, <1>16, <1>17, <1>18, PeersAssumption
  DEF Next, Send, Receive, AnyStepOf
<1> QED BY <1>a, <1>19

\* With both duties every step is one of StepOf.
LEMMA DutifulStep ==
    ASSUME Sound, RemembersOffers, AcceptorWaits, [Next]_vars
    PROVE  \E p, q \in Peers : p # q /\ StepOf(p, q)
  BY EveryStep DEF AnyStepOf, Retakes, Forsakes

-----------------------------------------------------------------------------
(* What a transaction leaves visible.  p is the machine that made the       *)
(* offer, q its peer.                                                       *)

\* p works on the migration m it offered.
Offering(p, m) == controls[p] /\ contact[p].pending.mig = m

\* p works on the migration m its peer offered.
Accepting(p, m) == ~controls[p] /\ contact[p].pending.mig = m

\* Something shows o to be an offer p made to q.
Says(p, q, o) ==
    \/ controls[p] /\ contact[p].pending = o
    \/ ~controls[q] /\ contact[q].pending = o
    \/ \E f \in net : f.kind = "OFFER" /\ f.to = q /\ f.offer = o
    \/ \E f \in net : f.kind = "ACCEPT" /\ f.to = p /\ f.offer = o

\* Something shows that p made an offer with reference m to q.
Offered(p, q, m) ==
    \/ Offering(p, m)
    \/ \E f \in net : f.kind = "OFFER" /\ f.to = q /\ f.offer.mig = m

\* Something shows that q accepted offer m of p.
Agreed(p, q, m) ==
    \/ Offering(p, m) /\ contact[p].state # "OFFERED"
    \/ \E f \in net : f.kind = "ACCEPT" /\ f.to = p /\ f.offer.mig = m
    \/ \E f \in net : /\ f.kind \in {"PATH_RESPONSE", "CONFIRM"}
                      /\ f.to = p /\ f.mig = m
    \/ \E f \in net : /\ f.kind \in {"PATH_CHALLENGE", "COMMIT"}
                      /\ f.to = q /\ f.mig = m

\* q took p's offer m up, now or earlier.
Took(p, q, m) == Accepting(q, m) \/ Agreed(p, q, m)

\* q can answer the COMMIT that p, VALIDATED, is about to send.
Ready(p, q) ==
    \/ Closed(q)
    \/ /\ contact[q].state = "VALIDATED"
       /\ contact[q].pending.mig = contact[p].pending.mig

-----------------------------------------------------------------------------
(* The inductive invariant, in named parts.  The properties of Migration   *)
(* speak of the two contacts alone; what they rest on is the relation       *)
(* between the contacts, the callers' memory and every frame still on the   *)
(* media, any of which may arrive next.                                     *)

\* Only the controller is ever VALIDATING or COMMITTING.
Roles ==
    \A p \in Peers :
        contact[p].state \in {"VALIDATING", "COMMITTING"} => controls[p]

\* A caller remembers what its contact works on and what it completed last,
\* and works on nothing it has completed.
RefsKnown ==
    \A p \in Peers :
        /\ MigrationInProgress(contact[p]) =>
               contact[p].pending.mig \in known[p]
        /\ contact[p].completed_migration_ref # 0 =>
               /\ contact[p].completed_migration_ref \in known[p]
               /\ contact[p].completed_migration_ref # contact[p].pending.mig

\* One reference names one offer of p, wherever the offer shows: in a frame,
\* in p's contact or in the contact of the peer that took it up.
OffersUnique(p, q) ==
    \A o \in Offers :
        Says(p, q, o) =>
            /\ o.mig \in known[p]
            /\ \A o2 \in Offers : Says(p, q, o2) /\ o2.mig = o.mig => o2 = o

\* A migration q took up from p is known to both, q is not its controller and
\* p never took the same reference up from q; if q once offered it too, the
\* collision went p's way.
TakenOnce(p, q) ==
    \A m \in MigrationRefs :
        Took(p, q, m) =>
            /\ m \in known[p] /\ m \in known[q]
            /\ ~Took(q, p, m)
            /\ ~Offering(q, m)
            /\ Offered(q, p, m) => contact[p].local_ref > contact[q].local_ref

\* No trace of an acceptance precedes the acceptance.
AgreedIsPast(p, q) ==
    \A m \in MigrationRefs :
        Agreed(p, q, m) /\ contact[q].pending.mig = m =>
            contact[q].state # "OFFERED"

\* The session of an acceptance on its way, or received, is the acceptor's.
SessionShared(p, q) ==
    /\ \A f \in net :
           f.kind = "ACCEPT" /\ f.to = p =>
               Closed(q) \/ contact[q].session_ref = f.session
    /\ controls[p] /\ MigrationInProgress(contact[p])
           /\ contact[p].state # "OFFERED" =>
           Closed(q) \/ contact[q].session_ref = contact[p].session_ref

\* While p may still act on q's response, or holds the path proven, q is
\* VALIDATED for the same migration.
ResponseIsReady(p, q) ==
    /\ \A f \in net :
           /\ f.kind = "PATH_RESPONSE" /\ f.to = p
           /\ contact[p].pending.mig = f.mig
           /\ contact[p].state # "COMMITTING"
           => Ready(p, q)
    /\ controls[p] /\ contact[p].state = "VALIDATED" => Ready(p, q)

\* A COMMIT on its way that could still move q has a sender that waits.
CommitUnderWay(p, q) ==
    \A f \in net :
        f.kind = "COMMIT" /\ f.to = q =>
            /\ contact[p].pending.mig = f.mig => Committing(p)
            /\ contact[q].pending.mig = f.mig =>
                   \/ Closed(p)
                   \/ Committing(p) /\ contact[p].pending.mig = f.mig

\* Whoever sent CONFIRM is done with the migration.
ConfirmIsFinal(p, q) ==
    \A f \in net :
        f.kind = "CONFIRM" /\ f.to = p => contact[q].pending.mig # f.mig

\* Whoever is COMMITTING waits for a peer about to move, or moved already.
CommitAnswered(p, q) ==
    Committing(p) =>
        \/ Ready(p, q)
        \/ /\ Completed(q, contact[p].pending.mig)
           /\ contact[q].active_transport = contact[p].pending.transport
           /\ ~Committing(q)

\* A response on its way, or a validated path, has its frames in crossed.
PathCrossed(p, q) ==
    /\ \A f \in net :
           f.kind = "PATH_RESPONSE" /\ f.to = p => <<q, f.mig, f.via>> \in crossed
    /\ contact[p].state \in {"VALIDATED", "COMMITTING"} =>
           LET m == contact[p].pending.mig
               t == contact[p].pending.transport
           IN  /\ <<p, m, t>> \in crossed
               /\ controls[p] => <<q, m, t>> \in crossed

\* What holds between a machine p, as the one that offers, and its peer q.
PairInv(p, q) ==
    /\ OffersUnique(p, q)
    /\ TakenOnce(p, q)
    /\ AgreedIsPast(p, q)
    /\ SessionShared(p, q)
    /\ ResponseIsReady(p, q)
    /\ CommitUnderWay(p, q)
    /\ ConfirmIsFinal(p, q)
    /\ CommitAnswered(p, q)
    /\ PathCrossed(p, q)

IInv ==
    /\ Sound
    /\ Roles
    /\ RefsKnown
    /\ \A p, q \in Peers : p # q => PairInv(p, q)
    /\ OneCarrier

-----------------------------------------------------------------------------
(* What a step of p can make visible.                                       *)

\* A step keeps p's transaction and role, ends the transaction, or begins one.
LEMMA TransactionStep ==
    ASSUME NEW p \in Peers, NEW q \in Peers, StepOf(p, q)
    PROVE  \/ /\ contact'[p].pending = contact[p].pending
              /\ controls'[p] = controls[p]
           \/ contact'[p].pending = NoOffer
           \/ \E o \in Offers : MakesOffer(p, o)
           \/ \E f \in net : Takes(p, q, f)
  BY DEF StepOf, Drops, Accepts, IsAccepted, StartsValidation, Echoes,
         IsProven, Commits, Moves, IsConfirmed, Closes, Idles, Enters, Settles,
         Binds, Becomes

\* Only making an offer shows a new one.
LEMMA SaysStep ==
    ASSUME Sound, NEW p \in Peers, NEW q \in Peers, p # q, StepOf(p, q),
           NEW o \in Offers
    PROVE  /\ Says(p, q, o)' => Says(p, q, o) \/ MakesOffer(p, o)
           /\ Says(q, p, o)' => Says(q, p, o)
<1>1. o # NoOffer
  BY RefsAssumption DEF Offers, NoOffer
<1>2. Stands(p, q)
  BY DEF StepOf
<1>3. controls'[p] /\ contact'[p].pending = o =>
          Says(p, q, o) \/ MakesOffer(p, o)
  BY <1>1, TransactionStep DEF Says, MakesOffer, Takes, Enters, Becomes
<1>4. ~controls'[p] /\ contact'[p].pending = o => Says(q, p, o)
  BY <1>1, TransactionStep
  DEF Says, MakesOffer, Takes, Enters, Becomes, Waits
<1>5. Says(p, q, o)' => Says(p, q, o) \/ MakesOffer(p, o)
  BY <1>2, <1>3 DEF Says, Stands, Sends
<1>6. Says(q, p, o)' => Says(q, p, o)
  BY <1>2, <1>4 DEF Says, Stands, Sends
<1> QED BY <1>5, <1>6

\* Only making an offer shows its reference as offered.
LEMMA OfferedStep ==
    ASSUME Sound, NEW p \in Peers, NEW q \in Peers, p # q, StepOf(p, q),
           NEW m \in MigrationRefs
    PROVE  /\ Offered(p, q, m)' =>
                  \/ Offered(p, q, m)
                  \/ \E o \in Offers : MakesOffer(p, o) /\ o.mig = m
           /\ Offered(q, p, m)' => Offered(q, p, m)
<1>1. NoOffer.mig # m
  BY RefsAssumption DEF NoOffer
<1>2. Stands(p, q)
  BY DEF StepOf
<1>3. Offering(p, m)' =>
          \/ Offering(p, m)
          \/ \E o \in Offers : MakesOffer(p, o) /\ o.mig = m
  BY <1>1, TransactionStep DEF Offering, MakesOffer, Takes, Enters, Becomes
<1>4. Offered(q, p, m)' => Offered(q, p, m)
  BY <1>2 DEF Offered, Offering, Stands, Sends
<1>5. Offered(p, q, m)' => Offering(p, m)' \/ Offered(p, q, m)
  BY <1>2 DEF Offered, Offering, Stands, Sends
<1> QED BY <1>3, <1>4, <1>5 DEF Offered

\* Only accepting an offer one works on shows an acceptance.
LEMMA AgreedStep ==
    ASSUME Sound, Roles', NEW p \in Peers, NEW q \in Peers, p # q,
           StepOf(p, q), NEW m \in MigrationRefs
    PROVE  /\ Agreed(p, q, m)' => Agreed(p, q, m)
           /\ Agreed(q, p, m)' =>
                  \/ Agreed(q, p, m)
                  \/ Accepting(p, m) /\ contact'[p].state = "AGREED"
<1>1. NoOffer.mig # m
  BY RefsAssumption DEF NoOffer
<1>2. Stands(p, q)
  BY DEF StepOf
<1>3. Offering(p, m)' /\ contact'[p].state # "OFFERED" => Agreed(p, q, m)
  BY <1>1
  DEF StepOf, Offering, Agreed, MakesOffer, Takes, Drops, Accepts, IsAccepted,
      StartsValidation, Echoes, IsProven, Commits, Moves, IsConfirmed, Closes,
      Idles, Enters, Settles, Binds, Becomes, Waits
<1>4. contact'[p].state \in {"VALIDATING", "COMMITTING"} => controls'[p]
  BY DEF Roles
<1>5. /\ ~controls'[p] /\ contact'[p].state = "AGREED"
      /\ contact'[p].pending.mig = m
      => Accepting(p, m)
  BY <1>1, TransactionStep
  DEF Accepting, MakesOffer, Takes, Enters, Becomes
<1>6. Agreed(p, q, m)' => Agreed(p, q, m)
  BY <1>2, <1>3, <1>4 DEF Agreed, Offering, Stands, Sends
<1>7. Agreed(q, p, m)' =>
          \/ Agreed(q, p, m)
          \/ Accepting(p, m) /\ contact'[p].state = "AGREED"
  BY <1>2, <1>5 DEF Agreed, Offering, Stands, Sends
<1> QED BY <1>6, <1>7

\* Only taking up an offer shows a new acceptor.
LEMMA TookStep ==
    ASSUME Sound, Roles', NEW p \in Peers, NEW q \in Peers, p # q,
           StepOf(p, q), NEW m \in MigrationRefs
    PROVE  /\ Took(p, q, m)' => Took(p, q, m)
           /\ Took(q, p, m)' =>
                  \/ Took(q, p, m)
                  \/ \E f \in net : Takes(p, q, f) /\ f.offer.mig = m
<1>1. NoOffer.mig # m
  BY RefsAssumption DEF NoOffer
<1>2. Accepting(p, m)' =>
          \/ Accepting(p, m)
          \/ \E f \in net : Takes(p, q, f) /\ f.offer.mig = m
  BY <1>1, TransactionStep DEF Accepting, MakesOffer, Takes, Enters, Becomes
<1>3. Accepting(q, m)' => Accepting(q, m)
  BY DEF StepOf, Stands, Accepting
<1> QED BY <1>2, <1>3, AgreedStep DEF Took

-----------------------------------------------------------------------------
(* Each part of the invariant survives a step of p.                         *)

\* The acceptor neither challenges nor commits.
LEMMA RolesStep ==
    ASSUME Roles, NEW p \in Peers, NEW q \in Peers, p # q, StepOf(p, q)
    PROVE  Roles'
<1>1. contact'[p].state \in {"VALIDATING", "COMMITTING"} => controls'[p]
  BY DEF Roles, StepOf, MakesOffer, Takes, Drops, Accepts, IsAccepted,
      StartsValidation, Echoes, IsProven, Commits, Moves, IsConfirmed, Closes,
      Idles, Enters, Settles, Binds, Becomes
<1>2. contact'[q].state \in {"VALIDATING", "COMMITTING"} => controls'[q]
  BY DEF Roles, StepOf, Stands
<1> QED BY <1>1, <1>2, OtherIsPeer DEF Roles

\* What a contact works on, or completed, its caller has heard of.
LEMMA RefsKnownStep ==
    ASSUME Sound, Sound', RefsKnown,
           NEW p \in Peers, NEW q \in Peers, p # q, StepOf(p, q)
    PROVE  RefsKnown'
<1>1. /\ WellFormed(contact[p]) /\ WellFormed(contact'[p])
      /\ 0 \notin MigrationRefs /\ NoOffer.mig = 0
  BY RefsAssumption DEF Sound, NoOffer
<1>2. /\ MigrationInProgress(contact[p]) => contact[p].pending.mig # 0
      /\ ~MigrationInProgress(contact[p]) => contact[p].pending = NoOffer
  BY <1>1, ContactFields
<1>3. MigrationInProgress(contact'[p]) => contact'[p].pending \in Offers
  BY <1>1, ContactFields
<1>4. NoOffer \notin Offers
  BY <1>1 DEF Offers
<1>5. known[p] \subseteq known'[p]
  BY DEF StepOf, Stands
<1>6. MigrationInProgress(contact'[p]) =>
          contact'[p].pending.mig \in known'[p]
  <2>1. CASE contact'[p].pending = contact[p].pending
    BY <1>1, <1>2, <1>3, <1>4, <1>5, <2>1 DEF RefsKnown
  <2> QED
    BY <1>3, <1>4, <2>1, TransactionStep
    DEF MakesOffer, Takes, Enters, Becomes
<1>7. contact'[p].completed_migration_ref # 0 =>
          /\ contact'[p].completed_migration_ref \in known'[p]
          /\ contact'[p].completed_migration_ref # contact'[p].pending.mig
  <2>1. CASE \E f \in net : Moves(p, f) \/ IsConfirmed(p, f)
    BY <1>1, <1>5, <2>1
    DEF RefsKnown, Moves, IsConfirmed, Settles, Becomes, MigrationInProgress
  <2>2. CASE contact'[p].completed_migration_ref
               = contact[p].completed_migration_ref
    BY <1>1, <1>2, <1>5, <2>2, TransactionStep
    DEF RefsKnown, MakesOffer, Takes, Enters, Becomes
  <2> QED
    BY <2>1, <2>2
    DEF StepOf, MakesOffer, Takes, Drops, Accepts, IsAccepted,
        StartsValidation, Echoes, IsProven, Commits, Closes, Idles, Enters,
        Binds, Becomes
<1>8. /\ MigrationInProgress(contact'[q]) =>
             contact'[q].pending.mig \in known'[q]
      /\ contact'[q].completed_migration_ref # 0 =>
             /\ contact'[q].completed_migration_ref \in known'[q]
             /\ contact'[q].completed_migration_ref # contact'[q].pending.mig
  BY DEF RefsKnown, StepOf, Stands
<1> QED BY <1>6, <1>7, <1>8, OtherIsPeer DEF RefsKnown

\* A caller makes one offer per reference.
LEMMA OffersUniqueStep ==
    ASSUME Sound, NEW p \in Peers, NEW q \in Peers, p # q, StepOf(p, q),
           OffersUnique(p, q), OffersUnique(q, p)
    PROVE  OffersUnique(p, q)' /\ OffersUnique(q, p)'
<1>1. known[p] \subseteq known'[p] /\ known'[q] = known[q]
  BY DEF StepOf, Stands
<1>2. ASSUME NEW o \in Offers, NEW u \in Offers, Says(p, q, o)',
             Says(p, q, u)', u.mig = o.mig
      PROVE  o.mig \in known'[p] /\ u = o
  <2>1. CASE Says(p, q, o) /\ Says(p, q, u)
    BY <1>1, <1>2, <2>1 DEF OffersUnique
  <2>2. CASE MakesOffer(p, o) /\ MakesOffer(p, u)
    BY <2>2 DEF MakesOffer, Enters, Becomes
  <2>3. CASE MakesOffer(p, o) /\ Says(p, q, u)
    BY <1>2, <2>3 DEF MakesOffer, OffersUnique
  <2>4. CASE Says(p, q, o) /\ MakesOffer(p, u)
    BY <1>2, <2>4 DEF MakesOffer, OffersUnique
  <2> QED BY <1>2, <2>1, <2>2, <2>3, <2>4, SaysStep
<1>3. OffersUnique(p, q)'
  BY <1>2 DEF OffersUnique
<1>4. OffersUnique(q, p)'
  BY <1>1, SaysStep DEF OffersUnique
<1> QED BY <1>3, <1>4

\* What taking up an offer leaves unsaid: nothing shows that p made, or q
\* accepted, an offer with this reference, unless q's reference is larger.
LEMMA TakesFacts ==
    ASSUME Sound, NEW p \in Peers, NEW q \in Peers, p # q,
           OffersUnique(p, q), OffersUnique(q, p),
           TakenOnce(p, q), TakenOnce(q, p),
           NEW f \in net, Takes(p, q, f)
    PROVE  LET m == f.offer.mig
           IN  /\ m \in MigrationRefs /\ m \in known[q]
               /\ Offered(q, p, m)
               /\ ~Took(p, q, m) /\ ~Took(q, p, m)
               /\ Offered(p, q, m) =>
                      contact[q].local_ref > contact[p].local_ref
<1> DEFINE m == f.offer.mig
<1>1. f.offer \in Offers /\ m \in MigrationRefs
  BY FrameFields DEF Sound, TypeOK, Takes, Waits, Offers
<1>2. Says(q, p, f.offer) /\ Offered(q, p, m)
  BY DEF Takes, Waits, Says, Offered
<1>3. m \in known[q]
  BY <1>1, <1>2 DEF OffersUnique
<1>4. contact[p].local_ref \in Nat /\ contact[q].local_ref \in Nat
  BY RefsAssumption DEF Sound, TypeOK, Contacts
<1>5. Offered(p, q, m) => \E o \in Offers : Says(p, q, o) /\ o.mig = m
  <2>1. ASSUME Offering(p, m)
        PROVE  \E o \in Offers : Says(p, q, o) /\ o.mig = m
    <3>1. contact[p].pending \in Offers
      BY <1>1, <2>1, RefsAssumption
      DEF Sound, TypeOK, Contacts, Offering, NoOffer
    <3> QED BY <2>1, <3>1 DEF Says, Offering
  <2>2. ASSUME NEW g \in net, g.kind = "OFFER", g.to = q, g.offer.mig = m
        PROVE  \E o \in Offers : Says(p, q, o) /\ o.mig = m
    <3>1. g.offer \in Offers
      BY <2>2, FrameFields DEF Sound, TypeOK
    <3> QED BY <2>2, <3>1 DEF Says
  <2> QED BY <2>1, <2>2 DEF Offered
<1>6. Offered(p, q, m) => m \in known[p]
  BY <1>5 DEF OffersUnique
<1>7. m \in known[p] => /\ Offering(p, m)
                        /\ contact[q].local_ref > contact[p].local_ref
  BY DEF Takes, Offering
<1>8. ~Took(p, q, m)
  BY <1>1, <1>2, <1>4, <1>7 DEF TakenOnce
<1>9. ~Took(q, p, m)
  BY <1>1, <1>7 DEF TakenOnce
<1> QED BY <1>1, <1>2, <1>3, <1>6, <1>7, <1>8, <1>9

\* A reference is taken up by one of the two machines, once.
LEMMA TakenOnceStep ==
    ASSUME Sound, Sound', Roles',
           NEW p \in Peers, NEW q \in Peers, p # q, StepOf(p, q),
           OffersUnique(p, q), OffersUnique(q, p),
           TakenOnce(p, q), TakenOnce(q, p)
    PROVE  TakenOnce(p, q)' /\ TakenOnce(q, p)'
<1>a. /\ known[p] \subseteq known'[p] /\ known'[q] = known[q]
      /\ contact'[q] = contact[q] /\ controls'[q] = controls[q]
  BY DEF StepOf, Stands
<1>b. contact'[p].local_ref = contact[p].local_ref
  BY DEF StepOf, MakesOffer, Takes, Drops, Accepts, IsAccepted,
      StartsValidation, Echoes, IsProven, Commits, Moves, IsConfirmed, Closes,
      Idles, Enters, Settles, Binds, Becomes
<1>1. ASSUME NEW m \in MigrationRefs, Took(p, q, m)'
      PROVE  /\ m \in known'[p] /\ m \in known'[q]
             /\ ~Took(q, p, m)'
             /\ ~Offering(q, m)'
             /\ Offered(q, p, m)' =>
                    contact'[p].local_ref > contact'[q].local_ref
  <2>1. Took(p, q, m)
    BY <1>1, TookStep
  <2>2. ~Took(q, p, m)'
    BY <2>1, TookStep, TakesFacts DEF TakenOnce
  <2> QED
    BY <1>a, <1>b, <2>1, <2>2, OfferedStep DEF TakenOnce, Offering
<1>2. ASSUME NEW m \in MigrationRefs, Took(q, p, m)'
      PROVE  /\ m \in known'[p] /\ m \in known'[q]
             /\ ~Offering(p, m)'
             /\ Offered(p, q, m)' =>
                    contact'[q].local_ref > contact'[p].local_ref
  <2>1. CASE Took(q, p, m)
    <3>1. m \in known[p] /\ m \in known[q] /\ ~Offering(p, m)
      BY <2>1 DEF TakenOnce
    <3>2. ~ \E o \in Offers : MakesOffer(p, o) /\ o.mig = m
      BY <3>1 DEF MakesOffer
    <3>3. ~Offering(p, m)'
      BY <3>1, <3>2, TransactionStep, RefsAssumption
      DEF Offering, MakesOffer, Takes, Enters, Becomes, NoOffer
    <3> QED
      BY <1>a, <1>b, <2>1, <3>1, <3>2, <3>3, OfferedStep DEF TakenOnce
  <2>2. CASE ~Took(q, p, m)
    <3>1. PICK f \in net : Takes(p, q, f) /\ f.offer.mig = m
      BY <1>2, <2>2, TookStep
    <3>2. m \in known'[p] /\ ~Offering(p, m)'
      BY <3>1 DEF Takes, Offering
    <3>3. ~ \E o \in Offers : MakesOffer(p, o)
      BY <3>1 DEF MakesOffer, Takes
    <3>4. Offered(p, q, m)' => Offered(p, q, m)
      BY <3>3, OfferedStep
    <3> QED BY <1>a, <1>b, <3>1, <3>2, <3>4, TakesFacts
  <2> QED BY <2>1, <2>2
<1>3. TakenOnce(p, q)'
  BY <1>1 DEF TakenOnce
<1>4. TakenOnce(q, p)'
  BY <1>1, <1>2 DEF TakenOnce
<1> QED BY <1>3, <1>4

\* A transaction that was taken up is not begun again.
LEMMA PastTransaction ==
    ASSUME Sound, NEW p \in Peers, NEW q \in Peers, p # q, StepOf(p, q),
           OffersUnique(p, q), OffersUnique(q, p),
           TakenOnce(p, q), TakenOnce(q, p),
           NEW m \in MigrationRefs, Took(p, q, m) \/ Took(q, p, m),
           contact'[p].pending.mig = m
    PROVE  /\ contact'[p].pending = contact[p].pending
           /\ controls'[p] = controls[p]
           /\ ~ \E o \in Offers : MakesOffer(p, o)
           /\ ~ \E f \in net : Takes(p, q, f)
<1>1. NoOffer.mig # m
  BY RefsAssumption DEF NoOffer
<1>2. m \in known[p]
  BY DEF TakenOnce
<1>3. ~ \E o \in Offers : MakesOffer(p, o)
  BY <1>2 DEF MakesOffer, Enters, Becomes
<1>4. ASSUME NEW f \in net, Takes(p, q, f)
      PROVE  FALSE
  <2>1. f.offer.mig = m
    BY <1>4 DEF Takes, Enters, Becomes
  <2> QED BY <1>4, <2>1, TakesFacts
<1> QED BY <1>1, <1>3, <1>4, TransactionStep

\* An acceptance shows only once it was made.
LEMMA AgreedIsPastStep ==
    ASSUME Sound, Roles',
           NEW p \in Peers, NEW q \in Peers, p # q, StepOf(p, q),
           OffersUnique(p, q), OffersUnique(q, p),
           TakenOnce(p, q), TakenOnce(q, p),
           AgreedIsPast(p, q), AgreedIsPast(q, p)
    PROVE  AgreedIsPast(p, q)' /\ AgreedIsPast(q, p)'
<1>1. AgreedIsPast(p, q)'
  <2>1. contact'[q] = contact[q]
    BY DEF StepOf, Stands
  <2> QED BY <2>1, AgreedStep DEF AgreedIsPast
<1>2. ASSUME NEW m \in MigrationRefs, Agreed(q, p, m)',
             contact'[p].pending.mig = m
      PROVE  contact'[p].state # "OFFERED"
  <2>1. CASE Agreed(q, p, m)
    <3>1. Took(q, p, m)
      BY <2>1 DEF Took
    <3>2. /\ contact[p].pending.mig = m
          /\ ~ \E o \in Offers : MakesOffer(p, o)
          /\ ~ \E f \in net : Takes(p, q, f)
      BY <1>2, <3>1, PastTransaction
    <3>3. contact[p].state # "OFFERED"
      BY <2>1, <3>2 DEF AgreedIsPast
    <3> QED
      BY <3>2, <3>3
      DEF StepOf, Drops, Accepts, IsAccepted, StartsValidation, Echoes,
          IsProven, Commits, Moves, IsConfirmed, Closes, Idles, Enters,
          Settles, Binds, Becomes
  <2> QED BY <1>2, <2>1, AgreedStep
<1> QED BY <1>1, <1>2 DEF AgreedIsPast

\* A closed contact stays closed; a session once bound lasts as long as the
\* contact.
LEMMA SessionStep ==
    ASSUME Sound, NEW p \in Peers, NEW q \in Peers, StepOf(p, q)
    PROVE  /\ Closed(p) => Closed(p)'
           /\ contact[p].session_ref # 0 =>
                  \/ Closed(p)'
                  \/ contact'[p].session_ref = contact[p].session_ref
<1>1. contact[p].session_valid <=> contact[p].session_ref # 0
  BY ContactFields DEF Sound
<1> QED
  BY <1>1
  DEF Closed, StepOf, MakesOffer, Takes, Drops, Accepts, IsAccepted,
      StartsValidation, Echoes, IsProven, Commits, Moves, IsConfirmed, Closes,
      Idles, Enters, Settles, Binds, Becomes

\* Both machines of a transaction past agreement hold its session.
LEMMA SessionSharedStep ==
    ASSUME Sound, NEW p \in Peers, NEW q \in Peers, p # q, StepOf(p, q),
           SessionShared(p, q), SessionShared(q, p)
    PROVE  SessionShared(p, q)' /\ SessionShared(q, p)'
<1>1. Stands(p, q)
  BY DEF StepOf
<1>2. /\ WellFormed(contact[p]) /\ WellFormed(contact[q])
      /\ 0 \notin Sessions
  BY RefsAssumption DEF Sound
<1>3. SessionShared(p, q)'
  <2>1. ASSUME NEW f \in net', f.kind = "ACCEPT", f.to = p
        PROVE  Closed(q)' \/ contact'[q].session_ref = f.session
    BY <1>1, <2>1 DEF SessionShared, Stands, Sends, Closed
  <2>2. ASSUME controls'[p], MigrationInProgress(contact'[p]),
               contact'[p].state # "OFFERED"
        PROVE  Closed(q)' \/ contact'[q].session_ref = contact'[p].session_ref
    <3>1. CASE \E f \in net : IsAccepted(p, f)
      BY <1>1, <3>1
      DEF SessionShared, Stands, Closed, IsAccepted, Waits, Binds, Becomes
    <3>2. CASE /\ contact'[p].session_ref = contact[p].session_ref
               /\ controls[p] /\ MigrationInProgress(contact[p])
               /\ contact[p].state # "OFFERED"
      BY <1>1, <3>2 DEF SessionShared, Stands, Closed
    <3> QED
      BY <2>2, <3>1, <3>2
      DEF StepOf, MakesOffer, Takes, Drops, Accepts, StartsValidation, Echoes,
          IsProven, Commits, Moves, IsConfirmed, Closes, Idles, Enters,
          Settles, Binds, Becomes, MigrationInProgress
  <2> QED BY <2>1, <2>2 DEF SessionShared
<1>4. SessionShared(q, p)'
  <2>1. ASSUME NEW f \in net', f.kind = "ACCEPT", f.to = q
        PROVE  Closed(p)' \/ contact'[p].session_ref = f.session
    <3>1. CASE f \in net
      <4>1. f.session \in Sessions
        BY <2>1, <3>1, FrameFields DEF Sound, TypeOK
      <4> QED
        BY <1>2, <2>1, <3>1, <4>1, SessionStep DEF SessionShared
    <3>2. CASE f \notin net
      BY <1>1, <2>1, <3>2 DEF Stands, Sends
    <3> QED BY <3>1, <3>2
  <2>2. ASSUME controls'[q], MigrationInProgress(contact'[q]),
               contact'[q].state # "OFFERED"
        PROVE  Closed(p)' \/ contact'[p].session_ref = contact'[q].session_ref
    <3>1. /\ controls[q] /\ MigrationInProgress(contact[q])
          /\ contact[q].state # "OFFERED" /\ contact'[q] = contact[q]
      BY <1>1, <2>2 DEF Stands
    <3>2. contact[q].session_ref # 0
      BY <1>2, <3>1, ContactFields DEF MigrationInProgress
    <3> QED BY <3>1, <3>2, SessionStep DEF SessionShared
  <2> QED BY <2>1, <2>2 DEF SessionShared
<1> QED BY <1>3, <1>4

\* p, VALIDATED for the transaction q controls, stays so or moves.
LEMMA ReadyStep ==
    ASSUME NEW p \in Peers, NEW q \in Peers, p # q, StepOf(p, q),
           TakenOnce(q, p), Ready(q, p),
           contact[q].pending.mig \in MigrationRefs,
           Agreed(q, p, contact[q].pending.mig)
    PROVE  \/ Ready(q, p)'
           \/ \E f \in net : Moves(p, f) /\ f.mig = contact[q].pending.mig
<1> DEFINE m == contact[q].pending.mig
<1>1. ~Offering(p, m)
  BY DEF TakenOnce, Took
<1>2. contact'[q] = contact[q]
  BY DEF StepOf, Stands
<1>3. CASE Closed(p)
  <2>1. Closed(p)'
    BY <1>3
    DEF Closed, StepOf, MakesOffer, Takes, Drops, Accepts, IsAccepted,
        StartsValidation, Echoes, IsProven, Commits, Moves, IsConfirmed,
        Closes, Idles, Enters, Settles, Binds, Becomes
  <2> QED BY <2>1 DEF Ready
<1>4. CASE contact[p].state = "VALIDATED" /\ contact[p].pending.mig = m
  BY <1>1, <1>2, <1>4
  DEF Ready, Closed, Offering, StepOf, MakesOffer, Takes, Drops, Accepts,
      IsAccepted, StartsValidation, Echoes, IsProven, Commits, Moves,
      IsConfirmed, Closes, Idles, Enters, Settles, Binds, Becomes
<1> QED BY <1>3, <1>4 DEF Ready

\* The migration_ref of a frame in the media is one of the transaction's.
LEMMA FrameShows ==
    ASSUME Sound, NEW p \in Peers, NEW q \in Peers, NEW f \in net
    PROVE  /\ f.kind \in {"PATH_RESPONSE", "CONFIRM"} /\ f.to = p =>
                  f.mig \in MigrationRefs /\ Agreed(p, q, f.mig)
           /\ f.kind \in {"PATH_CHALLENGE", "COMMIT"} /\ f.to = q =>
                  f.mig \in MigrationRefs /\ Agreed(p, q, f.mig)
  BY FrameFields DEF Sound, TypeOK, Agreed

\* Nothing a VALIDATED acceptor does unsettles a controller that has not
\* sent COMMIT.
LEMMA ResponseIsReadyStep ==
    ASSUME Sound, NEW p \in Peers, NEW q \in Peers, p # q, StepOf(p, q),
           PairInv(p, q), PairInv(q, p)
    PROVE  ResponseIsReady(p, q)' /\ ResponseIsReady(q, p)'
<1>a. /\ OffersUnique(p, q) /\ OffersUnique(q, p)
      /\ TakenOnce(p, q) /\ TakenOnce(q, p)
      /\ ResponseIsReady(p, q) /\ ResponseIsReady(q, p)
      /\ CommitUnderWay(q, p)
  BY DEF PairInv
<1>b. /\ contact'[q] = contact[q] /\ controls'[q] = controls[q]
      /\ Sends(p, q)
  BY DEF StepOf, Stands
<1>c. NoOffer.mig \notin MigrationRefs
  BY RefsAssumption DEF NoOffer
<1>1. ASSUME NEW f \in net', f.kind = "PATH_RESPONSE", f.to = p,
             contact'[p].pending.mig = f.mig, contact'[p].state # "COMMITTING"
      PROVE  Ready(p, q)'
  <2>1. f \in net
    BY <1>1, <1>b DEF Sends
  <2>2. f.mig \in MigrationRefs /\ Took(p, q, f.mig)
    BY <1>1, <2>1, FrameShows DEF Took
  <2>3. contact'[p].pending = contact[p].pending
    BY <1>1, <1>a, <2>2, PastTransaction
  <2>4. contact[p].state # "COMMITTING"
    BY <1>1, <1>c, <2>2
    DEF StepOf, MakesOffer, Takes, Drops, Accepts, IsAccepted,
        StartsValidation, Echoes, IsProven, Commits, Moves, IsConfirmed,
        Closes, Idles, Enters, Settles, Binds, Becomes
  <2> QED
    BY <1>1, <1>a, <1>b, <2>1, <2>3, <2>4 DEF ResponseIsReady, Ready, Closed
<1>2. ASSUME controls'[p], contact'[p].state = "VALIDATED"
      PROVE  Ready(p, q)'
  <2>1. ASSUME NEW f \in net, IsProven(p, f)
        PROVE  Ready(p, q)'
    <3>1. Ready(p, q) /\ contact'[p].pending = contact[p].pending
      BY <1>a, <2>1 DEF IsProven, Waits, ResponseIsReady, Enters, Becomes
    <3> QED BY <1>b, <3>1 DEF Ready, Closed
  <2>2. ASSUME NEW f \in net, Echoes(p, f)
        PROVE  FALSE
    <3>1. Took(q, p, f.mig) /\ f.mig \in MigrationRefs
      BY <2>2, FrameShows DEF Echoes, Waits, Took
    <3> QED BY <1>2, <1>a, <2>2, <3>1 DEF TakenOnce, Offering, Echoes
  <2>3. CASE Idles(p)
    BY <1>2, <1>a, <1>b, <2>3 DEF Idles, ResponseIsReady, Ready, Closed
  <2> QED
    BY <1>2, <2>1, <2>2, <2>3
    DEF StepOf, MakesOffer, Takes, Drops, Accepts, IsAccepted,
        StartsValidation, Commits, Moves, IsConfirmed, Closes, Enters,
        Settles, Binds, Becomes
\* q has not sent COMMIT, so p does not move.
<1>3. ASSUME Ready(q, p), contact[q].pending.mig \in MigrationRefs,
             Agreed(q, p, contact[q].pending.mig), ~Committing(q)
      PROVE  Ready(q, p)'
  <2>1. ~ \E f \in net : Moves(p, f) /\ f.mig = contact[q].pending.mig
    BY <1>3, <1>a DEF Moves, Waits, CommitUnderWay
  <2> QED BY <1>3, <1>a, <2>1, ReadyStep
<1>4. ASSUME NEW f \in net', f.kind = "PATH_RESPONSE", f.to = q,
             contact'[q].pending.mig = f.mig, contact'[q].state # "COMMITTING"
      PROVE  Ready(q, p)'
  <2>1. CASE f \in net
    <3>1. f.mig \in MigrationRefs /\ Agreed(q, p, f.mig)
      BY <1>4, <2>1, FrameShows
    <3>2. Ready(q, p) /\ ~Committing(q)
      BY <1>4, <1>a, <1>b, <2>1 DEF ResponseIsReady, Committing
    <3> QED BY <1>4, <1>b, <1>3, <3>1, <3>2
  <2>2. CASE f \notin net
    BY <1>4, <1>b, <2>2 DEF Sends, Ready
  <2> QED BY <2>1, <2>2
<1>5. ASSUME controls'[q], contact'[q].state = "VALIDATED"
      PROVE  Ready(q, p)'
  <2>1. contact[q].pending.mig \in MigrationRefs
    BY <1>5, <1>b, ContactFields DEF Sound, MigrationInProgress
  <2>2. Agreed(q, p, contact[q].pending.mig)
    BY <1>5, <1>b DEF Agreed, Offering
  <2> QED
    BY <1>5, <1>a, <1>b, <1>3, <2>1, <2>2 DEF ResponseIsReady, Committing
<1> QED BY <1>1, <1>2, <1>4, <1>5 DEF ResponseIsReady

\* The sender of a COMMIT waits until it is answered.
LEMMA CommitUnderWayStep ==
    ASSUME Sound, Roles', NEW p \in Peers, NEW q \in Peers, p # q,
           StepOf(p, q), PairInv(p, q), PairInv(q, p)
    PROVE  CommitUnderWay(p, q)' /\ CommitUnderWay(q, p)'
<1>a. /\ OffersUnique(p, q) /\ OffersUnique(q, p)
      /\ TakenOnce(p, q) /\ TakenOnce(q, p)
      /\ CommitUnderWay(p, q) /\ CommitUnderWay(q, p)
      /\ ConfirmIsFinal(p, q)
  BY DEF PairInv
<1>b. contact'[q] = contact[q] /\ Sends(p, q)
  BY DEF StepOf, Stands
<1>c. NoOffer.mig \notin MigrationRefs
  BY RefsAssumption DEF NoOffer
<1>1. ASSUME NEW f \in net', f.kind = "COMMIT", f.to = q
      PROVE  /\ contact'[p].pending.mig = f.mig => Committing(p)'
             /\ contact'[q].pending.mig = f.mig =>
                    \/ Closed(p)'
                    \/ Committing(p)' /\ contact'[p].pending.mig = f.mig
  <2>1. CASE f \notin net
    BY <1>1, <1>b, <2>1 DEF Sends, Committing
  <2>2. CASE f \in net
    <3>1. f.mig \in MigrationRefs /\ Took(p, q, f.mig)
      BY <1>1, <2>2, FrameShows DEF Took
    <3>2. contact'[p].pending.mig = f.mig => Committing(p)'
      <4>1. SUFFICES ASSUME contact'[p].pending.mig = f.mig
                     PROVE  Committing(p)'
        OBVIOUS
      <4>2. contact[p].pending.mig = f.mig
        BY <1>a, <3>1, <4>1, PastTransaction
      <4>3. Committing(p)
        BY <1>1, <1>a, <2>2, <4>2 DEF CommitUnderWay
      <4> QED
        BY <1>c, <3>1, <4>1, <4>3
        DEF Committing, StepOf, MakesOffer, Takes, Drops, Accepts, IsAccepted,
            StartsValidation, Echoes, IsProven, Commits, Moves, IsConfirmed,
            Closes, Idles, Enters, Settles, Binds, Becomes
    <3>3. ASSUME contact'[q].pending.mig = f.mig
          PROVE  \/ Closed(p)'
                 \/ Committing(p)' /\ contact'[p].pending.mig = f.mig
      <4>1. \/ Closed(p)
            \/ Committing(p) /\ contact[p].pending.mig = f.mig
        BY <1>1, <1>a, <1>b, <2>2, <3>3 DEF CommitUnderWay
      <4>2. CASE Closed(p)
        BY <4>2, SessionStep
      <4>3. CASE Committing(p) /\ contact[p].pending.mig = f.mig
        <5>1. ~ \E g \in net : IsConfirmed(p, g)
          BY <1>a, <1>b, <3>3, <4>3 DEF IsConfirmed, Waits, ConfirmIsFinal
        <5> QED
          BY <4>3, <5>1
          DEF Closed, Committing, StepOf, MakesOffer, Takes, Drops, Accepts,
              IsAccepted, StartsValidation, Echoes, IsProven, Commits, Moves,
              Closes, Idles, Enters, Settles, Binds, Becomes
      <4> QED BY <4>1, <4>2, <4>3
    <3> QED BY <3>2, <3>3
  <2> QED BY <2>1, <2>2
<1>2. ASSUME NEW f \in net', f.kind = "COMMIT", f.to = p
      PROVE  /\ contact'[q].pending.mig = f.mig => Committing(q)'
             /\ contact'[p].pending.mig = f.mig =>
                    \/ Closed(q)'
                    \/ Committing(q)' /\ contact'[q].pending.mig = f.mig
  <2>1. f \in net
    BY <1>2, <1>b DEF Sends
  <2>2. f.mig \in MigrationRefs /\ Took(q, p, f.mig)
    BY <1>2, <2>1, FrameShows DEF Took
  <2>3. contact'[p].pending.mig = f.mig => contact[p].pending.mig = f.mig
    BY <1>a, <2>2, PastTransaction
  <2> QED
    BY <1>2, <1>a, <1>b, <2>1, <2>3 DEF CommitUnderWay, Committing, Closed
<1> QED BY <1>1, <1>2 DEF CommitUnderWay

\* A confirmed migration is not begun again.
LEMMA ConfirmIsFinalStep ==
    ASSUME Sound, Sound', NEW p \in Peers, NEW q \in Peers, p # q,
           StepOf(p, q), PairInv(p, q), PairInv(q, p)
    PROVE  ConfirmIsFinal(p, q)' /\ ConfirmIsFinal(q, p)'
<1>a. /\ OffersUnique(p, q) /\ OffersUnique(q, p)
      /\ TakenOnce(p, q) /\ TakenOnce(q, p)
      /\ ConfirmIsFinal(p, q) /\ ConfirmIsFinal(q, p)
  BY DEF PairInv
<1>b. contact'[q] = contact[q] /\ Sends(p, q)
  BY DEF StepOf, Stands
<1>1. ConfirmIsFinal(p, q)'
  BY <1>a, <1>b DEF ConfirmIsFinal, Sends
<1>2. ASSUME NEW f \in net', f.kind = "CONFIRM", f.to = q
      PROVE  contact'[p].pending.mig # f.mig
  <2>1. CASE f \in net
    <3>1. f.mig \in MigrationRefs /\ Took(q, p, f.mig)
      BY <1>2, <2>1, FrameShows DEF Took
    <3>2. contact'[p].pending.mig = f.mig => contact[p].pending.mig = f.mig
      BY <1>a, <3>1, PastTransaction
    <3> QED BY <1>2, <1>a, <2>1, <3>2 DEF ConfirmIsFinal
  <2>2. CASE f \notin net
    <3>1. contact'[p].state = "ACTIVE"
      BY <1>2, <1>b, <2>2 DEF Sends
    <3>2. contact'[p].pending = NoOffer
      <4>1. WellFormed(contact'[p])
        BY DEF Sound
      <4> QED BY <3>1, <4>1, ContactFields DEF MigrationInProgress
    <3>3. f.mig \in MigrationRefs
      BY <1>2, FrameFields DEF Sound, TypeOK
    <3> QED BY <3>2, <3>3, RefsAssumption DEF NoOffer
  <2> QED BY <2>1, <2>2
<1> QED BY <1>1, <1>2 DEF ConfirmIsFinal

\* An acceptor works on the very offer its controller made.
LEMMA SameOffer ==
    ASSUME Sound, NEW p \in Peers, NEW q \in Peers, p # q,
           OffersUnique(q, p), TakenOnce(q, p),
           NEW m \in MigrationRefs, Agreed(q, p, m), controls[q],
           contact[p].pending.mig = m, contact[q].pending.mig = m
    PROVE  contact[p].pending = contact[q].pending /\ ~controls[p]
<1>1. ~controls[p]
  BY DEF TakenOnce, Took, Offering
<1>2. contact[p].pending \in Offers /\ contact[q].pending \in Offers
  BY RefsAssumption DEF Sound, TypeOK, Contacts, NoOffer
<1>3. Says(q, p, contact[p].pending) /\ Says(q, p, contact[q].pending)
  BY <1>1 DEF Says
<1> QED BY <1>1, <1>2, <1>3 DEF OffersUnique

\* A COMMIT that moves p was sent by a controller that waits for the answer.
LEMMA MovesFacts ==
    ASSUME Sound, Roles, NEW p \in Peers, NEW q \in Peers, p # q,
           PairInv(q, p), NEW f \in net, Moves(p, f)
    PROVE  \/ Closed(q)
           \/ /\ Committing(q)
              /\ contact[p].pending = contact[q].pending
              /\ ~controls[p]
<1>1. f.mig \in MigrationRefs /\ Agreed(q, p, f.mig)
  BY FrameShows DEF Moves, Waits
<1>2. \/ Closed(q)
      \/ Committing(q) /\ contact[q].pending.mig = f.mig
  BY DEF PairInv, CommitUnderWay, Moves, Waits
<1>3. Committing(q) => controls[q]
  BY DEF Roles, Committing
<1> QED BY <1>1, <1>2, <1>3, SameOffer DEF PairInv, Moves

\* A CONFIRM that releases p came from a peer that moved.
LEMMA ConfirmFacts ==
    ASSUME NEW p \in Peers, NEW q \in Peers, p # q,
           PairInv(p, q), NEW f \in net, IsConfirmed(p, f)
    PROVE  \/ Closed(q)
           \/ /\ Completed(q, contact[p].pending.mig)
              /\ contact[q].active_transport = contact[p].pending.transport
  BY DEF PairInv, CommitAnswered, ConfirmIsFinal, Ready, Committing,
         IsConfirmed, Waits

\* A controller that waits keeps a peer that can answer.
LEMMA CommitAnsweredStep ==
    ASSUME Sound, Roles, RefsKnown,
           NEW p \in Peers, NEW q \in Peers, p # q,
           StepOf(p, q), PairInv(p, q), PairInv(q, p)
    PROVE  CommitAnswered(p, q)' /\ CommitAnswered(q, p)'
<1>a. /\ OffersUnique(q, p) /\ TakenOnce(q, p)
      /\ ResponseIsReady(p, q) /\ CommitUnderWay(q, p)
      /\ CommitAnswered(p, q) /\ CommitAnswered(q, p)
  BY DEF PairInv
<1>b. contact'[q] = contact[q] /\ controls'[q] = controls[q]
  BY DEF StepOf, Stands
<1>1. CommitAnswered(p, q)'
  <2>1. CASE Commits(p)
    <3>1. Ready(p, q) /\ contact'[p].pending = contact[p].pending
      BY <1>a, <2>1 DEF Commits, ResponseIsReady, Enters, Becomes
    <3> QED BY <1>b, <3>1 DEF CommitAnswered, Ready, Closed
  <2>2. CASE Idles(p)
    BY <1>a, <1>b, <2>2
    DEF Idles, CommitAnswered, Ready, Closed, Committing, Completed
  <2>3. CASE contact'[p].state # "COMMITTING"
    BY <2>3 DEF CommitAnswered, Committing
  <2> QED
    BY <2>1, <2>2, <2>3
    DEF StepOf, MakesOffer, Takes, Drops, Accepts, IsAccepted,
        StartsValidation, Echoes, IsProven, Moves, IsConfirmed, Closes,
        Enters, Settles, Binds, Becomes
<1>2. ASSUME Committing(q)
      PROVE  \/ Ready(q, p)'
             \/ /\ Completed(p, contact[q].pending.mig)'
                /\ contact'[p].active_transport = contact[q].pending.transport
                /\ ~Committing(p)'
  <2> DEFINE m == contact[q].pending.mig
  <2>1. m \in MigrationRefs /\ Agreed(q, p, m)
    <3>1. controls[q]
      BY <1>2 DEF Roles, Committing
    <3>2. WellFormed(contact[q])
      BY DEF Sound
    <3> QED
      BY <1>2, <3>1, <3>2, ContactFields
      DEF Committing, MigrationInProgress, Agreed, Offering
  <2>2. CASE Ready(q, p)
    <3>1. ASSUME NEW f \in net, Moves(p, f), f.mig = m
          PROVE  /\ Completed(p, contact[q].pending.mig)'
                 /\ contact'[p].active_transport = contact[q].pending.transport
                 /\ ~Committing(p)'
      <4>1. contact[p].pending = contact[q].pending
        BY <1>2, <3>1, MovesFacts DEF Closed, Committing
      <4> QED
        BY <1>b, <3>1, <4>1
        DEF Moves, Settles, Becomes, Completed, Committing
    <3> QED BY <1>a, <2>1, <2>2, <3>1, ReadyStep
  <2>3. CASE /\ Completed(p, m)
             /\ contact[p].active_transport = contact[q].pending.transport
             /\ ~Committing(p)
    <3>1. ASSUME NEW f \in net, Moves(p, f)
          PROVE  FALSE
      <4>1. contact[p].pending.mig = m
        BY <1>2, <3>1, MovesFacts DEF Closed, Committing
      <4> QED BY <2>1, <2>3, <4>1, RefsAssumption DEF RefsKnown, Completed
    <3>2. ~Commits(p)
      BY <1>2, <1>a
      DEF Commits, ResponseIsReady, Ready, Closed, Committing
    <3>3. ~ \E f \in net : IsConfirmed(p, f)
      BY <2>3 DEF IsConfirmed, Committing
    <3>4. /\ Completed(p, m)'
          /\ contact'[p].active_transport = contact[p].active_transport
          /\ contact'[p].state # "COMMITTING"
      BY <1>b, <2>3, <3>1, <3>2, <3>3
      DEF Completed, Committing, StepOf, MakesOffer, Takes, Drops, Accepts,
          IsAccepted, StartsValidation, Echoes, IsProven, Closes, Idles,
          Enters, Binds, Becomes
    <3> QED BY <1>b, <2>3, <3>4 DEF Committing
  <2> QED BY <1>2, <1>a, <2>2, <2>3 DEF CommitAnswered
<1>3. CommitAnswered(q, p)'
  BY <1>2, <1>b DEF CommitAnswered, Committing
<1> QED BY <1>1, <1>3

\* What crossed stays crossed, and nothing else counts as proof.
LEMMA PathCrossedStep ==
    ASSUME Sound, NEW p \in Peers, NEW q \in Peers, p # q,
           StepOf(p, q), PairInv(p, q), PairInv(q, p)
    PROVE  PathCrossed(p, q)' /\ PathCrossed(q, p)'
<1>a. /\ TakenOnce(q, p) /\ PathCrossed(p, q) /\ PathCrossed(q, p)
  BY DEF PairInv
<1>b. /\ contact'[q] = contact[q] /\ controls'[q] = controls[q]
      /\ crossed \subseteq crossed' /\ Sends(p, q)
  BY DEF StepOf, Stands
<1>1. ASSUME NEW f \in net', f.kind = "PATH_RESPONSE", f.to = p
      PROVE  <<q, f.mig, f.via>> \in crossed'
  BY <1>1, <1>a, <1>b DEF PathCrossed, Sends
<1>2. ASSUME contact'[p].state \in {"VALIDATED", "COMMITTING"}
      PROVE  LET m == contact'[p].pending.mig
                 t == contact'[p].pending.transport
             IN  /\ <<p, m, t>> \in crossed'
                 /\ controls'[p] => <<q, m, t>> \in crossed'
  <2>1. ASSUME NEW f \in net, Echoes(p, f)
        PROVE  /\ <<p, contact'[p].pending.mig, contact'[p].pending.transport>>
                      \in crossed'
               /\ ~controls'[p]
    <3>1. Took(q, p, f.mig) /\ f.mig \in MigrationRefs
      BY <2>1, FrameShows DEF Echoes, Waits, Took
    <3> QED
      BY <1>a, <2>1, <3>1 DEF TakenOnce, Offering, Echoes, Enters, Becomes
  <2>2. ASSUME NEW f \in net, IsProven(p, f)
        PROVE  LET m == contact'[p].pending.mig
                   t == contact'[p].pending.transport
               IN  <<p, m, t>> \in crossed' /\ <<q, m, t>> \in crossed'
    BY <1>a, <1>b, <2>2 DEF IsProven, Waits, PathCrossed, Enters, Becomes
  <2>3. CASE /\ contact[p].state \in {"VALIDATED", "COMMITTING"}
             /\ contact'[p].pending = contact[p].pending
             /\ controls'[p] = controls[p]
    BY <1>a, <1>b, <2>3 DEF PathCrossed
  <2> QED
    BY <1>2, <2>1, <2>2, <2>3
    DEF StepOf, MakesOffer, Takes, Drops, Accepts, IsAccepted,
        StartsValidation, Commits, Moves, IsConfirmed, Closes, Idles, Enters,
        Settles, Binds, Becomes
<1>3. ASSUME NEW f \in net', f.kind = "PATH_RESPONSE", f.to = q
      PROVE  <<p, f.mig, f.via>> \in crossed'
  BY <1>3, <1>2, <1>a, <1>b DEF PathCrossed, Sends
<1>4. PathCrossed(p, q)'
  BY <1>1, <1>2 DEF PathCrossed
<1>5. PathCrossed(q, p)'
  BY <1>3, <1>a, <1>b DEF PathCrossed
<1> QED BY <1>4, <1>5

\* p is quiesced, committing to the transport q moved to.
Behind(p, q) ==
    /\ Quiesced(contact[p])
    /\ Completed(q, contact[p].pending.mig)
    /\ contact[q].active_transport = contact[p].pending.transport

\* OneCarrier, for one machine and its peer.
Carried(p, q) ==
    \/ Closed(p) \/ Closed(q)
    \/ contact[p].active_transport = contact[q].active_transport
    \/ Behind(p, q) \/ Behind(q, p)

\* The carriers part only while one machine is committing, and meet again.
LEMMA CarriedStep ==
    ASSUME Sound, Roles, NEW p \in Peers, NEW q \in Peers, p # q,
           StepOf(p, q), PairInv(p, q), PairInv(q, p), Carried(p, q)
    PROVE  Carried(p, q)'
<1>b. contact'[q] = contact[q]
  BY DEF StepOf, Stands
<1>1. ASSUME NEW f \in net, Moves(p, f)
      PROVE  Carried(p, q)'
  <2>1. CASE Closed(q)
    BY <1>b, <2>1 DEF Carried, Closed
  <2>2. CASE Committing(q) /\ contact[p].pending = contact[q].pending
    BY <1>b, <1>1, <2>2
    DEF Carried, Behind, Quiesced, Completed, Committing, Moves, Settles,
        Becomes
  <2> QED BY <1>1, <2>1, <2>2, MovesFacts
<1>2. ASSUME NEW f \in net, IsConfirmed(p, f)
      PROVE  Carried(p, q)'
  BY <1>b, <1>2, ConfirmFacts
  DEF Carried, Closed, IsConfirmed, Settles, Becomes
<1>3. CASE Closes(p)
  BY <1>3 DEF Closes, Becomes, Carried, Closed
<1>4. CASE Idles(p)
  BY <1>b, <1>4
  DEF Idles, Carried, Closed, Behind, Quiesced, Completed
<1>5. CASE /\ contact[p].state \notin {"COMMITTING", "CLOSED"}
           /\ contact'[p].active_transport = contact[p].active_transport
           /\ contact'[p].completed_migration_ref
                  = contact[p].completed_migration_ref
  BY <1>b, <1>5 DEF Carried, Closed, Behind, Quiesced, Completed
<1> QED
  BY <1>1, <1>2, <1>3, <1>4, <1>5
  DEF StepOf, MakesOffer, Takes, Drops, Accepts, IsAccepted, StartsValidation,
      Echoes, IsProven, Commits, Enters, Binds, Becomes

\* OneCarrier is Carried, for either machine.
LEMMA OneCarrierIsCarried ==
    OneCarrier <=> \A p, q \in Peers : p # q => Carried(p, q)
<1>1. ASSUME OneCarrier, NEW p \in Peers, NEW q \in Peers, p # q
      PROVE  Carried(p, q)
  BY <1>1, OtherIsPeer DEF OneCarrier, Carried, Behind
<1>2. ASSUME \A p, q \in Peers : p # q => Carried(p, q)
      PROVE  OneCarrier
  <2>1. ASSUME NEW p \in Peers
        PROVE  Carried(p, Other(p))
    BY <1>2, OtherInPeers
  <2> QED BY <2>1 DEF OneCarrier, Carried, Behind
<1> QED BY <1>1, <1>2

-----------------------------------------------------------------------------
(* The invariant holds. *)

\* Two machines that just met have made, taken up and moved nothing.
LEMMA InitIInv == Init => IInv
<1> SUFFICES ASSUME Init PROVE IInv
  OBVIOUS
<1>1. Sound
  BY InitSound
<1>2. PICK ref \in [Peers -> LocalRefs] :
          contact = [p \in Peers |-> Begin(Cleared, ref[p], FirstTransport)]
  BY DEF Init
<1>3. FirstTransport # 0
  BY PeersAssumption, RefsAssumption
<1>4. ASSUME NEW p \in Peers
      PROVE  /\ contact[p].state = "ACTIVE" /\ contact[p].pending = NoOffer
             /\ contact[p].active_transport = FirstTransport
             /\ contact[p].completed_migration_ref = 0
             /\ ~controls[p]
  BY <1>2, <1>3 DEF Init, Begin, BeginStatus, After, Cleared
<1>5. NoOffer \notin Offers /\ NoOffer.mig \notin MigrationRefs
  BY RefsAssumption DEF NoOffer, Offers
<1>6. net = {}
  BY DEF Init
<1>7. Roles /\ RefsKnown
  BY <1>4 DEF Roles, RefsKnown, MigrationInProgress
<1>8. ASSUME NEW p \in Peers, NEW q \in Peers, p # q
      PROVE  PairInv(p, q) /\ Carried(p, q)
  <2>1. OffersUnique(p, q)
    BY <1>4, <1>5, <1>6 DEF OffersUnique, Says
  <2>2. TakenOnce(p, q) /\ AgreedIsPast(p, q)
    BY <1>4, <1>5, <1>6
    DEF TakenOnce, AgreedIsPast, Took, Agreed, Accepting, Offering
  <2>3. SessionShared(p, q) /\ ResponseIsReady(p, q) /\ CommitUnderWay(p, q)
    BY <1>4, <1>6 DEF SessionShared, ResponseIsReady, CommitUnderWay
  <2>4. ConfirmIsFinal(p, q) /\ CommitAnswered(p, q) /\ PathCrossed(p, q)
    BY <1>4, <1>6 DEF ConfirmIsFinal, CommitAnswered, PathCrossed, Committing
  <2>5. Carried(p, q)
    BY <1>4 DEF Carried
  <2> QED BY <2>1, <2>2, <2>3, <2>4, <2>5 DEF PairInv
<1> QED BY <1>1, <1>7, <1>8, OneCarrierIsCarried DEF IInv

\* A step of p keeps the invariant, for p and for its peer.
LEMMA StepIInv ==
    ASSUME IInv, Sound', NEW p \in Peers, NEW q \in Peers, p # q, StepOf(p, q)
    PROVE  IInv'
<1>a. Sound /\ Roles /\ RefsKnown /\ PairInv(p, q) /\ PairInv(q, p)
  BY DEF IInv
<1>b. /\ OffersUnique(p, q) /\ TakenOnce(p, q) /\ AgreedIsPast(p, q)
      /\ SessionShared(p, q)
      /\ OffersUnique(q, p) /\ TakenOnce(q, p) /\ AgreedIsPast(q, p)
      /\ SessionShared(q, p)
  BY <1>a DEF PairInv
<1>1. Roles' /\ RefsKnown'
  BY <1>a, RolesStep, RefsKnownStep
<1>2. OffersUnique(p, q)' /\ OffersUnique(q, p)'
  BY <1>a, <1>b, OffersUniqueStep
<1>3. TakenOnce(p, q)' /\ TakenOnce(q, p)'
  BY <1>a, <1>b, <1>1, TakenOnceStep
<1>4. AgreedIsPast(p, q)' /\ AgreedIsPast(q, p)'
  BY <1>a, <1>b, <1>1, AgreedIsPastStep
<1>5. SessionShared(p, q)' /\ SessionShared(q, p)'
  BY <1>a, <1>b, SessionSharedStep
<1>6. ResponseIsReady(p, q)' /\ ResponseIsReady(q, p)'
  BY <1>a, ResponseIsReadyStep
<1>7. CommitUnderWay(p, q)' /\ CommitUnderWay(q, p)'
  BY <1>a, <1>1, CommitUnderWayStep
<1>8. ConfirmIsFinal(p, q)' /\ ConfirmIsFinal(q, p)'
  BY <1>a, ConfirmIsFinalStep
<1>9. CommitAnswered(p, q)' /\ CommitAnswered(q, p)'
  BY <1>a, CommitAnsweredStep
<1>10. PathCrossed(p, q)' /\ PathCrossed(q, p)'
  BY <1>a, PathCrossedStep
<1>11. PairInv(p, q)' /\ PairInv(q, p)'
  BY <1>2, <1>3, <1>4, <1>5, <1>6, <1>7, <1>8, <1>9, <1>10 DEF PairInv
<1>12. Carried(p, q)' /\ Carried(q, p)'
  <2>1. Carried(p, q)
    BY OneCarrierIsCarried DEF IInv
  <2>2. Carried(p, q)'
    BY <1>a, <2>1, CarriedStep
  <2> QED BY <2>2 DEF Carried
<1>13. Peers = {p, q}
  BY OtherIsPeer
<1>14. OneCarrier'
  <2>1. ASSUME NEW r \in Peers
        PROVE  Carried(r, Other(r))'
    BY <1>12, <1>13, OtherInPeers
  <2> QED BY <2>1 DEF OneCarrier, Carried, Behind
<1>15. \A a, b \in Peers : a # b => PairInv(a, b)'
  BY <1>11, <1>13
<1> QED BY <1>1, <1>14, <1>15 DEF IInv

\* The machines, the media and the callers' memory stay in the relation IInv
\* states, step by step.
LEMMA NextIInv ==
    ASSUME RemembersOffers, AcceptorWaits
    PROVE  IInv /\ [Next]_vars => IInv'
<1> SUFFICES ASSUME IInv, [Next]_vars PROVE IInv'
  OBVIOUS
<1>1. Sound /\ Sound'
  BY SoundStep DEF IInv
<1>2. PICK p \in Peers, q \in Peers : p # q /\ StepOf(p, q)
  BY <1>1, DutifulStep
<1> QED BY <1>1, <1>2, StepIInv

\* The invariant holds in every reachable state.
LEMMA AlwaysIInv ==
    ASSUME RemembersOffers, AcceptorWaits
    PROVE  Spec => []IInv
<1>1. IInv /\ [Next]_vars => IInv'
  BY NextIInv
<1> QED BY <1>1, InitIInv, PTL DEF Spec

\* Two machines that hold the contact have it on one transport, or one of them
\* is quiesced behind the other under the same migration_ref.
THEOREM CarrierSafe ==
    ASSUME RemembersOffers, AcceptorWaits
    PROVE  Spec => []OneCarrier
<1>1. IInv => OneCarrier
  BY DEF IInv
<1> QED BY <1>1, AlwaysIInv, PTL

\* Whoever sent COMMIT waits for a peer that commit_accept will move or that
\* commit_repeat can answer: the machines cannot strand each other.
THEOREM CommitSafe ==
    ASSUME RemembersOffers, AcceptorWaits
    PROVE  Spec => []CommitIsAnswerable
<1>1. IInv => CommitIsAnswerable
  <2> SUFFICES ASSUME IInv, NEW p \in Peers, Committing(p),
                      NEW q \in Peers, q = Other(p)
               PROVE  \/ Closed(q)
                      \/ /\ contact[q].state = "VALIDATED"
                         /\ contact[q].pending = contact[p].pending
                         /\ contact[q].session_ref = contact[p].session_ref
                      \/ /\ Completed(q, contact[p].pending.mig)
                         /\ ~Committing(q)
    BY OtherInPeers DEF CommitIsAnswerable
  <2>1. p # q /\ PairInv(p, q)
    BY OtherInPeers DEF IInv
  <2>2. controls[p] /\ WellFormed(contact[p]) /\ Sound
    BY DEF IInv, Sound, Roles, Committing
  <2>3. /\ contact[p].pending.mig \in MigrationRefs
        /\ Agreed(p, q, contact[p].pending.mig)
    BY <2>2, ContactFields
    DEF Committing, MigrationInProgress, Agreed, Offering
  <2>4. Closed(q) \/ contact[q].session_ref = contact[p].session_ref
    BY <2>1, <2>2
    DEF PairInv, SessionShared, Committing, MigrationInProgress
  <2>5. CASE /\ contact[q].state = "VALIDATED"
             /\ contact[q].pending.mig = contact[p].pending.mig
    <3>1. contact[q].pending = contact[p].pending
      BY <2>1, <2>2, <2>3, <2>5, SameOffer DEF PairInv
    <3> QED BY <2>4, <2>5, <3>1
  <2> QED BY <2>1, <2>5 DEF PairInv, CommitAnswered, Ready
<1> QED BY <1>1, AlwaysIInv, PTL

\* Two machines past the offer of one migration have one controller, whichever
\* offers crossed and whichever references they drew.
THEOREM ControllerUnique ==
    ASSUME RemembersOffers, AcceptorWaits
    PROVE  Spec => []OneController
<1>1. IInv => OneController
  <2> DEFINE past == {"AGREED", "VALIDATING", "VALIDATED", "COMMITTING"}
  <2> SUFFICES ASSUME IInv, NEW p \in Peers, NEW q \in Peers, q = Other(p),
                      contact[p].state \in past, contact[q].state \in past,
                      contact[p].pending = contact[q].pending
               PROVE  controls[p] # controls[q]
    BY OtherInPeers DEF OneController
  <2>1. p # q /\ PairInv(p, q) /\ PairInv(q, p) /\ WellFormed(contact[p])
    BY OtherInPeers DEF IInv, Sound
  <2> DEFINE m == contact[p].pending.mig
  <2>2. m \in MigrationRefs
    BY <2>1, ContactFields DEF MigrationInProgress
  <2>3. TakenOnce(p, q)
    BY <2>1 DEF PairInv
  <2>4. controls[p] => Took(p, q, m) /\ ~Offering(q, m)
    BY <2>2, <2>3 DEF Took, Agreed, Offering, TakenOnce
  <2>5. ~controls[q] => Took(p, q, m) /\ ~Took(q, p, m)
    BY <2>2, <2>3 DEF Took, Accepting, TakenOnce
  <2>6. ~controls[p] => Took(q, p, m)
    BY DEF Took, Accepting
  <2>7. controls[q] => Offering(q, m)
    BY DEF Offering
  <2>8. ~(controls[p] /\ controls[q]) /\ (controls[p] \/ controls[q])
    BY <2>4, <2>5, <2>6, <2>7
  <2> QED BY <2>8
<1> QED BY <1>1, AlwaysIInv, PTL

\* The controller holds the path proven only after a challenge crossed the
\* candidate to the peer and its echo crossed it back, in this transaction.
THEOREM PathSafe ==
    ASSUME RemembersOffers, AcceptorWaits
    PROVE  Spec => []PathProven
<1>1. IInv => PathProven
  <2> SUFFICES ASSUME IInv, NEW p \in Peers, controls[p],
                      contact[p].state \in {"VALIDATED", "COMMITTING"}
               PROVE  {<<Other(p), contact[p].pending.mig,
                         contact[p].pending.transport>>,
                       <<p, contact[p].pending.mig,
                         contact[p].pending.transport>>} \subseteq crossed
    BY DEF PathProven
  <2>1. PathCrossed(p, Other(p))
    BY OtherInPeers DEF IInv, PairInv
  <2> QED BY <2>1 DEF PathCrossed
<1> QED BY <1>1, AlwaysIInv, PTL

-----------------------------------------------------------------------------
(* The exchange implements CommonCarrier: a step of p is a step of the pair  *)
(* or is invisible in it.                                                   *)

\* What a pair of contacts shows of itself.
CarrierOf(c) == [r \in Peers |-> c[r].active_transport]
PledgeOf(c) ==
    [r \in Peers |-> IF c[r].state = "COMMITTING" THEN {c[r].pending} ELSE {}]
DoneOf(c) == [r \in Peers |-> c[r].completed_migration_ref]
ClosedOf(c) == [r \in Peers |-> c[r].state = "CLOSED"]

\* The pair shows the same before and after.
Invisible ==
    /\ CarrierOf(contact') = CarrierOf(contact)
    /\ PledgeOf(contact') = PledgeOf(contact)
    /\ DoneOf(contact') = DoneOf(contact)
    /\ ClosedOf(contact') = ClosedOf(contact)

\* A step of p that neither commits, moves nor closes shows nothing.
LEMMA QuietStep ==
    ASSUME NEW p \in Peers, NEW q \in Peers, p # q,
           contact'[q] = contact[q],
           contact'[p].active_transport = contact[p].active_transport,
           contact'[p].completed_migration_ref
               = contact[p].completed_migration_ref,
           \/ contact'[p] = contact[p]
           \/ /\ contact[p].state \notin {"COMMITTING", "CLOSED"}
              /\ contact'[p].state \notin {"COMMITTING", "CLOSED"}
    PROVE  Invisible
<1>1. Peers = {p, q}
  BY OtherIsPeer
<1> QED
  BY <1>1 DEF Invisible, CarrierOf, PledgeOf, DoneOf, ClosedOf

\* mcl_contact_commit_begin pledges p to the offer it works on, while its peer
\* is on the same carrier and not committed itself.
LEMMA CommitsIsPledge ==
    ASSUME IInv, NEW p \in Peers, NEW q \in Peers, p # q, StepOf(p, q),
           Commits(p),
           NEW o, o = contact[p].pending
    PROVE  o \in Offers /\ Pair!Pledge(p, q, o)
<1>a. /\ Peers = {p, q} /\ contact'[q] = contact[q]
  BY OtherIsPeer DEF StepOf, Stands
<1>b. WellFormed(contact[p]) /\ PairInv(p, q) /\ RefsKnown
  BY DEF IInv, Sound
<1>1. /\ contact[p].state = "VALIDATED" /\ contact'[p].state = "COMMITTING"
      /\ contact'[p].pending = o
      /\ contact'[p].active_transport = contact[p].active_transport
      /\ contact'[p].completed_migration_ref
             = contact[p].completed_migration_ref
  BY DEF Commits, Enters, Becomes
<1>2. o \in Offers /\ o.transport # contact[p].active_transport
      /\ o.mig \in MigrationRefs /\ 0 \notin MigrationRefs
  BY <1>b, <1>1, ContactFields
  DEF WellFormed, Coherent, CandidateIsElsewhere, MigrationInProgress
<1>3. o.mig # contact[p].completed_migration_ref
  BY <1>b, <1>2 DEF RefsKnown
<1>4. Closed(q) \/ contact[q].state = "VALIDATED"
  BY <1>b DEF Commits, PairInv, ResponseIsReady, Ready
<1>5. \/ Closed(q)
      \/ /\ contact[q].state # "COMMITTING"
         /\ contact[q].active_transport = contact[p].active_transport
  <2>1. Carried(p, q)
    BY OneCarrierIsCarried DEF IInv
  <2> QED BY <1>1, <1>4, <2>1 DEF Carried, Behind, Quiesced, Closed
<1>6. /\ CarrierOf(contact') = CarrierOf(contact)
      /\ DoneOf(contact') = DoneOf(contact)
      /\ ClosedOf(contact') = ClosedOf(contact)
  BY <1>a, <1>1 DEF CarrierOf, DoneOf, ClosedOf
<1>7. PledgeOf(contact') = [PledgeOf(contact) EXCEPT ![p] = {o}]
  BY <1>a, <1>1 DEF PledgeOf
<1> QED
  BY <1>1, <1>2, <1>3, <1>5, <1>6, <1>7
  DEF Pair!Pledge, CarrierOf, PledgeOf, DoneOf, ClosedOf, Closed, Committing

\* mcl_contact_commit_accept moves p to the offer its peer is pledged to.
LEMMA MovesIsFollow ==
    ASSUME IInv, NEW p \in Peers, NEW q \in Peers, p # q, StepOf(p, q),
           NEW f \in net, Moves(p, f),
           NEW o, o = contact[p].pending
    PROVE  o \in Offers /\ Pair!Follow(p, q, o)
<1>a. /\ Peers = {p, q} /\ contact'[q] = contact[q]
  BY OtherIsPeer DEF StepOf, Stands
<1>b. Sound /\ Roles /\ WellFormed(contact[p]) /\ PairInv(q, p) /\ RefsKnown
  BY DEF IInv, Sound
<1>1. /\ contact[p].state = "VALIDATED" /\ contact'[p].state = "ACTIVE"
      /\ contact'[p].active_transport = o.transport
      /\ contact'[p].completed_migration_ref = o.mig
  BY DEF Moves, Settles, Becomes
<1>2. o \in Offers /\ o.transport # contact[p].active_transport
      /\ o.mig \in MigrationRefs /\ 0 \notin MigrationRefs
  BY <1>b, <1>1, ContactFields
  DEF WellFormed, Coherent, CandidateIsElsewhere, MigrationInProgress
<1>3. o.mig # contact[p].completed_migration_ref
  BY <1>b, <1>2 DEF RefsKnown
<1>4. \/ Closed(q)
      \/ contact[q].state = "COMMITTING" /\ contact[q].pending = o
  BY <1>b, MovesFacts DEF Committing
<1>5. /\ CarrierOf(contact') = [CarrierOf(contact) EXCEPT ![p] = o.transport]
      /\ DoneOf(contact') = [DoneOf(contact) EXCEPT ![p] = o.mig]
  BY <1>a, <1>1 DEF CarrierOf, DoneOf
<1>6. /\ PledgeOf(contact') = PledgeOf(contact)
      /\ ClosedOf(contact') = ClosedOf(contact)
  BY <1>a, <1>1 DEF PledgeOf, ClosedOf
<1> QED
  BY <1>1, <1>2, <1>3, <1>4, <1>5, <1>6
  DEF Pair!Follow, Pair!Arrive, CarrierOf, PledgeOf, DoneOf, ClosedOf, Closed,
      Committing

\* mcl_contact_commit_confirm settles p's pledge after its peer moved.
LEMMA ConfirmedIsSettle ==
    ASSUME IInv, NEW p \in Peers, NEW q \in Peers, p # q, StepOf(p, q),
           NEW f \in net, IsConfirmed(p, f),
           NEW o, o = contact[p].pending
    PROVE  o \in Offers /\ Pair!Settle(p, q, o)
<1>a. /\ Peers = {p, q} /\ contact'[q] = contact[q]
  BY OtherIsPeer DEF StepOf, Stands
<1>b. WellFormed(contact[p]) /\ PairInv(p, q)
  BY DEF IInv, Sound
<1>1. /\ contact[p].state = "COMMITTING" /\ contact'[p].state = "ACTIVE"
      /\ contact'[p].active_transport = o.transport
      /\ contact'[p].completed_migration_ref = o.mig
  BY DEF IsConfirmed, Settles, Becomes
<1>2. o \in Offers
  BY <1>b, <1>1, ContactFields DEF MigrationInProgress
<1>3. \/ Closed(q)
      \/ /\ contact[q].completed_migration_ref = o.mig
         /\ contact[q].active_transport = o.transport
  BY <1>b, ConfirmFacts DEF Completed
<1>4. /\ CarrierOf(contact') = [CarrierOf(contact) EXCEPT ![p] = o.transport]
      /\ DoneOf(contact') = [DoneOf(contact) EXCEPT ![p] = o.mig]
  BY <1>a, <1>1 DEF CarrierOf, DoneOf
<1>5. PledgeOf(contact') = [PledgeOf(contact) EXCEPT ![p] = {}]
  BY <1>a, <1>1 DEF PledgeOf
<1>6. ClosedOf(contact') = ClosedOf(contact)
  BY <1>a, <1>1 DEF ClosedOf
<1> QED
  BY <1>1, <1>2, <1>3, <1>4, <1>5, <1>6
  DEF Pair!Settle, Pair!Arrive, CarrierOf, PledgeOf, DoneOf, ClosedOf, Closed,
      Committing

\* mcl_contact_close takes p out of the pair and leaves its carrier alone.
LEMMA ClosesIsClose ==
    ASSUME NEW p \in Peers, NEW q \in Peers, p # q, StepOf(p, q), Closes(p)
    PROVE  Pair!Close(p)
<1>a. /\ Peers = {p, q} /\ contact'[q] = contact[q]
  BY OtherIsPeer DEF StepOf, Stands
<1>1. /\ contact'[p].state = "CLOSED"
      /\ contact'[p].active_transport = contact[p].active_transport
      /\ contact'[p].completed_migration_ref
             = contact[p].completed_migration_ref
  BY DEF Closes, Becomes
<1>2. /\ CarrierOf(contact') = CarrierOf(contact)
      /\ DoneOf(contact') = DoneOf(contact)
  BY <1>a, <1>1 DEF CarrierOf, DoneOf
<1>3. PledgeOf(contact') = [PledgeOf(contact) EXCEPT ![p] = {}]
  BY <1>a, <1>1 DEF PledgeOf
<1>4. ClosedOf(contact') = [ClosedOf(contact) EXCEPT ![p] = TRUE]
  BY <1>a, <1>1 DEF ClosedOf
<1> QED
  BY <1>2, <1>3, <1>4
  DEF Pair!Close, CarrierOf, PledgeOf, DoneOf, ClosedOf, Closed, Committing

\* The two machines move as one: whatever the media lose, copy or delay, the
\* exchange implements CommonCarrier.  The carriers differ only between the
\* follower's move and the settling of the pledge it followed.
THEOREM PairMovesAsOne ==
    ASSUME RemembersOffers, AcceptorWaits
    PROVE  Spec => MovesAsOne
<1>1. Init => Pair!Init
  <2> SUFFICES ASSUME Init PROVE Pair!Init
    OBVIOUS
  <2>1. PICK ref \in [Peers -> LocalRefs] :
            contact = [p \in Peers |-> Begin(Cleared, ref[p], FirstTransport)]
    BY DEF Init
  <2>2. FirstTransport # 0
    BY PeersAssumption, RefsAssumption
  <2>3. ASSUME NEW p \in Peers
        PROVE  /\ contact[p].state = "ACTIVE"
               /\ contact[p].active_transport = FirstTransport
               /\ contact[p].completed_migration_ref = 0
    BY <2>1, <2>2 DEF Begin, BeginStatus, After, Cleared
  <2> QED BY <2>3 DEF Pair!Init, Closed, Committing
<1>2. ASSUME IInv, NEW p \in Peers, NEW q \in Peers, p # q, StepOf(p, q)
      PROVE  [Pair!Next]_(Pair!vars)
  <2>0. ASSUME NEW o \in Offers,
               \/ Pair!Pledge(p, q, o)
               \/ Pair!Follow(p, q, o)
               \/ Pair!Settle(p, q, o)
        PROVE  Pair!Next
    <3>1. Pair!Change(p, q)
      BY <2>0 DEF Pair!Change
    <3> QED BY <1>2, <3>1 DEF Pair!Next
  <2>a. PICK offer : offer = contact[p].pending
    OBVIOUS
  <2>1. CASE Commits(p)
    BY <1>2, <2>0, <2>a, <2>1, CommitsIsPledge
  <2>2. CASE \E f \in net : Moves(p, f)
    BY <1>2, <2>0, <2>a, <2>2, MovesIsFollow
  <2>3. CASE \E f \in net : IsConfirmed(p, f)
    BY <1>2, <2>0, <2>a, <2>3, ConfirmedIsSettle
  <2>4. CASE Closes(p)
    BY <1>2, <2>4, ClosesIsClose DEF Pair!Next
  <2>5. CASE \/ \E o \in Offers : MakesOffer(p, o)
             \/ \E f \in net : Takes(p, q, f)
             \/ Drops(p) \/ Accepts(p)
             \/ \E f \in net : IsAccepted(p, f)
             \/ StartsValidation(p)
             \/ \E f \in net : Echoes(p, f)
             \/ \E f \in net : IsProven(p, f)
             \/ Idles(p)
    <3>1. /\ contact'[p].active_transport = contact[p].active_transport
          /\ contact'[p].completed_migration_ref
                 = contact[p].completed_migration_ref
          /\ \/ contact'[p] = contact[p]
             \/ /\ contact[p].state \notin {"COMMITTING", "CLOSED"}
                /\ contact'[p].state \notin {"COMMITTING", "CLOSED"}
      BY <2>5
      DEF MakesOffer, Takes, Drops, Accepts, IsAccepted, StartsValidation,
          Echoes, IsProven, Idles, Enters, Binds, Becomes
    <3>2. contact'[q] = contact[q]
      BY <1>2 DEF StepOf, Stands
    <3>3. Invisible
      BY <1>2, <3>1, <3>2, QuietStep
    <3>4. UNCHANGED Pair!vars
      BY <3>3
      DEF Invisible, Pair!vars, CarrierOf, PledgeOf, DoneOf, ClosedOf, Closed,
          Committing
    <3> QED BY <3>4
  <2> QED BY <1>2, <2>1, <2>2, <2>3, <2>4, <2>5 DEF StepOf
<1>3. IInv /\ [Next]_vars => [Pair!Next]_(Pair!vars)
  <2> SUFFICES ASSUME IInv, [Next]_vars PROVE [Pair!Next]_(Pair!vars)
    OBVIOUS
  <2>1. Sound
    BY DEF IInv
  <2>2. PICK p \in Peers, q \in Peers : p # q /\ StepOf(p, q)
    BY <2>1, DutifulStep
  <2> QED BY <1>2, <2>2
<1>4. Spec => Pair!Spec
  BY <1>1, <1>3, AlwaysIInv, PTL DEF Spec, Pair!Spec
<1> QED BY <1>4 DEF MovesAsOne

-----------------------------------------------------------------------------
(* Each contact of the pair still is one contact.                           *)

\* Whatever p does in the exchange, its contact takes a step of
\* TransportContinuity, or none that its owner could tell.
LEMMA StepContinues ==
    ASSUME Sound, Sound', NEW p \in Peers, NEW q \in Peers, AnyStepOf(p, q)
    PROVE  [Side(p)!Next]_(Side(p)!vars)
<1> DEFINE c == contact[p]
           d == contact'[p]
<1>a. WellFormed(c) /\ WellFormed(d)
  BY DEF Sound
<1>b. /\ c.session_ref \in Sessions \cup {0}
      /\ c.state \in {"VALIDATING", "AGREED"} => c.session_ref # 0
      /\ c.state # "NONE" /\ c.state \in States
  BY <1>a, ContactFields DEF Sound, WellFormed, Contacts
<1>c. /\ MigrationInProgress(d) => /\ d.pending.transport \in Transports
                                   /\ d.pending.transport # d.active_transport
      /\ NoOffer.transport = 0 /\ 0 \notin Sessions
  BY <1>a, ContactFields
  DEF WellFormed, Coherent, CandidateIsElsewhere, Offers, NoOffer
<1> HIDE DEF d
<1>1. ASSUME NEW o, Enters(p, "OFFERED", o), c.state \in {"ACTIVE", "OFFERED"}
      PROVE  Side(p)!Next
  <2>1. /\ d.state = "OFFERED" /\ d.pending = o
        /\ d.session_ref = c.session_ref
        /\ d.active_transport = c.active_transport
    BY <1>1 DEF Enters, Becomes, d
  <2>2. o.transport \in Transports /\ o.transport # c.active_transport
    BY <1>c, <2>1 DEF MigrationInProgress
  <2>3. Side(p)!Propose(o.transport)
    BY <1>1, <2>1, <2>2 DEF Side!Propose, PhaseOf, d
  <2> QED BY <2>2, <2>3 DEF Side!Next
<1>2. ASSUME Enters(p, "ACTIVE", NoOffer),
             c.state \in {"OFFERED", "AGREED", "VALIDATING", "VALIDATED"}
      PROVE  Side(p)!Next
  <2>1. /\ d.state = "ACTIVE" /\ d.pending = NoOffer
        /\ d.session_ref = c.session_ref
        /\ d.active_transport = c.active_transport
    BY <1>2 DEF Enters, Becomes, d
  <2>2. Side(p)!Drop
    BY <1>2, <1>c, <2>1 DEF Side!Drop, PhaseOf, d
  <2> QED BY <2>2 DEF Side!Next
<1>3. ASSUME NEW s \in Sessions, Binds(p, s)
      PROVE  [Side(p)!Next]_(Side(p)!vars)
  <2>1. /\ c.state = "OFFERED" /\ d.state = "AGREED" /\ d.pending = c.pending
        /\ d.session_ref = s
        /\ d.active_transport = c.active_transport
    BY <1>3 DEF Binds, Becomes, d
  <2>2. CASE c.session_ref = 0
    <3>1. Side(p)!Bind(s)
      BY <2>1, <2>2 DEF Side!Bind, PhaseOf, d
    <3> QED BY <3>1 DEF Side!Next
  <2>3. CASE c.session_ref # 0
    <3>1. s = c.session_ref
      BY <1>3, <1>a, <2>3, ContactFields DEF Binds
    <3> QED BY <2>1, <3>1 DEF Side!vars, PhaseOf, d
  <2> QED BY <2>2, <2>3
<1>4. CASE StartsValidation(p)
  BY <1>4 DEF StartsValidation, Enters, Becomes, Side!vars, PhaseOf
<1>5. ASSUME Enters(p, "VALIDATED", c.pending),
             c.state \in {"AGREED", "VALIDATING"}
      PROVE  Side(p)!Next
  <2>1. Side(p)!Prove
    BY <1>5, <1>b DEF Enters, Becomes, Side!Prove, PhaseOf
  <2> QED BY <2>1 DEF Side!Next
<1>6. CASE Commits(p)
  <2>1. Side(p)!Decide
    BY <1>6 DEF Commits, Enters, Becomes, Side!Decide, PhaseOf
  <2> QED BY <2>1 DEF Side!Next
<1>7. ASSUME NEW m, Settles(p, m), c.state \in {"VALIDATED", "COMMITTING"}
      PROVE  Side(p)!Next
  <2>1. Side(p)!Move
    BY <1>7, <1>c DEF Settles, Becomes, Side!Move, PhaseOf
  <2> QED BY <2>1 DEF Side!Next
<1>8. CASE Closes(p)
  <2>1. Side(p)!Close
    BY <1>8, <1>b, <1>c DEF Closes, Becomes, Side!Close, PhaseOf, States
  <2> QED BY <2>1 DEF Side!Next
<1>9. CASE Idles(p)
  BY <1>9 DEF Idles, Side!vars
<1>10. ASSUME NEW f \in net, IsAccepted(p, f)
       PROVE  f.session \in Sessions
  BY <1>10, FrameFields DEF IsAccepted, Waits, Sound, TypeOK
<1> QED
  BY <1>1, <1>2, <1>3, <1>4, <1>5, <1>6, <1>7, <1>8, <1>9, <1>10
  DEF AnyStepOf, Retakes, Forsakes, StepOf, MakesOffer, Takes, Drops, Accepts,
      IsAccepted, Echoes, IsProven, Moves, IsConfirmed

\* In the exchange each contact goes on keeping the promise of one contact:
\* its carrier is left only for a proven candidate, a decided move is not
\* dropped, and its session outlives every move.  This needs no duty of a
\* caller: what the two violations break is the pair, never one contact.
THEOREM SidesKeepPromise == Spec => SidesContinue
<1>1. ASSUME Sound, [Next]_vars
      PROVE  [\A p \in Peers : [Side(p)!Next]_(Side(p)!vars)]_contact
  <2>1. Sound'
    BY <1>1, SoundStep
  <2>2. PICK p \in Peers, q \in Peers : p # q /\ AnyStepOf(p, q)
    BY <1>1, EveryStep
  <2>3. [Side(p)!Next]_(Side(p)!vars)
    BY <1>1, <2>1, <2>2, StepContinues
  <2>4. Peers = {p, q} /\ contact'[q] = contact[q]
    BY <2>2, OtherIsPeer DEF AnyStepOf, StepOf, Stands
  <2>5. UNCHANGED Side(q)!vars
    BY <2>4 DEF Side!vars
  <2> QED BY <2>3, <2>4, <2>5
<1> QED BY <1>1, InitSound, SoundStep, PTL DEF Spec, SidesContinue

-----------------------------------------------------------------------------
(* One session.  Two machines bind one session if, besides the two duties    *)
(* above, a controller lets its offer stand until it is answered and an      *)
(* acceptor that chose a session lets its agreement stand.                   *)

OffersStand == <<"controller", "OFFERED">> \notin MayGiveUp
AgreementsStand == <<"acceptor", "AGREED">> \notin MayGiveUp

\* p holds no session reference.
Unbound(p) == contact[p].session_ref = 0

\* p has an offer of its own outstanding.
Bids(p) == contact[p].state = "OFFERED" /\ controls[p]

\* The migration p works on.
Bid(p) == contact[p].pending.mig

\* The migrations offered to p on the media that p's caller would not ignore.
News(p) ==
    {m \in MigrationRefs :
        /\ \E f \in net : f.kind = "OFFER" /\ f.to = p /\ f.offer.mig = m
        /\ m \notin known[p] \/ (Bids(p) /\ Bid(p) = m)}

\* x's offer has the key of one that y has outstanding, or sent earlier and x
\* can still hear.
Tied(x, y) ==
    /\ Bids(x)
    /\ contact[x].local_ref = contact[y].local_ref
    /\ Bid(x) \in News(x) \/ (Bids(y) /\ Bid(y) = Bid(x))

\* Nothing but the outstanding offers of x and y can be heard.
Alone(x, y) ==
    /\ Bids(y) \/ contact[y].state = "ACTIVE"
    /\ News(y) \subseteq {Bid(x)}
    /\ \A m \in News(x) : m = Bid(x) \/ (Bids(y) /\ m = Bid(y))

\* x's offer wins over all that x or y can still hear.  While y has not heard
\* it, y can take up nothing else; and where a tie can undo a machine's offer,
\* its peer's is the only other one there is.
Leads(x, y) ==
    /\ Bids(x)
    /\ \A m \in News(x) : ~Outbids(y, m, x)
    /\ \A m \in News(y) : m <= Bid(x)
    /\ Bids(y) => ~Outbids(y, Bid(y), x)
    /\ ~Bids(y) /\ Bid(x) \notin known[y] =>
           /\ contact[y].state = "ACTIVE"
           /\ News(x) = {} /\ News(y) \subseteq {Bid(x)}
    /\ Bids(y) /\ Bid(x) \notin known[y] =>
           \A m \in News(y) : m = Bid(x) \/ ~Outbids(x, m, y)
    /\ Tied(x, y) => Alone(x, y)
    /\ Tied(y, x) /\ Bid(x) \notin known[y] => Alone(y, x)

\* Neither has an offer, and none can be heard.
Rest(x, y) ==
    /\ contact[x].state = "ACTIVE" /\ contact[y].state = "ACTIVE"
    /\ News(x) = {} /\ News(y) = {}

\* Before there is a session, one machine has the winning offer or none has
\* one.
Bidding(x, y) == Rest(x, y) \/ Leads(x, y) \/ Leads(y, x)

\* p waits for the acceptance of a peer that is bound to a session already,
\* and can hear nothing that would make it leave its offer.
Awaits(p, q) ==
    /\ contact[q].state = "AGREED" /\ ~controls[q]
    /\ Bids(p)
    /\ \A m \in News(p) :
           /\ ~Outbids(q, m, p)
           /\ ~(m = Bid(p) /\ contact[p].local_ref = contact[q].local_ref)

OneSession(p, q) ==
    /\ \A f \in net :
           f.kind = "PATH_CHALLENGE" /\ f.to = q => Closed(p) \/ ~Unbound(p)
    /\ ~Closed(p) /\ ~Closed(q) =>
           /\ Unbound(p) /\ Unbound(q) => Bidding(p, q)
           /\ Unbound(p) /\ ~Unbound(q) => Awaits(p, q)
           /\ ~Unbound(p) /\ ~Unbound(q) =>
                  contact[p].session_ref = contact[q].session_ref

SessionInv == \A p, q \in Peers : p # q => OneSession(p, q)

\* Initially there is no frame and no offer.
LEMMA InitSession == Init => SessionInv
<1> SUFFICES ASSUME Init, NEW p \in Peers, NEW q \in Peers, p # q
             PROVE  OneSession(p, q)
  BY DEF SessionInv
<1>1. PICK ref \in [Peers -> LocalRefs] :
          contact = [r \in Peers |-> Begin(Cleared, ref[r], FirstTransport)]
  BY DEF Init
<1>2. FirstTransport # 0
  BY PeersAssumption, RefsAssumption
<1>3. /\ contact[p].state = "ACTIVE" /\ contact[q].state = "ACTIVE"
      /\ contact[p].session_ref = 0 /\ contact[q].session_ref = 0
      /\ net = {}
  BY <1>1, <1>2 DEF Init, Begin, BeginStatus, After, Cleared
<1> QED BY <1>3 DEF OneSession, Bidding, Rest, News, Unbound

\* The numbers a collision compares, and what a caller remembers of its offers.
LEMMA BidFields ==
    ASSUME IInv, NEW p \in Peers, NEW q \in Peers, p # q
    PROVE  /\ contact[p].local_ref \in Nat
           /\ Bids(p) => Bid(p) \in MigrationRefs /\ Bid(p) \in known[p]
           /\ News(p) \subseteq MigrationRefs /\ MigrationRefs \subseteq Nat
           /\ News(q) \subseteq known[p]
<1>1. WellFormed(contact[p]) /\ contact[p] \in Contacts
  BY DEF IInv, Sound, WellFormed
<1>2. contact[p].local_ref \in Nat
  BY <1>1, RefsAssumption DEF Contacts
<1>3. Bids(p) => Bid(p) \in MigrationRefs /\ Bid(p) \in known[p]
  BY <1>1, ContactFields DEF IInv, RefsKnown, MigrationInProgress, Bids, Bid
<1>4. ASSUME NEW m \in News(q)
      PROVE  m \in known[p]
  <2>1. PICK f \in net : f.kind = "OFFER" /\ f.to = q /\ f.offer.mig = m
    BY <1>4 DEF News
  <2>2. f.offer \in Offers
    BY <2>1, FrameFields DEF IInv, Sound, TypeOK
  <2>3. Says(p, q, f.offer)
    BY <2>1 DEF Says
  <2> QED BY <2>1, <2>2, <2>3 DEF IInv, PairInv, OffersUnique
<1> QED BY <1>2, <1>3, <1>4, RefsAssumption DEF News

\* What the bidding sees of a step of p: the same bid, a new bid, the peer's
\* offer m taken up, an offer taken up given back, or a tie.
SameBid(p) ==
    /\ contact'[p].state = contact[p].state
    /\ contact'[p].pending = contact[p].pending
    /\ controls'[p] = controls[p]

NewBid(p) ==
    /\ contact[p].state = "ACTIVE"
    /\ Bids(p)'
    /\ Bid(p)' \in MigrationRefs
    /\ Bid(p)' \notin known[p] /\ Bid(p)' \in known'[p]

Follows(p, q, m) ==
    /\ m \in News(p) /\ m \in known'[p]
    /\ contact[p].state = "ACTIVE" \/ (Bids(p) /\ Outbids(q, m, p))
    /\ ~Bids(p)'

GivesBack(p) ==
    /\ contact[p].state = "OFFERED" /\ ~Bids(p)
    /\ contact'[p].state = "ACTIVE"

Unties(p, q) ==
    /\ Bids(p) /\ Bid(p) \in News(p)
    /\ contact[p].local_ref = contact[q].local_ref
    /\ contact'[p].state = "ACTIVE"

\* What can be heard after a step of p.
NewsStep(p, q) ==
    /\ contact'[q] = contact[q] /\ controls'[q] = controls[q]
    /\ contact'[p].local_ref = contact[p].local_ref
    /\ known[p] \subseteq known'[p] /\ known'[q] = known[q]
    /\ News(p)' \subseteq News(p)
    /\ \A m \in News(q)' : m \in News(q) \/ (Bids(p)' /\ m = Bid(p)')

\* A step of p while neither is bound is one of these.
LEMMA BidStep ==
    ASSUME IInv, IInv', OffersStand,
           NEW p \in Peers, NEW q \in Peers, p # q, StepOf(p, q),
           Unbound(p), Unbound(q), Unbound(p)',
           ~Closed(p)', ~Closed(q)
    PROVE  /\ NewsStep(p, q)
           /\ \/ SameBid(p)
              \/ NewBid(p)
              \/ \E m \in MigrationRefs : Follows(p, q, m)
              \/ GivesBack(p)
              \/ Unties(p, q)
<1> DEFINE c == contact[p]
<1>1. WellFormed(c) /\ WellFormed(contact[q]) /\ Other(p) = q
  BY OtherIsPeer DEF IInv, Sound
<1>2. c.state \notin {"AGREED", "VALIDATING", "VALIDATED", "COMMITTING"}
  BY <1>1, ContactFields DEF Unbound
<1>3. ASSUME NEW f \in net, f.kind = "ACCEPT", f.to = p
      PROVE  FALSE
  <2>1. f.session = 0
    BY <1>3 DEF IInv, PairInv, SessionShared, Unbound
  <2>2. f.session \in Sessions
    BY <1>3, FrameFields DEF IInv, Sound, TypeOK
  <2> QED BY <2>1, <2>2, <1>1, ContactFields
<1>4. ~(\E s \in Sessions : Binds(p, s))
  <2> SUFFICES ASSUME NEW s \in Sessions, Binds(p, s) PROVE FALSE
    OBVIOUS
  <2>1. contact'[p].session_ref = s
    BY DEF Binds, Becomes
  <2> QED BY <2>1, <1>1, ContactFields DEF Unbound
<1>5. \/ \E o \in Offers : MakesOffer(p, o)
      \/ \E f \in net : Takes(p, q, f)
      \/ Drops(p)
      \/ Idles(p)
  <2>1. ~Closes(p)
    BY DEF Closes, Becomes, Closed
  <2> QED
    BY <1>2, <1>3, <1>4, <2>1
    DEF StepOf, Accepts, IsAccepted, Waits, StartsValidation, Echoes, IsProven,
        Commits, Moves, IsConfirmed
<1>6. \/ SameBid(p)
      \/ NewBid(p)
      \/ \E m \in MigrationRefs : Follows(p, q, m)
      \/ GivesBack(p)
      \/ Unties(p, q)
  <2>1. ASSUME NEW o \in Offers, MakesOffer(p, o)
        PROVE  NewBid(p)
    BY <2>1 DEF MakesOffer, Enters, Becomes, NewBid, Bids, Bid, Offers
  <2>2. ASSUME NEW f \in net, Takes(p, q, f)
        PROVE  \E m \in MigrationRefs : Follows(p, q, m)
    <3>1. f.offer.mig \in MigrationRefs
      BY <2>2, FrameFields DEF Takes, Waits, IInv, Sound, TypeOK, Offers
    <3>2. f.offer.mig \in News(p)
      <4>1. contact[p].pending.mig = f.offer.mig => contact[p].state # "ACTIVE"
        BY <3>1, <1>1, ContactFields DEF MigrationInProgress
      <4> QED BY <2>2, <3>1, <4>1 DEF Takes, Waits, News, Bids, Bid
    <3>3. Follows(p, q, f.offer.mig)
      BY <2>2, <3>2 DEF Takes, Follows, Bids
    <3> QED BY <3>1, <3>3
  <2>3. CASE Drops(p)
    <3>1. c.state = "OFFERED" /\ contact'[p].state = "ACTIVE"
      BY <2>3, <1>2 DEF Drops, Enters, Becomes
    <3>2. CASE HearsTie(p)
      <4>1. Bid(p) \in MigrationRefs /\ Bids(p)
        BY <3>1, <3>2, <1>1, ContactFields
        DEF HearsTie, Bid, Bids, MigrationInProgress
      <4> QED
        BY <3>1, <3>2, <4>1, <1>1 DEF HearsTie, Waits, Unties, Bids, Bid, News
    <3>3. CASE ~HearsTie(p)
      BY <2>3, <3>1, <3>3 DEF Drops, Role, OffersStand, GivesBack, Bids
    <3> QED BY <3>2, <3>3
  <2>4. CASE Idles(p)
    BY <2>4 DEF Idles, SameBid
  <2> QED BY <1>5, <2>1, <2>2, <2>3, <2>4
<1>7. ASSUME NEW m \in News(p)'
      PROVE  m \in News(p)
  <2>1. PICK f \in net' : f.kind = "OFFER" /\ f.to = p /\ f.offer.mig = m
    BY <1>7 DEF News
  <2>2. f \in net
    BY <2>1 DEF StepOf, Stands, Sends
  <2>3. /\ m \in MigrationRefs
        /\ m \notin known'[p] \/ (Bids(p)' /\ Bid(p)' = m)
    BY <1>7 DEF News
  <2>4. m \notin known[p] \/ (Bids(p) /\ Bid(p) = m)
    BY <1>6, <2>3 DEF StepOf, Stands, SameBid, NewBid, Follows, GivesBack,
                      Unties, Bids, Bid
  <2> QED BY <2>1, <2>2, <2>3, <2>4 DEF News
<1>8. ASSUME NEW m \in News(q)'
      PROVE  m \in News(q) \/ (Bids(p)' /\ m = Bid(p)')
  <2>1. PICK f \in net' : f.kind = "OFFER" /\ f.to = q /\ f.offer.mig = m
    BY <1>8 DEF News
  <2>2. f \in net \/ (Bids(p)' /\ m = Bid(p)')
    BY <2>1 DEF StepOf, Stands, Sends, Bids, Bid
  <2> QED BY <1>8, <2>1, <2>2 DEF StepOf, Stands, News, Bids, Bid
<1>9. contact'[p].local_ref = contact[p].local_ref
  BY <1>5 DEF MakesOffer, Takes, Drops, Idles, Enters, Becomes
<1>10. NewsStep(p, q)
  BY <1>7, <1>8, <1>9 DEF NewsStep, StepOf, Stands
<1> QED BY <1>6, <1>10

\* A step before there is a session leaves one machine with the winning offer,
\* or none with any: the winner hears nothing that wins over it, and when a tie
\* undoes its offer, its peer's offer is the only one left.
LEMMA BiddingStep ==
    ASSUME IInv, NEW p \in Peers, NEW q \in Peers, p # q, NewsStep(p, q),
           \/ SameBid(p)
           \/ NewBid(p)
           \/ \E m \in MigrationRefs : Follows(p, q, m)
           \/ GivesBack(p)
           \/ Unties(p, q),
           Bidding(p, q)
    PROVE  Bidding(p, q)'
<1> DEFINE rp == contact[p].local_ref
           rq == contact[q].local_ref
<1>a. /\ rp \in Nat /\ rq \in Nat
      /\ Bids(p) => Bid(p) \in Nat /\ Bid(p) \in known[p]
      /\ Bids(q) => Bid(q) \in Nat /\ Bid(q) \in known[q]
      /\ \A m \in News(p) : m \in Nat /\ m \in known[q]
      /\ \A m \in News(q) : m \in Nat /\ m \in known[p]
  BY BidFields
<1>b. /\ contact'[q].state = contact[q].state
      /\ Bids(q)' <=> Bids(q)
      /\ Bid(q)' = Bid(q)
      /\ contact'[p].local_ref = rp /\ contact'[q].local_ref = rq
      /\ known[p] \subseteq known'[p] /\ known'[q] = known[q]
      /\ News(p)' \subseteq News(p)
      /\ \A m \in News(q)' : m \in News(q) \/ (Bids(p)' /\ m = Bid(p)')
  BY DEF NewsStep, Bids, Bid
<1>c. \A m : /\ Outbids(p, m, q) <=> rp > rq \/ (rp = rq /\ m > Bid(q))
             /\ Outbids(q, m, p) <=> rq > rp \/ (rp = rq /\ m > Bid(p))
             /\ Outbids(p, m, q)' <=> rp > rq \/ (rp = rq /\ m > Bid(q)')
             /\ Outbids(q, m, p)' <=> rq > rp \/ (rp = rq /\ m > Bid(p)')
  BY <1>b DEF Outbids, Bid
<1>d. /\ Bids(p) => contact[p].state = "OFFERED"
      /\ Bids(q) => contact[q].state = "OFFERED"
      /\ Bids(p)' => contact'[p].state = "OFFERED"
  BY DEF Bids
\* What is heard after the step, of a machine whose bid is not heard.
<1>e. /\ \A m \in News(p)' : m \notin known'[p] \/ (Bids(p)' /\ m = Bid(p)')
      /\ \A m \in News(p) : m \notin known[p] \/ (Bids(p) /\ m = Bid(p))
      /\ \A m \in News(q) : m \notin known[q] \/ (Bids(q) /\ m = Bid(q))
      /\ \A m \in News(q)' : m \notin known[q] \/ (Bids(q) /\ m = Bid(q))
  BY <1>b DEF News
<1> HIDE DEF rp, rq
<1>1. CASE SameBid(p)
  <2>1. /\ contact'[p].state = contact[p].state
        /\ Bids(p)' <=> Bids(p)
        /\ Bid(p)' = Bid(p)
    BY <1>1 DEF SameBid, Bids, Bid
  <2>2. Rest(p, q) => Rest(p, q)'
    BY <1>b, <1>d, <2>1 DEF Rest
  <2>3. Leads(p, q) => Leads(p, q)'
    BY <1>a, <1>b, <1>c, <2>1 DEF Leads, Tied, Alone, rp, rq
  <2>4. Leads(q, p) => Leads(q, p)'
    BY <1>a, <1>b, <1>c, <2>1 DEF Leads, Tied, Alone, rp, rq
  <2> QED BY <2>2, <2>3, <2>4 DEF Bidding
<1>2. CASE NewBid(p)
  <2>1. /\ contact[p].state = "ACTIVE" /\ ~Bids(p) /\ Bids(p)'
        /\ Bid(p)' \notin known[p] /\ Bid(p)' \in Nat /\ Bid(p)' \in known'[p]
    BY <1>2, <1>d, RefsAssumption DEF NewBid
  <2>2. Rest(p, q) => Leads(p, q)'
    BY <1>a, <1>b, <1>c, <1>d, <2>1 DEF Rest, Leads, Tied, Alone, rp, rq
  <2>3. CASE Leads(q, p) /\ ~Outbids(p, Bid(p)', q)
    BY <1>a, <1>b, <1>c, <1>d, <1>e, <2>1, <2>3
    DEF Leads, Tied, Alone, Bidding, rp, rq
  <2>4. CASE Leads(q, p) /\ Outbids(p, Bid(p)', q)
    BY <1>a, <1>b, <1>c, <1>d, <1>e, <2>1, <2>4
    DEF Leads, Tied, Alone, Bidding, rp, rq
  <2> QED BY <2>1, <2>2, <2>3, <2>4 DEF Bidding, Leads
<1>3. ASSUME NEW m \in MigrationRefs, Follows(p, q, m)
      PROVE  Bidding(p, q)'
  <2>1. Leads(q, p)
    BY <1>3, <1>d DEF Follows, Rest, Leads, Bidding
  <2>2. Leads(q, p)'
    BY <1>3, <1>a, <1>b, <1>c, <1>d, <1>e, <2>1
    DEF Follows, Leads, Tied, Alone, rp, rq
  <2> QED BY <2>2 DEF Bidding
<1>4. CASE GivesBack(p)
  <2>1. Leads(q, p)
    BY <1>4 DEF GivesBack, Rest, Leads, Bidding
  <2>2. Leads(q, p)'
    BY <1>4, <1>a, <1>b, <1>c, <1>d, <1>e, <2>1
    DEF GivesBack, Leads, Tied, Alone, rp, rq
  <2> QED BY <2>2 DEF Bidding
<1>5. CASE Unties(p, q)
  <2>1. ~Rest(p, q)
    BY <1>5, <1>d DEF Unties, Rest
  <2>2. CASE Leads(p, q) /\ ~Bids(q)
    BY <1>5, <1>a, <1>b, <1>c, <1>d, <1>e, <2>2
    DEF Unties, Leads, Tied, Alone, Rest, Bidding, rp, rq
  <2>3. CASE Leads(p, q) /\ Bids(q)
    BY <1>5, <1>a, <1>b, <1>c, <1>d, <1>e, <2>3
    DEF Unties, Leads, Tied, Alone, Bidding, rp, rq
  <2>4. CASE Leads(q, p)
    BY <1>5, <1>a, <1>b, <1>c, <1>d, <1>e, <2>4
    DEF Unties, Leads, Tied, Alone, Bidding, rp, rq
  <2> QED BY <2>1, <2>2, <2>3, <2>4 DEF Bidding
<1> QED BY <1>1, <1>2, <1>3, <1>4, <1>5

\* A step keeps the session, binds the one there was or a first one, or closes
\* the contact for good.
LEMMA SessionKept ==
    ASSUME Sound, NEW p \in Peers, NEW q \in Peers, StepOf(p, q)
    PROVE  /\ Closed(p) => Closed(p)'
           /\ \/ Closed(p)'
              \/ contact'[p].session_ref = contact[p].session_ref
              \/ Unbound(p) /\ \E s \in Sessions : Binds(p, s)
<1>1. \A f \in net : IsAccepted(p, f) => f.session \in Sessions
  BY FrameFields DEF IsAccepted, Waits, Sound, TypeOK
<1>2. \A s : Binds(p, s) =>
          Unbound(p) \/ contact'[p].session_ref = contact[p].session_ref
  BY ContactFields DEF Sound, Binds, Becomes, Unbound
<1> QED
  BY <1>1, <1>2
  DEF StepOf, MakesOffer, Takes, Drops, Accepts, IsAccepted, StartsValidation,
      Echoes, IsProven, Commits, Moves, IsConfirmed, Closes, Idles, Enters,
      Settles, Binds, Becomes, Closed, Unbound

\* A challenge is sent only by a machine that holds a session.
LEMMA ChallengeIsBound ==
    ASSUME Sound, Sound', NEW p \in Peers, NEW q \in Peers, p # q,
           StepOf(p, q), OneSession(p, q), OneSession(q, p)
    PROVE  /\ \A f \in net' : f.kind = "PATH_CHALLENGE" /\ f.to = q =>
                  Closed(p)' \/ ~Unbound(p)'
           /\ \A f \in net' : f.kind = "PATH_CHALLENGE" /\ f.to = p =>
                  Closed(q)' \/ ~Unbound(q)'
<1>1. ASSUME NEW f \in net', f.kind = "PATH_CHALLENGE", f.to = q
      PROVE  Closed(p)' \/ ~Unbound(p)'
  <2>1. CASE f \in net
    <3>1. Closed(p) \/ ~Unbound(p)
      BY <1>1, <2>1 DEF OneSession
    <3> QED BY <3>1, SessionKept DEF Unbound, Binds, Becomes
  <2>2. CASE f \notin net
    <3>1. contact'[p].state = "VALIDATING" /\ WellFormed(contact'[p])
      BY <1>1, <2>2 DEF StepOf, Stands, Sends, Sound
    <3> QED BY <3>1, ContactFields DEF Unbound
  <2> QED BY <2>1, <2>2
<1>2. ASSUME NEW f \in net', f.kind = "PATH_CHALLENGE", f.to = p
      PROVE  Closed(q)' \/ ~Unbound(q)'
  BY <1>2 DEF StepOf, Stands, Sends, OneSession, Closed, Unbound
<1> QED BY <1>1, <1>2

\* The acceptor chooses the session while its peer's offer wins over all that
\* the peer can still hear.
LEMMA FirstBinding ==
    ASSUME IInv, NEW p \in Peers, NEW q \in Peers, p # q, StepOf(p, q),
           Unbound(p), Unbound(q), ~Closed(q), ~Unbound(p)', ~Closed(p)',
           Bidding(p, q)
    PROVE  Awaits(q, p)'
<1>1. PICK s \in Sessions : Binds(p, s)
  BY SessionKept DEF IInv, Unbound
<1>2. /\ contact[p].state = "OFFERED" /\ contact'[p].state = "AGREED"
      /\ contact'[p].local_ref = contact[p].local_ref
  BY <1>1 DEF Binds, Becomes
<1>3. ~controls[p] /\ ~controls'[p]
  <2>1. ASSUME NEW f \in net, IsAccepted(p, f)
        PROVE  FALSE
    <3>1. f.session = 0
      BY <2>1 DEF IsAccepted, Waits, IInv, PairInv, SessionShared, Unbound
    <3>2. f.session \in Sessions
      BY <2>1, FrameFields DEF IsAccepted, Waits, IInv, Sound, TypeOK
    <3> QED BY <3>1, <3>2, RefsAssumption
  <2>2. Accepts(p)
    BY <1>2, <2>1
    DEF StepOf, MakesOffer, Takes, Drops, StartsValidation, Echoes, IsProven,
        Commits, Moves, IsConfirmed, Closes, Idles, Enters, Settles, Becomes
  <2> QED BY <2>2 DEF Accepts
<1>4. Leads(q, p) /\ ~Bids(p)
  BY <1>2, <1>3 DEF Bidding, Rest, Leads, Bids
<1>5. ~Tied(q, p)
  BY <1>2, <1>4 DEF Leads, Alone
<1>6. \A m \in News(q) :
          /\ ~Outbids(p, m, q)
          /\ ~(m = Bid(q) /\ contact[q].local_ref = contact[p].local_ref)
  BY <1>4, <1>5 DEF Leads, Tied
<1>7. News(q)' \subseteq News(q)
  BY <1>2 DEF StepOf, Stands, Sends, News, Bids, Bid
<1> QED
  BY <1>2, <1>3, <1>4, <1>6, <1>7
  DEF StepOf, Stands, Awaits, Leads, Bids, Bid, Outbids

\* While one machine is bound and the other is not, the only step that counts
\* is that the acceptance arrives.
LEMMA WaitingStep ==
    ASSUME IInv, OffersStand, AgreementsStand,
           NEW p \in Peers, NEW q \in Peers, p # q, StepOf(p, q),
           OneSession(q, p), ~Closed(p)', ~Closed(q)
    PROVE  /\ Awaits(q, p) /\ Unbound(q) /\ ~Unbound(p) =>
                  Awaits(q, p)' /\ ~Unbound(p)'
           /\ Awaits(p, q) /\ Unbound(p) =>
                  \/ Awaits(p, q)'
                  \/ contact'[p].session_ref = contact[q].session_ref
<1>1. ~Closes(p)
  BY DEF Closes, Becomes, Closed
<1>2. ASSUME Awaits(q, p), Unbound(q), ~Unbound(p)
      PROVE  Awaits(q, p)' /\ ~Unbound(p)'
  <2>1. contact[p].state = "AGREED" /\ ~controls[p]
    BY <1>2 DEF Awaits
  <2>2. ~Drops(p)
    BY <2>1 DEF Drops, Role, AgreementsStand, HearsTie
  <2>3. \A f \in net : ~Echoes(p, f)
    BY <1>2 DEF Echoes, Waits, OneSession
  <2>4. Idles(p)
    BY <1>1, <2>1, <2>2, <2>3
    DEF StepOf, MakesOffer, Takes, Accepts, IsAccepted, StartsValidation,
        IsProven, Commits, Moves, IsConfirmed, Binds
  <2>5. News(q)' \subseteq News(q)
    BY <2>1, <2>4 DEF Idles, StepOf, Stands, Sends, News, Bids, Bid
  <2> QED
    BY <1>2, <2>4, <2>5
    DEF Idles, StepOf, Stands, Awaits, Bids, Bid, Outbids, Unbound
<1>3. ASSUME Awaits(p, q), Unbound(p)
      PROVE  \/ Awaits(p, q)'
             \/ contact'[p].session_ref = contact[q].session_ref
  <2>1. contact[p].state = "OFFERED" /\ controls[p]
    BY <1>3 DEF Awaits, Bids
  <2>2. Bid(p) \in MigrationRefs
    BY <2>1, BidFields DEF Bids
  <2>3. ASSUME NEW f \in net, Takes(p, q, f)
        PROVE  FALSE
    <3>1. f.offer.mig \in MigrationRefs
      BY <2>3, FrameFields DEF Takes, Waits, IInv, Sound, TypeOK, Offers
    <3>2. f.offer.mig \in News(p) /\ Outbids(q, f.offer.mig, p)
      BY <2>1, <2>3, <3>1 DEF Takes, Waits, News, Bids, Bid
    <3> QED BY <1>3, <3>2 DEF Awaits
  <2>4. ~Drops(p)
    <3>1. ~HearsTie(p)
      BY <1>3, <2>1, <2>2, OtherIsPeer
      DEF HearsTie, Awaits, News, Waits, Bids, Bid
    <3> QED BY <2>1, <3>1 DEF Drops, Role, OffersStand
  <2>5. ASSUME NEW f \in net, IsAccepted(p, f)
        PROVE  contact'[p].session_ref = contact[q].session_ref
    BY <2>5
    DEF IsAccepted, Waits, Binds, Becomes, IInv, PairInv, SessionShared
  <2>6. CASE Idles(p)
    <3>1. News(p)' \subseteq News(p)
      BY <2>6 DEF Idles, StepOf, Stands, Sends, News, Bids, Bid
    <3> QED
      BY <1>3, <2>6, <3>1
      DEF Idles, StepOf, Stands, Awaits, Bids, Bid, Outbids
  <2> QED
    BY <1>1, <2>1, <2>3, <2>4, <2>5, <2>6
    DEF StepOf, MakesOffer, Accepts, StartsValidation, Echoes, IsProven,
        Commits, Moves, IsConfirmed
<1> QED BY <1>2, <1>3

\* Every step keeps the relation between the sessions, the offers and the
\* frames that SessionInv states.
LEMMA OneSessionStep ==
    ASSUME IInv, IInv', SessionInv, OffersStand, AgreementsStand,
           NEW p \in Peers, NEW q \in Peers, p # q, StepOf(p, q)
    PROVE  OneSession(p, q)' /\ OneSession(q, p)'
<1>1. OneSession(p, q) /\ OneSession(q, p) /\ Sound /\ Sound'
  BY DEF SessionInv, IInv
<1>2. SUFFICES ASSUME ~Closed(p)', ~Closed(q)'
               PROVE  /\ Unbound(p)' /\ Unbound(q)' =>
                             Bidding(p, q)' /\ Bidding(q, p)'
                      /\ Unbound(p)' /\ ~Unbound(q)' => Awaits(p, q)'
                      /\ Unbound(q)' /\ ~Unbound(p)' => Awaits(q, p)'
                      /\ ~Unbound(p)' /\ ~Unbound(q)' =>
                             contact'[p].session_ref = contact'[q].session_ref
  BY <1>1, ChallengeIsBound DEF OneSession
<1>3. /\ ~Closed(p) /\ ~Closed(q)
      /\ contact'[q] = contact[q] /\ (Unbound(q)' <=> Unbound(q))
  BY <1>1, <1>2, SessionKept DEF StepOf, Stands, Closed, Unbound
<1>4. Unbound(p) /\ Unbound(q) => Bidding(p, q)
  BY <1>1, <1>3 DEF OneSession
<1>5. CASE Unbound(p) /\ Unbound(q) /\ Unbound(p)'
  <2>1. Bidding(p, q)'
    BY <1>2, <1>3, <1>4, <1>5, BidStep, BiddingStep
  <2>2. Bidding(q, p)'
    BY <2>1 DEF Bidding, Rest
  <2> QED BY <1>3, <1>5, <2>1, <2>2
<1>6. CASE Unbound(p) /\ Unbound(q) /\ ~Unbound(p)'
  <2>1. Awaits(q, p)'
    BY <1>2, <1>3, <1>4, <1>6, FirstBinding
  <2> QED BY <1>3, <1>6, <2>1
<1>7. CASE ~Unbound(p) /\ Unbound(q)
  <2>1. Awaits(q, p)
    BY <1>1, <1>3, <1>7 DEF OneSession
  <2>2. Awaits(q, p)' /\ ~Unbound(p)'
    BY <1>1, <1>2, <1>3, <1>7, <2>1, WaitingStep
  <2> QED BY <1>3, <1>7, <2>2
<1>8. CASE Unbound(p) /\ ~Unbound(q)
  <2>1. Awaits(p, q)
    BY <1>1, <1>3, <1>8 DEF OneSession
  <2>2. \/ Awaits(p, q)'
        \/ contact'[p].session_ref = contact[q].session_ref
    BY <1>1, <1>2, <1>3, <1>8, <2>1, WaitingStep
  <2>3. Awaits(p, q)' => Unbound(p)'
    <3>1. ASSUME ~Unbound(p)', Awaits(p, q)'
          PROVE  FALSE
      <4>1. PICK s \in Sessions : Binds(p, s)
        BY <1>1, <1>2, <1>8, <3>1, SessionKept DEF Unbound
      <4> QED BY <3>1, <4>1 DEF Binds, Becomes, Awaits, Bids
    <3> QED BY <3>1
  <2> QED BY <1>3, <1>8, <2>2, <2>3 DEF Unbound
<1>9. CASE ~Unbound(p) /\ ~Unbound(q)
  <2>1. contact'[p].session_ref = contact[p].session_ref
    BY <1>1, <1>2, <1>9, SessionKept
  <2>2. contact[p].session_ref = contact[q].session_ref
    BY <1>1, <1>3, <1>9 DEF OneSession
  <2> QED BY <1>3, <1>9, <2>1, <2>2 DEF Unbound
<1> QED BY <1>5, <1>6, <1>7, <1>8, <1>9

\* Two machines that each hold a session reference hold the same one, if each
\* caller lets its offer stand until it is answered and lets an agreement it
\* made stand.  MigrationTwoSessions.cfg shows two sessions for callers that
\* give up when they please.
THEOREM SessionsSafe ==
    ASSUME RemembersOffers, AcceptorWaits, OffersStand, AgreementsStand
    PROVE  Spec => []SessionsAgree
<1>1. IInv /\ IInv' /\ SessionInv /\ [Next]_vars => SessionInv'
  <2> SUFFICES ASSUME IInv, IInv', SessionInv, [Next]_vars
               PROVE  SessionInv'
    OBVIOUS
  <2>1. PICK p \in Peers, q \in Peers : p # q /\ StepOf(p, q)
    BY DutifulStep DEF IInv
  <2>2. OneSession(p, q)' /\ OneSession(q, p)' /\ Peers = {p, q}
    BY <2>1, OneSessionStep, OtherIsPeer
  <2> QED BY <2>2 DEF SessionInv
<1>2. IInv /\ SessionInv => SessionsAgree
  <2> SUFFICES ASSUME IInv, SessionInv, NEW p \in Peers, NEW q \in Peers,
                      contact[p].session_valid, contact[q].session_valid,
                      p # q
               PROVE  contact[p].session_ref = contact[q].session_ref
    BY DEF SessionsAgree
  <2>1. ASSUME NEW r \in {p, q}
        PROVE  ~Unbound(r) /\ ~Closed(r)
    <3>1. WellFormed(contact[r]) /\ contact[r].session_valid
      BY DEF IInv, Sound
    <3>2. ~Unbound(r)
      BY <3>1, ContactFields DEF Unbound
    <3>3. ~Closed(r)
      BY <3>1 DEF WellFormed, Coherent, SessionMatchesState, Closed
    <3> QED BY <3>2, <3>3
  <2> QED BY <2>1 DEF SessionInv, OneSession
<1> QED BY <1>1, <1>2, InitSession, AlwaysIInv, PTL DEF Spec

=============================================================================

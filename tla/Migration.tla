----------------------------- MODULE Migration ------------------------------
(***************************************************************************)
(* Two machines moving one contact from one transport to another.           *)
(*                                                                          *)
(* Each machine holds an mcl_contact_t (ContactMachine, src/src/contact.c) *)
(* and a caller that drives it: the SDK, which is not in the repository.    *)
(* The caller is modelled from the rules it must follow, in                 *)
(* src/spec/link-handoff-control-v0.1.md sections 3.1, 7 and 8 and in       *)
(* src/include/mcl/contact.h, and every contact it touches changes only     *)
(* through the operators of ContactMachine.                                 *)
(*                                                                          *)
(* The media lose, delay, duplicate and reorder frames; they do not forge   *)
(* them.  With Lossy = FALSE a frame once sent can be received at any later *)
(* time, any number of times or never, which is the network of the safety   *)
(* properties.  With Lossy = TRUE a frame can vanish, so that progress      *)
(* rests on retransmission: the network of the liveness properties.         *)
(***************************************************************************)
EXTENDS ContactMachine

CONSTANTS
    Peers,            \* the two machines
    RefsOf,           \* references each may begin its contact with
    FirstTransport,   \* where the machines met
    MayOffer,         \* the offers each caller may make, each once
    MayChoose,        \* session references each may bind when it accepts
    ChallengeOf,      \* the challenge bytes used for a migration
    MayGiveUp,        \* <<role, state>> pairs in which a caller times out
    MayClose,         \* machines that may close the contact
    RemembersOffers,  \* does a caller ignore an offer it took up before?
    Lossy             \* may frames vanish?

ASSUME PeersAssumption ==
    /\ \E a, b \in Peers : a # b /\ Peers = {a, b}
    /\ RefsOf \in [Peers -> SUBSET LocalRefs]
    /\ FirstTransport \in Transports
    /\ MayOffer \in [Peers -> SUBSET Offers]
    /\ MayChoose \in [Peers -> SUBSET Sessions]
    /\ ChallengeOf \in [MigrationRefs -> Challenges]
    /\ MayGiveUp \subseteq {"controller", "acceptor"} \X States
    /\ MayClose \subseteq Peers
    /\ RemembersOffers \in BOOLEAN
    /\ Lossy \in BOOLEAN

VARIABLES
    contact,     \* each machine's mcl_contact_t
    controls,    \* the caller's memory: did I make the outstanding offer?
    known,       \* references of offers the caller made or took up
    net,         \* frames on the media
    crossed      \* history: <<receiver, migration, transport>> of the
                 \* challenges and responses that were accepted

vars == <<contact, controls, known, net, crossed>>

Other(p) == CHOOSE q \in Peers : q # p

-----------------------------------------------------------------------------
(* Frames.  OFFER and ACCEPT are semantic objects on the old transport, the *)
(* four controls travel on the candidate.                                   *)

OfferFrame(q, t, o) == [kind |-> "OFFER", to |-> q, via |-> t, offer |-> o]

AcceptFrame(q, t, o, s) ==
    [kind |-> "ACCEPT", to |-> q, via |-> t, offer |-> o, session |-> s]

ControlFrame(kind, q, t, m, s) ==
    [kind |-> kind, to |-> q, via |-> t, mig |-> m, session |-> s,
     challenge |-> IF kind \in {"PATH_CHALLENGE", "PATH_RESPONSE"}
                   THEN ChallengeOf[m] ELSE 0]

Frames ==
    [kind: {"OFFER"}, to: Peers, via: Transports, offer: Offers]
    \cup
    [kind: {"ACCEPT"}, to: Peers, via: Transports, offer: Offers,
     session: Sessions]
    \cup
    [kind: {"PATH_CHALLENGE", "PATH_RESPONSE", "COMMIT", "CONFIRM"},
     to: Peers, via: Transports, mig: MigrationRefs, session: Sessions,
     challenge: Challenges]

\* A control p sends about its current (or just completed) transaction.
ControlTo(kind, p, c, m) ==
    ControlFrame(kind, Other(p), ControlTransport(c), m, c.session_ref)

\* The frame p repeats while it waits; {} when it waits for nothing.
Outstanding(p) ==
    LET c == contact[p]
        q == Other(p)
    IN  IF c.state = "OFFERED" /\ controls[p]
        THEN {OfferFrame(q, c.active_transport, c.pending)}
        ELSE IF c.state = "AGREED" /\ ~controls[p]
        THEN {AcceptFrame(q, c.active_transport, c.pending, c.session_ref)}
        ELSE IF c.state = "VALIDATING"
        THEN {ControlTo("PATH_CHALLENGE", p, c, c.pending.mig)}
        ELSE IF c.state = "COMMITTING"
        THEN {ControlTo("COMMIT", p, c, c.pending.mig)}
        ELSE {}

\* A frame reaches p on the transport where p listens for its kind.
Arrives(p, kind, f) ==
    /\ f \in net
    /\ f.kind = kind
    /\ f.to = p
    /\ f.via = IF kind \in {"OFFER", "ACCEPT"}
               THEN DataTransport(contact[p])
               ELSE ControlTransport(contact[p])

\* The media after p received f and sent the frames in reply.
Delivered(f, reply) ==
    \E rest \in IF Lossy THEN {net, net \ {f}} ELSE {net} :
        net' = rest \cup reply

SetContact(p, c) == contact' = [contact EXCEPT ![p] = c]

-----------------------------------------------------------------------------
(* Making, taking up and accepting an offer. *)

MakeOffer(p, o) ==
    /\ contact[p].state = "ACTIVE"
    /\ o.mig \notin known[p]
    /\ RecordOfferStatus(contact[p], o) = "OK"
    /\ SetContact(p, RecordOffer(contact[p], o))
    /\ controls' = [controls EXCEPT ![p] = TRUE]
    /\ known' = [known EXCEPT ![p] = @ \cup {o.mig}]
    /\ net' = net \cup {OfferFrame(Other(p), contact[p].active_transport, o)}
    /\ UNCHANGED crossed

\* The contact remembers one completed migration_ref; a caller that remembers
\* them all can tell a late copy of an offer from a new one.
IsNews(p, o) == RemembersOffers => o.mig \notin known[p]

TakeUpOffer(p, f) ==
    /\ Arrives(p, "OFFER", f)
    /\ contact[p].state = "ACTIVE"
    /\ IsNews(p, f.offer)
    /\ RecordOfferStatus(contact[p], f.offer) = "OK"
    /\ SetContact(p, RecordOffer(contact[p], f.offer))
    /\ controls' = [controls EXCEPT ![p] = FALSE]
    /\ known' = [known EXCEPT ![p] = @ \cup {f.offer.mig}]
    /\ Delivered(f, {})
    /\ UNCHANGED crossed

\* Glare: the peer's offer arrives while p's own is outstanding.  If p wins,
\* nothing changes and the frame is as good as lost.
CollideOffer(p, f) ==
    /\ Arrives(p, "OFFER", f)
    /\ contact[p].state = "OFFERED"
    /\ controls[p]
    /\ IsNews(p, f.offer) \/ f.offer.mig = contact[p].pending.mig
    /\ LET source  == contact[Other(p)].local_ref
           outcome == CollisionOutcome(contact[p], source, f.offer)
       IN  /\ ResolveOfferCollisionStatus(contact[p], source, f.offer) = "OK"
           /\ outcome # "LOCAL_WINS"
           /\ SetContact(p, ResolveOfferCollision(contact[p], source, f.offer))
           /\ known' = [known EXCEPT ![p] = @ \cup {f.offer.mig}]
    /\ controls' = [controls EXCEPT ![p] = FALSE]
    /\ Delivered(f, {})
    /\ UNCHANGED crossed

\* The accepting peer chooses the session reference, once for the contact.
AcceptOffer(p) ==
    /\ contact[p].state = "OFFERED"
    /\ ~controls[p]
    /\ \E s \in IF contact[p].session_valid
                THEN {contact[p].session_ref} ELSE MayChoose[p] :
          LET o == contact[p].pending
              c == Agree(contact[p], o.mig, o.transport, o.profile, s)
          IN  /\ SetContact(p, c)
              /\ net' = net \cup
                     {AcceptFrame(Other(p), c.active_transport, o, s)}
    /\ UNCHANGED <<controls, known, crossed>>

ReceiveAccept(p, f) ==
    /\ Arrives(p, "ACCEPT", f)
    /\ LET o == f.offer
           c == Agree(contact[p], o.mig, o.transport, o.profile, f.session)
       IN  c # contact[p] /\ SetContact(p, c)
    /\ Delivered(f, {})
    /\ UNCHANGED <<controls, known, crossed>>

-----------------------------------------------------------------------------
(* Validating the candidate path. *)

SendChallenge(p) ==
    /\ controls[p]
    /\ ValidationBeginStatus(contact[p]) = "OK"
    /\ LET m == contact[p].pending.mig
       IN  /\ SetContact(p, ValidationBegin(contact[p], ChallengeOf[m]))
           /\ net' = net \cup
                  {ControlTo("PATH_CHALLENGE", p, contact[p], m)}
    /\ UNCHANGED <<controls, known, crossed>>

\* The receiving peer records the challenge, echoes it and is VALIDATED: its
\* own half of the path is proven by the frame that arrived.
ReceiveChallenge(p, f) ==
    /\ Arrives(p, "PATH_CHALLENGE", f)
    /\ contact[p].state = "AGREED"
    /\ CheckTransaction(contact[p], f.mig, f.session) = "OK"
    /\ SetContact(p, ValidationResponse(
                         ValidationBegin(contact[p], f.challenge),
                         f.mig, f.session, f.challenge))
    /\ Delivered(f, {ControlTo("PATH_RESPONSE", p, contact[p], f.mig)})
    /\ crossed' = crossed \cup {<<p, f.mig, f.via>>}
    /\ UNCHANGED <<controls, known>>

RepeatResponse(p, f) ==
    /\ Arrives(p, "PATH_CHALLENGE", f)
    /\ ChallengeRepeat(contact[p], f.mig, f.session, f.challenge)
    /\ Delivered(f, {ControlTo("PATH_RESPONSE", p, contact[p], f.mig)})
    /\ UNCHANGED <<contact, controls, known, crossed>>

ReceiveResponse(p, f) ==
    /\ Arrives(p, "PATH_RESPONSE", f)
    /\ LET c == ValidationResponse(contact[p], f.mig, f.session, f.challenge)
       IN  c # contact[p] /\ SetContact(p, c)
    /\ Delivered(f, {})
    /\ crossed' = crossed \cup {<<p, f.mig, f.via>>}
    /\ UNCHANGED <<controls, known>>

-----------------------------------------------------------------------------
(* Committing. *)

\* The commit is irrevocable when the frame may have been sent, so the state
\* changes with the transmission.  A transmission that definitely failed
\* changes nothing and is no step.
SendCommit(p) ==
    /\ controls[p]
    /\ CommitBeginStatus(contact[p]) = "OK"
    /\ SetContact(p, CommitBegin(contact[p]))
    /\ net' = net \cup
           {ControlTo("COMMIT", p, contact[p], contact[p].pending.mig)}
    /\ UNCHANGED <<controls, known, crossed>>

ReceiveCommit(p, f) ==
    /\ Arrives(p, "COMMIT", f)
    /\ CommitAcceptStatus(contact[p], f.mig, f.session) = "OK"
    /\ LET c == CommitAccept(contact[p], f.mig, f.session)
       IN  /\ SetContact(p, c)
           /\ Delivered(f, {ControlTo("CONFIRM", p, c, f.mig)})
    /\ UNCHANGED <<controls, known, crossed>>

RepeatConfirm(p, f) ==
    /\ Arrives(p, "COMMIT", f)
    /\ CommitRepeat(contact[p], f.mig, f.session)
    /\ Delivered(f, {ControlTo("CONFIRM", p, contact[p], f.mig)})
    /\ UNCHANGED <<contact, controls, known, crossed>>

ReceiveConfirm(p, f) ==
    /\ Arrives(p, "CONFIRM", f)
    /\ LET c == CommitConfirm(contact[p], f.mig, f.session)
       IN  c # contact[p] /\ SetContact(p, c)
    /\ Delivered(f, {})
    /\ UNCHANGED <<controls, known, crossed>>

-----------------------------------------------------------------------------
(* Waiting, giving up, closing, losing. *)

Retransmit(p) ==
    /\ ~ (Outstanding(p) \subseteq net)
    /\ net' = net \cup Outstanding(p)
    /\ UNCHANGED <<contact, controls, known, crossed>>

Role(p) == IF controls[p] THEN "controller" ELSE "acceptor"

\* The caller's clock ran out (the library has none).
GiveUp(p) ==
    /\ <<Role(p), contact[p].state>> \in MayGiveUp
    /\ AbandonMigrationStatus(contact[p]) = "OK"
    /\ SetContact(p, AbandonMigration(contact[p]))
    /\ UNCHANGED <<controls, known, net, crossed>>

CloseContact(p) ==
    /\ p \in MayClose
    /\ contact[p].state # "CLOSED"
    /\ CloseStatus(contact[p]) = "OK"
    /\ SetContact(p, Close(contact[p]))
    /\ UNCHANGED <<controls, known, net, crossed>>

Lose(f) ==
    /\ Lossy
    /\ net' = net \ {f}
    /\ UNCHANGED <<contact, controls, known, crossed>>

-----------------------------------------------------------------------------

Init ==
    /\ \E ref \in [Peers -> LocalRefs] :
           /\ \A p \in Peers : ref[p] \in RefsOf[p]
           /\ contact = [p \in Peers |->
                             Begin(Cleared, ref[p], FirstTransport)]
    /\ controls = [p \in Peers |-> FALSE]
    /\ known = [p \in Peers |-> {}]
    /\ net = {}
    /\ crossed = {}

Receive(p, f) ==
    \/ TakeUpOffer(p, f)      \/ CollideOffer(p, f)
    \/ ReceiveAccept(p, f)
    \/ ReceiveChallenge(p, f) \/ RepeatResponse(p, f)
    \/ ReceiveResponse(p, f)
    \/ ReceiveCommit(p, f)    \/ RepeatConfirm(p, f)
    \/ ReceiveConfirm(p, f)

Send(p) ==
    \/ \E o \in MayOffer[p] : MakeOffer(p, o)
    \/ AcceptOffer(p)
    \/ SendChallenge(p)
    \/ SendCommit(p)
    \/ Retransmit(p)

Next ==
    \/ \E p \in Peers : Send(p) \/ GiveUp(p) \/ CloseContact(p)
    \/ \E p \in Peers, f \in net : Receive(p, f)
    \/ \E f \in net : Lose(f)

Spec == Init /\ [][Next]_vars

\* A caller with a frame outstanding keeps repeating it and takes the step
\* that is its turn to take (weak fairness); a medium that is offered the same
\* kind of frame for ever delivers one (strong fairness).  Nothing obliges
\* anyone to make an offer, to give up or to close.
Delivers(kind) ==
    \E p \in Peers : \E f \in net : f.kind = kind /\ Receive(p, f)

Fairness ==
    /\ \A p \in Peers :
           WF_vars(Retransmit(p) \/ AcceptOffer(p) \/ SendChallenge(p)
                   \/ SendCommit(p))
    /\ \A kind \in {"OFFER", "ACCEPT", "PATH_CHALLENGE", "PATH_RESPONSE",
                    "COMMIT", "CONFIRM"} :
           SF_vars(Delivers(kind))

FairSpec == Spec /\ Fairness

-----------------------------------------------------------------------------
(* What the exchange promises. *)

\* Every variable stays in its range; the frames sent are well formed.
TypeOK ==
    /\ contact \in [Peers -> Contacts]
    /\ controls \in [Peers -> BOOLEAN]
    /\ known \in [Peers -> SUBSET MigrationRefs]
    /\ net \subseteq Frames
    /\ crossed \subseteq Peers \X MigrationRefs \X Transports

Closed(p) == contact[p].state = "CLOSED"

Completed(p, m) == contact[p].completed_migration_ref = m

\* p has sent COMMIT for the transaction and does not know whether it arrived.
Committing(p) == contact[p].state = "COMMITTING"

\* Two machines that both still hold the contact have it on the same
\* transport, except while one is quiesced (data_transport) because it is
\* committing to the very transport the other moved to under the same
\* migration_ref: the only disagreement the design admits (commit_accept and
\* commit_confirm settle in two steps), and ordinary traffic waits it out.
OneCarrier ==
    \A p \in Peers :
        LET q == Other(p)
            behind(a, b) ==
                /\ Quiesced(contact[a])
                /\ Completed(b, contact[a].pending.mig)
                /\ contact[b].active_transport = contact[a].pending.transport
        IN  \/ Closed(p) \/ Closed(q)
            \/ contact[p].active_transport = contact[q].active_transport
            \/ behind(p, q) \/ behind(q, p)

\* A machine waits in COMMITTING only for a peer that can still answer: one
\* VALIDATED for the same transaction and session, which commit_accept will
\* move, or one that moved already, which commit_repeat can answer; never for
\* one that waits for an answer itself.
CommitIsAnswerable ==
    \A p \in Peers :
        LET q == Other(p)
            m == contact[p].pending.mig
        IN  Committing(p) =>
                \/ Closed(q)
                \/ /\ contact[q].state = "VALIDATED"
                   /\ contact[q].pending = contact[p].pending
                   /\ contact[q].session_ref = contact[p].session_ref
                \/ Completed(q, m) /\ ~Committing(q)

\* Two machines past the offer of one migration have one controller: a glare
\* never leaves both waiting to be challenged, or both challenging.
OneController ==
    \A p \in Peers :
        LET q == Other(p)
            agreed(r) == contact[r].state \in
                             {"AGREED", "VALIDATING", "VALIDATED", "COMMITTING"}
        IN  agreed(p) /\ agreed(q) /\ contact[p].pending = contact[q].pending
                => controls[p] # controls[q]

\* The controller holds the path proven, and sends COMMIT, only if a challenge
\* crossed the candidate to the peer and its echo crossed it back, in this
\* transaction: no frame of the old transport or of an abandoned attempt
\* takes their place.
PathProven ==
    \A p \in Peers :
        LET m == contact[p].pending.mig
            t == contact[p].pending.transport
        IN  (controls[p] /\ contact[p].state \in {"VALIDATED", "COMMITTING"})
            => {<<Other(p), m, t>>, <<p, m, t>>} \subseteq crossed

\* Machines that each hold a session reference hold the same one: session_ref
\* names the one continuing contact.
SessionsAgree ==
    \A p, q \in Peers :
        contact[p].session_valid /\ contact[q].session_valid =>
            contact[p].session_ref = contact[q].session_ref

\* The two contacts as the pair of carriers their owners see.  A COMMIT that
\* was sent is a pledge: the one thing a machine cannot take back.
Pair ==
    INSTANCE CommonCarrier WITH
        Machines <- Peers,
        First    <- FirstTransport,
        carrier  <- [p \in Peers |-> contact[p].active_transport],
        pledge   <- [p \in Peers |-> IF Committing(p)
                                     THEN {contact[p].pending} ELSE {}],
        done     <- [p \in Peers |-> contact[p].completed_migration_ref],
        closed   <- [p \in Peers |-> Closed(p)]

\* The exchange implements CommonCarrier.  commit_begin commits a machine only
\* on the carrier it shares with a peer that is not committed itself,
\* commit_accept moves the peer only to the offer that was committed to, and
\* commit_confirm moves the first machine only after its peer: whatever was
\* lost, copied or late, no other step changes a carrier.
MovesAsOne == Pair!Spec

\* One contact of the pair as its own machine sees it.
Side(p) ==
    INSTANCE TransportContinuity WITH
        phase     <- PhaseOf(contact[p]),
        carrier   <- contact[p].active_transport,
        candidate <- contact[p].pending.transport,
        session   <- contact[p].session_ref

\* In the exchange each contact goes on keeping the promise of one contact,
\* also where the caller makes two calls of one frame (a PATH_CHALLENGE is
\* recorded and echoed): whatever its peer and the media do, a machine leaves
\* its carrier only for a candidate it has proven.
SidesContinue ==
    [][\A p \in Peers : [Side(p)!Next]_(Side(p)!vars)]_contact

\* p completed the migration m and has begun another.
BusyBeyond(p, m) ==
    Completed(p, m) /\ MigrationInProgress(contact[p])

\* contact.h:608 and commit_repeat.  The window in which ordinary traffic is
\* quiesced ends: a machine waits for its CONFIRM for ever only if its peer
\* has settled and then stays in a next migration for ever.
CommitSettles ==
    \A p \in Peers :
        <>[]Committing(p) =>
            <>[](/\ Committing(p)
                 /\ BusyBeyond(Other(p), contact[p].pending.mig))

\* A machine that knew of the offer let go of it without moving: it gave up,
\* or took up the offer that won a collision.
Dropped(o) ==
    \E p \in Peers :
        /\ o.mig \in known[p]
        /\ contact[p].pending.mig # o.mig
        /\ ~Completed(p, o.mig)

\* An offer made to a peer that is not committing itself, and that no machine
\* drops, moves both machines to its transport; where two offers crossed, the
\* one that stands does.  The first to settle may go on to its next migration
\* before the second has settled: what becomes of that one is CommitSettles.
OfferMoves ==
    \A p \in Peers : \A o \in MayOffer[p] :
        /\ contact[p].state = "OFFERED" /\ contact[p].pending = o
        /\ ~Committing(Other(p))
        ~>
            \/ Dropped(o)
            \/ \E r \in Peers : BusyBeyond(r, o.mig)
            \/ \A r \in Peers :
                   /\ contact[r].state = "ACTIVE"
                   /\ contact[r].active_transport = o.transport

=============================================================================

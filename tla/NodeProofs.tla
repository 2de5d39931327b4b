----------------------------- MODULE NodeProofs -----------------------------
(***************************************************************************)
(* The rule of src/spec/link-contact-ownership-v0.1.md, section 3, for every *)
(* set of references, offers, keys and majors.                              *)
(***************************************************************************)
EXTENDS Node, MachineProofs

\* Inductive: the second gate keeps the lifecycle where a driven migration
\* found it because a driven contact is one in progress, and the contact's
\* coherence is what carries its type through every call.
Inv ==
    /\ link \in Links
    /\ WellFormed(contact)
    /\ DrivenWhileEstablished

\* Offers the node may make are offers a caller may pass.
LEMMA MayOfferArguments ==
    ASSUME NEW o \in MayOffer
    PROVE  o \in [mig: MigrationRefs \cup {0}, transport: Transports \cup {0},
                  profile: Profiles \cup {0}, terms: Terms]
  BY NodeAssumption DEF Offers

\* None of the calls that are not gated drives a migration.
LEMMA UngatedCalls ==
    ASSUME NEW c, WellFormed(c)
    PROVE  /\ \A o \in MayOffer : Driven(RecordOffer(c, o)) => Driven(c)
           /\ \A source \in LocalRefs, o \in MayOffer :
                  Driven(ResolveOfferCollision(c, source, o)) => Driven(c)
           /\ \A m, t, p : \A s \in Sessions :
                  Driven(Agree(c, m, t, p, s)) => Driven(c)
           /\ \A ref \in LocalRefs : Driven(SetPeerRef(c, ref)) => Driven(c)
           /\ ~Driven(AbandonMigration(c)) \/ Driven(c)
           /\ Driven(Close(c)) => Driven(c)
<1>1. \A o : AdoptOffer(c, o).state = "OFFERED"
  BY DEF AdoptOffer, ClearChallenge, WellFormed, Contacts
<1>2. \A st \in States :
          ClearPending([c EXCEPT !.state = st]).state = st
  BY DEF ClearPending, ClearChallenge, WellFormed, Contacts
<1>3. ClearPending([c EXCEPT !.session_ref = 0, !.session_valid = FALSE,
                             !.state = "CLOSED"]).state = "CLOSED"
  BY DEF ClearPending, ClearChallenge, WellFormed, Contacts
<1>4. \A o \in MayOffer : Driven(RecordOffer(c, o)) => Driven(c)
  BY <1>1 DEF Driven, RecordOffer, After
<1>5. \A source \in LocalRefs, o \in MayOffer :
          Driven(ResolveOfferCollision(c, source, o)) => Driven(c)
  BY <1>1, <1>2 DEF Driven, ResolveOfferCollision, After, States
<1>6. \A m, t, p : \A s \in Sessions :
          Driven(Agree(c, m, t, p, s)) => Driven(c)
  BY DEF Driven, Agree, After, WellFormed, Contacts
<1>7. \A ref \in LocalRefs : Driven(SetPeerRef(c, ref)) => Driven(c)
  BY DEF Driven, SetPeerRef, After, WellFormed, Contacts
<1>8. ~Driven(AbandonMigration(c)) \/ Driven(c)
  BY <1>2 DEF Driven, AbandonMigration, After, States
<1>9. Driven(Close(c)) => Driven(c)
  BY <1>3 DEF Driven, Close, After
<1> QED
  BY <1>4, <1>5, <1>6, <1>7, <1>8, <1>9

\* A node that was initialised is IDLE and drives nothing.
LEMMA BegunNode ==
    ASSUME NEW c, WellFormed(c), NEW ref \in LocalRefs
    PROVE  /\ Fresh(SupportedMajors) \in Links
           /\ WellFormed(Begin(c, ref, FirstTransport))
           /\ ~Driven(Begin(c, ref, FirstTransport))
<1>1. FirstTransport \in Transports /\ FirstTransport # 0
  BY NodeAssumption, RefsAssumption
<1>2. Begin(c, ref, FirstTransport).state = "ACTIVE"
  BY <1>1 DEF Begin, BeginStatus, After, Cleared
<1> QED
  BY <1>1, <1>2, BeginWellFormed, FreshLink, NodeAssumption DEF Driven

\* A node that was just initialised satisfies the invariant.
LEMMA InitInv == Init => Inv
  BY ClearedWellFormed, BegunNode DEF Init, Inv, DrivenWhileEstablished

\* The calls that are not gated keep the invariant: they leave the link alone
\* and do not begin to drive.
LEMMA UngatedInv ==
    ASSUME Inv,
           \/ \E o \in MayOffer :
                  Offer(o) \/ \E source \in LocalRefs : Collide(source, o)
           \/ \E s \in Sessions : Accept(s)
           \/ \E ref \in LocalRefs : LearnPeer(ref)
           \/ GiveUp
           \/ CloseContact
    PROVE  Inv'
<1> DEFINE kept == /\ WellFormed(contact)' /\ link' = link
                   /\ Driven(contact') => Driven(contact)
<1>1. kept
  <2>1. ASSUME NEW o \in MayOffer, Offer(o)
        PROVE  kept
    BY <2>1, MayOfferArguments, RecordOfferWellFormed, UngatedCalls
    DEF Inv, Offer, SetContact
  <2>2. ASSUME NEW o \in MayOffer, NEW source \in LocalRefs, Collide(source, o)
        PROVE  kept
    BY <2>2, MayOfferArguments, ResolveOfferCollisionWellFormed, UngatedCalls
    DEF Inv, Collide, SetContact
  <2>3. ASSUME NEW s \in Sessions, Accept(s)
        PROVE  kept
    BY <2>3, AgreeWellFormed, UngatedCalls DEF Inv, Accept, SetContact
  <2>4. ASSUME NEW ref \in LocalRefs, LearnPeer(ref)
        PROVE  kept
    BY <2>4, SetPeerRefWellFormed, UngatedCalls DEF Inv, LearnPeer, SetContact
  <2>5. CASE GiveUp
    BY <2>5, AbandonMigrationWellFormed, UngatedCalls
    DEF Inv, GiveUp, SetContact
  <2>6. CASE CloseContact
    BY <2>6, CloseWellFormed, UngatedCalls DEF Inv, CloseContact, SetContact
  <2> QED
    BY <2>1, <2>2, <2>3, <2>4, <2>5, <2>6
<1> QED
  BY <1>1 DEF Inv, DrivenWhileEstablished

\* The controls keep it because they find the lifecycle where it must be.
LEMMA GatedInv ==
    ASSUME Inv,
           \/ \E ch \in Challenges : SendChallenge(ch)
           \/ SendCommit
           \/ \E m \in MigrationRefs, s \in Sessions :
                  \/ \E ch \in Challenges :
                         ApplyChallenge(m, s, ch) \/ ApplyResponse(m, s, ch)
                  \/ ApplyCommit(m, s)
                  \/ ApplyConfirm(m, s)
    PROVE  Inv' /\ link' = link
<1>1. WellFormed(contact)' /\ link' = link /\ MayDrive
  <2>1. ASSUME NEW ch \in Challenges, SendChallenge(ch)
        PROVE  WellFormed(contact)' /\ link' = link /\ MayDrive
    BY <2>1, ValidationBeginWellFormed DEF Inv, SendChallenge, SetContact
  <2>2. CASE SendCommit
    BY <2>2, CommitBeginWellFormed DEF Inv, SendCommit, SetContact
  <2>3. ASSUME NEW m \in MigrationRefs, NEW s \in Sessions,
               NEW ch \in Challenges, ApplyChallenge(m, s, ch)
        PROVE  WellFormed(contact)' /\ link' = link /\ MayDrive
    BY <2>3, ValidationBeginWellFormed, ValidationResponseWellFormed
    DEF Inv, ApplyChallenge, SetContact
  <2>4. ASSUME NEW m \in MigrationRefs, NEW s \in Sessions,
               NEW ch \in Challenges, ApplyResponse(m, s, ch)
        PROVE  WellFormed(contact)' /\ link' = link /\ MayDrive
    BY <2>4, ValidationResponseWellFormed DEF Inv, ApplyResponse, SetContact
  <2>5. ASSUME NEW m \in MigrationRefs, NEW s \in Sessions, ApplyCommit(m, s)
        PROVE  WellFormed(contact)' /\ link' = link /\ MayDrive
    BY <2>5, CommitAcceptWellFormed DEF Inv, ApplyCommit, SetContact
  <2>6. ASSUME NEW m \in MigrationRefs, NEW s \in Sessions, ApplyConfirm(m, s)
        PROVE  WellFormed(contact)' /\ link' = link /\ MayDrive
    BY <2>6, CommitConfirmWellFormed DEF Inv, ApplyConfirm, SetContact
  <2> QED
    BY <2>1, <2>2, <2>3, <2>4, <2>5, <2>6
<1> QED
  BY <1>1 DEF Inv, DrivenWhileEstablished, MayDrive

\* The lifecycle stays where a driven migration needs it.
LEMMA TransitionInv ==
    ASSUME Inv, NEW next \in LinkStates, LinkTransition(next)
    PROVE  /\ Inv'
           /\ Driven(contact) => link'.context_valid = link.context_valid
<1>1. contact' = contact /\ link' = Transition(link, next) /\ MayGo(next)
      /\ TransitionStatus(link, next) = "OK"
  BY DEF LinkTransition
<1>2. link' \in Links /\ link'.state = next
  BY <1>1, TransitionType DEF Inv
<1>3. Driven(contact) => Carries(link.state) /\ Carries(next)
  BY <1>1 DEF Inv, DrivenWhileEstablished, MayGo, Driven, MigrationInProgress
<1>4. Driven(contact) => link'.context_valid = link.context_valid
  <2>1. Carries(next) => ~DropsContext(link.state, next)
    BY DEF Carries, DropsContext
  <2> QED
    BY <1>1, <1>3, <2>1, TransitionType DEF Inv
<1> QED
  BY <1>1, <1>2, <1>3, <1>4 DEF Inv, DrivenWhileEstablished

\* A new context is installed without leaving the state.
LEMMA InstallInv ==
    ASSUME Inv, NEW key \in Keys, Install(key)
    PROVE  Inv' /\ link'.context_valid
<1>1. contact' = contact /\ link' = InstallContext(link, key)
      /\ InstallContextStatus(link, key) = "OK"
  BY DEF Install
<1> QED
  BY <1>1, InstallContextType DEF Inv, DrivenWhileEstablished

\* Searching changes neither machine.
LEMMA SearchInv ==
    ASSUME Inv, Search \/ UNCHANGED vars
    PROVE  Inv' /\ link' = link
  BY DEF Inv, Search, vars, DrivenWhileEstablished

\* Every operation of the node preserves it.
LEMMA NextInv ==
    ASSUME Inv, [Next]_vars
    PROVE  Inv'
<1>1. ASSUME NEW ref \in LocalRefs, Restart(ref)
      PROVE  Inv'
  BY <1>1, BegunNode DEF Inv, Restart, DrivenWhileEstablished
<1> QED
  BY <1>1, UngatedInv, GatedInv, TransitionInv, InstallInv, SearchInv DEF Next

\* It is an invariant of the node.
LEMMA NodeInv == Spec => []Inv
  BY InitInv, NextInv, PTL DEF Spec

-----------------------------------------------------------------------------
(* What a search of the candidate transport may find.                       *)

\* Two byte strings joined: each is found where it was put.
LEMMA Joined ==
    ASSUME NEW x \in Seq(Nat), NEW y \in Seq(Nat)
    PROVE  /\ x \o y \in Seq(Nat)
           /\ Len(x \o y) = Len(x) + Len(y)
           /\ \A i \in 1..Len(x) : (x \o y)[i] = x[i]
           /\ \A i \in 1..Len(y) : (x \o y)[Len(x) + i] = y[i]
  OBVIOUS

\* A string of two bytes.
LEMMA TwoBytes ==
    ASSUME NEW a \in Nat, NEW b \in Nat
    PROVE  /\ <<a, b>> \in Seq(Nat) /\ Len(<<a, b>>) = 2
           /\ <<a, b>>[1] = a /\ <<a, b>>[2] = b
  OBVIOUS

\* Two strings of two bytes.
LEMMA FourBytes ==
    ASSUME NEW x \in Seq(Nat), NEW y \in Seq(Nat), Len(x) = 2, Len(y) = 2
    PROVE  /\ x \o y \in Seq(Nat) /\ Len(x \o y) = 4
           /\ (x \o y)[3] = y[1] /\ (x \o y)[4] = y[2]
<1> DEFINE w == x \o y
<1>1. /\ w \in Seq(Nat) /\ Len(w) = Len(x) + Len(y)
      /\ \A i \in 1..Len(y) : w[Len(x) + i] = y[i]
  BY Joined
<1> HIDE DEF w
<1>2. w \in Seq(Nat) /\ Len(w) = 2 + 2 /\ \A i \in 1..2 : w[2 + i] = y[i]
  BY <1>1, Zenon
<1>3. 1 \in 1..2 /\ 2 \in 1..2 /\ 2 + 1 = 3 /\ 2 + 2 = 4
  OBVIOUS
<1>4. w[2 + 1] = y[1] /\ w[2 + 2] = y[2]
  BY <1>2, <1>3, Zenon
<1> QED
  BY <1>2, <1>3, <1>4, Zenon DEF w

\* Two strings of four bytes.
LEMMA EightBytes ==
    ASSUME NEW x \in Seq(Nat), NEW y \in Seq(Nat), Len(x) = 4, Len(y) = 4
    PROVE  /\ x \o y \in Seq(Nat) /\ Len(x \o y) = 8
           /\ (x \o y)[4] = x[4]
           /\ (x \o y)[7] = y[3] /\ (x \o y)[8] = y[4]
<1> DEFINE w == x \o y
<1>1. /\ w \in Seq(Nat) /\ Len(w) = Len(x) + Len(y)
      /\ \A i \in 1..Len(x) : w[i] = x[i]
      /\ \A i \in 1..Len(y) : w[Len(x) + i] = y[i]
  BY Joined
<1> HIDE DEF w
<1>2. /\ w \in Seq(Nat) /\ Len(w) = 4 + 4
      /\ \A i \in 1..4 : w[i] = x[i]
      /\ \A i \in 1..4 : w[4 + i] = y[i]
  BY <1>1, Zenon
<1>3. 3 \in 1..4 /\ 4 \in 1..4 /\ 4 + 3 = 7 /\ 4 + 4 = 8
  OBVIOUS
<1>4. w[4] = x[4] /\ w[4 + 3] = y[3] /\ w[4 + 4] = y[4]
  BY <1>2, <1>3, Zenon
<1> QED
  BY <1>2, <1>3, <1>4, Zenon DEF w

\* The eight bytes mcl_rendezvous_beacon_encode makes of an offer, as far as
\* they differ between offers.
LEMMA BeaconBytes ==
    ASSUME NEW t \in Nat, NEW n \in Nat
    PROVE  LET b == BeaconEncode(t, <<0, n>>)
           IN  /\ b \in Seq(Nat) /\ Len(b) = 8
               /\ b[4] = t
               /\ b[7] = n \div 256 /\ b[8] = n % 256
<1> DEFINE head == Magic \o <<BeaconVersion, t>>
           token == PutU16(0) \o PutU16(n)
<1>1. /\ 77 \in Nat /\ 67 \in Nat /\ 0 \in Nat
      /\ 0 \div 256 \in Nat /\ 0 % 256 \in Nat
      /\ n \div 256 \in Nat /\ n % 256 \in Nat
  OBVIOUS
<1>2. head \in Seq(Nat) /\ Len(head) = 4 /\ head[4] = t
  BY <1>1, TwoBytes, FourBytes DEF Magic, BeaconVersion
<1>3. /\ token \in Seq(Nat) /\ Len(token) = 4
      /\ token[3] = n \div 256 /\ token[4] = n % 256
  BY <1>1, TwoBytes, FourBytes DEF PutU16
<1> HIDE DEF head, token
<1>4. head \o token = BeaconEncode(t, <<0, n>>)
  BY DEF head, token, BeaconEncode, PutU32
<1>5. /\ head \o token \in Seq(Nat) /\ Len(head \o token) = 8
      /\ (head \o token)[4] = head[4]
      /\ (head \o token)[7] = token[3] /\ (head \o token)[8] = token[4]
  BY <1>2, <1>3, EightBytes
<1> QED
  BY <1>2, <1>3, <1>4, <1>5

\* A beacon that was published matches the transport and the token it was
\* published for and no others: mcl_rendezvous_beacon_matches reads back the
\* number that was put in.
LEMMA PublishedMatches ==
    ASSUME NEW t \in Nat, NEW n \in Nat, NEW u, NEW k \in Nat,
           BeaconMatches(BeaconEncode(t, <<0, n>>), u, <<0, k>>)
    PROVE  t = u /\ n = k
<1> DEFINE b == BeaconEncode(t, <<0, n>>)
<1>2. b[4] = t /\ b[7] = n \div 256 /\ b[8] = n % 256
  BY BeaconBytes
<1>3. b[4] = u /\ GetU32(b, 4) = <<0, k>>
  BY DEF BeaconMatches
<1>4. GetU32(b, 4)[2] = 256 * b[7] + b[8]
  BY DEF GetU32, GetU16
<1>5. 256 * (n \div 256) + (n % 256) = n
  OBVIOUS
<1> HIDE DEF b
<1> QED
  BY <1>2, <1>3, <1>4, <1>5

\* Traffic that only resembles a beacon of the candidate transport is refused:
\* by its magic, its version, its transport or its length.
LEMMA ResemblingRefused ==
    ASSUME NEW o \in MayOffer, NEW bytes \in Resembling(o), NEW token
    PROVE  ~BeaconMatches(bytes, o.transport, token)
<1> DEFINE b == BeaconEncode(o.transport, Token(o))
<1>1. o.transport \in Nat /\ o.terms \in Nat
  BY NodeAssumption, RefsAssumption DEF Offers
<1>4. b \in Seq(Nat) /\ Len(b) = 8
  <2>1. b = BeaconEncode(o.transport, <<0, o.terms>>)
    BY DEF Token
  <2> HIDE DEF b
  <2> QED
    BY <1>1, <2>1, BeaconBytes
<1>5. bytes \in {[b EXCEPT ![2] = 0], [b EXCEPT ![3] = 1],
                 [b EXCEPT ![4] = o.transport + 1], SubSeq(b, 1, 7)}
  BY DEF Resembling
<1> HIDE DEF b
<1>6. CASE bytes = [b EXCEPT ![2] = 0]
  <2>1. bytes \in Seq(Nat) /\ Len(bytes) = 8 /\ bytes[2] = 0
    BY <1>4, <1>6
  <2>2. SubSeq(bytes, 1, 2)[2] = bytes[1 + 2 - 1] /\ 1 + 2 - 1 = 2
    BY <2>1
  <2>3. SubSeq(bytes, 1, 2)[2] = 0
    BY <2>1, <2>2
  <2>4. Magic[2] = 67
    BY DEF Magic
  <2> QED
    BY <2>1, <2>3, <2>4 DEF BeaconMatches, BeaconDecodeStatus, BeaconSize
<1>7. CASE bytes = [b EXCEPT ![3] = 1]
  <2>1. bytes \in Seq(Nat) /\ Len(bytes) = 8 /\ bytes[3] = 1
    BY <1>4, <1>7
  <2> QED
    BY <2>1 DEF BeaconMatches, BeaconDecodeStatus, BeaconSize, BeaconVersion
<1>8. CASE bytes = [b EXCEPT ![4] = o.transport + 1]
  <2>1. bytes[4] = o.transport + 1
    BY <1>1, <1>4, <1>8
  <2> QED
    BY <1>1, <2>1 DEF BeaconMatches
<1>9. CASE bytes = SubSeq(b, 1, 7)
  <2>1. Len(bytes) = 7
    BY <1>4, <1>9
  <2> QED
    BY <2>1 DEF BeaconMatches, BeaconDecodeStatus, BeaconSize
<1> QED
  BY <1>5, <1>6, <1>7, <1>8, <1>9

\* Every offer a contact works on is one somebody made.
PendingWasOffered == contact.pending \in MayOffer \cup {NoOffer}

\* No call invents an offer: the pending one stays, is replaced by the one the
\* call was given, or is dropped.
LEMMA CallsKeepPending ==
    ASSUME NEW c, WellFormed(c), c.pending \in MayOffer \cup {NoOffer}
    PROVE  LET known(d) == d.pending \in MayOffer \cup {NoOffer}
           IN  /\ \A o \in MayOffer : known(RecordOffer(c, o))
               /\ \A source \in LocalRefs, o \in MayOffer :
                      known(ResolveOfferCollision(c, source, o))
               /\ \A m, t, p, s : known(Agree(c, m, t, p, s))
               /\ \A ref : known(SetPeerRef(c, ref))
               /\ known(AbandonMigration(c))
               /\ known(Close(c))
               /\ \A ch : known(ValidationBegin(c, ch))
               /\ \A m, s, ch : known(ValidationResponse(c, m, s, ch))
               /\ known(CommitBegin(c))
               /\ \A m, s : known(CommitAccept(c, m, s))
               /\ \A m, s : known(CommitConfirm(c, m, s))
               /\ \A ref : known(Begin(c, ref, FirstTransport))
<1> DEFINE known(d) == d.pending \in MayOffer \cup {NoOffer}
<1>1. c \in Contacts
  BY DEF WellFormed
<1>2. \A o \in MayOffer : known(AdoptOffer(c, o))
  BY <1>1 DEF AdoptOffer, ClearChallenge, Contacts
<1>3. known(ClearPending([c EXCEPT !.state = "ACTIVE"]))
  BY <1>1 DEF ClearPending, ClearChallenge, Contacts
<1>4. known(Close(c))
  BY <1>1 DEF Close, After, ClearPending, ClearChallenge, Contacts
<1>5. \A m : known(SettleCommit(c, m))
  BY <1>1 DEF SettleCommit, ClearPending, ClearChallenge, Contacts
<1>6. \A o \in MayOffer : known(RecordOffer(c, o))
  BY <1>2 DEF RecordOffer, After
<1>7. \A source \in LocalRefs, o \in MayOffer :
          known(ResolveOfferCollision(c, source, o))
  BY <1>2, <1>3 DEF ResolveOfferCollision, After
<1>8. \A m, t, p, s : known(Agree(c, m, t, p, s))
  BY <1>1 DEF Agree, After, Contacts
<1>9. \A ref : known(SetPeerRef(c, ref))
  BY <1>1 DEF SetPeerRef, After, Contacts
<1>10. known(AbandonMigration(c))
  BY <1>3 DEF AbandonMigration, After
<1>11. \A ch : known(ValidationBegin(c, ch))
  BY <1>1 DEF ValidationBegin, StoreChallenge, After, Contacts
<1>12. \A m, s, ch : known(ValidationResponse(c, m, s, ch))
  BY <1>1 DEF ValidationResponse, After, Contacts
<1>13. known(CommitBegin(c))
  BY <1>1 DEF CommitBegin, After, Contacts
<1>14. \A m, s : known(CommitAccept(c, m, s))
  BY <1>5 DEF CommitAccept, After
<1>15. \A m, s : known(CommitConfirm(c, m, s))
  BY <1>5 DEF CommitConfirm, After
<1>16. \A ref : known(Begin(c, ref, FirstTransport))
  BY DEF Begin, After, Cleared
<1> QED
  BY <1>4, <1>6, <1>7, <1>8, <1>9, <1>10, <1>11, <1>12, <1>13, <1>14, <1>15,
     <1>16

\* A search that succeeds found the beacon of the offer the contact agreed to.
LEMMA SearchFindsTheOffered ==
    ASSUME WellFormed(contact), PendingWasOffered, Search
    PROVE  EndpointIsTheOffered'
<1> DEFINE o == contact.pending
<1>1. contact.state = "AGREED" /\ contact' = contact
  BY DEF Search
<1>2. o \in Offers
  BY <1>1 DEF WellFormed, Coherent, PendingMatchesState, MigrationInProgress
<1>3. o \in MayOffer
  BY <1>2, RefsAssumption DEF PendingWasOffered, Offers, NoOffer
<1>4. ControlTransport(contact) = o.transport
  BY <1>1 DEF ControlTransport, MigrationInProgress
<1>5. PICK h \in OnTheAir : /\ h.medium = o.transport
                            /\ BeaconMatches(h.bytes, o.transport, Token(o))
                            /\ endpoint' = {h}
  BY <1>4 DEF Search
<1>6. h.of = o.mig
  <2>1. CASE h \in Published
    <3>1. PICK q \in MayOffer :
              h = Heard(q.transport, BeaconEncode(q.transport, Token(q)), q.mig)
      BY <2>1 DEF Published
    <3>2. h.bytes = BeaconEncode(q.transport, Token(q)) /\ h.of = q.mig
      BY <3>1 DEF Heard
    <3>3. q.terms \in Nat /\ q.transport \in Nat /\ o.terms \in Nat
      BY <1>2, NodeAssumption, RefsAssumption DEF Offers
    <3>4. q.terms = o.terms
      BY <1>5, <3>2, <3>3, PublishedMatches DEF Token
    <3> QED
      BY <1>3, <3>2, <3>4, NodeAssumption
  <2>2. CASE h \notin Published
    <3>1. PICK q \in MayOffer : \E bytes \in Resembling(q) :
                                    h = Heard(q.transport, bytes, 0)
      BY <2>2 DEF OnTheAir
    <3>2. h.medium = q.transport /\ h.bytes \in Resembling(q)
      BY <3>1 DEF Heard
    <3> QED
      BY <1>5, <3>2, ResemblingRefused
  <2> QED
    BY <2>1, <2>2
<1> QED
  BY <1>1, <1>5, <1>6 DEF EndpointIsTheOffered

\* A contact that begins holds no offer.
LEMMA BegunPending ==
    ASSUME NEW ref \in LocalRefs
    PROVE  Begin(Cleared, ref, FirstTransport).pending = NoOffer
  BY DEF Begin, After, Cleared

\* No step of the node invents an offer.
LEMMA PendingStep ==
    ASSUME Inv, PendingWasOffered, [Next]_vars
    PROVE  PendingWasOffered'
<1> DEFINE known(d) == d.pending \in MayOffer \cup {NoOffer}
<1>1. WellFormed(contact) /\ known(contact)
  BY DEF Inv, PendingWasOffered
<1>2. ASSUME \E o \in MayOffer :
                 Offer(o) \/ \E source \in LocalRefs : Collide(source, o)
      PROVE  known(contact')
  BY <1>1, <1>2, CallsKeepPending DEF Offer, Collide, SetContact
<1>3. ASSUME \/ \E s \in Sessions : Accept(s)
             \/ \E ref \in LocalRefs : LearnPeer(ref)
             \/ GiveUp
             \/ CloseContact
      PROVE  known(contact')
  BY <1>1, <1>3, CallsKeepPending
  DEF Accept, LearnPeer, GiveUp, CloseContact, SetContact
<1>4. ASSUME \/ \E ch \in Challenges : SendChallenge(ch)
             \/ SendCommit
      PROVE  known(contact')
  BY <1>1, <1>4, CallsKeepPending DEF SendChallenge, SendCommit, SetContact
<1>5. ASSUME NEW m \in MigrationRefs, NEW s \in Sessions, NEW ch \in Challenges,
             ApplyChallenge(m, s, ch)
      PROVE  known(contact')
  <2>1. WellFormed(ValidationBegin(contact, ch))
    BY <1>1, ValidationBeginWellFormed
  <2>2. known(ValidationBegin(contact, ch))
    BY <1>1, CallsKeepPending
  <2>3. known(ValidationResponse(ValidationBegin(contact, ch), m, s, ch))
    BY <2>1, <2>2, CallsKeepPending
  <2> QED
    BY <1>5, <2>3 DEF ApplyChallenge, SetContact
<1>6. ASSUME \E m \in MigrationRefs, s \in Sessions :
                 \/ \E ch \in Challenges : ApplyResponse(m, s, ch)
                 \/ ApplyCommit(m, s)
                 \/ ApplyConfirm(m, s)
      PROVE  known(contact')
  BY <1>1, <1>6, CallsKeepPending
  DEF ApplyResponse, ApplyCommit, ApplyConfirm, SetContact
<1>7. ASSUME NEW ref \in LocalRefs, Restart(ref)
      PROVE  known(contact')
  BY <1>1, <1>7, CallsKeepPending DEF Restart
<1>8. ASSUME \/ Search
             \/ \E next \in LinkStates : LinkTransition(next)
             \/ \E key \in Keys : Install(key)
             \/ UNCHANGED vars
      PROVE  known(contact')
  BY <1>1, <1>8 DEF Search, LinkTransition, Install, vars
<1>9. known(contact')
  BY <1>2, <1>3, <1>4, <1>5, <1>6, <1>7, <1>8 DEF Next
<1> QED
  BY <1>9 DEF PendingWasOffered

-----------------------------------------------------------------------------

\* Both machines keep their types, and a resolved endpoint goes with the
\* transaction it was resolved for: whatever ends that one drops it.
THEOREM NodeTypeCorrect == Spec => []TypeOK
<1> DEFINE resolved == /\ endpoint \subseteq OnTheAir
                       /\ endpoint # {} => MigrationInProgress(contact)
<1>1. Init => resolved
  BY DEF Init
<1>2. ASSUME Inv, Inv', resolved, NEW c, SetContact(c)
      PROVE  resolved'
  BY <1>2 DEF SetContact, Inv, WellFormed, Coherent, PendingMatchesState
<1>3. ASSUME Inv, Inv', resolved, [Next]_vars
      PROVE  resolved'
  <2>1. CASE \E c : SetContact(c)
    BY <1>2, <1>3, <2>1
  <2>2. CASE Search
    BY <1>3, <2>2 DEF Search, MigrationInProgress
  <2>3. CASE UNCHANGED <<contact, endpoint>>
    BY <1>3, <2>3 DEF MigrationInProgress
  <2>4. CASE endpoint' = {}
    BY <2>4
  <2> QED
    BY <1>3, <2>1, <2>2, <2>3, <2>4
    DEF Next, vars, Offer, Collide, Accept, LearnPeer, GiveUp, CloseContact,
        SendChallenge, SendCommit, ApplyChallenge, ApplyResponse, ApplyCommit,
        ApplyConfirm, LinkTransition, Install, Restart
<1>4. Inv /\ resolved => TypeOK
  BY DEF Inv, TypeOK, WellFormed
<1> HIDE DEF resolved
<1> QED
  BY <1>1, <1>3, <1>4, NodeInv, PTL DEF Spec

\* link-contact-ownership-v0.1.md, section 3: a migration that is being driven
\* finds the lifecycle ESTABLISHED or in HANDOFF.
THEOREM NodeDriven == Spec => []DrivenWhileEstablished
<1>1. Inv => DrivenWhileEstablished
  BY DEF Inv
<1> QED
  BY <1>1, NodeInv, PTL

\* Between the first challenge and the settled move no step but a restart
\* drops the context the link holds.
THEOREM NodeKeepsContext == Spec => MoveKeepsContext
<1>1. ASSUME Inv, [Next]_vars
      PROVE  [Driven(contact) /\ link.context_valid =>
                 \/ link'.context_valid
                 \/ \E ref \in LocalRefs : Restart(ref)]_vars
  <2>1. ASSUME \/ \E o \in MayOffer :
                      Offer(o) \/ \E source \in LocalRefs : Collide(source, o)
               \/ \E s \in Sessions : Accept(s)
               \/ \E ref \in LocalRefs : LearnPeer(ref)
               \/ GiveUp
               \/ CloseContact
        PROVE  link' = link
    BY <2>1 DEF Offer, Collide, Accept, LearnPeer, GiveUp, CloseContact
  <2> QED
    BY <1>1, <2>1, GatedInv, TransitionInv, InstallInv, SearchInv DEF Next
<1> QED
  BY <1>1, NodeInv, PTL DEF Spec, MoveKeepsContext

\* mcl_rendezvous_beacon_matches, and what the node does with its answer: the
\* endpoint a machine holds was published by the peer that made the offer the
\* machine is working on, whatever else is on the air and however many offers
\* of the same transport were abandoned before it.
THEOREM NodeEndpoint == Spec => []EndpointIsTheOffered
<1>1. Init => PendingWasOffered /\ EndpointIsTheOffered
  BY BegunPending DEF Init, PendingWasOffered, EndpointIsTheOffered
<1>2. ASSUME Inv, PendingWasOffered, [Next]_vars
      PROVE  PendingWasOffered'
  BY <1>2, PendingStep
<1>3. ASSUME Inv, PendingWasOffered, EndpointIsTheOffered, [Next]_vars
      PROVE  EndpointIsTheOffered'
  <2>1. CASE \E c : SetContact(c)
    BY <1>3, <2>1 DEF SetContact, EndpointIsTheOffered
  <2>2. CASE Search
    BY <1>3, <2>2, SearchFindsTheOffered DEF Inv
  <2>3. CASE UNCHANGED <<contact, endpoint>>
    BY <1>3, <2>3 DEF EndpointIsTheOffered
  <2>4. CASE endpoint' = {}
    BY <2>4 DEF EndpointIsTheOffered
  <2> QED
    BY <1>3, <2>1, <2>2, <2>3, <2>4
    DEF Next, vars, Offer, Collide, Accept, LearnPeer, GiveUp, CloseContact,
        SendChallenge, SendCommit, ApplyChallenge, ApplyResponse, ApplyCommit,
        ApplyConfirm, LinkTransition, Install, Restart
<1> QED
  BY <1>1, <1>2, <1>3, NodeInv, PTL DEF Spec

=============================================================================

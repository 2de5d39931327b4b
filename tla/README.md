# MCL Link: a verification development

TLA+ models of the state machines of `mcl-link` (C, `src/src/*.c`), the TLC
configurations that check them on small instances, and TLAPS proofs that carry
the most important results to every value of the constants.

`PROJECT.json` is the index: components, runs, the source lines behind every
definition (`map`), hazards with the property that would catch each, findings,
theorems, and for every property a mutant that breaks it.

## 1. The system

The library is a set of pure C99 functions on caller-owned structs. It has no
thread, no clock, no transport and no allocator: everything that happens is a
call, made by the *SDK* (not in this repository), which owns the radios, the
timers and the retransmissions. What is hard is therefore not data races but
*call order*: any function may be called in any state, with arguments taken
from frames a radio delivered late, twice, out of order or not at all, and two
machines do this to each other.

| Component | Source | State | Operations | What makes it correct |
|---|---|---|---|---|
| Contact (transport continuity) | `src/src/contact.c` | `mcl_contact_t`: references, state, active transport, pending offer, challenge, session, last completed migration, counter | begin, set_peer_ref, record_offer, resolve_offer_collision, agree, validation_begin / _response, challenge_repeat, commit_begin / _confirm / _accept / _repeat, abandon_migration, close, five readers | fields of one transaction agree with each other and with the state; moves only to a proven candidate; no way back once COMMIT was sent; one session per contact; copies answered alike |
| Migration exchange | `contact.c` used from both sides, `spec/link-handoff-control-v0.1.md` | two contacts, the frames between them, what each caller remembers | OFFER, ACCEPT, PATH_CHALLENGE, PATH_RESPONSE, COMMIT, CONFIRM, retransmission, timeout, close | both machines end on one transport; a COMMIT has a peer that can still answer it; one controller after a glare; a migration nobody drops completes |
| Link lifecycle and context | `src/src/link.c:33-320` | `mcl_link_t`: state, active context, supported majors | init, reset, transition, install_context, authorize_context, context_key_equals | a context authorizes only in the session it was installed in; ESTABLISHED implies a negotiation with the present peer |
| Negotiation | `src/src/negotiation.c` | none in the library; the caller keeps its capability, the peer's, the selection | make_capability, encode / decode, select, check | what is in force can be honoured; two simultaneous proposals agree without a tiebreaker |
| Acknowledgement window | `src/src/control.c:258`, `control.h:202-223` | none in the library; the caller keeps a table of outstanding frames | sequence_is_live | an acknowledgement is matched to the frame it was sent for, as far as 16 bits can tell |
| Link frame codec | `link.c:321-629` | none; the decoder writes into the caller's struct as it goes | frame_encode, frame_encode_at_major, frame_decode, crc32 | a stream of bytes, however cut, is a stream of frames; TRUNCATED never asks for more than a buffer can hold; nothing checked is made up |
| Link controls | `control.c`, `handoff.c` | none | make, encode, decode of ACK, NACK, CLOSE, KEEPALIVE and the four HANDOFF controls | a decoder accepts what an encoder makes and leaves nothing stale; no bytes are legal under two of these classes |
| Rendezvous beacon | `endpoint_rendezvous.c` | none | beacon_encode, _decode, _matches | the endpoint found is the one of the agreed offer |
| Node | `spec/link-contact-ownership-v0.1.md` | one link and one contact | none in the library; two gates in the SDK | the lifecycle does not leave ESTABLISHED or HANDOFF during a migration, and a migration is driven nowhere else |
| Handoff vector validator | `tools/validate_handoff_vectors.c` | a cursor into a text, two counters | search, decode, compare, exit code | success means that every vector is true (it does not: violation 4) |
| Registry validator, tests, vectors, research notes | `src/tools`, `src/tests`, `src/conformance`, `src/registries`, `src/research` | none that outlives a run | | |

Interactions. The contact and the link are siblings: neither calls the other
(`contact.h`, the note above `mcl_contact_state_t`), the SDK ties them
together. Two contacts interact through six frames; OFFER and ACCEPT travel on
the old transport, the four handoff controls on the candidate
(`mcl_contact_control_transport`). Negotiation's result reaches the link only
through the caller's `mcl_link_transition`.

Hard behaviours: duplicates whose answer was lost; late copies of an earlier
migration; both machines offering at once; a timeout that races a COMMIT; an
acceptance that is lost after it bound the session; a migration retried under
the same challenge bytes; a capability that changes while a selection is in
flight; sequences that wrap; a frame that arrives in pieces or with an altered
byte; a struct decoded into twice; a beacon of an abandoned attempt; a lifecycle
that moves under a migration. Each is in `hazards`, at the line where it bites.

## 2. The modules

| Module | Models | Kind |
|---|---|---|
| `ContactMachine` | every function of `contact.c` as operators on one contact: `fStatus` (the early returns, in order) and `f` (the contact left behind); `Coherent`, what every call keeps true | operators |
| `Contact` | one contact, any call, any arguments; its properties | state machine |
| `TransportContinuity` | what a contact promises, without messages: carrier, candidate, session | abstract specification |
| `MachineProofs` | lemmas per operation of the contact and of the link, shared by four proof modules | proofs |
| `ContactProofs` | the theorems about `Contact` | proofs |
| `Migration` | two contacts, their callers, the media | composition |
| `CommonCarrier` | what two machines promise together, without frames: one pledges itself, the other follows, the first settles | abstract specification |
| `MCMigration` | who may offer, choose, give up | values for TLC |
| `MigrationProofs` | the inductive invariant of the exchange and the theorems about `Migration` | proofs |
| `LinkMachine`, `LinkLifecycle` | `link.c`'s lifecycle and context; a link driven in any order, with history | operators, state machine |
| `LinkLifecycleProofs` | the theorems about `LinkLifecycle` | proofs |
| `Negotiation`, `NegotiationExchange` | `negotiation.c`; two reconfigurable machines | operators, state machine |
| `MCNegotiation` | an older and a newer machine | values for TLC |
| `NegotiationProofs` | theorems about `NegotiationExchange` | proofs |
| `AckWindow` | `sequence_is_live` and a sender and receiver that use it | state machine |
| `AckWindowProofs` | modular arithmetic and the theorems about `AckWindow` | proofs |
| `Octets`, `LinkFrame`, `Controls` | bytes; the frame codec with its CRC; the controls and the beacon | operators |
| `FrameChannel` | what a stream of frames promises: in order, once, and after an altered byte nothing checked that was not sent | abstract specification |
| `FrameStream` | a sender, a stream cut into pieces, a reassembling receiver | composition |
| `MCFrameStream` | the frames that are sent | values for TLC |
| `FrameStreamProofs` | the layout and the round trip of a frame, the round trips of the controls, the theorems about `FrameStream` | proofs |
| `Node` | `LinkMachine`, `ContactMachine` and the beacon in one machine, behind the SDK's gates | composition |
| `MCNode` | the offers | values for TLC |
| `NodeProofs` | theorems about `Node` | proofs |
| `HandoffVectors` | the validator of the published vectors | state machine |
| `MCHandoffVectors` | true and edited vectors, and an incomplete one | values for TLC |

How state and actions correspond to the code:

- **`ContactMachine`**. The record has the fields of `mcl_contact_t`; the five
  `pending_*` fields are one record `pending`, with `endpoint_token` and
  `validity` as one value `terms` (no code tells them apart). A value that has
  a validity flag keeps both the flag and the value. 0 is the reserved value
  everywhere, as in the code. `role` is not kept: it is stored and never read.
  A call that is refused leaves the contact alone; each C function performs
  every check before its first assignment, and the operator `After` says so.
- **`Contact`**. One action per function that writes the contact. Arguments
  range over all known references and the reserved 0, so that every early
  return is taken.
- **`Migration`**. One action per thing a caller does: each calls the function
  of `contact.c` named in the comment through `ContactMachine`, and sends what
  the specification says is sent. An ACCEPT carries the offer it answers;
  the controls carry migration, session and challenge (`handoff.c:210-297`).
  A frame is received on the transport its receiver listens on for that kind
  (`control_transport` for the four controls, `data_transport` for the offer).
  The receiver of a PATH_CHALLENGE calls `validation_begin` and then
  `validation_response` with the same bytes, in one step, as
  `src/tests/test_contact.c` does and as the specification requires.
  `controls` is the caller's knowledge of which side it is; `known` its memory
  of migration references (see finding 1); `crossed` is history.
  Rendezvous on the candidate is taken to have succeeded. `Pair` maps the two
  contacts to `CommonCarrier`: a machine in COMMITTING is pledged to its
  pending offer, since a COMMIT that was sent cannot be taken back. `Side(p)`
  maps each contact to `TransportContinuity`, as `Contact` does (`PhaseOf`).
- **`LinkMachine` / `LinkLifecycle`**. The digest is an array of `DigestMax`
  bytes with its size, because the code compares a prefix and clears a tail.
  `granted` and `negotiated` are history, kept independently of the link.
- **`Negotiation` / `NegotiationExchange`**. A bitmap is the set of its bits.
  Lengths are one of "short", "exact", "long". The exchange keeps what each
  machine supports, heard and agreed; a frame limit `NetMax` bounds the medium.
- **`AckWindow`**. Frames are counted without wrapping, which no machine on
  the link can do, so that the model can tell which frame an acknowledgement
  was meant for; the code sees the count modulo `Space`. Nothing bounds the time
  an acknowledgement is under way. `Ambiguous` acknowledgements are those whose
  sequence is that of one of the last `Window` frames, too.
- **`LinkFrame` / `Controls`**. Byte by byte, with the real sizes, numbers and
  polynomial; only `MaxPayload` is a parameter. `fStatus` is the order of the
  early returns. `Decode` gives the caller's struct in every case, errors
  included: `ReadsMajor`, `ReadsFlags`, `ReadsHeader` and `ReadsPayload` are the
  points up to which `mcl_link_frame_decode` has assigned when it returns. A
  borrowed payload is a position in the input. A 32-bit number is a pair of
  16-bit halves. The CRC register is the set of its 1 bits.
- **`FrameStream`**. The carriage is a transport binding's (external), modelled
  from what `link.h` asks of it: a buffer of `MaxSize` bytes, the decoder asked
  after every change of the buffer (`Judge`), wait on TRUNCATED, go on behind
  `*consumed` on OK, otherwise scan on by one byte or drop the buffer. One byte
  in all may be altered. `extent` is how much of the buffer's storage was ever
  written, so that a pointer to bytes never received can be told; `read`
  remembers the bytes each control struct was last decoded from.
- **`Node`**. `MayDrive` and `MayGo` are the two gates of
  `link-contact-ownership-v0.1.md:84-101`; everything behind them is the
  library. The caller walks the lifecycle by hand, offers come and go ungated,
  controls carry any known reference, and a restart initialises both machines.
  `terms` of an offer is here its `endpoint_token`. `OnTheAir` keeps every
  beacon ever published, with the transaction it was published for, which the
  scanner cannot see.
- **`HandoffVectors`**. A section of the file is the sequence of its fields,
  since the tool sees no objects, only keys. A field keeps the length of its
  text where the tool has an array of fixed size for it.

Operators whose name contains `Slip`, `Forgets`, `AnyMigration` or `OnReturn` are used by
no specification. Each is one plausible mistake in the definition it precedes
(a dropped guard, a forgotten reset, an off-by-one); put in its place, it
breaks the property `mutants` names, which shows that the property depends on
the code being right.

## 3. The runs

| Run | Question | Bounds | States |
|---|---|---|---|
| `Contact` | Does one contact survive any call sequence? Does it implement `TransportContinuity`? | 2 local, migration, transport and session references, 2 terms, 2 challenges, counter to 2 | 4,081 |
| `MigrationMoves` | Do two machines stay on one transport, whatever is delayed, repeated, reordered, given up or closed? Do they implement `CommonCarrier`? | 6 offers that collide, share a reference or go back; equal and unequal references; one challenge value for all; A may close | 187,723 |
| `MigrationLossy` | If frames vanish and callers retransmit, does a migration finish, and is every COMMIT confirmed? | 2 offers that cross or follow each other over 3 transports; the controller may give up before commit; one session reference | 35,325 |
| `LinkLifecycle` | Is a context good exactly in its session? | 2 majors and one too large, 2 generations, digests of up to 2 bytes, claimed sizes to 3 | 420 |
| `Negotiation` | Can what is in force be honoured, and do the machines end with one selection? | 2 and 3 configurations, 3 frames in flight | 16,595 |
| `AckWindow` | Is an acknowledgement matched to the right frame? | space 8, window 2, 18 frames, 2 acknowledgements | 50,482 |
| `FrameStream` | Is a stream of frames a channel of frames? Does every frame arrive? | 6 frames (each control, each optional field, both majors, with and without a check), 2 sent, pieces of 1, 3 and all bytes, 4 alterations of one byte | 42,466 |
| `Node` | Do lifecycle and migration stay out of each other's way? Is the endpoint the offered one? | 3 offers, one of them without a usable token; 2 sessions, 2 challenges, 2 generations of the context | 12,870 |

The bounds are enough because the code compares references for equality (two
values and the reserved one make every comparison go both ways; the collision
rule orders them, and both orders and equality occur), because the counter
saturates at 2 as it does at 0xFFFF, because a third transport makes a
collision between different candidates possible, and because 18 frames are two
and a quarter wraps of a space of 8 with the code's ratio of a quarter. In
`AckWindow` an acknowledgement can be under way for both wraps, so that it may
come home within the window of a younger frame. In `MigrationLossy` the offer
of either machine may cross the other's or be made after the other's
migration, by the machine that settled first included. Its acceptors do not
give up (finding 2), and both would bind the same session (finding 3): two
sessions, or an acceptor that forgot an offer it ignores ever after while its
own loses to it, stop the exchange until a timeout. In
`FrameStream` `MaxPayload` is 18, the size of the largest control, so that the
length 18 is legal and an altered length is not; two frames are enough for one
to be taken for a part of the other, and behind an altered byte nothing new is
sent and the rest arrives in one piece. In `Node` two offers of one transport
make the beacon of an abandoned attempt audible during the next.

`CHECK_DEADLOCK FALSE` appears in the `Migration`, `AckWindow` and
`FrameStream` configurations: there every offer is made once and the number of
frames is bounded, so the model, like two machines that have nothing left to
say, may stop; and in `HandoffVectors`, since the tool ends. The other systems
never stop.

### Fairness

`MigrationLossy`. A caller that waits keeps repeating its frame and takes
the step whose turn it is (weak fairness, per machine): this is what
`link-handoff-control-v0.1.md` section 8 asks of it. A medium that is offered a
kind of frame again and again delivers one eventually (strong fairness, per
kind of frame): without it no protocol could finish. Nobody is obliged to make
an offer, to give up, or to close: so a machine may stay in a migration for
ever, and `CommitSettles` says that a COMMIT is unconfirmed for ever only then,
when its receiver has settled and is in a next migration for ever. That wait is
real. The settled machine answers a repeated COMMIT in ACTIVE only, and its
offer is not for a peer that is committing (it still listens on the old
transport, and `record_offer` would refuse), so each waits for the other until
the offer is given up. `OfferMoves` therefore starts from an offer to a peer that is not
committing. Where two offers cross it says that the one that stands moves both
machines; of a machine that lets go of its offer it says nothing.

`Negotiation`. Both controls are repeated, since neither is acknowledged, and a
medium that is offered one for ever delivers one (strong fairness). The senders'
fairness is strong only because the bound on the frames in flight could let
one keep the other out. A refused control does not stay in flight. Nobody is
obliged to reconfigure, and each configuration is used once.

`FrameStream`. The medium delivers bytes that were sent and the carriage takes
its step (weak fairness of `Carry`, which is always one of three steps). Nobody
is obliged to send or to alter.

### Violations: what a document says and the code does not do

1. `MigrationLateCopies`. A contact remembers one completed migration. Late copies of
   the OFFER, ACCEPT, PATH_CHALLENGE and COMMIT of an earlier one are taken for
   a new migration and move one machine again. With a caller that remembers
   the references it has seen (`RemembersOffers = TRUE`), `OneCarrier` holds:
   the rest of the project assumes such a caller.
2. `MigrationAbandon`. `abandon_migration` is accepted in VALIDATED on the accepting
   side too, where the COMMIT may already be on its way; the sender is then
   COMMITTING with nobody left to confirm. The other runs let the accepting
   side give up before VALIDATED only (`BeforeCommit`).
3. `MigrationTwoSessions`. An ACCEPT that is lost leaves the accepting side bound to a
   session; the next migration, in the other direction, binds another one on
   the other side. It takes a controller that withdraws an offer nobody has
   answered, or an acceptor that gives up what it agreed to: with neither,
   the sessions agree (`SessionsSafe`, section 4).
4. `HandoffVectors`. A negative vector without an `expect` is judged by that of
   the next one, whose bytes are then skipped; the validator, whose purpose is
   to decode them all, succeeds. The file in the repository has an `expect` in
   every vector.

Divergences that were met and have no run of their own:

- `contact.h:275-278` says a repeat of a control naming the same transaction
  with the same content succeeds; a repeated OFFER is refused once the offer
  has been accepted (`contact.c:235`).
- `link-handoff-control-v0.1.md:343` says a peer that has completed a migration
  must confirm its COMMIT again; one that has begun the next migration does
  not, since `commit_repeat` answers in ACTIVE only (`contact.c:620`). It can
  again once that next migration is dropped. `contact.h:608` says the window is
  bounded by the CONFIRM exchange; `CommitSettles` says by what else.
- `control.h:205-215` and `test_control.c:254-259` present the window as what
  distinguishes a late acknowledgement from a new one. It does unless the
  sequence is that of one of the last `Window` frames: such a one, late by a
  whole number of wraps and less than a window, is live (`control.c:280`) and
  matched to the younger frame, received or not. `MatchedWasReceived` is what is
  left of the claim; without its `~Ambiguous(k)` TLC refutes it.
- `spec/link-v0.md:473` sends a negotiation that times out back to discovery or
  fallback; `mcl_link_transition` lets NEGOTIATING go to ESTABLISHED, IDLE and
  CLOSED only (`link.c:223-233`).
- `control.h:226` asks of `sequence_is_live` whether a frame "could still be
  outstanding", while the limit at `control.h:211-213` is on the *number*
  outstanding: one frame that is never acknowledged while others are leaves the
  window and is outstanding all the same. The code then errs on the safe side,
  `LiveIsRecent` says exactly which frames are still live.
- `link.h:139-143` says an unknown link_major reports RANGE; it reports
  INCOMPATIBLE_VERSION (`link.c:530`). And fewer than 8 bytes are TRUNCATED
  whatever their first byte is (`link.c:512`), although some of them "can never
  be a valid frame" (`link.h:39`); a carriage learns it with the eighth byte.
- `validate_handoff_vectors.c:219` says the bytes must carry what the file
  says; the declared challenge is never read. A name or bytes too long for
  their array end the section without a word (lines 83, 190-198), so that the
  rest of it goes unchecked.
- `mcl_contact_record_offer` takes an offer whose endpoint_token is 0, for which
  no beacon can be published (`endpoint_rendezvous.c:42`): such a migration is
  agreed and then never found. `MCNode` has one.

Gaps in the design, not divergences. When the controller gives up in
VALIDATED, the accepting peer stays VALIDATED: it may not leave safely (finding
2) and there is no frame that tells it. An offer taken up before the link is
established is not tied to it: nothing drops it when the lifecycle goes back to
discovery, and it can be driven once a link is established again, possibly with
another peer. And the SDK's gate, which holds back controls outside ESTABLISHED
and HANDOFF, also keeps a machine that has completed its migration and left
those states from confirming a repeated COMMIT.

## 4. The proofs

All theorems hold for every value of the constants under the named assumptions
of the modules that declare them (`RefsAssumption`, `CountMaxAssumption`,
`PeersAssumption`, `LinkAssumption`, `NegotiationAssumption`,
`ExchangeAssumption`, `WindowAssumption`, `MaxPayloadAssumption`,
`StreamAssumption`, `NodeAssumption`). These only say what kind of value each
constant is, that 0 is reserved and that there are two machines;
`StreamAssumption` says that what is sent are structs of the C type. Where a
theorem needs more, it is a hypothesis of the theorem and named below.

- **Contact.** `Coherent` is written to be inductive: with `contact \in
  Contacts` it is `WellFormed`. `MachineProofs` has one lemma per
  operation, that it keeps a well-formed contact well formed; `ContactProofs`
  puts them together (`ContactTypeCorrect`, `ContactCoherent`). It is needed:
  `SettleCommit` leaves a contact with a transport only because a pending offer
  is there whenever the state says so. `StepOutcome` then reduces the twelve
  actions to the ten things a call can do to a contact (adopt an offer, agree,
  get a challenge, validate, commit, settle, abandon, close, learn the peer,
  begin), from which follow the action properties `ContactSession`,
  `ContactCommit`, `ContactMoves`, `ContactProgress`, the answers to copies
  `ContactRepeats`, and the refinement `ContactImplementsContinuity`: each
  outcome is a step of `TransportContinuity` or a stutter.
- **Migration.** `TypeCorrect` needs nothing. `CarrierSafe`, `CommitSafe`,
  `ControllerUnique`, `PathSafe` and `PairMovesAsOne` have two hypotheses, the
  two duties of a caller: it ignores offers it took up before
  (`RemembersOffers`), and an acceptor in VALIDATED does not give up
  (`AcceptorWaits`). The first two violations of section 3 drop one
  each, so neither can be left out; `MigrationMoves` and `MigrationLossy`
  satisfy both. The properties speak of the two contacts, and none is
  inductive: any copy still in flight may arrive next. `IInv` therefore relates
  contacts, callers' memory and *every frame in flight*, as parts of `PairInv`:
  one reference names one offer of a machine, wherever the offer shows
  (`OffersUnique`); a migration is taken up once and in one direction, and if
  both offered it the larger key won (`TakenOnce`); whoever may act on a
  PATH_RESPONSE has a peer in VALIDATED (`ResponseIsReady`); a COMMIT that could
  still move its receiver has a sender that waits (`CommitUnderWay`); a CONFIRM
  comes from a machine that is done (`ConfirmIsFinal`); a COMMITTING machine has
  a peer about to move or moved (`CommitAnswered`). `EveryStep` first reduces
  the seventeen actions to thirteen changes of the fields that matter (`StepOf`);
  each part then has one lemma that a step keeps it. TLC found `IInv` invariant
  on the constants of `MigrationMoves` before it was proved. `PairMovesAsOne`
  is the refinement of `CommonCarrier`: of the thirteen changes, `commit_begin`
  is a Pledge (the peer is in VALIDATED, hence not committed, by
  `ResponseIsReady`, and on the same carrier by `OneCarrier`), `commit_accept` a
  Follow (a COMMIT that can still move its receiver names the very offer its
  sender is committed to: `CommitUnderWay`, and one reference names one offer),
  `commit_confirm` a Settle (a CONFIRM comes from a machine that is done:
  `ConfirmIsFinal`), close a Close, and the rest stutter.
  `SidesKeepPromise` needs neither duty: whatever the callers, the peer and the
  media do, each step of the exchange is a step of `TransportContinuity` in
  that machine, or none (`AnyStepOf` adds to `StepOf` what only a careless
  caller does; a PATH_CHALLENGE that is recorded and echoed in one step is one
  Prove). What the violations break is the pair, never one contact.
- **One session.** `SessionsSafe`: the two machines never hold different
  sessions, under the two duties and two more, that a controller lets its offer
  stand until it is answered (`OffersStand`) and an acceptor its agreement
  (`AgreementsStand`). TLC finds two sessions on the constants of
  `MigrationMoves` when either of the two is dropped; closing is not restricted
  by them. The work is before there is a session, while offers cross, are
  late, tie and are taken up and given back. `SessionInv` says that then one
  machine `Leads`: its offer wins over every offer either can still hear. Two
  cases need parts of their own: a machine that has not heard the winning offer
  has nothing else to take up, and where a tie can undo an offer the peer's
  offer is the only other one there is (`Alone`) — without them a machine
  could take up an old offer while its peer takes up another one, and each
  would choose a session. Once an acceptor has chosen, its peer `Awaits` the
  ACCEPT and hears nothing that could make it leave its offer. TLC found
  `SessionInv` invariant on the constants of `MigrationMoves` and on seven
  offers over five references with equal and unequal keys (1,042,734 states),
  with these two duties, before it was proved. `AcceptorWaits` is used only
  because the proof takes facts about references from `IInv`.
- **Link.** The invariant adds to the type that the context is valid exactly
  when a key was granted and is that key up to its tail (`ContextIsGranted`),
  and that a link in NEGOTIATING was negotiated; `LinkAuthorizes` rests on
  `StoredEquals`, that a stored key equals the original and nothing else that
  differs within its size.
- **Node.** `Inv` is the link's type, a well-formed contact and
  `DrivenWhileEstablished`. The last alone is not inductive: a settled or
  abandoned contact stops being driven only because its state and its pending
  offer agree. One lemma per group of actions (ungated, gated, lifecycle,
  search) shows what it keeps, each from the lemmas about single operations in
  `MachineProofs`; the two machines share no
  state, so every step is one of theirs. `NodeTypeCorrect` adds that an endpoint
  is there only during a migration; `NodeKeepsContext` that of the transitions
  `MayGo` lets through during a driven migration none drops the context.
  `NodeEndpoint` compares beacons byte by byte (`PublishedMatches`,
  `ResemblingRefused`): of all that was ever published, a search accepts only
  what carries the transport, session, migration and token of the pending
  offer; the invariant adds that a pending offer is one of the offers, so that
  what is found was published for it.
- **Negotiation.** `OutcomeIsHonourable` is inductive with the type;
  `SelectIsSymmetric` is the code's claim that no tiebreaker is needed, and
  `ExchangeGlareResolves` what it is for. `ExchangeOutcomesAgree`: against a
  known peer `negotiation_check` lets through exactly the machine's own
  selection (`CheckedIsSelected`), so of two selections in force that know each
  other there is one.
- **Acknowledgement window.** The sender's table holds no two frames of one
  sequence (`TableOK`: all ages below `Space`, which is a limit on the sender),
  and what is acknowledged and still in it did arrive (`AckedArrived`). Between
  two frames less than `Space` apart equal remainders mean equal frames
  (`ModDistinct`); from this `LiveCorrect`, for every `Space` and `Window`.
  `MatchCorrect` needs no bound on any delay: a frame in the table that has the
  sequence of a live acknowledgement is within the window by `LiveMeans`, so it
  is the frame meant, or it is younger and the acknowledgement is `Ambiguous`.
- **Frames and controls.** `Layout` and `HeaderRead` say where each field of a
  frame lies for every combination of flags; `DecodeEffect` what the decoder
  leaves in the struct on *every* return, early ones included; `Verdicts` how
  each verdict bounds the number of bytes. `StreamInv` adds to the type that the
  verdict is the decoder's on the present buffer and that a struct's payload
  lies in storage that was written; a struct kept through failed calls has to
  stay readable, and a decoded frame has to lie in the buffer, or the carriage
  would consume bytes it does not have. From it `StreamTypes`, `StreamDecides`
  (for every `MaxPayload` and any bytes) and `StreamReadable`. `StreamControls`
  rests on a round trip per control (`AckRoundTrip`, `CloseRoundTrip`,
  `HandoffRoundTrip`): decoding legal bytes into a struct with any earlier
  content and encoding it again gives those bytes. `StreamContracts`: the
  length tells the classes apart, and the reason byte ACK from NACK
  (`ControlShape`).
- **A stream nobody altered.** `EncodeIsFrame`: the encoder puts each field
  where the decoder looks for it, for every combination of flags. From it
  `FrameDecodes` and `FrameReceived`, whatever bytes follow an encoded frame the
  decoder accepts it, consumes exactly it and leaves its fields in a struct of
  any earlier content; and `FramePrefix`, wherever an encoded frame is cut the
  decoder says TRUNCATED. That frames arrive in order is not inductive: which
  one is next depends on bytes not yet decoded. `Intact` therefore says that
  some string, all that was ever sent, is made of the encodings of the frames
  sent, and that buffer and wire hold its end, from a point where a frame
  begins. While it holds, `Resynchronise` cannot happen. `StreamInOrder` is the
  refinement, without a hypothesis, of the channel in which a frame received
  after an alteration may be any. What `ImplementsChannel` adds, that such a
  frame was sent if it carries a check, is not proved.
- **One encoding.** `FrameRoundTrip`: of every frame the encoder accepts, what
  it writes decodes to the fields `Meaning` gives and is consumed exactly, and
  any smaller part is TRUNCATED. `FrameIsCanonical` is the converse, which no
  test can enumerate and which `link.c:565` claims in passing ("Reserved bits
  must be zero for the encoding to be canonical"): from a struct with any
  earlier content, the frame the decoder found in *any* accepted bytes encodes
  to exactly the bytes consumed, so two different byte strings are never read
  as the same frame. It needs every check of the decoder: the reserved bits, the
  lengths, the major and the frame check. The structs are those of type
  `Structs` and the payload fits `MaxPayload`.

Only model-checked, and why:

- liveness under fairness (`OfferMoves`, `CommitSettles`, `AgreementIsReached`,
  `EverythingArrives`) and ENABLED: out of the prover's reach;
- of `ImplementsChannel`, that nothing made up behind an altered byte passes the
  frame check: a fact about the values of a CRC, a recursive function over the
  bytes, which holds for the alterations tried and not for all.

No module declares a recursive operator; the CRC is a recursive function.

## 5. What is not modelled

- `validate_transport_registry.c`: it parses one data file once and compares it
  with constants; a reference definition would be the same comparison again.
  (Its `parse_int`, line 59, multiplies into an `int` without a limit.)
- NULL arguments and out-of-range enumerations: refused before anything is read.
- The byte layout of CAPABILITY and NEGOTIATION; their fields and lengths are in
  `Negotiation`.
- The SDK and the transport bindings themselves, except as the callers the
  documents require; their parts are marked external in `map`.
- Forged frames: the media lose, delay, repeat, reorder and alter a byte, and
  that is all. The frame check is a check, not authentication.
- Text: the validator's file is a sequence of fields, not of characters.

## 6. The plan

Done: 1. `ContactMachine`, `Contact`, `TransportContinuity` and their proofs;
2. `Migration`; 3. `LinkMachine`, `LinkLifecycle` and proofs; 4. `Negotiation`,
`NegotiationExchange`, its liveness and proofs; 5. `AckWindow`; 6. the codecs,
`FrameStream` and `FrameChannel`; 7. `Node` and proofs; 8. `HandoffVectors`;
9. the proofs about `Migration`; 10. `EndpointIsTheOffered` for `Node`; 11. the
proofs about `AckWindow`; 12. the proofs about frames and controls, and
`KnownOutcomesAgree`; 13. the round trip of a frame, and that the stream
implements the channel until a byte is altered; 14. `CommonCarrier`, which the pair of machines
implements, and that an accepted frame has one encoding; 15. that each contact
of the pair implements `TransportContinuity`, and when the two hold one session.

Nothing of the plan is open. What stays out of reach is listed at the end of
section 4, what is left out on purpose in section 5.

Runs are merged rather than added where one can answer two of the questions.

---------------------------- MODULE LinkMachine -----------------------------
(***************************************************************************)
(* The link lifecycle and its installed context (src/src/link.c), as        *)
(* operators on one mcl_link_t.  As in ContactMachine, f is the link a call *)
(* leaves behind and fStatus what it returns; a call that does not return   *)
(* OK leaves the link as it was.  NULL arguments are not modelled.          *)
(*                                                                          *)
(* A digest is DigestMax bytes of storage and a size, of which a caller's   *)
(* key may claim anything up to ClaimMax; the bytes after the size are      *)
(* whatever the caller left there.                                          *)
(***************************************************************************)
EXTENDS Naturals

CONSTANTS
    WireMajorMax,    \* 15: a wire major is a bit of a 16-bit mask
    WireMajors,      \* the majors keys may claim, WireMajorMax + 1 included
    ContextIds,
    Generations,
    Bytes,           \* values of a digest byte
    DigestMax,       \* MCL_LINK_RULESET_DIGEST_MAX_SIZE, 32
    ClaimMax         \* the largest digest size a key claims, 255

ASSUME LinkAssumption ==
    /\ WireMajorMax \in Nat
    /\ WireMajors \subseteq Nat /\ 0 \in WireMajors
    /\ ContextIds \subseteq Nat /\ 0 \in ContextIds
    /\ Generations \subseteq Nat /\ 0 \in Generations
    /\ Bytes \subseteq Nat /\ 0 \in Bytes
    /\ DigestMax \in Nat \ {0}
    /\ ClaimMax \in Nat /\ DigestMax <= ClaimMax

LinkStates == {"IDLE", "DISCOVERED", "CAPABILITIES", "NEGOTIATING",
               "ESTABLISHED", "ADAPTING", "HANDOFF", "FALLBACK", "CLOSED"}

Keys == [wire_major: WireMajors, context_id: ContextIds,
         generation: Generations, digest: [1..DigestMax -> Bytes],
         digest_size: 0..ClaimMax]

ZeroKey == [wire_major |-> 0, context_id |-> 0, generation |-> 0,
            digest |-> [i \in 1..DigestMax |-> 0], digest_size |-> 0]

Links == [state: LinkStates, context_valid: BOOLEAN, active_context: Keys,
          supported: SUBSET (0..WireMajorMax)]

\* What mcl_link_init makes of the storage.
Fresh(majors) == [state |-> "IDLE", context_valid |-> FALSE,
                  active_context |-> ZeroKey, supported |-> majors]

ClearContext(link) ==
    [link EXCEPT !.context_valid = FALSE, !.active_context = ZeroKey]

Reset(link) == ClearContext([link EXCEPT !.state = "IDLE"])

-----------------------------------------------------------------------------
(* The context. *)

DigestSizeIsLegal(key) == key.digest_size \in 1..DigestMax

\* Slip: the sizes are not compared, so a prefix of the digest passes.
ContextKeyEqualsSlip(a, b) ==
    /\ DigestSizeIsLegal(a) /\ DigestSizeIsLegal(b)
    /\ a.wire_major = b.wire_major
    /\ a.context_id = b.context_id
    /\ a.generation = b.generation
    /\ \A i \in 1..b.digest_size : a.digest[i] = b.digest[i]

ContextKeyEquals(a, b) ==
    /\ DigestSizeIsLegal(a) /\ DigestSizeIsLegal(b)
    /\ a.wire_major = b.wire_major
    /\ a.context_id = b.context_id
    /\ a.generation = b.generation
    /\ a.digest_size = b.digest_size
    /\ \A i \in 1..a.digest_size : a.digest[i] = b.digest[i]

OutsideSession(state) == state \in {"IDLE", "DISCOVERED", "CLOSED"}

InstallContextStatus(link, key) ==
    IF OutsideSession(link.state) THEN "INVALID_STATE"
    ELSE IF key.wire_major > WireMajorMax THEN "RANGE"
    ELSE IF ~DigestSizeIsLegal(key) THEN "RANGE"
    ELSE IF key.wire_major \notin link.supported THEN "INCOMPATIBLE_VERSION"
    ELSE "OK"

\* Slip: the tail of the storage keeps what the caller's key had there.
StoredSlip(key) == key

\* The key as it is stored: the tail behind a short digest is zeroed.
Stored(key) ==
    [key EXCEPT !.digest = [i \in 1..DigestMax |->
                                IF i <= key.digest_size THEN @[i] ELSE 0]]

InstallContext(link, key) ==
    IF InstallContextStatus(link, key) = "OK"
    THEN [link EXCEPT !.active_context = Stored(key), !.context_valid = TRUE]
    ELSE link

AuthorizeContextStatus(link, key) ==
    IF ~link.context_valid THEN "NO_ACTIVE_CONTEXT"
    ELSE IF ~ContextKeyEquals(link.active_context, key)
         THEN "CONTEXT_MISMATCH"
    ELSE "OK"

-----------------------------------------------------------------------------
(* The lifecycle. *)

\* Slip: the fallback profile lets a link resume before it was negotiated.
SuccessorsSlip(state) ==
    CASE state \in {"IDLE", "CLOSED"} -> {"DISCOVERED", "IDLE", "CLOSED"}
      [] state = "DISCOVERED" -> {"CAPABILITIES", "FALLBACK", "IDLE", "CLOSED"}
      [] state = "CAPABILITIES" -> {"NEGOTIATING", "IDLE", "CLOSED"}
      [] state = "NEGOTIATING" -> {"ESTABLISHED", "IDLE", "CLOSED"}
      [] OTHER -> {"ESTABLISHED", "FALLBACK", "DISCOVERED", "IDLE", "CLOSED"}

\* Where mcl_link_transition lets each state go.
Successors(state) ==
    CASE state = "IDLE"         -> {"DISCOVERED", "CLOSED"}
      [] state = "DISCOVERED"   -> {"CAPABILITIES", "IDLE", "CLOSED"}
      [] state = "CAPABILITIES" -> {"NEGOTIATING", "IDLE", "CLOSED"}
      [] state = "NEGOTIATING"  -> {"ESTABLISHED", "IDLE", "CLOSED"}
      [] state = "ESTABLISHED"  -> {"ADAPTING", "HANDOFF", "FALLBACK",
                                    "IDLE", "CLOSED"}
      [] state = "ADAPTING"     -> {"ESTABLISHED", "HANDOFF", "FALLBACK",
                                    "IDLE", "CLOSED"}
      [] state = "HANDOFF"      -> {"ESTABLISHED", "IDLE", "CLOSED"}
      [] state = "FALLBACK"     -> {"ESTABLISHED", "DISCOVERED", "IDLE",
                                    "CLOSED"}
      [] state = "CLOSED"       -> {"IDLE"}

TransitionStatus(link, next) ==
    IF next \in Successors(link.state) THEN "OK" ELSE "INVALID_STATE"

\* Slip: rediscovery keeps the context of the peer that was lost.
DropsContextSlip(state, next) == next \in {"IDLE", "CLOSED"}

\* Slip: coming back from a handoff begins a new session.
DropsContextOnReturn(state, next) ==
    next \in {"IDLE", "CLOSED", "DISCOVERED"} \/ state = "HANDOFF"

\* Going to IDLE, CLOSED or, from FALLBACK, back to DISCOVERED drops the
\* context; discovering from IDLE finds it dropped already.
DropsContext(state, next) ==
    next \in {"IDLE", "CLOSED"} \/ (state = "FALLBACK" /\ next = "DISCOVERED")

Transition(link, next) ==
    IF TransitionStatus(link, next) = "OK"
    THEN LET moved == [link EXCEPT !.state = next]
         IN  IF DropsContext(link.state, next)
             THEN ClearContext(moved) ELSE moved
    ELSE link

=============================================================================

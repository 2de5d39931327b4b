--------------------------- MODULE LinkLifecycle ----------------------------
(***************************************************************************)
(* One link driven by a caller that may call anything in any order.         *)
(*                                                                          *)
(* Two history variables record, independently of the link, what its state  *)
(* is supposed to mean: granted is the key installed last since the peer    *)
(* was discovered, negotiated whether a negotiation took place since then.  *)
(* Discovery, closing and reset begin both afresh.                          *)
(***************************************************************************)
EXTENDS LinkMachine

VARIABLES
    link,        \* the mcl_link_t
    granted,     \* {} or {the key installed last in this session}
    negotiated   \* has this session passed through NEGOTIATING?

vars == <<link, granted, negotiated>>

Init ==
    /\ \E majors \in SUBSET (0..WireMajorMax) : link = Fresh(majors)
    /\ granted = {}
    /\ negotiated = FALSE

NewSession == granted' = {} /\ negotiated' = FALSE

DoInit ==
    /\ \E majors \in SUBSET (0..WireMajorMax) : link' = Fresh(majors)
    /\ NewSession

DoReset == link' = Reset(link) /\ NewSession

DoTransition ==
    \E next \in LinkStates :
        /\ TransitionStatus(link, next) = "OK"
        /\ link' = Transition(link, next)
        /\ IF OutsideSession(next) THEN NewSession
           ELSE /\ negotiated' = (negotiated \/ next = "NEGOTIATING")
                /\ UNCHANGED granted

DoInstallContext ==
    \E key \in Keys :
        /\ InstallContextStatus(link, key) = "OK"
        /\ link' = InstallContext(link, key)
        /\ granted' = {key}
        /\ UNCHANGED negotiated

Next == DoInit \/ DoReset \/ DoTransition \/ DoInstallContext

Spec == Init /\ [][Next]_vars

-----------------------------------------------------------------------------

\* The link keeps its type, and the storage behind a digest is zero: the key
\* of an earlier, longer digest never shows through a shorter one.
TypeOK ==
    /\ link \in Links
    /\ granted \subseteq Keys
    /\ negotiated \in BOOLEAN
    /\ \A i \in 1..DigestMax :
           i > link.active_context.digest_size =>
               link.active_context.digest[i] = 0

\* Two keys name one context if they agree in every field and in the bytes
\* their sizes cover.
SameContext(a, b) ==
    /\ [a EXCEPT !.digest = b.digest] = b
    /\ \A i \in 1..b.digest_size : a.digest[i] = b.digest[i]

\* mcl_link_authorize_context accepts exactly the key installed last in this
\* session: not the key of the peer before rediscovery, not a key replaced
\* since, not a prefix of its digest; and it keeps accepting it through
\* adaptation, handoff and fallback.
AuthorizesExactlyTheGranted ==
    \A key \in Keys :
        AuthorizeContextStatus(link, key) = "OK" <=>
            \E g \in granted : SameContext(key, g)

\* A link is ESTABLISHED, ADAPTING, in HANDOFF or in FALLBACK only if it was
\* negotiated with the peer it discovered last.
EstablishedWasNegotiated ==
    link.state \in {"ESTABLISHED", "ADAPTING", "HANDOFF", "FALLBACK"} =>
        negotiated

=============================================================================

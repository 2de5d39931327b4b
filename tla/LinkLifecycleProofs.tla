------------------------ MODULE LinkLifecycleProofs -------------------------
(***************************************************************************)
(* The invariants of LinkLifecycle, for every set of majors, keys, digest   *)
(* sizes and bytes.                                                         *)
(***************************************************************************)
EXTENDS LinkLifecycle, MachineProofs

\* What the installed context has to do with the key that was granted: the
\* part of the inductive invariant that the goals do not say.
ContextIsGranted ==
    /\ OutsideSession(link.state) => ~link.context_valid
    /\ ~link.context_valid => granted = {}
    /\ link.context_valid =>
           \E g \in granted :
               /\ granted = {g}
               /\ DigestSizeIsLegal(g)
               /\ link.active_context = Stored(g)

\* A link waiting for its negotiation to finish has begun one.
NegotiatingIsNegotiated == link.state = "NEGOTIATING" => negotiated

Inv == /\ TypeOK
       /\ ContextIsGranted
       /\ NegotiatingIsNegotiated
       /\ EstablishedWasNegotiated

\* A stored key and a key agree, byte for byte, in exactly the contexts
\* SameContext relates.
LEMMA StoredEquals ==
    ASSUME NEW g \in Keys, NEW key \in Keys, DigestSizeIsLegal(g)
    PROVE  ContextKeyEquals(Stored(g), key) <=> SameContext(key, g)
<1> DEFINE s == Stored(g)
<1>1. /\ s.wire_major = g.wire_major /\ s.context_id = g.context_id
      /\ s.generation = g.generation /\ s.digest_size = g.digest_size
  BY DEF Stored, Keys
<1>2. \A i \in 1..g.digest_size : s.digest[i] = g.digest[i]
  BY StoredType, LinkAssumption DEF DigestSizeIsLegal, Keys
<1>3. [key EXCEPT !.digest = g.digest] = g <=>
          /\ key.wire_major = g.wire_major /\ key.context_id = g.context_id
          /\ key.generation = g.generation
          /\ key.digest_size = g.digest_size
  BY DEF Keys
<1> HIDE DEF s
<1>4. ContextKeyEquals(s, key) <=>
          /\ DigestSizeIsLegal(key)
          /\ key.wire_major = g.wire_major /\ key.context_id = g.context_id
          /\ key.generation = g.generation
          /\ key.digest_size = g.digest_size
          /\ \A i \in 1..g.digest_size : g.digest[i] = key.digest[i]
  BY <1>1, <1>2 DEF ContextKeyEquals, DigestSizeIsLegal
<1> QED
  BY <1>3, <1>4 DEF s, SameContext, DigestSizeIsLegal

-----------------------------------------------------------------------------
(* The inductive invariant. *)

\* mcl_link_init establishes the invariant.
LEMMA InitInv == Init => Inv
  BY FreshLink, ZeroKeyType
  DEF Init, Inv, TypeOK, ContextIsGranted, EstablishedWasNegotiated,
      NegotiatingIsNegotiated, OutsideSession

\* Every call keeps the invariant.
LEMMA NextInv == Inv /\ [Next]_vars => Inv'
<1> SUFFICES ASSUME Inv, [Next]_vars PROVE Inv'
  OBVIOUS
<1> USE DEF Inv, OutsideSession, NegotiatingIsNegotiated
<1>1. CASE DoInit
  <2>1. PICK majors \in SUBSET (0..WireMajorMax) : link' = Fresh(majors)
    BY <1>1 DEF DoInit
  <2>2. granted' = {} /\ negotiated' = FALSE
    BY <1>1 DEF DoInit, NewSession
  <2> QED
    BY <2>1, <2>2, FreshLink, ZeroKeyType
    DEF TypeOK, ContextIsGranted, EstablishedWasNegotiated
<1>2. CASE DoReset
  <2> DEFINE idle == [link EXCEPT !.state = "IDLE"]
  <2>1. idle \in Links /\ idle.state = "IDLE"
    BY DEF TypeOK, Links, LinkStates
  <2>2. link' = ClearContext(idle) /\ granted' = {} /\ negotiated' = FALSE
    BY <1>2 DEF DoReset, Reset, NewSession
  <2> HIDE DEF idle
  <2> QED
    BY <2>1, <2>2, ClearContextType, ZeroKeyType
    DEF TypeOK, ContextIsGranted, EstablishedWasNegotiated
<1>3. CASE DoTransition
  <2>1. PICK next \in LinkStates :
            /\ TransitionStatus(link, next) = "OK"
            /\ link' = Transition(link, next)
            /\ IF OutsideSession(next) THEN NewSession
               ELSE /\ negotiated' = (negotiated \/ next = "NEGOTIATING")
                    /\ UNCHANGED granted
    BY <1>3 DEF DoTransition
  <2> DEFINE moved == [link EXCEPT !.state = next]
  <2>2. next \in Successors(link.state) /\ link.state \in LinkStates
    BY <2>1 DEF TransitionStatus, TypeOK, Links
  <2>3. /\ moved \in Links /\ moved.state = next
        /\ moved.context_valid = link.context_valid
        /\ moved.active_context = link.active_context
    BY DEF TypeOK, Links
  <2>4. link' = IF DropsContext(link.state, next)
                THEN ClearContext(moved) ELSE moved
    BY <2>1 DEF Transition
  <2> HIDE DEF moved
  <2>5. CASE DropsContext(link.state, next)
    <3>1. link' = ClearContext(moved)
      BY <2>4, <2>5
    <3>2. OutsideSession(next)
      BY <2>5 DEF DropsContext
    <3>3. granted' = {} /\ negotiated' = FALSE
      BY <2>1, <3>2 DEF NewSession
    <3> QED
      BY <2>3, <3>1, <3>2, <3>3, ClearContextType, ZeroKeyType
      DEF TypeOK, ContextIsGranted, EstablishedWasNegotiated
  <2>6. CASE ~DropsContext(link.state, next)
    <3>1. link' = moved
      BY <2>4, <2>6
    <3>2. CASE OutsideSession(next)
      <4>1. next = "DISCOVERED" /\ link.state = "IDLE"
        BY <2>2, <2>6, <3>2, SuccessorsType DEF DropsContext
      <4>2. granted' = {} /\ negotiated' = FALSE
        BY <2>1, <3>2 DEF NewSession
      <4> QED
        BY <2>3, <3>1, <4>1, <4>2
        DEF TypeOK, ContextIsGranted, EstablishedWasNegotiated
    <3>3. CASE ~OutsideSession(next)
      <4>1. /\ negotiated' = (negotiated \/ next = "NEGOTIATING")
            /\ granted' = granted
        BY <2>1, <3>3
      <4>2. TypeOK'
        BY <2>3, <3>1, <4>1 DEF TypeOK
      <4>3. ContextIsGranted'
        BY <2>3, <3>1, <3>3, <4>1 DEF ContextIsGranted
      <4>4. EstablishedWasNegotiated'
        BY <2>2, <2>3, <3>1, <4>1, SuccessorsType
        DEF EstablishedWasNegotiated
      <4>5. NegotiatingIsNegotiated'
        BY <2>3, <3>1, <4>1
      <4> QED
        BY <4>2, <4>3, <4>4, <4>5
    <3> QED
      BY <3>2, <3>3
  <2> QED
    BY <2>5, <2>6
<1>4. CASE DoInstallContext
  <2>1. PICK key \in Keys :
            /\ InstallContextStatus(link, key) = "OK"
            /\ link' = InstallContext(link, key)
            /\ granted' = {key}
            /\ UNCHANGED negotiated
    BY <1>4 DEF DoInstallContext
  <2>2. ~OutsideSession(link.state) /\ DigestSizeIsLegal(key)
    BY <2>1 DEF InstallContextStatus
  <2>3. link' = [link EXCEPT !.active_context = Stored(key),
                             !.context_valid = TRUE]
    BY <2>1 DEF InstallContext
  <2>4. /\ link' \in Links /\ link'.state = link.state
        /\ link'.context_valid /\ link'.active_context = Stored(key)
    BY <2>3, StoredType DEF TypeOK, Links
  <2> QED
    BY <2>1, <2>2, <2>4, StoredType, LinkAssumption
    DEF TypeOK, ContextIsGranted, EstablishedWasNegotiated, Keys
<1>5. CASE UNCHANGED vars
  BY <1>5 DEF vars, TypeOK, ContextIsGranted, EstablishedWasNegotiated
<1> QED
  BY <1>1, <1>2, <1>3, <1>4, <1>5 DEF Next

\* Every operation of the link preserves it.
LEMMA AlwaysInv == Spec => []Inv
  BY InitInv, NextInv, PTL DEF Spec

\* What the link authorizes follows from the invariant.
LEMMA InvAuthorizes == Inv => AuthorizesExactlyTheGranted
<1> SUFFICES ASSUME Inv, NEW key \in Keys
             PROVE  AuthorizeContextStatus(link, key) = "OK" <=>
                        \E g \in granted : SameContext(key, g)
  BY DEF AuthorizesExactlyTheGranted
<1>1. CASE ~link.context_valid
  BY <1>1 DEF Inv, ContextIsGranted, AuthorizeContextStatus
<1>2. CASE link.context_valid
  <2>1. PICK g \in granted : /\ granted = {g}
                             /\ DigestSizeIsLegal(g)
                             /\ link.active_context = Stored(g)
    BY <1>2 DEF Inv, ContextIsGranted
  <2>2. g \in Keys
    BY <2>1 DEF Inv, TypeOK
  <2>3. ContextKeyEquals(Stored(g), key) <=> SameContext(key, g)
    BY <2>1, <2>2, StoredEquals
  <2> QED
    BY <1>2, <2>1, <2>3 DEF AuthorizeContextStatus
<1> QED
  BY <1>1, <1>2

-----------------------------------------------------------------------------

\* No call leaves a field outside its type or an old digest's tail visible
\* (install_context zeroes what the new digest does not cover).
THEOREM LinkTypeCorrect == Spec => []TypeOK
  BY AlwaysInv, PTL DEF Inv

\* authorize_context accepts exactly the key installed last since the peer was
\* discovered, however the link was driven in between.
THEOREM LinkAuthorizes == Spec => []AuthorizesExactlyTheGranted
  BY AlwaysInv, InvAuthorizes, PTL

\* transition never reaches ESTABLISHED, or a state behind it, without
\* NEGOTIATING with the peer discovered last.
THEOREM LinkNegotiated == Spec => []EstablishedWasNegotiated
  BY AlwaysInv, PTL DEF Inv

=============================================================================

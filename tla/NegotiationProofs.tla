------------------------- MODULE NegotiationProofs --------------------------
(***************************************************************************)
(* What the selection function promises for all capabilities, and what that *)
(* gives every exchange.                                                    *)
(***************************************************************************)
EXTENDS NegotiationExchange, WellFoundedInduction, TLAPS

\* What a machine with capability c can honour.
Honourable(n, c) ==
    /\ n.wire_major \in c.wire_majors
    /\ n.link_major \in c.link_majors
    /\ n.features \subseteq c.features
    /\ n.max_frame \in Floor..c.max_frame

-----------------------------------------------------------------------------
(* The selection function. *)

\* A nonempty mask has a highest bit: the smallest distance to the top.
LEMMA HighestBitExists ==
    ASSUME NEW mask \in SUBSET Majors, mask # {}
    PROVE  /\ HighestBit(mask) \in mask
           /\ \A j \in mask : j <= HighestBit(mask)
<1> DEFINE gaps == {MajorMax - i : i \in mask}
<1>1. mask \subseteq 0..MajorMax /\ MajorMax \in Nat
  BY NegotiationAssumption
<1>2. gaps \subseteq Nat /\ gaps # {}
  <2>1. \A i \in mask : i \in Nat /\ i <= MajorMax /\ MajorMax - i \in Nat
    BY <1>1
  <2> QED
    BY <2>1
<1>3. PICK g \in gaps : \A h \in gaps : g <= h
  <2> DEFINE less == OpToRel(<, Nat)
  <2>1. IsWellFoundedOn(less, Nat)
    BY NatLessThanWellFounded
  <2> HIDE DEF gaps, less
  <2>2. PICK g \in gaps : \A h \in gaps : <<h, g>> \notin less
    BY <1>2, <2>1, WFMin
  <2>3. \A h \in gaps : ~ (h < g)
    BY <1>2, <2>2 DEF less, OpToRel
  <2> QED
    BY <1>2, <2>2, <2>3
<1>4. PICK i \in mask : g = MajorMax - i
  BY <1>3
<1>5. \A j \in mask : j <= i
  <2> TAKE j \in mask
  <2>1. g <= MajorMax - j
    BY <1>3
  <2> QED
    BY <1>1, <1>4, <2>1
<1>6. \E k \in mask : \A j \in mask : j <= k
  BY <1>5
<1> QED
  BY <1>6 DEF HighestBit

\* A capability's frame size is a number.
LEMMA FramesAreNumbers ==
    \A c \in Capabilities : c.max_frame \in FrameSizes /\ c.max_frame \in Nat
<1> SUFFICES ASSUME NEW c \in Capabilities
             PROVE  c.max_frame \in FrameSizes /\ c.max_frame \in Nat
  OBVIOUS
<1>1. c.max_frame \in FrameSizes
  BY DEF Capabilities
<1> QED
  BY <1>1, NegotiationAssumption

\* Both peers compute the same selection from the same two capabilities.
LEMMA SelectIsSymmetric ==
    ASSUME NEW c \in Capabilities, NEW d \in Capabilities
    PROVE  /\ SelectStatus(c, d) = SelectStatus(d, c)
           /\ Select(c, d) = Select(d, c)
<1>1. CommonWire(c, d) = CommonWire(d, c) /\ CommonLink(c, d) = CommonLink(d, c)
  BY DEF CommonWire, CommonLink
<1>2. MinFrame(c, d) = MinFrame(d, c)
  BY FramesAreNumbers DEF MinFrame
<1>3. c.features \cap d.features = d.features \cap c.features
  OBVIOUS
<1> QED
  BY <1>1, <1>2, <1>3 DEF SelectStatus, Select

\* A selection that exists is well formed and both peers can honour it.
LEMMA SelectIsHonourable ==
    ASSUME NEW c \in Capabilities, NEW d \in Capabilities,
           SelectStatus(c, d) = "OK"
    PROVE  /\ Select(c, d) \in Selections
           /\ Honourable(Select(c, d), c)
           /\ Honourable(Select(c, d), d)
<1> DEFINE w == HighestBit(CommonWire(c, d))
           l == HighestBit(CommonLink(c, d))
<1>1. /\ CommonWire(c, d) \in SUBSET Majors /\ CommonWire(c, d) # {}
      /\ CommonLink(c, d) \in SUBSET Majors /\ CommonLink(c, d) # {}
      /\ ~ (MinFrame(c, d) < Floor)
  BY DEF SelectStatus, CommonWire, CommonLink, Capabilities
<1>2. w \in CommonWire(c, d) /\ l \in CommonLink(c, d)
  BY <1>1, HighestBitExists
<1>3. /\ w \in Majors /\ w \in c.wire_majors /\ w \in d.wire_majors
      /\ l \in Majors /\ l \in c.link_majors /\ l \in d.link_majors
  BY <1>1, <1>2 DEF CommonWire, CommonLink
<1>4. /\ MinFrame(c, d) \in FrameSizes
      /\ MinFrame(c, d) \in Floor..c.max_frame
      /\ MinFrame(c, d) \in Floor..d.max_frame
  <2>1. Floor \in Nat
    BY NegotiationAssumption
  <2> QED
    BY <1>1, <2>1, FramesAreNumbers DEF MinFrame
<1>5. c.features \cap d.features \in SUBSET Features
  BY DEF Capabilities
<1>6. Select(c, d) = [control_version |-> ControlVersion,
                      wire_major |-> w, link_major |-> l,
                      max_frame |-> MinFrame(c, d),
                      features |-> c.features \cap d.features]
  BY DEF Select
<1> HIDE DEF w, l
<1> QED
  BY <1>3, <1>4, <1>5, <1>6 DEF Selections, Honourable

\* What a machine accepts, knowing its peer or not, it can honour.
LEMMA CheckedIsHonourable ==
    ASSUME NEW n \in Selections, NEW c \in Capabilities,
           NEW known \in SUBSET Capabilities,
           CheckStatus(n, c, known) = "OK"
    PROVE  Honourable(n, c)
<1>1. CASE known = {}
  BY <1>1 DEF CheckStatus, CheckAloneStatus, Honourable
<1>2. CASE known # {}
  <2> DEFINE d == CHOOSE e \in known : TRUE
  <2>1. d \in Capabilities
    BY <1>2
  <2>2. CheckKnownStatus(n, c, d) = "OK"
    BY <1>2 DEF CheckStatus
  <2> HIDE DEF d
  <2>3. /\ SelectStatus(c, d) = "OK"
        /\ n.wire_major = Select(c, d).wire_major
        /\ n.link_major = Select(c, d).link_major
        /\ n.max_frame = Select(c, d).max_frame
        /\ n.features = Select(c, d).features
    BY <2>2 DEF CheckKnownStatus
  <2> QED
    BY <2>1, <2>3, SelectIsHonourable DEF Honourable
<1> QED
  BY <1>1, <1>2

-----------------------------------------------------------------------------
(* The exchange. *)

\* There are two peers, and each is the other's.
LEMMA OtherIsPeer == \A p \in Peers : Other(p) \in Peers /\ Other(p) # p
<1> SUFFICES ASSUME NEW p \in Peers
             PROVE  Other(p) \in Peers /\ Other(p) # p
  OBVIOUS
<1>1. \E q \in Peers : q # p
  BY ExchangeAssumption
<1> QED
  BY <1>1 DEF Other

\* Types, and the promise itself, are inductive together.
Inv == TypeOK /\ OutcomeIsHonourable

\* Before any control is sent the invariant holds.
LEMMA InitInv == Init => Inv
  BY DEF Init, Inv, TypeOK, OutcomeIsHonourable

\* Every step of the exchange keeps types and outcomes.
LEMMA NextInv == Inv /\ [Next]_vars => Inv'
<1> SUFFICES ASSUME Inv, [Next]_vars PROVE Inv'
  OBVIOUS
<1>1. ASSUME NEW p \in Peers, Advertise(p) PROVE Inv'
  <2>1. CapabilityFrame(p, capability[p]) \in Frames
    BY OtherIsPeer DEF Inv, TypeOK, CapabilityFrame, Frames
  <2>2. Send(CapabilityFrame(p, capability[p]))
        /\ UNCHANGED <<capability, spent, heard, outcome>>
    BY <1>1 DEF Advertise
  <2> QED
    BY <2>1, <2>2 DEF Inv, TypeOK, Send, OutcomeIsHonourable
<1>2. ASSUME NEW p \in Peers, Reconfigure(p) PROVE Inv'
  <2>1. PICK c \in Buildable(p) :
            /\ capability' = [capability EXCEPT ![p] = c]
            /\ Send(CapabilityFrame(p, c))
    BY <1>2 DEF Reconfigure
  <2>2. /\ spent' = [spent EXCEPT ![p] = @ \cup {capability[p]}]
        /\ outcome' = [outcome EXCEPT ![p] = {}]
        /\ heard' = heard
    BY <1>2 DEF Reconfigure
  <2>3. c \in Capabilities
    BY ExchangeAssumption DEF Buildable
  <2>4. CapabilityFrame(p, c) \in Frames
    BY <2>3, OtherIsPeer DEF CapabilityFrame, Frames
  <2>5. TypeOK'
    BY <2>1, <2>2, <2>3, <2>4 DEF Inv, TypeOK, Send
  <2>6. OutcomeIsHonourable'
    <3>1. outcome'[p] = {}
      BY <2>2 DEF Inv, TypeOK
    <3>2. ASSUME NEW q \in Peers, q # p
          PROVE  outcome'[q] = outcome[q] /\ capability'[q] = capability[q]
      BY <2>1, <2>2, <3>2 DEF Inv, TypeOK
    <3> SUFFICES ASSUME NEW q \in Peers, NEW n \in outcome'[q]
                 PROVE  Honourable(n, capability'[q])
      BY DEF OutcomeIsHonourable, Honourable
    <3>3. q # p
      BY <3>1
    <3>4. n \in outcome[q]
      BY <3>2, <3>3
    <3>5. Honourable(n, capability[q])
      BY <3>4 DEF Inv, OutcomeIsHonourable, Honourable
    <3> QED
      BY <3>2, <3>3, <3>5
  <2> QED
    BY <2>5, <2>6 DEF Inv
<1>3. ASSUME NEW p \in Peers, Propose(p) PROVE Inv'
  <2>1. PICK peer \in heard[p] :
            /\ SelectStatus(capability[p], peer) = "OK"
            /\ outcome' = [outcome EXCEPT
                               ![p] = {Select(capability[p], peer)}]
            /\ Send(NegotiationFrame(p, Select(capability[p], peer)))
    BY <1>3 DEF Propose
  <2>2. UNCHANGED <<capability, spent, heard>>
    BY <1>3 DEF Propose
  <2>3. peer \in Capabilities /\ capability[p] \in Capabilities
    BY <2>1 DEF Inv, TypeOK
  <2> DEFINE n == Select(capability[p], peer)
  <2>4. n \in Selections /\ Honourable(n, capability[p])
    BY <2>1, <2>3, SelectIsHonourable
  <2>5. outcome' = [outcome EXCEPT ![p] = {n}] /\ Send(NegotiationFrame(p, n))
    BY <2>1
  <2> HIDE DEF n
  <2>6. NegotiationFrame(p, n) \in Frames
    BY <2>4, OtherIsPeer DEF NegotiationFrame, Frames
  <2>7. TypeOK'
    BY <2>2, <2>4, <2>5, <2>6 DEF Inv, TypeOK, Send
  <2>8. OutcomeIsHonourable'
    BY <2>2, <2>4, <2>5 DEF Inv, TypeOK, OutcomeIsHonourable, Honourable
  <2> QED
    BY <2>7, <2>8 DEF Inv
<1>4. ASSUME NEW f \in net, NEW p \in Peers, ReceiveCapability(p, f)
      PROVE  Inv'
  <2>1. f.kind = "CAPABILITY" /\ f \in Frames
    BY <1>4 DEF ReceiveCapability, Inv, TypeOK
  <2>2. f.body \in Capabilities
    BY <2>1 DEF Frames
  <2>3. /\ heard' = [heard EXCEPT ![p] = {f.body}]
        /\ net' = net \ {f}
        /\ UNCHANGED <<capability, spent, outcome>>
    BY <1>4 DEF ReceiveCapability
  <2> QED
    BY <2>2, <2>3 DEF Inv, TypeOK, OutcomeIsHonourable
<1>5. ASSUME NEW f \in net, NEW p \in Peers, AcceptNegotiation(p, f)
      PROVE  Inv'
  <2>1. f.kind = "NEGOTIATION" /\ f \in Frames
    BY <1>5 DEF AcceptNegotiation, Inv, TypeOK
  <2>2. f.body \in Selections
    BY <2>1 DEF Frames
  <2>3. /\ outcome' = [outcome EXCEPT ![p] = {f.body}]
        /\ net' = net \ {f}
        /\ UNCHANGED <<capability, spent, heard>>
        /\ CheckStatus(f.body, capability[p], heard[p]) = "OK"
    BY <1>5 DEF AcceptNegotiation
  <2>4. Honourable(f.body, capability[p])
    BY <2>2, <2>3, CheckedIsHonourable DEF Inv, TypeOK
  <2>5. TypeOK'
    BY <2>2, <2>3 DEF Inv, TypeOK
  <2>6. OutcomeIsHonourable'
    BY <2>3, <2>4 DEF Inv, TypeOK, OutcomeIsHonourable, Honourable
  <2> QED
    BY <2>5, <2>6 DEF Inv
<1>6. ASSUME NEW f \in net, Drop(f) PROVE Inv'
  BY <1>6 DEF Drop, Inv, TypeOK, OutcomeIsHonourable
<1>7. CASE UNCHANGED vars
  BY <1>7 DEF vars, Inv, TypeOK, OutcomeIsHonourable
<1> QED
  BY <1>1, <1>2, <1>3, <1>4, <1>5, <1>6, <1>7 DEF Next

\* Every step of the exchange preserves it.
LEMMA AlwaysInv == Spec => []Inv
  BY InitInv, NextInv, PTL DEF Spec

\* Typed machines that know each other accept each other's selection.
LEMMA GlareResolvesAlways == TypeOK => GlareResolves
<1> SUFFICES ASSUME TypeOK, NEW p \in Peers,
                    heard[Other(p)] \in {{}, {capability[p]}},
                    SelectStatus(capability[p], capability[Other(p)]) = "OK"
             PROVE  CheckStatus(Select(capability[p], capability[Other(p)]),
                                capability[Other(p)], heard[Other(p)]) = "OK"
  BY DEF GlareResolves
<1> DEFINE c == capability[p]
           d == capability[Other(p)]
           n == Select(c, d)
<1>1. c \in Capabilities /\ d \in Capabilities
  BY OtherIsPeer DEF TypeOK
<1>2. n \in Selections /\ Honourable(n, d)
  BY <1>1, SelectIsHonourable
<1>3. SelectStatus(d, c) = "OK" /\ Select(d, c) = n
  BY <1>1, SelectIsSymmetric
<1> HIDE DEF n
<1>4. /\ n.control_version = ControlVersion
      /\ ~ (n.wire_major > MajorMax) /\ ~ (n.link_major > MajorMax)
  <2>1. /\ n.wire_major \in Majors /\ n.link_major \in Majors
        /\ n.control_version = ControlVersion
    BY <1>2 DEF Selections
  <2>2. \A m \in Majors : ~ (m > MajorMax)
    BY NegotiationAssumption
  <2> QED
    BY <2>1, <2>2
<1>5. CASE heard[Other(p)] = {}
  <2>1. CheckAloneStatus(n, d) = "OK"
    BY <1>2 DEF CheckAloneStatus, Honourable
  <2> QED
    BY <1>4, <1>5, <2>1 DEF CheckStatus, n
<1>6. CASE heard[Other(p)] = {c}
  <2>1. (CHOOSE e \in {c} : TRUE) = c /\ {c} # {}
    OBVIOUS
  <2>2. CheckKnownStatus(n, d, c) = "OK"
    BY <1>3 DEF CheckKnownStatus
  <2> HIDE DEF n, c, d
  <2> QED
    BY <1>4, <1>6, <2>1, <2>2 DEF CheckStatus, c, d, n
<1> QED
  BY <1>5, <1>6

\* negotiation_check against a known peer lets exactly one selection through:
\* the one this machine would have made itself.
LEMMA CheckedIsSelected ==
    ASSUME NEW n \in Selections, NEW c \in Capabilities,
           NEW d \in Capabilities, CheckStatus(n, c, {d}) = "OK"
    PROVE  n = Select(c, d)
<1>1. (CHOOSE e \in {d} : TRUE) = d /\ {d} # {}
  OBVIOUS
<1>2. CheckKnownStatus(n, c, d) = "OK"
  BY <1>1 DEF CheckStatus
<1>3. /\ n.wire_major = Select(c, d).wire_major
      /\ n.link_major = Select(c, d).link_major
      /\ n.max_frame = Select(c, d).max_frame
      /\ n.features = Select(c, d).features
      /\ SelectStatus(c, d) = "OK"
  BY <1>2 DEF CheckKnownStatus
<1>4. Select(c, d) \in Selections
  BY <1>3, SelectIsHonourable
<1> HIDE DEF Select
<1> QED
  BY <1>3, <1>4 DEF Selections

\* A step that puts a selection in force at a machine that knows its peer puts
\* in force the selection of the two present capabilities, and leaves the
\* peer's alone.
LEMMA OutcomeStep ==
    ASSUME TypeOK, [Next]_vars, NEW p \in Peers, NEW q \in Peers, p # q,
           outcome'[p] # outcome[p], outcome'[p] # {},
           heard[p] = {capability[q]}
    PROVE  /\ outcome'[p] = {Select(capability[p], capability[q])}
           /\ outcome'[q] = outcome[q]
<1>1. /\ capability[p] \in Capabilities /\ capability[q] \in Capabilities
      /\ outcome \in [Peers -> SUBSET Selections]
  BY DEF TypeOK
<1>2. ASSUME NEW r \in Peers, Advertise(r)
      PROVE  FALSE
  BY <1>2 DEF Advertise
<1>3. ASSUME NEW r \in Peers, Reconfigure(r)
      PROVE  FALSE
  BY <1>1, <1>3 DEF Reconfigure
<1>4. ASSUME NEW r \in Peers, Propose(r)
      PROVE  /\ outcome'[p] = {Select(capability[p], capability[q])}
             /\ outcome'[q] = outcome[q]
  <2>1. PICK peer \in heard[r] :
            outcome' = [outcome EXCEPT ![r] = {Select(capability[r], peer)}]
    BY <1>4 DEF Propose
  <2>2. r = p
    BY <1>1, <2>1
  <2>3. peer = capability[q]
    BY <2>1, <2>2
  <2> QED
    BY <1>1, <2>1, <2>2, <2>3
<1>5. ASSUME NEW f \in net, NEW r \in Peers, ReceiveCapability(r, f)
      PROVE  FALSE
  BY <1>5 DEF ReceiveCapability
<1>6. ASSUME NEW f \in net, NEW r \in Peers, AcceptNegotiation(r, f)
      PROVE  /\ outcome'[p] = {Select(capability[p], capability[q])}
             /\ outcome'[q] = outcome[q]
  <2>1. /\ outcome' = [outcome EXCEPT ![r] = {f.body}]
        /\ CheckStatus(f.body, capability[r], heard[r]) = "OK"
        /\ f.kind = "NEGOTIATION"
    BY <1>6 DEF AcceptNegotiation
  <2>2. r = p
    BY <1>1, <2>1
  <2>3. f.body \in Selections
    BY <2>1 DEF TypeOK, Frames
  <2>4. f.body = Select(capability[p], capability[q])
    BY <1>1, <2>1, <2>2, <2>3, CheckedIsSelected
  <2> QED
    BY <1>1, <2>1, <2>2, <2>4
<1>7. ASSUME NEW f \in net, Drop(f)
      PROVE  FALSE
  BY <1>7 DEF Drop
<1>8. CASE UNCHANGED vars
  BY <1>8 DEF vars
<1> QED
  BY <1>2, <1>3, <1>4, <1>5, <1>6, <1>7, <1>8 DEF Next

-----------------------------------------------------------------------------

\* Nothing malformed is sent, kept or put in force.
THEOREM ExchangeTypeCorrect == Spec => []TypeOK
  BY AlwaysInv, PTL DEF Inv

\* negotiation_select and both branches of negotiation_check put in force only
\* what the machine itself can honour, whatever was lost, late or stale.
THEOREM ExchangeHonourable == Spec => []OutcomeIsHonourable
  BY AlwaysInv, PTL DEF Inv

\* Simultaneous advertisements need no tiebreaker.
THEOREM ExchangeGlareResolves == Spec => []GlareResolves
  BY ExchangeTypeCorrect, GlareResolvesAlways, PTL

\* Two selections in force, each checked against the present capabilities, are
\* one selection, whichever side proposed and whatever crossed on the way.
THEOREM ExchangeOutcomesAgree == Spec => KnownOutcomesAgree
<1>1. ASSUME TypeOK, [Next]_vars, NEW p \in Peers,
             outcome'[p] # outcome[p], outcome'[p] # {},
             heard[p] = {capability[Other(p)]},
             outcome[Other(p)]
                 = {Select(capability[Other(p)], capability[p])}
      PROVE  outcome'[p] = outcome'[Other(p)]
  <2>1. Other(p) \in Peers /\ Other(p) # p
    BY OtherIsPeer
  <2>2. /\ outcome'[p] = {Select(capability[p], capability[Other(p)])}
        /\ outcome'[Other(p)] = outcome[Other(p)]
    BY <1>1, <2>1, OutcomeStep
  <2>3. capability[p] \in Capabilities /\ capability[Other(p)] \in Capabilities
    BY <1>1, <2>1 DEF TypeOK
  <2> QED
    BY <1>1, <2>2, <2>3, SelectIsSymmetric
<1>2. TypeOK /\ [Next]_vars =>
          [\A p \in Peers :
              LET q == Other(p)
              IN  /\ outcome'[p] # outcome[p] /\ outcome'[p] # {}
                  /\ heard[p] = {capability[q]} /\ heard[q] = {capability[p]}
                  /\ outcome[q] = {Select(capability[q], capability[p])}
                  => outcome'[p] = outcome'[q]]_vars
  BY <1>1
<1> QED
  BY <1>2, ExchangeTypeCorrect, PTL DEF Spec, KnownOutcomesAgree

=============================================================================

------------------------ MODULE NegotiationExchange -------------------------
(***************************************************************************)
(* Two machines agreeing on versions, frame size and features over a medium *)
(* that loses and reorders frames.                                          *)
(*                                                                          *)
(* The library computes (Negotiation); when a machine advertises, proposes  *)
(* or changes its configuration is its caller's business, modelled from     *)
(* src/spec/link-negotiation-v1.md sections 2, 4 and 5.  A machine advertises and   *)
(* proposes again as often as it likes: neither control is acknowledged.    *)
(***************************************************************************)
EXTENDS Negotiation, FiniteSets

CONSTANTS
    Peers,          \* the two machines
    Configurations, \* what each may be configured to support, each once
    NetMax          \* bound on the frames in flight

ASSUME ExchangeAssumption ==
    /\ \E a, b \in Peers : a # b /\ Peers = {a, b}
    /\ Configurations \in [Peers -> SUBSET Capabilities]
    /\ \A p \in Peers : Configurations[p] # {}
    /\ NetMax \in Nat \ {0}

VARIABLES
    capability,  \* what each machine supports now
    spent,       \* configurations each has left behind
    heard,       \* {} or {the capability received last}
    outcome,     \* {} or {the selection in force}
    net          \* frames in flight

vars == <<capability, spent, heard, outcome, net>>

Other(p) == CHOOSE q \in Peers : q # p

\* Each machine begins with a configuration its caller could build.
Buildable(p) ==
    {c \in Configurations[p] :
        MakeCapabilityStatus(c.wire_majors, c.link_majors, c.max_frame) = "OK"}

CapabilityFrame(p, c) == [kind |-> "CAPABILITY", to |-> Other(p), body |-> c]

NegotiationFrame(p, n) == [kind |-> "NEGOTIATION", to |-> Other(p), body |-> n]

Frames ==
    [kind: {"CAPABILITY"}, to: Peers, body: Capabilities]
    \cup [kind: {"NEGOTIATION"}, to: Peers, body: Selections]

Send(f) == Cardinality(net \cup {f}) <= NetMax /\ net' = net \cup {f}

Advertise(p) ==
    /\ CapabilityEncodeStatus(capability[p]) = "OK"
    /\ Send(CapabilityFrame(p, capability[p]))
    /\ UNCHANGED <<capability, spent, heard, outcome>>

\* A machine whose configuration changed says so; what it agreed to before no
\* longer binds it.
Reconfigure(p) ==
    /\ \E c \in Buildable(p) \ (spent[p] \cup {capability[p]}) :
           /\ capability' = [capability EXCEPT ![p] = c]
           /\ Send(CapabilityFrame(p, c))
    /\ spent' = [spent EXCEPT ![p] = @ \cup {capability[p]}]
    /\ outcome' = [outcome EXCEPT ![p] = {}]
    /\ UNCHANGED heard

\* A later CAPABILITY replaces an earlier one and changes nothing else.
ReceiveCapability(p, f) ==
    /\ f.kind = "CAPABILITY" /\ f.to = p
    /\ CapabilityDecodeStatus("exact", f.body) = "OK"
    /\ heard' = [heard EXCEPT ![p] = {f.body}]
    /\ net' = net \ {f}
    /\ UNCHANGED <<capability, spent, outcome>>

Propose(p) ==
    /\ \E peer \in heard[p] :
           LET n == Select(capability[p], peer)
           IN  /\ SelectStatus(capability[p], peer) = "OK"
               /\ NegotiationEncodeStatus(n) = "OK"
               /\ outcome' = [outcome EXCEPT ![p] = {n}]
               /\ Send(NegotiationFrame(p, n))
    /\ UNCHANGED <<capability, spent, heard>>

AcceptNegotiation(p, f) ==
    /\ f.kind = "NEGOTIATION" /\ f.to = p
    /\ NegotiationDecodeStatus("exact", f.body) = "OK"
    /\ CheckStatus(f.body, capability[p], heard[p]) = "OK"
    /\ outcome' = [outcome EXCEPT ![p] = {f.body}]
    /\ net' = net \ {f}
    /\ UNCHANGED <<capability, spent, heard>>

\* A refused control is dropped, and so is a lost one.
Drop(f) ==
    /\ net' = net \ {f}
    /\ UNCHANGED <<capability, spent, heard, outcome>>

Init ==
    /\ capability \in {c \in [Peers -> Capabilities] :
                           \A p \in Peers : c[p] \in Buildable(p)}
    /\ spent = [p \in Peers |-> {}]
    /\ heard = [p \in Peers |-> {}]
    /\ outcome = [p \in Peers |-> {}]
    /\ net = {}

Next ==
    \/ \E p \in Peers : Advertise(p) \/ Reconfigure(p) \/ Propose(p)
    \/ \E f \in net : \/ \E p \in Peers : ReceiveCapability(p, f)
                      \/ \E p \in Peers : AcceptNegotiation(p, f)
                      \/ Drop(f)

Spec == Init /\ [][Next]_vars

Refused(f) ==
    /\ f.kind = "NEGOTIATION"
    /\ CheckStatus(f.body, capability[f.to], heard[f.to]) # "OK"

\* Callers repeat both controls, since neither is acknowledged; a medium that
\* is offered a kind of frame for ever delivers one, and a refused frame does
\* not stay.  Strong fairness of the senders only makes up for NetMax, behind
\* which one sender could otherwise keep another out.  Nobody is obliged to
\* reconfigure.
Fairness ==
    /\ \A p \in Peers :
           /\ SF_vars(Advertise(p))
           /\ SF_vars(Propose(p))
           /\ SF_vars(\E f \in net : ReceiveCapability(p, f))
           /\ SF_vars(\E f \in net : AcceptNegotiation(p, f))
    /\ WF_vars(\E f \in net : Refused(f) /\ Drop(f))

FairSpec == Spec /\ Fairness

-----------------------------------------------------------------------------

TypeOK ==
    /\ capability \in [Peers -> Capabilities]
    /\ spent \in [Peers -> SUBSET Capabilities]
    /\ heard \in [Peers -> SUBSET Capabilities]
    /\ outcome \in [Peers -> SUBSET Selections]
    /\ net \subseteq Frames

\* Whatever selection is in force at a machine, made from a stale capability,
\* accepted knowing the peer or not, that machine can honour it: its own
\* majors and features, a frame no larger than it accepts and large enough for
\* the handoff controls.
OutcomeIsHonourable ==
    \A p \in Peers : \A n \in outcome[p] :
        /\ n.wire_major \in capability[p].wire_majors
        /\ n.link_major \in capability[p].link_majors
        /\ n.features \subseteq capability[p].features
        /\ n.max_frame \in Floor..capability[p].max_frame

\* Machines that know each other's present capability need no tiebreaker: each
\* accepts what the other proposes now (link-negotiation-v1.md, section 4),
\* and so does one that has not heard yet.
GlareResolves ==
    \A p \in Peers :
        LET q == Other(p)
            n == Select(capability[p], capability[q])
        IN  heard[p] = {capability[q]}
            /\ heard[q] \in {{}, {capability[p]}}
            /\ SelectStatus(capability[p], capability[q]) = "OK"
            => CheckStatus(n, capability[q], heard[q]) = "OK"

\* A selection in force on both sides that both checked against the present
\* capabilities is one selection; a proposal delayed across a new
\* advertisement is refused by the machine that knows better.
KnownOutcomesAgree ==
    [][\A p \in Peers :
           LET q == Other(p)
           IN  /\ outcome'[p] # outcome[p] /\ outcome'[p] # {}
               /\ heard[p] = {capability[q]} /\ heard[q] = {capability[p]}
               /\ outcome[q] = {Select(capability[q], capability[p])}
               => outcome'[p] = outcome'[q]]_vars

\* Whatever was lost, delivered late or computed from a capability since
\* replaced, machines that can agree end with one selection and keep it: no
\* proposal in flight unsettles it, no refusal repeats for ever, and a machine
\* that lost the NEGOTIATION after its reconfiguration gets another.
AgreementIsReached ==
    <>[](\A p \in Peers :
             SelectStatus(capability[p], capability[Other(p)]) = "OK" =>
                 outcome[p] # {} /\ outcome[p] = outcome[Other(p)])

=============================================================================

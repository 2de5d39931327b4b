--------------------------- MODULE MCNegotiation ----------------------------
(***************************************************************************)
(* Values for NegotiationExchange: an older and a newer machine, each of    *)
(* which may be upgraded; a configuration below the floor, which no caller  *)
(* can build, and one with no major in common with the newest peer.         *)
(***************************************************************************)
EXTENDS NegotiationExchange, TLC

CONSTANTS A, B

MCPeers == {A, B}

MCConfigurations ==
    (A :> {Capability({0, 1}, {0}, 3, {0}), Capability({1}, {0, 1}, 2, {0, 1})})
    @@ (B :> {Capability({0}, {0}, 2, {1}), Capability({0, 1}, {0, 1}, 3, {0}),
              Capability({0, 1}, {0, 1}, 1, {0})})

=============================================================================

---------------------------- MODULE MCMigration -----------------------------
(***************************************************************************)
(* Values for Migration's constants: machines A and B meet on transport 1   *)
(* (acoustic); 2 and 3 are the transports they may move to.                 *)
(***************************************************************************)
EXTENDS Migration, TLC

CONSTANTS A, B

Offer(m, t) == [mig |-> m, transport |-> t, profile |-> 1, terms |-> 0]

MCPeers == {A, B}

\* Either reference may be the larger, or both machines drew the same one.
AnyRefs == (A :> {1, 2}) @@ (B :> {1, 2})
UnequalRefs == (A :> {1}) @@ (B :> {2})

\* Each migration has challenge bytes of its own, or all share the zero bytes.
FreshChallenges == [m \in MigrationRefs |-> m]
ZeroChallenges == [m \in MigrationRefs |-> 0]

\* Who may offer what.
OneMove == (A :> {Offer(1, 2)}) @@ (B :> {})
ThereAndBack == (A :> {Offer(1, 2), Offer(2, 1)}) @@ (B :> {})
\* Offers that may cross, and each of which may also be made, after the other's
\* migration, to move on.
CrossOrOnward == (A :> {Offer(1, 2)}) @@ (B :> {Offer(2, 3)})
BothOffer == (A :> {Offer(1, 2)}) @@ (B :> {Offer(2, 2)})
\* Both may name one migration_ref, in the same offer or in different ones.
SameMigration ==
    (A :> {Offer(1, 2), Offer(3, 1)})
    @@ (B :> {Offer(1, 2), Offer(1, 3), Offer(2, 3), Offer(4, 1)})

\* Each machine has a reference of its own to bind.
OwnSession == (A :> {1}) @@ (B :> {2})

\* Both would bind the same reference.
OneSession == (A :> {1}) @@ (B :> {1})

\* When a caller's clock may run out.
Never == {}
BeforeCommit ==
    {"controller", "acceptor"} \X {"OFFERED", "AGREED", "VALIDATING"}
    \cup {<<"controller", "VALIDATED">>}
ByController == {"controller"} \X {"OFFERED", "AGREED", "VALIDATING", "VALIDATED"}
AnyRevocable ==
    {"controller", "acceptor"}
    \X {"OFFERED", "AGREED", "VALIDATING", "VALIDATED"}

=============================================================================

------------------------- MODULE MCUserController -------------------------
(* Small instances of UserController for TLC. *)
EXTENDS UserController

MCValues == {"h1", "h2", "ghost", "orders", "billing", "public", ""}
MCPublic == {"public"}
MCSources == {"secret"}
MCHosts == {"h1", "h2"}

Lit(v) == [literal |-> v, source |-> NoValue]
FromSecret == [literal |-> NoValue, source |-> "secret"]
Unset == [literal |-> NoValue, source |-> NoValue]

\* orders is on h1 and has no user of its own; billing is on the host the secret names.
Orders == [name |-> "orders", host |-> Lit("h1"), user |-> Unset]
Billing == [name |-> "billing", host |-> FromSecret, user |-> Lit("billing")]
MCDatabases == {Orders, Billing}
MCOneDatabase == {Orders}

\* The user of billing, and not its host, is in the secret.
MCBothDatabases == {Orders, [Billing EXCEPT !.host = Lit("h2"), !.user = FromSecret]}

\* An out-of-band role whose name merely ends in "read".
Spread == [base |-> "ghost", sep |-> FALSE, suffix |-> "read"]
Static == [base |-> "h2", sep |-> TRUE, suffix |-> "read"]
MCOutOfBand == {Spread}
MCStatic == {Static}
MCNoRoles == {}

Access(k, h, d, sch, from, to) ==
    [host |-> h, database |-> d, schema |-> sch, allDatabases |-> FALSE,
     kind |-> k, start |-> from, stop |-> to]
AllOn(k, h) == [Access(k, h, Unset, Unset, 0, 0) EXCEPT !.allDatabases = TRUE]

ReadOrders == Access("read", Lit("h1"), Lit("orders"), Lit("public"), 0, 0)
WriteOrders == Access("write", Lit("h1"), Lit("orders"), Lit("orders"), 2, 0)
ExtendOrders == Access("extended", Lit("h1"), Lit("orders"), Lit("orders"), 2, 0)
ReadBilling == Access("read", FromSecret, Lit("billing"), Lit("billing"), 0, 0)
ReadNoRole == Access("read", Lit("h1"), Lit("orders"), Lit("billing"), 2, 2)
ReadGhost == Access("read", Lit("ghost"), Lit("orders"), Lit("orders"), 0, 1)

Ada == [sep |-> ".", stem |-> "ada"]
Bob == [sep |-> "_", stem |-> "bob"]

SpecOf(n, as) == [name |-> n, accesses |-> as]

\* One user whose only access ends.
MCAdaOnly == {"u1"}
MCAdaName == {Ada}
WriteOrdersOnce == Access("write", Lit("h1"), Lit("orders"), Lit("orders"), 0, 1)
MCExpiringChoices == [u \in MCAdaOnly |-> {SpecOf(Ada, {WriteOrdersOnce})}]
MCFlickeringStore == [s \in MCSources |-> {"h2", Missing}]
MCSteadyStore == [s \in MCSources |-> {"h2"}]

\* Two users with login roles of their own; Ada's write access on orders ends
\* while her read access goes on, and one of Bob's is on the host that the secret
\* names, so that only part of what he asks for may resolve.
MCTwo == {"u1", "u2"}
MCTwoNames == {Ada, Bob}
MCTwoChoices ==
    [u \in MCTwo |->
        IF u = "u1" THEN {SpecOf(Ada, {ReadOrders, WriteOrdersOnce})}
        ELSE {SpecOf(Bob, {ReadBilling, ReadOrders}), SpecOf(Bob, {ReadOrders})}]

\* Two resources whose names differ in the separator only: one login role. Ada's
\* accesses are on one host or on two, one of them is to all databases on h2, whose
\* users are in the secret, and one names a host without credentials. The other
\* resource asks for a role that h1 does not have together with one that takes the
\* place of what is held, and then for the latter alone.
AdaToo == [sep |-> "_", stem |-> "ada"]
MCSharedNames == {Ada, AdaToo}
MCBothChoices ==
    [u \in MCTwo |->
        IF u = "u1"
        THEN {SpecOf(Ada, {ReadOrders, ExtendOrders}),
              SpecOf(Ada, {AllOn("read", Lit("h2")), ReadOrders, ReadGhost})}
        ELSE {SpecOf(AdaToo, {WriteOrders, ReadNoRole})}]
MCBothStore == [s \in MCSources |-> {"", Missing}]
=============================================================================

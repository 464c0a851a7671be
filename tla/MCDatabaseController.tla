----------------------- MODULE MCDatabaseController -----------------------
(* Small instances of DatabaseController for TLC. *)
EXTENDS DatabaseController, TLC

MCValues == {Empty, "h1", "h2", "orders", "legacy", "app"}
MCNames == {"orders"}
MCHosts == {"h1"}
MCSources == {"secret"}

Lit(v) == [literal |-> v, source |-> NoValue]
FromSecret == [literal |-> NoValue, source |-> "secret"]
Unset == [literal |-> NoValue, source |-> NoValue]

\* PostgreSQLHostCredentials that lead to h1.
MCCredentials == {"remote"}
MCCredentialSpecs == "remote" :> [host |-> Lit("h1"), user |-> Lit("app"), password |-> Lit("app")]
MCNoCredentials == {}
MCNoCredentialSpecs == [c \in MCNoCredentials |-> 0]

Resource(h, creds, u, pw, sh, exts) ==
    [host |-> h, user |-> u, password |-> pw, name |-> "orders", shared |-> sh,
     hostCredentials |-> creds, extensions |-> exts]

MCExtensions == {"pgcrypto"}

\* A service with a database of its own, and a second one that shares it.
MCTwo == {"own", "shared"}
Own == Resource(Lit("h1"), NoValue, Unset, NoValue, FALSE, MCExtensions)
Sharing == Resource(Lit("h1"), NoValue, Lit("legacy"), NoValue, TRUE, {})

\* Edits between every way to name a host, a user and a password, valid or not,
\* with the resource that shares the database beside it.
MCReferences ==
    "own" :> {Resource(Lit("h1"), NoValue, FromSecret, FromSecret, FALSE, {}),
              Resource(Unset, "remote", Lit("app"), Lit("app"), FALSE, {}),
              Resource(FromSecret, NoValue, Lit("app"), NoValue, FALSE, {}),
              Resource(FromSecret, "remote", Unset, Unset, FALSE, {}),
              Resource(Lit("h1"), NoValue, Lit("app"), NoValue, FALSE, MCExtensions),
              Own}
    @@ "shared" :> {Sharing}
MCStore == "secret" :> {Empty, "h1", "h2", Missing}

\* A secret that may not be there.
MCUserStore == "secret" :> {"app", Missing}

\* The same two, the first with its password in the secret.
MCSecretPassword ==
    "own" :> {Resource(Lit("h1"), NoValue, Unset, FromSecret, FALSE, MCExtensions)}
    @@ "shared" :> {Sharing}

=============================================================================

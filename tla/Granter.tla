------------------------------ MODULE Granter ------------------------------
(***************************************************************************)
(* The pure part of user access: how the access requests of a              *)
(* PostgreSQLUser become the roles a login role must hold on a host.       *)
(*                                                                         *)
(*   pkg/grants/grants.go       groupAccesses and what it calls            *)
(*   pkg/postgres/postgres.go   rolesDiff                                  *)
(*                                                                         *)
(* Host names, database names and schema names are members of Values.  A   *)
(* role name is the record of the parts the code looks at: what stands     *)
(* before the suffix, whether an underscore joins the two, and the suffix  *)
(* ("" when the name ends in none of the three).                           *)
(***************************************************************************)
EXTENDS Naturals, FiniteSets, Kube

CONSTANTS
    Empty,              \* the empty string, as the value behind a key
    PublicSchemas,      \* the spellings of "public" (strings.EqualFold)
    Databases,          \* the PostgreSQLDatabase resources of the namespace
    StaticRoles,        \* Granter.StaticRoles
    AllDatabasesReadEnabled, AllDatabasesWriteEnabled, ExtendedWritesEnabled

Privileges == {"read", "write", "owningwrite"}
Suffixes == {"read", "readwrite", "readowningwrite"}

RoleNames == [base : Values, sep : BOOLEAN, suffix : Suffixes \cup {""}]

\* A read access, a write access, or a write access with Extended set.  A zero
\* time (metav1.Time.IsZero) is 0; the clock starts at 1.
AccessSpecs ==
    [host : Refs, database : Refs, schema : Refs, allDatabases : BOOLEAN,
     kind : {"read", "write", "extended"}, start : Nat, stop : Nat]

DatabaseResources == [name : Values, host : Refs, user : Refs]

ReadWriteAccess ==
    [host : Values, name : Values, schema : Values, privilege : Privileges]

\* What the API server answers while accesses are grouped: the value behind each
\* source, the databases in phase Running, and whether listing them fails.
Answers == [store : Stores, running : SUBSET Databases, listFails : BOOLEAN]

ASSUME GranterAssumption ==
    /\ Empty \in Values
    /\ PublicSchemas \subseteq Values
    /\ Databases \subseteq DatabaseResources
    /\ StaticRoles \subseteq RoleNames
    /\ AllDatabasesReadEnabled \in BOOLEAN
    /\ AllDatabasesWriteEnabled \in BOOLEAN
    /\ ExtendedWritesEnabled \in BOOLEAN

-----------------------------------------------------------------------------
(* Grouping accesses by host.                                              *)

privilegeLookup(a) ==
    CASE a.kind = "read" -> "read"
      [] a.kind = "extended" /\ ExtendedWritesEnabled -> "owningwrite"
      [] OTHER -> "write"

allDatabasesEnabled(a) ==
    IF a.kind = "read" THEN AllDatabasesReadEnabled ELSE AllDatabasesWriteEnabled

\* Mutant: the start of an access is not looked at.
startIgnored(a, t) == FALSE
notStarted(a, t) == a.start # 0 /\ t < a.start

\* Mutant: an access never expires.
stopIgnored(a, t) == FALSE
expired(a, t) == a.stop # 0 /\ t > a.stop

active(a, t) == ~notStarted(a, t) /\ ~expired(a, t)

\* The PostgreSQLDatabase resources in phase Running that are on a host.
databasesOn(host, api) ==
    {d \in api.running : ResourceValue(api.store, d.host) = host}

\* The schema is the database's user, or its name when no user is given or the
\* user is the empty string.
databaseSchema(api, d) ==
    IF ResourceValue(api.store, d.user) \in {NoValue, Empty}
    THEN d.name
    ELSE ResourceValue(api.store, d.user)

groupAllDatabasesByHost(host, a, api) ==
    {[host |-> host, name |-> d.name, schema |-> databaseSchema(api, d),
      privilege |-> privilegeLookup(a)] :
        d \in {x \in databasesOn(host, api) :
                  ~api.listFails /\ ResourceValue(api.store, x.user) # Missing}}

allDatabasesErr(host, api) ==
    \/ api.listFails
    \/ \E d \in api.running : ~resolves(api.store, d.host)
    \/ \E d \in databasesOn(host, api) : ResourceValue(api.store, d.user) = Missing

\* What one access contributes to HostAccess at time t ...
groupByHosts(a, t, api) ==
    LET host == ResourceValue(api.store, a.host)
        requested == [host |-> host,
                      name |-> ResourceValue(api.store, a.database),
                      schema |-> ResourceValue(api.store, a.schema),
                      privilege |-> privilegeLookup(a)]
    IN  IF ~active(a, t) \/ ~resolves(api.store, a.host) THEN {}
        ELSE IF a.allDatabases
        THEN {x \in groupAllDatabasesByHost(host, a, api) : allDatabasesEnabled(a)}
        ELSE {x \in {requested} : resolves(api.store, a.database)
                                    /\ resolves(api.store, a.schema)}

\* ... and whether it contributes an AccessError.
accessErr(a, t, api) ==
    /\ active(a, t)
    /\ \/ ~resolves(api.store, a.host)
       \/ /\ a.allDatabases
          /\ allDatabasesEnabled(a)
          /\ allDatabasesErr(ResourceValue(api.store, a.host), api)
       \/ /\ ~a.allDatabases
          /\ ~(resolves(api.store, a.database) /\ resolves(api.store, a.schema))

groupAccesses(accesses, t, api) == UNION {groupByHosts(a, t, api) : a \in accesses}

hostsOf(grouped) == {x.host : x \in grouped}
onHost(grouped, h) == {x \in grouped : x.host = h}

-----------------------------------------------------------------------------
(* From accesses to roles.                                                 *)

roleSuffix(p) ==
    CASE p = "read" -> "read"
      [] p = "write" -> "readwrite"
      [] OTHER -> "readowningwrite"

\* A schema called public is shared by every database: the role is then named
\* after the database.
accessRole(x) ==
    [base |-> IF x.schema \in PublicSchemas THEN x.name ELSE x.schema,
     sep |-> TRUE,
     suffix |-> roleSuffix(x.privilege)]

accessRoles(databases) == {accessRole(x) : x \in databases}

expectedRoles(databases) == StaticRoles \cup accessRoles(databases)

\* strings.HasSuffix with "read", "readwrite" and "readowningwrite": what joins
\* the suffix to the rest of the name is not looked at.
hasSuffix(r) == r.suffix # ""

addableRoles(existing, databases) == expectedRoles(databases) \ existing

removeableRoles(existing, databases) ==
    {r \in existing \ expectedRoles(databases) : hasSuffix(r)}
=============================================================================

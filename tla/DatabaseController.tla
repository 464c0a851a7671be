------------------------ MODULE DatabaseController ------------------------
(***************************************************************************)
(* The PostgreSQLDatabase controller: resolving the references of a        *)
(* resource, provisioning its database, roles, schema and privileges       *)
(* statement by statement, and reporting the outcome in its status.        *)
(*                                                                         *)
(*   internal/controller/postgresqldatabase_controller.go                  *)
(*   pkg/postgres/database.go, extensions.go, preflight.go, manager_role.go *)
(*                                                                         *)
(* One worker reconciles (the default of controller-runtime).  Every       *)
(* statement is a step of its own: it may fail without effect, or take     *)
(* effect and have its answer lost, and the controller may restart between *)
(* any two of them.  A connection is closed after each statement           *)
(* (SetMaxIdleConns(0) in Connect), so SET ROLE holds for one statement.   *)
(***************************************************************************)
EXTENDS Naturals, FiniteSets, Kube

CONSTANTS
    Databases,          \* PostgreSQLDatabase resources (namespaced names)
    Names,              \* values of spec.name
    SpecChoices,        \* SpecChoices[d]: the specs d may be given
    StoreChoices,       \* StoreChoices[s]: what source s may resolve to
    Extensions,         \* PostgreSQL extensions
    Credentials,        \* PostgreSQLHostCredentials resources ...
    CredentialSpecs,    \* ... and their specs
    Hosts,              \* the PostgreSQL servers
    HostCredentials,    \* the servers the controller has credentials for itself
    SuperuserHosts,     \* where the admin passes the preflight check
    AdminIsSuperuser,   \* the admin is a superuser, not just a member of rds_superuser
    Empty,              \* the empty string
    Admin, Manager,     \* the role of the controller's connections, ManagerRoleName
    Public,             \* the role PUBLIC
    None,               \* "no resource", "no spec", "no database"
    MaxChanges,         \* bound on changes made from outside
    MaxFaults           \* bound on failing calls and restarts

\* The service role u, and u_read, u_readwrite and u_readowningwrite.
ServiceRoles == [base : Values, suffix : {"service", "read", "readwrite", "readowningwrite"}]
Roles == ServiceRoles \cup {Admin, Manager}

role(u, suffix) == [base |-> u, suffix |-> suffix]
service(u) == role(u, "service")

Specs == [name : Names, user : Refs, password : Refs \cup {NoValue}, shared : BOOLEAN,
          host : Refs, hostCredentials : Credentials \cup {NoValue},
          extensions : SUBSET Extensions]

\* An access control entry: on the database and its public schema (schema is NoValue),
\* or on one schema and the tables it has ("read", "write") or will have ("readLater",
\* "writeLater").  PUBLIC's TEMPORARY on a new database stands for what it has by
\* default besides CONNECT, the public schema included.
Entries == [db : Names, schema : Values \cup {NoValue},
            priv : {"connect", "temporary", "usage", "read", "write", "readLater", "writeLater"},
            to : ServiceRoles \cup {Public}]

ASSUME DatabaseControllerAssumption ==
    /\ Names \subseteq Values /\ Empty \in Values \ Names
    /\ SpecChoices \in [Databases -> SUBSET Specs]
    /\ StoreChoices \in [Sources -> SUBSET (Values \cup {Missing})]
    /\ CredentialSpecs \in [Credentials -> [host : Refs, user : Refs, password : Refs]]
    /\ HostCredentials \subseteq Hosts /\ SuperuserHosts \subseteq Hosts
    /\ Hosts \subseteq Values \ {Empty}
    /\ NoValue \notin Credentials \cup Refs
    /\ AdminIsSuperuser \in BOOLEAN
    /\ Admin # Manager /\ {Admin, Manager, Public} \cap ServiceRoles = {}
    /\ None \notin Databases \cup Specs \cup Roles
    /\ MaxChanges \in Nat /\ MaxFaults \in Nat

VARIABLES
    \* the API server
    present,        \* the resources that exist
    spec, status,   \* spec[d] and status[d]
    store,          \* what secrets and config maps hold
    credentials,    \* the PostgreSQLHostCredentials that exist
    \* the PostgreSQL servers
    owner,          \* owner[h][n]: the owner of database n, or None
    roles,          \* roles[h]
    login,          \* login[h]: service roles with LOGIN
    member,         \* member[h]: pairs <<r, m>>, role r granted to role m
    schemas,        \* schemas[h]: pairs <<n, u>>, schema u of database n, owned by role u
    acl,            \* acl[h]: entries
    extensions,     \* extensions[h]: pairs <<n, e>>
    \* the controller
    queue,          \* the work queue
    pc,             \* the call the worker makes next
    res,            \* the resource being reconciled
    snap,           \* its spec as read by Client.Get
    fresh,          \* the resource has not changed since Client.Get
    host, usr, pwd, \* what has been resolved so far
    err,            \* the error to return
    \* the world
    changes, faults

apiVars == <<present, spec, status, store, credentials>>
pgVars == <<owner, roles, login, member, schemas, acl, extensions>>
localVars == <<res, snap, fresh, host, usr, pwd>>
vars == <<apiVars, pgVars, queue, pc, localVars, err, changes, faults>>

\* Calls before a database is touched, the statements of postgres.Database in
\* order, and among them those that run once the deferred REVOKE is registered.
Deferred == {"alterOwner", "grantOwningWrite", "createSchema", "setDefaultPrivileges",
             "revokeAllOnPublic", "grantConnect", "grantUsage", "ensureExtensions"}
Statements == {"createDatabase", "connect", "createServiceRole", "alterServiceRole",
               "grantShared", "grantAdminOption", "createRoles", "grantCurrentUser"}
                 \cup Deferred
Calls == {"adminCredentials", "prepareHost", "resolveUser", "resolvePassword"} \cup Statements
PCs == {"idle", "release", "persist"} \cup Calls

\* Errors: of type Invalid, both Temporary and Invalid ("missing"), or neither.
Errors == [kind : {"none", "invalid", "missing", "unknown"}, at : PCs]
NoErr == [kind |-> "none", at |-> "idle"]

Statuses == [phase : {"Unset", "Failed", "Invalid", "Running"}, host : Values \cup {NoValue},
             user : Values \cup {NoValue}, err : Errors]
NoStatus == [phase |-> "Unset", host |-> NoValue, user |-> NoValue, err |-> NoErr]

\* The type invariant.
TypeOK ==
    /\ present \subseteq Databases
    /\ spec \in [Databases -> Specs] /\ status \in [Databases -> Statuses]
    /\ store \in Stores /\ credentials \subseteq Credentials
    /\ owner \in [Hosts -> [Names -> Roles \cup {None}]]
    /\ roles \in [Hosts -> SUBSET Roles]
    /\ login \in [Hosts -> SUBSET ServiceRoles]
    /\ member \in [Hosts -> SUBSET (Roles \X Roles)]
    /\ schemas \in [Hosts -> SUBSET (Names \X Values)]
    /\ acl \in [Hosts -> SUBSET Entries]
    /\ extensions \in [Hosts -> SUBSET (Names \X Extensions)]
    /\ queue \subseteq Databases
    /\ pc \in PCs
    /\ res \in Databases \cup {None} /\ snap \in Specs \cup {None} /\ fresh \in BOOLEAN
    /\ host \in Values \cup {NoValue} /\ usr \in Values \cup {NoValue} /\ pwd \in Values
    /\ err \in Errors
    /\ changes \in 0..MaxChanges /\ faults \in 0..MaxFaults

Init ==
    /\ present = {}
    /\ spec \in [Databases -> UNION {SpecChoices[d] : d \in Databases}]
    /\ \A d \in Databases : spec[d] \in SpecChoices[d]
    /\ status = [d \in Databases |-> NoStatus]
    /\ store \in [Sources -> UNION {StoreChoices[s] : s \in Sources}]
    /\ \A s \in Sources : store[s] \in StoreChoices[s]
    /\ credentials \in SUBSET Credentials
    /\ owner = [h \in Hosts |-> [n \in Names |-> None]]
    /\ roles = [h \in Hosts |-> {Admin}]
    /\ login = [h \in Hosts |-> {}] /\ member = [h \in Hosts |-> {}]
    /\ schemas = [h \in Hosts |-> {}] /\ acl = [h \in Hosts |-> {}]
    /\ extensions = [h \in Hosts |-> {}]
    /\ queue = {}
    /\ pc = "idle" /\ res = None /\ snap = None /\ fresh = FALSE
    /\ host = NoValue /\ usr = NoValue /\ pwd = Empty /\ err = NoErr
    /\ changes = 0 /\ faults = 0

-----------------------------------------------------------------------------
(* Outcomes of a call.                                                     *)

\* A call outside the process that fails, and a restart, use up a fault.
Fault == faults < MaxFaults /\ faults' = faults + 1

\* Mutant: the REVOKE that Database defers is only run when nothing fails.
failsWithoutRelease(kind) ==
    /\ err' = [kind |-> kind, at |-> pc]
    /\ pc' = "persist"

\* The call returns an error, and so does everything around it.
Fails(kind) ==
    /\ err' = [kind |-> kind, at |-> pc]
    /\ pc' = IF pc \in Deferred THEN "release" ELSE "persist"

\* The call takes effect, and its answer arrives or is lost.
Answered(next) ==
    \/ pc' = next /\ UNCHANGED <<err, faults>>
    \/ Fails("unknown") /\ Fault

-----------------------------------------------------------------------------
(* What PostgreSQL allows.                                                 *)

\* The roles whose rights m has: itself, and transitively what was granted to it.
rolesHeld(h, m) ==
    LET held[n \in Nat] ==
            IF n = 0 THEN {m}
            ELSE LET before == held[n - 1]
                 IN  before \cup {p[1] : p \in {q \in member[h] : q[2] \in before}}
    IN  held[Cardinality(member[h])]

adminOwns == AdminIsSuperuser \/ owner[host][snap.name] \in rolesHeld(host, Admin)

\* SET ROLE usr, and then a statement that only the database's owner may run.
ownsAs ==
    /\ AdminIsSuperuser \/ service(usr) \in rolesHeld(host, Admin)
    /\ owner[host][snap.name] \in rolesHeld(host, service(usr))

\* An entry for PUBLIC on the database, or on a schema of it.
toPublic(n, schema, priv) == [db |-> n, schema |-> schema, priv |-> priv, to |-> Public]

toInstall == {e \in snap.extensions : <<snap.name, e>> \notin extensions[host]}

\* Whether the statement succeeds when nothing goes wrong on the way.
allowed(at) ==
    CASE at = "prepareHost" -> host \in SuperuserHosts
      [] at = "createDatabase" -> usr # Empty
      [] at = "connect" -> adminOwns \/ toPublic(snap.name, NoValue, "connect") \in acl[host]
      [] at = "grantShared" ->
            service(snap.name) \in roles[host] /\ service(usr) \notin rolesHeld(host, service(snap.name))
      [] at = "alterOwner" -> adminOwns
      [] at \in {"createSchema", "revokeAllOnPublic", "grantConnect"} -> ownsAs
      [] at = "ensureExtensions" -> toInstall = {} \/ <<snap.name, snap.name>> \in schemas[host]
      [] OTHER -> TRUE

Runs(at, next) ==
    /\ pc = at /\ allowed(at)
    /\ Answered(next)
    /\ UNCHANGED <<apiVars, queue, localVars, changes>>

\* PostgreSQL refuses the statement with an error that tryExec does not expect.
Refused ==
    /\ pc \in {"prepareHost"} \cup Statements /\ ~allowed(pc)
    /\ Fails("unknown")
    /\ UNCHANGED <<apiVars, pgVars, queue, localVars, changes, faults>>

\* The call never reaches the server, or the API server does not answer.
CallFails ==
    /\ pc \in Calls
    /\ Fails("unknown") /\ Fault
    /\ UNCHANGED <<apiVars, pgVars, queue, localVars, changes>>

-----------------------------------------------------------------------------
(* reconcile: from the resource to host, user and password.                *)

GetNothing(d) ==
    /\ pc = "idle" /\ d \in queue \ present
    /\ queue' = queue \ {d}
    /\ UNCHANGED <<apiVars, pgVars, pc, localVars, err, changes, faults>>

Get(d) ==
    /\ pc = "idle" /\ d \in queue \cap present
    /\ queue' = queue \ {d}
    /\ res' = d /\ snap' = spec[d] /\ fresh' = TRUE
    /\ pc' = "adminCredentials"
    /\ UNCHANGED <<apiVars, pgVars, host, usr, pwd, err, changes, faults>>

\* The error that stands for the value of a reference, if it stands for one.
errorOf(v) == CASE v = NoValue -> "invalid" [] v = Missing -> "missing" [] OTHER -> "none"

\* The first reference that does not resolve decides the error.
remoteCredentials(c) ==
    LET value(field) == ResourceValue(store, CredentialSpecs[c][field])
    IN  IF c \notin credentials THEN [host |-> NoValue, kind |-> "unknown"]
        ELSE IF errorOf(value("user")) # "none"
        THEN [host |-> NoValue, kind |-> errorOf(value("user"))]
        ELSE IF errorOf(value("password")) # "none"
        THEN [host |-> NoValue, kind |-> errorOf(value("password"))]
        ELSE IF errorOf(value("host")) # "none"
        THEN [host |-> NoValue, kind |-> errorOf(value("host"))]
        ELSE [host |-> value("host"), kind |-> "none"]

\* Exactly one of host and hostCredentials must be given, an empty host being none.
credentialsFor(s) ==
    LET h == ResourceValue(store, s.host)
        given == h \notin {NoValue, Empty}
        remote == s.hostCredentials # NoValue
    IN  CASE h = Missing -> [host |-> NoValue, kind |-> "missing"]
          [] ~given /\ remote -> remoteCredentials(s.hostCredentials)
          [] h # Missing /\ given /\ ~remote /\ h \in HostCredentials -> [host |-> h, kind |-> "none"]
          [] OTHER -> [host |-> NoValue, kind |-> "invalid"]

adminCredentials ==
    LET found == credentialsFor(snap)
    IN  /\ pc = "adminCredentials"
        /\ host' = found.host
        /\ IF found.kind = "none" THEN pc' = "prepareHost" /\ UNCHANGED err ELSE Fails(found.kind)
        /\ UNCHANGED <<apiVars, pgVars, queue, res, snap, fresh, usr, pwd, changes, faults>>

\* Connect, Preflight and EnsureManagerRole.
prepareHost ==
    /\ Runs("prepareHost", "resolveUser")
    /\ roles' = [roles EXCEPT ![host] = @ \cup {Manager}]
    /\ UNCHANGED <<owner, login, member, schemas, acl, extensions>>

\* A user that is not given, or whose secret or key is not found, is the name.
userFor(s) ==
    IF resolves(store, s.user) THEN ResourceValue(store, s.user) ELSE s.name

\* No password at all is the empty one.
passwordFor(s) == IF s.password = NoValue THEN Empty ELSE ResourceValue(store, s.password)

resolveUser ==
    /\ pc = "resolveUser"
    /\ usr' = userFor(snap)
    /\ pc' = "resolvePassword"
    /\ UNCHANGED <<apiVars, pgVars, queue, res, snap, fresh, host, pwd, err, changes, faults>>

\* Mutant: the error of the password reference is not looked at.
resolveUnchecked ==
    /\ pc = "resolvePassword"
    /\ pwd' = passwordFor(snap)
    /\ pc' = "createDatabase"
    /\ UNCHANGED <<apiVars, pgVars, queue, res, snap, fresh, host, usr, err, changes, faults>>

\* The secret may have changed since the user was read from it.
resolvePassword ==
    LET found == passwordFor(snap)
    IN  /\ pc = "resolvePassword"
        /\ IF errorOf(found) = "none"
           THEN pwd' = found /\ pc' = "createDatabase" /\ UNCHANGED err
           ELSE Fails(errorOf(found)) /\ UNCHANGED pwd
        /\ UNCHANGED <<apiVars, pgVars, queue, res, snap, fresh, host, usr, changes, faults>>

-----------------------------------------------------------------------------
(* postgres.Database, statement by statement.                              *)

\* Mutant: duplicate_database is an error like any other.
createDatabaseOnce ==
    /\ Runs("createDatabase", "connect")
    /\ owner[host][snap.name] = None
    /\ owner' = [owner EXCEPT ![host][snap.name] = Admin]
    /\ acl' = [acl EXCEPT ![host] = @ \cup {toPublic(snap.name, NoValue, "connect"),
                                            toPublic(snap.name, NoValue, "temporary")}]
    /\ UNCHANGED <<roles, login, member, schemas, extensions>>

\* duplicate_database is expected: the database keeps its owner and its entries.
createDatabase ==
    LET new == owner[host][snap.name] = None
    IN  /\ Runs("createDatabase", "connect")
        /\ owner' = IF new THEN [owner EXCEPT ![host][snap.name] = Admin] ELSE owner
        /\ acl' = IF new
                  THEN [acl EXCEPT ![host] = @ \cup {toPublic(snap.name, NoValue, "connect"),
                                                     toPublic(snap.name, NoValue, "temporary")}]
                  ELSE acl
        /\ UNCHANGED <<roles, login, member, schemas, extensions>>

Connect ==
    /\ Runs("connect", "createServiceRole")
    /\ UNCHANGED pgVars

createServiceRole ==
    /\ Runs("createServiceRole", "alterServiceRole")
    /\ roles' = [roles EXCEPT ![host] = @ \cup {service(usr)}]
    /\ UNCHANGED <<owner, login, member, schemas, acl, extensions>>

\* Mutant: nothing is done without a password.
alterWithPassword ==
    /\ Runs("alterServiceRole", IF snap.shared THEN "grantShared" ELSE "grantAdminOption")
    /\ login' = [login EXCEPT ![host] = IF pwd # Empty THEN @ \cup {service(usr)} ELSE @]
    /\ UNCHANGED <<owner, roles, member, schemas, acl, extensions>>

\* LOGIN with a password, NOLOGIN without one.
alterServiceRole ==
    /\ Runs("alterServiceRole", IF snap.shared THEN "grantShared" ELSE "grantAdminOption")
    /\ login' = [login EXCEPT ![host] =
                    IF pwd # Empty THEN @ \cup {service(usr)} ELSE @ \ {service(usr)}]
    /\ UNCHANGED <<owner, roles, member, schemas, acl, extensions>>

Grant(r, m) == member' = [member EXCEPT ![host] = @ \cup {<<r, m>>}]

grantShared ==
    /\ Runs("grantShared", "grantAdminOption")
    /\ Grant(service(snap.name), service(usr))
    /\ UNCHANGED <<owner, roles, login, schemas, acl, extensions>>

\* The role is named after the database; undefined_object is expected.
grantAdminOption ==
    /\ Runs("grantAdminOption", "createRoles")
    /\ IF service(snap.name) \in roles[host]
       THEN Grant(service(snap.name), Manager)
       ELSE UNCHANGED member
    /\ UNCHANGED <<owner, roles, login, schemas, acl, extensions>>

AccessSuffixes == {"read", "readwrite", "readowningwrite"}
accessRolesOf(u) == [base : {u}, suffix : AccessSuffixes]

createRoles ==
    /\ Runs("createRoles", "grantCurrentUser")
    /\ roles' = [roles EXCEPT ![host] = @ \cup accessRolesOf(usr)]
    /\ UNCHANGED <<owner, login, member, schemas, acl, extensions>>

\* An error does not keep the other roles from being created.
createRolesFails ==
    /\ pc = "createRoles"
    /\ Fails("unknown") /\ Fault
    /\ \E some \in SUBSET accessRolesOf(usr) :
          roles' = [roles EXCEPT ![host] = @ \cup some]
    /\ UNCHANGED <<owner, login, member, schemas, acl, extensions>>
    /\ UNCHANGED <<apiVars, queue, localVars, changes>>

grantCurrentUser ==
    /\ Runs("grantCurrentUser", IF snap.shared THEN "grantOwningWrite" ELSE "alterOwner")
    /\ Grant(service(usr), Admin)
    /\ UNCHANGED <<owner, roles, login, schemas, acl, extensions>>

alterOwner ==
    /\ Runs("alterOwner", "grantOwningWrite")
    /\ owner' = [owner EXCEPT ![host][snap.name] = service(usr)]
    /\ UNCHANGED <<roles, login, member, schemas, acl, extensions>>

grantOwningWrite ==
    /\ Runs("grantOwningWrite", "createSchema")
    /\ Grant(service(usr), role(usr, "readowningwrite"))
    /\ UNCHANGED <<owner, roles, login, schemas, acl, extensions>>

\* duplicate_schema is expected.
createSchemaAs ==
    /\ Runs("createSchema", "setDefaultPrivileges")
    /\ schemas' = [schemas EXCEPT ![host] = @ \cup {<<snap.name, usr>>}]
    /\ UNCHANGED <<owner, roles, login, member, acl, extensions>>

\* The entry made by the i-th statement for one role: its tables to come in the
\* schema and in the public one, usage of the schema, and the tables that are there.
privilege(n, u, suffix, i) ==
    [db |-> n,
     schema |-> IF i = 2 THEN NoValue ELSE u,
     priv |-> CASE i \in {1, 2} -> IF suffix = "read" THEN "readLater" ELSE "writeLater"
                [] i = 3 -> "usage"
                [] OTHER -> IF suffix = "read" THEN "read" ELSE "write",
     to |-> role(u, suffix)]

privilegesOf(n, u, suffix) == {privilege(n, u, suffix, i) : i \in 1..4}

GrantPrivileges(entries) ==
    /\ acl' = [acl EXCEPT ![host] = @ \cup entries]
    /\ UNCHANGED <<owner, roles, login, member, schemas, extensions>>

setDefaultPrivileges ==
    /\ Runs("setDefaultPrivileges", "revokeAllOnPublic")
    /\ GrantPrivileges(UNION {privilegesOf(snap.name, usr, x) : x \in AccessSuffixes})

\* The roles that are through when x has its turn.
servedBefore(x) ==
    CASE x = "read" -> {} [] x = "readwrite" -> {"read"} [] OTHER -> {"read", "readwrite"}

\* What the roles have after i statements for x.
grantedSoFar(n, u, x, i) ==
    {privilege(n, u, x, j) : j \in 1..i}
      \cup (UNION {privilegesOf(n, u, y) : y \in servedBefore(x)})

\* The first error ends it.
setDefaultPrivilegesFails ==
    /\ pc = "setDefaultPrivileges"
    /\ Fails("unknown") /\ Fault
    /\ \E x \in AccessSuffixes, i \in 1..4 :
          GrantPrivileges(grantedSoFar(snap.name, usr, x, i))
    /\ UNCHANGED <<apiVars, queue, localVars, changes>>

\* Mutant: every entry on the database is revoked, not just those of PUBLIC.
revokeAllFromAll ==
    /\ Runs("revokeAllOnPublic", "grantConnect")
    /\ acl' = [acl EXCEPT ![host] = {e \in @ : e.db # snap.name}]
    /\ UNCHANGED <<owner, roles, login, member, schemas, extensions>>

\* Database and public schema, in one implicit transaction.
revokeAllOnPublic ==
    /\ Runs("revokeAllOnPublic", "grantConnect")
    /\ acl' = [acl EXCEPT ![host] =
                  {e \in @ : ~(e.to = Public /\ e.db = snap.name /\ e.schema = NoValue)}]
    /\ UNCHANGED <<owner, roles, login, member, schemas, extensions>>

GrantToPublic(schema, priv) ==
    /\ acl' = [acl EXCEPT ![host] = @ \cup {toPublic(snap.name, schema, priv)}]
    /\ UNCHANGED <<owner, roles, login, member, schemas, extensions>>

grantConnect ==
    /\ Runs("grantConnect", "grantUsage")
    /\ GrantToPublic(NoValue, "connect")

grantUsage ==
    /\ Runs("grantUsage", "ensureExtensions")
    /\ GrantToPublic(usr, "usage")

\* Extensions go into the schema named after the database.
installExtensions(some) ==
    /\ extensions' = [extensions EXCEPT ![host] = @ \cup ({snap.name} \X some)]
    /\ UNCHANGED <<owner, roles, login, member, schemas, acl>>

ensureExtensions ==
    /\ Runs("ensureExtensions", "release")
    /\ installExtensions(toInstall)

ensureExtensionsFails ==
    /\ pc = "ensureExtensions" /\ allowed(pc)
    /\ Fails("unknown") /\ Fault
    /\ \E some \in SUBSET toInstall : installExtensions(some)
    /\ UNCHANGED <<apiVars, queue, localVars, changes>>

\* The deferred REVOKE FROM CURRENT_USER.
release ==
    /\ pc = "release"
    /\ member' = [member EXCEPT ![host] = @ \ {<<service(usr), Admin>>}]
    /\ pc' = "persist"
    /\ UNCHANGED <<owner, roles, login, schemas, acl, extensions>>
    /\ UNCHANGED <<apiVars, queue, localVars, err, changes, faults>>

\* Its error is logged and otherwise ignored.
releaseFails ==
    /\ pc = "release"
    /\ Fault
    /\ pc' = "persist"
    /\ UNCHANGED <<apiVars, pgVars, queue, localVars, err, changes>>

-----------------------------------------------------------------------------
(* status.Persist and requeueStrategy.                                     *)

IsInvalid(e) == e.kind \in {"invalid", "missing"}

phaseOf(e) ==
    CASE e = NoErr -> "Running"
      [] e # NoErr /\ IsInvalid(e) -> "Invalid"
      [] OTHER -> "Failed"

\* The user is written, but a new user alone is no reason to write.
update(old) == ~(old.phase = phaseOf(err) /\ old.err = err /\ old.host = host)

\* Errors that are also temporary are dropped with the other invalid ones.
requeueStrategy(e) == e # NoErr /\ ~IsInvalid(e)

\* reconcile returns; a status that was written comes back as an event.
Return(written) ==
    /\ queue' = IF written \/ requeueStrategy(err) THEN queue \cup {res} ELSE queue
    /\ pc' = "idle" /\ res' = None /\ snap' = None /\ fresh' = FALSE
    /\ host' = NoValue /\ usr' = NoValue /\ pwd' = Empty /\ err' = NoErr

\* Writing to a resource that has changed since Client.Get is a conflict, which
\* is logged like every other error.
Persist ==
    LET written == update(status[res]) /\ fresh
    IN  /\ pc = "persist"
        /\ status' = IF written
                     THEN [status EXCEPT ![res] = [phase |-> phaseOf(err), host |-> host,
                                                   user |-> usr, err |-> err]]
                     ELSE status
        /\ Return(written)
        /\ UNCHANGED <<present, spec, store, credentials, pgVars, changes, faults>>

PersistFails ==
    /\ pc = "persist" /\ update(status[res])
    /\ Fault
    /\ Return(FALSE)
    /\ UNCHANGED <<apiVars, pgVars, changes>>

\* The controller stops; what a new one lists is queued.
Restart ==
    /\ Fault
    /\ queue' = present
    /\ pc' = "idle" /\ res' = None /\ snap' = None /\ fresh' = FALSE
    /\ host' = NoValue /\ usr' = NoValue /\ pwd' = Empty /\ err' = NoErr
    /\ UNCHANGED <<apiVars, pgVars, changes>>

\* SyncPeriod is over.
Resync ==
    /\ ~(present \subseteq queue)
    /\ queue' = queue \cup present
    /\ UNCHANGED <<apiVars, pgVars, pc, localVars, err, changes, faults>>

-----------------------------------------------------------------------------
(* Changes from outside.                                                   *)

Change == changes < MaxChanges /\ changes' = changes + 1

\* A change of d reaches the work queue and outdates the worker's copy.
Touch(d) ==
    /\ queue' = queue \cup {d}
    /\ fresh' = (fresh /\ res # d)

CreateResource(d, s) ==
    /\ d \notin present
    /\ Change
    /\ present' = present \cup {d}
    /\ spec' = [spec EXCEPT ![d] = s] /\ status' = [status EXCEPT ![d] = NoStatus]
    /\ Touch(d)
    /\ UNCHANGED <<store, credentials, pgVars, pc, res, snap, host, usr, pwd, err, faults>>

EditResource(d, s) ==
    /\ d \in present /\ spec[d] # s
    /\ Change
    /\ spec' = [spec EXCEPT ![d] = s]
    /\ Touch(d)
    /\ UNCHANGED <<present, status, store, credentials, pgVars, pc, res, snap, host, usr, pwd,
                   err, faults>>

\* There is no finalizer: the resource is gone at once, the database stays.
DeleteResource(d) ==
    /\ d \in present
    /\ Change
    /\ present' = present \ {d}
    /\ Touch(d)
    /\ UNCHANGED <<spec, status, store, credentials, pgVars, pc, res, snap, host, usr, pwd,
                   err, faults>>

\* Secrets, config maps and host credentials are not watched.
ChangeSource(s, v) ==
    /\ store[s] # v
    /\ Change
    /\ store' = [store EXCEPT ![s] = v]
    /\ UNCHANGED <<present, spec, status, credentials, pgVars, queue, pc, localVars, err, faults>>

ChangeCredentials(c) ==
    /\ Change
    /\ credentials' = IF c \in credentials THEN credentials \ {c} ELSE credentials \cup {c}
    /\ UNCHANGED <<present, spec, status, store, pgVars, queue, pc, localVars, err, faults>>

-----------------------------------------------------------------------------
Provision ==
    \/ prepareHost \/ createDatabase \/ Connect
    \/ createServiceRole \/ alterServiceRole \/ grantShared \/ grantAdminOption
    \/ createRoles \/ grantCurrentUser \/ alterOwner \/ grantOwningWrite
    \/ createSchemaAs \/ setDefaultPrivileges
    \/ revokeAllOnPublic \/ grantConnect \/ grantUsage \/ ensureExtensions

Worker ==
    \/ \E d \in Databases : GetNothing(d) \/ Get(d)
    \/ adminCredentials \/ resolveUser \/ resolvePassword \/ Provision \/ Refused \/ release
    \/ Persist

Faults ==
    \/ CallFails \/ createRolesFails \/ setDefaultPrivilegesFails \/ ensureExtensionsFails
    \/ releaseFails \/ PersistFails \/ Restart

Environment ==
    \/ \E d \in Databases : DeleteResource(d)
    \/ \E d \in Databases : \E s \in SpecChoices[d] : CreateResource(d, s) \/ EditResource(d, s)
    \/ \E s \in Sources : \E v \in StoreChoices[s] : ChangeSource(s, v)
    \/ \E c \in Credentials : ChangeCredentials(c)

Next == Worker \/ Resync \/ Faults \/ Environment

Spec == Init /\ [][Next]_vars

\* The worker goes on, the work queue is first in first out, and resyncs keep
\* coming.  Nothing is assumed of faults and of changes from outside.
Fairness ==
    /\ WF_vars(Worker)
    /\ WF_vars(Resync)
    /\ \A d \in Databases : SF_vars(Get(d))

FairSpec == Spec /\ Fairness

-----------------------------------------------------------------------------
(* Safety.                                                                 *)

\* What Database promises for user u and spec s on host h.
provisioned(h, u, s) ==
    /\ IF s.shared THEN owner[h][s.name] # None ELSE owner[h][s.name] = service(u)
    /\ accessRolesOf(u) \cup {service(u), Manager} \subseteq roles[h]
    /\ (service(u) \in login[h]) = (pwd # Empty)
    /\ s.shared => <<service(s.name), service(u)>> \in member[h]
    /\ <<service(u), role(u, "readowningwrite")>> \in member[h]
    /\ <<s.name, u>> \in schemas[h]
    /\ \A x \in AccessSuffixes : privilegesOf(s.name, u, x) \subseteq acl[h]
    /\ toPublic(s.name, NoValue, "connect") \in acl[h]
    /\ toPublic(s.name, NoValue, "temporary") \notin acl[h]
    /\ toPublic(s.name, u, "usage") \in acl[h]
    /\ {s.name} \X s.extensions \subseteq extensions[h]

\* When a reconcile is about to report Running, everything the spec it read asks
\* for is in place on the host, whatever earlier attempts, other resources on the
\* same database and restarts have left behind (Database).
ProvisionedOnSuccess ==
    pc \in {"release", "persist"} /\ err = NoErr => provisioned(host, usr, snap)

\* As long as no call fails, the admin is a member of a service role only while
\* Database works with it (the deferred REVOKE, on every path that returns).
AdminReleased ==
    faults = 0 =>
        \A h \in Hosts : \A r \in ServiceRoles :
            <<r, Admin>> \in member[h] =>
                h = host /\ r = service(usr) /\ pc \in Deferred \cup {"release"}

\* Nothing that was set up for a service is taken away again, by no reconcile of
\* this or of another resource: roles, schemas and extensions stay, only PUBLIC
\* loses entries and only the admin loses memberships (Database).
OnlyPublicLoses ==
    [][\A h \in Hosts :
          /\ roles[h] \subseteq roles'[h]
          /\ schemas[h] \subseteq schemas'[h]
          /\ extensions[h] \subseteq extensions'[h]
          /\ \A e \in acl[h] \ acl'[h] : e.to = Public
          /\ \A p \in member[h] \ member'[h] : p[2] = Admin]_vars

(* Liveness.                                                               *)

\* d's references resolve, to a host that the controller may work on, and nothing
\* else stands in its way: see Database on shared databases and on extensions.
settled(d) ==
    LET s == spec[d]
    IN  /\ d \in present
        /\ credentialsFor(s).kind = "none" /\ credentialsFor(s).host \in SuperuserHosts
        /\ userFor(s) # Empty /\ errorOf(passwordFor(s)) = "none"
        /\ s.extensions # {} => userFor(s) = s.name
        /\ ~s.shared
        /\ \A e \in Databases \ {d} : spec[e].name = s.name => spec[e].shared

\* A resource that shares the database of another one that is settled.
sharesSettled(d) ==
    LET s == spec[d]
    IN  /\ d \in present /\ s.shared /\ s.extensions = {}
        /\ userFor(s) \notin {Empty, s.name} /\ errorOf(passwordFor(s)) = "none"
        /\ \E e \in Databases : /\ settled(e) /\ spec[e].name = s.name
                                /\ userFor(spec[e]) = s.name
                                /\ credentialsFor(spec[e]) = credentialsFor(s)

isRunning(d) == status[d].phase = "Running"

\* The admin cannot connect to d's database any more: PUBLIC may not, and the admin
\* has no part in the role that owns it.
lockedOut(d) ==
    LET h == credentialsFor(spec[d]).host
        n == spec[d].name
    IN  /\ h \in Hosts /\ ~AdminIsSuperuser
        /\ owner[h][n] # None /\ owner[h][n] \notin rolesHeld(h, Admin)
        /\ toPublic(n, NoValue, "connect") \notin acl[h]

\* A resource whose references resolve for good ends up Running, whatever failed
\* before: every statement can be repeated (tryExec and the errors it expects),
\* and errors are retried (requeueStrategy; the resync where it drops them). The one
\* exception is a database that stays closed to an admin who is no superuser.
BecomesRunning ==
    \A d \in Databases :
        <>[](settled(d) \/ sharesSettled(d)) /\ ~<>[]lockedOut(d) => <>[]isRunning(d)

=============================================================================

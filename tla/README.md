# Verification of the PostgreSQL controller

TLA+ models of the controller in `src/`, the TLC configurations that check them on small
instances, and TLAPS proofs of their main properties.

## The system

The controller keeps PostgreSQL servers and AWS IAM in line with Kubernetes resources.

| Part | State it keeps or changes | Operations | Talks to |
|---|---|---|---|
| `PostgreSQLUser` controller (`internal/controller/postgresqluser_controller.go`) | finalizer of the resource | reconcile: add finalizer, sync roles, ensure IAM entry; on deletion remove the IAM entry, then the finalizer | API server, granter, IAM |
| Granter (`pkg/grants`) | none of its own | group access requests by host, connect, set roles host by host | API server (secrets, config maps, databases), PostgreSQL |
| Roles (`pkg/postgres/postgres.go`) | role memberships of a login role | `CREATE ROLE`, read memberships, `GRANT`, `REVOKE` | PostgreSQL |
| References (`pkg/kube`, `pkg/errors`) | none | literal, secret key or config map key to value; invalid and temporary errors | API server |
| IAM (`pkg/iam`) | policies, their versions and attachments | `EnsureUser`, `RemoveUser` | AWS |
| `PostgreSQLDatabase` controller (`internal/controller/postgresqldatabase_controller.go`) | status of the resource | resolve host, credentials, user, password; provision; persist the status; requeue | API server, PostgreSQL |
| Provisioning (`pkg/postgres/database.go`, `extensions.go`, `preflight.go`, `manager_role.go`) | databases, roles, schemas, privileges, extensions | about twenty statements in a fixed order, one deferred | PostgreSQL |
| `CustomRole` controller and `pkg/postgres/customrole*.go` | roles, grants, functions on every host | reconcile per host and database, clean up on deletion | API server, PostgreSQL |
| Daemon (`pkg/daemon`) | timer, buffer of one request | loop | not used by `cmd/main.go` |
| `PostgreSQLHostCredentials`, `PostgreSQLServiceUser` controllers | none | read and log | API server |
| Manager (`cmd/main.go`, `internal/config`) | work queues, informers | start, resync | all |

The parts meet in shared state only: the user controller grants the roles that provisioning
creates (`<user>_read`, `_readwrite`, `_readowningwrite`) and, for `allDatabases`, lists the
`PostgreSQLDatabase` resources whose status says Running; both resolve references through
`pkg/kube`; the user controller calls `pkg/iam` and holds the resource with a finalizer until
IAM is cleaned up. The custom role controller watches `PostgreSQLDatabase` resources, finds the databases on
the servers themselves, and acts as the roles that provisioning has made owners.

What is hard, and what each part must get right:

* User access: errors on one host of many, references that do not resolve, windows of time,
  grants by hand between reading and writing, two resources with one login role. *Only what was
  requested is granted; a sync that reports success is exact; what is not the controller's stays;
  it converges.*
* Resource life: update conflicts and crashes between finalizer and IAM. *No IAM entry outlives
  its resource; deletion completes.*
* IAM: whole documents are read, changed and written back, calls fail half way, answers get lost,
  versions run out. *Success means access, removal means gone, others are untouched.*
* Databases: any statement may fail, and everything is repeated on top of what is there; several
  resources share a database; privileges are revoked and granted again. *Running means provisioned;
  nothing is taken away; everything comes right in the end, for an admin that is no superuser too.*
* Custom roles on hosts: hosts in map order of which one may fail for ever, databases that come later,
  a list of databases that changes, statements that are refused and skipped, crashes in the middle of a
  clean-up. *Running means applied everywhere; no role outlives its resource, and a role is dropped only after
  what it has; every host that can be served is served.*
* Custom roles in a database: grants and functions are compared with catalogs and changed statement by
  statement, as the owner of each object, while objects change hands and rights come and go.
  *A call that returns nil left what was asked for, but for what was refused; access that stays wanted is kept; functions are closed
  to `PUBLIC`; functions of other roles are let alone.*
* Daemon: a timer that expires while it is stopped and drained. *Never left waiting, runs until stopped.*

`PROJECT.json` lists the components, and under `hazards` each of these difficulties at its line.

## Modules

| Module | Models | Used by |
|---|---|---|
| `Kube` | references and their resolution | `Granter`, `DatabaseController` |
| `Granter` | grouping of accesses, names of roles, `rolesDiff`, all as operators | `UserController` |
| `UserController` | user controller, `SyncUser`, `Role` | `MCUserController`, `UserControllerProofs` |
| `IamPolicies` | `EnsureUser`, `RemoveUser`, AWS | `MCIamPolicies`, `IamPoliciesProofs` |
| `IamDirectory` | what `pkg/iam` promises: a set of users with atomic insert and delete | refined by `IamPolicies` |
| `DatabaseController` | database controller and provisioning | `MCDatabaseController`, `DatabaseControllerProofs`, `DatabaseProvisionedProofs` |
| `CustomRoleController` | custom role controller, `EnsureCustomRole`, `DropCustomRole`, over hosts and databases | `MCCustomRoleController`, `CustomRoleControllerProofs` |
| `RoleSession` | a connection to one database and `execWithRole` | `CustomRoleGrants`, `CustomRoleFunctions` |
| `CustomRoleGrants` | `SyncDatabaseGrants`, `RevokeAllDatabaseGrants` | `CustomRoleDatabase` |
| `FunctionText` | `isSafeArgs`, `isSafeReturns`, and a reference definition: parentheses counted in the text as PostgreSQL reads it | `CustomRoleFunctions` |
| `CustomRoleFunctions` | `SyncDatabaseFunctions`, `DropManagedFunctions` | `CustomRoleDatabase` |
| `CustomRoleDatabase` | the two above composed, for several roles in one database | `MCCustomRoleDatabase`, `CustomRoleDatabaseProofs`, `CustomRoleFunctionsProofs` |
| `Daemon` | `Loop` with Go's timer | `DaemonProofs` |

Conventions. `pc` is the call a controller's worker makes next; a step is one call that leaves the
process with everything up to the next one. Each controller has one worker:
`postgresqluser_controller.go` sets `MaxConcurrentReconciles` to 1, the others keep the default,
which is 1 as well. Operators and actions carry the names of the Go functions. An operator
marked *Mutant* is a plausible bug; it is not part of any specification.

### UserController

State: the resource (`obj`, `spec`, `finalizers`), what references resolve to (`store`), databases in
phase Running (`running`), per host the databases (`created`), grantable roles (`exists`), login roles
(`login`) and memberships (`member`), the IAM entries (`iam`) and those AWS refuses to let go (`stuck`), both an
abstraction of `IamPolicies`, the work queue, and the locals of `reconcile`, `SyncUser` and `Role`.

* `Get`, `GetNothing`, `AddFinalizer`, `finalizeUser`, `RemoveFinalizer` are `reconcile` up to
  `SyncUser`. `finalizeUserRefused` is the removal that AWS refuses, and goes on refusing, because the policy of
  the last user in it has older versions. `fresh` says whether the copy read by `Client.Get` is still current; an `Update` of a
  stale copy is a conflict. Both outcomes of an update put the request back.
* `Group` is one turn of the loops of `groupAccesses`, reads before writes, with the clock and the references as
  they are by then (the references of one access are read at one instant); `Grouped` is its end: an error is
  returned only if nothing resolved. A user that resolves to the empty string counts as none (`databaseSchema`).
  `connectToHosts` fails as a whole if one host has no credentials or the first access on it names a
  database that does not exist; which access comes first depends on the order in the spec, which the
  model, with its set of accesses, leaves open.
* `createRole`, `persistedRoles`, `grantRoles`, `revokeRoles` are `Role` on one host; hosts come in
  any order (map iteration). An error goes on with the next host. A `GRANT` of several roles fails as
  a whole if one does not exist; it, or a `REVOKE`, may take effect and its answer get lost (`answerLost`).
* `ensureIAMUser` follows whatever `SyncUser` returned; its end is the end of `reconcile`.
* The rest is the world: edits, secrets, databases that become Running or fail, grants by hand, the
  clock, failing calls, restarts, resyncs.

A role name is a record (base, whether an underscore comes before the suffix, suffix): what
`strings.HasSuffix` and the `_`-joined names tell apart. A user name is its stem and its separator,
the only character `sanitizedUser` replaces here. A failing `Client.Get` or AWS session is a retry
without effect and is left out.

### IamPolicies

State of AWS: `policies`, the document `doc[p]` of the default version, the number of `versions`,
`attached`. A document is a set of statements (user, configuration it was written under). State of a
call: `mode`, the documents read at its start (`mem`), policies to look at and to write. A call is
`EnsureKnownUser`, `EnsureNewUser` or `RemoveUser`; `Visit*` are the loops of `EnsureUser` and
`RemoveUser`; `CreatePolicyVersion`, `deleteOldPolicyVersions`, `RetryPolicyVersion` are
`updatePolicy`; then `CreatePolicy`, `AttachPolicy`, `DetachRolePolicy`, `DeletePolicy`. `EnsureUser`
calls `updatePolicies` with all listed policies after each change, and so does the model. What AWS
answers (limit of versions, name taken, `NoSuchEntity` on detaching what is not attached,
`DeleteConflict`) is taken from how the client uses it and from the AWS API. A restart may bring another
configuration (region, account, role prefix), which is when `Update` has something to do.

Left out: eventual consistency of AWS, the limit of policies per role, policies made by others.

### DatabaseController

State: resources with spec and status, secrets, host credentials; per host owners of databases,
roles, roles with `LOGIN`, memberships, schemas, access control entries, extensions; the work queue
and the locals of `reconcile`. Each statement of `postgres.Database` is an action. `Runs(at, next)`
is the common part: the statement is allowed, takes effect, and its answer arrives or is lost.
`allowed` says what PostgreSQL would refuse: connecting without `CONNECT`, altering a database one
does not own, granting a role that does not exist, a circular grant, an extension in a schema that
does not exist. `Refused` and `CallFails` are the errors; after `GRANT ... TO CURRENT_USER` they lead
through the deferred `REVOKE` (`release`). `Connect` sets `SetMaxIdleConns(0)`, so every statement has
a connection of its own and `SET ROLE` ends with it.

`resolveUser` and `resolvePassword` are two steps, between which the secret may change. The four statements of
`setDefaultPrivilegesAs` for each of three roles make an entry each (`privilege`); an error ends them anywhere
(`grantedSoFar`).

Abstractions: the twelve statements of `setDefaultPrivileges` are one step when none fails; the
entries of `PUBLIC` on the public schema are counted with `TEMPORARY` on the database, as both go with
`REVOKE ALL`; the reads of `adminCredentials` are one step; an error is its kind and the call it came
from (its text would tell no more apart); one admin per host; a service user that is itself called
like an access role (`a_read`) is not considered. Informer caches are up to date.

### CustomRoleController

State: resources with spec, status and finalizer; per host whether it answers, the roles and their
memberships; per host, database and role the `contents`, once for grants and once for functions; the phase of
each `PostgreSQLDatabase` on its way from created over made to Running; the work queue and the locals of
`reconcile`. `contents` is what the spec asks for, `Nothing`, `Partial` after a call that failed half way, or `Obstructed`
when PostgreSQL refuses some of it.

* `Fetch`, `AddFinalizer`, `RemoveFinalizer` are `reconcile` around the hosts; `PickHost` takes any host
  that is left. `Resolve` is `Connect`, `Preflight` and `resolveTargetDatabases`: it turns the spec and the
  databases found into calls (`reconcileGrantsOnHost`, `reconcileFunctionsOnHost`), each with the stage
  that orders it. `EnsureCustomRole`, `RevokeRole`, `GrantRoles` are the statements of `EnsureCustomRole`.
* `SyncDatabase` is one call on one database that brings what is asked for. `SkipsStatements` is one about grants of
  which some are refused or have no owner: it skips them and returns nil. `SyncRefused` is one about functions, which
  returns the error: a changed return type or parameter name, or an owner the controller may not act for. Both may
  happen at any call that has something to change, as often as they like. `SyncInvalid` is one whose arguments are not
  valid, `HostFails` the error that ends the reconcile with status Failed.
* `CleanHost`, `CleanDatabase`, `DropCustomRole`, `CleanFails` are `cleanupRole`. A bulk revoke that is refused leaves
  grants behind and the call returns nil; a refused `DROP FUNCTION` is an error (`CleanRefused`); `DROP ROLE` is refused
  while the role has anything on the host (`DropRefused`).
* `DatabaseAdvances` is the provisioning of a database with the events that `SetupWithManager` lets
  through; only custom roles in the same namespace (`Neighbours`) are queued.
* `persistStatus` writes only if the copy is still the resource and the status differs; that the update queues
  the resource again, as there is no predicate on it, is part of the step.

`RequeueAfter` after ten seconds is a place in the queue. A call on a database is atomic here, or fails and
leaves `Partial`, or is refused and leaves `Obstructed`; `CustomRoleDatabase` has its statements. The name of a role is that of its resource: two resources
with one `spec.roleName` are not considered. A list that fails in `mapDatabaseToCustomRoles` (it reads the
informer's cache) is left out, and so are databases that are dropped. There is no `Resync`: the properties hold without it.

### RoleSession, CustomRoleGrants, CustomRoleFunctions, CustomRoleDatabase

One connection to one database; the calls for a live and for a deleted resource in the order in which the
reconciler makes them. Schemas and tables have owners; a privilege is schema, table and keyword; `settable` are
the roles the controller may act as.

* `SyncDatabaseGrants`, `ExpandGrants` and `PlanSync` read the catalog, in that order, and plan `todo`; `Execute`,
  `Skip` and `StatementFails` carry out one statement as the owner that was read, on what there is by then.
  `refused` is `insufficient_privilege`, which is logged and skipped: no right to `SET ROLE`, another owner by
  now, or, for `ON ALL TABLES`, a table of another owner on which this one has no privilege at all (`Peers` says
  which owners have). `missed` remembers what was skipped or changed from outside; properties leave it out.
* `SyncDatabaseFunctions` reads owners and managed functions; `DropForNewOwner`, `CreateFunction`,
  `LookupIdentity`, `RevokePublic`, `GrantExecute` are the turn of one function, `DropStale` drops what is left. Names are sequences,
  because `managedFunctions` and `validateFunction` are about `__` in them; `procs` is a
  function of the oids, whose order `LookupIdentity` depends on; a new function gets an oid greater than all in use, as
  oids of functions that are gone compare with nothing any more. `Types` says which argument lists are the same signature.
* `Fault` ends a call anywhere; `Outside` is everything others do between two statements, and edits between
  two reconciles.

`FunctionText` has texts as sequences of a few characters. `read` is the text as PostgreSQL reads it, in which parentheses and
blanks of a quoted name are letters; `balanced` and `oneWord` are the reference. `StatementsWellFormed` compares what passes
with it for `plain` texts, those without double quotes, dollar signs and form feeds, which the code's loops take for
other characters; of other texts it shows nothing. Dollar quotes are not read.

Abstractions: `WITH GRANT OPTION`, privileges on columns and default privileges are left out; the body
is a value; a dollar tag is taken to be unique; the two reads of owners and the one of schemas are one step,
as they are about different objects.

### Daemon

State: where `Loop` is, the timer, its channel and the buffer. Expiry and delivery to the channel are two steps (`Tick`, `SendExpiry`), as in the runtime of the Go
version that `go.mod` names. Any case of the select that is ready may be taken.

## Runs

All configurations say `CHECK_DEADLOCK FALSE`: a controller with an empty queue and nothing
changing outside is a proper end.

| Run | Bounds | Shows |
|---|---|---|
| `user_sync` | 2 resources with one login role, 3 specs between them, 2 hosts, 2 databases, one with its user in a secret (empty or missing), 3 instants, 3 changes, 1 fault | `GrantsJustified`, `SyncedOnSuccess`, `IamOwned`, `NoAccessGap` |
| `user_converges` | 2 users, one with an access on a host from a secret that may be missing, 2 instants, 3 changes, 1 fault, fairness | `Converges`, `DeletionCompletes` |
| `iam_calls` | 3 users, 2 configurations, 2 login roles, 2 users per policy, 3 versions, 3 policies, 6 changes, 2 faults, symmetric users and roles | what calls promise (`EnsuredMeansAccess`, `RemovedMeansGone`, `CapacityRespected`, `OthersUntouched`, `AccessKept`), and the refinement of `IamDirectory` |
| `iam_ensure_completes` | 2 users, one policy with room for both, 3 versions, 2 faults, fairness | `EnsureCompletes` |
| `database_references` | 2 resources, 5 specs over literals, a secret (empty, 2 values, missing), host credentials and a shared database, admin no superuser, 2 changes, 1 fault | `TypeOK`, `ProvisionedOnSuccess`, `AdminReleased`, `OnlyPublicLoses` |
| `database_converges` | two resources on one database, one with its password in a secret that may be missing, admin no superuser, 2 changes, 1 fault, fairness | `BecomesRunning` |
| `custom_role` | 1 role, 3 specs, 2 hosts, 1 user database on one of them, 2 edits, 1 fault, fairness | `TypeOK`, `RunningMeansApplied`, `RoleOwned`, `RevokedBeforeDrop`, `Converges`, `DeletionCompletes` |
| `role_database` | 2 roles, 8 specs, 2 owners, 2 schemas (one a system schema) with 2 tables each (one partitioned), 1 edit, 1 change from outside, 1 fault | `TypeOK`, `GrantsSynced`, `GrantsCleaned`, `AccessKept`, `FunctionsSynced`, `PublicShutOut`, `StatementsWellFormed`, `OthersFunctionsKept` |
| `daemon` | interval of 16 ticks, fairness | `NeverStuck`, `RunsUntilStopped` |

Why the bounds are enough to be interesting: a second fault or change hits a state a first one left
behind (retries in `iam_calls` with two). In `user_sync` accesses start, end, are on one host or on two,
name a host without credentials or a role that the host does not have, and the other resource asks for a role that takes the
place of the first one's at the instant at which that one's own upgrade starts. Three policies with two places each overflow, lose their last user
and clash; a version limit of three is reached after two rewrites. In `custom_role` one host lacks the database and one of the
roles that a spec names, so that it fails for as long as the spec stays, and either host may stop answering for ever; two edits
lead from any spec to any other, or through deletion to a new resource. What is refused there is not bounded.
In `role_database` one change from outside falls between any two statements, and one fault
leaves any prefix of a call behind for the next; the names `a` and `a__b` share a prefix. More roles would be served by the same
worker one after the other and meet only in memberships, which `custom_role` has with roles of others. `MaxPolicies` bounds the
numbers of policies: `CreatePolicy` is not enabled beyond it, which `iam_ensure_completes` avoids by making one policy do.

What the liveness properties except is where the code does not come right, and is in the lists below. `DeletionCompletes` of
users excepts a name that AWS refuses to let go, that of custom roles and `Converges` except hosts that
refuse statements (`role_drop_stuck` shows one that does so for ever), and `BecomesRunning` excepts databases that stay closed to
the admin. `EnsureCompletes` is stated where one policy has room for all.
`Converges` of users speaks of hosts once all of a user's accesses can be connected to.

The runs that end in a violation each show where the code and what the repository says of it part;
the quotes are under `findings` in `PROJECT.json`.

| Run | What happens |
|---|---|
| `user_expiry` | the last access on a host expires, the host is not visited any more, the role stays |
| `role_drop_stuck` | two roles own a table each in a schema: the bulk revokes are refused and skipped, `USAGE` is revoked, the retry visits no schema, `DROP ROLE` fails for ever |
| `role_overloads` | two functions of one name: the second synchronisation drops one of them and returns nil |

Further differences met while modelling. The model does what the code does, and no run is about them:

* `rolesDiff` (`pkg/postgres/postgres.go:186`) asks for the suffix `read` without the underscore of the comment above
  it, so a role granted by hand whose name merely ends in `read` is revoked. `SyncedOnSuccess` takes the test the code makes.
* The loop of `EnsureUser` that looks for room (`pkg/iam/iam.go:56`) has no `break`: a new user goes
  into every policy with room. `RemovedMeansGone` and `OthersUntouched` hold all the same.
* A new policy is named by the number of policies (`pkg/iam/iam.go:75`, with a TODO that says so). After an earlier
  policy was deleted the name may be taken, and retries do not help.
* `DeleteAndDetachPolicy` (`pkg/iam/client.go:276`) detaches a policy and then deletes it without its older
  versions, which AWS refuses; the retry fails at detaching, so that the finalizer stays (`stuck` in `UserController`).
* Every reconcile of a Running database takes `CONNECT` from `PUBLIC` for a moment (`pkg/postgres/database.go:173`). If the
  statement that gives it back fails, the deferred `REVOKE` also ends the admin's membership in the owner, and an admin that
  is no superuser, which is the one `src/README.md:16` creates, never connects again (`lockedOut`).
* `requeueStrategy` asks for invalid before temporary errors, and a missing secret is both
  (`postgresqldatabase_controller.go:243`): it is not retried before the next resync, where the comment at line 248 has it
  tried again shortly. `BecomesRunning` holds of it through the resync.
* While the secret of its user is missing, a database goes to the role called like it
  (`postgresqldatabase_controller.go:121`), although the fallback is meant for resources without a user.
* `Database` grants the manager role the role called like the database (`pkg/postgres/database.go:112`),
  and `installExtensions` uses the schema called so (`pkg/postgres/extensions.go:94`). With another user
  the manager does not get the service's role and the extensions fail for ever; `settled` leaves
  such resources out.
* An edit of a user's `spec.name` leaves the IAM entry and the login role of the old name behind;
  `IamOwned` is stated for names that stay the same.
* Custom roles, grants. Statements that are refused, or whose object has no owner, are skipped, and Running is reported
  (`customrole_grants.go:136`, with a test that wants it), where `src/README.md:319` says that Running is "Role and all grants
  are in sync"; `RunningMeansApplied` excepts such grants. `currentTableGrants` lists ordinary tables only (`relkind = 'r'`,
  `customrole_grants.go:300`), `resolveTables` partitioned ones too: a privilege on a partitioned table is granted again at
  every reconcile and never revoked, where `src/README.md:179` says that privileges match exactly; `GrantsSynced` excepts it.
  `NOT LIKE 'pg_%'` also hides schemas such as `pgapp`, as `_` stands for
  any character; grants that name such a schema are skipped. A role whose privileges were granted by hand in a schema without
  `USAGE` cannot be dropped either.
* Custom roles, functions. A changed return type or parameter name makes `CREATE OR REPLACE` fail for ever. A function
  is dropped before its owner changes, and stays away if the creation fails. After a crash and an edit of the
  arguments that is taken back, two functions of one name are left and the wrong one may be kept. Between
  `CREATE FUNCTION` and `REVOKE ... FROM PUBLIC` everybody may call the function; `PublicShutOut` is about the end
  of a call. The roles `a` and `a_` both claim a function called `a___x`, and a synchronisation of one drops that of the other
  (`UnderscoreClash`), where the comment at `customrole_functions.go:365` has the cleanup query tell functions of one role from
  those of longer-prefixed roles; the API asks only that `spec.roleName` is not empty. `isSafeArgs`
  (`customrole_functions.go:40`) counts the parentheses in a quoted name, where PostgreSQL does not: its verdict on lists with quoted
  names is about another list than the one that is read, so `StatementsWellFormed` leaves them out.
* Custom roles, resources. `src/README.md:160` says that the resource name becomes the name of the role; the code takes
  `spec.roleName`, and two resources may name the same one. On a host without user databases
  `allUserDatabases` is nil although databases are named, so the functions in `postgres` are dropped and created again at
  every reconcile (`internal/controller/customrole_functions.go:20`). A spec that is not valid
  goes unnoticed where there is no database to apply it to. A database that one host lacks keeps the status Failed, and
  while two hosts fail by turns each status update queues the resource at once. Resources in other namespaces wait for
  the resync when a database becomes Running. Dropping a role ends its membership in others and others' in it, and nobody
  reconciles those. A host that is taken out of the configuration keeps the role.

### Fairness

`WF(Worker)`: a worker whose call can go on goes on. `SF(Get)` per resource (`EnsureKnownUser`,
`EnsureNewUser`, `RemoveUser` in `IamPolicies`): the work queue is first in first out, so a request
that is in the queue whenever the worker is idle is served; with back-off instead of the head of the
queue it is still served again and again. `WF(Resync)`: `SyncPeriod` is set in `cmd/main.go`.
`WF(Collect)`: the API server removes what has no finalizer left. In `CustomRoleController` also `SF(PickHost)` per
resource and host: Go's iteration over a map starts at random, so every host is first now and then, which
is what brings a resource to the hosts behind one that fails for ever; and a database that is being made becomes Running,
which `database_converges` shows. In `CustomRoleDatabase`, `SF(StartClean)`: a failed clean-up is retried. In
`Daemon`, time passes, `Sync` returns, and the case for `stop` is taken at last if it is ready again and again, as select
chooses at random. Nothing is assumed of faults,
edits, secrets, the clock or databases; they are bounded instead, so properties of the form `<>[]`
speak of what happens after the last of them.

## Proofs

The proofs are for every value of the constants that meets the named assumptions
(`KubeAssumption`, `GranterAssumption`, `UserControllerAssumption`, `IamAssumption`,
`DatabaseControllerAssumption`, `ControllerAssumption`, `AbsentAssumption`, `DaemonAssumption`,
`SessionAssumption`, `GrantsAssumption`, `FunctionsAssumption`, `RoleDatabaseAssumption`): mostly that model values are distinct and that sets of names lie
where they should. TLC evaluates them in every run.

**UserControllerProofs.** The inductive base is `TypeOK /\ WorkerInv` (an idle worker has no
resource, a busy one has a spec). `OnlyRequestedGrants` needs in addition that `grouped` only holds
accesses that are justified at the current time: they are read at different instants, used later, and
justification never lapses as the clock goes on. `SuccessMeansSynced` rests on `SyncInv`: while
`setRolesOnHosts` runs, every host already visited is in sync unless an error is remembered, and
between reading and writing the memberships of the current host differ from `existing` only by what
was granted by hand. `NoGapInAccess` is an action property that follows from
it: at `revoke`, what was expected is already granted. `NoOrphanedIam` is conditional on `stableNames` (no edit changes `spec.name`)
and shows that a name enters `iam` only while its resource has the finalizer, which is removed only after the name.

**IamPoliciesProofs.** The inductive invariant is `IamInv`, in parts: `AwsInv` (what exists has a
document), `ModeInv` (where a call can be), `ListInv` (the policies a call works on exist), `FreshInv`
(documents in memory agree with AWS for everybody but the user: this is where one worker is needed),
`FilledInv` (no empty document is written), `WrittenInv` (what was written is in AWS unless an error
is noted), `SettledInv` (policies already looked at are right for the user), `OutcomeInv` (what the end
of a call knows). `PoliciesStayWithinCapacity` adds `CapacityInv`, with cardinality of finite sets.
`CallsImplementDirectory` maps every step to a step of `IamDirectory` or to a stutter.

**DatabaseControllerProofs.** The inductive invariant is `TypeOK /\ WorkerInv`. `EveryStep`
classifies what a step may do to memberships, entries, catalogs and owners; `NothingTakenAway`
follows from it. `AdminMembershipReleased` carries
that the pair of the current user and the admin is the only one, and only between `grantCurrentUser`
and `release`.

**CustomRoleControllerProofs.** The inductive invariant is `Inductive`, in parts that are stated in
`CustomRoleController`. For clean-up: `Held` (while a reconcile works on a resource, it is there with
its finalizer), `InHand`, `HasRole`, `Placed` (contents are only in databases that exist, and no grants in
`postgres`), `Cleaned` (hosts finished with have no role), `CleanPlanned` (what is left on the current host is in a call
that is left, or is grants whose revoke was refused). These give `RolesAreOwned` and `NothingOutlivesItsRole`. For what Running
means: `AppliedSoFar` (hosts finished with have what is asked for but for skipped grants, and one worker keeps it so),
`MembersDone`, `TasksPlanned`, and `WorkPlanned`: for every database the last call planned brings what is expected there, or skips
what is refused, and where no call is left it is there already. The last call and not every call: with databases named on a
host that has none, `postgres` is cleaned up first and filled later.

**DaemonProofs.** `NeverStuck` is inductive with `TypeOK`.

**DatabaseProvisionedProofs.** `SuccessIsProvisioned` needs to know at every statement what the ones before it have
set up. `ProvisionInv` says so, in parts for owners, roles, logins, memberships, schemas, privileges and
extensions, each with the call from which on it holds (`past`). `StatementProvisions` shows that
each statement sets up its own part and keeps those before it, `ReleaseKeeps` that the deferred REVOKE takes back the
admin's membership alone, and `LocalStepKeeps` that the other steps claim nothing new: a call that
fails, or is refused, ends all claims.

**CustomRoleDatabaseProofs.** `TypeInv` adds to the types that a call is about a role (`CallInv`) and that the oids are
bounded, so that there is always a new one. `GrantsInv` has, for `SyncDatabaseGrants`, that what was read is still
true of all that nobody has changed (`CurrentRead`, `DesiredRead`), that the statements left do nothing that is not
desired (`OnlyDesired`), and that there is one for everything still missing or too much (`PrivilegesPlanned`,
`UsagePlanned`); for `RevokeAllDatabaseGrants` that there is a statement left for every schema and every
owner of a table not clean yet (`CleanInv`). `SyncAchieved`, `CleanAchieved` and `NoOutage` follow where nothing
is left to do, or at a revoke.

**CustomRoleFunctionsProofs.** Names first: `OneRoleOfName` shows character by character that the query of
`managedFunctions` lists a name for one of two roles only, unless their names differ by an underscore at the end (`clash`).
No assumption is made on the set of roles: `OthersFunctionsKept` excepts that pair, and `UnderscoreClash` shows that it must.
`FunctionsInv` keeps the catalog in order: one function per signature, `EXECUTE` only for the role in the
name, and a call that only names functions of its role. `OthersKept` follows.
`PublicNever` needs `PublicInv`: a function of the role that is open to everybody was listed and is not dealt with yet, or
is the one in hand, which a lookup by name finds because it is the newest.
`FunctionsAchieved` needs `SyncedInv`: what there is was listed and not dealt with yet, or is as asked for
(`Explained`); of two functions of one name the newer one is as asked for (`NewerAsked`), so that the lookup finds the one in
hand (`InHandCreated`); a listed function that would be in the way of a `CREATE` is still there and makes it fail (`ListedKept`), so
that dropping what is stale hits no function of this call (`ListedAlone`); and every function of which the turn is over is
there, closed and granted (`AskedSettled`). The condition on two functions of one name is the one
`role_overloads` shows to be needed.
`WellFormed` is about plain texts of every length, which PostgreSQL reads as they are written (`ReadAsWritten`): a loop that ends closed was never refused, and its depth is the number
of parentheses that are open.

Induction over data is by a smallest counterexample (`SmallestOf`, `LargestOf`, from the library's `WFMin`): that there is
a largest oid, that a recursive function such as the depth in `nestingOf` exists (`RunExists`), and what it computes
(`OpenIsDepth`). A character such as `underscore` has a name, since the provers take a literal of it for something else.

All inductive invariants were checked with TLC on the instances of the runs before they were proved, those of
`CustomRoleFunctionsProofs` also with specs of two functions. Proofs changed the model twice: `procs` was a
sequence, in which a drop moves the functions behind it, and two arms of a `CASE` in `nesting` could be true at once, which TLC and
the meaning of `CASE` resolve differently.

Model-checked only: liveness (`Converges` and `DeletionCompletes` of both controllers, `EnsureCompletes`,
`BecomesRunning`, `RunsUntilStopped`), since the prover handles neither fairness nor `ENABLED`. Every safety property that a passing
run checks is the statement of a theorem.

## Not modelled, and the plan

What would come next:

1. An abstract specification of one database (contents are set at once, or become partial or obstructed), refined by
   `CustomRoleDatabase`, in place of the argument that `SyncDatabase` of `CustomRoleController` is one step.
2. A composition of user and database controllers on one set of hosts, so that the roles users are
   granted come from `DatabaseController` instead of the actions `DatabaseRuns` and `DatabaseFails`.

Not modelled:

* flag parsing and configuration, generated code, logging, connection strings, health probes and leader
  election: no state that the properties are about;
* the controllers of `PostgreSQLHostCredentials` and `PostgreSQLServiceUser`, which read and log and change nothing;
* connections that `connectToHosts` leaves open after an error, and the limits that AWS sets on an account.

-------------------------- MODULE UserController --------------------------
(***************************************************************************)
(* The PostgreSQLUser controller: the life of a PostgreSQLUser resource    *)
(* (finalizer, reconcile, deletion) and the synchronisation of its access  *)
(* requests with the roles granted on the PostgreSQL hosts.                *)
(*                                                                         *)
(*   internal/controller/postgresqluser_controller.go   reconcile          *)
(*   pkg/grants/sync.go                                 SyncUser           *)
(*   pkg/postgres/postgres.go                           Role               *)
(*                                                                         *)
(* One worker reconciles (MaxConcurrentReconciles is 1); every call that   *)
(* leaves the process is a step of its own, so that edits of resources,    *)
(* the clock, other grants on the hosts, failing calls and restarts happen *)
(* between any two of them.  The users known to AWS IAM are the set iam    *)
(* here, and stuck are the ones whose removal AWS refuses for good; module *)
(* IamPolicies has the policies behind both.                               *)
(***************************************************************************)
EXTENDS Granter

CONSTANTS
    Users,              \* PostgreSQLUser resources (namespaced names)
    UserNames,          \* values of spec.name
    SpecChoices,        \* SpecChoices[u]: the specs u may be given
    StoreChoices,       \* StoreChoices[s]: what source s may resolve to
    HostCredentials,    \* the hosts the controller has credentials for
    OutOfBandRoles,     \* roles an administrator may grant by hand
    None,               \* "no user", "no spec", "no host"
    MaxTime,            \* bound on the clock
    MaxChanges,         \* bound on changes made from outside
    MaxFaults           \* bound on failing calls and restarts

Specs == [name : UserNames, accesses : SUBSET AccessSpecs]

\* A name is the part before a separator, the separator and (implied) the rest.
NameShapes == [stem : {n.stem : n \in UserNames}, sep : {".", "_"}]

ASSUME UserControllerAssumption ==
    /\ UserNames \subseteq NameShapes
    /\ SpecChoices \in [Users -> SUBSET Specs]
    /\ StoreChoices \in [Sources -> SUBSET (Values \cup {Missing})]
    /\ HostCredentials \subseteq Values
    /\ OutOfBandRoles \subseteq RoleNames
    /\ None \notin Users \cup Specs \cup Values
    /\ MaxTime \in Nat \ {0} /\ MaxChanges \in Nat /\ MaxFaults \in Nat

VARIABLES
    \* the API server
    obj,            \* obj[u]: "absent", "live", or "deleting" (deletion timestamp set)
    spec,           \* spec[u]
    finalizers,     \* the users that carry userFinalizer
    store,          \* what secrets and config maps hold
    running,        \* the PostgreSQLDatabase resources in phase Running
    \* the PostgreSQL hosts
    created,        \* created[h]: the databases that exist on h
    exists,         \* exists[h]: roles that can be granted on h
    login,          \* login[h]: login roles created on h
    member,         \* member[h][n]: roles granted to login role n on h
    \* AWS
    iam,            \* names that hold an entry in a policy
    stuck,          \* names whose policy AWS keeps refusing to delete
    \* the controller
    queue,          \* the work queue
    pc,             \* the call the worker makes next
    user,           \* the resource being reconciled
    snap,           \* its spec as read by Client.Get
    fresh,          \* the resource has not changed since Client.Get
    left,           \* accesses that groupAccesses has not come to
    grouped,        \* HostAccess
    todo,           \* hosts that setRolesOnHosts has not visited
    host,           \* the host being visited
    existing,       \* the answer of persistedRoles
    failed,         \* granterErr is set (errs, inside groupAccesses)
    \* the world
    now, changes, faults

apiVars == <<obj, spec, finalizers>>
kubeVars == <<store, running>>
pgVars == <<created, exists, login, member>>
awsVars == <<iam, stuck>>
syncVars == <<left, grouped, todo, host, existing, failed>>
reconcileVars == <<user, snap, fresh>>
worldVars == <<now, changes, faults>>
vars == <<apiVars, kubeVars, pgVars, awsVars, queue, pc, reconcileVars, syncVars, worldVars>>

\* spec.name with "." replaced by "_", the only character sanitizedUser changes.
sanitizedUser(name) == [name EXCEPT !.sep = "_"]
LoginRoles == {sanitizedUser(n) : n \in UserNames}

PCs == {"idle", "addFinalizer", "finalize", "removeFinalizer", "group", "connect",
        "createRole", "persistedRoles", "grant", "revoke", "iam"}

\* The type invariant.
TypeOK ==
    /\ obj \in [Users -> {"absent", "live", "deleting"}]
    /\ spec \in [Users -> Specs]
    /\ finalizers \subseteq Users
    /\ store \in Stores
    /\ running \subseteq Databases
    /\ created \in [HostCredentials -> SUBSET Values]
    /\ exists \in [HostCredentials -> SUBSET RoleNames]
    /\ login \in [HostCredentials -> SUBSET LoginRoles]
    /\ member \in [HostCredentials -> [LoginRoles -> SUBSET RoleNames]]
    /\ iam \subseteq UserNames /\ stuck \subseteq UserNames
    /\ queue \subseteq Users
    /\ pc \in PCs
    /\ user \in Users \cup {None}
    /\ snap \in Specs \cup {None}
    /\ fresh \in BOOLEAN
    /\ left \subseteq AccessSpecs
    /\ grouped \subseteq ReadWriteAccess
    /\ todo \subseteq HostCredentials
    /\ host \in HostCredentials \cup {None}
    /\ existing \subseteq RoleNames
    /\ failed \in BOOLEAN
    /\ now \in 1..MaxTime /\ changes \in 0..MaxChanges /\ faults \in 0..MaxFaults

\* The user a database is provisioned for: its name when there is no user, or
\* none to be found.
provisionedUser(d) ==
    IF resolves(store, d.user) THEN ResourceValue(store, d.user) ELSE d.name

\* The roles that provisioning database d creates, and the hosts it can be on; no
\* role has the empty name.
databaseRoles(d) == [base : {provisionedUser(d)}, sep : {TRUE}, suffix : Suffixes]

provisionable(d) ==
    ResourceValue(store, d.host) \in HostCredentials /\ provisionedUser(d) # Empty

rolesOf(databases, h) ==
    UNION {databaseRoles(d) : d \in {x \in databases : ResourceValue(store, x.host) = h}}

namesOf(databases, h) == {d.name : d \in {x \in databases : ResourceValue(store, x.host) = h}}

Init ==
    /\ obj = [u \in Users |-> "absent"]
    /\ spec \in [Users -> UNION {SpecChoices[u] : u \in Users}]
    /\ \A u \in Users : spec[u] \in SpecChoices[u]
    /\ finalizers = {}
    /\ store \in [Sources -> UNION {StoreChoices[s] : s \in Sources}]
    /\ \A s \in Sources : store[s] \in StoreChoices[s]
    /\ running \in SUBSET {d \in Databases : provisionable(d)}
    /\ created = [h \in HostCredentials |-> namesOf(running, h)]
    /\ exists = [h \in HostCredentials |->
                    StaticRoles \cup OutOfBandRoles \cup rolesOf(running, h)]
    /\ login = [h \in HostCredentials |-> {}]
    /\ member = [h \in HostCredentials |-> [n \in LoginRoles |-> {}]]
    /\ iam = {} /\ stuck = {}
    /\ queue = {}
    /\ pc = "idle" /\ user = None /\ snap = None /\ fresh = FALSE
    /\ left = {} /\ grouped = {} /\ todo = {} /\ host = None /\ existing = {} /\ failed = FALSE
    /\ now = 1 /\ changes = 0 /\ faults = 0

-----------------------------------------------------------------------------
(* reconcile: the part that looks after the resource.                      *)

\* A call outside the process that fails, and a restart, use up a fault.
Fault == faults < MaxFaults /\ faults' = faults + 1

\* reconcile returns; with an error or with Requeue set the request is put back.
Return(again) ==
    /\ pc' = "idle" /\ user' = None /\ snap' = None /\ fresh' = FALSE
    /\ left' = {} /\ grouped' = {} /\ todo' = {} /\ host' = None /\ existing' = {} /\ failed' = FALSE
    /\ queue' = IF again THEN queue \cup {user} ELSE queue

marked(u) == obj[u] = "deleting"
hasFinalizer(u) == u \in finalizers

\* Client.Get finds nothing, or a resource that somebody else's finalizer keeps.
GetNothing(u) ==
    /\ pc = "idle" /\ u \in queue
    /\ obj[u] = "absent" \/ (marked(u) /\ ~hasFinalizer(u))
    /\ queue' = queue \ {u}
    /\ UNCHANGED <<apiVars, kubeVars, pgVars, awsVars, pc, reconcileVars, syncVars, worldVars>>

\* Client.Get finds the resource, and reconcile branches on what it read.
Get(u) ==
    /\ pc = "idle" /\ u \in queue
    /\ obj[u] = "live" \/ (marked(u) /\ hasFinalizer(u))
    /\ queue' = queue \ {u}
    /\ user' = u /\ snap' = spec[u] /\ fresh' = TRUE
    /\ pc' = CASE marked(u) -> "finalize"
               [] ~marked(u) /\ ~hasFinalizer(u) -> "addFinalizer"
               [] OTHER -> "group"
    /\ left' = IF pc' = "group" THEN spec[u].accesses ELSE {}
    /\ UNCHANGED <<apiVars, kubeVars, pgVars, awsVars, grouped, todo, host, existing, failed,
                   worldVars>>

\* Client.Update of a resource that has changed since it was read is a conflict;
\* both outcomes put the request back.
AddFinalizer ==
    /\ pc = "addFinalizer"
    /\ finalizers' = IF fresh THEN finalizers \cup {user} ELSE finalizers
    /\ Return(TRUE)
    /\ UNCHANGED <<obj, spec, kubeVars, pgVars, awsVars, worldVars>>

\* Mutant: the finalizer goes without RemoveIAMUser having been called.
finalizeNothing ==
    /\ pc = "finalize"
    /\ pc' = "removeFinalizer"
    /\ UNCHANGED <<apiVars, kubeVars, pgVars, awsVars, queue, reconcileVars, syncVars, worldVars>>

finalizeUser ==
    /\ pc = "finalize" /\ snap.name \notin stuck
    /\ iam' = iam \ {snap.name}
    /\ pc' = "removeFinalizer"
    /\ UNCHANGED <<apiVars, kubeVars, pgVars, stuck, queue, reconcileVars, syncVars, worldVars>>

\* RemoveIAMUser fails, before or after the entry has gone.
finalizeUserFails ==
    /\ pc = "finalize"
    /\ Fault
    /\ iam' \in {iam \ gone : gone \in SUBSET ({snap.name} \ stuck)}
    /\ Return(TRUE)
    /\ UNCHANGED <<apiVars, kubeVars, pgVars, stuck, now, changes>>

\* The name is the last one in its policy, which is detached, and AWS refuses to
\* delete a policy that still has older versions.  The next try already fails to
\* detach, and so does every one after it until EnsureIAMUser has put the policy to
\* use for another name.
finalizeUserRefused ==
    /\ pc = "finalize" /\ snap.name \in iam
    /\ stuck' = stuck \cup {snap.name}
    /\ Return(TRUE)
    /\ UNCHANGED <<apiVars, kubeVars, pgVars, iam, worldVars>>

\* Mutant: the finalizer is removed from the copy in memory and not stored.
removeWithoutUpdate ==
    /\ pc = "removeFinalizer"
    /\ Return(TRUE)
    /\ UNCHANGED <<apiVars, kubeVars, pgVars, awsVars, worldVars>>

RemoveFinalizer ==
    /\ pc = "removeFinalizer"
    /\ finalizers' = IF fresh THEN finalizers \ {user} ELSE finalizers
    /\ Return(TRUE)
    /\ UNCHANGED <<obj, spec, kubeVars, pgVars, awsVars, worldVars>>

UpdateFails ==
    /\ pc \in {"addFinalizer", "removeFinalizer"}
    /\ Fault
    /\ Return(TRUE)
    /\ UNCHANGED <<apiVars, kubeVars, pgVars, awsVars, now, changes>>

-----------------------------------------------------------------------------
(* SyncUser.  Whatever it returns, EnsureIAMUser is called next.            *)

\* groupAccesses looks at the reads and then at the writes, one at a time: the
\* clock, the references and the list of databases are read for each of them.
groupAccess(a, listFails) ==
    LET api == [store |-> store, running |-> running, listFails |-> listFails]
    IN  /\ pc = "group" /\ a \in left
        /\ a.kind = "read" \/ \A b \in left : b.kind # "read"
        /\ left' = left \ {a}
        /\ grouped' = grouped \cup groupByHosts(a, now, api)
        /\ failed' = (failed \/ accessErr(a, now, api))
        /\ UNCHANGED <<apiVars, kubeVars, pgVars, awsVars, queue, pc, reconcileVars,
                       todo, host, existing, now, changes>>

Group(a) == groupAccess(a, FALSE) /\ UNCHANGED faults
GroupListFails(a) == groupAccess(a, TRUE) /\ Fault

\* Errors are only returned when nothing could be resolved.
Grouped ==
    /\ pc = "group" /\ left = {}
    /\ failed' = (failed /\ grouped = {})
    /\ pc' = IF grouped = {} THEN "iam" ELSE "connect"
    /\ UNCHANGED <<apiVars, kubeVars, pgVars, awsVars, queue, reconcileVars,
                   left, grouped, todo, host, existing, worldVars>>

\* The connection to a host is made to the database of the first access on it.
connectable(x) == x.host \in HostCredentials /\ x.name \in created[x.host]

\* connectToHosts: a host without credentials, or whose first access names a
\* database that does not exist, fails the whole of SyncUser before any host is
\* changed.  Which access is the first is left open.
connectToHosts ==
    /\ pc = "connect"
    /\ \/ /\ \A h \in hostsOf(grouped) : \E x \in onHost(grouped, h) : connectable(x)
          /\ todo' = hostsOf(grouped) /\ pc' = "createRole" /\ UNCHANGED failed
       \/ /\ \E x \in grouped : ~connectable(x)
          /\ pc' = "iam" /\ failed' = TRUE /\ UNCHANGED todo
    /\ UNCHANGED <<apiVars, kubeVars, pgVars, awsVars, queue, reconcileVars,
                   left, grouped, host, existing, worldVars>>

connectToHostsFails ==
    /\ pc = "connect"
    /\ Fault
    /\ pc' = "iam" /\ failed' = TRUE
    /\ UNCHANGED <<apiVars, kubeVars, pgVars, awsVars, queue, reconcileVars,
                   left, grouped, todo, host, existing, now, changes>>

roleName == sanitizedUser(snap.name)
wanted == onHost(grouped, host)

\* The next round of the loop of setRolesOnHosts, hosts being the ones left.
nextHost(hosts) == pc' = IF hosts = {} THEN "iam" ELSE "createRole"

\* Mutant: the error of a host is lost when a later host succeeds.
lastErrWins(err) ==
    /\ nextHost(todo)
    /\ failed' = err
    /\ host' = None /\ existing' = {}
    /\ UNCHANGED <<left, grouped, todo>>

\* postgres.Role returns; an error is kept and the loop goes on.
roleReturns(err) ==
    /\ nextHost(todo)
    /\ failed' = (failed \/ err)
    /\ host' = None /\ existing' = {}
    /\ UNCHANGED <<left, grouped, todo>>

\* CREATE ROLE; a role that exists is fine.  The hosts come in map order.
createRole(h) ==
    /\ pc = "createRole" /\ h \in todo
    /\ login' = [login EXCEPT ![h] = @ \cup {roleName}]
    /\ todo' = todo \ {h} /\ host' = h
    /\ pc' = "persistedRoles"
    /\ UNCHANGED <<apiVars, kubeVars, created, exists, member, awsVars, queue, reconcileVars,
                   left, grouped, existing, failed, worldVars>>

createRoleFails(h) ==
    /\ pc = "createRole" /\ h \in todo
    /\ Fault
    /\ todo' = todo \ {h}
    /\ nextHost(todo \ {h})
    /\ failed' = TRUE
    /\ UNCHANGED <<apiVars, kubeVars, pgVars, awsVars, queue, reconcileVars,
                   left, grouped, host, existing, now, changes>>

persistedRoles ==
    /\ pc = "persistedRoles"
    /\ existing' = member[host][roleName]
    /\ pc' = "grant"
    /\ UNCHANGED <<apiVars, kubeVars, pgVars, awsVars, queue, reconcileVars,
                   left, grouped, todo, host, failed, worldVars>>

\* Mutant: an error of GRANT is remembered and REVOKE is run all the same.
grantErrGoesOn ==
    /\ pc = "grant"
    /\ LET ok == addableRoles(existing, wanted) \subseteq exists[host]
       IN  /\ member' = [member EXCEPT ![host][roleName] =
                            IF ok THEN @ \cup addableRoles(existing, wanted) ELSE @]
           /\ failed' = (failed \/ ~ok)
    /\ pc' = "revoke"
    /\ UNCHANGED <<left, grouped, todo, host, existing,
                   apiVars, kubeVars, created, exists, login, awsVars, queue, reconcileVars, worldVars>>

\* One GRANT statement for all missing roles: it fails as a whole when one of
\* them does not exist on the host, and then nothing is revoked either.
grantRoles ==
    /\ pc = "grant"
    /\ IF addableRoles(existing, wanted) \subseteq exists[host]
       THEN /\ member' = [member EXCEPT ![host][roleName] = @ \cup addableRoles(existing, wanted)]
            /\ pc' = "revoke"
            /\ UNCHANGED syncVars
       ELSE roleReturns(TRUE) /\ UNCHANGED member
    /\ UNCHANGED <<apiVars, kubeVars, created, exists, login, awsVars, queue, reconcileVars, worldVars>>

revokeRoles ==
    /\ pc = "revoke"
    /\ member' = [member EXCEPT ![host][roleName] = @ \ removeableRoles(existing, wanted)]
    /\ roleReturns(FALSE)
    /\ UNCHANGED <<apiVars, kubeVars, created, exists, login, awsVars, queue, reconcileVars, worldVars>>

statementFails ==
    /\ pc \in {"persistedRoles", "grant", "revoke"}
    /\ Fault
    /\ roleReturns(TRUE)
    /\ UNCHANGED <<apiVars, kubeVars, pgVars, awsVars, queue, reconcileVars, now, changes>>

\* The statement took effect and its answer was lost.
answerLost ==
    /\ Fault
    /\ \/ /\ pc = "grant" /\ addableRoles(existing, wanted) \subseteq exists[host]
          /\ member' = [member EXCEPT ![host][roleName] = @ \cup addableRoles(existing, wanted)]
       \/ /\ pc = "revoke"
          /\ member' = [member EXCEPT ![host][roleName] = @ \ removeableRoles(existing, wanted)]
    /\ roleReturns(TRUE)
    /\ UNCHANGED <<apiVars, kubeVars, created, exists, login, awsVars, queue, reconcileVars,
                   now, changes>>

-----------------------------------------------------------------------------
(* EnsureIAMUser, and the end of reconcile.                                *)

\* A policy that could not be deleted may be the one the name is put in.
ensureIAMUser ==
    /\ pc = "iam"
    /\ iam' = iam \cup {snap.name}
    /\ stuck' \in SUBSET stuck
    /\ Return(failed)
    /\ UNCHANGED <<apiVars, kubeVars, pgVars, worldVars>>

\* EnsureIAMUser fails, before or after the entry is in a policy.
ensureIAMUserFails ==
    /\ pc = "iam"
    /\ Fault
    /\ iam' \in {iam, iam \cup {snap.name}}
    /\ stuck' \in SUBSET stuck
    /\ Return(TRUE)
    /\ UNCHANGED <<apiVars, kubeVars, pgVars, now, changes>>

-----------------------------------------------------------------------------
(* The controller process as a whole.                                      *)

resources == {u \in Users : obj[u] # "absent"}

\* The process stops in the middle of a reconcile; the new one lists all
\* resources and starts with a request for each.
Restart ==
    /\ pc # "idle"
    /\ Fault
    /\ pc' = "idle" /\ user' = None /\ snap' = None /\ fresh' = FALSE
    /\ left' = {} /\ grouped' = {} /\ todo' = {} /\ host' = None /\ existing' = {} /\ failed' = FALSE
    /\ queue' = resources
    /\ UNCHANGED <<apiVars, kubeVars, pgVars, awsVars, now, changes>>

\* The informer's resync (flag resync-period).
Resync ==
    /\ ~(resources \subseteq queue)
    /\ queue' = queue \cup resources
    /\ UNCHANGED <<apiVars, kubeVars, pgVars, awsVars, pc, reconcileVars, syncVars, worldVars>>

-----------------------------------------------------------------------------
(* What happens around the controller.                                     *)

Change == changes < MaxChanges /\ changes' = changes + 1

\* A change of resource u is seen by the informer and spoils a pending Update.
Touch(u) == queue' = queue \cup {u} /\ fresh' = (fresh /\ user # u)

CreateUser(u) ==
    /\ obj[u] = "absent"
    /\ Change
    /\ obj' = [obj EXCEPT ![u] = "live"]
    /\ Touch(u)
    /\ UNCHANGED <<spec, finalizers, kubeVars, pgVars, awsVars, pc, user, snap, syncVars, now, faults>>

EditUser(u, s) ==
    /\ obj[u] # "absent" /\ s # spec[u]
    /\ Change
    /\ spec' = [spec EXCEPT ![u] = s]
    /\ Touch(u)
    /\ UNCHANGED <<obj, finalizers, kubeVars, pgVars, awsVars, pc, user, snap, syncVars, now, faults>>

DeleteUser(u) ==
    /\ obj[u] = "live"
    /\ Change
    /\ obj' = [obj EXCEPT ![u] = "deleting"]
    /\ Touch(u)
    /\ UNCHANGED <<spec, finalizers, kubeVars, pgVars, awsVars, pc, user, snap, syncVars, now, faults>>

\* The API server removes a marked resource once its last finalizer is gone.
Collect(u) ==
    /\ marked(u) /\ ~hasFinalizer(u)
    /\ obj' = [obj EXCEPT ![u] = "absent"]
    /\ Touch(u)
    /\ UNCHANGED <<spec, finalizers, kubeVars, pgVars, awsVars, pc, user, snap, syncVars, worldVars>>

\* A secret or config map changes; nobody watches it.
ChangeSource(s, v) ==
    /\ store[s] # v
    /\ Change
    /\ store' = [store EXCEPT ![s] = v]
    /\ UNCHANGED <<apiVars, running, pgVars, awsVars, queue, pc, reconcileVars, syncVars, now, faults>>

\* The PostgreSQLDatabase controller has provisioned d on its host: the three
\* access roles exist and the resource is in phase Running.
DatabaseRuns(d) ==
    /\ d \notin running /\ provisionable(d)
    /\ Change
    /\ running' = running \cup {d}
    /\ created' = [h \in HostCredentials |-> created[h] \cup namesOf({d}, h)]
    /\ exists' = [h \in HostCredentials |-> exists[h] \cup rolesOf({d}, h)]
    /\ UNCHANGED <<apiVars, store, login, member, awsVars, queue, pc, reconcileVars,
                   syncVars, now, faults>>

\* A later reconcile of d fails and its phase leaves Running; its roles stay.
DatabaseFails(d) ==
    /\ d \in running
    /\ Change
    /\ running' = running \ {d}
    /\ UNCHANGED <<apiVars, store, pgVars, awsVars, queue, pc, reconcileVars, syncVars, now, faults>>

GrantOutOfBand(h, n, r) ==
    /\ n \in login[h] /\ r \in exists[h] \ member[h][n]
    /\ Change
    /\ member' = [member EXCEPT ![h][n] = @ \cup {r}]
    /\ UNCHANGED <<apiVars, kubeVars, created, exists, login, awsVars, queue, pc, reconcileVars,
                   syncVars, now, faults>>

Tick ==
    /\ now < MaxTime
    /\ now' = now + 1
    /\ UNCHANGED <<apiVars, kubeVars, pgVars, awsVars, queue, pc, reconcileVars, syncVars,
                   changes, faults>>

-----------------------------------------------------------------------------
Worker ==
    \/ \E u \in Users : GetNothing(u) \/ Get(u)
    \/ AddFinalizer \/ finalizeUser \/ finalizeUserRefused \/ RemoveFinalizer
    \/ \E a \in left : Group(a)
    \/ Grouped \/ connectToHosts
    \/ \E h \in HostCredentials : createRole(h)
    \/ persistedRoles \/ grantRoles \/ revokeRoles
    \/ ensureIAMUser

Faults ==
    \/ finalizeUserFails \/ UpdateFails \/ connectToHostsFails
    \/ \E a \in left : GroupListFails(a)
    \/ \E h \in HostCredentials : createRoleFails(h)
    \/ statementFails \/ answerLost \/ ensureIAMUserFails \/ Restart

Environment ==
    \/ \E u \in Users : CreateUser(u) \/ DeleteUser(u) \/ Collect(u)
    \/ \E u \in Users : \E s \in SpecChoices[u] : EditUser(u, s)
    \/ \E s \in Sources : \E v \in StoreChoices[s] : ChangeSource(s, v)
    \/ \E d \in Databases : DatabaseRuns(d) \/ DatabaseFails(d)
    \/ \E h \in HostCredentials, n \in LoginRoles, r \in OutOfBandRoles : GrantOutOfBand(h, n, r)
    \/ Tick

Next == Worker \/ Resync \/ Faults \/ Environment

Spec == Init /\ [][Next]_vars

\* The worker goes on, the work queue is first in first out, resyncs keep
\* coming, and the API server removes what nobody holds on to.  Nothing is
\* assumed of faults and of changes from outside.
Fairness ==
    /\ WF_vars(Worker)
    /\ WF_vars(Resync)
    /\ \A u \in Users : SF_vars(Get(u)) /\ WF_vars(Collect(u))

FairSpec == Spec /\ Fairness

-----------------------------------------------------------------------------
(* Safety.                                                                 *)

\* t lies in the window an access asks for, a zero bound being open.
inWindow(a, t) == a.start <= t /\ (a.stop = 0 \/ t <= a.stop)

\* The kind of an access allows a role with this suffix.
entitles(a, suffix) ==
    \/ suffix = "read" /\ a.kind = "read"
    \/ suffix = "readwrite" /\ a.kind # "read"
    \/ suffix = "readowningwrite" /\ a.kind = "extended" /\ ExtendedWritesEnabled

\* Some access of a spec with login role n was in its window at an instant no
\* later than end, and resolves, under some answers of the API server, to role r
\* on host h.
justifiedBy(end, h, n, r) ==
    \E u \in Users : \E s \in SpecChoices[u] : \E a \in s.accesses, t \in 1..end :
        /\ sanitizedUser(s.name) = n
        /\ inWindow(a, t)
        /\ entitles(a, r.suffix)
        /\ \E api \in Answers : \E x \in groupByHosts(a, t, api) :
              x.host = h /\ accessRole(x) = r

\* Every role a login role holds on a host is a static one, was granted by hand,
\* or follows from an access request whose start has come and whose kind allows
\* it (groupByHosts, privilegeLookup, rolesDiff, Role): no edit, retry, restart or
\* name shared by two users ever grants more, or earlier, than was asked for.
GrantsJustified ==
    \A h \in HostCredentials, n \in LoginRoles : \A r \in member[h][n] :
        r \in StaticRoles \cup OutOfBandRoles \/ justifiedBy(now, h, n, r)

\* When SyncUser is about to return without error, each host it visited has
\* exactly what the grouped accesses ask for: nothing missing, and nothing left
\* that looks like a role of the controller except what was granted by hand while
\* Role was running (Role, setRolesOnHosts).
SyncedOnSuccess ==
    pc = "iam" /\ ~failed =>
        \A h \in hostsOf(grouped) :
            /\ expectedRoles(onHost(grouped, h)) \subseteq member[h][roleName]
            /\ removeableRoles(member[h][roleName], onHost(grouped, h)) \subseteq OutOfBandRoles

\* Every name with an entry in IAM belongs to a resource that still carries the
\* finalizer, so an entry cannot outlive the resource it was made for (reconcile:
\* the finalizer is stored before the first EnsureIAMUser and removed after
\* RemoveIAMUser).  It needs spec.name to stay the same: see stableNames.
IamOwned ==
    \A n \in iam : \E u \in Users : spec[u].name = n /\ hasFinalizer(u) /\ obj[u] # "absent"

stableNames == \A u \in Users : \A s, t \in SpecChoices[u] : s.name = t.name

(* Action properties.                                                      *)

covered(h, n, b) == \E r \in member[h][n] : r.base = b /\ hasSuffix(r)

\* A change from one privilege to another on the same database never leaves the
\* user without access in between: whoever holds some role of a database and is
\* being given one keeps one at every step (Role grants before it revokes).
NoAccessGap ==
    [][\A h \in HostCredentials, n \in LoginRoles, b \in Values :
          covered(h, n, b) /\ ~covered(h, n, b)' =>
              \A x \in onHost(grouped, h) : accessRole(x).base # b]_vars

(* Liveness.                                                               *)

\* What u's accesses that are in their window resolve to now.
currentGrouping(u) ==
    groupAccesses({a \in spec[u].accesses : inWindow(a, now)}, now,
                  [store |-> store, running |-> running, listFails |-> FALSE])

settled(u) ==
    LET n == sanitizedUser(spec[u].name)
        g == currentGrouping(u)
    IN  /\ hasFinalizer(u) /\ spec[u].name \in iam
        /\ (\A x \in g : connectable(x)) =>
              \A h \in hostsOf(g) :
                  expectedRoles(onHost(g, h)) \subseteq exists[h] =>
                      /\ expectedRoles(onHost(g, h)) \subseteq member[h][n]
                      /\ removeableRoles(member[h][n], onHost(g, h)) = {}

\* Once faults and changes stop, every live user ends up with its finalizer, its
\* IAM entry, and, on each host its accesses now resolve to, exactly the roles it
\* asks for, expired ones revoked (reconcile's retries and the resync).
Converges == <>[](\A u \in Users : obj[u] = "live" => settled(u))

\* A deleted resource goes away, through failing calls, conflicting updates and
\* restarts, unless AWS refuses for good to let its name go (reconcile removes the
\* finalizer after finalizeUser, and every error puts the request back).
DeletionCompletes ==
    \A u \in Users : marked(u) ~> (~marked(u) \/ spec[u].name \in stuck)

\* README: start and stop limit "the lifetime of capabilities e.g. automatic
\* revocation after completing a support ticket".  A role that a user holds and
\* that only expired accesses of its spec ask for goes away.
overdue(u, h, r) ==
    /\ obj[u] = "live"
    /\ r \in member[h][sanitizedUser(spec[u].name)]
    /\ r \notin expectedRoles(currentGrouping(u))
    /\ \E a \in spec[u].accesses : ~inWindow(a, now) /\ entitles(a, r.suffix)

ExpiredRevoked ==
    <>[](\A u \in Users, h \in HostCredentials :
            \A r \in member[h][sanitizedUser(spec[u].name)] : ~overdue(u, h, r))
=============================================================================

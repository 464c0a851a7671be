------------------------ MODULE CustomRoleController ------------------------
(***************************************************************************)
(* The CustomRole controller: internal/controller/customrole_*.go, with    *)
(* EnsureCustomRole and DropCustomRole of pkg/postgres/customrole_roles.go.*)
(*                                                                         *)
(* One worker takes resources from a queue and brings each of them to all  *)
(* hosts, one after the other.  What CustomRoleDatabase shows of one       *)
(* database is one step here: a call leaves the role the contents that     *)
(* were asked for, or fails and leaves them Partial, or has statements     *)
(* refused, which it may skip, and leaves them Obstructed.  The name of a  *)
(* role is that of its resource.                                           *)
(***************************************************************************)
EXTENDS Integers, FiniteSets

CONSTANTS
    CustomRoles,        \* resources
    OtherRoles,         \* names of other roles
    OtherRolesOn,       \* those that exist on each host
    Neighbours,         \* those in the namespace of the PostgreSQLDatabase resources
    Hosts,              \* the keys of HostCredentials
    UserDatabases,      \* databases with a PostgreSQLDatabase resource
    HostOf,             \* the host of each of them
    Postgres,           \* the database "postgres", which every host has
    Reserved,           \* ReservedSystemDatabases
    Contents,           \* what may be asked for in a database
    Nothing, Partial,   \* nothing of it; some of it, because a call failed
    Obstructed,         \* some of it, because PostgreSQL refuses the rest
    Specs,              \* what each resource may say
    Absent,             \* no such resource
    NoHost,
    MaxEdits, MaxFaults

Databases == UserDatabases \cup {Postgres}

\* An empty set of databases means all of them.  The parts that are not valid are
\* refused by SyncDatabaseGrants and SyncDatabaseFunctions.
SpecType == [databases : SUBSET (Databases \cup Reserved), grantRoles : SUBSET (CustomRoles \cup OtherRoles),
             content : Contents, valid : SUBSET {"grants", "functions"}]

ASSUME ControllerAssumption ==
    /\ Neighbours \subseteq CustomRoles /\ CustomRoles \cap OtherRoles = {}
    /\ HostOf \in [UserDatabases -> Hosts] /\ OtherRolesOn \in [Hosts -> SUBSET OtherRoles]
    /\ Postgres \notin UserDatabases /\ Reserved \cap Databases = {}
    /\ {Nothing, Partial, Obstructed} \cap Contents = {}
    /\ Nothing # Partial /\ Nothing # Obstructed /\ Partial # Obstructed
    /\ \A c \in CustomRoles : Specs[c] \subseteq SpecType
    /\ NoHost \notin Hosts
    /\ MaxEdits \in Nat /\ MaxFaults \in Nat

CustomRoleStatus == [phase : {"", "Running", "Failed", "Invalid"}, failingHost : Hosts \cup {NoHost}]
Objects == [spec : SpecType, status : CustomRoleStatus, deleting : BOOLEAN, finalizer : BOOLEAN]

ASSUME AbsentAssumption == Absent \notin Objects

VARIABLES
    objects,        \* the resources in the API server
    queue,          \* resources to reconcile
    dbPhase,        \* of each PostgreSQLDatabase: absent, created, on the server, Running
    up,             \* the hosts that answer
    roles,          \* on each host: the roles that exist
    members,        \* on each host: <<r, g>>, role g is granted to role r
    contents,       \* of each <<kind, host, database, role>>
    pc, cr,         \* the reconcile: where it is, for which resource
    copy, fresh,    \* what it has read, and whether that is still the resource
    hosts, host,    \* the hosts that are left, and the one in hand
    listed,         \* the user databases that were found on each host
    work,           \* calls that are left on this host
    edits, faults

world == <<dbPhase, up, roles, members, contents>>
locals == <<pc, cr, copy, fresh, hosts, host, listed, work>>
bounds == <<edits, faults>>
vars == <<objects, queue, world, locals, bounds>>

Kinds == {"grants", "functions"}
\* Calls on a database that is not a reserved one.
Tasks == [stage : 1..6, kind : Kinds \cup {"both"}, database : Databases, wanted : BOOLEAN]

onServer(d) == dbPhase[d] \in {"server", "Running"}
databasesOn(h) == {d \in UserDatabases : HostOf[d] = h /\ onServer(d)}

-----------------------------------------------------------------------------
(* The queue and the reconcile.                                            *)

\* The reconcile is over.  It is queued again after an error; an update of the
\* resource queues it too.
return(again) ==
    /\ pc' = "idle" /\ cr' = Absent /\ copy' = Absent /\ fresh' = FALSE
    /\ hosts' = {} /\ host' = NoHost /\ work' = {}
    /\ listed' = [h \in Hosts |-> {}]
    /\ queue' = IF again THEN queue \cup {cr} ELSE queue

\* persistStatus: nothing is written when nothing changes; a conflict is logged.
persistStatus(phase, failing) ==
    LET status == [phase |-> phase, failingHost |-> failing]
    IN  objects' = IF fresh /\ copy.status # status
                   THEN [objects EXCEPT ![cr].status = status] ELSE objects

Fetch(c) ==
    /\ pc = "idle" /\ c \in queue
    /\ queue' = queue \ {c}
    /\ IF objects[c] = Absent \/ (objects[c].deleting /\ ~objects[c].finalizer)
       THEN UNCHANGED locals
       ELSE /\ cr' = c /\ copy' = objects[c] /\ fresh' = TRUE
            /\ pc' = CASE copy'.deleting -> "clean"
                       [] ~copy'.deleting /\ ~copy'.finalizer -> "finalizer"
                       [] OTHER -> "hosts"
            /\ hosts' = Hosts
            /\ UNCHANGED <<host, listed, work>>
    /\ UNCHANGED <<objects, world, bounds>>

\* The update is an event; when it fails the error queues the resource.
AddFinalizer ==
    /\ pc = "finalizer"
    /\ objects' = IF fresh THEN [objects EXCEPT ![cr].finalizer = TRUE] ELSE objects
    /\ return(TRUE)
    /\ UNCHANGED <<world, bounds>>

-----------------------------------------------------------------------------
(* A live resource on one host.                                            *)

PickHost(h) ==
    /\ pc = "hosts" /\ h \in hosts
    /\ host' = h /\ hosts' = hosts \ {h}
    /\ pc' = "resolve"
    /\ UNCHANGED <<objects, queue, world, cr, copy, fresh, listed, work, bounds>>

\* Mutant: a database is served because it is named.
asNamed(spec, found) == IF spec.databases = {} THEN found ELSE spec.databases

\* The databases named in the resource, without the reserved ones, or all that
\* UserDatabases finds.
targetsOf(spec, found) == IF spec.databases = {} THEN found ELSE spec.databases \ Reserved

\* allUserDatabases is nil when no databases are named, and when none is found.
allUserDatabases(spec, found) == IF spec.databases = {} THEN {} ELSE found

task(stage, kind, d, wanted) == [stage |-> stage, kind |-> kind, database |-> d, wanted |-> wanted]

reconcileGrantsOnHost(targets, all) ==
    {task(1, "grants", d, TRUE) : d \in targets \ {Postgres}}
      \cup {task(2, "grants", d, FALSE) : d \in all \ targets}

\* Mutant: functions in postgres are cleaned up only when databases are named.
postgresForgotten(targets, all) ==
    {task(4, "functions", d, TRUE) : d \in targets}
      \cup {task(5, "functions", d, FALSE) : d \in IF all # {} THEN {Postgres} \ targets ELSE {}}
      \cup {task(6, "functions", d, FALSE) : d \in all \ targets}

reconcileFunctionsOnHost(targets, all) ==
    {task(3, "functions", d, FALSE) : d \in IF all = {} THEN {Postgres} ELSE {}}
      \cup {task(4, "functions", d, TRUE) : d \in targets}
      \cup {task(5, "functions", d, FALSE) : d \in IF all # {} THEN {Postgres} \ targets ELSE {}}
      \cup {task(6, "functions", d, FALSE) : d \in all \ targets}

\* Connect, Preflight and resolveTargetDatabases.
Resolve ==
    /\ pc = "resolve" /\ host \in up
    /\ LET found == databasesOn(host)
           targets == targetsOf(copy.spec, found)
           all == allUserDatabases(copy.spec, found)
       IN  /\ listed' = [listed EXCEPT ![host] = found]
           /\ work' = reconcileGrantsOnHost(targets, all)
                        \cup reconcileFunctionsOnHost(targets, all)
    /\ pc' = "role"
    /\ UNCHANGED <<objects, queue, world, cr, copy, fresh, hosts, host, bounds>>

\* EnsureCustomRole creates the role, ...
EnsureCustomRole ==
    /\ pc = "role" /\ host \in up
    /\ roles' = [roles EXCEPT ![host] = @ \cup {cr}]
    /\ pc' = "memberships"
    /\ UNCHANGED <<objects, queue, dbPhase, up, members, contents, cr, copy, fresh, hosts,
                   host, listed, work, bounds>>

grantedTo(h, c) == {g \in CustomRoles \cup OtherRoles : <<c, g>> \in members[h]}

\* ... revokes the roles that are not asked for, one by one, ...
RevokeRole(g) ==
    /\ pc = "memberships" /\ host \in up
    /\ g \in grantedTo(host, cr) \ copy.spec.grantRoles
    /\ members' = [members EXCEPT ![host] = @ \ {<<cr, g>>}]
    /\ UNCHANGED <<objects, queue, dbPhase, up, roles, contents, locals, bounds>>

\* ... and grants the others in one statement, for which they must exist.
GrantRoles ==
    /\ pc = "memberships" /\ host \in up
    /\ grantedTo(host, cr) \subseteq copy.spec.grantRoles
    /\ copy.spec.grantRoles \subseteq roles[host] \cup OtherRolesOn[host]
    /\ members' = [members EXCEPT ![host] = @ \cup {<<cr, g>> : g \in copy.spec.grantRoles}]
    /\ pc' = "work"
    /\ UNCHANGED <<objects, queue, dbPhase, up, roles, contents, cr, copy, fresh, hosts, host,
                   listed, work, bounds>>

isNext(t) == t \in work /\ \A x \in work : t.stage <= x.stage
reachable(t) == host \in up /\ t.database \in databasesOn(host) \cup {Postgres}
wantedContent(t) == IF t.wanted THEN copy.spec.content ELSE Nothing
invalid(t) == t.wanted /\ t.kind \notin copy.spec.valid

setContents(kinds, d, value) ==
    contents' = [x \in DOMAIN contents |->
                   IF x[1] \in kinds /\ x[2] = host /\ x[3] = d /\ x[4] = cr
                   THEN value ELSE contents[x]]

contentOf(kind, d) == contents[<<kind, host, d, cr>>]

\* Refused statements are skipped when they are about grants.
skippable(kind) == IF kind = "grants" THEN {Obstructed} ELSE {}

\* syncGrantsOnDatabase and syncFunctionsOnDatabase.
SyncDatabase(t) ==
    /\ pc = "work" /\ isNext(t) /\ reachable(t) /\ ~invalid(t)
    /\ setContents({t.kind}, t.database, wantedContent(t))
    /\ work' = work \ {t}
    /\ UNCHANGED <<objects, queue, dbPhase, up, roles, members, pc, cr, copy, fresh, hosts,
                   host, listed, bounds>>

\* SyncDatabaseGrants skips the statements that are refused, or whose object has no
\* owner any more, and returns nil all the same.
SkipsStatements(t) ==
    /\ pc = "work" /\ isNext(t) /\ reachable(t) /\ ~invalid(t)
    /\ t.kind = "grants" /\ contentOf("grants", t.database) # wantedContent(t)
    /\ setContents({"grants"}, t.database, Obstructed)
    /\ work' = work \ {t}
    /\ UNCHANGED <<objects, queue, dbPhase, up, roles, members, pc, cr, copy, fresh, hosts,
                   host, listed, bounds>>

\* SyncDatabaseFunctions does not: a function whose return type or parameter names were
\* edited is refused by CREATE OR REPLACE, and so is one of an owner that is not the
\* controller's to act for.
SyncRefused(t) ==
    /\ pc = "work" /\ isNext(t) /\ reachable(t) /\ ~invalid(t)
    /\ t.kind = "functions" /\ contentOf("functions", t.database) # wantedContent(t)
    /\ setContents({"functions"}, t.database, Obstructed)
    /\ persistStatus("Failed", host)
    /\ return(TRUE)
    /\ UNCHANGED <<dbPhase, up, roles, members, bounds>>

\* An invalid resource is dropped from the queue until it is edited.
SyncInvalid(t) ==
    /\ pc = "work" /\ isNext(t) /\ reachable(t) /\ invalid(t)
    /\ persistStatus("Invalid", NoHost)
    /\ return(objects' # objects)
    /\ UNCHANGED <<world, bounds>>

HostDone ==
    /\ pc = "work" /\ work = {}
    /\ pc' = "hosts" /\ host' = NoHost
    /\ UNCHANGED <<objects, queue, world, cr, copy, fresh, hosts, listed, work, bounds>>

\* The host does not answer, or a role to be granted or a database to be served does
\* not exist.  The first host that fails ends the reconcile.
HostFails ==
    /\ \/ pc \in {"resolve", "role", "memberships"} /\ host \notin up
       \/ pc = "memberships" /\ host \in up
            /\ grantedTo(host, cr) \subseteq copy.spec.grantRoles
            /\ ~(copy.spec.grantRoles \subseteq roles[host] \cup OtherRolesOn[host])
       \/ pc = "work" /\ \E t \in work : isNext(t) /\ ~reachable(t)
    /\ persistStatus("Failed", host)
    /\ return(TRUE)
    /\ UNCHANGED <<world, bounds>>

AllHostsDone ==
    /\ pc = "hosts" /\ hosts = {}
    /\ persistStatus("Running", NoHost)
    /\ return(objects' # objects)
    /\ UNCHANGED <<world, bounds>>

-----------------------------------------------------------------------------
(* A deleted resource: cleanupRole.                                        *)

\* Mutant: postgres is forgotten.
cleanUserDatabases(h) ==
    /\ pc = "clean" /\ h \in hosts /\ h \in up
    /\ host' = h /\ hosts' = hosts \ {h}
    /\ work' = {task(1, "both", d, FALSE) : d \in databasesOn(h)}
    /\ pc' = "cleanWork"
    /\ UNCHANGED <<objects, queue, world, cr, copy, fresh, listed, bounds>>

CleanHost(h) ==
    /\ pc = "clean" /\ h \in hosts /\ h \in up
    /\ host' = h /\ hosts' = hosts \ {h}
    /\ work' = {task(1, "both", d, FALSE) : d \in databasesOn(h)}
                 \cup {task(2, "functions", Postgres, FALSE)}
    /\ pc' = "cleanWork"
    /\ UNCHANGED <<objects, queue, world, cr, copy, fresh, listed, bounds>>

\* DropManagedFunctions, and RevokeAllDatabaseGrants but for postgres.  A bulk revoke
\* that is refused is skipped, and leaves grants behind.
CleanDatabase(t) ==
    /\ pc = "cleanWork" /\ isNext(t) /\ host \in up
    /\ \/ setContents(IF t.kind = "both" THEN Kinds ELSE {t.kind}, t.database, Nothing)
       \/ /\ t.kind = "both" /\ contentOf("grants", t.database) # Nothing
          /\ contents' = [x \in DOMAIN contents |->
                            IF <<x[2], x[3], x[4]>> # <<host, t.database, cr>> THEN contents[x]
                            ELSE IF x[1] = "grants" THEN Obstructed ELSE Nothing]
    /\ work' = work \ {t}
    /\ UNCHANGED <<objects, queue, dbPhase, up, roles, members, pc, cr, copy, fresh, hosts,
                   host, listed, bounds>>

\* DropManagedFunctions returns the error of a DROP that is refused.
CleanRefused(t) ==
    /\ pc = "cleanWork" /\ isNext(t) /\ host \in up
    /\ contentOf("functions", t.database) # Nothing
    /\ setContents({"functions"}, t.database, Obstructed)
    /\ return(TRUE)
    /\ UNCHANGED <<objects, dbPhase, up, roles, members, bounds>>

\* DROP ROLE is refused while the role has privileges in any database of the host.
hasPrivileges(h, c) ==
    \E kind \in Kinds, d \in Databases : contents[<<kind, h, d, c>>] # Nothing

\* Memberships go with the role.
DropCustomRole ==
    /\ pc = "cleanWork" /\ work = {} /\ host \in up
    /\ ~hasPrivileges(host, cr)
    /\ roles' = [roles EXCEPT ![host] = @ \ {cr}]
    /\ members' = [members EXCEPT ![host] = {m \in @ : cr \notin {m[1], m[2]}}]
    /\ pc' = "clean" /\ host' = NoHost
    /\ UNCHANGED <<objects, queue, dbPhase, up, contents, cr, copy, fresh, hosts, listed, work,
                   bounds>>

DropRefused ==
    /\ pc = "cleanWork" /\ work = {} /\ host \in up
    /\ hasPrivileges(host, cr)
    /\ return(TRUE)
    /\ UNCHANGED <<objects, world, bounds>>

\* Mutant: the error is logged and not returned.
cleanErrLogged ==
    /\ \/ pc = "clean" /\ \E h \in hosts : h \notin up
       \/ pc = "cleanWork" /\ host \notin up
    /\ return(FALSE)
    /\ UNCHANGED <<objects, world, bounds>>

\* The cleanup fails on a host; the status is left as it is.
CleanFails ==
    /\ \/ pc = "clean" /\ \E h \in hosts : h \notin up
       \/ pc = "cleanWork" /\ host \notin up
    /\ return(TRUE)
    /\ UNCHANGED <<objects, world, bounds>>

\* Mutant: the finalizer is removed before the first host is cleaned.
finalizerFirst ==
    /\ pc = "clean"
    /\ objects' = IF fresh THEN [objects EXCEPT ![cr] = Absent] ELSE objects
    /\ return(~fresh)
    /\ UNCHANGED <<world, bounds>>

\* The API server removes a deleted resource with its last finalizer.
RemoveFinalizer ==
    /\ pc = "clean" /\ hosts = {}
    /\ objects' = IF fresh THEN [objects EXCEPT ![cr] = Absent] ELSE objects
    /\ return(~fresh)
    /\ UNCHANGED <<world, bounds>>

-----------------------------------------------------------------------------
(* Failures and the outside.                                               *)

fault == faults < MaxFaults /\ faults' = faults + 1 /\ UNCHANGED edits

\* A call on a database fails on the way.  Contents that were right stay right, and a
\* cleanup gets to the grants when the functions are gone.
SyncFails(t, kind) ==
    /\ pc \in {"work", "cleanWork"} /\ isNext(t) /\ reachable(t) /\ ~invalid(t)
    /\ t.kind \in {kind, "both"}
    /\ contentOf(kind, t.database) # wantedContent(t)
    /\ fault
    /\ contents' = [x \in DOMAIN contents |->
                      IF <<x[2], x[3], x[4]>> # <<host, t.database, cr>> THEN contents[x]
                      ELSE IF x[1] = kind THEN Partial
                      ELSE IF t.kind = "both" /\ kind = "grants" THEN Nothing ELSE contents[x]]
    /\ IF pc = "work" THEN persistStatus("Failed", host) ELSE UNCHANGED objects
    /\ return(TRUE)
    /\ UNCHANGED <<dbPhase, up, roles, members>>

\* The controller is restarted; its caches list every resource.
Restart ==
    /\ pc # "idle" /\ fault
    /\ pc' = "idle" /\ cr' = Absent /\ copy' = Absent /\ fresh' = FALSE
    /\ hosts' = {} /\ host' = NoHost /\ work' = {}
    /\ listed' = [h \in Hosts |-> {}]
    /\ queue' = {c \in CustomRoles : objects[c] # Absent}
    /\ UNCHANGED <<objects, world>>

HostDown(h) ==
    /\ h \in up /\ fault
    /\ up' = up \ {h}
    /\ UNCHANGED <<objects, queue, dbPhase, roles, members, contents, locals>>

HostUp(h) ==
    /\ h \notin up
    /\ up' = up \cup {h}
    /\ UNCHANGED <<objects, queue, dbPhase, roles, members, contents, locals, bounds>>

\* A change of a resource by its author.
change(c, object) ==
    /\ objects' = [objects EXCEPT ![c] = object]
    /\ queue' = queue \cup {c}
    /\ fresh' = (fresh /\ c # cr)
    /\ UNCHANGED <<world, pc, cr, copy, hosts, host, listed, work, faults>>

Create(c, spec) ==
    /\ objects[c] = Absent /\ edits < MaxEdits
    /\ edits' = edits + 1
    /\ change(c, [spec |-> spec, status |-> [phase |-> "", failingHost |-> NoHost],
                  deleting |-> FALSE, finalizer |-> FALSE])

Edit(c, spec) ==
    /\ objects[c] # Absent /\ edits < MaxEdits
    /\ ~objects[c].deleting /\ spec # objects[c].spec
    /\ edits' = edits + 1
    /\ change(c, [objects[c] EXCEPT !.spec = spec])

Delete(c) ==
    /\ objects[c] # Absent
    /\ ~objects[c].deleting
    /\ edits' = edits
    /\ change(c, IF objects[c].finalizer THEN [objects[c] EXCEPT !.deleting = TRUE] ELSE Absent)

\* Mutant: the change to Running is not watched.
createdOnly(d) ==
    /\ dbPhase[d] # "Running"
    /\ dbPhase' = [dbPhase EXCEPT ![d] =
                     CASE @ = "absent" -> "created" [] @ = "created" -> "server"
                       [] OTHER -> "Running"]
    /\ queue' = IF dbPhase'[d] = "created" THEN queue \cup {c \in Neighbours : objects[c] # Absent}
                                           ELSE queue
    /\ UNCHANGED <<objects, up, roles, members, contents, locals, bounds>>

\* A PostgreSQLDatabase is created, its database is made, and it becomes Running.
\* mapDatabaseToCustomRoles is called for the first and for the last of these.
DatabaseAdvances(d) ==
    /\ dbPhase[d] # "Running"
    /\ dbPhase' = [dbPhase EXCEPT ![d] =
                     CASE @ = "absent" -> "created" [] @ = "created" -> "server"
                       [] OTHER -> "Running"]
    /\ queue' = IF dbPhase'[d] \in {"created", "Running"}
                THEN queue \cup {c \in Neighbours : objects[c] # Absent} ELSE queue
    /\ UNCHANGED <<objects, up, roles, members, contents, locals, bounds>>

-----------------------------------------------------------------------------
Reconcile ==
    \/ AddFinalizer \/ Resolve \/ EnsureCustomRole \/ (\E g \in CustomRoles \cup OtherRoles : RevokeRole(g))
    \/ GrantRoles \/ HostDone \/ HostFails \/ AllHostsDone
    \/ \E t \in work : SyncDatabase(t) \/ SkipsStatements(t) \/ SyncRefused(t) \/ SyncInvalid(t)
                        \/ CleanDatabase(t) \/ CleanRefused(t)
    \/ (\E h \in Hosts : CleanHost(h)) \/ DropCustomRole \/ DropRefused \/ CleanFails
    \/ RemoveFinalizer

Environment ==
    \/ (\E t \in work, kind \in Kinds : SyncFails(t, kind)) \/ Restart
    \/ \E h \in Hosts : HostDown(h) \/ HostUp(h)
    \/ \E c \in CustomRoles : Delete(c) \/ \E s \in Specs[c] : Create(c, s) \/ Edit(c, s)
    \/ \E d \in UserDatabases : DatabaseAdvances(d)

Next ==
    \/ \E c \in CustomRoles : Fetch(c)
    \/ \E h \in Hosts : PickHost(h)
    \/ Reconcile \/ Environment

Init ==
    /\ objects = [c \in CustomRoles |-> Absent] /\ queue = {}
    /\ dbPhase \in [UserDatabases -> {"absent", "Running"}]
    /\ up = Hosts /\ roles = [h \in Hosts |-> {}] /\ members = [h \in Hosts |-> {}]
    /\ contents = [x \in Kinds \X Hosts \X Databases \X CustomRoles |-> Nothing]
    /\ pc = "idle" /\ cr = Absent /\ copy = Absent /\ fresh = FALSE
    /\ hosts = {} /\ host = NoHost /\ listed = [h \in Hosts |-> {}] /\ work = {}
    /\ edits = 0 /\ faults = 0

Spec == Init /\ [][Next]_vars

\* The worker goes on, every resource in the queue has its turn, every host is the first
\* of the map now and then, and a database that is being made becomes Running.
FairSpec ==
    /\ Spec /\ WF_vars(Reconcile)
    /\ \A c \in CustomRoles : SF_vars(Fetch(c))
    /\ \A c \in CustomRoles, h \in Hosts : SF_vars(cr = c /\ PickHost(h))
    /\ \A d \in UserDatabases : WF_vars(dbPhase[d] # "absent" /\ DatabaseAdvances(d))

-----------------------------------------------------------------------------
\* The type invariant.
TypeOK ==
    /\ objects \in [CustomRoles -> Objects \cup {Absent}] /\ queue \subseteq CustomRoles
    /\ dbPhase \in [UserDatabases -> {"absent", "created", "server", "Running"}]
    /\ up \subseteq Hosts /\ roles \in [Hosts -> SUBSET CustomRoles]
    /\ members \in [Hosts -> SUBSET (CustomRoles \X (CustomRoles \cup OtherRoles))]
    /\ contents \in [Kinds \X Hosts \X Databases \X CustomRoles ->
                       Contents \cup {Nothing, Partial, Obstructed}]
    /\ pc \in {"idle", "finalizer", "hosts", "resolve", "role", "memberships", "work", "clean",
               "cleanWork"}
    /\ cr \in CustomRoles \cup {Absent} /\ copy \in Objects \cup {Absent} /\ fresh \in BOOLEAN
    /\ hosts \subseteq Hosts /\ host \in Hosts \cup {NoHost}
    /\ listed \in [Hosts -> SUBSET UserDatabases] /\ work \subseteq Tasks
    /\ edits \in 0..MaxEdits /\ faults \in 0..MaxFaults

\* What the role is to have in a database.
expected(kind, spec, found, d) ==
    IF d \in targetsOf(spec, found) /\ (kind = "functions" \/ d # Postgres)
    THEN spec.content ELSE Nothing

appliedOn(c, spec, h, found) ==
    /\ c \in roles[h]
    /\ \A kind \in Kinds, d \in found \cup {Postgres} :
          contents[<<kind, h, d, c>>] = expected(kind, spec, found, d)

\* The same, but for grants that have been skipped.
appliedOrSkipped(c, spec, h, found) ==
    /\ c \in roles[h]
    /\ \A kind \in Kinds, d \in found \cup {Postgres} :
          contents[<<kind, h, d, c>>] \in
              {expected(kind, spec, found, d)} \cup skippable(kind)

\* When Running is about to be reported, every host has the role, its memberships and
\* its contents in every database that the host was found to have, and nothing is left
\* where the role is not wanted any more, whatever faults and refusals there have been
\* before: only grants whose statements are refused are out of step (reconcile).
RunningMeansApplied ==
    pc = "hosts" /\ hosts = {} =>
        \A h \in Hosts : /\ appliedOrSkipped(cr, copy.spec, h, listed[h])
                         /\ grantedTo(h, cr) = copy.spec.grantRoles

\* "The resource uses a Kubernetes finalizer to ensure this cleanup completes before the
\* object is removed": a role that exists has a resource with the finalizer.
RoleOwned ==
    \A h \in Hosts : \A c \in roles[h] : objects[c] # Absent /\ objects[c].finalizer

\* DropCustomRole: "All database-level grants must be revoked ... on every database before
\* calling this."  When it is called, nothing is left of the role on the host but grants
\* whose revoke was refused, whatever databases the resource named before, whatever
\* databases have appeared meanwhile and whatever an earlier cleanup came to.
RevokedBeforeDrop ==
    pc = "cleanWork" /\ work = {} =>
        \A kind \in Kinds, d \in Databases :
            contentOf(kind, d) \in {Nothing} \cup skippable(kind)

\* Some of what a role is to have, or to lose, is refused on the host.
refusedOn(h, c) == \E kind \in Kinds, d \in Databases : contents[<<kind, h, d, c>>] = Obstructed

demanded(c, h) ==
    /\ objects[c] # Absent /\ h \in up
    /\ ~objects[c].deleting /\ objects[c].spec.valid = Kinds
    /\ objects[c].spec.databases \subseteq databasesOn(h) \cup {Postgres} \cup Reserved
    /\ objects[c].spec.grantRoles \subseteq roles[h] \cup OtherRolesOn[h]
    /\ ~refusedOn(h, c)

\* A valid resource is brought, at the same time, to every host that can serve it and
\* refuses nothing, the databases that become Running later included, although other
\* hosts fail or refuse for ever and nothing is resynced ("... as soon as it is ready").
Converges ==
    \A c \in Neighbours :
        []<>(\A h \in Hosts : demanded(c, h) => appliedOn(c, objects[c].spec, h, databasesOn(h)))

\* A deleted resource goes away, if the hosts answer and nothing stays refused: that a
\* revoke may be for ever is what CustomRoleDatabase!RoleGoes is about.
DeletionCompletes ==
    \A c \in CustomRoles :
        []<>(objects[c] # Absent /\ up = Hosts /\ (\A h \in Hosts : ~refusedOn(h, c))
               => ~objects[c].deleting)

-----------------------------------------------------------------------------
(* The parts of the inductive invariant behind the properties above.       *)

applying == {"hosts", "resolve", "role", "memberships", "work"}
cleaning == {"clean", "cleanWork"}

\* A reconcile is about a resource, which cannot go before it has cleaned up.
Held ==
    /\ pc # "idle" => cr \in CustomRoles /\ copy \in Objects
    /\ pc \in applying \cup cleaning => objects[cr] # Absent /\ objects[cr].finalizer
    /\ fresh => pc # "idle" /\ objects[cr] = copy

\* The host in hand is one of those that are not left.
InHand ==
    /\ pc \in {"resolve", "role", "memberships", "work", "cleanWork"} => host \in Hosts \ hosts
    /\ pc \in {"idle", "finalizer", "hosts", "clean"} => host = NoHost

\* The role is gone from the hosts that a cleanup has finished with.
Cleaned == pc \in cleaning => \A h \in Hosts \ hosts : h # host => cr \notin roles[h]

\* It is there while something is brought to it.
HasRole == pc \in {"memberships", "work"} => cr \in roles[host]

\* Contents are in databases that are there, and no grants are in postgres.
Placed ==
    \A kind \in Kinds, h \in Hosts, d \in Databases, c \in CustomRoles :
        contents[<<kind, h, d, c>>] # Nothing =>
            d \in databasesOn(h) \/ (d = Postgres /\ kind = "functions")

\* A stage says whether the contents are wanted, and grants leave postgres out.
TasksPlanned ==
    pc \in {"role", "memberships", "work"} =>
        \A t \in work : /\ t.kind \in Kinds /\ (t.wanted <=> t.stage \in {1, 4})
                        /\ t.kind = "grants" => t.database # Postgres

\* What a cleanup has still to take away on this host is in a call that is left.
CleanPlanned ==
    pc = "cleanWork" =>
        /\ \A t \in work : ~t.wanted
        /\ \A kind \in Kinds, d \in Databases :
              contentOf(kind, d) \notin {Nothing} \cup skippable(kind) =>
                  \E t \in work : t.database = d /\ t.kind \in {kind, "both"}

\* The hosts that a reconcile has finished with have what is asked for.
AppliedSoFar ==
    pc \in applying =>
        \A h \in Hosts \ hosts : h # host =>
            /\ appliedOrSkipped(cr, copy.spec, h, listed[h])
            /\ grantedTo(h, cr) = copy.spec.grantRoles

tasksOf(kind, d) == {t \in work : t.kind = kind /\ t.database = d}

\* The last call on a database brings what is expected there, and where no call is left
\* it is there.
WorkPlanned ==
    pc \in {"role", "memberships", "work"} =>
        \A kind \in Kinds, d \in listed[host] \cup {Postgres} :
            /\ tasksOf(kind, d) = {} =>
                  contentOf(kind, d) \in
                      {expected(kind, copy.spec, listed[host], d)}
                        \cup skippable(kind)
            /\ \A t \in tasksOf(kind, d) :
                  (\A x \in tasksOf(kind, d) : x.stage <= t.stage) =>
                      wantedContent(t) = expected(kind, copy.spec, listed[host], d)

MembersDone == pc = "work" => grantedTo(host, cr) = copy.spec.grantRoles

Inductive ==
    /\ TypeOK /\ RoleOwned /\ Held /\ InHand /\ Cleaned /\ HasRole /\ Placed
    /\ TasksPlanned /\ CleanPlanned /\ AppliedSoFar /\ WorkPlanned /\ MembersDone
=============================================================================

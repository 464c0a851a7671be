--------------------- MODULE DatabaseControllerProofs ---------------------
(* Theorems about DatabaseController, for all values of its constants. *)
EXTENDS DatabaseController, TLAPS

USE DEF apiVars, pgVars, localVars

-----------------------------------------------------------------------------
(* The parts of the type invariant, and what the worker knows when.        *)

ApiType ==
    /\ present \subseteq Databases
    /\ spec \in [Databases -> Specs] /\ status \in [Databases -> Statuses]
    /\ store \in Stores /\ credentials \subseteq Credentials

PgType ==
    /\ owner \in [Hosts -> [Names -> Roles \cup {None}]]
    /\ roles \in [Hosts -> SUBSET Roles]
    /\ login \in [Hosts -> SUBSET ServiceRoles]
    /\ member \in [Hosts -> SUBSET (Roles \X Roles)]
    /\ schemas \in [Hosts -> SUBSET (Names \X Values)]
    /\ acl \in [Hosts -> SUBSET Entries]
    /\ extensions \in [Hosts -> SUBSET (Names \X Extensions)]

LocalType ==
    /\ queue \subseteq Databases
    /\ pc \in PCs
    /\ res \in Databases \cup {None} /\ snap \in Specs \cup {None} /\ fresh \in BOOLEAN
    /\ host \in Values \cup {NoValue} /\ usr \in Values \cup {NoValue} /\ pwd \in Values
    /\ err \in Errors
    /\ changes \in 0..MaxChanges /\ faults \in 0..MaxFaults

\* A reconcile that has come to an end without an error.
ended == pc \in {"release", "persist"} /\ err = NoErr

\* From Client.Get on there is a resource with a spec, from prepareHost on the host
\* is a server, from resolveUser on there is a user, and the owner is only
\* ever altered for a resource that does not share its database.
WorkerInv ==
    /\ pc # "idle" => res \in Databases /\ snap \in Specs
    /\ pc \in {"resolveUser", "resolvePassword", "release"} \cup Statements \/ ended => host \in Hosts
    /\ pc \in {"resolvePassword", "release"} \cup Statements \/ ended => usr \in Values
    /\ pc = "alterOwner" => ~snap.shared

\* The type invariant, split by who owns the state: API server, PostgreSQL, worker.
LEMMA TypeParts == TypeOK <=> ApiType /\ PgType /\ LocalType
BY DEF TypeOK, ApiType, PgType, LocalType

\* The steps that talk to PostgreSQL, and the others, by what they change.
PgStep == Provision \/ createRolesFails \/ setDefaultPrivilegesFails \/ ensureExtensionsFails \/ release
ReturnStep == Persist \/ PersistFails \/ Restart
OutsideStep == Resync \/ Environment
LocalStep ==
    \/ \E d \in Databases : GetNothing(d) \/ Get(d)
    \/ adminCredentials \/ resolveUser \/ resolvePassword \/ Refused \/ CallFails \/ releaseFails

\* Every step of the specification is of one of these kinds.
LEMMA StepKinds == Next => PgStep \/ ReturnStep \/ OutsideStep \/ LocalStep
BY DEF Next, Worker, Faults, PgStep, ReturnStep, OutsideStep, LocalStep

\* The absence of an error is a value of err.
LEMMA NoErrType == NoErr \in Errors
BY DEF NoErr, Errors, PCs

\* The initial states have their types and an idle worker.
LEMMA InitType == Init => TypeOK /\ WorkerInv
<1> SUFFICES ASSUME Init PROVE TypeOK /\ WorkerInv
  OBVIOUS
<1>1. ApiType
  <2>1. spec \in [Databases -> Specs]
    BY DatabaseControllerAssumption DEF Init
  <2>2. store \in Stores
    BY DatabaseControllerAssumption DEF Init, Stores
  <2>3. NoStatus \in Statuses
    BY NoErrType DEF NoStatus, Statuses
  <2>4. QED BY <2>1, <2>2, <2>3 DEF Init, ApiType
<1>2. PgType
  BY DEF Init, PgType, Roles
<1>3. LocalType
  <2>1. MaxChanges \in Nat /\ MaxFaults \in Nat /\ Empty \in Values
    BY DatabaseControllerAssumption
  <2>2. "idle" \in PCs
    BY DEF PCs
  <2>3. 0 \in 0..MaxChanges /\ 0 \in 0..MaxFaults
    BY <2>1
  <2>4. changes \in 0..MaxChanges /\ faults \in 0..MaxFaults
    BY <2>3 DEF Init
  <2>5. err \in Errors /\ pc \in PCs /\ pwd \in Values
    BY <2>1, <2>2, NoErrType DEF Init
  <2>6. QED BY <2>4, <2>5 DEF Init, LocalType
<1>4. WorkerInv
  BY DEF Init, WorkerInv, ended, Statements, Deferred
<1>5. QED BY <1>1, <1>2, <1>3, <1>4, TypeParts

-----------------------------------------------------------------------------
(* Outcomes of a call.                                                     *)

\* A failing call leaves a well-typed error and a next call.
LEMMA FailsType ==
    ASSUME TypeOK, pc # "idle", NEW kind \in {"invalid", "missing", "unknown"}, Fails(kind)
    PROVE  /\ err' \in Errors /\ err' # NoErr
           /\ pc' \in {"release", "persist"}
           /\ pc' = "release" => pc \in Deferred
<1>1. pc \in PCs
  BY DEF TypeOK
<1>2. err' = [kind |-> kind, at |-> pc]
  BY DEF Fails
<1>3. err' \in Errors
  BY <1>1, <1>2 DEF Errors
<1>4. err' # NoErr
  BY <1>2 DEF NoErr
<1>5. QED BY <1>3, <1>4 DEF Fails

\* The count of faults stays within its bound.
LEMMA FaultType ==
    ASSUME TypeOK, Fault
    PROVE  faults' \in 0..MaxFaults /\ faults' # 0
<1>1. faults \in 0..MaxFaults
  BY DEF TypeOK
<1>2. MaxFaults \in Nat
  BY DatabaseControllerAssumption
<1>3. QED BY <1>1, <1>2 DEF Fault

\* A statement leaves the worker where it was, but for pc and err.
LEMMA RunsType ==
    ASSUME TypeOK, WorkerInv, NEW at \in {"prepareHost"} \cup Statements,
           NEW next \in {"resolveUser", "release"} \cup Statements, Runs(at, next),
           next = "alterOwner" => ~snap.shared,
           at = "prepareHost" => next = "resolveUser",
           next = "resolveUser" => at = "prepareHost"
    PROVE  ApiType' /\ LocalType' /\ WorkerInv'
<1>1. ApiType /\ LocalType
  BY TypeParts
<1>2. pc = at /\ allowed(at) /\ UNCHANGED <<apiVars, queue, localVars, changes>>
  BY DEF Runs
<1>3. ApiType'
  BY <1>1, <1>2 DEF ApiType
<1>4. /\ snap \in Specs /\ res \in Databases /\ host \in Hosts
      /\ at # "prepareHost" => usr \in Values
  <2>1. CASE at = "prepareHost"
    BY <2>1, <1>2, DatabaseControllerAssumption DEF allowed, WorkerInv
  <2>2. CASE at \in Statements
    BY <2>2, <1>2 DEF WorkerInv, Statements, Deferred
  <2>3. QED BY <2>1, <2>2
<1>5. CASE pc' = next /\ UNCHANGED <<err, faults>>
  <2>1. LocalType'
    BY <1>1, <1>2, <1>5 DEF LocalType, PCs, Calls
  <2>2. WorkerInv'
    BY <1>2, <1>4, <1>5 DEF WorkerInv, ended, Statements, Deferred
  <2>3. QED BY <1>3, <2>1, <2>2
<1>6. CASE Fails("unknown") /\ Fault
  <2>0. pc # "idle"
    BY <1>2 DEF Statements, Deferred
  <2>1. /\ err' \in Errors /\ err' # NoErr /\ pc' \in {"release", "persist"}
        /\ pc' = "release" => pc \in Deferred
    BY <2>0, <1>6, FailsType
  <2>2. LocalType'
    BY <1>1, <1>2, <1>6, <2>1, FaultType DEF LocalType, PCs
  <2>3. WorkerInv'
    BY <1>2, <1>4, <2>1 DEF WorkerInv, ended, Statements, Deferred
  <2>4. QED BY <1>3, <2>2, <2>3
<1>7. QED BY <1>5, <1>6 DEF Runs, Answered

\* The same for a statement that fails halfway.
LEMMA PartType ==
    ASSUME TypeOK, WorkerInv, pc \in Statements, Fails("unknown"), Fault,
           UNCHANGED <<apiVars, queue, localVars, changes>>
    PROVE  ApiType' /\ LocalType' /\ WorkerInv'
<1>1. ApiType /\ LocalType
  BY TypeParts
<1>2. pc # "idle" /\ snap \in Specs /\ res \in Databases /\ host \in Hosts /\ usr \in Values
  BY DEF WorkerInv, Statements, Deferred
<1>3. /\ err' \in Errors /\ err' # NoErr /\ pc' \in {"release", "persist"}
  BY <1>2, FailsType
<1>4. ApiType'
  BY <1>1 DEF ApiType
<1>5. LocalType'
  BY <1>1, <1>3, FaultType DEF LocalType, PCs
<1>6. WorkerInv'
  BY <1>2, <1>3 DEF WorkerInv, ended, Statements, Deferred
<1>7. QED BY <1>4, <1>5, <1>6

-----------------------------------------------------------------------------
(* Type correctness.                                                       *)

\* What the statements add to the servers is of the right type.
LEMMA PgValues ==
    /\ \A u \in Values : \A x \in {"service", "read", "readwrite", "readowningwrite"} :
          role(u, x) \in ServiceRoles
    /\ \A u \in Values : service(u) \in ServiceRoles /\ accessRolesOf(u) \subseteq ServiceRoles
    /\ \A n \in Names, v \in Values \cup {NoValue},
          p \in {"connect", "temporary", "usage", "read", "write"} : toPublic(n, v, p) \in Entries
    /\ ServiceRoles \subseteq Roles /\ Admin \in Roles /\ Manager \in Roles
    /\ \A n \in Names : n \in Values
<1>1. \A u \in Values : \A x \in {"service", "read", "readwrite", "readowningwrite"} :
          role(u, x) \in ServiceRoles
  BY DEF role, ServiceRoles
<1>2. \A u \in Values : service(u) \in ServiceRoles /\ accessRolesOf(u) \subseteq ServiceRoles
  BY <1>1 DEF service, accessRolesOf, AccessSuffixes, ServiceRoles
<1>3. \A n \in Names, v \in Values \cup {NoValue},
          p \in {"connect", "temporary", "usage", "read", "write"} : toPublic(n, v, p) \in Entries
  BY DEF toPublic, Entries
<1>4. /\ ServiceRoles \subseteq Roles /\ Admin \in Roles /\ Manager \in Roles
      /\ \A n \in Names : n \in Values
  BY DatabaseControllerAssumption DEF Roles
<1>5. QED BY <1>1, <1>2, <1>3, <1>4

\* What the statements of setDefaultPrivileges write are entries.
LEMMA PrivilegeTypes ==
    ASSUME NEW n \in Names, NEW u \in Values
    PROVE  /\ \A x \in AccessSuffixes, i \in 1..4 : privilege(n, u, x, i) \in Entries
           /\ \A x \in AccessSuffixes : privilegesOf(n, u, x) \subseteq Entries
           /\ UNION {privilegesOf(n, u, x) : x \in AccessSuffixes} \in SUBSET Entries
<1>1. ASSUME NEW x \in AccessSuffixes, NEW i \in 1..4 PROVE privilege(n, u, x, i) \in Entries
  <2>1. role(u, x) \in ServiceRoles
    BY PgValues DEF AccessSuffixes
  <2>2. QED BY <2>1 DEF privilege, Entries
<1>2. \A x \in AccessSuffixes : privilegesOf(n, u, x) \subseteq Entries
  BY <1>1 DEF privilegesOf
<1>3. QED BY <1>1, <1>2

\* So is what they have written when one of them fails.
LEMMA SomePrivileges ==
    ASSUME setDefaultPrivilegesFails, snap.name \in Names, usr \in Values
    PROVE  \E entries \in SUBSET Entries : GrantPrivileges(entries)
<1>1. PICK x \in AccessSuffixes, i \in 1..4 : GrantPrivileges(grantedSoFar(snap.name, usr, x, i))
  BY DEF setDefaultPrivilegesFails
<1>2. servedBefore(x) \subseteq AccessSuffixes
  BY DEF servedBefore, AccessSuffixes
<1>3. \A y \in servedBefore(x) : privilegesOf(snap.name, usr, y) \subseteq Entries
  BY <1>2, PrivilegeTypes
<1>4. \A j \in 1..i : privilege(snap.name, usr, x, j) \in Entries
  BY PrivilegeTypes
<1>5. ASSUME NEW e \in grantedSoFar(snap.name, usr, x, i) PROVE e \in Entries
  <2>1. \/ \E y \in servedBefore(x) : e \in privilegesOf(snap.name, usr, y)
        \/ \E j \in 1..i : e = privilege(snap.name, usr, x, j)
    BY <1>5 DEF grantedSoFar
  <2>2. QED BY <2>1, <1>3, <1>4
<1>6. QED BY <1>1, <1>5

\* The worker's host, user and database name while a statement runs.
LEMMA AtStatement ==
    ASSUME TypeOK, WorkerInv, pc \in Statements \cup {"release"}
    PROVE  /\ host \in Hosts /\ usr \in Values /\ snap \in Specs
           /\ snap.name \in Names /\ snap.extensions \subseteq Extensions /\ snap.shared \in BOOLEAN
<1>1. host \in Hosts /\ usr \in Values /\ snap \in Specs
  BY DEF WorkerInv, Statements, Deferred
<1>2. QED BY <1>1 DEF Specs

\* GRANT of one role to another keeps the type of member.
LEMMA GrantType ==
    ASSUME TypeOK, host \in Hosts, NEW r \in Roles, NEW m \in Roles, Grant(r, m)
    PROVE  member' \in [Hosts -> SUBSET (Roles \X Roles)]
BY DEF TypeOK, Grant

\* Every statement that PostgreSQL runs keeps the types of its catalogs.
LEMMA PgStepType ==
    ASSUME TypeOK, WorkerInv, PgStep
    PROVE  TypeOK' /\ WorkerInv'
<1> USE DEF Statements, Deferred
<1>0. PgType
  BY TypeParts
<1> SUFFICES ApiType' /\ PgType' /\ LocalType' /\ WorkerInv'
  BY DEF TypeOK, ApiType, PgType, LocalType
<1>1. CASE prepareHost
  <2>1. ApiType' /\ LocalType' /\ WorkerInv'
    BY <1>1, RunsType DEF prepareHost
  <2>2. host \in Hosts
    BY <1>1, DatabaseControllerAssumption DEF prepareHost, Runs, allowed
  <2>3. QED BY <1>0, <1>1, <2>1, <2>2, PgValues DEF prepareHost, PgType
<1>2. CASE createDatabase
  <2>1. ApiType' /\ LocalType' /\ WorkerInv'
    BY <1>2, RunsType DEF createDatabase
  <2>2. pc = "createDatabase"
    BY <1>2 DEF createDatabase, Runs
  <2>3. host \in Hosts /\ snap.name \in Names
    BY <2>2, AtStatement
  <2>4. /\ toPublic(snap.name, NoValue, "connect") \in Entries
        /\ toPublic(snap.name, NoValue, "temporary") \in Entries
    BY <2>3, PgValues
  <2>5. owner' \in [Hosts -> [Names -> Roles \cup {None}]]
    BY <1>0, <1>2, <2>3, PgValues DEF createDatabase, PgType
  <2>6. acl' \in [Hosts -> SUBSET Entries]
    BY <1>0, <1>2, <2>3, <2>4 DEF createDatabase, PgType
  <2>7. QED BY <1>0, <1>2, <2>1, <2>5, <2>6 DEF createDatabase, PgType
<1>3. CASE Connect
  <2>1. ApiType' /\ LocalType' /\ WorkerInv'
    BY <1>3, RunsType DEF Connect
  <2>2. QED BY <1>0, <1>3, <2>1 DEF Connect, PgType
<1>4. CASE createServiceRole
  <2>1. ApiType' /\ LocalType' /\ WorkerInv'
    BY <1>4, RunsType DEF createServiceRole
  <2>2. host \in Hosts /\ service(usr) \in Roles
    BY <1>4, AtStatement, PgValues DEF createServiceRole, Runs
  <2>3. QED BY <1>0, <1>4, <2>1, <2>2 DEF createServiceRole, PgType
<1>5. CASE alterServiceRole
  <2>1. ApiType' /\ LocalType' /\ WorkerInv'
    BY <1>5, RunsType DEF alterServiceRole
  <2>2. host \in Hosts /\ service(usr) \in ServiceRoles
    BY <1>5, AtStatement, PgValues DEF alterServiceRole, Runs
  <2>3. QED BY <1>0, <1>5, <2>1, <2>2 DEF alterServiceRole, PgType
<1>6. CASE grantShared
  <2>1. ApiType' /\ LocalType' /\ WorkerInv'
    BY <1>6, RunsType DEF grantShared
  <2>2. host \in Hosts /\ service(usr) \in Roles /\ service(snap.name) \in Roles
    BY <1>6, AtStatement, PgValues DEF grantShared, Runs
  <2>3. member' \in [Hosts -> SUBSET (Roles \X Roles)]
    BY <1>6, <2>2, GrantType DEF grantShared
  <2>4. QED BY <1>0, <1>6, <2>1, <2>3 DEF grantShared, PgType
<1>7. CASE grantAdminOption
  <2>1. ApiType' /\ LocalType' /\ WorkerInv'
    BY <1>7, RunsType DEF grantAdminOption
  <2>2. host \in Hosts /\ service(snap.name) \in Roles
    BY <1>7, AtStatement, PgValues DEF grantAdminOption, Runs
  <2>3. member' \in [Hosts -> SUBSET (Roles \X Roles)]
    BY <1>0, <1>7, <2>2, GrantType, PgValues DEF grantAdminOption, PgType
  <2>4. QED BY <1>0, <1>7, <2>1, <2>3 DEF grantAdminOption, PgType
<1>8. CASE createRoles
  <2>1. ApiType' /\ LocalType' /\ WorkerInv'
    BY <1>8, RunsType DEF createRoles
  <2>2. host \in Hosts /\ accessRolesOf(usr) \subseteq Roles
    BY <1>8, AtStatement, PgValues DEF createRoles, Runs
  <2>3. QED BY <1>0, <1>8, <2>1, <2>2 DEF createRoles, PgType
<1>9. CASE createRolesFails
  <2>1. ApiType' /\ LocalType' /\ WorkerInv'
    BY <1>9, PartType DEF createRolesFails
  <2>2. host \in Hosts /\ accessRolesOf(usr) \subseteq Roles
    BY <1>9, AtStatement, PgValues DEF createRolesFails
  <2>3. QED BY <1>0, <1>9, <2>1, <2>2 DEF createRolesFails, PgType
<1>10. CASE grantCurrentUser
  <2>1. ApiType' /\ LocalType' /\ WorkerInv'
    BY <1>10, RunsType DEF grantCurrentUser
  <2>2. host \in Hosts /\ service(usr) \in Roles
    BY <1>10, AtStatement, PgValues DEF grantCurrentUser, Runs
  <2>3. member' \in [Hosts -> SUBSET (Roles \X Roles)]
    BY <1>10, <2>2, GrantType, PgValues DEF grantCurrentUser
  <2>4. QED BY <1>0, <1>10, <2>1, <2>3 DEF grantCurrentUser, PgType
<1>11. CASE alterOwner
  <2>1. ApiType' /\ LocalType' /\ WorkerInv'
    BY <1>11, RunsType DEF alterOwner
  <2>2. host \in Hosts /\ snap.name \in Names /\ service(usr) \in Roles
    BY <1>11, AtStatement, PgValues DEF alterOwner, Runs
  <2>3. QED BY <1>0, <1>11, <2>1, <2>2 DEF alterOwner, PgType
<1>12. CASE grantOwningWrite
  <2>1. ApiType' /\ LocalType' /\ WorkerInv'
    BY <1>12, RunsType DEF grantOwningWrite
  <2>2. host \in Hosts /\ service(usr) \in Roles /\ role(usr, "readowningwrite") \in Roles
    BY <1>12, AtStatement, PgValues DEF grantOwningWrite, Runs
  <2>3. member' \in [Hosts -> SUBSET (Roles \X Roles)]
    BY <1>12, <2>2, GrantType DEF grantOwningWrite
  <2>4. QED BY <1>0, <1>12, <2>1, <2>3 DEF grantOwningWrite, PgType
<1>13. CASE createSchemaAs
  <2>1. ApiType' /\ LocalType' /\ WorkerInv'
    BY <1>13, RunsType DEF createSchemaAs
  <2>2. host \in Hosts /\ snap.name \in Names /\ usr \in Values
    BY <1>13, AtStatement DEF createSchemaAs, Runs
  <2>3. QED BY <1>0, <1>13, <2>1, <2>2 DEF createSchemaAs, PgType
<1>14. ASSUME NEW entries \in SUBSET Entries, GrantPrivileges(entries),
              pc = "setDefaultPrivileges"
       PROVE  PgType'
  <2>1. host \in Hosts
    BY <1>14, AtStatement
  <2>2. acl' \in [Hosts -> SUBSET Entries]
    BY <1>0, <1>14, <2>1 DEF GrantPrivileges, PgType
  <2>3. QED BY <1>0, <1>14, <2>2 DEF GrantPrivileges, PgType
<1>15. CASE setDefaultPrivileges
  <2>1. ApiType' /\ LocalType' /\ WorkerInv'
    BY <1>15, RunsType DEF setDefaultPrivileges
  <2>2. snap.name \in Names /\ usr \in Values
    BY <1>15, AtStatement DEF setDefaultPrivileges, Runs
  <2>3. UNION {privilegesOf(snap.name, usr, x) : x \in AccessSuffixes} \in SUBSET Entries
    BY <2>2, PrivilegeTypes
  <2>4. PgType'
    BY <1>14, <1>15, <2>3 DEF setDefaultPrivileges, Runs
  <2>5. QED BY <2>1, <2>4
<1>16. CASE setDefaultPrivilegesFails
  <2>1. ApiType' /\ LocalType' /\ WorkerInv'
    BY <1>16, PartType DEF setDefaultPrivilegesFails
  <2>2. snap.name \in Names /\ usr \in Values
    BY <1>16, AtStatement DEF setDefaultPrivilegesFails
  <2>3. PICK entries \in SUBSET Entries : GrantPrivileges(entries)
    BY <1>16, <2>2, SomePrivileges
  <2>4. PgType'
    BY <1>14, <1>16, <2>3 DEF setDefaultPrivilegesFails
  <2>5. QED BY <2>1, <2>4
<1>17. CASE revokeAllOnPublic
  <2>1. ApiType' /\ LocalType' /\ WorkerInv'
    BY <1>17, RunsType DEF revokeAllOnPublic
  <2>2. host \in Hosts
    BY <1>17, AtStatement DEF revokeAllOnPublic, Runs
  <2>3. QED BY <1>0, <1>17, <2>1, <2>2 DEF revokeAllOnPublic, PgType
<1>18. CASE grantConnect
  <2>1. ApiType' /\ LocalType' /\ WorkerInv'
    BY <1>18, RunsType DEF grantConnect
  <2>2. host \in Hosts /\ toPublic(snap.name, NoValue, "connect") \in Entries
    BY <1>18, AtStatement, PgValues DEF grantConnect, Runs
  <2>3. QED BY <1>0, <1>18, <2>1, <2>2 DEF grantConnect, GrantToPublic, PgType
<1>19. CASE grantUsage
  <2>1. ApiType' /\ LocalType' /\ WorkerInv'
    BY <1>19, RunsType DEF grantUsage
  <2>2. host \in Hosts /\ toPublic(snap.name, usr, "usage") \in Entries
    BY <1>19, AtStatement, PgValues DEF grantUsage, Runs
  <2>3. QED BY <1>0, <1>19, <2>1, <2>2 DEF grantUsage, GrantToPublic, PgType
<1>20. ASSUME NEW some \in SUBSET toInstall, installExtensions(some), pc = "ensureExtensions"
       PROVE  PgType'
  <2>1. host \in Hosts /\ snap.name \in Names /\ some \subseteq Extensions
    BY <1>20, AtStatement DEF toInstall
  <2>2. QED BY <1>0, <1>20, <2>1 DEF installExtensions, PgType
<1>21. CASE ensureExtensions
  <2>1. ApiType' /\ LocalType' /\ WorkerInv'
    BY <1>21, RunsType DEF ensureExtensions
  <2>2. QED BY <1>20, <1>21, <2>1 DEF ensureExtensions, Runs
<1>22. CASE ensureExtensionsFails
  <2>1. ApiType' /\ LocalType' /\ WorkerInv'
    BY <1>22, PartType DEF ensureExtensionsFails
  <2>2. QED BY <1>20, <1>22, <2>1 DEF ensureExtensionsFails
<1>23. CASE release
  <2>1. host \in Hosts /\ usr \in Values /\ snap \in Specs /\ res \in Databases
    BY <1>23 DEF release, WorkerInv
  <2>2. ApiType' /\ LocalType'
    BY <1>23, TypeParts DEF release, ApiType, LocalType, PCs
  <2>3. WorkerInv'
    BY <1>23, <2>1 DEF release, WorkerInv, ended
  <2>4. QED BY <1>0, <1>23, <2>1, <2>2, <2>3 DEF release, PgType
<1>24. QED
  BY <1>1, <1>2, <1>3, <1>4, <1>5, <1>6, <1>7, <1>8, <1>9, <1>10, <1>11, <1>12, <1>13, <1>15,
     <1>16, <1>17, <1>18, <1>19, <1>21, <1>22, <1>23 DEF PgStep, Provision

\* A reconcile that ends, in whichever way, leaves nothing behind in the worker.
LEMMA ReturnStepType ==
    ASSUME TypeOK, WorkerInv, ReturnStep
    PROVE  TypeOK' /\ WorkerInv' /\ pc' = "idle" /\ UNCHANGED pgVars
<1>0. ApiType /\ PgType /\ LocalType
  BY TypeParts
<1>1. /\ pc' = "idle" /\ res' = None /\ snap' = None /\ fresh' = FALSE
      /\ host' = NoValue /\ usr' = NoValue /\ pwd' = Empty /\ err' = NoErr
      /\ UNCHANGED <<pgVars, changes>>
  BY DEF ReturnStep, Persist, PersistFails, Restart, Return
<1>2. faults' \in 0..MaxFaults
  <2>1. faults \in 0..MaxFaults
    BY DEF TypeOK
  <2>2. UNCHANGED faults \/ Fault
    BY DEF ReturnStep, Persist, PersistFails, Restart
  <2>3. QED BY <2>1, <2>2, FaultType
<1>3. queue' \subseteq Databases
  <2>1. CASE Restart
    BY <2>1, <1>0 DEF Restart, ApiType
  <2>2. CASE Persist \/ PersistFails
    <3>1. res \in Databases
      BY <2>2 DEF Persist, PersistFails, WorkerInv
    <3>2. queue' \subseteq queue \cup {res}
      BY <2>2 DEF Persist, PersistFails, Return
    <3>3. QED BY <3>1, <3>2, <1>0 DEF LocalType
  <2>3. QED BY <2>1, <2>2 DEF ReturnStep
<1>4. LocalType'
  <2>1. Empty \in Values /\ "idle" \in PCs
    BY DatabaseControllerAssumption DEF PCs
  <2>2. QED BY <2>1, <1>0, <1>1, <1>2, <1>3, NoErrType DEF LocalType
<1>5. ApiType'
  <2>1. CASE UNCHANGED apiVars
    BY <2>1, <1>0 DEF ApiType
  <2>2. CASE Persist
    <3>1. /\ host \in Values \cup {NoValue} /\ usr \in Values \cup {NoValue} /\ err \in Errors
          /\ phaseOf(err) \in {"Unset", "Failed", "Invalid", "Running"}
      BY <1>0 DEF LocalType, phaseOf
    <3>2. [phase |-> phaseOf(err), host |-> host, user |-> usr, err |-> err] \in Statuses
      BY <3>1 DEF Statuses
    <3>3. status' \in [Databases -> Statuses]
      BY <3>2, <2>2, <1>0 DEF Persist, ApiType
    <3>4. QED BY <3>3, <2>2, <1>0 DEF Persist, ApiType
  <2>3. QED BY <2>1, <2>2 DEF ReturnStep, PersistFails, Restart
<1>6. PgType'
  BY <1>0, <1>1 DEF PgType
<1>7. WorkerInv'
  BY <1>1 DEF WorkerInv, ended, Statements, Deferred
<1>8. TypeOK'
  BY <1>4, <1>5, <1>6 DEF TypeOK, ApiType, PgType, LocalType
<1>9. QED BY <1>1, <1>7, <1>8

\* Changes from outside reach the worker only through fresh and the work queue.
LEMMA OutsideStepType ==
    ASSUME TypeOK, WorkerInv, OutsideStep
    PROVE  /\ TypeOK' /\ WorkerInv'
           /\ UNCHANGED <<pgVars, pc, res, snap, host, usr, pwd, err, faults>>
<1>0. ApiType /\ PgType /\ LocalType
  BY TypeParts
<1>1. UNCHANGED <<pgVars, pc, res, snap, host, usr, pwd, err, faults>>
  BY DEF OutsideStep, Resync, Environment, DeleteResource, CreateResource, EditResource,
         ChangeSource, ChangeCredentials, Touch
<1>2. /\ queue' \subseteq Databases /\ fresh' \in BOOLEAN
  BY <1>0 DEF OutsideStep, Resync, Environment, DeleteResource, CreateResource, EditResource,
         ChangeSource, ChangeCredentials, Touch, LocalType, ApiType
<1>3. changes' \in 0..MaxChanges
  <2>1. UNCHANGED changes \/ Change
    BY DEF OutsideStep, Resync, Environment, DeleteResource, CreateResource, EditResource,
         ChangeSource, ChangeCredentials
  <2>2. changes \in 0..MaxChanges
    BY DEF TypeOK
  <2>3. MaxChanges \in Nat
    BY DatabaseControllerAssumption
  <2>4. QED BY <2>1, <2>2, <2>3 DEF Change
<1>4. LocalType'
  BY <1>0, <1>1, <1>2, <1>3 DEF LocalType
<1>5. ApiType'
  <2>1. NoStatus \in Statuses
    BY NoErrType DEF NoStatus, Statuses
  <2>2. \A d \in Databases : SpecChoices[d] \subseteq Specs
    BY DatabaseControllerAssumption
  <2>3. \A x \in Sources : StoreChoices[x] \subseteq Values \cup {Missing}
    BY DatabaseControllerAssumption
  <2>4. CASE Resync
    BY <2>4, <1>0 DEF Resync, ApiType
  <2>5. ASSUME NEW d \in Databases, DeleteResource(d) PROVE ApiType'
    BY <2>5, <1>0 DEF DeleteResource, ApiType
  <2>6. ASSUME NEW d \in Databases, NEW x \in SpecChoices[d], CreateResource(d, x) PROVE ApiType'
    BY <2>6, <2>1, <2>2, <1>0 DEF CreateResource, ApiType
  <2>7. ASSUME NEW d \in Databases, NEW x \in SpecChoices[d], EditResource(d, x) PROVE ApiType'
    BY <2>7, <2>2, <1>0 DEF EditResource, ApiType
  <2>8. ASSUME NEW x \in Sources, NEW v \in StoreChoices[x], ChangeSource(x, v) PROVE ApiType'
    <3>1. store' \in Stores
      BY <2>8, <2>3, <1>0 DEF ChangeSource, ApiType, Stores
    <3>2. QED BY <2>8, <3>1, <1>0 DEF ChangeSource, ApiType
  <2>9. ASSUME NEW c \in Credentials, ChangeCredentials(c) PROVE ApiType'
    BY <2>9, <1>0 DEF ChangeCredentials, ApiType
  <2>10. QED BY <2>4, <2>5, <2>6, <2>7, <2>8, <2>9 DEF OutsideStep, Environment
<1>6. PgType'
  BY <1>0, <1>1 DEF PgType
<1>7. WorkerInv'
  BY <1>1 DEF WorkerInv, ended
<1>8. TypeOK'
  BY <1>4, <1>5, <1>6 DEF TypeOK, ApiType, PgType, LocalType
<1>9. QED BY <1>1, <1>7, <1>8

\* What a reference resolves to, and the error that it stands for.
LEMMA ReferenceType ==
    ASSUME NEW st \in Stores, NEW ref \in Refs
    PROVE  /\ ResourceValue(st, ref) \in Values \cup {NoValue, Missing}
           /\ errorOf(ResourceValue(st, ref)) = "none" => ResourceValue(st, ref) \in Values
BY KubeAssumption DEF Stores, Refs, ResourceValue, errorOf

\* errorOf returns a kind of error.
LEMMA ErrorOfType ==
    \A v : errorOf(v) \in {"none", "invalid", "missing"}
BY DEF errorOf

\* remoteCredentials returns a host or none, and a kind of error.
LEMMA RemoteType ==
    ASSUME TypeOK, NEW c \in Credentials
    PROVE  /\ remoteCredentials(c).host \in Values \cup {NoValue}
           /\ remoteCredentials(c).kind \in {"none", "invalid", "missing", "unknown"}
<1>1. store \in Stores /\ CredentialSpecs[c] \in [host : Refs, user : Refs, password : Refs]
  BY DatabaseControllerAssumption DEF TypeOK
<1>2. CredentialSpecs[c]["host"] \in Refs
  BY <1>1
<1>3. errorOf(ResourceValue(store, CredentialSpecs[c]["host"])) = "none" =>
          ResourceValue(store, CredentialSpecs[c]["host"]) \in Values
  BY <1>1, <1>2, ReferenceType
<1>4. QED BY <1>3, ErrorOfType DEF remoteCredentials

\* So does adminCredentials, whichever way the host is given.
LEMMA CredentialsType ==
    ASSUME TypeOK, NEW x \in Specs
    PROVE  /\ credentialsFor(x).host \in Values \cup {NoValue}
           /\ credentialsFor(x).kind \in {"none", "invalid", "missing", "unknown"}
<1>1. x.host \in Refs /\ x.hostCredentials \in Credentials \cup {NoValue}
  BY DEF Specs
<1>2. x.hostCredentials # NoValue =>
          /\ remoteCredentials(x.hostCredentials).host \in Values \cup {NoValue}
          /\ remoteCredentials(x.hostCredentials).kind \in {"none", "invalid", "missing", "unknown"}
  BY <1>1, RemoteType
<1>3. HostCredentials \subseteq Values
  BY DatabaseControllerAssumption
<1> DEFINE h == ResourceValue(store, x.host)
<1>4. CASE h = Missing
  <2>1. Missing \notin {NoValue, Empty}
    BY KubeAssumption, DatabaseControllerAssumption
  <2>2. credentialsFor(x) = [host |-> NoValue, kind |-> "missing"]
    BY <1>4, <2>1 DEF credentialsFor
  <2>3. QED BY <2>2
<1>5. CASE h # Missing /\ h \in {NoValue, Empty} /\ x.hostCredentials # NoValue
  <2>1. credentialsFor(x) = remoteCredentials(x.hostCredentials)
    BY <1>5 DEF credentialsFor
  <2>2. QED BY <2>1, <1>2, <1>5
<1>6. CASE h # Missing /\ ~(h \in {NoValue, Empty} /\ x.hostCredentials # NoValue)
  <2>1. CASE h \notin {NoValue, Empty} /\ x.hostCredentials = NoValue /\ h \in HostCredentials
    <3>1. credentialsFor(x) = [host |-> h, kind |-> "none"]
      BY <2>1, <1>6 DEF credentialsFor
    <3>2. QED BY <3>1, <2>1, <1>3
  <2>2. CASE ~(h \notin {NoValue, Empty} /\ x.hostCredentials = NoValue /\ h \in HostCredentials)
    <3>1. credentialsFor(x) = [host |-> NoValue, kind |-> "invalid"]
      BY <2>2, <1>6 DEF credentialsFor
    <3>2. QED BY <3>1
  <2>3. QED BY <2>1, <2>2
<1>7. QED BY <1>4, <1>5, <1>6

\* Steps of the worker that run no statement keep the types.
LEMMA LocalStepType ==
    ASSUME TypeOK, WorkerInv, LocalStep
    PROVE  TypeOK' /\ WorkerInv' /\ UNCHANGED pgVars
<1>0. ApiType /\ PgType /\ LocalType
  BY TypeParts
<1>1. UNCHANGED <<apiVars, pgVars, changes>>
  BY DEF LocalStep, GetNothing, Get, adminCredentials, resolveUser, resolvePassword, Refused, CallFails,
         releaseFails
<1>2. ApiType' /\ PgType'
  BY <1>0, <1>1 DEF ApiType, PgType
<1> SUFFICES LocalType' /\ WorkerInv'
  BY <1>1, <1>2 DEF TypeOK, ApiType, PgType, LocalType
<1>3. ASSUME NEW d \in Databases, GetNothing(d) PROVE LocalType' /\ WorkerInv'
  BY <1>3, <1>0 DEF GetNothing, LocalType, WorkerInv, ended
<1>4. ASSUME NEW d \in Databases, Get(d) PROVE LocalType' /\ WorkerInv'
  <2>1. spec[d] \in Specs
    BY <1>0 DEF ApiType
  <2>2. LocalType'
    BY <1>4, <2>1, <1>0 DEF Get, LocalType, PCs, Calls
  <2>3. WorkerInv'
    BY <1>4, <2>1 DEF Get, WorkerInv, ended, Statements, Deferred
  <2>4. QED BY <2>2, <2>3
<1>5. CASE adminCredentials
  <2>1. pc = "adminCredentials" /\ snap \in Specs /\ res \in Databases
    BY <1>5 DEF adminCredentials, WorkerInv
  <2>2. /\ host' \in Values \cup {NoValue}
        /\ credentialsFor(snap).kind \in {"none", "invalid", "missing", "unknown"}
    BY <1>5, <2>1, CredentialsType DEF adminCredentials
  <2>3. CASE credentialsFor(snap).kind = "none"
    <3>1. pc' = "prepareHost" /\ UNCHANGED <<queue, res, snap, fresh, usr, pwd, err, faults>>
      BY <1>5, <2>3 DEF adminCredentials
    <3>2. LocalType'
      BY <3>1, <2>2, <1>0, <1>1 DEF LocalType, PCs, Calls
    <3>3. WorkerInv'
      BY <3>1, <2>1 DEF WorkerInv, ended, Statements, Deferred
    <3>4. QED BY <3>2, <3>3
  <2>4. CASE credentialsFor(snap).kind # "none"
    <3>1. Fails(credentialsFor(snap).kind) /\ UNCHANGED <<queue, res, snap, fresh, usr, pwd, faults>>
      BY <1>5, <2>4 DEF adminCredentials
    <3>2. err' \in Errors /\ err' # NoErr /\ pc' = "persist"
      BY <3>1, <2>1, <2>2, <2>4, FailsType DEF Deferred
    <3>3. LocalType'
      BY <3>1, <3>2, <2>2, <1>0, <1>1 DEF LocalType, PCs
    <3>4. WorkerInv'
      BY <3>1, <3>2, <2>1 DEF WorkerInv, ended, Statements, Deferred
    <3>5. QED BY <3>3, <3>4
  <2>5. QED BY <2>3, <2>4
<1>6. CASE resolveUser
  <2>1. /\ pc = "resolveUser" /\ snap \in Specs /\ res \in Databases /\ host \in Hosts
        /\ pc' = "resolvePassword" /\ UNCHANGED <<queue, res, snap, fresh, host, pwd, err, faults>>
    BY <1>6 DEF resolveUser, WorkerInv
  <2>2. snap.user \in Refs /\ snap.name \in Values /\ store \in Stores
    BY <2>1, <1>0, DatabaseControllerAssumption DEF Specs, ApiType
  <2>3. usr' \in Values
    <3>1. resolves(store, snap.user) => ResourceValue(store, snap.user) \in Values
      BY <2>2, ReferenceType DEF resolves
    <3>2. QED BY <3>1, <2>2, <1>6 DEF resolveUser, userFor
  <2>4. LocalType'
    BY <2>1, <2>3, <1>0, <1>1 DEF LocalType, PCs, Calls
  <2>5. WorkerInv'
    BY <2>1, <2>3 DEF WorkerInv, ended, Statements, Deferred
  <2>6. QED BY <2>4, <2>5
<1>6a. CASE resolvePassword
  <2>1. /\ pc = "resolvePassword" /\ snap \in Specs /\ res \in Databases
        /\ host \in Hosts /\ usr \in Values
    BY <1>6a DEF resolvePassword, WorkerInv
  <2>2. store \in Stores /\ snap.password \in Refs \cup {NoValue} /\ Empty \in Values
    BY <2>1, <1>0, DatabaseControllerAssumption DEF Specs, ApiType
  <2>4. errorOf(passwordFor(snap)) = "none" => passwordFor(snap) \in Values
    BY <2>2, ReferenceType DEF passwordFor
  <2>5. CASE errorOf(passwordFor(snap)) = "none"
    <3>1. /\ pwd' \in Values /\ pc' = "createDatabase"
          /\ UNCHANGED <<queue, res, snap, fresh, host, usr, err, faults>>
      BY <1>6a, <2>4, <2>5 DEF resolvePassword
    <3>2. LocalType'
      BY <3>1, <1>0, <1>1 DEF LocalType, PCs, Calls, Statements
    <3>3. WorkerInv'
      BY <3>1, <2>1 DEF WorkerInv, ended, Statements, Deferred
    <3>4. QED BY <3>2, <3>3
  <2>6. CASE errorOf(passwordFor(snap)) # "none"
    <3>1. /\ Fails(errorOf(passwordFor(snap)))
          /\ UNCHANGED <<queue, res, snap, fresh, host, usr, pwd, faults>>
      BY <1>6a, <2>6 DEF resolvePassword
    <3>2. errorOf(passwordFor(snap)) \in {"invalid", "missing", "unknown"}
      BY <2>6, ErrorOfType
    <3>3. err' \in Errors /\ err' # NoErr /\ pc' = "persist"
      BY <3>1, <3>2, <2>1, FailsType DEF Deferred
    <3>4. LocalType'
      BY <3>1, <3>3, <1>0, <1>1 DEF LocalType, PCs
    <3>5. WorkerInv'
      BY <3>1, <3>3, <2>1 DEF WorkerInv, ended, Statements, Deferred
    <3>6. QED BY <3>4, <3>5
  <2>7. QED BY <2>5, <2>6
<1>7. CASE Refused \/ CallFails
  <2>1. /\ pc # "idle" /\ Fails("unknown") /\ UNCHANGED <<queue, localVars>>
        /\ UNCHANGED faults \/ Fault
    BY <1>7 DEF Refused, CallFails, Calls, Statements, Deferred
  <2>2. /\ err' \in Errors /\ err' # NoErr /\ pc' \in {"release", "persist"}
        /\ pc' = "release" => pc \in Deferred
    BY <2>1, FailsType
  <2>3. faults' \in 0..MaxFaults
    BY <2>1, <1>0, FaultType DEF LocalType
  <2>4. LocalType'
    BY <2>1, <2>2, <2>3, <1>0, <1>1 DEF LocalType, PCs
  <2>5. WorkerInv'
    BY <2>1, <2>2 DEF WorkerInv, ended, Statements, Deferred
  <2>6. QED BY <2>4, <2>5
<1>8. CASE releaseFails
  <2>1. pc = "release" /\ pc' = "persist" /\ UNCHANGED <<queue, localVars, err>>
    BY <1>8 DEF releaseFails
  <2>2. faults' \in 0..MaxFaults
    BY <1>8, FaultType DEF releaseFails
  <2>3. LocalType'
    BY <2>1, <2>2, <1>0, <1>1 DEF LocalType, PCs
  <2>4. WorkerInv'
    BY <2>1 DEF WorkerInv, ended, Statements, Deferred
  <2>5. QED BY <2>3, <2>4
<1>9. QED BY <1>3, <1>4, <1>5, <1>6, <1>6a, <1>7, <1>8 DEF LocalStep

\* Every step keeps the types and what the worker knows of itself.
LEMMA TypeNext == TypeOK /\ WorkerInv /\ [Next]_vars => TypeOK' /\ WorkerInv'
<1> SUFFICES ASSUME TypeOK, WorkerInv, [Next]_vars PROVE TypeOK' /\ WorkerInv'
  OBVIOUS
<1>1. CASE UNCHANGED vars
  BY <1>1 DEF vars, TypeOK, WorkerInv, ended
<1>2. CASE Next
  BY <1>2, StepKinds, PgStepType, ReturnStepType, OutsideStepType, LocalStepType
<1>3. QED BY <1>1, <1>2

\* Every variable keeps its type, and the worker never runs a statement without a
\* host, a user and a spec (reconcile resolves before it provisions).
THEOREM DatabaseTypeCorrect == Spec => []TypeOK
<1>1. Init => TypeOK /\ WorkerInv
  BY InitType
<1>2. TypeOK /\ WorkerInv /\ [Next]_vars => (TypeOK /\ WorkerInv)'
  BY TypeNext
<1>3. QED BY <1>1, <1>2, PTL DEF Spec

-----------------------------------------------------------------------------
(* Roles, memberships and entries.                                         *)

Inductive == TypeOK /\ WorkerInv

\* What a step may do to the memberships: add one of the five that Database
\* grants, or let the admin go.
Memberships ==
    \/ UNCHANGED member
    \/ /\ host \in Hosts /\ usr \in Values /\ snap.name \in Values
       /\ \/ pc = "grantShared" /\ Grant(service(snap.name), service(usr))
          \/ pc = "grantAdminOption" /\ Grant(service(snap.name), Manager)
          \/ pc = "grantCurrentUser" /\ Grant(service(usr), Admin)
          \/ pc = "grantOwningWrite" /\ Grant(service(usr), role(usr, "readowningwrite"))
          \/ pc = "release" /\ member' = [member EXCEPT ![host] = @ \ {<<service(usr), Admin>>}]

\* What a step may do to the entries: add some, or take PUBLIC's away.
AccessEntries ==
    \/ UNCHANGED acl
    \/ /\ host \in Hosts
       /\ \/ \E more \in SUBSET Entries : acl' = [acl EXCEPT ![host] = @ \cup more]
          \/ acl' = [acl EXCEPT ![host] =
                        {e \in @ : ~(e.to = Public /\ e.db = snap.name /\ e.schema = NoValue)}]

\* Roles, schemas and extensions are only ever added.
OnlyAdds ==
    \A h \in Hosts : roles[h] \subseteq roles'[h] /\ schemas[h] \subseteq schemas'[h]
                        /\ extensions[h] \subseteq extensions'[h]

\* What any one step may do to memberships, entries and catalogs.
LEMMA EveryStep ==
    ASSUME Inductive, [Next]_vars
    PROVE  Memberships /\ AccessEntries /\ OnlyAdds
<1>0. TypeOK /\ WorkerInv
  BY DEF Inductive
<1>1. CASE UNCHANGED pgVars
  BY <1>1 DEF Memberships, AccessEntries, OnlyAdds
<1>2. CASE PgStep
  <2>0. /\ pc \in {"prepareHost", "release"} \cup Statements
        /\ pc # "prepareHost" => host \in Hosts /\ usr \in Values /\ snap.name \in Names
        /\ \A n \in Names : n \in Values
        /\ roles \in [Hosts -> SUBSET Roles]
        /\ schemas \in [Hosts -> SUBSET (Names \X Values)]
        /\ extensions \in [Hosts -> SUBSET (Names \X Extensions)]
    <3>1. pc \in {"prepareHost", "release"} \cup Statements
      BY <1>2 DEF PgStep, Provision, prepareHost, createDatabase, Connect, createServiceRole,
         alterServiceRole, grantShared, grantAdminOption, createRoles, grantCurrentUser,
         alterOwner, grantOwningWrite, createSchemaAs, setDefaultPrivileges, revokeAllOnPublic,
         grantConnect, grantUsage, ensureExtensions, createRolesFails,
         setDefaultPrivilegesFails, ensureExtensionsFails, release, Runs, Statements, Deferred
    <3>2. QED BY <3>1, <1>0, AtStatement, PgValues DEF TypeOK
  <2>1. Memberships
    <3>1. CASE UNCHANGED member
      BY <3>1 DEF Memberships
    <3>2. CASE grantShared \/ grantAdminOption \/ grantCurrentUser \/ grantOwningWrite \/ release
      BY <3>2, <2>0 DEF Memberships, grantShared, grantAdminOption, grantCurrentUser,
         grantOwningWrite, release, Runs
    <3>3. QED BY <1>2, <3>1, <3>2 DEF PgStep, Provision, prepareHost, createDatabase, Connect,
         createServiceRole, alterServiceRole, createRoles, alterOwner, createSchemaAs,
         setDefaultPrivileges, revokeAllOnPublic, grantConnect, grantUsage, ensureExtensions,
         createRolesFails, setDefaultPrivilegesFails, ensureExtensionsFails, GrantPrivileges,
         GrantToPublic, installExtensions
  <2>2. AccessEntries
    <3>1. CASE UNCHANGED acl
      BY <3>1 DEF AccessEntries
    <3>2. CASE createDatabase
      <4>1. pc # "prepareHost"
        BY <3>2 DEF createDatabase, Runs
      <4>2. {toPublic(snap.name, NoValue, "connect"), toPublic(snap.name, NoValue, "temporary")}
               \in SUBSET Entries
        BY <4>1, <2>0 DEF toPublic, Entries
      <4>3. UNCHANGED acl \/ acl' = [acl EXCEPT ![host] =
               @ \cup {toPublic(snap.name, NoValue, "connect"), toPublic(snap.name, NoValue, "temporary")}]
        BY <3>2 DEF createDatabase
      <4>4. QED BY <4>1, <4>2, <4>3, <2>0 DEF AccessEntries
    <3>3. CASE grantConnect \/ grantUsage
      <4>1. pc # "prepareHost"
        BY <3>3 DEF grantConnect, grantUsage, Runs
      <4>2. PICK v \in {<<NoValue, "connect">>, <<usr, "usage">>} : GrantToPublic(v[1], v[2])
        BY <3>3 DEF grantConnect, grantUsage
      <4>3. {toPublic(snap.name, v[1], v[2])} \in SUBSET Entries
        BY <4>1, <2>0 DEF toPublic, Entries
      <4>4. acl' = [acl EXCEPT ![host] = @ \cup {toPublic(snap.name, v[1], v[2])}]
        BY <4>2 DEF GrantToPublic
      <4>5. QED BY <4>1, <4>3, <4>4, <2>0 DEF AccessEntries
    <3>4. CASE setDefaultPrivileges \/ setDefaultPrivilegesFails
      <4>1. pc # "prepareHost"
        BY <3>4 DEF setDefaultPrivileges, setDefaultPrivilegesFails, Runs
      <4>2. PICK entries \in SUBSET Entries : GrantPrivileges(entries)
        BY <3>4, <4>1, <2>0, PrivilegeTypes, SomePrivileges DEF setDefaultPrivileges
      <4>3. QED BY <4>1, <4>2, <2>0 DEF AccessEntries, GrantPrivileges
    <3>5. CASE revokeAllOnPublic
      BY <3>5, <2>0 DEF AccessEntries, revokeAllOnPublic, Runs
    <3>6. QED BY <1>2, <3>1, <3>2, <3>3, <3>4, <3>5 DEF PgStep, Provision, prepareHost, Connect,
         createServiceRole, alterServiceRole, grantShared, grantAdminOption, createRoles,
         grantCurrentUser, alterOwner, grantOwningWrite, createSchemaAs, ensureExtensions,
         createRolesFails, ensureExtensionsFails, release, installExtensions
  <2>3. OnlyAdds
    <3>1. \A h \in Hosts : roles[h] \subseteq roles'[h]
      BY <1>2, <2>0 DEF PgStep, Provision, prepareHost, createDatabase, Connect, createServiceRole,
         alterServiceRole, grantShared, grantAdminOption, createRoles, grantCurrentUser,
         alterOwner, grantOwningWrite, createSchemaAs, setDefaultPrivileges, revokeAllOnPublic,
         grantConnect, grantUsage, ensureExtensions, createRolesFails,
         setDefaultPrivilegesFails, ensureExtensionsFails, release, GrantPrivileges,
         GrantToPublic, installExtensions
    <3>2. \A h \in Hosts : schemas[h] \subseteq schemas'[h]
      BY <1>2, <2>0 DEF PgStep, Provision, prepareHost, createDatabase, Connect, createServiceRole,
         alterServiceRole, grantShared, grantAdminOption, createRoles, grantCurrentUser,
         alterOwner, grantOwningWrite, createSchemaAs, setDefaultPrivileges, revokeAllOnPublic,
         grantConnect, grantUsage, ensureExtensions, createRolesFails,
         setDefaultPrivilegesFails, ensureExtensionsFails, release, GrantPrivileges,
         GrantToPublic, installExtensions
    <3>3. \A h \in Hosts : extensions[h] \subseteq extensions'[h]
      BY <1>2, <2>0 DEF PgStep, Provision, prepareHost, createDatabase, Connect, createServiceRole,
         alterServiceRole, grantShared, grantAdminOption, createRoles, grantCurrentUser,
         alterOwner, grantOwningWrite, createSchemaAs, setDefaultPrivileges, revokeAllOnPublic,
         grantConnect, grantUsage, ensureExtensions, createRolesFails,
         setDefaultPrivilegesFails, ensureExtensionsFails, release, GrantPrivileges,
         GrantToPublic, installExtensions
    <3>4. QED BY <3>1, <3>2, <3>3 DEF OnlyAdds
  <2>4. QED BY <2>1, <2>2, <2>3
<1>3. QED
  <2>1. CASE UNCHANGED vars
    BY <2>1, <1>1 DEF vars
  <2>2. CASE Next
    BY <2>2, <1>0, <1>1, <1>2, StepKinds, ReturnStepType, OutsideStepType, LocalStepType
  <2>3. QED BY <2>1, <2>2

\* The inductive invariant holds in every behaviour.
LEMMA InductiveInvariant == Spec => []Inductive
<1>1. Init => Inductive
  BY InitType DEF Inductive
<1>2. Inductive /\ [Next]_vars => Inductive'
  BY TypeNext DEF Inductive
<1>3. QED BY <1>1, <1>2, PTL DEF Spec

\* Nothing that was set up for a service is taken away again, by whatever sequence
\* of reconciles, failures and restarts.
THEOREM NothingTakenAway == Spec => OnlyPublicLoses
<1> DEFINE Step ==
        \A h \in Hosts :
          /\ roles[h] \subseteq roles'[h]
          /\ schemas[h] \subseteq schemas'[h]
          /\ extensions[h] \subseteq extensions'[h]
          /\ \A e \in acl[h] \ acl'[h] : e.to = Public
          /\ \A p \in member[h] \ member'[h] : p[2] = Admin
<1>1. Inductive /\ [Next]_vars => Step
  <2> SUFFICES ASSUME Inductive, [Next]_vars, NEW h \in Hosts
               PROVE  /\ roles[h] \subseteq roles'[h]
                      /\ schemas[h] \subseteq schemas'[h]
                      /\ extensions[h] \subseteq extensions'[h]
                      /\ \A e \in acl[h] \ acl'[h] : e.to = Public
                      /\ \A p \in member[h] \ member'[h] : p[2] = Admin
    OBVIOUS
  <2>1. Memberships /\ AccessEntries /\ OnlyAdds
    BY EveryStep
  <2>2. acl \in [Hosts -> SUBSET Entries] /\ member \in [Hosts -> SUBSET (Roles \X Roles)]
    BY DEF Inductive, TypeOK
  <2>3. \A e \in acl[h] \ acl'[h] : e.to = Public
    BY <2>1, <2>2 DEF AccessEntries
  <2>4. \A p \in member[h] \ member'[h] : p[2] = Admin
    BY <2>1, <2>2 DEF Memberships, Grant
  <2>5. QED BY <2>1, <2>3, <2>4 DEF OnlyAdds
<1>2. QED BY <1>1, InductiveInvariant, PTL DEF Spec, OnlyPublicLoses

-----------------------------------------------------------------------------
(* The admin's own memberships.                                            *)

\* The invariant, with the deferred REVOKE's condition spelled out.
Borrowed(h, r) == h = host /\ r = service(usr) /\ pc \in Deferred \cup {"release"}

\* While nothing has failed, the admin is a member only inside Database.
LEMMA AdminNext ==
    ASSUME Inductive, AdminReleased, [Next]_vars
    PROVE  AdminReleased'
<1> SUFFICES ASSUME faults' = 0, NEW h \in Hosts, NEW r \in ServiceRoles,
                    <<r, Admin>> \in member'[h]
             PROVE  Borrowed(h, r)'
  BY DEF AdminReleased, Borrowed
<1>0. TypeOK /\ WorkerInv
  BY DEF Inductive
<1>1. ~Fault
  BY <1>0, FaultType
<1>2. faults = 0
  <2>1. UNCHANGED faults
    BY <1>1 DEF Next, vars, Worker, Faults, Environment, Provision, GetNothing, Get,
       adminCredentials, resolveUser, resolvePassword, Refused, release, Persist, Resync,
       prepareHost, createDatabase, Connect, createServiceRole, alterServiceRole, grantShared,
       grantAdminOption, createRoles, grantCurrentUser, alterOwner, grantOwningWrite,
       createSchemaAs, setDefaultPrivileges, revokeAllOnPublic, grantConnect, grantUsage,
       ensureExtensions, Runs, Answered, CallFails, createRolesFails, setDefaultPrivilegesFails,
       ensureExtensionsFails, releaseFails, PersistFails, Restart, DeleteResource,
       CreateResource, EditResource, ChangeSource, ChangeCredentials
  <2>2. QED BY <2>1
<1>3. \A g \in Hosts, x \in ServiceRoles : <<x, Admin>> \in member[g] => Borrowed(g, x)
  BY <1>2 DEF AdminReleased, Borrowed
<1>4. member \in [Hosts -> SUBSET (Roles \X Roles)]
  BY <1>0 DEF TypeOK
<1>5. Memberships
  BY EveryStep
<1>6. CASE <<r, Admin>> \notin member[h]
  <2>1. pc = "grantCurrentUser" /\ h = host /\ r = service(usr)
    <3>1. Admin # Manager /\ \A x \in ServiceRoles : x # Admin
      BY DatabaseControllerAssumption
    <3>2. \A u \in Values : service(u) # Admin /\ role(u, "readowningwrite") # Admin
      BY <3>1, PgValues
    <3>3. QED BY <1>4, <1>5, <1>6, <3>1, <3>2 DEF Memberships, Grant
  <2>2. grantCurrentUser
    <3>1. ~(UNCHANGED pgVars)
      BY <1>6
    <3>2. Next
      BY <3>1 DEF vars
    <3>3. PgStep
      BY <3>1, <3>2, <1>0, StepKinds, ReturnStepType, OutsideStepType, LocalStepType
    <3>4. QED BY <3>3, <2>1 DEF PgStep, Provision, prepareHost, createDatabase, Connect,
         createServiceRole, alterServiceRole, grantShared, grantAdminOption, createRoles,
         alterOwner, grantOwningWrite, createSchemaAs, setDefaultPrivileges, revokeAllOnPublic,
         grantConnect, grantUsage, ensureExtensions, createRolesFails,
         setDefaultPrivilegesFails, ensureExtensionsFails, release, Runs
  <2>3. pc' \in Deferred /\ UNCHANGED <<host, usr>>
    BY <2>2, <1>1 DEF grantCurrentUser, Runs, Answered, Deferred
  <2>4. QED BY <2>1, <2>3 DEF Borrowed
<1>7. CASE <<r, Admin>> \in member[h]
  <2>1. h = host /\ r = service(usr) /\ pc \in Deferred \cup {"release"}
    BY <1>3, <1>7 DEF Borrowed
  <2>2. UNCHANGED <<host, usr>> /\ pc' \in Deferred \cup {"release"}
    <3>1. CASE UNCHANGED <<host, usr, pc>>
      BY <3>1, <2>1
    <3>2. CASE PgStep
      <4>1. ~release
        BY <2>1, <1>4 DEF release
      <4>2. Provision
        BY <1>1, <3>2, <4>1 DEF PgStep, createRolesFails, setDefaultPrivilegesFails,
           ensureExtensionsFails
      <4>3. UNCHANGED <<host, usr>> /\ pc' \in Deferred \cup {"release"}
        BY <1>1, <2>1, <4>2 DEF Provision, prepareHost, createDatabase, Connect,
         createServiceRole, alterServiceRole, grantShared, grantAdminOption, createRoles,
         grantCurrentUser, alterOwner, grantOwningWrite, createSchemaAs, setDefaultPrivileges,
         revokeAllOnPublic, grantConnect, grantUsage, ensureExtensions, Runs, Answered, Deferred
      <4>4. QED BY <4>3
    <3>3. CASE ReturnStep
      <4>1. pc = "persist"
        BY <1>1, <3>3 DEF ReturnStep, Persist, PersistFails, Restart
      <4>2. QED BY <4>1, <2>1 DEF Deferred
    <3>4. CASE LocalStep
      <4>1. Refused
        BY <1>1, <2>1, <3>4 DEF LocalStep, GetNothing, Get, adminCredentials, resolveUser, resolvePassword,
           CallFails, releaseFails, Deferred
      <4>2. pc # "release"
        BY <4>1 DEF Refused, Statements, Deferred
      <4>3. QED BY <4>1, <4>2, <2>1 DEF Refused, Fails
    <3>5. CASE Next
      BY <3>1, <3>2, <3>3, <3>4, <3>5, <1>0, StepKinds, OutsideStepType
    <3>6. QED BY <3>1, <3>5 DEF vars
  <2>3. QED BY <2>1, <2>2 DEF Borrowed
<1>8. QED BY <1>6, <1>7

\* While no call fails, the admin is a member of the service role only between the
\* GRANT and the deferred REVOKE, also when a statement is refused in between.
THEOREM AdminMembershipReleased == Spec => []AdminReleased
<1>1. Init => AdminReleased
  BY DEF Init, AdminReleased
<1>2. Inductive /\ AdminReleased /\ [Next]_vars => AdminReleased'
  BY AdminNext
<1>3. QED BY <1>1, <1>2, InductiveInvariant, PTL DEF Spec
=============================================================================

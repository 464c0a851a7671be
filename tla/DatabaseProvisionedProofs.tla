-------------------- MODULE DatabaseProvisionedProofs --------------------
(***************************************************************************)
(* A reconcile of a PostgreSQLDatabase that succeeds leaves everything in  *)
(* place, for all values of DatabaseController's constants: an invariant   *)
(* that follows postgres.Database statement by statement.                  *)
(***************************************************************************)
EXTENDS DatabaseControllerProofs

-----------------------------------------------------------------------------
(* What is in place from which call on.                                    *)

\* The calls that follow the statement each set is named after.
AfterUsage == {"ensureExtensions"}
AfterConnectGranted == {"grantUsage"} \cup AfterUsage
AfterRevoke == {"grantConnect"} \cup AfterConnectGranted
AfterPrivileges == {"revokeAllOnPublic"} \cup AfterRevoke
AfterSchema == {"setDefaultPrivileges"} \cup AfterPrivileges
AfterOwningWrite == {"createSchema"} \cup AfterSchema
AfterOwner == {"grantOwningWrite"} \cup AfterOwningWrite
AfterRoles == {"grantCurrentUser", "alterOwner"} \cup AfterOwner
AfterShared == {"grantAdminOption", "createRoles"} \cup AfterRoles
AfterLogin == {"grantShared"} \cup AfterShared
AfterServiceRole == {"alterServiceRole"} \cup AfterLogin
AfterDatabase == {"connect", "createServiceRole"} \cup AfterServiceRole
AfterManager == {"resolveUser", "resolvePassword", "createDatabase"} \cup AfterDatabase

\* The worker is at one of the calls, or through with all of them.
past(calls) == pc \in calls \/ ended

OwnerSet ==
    /\ past(AfterDatabase) => owner[host][snap.name] # None
    /\ past(AfterOwner) /\ ~snap.shared => owner[host][snap.name] = service(usr)

RolesSet ==
    /\ past(AfterManager) => Manager \in roles[host]
    /\ past(AfterServiceRole) => service(usr) \in roles[host]
    /\ past(AfterRoles) => accessRolesOf(usr) \subseteq roles[host]

LoginSet == past(AfterLogin) => (service(usr) \in login[host]) = (pwd # Empty)

MemberSet ==
    /\ past(AfterShared) /\ snap.shared =>
           <<service(snap.name), service(usr)>> \in member[host]
    /\ past(AfterOwningWrite) => <<service(usr), role(usr, "readowningwrite")>> \in member[host]

SchemaSet == past(AfterSchema) => <<snap.name, usr>> \in schemas[host]

AclSet ==
    /\ past(AfterPrivileges) =>
           \A x \in AccessSuffixes :
              privilegesOf(snap.name, usr, x) \subseteq acl[host]
    /\ past(AfterRevoke) => toPublic(snap.name, NoValue, "temporary") \notin acl[host]
    /\ past(AfterConnectGranted) => toPublic(snap.name, NoValue, "connect") \in acl[host]
    /\ past(AfterUsage) => toPublic(snap.name, usr, "usage") \in acl[host]

ExtensionsSet == ended => {snap.name} \X snap.extensions \subseteq extensions[host]

\* ProvisionedOnSuccess, made inductive: after every statement, what it and the
\* statements before it have set up is there.
ProvisionInv ==
    OwnerSet /\ RolesSet /\ LoginSet /\ MemberSet /\ SchemaSet /\ AclSet /\ ExtensionsSet

-----------------------------------------------------------------------------
(* Steps after which nothing is claimed, and steps that change nothing.    *)

USE DEF apiVars, pgVars, localVars
USE DEF AfterUsage, AfterConnectGranted, AfterRevoke, AfterPrivileges, AfterSchema,
        AfterOwningWrite, AfterOwner, AfterRoles, AfterShared, AfterLogin, AfterServiceRole,
        AfterDatabase, AfterManager

\* Nothing is claimed of a worker that has just begun, or that has failed.
LEMMA NothingClaimed ==
    ASSUME \/ pc' \in {"idle", "adminCredentials", "prepareHost"}
           \/ pc' \in {"release", "persist"} /\ err' # NoErr
    PROVE  ProvisionInv'
<1>1. ~ended' /\ pc' \notin AfterManager
  BY DEF ended
<1>2. QED BY <1>1 DEF ProvisionInv, OwnerSet, RolesSet, LoginSet, MemberSet, SchemaSet, AclSet,
                      ExtensionsSet, past

\* A statement that PostgreSQL runs either fails to be answered, or leads to the next.
LEMMA AnsweredOrNot ==
    ASSUME Inductive, NEW at \in {"prepareHost"} \cup Statements, NEW next, Runs(at, next),
           ~ProvisionInv'
    PROVE  pc = at /\ pc' = next /\ UNCHANGED <<host, snap, usr, pwd, err>>
<1>1. pc = at /\ pc # "idle" /\ Answered(next) /\ UNCHANGED <<host, snap, usr, pwd>>
  BY DEF Runs, Statements, Deferred
<1>2. ~(Fails("unknown") /\ Fault)
  BY <1>1, NothingClaimed, FailsType DEF Inductive
<1>3. QED BY <1>1, <1>2 DEF Answered

\* The catalogs and what the worker has resolved, when a statement runs.
LEMMA AtProvision ==
    ASSUME Inductive, pc \in Statements \cup {"release"}
    PROVE  /\ host \in Hosts /\ usr \in Values /\ snap.name \in Names
           /\ snap.name \in Values /\ service(usr) \in ServiceRoles
           /\ owner \in [Hosts -> [Names -> Roles \cup {None}]]
           /\ roles \in [Hosts -> SUBSET Roles]
           /\ login \in [Hosts -> SUBSET ServiceRoles]
           /\ member \in [Hosts -> SUBSET (Roles \X Roles)]
           /\ schemas \in [Hosts -> SUBSET (Names \X Values)]
           /\ acl \in [Hosts -> SUBSET Entries]
           /\ extensions \in [Hosts -> SUBSET (Names \X Extensions)]
BY AtStatement, PgValues DEF Inductive, TypeOK

-----------------------------------------------------------------------------
(* One statement at a time.                                                *)

\* Every statement that PostgreSQL runs keeps what was set up before it and adds
\* its own part.
LEMMA StatementProvisions ==
    ASSUME Inductive, ProvisionInv, Provision
    PROVE  ProvisionInv'
<1> SUFFICES ASSUME ~ProvisionInv' PROVE FALSE
  OBVIOUS
<1> USE DEF Statements, Deferred
<1>1. CASE prepareHost
  <2>1. pc' = "resolveUser" /\ UNCHANGED host
    BY <1>1, AnsweredOrNot DEF prepareHost
  <2>2. host \in Hosts /\ roles \in [Hosts -> SUBSET Roles]
    BY <1>1, DatabaseControllerAssumption DEF prepareHost, Runs, allowed, Inductive, TypeOK
  <2>3. Manager \in roles'[host']
    BY <1>1, <2>1, <2>2 DEF prepareHost
  <2>4. QED
    BY <2>1, <2>3 DEF ProvisionInv, OwnerSet, RolesSet, LoginSet, MemberSet, SchemaSet, AclSet,
       ExtensionsSet, past, ended
<1>2. CASE createDatabase
  <2>1. pc = "createDatabase" /\ pc' = "connect" /\ UNCHANGED <<host, snap, usr, pwd, err>>
    BY <1>2, AnsweredOrNot DEF createDatabase
  <2>2. owner'[host][snap.name] # None
    BY <1>2, <2>1, AtProvision, DatabaseControllerAssumption, PgValues DEF createDatabase
  <2>3. QED
    BY <1>2, <2>1, <2>2 DEF createDatabase, ProvisionInv, OwnerSet, RolesSet, LoginSet,
       MemberSet, SchemaSet, AclSet, ExtensionsSet, past, ended
<1>3. CASE Connect
  <2>1. pc = "connect" /\ pc' = "createServiceRole" /\ UNCHANGED <<host, snap, usr, pwd, err>>
    BY <1>3, AnsweredOrNot DEF Connect
  <2>2. QED
    BY <1>3, <2>1 DEF Connect, ProvisionInv, OwnerSet, RolesSet, LoginSet,
       MemberSet, SchemaSet, AclSet, ExtensionsSet, past, ended
<1>4. CASE createServiceRole
  <2>1. pc = "createServiceRole" /\ pc' = "alterServiceRole"
        /\ UNCHANGED <<host, snap, usr, pwd, err>>
    BY <1>4, AnsweredOrNot DEF createServiceRole
  <2>2. service(usr) \in roles'[host] /\ roles[host] \subseteq roles'[host]
    BY <1>4, <2>1, AtProvision DEF createServiceRole
  <2>3. QED
    BY <1>4, <2>1, <2>2 DEF createServiceRole, ProvisionInv, OwnerSet, RolesSet, LoginSet,
       MemberSet, SchemaSet, AclSet, ExtensionsSet, past, ended
<1>5. CASE alterServiceRole
  <2>1. pc = "alterServiceRole" /\ pc' = (IF snap.shared THEN "grantShared" ELSE "grantAdminOption")
        /\ UNCHANGED <<host, snap, usr, pwd, err>>
    BY <1>5, AnsweredOrNot DEF alterServiceRole
  <2>2. (service(usr) \in login'[host]) = (pwd # Empty)
    BY <1>5, <2>1, AtProvision DEF alterServiceRole
  <2>3. QED
    BY <1>5, <2>1, <2>2 DEF alterServiceRole, ProvisionInv, OwnerSet, RolesSet, LoginSet,
       MemberSet, SchemaSet, AclSet, ExtensionsSet, past, ended
<1>6. CASE grantShared
  <2>1. pc = "grantShared" /\ pc' = "grantAdminOption" /\ UNCHANGED <<host, snap, usr, pwd, err>>
    BY <1>6, AnsweredOrNot DEF grantShared
  <2>2. <<service(snap.name), service(usr)>> \in member'[host]
    BY <1>6, <2>1, AtProvision DEF grantShared, Grant
  <2>3. QED
    BY <1>6, <2>1, <2>2 DEF grantShared, ProvisionInv, OwnerSet, RolesSet, LoginSet,
       MemberSet, SchemaSet, AclSet, ExtensionsSet, past, ended
<1>7. CASE grantAdminOption
  <2>1. pc = "grantAdminOption" /\ pc' = "createRoles" /\ UNCHANGED <<host, snap, usr, pwd, err>>
    BY <1>7, AnsweredOrNot DEF grantAdminOption
  <2>2. member[host] \subseteq member'[host]
    BY <1>7, <2>1, AtProvision DEF grantAdminOption, Grant
  <2>3. QED
    BY <1>7, <2>1, <2>2 DEF grantAdminOption, ProvisionInv, OwnerSet, RolesSet, LoginSet,
       MemberSet, SchemaSet, AclSet, ExtensionsSet, past, ended
<1>8. CASE createRoles
  <2>1. pc = "createRoles" /\ pc' = "grantCurrentUser" /\ UNCHANGED <<host, snap, usr, pwd, err>>
    BY <1>8, AnsweredOrNot DEF createRoles
  <2>2. accessRolesOf(usr) \subseteq roles'[host] /\ roles[host] \subseteq roles'[host]
    BY <1>8, <2>1, AtProvision DEF createRoles
  <2>3. QED
    BY <1>8, <2>1, <2>2 DEF createRoles, ProvisionInv, OwnerSet, RolesSet, LoginSet,
       MemberSet, SchemaSet, AclSet, ExtensionsSet, past, ended
<1>9. CASE grantCurrentUser
  <2>1. pc = "grantCurrentUser" /\ pc' = (IF snap.shared THEN "grantOwningWrite" ELSE "alterOwner")
        /\ UNCHANGED <<host, snap, usr, pwd, err>>
    BY <1>9, AnsweredOrNot DEF grantCurrentUser
  <2>2. member[host] \subseteq member'[host]
    BY <1>9, <2>1, AtProvision DEF grantCurrentUser, Grant
  <2>3. QED
    BY <1>9, <2>1, <2>2 DEF grantCurrentUser, ProvisionInv, OwnerSet, RolesSet, LoginSet,
       MemberSet, SchemaSet, AclSet, ExtensionsSet, past, ended
<1>10. CASE alterOwner
  <2>1. pc = "alterOwner" /\ pc' = "grantOwningWrite" /\ UNCHANGED <<host, snap, usr, pwd, err>>
    BY <1>10, AnsweredOrNot DEF alterOwner
  <2>2. owner'[host][snap.name] = service(usr) /\ service(usr) # None
    BY <1>10, <2>1, AtProvision, PgValues, DatabaseControllerAssumption DEF alterOwner
  <2>3. QED
    BY <1>10, <2>1, <2>2 DEF alterOwner, ProvisionInv, OwnerSet, RolesSet, LoginSet,
       MemberSet, SchemaSet, AclSet, ExtensionsSet, past, ended
<1>11. CASE grantOwningWrite
  <2>1. pc = "grantOwningWrite" /\ pc' = "createSchema" /\ UNCHANGED <<host, snap, usr, pwd, err>>
    BY <1>11, AnsweredOrNot DEF grantOwningWrite
  <2>2. /\ <<service(usr), role(usr, "readowningwrite")>> \in member'[host]
        /\ member[host] \subseteq member'[host]
    BY <1>11, <2>1, AtProvision DEF grantOwningWrite, Grant
  <2>3. QED
    BY <1>11, <2>1, <2>2 DEF grantOwningWrite, ProvisionInv, OwnerSet, RolesSet, LoginSet,
       MemberSet, SchemaSet, AclSet, ExtensionsSet, past, ended
<1>12. CASE createSchemaAs
  <2>1. pc = "createSchema" /\ pc' = "setDefaultPrivileges"
        /\ UNCHANGED <<host, snap, usr, pwd, err>>
    BY <1>12, AnsweredOrNot DEF createSchemaAs
  <2>2. <<snap.name, usr>> \in schemas'[host]
    BY <1>12, <2>1, AtProvision DEF createSchemaAs
  <2>3. QED
    BY <1>12, <2>1, <2>2 DEF createSchemaAs, ProvisionInv, OwnerSet, RolesSet, LoginSet,
       MemberSet, SchemaSet, AclSet, ExtensionsSet, past, ended
<1>13. CASE setDefaultPrivileges
  <2>1. pc = "setDefaultPrivileges" /\ pc' = "revokeAllOnPublic"
        /\ UNCHANGED <<host, snap, usr, pwd, err>>
    BY <1>13, AnsweredOrNot DEF setDefaultPrivileges
  <2>2. \A x \in AccessSuffixes :
           privilegesOf(snap.name, usr, x) \subseteq acl'[host]
    BY <1>13, <2>1, AtProvision DEF setDefaultPrivileges, GrantPrivileges
  <2>3. QED
    BY <1>13, <2>1, <2>2 DEF setDefaultPrivileges, GrantPrivileges, ProvisionInv, OwnerSet,
       RolesSet, LoginSet, MemberSet, SchemaSet, AclSet, ExtensionsSet, past, ended
<1>14. CASE revokeAllOnPublic
  <2>1. pc = "revokeAllOnPublic" /\ pc' = "grantConnect"
        /\ UNCHANGED <<host, snap, usr, pwd, err>>
    BY <1>14, AnsweredOrNot DEF revokeAllOnPublic
  <2>2. acl'[host] = {e \in acl[host] :
            ~(e.to = Public /\ e.db = snap.name /\ e.schema = NoValue)}
    BY <1>14, <2>1, AtProvision DEF revokeAllOnPublic
  <2>3. \A x \in AccessSuffixes :
           privilegesOf(snap.name, usr, x) \subseteq acl'[host]
    <3>1. SUFFICES ASSUME NEW x \in AccessSuffixes,
                          NEW e \in privilegesOf(snap.name, usr, x)
                   PROVE  e \in acl'[host]
      OBVIOUS
    <3>2. e \in acl[host]
      BY <2>1 DEF ProvisionInv, AclSet, past
    <3>3. e.to = role(usr, x) /\ role(usr, x) \in ServiceRoles
      BY <2>1, AtProvision, PgValues DEF privilegesOf, privilege, AccessSuffixes
    <3>4. QED BY <2>2, <3>2, <3>3, DatabaseControllerAssumption
  <2>4. toPublic(snap.name, NoValue, "temporary") \notin acl'[host]
    BY <2>2 DEF toPublic
  <2>5. QED
    BY <1>14, <2>1, <2>3, <2>4 DEF revokeAllOnPublic, ProvisionInv, OwnerSet, RolesSet,
       LoginSet, MemberSet, SchemaSet, AclSet, ExtensionsSet, past, ended
<1>15. CASE grantConnect
  <2>1. pc = "grantConnect" /\ pc' = "grantUsage" /\ UNCHANGED <<host, snap, usr, pwd, err>>
    BY <1>15, AnsweredOrNot DEF grantConnect
  <2>2. acl'[host] = acl[host] \cup {toPublic(snap.name, NoValue, "connect")}
    BY <1>15, <2>1, AtProvision DEF grantConnect, GrantToPublic
  <2>3. toPublic(snap.name, NoValue, "connect") # toPublic(snap.name, NoValue, "temporary")
    BY DEF toPublic
  <2>4. QED
    BY <1>15, <2>1, <2>2, <2>3 DEF grantConnect, GrantToPublic, ProvisionInv, OwnerSet,
       RolesSet, LoginSet, MemberSet, SchemaSet, AclSet, ExtensionsSet, past, ended
<1>16. CASE grantUsage
  <2>1. pc = "grantUsage" /\ pc' = "ensureExtensions" /\ UNCHANGED <<host, snap, usr, pwd, err>>
    BY <1>16, AnsweredOrNot DEF grantUsage
  <2>2. acl'[host] = acl[host] \cup {toPublic(snap.name, usr, "usage")}
    BY <1>16, <2>1, AtProvision DEF grantUsage, GrantToPublic
  <2>3. toPublic(snap.name, usr, "usage") # toPublic(snap.name, NoValue, "temporary")
    BY DEF toPublic
  <2>4. QED
    BY <1>16, <2>1, <2>2, <2>3 DEF grantUsage, GrantToPublic, ProvisionInv, OwnerSet,
       RolesSet, LoginSet, MemberSet, SchemaSet, AclSet, ExtensionsSet, past, ended
<1>17. CASE ensureExtensions
  <2>1. pc = "ensureExtensions" /\ pc' = "release" /\ UNCHANGED <<host, snap, usr, pwd, err>>
    BY <1>17, AnsweredOrNot DEF ensureExtensions
  <2>2. extensions'[host] = extensions[host] \cup ({snap.name} \X toInstall)
    BY <1>17, <2>1, AtProvision DEF ensureExtensions, installExtensions
  <2>3. {snap.name} \X snap.extensions \subseteq extensions'[host]
    BY <2>2 DEF toInstall
  <2>4. QED
    BY <1>17, <2>1, <2>3 DEF ensureExtensions, installExtensions, ProvisionInv, OwnerSet,
       RolesSet, LoginSet, MemberSet, SchemaSet, AclSet, ExtensionsSet, past, ended
<1>18. QED
  BY <1>1, <1>2, <1>3, <1>4, <1>5, <1>6, <1>7, <1>8, <1>9, <1>10, <1>11, <1>12, <1>13, <1>14,
     <1>15, <1>16, <1>17 DEF Provision

\* The deferred REVOKE takes nothing away that Database promises.
LEMMA ReleaseKeeps ==
    ASSUME Inductive, ProvisionInv, release \/ releaseFails
    PROVE  ProvisionInv'
<1>1. pc = "release" /\ pc' = "persist" /\ UNCHANGED <<host, snap, usr, pwd, err>>
  BY DEF release, releaseFails
<1>2. UNCHANGED <<owner, roles, login, schemas, acl, extensions>>
  BY DEF release, releaseFails
<1>3. host \in Hosts /\ usr \in Values /\ snap.name \in Values
  BY <1>1, AtProvision
<1>4. \A u \in Values : <<service(snap.name), service(usr)>> # <<service(u), Admin>>
                     /\ <<service(usr), role(usr, "readowningwrite")>> # <<service(u), Admin>>
  BY <1>3, PgValues, DatabaseControllerAssumption
<1>5. /\ <<service(snap.name), service(usr)>> \in member[host] =>
             <<service(snap.name), service(usr)>> \in member'[host]
      /\ <<service(usr), role(usr, "readowningwrite")>> \in member[host] =>
             <<service(usr), role(usr, "readowningwrite")>> \in member'[host]
  BY <1>1, <1>3, <1>4, AtProvision DEF release, releaseFails
<1>6. MemberSet'
  BY <1>1, <1>5 DEF ProvisionInv, MemberSet, past, ended
<1>7. QED
  BY <1>1, <1>2, <1>6 DEF ProvisionInv, OwnerSet, RolesSet, LoginSet, SchemaSet, AclSet,
     ExtensionsSet, past, ended

\* Reading the resource and resolving its references claims nothing new, and a call
\* that fails, or is refused, ends all claims.
LEMMA LocalStepKeeps ==
    ASSUME Inductive, ProvisionInv, LocalStep
    PROVE  ProvisionInv'
<1>0. TypeOK /\ WorkerInv
  BY DEF Inductive
<1>1. CASE \E d \in Databases : GetNothing(d) \/ Get(d)
  BY <1>1, NothingClaimed DEF GetNothing, Get
<1>2. CASE adminCredentials
  <2>1. pc' = "prepareHost" \/ Fails(credentialsFor(snap).kind)
    BY <1>2 DEF adminCredentials
  <2>2. CASE Fails(credentialsFor(snap).kind) /\ credentialsFor(snap).kind # "none"
    <3>1. pc # "idle" /\ snap \in Specs
      BY <1>0, <1>2 DEF adminCredentials, WorkerInv
    <3>2. credentialsFor(snap).kind \in {"invalid", "missing", "unknown"}
      BY <3>1, <2>2, <1>0, CredentialsType
    <3>3. QED BY <3>1, <3>2, <2>2, <1>0, FailsType, NothingClaimed
  <2>3. QED BY <1>2, <2>1, <2>2, NothingClaimed DEF adminCredentials
<1>3. CASE resolveUser
  <2>1. pc = "resolveUser" /\ pc' = "resolvePassword" /\ UNCHANGED <<host, roles>>
    BY <1>3 DEF resolveUser
  <2>2. QED
    BY <2>1 DEF ProvisionInv, OwnerSet, RolesSet, LoginSet, MemberSet, SchemaSet, AclSet,
       ExtensionsSet, past, ended
<1>3a. CASE resolvePassword
  <2>1. CASE errorOf(passwordFor(snap)) = "none"
    <3>1. pc = "resolvePassword" /\ pc' = "createDatabase" /\ UNCHANGED <<host, roles>>
      BY <1>3a, <2>1 DEF resolvePassword
    <3>2. QED
      BY <3>1 DEF ProvisionInv, OwnerSet, RolesSet, LoginSet, MemberSet, SchemaSet, AclSet,
         ExtensionsSet, past, ended
  <2>2. CASE errorOf(passwordFor(snap)) # "none"
    <3>1. pc # "idle" /\ Fails(errorOf(passwordFor(snap)))
      BY <1>3a, <2>2 DEF resolvePassword
    <3>2. errorOf(passwordFor(snap)) \in {"invalid", "missing", "unknown"}
      BY <2>2, ErrorOfType
    <3>3. QED BY <3>1, <3>2, <1>0, FailsType, NothingClaimed
  <2>3. QED BY <2>1, <2>2
<1>4. CASE Refused \/ CallFails
  <2>1. pc # "idle" /\ Fails("unknown")
    BY <1>4 DEF Refused, CallFails, Calls, Statements, Deferred
  <2>2. QED BY <2>1, <1>0, FailsType, NothingClaimed
<1>5. CASE releaseFails
  BY <1>5, ReleaseKeeps
<1>6. QED BY <1>1, <1>2, <1>3, <1>3a, <1>4, <1>5 DEF LocalStep

\* Every step keeps the invariant: only the worker's own statements reach the
\* servers, and what comes from outside reaches neither them nor its copy.
LEMMA ProvisionNext == Inductive /\ ProvisionInv /\ [Next]_vars => ProvisionInv'
<1> SUFFICES ASSUME Inductive, ProvisionInv, [Next]_vars PROVE ProvisionInv'
  OBVIOUS
<1>0. TypeOK /\ WorkerInv
  BY DEF Inductive
<1>1. CASE UNCHANGED <<pgVars, pc, snap, host, usr, pwd, err>>
  BY <1>1 DEF ProvisionInv, OwnerSet, RolesSet, LoginSet, MemberSet, SchemaSet, AclSet,
     ExtensionsSet, past, ended
<1>2. CASE PgStep
  <2>1. CASE Provision
    BY <2>1, StatementProvisions
  <2>2. CASE createRolesFails \/ setDefaultPrivilegesFails \/ ensureExtensionsFails
    <3>1. pc # "idle" /\ Fails("unknown")
      BY <2>2 DEF createRolesFails, setDefaultPrivilegesFails, ensureExtensionsFails
    <3>2. QED BY <3>1, <1>0, FailsType, NothingClaimed
  <2>3. CASE release
    BY <2>3, ReleaseKeeps
  <2>4. QED BY <1>2, <2>1, <2>2, <2>3 DEF PgStep
<1>3. CASE ReturnStep
  BY <1>3, <1>0, ReturnStepType, NothingClaimed
<1>4. CASE OutsideStep
  BY <1>4, <1>1, <1>0, OutsideStepType
<1>5. CASE LocalStep
  BY <1>5, LocalStepKeeps
<1>6. QED BY <1>1, <1>2, <1>3, <1>4, <1>5, StepKinds DEF vars

\* A reconcile that is about to report Running has left everything its spec asks
\* for on the host - owner, roles, login, memberships, schema, privileges, PUBLIC's
\* entries and extensions - whatever other resources, earlier attempts, lost answers
\* and restarts have done before it (postgres.Database).
THEOREM SuccessIsProvisioned == Spec => []ProvisionedOnSuccess
<1>1. Init => ProvisionInv
  BY DEF Init, ProvisionInv, OwnerSet, RolesSet, LoginSet, MemberSet, SchemaSet, AclSet,
     ExtensionsSet, past, ended
<1>2. Inductive /\ ProvisionInv /\ [Next]_vars => ProvisionInv'
  BY ProvisionNext
<1>3. ProvisionInv => ProvisionedOnSuccess
  <2> SUFFICES ASSUME ProvisionInv, ended PROVE provisioned(host, usr, snap)
    BY DEF ProvisionedOnSuccess, ended
  <2>1. IF snap.shared THEN owner[host][snap.name] # None ELSE owner[host][snap.name] = service(usr)
    BY DEF ProvisionInv, OwnerSet, past
  <2>2. /\ accessRolesOf(usr) \cup {service(usr), Manager} \subseteq roles[host]
        /\ (service(usr) \in login[host]) = (pwd # Empty)
    BY DEF ProvisionInv, RolesSet, LoginSet, past
  <2>3. QED
    BY <2>1, <2>2 DEF ProvisionInv, MemberSet, SchemaSet, AclSet, ExtensionsSet, past, provisioned
<1>4. QED BY <1>1, <1>2, <1>3, InductiveInvariant, PTL DEF Spec

=============================================================================

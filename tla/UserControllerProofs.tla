----------------------- MODULE UserControllerProofs -----------------------
(* Theorems about UserController, for all values of its constants. *)
EXTENDS UserController, TLAPS

-----------------------------------------------------------------------------
(* The operators of Granter.                                               *)

\* A resource that resolves has a value.
LEMMA ResolvedValue ==
    ASSUME NEW st \in Stores, NEW ref \in Refs, resolves(st, ref)
    PROVE  ResourceValue(st, ref) \in Values
BY KubeAssumption DEF Stores, Refs, resolves, ResourceValue

\* privilegeLookup returns one of the three privileges.
LEMMA PrivilegeType == \A a \in AccessSpecs : privilegeLookup(a) \in Privileges
BY DEF AccessSpecs, privilegeLookup, Privileges

\* What an access is grouped into: the host it resolves to, its own privilege,
\* names that are values, and only while it is active.
LEMMA GroupByHostsMembers ==
    ASSUME NEW a \in AccessSpecs, NEW t \in Nat, NEW api \in Answers,
           NEW x \in groupByHosts(a, t, api)
    PROVE  /\ x \in ReadWriteAccess
           /\ x.privilege = privilegeLookup(a)
           /\ active(a, t)
<1>1. active(a, t) /\ resolves(api.store, a.host)
  BY DEF groupByHosts
<1>2. /\ api.store \in Stores /\ a.host \in Refs /\ a.database \in Refs /\ a.schema \in Refs
      /\ api.running \subseteq Databases
  BY DEF Answers, AccessSpecs
<1>3. ResourceValue(api.store, a.host) \in Values
  BY <1>1, <1>2, ResolvedValue
<1>4. privilegeLookup(a) \in Privileges
  BY PrivilegeType
<1>5. CASE a.allDatabases
  <2>1. x \in groupAllDatabasesByHost(ResourceValue(api.store, a.host), a, api)
    BY <1>1, <1>5 DEF groupByHosts
  <2>2. PICK d \in databasesOn(ResourceValue(api.store, a.host), api) :
            /\ ResourceValue(api.store, d.user) # Missing
            /\ x = [host |-> ResourceValue(api.store, a.host), name |-> d.name,
                    schema |-> databaseSchema(api, d), privilege |-> privilegeLookup(a)]
    BY <2>1 DEF groupAllDatabasesByHost
  <2>3. d \in DatabaseResources
    BY <2>2, <1>2, GranterAssumption DEF databasesOn
  <2>4. d.name \in Values /\ d.user \in Refs
    BY <2>3 DEF DatabaseResources
  <2>5. databaseSchema(api, d) \in Values
    <3>1. CASE ResourceValue(api.store, d.user) \in {NoValue, Empty}
      BY <3>1, <2>4 DEF databaseSchema
    <3>2. CASE ResourceValue(api.store, d.user) \notin {NoValue, Empty}
      <4>1. ResourceValue(api.store, d.user) \in Values
        BY <3>2, <2>2, <2>4, <1>2, ResolvedValue DEF resolves
      <4>2. QED BY <4>1, <3>2 DEF databaseSchema
    <3>3. QED BY <3>1, <3>2
  <2>6. QED BY <1>1, <1>3, <1>4, <2>2, <2>4, <2>5 DEF ReadWriteAccess
<1>6. CASE ~a.allDatabases
  <2>1. /\ resolves(api.store, a.database) /\ resolves(api.store, a.schema)
        /\ x = [host |-> ResourceValue(api.store, a.host),
                name |-> ResourceValue(api.store, a.database),
                schema |-> ResourceValue(api.store, a.schema),
                privilege |-> privilegeLookup(a)]
    BY <1>1, <1>6 DEF groupByHosts
  <2>2. ResourceValue(api.store, a.database) \in Values /\ ResourceValue(api.store, a.schema) \in Values
    BY <2>1, <1>2, ResolvedValue
  <2>3. QED BY <1>1, <1>3, <1>4, <2>1, <2>2 DEF ReadWriteAccess
<1>7. QED BY <1>5, <1>6

\* The role of an access is a role name, and it carries one of the suffixes.
LEMMA AccessRoleType ==
    \A x \in ReadWriteAccess : accessRole(x) \in RoleNames /\ hasSuffix(accessRole(x))
<1> SUFFICES ASSUME NEW x \in ReadWriteAccess
             PROVE  accessRole(x) \in RoleNames /\ hasSuffix(accessRole(x))
  OBVIOUS
<1>1. x.name \in Values /\ x.schema \in Values
  BY DEF ReadWriteAccess
<1>2. roleSuffix(x.privilege) \in Suffixes
  BY DEF roleSuffix, Suffixes
<1>3. QED BY <1>1, <1>2 DEF accessRole, RoleNames, hasSuffix, Suffixes

\* The roles a host is to hold for a set of accesses are role names.
LEMMA ExpectedType ==
    ASSUME NEW g, g \subseteq ReadWriteAccess
    PROVE  expectedRoles(g) \subseteq RoleNames
BY AccessRoleType, GranterAssumption DEF expectedRoles, accessRoles

\* An access that is active is in its window.
LEMMA ActiveInWindow ==
    ASSUME NEW a \in AccessSpecs, NEW t \in Nat, active(a, t)
    PROVE  inWindow(a, t)
BY DEF AccessSpecs, active, notStarted, expired, inWindow

\* The privilege looked up for an access never exceeds its kind.
LEMMA PrivilegeEntitled ==
    ASSUME NEW a \in AccessSpecs
    PROVE  entitles(a, roleSuffix(privilegeLookup(a)))
BY DEF AccessSpecs, privilegeLookup, roleSuffix, entitles

-----------------------------------------------------------------------------
(* Type correctness.                                                       *)

USE DEF apiVars, kubeVars, pgVars, awsVars, syncVars, reconcileVars, worldVars

\* What groupAccess passes to groupByHosts is an answer of the API server.
LEMMA AnswersType ==
    ASSUME TypeOK, NEW b \in BOOLEAN
    PROVE  [store |-> store, running |-> running, listFails |-> b] \in Answers
BY DEF TypeOK, Answers

\* The parts of the type invariant that a step must be given: the resource being
\* reconciled is one, its spec is one it was given, and Role knows its host.
WorkerInv ==
    /\ \A u \in Users : spec[u] \in SpecChoices[u]
    /\ pc # "idle" => user \in Users /\ snap \in SpecChoices[user]
    /\ pc = "group" => left \subseteq snap.accesses
    /\ pc \in {"persistedRoles", "grant", "revoke"} => host \in HostCredentials

\* Every spec a user may be given is a spec.
LEMMA SpecChoicesType == \A u \in Users : SpecChoices[u] \subseteq Specs
BY UserControllerAssumption

\* The initial states have their types and an idle worker.
LEMMA InitType == Init => TypeOK /\ WorkerInv
<1> SUFFICES ASSUME Init PROVE TypeOK /\ WorkerInv
  OBVIOUS
<1>1. spec \in [Users -> Specs]
  BY SpecChoicesType DEF Init
<1>2. store \in Stores
  BY UserControllerAssumption DEF Init, Stores
<1>3. exists \in [HostCredentials -> SUBSET RoleNames]
  <2>1. \A d \in running : databaseRoles(d) \subseteq RoleNames
    <3> SUFFICES ASSUME NEW d \in running PROVE databaseRoles(d) \subseteq RoleNames
      OBVIOUS
    <3>1. d \in DatabaseResources
      BY GranterAssumption DEF Init
    <3>2. d.name \in Values /\ d.user \in Refs
      BY <3>1 DEF DatabaseResources
    <3>3. provisionedUser(d) \in Values
      BY <1>2, <3>2, ResolvedValue DEF provisionedUser
    <3>4. QED BY <3>3 DEF databaseRoles, RoleNames, Suffixes
  <2>2. \A h : rolesOf(running, h) \subseteq RoleNames
    BY <2>1 DEF rolesOf
  <2>3. QED BY <2>2, GranterAssumption, UserControllerAssumption DEF Init
<1>4. /\ obj \in [Users -> {"absent", "live", "deleting"}]
      /\ login \in [HostCredentials -> SUBSET LoginRoles]
      /\ member \in [HostCredentials -> [LoginRoles -> SUBSET RoleNames]]
  BY DEF Init
<1>5. now \in 1..MaxTime /\ changes \in 0..MaxChanges /\ faults \in 0..MaxFaults
  BY UserControllerAssumption DEF Init
<1>6. running \subseteq Databases
  BY DEF Init
<1>7. created \in [HostCredentials -> SUBSET Values]
  <2>1. \A d \in running : d.name \in Values
    BY <1>6, GranterAssumption DEF DatabaseResources
  <2>2. QED BY <2>1 DEF Init, namesOf
<1>8. TypeOK
  BY <1>1, <1>2, <1>3, <1>4, <1>5, <1>6, <1>7 DEF Init, TypeOK, PCs
<1>9. WorkerInv
  BY DEF Init, WorkerInv
<1>10. QED BY <1>8, <1>9

\* GRANT and REVOKE change what one login role holds on one host.
Memberships == [HostCredentials -> [LoginRoles -> SUBSET RoleNames]]

\* Changing the roles of one login role on one host keeps the type of member.
LEMMA MemberUpdate ==
    ASSUME NEW m \in Memberships, NEW h \in HostCredentials, NEW n \in LoginRoles,
           NEW R \in SUBSET RoleNames
    PROVE  LET m2 == [m EXCEPT ![h][n] = R]
           IN  /\ m2 \in Memberships
               /\ m2[h][n] = R
               /\ \A g \in HostCredentials, k \in LoginRoles :
                     g # h \/ k # n => m2[g][k] = m[g][k]
<1>1. m[h] \in [LoginRoles -> SUBSET RoleNames]
  BY DEF Memberships
<1>2. [m[h] EXCEPT ![n] = R] \in [LoginRoles -> SUBSET RoleNames]
  BY <1>1
<1>3. [m EXCEPT ![h][n] = R] = [m EXCEPT ![h] = [m[h] EXCEPT ![n] = R]]
  BY DEF Memberships
<1>4. QED BY <1>1, <1>2, <1>3 DEF Memberships

\* The cases of a step, in the order of Next.
LEMMA NextType == TypeOK /\ WorkerInv /\ [Next]_vars => TypeOK' /\ WorkerInv'
<1> SUFFICES ASSUME TypeOK, WorkerInv, [Next]_vars PROVE TypeOK' /\ WorkerInv'
  OBVIOUS
<1> USE DEF Return, Fault, Change, Touch
<1>0. /\ \A u \in Users : spec[u] \in Specs
      /\ pc # "idle" => snap \in Specs /\ snap.name \in UserNames /\ roleName \in LoginRoles
  BY SpecChoicesType DEF WorkerInv, Specs, roleName, LoginRoles
<1>1. ASSUME NEW u \in Users, GetNothing(u) PROVE TypeOK' /\ WorkerInv'
  BY <1>1 DEF GetNothing, TypeOK, WorkerInv
<1>2. ASSUME NEW u \in Users, Get(u) PROVE TypeOK' /\ WorkerInv'
  <2>1. pc' \in {"finalize", "addFinalizer", "group"}
    BY <1>2 DEF Get
  <2>2. left' \subseteq spec[u].accesses /\ spec[u].accesses \subseteq AccessSpecs
    BY <1>0, <1>2 DEF Get, Specs
  <2>3. QED BY <1>0, <1>2, <2>1, <2>2 DEF Get, TypeOK, WorkerInv, PCs
<1>3. CASE AddFinalizer
  BY <1>3 DEF AddFinalizer, TypeOK, WorkerInv, PCs
<1>4. CASE finalizeUser
  BY <1>4 DEF finalizeUser, TypeOK, WorkerInv, PCs
<1>4a. CASE finalizeUserRefused
  BY <1>0, <1>4a DEF finalizeUserRefused, TypeOK, WorkerInv, PCs
<1>5. CASE RemoveFinalizer
  BY <1>5 DEF RemoveFinalizer, TypeOK, WorkerInv, PCs
<1>6. ASSUME NEW a \in left, NEW b \in BOOLEAN, groupAccess(a, b), faults' \in 0..MaxFaults
      PROVE  TypeOK' /\ WorkerInv'
  <2> DEFINE api == [store |-> store, running |-> running, listFails |-> b]
  <2>1. api \in Answers
    BY AnswersType
  <2>2. a \in AccessSpecs /\ now \in Nat
    BY DEF TypeOK
  <2>3. groupByHosts(a, now, api) \subseteq ReadWriteAccess
    BY <2>1, <2>2, GroupByHostsMembers
  <2>4. grouped' \subseteq ReadWriteAccess
    BY <1>6, <2>3 DEF groupAccess, TypeOK
  <2>5. failed' \in BOOLEAN /\ left' \subseteq left
    BY <1>6 DEF groupAccess
  <2>6. UNCHANGED <<obj, spec, finalizers, store, running, created, exists, login, member, iam, stuck,
                    queue, pc, user, snap, fresh, todo, host, existing, now, changes>>
    BY <1>6 DEF groupAccess
  <2>7. QED BY <1>6, <2>4, <2>5, <2>6 DEF TypeOK, WorkerInv, PCs
<1>7. ASSUME NEW a \in left, Group(a) PROVE TypeOK' /\ WorkerInv'
  BY <1>6, <1>7 DEF Group, TypeOK
<1>8. ASSUME NEW a \in left, GroupListFails(a) PROVE TypeOK' /\ WorkerInv'
  <2>1. faults' \in 0..MaxFaults
    BY <1>8, UserControllerAssumption DEF GroupListFails, TypeOK
  <2>2. QED BY <1>6, <1>8, <2>1 DEF GroupListFails
<1>8a. CASE Grouped
  <2>1. failed' \in BOOLEAN /\ pc' \in {"iam", "connect"}
    BY <1>8a DEF Grouped
  <2>2. QED BY <1>8a, <2>1 DEF Grouped, TypeOK, WorkerInv, PCs
<1>9. CASE connectToHosts
  <2>1. todo' \subseteq HostCredentials
    <3>1. CASE pc' = "createRole"
      BY <1>9, <3>1 DEF connectToHosts, connectable, onHost, hostsOf
    <3>2. CASE pc' = "iam"
      BY <1>9, <3>2 DEF connectToHosts, TypeOK
    <3>3. QED BY <1>9, <3>1, <3>2 DEF connectToHosts
  <2>2. QED BY <1>9, <2>1 DEF connectToHosts, TypeOK, WorkerInv, PCs
<1>10. ASSUME NEW h \in HostCredentials, createRole(h) PROVE TypeOK' /\ WorkerInv'
  <2>1. login' \in [HostCredentials -> SUBSET LoginRoles]
    BY <1>0, <1>10 DEF createRole, TypeOK
  <2>2. QED BY <1>10, <2>1 DEF createRole, TypeOK, WorkerInv, PCs
<1>11. CASE persistedRoles
  <2>1. existing' \subseteq RoleNames
    BY <1>0, <1>11 DEF persistedRoles, TypeOK, WorkerInv
  <2>2. QED BY <1>11, <2>1 DEF persistedRoles, TypeOK, WorkerInv, PCs
<1>12. ASSUME pc \in {"grant", "revoke"}
       PROVE  /\ host \in HostCredentials /\ roleName \in LoginRoles
              /\ member \in Memberships /\ member[host][roleName] \in SUBSET RoleNames
  BY <1>0, <1>12 DEF WorkerInv, TypeOK, Memberships
<1>13. wanted \subseteq ReadWriteAccess
  BY DEF TypeOK, wanted, onHost
<1>14. CASE grantRoles
  <2>1. addableRoles(existing, wanted) \in SUBSET RoleNames
    BY <1>13, ExpectedType DEF addableRoles
  <2>2. member' \in Memberships
    <3>1. member' = member \/ member' = [member EXCEPT ![host][roleName] =
                                 member[host][roleName] \cup addableRoles(existing, wanted)]
      BY <1>14 DEF grantRoles
    <3>2. pc = "grant"
      BY <1>14 DEF grantRoles
    <3>3. member[host][roleName] \cup addableRoles(existing, wanted) \in SUBSET RoleNames
      BY <1>12, <2>1, <3>2
    <3>4. [member EXCEPT ![host][roleName] =
               member[host][roleName] \cup addableRoles(existing, wanted)] \in Memberships
      BY <1>12, <3>2, <3>3, MemberUpdate
    <3>5. QED BY <1>12, <3>1, <3>2, <3>4
  <2>3. /\ left' = left /\ grouped' = grouped /\ todo' = todo /\ host' \in {host, None}
        /\ existing' \in {existing, {}} /\ failed' \in BOOLEAN
        /\ pc' \in {"revoke", "iam", "createRole"}
        /\ pc' = "revoke" => host' = host
    BY <1>14 DEF grantRoles, roleReturns, nextHost, TypeOK
  <2>4. QED BY <1>14, <2>2, <2>3 DEF grantRoles, TypeOK, WorkerInv, PCs, Memberships
<1>15. CASE revokeRoles
  <2>1. removeableRoles(existing, wanted) \in SUBSET RoleNames
    BY DEF removeableRoles, TypeOK
  <2>2. member' \in Memberships
    BY <1>12, <1>15, <2>1, MemberUpdate DEF revokeRoles
  <2>3. QED BY <1>15, <2>2 DEF revokeRoles, roleReturns, nextHost, TypeOK, WorkerInv, PCs, Memberships
<1>16. CASE ensureIAMUser
  BY <1>0, <1>16 DEF ensureIAMUser, TypeOK, WorkerInv, PCs
<1>17. CASE Resync
  BY <1>17 DEF Resync, resources, TypeOK, WorkerInv
<1>18. ASSUME Fault PROVE faults' \in 0..MaxFaults
  BY <1>18, UserControllerAssumption DEF TypeOK
<1>19. CASE finalizeUserFails
  BY <1>18, <1>19 DEF finalizeUserFails, TypeOK, WorkerInv, PCs
<1>20. CASE UpdateFails
  BY <1>18, <1>20 DEF UpdateFails, TypeOK, WorkerInv, PCs
<1>21. CASE connectToHostsFails
  BY <1>18, <1>21 DEF connectToHostsFails, TypeOK, WorkerInv, PCs
<1>22. ASSUME NEW h \in HostCredentials, createRoleFails(h) PROVE TypeOK' /\ WorkerInv'
  BY <1>18, <1>22 DEF createRoleFails, nextHost, TypeOK, WorkerInv, PCs
<1>23. CASE statementFails
  BY <1>18, <1>23 DEF statementFails, roleReturns, nextHost, TypeOK, WorkerInv, PCs
<1>23a. CASE answerLost
  <2>1. /\ addableRoles(existing, wanted) \in SUBSET RoleNames
        /\ removeableRoles(existing, wanted) \in SUBSET RoleNames
    BY <1>13, ExpectedType DEF addableRoles, removeableRoles, TypeOK
  <2>2. /\ member[host][roleName] \cup addableRoles(existing, wanted) \in SUBSET RoleNames
        /\ member[host][roleName] \ removeableRoles(existing, wanted) \in SUBSET RoleNames
        /\ host \in HostCredentials /\ roleName \in LoginRoles /\ member \in Memberships
    BY <1>12, <1>23a, <2>1 DEF answerLost
  <2>3. /\ [member EXCEPT ![host][roleName] =
                member[host][roleName] \cup addableRoles(existing, wanted)] \in Memberships
        /\ [member EXCEPT ![host][roleName] =
                member[host][roleName] \ removeableRoles(existing, wanted)] \in Memberships
    BY <2>2, MemberUpdate
  <2>4. member' \in Memberships
    BY <1>23a, <2>3 DEF answerLost
  <2>5. QED
    BY <1>18, <1>23a, <2>4 DEF answerLost, roleReturns, nextHost, TypeOK, WorkerInv, PCs, Memberships
<1>24. CASE ensureIAMUserFails
  BY <1>0, <1>18, <1>24 DEF ensureIAMUserFails, TypeOK, WorkerInv, PCs
<1>25. CASE Restart
  BY <1>18, <1>25 DEF Restart, resources, TypeOK, WorkerInv, PCs
<1>26. ASSUME Change PROVE changes' \in 0..MaxChanges
  BY <1>26, UserControllerAssumption DEF TypeOK
<1>27. ASSUME NEW u \in Users, CreateUser(u) PROVE TypeOK' /\ WorkerInv'
  BY <1>26, <1>27 DEF CreateUser, TypeOK, WorkerInv
<1>28. ASSUME NEW u \in Users, NEW s \in SpecChoices[u], EditUser(u, s) PROVE TypeOK' /\ WorkerInv'
  BY <1>26, <1>28, SpecChoicesType DEF EditUser, TypeOK, WorkerInv
<1>29. ASSUME NEW u \in Users, DeleteUser(u) PROVE TypeOK' /\ WorkerInv'
  BY <1>26, <1>29 DEF DeleteUser, TypeOK, WorkerInv
<1>30. ASSUME NEW u \in Users, Collect(u) PROVE TypeOK' /\ WorkerInv'
  BY <1>30 DEF Collect, TypeOK, WorkerInv
<1>31. ASSUME NEW s \in Sources, NEW v \in StoreChoices[s], ChangeSource(s, v)
       PROVE  TypeOK' /\ WorkerInv'
  <2>1. store' \in Stores
    BY <1>31, UserControllerAssumption DEF ChangeSource, TypeOK, Stores
  <2>2. QED BY <1>26, <1>31, <2>1 DEF ChangeSource, TypeOK, WorkerInv
<1>32. ASSUME NEW d \in Databases, DatabaseRuns(d) PROVE TypeOK' /\ WorkerInv'
  <2>1. databaseRoles(d) \subseteq RoleNames
    <3>1. d \in DatabaseResources
      BY GranterAssumption
    <3>2. d.name \in Values /\ d.user \in Refs /\ store \in Stores
      BY <3>1 DEF DatabaseResources, TypeOK
    <3>3. provisionedUser(d) \in Values
      BY <3>2, ResolvedValue DEF provisionedUser
    <3>4. QED BY <3>3 DEF databaseRoles, RoleNames, Suffixes
  <2>2. \A h : rolesOf({d}, h) \subseteq RoleNames
    BY <2>1 DEF rolesOf
  <2>3. exists' \in [HostCredentials -> SUBSET RoleNames]
    BY <1>32, <2>2 DEF DatabaseRuns, TypeOK
  <2>4. created' \in [HostCredentials -> SUBSET Values]
    <3>1. d.name \in Values
      BY GranterAssumption DEF DatabaseResources
    <3>2. \A h : namesOf({d}, h) \subseteq Values
      BY <3>1 DEF namesOf
    <3>3. QED BY <1>32, <3>2 DEF DatabaseRuns, TypeOK
  <2>5. QED BY <1>26, <1>32, <2>3, <2>4 DEF DatabaseRuns, TypeOK, WorkerInv
<1>33. ASSUME NEW d \in Databases, DatabaseFails(d) PROVE TypeOK' /\ WorkerInv'
  BY <1>26, <1>33 DEF DatabaseFails, TypeOK, WorkerInv
<1>34. ASSUME NEW h \in HostCredentials, NEW n \in LoginRoles, NEW r \in OutOfBandRoles,
              GrantOutOfBand(h, n, r)
       PROVE  TypeOK' /\ WorkerInv'
  <2>1. member' \in [HostCredentials -> [LoginRoles -> SUBSET RoleNames]]
    BY <1>34, UserControllerAssumption DEF GrantOutOfBand, TypeOK
  <2>2. QED BY <1>26, <1>34, <2>1 DEF GrantOutOfBand, TypeOK, WorkerInv
<1>35. CASE Tick
  <2>1. now' \in 1..MaxTime
    BY <1>35, UserControllerAssumption DEF Tick, TypeOK
  <2>2. QED BY <1>35, <2>1 DEF Tick, TypeOK, WorkerInv
<1>36. CASE UNCHANGED vars
  BY <1>36 DEF vars, TypeOK, WorkerInv
<1>37. QED
  BY <1>1, <1>2, <1>3, <1>4, <1>4a, <1>5, <1>7, <1>8, <1>8a, <1>9, <1>10, <1>11, <1>14, <1>15,
     <1>16, <1>17, <1>19, <1>20, <1>21, <1>22, <1>23, <1>23a, <1>24, <1>25, <1>27, <1>28, <1>29, <1>30, <1>31, <1>32,
     <1>33, <1>34, <1>35, <1>36
     DEF Next, Worker, Faults, Environment

\* Every variable keeps its type, in every instance.
THEOREM UserTypeCorrect == Spec => []TypeOK
<1>1. Init => TypeOK /\ WorkerInv
  BY InitType
<1>2. TypeOK /\ WorkerInv /\ [Next]_vars => TypeOK' /\ WorkerInv'
  BY NextType
<1>3. QED BY <1>1, <1>2, PTL DEF Spec

-----------------------------------------------------------------------------
(* Only what was asked for is granted.                                     *)

\* What SyncUser has grouped, it was asked for.
GroupedInv ==
    \A x \in grouped : pc # "idle" /\ justifiedBy(now, x.host, roleName, accessRole(x))

\* Which steps touch what this part is about.
LEMMA GrantFrame ==
    ASSUME TypeOK, [Next]_vars
    PROVE  /\ now' = now \/ now' = now + 1
           /\ \/ grouped' = {}
              \/ grouped' = grouped /\ pc = "idle"
              \/ grouped' = grouped /\ snap' = snap /\ pc' # "idle"
              \/ \E a \in left, b \in BOOLEAN : groupAccess(a, b)
           /\ \/ member' = member
              \/ grantRoles
              \/ revokeRoles
              \/ answerLost
              \/ \E h \in HostCredentials, n \in LoginRoles, r \in OutOfBandRoles :
                    GrantOutOfBand(h, n, r)
<1> USE DEF Return, roleReturns, nextHost, Touch
<1>1. CASE UNCHANGED vars
  BY <1>1 DEF vars
<1>2. CASE Worker
  <2>1. CASE \E a \in left : Group(a)
    BY <2>1 DEF Group, groupAccess
  <2>2. CASE grantRoles
    <3>1. UNCHANGED <<grouped, snap, now>> /\ pc' # "idle"
      BY <2>2 DEF grantRoles
    <3>2. QED BY <2>2, <3>1
  <2>3. CASE revokeRoles
    <3>1. UNCHANGED <<grouped, snap, now>> /\ pc' # "idle"
      BY <2>3 DEF revokeRoles
    <3>2. QED BY <2>3, <3>1
  <2>4. CASE \E u \in Users : GetNothing(u) \/ Get(u)
    BY <2>4 DEF GetNothing, Get
  <2>5. CASE \E h \in HostCredentials : createRole(h)
    BY <2>5 DEF createRole
  <2>6. CASE AddFinalizer \/ finalizeUser \/ finalizeUserRefused \/ RemoveFinalizer \/ ensureIAMUser
    BY <2>6 DEF AddFinalizer, finalizeUser, finalizeUserRefused, RemoveFinalizer, ensureIAMUser
  <2>7. CASE Grouped \/ connectToHosts \/ persistedRoles
    BY <2>7 DEF Grouped, connectToHosts, persistedRoles
  <2>8. QED BY <1>2, <2>1, <2>2, <2>3, <2>4, <2>5, <2>6, <2>7 DEF Worker
<1>3. CASE Resync
  BY <1>3 DEF Resync
<1>4. CASE Faults
  <2>1. CASE \E a \in left : GroupListFails(a)
    BY <2>1 DEF GroupListFails, groupAccess
  <2>2. CASE \E h \in HostCredentials : createRoleFails(h)
    BY <2>2 DEF createRoleFails
  <2>3. CASE connectToHostsFails \/ statementFails \/ answerLost
    BY <2>3 DEF connectToHostsFails, statementFails, answerLost
  <2>4. CASE finalizeUserFails \/ UpdateFails \/ ensureIAMUserFails \/ Restart
    BY <2>4 DEF finalizeUserFails, UpdateFails, ensureIAMUserFails, Restart
  <2>5. QED BY <1>4, <2>1, <2>2, <2>3, <2>4 DEF Faults
<1>5. CASE Environment
  BY <1>5 DEF Environment, CreateUser, EditUser, DeleteUser, Collect, ChangeSource, DatabaseRuns,
     DatabaseFails, GrantOutOfBand, Tick
<1>6. QED BY <1>1, <1>2, <1>3, <1>4, <1>5 DEF Next

\* What was justified stays so as the clock advances.
LEMMA JustifiedMono ==
    ASSUME NEW t1 \in Nat, NEW t2 \in Nat, t1 <= t2, NEW h, NEW n, NEW r, justifiedBy(t1, h, n, r)
    PROVE  justifiedBy(t2, h, n, r)
<1>1. 1..t1 \subseteq 1..t2
  OBVIOUS
<1>2. QED BY <1>1 DEF justifiedBy

\* groupByHosts turns an access of a spec into justified accesses only.
LEMMA GroupedJustified ==
    ASSUME NEW u \in Users, NEW s \in SpecChoices[u], NEW t \in Nat \ {0}, NEW api \in Answers,
           NEW a \in s.accesses, NEW x \in groupByHosts(a, t, api)
    PROVE  justifiedBy(t, x.host, sanitizedUser(s.name), accessRole(x))
<1>1. a \in AccessSpecs
  BY SpecChoicesType DEF Specs
<1>2. x.privilege = privilegeLookup(a) /\ active(a, t)
  BY <1>1, GroupByHostsMembers
<1>3. entitles(a, accessRole(x).suffix)
  BY <1>1, <1>2, PrivilegeEntitled DEF accessRole
<1>4. inWindow(a, t) /\ t \in 1..t
  BY <1>1, <1>2, ActiveInWindow
<1>5. QED BY <1>3, <1>4 DEF justifiedBy

\* No step grants a role that no access request, static role or grant by hand justifies.
LEMMA GrantsNext ==
    ASSUME TypeOK, TypeOK', WorkerInv, GroupedInv, GrantsJustified, [Next]_vars
    PROVE  GroupedInv' /\ GrantsJustified'
<1>1. now \in Nat /\ now' \in Nat /\ now <= now' /\ now \in Nat \ {0}
  BY GrantFrame DEF TypeOK
<1>2. GroupedInv'
  <2>1. CASE grouped' = {} \/ (grouped' = grouped /\ pc = "idle")
    BY <2>1 DEF GroupedInv
  <2>2. CASE grouped' = grouped /\ snap' = snap /\ pc' # "idle"
    BY <1>1, <2>2, JustifiedMono DEF GroupedInv, roleName
  <2>3. ASSUME NEW a \in left, NEW b \in BOOLEAN, groupAccess(a, b) PROVE GroupedInv'
    <3> DEFINE api == [store |-> store, running |-> running, listFails |-> b]
    <3>1. api \in Answers
      BY AnswersType
    <3>2. /\ user \in Users /\ snap \in SpecChoices[user] /\ a \in snap.accesses
          /\ grouped' = grouped \cup groupByHosts(a, now, api)
          /\ snap' = snap /\ now' = now /\ pc' # "idle"
      BY <2>3 DEF groupAccess, WorkerInv
    <3>3. \A x \in groupByHosts(a, now, api) :
             justifiedBy(now, x.host, sanitizedUser(snap.name), accessRole(x))
      BY <1>1, <3>1, <3>2, GroupedJustified
    <3>4. QED BY <3>2, <3>3 DEF GroupedInv, roleName
  <2>4. QED BY <2>1, <2>2, <2>3, GrantFrame
<1>3. GrantsJustified'
  <2> SUFFICES ASSUME NEW h \in HostCredentials, NEW n \in LoginRoles, NEW r \in member'[h][n]
               PROVE  r \in StaticRoles \cup OutOfBandRoles \/ justifiedBy(now', h, n, r)
    BY DEF GrantsJustified
  <2>1. CASE r \in member[h][n]
    BY <1>1, <2>1, JustifiedMono DEF GrantsJustified
  <2>2. CASE r \notin member[h][n]
    <3>1. CASE member' = member
      BY <2>2, <3>1
    <3>2. ASSUME pc \in {"grant", "revoke"}
          PROVE  host \in HostCredentials /\ roleName \in LoginRoles /\ member \in Memberships
      BY <3>2, SpecChoicesType DEF WorkerInv, TypeOK, Memberships, roleName, LoginRoles, Specs
    <3>3. ASSUME pc = "grant",
                 member' = [member EXCEPT ![host][roleName] = @ \cup addableRoles(existing, wanted)]
          PROVE  r \in StaticRoles \cup OutOfBandRoles \/ justifiedBy(now', h, n, r)
      <4>2. h = host /\ n = roleName /\ r \in addableRoles(existing, wanted)
        BY <2>2, <3>2, <3>3 DEF Memberships
      <4>3. CASE r \in StaticRoles
        BY <4>3
      <4>4. CASE r \notin StaticRoles
        <5>1. PICK x \in wanted : r = accessRole(x)
          BY <4>2, <4>4 DEF addableRoles, expectedRoles, accessRoles
        <5>2. x \in grouped /\ x.host = host
          BY <5>1 DEF wanted, onHost
        <5>3. justifiedBy(now, h, n, r)
          BY <4>2, <5>1, <5>2 DEF GroupedInv
        <5>4. QED BY <1>1, <5>3, JustifiedMono
      <4>5. QED BY <4>3, <4>4
    <3>4. ASSUME pc = "revoke",
                 member' = [member EXCEPT ![host][roleName] = @ \ removeableRoles(existing, wanted)]
          PROVE  FALSE
      BY <2>2, <3>2, <3>4 DEF Memberships
    <3>5. ASSUME NEW g \in HostCredentials, NEW k \in LoginRoles, NEW q \in OutOfBandRoles,
                 GrantOutOfBand(g, k, q)
          PROVE  r \in OutOfBandRoles
      BY <2>2, <3>5 DEF GrantOutOfBand, TypeOK
    <3>6. CASE grantRoles \/ revokeRoles \/ answerLost
      BY <3>1, <3>3, <3>4, <3>6 DEF grantRoles, revokeRoles, answerLost
    <3>7. QED BY <3>1, <3>5, <3>6, GrantFrame
  <2>3. QED BY <2>1, <2>2
<1>4. QED BY <1>2, <1>3

\* In every instance, whatever is edited, fails, restarts or is retried, a login
\* role holds nothing but static roles, roles granted by hand, and roles that an
\* access request of a spec with that login role asked for, in its window and
\* within its kind (groupByHosts, privilegeLookup, rolesDiff, Role).
THEOREM OnlyRequestedGrants == Spec => []GrantsJustified
<1> DEFINE Inv == TypeOK /\ WorkerInv /\ GroupedInv /\ GrantsJustified
<1>1. Init => Inv
  <2>1. Init => GroupedInv /\ GrantsJustified
    BY DEF Init, GroupedInv, GrantsJustified
  <2>2. QED BY <2>1, InitType
<1>2. Inv /\ [Next]_vars => Inv'
  BY NextType, GrantsNext
<1>3. QED BY <1>1, <1>2, PTL DEF Spec

-----------------------------------------------------------------------------
(* A successful synchronisation leaves exactly what was asked for.          *)

inRole == pc \in {"persistedRoles", "grant", "revoke"}
inHosts == inRole \/ pc = "createRole"

syncedHost(h) ==
    /\ expectedRoles(onHost(grouped, h)) \subseteq member[h][roleName]
    /\ removeableRoles(member[h][roleName], onHost(grouped, h)) \subseteq OutOfBandRoles

\* Hosts that are done are synchronised as long as no error was met; on the host
\* at hand, what is held differs from what was read, and then granted, only by
\* what was granted by hand in the meantime.
SyncInv ==
    /\ ~inRole => host = None
    /\ ~inHosts => todo = {}
    /\ inHosts \/ (pc = "iam" /\ ~failed) => hostsOf(grouped) \subseteq HostCredentials
    /\ (inHosts \/ pc = "iam") /\ ~failed =>
          \A h \in hostsOf(grouped) \ (todo \cup {host}) : syncedHost(h)
    /\ pc = "grant" =>
          /\ existing \subseteq member[host][roleName]
          /\ member[host][roleName] \subseteq existing \cup OutOfBandRoles
    /\ pc = "revoke" =>
          /\ existing \cup expectedRoles(wanted) \subseteq member[host][roleName]
          /\ member[host][roleName] \subseteq existing \cup expectedRoles(wanted) \cup OutOfBandRoles

\* The steps that have no part in setRolesOnHosts.
LEMMA SyncFrame ==
    ASSUME TypeOK, [Next]_vars
    PROVE  \/ UNCHANGED <<pc, grouped, todo, host, existing, failed, snap, member>>
           \/ pc' = "idle" /\ todo' = {} /\ host' = None
           \/ /\ pc' \in {"finalize", "addFinalizer", "group", "removeFinalizer"}
              /\ pc \in {"idle", "finalize"}
              /\ UNCHANGED <<todo, host>>
           \/ pc = "group" /\ pc' = "group" /\ UNCHANGED <<todo, host>>
           \/ Grouped \/ connectToHosts \/ connectToHostsFails
           \/ \E h \in HostCredentials : createRole(h) \/ createRoleFails(h)
           \/ persistedRoles \/ grantRoles \/ revokeRoles \/ statementFails \/ answerLost
           \/ \E h \in HostCredentials, n \in LoginRoles, r \in OutOfBandRoles :
                 GrantOutOfBand(h, n, r)
<1> USE DEF Return, Touch
<1>1. CASE UNCHANGED vars \/ Resync
  BY <1>1 DEF vars, Resync
<1>2. CASE Worker
  <2>1. CASE \E a \in left : Group(a)
    BY <2>1 DEF Group, groupAccess
  <2>2. CASE \E u \in Users : GetNothing(u)
    BY <2>2 DEF GetNothing
  <2>3. ASSUME NEW u \in Users, Get(u) PROVE pc' \in {"finalize", "addFinalizer", "group"}
    BY <2>3 DEF Get
  <2>4. CASE \E u \in Users : Get(u)
    BY <2>3, <2>4 DEF Get
  <2>5. CASE AddFinalizer \/ RemoveFinalizer \/ ensureIAMUser
    BY <2>5 DEF AddFinalizer, RemoveFinalizer, ensureIAMUser
  <2>6. CASE finalizeUser \/ finalizeUserRefused
    BY <2>6 DEF finalizeUser, finalizeUserRefused
  <2>7. QED BY <1>2, <2>1, <2>2, <2>4, <2>5, <2>6 DEF Worker
<1>3. CASE Faults
  <2>1. CASE \E a \in left : GroupListFails(a)
    BY <2>1 DEF GroupListFails, groupAccess
  <2>2. CASE finalizeUserFails \/ UpdateFails \/ ensureIAMUserFails \/ Restart
    BY <2>2 DEF finalizeUserFails, UpdateFails, ensureIAMUserFails, Restart
  <2>3. QED BY <1>3, <2>1, <2>2 DEF Faults
<1>4. CASE Environment
  <2>1. CASE \E u \in Users : CreateUser(u) \/ DeleteUser(u) \/ Collect(u)
    BY <2>1 DEF CreateUser, DeleteUser, Collect
  <2>2. CASE \E u \in Users : \E s \in SpecChoices[u] : EditUser(u, s)
    BY <2>2 DEF EditUser
  <2>3. CASE \E s \in Sources : \E v \in StoreChoices[s] : ChangeSource(s, v)
    BY <2>3 DEF ChangeSource
  <2>4. CASE \E d \in Databases : DatabaseRuns(d) \/ DatabaseFails(d)
    BY <2>4 DEF DatabaseRuns, DatabaseFails
  <2>5. CASE Tick
    BY <2>5 DEF Tick
  <2>6. QED BY <1>4, <2>1, <2>2, <2>3, <2>4, <2>5 DEF Environment
<1>5. QED BY <1>1, <1>2, <1>3, <1>4 DEF Next

\* Every step of setRolesOnHosts keeps what it knows of the hosts visited so far.
LEMMA SyncNext ==
    ASSUME TypeOK, TypeOK', WorkerInv, SyncInv, [Next]_vars
    PROVE  SyncInv'
<1> USE DEF inRole, inHosts, roleReturns, nextHost
<1>1. CASE UNCHANGED <<pc, grouped, todo, host, existing, failed, snap, member>>
  BY <1>1 DEF SyncInv, syncedHost, roleName, wanted
<1>2. CASE pc' = "idle" /\ todo' = {} /\ host' = None
  BY <1>2 DEF SyncInv
<1>3. CASE /\ pc' \in {"finalize", "addFinalizer", "group", "removeFinalizer"}
           /\ pc \in {"idle", "finalize"}
           /\ UNCHANGED <<todo, host>>
  BY <1>3 DEF SyncInv
<1>4. CASE pc = "group" /\ pc' = "group" /\ UNCHANGED <<todo, host>>
  BY <1>4 DEF SyncInv
<1>4a. CASE Grouped
  <2>1. /\ pc = "group" /\ pc' \in {"iam", "connect"}
        /\ pc' = "iam" => grouped' = {}
        /\ UNCHANGED <<todo, host>>
    BY <1>4a DEF Grouped
  <2>2. pc' = "iam" => hostsOf(grouped') = {}
    BY <2>1 DEF hostsOf
  <2>3. QED BY <2>1, <2>2 DEF SyncInv
<1>5. CASE connectToHosts
  <2>1. CASE pc' = "createRole"
    <3>1. todo' = hostsOf(grouped) /\ UNCHANGED <<grouped, host>> /\ pc = "connect"
      BY <1>5, <2>1 DEF connectToHosts
    <3>2. hostsOf(grouped) \subseteq HostCredentials
      BY <1>5, <2>1 DEF connectToHosts, connectable, onHost, hostsOf
    <3>3. QED BY <2>1, <3>1, <3>2 DEF SyncInv
  <2>2. CASE pc' = "iam"
    BY <1>5, <2>2 DEF connectToHosts, SyncInv
  <2>3. QED BY <1>5, <2>1, <2>2 DEF connectToHosts
<1>6. CASE connectToHostsFails
  BY <1>6 DEF connectToHostsFails, SyncInv
<1>7. ASSUME NEW h \in HostCredentials, createRole(h) PROVE SyncInv'
  <2>1. /\ pc = "createRole" /\ pc' = "persistedRoles" /\ todo' = todo \ {h} /\ host' = h
        /\ UNCHANGED <<grouped, failed, snap, member>>
    BY <1>7 DEF createRole
  <2>2. hostsOf(grouped) \subseteq HostCredentials /\ host = None /\ None \notin HostCredentials
    BY <2>1, UserControllerAssumption DEF SyncInv
  <2>3. \A g \in hostsOf(grouped) : syncedHost(g) => syncedHost(g)'
    BY <2>1 DEF syncedHost, roleName
  <2>4. ~failed => \A g \in hostsOf(grouped) \ (todo' \cup {host'}) : syncedHost(g)'
    BY <2>1, <2>2, <2>3 DEF SyncInv
  <2>5. QED BY <2>1, <2>2, <2>4 DEF SyncInv
<1>8. ASSUME NEW h \in HostCredentials, createRoleFails(h) PROVE SyncInv'
  BY <1>8 DEF createRoleFails, SyncInv
<1>9. CASE persistedRoles
  BY <1>9 DEF persistedRoles, SyncInv, syncedHost, roleName
<1>10. ASSUME inRole
       PROVE  host \in HostCredentials /\ roleName \in LoginRoles /\ member \in Memberships
  BY <1>10, SpecChoicesType DEF WorkerInv, TypeOK, Memberships, roleName, LoginRoles, Specs
<1>11. CASE grantRoles
  <2>1. CASE ~(addableRoles(existing, wanted) \subseteq exists[host])
    <3>1. /\ pc = "grant" /\ pc' \in {"iam", "createRole"} /\ failed' /\ host' = None
          /\ UNCHANGED <<grouped, todo>>
          /\ pc' = "iam" => todo = {}
      BY <1>11, <2>1 DEF grantRoles
    <3>2. QED BY <3>1 DEF SyncInv
  <2>2. CASE addableRoles(existing, wanted) \subseteq exists[host]
    <3>1. /\ member' = [member EXCEPT ![host][roleName] = @ \cup addableRoles(existing, wanted)]
          /\ pc = "grant" /\ pc' = "revoke"
          /\ UNCHANGED <<grouped, todo, host, existing, failed, snap>>
      BY <1>11, <2>2 DEF grantRoles
    <3>2. member'[host][roleName] = member[host][roleName] \cup addableRoles(existing, wanted)
      BY <1>10, <3>1 DEF Memberships
    <3>3. \A g \in HostCredentials : g # host => member'[g] = member[g]
      BY <1>10, <3>1 DEF Memberships
    <3>4. UNCHANGED <<roleName, wanted>>
      BY <3>1 DEF roleName, wanted
    <3>5. /\ existing \cup expectedRoles(wanted) \subseteq member'[host][roleName]
          /\ member'[host][roleName] \subseteq existing \cup expectedRoles(wanted) \cup OutOfBandRoles
      BY <3>1, <3>2 DEF SyncInv, addableRoles
    <3>6. ~failed => \A h \in hostsOf(grouped) \ (todo \cup {host}) :
                        syncedHost(h) /\ member'[h] = member[h]
      BY <3>1, <3>3 DEF SyncInv
    <3>7. QED BY <3>1, <3>4, <3>5, <3>6 DEF SyncInv, syncedHost, roleName, wanted
  <2>3. QED BY <2>1, <2>2
<1>12. CASE revokeRoles
  <2>1. /\ member' = [member EXCEPT ![host][roleName] = @ \ removeableRoles(existing, wanted)]
        /\ pc = "revoke" /\ UNCHANGED <<grouped, todo, failed, snap>>
        /\ host' = None /\ pc' \in {"iam", "createRole"}
        /\ pc' = "iam" => todo = {}
    BY <1>12 DEF revokeRoles, TypeOK
  <2>2. member'[host][roleName] = member[host][roleName] \ removeableRoles(existing, wanted)
    BY <1>10, <2>1 DEF Memberships
  <2>3. \A g \in HostCredentials : g # host => member'[g] = member[g]
    BY <1>10, <2>1 DEF Memberships
  <2>4. expectedRoles(wanted) \subseteq member'[host][roleName]
    BY <2>1, <2>2 DEF SyncInv, removeableRoles
  <2>5. removeableRoles(member'[host][roleName], wanted) \subseteq OutOfBandRoles
    BY <2>1, <2>2 DEF SyncInv, removeableRoles
  <2>6. hostsOf(grouped) \subseteq HostCredentials
    BY <2>1 DEF SyncInv
  <2>7. ~failed => \A h \in hostsOf(grouped) \ todo :
           /\ expectedRoles(onHost(grouped, h)) \subseteq member'[h][roleName]
           /\ removeableRoles(member'[h][roleName], onHost(grouped, h)) \subseteq OutOfBandRoles
    <3> SUFFICES ASSUME ~failed, NEW h \in hostsOf(grouped) \ todo
                 PROVE  /\ expectedRoles(onHost(grouped, h)) \subseteq member'[h][roleName]
                        /\ removeableRoles(member'[h][roleName], onHost(grouped, h))
                              \subseteq OutOfBandRoles
      OBVIOUS
    <3>1. CASE h = host
      BY <3>1, <2>4, <2>5 DEF wanted
    <3>2. CASE h # host
      BY <3>2, <2>1, <2>3, <2>6 DEF SyncInv, syncedHost
    <3>3. QED BY <3>1, <3>2
  <2>8. ~failed => \A h \in hostsOf(grouped) \ (todo \cup {None}) : syncedHost(h)'
    BY <2>1, <2>7 DEF syncedHost, roleName
  <2>9. QED BY <2>1, <2>6, <2>8 DEF SyncInv
<1>13. CASE statementFails
  BY <1>13 DEF statementFails, SyncInv
<1>13a. CASE answerLost
  <2>1. /\ inRole /\ failed' /\ host' = None /\ UNCHANGED <<grouped, todo>>
        /\ pc' \in {"iam", "createRole"} /\ (pc' = "iam" => todo = {})
    BY <1>13a DEF answerLost
  <2>2. QED BY <2>1 DEF SyncInv
<1>14. ASSUME NEW g \in HostCredentials, NEW k \in LoginRoles, NEW q \in OutOfBandRoles,
              GrantOutOfBand(g, k, q)
       PROVE  SyncInv'
  <2>1. \A h \in HostCredentials, n \in LoginRoles :
           member[h][n] \subseteq member'[h][n] /\ member'[h][n] \subseteq member[h][n] \cup OutOfBandRoles
    BY <1>14 DEF GrantOutOfBand, TypeOK
  <2>2. UNCHANGED <<pc, grouped, todo, host, existing, failed, snap>>
    BY <1>14 DEF GrantOutOfBand
  <2>3. pc # "idle" => roleName \in LoginRoles
    BY SpecChoicesType DEF WorkerInv, roleName, LoginRoles, Specs
  <2>4. UNCHANGED <<roleName, wanted>>
    BY <2>2 DEF roleName, wanted
  <2>5. ASSUME NEW h \in hostsOf(grouped), hostsOf(grouped) \subseteq HostCredentials,
               pc # "idle", syncedHost(h)
        PROVE  syncedHost(h)'
    <3>1. /\ member[h][roleName] \subseteq member'[h][roleName]
          /\ member'[h][roleName] \subseteq member[h][roleName] \cup OutOfBandRoles
      BY <2>1, <2>3, <2>5
    <3>2. QED BY <2>2, <2>4, <2>5, <3>1 DEF syncedHost, removeableRoles
  <2>6. inRole => /\ member[host][roleName] \subseteq member'[host][roleName]
                  /\ member'[host][roleName] \subseteq member[host][roleName] \cup OutOfBandRoles
    BY <1>10, <2>1
  <2>7. (inHosts \/ pc = "iam") /\ ~failed =>
          \A h \in hostsOf(grouped) \ (todo \cup {host}) : syncedHost(h)'
    BY <2>5 DEF SyncInv
  <2>8. QED BY <2>2, <2>4, <2>6, <2>7 DEF SyncInv
<1>15. QED BY <1>1, <1>2, <1>3, <1>4, <1>4a, <1>5, <1>6, <1>7, <1>8, <1>9, <1>11, <1>12, <1>13, <1>13a,
             <1>14, SyncFrame

\* The inductive invariant behind SyncedOnSuccess holds in every behaviour.
LEMMA SyncInvariant == Spec => [](TypeOK /\ WorkerInv /\ SyncInv)
<1>1. Init => TypeOK /\ WorkerInv /\ SyncInv
  <2>1. Init => SyncInv
    BY DEF Init, SyncInv, inRole, inHosts
  <2>2. QED BY <2>1, InitType
<1>2. TypeOK /\ WorkerInv /\ SyncInv /\ [Next]_vars => (TypeOK /\ WorkerInv /\ SyncInv)'
  BY NextType, SyncNext
<1>3. QED BY <1>1, <1>2, PTL DEF Spec

\* In every instance, when SyncUser returns without error the login role holds,
\* on each host of the grouped accesses, all the roles they ask for and no other
\* role that the controller takes for one of its own, but for what was granted by
\* hand while Role was running (setRolesOnHosts, Role, rolesDiff).
THEOREM SuccessMeansSynced == Spec => []SyncedOnSuccess
<1>1. TypeOK /\ WorkerInv /\ SyncInv => SyncedOnSuccess
  <2> SUFFICES ASSUME TypeOK, SyncInv, pc = "iam", ~failed, NEW h \in hostsOf(grouped)
               PROVE  syncedHost(h)
    BY DEF SyncedOnSuccess, syncedHost
  <2>1. todo = {} /\ host = None /\ h \in HostCredentials
    BY DEF SyncInv, inHosts, inRole
  <2>2. h # None
    BY <2>1, UserControllerAssumption
  <2>3. QED BY <2>1, <2>2 DEF SyncInv
<1>2. QED BY <1>1, SyncInvariant, PTL

-----------------------------------------------------------------------------
(* What a step may never do to a login role.                               *)

\* Only REVOKE takes roles away, and only from the login role at hand.
LEMMA OnlyRevokeRemoves ==
    ASSUME TypeOK, WorkerInv, [Next]_vars, NEW h \in HostCredentials, NEW n \in LoginRoles,
           NEW r \in member[h][n], r \notin member'[h][n]
    PROVE  /\ pc = "revoke" /\ h = host /\ n = roleName
           /\ r \in removeableRoles(existing, wanted)
           /\ member'[h][n] = member[h][n] \ removeableRoles(existing, wanted)
<1>1. ASSUME pc \in {"grant", "revoke"}
      PROVE  host \in HostCredentials /\ roleName \in LoginRoles /\ member \in Memberships
  BY <1>1, SpecChoicesType DEF WorkerInv, TypeOK, Memberships, roleName, LoginRoles, Specs
<1>2. ASSUME pc = "grant",
             member' = [member EXCEPT ![host][roleName] = @ \cup addableRoles(existing, wanted)]
      PROVE  FALSE
  BY <1>1, <1>2 DEF Memberships
<1>3. ASSUME NEW g \in HostCredentials, NEW k \in LoginRoles, NEW q \in OutOfBandRoles,
             GrantOutOfBand(g, k, q)
      PROVE  FALSE
  BY <1>3 DEF GrantOutOfBand, TypeOK
<1>4. CASE grantRoles \/ revokeRoles \/ answerLost
  <2>1. /\ pc = "revoke"
        /\ member' = [member EXCEPT ![host][roleName] = @ \ removeableRoles(existing, wanted)]
    BY <1>2, <1>4 DEF grantRoles, revokeRoles, answerLost
  <2>2. QED BY <1>1, <2>1 DEF Memberships
<1>5. QED BY <1>3, <1>4, GrantFrame

\* In every instance, a login role that holds some role of a database and is being
\* given one is never left without one in between (Role grants before it revokes,
\* and does not revoke when GRANT fails).
THEOREM NoGapInAccess == Spec => NoAccessGap
<1>1. TypeOK /\ WorkerInv /\ SyncInv /\ [Next]_vars =>
        [\A h \in HostCredentials, n \in LoginRoles, b \in Values :
            covered(h, n, b) /\ ~covered(h, n, b)' =>
                \A x \in onHost(grouped, h) : accessRole(x).base # b]_vars
  <2> SUFFICES ASSUME TypeOK, WorkerInv, SyncInv, [Next]_vars,
                      NEW h \in HostCredentials, NEW n \in LoginRoles, NEW b \in Values,
                      covered(h, n, b), ~covered(h, n, b)',
                      NEW x \in onHost(grouped, h), accessRole(x).base = b
               PROVE  FALSE
    OBVIOUS
  <2>1. PICK r \in member[h][n] : r.base = b /\ hasSuffix(r)
    BY DEF covered
  <2>2. r \notin member'[h][n]
    BY <2>1 DEF covered
  <2>3. /\ pc = "revoke" /\ h = host /\ n = roleName
        /\ member'[h][n] = member[h][n] \ removeableRoles(existing, wanted)
    BY <2>1, <2>2, OnlyRevokeRemoves
  <2>4. accessRole(x) \in expectedRoles(wanted) /\ hasSuffix(accessRole(x))
    BY <2>3, AccessRoleType DEF wanted, expectedRoles, accessRoles, TypeOK, onHost
  <2>5. accessRole(x) \in member'[h][n]
    BY <2>3, <2>4 DEF SyncInv, removeableRoles
  <2>6. QED BY <2>4, <2>5 DEF covered
<1>2. QED BY <1>1, SyncInvariant, PTL DEF Spec, NoAccessGap

-----------------------------------------------------------------------------
(* No IAM entry outlives its resource.                                     *)

\* The finalizer is on the resource from before the first EnsureIAMUser until
\* after RemoveIAMUser, and a resource with a finalizer is not removed.
OwnerInv ==
    /\ \A u \in finalizers : obj[u] # "absent"
    /\ pc \notin {"idle", "addFinalizer"} => user \in finalizers
    /\ fresh => pc # "idle" /\ obj[user] # "absent"
    /\ pc # "idle" => snap.name = spec[user].name
    /\ pc = "removeFinalizer" => snap.name \notin iam

\* Which steps touch what this part is about.
LEMMA OwnerFrame ==
    ASSUME TypeOK, [Next]_vars
    PROVE  \/ /\ UNCHANGED <<obj, spec, finalizers, iam>>
              /\ \/ UNCHANGED <<pc, user, snap, fresh>>
                 \/ pc' = "idle" /\ fresh' = FALSE
                 \/ /\ pc \notin {"idle", "addFinalizer", "removeFinalizer"}
                    /\ pc' \notin {"idle", "addFinalizer", "removeFinalizer"}
                    /\ UNCHANGED <<user, snap, fresh>>
           \/ \E u \in Users : Get(u) \/ CreateUser(u) \/ DeleteUser(u) \/ Collect(u)
           \/ \E u \in Users : \E s \in SpecChoices[u] : EditUser(u, s)
           \/ AddFinalizer \/ finalizeUser \/ finalizeUserFails \/ RemoveFinalizer
           \/ ensureIAMUser \/ ensureIAMUserFails
<1> USE DEF Return, roleReturns, nextHost
<1>1. CASE UNCHANGED vars \/ Resync
  BY <1>1 DEF vars, Resync
<1>2. CASE Worker
  <2>1. CASE \E u \in Users : GetNothing(u)
    BY <2>1 DEF GetNothing
  <2>2. CASE (\E a \in left : Group(a)) \/ Grouped \/ connectToHosts \/ finalizeUserRefused
    BY <2>2 DEF Group, groupAccess, Grouped, connectToHosts, finalizeUserRefused
  <2>3. CASE \E h \in HostCredentials : createRole(h)
    BY <2>3 DEF createRole
  <2>4. CASE persistedRoles \/ grantRoles \/ revokeRoles
    BY <2>4 DEF persistedRoles, grantRoles, revokeRoles
  <2>5. QED BY <1>2, <2>1, <2>2, <2>3, <2>4 DEF Worker
<1>3. CASE Faults
  <2>1. CASE (\E a \in left : GroupListFails(a)) \/ connectToHostsFails \/ statementFails \/ answerLost
    BY <2>1 DEF GroupListFails, groupAccess, connectToHostsFails, statementFails, answerLost
  <2>2. CASE \E h \in HostCredentials : createRoleFails(h)
    BY <2>2 DEF createRoleFails
  <2>3. CASE UpdateFails \/ Restart
    BY <2>3 DEF UpdateFails, Restart
  <2>4. QED BY <1>3, <2>1, <2>2, <2>3 DEF Faults
<1>4. CASE Environment
  <2>1. CASE \E s \in Sources : \E v \in StoreChoices[s] : ChangeSource(s, v)
    BY <2>1 DEF ChangeSource
  <2>2. CASE \E d \in Databases : DatabaseRuns(d) \/ DatabaseFails(d)
    BY <2>2 DEF DatabaseRuns, DatabaseFails
  <2>3. CASE \E h \in HostCredentials, n \in LoginRoles, r \in OutOfBandRoles : GrantOutOfBand(h, n, r)
    BY <2>3 DEF GrantOutOfBand
  <2>4. CASE Tick
    BY <2>4 DEF Tick
  <2>5. QED BY <1>4, <2>1, <2>2, <2>3, <2>4 DEF Environment
<1>5. QED BY <1>1, <1>2, <1>3, <1>4 DEF Next

\* While spec.name stays the same, no step leaves an IAM entry without its finalizer.
LEMMA OwnerNext ==
    ASSUME stableNames, TypeOK, WorkerInv, OwnerInv, IamOwned, [Next]_vars
    PROVE  OwnerInv' /\ IamOwned'
<1> USE DEF Return, Touch, marked, hasFinalizer
<1>0. \A u \in Users : obj[u] \in {"absent", "live", "deleting"}
  BY DEF TypeOK
<1>1. CASE UNCHANGED <<obj, spec, finalizers, iam>> /\ UNCHANGED <<pc, user, snap, fresh>>
  BY <1>1 DEF OwnerInv, IamOwned
<1>2. CASE UNCHANGED <<obj, spec, finalizers, iam>> /\ pc' = "idle" /\ fresh' = FALSE
  BY <1>2 DEF OwnerInv, IamOwned
<1>3. CASE /\ UNCHANGED <<obj, spec, finalizers, iam>>
           /\ pc \notin {"idle", "addFinalizer", "removeFinalizer"}
           /\ pc' \notin {"idle", "addFinalizer", "removeFinalizer"}
           /\ UNCHANGED <<user, snap, fresh>>
  BY <1>3 DEF OwnerInv, IamOwned
<1>4. ASSUME NEW u \in Users, Get(u) PROVE OwnerInv' /\ IamOwned'
  <2>1. /\ pc' \in {"finalize", "addFinalizer", "group"}
        /\ pc' # "addFinalizer" => u \in finalizers
        /\ obj[u] # "absent"
    BY <1>4 DEF Get
  <2>2. UNCHANGED <<obj, spec, finalizers, iam>> /\ user' = u /\ snap' = spec[u]
    BY <1>4 DEF Get
  <2>3. QED BY <2>1, <2>2 DEF OwnerInv, IamOwned
<1>5. ASSUME NEW u \in Users, CreateUser(u) \/ DeleteUser(u) PROVE OwnerInv' /\ IamOwned'
  <2>1. /\ obj' = [obj EXCEPT ![u] = obj'[u]] /\ obj'[u] \in {"live", "deleting"}
        /\ UNCHANGED <<spec, finalizers, iam, pc, user, snap>>
        /\ fresh' => fresh
    BY <1>5 DEF CreateUser, DeleteUser, TypeOK
  <2>2. \A v \in Users : obj[v] # "absent" => obj'[v] # "absent"
    BY <2>1 DEF TypeOK
  <2>3. OwnerInv'
    BY <2>1, <2>2 DEF OwnerInv, TypeOK, WorkerInv
  <2>4. QED BY <2>1, <2>2, <2>3 DEF IamOwned
<1>6. ASSUME NEW u \in Users, Collect(u) PROVE OwnerInv' /\ IamOwned'
  <2>1. /\ u \notin finalizers /\ \A v \in Users : v # u => obj'[v] = obj[v]
        /\ UNCHANGED <<spec, finalizers, iam, pc, user, snap>>
        /\ fresh' = (fresh /\ user # u)
    BY <1>6 DEF Collect, TypeOK
  <2>2. OwnerInv'
    BY <2>1 DEF OwnerInv, TypeOK, WorkerInv
  <2>3. QED BY <2>1, <2>2 DEF IamOwned
<1>7. ASSUME NEW u \in Users, NEW s \in SpecChoices[u], EditUser(u, s) PROVE OwnerInv' /\ IamOwned'
  <2>1. /\ UNCHANGED <<obj, finalizers, iam, pc, user, snap>>
        /\ fresh' => fresh
        /\ \A v \in Users : spec'[v].name = spec[v].name
    BY <1>7 DEF EditUser, TypeOK, WorkerInv, stableNames
  <2>2. OwnerInv'
    BY <2>1 DEF OwnerInv, WorkerInv
  <2>3. QED BY <2>1, <2>2 DEF IamOwned
<1>8. CASE AddFinalizer
  <2>1. /\ pc' = "idle" /\ fresh' = FALSE /\ UNCHANGED <<obj, spec, iam>>
        /\ finalizers \subseteq finalizers'
        /\ finalizers' \subseteq finalizers \cup {v \in {user} : fresh}
    BY <1>8 DEF AddFinalizer
  <2>2. QED BY <2>1 DEF OwnerInv, IamOwned
<1>9. CASE finalizeUser
  <2>1. /\ pc = "finalize" /\ pc' = "removeFinalizer" /\ iam' = iam \ {snap.name}
        /\ UNCHANGED <<obj, spec, finalizers, user, snap, fresh>>
    BY <1>9 DEF finalizeUser
  <2>2. QED BY <2>1 DEF OwnerInv, IamOwned
<1>10. CASE finalizeUserFails
  <2>1. /\ pc' = "idle" /\ fresh' = FALSE /\ iam' \subseteq iam
        /\ UNCHANGED <<obj, spec, finalizers>>
    BY <1>10 DEF finalizeUserFails
  <2>2. QED BY <2>1 DEF OwnerInv, IamOwned
<1>11. CASE RemoveFinalizer
  <2>1. /\ pc = "removeFinalizer" /\ pc' = "idle" /\ fresh' = FALSE /\ UNCHANGED <<obj, spec, iam>>
        /\ finalizers' \subseteq finalizers /\ finalizers \subseteq finalizers' \cup {user}
    BY <1>11 DEF RemoveFinalizer
  <2>2. OwnerInv'
    BY <2>1 DEF OwnerInv
  <2>3. IamOwned'
    BY <2>1 DEF OwnerInv, IamOwned
  <2>4. QED BY <2>2, <2>3
<1>12. CASE ensureIAMUser \/ ensureIAMUserFails
  <2>1. /\ pc = "iam" /\ pc' = "idle" /\ fresh' = FALSE /\ iam' \subseteq iam \cup {snap.name}
        /\ UNCHANGED <<obj, spec, finalizers>>
    BY <1>12 DEF ensureIAMUser, ensureIAMUserFails
  <2>2. user \in Users /\ user \in finalizers /\ obj[user] # "absent" /\ snap.name = spec[user].name
    BY <2>1 DEF OwnerInv, WorkerInv
  <2>3. QED BY <2>1, <2>2 DEF OwnerInv, IamOwned
<1>13. QED BY <1>1, <1>2, <1>3, <1>4, <1>5, <1>6, <1>7, <1>8, <1>9, <1>10, <1>11, <1>12, OwnerFrame

\* In every instance in which spec.name is not edited, each name in IAM belongs to
\* a resource that exists and carries the finalizer, so that deleting the last
\* resource of a name cannot leave its entry behind (reconcile, finalizeUser).
THEOREM NoOrphanedIam == stableNames => (Spec => []IamOwned)
<1> SUFFICES ASSUME stableNames PROVE Spec => []IamOwned
  OBVIOUS
<1> DEFINE Inv == TypeOK /\ WorkerInv /\ OwnerInv /\ IamOwned
<1>1. Init => Inv
  <2>1. Init => OwnerInv /\ IamOwned
    BY DEF Init, OwnerInv, IamOwned
  <2>2. QED BY <2>1, InitType
<1>2. Inv /\ [Next]_vars => Inv'
  BY NextType, OwnerNext
<1>3. QED BY <1>1, <1>2, PTL DEF Spec
=============================================================================

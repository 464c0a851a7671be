--------------------- MODULE CustomRoleControllerProofs ---------------------
(***************************************************************************)
(* Proofs about CustomRoleController: for any resources, hosts, databases  *)
(* and specs, whatever fails and whenever.                                 *)
(***************************************************************************)
EXTENDS CustomRoleController, TLAPS

-----------------------------------------------------------------------------
(* Types.                                                                  *)

\* A status is a status (CustomRoleStatus).
LEMMA StatusTyped ==
    ASSUME NEW p \in {"", "Running", "Failed", "Invalid"}, NEW f \in Hosts \cup {NoHost}
    PROVE  [phase |-> p, failingHost |-> f] \in CustomRoleStatus
BY DEF CustomRoleStatus

\* Writing the status keeps the resources well-formed (persistStatus).
LEMMA PersistTyped ==
    ASSUME TypeOK, Held, pc # "idle",
           NEW p \in {"", "Running", "Failed", "Invalid"}, NEW f \in Hosts \cup {NoHost},
           persistStatus(p, f)
    PROVE  /\ objects' \in [CustomRoles -> Objects \cup {Absent}]
           /\ \A c \in CustomRoles : (objects'[c] = Absent) = (objects[c] = Absent)
           /\ \A c \in CustomRoles :
                 objects[c] # Absent => objects'[c].finalizer = objects[c].finalizer
<1> DEFINE st == [phase |-> p, failingHost |-> f]
<1>1. st \in CustomRoleStatus BY StatusTyped
<1>2. objects \in [CustomRoles -> Objects \cup {Absent}] /\ cr \in CustomRoles /\ copy \in Objects
  BY DEF TypeOK, Held
<1>3. CASE objects' = objects BY <1>2, <1>3
<1>4. CASE fresh /\ objects' = [objects EXCEPT ![cr].status = st]
  <2>1. objects[cr] = copy BY <1>4 DEF Held
  <2>2. [objects[cr] EXCEPT !.status = st] \in Objects
    BY <1>1, <1>2, <2>1 DEF Objects
  <2>3. [objects[cr] EXCEPT !.status = st].finalizer = objects[cr].finalizer
    BY <1>2, <2>1 DEF Objects
  <2>4. objects[cr] # Absent BY <1>2, <2>1, AbsentAssumption
  <2>5. objects' = [objects EXCEPT ![cr] = [objects[cr] EXCEPT !.status = st]] BY <1>4
  <2>6. QED BY <1>2, <2>2, <2>3, <2>4, <2>5, AbsentAssumption
<1>5. QED BY <1>3, <1>4 DEF persistStatus

\* What remains to be typed of a reconcile that ends.
LEMMA ReturnTyped ==
    ASSUME TypeOK, Held, pc # "idle", NEW again \in BOOLEAN, return(again)
    PROVE  /\ queue' \subseteq CustomRoles /\ pc' = "idle"
           /\ cr' \in CustomRoles \cup {Absent} /\ copy' \in Objects \cup {Absent}
           /\ fresh' \in BOOLEAN /\ fresh' = FALSE /\ host' = NoHost
           /\ hosts' \subseteq Hosts /\ host' \in Hosts \cup {NoHost}
           /\ listed' \in [Hosts -> SUBSET UserDatabases] /\ work' \subseteq Tasks
BY DEF return, TypeOK, Held

\* Every planned call on grants is one of two (reconcileGrantsOnHost).
LEMMA GrantTask ==
    ASSUME NEW T \in SUBSET Databases, NEW A \in SUBSET UserDatabases,
           NEW t \in reconcileGrantsOnHost(T, A)
    PROVE  /\ t \in Tasks /\ t.kind = "grants"
           /\ \/ t.stage = 1 /\ t.wanted /\ t.database \in T /\ t.database # Postgres
              \/ t.stage = 2 /\ ~t.wanted /\ t.database \in A /\ t.database \notin T
<1>1. A \subseteq Databases BY DEF Databases
<1>2. CASE \E d \in T \ {Postgres} : t = task(1, "grants", d, TRUE)
  <2>1. PICK d \in T \ {Postgres} : t = task(1, "grants", d, TRUE) BY <1>2
  <2>2. t = [stage |-> 1, kind |-> "grants", database |-> d, wanted |-> TRUE] BY <2>1 DEF task
  <2>3. QED BY <2>2 DEF Tasks, Kinds
<1>3. CASE \E d \in A \ T : t = task(2, "grants", d, FALSE)
  <2>1. PICK d \in A \ T : t = task(2, "grants", d, FALSE) BY <1>3
  <2>2. t = [stage |-> 2, kind |-> "grants", database |-> d, wanted |-> FALSE] BY <2>1 DEF task
  <2>3. QED BY <1>1, <2>2 DEF Tasks, Kinds
<1>4. QED BY <1>2, <1>3 DEF reconcileGrantsOnHost

\* Every planned call on functions is one of four (reconcileFunctionsOnHost).
LEMMA FunctionTask ==
    ASSUME NEW T \in SUBSET Databases, NEW A \in SUBSET UserDatabases,
           NEW t \in reconcileFunctionsOnHost(T, A)
    PROVE  /\ t \in Tasks /\ t.kind = "functions"
           /\ \/ t.stage = 3 /\ ~t.wanted /\ t.database = Postgres /\ A = {}
              \/ t.stage = 4 /\ t.wanted /\ t.database \in T
              \/ t.stage = 5 /\ ~t.wanted /\ t.database = Postgres /\ Postgres \notin T
              \/ t.stage = 6 /\ ~t.wanted /\ t.database \in A /\ t.database \notin T
<1>1. A \subseteq Databases /\ Postgres \in Databases BY DEF Databases
<1>2. CASE A = {} /\ t = task(3, "functions", Postgres, FALSE)
  BY <1>1, <1>2 DEF task, Tasks, Kinds
<1>3. CASE \E d \in T : t = task(4, "functions", d, TRUE)
  <2>1. PICK d \in T : t = task(4, "functions", d, TRUE) BY <1>3
  <2>2. t = [stage |-> 4, kind |-> "functions", database |-> d, wanted |-> TRUE] BY <2>1 DEF task
  <2>3. QED BY <2>2 DEF Tasks, Kinds
<1>4. CASE Postgres \notin T /\ t = task(5, "functions", Postgres, FALSE)
  BY <1>1, <1>4 DEF task, Tasks, Kinds
<1>5. CASE \E d \in A \ T : t = task(6, "functions", d, FALSE)
  <2>1. PICK d \in A \ T : t = task(6, "functions", d, FALSE) BY <1>5
  <2>2. t = [stage |-> 6, kind |-> "functions", database |-> d, wanted |-> FALSE] BY <2>1 DEF task
  <2>3. QED BY <1>1, <2>2 DEF Tasks, Kinds
<1>6. QED BY <1>2, <1>3, <1>4, <1>5 DEF reconcileFunctionsOnHost

\* Every database that is served or cleaned up gets a call on its grants, ...
LEMMA GrantsPlanned ==
    ASSUME NEW T \in SUBSET Databases, NEW A \in SUBSET UserDatabases, NEW d \in T \cup A, d # Postgres
    PROVE  \E t \in reconcileGrantsOnHost(T, A) : t.kind = "grants" /\ t.database = d
<1>1. CASE d \in T
  <2>1. task(1, "grants", d, TRUE) \in reconcileGrantsOnHost(T, A) BY <1>1 DEF reconcileGrantsOnHost
  <2>2. QED BY <2>1 DEF task
<1>2. CASE d \in A \ T
  <2>1. task(2, "grants", d, FALSE) \in reconcileGrantsOnHost(T, A) BY <1>2 DEF reconcileGrantsOnHost
  <2>2. QED BY <2>1 DEF task
<1>3. QED BY <1>1, <1>2

\* ... and on its functions, and so does postgres.
LEMMA FunctionsPlanned ==
    ASSUME NEW T \in SUBSET Databases, NEW A \in SUBSET UserDatabases,
           NEW d \in T \cup A \cup {Postgres}
    PROVE  \E t \in reconcileFunctionsOnHost(T, A) : t.kind = "functions" /\ t.database = d
<1>1. CASE d \in T
  <2>1. task(4, "functions", d, TRUE) \in reconcileFunctionsOnHost(T, A)
    BY <1>1 DEF reconcileFunctionsOnHost
  <2>2. QED BY <2>1 DEF task
<1>2. CASE d \in A \ T
  <2>1. task(6, "functions", d, FALSE) \in reconcileFunctionsOnHost(T, A)
    BY <1>2 DEF reconcileFunctionsOnHost
  <2>2. QED BY <2>1 DEF task
<1>3. CASE d = Postgres /\ d \notin T /\ A = {}
  <2>1. task(3, "functions", d, FALSE) \in reconcileFunctionsOnHost(T, A)
    BY <1>3 DEF reconcileFunctionsOnHost
  <2>2. QED BY <2>1 DEF task
<1>4. CASE d = Postgres /\ d \notin T /\ A # {}
  <2>1. task(5, "functions", d, FALSE) \in reconcileFunctionsOnHost(T, A)
    BY <1>4 DEF reconcileFunctionsOnHost
  <2>2. QED BY <2>1 DEF task
<1>5. QED BY <1>1, <1>2, <1>3, <1>4

\* The databases that are served, and those that are cleaned up, are not reserved
\* (resolveTargetDatabases).
LEMMA TargetsTyped ==
    ASSUME NEW spec \in SpecType, NEW found \in SUBSET UserDatabases
    PROVE  /\ targetsOf(spec, found) \subseteq Databases
           /\ allUserDatabases(spec, found) \subseteq UserDatabases
BY DEF targetsOf, allUserDatabases, SpecType, Databases

\* The parts of the type invariant.
ApiTyped == objects \in [CustomRoles -> Objects \cup {Absent}] /\ queue \subseteq CustomRoles
ServerTyped ==
    /\ dbPhase \in [UserDatabases -> {"absent", "created", "server", "Running"}]
    /\ up \subseteq Hosts /\ roles \in [Hosts -> SUBSET CustomRoles]
    /\ members \in [Hosts -> SUBSET (CustomRoles \X (CustomRoles \cup OtherRoles))]
ContentsTyped ==
    contents \in [Kinds \X Hosts \X Databases \X CustomRoles ->
                   Contents \cup {Nothing, Partial, Obstructed}]
LocalsTyped ==
    /\ pc \in {"idle", "finalizer", "hosts", "resolve", "role", "memberships", "work", "clean",
               "cleanWork"}
    /\ cr \in CustomRoles \cup {Absent} /\ copy \in Objects \cup {Absent} /\ fresh \in BOOLEAN
    /\ hosts \subseteq Hosts /\ host \in Hosts \cup {NoHost}
    /\ listed \in [Hosts -> SUBSET UserDatabases] /\ work \subseteq Tasks
BoundsTyped == edits \in 0..MaxEdits /\ faults \in 0..MaxFaults

\* They are all of it.
LEMMA TypeParts ==
    TypeOK <=> ApiTyped /\ ServerTyped /\ ContentsTyped /\ LocalsTyped /\ BoundsTyped
BY DEF TypeOK, ApiTyped, ServerTyped, ContentsTyped, LocalsTyped, BoundsTyped

\* A call that returns nil, with or without statements that were skipped.
Served(t) == SyncDatabase(t) \/ SkipsStatements(t)

\* A call that returns the error of a statement that is refused.
Refused(t) == SyncRefused(t) \/ CleanRefused(t)

\* The bounds are kept by every action.
LEMMA BoundsStep == ASSUME BoundsTyped, Next PROVE BoundsTyped'
<1> USE DEF BoundsTyped
<1>1. CASE UNCHANGED bounds BY <1>1 DEF bounds
<1>2. CASE fault BY <1>2, ControllerAssumption DEF fault
<1>3. CASE edits < MaxEdits /\ edits' = edits + 1 /\ UNCHANGED faults BY <1>3, ControllerAssumption
<1>4. CASE UNCHANGED edits /\ UNCHANGED faults BY <1>4
<1>5. ASSUME NEW c \in CustomRoles, NEW sp, Create(c, sp) \/ Edit(c, sp) PROVE BoundsTyped'
  BY <1>3, <1>5 DEF Create, Edit, change
<1>6. ASSUME NEW c \in CustomRoles, Delete(c) PROVE BoundsTyped' BY <1>4, <1>6 DEF Delete, change
<1>7. ASSUME Environment PROVE BoundsTyped'
  <2>1. ASSUME NEW t \in work, NEW kind \in Kinds, SyncFails(t, kind) PROVE BoundsTyped'
    BY <1>2, <2>1 DEF SyncFails
  <2>2. CASE Restart BY <1>2, <2>2 DEF Restart
  <2>3. ASSUME NEW h \in Hosts, HostDown(h) \/ HostUp(h) PROVE BoundsTyped'
    BY <1>1, <1>2, <2>3 DEF HostDown, HostUp
  <2>4. ASSUME NEW d \in UserDatabases, DatabaseAdvances(d) PROVE BoundsTyped'
    BY <1>1, <2>4 DEF DatabaseAdvances
  <2>5. QED BY <1>5, <1>6, <1>7, <2>1, <2>2, <2>3, <2>4 DEF Environment
<1>8. ASSUME Reconcile PROVE UNCHANGED bounds
  BY <1>8 DEF Reconcile, AddFinalizer, Resolve, EnsureCustomRole, RevokeRole, GrantRoles, HostDone,
              HostFails, AllHostsDone, SyncDatabase, SkipsStatements, SyncRefused, SyncInvalid,
              CleanDatabase, CleanRefused, CleanHost, DropCustomRole, DropRefused, CleanFails,
              RemoveFinalizer
<1>9. ASSUME (\E c \in CustomRoles : Fetch(c)) \/ (\E h \in Hosts : PickHost(h))
      PROVE  UNCHANGED bounds
  BY <1>9 DEF Fetch, PickHost
<1>10. QED BY <1>1, <1>7, <1>8, <1>9 DEF Next

\* The servers keep their types.
LEMMA ServerStep == ASSUME TypeOK, Held, InHand, Next PROVE ServerTyped'
<1>0. ServerTyped /\ LocalsTyped BY TypeParts
<1> USE DEF ServerTyped
<1>1. CASE UNCHANGED <<dbPhase, up, roles, members>> BY <1>0, <1>1
<1>2. CASE EnsureCustomRole
  <2>1. host \in Hosts /\ cr \in CustomRoles BY <1>2 DEF EnsureCustomRole, Held, InHand
  <2>2. QED BY <1>0, <1>2, <2>1 DEF EnsureCustomRole
<1>3. ASSUME NEW g \in CustomRoles \cup OtherRoles, RevokeRole(g) PROVE ServerTyped'
  BY <1>0, <1>3 DEF RevokeRole
<1>4. CASE GrantRoles
  <2>1. host \in Hosts /\ cr \in CustomRoles /\ copy \in Objects
    BY <1>4 DEF GrantRoles, Held, InHand
  <2>2. copy.spec.grantRoles \subseteq CustomRoles \cup OtherRoles BY <2>1 DEF Objects, SpecType
  <2>3. {<<cr, g>> : g \in copy.spec.grantRoles} \subseteq CustomRoles \X (CustomRoles \cup OtherRoles)
    BY <2>1, <2>2
  <2>4. QED BY <1>0, <1>4, <2>1, <2>3 DEF GrantRoles
<1>5. CASE DropCustomRole BY <1>0, <1>5 DEF DropCustomRole
<1>6. ASSUME NEW h \in Hosts, HostDown(h) \/ HostUp(h) PROVE ServerTyped'
  BY <1>0, <1>6 DEF HostDown, HostUp
<1>7. ASSUME NEW d \in UserDatabases, DatabaseAdvances(d) PROVE ServerTyped'
  BY <1>0, <1>7 DEF DatabaseAdvances
<1>8. ASSUME Reconcile PROVE ServerTyped'
  <2>1. CASE AddFinalizer \/ Resolve \/ HostDone \/ HostFails \/ AllHostsDone \/ DropRefused
               \/ CleanFails \/ RemoveFinalizer
    BY <1>1, <2>1 DEF AddFinalizer, Resolve, HostDone, HostFails, AllHostsDone, DropRefused,
                     CleanFails, RemoveFinalizer, world
  <2>2. CASE \E t \in work : Served(t) \/ Refused(t) \/ SyncInvalid(t) \/ CleanDatabase(t)
    BY <1>1, <2>2 DEF Served, SyncDatabase, SkipsStatements, Refused, SyncRefused, CleanRefused,
                     SyncInvalid, CleanDatabase, world
  <2>3. CASE \E h \in Hosts : CleanHost(h) BY <1>1, <2>3 DEF CleanHost, world
  <2>4. QED BY <1>2, <1>3, <1>4, <1>5, <1>8, <2>1, <2>2, <2>3 DEF Reconcile, Served, Refused
<1>9. ASSUME Environment PROVE ServerTyped'
  <2>1. CASE (\E t \in work, kind \in Kinds : SyncFails(t, kind)) \/ Restart
    BY <1>1, <2>1 DEF SyncFails, Restart, world
  <2>2. CASE \E c \in CustomRoles : Delete(c) \/ \E sp \in Specs[c] : Create(c, sp) \/ Edit(c, sp)
    BY <1>1, <2>2 DEF Delete, Create, Edit, change, world
  <2>3. QED BY <1>6, <1>7, <1>9, <2>1, <2>2 DEF Environment
<1>10. CASE (\E c \in CustomRoles : Fetch(c)) \/ (\E h \in Hosts : PickHost(h))
  BY <1>1, <1>10 DEF Fetch, PickHost, world
<1>11. QED BY <1>8, <1>9, <1>10 DEF Next

-----------------------------------------------------------------------------
(* Contents.                                                               *)

Values == Contents \cup {Nothing, Partial, Obstructed}

\* What a call that succeeds leaves (syncGrantsOnDatabase, syncFunctionsOnDatabase).
LEMMA ContentsSet ==
    ASSUME ContentsTyped, NEW ks, NEW d0, NEW v \in Values, setContents(ks, d0, v)
    PROVE  /\ ContentsTyped'
           /\ \A kind \in Kinds, h \in Hosts, d \in Databases, c \in CustomRoles :
                 contents'[<<kind, h, d, c>>] =
                     IF kind \in ks /\ h = host /\ d = d0 /\ c = cr
                     THEN v ELSE contents[<<kind, h, d, c>>]
<1>1. DOMAIN contents = Kinds \X Hosts \X Databases \X CustomRoles BY DEF ContentsTyped
<1>2. \A x \in DOMAIN contents : contents[x] \in Values BY DEF ContentsTyped, Values
<1>3. contents' = [x \in Kinds \X Hosts \X Databases \X CustomRoles |->
                      IF x[1] \in ks /\ x[2] = host /\ x[3] = d0 /\ x[4] = cr
                      THEN v ELSE contents[x]]
  BY <1>1 DEF setContents
<1>4. ContentsTyped' BY <1>1, <1>2, <1>3 DEF ContentsTyped, Values
<1>5. ASSUME NEW kind \in Kinds, NEW h \in Hosts, NEW d \in Databases, NEW c \in CustomRoles
      PROVE  contents'[<<kind, h, d, c>>] =
                 IF kind \in ks /\ h = host /\ d = d0 /\ c = cr
                 THEN v ELSE contents[<<kind, h, d, c>>]
  <2>1. <<kind, h, d, c>> \in Kinds \X Hosts \X Databases \X CustomRoles OBVIOUS
  <2>2. QED BY <1>3, <2>1
<1>6. QED BY <1>4, <1>5

\* The same, for one index.
LEMMA ContentsSetAt ==
    ASSUME ContentsTyped, NEW ks, NEW d0, NEW v \in Values, setContents(ks, d0, v),
           NEW kind \in Kinds, NEW h \in Hosts, NEW d \in Databases, NEW c \in CustomRoles
    PROVE  /\ kind \in ks /\ h = host /\ d = d0 /\ c = cr => contents'[<<kind, h, d, c>>] = v
           /\ ~(kind \in ks /\ h = host /\ d = d0 /\ c = cr) =>
                  contents'[<<kind, h, d, c>>] = contents[<<kind, h, d, c>>]
<1>1. contents'[<<kind, h, d, c>>] = IF kind \in ks /\ h = host /\ d = d0 /\ c = cr
                                     THEN v ELSE contents[<<kind, h, d, c>>]
  BY ContentsSet
<1>2. QED BY <1>1

\* What a call that fails leaves.
LEMMA ContentsLost ==
    ASSUME ContentsTyped, NEW t, NEW kind0 \in Kinds, SyncFails(t, kind0)
    PROVE  /\ ContentsTyped'
           /\ \A kind \in Kinds, h \in Hosts, d \in Databases, c \in CustomRoles :
                 contents'[<<kind, h, d, c>>] \notin {Nothing, contents[<<kind, h, d, c>>]} =>
                     kind = kind0 /\ h = host /\ d = t.database /\ c = cr
<1>1. DOMAIN contents = Kinds \X Hosts \X Databases \X CustomRoles BY DEF ContentsTyped
<1>2. \A x \in DOMAIN contents : contents[x] \in Values BY DEF ContentsTyped, Values
<1>3. contents' = [x \in Kinds \X Hosts \X Databases \X CustomRoles |->
                      IF <<x[2], x[3], x[4]>> # <<host, t.database, cr>> THEN contents[x]
                      ELSE IF x[1] = kind0 THEN Partial
                      ELSE IF t.kind = "both" /\ kind0 = "grants" THEN Nothing ELSE contents[x]]
  BY <1>1 DEF SyncFails
<1>4. ContentsTyped' BY <1>1, <1>2, <1>3 DEF ContentsTyped, Values
<1>5. ASSUME NEW kind \in Kinds, NEW h \in Hosts, NEW d \in Databases, NEW c \in CustomRoles,
             contents'[<<kind, h, d, c>>] \notin {Nothing, contents[<<kind, h, d, c>>]}
      PROVE  kind = kind0 /\ h = host /\ d = t.database /\ c = cr
  <2>1. <<kind, h, d, c>> \in Kinds \X Hosts \X Databases \X CustomRoles OBVIOUS
  <2>2. contents'[<<kind, h, d, c>>] =
            IF <<h, d, c>> # <<host, t.database, cr>> THEN contents[<<kind, h, d, c>>]
            ELSE IF kind = kind0 THEN Partial
            ELSE IF t.kind = "both" /\ kind0 = "grants" THEN Nothing ELSE contents[<<kind, h, d, c>>]
    BY <1>3, <2>1
  <2>3. QED BY <1>5, <2>2
<1>6. QED BY <1>4, <1>5

\* What is wanted is a content, or nothing.
LEMMA WantedTyped ==
    ASSUME Held, pc # "idle", NEW t PROVE wantedContent(t) \in Values
BY DEF Held, Objects, SpecType, wantedContent, Values

\* What a call that returns nil leaves: what was asked for, or grants that were skipped.
LEMMA ServedSets ==
    ASSUME Held, NEW t, Served(t)
    PROVE  \E v \in Values : /\ v \in {wantedContent(t)} \cup skippable(t.kind)
                            /\ setContents({t.kind}, t.database, v)
<1>1. CASE SyncDatabase(t)
  <2>1. wantedContent(t) \in Values BY <1>1, WantedTyped DEF SyncDatabase
  <2>2. QED BY <1>1, <2>1 DEF SyncDatabase
<1>2. CASE SkipsStatements(t)
  BY <1>2 DEF SkipsStatements, skippable, Values
<1>3. QED BY <1>1, <1>2 DEF Served

\* What a call that is refused leaves.
LEMMA RefusedSets ==
    ASSUME NEW t, Refused(t)
    PROVE  /\ setContents({"functions"}, t.database, Obstructed) /\ Obstructed \in Values
           /\ \/ SyncRefused(t)
              \/ contents[<<"functions", host, t.database, cr>>] # Nothing
BY DEF Refused, SyncRefused, CleanRefused, contentOf, Values

\* What a cleanup of a database leaves: nothing, but for grants it could not revoke.
LEMMA ContentsCleaned ==
    ASSUME ContentsTyped, NEW t, CleanDatabase(t)
    PROVE  /\ ContentsTyped'
           /\ \A kind \in Kinds, h \in Hosts, d \in Databases, c \in CustomRoles :
                 \/ contents'[<<kind, h, d, c>>] = Nothing
                 \/ /\ contents'[<<kind, h, d, c>>] = contents[<<kind, h, d, c>>]
                    /\ ~(t.kind \in {kind, "both"} /\ h = host /\ d = t.database /\ c = cr)
                 \/ /\ kind = "grants" /\ contents'[<<kind, h, d, c>>] = Obstructed
                    /\ contents[<<kind, h, d, c>>] # Nothing
                    /\ h = host /\ c = cr
<1> DEFINE ks == IF t.kind = "both" THEN Kinds ELSE {t.kind}
<1>1. CASE setContents(ks, t.database, Nothing)
  <2>1. Nothing \in Values BY DEF Values
  <2>2. \A kind \in Kinds : t.kind \in {kind, "both"} <=> kind \in ks BY DEF Kinds
  <2> HIDE DEF ks
  <2>3. ContentsTyped' BY <1>1, <2>1, ContentsSet
  <2>4. ASSUME NEW kind \in Kinds, NEW h \in Hosts, NEW d \in Databases, NEW c \in CustomRoles
        PROVE  \/ contents'[<<kind, h, d, c>>] = Nothing
               \/ /\ contents'[<<kind, h, d, c>>] = contents[<<kind, h, d, c>>]
                  /\ ~(kind \in ks /\ h = host /\ d = t.database /\ c = cr)
    BY <1>1, <2>1, ContentsSetAt
  <2>5. QED BY <2>2, <2>3, <2>4
<1>2. CASE /\ t.kind = "both" /\ contents[<<"grants", host, t.database, cr>>] # Nothing
           /\ contents' = [x \in DOMAIN contents |->
                             IF <<x[2], x[3], x[4]>> # <<host, t.database, cr>> THEN contents[x]
                             ELSE IF x[1] = "grants" THEN Obstructed ELSE Nothing]
  <2>1. DOMAIN contents = Kinds \X Hosts \X Databases \X CustomRoles BY DEF ContentsTyped
  <2>2. \A x \in DOMAIN contents : contents[x] \in Values BY DEF ContentsTyped, Values
  <2>3. ContentsTyped' BY <1>2, <2>1, <2>2 DEF ContentsTyped, Values
  <2>4. ASSUME NEW kind \in Kinds, NEW h \in Hosts, NEW d \in Databases, NEW c \in CustomRoles
        PROVE  \/ contents'[<<kind, h, d, c>>] = Nothing
               \/ /\ contents'[<<kind, h, d, c>>] = contents[<<kind, h, d, c>>]
                  /\ ~(h = host /\ d = t.database /\ c = cr)
               \/ /\ kind = "grants" /\ contents'[<<kind, h, d, c>>] = Obstructed
                  /\ contents[<<kind, h, d, c>>] # Nothing
                  /\ h = host /\ c = cr
    <3>1. <<kind, h, d, c>> \in DOMAIN contents BY <2>1
    <3>2. contents'[<<kind, h, d, c>>] =
              IF <<h, d, c>> # <<host, t.database, cr>> THEN contents[<<kind, h, d, c>>]
              ELSE IF kind = "grants" THEN Obstructed ELSE Nothing
      BY <1>2, <3>1
    <3>3. QED BY <1>2, <3>2
  <2>5. QED BY <2>3, <2>4
<1>3. QED BY <1>1, <1>2 DEF CleanDatabase, contentOf

\* Contents keep their type.
LEMMA ContentsStep == ASSUME TypeOK, Held, Next PROVE ContentsTyped'
<1>0. ContentsTyped /\ LocalsTyped BY TypeParts
<1>1. CASE UNCHANGED contents BY <1>0, <1>1 DEF ContentsTyped
<1>2. ASSUME NEW t \in work, Served(t) PROVE ContentsTyped'
  BY <1>0, <1>2, ServedSets, ContentsSet
<1>3. ASSUME NEW t \in work, CleanDatabase(t) \/ Refused(t) PROVE ContentsTyped'
  BY <1>0, <1>3, ContentsCleaned, RefusedSets, ContentsSet
<1>4. ASSUME NEW t \in work, NEW kind \in Kinds, SyncFails(t, kind) PROVE ContentsTyped'
  BY <1>0, <1>4, ContentsLost
<1>5. ASSUME Reconcile PROVE ContentsTyped'
  <2>1. CASE AddFinalizer \/ Resolve \/ HostDone \/ HostFails \/ AllHostsDone \/ CleanFails
               \/ RemoveFinalizer \/ EnsureCustomRole \/ GrantRoles \/ DropCustomRole \/ DropRefused
    BY <1>1, <2>1 DEF AddFinalizer, Resolve, HostDone, HostFails, AllHostsDone, CleanFails,
                     RemoveFinalizer, EnsureCustomRole, GrantRoles, DropCustomRole, DropRefused,
                     world
  <2>2. CASE \E g \in CustomRoles \cup OtherRoles : RevokeRole(g) BY <1>1, <2>2 DEF RevokeRole
  <2>3. CASE \E t \in work : SyncInvalid(t) BY <1>1, <2>3 DEF SyncInvalid, world
  <2>4. CASE \E h \in Hosts : CleanHost(h) BY <1>1, <2>4 DEF CleanHost, world
  <2>5. QED BY <1>2, <1>3, <1>5, <2>1, <2>2, <2>3, <2>4 DEF Reconcile, Served, Refused
<1>6. ASSUME Environment PROVE ContentsTyped'
  <2>1. CASE Restart BY <1>1, <2>1 DEF Restart, world
  <2>2. CASE \E c \in CustomRoles : Delete(c) \/ \E sp \in Specs[c] : Create(c, sp) \/ Edit(c, sp)
    BY <1>1, <2>2 DEF Delete, Create, Edit, change, world
  <2>3. CASE \E h \in Hosts : HostDown(h) \/ HostUp(h) BY <1>1, <2>3 DEF HostDown, HostUp
  <2>4. CASE \E d \in UserDatabases : DatabaseAdvances(d) BY <1>1, <2>4 DEF DatabaseAdvances
  <2>5. QED BY <1>4, <1>6, <2>1, <2>2, <2>3, <2>4 DEF Environment
<1>7. CASE (\E c \in CustomRoles : Fetch(c)) \/ (\E h \in Hosts : PickHost(h))
  BY <1>1, <1>7 DEF Fetch, PickHost, world
<1>8. QED BY <1>5, <1>6, <1>7 DEF Next

-----------------------------------------------------------------------------
(* The ends of a reconcile.                                                *)

Ends ==
    \/ AddFinalizer \/ HostFails \/ AllHostsDone \/ DropRefused \/ CleanFails \/ RemoveFinalizer
    \/ Restart
    \/ \E t \in work : SyncInvalid(t) \/ Refused(t)
    \/ \E t \in work, kind \in Kinds : SyncFails(t, kind)

\* Nothing is left of the reconcile that has ended.
LEMMA EndsIdle ==
    ASSUME TypeOK, Held, Ends
    PROVE  /\ pc # "idle" /\ pc' = "idle" /\ fresh' = FALSE /\ host' = NoHost
           /\ LocalsTyped' /\ queue' \subseteq CustomRoles
<1>1. CASE Restart BY <1>1 DEF Restart, LocalsTyped
<1>2. ASSUME NEW again \in BOOLEAN, pc # "idle", return(again)
      PROVE  pc' = "idle" /\ fresh' = FALSE /\ host' = NoHost /\ LocalsTyped' /\ queue' \subseteq CustomRoles
  BY <1>2, ReturnTyped DEF LocalsTyped
<1>3. CASE AddFinalizer BY <1>2, <1>3 DEF AddFinalizer
<1>4. CASE HostFails BY <1>2, <1>4 DEF HostFails
<1>5. CASE AllHostsDone
  <2>1. pc # "idle" /\ return(objects' # objects) BY <1>5 DEF AllHostsDone
  <2>2. QED BY <1>2, <2>1
<1>6. CASE CleanFails BY <1>2, <1>6 DEF CleanFails
<1>7. CASE RemoveFinalizer
  <2>1. pc # "idle" /\ return(~fresh) BY <1>7 DEF RemoveFinalizer
  <2>2. QED BY <1>2, <2>1
<1>8. ASSUME NEW t \in work, SyncInvalid(t)
      PROVE  /\ pc # "idle" /\ pc' = "idle" /\ fresh' = FALSE /\ host' = NoHost
           /\ LocalsTyped' /\ queue' \subseteq CustomRoles
  <2>1. pc # "idle" /\ return(objects' # objects) BY <1>8 DEF SyncInvalid
  <2>2. QED BY <1>2, <2>1
<1>9. ASSUME NEW t \in work, NEW kind \in Kinds, SyncFails(t, kind)
      PROVE  /\ pc # "idle" /\ pc' = "idle" /\ fresh' = FALSE /\ host' = NoHost
           /\ LocalsTyped' /\ queue' \subseteq CustomRoles
  <2>1. pc # "idle" /\ return(TRUE) BY <1>9 DEF SyncFails
  <2>2. QED BY <1>2, <2>1
<1>10. ASSUME NEW t \in work, Refused(t)
      PROVE  /\ pc # "idle" /\ pc' = "idle" /\ fresh' = FALSE /\ host' = NoHost
           /\ LocalsTyped' /\ queue' \subseteq CustomRoles
  <2>1. pc # "idle" /\ return(TRUE) BY <1>10 DEF Refused, SyncRefused, CleanRefused
  <2>2. QED BY <1>2, <2>1
<1>11. CASE DropRefused BY <1>2, <1>11 DEF DropRefused
<1>12. QED BY <1>1, <1>3, <1>4, <1>5, <1>6, <1>7, <1>8, <1>9, <1>10, <1>11 DEF Ends

\* The resources after a reconcile: only the finalizer and the status of one may have
\* changed, and a resource goes only when a cleanup is over.
LEMMA EndsObjects ==
    ASSUME TypeOK, Held, InHand, Ends
    PROVE  /\ objects' \in [CustomRoles -> Objects \cup {Absent}]
           /\ \A c \in CustomRoles :
                 objects[c] # Absent /\ objects[c].finalizer =>
                     \/ objects'[c] # Absent /\ objects'[c].finalizer
                     \/ RemoveFinalizer /\ c = cr
<1>0. objects \in [CustomRoles -> Objects \cup {Absent}] BY DEF TypeOK
<1> DEFINE Goal == /\ objects' \in [CustomRoles -> Objects \cup {Absent}]
                   /\ \A c \in CustomRoles :
                         objects[c] # Absent /\ objects[c].finalizer =>
                             \/ objects'[c] # Absent /\ objects'[c].finalizer
                             \/ RemoveFinalizer /\ c = cr
<1>1. CASE UNCHANGED objects BY <1>0, <1>1
<1>2. ASSUME pc # "idle", NEW p \in {"", "Running", "Failed", "Invalid"},
             NEW f \in Hosts \cup {NoHost}, persistStatus(p, f)
      PROVE  Goal
  BY <1>0, <1>2, PersistTyped
<1>3. CASE AddFinalizer
  <2>1. CASE fresh
    <3>1. cr \in CustomRoles /\ copy \in Objects /\ objects[cr] = copy
      BY <1>3, <2>1 DEF AddFinalizer, Held
    <3>2. [objects[cr] EXCEPT !.finalizer = TRUE] \in Objects
          /\ [objects[cr] EXCEPT !.finalizer = TRUE].finalizer = TRUE
      BY <3>1 DEF Objects
    <3>3. objects' = [objects EXCEPT ![cr] = [objects[cr] EXCEPT !.finalizer = TRUE]]
      BY <1>3, <2>1 DEF AddFinalizer
    <3>4. QED BY <1>0, <3>1, <3>2, <3>3, AbsentAssumption
  <2>2. CASE ~fresh BY <1>1, <1>3, <2>2 DEF AddFinalizer
  <2>3. QED BY <2>1, <2>2
<1>4. CASE RemoveFinalizer
  BY <1>0, <1>4 DEF RemoveFinalizer
<1>5. CASE HostFails
  <2>1. pc # "idle" /\ host \in Hosts /\ persistStatus("Failed", host)
    BY <1>5 DEF HostFails, InHand
  <2>2. QED BY <1>2, <2>1
<1>6. CASE AllHostsDone
  <2>1. pc # "idle" /\ persistStatus("Running", NoHost) BY <1>6 DEF AllHostsDone
  <2>2. QED BY <1>2, <2>1
<1>7. ASSUME NEW t \in work, SyncInvalid(t) PROVE Goal
  <2>1. pc # "idle" /\ persistStatus("Invalid", NoHost) BY <1>7 DEF SyncInvalid
  <2>2. QED BY <1>2, <2>1
<1>8. ASSUME NEW t \in work, NEW kind \in Kinds, SyncFails(t, kind) PROVE Goal
  <2>1. pc # "idle" /\ host \in Hosts /\ (persistStatus("Failed", host) \/ UNCHANGED objects)
    BY <1>8 DEF SyncFails, InHand
  <2>2. QED BY <1>1, <1>2, <2>1
<1>9. CASE CleanFails \/ DropRefused BY <1>1, <1>9 DEF CleanFails, DropRefused
<1>10. CASE Restart BY <1>1, <1>10 DEF Restart
<1>11. ASSUME NEW t \in work, Refused(t) PROVE Goal
  <2>1. pc # "idle" /\ host \in Hosts /\ (persistStatus("Failed", host) \/ UNCHANGED objects)
    BY <1>11 DEF Refused, SyncRefused, CleanRefused, InHand
  <2>2. QED BY <1>1, <1>2, <2>1
<1>12. QED BY <1>3, <1>4, <1>5, <1>6, <1>7, <1>8, <1>9, <1>10, <1>11 DEF Ends

\* A resource that its author changes is well-formed, and keeps its finalizer.
LEMMA AuthorObjects ==
    ASSUME TypeOK, NEW c \in CustomRoles,
           Delete(c) \/ \E sp \in Specs[c] : Create(c, sp) \/ Edit(c, sp)
    PROVE  /\ ApiTyped'
           /\ \A e \in CustomRoles : e # c => objects'[e] = objects[e]
           /\ objects[c] # Absent /\ objects[c].finalizer =>
                 objects'[c] # Absent /\ objects'[c].finalizer
<1>0. objects \in [CustomRoles -> Objects \cup {Absent}] /\ queue \subseteq CustomRoles BY DEF TypeOK
<1>1. ASSUME NEW o, change(c, o), o \in Objects \cup {Absent},
             objects[c] # Absent /\ objects[c].finalizer => o # Absent /\ o.finalizer
      PROVE  /\ ApiTyped'
             /\ \A e \in CustomRoles : e # c => objects'[e] = objects[e]
             /\ objects[c] # Absent /\ objects[c].finalizer =>
                   objects'[c] # Absent /\ objects'[c].finalizer
  BY <1>0, <1>1 DEF change, ApiTyped
<1>2. ASSUME objects[c] # Absent PROVE objects[c] \in Objects BY <1>0, <1>2
<1>3. CASE Delete(c)
  <2>1. objects[c] \in Objects BY <1>2, <1>3 DEF Delete
  <2>2. /\ [objects[c] EXCEPT !.deleting = TRUE] \in Objects
        /\ [objects[c] EXCEPT !.deleting = TRUE].finalizer = objects[c].finalizer
    BY <2>1 DEF Objects
  <2>3. QED BY <1>1, <1>3, <2>2, AbsentAssumption DEF Delete
<1>4. ASSUME NEW sp \in Specs[c], Edit(c, sp)
      PROVE  \E o : /\ change(c, o) /\ o \in Objects \cup {Absent}
                    /\ objects[c] # Absent /\ objects[c].finalizer => o # Absent /\ o.finalizer
  <2>1. objects[c] \in Objects /\ sp \in SpecType BY <1>2, <1>4, ControllerAssumption DEF Edit
  <2>2. /\ [objects[c] EXCEPT !.spec = sp] \in Objects
        /\ [objects[c] EXCEPT !.spec = sp].finalizer = objects[c].finalizer
    BY <2>1 DEF Objects
  <2>3. QED BY <1>4, <2>2, AbsentAssumption DEF Edit
<1>5. ASSUME NEW sp \in Specs[c], Create(c, sp)
      PROVE  \E o : /\ change(c, o) /\ o \in Objects \cup {Absent}
                    /\ objects[c] # Absent /\ objects[c].finalizer => o # Absent /\ o.finalizer
  <2> DEFINE o == [spec |-> sp, status |-> [phase |-> "", failingHost |-> NoHost],
                   deleting |-> FALSE, finalizer |-> FALSE]
  <2>1. sp \in SpecType BY <1>5, ControllerAssumption
  <2>2. [phase |-> "", failingHost |-> NoHost] \in CustomRoleStatus BY StatusTyped
  <2>3. o \in Objects BY <2>1, <2>2 DEF Objects
  <2>4. change(c, o) /\ objects[c] = Absent BY <1>5 DEF Create
  <2>5. QED BY <2>3, <2>4
<1>6. QED BY <1>1, <1>3, <1>4, <1>5

-----------------------------------------------------------------------------
(* The steps, in four groups.                                              *)

Author == \E c \in CustomRoles : Delete(c) \/ \E sp \in Specs[c] : Create(c, sp) \/ Edit(c, sp)
Servers ==
    \/ \E h \in Hosts : HostDown(h) \/ HostUp(h)
    \/ \E d \in UserDatabases : DatabaseAdvances(d)
Works ==
    \/ \E c \in CustomRoles : Fetch(c)
    \/ \E h \in Hosts : PickHost(h) \/ CleanHost(h)
    \/ Resolve \/ EnsureCustomRole \/ (\E g \in CustomRoles \cup OtherRoles : RevokeRole(g))
    \/ GrantRoles \/ HostDone \/ DropCustomRole
    \/ \E t \in work : Served(t) \/ CleanDatabase(t)

\* Every step is in one of them.
LEMMA NextGroups == Next => Ends \/ Author \/ Servers \/ Works
BY DEF Next, Reconcile, Environment, Ends, Author, Servers, Works, Served, Refused

\* The author and the servers leave a reconcile alone, but for what it has read.
LEMMA OthersLocals ==
    ASSUME Author \/ Servers
    PROVE  /\ UNCHANGED <<pc, cr, copy, hosts, host, listed, work>>
           /\ fresh' = fresh \/ fresh' = FALSE
           /\ roles' = roles /\ members' = members /\ contents' = contents
<1>1. CASE Author BY <1>1 DEF Author, Delete, Create, Edit, change, world
<1>2. CASE Servers BY <1>2 DEF Servers, HostDown, HostUp, DatabaseAdvances, locals
<1>3. QED BY <1>1, <1>2

\* A reconcile that goes on leaves the resources alone.
LEMMA WorksObjects ==
    ASSUME Works PROVE objects' = objects /\ (queue' = queue \/ \E c \in CustomRoles : queue' = queue \ {c})
BY DEF Works, Fetch, PickHost, CleanHost, Resolve, EnsureCustomRole, RevokeRole, GrantRoles,
       HostDone, DropCustomRole, Served, SyncDatabase, SkipsStatements, CleanDatabase

\* The resources and the queue keep their types.
LEMMA ApiStep == ASSUME TypeOK, Held, InHand, Next PROVE ApiTyped'
<1>0. ApiTyped BY TypeParts
<1>1. CASE Ends BY <1>1, EndsIdle, EndsObjects DEF ApiTyped
<1>2. CASE Author BY <1>2, AuthorObjects DEF Author
<1>3. CASE Servers
  BY <1>0, <1>3, ControllerAssumption DEF Servers, HostDown, HostUp, DatabaseAdvances, ApiTyped
<1>4. CASE Works BY <1>0, <1>4, WorksObjects DEF ApiTyped
<1>5. QED BY <1>1, <1>2, <1>3, <1>4, NextGroups

\* The calls of a cleanup (cleanupRoleOnHost).
LEMMA CleanTask ==
    ASSUME NEW D \in SUBSET UserDatabases,
           NEW t \in {task(1, "both", d, FALSE) : d \in D} \cup {task(2, "functions", Postgres, FALSE)}
    PROVE  t \in Tasks /\ ~t.wanted
<1>1. D \subseteq Databases /\ Postgres \in Databases BY DEF Databases
<1>2. CASE t = task(2, "functions", Postgres, FALSE) BY <1>1, <1>2 DEF task, Tasks, Kinds
<1>3. CASE \E d \in D : t = task(1, "both", d, FALSE)
  <2>1. PICK d \in D : t = task(1, "both", d, FALSE) BY <1>3
  <2>2. t = [stage |-> 1, kind |-> "both", database |-> d, wanted |-> FALSE] BY <2>1 DEF task
  <2>3. QED BY <1>1, <2>2 DEF Tasks
<1>4. QED BY <1>2, <1>3

\* What a reconcile keeps in memory has its type.
LEMMA LocalsStep == ASSUME TypeOK, Held, InHand, Next PROVE LocalsTyped'
<1>0. LocalsTyped BY TypeParts
<1>1. CASE Ends BY <1>1, EndsIdle
<1>2. CASE Author \/ Servers
  <2>1. fresh' \in BOOLEAN BY <1>0, <1>2, OthersLocals, Zenon DEF LocalsTyped
  <2>2. UNCHANGED <<pc, cr, copy, hosts, host, listed, work>> BY <1>2, OthersLocals
  <2>3. QED BY <1>0, <2>1, <2>2 DEF LocalsTyped
<1>3. ASSUME NEW c \in CustomRoles, Fetch(c) PROVE LocalsTyped'
  <2>1. CASE UNCHANGED locals BY <1>0, <2>1 DEF locals, LocalsTyped
  <2>2. CASE /\ ~(objects[c] = Absent \/ (objects[c].deleting /\ ~objects[c].finalizer))
             /\ ~UNCHANGED locals
    <3>1. cr' = c /\ copy' = objects[c] /\ fresh' = TRUE /\ hosts' = Hosts
          /\ pc' \in {"clean", "finalizer", "hosts"} /\ UNCHANGED <<host, listed, work>>
      BY <1>3, <2>2 DEF Fetch
    <3>2. copy' \in Objects BY <2>2, <3>1 DEF TypeOK
    <3>3. QED BY <1>0, <3>1, <3>2 DEF LocalsTyped
  <2>3. QED BY <1>3, <2>1, <2>2 DEF Fetch
<1>4. ASSUME NEW h \in Hosts, PickHost(h) PROVE LocalsTyped'
  BY <1>0, <1>4 DEF PickHost, LocalsTyped
<1>5. ASSUME NEW h \in Hosts, CleanHost(h) PROVE LocalsTyped'
  <2>1. work' \subseteq Tasks BY <1>5, CleanTask DEF CleanHost, databasesOn
  <2>2. QED BY <1>0, <1>5, <2>1 DEF CleanHost, LocalsTyped
<1>6. CASE Resolve
  <2> DEFINE found == databasesOn(host)
             T == targetsOf(copy.spec, found)
             A == allUserDatabases(copy.spec, found)
  <2>1. copy.spec \in SpecType /\ host \in Hosts BY <1>6 DEF Resolve, Held, InHand, Objects
  <2>2. found \in SUBSET UserDatabases BY DEF databasesOn
  <2>3. T \in SUBSET Databases /\ A \in SUBSET UserDatabases BY <2>1, <2>2, TargetsTyped
  <2>4. work' = reconcileGrantsOnHost(T, A) \cup reconcileFunctionsOnHost(T, A)
        /\ listed' = [listed EXCEPT ![host] = found]
    BY <1>6 DEF Resolve
  <2> HIDE DEF T, A, found
  <2>5. work' \subseteq Tasks BY <2>3, <2>4, GrantTask, FunctionTask
  <2>6. listed' \in [Hosts -> SUBSET UserDatabases] BY <1>0, <2>1, <2>2, <2>4 DEF LocalsTyped
  <2>7. QED BY <1>0, <1>6, <2>5, <2>6 DEF Resolve, LocalsTyped
<1>7. CASE EnsureCustomRole BY <1>0, <1>7 DEF EnsureCustomRole, LocalsTyped
<1>8. ASSUME NEW g \in CustomRoles \cup OtherRoles, RevokeRole(g) PROVE LocalsTyped'
  BY <1>0, <1>8 DEF RevokeRole, locals, LocalsTyped
<1>9. CASE GrantRoles BY <1>0, <1>9 DEF GrantRoles, LocalsTyped
<1>10. CASE HostDone BY <1>0, <1>10 DEF HostDone, LocalsTyped
<1>11. CASE DropCustomRole BY <1>0, <1>11 DEF DropCustomRole, LocalsTyped
<1>12. ASSUME NEW t \in work, Served(t) \/ CleanDatabase(t) PROVE LocalsTyped'
  BY <1>0, <1>12 DEF Served, SyncDatabase, SkipsStatements, CleanDatabase, LocalsTyped
<1>13. CASE Works
  BY <1>3, <1>4, <1>5, <1>6, <1>7, <1>8, <1>9, <1>10, <1>11, <1>12, <1>13 DEF Works
<1>14. QED BY <1>1, <1>2, <1>13, NextGroups

-----------------------------------------------------------------------------
(* The parts of the invariant.                                             *)

\* Where a reconcile that goes on stands, and for whom.
LEMMA WorksLocals ==
    ASSUME Works, ~(\E c \in CustomRoles : Fetch(c))
    PROVE  /\ pc # "idle" /\ pc' # "idle" /\ pc # "finalizer" /\ pc' # "finalizer"
           /\ UNCHANGED <<cr, copy, fresh>>
           /\ pc \in applying <=> pc' \in applying
           /\ pc \in cleaning <=> pc' \in cleaning
BY DEF Works, PickHost, CleanHost, Resolve, EnsureCustomRole, RevokeRole, GrantRoles,
       HostDone, DropCustomRole, Served, SyncDatabase, SkipsStatements, CleanDatabase, locals,
       applying, cleaning

\* What Fetch reads.
LEMMA FetchReads ==
    ASSUME TypeOK, NEW c \in CustomRoles, Fetch(c)
    PROVE  \/ UNCHANGED locals
           \/ /\ cr' = c /\ copy' = objects[c] /\ copy' \in Objects /\ hosts' = Hosts
              /\ pc' = "finalizer" \/ (pc' \in {"clean", "hosts"} /\ copy'.finalizer)
              /\ UNCHANGED <<host, listed, work>>
<1>1. CASE objects[c] = Absent \/ (objects[c].deleting /\ ~objects[c].finalizer)
  BY <1>1 DEF Fetch
<1>2. CASE ~(objects[c] = Absent \/ (objects[c].deleting /\ ~objects[c].finalizer))
  <2>1. objects[c] \in Objects BY <1>2 DEF TypeOK
  <2>2. cr' = c /\ copy' = objects[c] /\ hosts' = Hosts /\ UNCHANGED <<host, listed, work>>
    BY <1>2 DEF Fetch
  <2>3. pc' = CASE copy'.deleting -> "clean"
                [] ~copy'.deleting /\ ~copy'.finalizer -> "finalizer"
                [] OTHER -> "hosts"
    BY <1>2 DEF Fetch
  <2>4. copy'.deleting \in BOOLEAN /\ copy'.finalizer \in BOOLEAN BY <2>1, <2>2 DEF Objects
  <2>5. QED BY <1>2, <2>1, <2>2, <2>3, <2>4
<1>3. QED BY <1>1, <1>2

\* The resource of a reconcile stays until the reconcile ends.
LEMMA HeldStep == ASSUME TypeOK, Held, InHand, Next PROVE Held'
<1>0. LocalsTyped BY TypeParts
<1>1. CASE Ends
  <2>1. pc' = "idle" /\ fresh' = FALSE BY <1>1, EndsIdle
  <2>2. QED BY <2>1 DEF Held, applying, cleaning
<1>2. CASE Author
  <2>1. PICK c \in CustomRoles : Delete(c) \/ \E sp \in Specs[c] : Create(c, sp) \/ Edit(c, sp)
    BY <1>2 DEF Author
  <2>2. UNCHANGED <<pc, cr, copy>> BY <1>2, OthersLocals
  <2>3. fresh' = (fresh /\ c # cr) BY <2>1 DEF Delete, Create, Edit, change
  <2>4. pc \in applying \cup cleaning => objects'[cr] # Absent /\ objects'[cr].finalizer
    BY <2>1, AuthorObjects DEF Held, applying, cleaning
  <2>5. fresh' => pc # "idle" /\ objects'[cr] = copy BY <2>1, <2>3, AuthorObjects DEF Held
  <2>6. QED BY <2>2, <2>4, <2>5 DEF Held
<1>3. CASE Servers
  <2>1. UNCHANGED <<pc, cr, copy, objects>> BY <1>3 DEF Servers, HostDown, HostUp, DatabaseAdvances, locals
  <2>2. fresh' => fresh BY <1>3 DEF Servers, HostDown, HostUp, DatabaseAdvances, locals
  <2>3. QED BY <2>1, <2>2 DEF Held
<1>4. ASSUME NEW c \in CustomRoles, Fetch(c) PROVE Held'
  <2>1. objects' = objects BY <1>4 DEF Fetch
  <2>2. CASE UNCHANGED locals BY <2>1, <2>2 DEF locals, Held
  <2>3. CASE /\ cr' = c /\ copy' = objects[c] /\ copy' \in Objects
             /\ pc' = "finalizer" \/ (pc' \in {"clean", "hosts"} /\ copy'.finalizer)
    BY <2>1, <2>3, AbsentAssumption DEF Held, applying, cleaning
  <2>4. QED BY <1>4, <2>2, <2>3, FetchReads
<1>5. CASE Works /\ ~(\E c \in CustomRoles : Fetch(c))
  <2>1. objects' = objects BY <1>5, WorksObjects
  <2>2. QED BY <1>5, <2>1, WorksLocals DEF Held
<1>6. QED BY <1>1, <1>2, <1>3, <1>4, <1>5, NextGroups

\* The host in hand is one that is not left (PickHost, CleanHost).
LEMMA InHandStep == ASSUME TypeOK, InHand, Held, Next PROVE InHand'
<1>0. hosts \subseteq Hosts BY DEF TypeOK
<1>1. CASE Ends
  <2>1. pc' = "idle" /\ host' = NoHost BY <1>1, EndsIdle
  <2>2. QED BY <2>1 DEF InHand
<1>2. CASE Author \/ Servers BY <1>2, OthersLocals DEF InHand
<1>3. ASSUME NEW c \in CustomRoles, Fetch(c) PROVE InHand'
  <2>1. CASE UNCHANGED locals BY <2>1 DEF locals, InHand
  <2>2. CASE ~UNCHANGED locals
    <3>1. pc' \in {"finalizer", "clean", "hosts"} /\ host' = host BY <1>3, <2>2, FetchReads
    <3>2. pc = "idle" /\ host = NoHost BY <1>3 DEF Fetch, InHand
    <3>3. QED BY <3>1, <3>2 DEF InHand
  <2>3. QED BY <2>1, <2>2
<1>4. CASE Works /\ ~(\E c \in CustomRoles : Fetch(c))
  BY <1>0, <1>4 DEF Works, PickHost, CleanHost, Resolve, EnsureCustomRole, RevokeRole, GrantRoles,
                   HostDone, DropCustomRole, Served, SyncDatabase, SkipsStatements, CleanDatabase,
                   locals, InHand
<1>5. QED BY <1>1, <1>2, <1>3, <1>4, NextGroups

\* The roles on the hosts change in two actions only.
LEMMA RolesChange ==
    ASSUME Next PROVE roles' = roles \/ EnsureCustomRole \/ DropCustomRole
<1>1. CASE Ends
  BY <1>1 DEF Ends, AddFinalizer, HostFails, AllHostsDone, CleanFails, RemoveFinalizer, Restart,
             SyncInvalid, SyncFails, Refused, SyncRefused, CleanRefused, DropRefused, world
<1>2. CASE Author \/ Servers BY <1>2, OthersLocals
<1>3. CASE Works
  BY <1>3 DEF Works, Fetch, PickHost, CleanHost, Resolve, RevokeRole, GrantRoles, HostDone,
             Served, SyncDatabase, SkipsStatements, CleanDatabase, world
<1>4. QED BY <1>1, <1>2, <1>3, NextGroups

\* A host that a cleanup has finished with does not have the role any more.
LEMMA CleanedStep == ASSUME TypeOK, Held, InHand, Cleaned, Next PROVE Cleaned'
<1>0. hosts \subseteq Hosts /\ roles \in [Hosts -> SUBSET CustomRoles] BY DEF TypeOK
<1>1. CASE Ends
  <2>1. pc' = "idle" BY <1>1, EndsIdle
  <2>2. QED BY <2>1 DEF Cleaned, cleaning
<1>2. CASE Author \/ Servers BY <1>2, OthersLocals DEF Cleaned
<1>3. ASSUME NEW c \in CustomRoles, Fetch(c) PROVE Cleaned'
  <2>1. roles' = roles BY <1>3 DEF Fetch, world
  <2>2. CASE UNCHANGED locals BY <2>1, <2>2 DEF locals, Cleaned
  <2>3. CASE hosts' = Hosts BY <2>3 DEF Cleaned
  <2>4. QED BY <1>3, <2>2, <2>3, FetchReads
<1>4. ASSUME NEW h \in Hosts, CleanHost(h) PROVE Cleaned'
  <2>1. /\ pc = "clean" /\ host' = h /\ hosts' = hosts \ {h} /\ cr' = cr /\ roles' = roles
    BY <1>4 DEF CleanHost, world
  <2>2. host = NoHost /\ host \notin Hosts BY <2>1, ControllerAssumption DEF InHand
  <2>3. \A x \in Hosts \ hosts : cr \notin roles[x] BY <2>1, <2>2 DEF Cleaned, cleaning
  <2>4. \A x \in Hosts \ hosts' : x # host' => cr' \notin roles'[x] BY <2>1, <2>3
  <2>5. QED BY <2>4 DEF Cleaned
<1>5. CASE DropCustomRole
  <2>1. /\ host \in Hosts /\ roles' = [roles EXCEPT ![host] = @ \ {cr}]
        /\ UNCHANGED <<cr, hosts>> /\ pc = "cleanWork"
    BY <1>5 DEF DropCustomRole, InHand
  <2>2. \A h \in Hosts \ hosts : cr \notin roles'[h]
    BY <1>0, <2>1 DEF Cleaned, cleaning
  <2>3. QED BY <2>1, <2>2 DEF Cleaned
<1>6. ASSUME NEW t \in work, CleanDatabase(t) PROVE Cleaned'
  BY <1>6 DEF CleanDatabase, Cleaned
<1>7. CASE /\ Works /\ ~(\E c \in CustomRoles : Fetch(c)) /\ ~DropCustomRole
           /\ ~(\E h \in Hosts : CleanHost(h)) /\ ~(\E t \in work : CleanDatabase(t))
  <2>1. pc' \notin cleaning
    BY <1>7 DEF Works, PickHost, Resolve, EnsureCustomRole, RevokeRole, GrantRoles, HostDone,
                Served, SyncDatabase, SkipsStatements, locals, cleaning
  <2>2. QED BY <2>1 DEF Cleaned
<1>8. QED BY <1>1, <1>2, <1>3, <1>4, <1>5, <1>6, <1>7, NextGroups

\* The finalizer is there as long as the role is on some host (Reconcile, cleanupRole).
LEMMA RoleOwnedStep ==
    ASSUME TypeOK, Held, InHand, Cleaned, RoleOwned, Next PROVE RoleOwned'
<1>0. /\ objects \in [CustomRoles -> Objects \cup {Absent}]
      /\ roles \in [Hosts -> SUBSET CustomRoles]
  BY DEF TypeOK
<1>1. ASSUME \A c \in CustomRoles : objects[c] # Absent /\ objects[c].finalizer =>
                                       objects'[c] # Absent /\ objects'[c].finalizer,
             roles' = roles
      PROVE  RoleOwned'
  BY <1>0, <1>1 DEF RoleOwned
<1>2. CASE RemoveFinalizer
  <2>1. roles' = roles BY <1>2 DEF RemoveFinalizer, world
  <2>2. \A h \in Hosts : cr \notin roles[h]
    BY <1>2, ControllerAssumption DEF RemoveFinalizer, Cleaned, cleaning, InHand
  <2>3. \A c \in CustomRoles : c # cr => objects'[c] = objects[c]
    BY <1>0, <1>2 DEF RemoveFinalizer
  <2>4. QED BY <1>0, <2>1, <2>2, <2>3 DEF RoleOwned
<1>3. CASE Ends /\ ~RemoveFinalizer
  <2>1. roles' = roles
    BY <1>3, RolesChange, EndsIdle DEF Ends, AddFinalizer, HostFails, AllHostsDone, CleanFails,
       Restart, SyncInvalid, SyncFails, Refused, SyncRefused, CleanRefused, DropRefused, world
  <2>2. QED BY <1>1, <1>3, <2>1, EndsObjects
<1>4. CASE Author
  <2>1. roles' = roles BY <1>4, OthersLocals
  <2>2. \A c \in CustomRoles : objects[c] # Absent /\ objects[c].finalizer =>
                                   objects'[c] # Absent /\ objects'[c].finalizer
    BY <1>4, AuthorObjects DEF Author
  <2>3. QED BY <1>1, <2>1, <2>2
<1>5. CASE Servers
  <2>1. objects' = objects BY <1>5 DEF Servers, HostDown, HostUp, DatabaseAdvances
  <2>2. QED BY <1>1, <1>5, <2>1, OthersLocals
<1>6. CASE EnsureCustomRole
  <2>1. objects' = objects /\ roles' = [roles EXCEPT ![host] = @ \cup {cr}]
    BY <1>6 DEF EnsureCustomRole
  <2>2. objects[cr] # Absent /\ objects[cr].finalizer BY <1>6 DEF EnsureCustomRole, Held, applying
  <2>3. QED BY <1>0, <2>1, <2>2 DEF RoleOwned
<1>7. CASE DropCustomRole
  <2>1. objects' = objects /\ roles' = [roles EXCEPT ![host] = @ \ {cr}] BY <1>7 DEF DropCustomRole
  <2>2. QED BY <1>0, <2>1 DEF RoleOwned
<1>8. CASE Works /\ ~EnsureCustomRole /\ ~DropCustomRole
  <2>1. objects' = objects BY <1>8, WorksObjects
  <2>2. roles' = roles BY <1>8, RolesChange
  <2>3. QED BY <1>1, <2>1, <2>2
<1>9. QED BY <1>2, <1>3, <1>4, <1>5, <1>6, <1>7, <1>8, NextGroups

\* The role is there while its memberships and its contents are brought to it.
LEMMA HasRoleStep == ASSUME TypeOK, Held, InHand, HasRole, Next PROVE HasRole'
<1>0. roles \in [Hosts -> SUBSET CustomRoles] BY DEF TypeOK
<1>1. CASE Ends
  <2>1. pc' = "idle" BY <1>1, EndsIdle
  <2>2. QED BY <2>1 DEF HasRole
<1>2. CASE Author \/ Servers BY <1>2, OthersLocals DEF HasRole
<1>3. ASSUME NEW c \in CustomRoles, Fetch(c) PROVE HasRole'
  <2>1. CASE UNCHANGED locals BY <1>3, <2>1 DEF locals, Fetch, HasRole
  <2>2. CASE pc' \in {"finalizer", "clean", "hosts"} BY <2>2 DEF HasRole
  <2>3. QED BY <1>3, <2>1, <2>2, FetchReads
<1>4. CASE EnsureCustomRole
  BY <1>0, <1>4 DEF EnsureCustomRole, HasRole, InHand
<1>5. CASE GrantRoles \/ (\E g \in CustomRoles \cup OtherRoles : RevokeRole(g))
               \/ (\E t \in work : Served(t))
  BY <1>5 DEF GrantRoles, RevokeRole, Served, SyncDatabase, SkipsStatements, locals, HasRole
<1>6. CASE /\ Works /\ ~(\E c \in CustomRoles : Fetch(c)) /\ ~EnsureCustomRole /\ ~GrantRoles
           /\ ~(\E g \in CustomRoles \cup OtherRoles : RevokeRole(g))
           /\ ~(\E t \in work : Served(t))
  <2>1. pc' \notin {"memberships", "work"}
    BY <1>6 DEF Works, PickHost, CleanHost, Resolve, HostDone, DropCustomRole, CleanDatabase
  <2>2. QED BY <2>1 DEF HasRole
<1>7. QED BY <1>1, <1>2, <1>3, <1>4, <1>5, <1>6, NextGroups

\* Contents change in the calls on a database only.
LEMMA ContentsChange ==
    ASSUME Next
    PROVE  \/ contents' = contents
           \/ \E t \in work : Served(t) \/ Refused(t) \/ CleanDatabase(t)
           \/ \E t \in work, kind \in Kinds : SyncFails(t, kind)
<1>1. CASE Ends
  BY <1>1 DEF Ends, AddFinalizer, HostFails, AllHostsDone, CleanFails, RemoveFinalizer, Restart,
             SyncInvalid, DropRefused, world
<1>2. CASE Author \/ Servers BY <1>2, OthersLocals
<1>3. CASE Works
  BY <1>3 DEF Works, Fetch, PickHost, CleanHost, Resolve, EnsureCustomRole, RevokeRole, GrantRoles,
             HostDone, DropCustomRole, world
<1>4. QED BY <1>1, <1>2, <1>3, NextGroups

\* A database that a host has stays there (PostgreSQLDatabase resources only advance).
LEMMA DatabasesStay ==
    ASSUME TypeOK, Next, NEW h \in Hosts PROVE databasesOn(h) \subseteq databasesOn(h)'
<1>1. dbPhase \in [UserDatabases -> {"absent", "created", "server", "Running"}] BY DEF TypeOK
<1>2. CASE dbPhase' = dbPhase BY <1>2 DEF databasesOn, onServer
<1>3. ASSUME NEW d \in UserDatabases, DatabaseAdvances(d)
      PROVE  databasesOn(h) \subseteq databasesOn(h)'
  <2>1. dbPhase' = [dbPhase EXCEPT ![d] = CASE @ = "absent" -> "created" [] @ = "created" -> "server"
                                            [] OTHER -> "Running"]
    BY <1>3 DEF DatabaseAdvances
  <2>2. \A e \in UserDatabases : onServer(e) => onServer(e)' BY <1>1, <2>1 DEF onServer
  <2>3. QED BY <2>2 DEF databasesOn
<1>4. dbPhase' = dbPhase \/ \E d \in UserDatabases : DatabaseAdvances(d)
  <2>1. CASE Ends
    BY <2>1 DEF Ends, AddFinalizer, HostFails, AllHostsDone, CleanFails, RemoveFinalizer, Restart,
               SyncInvalid, SyncFails, Refused, SyncRefused, CleanRefused, DropRefused, world
  <2>2. CASE Author BY <2>2 DEF Author, Delete, Create, Edit, change, world
  <2>3. CASE Servers BY <2>3 DEF Servers, HostDown, HostUp
  <2>4. CASE Works
    BY <2>4 DEF Works, Fetch, PickHost, CleanHost, Resolve, EnsureCustomRole, RevokeRole, GrantRoles,
               HostDone, DropCustomRole, Served, SyncDatabase, SkipsStatements, CleanDatabase, world
  <2>5. QED BY <2>1, <2>2, <2>3, <2>4, NextGroups
<1>5. QED BY <1>2, <1>3, <1>4

\* Contents are only brought to databases that are there, and no grants to postgres.
LEMMA PlacedStep ==
    ASSUME TypeOK, Held, InHand, TasksPlanned, CleanPlanned, Placed, Next PROVE Placed'
<1>0. ContentsTyped BY TypeParts
<1> DEFINE allowed(kind, h, d) == d \in databasesOn(h) \/ (d = Postgres /\ kind = "functions")
<1>1. ASSUME \A kind \in Kinds, h \in Hosts, d \in Databases, c \in CustomRoles :
                 contents'[<<kind, h, d, c>>] \in {Nothing, contents[<<kind, h, d, c>>]}
                     \/ allowed(kind, h, d)
      PROVE  Placed'
  BY <1>1, DatabasesStay DEF Placed
<1>2. CASE contents' = contents BY <1>1, <1>2
<1>3. ASSUME NEW t \in work, Served(t) PROVE Placed'
  <2>1. pc = "work" /\ reachable(t) BY <1>3 DEF Served, SyncDatabase, SkipsStatements
  <2>2. PICK v \in Values : setContents({t.kind}, t.database, v) BY <1>3, ServedSets
  <2>3. t.kind \in Kinds /\ (t.kind = "grants" => t.database # Postgres) BY <2>1 DEF TasksPlanned
  <2>4. allowed(t.kind, host, t.database) BY <2>1, <2>3 DEF reachable, Kinds
  <2>5. ASSUME NEW kind \in Kinds, NEW h \in Hosts, NEW d \in Databases, NEW c \in CustomRoles,
               ~(kind = t.kind /\ h = host /\ d = t.database)
        PROVE  contents'[<<kind, h, d, c>>] = contents[<<kind, h, d, c>>]
    BY <1>0, <2>2, <2>5, ContentsSetAt
  <2> HIDE DEF allowed
  <2>6. QED BY <1>1, <2>4, <2>5
<1>4. ASSUME NEW t \in work, CleanDatabase(t) PROVE Placed'
  <2>1. ASSUME NEW kind \in Kinds, NEW h \in Hosts, NEW d \in Databases, NEW c \in CustomRoles
        PROVE  contents'[<<kind, h, d, c>>] \in {Nothing, contents[<<kind, h, d, c>>]}
                   \/ allowed(kind, h, d)
    <3>1. CASE contents[<<kind, h, d, c>>] # Nothing BY <3>1 DEF Placed
    <3>2. CASE contents[<<kind, h, d, c>>] = Nothing BY <1>0, <1>4, <3>2, ContentsCleaned
    <3>3. QED BY <3>1, <3>2
  <2> HIDE DEF allowed
  <2>2. QED BY <1>1, <2>1
<1>5. ASSUME NEW t \in work, Refused(t) PROVE Placed'
  <2>1. /\ setContents({"functions"}, t.database, Obstructed) /\ Obstructed \in Values
        /\ host \in Hosts /\ cr \in CustomRoles /\ t.database \in Databases
    BY <1>5, RefusedSets DEF Refused, SyncRefused, CleanRefused, InHand, Held, TypeOK, Tasks
  <2>2. allowed("functions", host, t.database)
    <3>1. CASE SyncRefused(t) BY <3>1 DEF SyncRefused, reachable
    <3>2. CASE contents[<<"functions", host, t.database, cr>>] # Nothing
      BY <2>1, <3>2 DEF Placed, Kinds
    <3>3. QED BY <1>5, <3>1, <3>2, RefusedSets
  <2>3. ASSUME NEW kind \in Kinds, NEW h \in Hosts, NEW d \in Databases, NEW c \in CustomRoles,
               ~(kind = "functions" /\ h = host /\ d = t.database)
        PROVE  contents'[<<kind, h, d, c>>] = contents[<<kind, h, d, c>>]
    BY <1>0, <2>1, <2>3, ContentsSetAt
  <2> HIDE DEF allowed
  <2>4. QED BY <1>1, <2>2, <2>3
<1>6. ASSUME NEW t \in work, NEW k \in Kinds, SyncFails(t, k) PROVE Placed'
  <2>1. /\ reachable(t) /\ t.kind \in {k, "both"} /\ pc \in {"work", "cleanWork"}
        /\ host \in Hosts /\ cr \in CustomRoles /\ t.database \in Databases
    BY <1>6 DEF SyncFails, InHand, Held, TypeOK, Tasks
  <2>2. allowed(k, host, t.database)
    <3>1. CASE pc = "work"
      BY <2>1, <3>1 DEF TasksPlanned, reachable, Kinds
    <3>2. CASE t.database # Postgres BY <2>1, <3>2 DEF reachable
    <3>3. CASE pc = "cleanWork" /\ t.database = Postgres /\ k = "functions" BY <3>3
    <3>4. CASE pc = "cleanWork" /\ t.database = Postgres /\ k = "grants"
      <4>1. ~t.wanted BY <3>4 DEF CleanPlanned
      <4>2. contents[<<k, host, t.database, cr>>] # Nothing
        BY <1>6, <4>1 DEF SyncFails, wantedContent, contentOf
      <4>3. QED BY <2>1, <4>2 DEF Placed
    <3>5. QED BY <2>1, <3>1, <3>2, <3>3, <3>4 DEF Kinds
  <2>3. \A kind \in Kinds, h \in Hosts, d \in Databases, c \in CustomRoles :
            contents'[<<kind, h, d, c>>] \notin {Nothing, contents[<<kind, h, d, c>>]} =>
                kind = k /\ h = host /\ d = t.database
    BY <1>0, <1>6, ContentsLost
  <2> HIDE DEF allowed
  <2>4. QED BY <1>1, <2>2, <2>3
<1>7. QED BY <1>2, <1>3, <1>4, <1>5, <1>6, ContentsChange

\* The calls that are planned for a host keep their shape (reconcileGrantsOnHost,
\* reconcileFunctionsOnHost).
LEMMA TasksPlannedStep ==
    ASSUME TypeOK, Held, InHand, TasksPlanned, Next PROVE TasksPlanned'
<1>1. CASE Ends
  <2>1. pc' = "idle" BY <1>1, EndsIdle
  <2>2. QED BY <2>1 DEF TasksPlanned
<1>2. CASE Author \/ Servers BY <1>2, OthersLocals DEF TasksPlanned
<1>3. ASSUME NEW c \in CustomRoles, Fetch(c) PROVE TasksPlanned'
  <2>1. CASE UNCHANGED locals BY <1>3, <2>1 DEF locals, Fetch, TasksPlanned
  <2>2. CASE pc' \in {"finalizer", "clean", "hosts"} BY <2>2 DEF TasksPlanned
  <2>3. QED BY <1>3, <2>1, <2>2, FetchReads
<1>4. CASE Resolve
  <2> DEFINE found == databasesOn(host)
             T == targetsOf(copy.spec, found)
             A == allUserDatabases(copy.spec, found)
  <2>1. copy.spec \in SpecType BY <1>4 DEF Resolve, Held, Objects
  <2>2. found \in SUBSET UserDatabases BY DEF databasesOn
  <2>3. T \in SUBSET Databases /\ A \in SUBSET UserDatabases BY <2>1, <2>2, TargetsTyped
  <2>4. work' = reconcileGrantsOnHost(T, A) \cup reconcileFunctionsOnHost(T, A)
    BY <1>4 DEF Resolve
  <2> HIDE DEF T, A, found
  <2>5. ASSUME NEW t \in work'
        PROVE  /\ t.kind \in Kinds /\ (t.wanted <=> t.stage \in {1, 4})
               /\ t.kind = "grants" => t.database # Postgres
    <3>1. CASE t \in reconcileGrantsOnHost(T, A)
      <4>1. /\ t.kind = "grants"
            /\ \/ t.stage = 1 /\ t.wanted /\ t.database # Postgres
               \/ t.stage = 2 /\ ~t.wanted /\ t.database \in A
        BY <2>3, <3>1, GrantTask
      <4>2. Postgres \notin A BY <2>3, ControllerAssumption
      <4>3. QED BY <4>1, <4>2 DEF Kinds
    <3>2. CASE t \in reconcileFunctionsOnHost(T, A)
      <4>1. /\ t \in Tasks /\ t.kind = "functions"
            /\ \/ t.stage = 3 /\ ~t.wanted /\ t.database = Postgres /\ A = {}
               \/ t.stage = 4 /\ t.wanted /\ t.database \in T
               \/ t.stage = 5 /\ ~t.wanted /\ t.database = Postgres /\ Postgres \notin T
               \/ t.stage = 6 /\ ~t.wanted /\ t.database \in A /\ t.database \notin T
        BY <2>3, <3>2, FunctionTask, Zenon
      <4>2. QED BY <4>1 DEF Kinds
    <3>3. QED BY <2>4, <2>5, <3>1, <3>2
  <2>6. QED BY <2>5 DEF TasksPlanned
<1>5. CASE EnsureCustomRole \/ GrantRoles \/ (\E g \in CustomRoles \cup OtherRoles : RevokeRole(g))
               \/ (\E t \in work : Served(t))
  BY <1>5 DEF EnsureCustomRole, GrantRoles, RevokeRole, Served, SyncDatabase, SkipsStatements, locals,
              TasksPlanned
<1>6. CASE /\ Works /\ ~(\E c \in CustomRoles : Fetch(c)) /\ ~EnsureCustomRole /\ ~GrantRoles
           /\ ~(\E g \in CustomRoles \cup OtherRoles : RevokeRole(g)) /\ ~Resolve
           /\ ~(\E t \in work : Served(t))
  <2>1. pc' \notin {"role", "memberships", "work"}
    BY <1>6 DEF Works, PickHost, CleanHost, HostDone, DropCustomRole, CleanDatabase
  <2>2. QED BY <2>1 DEF TasksPlanned
<1>7. QED BY <1>1, <1>2, <1>3, <1>4, <1>5, <1>6, NextGroups

\* A cleanup visits every database in which the role has something (cleanupRoleOnHost).
LEMMA CleanPlannedStep ==
    ASSUME TypeOK, Held, InHand, Placed, CleanPlanned, Next PROVE CleanPlanned'
<1>0. ContentsTyped BY TypeParts
<1>1. CASE Ends
  <2>1. pc' = "idle" BY <1>1, EndsIdle
  <2>2. QED BY <2>1 DEF CleanPlanned
<1>2. CASE Author \/ Servers
  <2>1. UNCHANGED <<pc, host, cr, work, contents>> BY <1>2, OthersLocals
  <2>2. QED BY <2>1, ZenonT(30) DEF CleanPlanned, contentOf
<1>3. ASSUME NEW c \in CustomRoles, Fetch(c) PROVE CleanPlanned'
  <2>1. CASE UNCHANGED locals BY <1>3, <2>1 DEF locals, Fetch, CleanPlanned
  <2>2. CASE pc' \in {"finalizer", "clean", "hosts"} BY <2>2 DEF CleanPlanned
  <2>3. QED BY <1>3, <2>1, <2>2, FetchReads
<1>4. ASSUME NEW h \in Hosts, CleanHost(h) PROVE CleanPlanned'
  <2>1. /\ host' = h /\ cr' = cr /\ contents' = contents /\ cr \in CustomRoles
        /\ work' = {task(1, "both", d, FALSE) : d \in databasesOn(h)}
                     \cup {task(2, "functions", Postgres, FALSE)}
    BY <1>4 DEF CleanHost, world, Held
  <2>2. databasesOn(h) \in SUBSET UserDatabases BY DEF databasesOn
  <2>3. \A t \in work' : ~t.wanted BY <2>1, <2>2, CleanTask
  <2>4. ASSUME NEW kind \in Kinds, NEW d \in Databases, contents[<<kind, h, d, cr>>] # Nothing
        PROVE  \E t \in work' : t.database = d /\ t.kind \in {kind, "both"}
    <3>1. CASE d \in databasesOn(h)
      <4>1. task(1, "both", d, FALSE) \in work' BY <2>1, <3>1
      <4>2. QED BY <4>1 DEF task
    <3>2. CASE d = Postgres /\ kind = "functions"
      <4>1. task(2, "functions", d, FALSE) \in work' BY <2>1, <3>2
      <4>2. QED BY <3>2, <4>1 DEF task
    <3>3. QED BY <2>1, <2>4, <3>1, <3>2 DEF Placed
  <2>5. \A kind \in Kinds, d \in Databases :
            contentOf(kind, d)' \notin {Nothing} \cup skippable(kind) =>
                \E t \in work' : t.database = d /\ t.kind \in {kind, "both"}
    BY <2>1, <2>4 DEF contentOf
  <2>6. QED BY <2>3, <2>5, Zenon DEF CleanPlanned, skippable
<1>5. ASSUME NEW t \in work, CleanDatabase(t) PROVE CleanPlanned'
  <2>1. /\ pc = "cleanWork" /\ UNCHANGED <<host, cr>> /\ work' = work \ {t}
        /\ cr \in CustomRoles /\ host \in Hosts
    BY <1>5 DEF CleanDatabase, Held, InHand
  <2>2. ASSUME NEW kind \in Kinds, NEW d \in Databases,
               contents'[<<kind, host, d, cr>>] \notin {Nothing} \cup skippable(kind)
        PROVE  \E u \in work' : u.database = d /\ u.kind \in {kind, "both"}
    <3>1. /\ ~(t.kind \in {kind, "both"} /\ d = t.database)
          /\ contents[<<kind, host, d, cr>>] \notin {Nothing} \cup skippable(kind)
      BY <1>0, <1>5, <2>1, <2>2, ContentsCleaned DEF skippable
    <3>2. PICK u \in work : u.database = d /\ u.kind \in {kind, "both"}
      BY <2>1, <3>1 DEF CleanPlanned, contentOf
    <3>3. u # t BY <3>1, <3>2
    <3>4. QED BY <2>1, <3>2, <3>3
  <2>3. \A kind \in Kinds, d \in Databases :
            contentOf(kind, d)' \notin {Nothing} \cup skippable(kind) =>
                \E u \in work' : u.database = d /\ u.kind \in {kind, "both"}
    BY <2>1, <2>2 DEF contentOf
  <2>4. \A u \in work' : ~u.wanted BY <2>1 DEF CleanPlanned
  <2>5. QED BY <2>3, <2>4, Zenon DEF CleanPlanned, skippable
<1>6. CASE /\ Works /\ ~(\E c \in CustomRoles : Fetch(c)) /\ ~(\E h \in Hosts : CleanHost(h))
           /\ ~(\E t \in work : CleanDatabase(t))
  <2>1. pc' # "cleanWork"
    BY <1>6 DEF Works, PickHost, Resolve, EnsureCustomRole, RevokeRole, GrantRoles, HostDone,
                DropCustomRole, Served, SyncDatabase, SkipsStatements, locals
  <2>2. QED BY <2>1 DEF CleanPlanned
<1>7. QED BY <1>1, <1>2, <1>3, <1>4, <1>5, <1>6, NextGroups

\* When the calls on the databases begin, the memberships are those of the resource
\* (EnsureCustomRole).
LEMMA MembersDoneStep == ASSUME TypeOK, Held, InHand, MembersDone, Next PROVE MembersDone'
<1>1. CASE Ends
  <2>1. pc' = "idle" BY <1>1, EndsIdle
  <2>2. QED BY <2>1 DEF MembersDone
<1>2. CASE Author \/ Servers BY <1>2, OthersLocals DEF MembersDone, grantedTo
<1>3. ASSUME NEW c \in CustomRoles, Fetch(c) PROVE MembersDone'
  <2>1. CASE UNCHANGED locals BY <1>3, <2>1 DEF locals, Fetch, MembersDone
  <2>2. CASE pc' \in {"finalizer", "clean", "hosts"} BY <2>2 DEF MembersDone
  <2>3. QED BY <1>3, <2>1, <2>2, FetchReads
<1>4. CASE GrantRoles
  <2>1. /\ UNCHANGED <<host, cr, copy>> /\ host \in Hosts /\ copy \in Objects
        /\ grantedTo(host, cr) \subseteq copy.spec.grantRoles
        /\ members' = [members EXCEPT ![host] = @ \cup {<<cr, g>> : g \in copy.spec.grantRoles}]
    BY <1>4 DEF GrantRoles, Held, InHand
  <2>2. copy.spec.grantRoles \subseteq CustomRoles \cup OtherRoles BY <2>1 DEF Objects, SpecType
  <2>3. members'[host] = members[host] \cup {<<cr, g>> : g \in copy.spec.grantRoles}
    BY <2>1 DEF TypeOK
  <2>4. \A g : <<cr, g>> \in members'[host] <=>
                   <<cr, g>> \in members[host] \/ g \in copy.spec.grantRoles
    BY <2>3
  <2>5. grantedTo(host, cr)' = copy.spec.grantRoles BY <2>1, <2>2, <2>4 DEF grantedTo
  <2>6. QED BY <2>1, <2>5 DEF MembersDone
<1>5. ASSUME NEW t \in work, Served(t) PROVE MembersDone'
  BY <1>5 DEF Served, SyncDatabase, SkipsStatements, MembersDone, grantedTo
<1>6. CASE /\ Works /\ ~(\E c \in CustomRoles : Fetch(c)) /\ ~GrantRoles
           /\ ~(\E t \in work : Served(t))
  <2>1. pc' # "work"
    BY <1>6 DEF Works, PickHost, CleanHost, Resolve, EnsureCustomRole, RevokeRole, HostDone,
                DropCustomRole, CleanDatabase, locals
  <2>2. QED BY <2>1 DEF MembersDone
<1>7. QED BY <1>1, <1>2, <1>3, <1>4, <1>5, <1>6, NextGroups

\* A host that a reconcile has finished with is not touched before the reconcile is over.
LEMMA AppliedSoFarStep ==
    ASSUME TypeOK, Held, InHand, HasRole, WorkPlanned, MembersDone, AppliedSoFar, Next
    PROVE  AppliedSoFar'
<1>0. /\ ContentsTyped /\ hosts \subseteq Hosts /\ roles \in [Hosts -> SUBSET CustomRoles]
      /\ listed \in [Hosts -> SUBSET UserDatabases]
      /\ members \in [Hosts -> SUBSET (CustomRoles \X (CustomRoles \cup OtherRoles))]
  BY TypeParts DEF ServerTyped, LocalsTyped
<1> DEFINE done(h) == /\ appliedOrSkipped(cr, copy.spec, h, listed[h])
                      /\ grantedTo(h, cr) = copy.spec.grantRoles
<1>1. ASSUME NEW h \in Hosts, UNCHANGED <<cr, copy>>, listed'[h] = listed[h],
             members'[h] = members[h], roles'[h] = roles[h],
             \A kind \in Kinds, d \in Databases :
                 contents'[<<kind, h, d, cr>>] = contents[<<kind, h, d, cr>>],
             done(h)
      PROVE  done(h)'
  <2>1. grantedTo(h, cr)' = grantedTo(h, cr) BY <1>1 DEF grantedTo
  <2>2. \A kind, d : expected(kind, copy.spec, listed[h], d)' = expected(kind, copy.spec, listed[h], d)
    BY <1>1 DEF expected, targetsOf
  <2>3. listed[h] \cup {Postgres} \subseteq Databases BY <1>0 DEF Databases
  <2>4. appliedOrSkipped(cr, copy.spec, h, listed[h])'
    BY <1>1, <2>2, <2>3 DEF appliedOrSkipped, skippable
  <2>5. QED BY <1>1, <2>1, <2>4
<1>2. ASSUME pc \in applying, UNCHANGED <<cr, copy>>,
             \A h \in Hosts \ hosts' : h # host' =>
                 /\ h \notin hosts /\ h # host /\ listed'[h] = listed[h]
                 /\ members'[h] = members[h] /\ roles'[h] = roles[h]
                 /\ \A kind \in Kinds, d \in Databases :
                       contents'[<<kind, h, d, cr>>] = contents[<<kind, h, d, cr>>]
      PROVE  AppliedSoFar'
  <2>1. ASSUME NEW h \in Hosts \ hosts', h # host' PROVE done(h)'
    <3>1. done(h) BY <1>2, <2>1 DEF AppliedSoFar
    <3> HIDE DEF done
    <3>2. QED BY <1>1, <1>2, <2>1, <3>1
  <2>2. QED BY <2>1 DEF AppliedSoFar
<1> HIDE DEF done
<1>3. CASE Ends
  <2>1. pc' = "idle" BY <1>3, EndsIdle
  <2>2. QED BY <2>1 DEF AppliedSoFar, applying
<1>4. CASE Author \/ Servers
  <2>1. UNCHANGED <<pc, cr, copy, hosts, host, listed, roles, members, contents>>
    BY <1>4, OthersLocals
  <2>2. CASE pc \in applying BY <1>2, <2>1, <2>2
  <2>3. CASE pc \notin applying BY <2>1, <2>3 DEF AppliedSoFar
  <2>4. QED BY <2>2, <2>3
<1>5. ASSUME NEW c \in CustomRoles, Fetch(c) PROVE AppliedSoFar'
  <2>1. CASE UNCHANGED locals BY <1>5, <2>1 DEF locals, Fetch, AppliedSoFar, applying
  <2>2. CASE hosts' = Hosts BY <2>2 DEF AppliedSoFar
  <2>3. QED BY <1>5, <2>1, <2>2, FetchReads
<1>6. ASSUME NEW h \in Hosts, PickHost(h) PROVE AppliedSoFar'
  <2>1. /\ pc = "hosts" /\ host' = h /\ hosts' = hosts \ {h}
        /\ UNCHANGED <<cr, copy, listed, roles, members, contents>>
    BY <1>6 DEF PickHost, world
  <2>2. host = NoHost /\ host \notin Hosts BY <2>1, ControllerAssumption DEF InHand
  <2>3. QED BY <1>2, <2>1, <2>2 DEF applying
<1>7. CASE Resolve
  <2>1. /\ pc = "resolve" /\ UNCHANGED <<cr, copy, hosts, host, roles, members, contents>>
        /\ listed' = [listed EXCEPT ![host] = databasesOn(host)]
    BY <1>7 DEF Resolve, world
  <2>2. \A h \in Hosts : h # host => listed'[h] = listed[h] BY <1>0, <2>1
  <2>3. QED BY <1>2, <2>1, <2>2 DEF applying
<1>8. CASE EnsureCustomRole
  <2>1. /\ pc = "role" /\ UNCHANGED <<cr, copy, hosts, host, listed, members, contents>>
        /\ roles' = [roles EXCEPT ![host] = @ \cup {cr}]
    BY <1>8 DEF EnsureCustomRole
  <2>2. \A h \in Hosts : h # host => roles'[h] = roles[h] BY <1>0, <2>1
  <2>3. QED BY <1>2, <2>1, <2>2 DEF applying
<1>9. CASE GrantRoles \/ \E g \in CustomRoles \cup OtherRoles : RevokeRole(g)
  <2>1. /\ pc = "memberships" /\ UNCHANGED <<cr, copy, hosts, host, listed, roles, contents>>
        /\ \A h \in Hosts : h # host => members'[h] = members[h]
    BY <1>0, <1>9 DEF GrantRoles, RevokeRole, locals
  <2>2. QED BY <1>2, <2>1 DEF applying
<1>10. ASSUME NEW t \in work, Served(t) PROVE AppliedSoFar'
  <2>1. /\ pc = "work" /\ UNCHANGED <<cr, copy, hosts, host, listed, roles, members>>
        /\ cr \in CustomRoles
    BY <1>10 DEF Served, SyncDatabase, SkipsStatements, Held
  <2>2. PICK v \in Values : setContents({t.kind}, t.database, v) BY <1>10, ServedSets
  <2>3. ASSUME NEW h \in Hosts, h # host, NEW kind \in Kinds, NEW d \in Databases
        PROVE  contents'[<<kind, h, d, cr>>] = contents[<<kind, h, d, cr>>]
    BY <1>0, <2>1, <2>2, <2>3, ContentsSetAt
  <2>4. QED BY <1>2, <2>1, <2>3 DEF applying
<1>11. CASE HostDone
  <2>1. /\ pc = "work" /\ work = {} /\ host' = NoHost
        /\ UNCHANGED <<cr, copy, hosts, listed, roles, members, contents>>
    BY <1>11 DEF HostDone, world
  <2>2. host \in Hosts /\ host # NoHost /\ cr \in roles[host]
    BY <2>1, ControllerAssumption DEF InHand, HasRole
  <2>3. \A kind \in Kinds, d \in listed[host] \cup {Postgres} :
            contents[<<kind, host, d, cr>>] \in
                {expected(kind, copy.spec, listed[host], d)} \cup skippable(kind)
    BY <2>1 DEF WorkPlanned, tasksOf, contentOf
  <2>4. done(host) BY <2>1, <2>2, <2>3 DEF done, appliedOrSkipped, MembersDone
  <2>5. \A h \in Hosts \ hosts : done(h) BY <2>1, <2>4 DEF AppliedSoFar, applying, done
  <2>6. \A h \in Hosts \ hosts : done(h)'
    BY <1>1, <2>1, <2>5
  <2>7. QED BY <2>1, <2>6 DEF AppliedSoFar, done
<1>12. CASE /\ Works /\ pc \in cleaning
  <2>1. ~(\E c \in CustomRoles : Fetch(c)) BY <1>12 DEF Fetch, cleaning
  <2>2. pc' \in cleaning BY <1>12, <2>1, WorksLocals
  <2>3. QED BY <2>2 DEF AppliedSoFar, applying, cleaning
<1>13. CASE Works
  <2>1. (\E h \in Hosts : CleanHost(h)) \/ DropCustomRole \/ (\E t \in work : CleanDatabase(t)) =>
            pc \in cleaning
    BY DEF CleanHost, DropCustomRole, CleanDatabase, cleaning
  <2>2. QED BY <1>5, <1>6, <1>7, <1>8, <1>9, <1>10, <1>11, <1>12, <1>13, <2>1 DEF Works
<1>14. QED BY <1>3, <1>4, <1>13, NextGroups

\* The calls of Resolve end with what is expected in each database.
LEMMA ResolvePlans ==
    ASSUME TypeOK, Held, InHand, Placed, Resolve,
           NEW kind \in Kinds, NEW d \in databasesOn(host) \cup {Postgres}
    PROVE  /\ {t \in work' : t.kind = kind /\ t.database = d} = {} =>
                  contents[<<kind, host, d, cr>>] = expected(kind, copy.spec, databasesOn(host), d)
           /\ \A t \in work' :
                  /\ t.kind = kind /\ t.database = d
                  /\ \A x \in work' : x.kind = kind /\ x.database = d => x.stage <= t.stage
                  => wantedContent(t) = expected(kind, copy.spec, databasesOn(host), d)
<1> DEFINE found == databasesOn(host)
           T == targetsOf(copy.spec, found)
           A == allUserDatabases(copy.spec, found)
<1>1. copy.spec \in SpecType /\ cr \in CustomRoles /\ host \in Hosts
  BY DEF Resolve, Held, InHand, Objects
<1>2. found \in SUBSET UserDatabases BY DEF databasesOn
<1>3. T \in SUBSET Databases /\ A \in SUBSET UserDatabases BY <1>1, <1>2, TargetsTyped
<1>4. work' = reconcileGrantsOnHost(T, A) \cup reconcileFunctionsOnHost(T, A) BY DEF Resolve
<1>5. found \subseteq T \cup A BY DEF targetsOf, allUserDatabases
<1>6. expected(kind, copy.spec, found, d) =
          IF d \in T /\ (kind = "functions" \/ d # Postgres) THEN copy.spec.content ELSE Nothing
  BY DEF expected
<1>7. d \in found \cup {Postgres} /\ d \in Databases /\ Postgres \notin found
  BY <1>2, ControllerAssumption DEF Databases
<1>8. contents[<<"grants", host, Postgres, cr>>] = Nothing
  BY <1>1, <1>7, ControllerAssumption DEF Placed, Kinds, Databases
<1> HIDE DEF T, A, found
<1>9. CASE kind = "grants"
  <2>1. ASSUME ~\E t \in work' : t.kind = kind /\ t.database = d
        PROVE  contents[<<kind, host, d, cr>>] = expected(kind, copy.spec, found, d)
    <3>1. d = Postgres
      <4>1. SUFFICES ASSUME d # Postgres PROVE FALSE OBVIOUS
      <4>2. d \in T \cup A BY <1>5, <1>7, <4>1
      <4>3. PICK t \in reconcileGrantsOnHost(T, A) : t.kind = "grants" /\ t.database = d
        BY <1>3, <4>1, <4>2, GrantsPlanned
      <4>4. QED BY <1>4, <1>9, <2>1, <4>3
    <3>2. QED BY <1>6, <1>8, <1>9, <3>1
  <2>2. ASSUME NEW t \in work', t.kind = kind, t.database = d
        PROVE  wantedContent(t) = expected(kind, copy.spec, found, d)
    <3>1. t \in reconcileGrantsOnHost(T, A)
      <4>1. t \in reconcileFunctionsOnHost(T, A) => t.kind = "functions"
        BY <1>3, FunctionTask
      <4>2. QED BY <1>4, <1>9, <2>2, <4>1
    <3>2. \/ t.stage = 1 /\ t.wanted /\ t.database \in T /\ t.database # Postgres
          \/ t.stage = 2 /\ ~t.wanted /\ t.database \in A /\ t.database \notin T
      BY <1>3, <3>1, GrantTask, Zenon
    <3>3. QED BY <1>6, <2>2, <3>2 DEF wantedContent
  <2>3. QED BY <2>1, <2>2 DEF found
<1>10. CASE kind = "functions"
  <2>1. PICK t0 \in reconcileFunctionsOnHost(T, A) : t0.kind = "functions" /\ t0.database = d
    <3>1. d \in T \cup A \cup {Postgres} BY <1>5, <1>7
    <3>2. QED BY <1>3, <3>1, FunctionsPlanned
  <2>2. ASSUME NEW t \in work', t.kind = kind, t.database = d,
               \A x \in work' : x.kind = kind /\ x.database = d => x.stage <= t.stage
        PROVE  wantedContent(t) = expected(kind, copy.spec, found, d)
    <3>1. t \in reconcileFunctionsOnHost(T, A)
      <4>1. t \in reconcileGrantsOnHost(T, A) => t.kind = "grants" BY <1>3, GrantTask
      <4>2. QED BY <1>4, <1>10, <2>2, <4>1
    <3>2. \/ t.stage = 3 /\ ~t.wanted /\ t.database = Postgres /\ A = {}
          \/ t.stage = 4 /\ t.wanted /\ t.database \in T
          \/ t.stage = 5 /\ ~t.wanted /\ t.database = Postgres /\ Postgres \notin T
          \/ t.stage = 6 /\ ~t.wanted /\ t.database \in A /\ t.database \notin T
      BY <1>3, <3>1, FunctionTask, Zenon
    <3>3. ASSUME t.stage = 3, d \in T PROVE FALSE
      <4> DEFINE u == task(4, "functions", d, TRUE)
      <4>1. u \in work' BY <1>4, <3>3 DEF reconcileFunctionsOnHost
      <4>2. u.stage = 4 /\ u.kind = kind /\ u.database = d BY <1>10 DEF task
      <4> HIDE DEF u
      <4>3. u.stage <= t.stage BY <2>2, <4>1, <4>2
      <4>4. QED BY <3>3, <4>2, <4>3
    <3>4. QED BY <1>6, <1>10, <2>2, <3>2, <3>3 DEF wantedContent
  <2>3. QED BY <1>4, <1>10, <2>1, <2>2 DEF found
<1>11. QED BY <1>9, <1>10 DEF Kinds

\* A call that is made was the earliest of those that are left.
LEMMA WorkPlannedStep ==
    ASSUME TypeOK, Held, InHand, Placed, TasksPlanned, WorkPlanned, Next PROVE WorkPlanned'
<1>0. ContentsTyped /\ listed \in [Hosts -> SUBSET UserDatabases] /\ work \subseteq Tasks
  BY TypeParts DEF LocalsTyped
<1>1. CASE Ends
  <2>1. pc' = "idle" BY <1>1, EndsIdle
  <2>2. QED BY <2>1 DEF WorkPlanned
<1>2. ASSUME UNCHANGED <<contents, copy, cr, host, listed, work>>,
             pc' \in {"role", "memberships", "work"} => pc \in {"role", "memberships", "work"}
      PROVE  WorkPlanned'
  <2>1. \A k, d : tasksOf(k, d)' = tasksOf(k, d) BY <1>2 DEF tasksOf
  <2>2. \A t : wantedContent(t)' = wantedContent(t) BY <1>2 DEF wantedContent
  <2>3. \A k, f, d : expected(k, copy.spec, f, d)' = expected(k, copy.spec, f, d)
    BY <1>2 DEF expected, targetsOf
  <2>4. \A k, d : contentOf(k, d)' = contentOf(k, d) BY <1>2 DEF contentOf
  <2>5. QED BY <1>2, <2>1, <2>2, <2>3, <2>4 DEF WorkPlanned, skippable
<1>3. CASE Author \/ Servers BY <1>2, <1>3, OthersLocals
<1>4. ASSUME NEW c \in CustomRoles, Fetch(c) PROVE WorkPlanned'
  <2>1. CASE UNCHANGED locals BY <1>4, <2>1 DEF locals, Fetch, WorkPlanned
  <2>2. CASE pc' \in {"finalizer", "clean", "hosts"} BY <2>2 DEF WorkPlanned
  <2>3. QED BY <1>4, <2>1, <2>2, FetchReads
<1>5. CASE EnsureCustomRole \/ GrantRoles \/ (\E g \in CustomRoles \cup OtherRoles : RevokeRole(g))
  BY <1>2, <1>5 DEF EnsureCustomRole, GrantRoles, RevokeRole, locals
<1>6. CASE Resolve
  <2>1. UNCHANGED <<contents, copy, cr, host>> /\ host \in Hosts
        /\ listed' = [listed EXCEPT ![host] = databasesOn(host)]
    BY <1>6 DEF Resolve, world, InHand
  <2>2. listed'[host] = databasesOn(host) BY <1>0, <2>1
  <2>3. ASSUME NEW k \in Kinds, NEW d \in listed'[host] \cup {Postgres}
        PROVE  /\ tasksOf(k, d)' = {} =>
                     contentOf(k, d)' = expected(k, copy.spec, listed[host], d)'
               /\ \A t \in tasksOf(k, d)' :
                     (\A x \in tasksOf(k, d)' : x.stage <= t.stage) =>
                         wantedContent(t)' = expected(k, copy.spec, listed[host], d)'
    <3>1. tasksOf(k, d)' = {t \in work' : t.kind = k /\ t.database = d} BY DEF tasksOf
    <3>2. expected(k, copy.spec, listed[host], d)' = expected(k, copy.spec, databasesOn(host), d)
      BY <2>1, <2>2 DEF expected, targetsOf
    <3>3. \A t : wantedContent(t)' = wantedContent(t) BY <2>1 DEF wantedContent
    <3>4. QED BY <1>6, <2>1, <2>2, <3>1, <3>2, <3>3, ResolvePlans DEF contentOf
  <2>4. QED BY <2>1, <2>3 DEF WorkPlanned
<1>7. ASSUME NEW t \in work, Served(t) PROVE WorkPlanned'
  <2>1. /\ pc = "work" /\ isNext(t)
        /\ work' = work \ {t} /\ UNCHANGED <<pc, copy, cr, host, listed>>
        /\ host \in Hosts /\ cr \in CustomRoles
    BY <1>7 DEF Served, SyncDatabase, SkipsStatements, InHand, Held
  <2>2. PICK v \in Values : /\ v \in {wantedContent(t)} \cup skippable(t.kind)
                            /\ setContents({t.kind}, t.database, v)
    BY <1>7, ServedSets
  <2>3. \A u : wantedContent(u)' = wantedContent(u) BY <2>1 DEF wantedContent
  <2>4. \A k, f, d : expected(k, copy.spec, f, d)' = expected(k, copy.spec, f, d)
    BY <2>1 DEF expected, targetsOf
  <2>5. ASSUME NEW k \in Kinds, NEW d \in listed[host] \cup {Postgres}
        PROVE  /\ tasksOf(k, d)' = {} =>
                     contents'[<<k, host, d, cr>>] \in
                         {expected(k, copy.spec, listed[host], d)} \cup skippable(k)
               /\ \A u \in tasksOf(k, d)' :
                     (\A x \in tasksOf(k, d)' : x.stage <= u.stage) =>
                         wantedContent(u) = expected(k, copy.spec, listed[host], d)
    <3>1. d \in Databases BY <1>0, <2>1 DEF Databases
    <3>2. /\ tasksOf(k, d) = {} =>
                 contents[<<k, host, d, cr>>] \in
                     {expected(k, copy.spec, listed[host], d)} \cup skippable(k)
          /\ \A u \in tasksOf(k, d) :
                 (\A x \in tasksOf(k, d) : x.stage <= u.stage) =>
                     wantedContent(u) = expected(k, copy.spec, listed[host], d)
      BY <2>1 DEF WorkPlanned, contentOf
    <3>3. CASE k = t.kind /\ d = t.database
      <4>1. contents'[<<k, host, d, cr>>] = v
        BY <1>0, <2>1, <2>2, <3>1, <3>3, ContentsSetAt
      <4>2. t \in tasksOf(k, d) /\ tasksOf(k, d)' = tasksOf(k, d) \ {t}
        BY <2>1, <3>3 DEF tasksOf
      <4>3. \A u \in tasksOf(k, d) : t.stage <= u.stage BY <2>1 DEF isNext, tasksOf
      <4>4. ASSUME tasksOf(k, d)' = {}
            PROVE  wantedContent(t) = expected(k, copy.spec, listed[host], d)
        <5>1. \A x \in tasksOf(k, d) : x = t BY <4>2, <4>4
        <5>2. t.stage <= t.stage BY <1>0 DEF Tasks
        <5>3. QED BY <3>2, <4>2, <5>1, <5>2
      <4>5. ASSUME NEW u \in tasksOf(k, d)', \A x \in tasksOf(k, d)' : x.stage <= u.stage
            PROVE  wantedContent(u) = expected(k, copy.spec, listed[host], d)
        <5>1. \A x \in tasksOf(k, d) : x.stage <= u.stage BY <4>2, <4>3, <4>5
        <5>2. QED BY <3>2, <4>2, <4>5, <5>1
      <4>6. QED BY <2>2, <3>3, <4>1, <4>4, <4>5
    <3>4. CASE ~(k = t.kind /\ d = t.database)
      <4>1. contents'[<<k, host, d, cr>>] = contents[<<k, host, d, cr>>]
        BY <1>0, <2>1, <2>2, <3>1, <3>4, ContentsSetAt
      <4>2. tasksOf(k, d)' = tasksOf(k, d) BY <2>1, <3>4 DEF tasksOf
      <4>3. QED BY <3>2, <4>1, <4>2
    <3>5. QED BY <3>3, <3>4
  <2>6. \A k, d : contentOf(k, d)' = contents'[<<k, host, d, cr>>] BY <2>1 DEF contentOf
  <2>7. QED BY <2>1, <2>3, <2>4, <2>5, <2>6 DEF WorkPlanned, skippable
<1>8. CASE /\ Works /\ ~(\E c \in CustomRoles : Fetch(c)) /\ ~EnsureCustomRole /\ ~GrantRoles
           /\ ~(\E g \in CustomRoles \cup OtherRoles : RevokeRole(g)) /\ ~Resolve
           /\ ~(\E t \in work : Served(t))
  <2>1. pc' \notin {"role", "memberships", "work"}
    BY <1>8 DEF Works, PickHost, CleanHost, HostDone, DropCustomRole, CleanDatabase
  <2>2. QED BY <2>1 DEF WorkPlanned
<1>9. QED BY <1>1, <1>3, <1>4, <1>5, <1>6, <1>7, <1>8, NextGroups

-----------------------------------------------------------------------------
(* The theorems.                                                           *)

\* The invariant holds at the start.
LEMMA InitInductive == Init => Inductive
<1> SUFFICES ASSUME Init PROVE Inductive OBVIOUS
<1>1. contents = [x \in Kinds \X Hosts \X Databases \X CustomRoles |-> Nothing] BY DEF Init
<1>2. ContentsTyped BY <1>1 DEF ContentsTyped
<1>3. \A kind \in Kinds, h \in Hosts, d \in Databases, c \in CustomRoles :
          contents[<<kind, h, d, c>>] = Nothing
  BY <1>1
<1>4. Placed BY <1>3 DEF Placed
<1>5. TypeOK
  <2>1. ApiTyped /\ ServerTyped /\ LocalsTyped BY DEF Init, ApiTyped, ServerTyped, LocalsTyped
  <2>2. BoundsTyped BY ControllerAssumption DEF Init, BoundsTyped
  <2>3. QED BY <1>2, <2>1, <2>2, TypeParts
<1>6. RoleOwned BY DEF Init, RoleOwned
<1>7. /\ Held /\ InHand /\ Cleaned /\ HasRole /\ TasksPlanned /\ CleanPlanned /\ AppliedSoFar
      /\ WorkPlanned /\ MembersDone
  BY DEF Init, Held, InHand, Cleaned, HasRole, TasksPlanned, CleanPlanned, AppliedSoFar,
         WorkPlanned, MembersDone, applying, cleaning
<1>8. QED BY <1>4, <1>5, <1>6, <1>7 DEF Inductive

\* Every step keeps it.
LEMMA StepInductive == Inductive /\ [Next]_vars => Inductive'
<1> SUFFICES ASSUME Inductive, [Next]_vars PROVE Inductive' OBVIOUS
<1>1. CASE UNCHANGED vars
  <2> USE <1>1 DEF vars, world, locals, bounds, Inductive
  <2>1. TypeOK' /\ RoleOwned' /\ Held' /\ InHand' /\ Cleaned' /\ HasRole'
    BY DEF TypeOK, RoleOwned, Held, InHand, Cleaned, HasRole
  <2>2. Placed' /\ TasksPlanned' BY DEF Placed, TasksPlanned, databasesOn, onServer
  <2>3. CleanPlanned' BY DEF CleanPlanned, contentOf, skippable
  <2>4. AppliedSoFar' /\ MembersDone'
    BY DEF AppliedSoFar, MembersDone, appliedOrSkipped, grantedTo, expected, targetsOf, skippable
  <2>5. WorkPlanned'
    BY DEF WorkPlanned, tasksOf, contentOf, wantedContent, expected, targetsOf, skippable
  <2>6. QED BY <2>1, <2>2, <2>3, <2>4, <2>5
<1>2. CASE Next
  <2> USE DEF Inductive
  <2>1. TypeOK'
    BY <1>2, ApiStep, ServerStep, ContentsStep, LocalsStep, BoundsStep, TypeParts
      DEF TypeOK, ApiTyped, ServerTyped, ContentsTyped, LocalsTyped, BoundsTyped
  <2>2. RoleOwned' BY <1>2, RoleOwnedStep
  <2>3. Held' /\ InHand' /\ Cleaned' /\ HasRole'
    BY <1>2, HeldStep, InHandStep, CleanedStep, HasRoleStep
  <2>4. Placed' /\ TasksPlanned' /\ CleanPlanned'
    BY <1>2, PlacedStep, TasksPlannedStep, CleanPlannedStep
  <2>5. AppliedSoFar' /\ WorkPlanned' /\ MembersDone'
    BY <1>2, AppliedSoFarStep, WorkPlannedStep, MembersDoneStep
  <2>6. QED BY <2>1, <2>2, <2>3, <2>4, <2>5
<1>3. QED BY <1>1, <1>2

\* The invariant holds always.
THEOREM InductiveInvariant == Spec => []Inductive
BY InitInductive, StepInductive, PTL DEF Spec

\* Every resource, queue, server and reconcile is well-formed always.
THEOREM TypeCorrect == Spec => []TypeOK
<1>1. Inductive => TypeOK BY DEF Inductive
<1>2. QED BY <1>1, InductiveInvariant, PTL

\* A role on a server always has a resource with the finalizer: whatever fails, restarts
\* or is edited in between, no role is left that nobody would drop (cleanupRole).
THEOREM RolesAreOwned == Spec => []RoleOwned
<1>1. Inductive => RoleOwned BY DEF Inductive
<1>2. QED BY <1>1, InductiveInvariant, PTL

\* When the role is to be dropped on a host, nothing is left of it in any database there
\* but grants whose revoke was refused (cleanupRoleOnHost before DropCustomRole).
THEOREM NothingOutlivesItsRole == Spec => []RevokedBeforeDrop
<1>1. Inductive => RevokedBeforeDrop
  BY DEF Inductive, CleanPlanned, RevokedBeforeDrop
<1>2. QED BY <1>1, InductiveInvariant, PTL

\* When Running is about to be reported, every host has the role, its memberships and its
\* contents, but for grants whose statements were refused (reconcile, persistStatus).
THEOREM RunningIsTrue == Spec => []RunningMeansApplied
<1>1. Inductive => RunningMeansApplied
  <2> SUFFICES ASSUME Inductive, pc = "hosts", hosts = {}, NEW h \in Hosts
               PROVE  /\ appliedOrSkipped(cr, copy.spec, h, listed[h])
                      /\ grantedTo(h, cr) = copy.spec.grantRoles
    BY DEF RunningMeansApplied
  <2>1. h # host BY ControllerAssumption DEF Inductive, InHand
  <2>2. QED BY <2>1 DEF Inductive, AppliedSoFar, applying
<1>2. QED BY <1>1, InductiveInvariant, PTL
=============================================================================

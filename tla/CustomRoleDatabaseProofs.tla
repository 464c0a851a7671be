---------------------- MODULE CustomRoleDatabaseProofs ----------------------
(***************************************************************************)
(* Theorems about CustomRoleDatabase, for all values of its constants: its *)
(* types, and what SyncDatabaseGrants and RevokeAllDatabaseGrants achieve. *)
(***************************************************************************)
EXTENDS CustomRoleDatabase, WellFoundedInduction, TLAPS

-----------------------------------------------------------------------------
(* What the calls know of themselves, and the database of itself.          *)

\* The statements of SyncDatabaseFunctions.
Syncing == {"drop", "create", "lookup", "revoke", "execute", "stale"}

\* A call is about a role, misses are of the call that is going on, there is a function
\* in hand while one is being created, and owners are known of only in that call.
CallInv ==
    /\ pc # "idle" => role \in Roles
    /\ pc = "idle" => missed = {}
    /\ pc \in {"create", "lookup", "revoke", "execute"} => left # <<>>
    /\ pc \notin Syncing => currentOwner = <<>>

\* Tables are in schemas, and privileges on tables.
ObjectsInv ==
    /\ \A t \in Tables : tableOwner[t] # None => schemaOwner[t[1]] # None
    /\ \A r \in Roles : \A k \in held[r] : tableOwner[<<k[1], k[2]>>] # None

\* No statement is left of an earlier call.
Forgotten == pc \notin {"apply", "clean"} => todo = {} /\ later = {}

\* There is an oid that is greater than all that are in use.
OidsBounded == \E n \in Nat : DOMAIN procs \subseteq 0..n

-----------------------------------------------------------------------------
(* SyncDatabaseGrants, made inductive.                                     *)

tableOf(k) == <<k[1], k[2]>>

\* Nobody has changed the table, or anything in the schema, since the call began, and
\* no statement about it was skipped.
untouched(k) == tableOf(k) \notin missed
untouchedSchema(s) == \A x \in missed : x[1] # s

\* What currentTableGrants does not list.
unlisted(k) == tableOf(k) \in Partitioned \/ k[1] \in SystemSchemas

isFor(st, kind, k) == st.kind = kind /\ st.schema = k[1] /\ st.table = k[2]

\* What has been read is still true where nobody has changed anything.
CurrentRead ==
    pc \in {"expand", "owners"} =>
        \A k \in Privileges : untouched(k) => (k \in current <=> k \in held[role] /\ ~unlisted(k))

DesiredRead ==
    pc \in {"owners", "apply"} =>
        \A k \in Privileges : untouched(k) => (k \in desired <=> k \in wanted(grants))

\* The statements that are left only do what is desired ...
OnlyDesired ==
    pc = "apply" =>
        \A st \in todo :
            /\ st.kind \in {"usage", "grant", "revoke", "unuse"}
            /\ st.kind = "usage" => st.schema \in schemasOf(desired)
            /\ st.kind = "unuse" => st.schema \notin schemasOf(desired)

\* ... and there is one for everything that is still missing or too much.
PrivilegesPlanned ==
    pc = "apply" =>
        \A k \in Privileges : untouched(k) =>
            /\ k \in desired \ held[role] => k \notin current /\ \E st \in todo : isFor(st, "grant", k)
            /\ k \in held[role] \ desired /\ ~unlisted(k) =>
                   k \in current /\ \E st \in todo : isFor(st, "revoke", k)

UsagePlanned ==
    pc = "apply" =>
        \A s \in Schemas \ SystemSchemas : untouchedSchema(s) =>
            /\ s \in schemasOf(desired) \ usage[role] =>
                   \E st \in todo : st.kind = "usage" /\ st.schema = s
            /\ s \in usage[role] \ schemasOf(desired) =>
                   \E st \in todo : st.kind = "unuse" /\ st.schema = s

SyncInv == CurrentRead /\ DesiredRead /\ OnlyDesired /\ PrivilegesPlanned /\ UsagePlanned

-----------------------------------------------------------------------------
(* RevokeAllDatabaseGrants, made inductive.                                *)

\* There is a statement left for every schema and every table that is not clean yet.
CleanInv ==
    pc = "clean" =>
        /\ \A st \in todo \cup later : st.kind \in {"bulk", "unuse"}
        /\ \A s \in usage[role] \ SystemSchemas :
              <<s, All>> \notin missed =>
                  \E st \in todo \cup later : st.kind = "unuse" /\ st.schema = s
        /\ \A k \in held[role] \cap current :
              untouched(k) =>
                  \E st \in todo \cup later :
                      st.kind = "bulk" /\ st.schema = k[1] /\ st.owner = tableOwner[tableOf(k)]

-----------------------------------------------------------------------------
(* Numbers.                                                                *)

\* A set of natural numbers that is not empty has a smallest element.
LEMMA SmallestOf ==
    ASSUME NEW S \in SUBSET Nat, S # {}
    PROVE  \E m \in S : \A x \in S : m <= x
<1>1. PICK m \in S : \A x \in S : <<x, m>> \notin OpToRel(<, Nat)
  BY NatLessThanWellFounded, WFMin
<1>2. ASSUME NEW x \in S PROVE m <= x
  <2>1. ~(x < m)
    BY <1>1 DEF OpToRel
  <2>2. x \in Nat /\ m \in Nat
    OBVIOUS
  <2>3. QED BY <2>1, <2>2
<1>3. QED BY <1>2

\* A bounded one also has a largest.
LEMMA LargestOf ==
    ASSUME NEW n \in Nat, NEW S \in SUBSET (0..n), S # {}
    PROVE  \E m \in S : \A x \in S : x <= m
<1> DEFINE T == {k \in Nat : \E x \in S : k = n - x}
<1>1. PICK y \in S : y \in S
  OBVIOUS
<1>2. n - y \in T
  BY <1>1
<1>3. T \in SUBSET Nat
  OBVIOUS
<1>4. PICK k \in T : \A j \in T : k <= j
  BY <1>2, <1>3, SmallestOf
<1>5. PICK m \in S : k = n - m
  BY <1>4
<1>6. ASSUME NEW x \in S PROVE x <= m
  <2>1. n - x \in T
    OBVIOUS
  <2>2. k <= n - x
    BY <2>1, <1>4
  <2>3. x \in Nat /\ m \in Nat
    OBVIOUS
  <2>4. QED BY <2>2, <2>3, <1>5
<1>7. QED BY <1>6

-----------------------------------------------------------------------------
(* The type invariant and its parts.                                       *)

USE DEF session, objects, grantLocals, grantVars, functionLocals, functionVars, resources, Syncing

PCs == {"idle", "grants", "expand", "owners", "apply", "functions", "drop", "create",
        "lookup", "revoke", "execute", "stale", "dropAll", "dropping", "revokeAll",
        "clean", "dropRole"}

SessionType ==
    /\ pc \in PCs
    /\ role \in Roles \cup {None} /\ settable \subseteq Owners
    /\ missed \subseteq Schemas \X (TableNames \cup {All})
    /\ changes \in 0..MaxChanges /\ faults \in 0..MaxFaults

ResourcesType ==
    /\ edits \in 0..MaxEdits
    /\ phase \in [Roles -> {"live", "deleting", "gone"}]
    /\ spec \in [Roles -> UNION {Specs[r] : r \in Roles}] /\ \A r \in Roles : spec[r] \in Specs[r]
    /\ exists \in [Roles -> BOOLEAN]

Typed == SessionType /\ GrantsTypeOK /\ FunctionsTypeOK /\ ResourcesType

\* The type invariant, split by the module that declares the variables.
LEMMA TypeParts == TypeOK <=> Typed
BY DEF TypeOK, Typed, SessionType, ResourcesType, PCs

-----------------------------------------------------------------------------
(* Types of what the calls on grants read and plan.                        *)

\* A privilege is on a table.
LEMMA PrivilegeParts ==
    ASSUME NEW k \in Privileges
    PROVE  /\ k[1] \in Schemas /\ k[2] \in TableNames /\ k[3] \in Keywords
           /\ tableOf(k) \in Tables /\ k = <<k[1], k[2], k[3]>>
BY DEF Privileges, Tables, tableOf

\* Owners are owners, or none.
LEMMA OwnerTypes ==
    ASSUME GrantsTypeOK
    PROVE  /\ \A x \in Schemas : schemaOwnerMap(x) \in Owners \cup {None}
           /\ \A t \in Tables : tableOwnerMap(t) \in Owners \cup {None}
BY DEF GrantsTypeOK, schemaOwnerMap, tableOwnerMap

\* What expandGrants returns are privileges.
LEMMA ExpandType ==
    ASSUME GrantsTypeOK
    PROVE  expandGrants(grants) \subseteq Privileges
<1> SUFFICES ASSUME NEW g \in grants, NEW x \in resolveSchemas(g.schema),
                    NEW t \in resolveTables(x, g.table), NEW p \in g.privileges
             PROVE  <<t[1], t[2], Upper[p]>> \in Privileges
  BY DEF expandGrants
<1>1. g \in Grants
  BY DEF GrantsTypeOK
<1>2. p \in Keywords /\ t \in Tables
  BY <1>1 DEF Grants, resolveTables
<1>3. Upper[p] \in Keywords
  BY <1>2, GrantsAssumption
<1>4. QED BY <1>2, <1>3 DEF Tables, Privileges

\* The schemas and the tables of a set of privileges.
LEMMA PartsOfPrivileges ==
    ASSUME NEW keys \in SUBSET Privileges
    PROVE  schemasOf(keys) \subseteq Schemas /\ tablesOf(keys) \subseteq Tables
BY PrivilegeParts DEF schemasOf, tablesOf, tableOf

\* Statements on schemas and on tables.
LEMMA StatementTypes ==
    ASSUME GrantsTypeOK, NEW kind \in {"usage", "grant", "revoke", "bulk", "unuse"},
           NEW ss \in SUBSET Schemas, NEW ts \in SUBSET Tables
    PROVE  onSchemas(kind, ss) \subseteq Statements /\ onTables(kind, ts) \subseteq Statements
<1>1. onSchemas(kind, ss) \subseteq Statements
  BY OwnerTypes DEF onSchemas, statement, Statements
<1>2. \A t \in Tables : t[1] \in Schemas /\ t[2] \in TableNames
  BY DEF Tables
<1>3. onTables(kind, ts) \subseteq Statements
  BY <1>2, OwnerTypes DEF onTables, statement, Statements
<1>4. QED BY <1>1, <1>3

\* Both calls plan statements.
LEMMA PlanTypes ==
    ASSUME GrantsTypeOK, role \in Roles
    PROVE  syncStatements \subseteq Statements /\ cleanStatements \subseteq Statements
<1>1. /\ currentGrantedSchemas(role) \in SUBSET Schemas
      /\ desired \in SUBSET Privileges /\ current \in SUBSET Privileges
  BY DEF GrantsTypeOK, currentGrantedSchemas
<1>2. /\ desired \ current \in SUBSET Privileges /\ current \ desired \in SUBSET Privileges
  BY <1>1
<1>3. /\ schemasOf(desired) \ currentGrantedSchemas(role) \in SUBSET Schemas
      /\ currentGrantedSchemas(role) \ schemasOf(desired) \in SUBSET Schemas
      /\ tablesOf(desired \ current) \in SUBSET Tables
      /\ tablesOf(current \ desired) \in SUBSET Tables
  BY <1>1, <1>2, PartsOfPrivileges
<1>4. syncStatements \subseteq Statements
  <2>1. /\ onSchemas("usage", schemasOf(desired) \ currentGrantedSchemas(role)) \subseteq Statements
        /\ onSchemas("unuse", currentGrantedSchemas(role) \ schemasOf(desired)) \subseteq Statements
        /\ onTables("grant", tablesOf(desired \ current)) \subseteq Statements
        /\ onTables("revoke", tablesOf(current \ desired)) \subseteq Statements
    BY <1>3, StatementTypes
  <2>2. QED BY <2>1 DEF syncStatements
<1>5. cleanStatements \subseteq Statements
  <2> SUFFICES ASSUME NEW x \in currentGrantedSchemas(role)
               PROVE  /\ {statement("bulk", x, All, o) : o \in ownersIn(x)} \subseteq Statements
                      /\ onSchemas("unuse", {x}) \subseteq Statements
    BY DEF cleanStatements
  <2>1. x \in Schemas /\ {x} \in SUBSET Schemas
    BY <1>1
  <2>2. ownersIn(x) \subseteq Owners \cup {None}
    BY <2>1, OwnerTypes DEF ownersIn, resolveTables
  <2>3. {statement("bulk", x, All, o) : o \in ownersIn(x)} \subseteq Statements
    BY <2>1, <2>2 DEF statement, Statements
  <2>4. {} \in SUBSET Tables
    OBVIOUS
  <2>5. onSchemas("unuse", {x}) \subseteq Statements
    BY <2>1, <2>4, StatementTypes
  <2>6. QED BY <2>3, <2>5
<1>6. QED BY <1>4, <1>5

\* What a statement is about, and the privileges that it names.
LEMMA ObjectTypes ==
    ASSUME GrantsTypeOK, role \in Roles, NEW st \in Statements
    PROVE  /\ objectsOf(st) \subseteq Schemas \X (TableNames \cup {All})
           /\ named(st) \subseteq Privileges
<1>1. st.schema \in Schemas /\ st.table \in TableNames \cup {All}
  BY DEF Statements
<1>2. objectsOf(st) \subseteq Schemas \X (TableNames \cup {All})
  BY <1>1 DEF objectsOf, owned, Tables
<1>3. named(st) \subseteq Privileges
  BY DEF named, GrantsTypeOK
<1>4. QED BY <1>2, <1>3

-----------------------------------------------------------------------------
(* Types of the functions.                                                 *)

\* Two characters are a text.
LEMMA PairIsText ==
    ASSUME NEW S, NEW a \in S, NEW b \in S
    PROVE  <<a, b>> \in Seq(S)
OBVIOUS

\* The function in hand and its name.
LEMMA InHandType ==
    ASSUME FunctionsTypeOK, role \in Roles, left # <<>>
    PROVE  /\ f \in Functions /\ Tail(left) \in Seq(Functions)
           /\ pgName \in Seq(Characters) /\ f.args \in Args
<1>1. f \in Functions /\ Tail(left) \in Seq(Functions)
  BY DEF FunctionsTypeOK, f
<1>2. role \in Seq(Characters) /\ f.name \in Seq(Characters) /\ f.args \in Args
  BY <1>1, FunctionsAssumption DEF Functions
<1>3. separator \in Seq(Characters)
  <2>1. underscore \in Characters
    BY FunctionsAssumption
  <2>2. <<underscore, underscore>> \in Seq(Characters)
    BY <2>1, PairIsText
  <2>3. QED BY <2>2 DEF separator
<1>4. pgName \in Seq(Characters)
  BY <1>2, <1>3 DEF pgName, managedFunctionName, managedFunctionPrefix
<1>5. QED BY <1>1, <1>2, <1>4

\* The catalog of functions: a function from oids to functions.
ProcsType == DOMAIN procs \in SUBSET Nat /\ procs \in [DOMAIN procs -> ManagedProcs]

\* Functions that are dropped leave the others as they are.
LEMMA DroppedType ==
    ASSUME ProcsType, OidsBounded, NEW name, NEW args, procs' = dropped(name, args)
    PROVE  /\ ProcsType' /\ OidsBounded'
           /\ DOMAIN procs' = {i \in DOMAIN procs : ~same(procs[i], name, args)}
           /\ \A i \in DOMAIN procs' : procs'[i] = procs[i]
<1>1. /\ DOMAIN procs' = {i \in DOMAIN procs : ~same(procs[i], name, args)}
      /\ procs' = [i \in DOMAIN procs' |-> procs[i]]
  BY DEF dropped, Restrict
<1>2. QED BY <1>1 DEF ProcsType, OidsBounded

\* Changing single functions in place.
LEMMA AlteredType ==
    ASSUME ProcsType, OidsBounded,
           procs' = [i \in DOMAIN procs |-> procs'[i]],
           \A i \in DOMAIN procs : procs'[i] \in ManagedProcs
    PROVE  ProcsType' /\ OidsBounded'
BY DEF ProcsType, OidsBounded

\* There is an oid for a new function, and it is greater than all others.
LEMMA NewOid ==
    ASSUME ProcsType, OidsBounded
    PROVE  newOid \in Nat /\ newOid \notin DOMAIN procs /\ \A i \in DOMAIN procs : i < newOid
<1> DEFINE S == DOMAIN procs \cup {0}
<1>1. PICK n \in Nat : DOMAIN procs \subseteq 0..n
  BY DEF OidsBounded
<1>2. S \in SUBSET (0..n) /\ S # {}
  BY <1>1
<1>3. \E m \in S : \A x \in S : x <= m
  BY <1>2, LargestOf
<1>4. \E m \in S : \A x \in S : m >= x
  BY <1>2, <1>3
<1>5. Max(S) \in S /\ \A x \in S : Max(S) >= x
  BY <1>4 DEF Max
<1>6. Max(S) \in Nat /\ newOid = Max(S) + 1
  BY <1>2, <1>5 DEF newOid
<1>7. \A i \in DOMAIN procs : i \in Nat /\ i <= Max(S)
  BY <1>2, <1>5
<1>8. QED BY <1>6, <1>7

\* The newest function of a name is one of that name, and no other of it is newer.
LEMMA Newest ==
    ASSUME ProcsType, OidsBounded, NEW name, overloads(name) # {}
    PROVE  \E i \in DOMAIN procs :
              /\ procs[i].name = name /\ newest(name) = procs[i]
              /\ \A j \in DOMAIN procs : procs[j].name = name => j <= i
<1> DEFINE at == {i \in DOMAIN procs : procs[i].name = name}
<1>1. PICK n \in Nat : DOMAIN procs \subseteq 0..n
  BY DEF OidsBounded
<1>2. at \in SUBSET (0..n) /\ at # {}
  BY <1>1 DEF overloads, Range
<1>3. \E i \in at : \A j \in at : j <= i
  BY <1>2, LargestOf
<1>4. (CHOOSE i \in at : \A j \in at : j <= i) \in {i \in at : \A j \in at : j <= i}
  BY <1>3
<1>5. QED BY <1>4 DEF newest

\* CREATE OR REPLACE FUNCTION.
LEMMA CreatedType ==
    ASSUME ProcsType, OidsBounded, FunctionsTypeOK, role \in Roles, left # <<>>, mayCreate,
           procs' = created
    PROVE  ProcsType' /\ OidsBounded'
<1>1. f \in Functions /\ pgName \in Seq(Characters)
  BY InHandType
<1>2. /\ f.args \in Args /\ f.returns \in Returns /\ f.body \in Bodies
  BY <1>1 DEF Functions
<1>3. owner \in Owners
  BY FunctionsAssumption DEF mayCreate
<1>4. CASE \E p \in Range(procs) : same(p, pgName, f.args)
  <2>1. procs' = [i \in DOMAIN procs |-> IF same(procs[i], pgName, f.args)
                                 THEN [procs[i] EXCEPT !.body = f.body] ELSE procs[i]]
    BY <1>4 DEF created
  <2>2. \A i \in DOMAIN procs : procs'[i] \in ManagedProcs
    BY <2>1, <1>2 DEF ProcsType, ManagedProcs
  <2>3. procs' = [i \in DOMAIN procs |-> procs'[i]]
    BY <2>1
  <2>4. QED BY <2>2, <2>3, AlteredType
<1>5. CASE ~ \E p \in Range(procs) : same(p, pgName, f.args)
  <2>1. procs' = [i \in DOMAIN procs \cup {newOid} |-> IF i = newOid THEN newFunction ELSE procs[i]]
    BY <1>5 DEF created
  <2>2. newFunction \in ManagedProcs
    BY <1>1, <1>2, <1>3 DEF newFunction, ManagedProcs
  <2>3. newOid \in Nat
    BY NewOid
  <2>4. ProcsType'
    BY <2>1, <2>2, <2>3 DEF ProcsType
  <2>5. PICK n \in Nat : DOMAIN procs \subseteq 0..n
    BY DEF OidsBounded
  <2>6. n + newOid \in Nat /\ DOMAIN procs \cup {newOid} \subseteq 0..(n + newOid)
    BY <2>3, <2>5
  <2>7. DOMAIN procs' = DOMAIN procs \cup {newOid}
    BY <2>1
  <2>8. QED BY <2>4, <2>6, <2>7 DEF OidsBounded
<1>6. QED BY <1>4, <1>5
-----------------------------------------------------------------------------
(* Type correctness.                                                       *)

TypeInv == Typed /\ CallInv /\ OidsBounded

\* A call that goes on, one that ends, and a change from outside.
LEMMA SessionSteps ==
    ASSUME SessionType
    PROVE  /\ \A next \in PCs :
                 continue(next) /\ missed' \subseteq Schemas \X (TableNames \cup {All}) => SessionType'
           /\ endReconcile /\ faults' \in 0..MaxFaults => SessionType'
           /\ \A xs \in SUBSET (Schemas \X (TableNames \cup {All})) :
                 outside(xs) /\ settable' \subseteq Owners => SessionType'
<1>1. \A next \in PCs :
         continue(next) /\ missed' \subseteq Schemas \X (TableNames \cup {All}) => SessionType'
  BY DEF SessionType, continue
<1>2. endReconcile /\ faults' \in 0..MaxFaults => SessionType'
  BY DEF SessionType, endReconcile, PCs
<1>3. \A xs \in SUBSET (Schemas \X (TableNames \cup {All})) :
         outside(xs) /\ settable' \subseteq Owners => SessionType'
  BY SessionAssumption DEF SessionType, outside
<1>4. QED BY <1>1, <1>2, <1>3

\* Nothing is kept of a call that has ended.
LEMMA ForgottenTypes ==
    /\ GrantsTypeOK /\ forgetGrants /\ UNCHANGED <<objects, usage, held>> => GrantsTypeOK'
    /\ FunctionsTypeOK /\ forgetFunctions /\ UNCHANGED <<databaseOwner, procs>> => FunctionsTypeOK'
<1>1. GrantsTypeOK /\ forgetGrants /\ UNCHANGED <<objects, usage, held>> => GrantsTypeOK'
  BY DEF GrantsTypeOK, forgetGrants
<1>2. FunctionsTypeOK /\ forgetFunctions /\ UNCHANGED <<databaseOwner, procs>> => FunctionsTypeOK'
  BY DEF FunctionsTypeOK, forgetFunctions
<1>3. QED BY <1>1, <1>2

\* The calls on grants.
LEMMA GrantsKeepTypes ==
    ASSUME TypeInv, GrantsNext, UNCHANGED <<functionVars, resources>>
    PROVE  TypeInv'
<1> USE DEF TypeInv, Typed
<1> FunctionsTypeOK' /\ OidsBounded' /\ ResourcesType'
  BY DEF FunctionsTypeOK, OidsBounded, ResourcesType
<1>1. CASE SyncDatabaseGrants
  <2>1. role \in Roles
    BY <1>1 DEF SyncDatabaseGrants, CallInv
  <2>2. SessionType'
    BY <1>1, SessionSteps DEF SyncDatabaseGrants, PCs, SessionType
  <2>3. GrantsTypeOK'
    BY <1>1, <2>1 DEF SyncDatabaseGrants, GrantsTypeOK, currentTableGrants
  <2>4. CallInv'
    BY <1>1 DEF SyncDatabaseGrants, CallInv, continue
  <2>5. QED BY <2>2, <2>3, <2>4
<1>2. CASE InvalidGrants
  <2>1. SessionType'
    BY <1>2, SessionSteps DEF InvalidGrants, SessionType
  <2>2. GrantsTypeOK'
    BY <1>2, ForgottenTypes DEF InvalidGrants
  <2>3. CallInv'
    BY <1>2 DEF InvalidGrants, CallInv, endReconcile
  <2>4. QED BY <2>1, <2>2, <2>3
<1>3. CASE ExpandGrants
  <2>1. SessionType'
    BY <1>3, SessionSteps DEF ExpandGrants, PCs, SessionType
  <2>2. GrantsTypeOK'
    BY <1>3, ExpandType DEF ExpandGrants, GrantsTypeOK
  <2>3. CallInv'
    BY <1>3 DEF ExpandGrants, CallInv, continue
  <2>4. QED BY <2>1, <2>2, <2>3
<1>4. CASE PlanSync
  <2>1. role \in Roles
    BY <1>4 DEF PlanSync, CallInv
  <2>2. SessionType'
    BY <1>4, SessionSteps DEF PlanSync, PCs, SessionType
  <2>3. GrantsTypeOK'
    BY <1>4, <2>1, PlanTypes DEF PlanSync, GrantsTypeOK
  <2>4. CallInv'
    BY <1>4 DEF PlanSync, CallInv, continue
  <2>5. QED BY <2>2, <2>3, <2>4
<1>5. CASE RevokeAllDatabaseGrants
  <2>1. role \in Roles
    BY <1>5 DEF RevokeAllDatabaseGrants, CallInv
  <2>2. SessionType'
    BY <1>5, SessionSteps DEF RevokeAllDatabaseGrants, PCs, SessionType
  <2>3. GrantsTypeOK'
    BY <1>5, <2>1, PlanTypes DEF RevokeAllDatabaseGrants, GrantsTypeOK
  <2>4. CallInv'
    BY <1>5 DEF RevokeAllDatabaseGrants, CallInv, continue
  <2>5. QED BY <2>2, <2>3, <2>4
<1>6. CASE \E x \in Schemas : CleanSchema(x)
  <2>1. SessionType' /\ CallInv'
    BY <1>6 DEF CleanSchema, SessionType, CallInv
  <2>2. GrantsTypeOK'
    BY <1>6 DEF CleanSchema, GrantsTypeOK
  <2>3. QED BY <2>1, <2>2
<1>7. ASSUME NEW st \in todo, Execute(st) \/ Skip(st) \/ StatementFails(st)
      PROVE  TypeInv'
  <2>1. role \in Roles /\ st \in Statements
    BY <1>7 DEF Execute, Skip, StatementFails, CallInv, GrantsTypeOK
  <2>2. CASE Execute(st)
    <3>1. st.schema \in Schemas /\ named(st) \subseteq Privileges
      BY <2>1, ObjectTypes DEF Statements
    <3>2. SessionType' /\ CallInv'
      BY <2>2 DEF Execute, SessionType, CallInv
    <3>3. usage' \in [Roles -> SUBSET Schemas]
      BY <2>1, <2>2, <3>1 DEF Execute, GrantsTypeOK
    <3>4. held' \in [Roles -> SUBSET Privileges]
      BY <2>1, <2>2, <3>1 DEF Execute, GrantsTypeOK
    <3>5. GrantsTypeOK'
      BY <2>2, <3>3, <3>4 DEF Execute, GrantsTypeOK
    <3>6. QED BY <3>2, <3>5
  <2>3. CASE Skip(st)
    <3>1. objectsOf(st) \subseteq Schemas \X (TableNames \cup {All})
      BY <2>1, ObjectTypes
    <3>2. SessionType'
      BY <2>3, <3>1, SessionSteps DEF Skip, PCs, SessionType
    <3>3. GrantsTypeOK' /\ CallInv'
      BY <2>3 DEF Skip, GrantsTypeOK, CallInv, continue
    <3>4. QED BY <3>2, <3>3
  <2>4. CASE StatementFails(st)
    <3>1. SessionType' /\ CallInv'
      BY <2>4, SessionSteps DEF StatementFails, SessionType, CallInv, endReconcile
    <3>2. GrantsTypeOK'
      BY <2>4, ForgottenTypes DEF StatementFails
    <3>3. QED BY <3>1, <3>2
  <2>5. QED BY <1>7, <2>2, <2>3, <2>4
<1>8. QED
  BY <1>1, <1>2, <1>3, <1>4, <1>5, <1>6, <1>7 DEF GrantsNext

\* The functions of a role are functions, and dealing with them changes no type.
LEMMA ListedType ==
    ASSUME FunctionsTypeOK
    PROVE  managedFunctions(role) \subseteq ManagedProcs
BY DEF FunctionsTypeOK, managedFunctions, Range

\* Every variable but the catalog of functions, when a call goes on.
LEMMA FunctionStepType ==
    ASSUME TypeInv, ProcsType', OidsBounded', UNCHANGED <<grantVars, resources, missed, databaseOwner>>,
           NEW next \in PCs \ {"idle"}, continue(next), pc # "idle",
           functions' \in Seq(Functions), left' \in Seq(Functions),
           next \in {"create", "lookup", "revoke", "execute"} => left' # <<>>,
           next \notin Syncing => currentOwner' = <<>>,
           dbOwner' \in Owners \cup {None}, identity' \in Args \cup {<<>>},
           listed' \subseteq ManagedProcs, DOMAIN currentOwner' \subseteq {p.name : p \in listed'},
           dealtWith' \subseteq Seq(Characters) \X Args
    PROVE  TypeInv'
<1> USE DEF TypeInv, Typed
<1>1. SessionType'
  BY SessionSteps DEF SessionType
<1>2. GrantsTypeOK' /\ ResourcesType'
  BY DEF GrantsTypeOK, ResourcesType
<1>3. FunctionsTypeOK'
  BY DEF FunctionsTypeOK, ProcsType
<1>4. CallInv'
  BY DEF CallInv, continue
<1>5. QED BY <1>1, <1>2, <1>3, <1>4

\* The calls on functions.
LEMMA FunctionsKeepTypes ==
    ASSUME TypeInv, FunctionsNext, UNCHANGED <<grantVars, resources>>
    PROVE  TypeInv'
<1> USE DEF TypeInv, Typed
<1> ProcsType /\ OidsBounded /\ FunctionsTypeOK
  BY DEF ProcsType, FunctionsTypeOK
<1>1. CASE SyncDatabaseFunctions
  <2>1. listed' \subseteq ManagedProcs
    BY <1>1, ListedType DEF SyncDatabaseFunctions
  <2>2. DOMAIN currentOwner' \subseteq {p.name : p \in listed'}
    BY <1>1 DEF SyncDatabaseFunctions, ownersByName
  <2>3. ProcsType' /\ OidsBounded' /\ pc # "idle"
    BY <1>1 DEF SyncDatabaseFunctions, ProcsType, OidsBounded
  <2>4. left' \in Seq(Functions) /\ functions' \in Seq(Functions) /\ dbOwner' \in Owners \cup {None}
        /\ identity' \in Args \cup {<<>>}
    BY <1>1 DEF SyncDatabaseFunctions, FunctionsTypeOK
  <2>5. QED
    BY <1>1, <2>1, <2>2, <2>3, <2>4, FunctionStepType DEF SyncDatabaseFunctions, PCs
<1>2. CASE InvalidFunctions \/ FunctionCallFails
  <2>1. SessionType' /\ CallInv'
    BY <1>2, SessionSteps DEF InvalidFunctions, FunctionCallFails, SessionType, CallInv, endReconcile,
       forgetFunctions
  <2>2. FunctionsTypeOK' /\ OidsBounded'
    BY <1>2, ForgottenTypes DEF InvalidFunctions, FunctionCallFails, OidsBounded
  <2>3. GrantsTypeOK' /\ ResourcesType'
    BY DEF GrantsTypeOK, ResourcesType
  <2>4. QED BY <2>1, <2>2, <2>3
<1>3. CASE DropForNewOwner
  <2>1. ProcsType' /\ OidsBounded'
    <3>1. CASE ownerChanges
      BY <1>3, <3>1, DroppedType DEF DropForNewOwner
    <3>2. CASE ~ownerChanges
      BY <1>3, <3>2 DEF DropForNewOwner, ProcsType, OidsBounded
    <3>3. QED BY <3>1, <3>2
  <2>2. QED
    BY <1>3, <2>1, FunctionStepType DEF DropForNewOwner, FunctionsTypeOK, PCs
<1>4. CASE CreateFunction
  <2>1. role \in Roles /\ left # <<>>
    BY <1>4 DEF CreateFunction, CallInv
  <2>2. ProcsType' /\ OidsBounded'
    BY <1>4, <2>1, CreatedType DEF CreateFunction
  <2>3. QED
    BY <1>4, <2>1, <2>2, FunctionStepType DEF CreateFunction, FunctionsTypeOK, PCs
<1>5. CASE LookupIdentity
  <2>1. left # <<>> /\ overloads(pgName) # {}
    BY <1>5 DEF LookupIdentity, CallInv
  <2>2. newest(pgName) \in ManagedProcs
    BY <2>1, Newest DEF ProcsType
  <2>3. newest(pgName).args \in Args
    BY <2>2 DEF ManagedProcs
  <2>4. ProcsType' /\ OidsBounded'
    BY <1>5 DEF LookupIdentity, ProcsType, OidsBounded
  <2>5. QED
    BY <1>5, <2>1, <2>3, <2>4, FunctionStepType DEF LookupIdentity, FunctionsTypeOK, PCs
<1>6. CASE RevokePublic
  <2>1. left # <<>>
    BY <1>6 DEF RevokePublic, CallInv
  <2>2. /\ procs' = [i \in DOMAIN procs |-> procs'[i]]
        /\ \A i \in DOMAIN procs : procs'[i] \in ManagedProcs
    BY <1>6 DEF RevokePublic, ProcsType, ManagedProcs
  <2>3. ProcsType' /\ OidsBounded'
    BY <2>2, AlteredType
  <2>4. QED
    BY <1>6, <2>1, <2>3, FunctionStepType DEF RevokePublic, FunctionsTypeOK, PCs
<1>7. CASE GrantExecute
  <2>1. left # <<>> /\ role \in Roles
    BY <1>7 DEF GrantExecute, CallInv
  <2>2. /\ procs' = [i \in DOMAIN procs |-> procs'[i]]
        /\ \A i \in DOMAIN procs : procs'[i] \in ManagedProcs
    BY <1>7, <2>1 DEF GrantExecute, ProcsType, ManagedProcs
  <2>3. ProcsType' /\ OidsBounded'
    BY <2>2, AlteredType
  <2>4. PICK i \in DOMAIN procs : inHand(procs[i])
    BY <1>7 DEF GrantExecute, mayAlter, Range
  <2>5. <<pgName, identity>> \in Seq(Characters) \X Args
    BY <2>4 DEF inHand, ProcsType, ManagedProcs
  <2>6. Tail(left) \in Seq(Functions)
    BY <2>1, InHandType
  <2>7. QED
    BY <1>7, <2>3, <2>5, <2>6, FunctionStepType DEF GrantExecute, FunctionsTypeOK, PCs
<1>8. CASE BeginStale
  <2>1. ProcsType' /\ OidsBounded'
    BY <1>8 DEF BeginStale, ProcsType, OidsBounded
  <2>2. QED
    BY <1>8, <2>1, FunctionStepType DEF BeginStale, FunctionsTypeOK, PCs
<1>9. CASE DropManagedFunctions
  <2>1. listed' \subseteq ManagedProcs
    BY <1>9, ListedType DEF DropManagedFunctions
  <2>2. ProcsType' /\ OidsBounded'
    BY <1>9 DEF DropManagedFunctions, ProcsType, OidsBounded
  <2>3. QED
    BY <1>9, <2>1, <2>2, FunctionStepType DEF DropManagedFunctions, FunctionsTypeOK, PCs, CallInv
<1>10. ASSUME NEW p \in listed, DropStale(p) PROVE TypeInv'
  <2>1. ProcsType' /\ OidsBounded'
    BY <1>10, DroppedType DEF DropStale
  <2>2. <<p.name, p.args>> \in Seq(Characters) \X Args
    BY DEF FunctionsTypeOK, ManagedProcs
  <2>3. pc \in {"stale", "dropping"}
    BY <1>10 DEF DropStale
  <2>4. QED
    BY <1>10, <2>1, <2>2, <2>3, FunctionStepType DEF DropStale, FunctionsTypeOK, PCs, CallInv
<1>11. QED
  BY <1>1, <1>2, <1>3, <1>4, <1>5, <1>6, <1>7, <1>8, <1>9, <1>10 DEF FunctionsNext

\* The database to begin with.
LEMMA InitTypes == Init => TypeInv
<1> SUFFICES ASSUME Init PROVE TypeInv
  OBVIOUS
<1>1. SessionType
  BY RoleDatabaseAssumption, SessionAssumption DEF Init, SessionType, PCs
<1>2. GrantsTypeOK
  BY RoleDatabaseAssumption DEF Init, GrantsTypeOK
<1>3. FunctionsTypeOK /\ OidsBounded
  <2>1. procs = <<>> /\ currentOwner = <<>> /\ databaseOwner \in Owners
    BY RoleDatabaseAssumption DEF Init
  <2>2. DOMAIN procs = {} /\ DOMAIN currentOwner = {}
    BY <2>1
  <2>3. procs \in [DOMAIN procs -> ManagedProcs]
    BY <2>1
  <2>4. 0 \in Nat /\ DOMAIN procs \subseteq 0..0
    BY <2>2
  <2>5. OidsBounded
    BY <2>4 DEF OidsBounded
  <2>6. FunctionsTypeOK
    BY <2>1, <2>2, <2>3 DEF Init, FunctionsTypeOK
  <2>7. QED BY <2>5, <2>6
<1>4. ResourcesType
  BY RoleDatabaseAssumption DEF Init, ResourcesType
<1>5. CallInv
  BY DEF Init, CallInv
<1>6. QED BY <1>1, <1>2, <1>3, <1>4, <1>5 DEF TypeInv, Typed

\* The steps between the calls, and calls that end in an error.
LEMMA ReconcileKeepsTypes ==
    ASSUME TypeInv,
           \/ \E r \in Roles : StartSync(r) \/ StartClean(r)
           \/ GrantsDone \/ FunctionsDone \/ DropDone \/ CleanDone
           \/ DropCustomRole \/ DropRefused \/ Fault
    PROVE  TypeInv'
<1> USE DEF TypeInv, Typed
<1>1. ASSUME NEW r \in Roles, StartSync(r) PROVE TypeInv'
  <2>1. spec[r].grants \subseteq Grants
    BY RoleDatabaseAssumption DEF ResourcesType
  <2>2. SessionType' /\ CallInv' /\ ResourcesType'
    BY <1>1 DEF StartSync, SessionType, CallInv, ResourcesType, PCs
  <2>3. GrantsTypeOK' /\ FunctionsTypeOK' /\ OidsBounded'
    BY <1>1, <2>1 DEF StartSync, GrantsTypeOK, FunctionsTypeOK, OidsBounded
  <2>4. QED BY <2>2, <2>3
<1>2. ASSUME NEW r \in Roles, StartClean(r) PROVE TypeInv'
  <2>1. SessionType' /\ CallInv' /\ ResourcesType'
    BY <1>2 DEF StartClean, SessionType, CallInv, ResourcesType, PCs
  <2>2. GrantsTypeOK' /\ FunctionsTypeOK' /\ OidsBounded'
    BY <1>2 DEF StartClean, GrantsTypeOK, FunctionsTypeOK, OidsBounded
  <2>3. QED BY <2>1, <2>2
<1>3. CASE GrantsDone
  <2>1. spec[role].functions \in Seq(Functions)
    BY <1>3, RoleDatabaseAssumption DEF ResourcesType, GrantsDone, CallInv
  <2>2. SessionType' /\ CallInv' /\ ResourcesType'
    BY <1>3, SessionSteps DEF GrantsDone, continue, CallInv, ResourcesType, PCs
  <2>3. GrantsTypeOK'
    BY <1>3, ForgottenTypes DEF GrantsDone
  <2>4. FunctionsTypeOK' /\ OidsBounded'
    BY <1>3, <2>1 DEF GrantsDone, FunctionsTypeOK, OidsBounded
  <2>5. QED BY <2>2, <2>3, <2>4
<1>4. CASE FunctionsDone
  <2>1. SessionType' /\ CallInv' /\ ResourcesType'
    BY <1>4, SessionSteps DEF FunctionsDone, endReconcile, CallInv, ResourcesType, SessionType,
       forgetFunctions
  <2>2. FunctionsTypeOK' /\ OidsBounded' /\ GrantsTypeOK'
    BY <1>4, ForgottenTypes DEF FunctionsDone, OidsBounded, GrantsTypeOK
  <2>3. QED BY <2>1, <2>2
<1>5. CASE DropDone
  <2>1. SessionType' /\ CallInv' /\ ResourcesType'
    BY <1>5, SessionSteps DEF DropDone, continue, CallInv, ResourcesType, PCs, forgetFunctions
  <2>2. FunctionsTypeOK' /\ OidsBounded' /\ GrantsTypeOK'
    BY <1>5, ForgottenTypes DEF DropDone, OidsBounded, GrantsTypeOK
  <2>3. QED BY <2>1, <2>2
<1>6. CASE CleanDone
  <2>1. SessionType' /\ CallInv' /\ ResourcesType'
    BY <1>6, SessionSteps DEF CleanDone, continue, CallInv, ResourcesType, PCs
  <2>2. FunctionsTypeOK' /\ OidsBounded' /\ GrantsTypeOK'
    BY <1>6, ForgottenTypes DEF CleanDone, OidsBounded, FunctionsTypeOK
  <2>3. QED BY <2>1, <2>2
<1>7. CASE DropCustomRole \/ DropRefused
  <2>1. SessionType' /\ CallInv' /\ ResourcesType'
    BY <1>7, SessionSteps DEF DropCustomRole, DropRefused, endReconcile, CallInv, ResourcesType,
       SessionType
  <2>2. FunctionsTypeOK' /\ OidsBounded' /\ GrantsTypeOK'
    BY <1>7 DEF DropCustomRole, DropRefused, OidsBounded, GrantsTypeOK, FunctionsTypeOK
  <2>3. QED BY <2>1, <2>2
<1>8. CASE Fault
  <2>1. faults' \in 0..MaxFaults
    BY <1>8, SessionAssumption DEF Fault, SessionType
  <2>2. SessionType' /\ CallInv' /\ ResourcesType'
    BY <1>8, <2>1, SessionSteps DEF Fault, endReconcile, CallInv, ResourcesType, forgetFunctions
  <2>3. FunctionsTypeOK' /\ OidsBounded' /\ GrantsTypeOK'
    BY <1>8, ForgottenTypes DEF Fault, OidsBounded
  <2>4. QED BY <2>2, <2>3
<1>9. QED BY <1>1, <1>2, <1>3, <1>4, <1>5, <1>6, <1>7, <1>8

\* What happens in the database and to the resources meanwhile.
LEMMA OutsideKeepsTypes ==
    ASSUME TypeInv, Outside
    PROVE  TypeInv'
<1> USE DEF TypeInv, Typed
<1>1. ASSUME NEW t \in Tables, NEW o \in Owners \cup {None}, ChangeTable(t, o),
             UNCHANGED <<functionVars, resources>>
      PROVE  TypeInv'
  <2>1. {t} \in SUBSET (Schemas \X (TableNames \cup {All}))
    BY DEF Tables
  <2>2. SessionType' /\ CallInv'
    BY <1>1, <2>1, SessionSteps DEF ChangeTable, outside, CallInv, SessionType
  <2>3. GrantsTypeOK'
    BY <1>1 DEF ChangeTable, GrantsTypeOK, without
  <2>4. FunctionsTypeOK' /\ OidsBounded' /\ ResourcesType'
    BY <1>1 DEF FunctionsTypeOK, OidsBounded, ResourcesType
  <2>5. QED BY <2>2, <2>3, <2>4
<1>2. ASSUME NEW x \in Schemas, NEW o \in Owners \cup {None}, ChangeSchema(x, o),
             UNCHANGED <<functionVars, resources>>
      PROVE  TypeInv'
  <2> DEFINE ts == {t \in Tables : t[1] = x}
  <2>1. ts \cup {<<x, All>>} \in SUBSET (Schemas \X (TableNames \cup {All}))
    BY DEF Tables
  <2>2. SessionType' /\ CallInv'
    BY <1>2, <2>1, SessionSteps DEF ChangeSchema, outside, CallInv, SessionType
  <2>3. GrantsTypeOK'
    BY <1>2 DEF ChangeSchema, GrantsTypeOK, without
  <2>4. FunctionsTypeOK' /\ OidsBounded' /\ ResourcesType'
    BY <1>2 DEF FunctionsTypeOK, OidsBounded, ResourcesType
  <2>5. QED BY <2>2, <2>3, <2>4
<1>3. ASSUME NEW r \in Roles, NEW k \in Privileges, GrantByHand(r, k),
             UNCHANGED <<functionVars, resources>>
      PROVE  TypeInv'
  <2>1. {<<k[1], k[2]>>} \in SUBSET (Schemas \X (TableNames \cup {All}))
    BY PrivilegeParts
  <2>2. SessionType' /\ CallInv'
    BY <1>3, <2>1, SessionSteps DEF GrantByHand, outside, CallInv, SessionType
  <2>3. GrantsTypeOK'
    BY <1>3 DEF GrantByHand, GrantsTypeOK
  <2>4. FunctionsTypeOK' /\ OidsBounded' /\ ResourcesType'
    BY <1>3 DEF FunctionsTypeOK, OidsBounded, ResourcesType
  <2>5. QED BY <2>2, <2>3, <2>4
<1>4. ASSUME NEW o \in Owners, ChangeMembership(o) /\ UNCHANGED <<functionVars, resources>>
      PROVE  TypeInv'
  <2>1. settable' \subseteq Owners
    BY <1>4 DEF ChangeMembership, SessionType
  <2>2. SessionType' /\ CallInv'
    BY <1>4, <2>1, SessionSteps DEF ChangeMembership, outside, CallInv, SessionType
  <2>3. FunctionsTypeOK' /\ OidsBounded' /\ ResourcesType' /\ GrantsTypeOK'
    BY <1>4 DEF FunctionsTypeOK, OidsBounded, ResourcesType, GrantsTypeOK, ChangeMembership
  <2>4. QED BY <2>2, <2>3
<1>5. ASSUME NEW o \in Owners, ChangeDatabaseOwner(o), UNCHANGED <<grantVars, resources>>
      PROVE  TypeInv'
  <2>1. SessionType' /\ CallInv'
    BY <1>5, SessionSteps DEF ChangeDatabaseOwner, outside, CallInv, SessionType
  <2>2. FunctionsTypeOK' /\ OidsBounded' /\ ResourcesType' /\ GrantsTypeOK'
    BY <1>5 DEF FunctionsTypeOK, OidsBounded, ResourcesType, GrantsTypeOK, ChangeDatabaseOwner
  <2>3. QED BY <2>1, <2>2
<1>6. ASSUME NEW r \in Roles, Delete(r) \/ \E sp \in Specs[r] : Edit(r, sp)
      PROVE  TypeInv'
  <2>1. SessionType' /\ CallInv'
    BY <1>6 DEF Delete, Edit, SessionType, CallInv
  <2>2. FunctionsTypeOK' /\ OidsBounded' /\ GrantsTypeOK'
    BY <1>6 DEF FunctionsTypeOK, OidsBounded, GrantsTypeOK, Delete, Edit
  <2>3. ResourcesType'
    BY <1>6, RoleDatabaseAssumption DEF ResourcesType, Delete, Edit
  <2>4. QED BY <2>1, <2>2, <2>3
<1>7. QED
  BY <1>1, <1>2, <1>3, <1>4, <1>5, <1>6 DEF Outside, OutsideNext

\* Every step keeps the types.
LEMMA StepKeepsTypes == TypeInv /\ [Next]_vars => TypeInv'
<1> SUFFICES ASSUME TypeInv, [Next]_vars PROVE TypeInv'
  OBVIOUS
<1>1. CASE Next
  BY <1>1, GrantsKeepTypes, FunctionsKeepTypes, ReconcileKeepsTypes, OutsideKeepsTypes
     DEF Next, Call
<1>2. CASE UNCHANGED vars
  BY <1>2 DEF vars, TypeInv, Typed, SessionType, GrantsTypeOK, FunctionsTypeOK, ResourcesType,
     CallInv, OidsBounded
<1>3. QED BY <1>1, <1>2

\* The variables of the calls on grants and functions keep their types whatever fails
\* and whatever others do: the statements planned name objects of the database, and a
\* function is in hand whenever one is being created.
THEOREM TypeCorrect == Spec => []TypeOK
<1>1. Spec => []TypeInv
  BY InitTypes, StepKeepsTypes, PTL DEF Spec
<1>2. TypeInv => TypeOK
  BY TypeParts DEF TypeInv
<1>3. QED BY <1>1, <1>2, PTL

-----------------------------------------------------------------------------
(* What the two calls on grants achieve.                                   *)

GrantsInv == Forgotten /\ ObjectsInv /\ SyncInv /\ CleanInv

\* expandGrants finds what the grants ask for: schemas and tables are resolved with
\* queries of their own, and no table is without a schema.
LEMMA ExpandIsWanted ==
    ASSUME GrantsTypeOK, ObjectsInv
    PROVE  expandGrants(grants) = wanted(grants)
<1>1. ASSUME NEW k \in expandGrants(grants) PROVE k \in wanted(grants)
  <2>1. k \in Privileges
    BY ExpandType
  <2>0. PICK g \in grants : \E x \in resolveSchemas(g.schema) :
           \E t \in resolveTables(x, g.table), p \in g.privileges : k = <<t[1], t[2], Upper[p]>>
    BY DEF expandGrants
  <2>2. PICK x \in resolveSchemas(g.schema) :
           \E t \in resolveTables(x, g.table), p \in g.privileges : k = <<t[1], t[2], Upper[p]>>
    BY <2>0
  <2>3. PICK t \in resolveTables(x, g.table), p \in g.privileges : k = <<t[1], t[2], Upper[p]>>
    BY <2>2
  <2>4. t \in Tables /\ k[1] = t[1] /\ k[2] = t[2] /\ k[3] = Upper[p] /\ t = <<k[1], k[2]>>
    BY <2>3 DEF resolveTables, Tables
  <2>5. /\ tableOwner[<<k[1], k[2]>>] # None /\ g.table \in {All, k[2]} /\ k[1] = x
    BY <2>4 DEF resolveTables
  <2>6. g.schema = k[1] \/ (g.schema = All /\ k[1] \notin SystemSchemas)
    BY <2>5 DEF resolveSchemas
  <2>7. QED BY <2>1, <2>4, <2>5, <2>6 DEF wanted
<1>2. ASSUME NEW k \in wanted(grants) PROVE k \in expandGrants(grants)
  <2>1. k \in Privileges /\ tableOwner[<<k[1], k[2]>>] # None
    BY DEF wanted
  <2>2. PICK g \in grants :
          /\ g.schema = k[1] \/ (g.schema = All /\ k[1] \notin SystemSchemas)
          /\ g.table \in {All, k[2]}
          /\ \E p \in g.privileges : Upper[p] = k[3]
    BY DEF wanted
  <2>3. PICK p \in g.privileges : Upper[p] = k[3]
    BY <2>2
  <2> DEFINE t == <<k[1], k[2]>>
  <2>4. /\ k[1] \in Schemas /\ t \in Tables /\ t[1] = k[1] /\ t[2] = k[2]
        /\ k = <<t[1], t[2], Upper[p]>>
    BY <2>1, <2>3, PrivilegeParts DEF tableOf
  <2>5. schemaOwner[k[1]] # None
    BY <2>1, <2>4 DEF ObjectsInv
  <2>6. k[1] \in resolveSchemas(g.schema)
    BY <2>2, <2>4, <2>5, GrantsAssumption DEF resolveSchemas
  <2>7. t \in resolveTables(k[1], g.table)
    BY <2>1, <2>2, <2>4 DEF resolveTables
  <2>8. QED BY <2>3, <2>4, <2>6, <2>7 DEF expandGrants
<1>3. QED BY <1>1, <1>2

\* A call that is at no statement about grants has nothing to keep.
LEMMA NothingPlanned ==
    ASSUME pc' \notin {"expand", "owners", "apply", "clean"}
    PROVE  SyncInv' /\ CleanInv'
BY DEF SyncInv, CurrentRead, DesiredRead, OnlyDesired, PrivilegesPlanned, UsagePlanned, CleanInv

\* Steps that neither touch grants nor go on with a call on them.
LEMMA SameGrants ==
    ASSUME GrantsInv, UNCHANGED <<grantVars, pc, role>>, missed' = missed \/ pc = "idle"
    PROVE  GrantsInv'
<1>1. Forgotten' /\ ObjectsInv'
  BY DEF GrantsInv, Forgotten, ObjectsInv
<1>2. CASE pc = "idle"
  <2>1. pc' = "idle"
    BY <1>2
  <2>2. QED BY <1>1, <2>1, NothingPlanned DEF GrantsInv
<1>3. CASE missed' = missed
  <2>1. CurrentRead'
    BY <1>3 DEF GrantsInv, SyncInv, CurrentRead, untouched, unlisted
  <2>2. DesiredRead'
    BY <1>3 DEF GrantsInv, SyncInv, DesiredRead, untouched, wanted
  <2>3. OnlyDesired'
    BY <1>3 DEF GrantsInv, SyncInv, OnlyDesired, schemasOf
  <2>4. PrivilegesPlanned'
    BY <1>3 DEF GrantsInv, SyncInv, PrivilegesPlanned, untouched, unlisted, isFor
  <2>5. UsagePlanned'
    BY <1>3 DEF GrantsInv, SyncInv, UsagePlanned, untouchedSchema, schemasOf
  <2>6. CleanInv'
    BY <1>3 DEF GrantsInv, CleanInv, untouched
  <2>7. QED BY <1>1, <2>1, <2>2, <2>3, <2>4, <2>5, <2>6 DEF GrantsInv, SyncInv
<1>4. QED BY <1>2, <1>3

\* Reading and planning of SyncDatabaseGrants.
LEMMA PlanKeepsGrants ==
    ASSUME TypeInv, GrantsInv, SyncDatabaseGrants \/ ExpandGrants \/ PlanSync
    PROVE  GrantsInv'
<1> USE DEF GrantsInv
<1> role \in Roles /\ GrantsTypeOK
  BY DEF TypeInv, Typed, CallInv, SyncDatabaseGrants, ExpandGrants, PlanSync
<1>1. ObjectsInv'
  BY DEF SyncDatabaseGrants, ExpandGrants, PlanSync, ObjectsInv
<1>2. CASE SyncDatabaseGrants
  <2>1. pc' = "expand" /\ current' = currentTableGrants(role)
        /\ UNCHANGED <<role, held, usage, objects, missed, grants, desired, todo, later>>
    BY <1>2 DEF SyncDatabaseGrants, continue
  <2>2. Forgotten'
    BY <1>2, <2>1 DEF SyncDatabaseGrants, Forgotten
  <2>3. CurrentRead'
    BY <2>1 DEF CurrentRead, untouched, unlisted, currentTableGrants, tableOf
  <2>4. DesiredRead' /\ OnlyDesired' /\ PrivilegesPlanned' /\ UsagePlanned' /\ CleanInv'
    BY <2>1 DEF DesiredRead, OnlyDesired, PrivilegesPlanned, UsagePlanned, CleanInv
  <2>5. QED BY <1>1, <2>2, <2>3, <2>4 DEF SyncInv
<1>3. CASE ExpandGrants
  <2>1. pc = "expand" /\ pc' = "owners" /\ desired' = expandGrants(grants)
        /\ UNCHANGED <<role, held, usage, objects, missed, grants, current, todo, later>>
    BY <1>3 DEF ExpandGrants, continue
  <2>2. Forgotten'
    BY <2>1 DEF Forgotten
  <2>3. CurrentRead'
    BY <2>1 DEF SyncInv, CurrentRead, untouched, unlisted
  <2>4. wanted(grants)' = wanted(grants) /\ desired' = wanted(grants)
    BY <2>1, ExpandIsWanted DEF wanted
  <2>5. DesiredRead'
    BY <2>4 DEF DesiredRead
  <2>6. OnlyDesired' /\ PrivilegesPlanned' /\ UsagePlanned' /\ CleanInv'
    BY <2>1 DEF OnlyDesired, PrivilegesPlanned, UsagePlanned, CleanInv
  <2>7. QED BY <1>1, <2>2, <2>3, <2>5, <2>6 DEF SyncInv
<1>4. CASE PlanSync
  <2>1. pc = "owners" /\ pc' = "apply" /\ todo' = syncStatements
        /\ UNCHANGED <<role, held, usage, objects, missed, grants, current, desired, later>>
    BY <1>4 DEF PlanSync, continue
  <2> DEFINE have == currentGrantedSchemas(role)
  <2>2. todo' = onSchemas("usage", schemasOf(desired) \ have)
                  \cup onTables("grant", tablesOf(desired \ current))
                  \cup onTables("revoke", tablesOf(current \ desired))
                  \cup onSchemas("unuse", have \ schemasOf(desired))
    BY <2>1 DEF syncStatements
  <2>3. Forgotten'
    BY <2>1 DEF Forgotten
  <2>4. DesiredRead' /\ CurrentRead'
    BY <2>1 DEF SyncInv, DesiredRead, CurrentRead, untouched, wanted
  <2>5. OnlyDesired'
    <3>1. \A st \in onSchemas("usage", schemasOf(desired) \ have) :
             st.kind = "usage" /\ st.schema \in schemasOf(desired)
      BY DEF onSchemas, statement
    <3>2. \A st \in onSchemas("unuse", have \ schemasOf(desired)) :
             st.kind = "unuse" /\ st.schema \notin schemasOf(desired)
      BY DEF onSchemas, statement
    <3>3. /\ \A st \in onTables("grant", tablesOf(desired \ current)) : st.kind = "grant"
          /\ \A st \in onTables("revoke", tablesOf(current \ desired)) : st.kind = "revoke"
      BY DEF onTables, statement
    <3>4. schemasOf(desired)' = schemasOf(desired)
      BY <2>1 DEF schemasOf
    <3>5. QED BY <2>1, <2>2, <3>1, <3>2, <3>3, <3>4 DEF OnlyDesired
  <2>6. PrivilegesPlanned'
    <3> SUFFICES ASSUME NEW k \in Privileges, untouched(k)
                 PROVE  /\ k \in desired \ held[role] =>
                               k \notin current /\ \E st \in todo' : isFor(st, "grant", k)
                        /\ k \in held[role] \ desired /\ ~unlisted(k) =>
                               k \in current /\ \E st \in todo' : isFor(st, "revoke", k)
      BY <2>1 DEF PrivilegesPlanned, untouched, isFor, unlisted
    <3>1. k \in current <=> k \in held[role] /\ ~unlisted(k)
      BY <2>1 DEF SyncInv, CurrentRead
    <3>2. ASSUME k \in desired \ current PROVE \E st \in todo' : isFor(st, "grant", k)
      <4>1. <<k[1], k[2]>> \in tablesOf(desired \ current)
        BY <3>2 DEF tablesOf
      <4>2. statement("grant", k[1], k[2], tableOwnerMap(<<k[1], k[2]>>)) \in todo'
        BY <4>1, <2>2 DEF onTables
      <4>3. QED BY <4>2 DEF isFor, statement
    <3>3. ASSUME k \in current \ desired PROVE \E st \in todo' : isFor(st, "revoke", k)
      <4>1. <<k[1], k[2]>> \in tablesOf(current \ desired)
        BY <3>3 DEF tablesOf
      <4>2. statement("revoke", k[1], k[2], tableOwnerMap(<<k[1], k[2]>>)) \in todo'
        BY <4>1, <2>2 DEF onTables
      <4>3. QED BY <4>2 DEF isFor, statement
    <3>4. QED BY <3>1, <3>2, <3>3
  <2>7. UsagePlanned'
    <3> SUFFICES ASSUME NEW x \in Schemas \ SystemSchemas
                 PROVE  /\ x \in schemasOf(desired) \ usage[role] =>
                               \E st \in todo' : st.kind = "usage" /\ st.schema = x
                        /\ x \in usage[role] \ schemasOf(desired) =>
                               \E st \in todo' : st.kind = "unuse" /\ st.schema = x
      BY <2>1 DEF UsagePlanned, schemasOf
    <3>1. ASSUME x \in schemasOf(desired) \ usage[role]
          PROVE  statement("usage", x, All, schemaOwnerMap(x)) \in todo'
      BY <3>1, <2>2 DEF onSchemas, currentGrantedSchemas
    <3>2. ASSUME x \in usage[role] \ schemasOf(desired)
          PROVE  statement("unuse", x, All, schemaOwnerMap(x)) \in todo'
      BY <3>2, <2>2 DEF onSchemas, currentGrantedSchemas
    <3>3. QED BY <3>1, <3>2 DEF statement
  <2>8. CleanInv'
    BY <2>1 DEF CleanInv
  <2>9. QED BY <1>1, <2>3, <2>4, <2>5, <2>6, <2>7, <2>8 DEF SyncInv
<1>5. QED BY <1>2, <1>3, <1>4

\* What a statement of SyncDatabaseGrants names: only what is desired is granted, and
\* only what is not is revoked.
LEMMA NamedBySync ==
    ASSUME NEW st, st.kind \in {"usage", "grant", "revoke", "unuse"}
    PROVE  /\ st.kind \in {"usage", "unuse"} => named(st) = {}
           /\ st.kind = "grant" =>
                 named(st) = {k \in desired \ current : k[1] = st.schema /\ k[2] = st.table}
           /\ st.kind = "revoke" =>
                 named(st) = {k \in current \ desired : k[1] = st.schema /\ k[2] = st.table}
BY DEF named

\* The privileges of the call's role after a statement.
LEMMA AfterExecute ==
    ASSUME TypeInv, NEW st, Execute(st)
    PROVE  /\ st.kind = "usage" => usage'[role] = usage[role] \cup {st.schema}
           /\ st.kind = "unuse" => usage'[role] = usage[role] \ {st.schema}
           /\ st.kind \notin {"usage", "unuse"} => usage'[role] = usage[role]
           /\ held'[role] = IF st.kind = "grant" THEN held[role] \cup named(st)
                                                 ELSE held[role] \ named(st)
           /\ \A r \in Roles \ {role} : held'[r] = held[r]
           /\ role \in Roles /\ pc' = pc /\ todo' = todo \ {st} /\ st \in todo
           /\ UNCHANGED <<session, objects, grants, current, desired, later>>
<1>1. role \in Roles
  BY DEF Execute, TypeInv, CallInv
<1>2. usage \in [Roles -> SUBSET Schemas] /\ held \in [Roles -> SUBSET Privileges]
  BY DEF TypeInv, Typed, GrantsTypeOK
<1>3. /\ usage'[role] = CASE st.kind = "usage" -> usage[role] \cup {st.schema}
                           [] st.kind = "unuse" -> usage[role] \ {st.schema}
                           [] OTHER -> usage[role]
      /\ held'[role] = IF st.kind = "grant" THEN held[role] \cup named(st)
                                             ELSE held[role] \ named(st)
      /\ \A r \in Roles \ {role} : held'[r] = held[r]
  BY <1>1, <1>2 DEF Execute
<1>4. /\ st.kind = "usage" => usage'[role] = usage[role] \cup {st.schema}
      /\ st.kind = "unuse" => usage'[role] = usage[role] \ {st.schema}
      /\ st.kind \notin {"usage", "unuse"} => usage'[role] = usage[role]
  BY <1>3
<1>5. pc' = pc /\ todo' = todo \ {st} /\ st \in todo
      /\ UNCHANGED <<session, objects, grants, current, desired, later>>
  BY DEF Execute, isNext
<1>6. QED BY <1>1, <1>3, <1>4, <1>5

\* A statement of SyncDatabaseGrants neither takes away what is desired nor adds what is
\* not, and does its own part.
LEMMA SyncEffect ==
    ASSUME TypeInv, SyncInv, pc = "apply", NEW st, Execute(st)
    PROVE  /\ desired \cap held[role] \subseteq held'[role] /\ held'[role] \ desired \subseteq held[role]
           /\ \A k \in desired \ current : isFor(st, "grant", k) => k \in held'[role]
           /\ \A k \in current \ desired : isFor(st, "revoke", k) => k \notin held'[role]
           /\ schemasOf(desired) \cap usage[role] \subseteq usage'[role]
           /\ usage'[role] \ schemasOf(desired) \subseteq usage[role]
           /\ st.kind = "usage" => st.schema \in usage'[role]
           /\ st.kind = "unuse" => st.schema \notin usage'[role]
<1>1. /\ st.kind \in {"usage", "grant", "revoke", "unuse"}
      /\ st.kind = "unuse" => st.schema \notin schemasOf(desired)
      /\ st.kind = "usage" => st.schema \in schemasOf(desired)
  BY AfterExecute DEF SyncInv, OnlyDesired
<1>2. held'[role] = IF st.kind = "grant" THEN held[role] \cup named(st) ELSE held[role] \ named(st)
  BY AfterExecute
<1>3. CASE st.kind \in {"usage", "unuse"}
  <2>1. held'[role] = held[role]
    BY <1>2, <1>3, NamedBySync
  <2>2. \/ st.kind = "usage" /\ usage'[role] = usage[role] \cup {st.schema}
        \/ st.kind = "unuse" /\ usage'[role] = usage[role] \ {st.schema}
    BY <1>3, AfterExecute
  <2>3. QED BY <1>1, <1>3, <2>1, <2>2 DEF isFor
<1>4. CASE st.kind \in {"grant", "revoke"}
  <2>1. usage'[role] = usage[role]
    BY <1>4, AfterExecute
  <2>2. CASE st.kind = "grant"
    <3>1. held'[role] = held[role] \cup {k \in desired \ current : k[1] = st.schema /\ k[2] = st.table}
      BY <1>2, <2>2, NamedBySync
    <3>2. QED BY <2>1, <2>2, <3>1 DEF isFor
  <2>3. CASE st.kind = "revoke"
    <3>1. held'[role] = held[role] \ {k \in current \ desired : k[1] = st.schema /\ k[2] = st.table}
      BY <1>2, <2>3, NamedBySync
    <3>2. QED BY <2>1, <2>3, <3>1 DEF isFor
  <2>4. QED BY <1>4, <2>2, <2>3
<1>5. QED BY <1>1, <1>3, <1>4

\* A statement of SyncDatabaseGrants, carried out: what is still to do is still planned.
LEMMA ExecuteKeepsSync ==
    ASSUME TypeInv, SyncInv, NEW st, Execute(st)
    PROVE  SyncInv'
<1>1. CASE pc # "apply"
  <2>1. pc' = "clean"
    BY <1>1, AfterExecute DEF Execute
  <2>2. QED
    BY <2>1 DEF SyncInv, CurrentRead, DesiredRead, OnlyDesired, PrivilegesPlanned, UsagePlanned
<1>2. CASE pc = "apply"
  <2>1. pc' = "apply" /\ todo' = todo \ {st} /\ st \in todo /\ role \in Roles
        /\ UNCHANGED <<session, objects, grants, current, desired, later>>
    BY <1>2, AfterExecute
  <2>2. /\ st.kind \in {"usage", "grant", "revoke", "unuse"}
    BY <1>2, <2>1 DEF SyncInv, OnlyDesired
  <2>3. CurrentRead' /\ DesiredRead' /\ OnlyDesired'
    <3>1. CurrentRead' /\ DesiredRead'
      BY <1>2, <2>1 DEF SyncInv, CurrentRead, DesiredRead, untouched, wanted
    <3>2. OnlyDesired'
      BY <1>2, <2>1 DEF SyncInv, OnlyDesired, schemasOf
    <3>3. QED BY <3>1, <3>2
  <2>4. PrivilegesPlanned'
    <3> SUFFICES ASSUME NEW k \in Privileges, untouched(k)
                 PROVE  /\ k \in desired \ held'[role] =>
                               k \notin current /\ \E x \in todo' : isFor(x, "grant", k)
                        /\ k \in held'[role] \ desired /\ ~unlisted(k) =>
                               k \in current /\ \E x \in todo' : isFor(x, "revoke", k)
      BY <2>1 DEF PrivilegesPlanned, untouched, isFor, unlisted
    <3>1. /\ k \in desired \ held[role] => k \notin current /\ \E x \in todo : isFor(x, "grant", k)
          /\ k \in held[role] \ desired /\ ~unlisted(k) =>
                 k \in current /\ \E x \in todo : isFor(x, "revoke", k)
      BY <1>2 DEF SyncInv, PrivilegesPlanned
    <3>2. ASSUME k \in desired \ held'[role]
          PROVE  k \notin current /\ \E x \in todo' : isFor(x, "grant", k)
      <4>1. k \notin held[role]
        BY <1>2, <3>2, SyncEffect
      <4>2. PICK x \in todo : isFor(x, "grant", k)
        BY <3>1, <3>2, <4>1
      <4>3. k \notin current
        BY <3>1, <3>2, <4>1
      <4>4. x # st
        BY <1>2, <3>2, <4>2, <4>3, SyncEffect
      <4>5. QED BY <4>2, <4>3, <4>4, <2>1
    <3>3. ASSUME k \in held'[role] \ desired, ~unlisted(k)
          PROVE  k \in current /\ \E x \in todo' : isFor(x, "revoke", k)
      <4>1. k \in held[role]
        BY <1>2, <3>3, SyncEffect
      <4>2. PICK x \in todo : isFor(x, "revoke", k)
        BY <3>1, <3>3, <4>1
      <4>3. k \in current
        BY <3>1, <3>3, <4>1
      <4>4. x # st
        BY <1>2, <3>3, <4>2, <4>3, SyncEffect
      <4>5. QED BY <4>2, <4>3, <4>4, <2>1
    <3>4. QED BY <3>2, <3>3
  <2>5. UsagePlanned'
    <3> SUFFICES ASSUME NEW x \in Schemas \ SystemSchemas, untouchedSchema(x)
                 PROVE  /\ x \in schemasOf(desired) \ usage'[role] =>
                               \E y \in todo' : y.kind = "usage" /\ y.schema = x
                        /\ x \in usage'[role] \ schemasOf(desired) =>
                               \E y \in todo' : y.kind = "unuse" /\ y.schema = x
      BY <2>1 DEF UsagePlanned, untouchedSchema, schemasOf
    <3>1. /\ x \in schemasOf(desired) \ usage[role] =>
                 \E y \in todo : y.kind = "usage" /\ y.schema = x
          /\ x \in usage[role] \ schemasOf(desired) =>
                 \E y \in todo : y.kind = "unuse" /\ y.schema = x
      BY <1>2 DEF SyncInv, UsagePlanned
    <3>2. ASSUME x \in schemasOf(desired) \ usage'[role]
          PROVE  \E y \in todo' : y.kind = "usage" /\ y.schema = x
      <4>1. x \notin usage[role]
        BY <1>2, <3>2, SyncEffect
      <4>2. PICK y \in todo : y.kind = "usage" /\ y.schema = x
        BY <3>1, <3>2, <4>1
      <4>3. y # st
        BY <1>2, <3>2, <4>2, SyncEffect
      <4>4. QED BY <4>2, <4>3, <2>1
    <3>3. ASSUME x \in usage'[role] \ schemasOf(desired)
          PROVE  \E y \in todo' : y.kind = "unuse" /\ y.schema = x
      <4>1. x \in usage[role]
        BY <1>2, <3>3, SyncEffect
      <4>2. PICK y \in todo : y.kind = "unuse" /\ y.schema = x
        BY <3>1, <3>3, <4>1
      <4>3. y # st
        BY <1>2, <3>3, <4>2, SyncEffect
      <4>4. QED BY <4>2, <4>3, <2>1
    <3>4. QED BY <3>2, <3>3
  <2>6. QED BY <2>3, <2>4, <2>5 DEF SyncInv
<1>3. QED BY <1>1, <1>2

\* A statement that is refused is left out: what it was about is not claimed any more.
LEMMA SkipKeepsSync ==
    ASSUME TypeInv, SyncInv, NEW st, Skip(st)
    PROVE  SyncInv'
<1>1. CASE pc # "apply"
  <2>1. pc' = "clean"
    BY <1>1 DEF Skip, continue
  <2>2. QED
    BY <2>1 DEF SyncInv, CurrentRead, DesiredRead, OnlyDesired, PrivilegesPlanned, UsagePlanned
<1>2. CASE pc = "apply"
  <2>1. pc' = "apply" /\ todo' = todo \ {st} /\ st \in todo /\ missed' = missed \cup objectsOf(st)
        /\ UNCHANGED <<role, objects, usage, held, grants, current, desired, later>>
    BY <1>2 DEF Skip, continue, isNext
  <2>2. st.kind \in {"usage", "grant", "revoke", "unuse"}
    BY <1>2, <2>1 DEF SyncInv, OnlyDesired
  <2>3. /\ \A k : untouched(k)' => untouched(k)
        /\ \A x : untouchedSchema(x)' => untouchedSchema(x)
    BY <2>1 DEF untouched, untouchedSchema
  <2>4. CurrentRead' /\ DesiredRead' /\ OnlyDesired'
    <3>1. CurrentRead' /\ DesiredRead'
      BY <1>2, <2>1, <2>3 DEF SyncInv, CurrentRead, DesiredRead, wanted
    <3>2. OnlyDesired'
      BY <1>2, <2>1 DEF SyncInv, OnlyDesired, schemasOf
    <3>3. QED BY <3>1, <3>2
  <2>5. PrivilegesPlanned'
    <3> SUFFICES ASSUME NEW k \in Privileges, untouched(k)'
                 PROVE  /\ k \in desired \ held[role] =>
                               k \notin current /\ \E x \in todo' : isFor(x, "grant", k)
                        /\ k \in held[role] \ desired /\ ~unlisted(k) =>
                               k \in current /\ \E x \in todo' : isFor(x, "revoke", k)
      BY <2>1 DEF PrivilegesPlanned, untouched, isFor, unlisted
    <3>1. /\ k \in desired \ held[role] => k \notin current /\ \E x \in todo : isFor(x, "grant", k)
          /\ k \in held[role] \ desired /\ ~unlisted(k) =>
                 k \in current /\ \E x \in todo : isFor(x, "revoke", k)
      BY <1>2, <2>3 DEF SyncInv, PrivilegesPlanned
    <3>2. ~isFor(st, "grant", k) /\ ~isFor(st, "revoke", k)
      BY <2>1 DEF isFor, objectsOf, untouched, tableOf
    <3>3. QED BY <3>1, <3>2, <2>1
  <2>6. UsagePlanned'
    <3> SUFFICES ASSUME NEW x \in Schemas \ SystemSchemas, untouchedSchema(x)'
                 PROVE  /\ x \in schemasOf(desired) \ usage[role] =>
                               \E y \in todo' : y.kind = "usage" /\ y.schema = x
                        /\ x \in usage[role] \ schemasOf(desired) =>
                               \E y \in todo' : y.kind = "unuse" /\ y.schema = x
      BY <2>1 DEF UsagePlanned, untouchedSchema, schemasOf
    <3>1. /\ x \in schemasOf(desired) \ usage[role] =>
                 \E y \in todo : y.kind = "usage" /\ y.schema = x
          /\ x \in usage[role] \ schemasOf(desired) =>
                 \E y \in todo : y.kind = "unuse" /\ y.schema = x
      BY <1>2, <2>3 DEF SyncInv, UsagePlanned
    <3>2. ~(st.kind \in {"usage", "unuse"} /\ st.schema = x)
      <4>1. st.kind \in {"usage", "unuse"} => <<st.schema, All>> \in objectsOf(st)
        BY DEF objectsOf
      <4>2. \A y \in objectsOf(st) : y[1] # x
        BY <2>1 DEF untouchedSchema
      <4>3. <<st.schema, All>>[1] = st.schema
        OBVIOUS
      <4>4. QED BY <4>1, <4>2, <4>3
    <3>3. QED BY <3>1, <3>2, <2>1
  <2>7. QED BY <2>4, <2>5, <2>6 DEF SyncInv
<1>3. QED BY <1>1, <1>2

\* RevokeAllDatabaseGrants plans a statement for every schema and every table ...
LEMMA PlanClean ==
    ASSUME TypeInv, Forgotten, ObjectsInv, RevokeAllDatabaseGrants
    PROVE  CleanInv'
<1>1. pc = "revokeAll" /\ pc' = "clean" /\ later' = cleanStatements /\ role \in Roles
      /\ current' = {k \in held[role] : k[1] \in currentGrantedSchemas(role)}
      /\ UNCHANGED <<role, missed, objects, usage, held, todo>>
  BY DEF RevokeAllDatabaseGrants, continue, TypeInv, CallInv
<1>2. todo' \cup later' = cleanStatements
  BY <1>1 DEF Forgotten
<1>3. \A st \in cleanStatements : st.kind \in {"bulk", "unuse"}
  BY DEF cleanStatements, onSchemas, statement
<1>4. ASSUME NEW x \in usage[role] \ SystemSchemas
      PROVE  \E st \in cleanStatements : st.kind = "unuse" /\ st.schema = x
  <2>1. statement("unuse", x, All, schemaOwnerMap(x)) \in cleanStatements
    BY DEF cleanStatements, onSchemas, currentGrantedSchemas
  <2>2. QED BY <2>1 DEF statement
<1>5. ASSUME NEW k \in held[role], k[1] \in currentGrantedSchemas(role)
      PROVE  \E st \in cleanStatements :
                st.kind = "bulk" /\ st.schema = k[1] /\ st.owner = tableOwner[tableOf(k)]
  <2>1. k \in Privileges
    BY <1>1 DEF TypeInv, Typed, GrantsTypeOK
  <2>2. tableOf(k) \in Tables /\ tableOf(k)[1] = k[1] /\ tableOwner[tableOf(k)] # None
    BY <1>1, <2>1, PrivilegeParts DEF ObjectsInv, tableOf
  <2>3. tableOwnerMap(tableOf(k)) = tableOwner[tableOf(k)]
    BY <1>5, <2>2 DEF tableOwnerMap, currentGrantedSchemas
  <2>4. tableOwner[tableOf(k)] \in ownersIn(k[1])
    BY <2>2, <2>3 DEF ownersIn, resolveTables
  <2>5. statement("bulk", k[1], All, tableOwner[tableOf(k)]) \in cleanStatements
    BY <1>5, <2>4 DEF cleanStatements
  <2>6. QED BY <2>5 DEF statement
<1>6. QED BY <1>1, <1>2, <1>3, <1>4, <1>5 DEF CleanInv, untouched

\* ... and goes through them schema by schema.
LEMMA CleanStepKeeps ==
    ASSUME TypeInv, CleanInv, pc = "clean",
           \/ \E x \in Schemas : CleanSchema(x)
           \/ \E st \in todo : Execute(st) \/ Skip(st)
    PROVE  CleanInv'
<1>1. ASSUME NEW x \in Schemas, CleanSchema(x) PROVE CleanInv'
  <2>1. todo' \cup later' = todo \cup later
    BY <1>1 DEF CleanSchema
  <2>2. UNCHANGED <<pc, role, usage, held, missed, objects, current>>
    BY <1>1 DEF CleanSchema
  <2>3. QED BY <2>1, <2>2 DEF CleanInv, untouched
<1>2. ASSUME NEW st \in todo, Execute(st) PROVE CleanInv'
  <2>1. st.kind \in {"bulk", "unuse"}
    BY DEF CleanInv
  <2>2. /\ held'[role] = held[role] \ named(st)
        /\ usage'[role] = IF st.kind = "unuse" THEN usage[role] \ {st.schema} ELSE usage[role]
        /\ todo' \cup later' \subseteq todo \cup later
        /\ \A x \in todo \cup later : x # st => x \in todo' \cup later'
        /\ UNCHANGED <<session, objects, current>>
    <3>1. todo' = todo \ {st} /\ later' = later
      BY <1>2, AfterExecute
    <3>2. held'[role] = held[role] \ named(st) /\ UNCHANGED <<session, objects, current>>
      BY <1>2, <2>1, AfterExecute
    <3>3. usage'[role] = IF st.kind = "unuse" THEN usage[role] \ {st.schema} ELSE usage[role]
      BY <1>2, <2>1, AfterExecute
    <3>4. QED BY <3>1, <3>2, <3>3
  <2>3. held[role] \subseteq Privileges /\ role \in Roles
    BY <1>2, AfterExecute DEF TypeInv, Typed, GrantsTypeOK
  <2>4. ASSUME NEW k \in held'[role], st.kind = "bulk"
        PROVE  ~(st.schema = k[1] /\ st.owner = tableOwner[tableOf(k)])
    <3>1. k \in held[role] /\ k \notin named(st) /\ tableOf(k) \in Tables /\ tableOf(k)[1] = k[1]
      BY <2>2, <2>3, PrivilegeParts DEF tableOf
    <3>2. tableOf(k) \notin owned(st.schema, st.owner)
      BY <2>4, <3>1 DEF named, tableOf
    <3>3. QED BY <3>1, <3>2 DEF owned
  <2>5. \A x \in usage'[role] \ SystemSchemas : <<x, All>> \notin missed =>
           \E y \in todo' \cup later' : y.kind = "unuse" /\ y.schema = x
    BY <2>2 DEF CleanInv
  <2>6. \A k \in held'[role] \cap current : untouched(k) =>
           \E y \in todo' \cup later' :
              y.kind = "bulk" /\ y.schema = k[1] /\ y.owner = tableOwner[tableOf(k)]
    <3> SUFFICES ASSUME NEW k \in held'[role] \cap current, untouched(k)
                 PROVE  \E y \in todo' \cup later' :
                          y.kind = "bulk" /\ y.schema = k[1] /\ y.owner = tableOwner[tableOf(k)]
      OBVIOUS
    <3>1. k \in held[role]
      BY <2>2
    <3>2. PICK y \in todo \cup later :
             y.kind = "bulk" /\ y.schema = k[1] /\ y.owner = tableOwner[tableOf(k)]
      BY <3>1 DEF CleanInv
    <3>3. y # st
      BY <2>4, <3>2
    <3>4. QED BY <2>2, <3>2, <3>3
  <2>7. QED BY <2>2, <2>5, <2>6 DEF CleanInv, untouched
<1>3. ASSUME NEW st \in todo, Skip(st) PROVE CleanInv'
  <2>1. st.kind \in {"bulk", "unuse"}
    BY DEF CleanInv
  <2>2. /\ pc' = pc /\ missed' = missed \cup objectsOf(st)
        /\ todo' \cup later' \subseteq todo \cup later
        /\ \A x \in todo \cup later : x # st => x \in todo' \cup later'
        /\ UNCHANGED <<role, objects, usage, held, current>>
    BY <1>3 DEF Skip, continue
  <2>3. held[role] \subseteq Privileges
    BY <1>3 DEF Skip, TypeInv, CallInv, Typed, GrantsTypeOK
  <2>4. \A x \in usage[role] \ SystemSchemas : <<x, All>> \notin missed' =>
           \E y \in todo' \cup later' : y.kind = "unuse" /\ y.schema = x
    BY <2>2 DEF CleanInv, objectsOf
  <2>5. \A k \in held[role] \cap current : tableOf(k) \notin missed' =>
           \E y \in todo' \cup later' :
              y.kind = "bulk" /\ y.schema = k[1] /\ y.owner = tableOwner[tableOf(k)]
    <3> SUFFICES ASSUME NEW k \in held[role] \cap current, tableOf(k) \notin missed'
                 PROVE  \E y \in todo' \cup later' :
                          y.kind = "bulk" /\ y.schema = k[1] /\ y.owner = tableOwner[tableOf(k)]
      OBVIOUS
    <3>1. PICK y \in todo \cup later :
             y.kind = "bulk" /\ y.schema = k[1] /\ y.owner = tableOwner[tableOf(k)]
      BY <2>2 DEF CleanInv, untouched
    <3>2. tableOf(k) \in Tables /\ tableOf(k)[1] = k[1]
      BY <2>3, PrivilegeParts DEF tableOf
    <3>3. tableOf(k) \notin objectsOf(st)
      BY <2>2
    <3>4. y # st
      BY <3>1, <3>2, <3>3 DEF objectsOf, owned
    <3>5. QED BY <2>2, <3>1, <3>4
  <2>6. QED BY <2>2, <2>4, <2>5 DEF CleanInv, untouched
<1>4. QED BY <1>1, <1>2, <1>3

\* A change from outside touches what it says, and leaves the rest of the plan true.
LEMMA ChangeKeepsGrants ==
    ASSUME TypeInv, GrantsInv, NEW xs, outside(xs), pc # "idle", UNCHANGED grantLocals,
           \A t \in Tables \ xs : tableOwner'[t] = tableOwner[t],
           \A k \in Privileges : tableOf(k) \notin xs => (k \in held'[role] <=> k \in held[role]),
           held'[role] \subseteq Privileges,
           \A x \in Schemas : (\A y \in xs : y[1] # x) => (x \in usage'[role] <=> x \in usage[role]),
           \A x \in usage'[role] \ usage[role] : FALSE,
           \A x \in usage[role] \ usage'[role] : <<x, All>> \in xs
    PROVE  SyncInv' /\ CleanInv'
<1>1. pc' = pc /\ role' = role /\ missed' = missed \cup xs
      /\ UNCHANGED <<grants, current, desired, todo, later>>
  BY DEF outside
<1>2. ASSUME NEW k \in Privileges, untouched(k)'
      PROVE  /\ untouched(k) /\ (k \in held'[role'] <=> k \in held[role])
             /\ tableOwner'[tableOf(k)] = tableOwner[tableOf(k)]
             /\ k \in wanted(grants)' <=> k \in wanted(grants)
  <2>1. untouched(k) /\ tableOf(k) \notin xs
    BY <1>1, <1>2 DEF untouched
  <2>2. tableOwner'[tableOf(k)] = tableOwner[tableOf(k)]
    BY <2>1, PrivilegeParts
  <2>3. k \in wanted(grants)' <=> k \in wanted(grants)
    BY <1>1, <2>2 DEF wanted, tableOf
  <2>4. QED BY <1>1, <2>1, <2>2, <2>3
<1>3. ASSUME NEW x \in Schemas, untouchedSchema(x)'
      PROVE  untouchedSchema(x) /\ (x \in usage'[role'] <=> x \in usage[role])
  BY <1>1, <1>3 DEF untouchedSchema
<1>4. schemasOf(desired)' = schemasOf(desired)
  BY <1>1 DEF schemasOf
<1>5. CurrentRead' /\ DesiredRead' /\ OnlyDesired'
  <2>1. CurrentRead'
    BY <1>1, <1>2 DEF GrantsInv, SyncInv, CurrentRead, unlisted
  <2>2. DesiredRead'
    BY <1>1, <1>2 DEF GrantsInv, SyncInv, DesiredRead
  <2>3. OnlyDesired'
    BY <1>1, <1>4 DEF GrantsInv, SyncInv, OnlyDesired
  <2>4. QED BY <2>1, <2>2, <2>3
<1>6. PrivilegesPlanned'
  BY <1>1, <1>2 DEF GrantsInv, SyncInv, PrivilegesPlanned, isFor, unlisted
<1>7. UsagePlanned'
  BY <1>1, <1>3, <1>4 DEF GrantsInv, SyncInv, UsagePlanned
<1>8. CleanInv'
  <2> SUFFICES ASSUME pc = "clean" PROVE CleanInv'
    BY <1>1 DEF CleanInv
  <2>1. \A k \in held'[role'] \cap current' : untouched(k)' =>
           \E st \in todo \cup later :
              st.kind = "bulk" /\ st.schema = k[1] /\ st.owner = tableOwner'[tableOf(k)]
    <3> SUFFICES ASSUME NEW k \in held'[role'] \cap current', untouched(k)'
                 PROVE  \E st \in todo \cup later :
                           st.kind = "bulk" /\ st.schema = k[1] /\ st.owner = tableOwner'[tableOf(k)]
      OBVIOUS
    <3>1. k \in Privileges
      BY <1>1
    <3>2. k \in held[role] \cap current /\ untouched(k)
          /\ tableOwner'[tableOf(k)] = tableOwner[tableOf(k)]
      BY <1>1, <1>2, <3>1
    <3>3. QED BY <3>2 DEF GrantsInv, CleanInv
  <2>2. \A x \in usage'[role'] \ SystemSchemas : <<x, All>> \notin missed' =>
           \E st \in todo \cup later : st.kind = "unuse" /\ st.schema = x
    BY <1>1 DEF GrantsInv, CleanInv
  <2>3. \A st \in todo \cup later : st.kind \in {"bulk", "unuse"}
    BY DEF GrantsInv, CleanInv
  <2>4. QED BY <1>1, <2>1, <2>2, <2>3 DEF CleanInv
<1>9. QED BY <1>5, <1>6, <1>7, <1>8 DEF SyncInv

\* Others at work in the database.
LEMMA OutsideKeepsGrants ==
    ASSUME TypeInv, GrantsInv, OutsideNext
    PROVE  GrantsInv'
<1> USE DEF GrantsInv
<1> GrantsTypeOK /\ (pc # "idle" => role \in Roles)
  BY DEF TypeInv, Typed, CallInv
<1>1. ASSUME NEW t \in Tables, NEW o \in Owners \cup {None}, ChangeTable(t, o) PROVE GrantsInv'
  <2>1. /\ outside({t}) /\ UNCHANGED <<schemaOwner, usage, grantLocals>> /\ pc' = pc
        /\ tableOwner' = [tableOwner EXCEPT ![t] = o]
        /\ held' = IF o # None THEN held ELSE [r \in Roles |-> without(held[r], {t})]
        /\ schemaOwner[t[1]] # None
    BY <1>1 DEF ChangeTable, outside
  <2>2. Forgotten'
    BY <2>1 DEF Forgotten
  <2>3. \A r \in Roles : \A k \in Privileges :
           /\ k \in held'[r] => k \in held[r]
           /\ tableOf(k) # t => (k \in held'[r] <=> k \in held[r])
           /\ o = None /\ k \in held'[r] => tableOf(k) # t
    BY <2>1 DEF GrantsTypeOK, without, tableOf
  <2>4. \A r \in Roles : held'[r] \subseteq Privileges
    BY <2>1 DEF GrantsTypeOK, without
  <2>5. \A x \in Tables : tableOwner'[x] = IF x = t THEN o ELSE tableOwner[x]
    BY <2>1 DEF GrantsTypeOK
  <2>6. ObjectsInv'
    <3>1. \A x \in Tables : tableOwner'[x] # None => schemaOwner'[x[1]] # None
      BY <2>1, <2>5 DEF ObjectsInv
    <3>2. \A r \in Roles : \A k \in held'[r] : tableOwner'[<<k[1], k[2]>>] # None
      <4> SUFFICES ASSUME NEW r \in Roles, NEW k \in held'[r]
                   PROVE  tableOwner'[<<k[1], k[2]>>] # None
        OBVIOUS
      <4>1. k \in Privileges /\ k \in held[r] /\ (o = None => tableOf(k) # t)
        BY <2>3, <2>4
      <4>2. tableOf(k) \in Tables /\ tableOwner[tableOf(k)] # None
        BY <4>1, PrivilegeParts DEF ObjectsInv, tableOf
      <4>3. QED BY <4>1, <4>2, <2>5 DEF tableOf
    <3>3. QED BY <3>1, <3>2 DEF ObjectsInv
  <2>7. CASE pc = "idle"
    BY <2>1, <2>2, <2>6, <2>7, NothingPlanned
  <2>8. CASE pc # "idle"
    BY <2>1, <2>2, <2>3, <2>4, <2>5, <2>6, <2>8, ChangeKeepsGrants
  <2>9. QED BY <2>7, <2>8
<1>2. ASSUME NEW x \in Schemas, NEW o \in Owners \cup {None}, ChangeSchema(x, o) PROVE GrantsInv'
  <2> DEFINE ts == {t \in Tables : t[1] = x}
             xs == ts \cup {<<x, All>>}
  <2>1. /\ outside(xs) /\ UNCHANGED grantLocals /\ pc' = pc
        /\ schemaOwner' = [schemaOwner EXCEPT ![x] = o]
        /\ tableOwner' = IF o # None THEN tableOwner
                         ELSE [t \in Tables |-> IF t \in ts THEN None ELSE tableOwner[t]]
        /\ usage' = IF o # None THEN usage ELSE [r \in Roles |-> usage[r] \ {x}]
        /\ held' = IF o # None THEN held ELSE [r \in Roles |-> without(held[r], ts)]
    BY <1>2 DEF ChangeSchema, outside
  <2>2. Forgotten'
    BY <2>1 DEF Forgotten
  <2>3. \A r \in Roles : \A k \in Privileges :
           /\ k \in held'[r] => k \in held[r]
           /\ tableOf(k) \notin ts => (k \in held'[r] <=> k \in held[r])
           /\ o = None /\ k \in held'[r] => tableOf(k) \notin ts
    BY <2>1 DEF GrantsTypeOK, without, tableOf
  <2>4. \A r \in Roles : held'[r] \subseteq Privileges /\ usage'[r] \subseteq usage[r]
    BY <2>1 DEF GrantsTypeOK, without
  <2>5. /\ \A t \in Tables : tableOwner'[t] = IF t \in ts /\ o = None THEN None ELSE tableOwner[t]
        /\ \A s \in Schemas : schemaOwner'[s] = IF s = x THEN o ELSE schemaOwner[s]
    BY <2>1 DEF GrantsTypeOK
  <2>6. ObjectsInv'
    <3>1. \A t \in Tables : t[1] \in Schemas
      BY DEF Tables
    <3>2. \A t \in Tables : tableOwner'[t] # None => schemaOwner'[t[1]] # None
      BY <2>5, <3>1 DEF ObjectsInv
    <3>3. \A r \in Roles : \A k \in held'[r] : tableOwner'[<<k[1], k[2]>>] # None
      <4> SUFFICES ASSUME NEW r \in Roles, NEW k \in held'[r]
                   PROVE  tableOwner'[<<k[1], k[2]>>] # None
        OBVIOUS
      <4>1. k \in Privileges /\ k \in held[r] /\ (o = None => tableOf(k) \notin ts)
        BY <2>3, <2>4
      <4>2. tableOf(k) \in Tables /\ tableOwner[tableOf(k)] # None
        BY <4>1, PrivilegeParts DEF ObjectsInv, tableOf
      <4>3. QED BY <4>1, <4>2, <2>5 DEF tableOf
    <3>4. QED BY <3>2, <3>3 DEF ObjectsInv
  <2>7. CASE pc = "idle"
    BY <2>1, <2>2, <2>6, <2>7, NothingPlanned
  <2>8. CASE pc # "idle"
    <3>1. \A t \in Tables \ xs : tableOwner'[t] = tableOwner[t]
      BY <2>5
    <3>2. \A k \in Privileges : tableOf(k) \notin xs => (k \in held'[role] <=> k \in held[role])
      BY <2>3, <2>8
    <3>3. \A s \in Schemas : s # x => (s \in usage'[role] <=> s \in usage[role])
      BY <2>1, <2>8 DEF GrantsTypeOK
    <3>4. <<x, All>> \in xs /\ <<x, All>>[1] = x
      OBVIOUS
    <3>5. /\ \A s \in Schemas : (\A y \in xs : y[1] # s) => (s \in usage'[role] <=> s \in usage[role])
          /\ \A s \in usage'[role] \ usage[role] : FALSE
          /\ \A s \in usage[role] \ usage'[role] : <<s, All>> \in xs
      <4>1. usage[role] \subseteq Schemas
        BY <2>8 DEF GrantsTypeOK
      <4>2. \A s \in Schemas : (\A y \in xs : y[1] # s) => s # x
        BY <3>4
      <4>3. QED BY <2>4, <2>8, <3>3, <3>4, <4>1, <4>2
    <3>6. held'[role] \subseteq Privileges
      BY <2>4, <2>8
    <3>7. QED BY <2>1, <2>2, <2>6, <2>8, <3>1, <3>2, <3>5, <3>6, ChangeKeepsGrants
  <2>9. QED BY <2>7, <2>8
<1>3. ASSUME NEW r \in Roles, NEW k \in Privileges, GrantByHand(r, k) PROVE GrantsInv'
  <2>1. /\ outside({tableOf(k)}) /\ UNCHANGED <<objects, usage, grantLocals>> /\ pc' = pc
        /\ held' = [held EXCEPT ![r] = @ \cup {k}]
        /\ tableOwner[tableOf(k)] # None
    BY <1>3 DEF GrantByHand, outside, tableOf
  <2>2. Forgotten'
    BY <2>1 DEF Forgotten
  <2>3. \A q \in Roles : held'[q] = IF q = r THEN held[q] \cup {k} ELSE held[q]
    BY <2>1 DEF GrantsTypeOK
  <2>4. ObjectsInv'
    BY <2>1, <2>3 DEF ObjectsInv, tableOf
  <2>5. CASE pc = "idle"
    BY <2>1, <2>2, <2>4, <2>5, NothingPlanned
  <2>6. CASE pc # "idle"
    <3>1. held'[role] \subseteq Privileges
      BY <2>3, <2>6 DEF GrantsTypeOK
    <3>2. \A q \in Privileges : tableOf(q) \notin {tableOf(k)} => (q \in held'[role] <=> q \in held[role])
      BY <2>3, <2>6
    <3>3. QED BY <2>1, <2>2, <2>4, <2>6, <3>1, <3>2, ChangeKeepsGrants
  <2>7. QED BY <2>5, <2>6
<1>4. ASSUME NEW o \in Owners, ChangeMembership(o) PROVE GrantsInv'
  <2>1. UNCHANGED <<grantVars, pc, role>> /\ (missed' = missed \/ pc = "idle")
    BY <1>4 DEF ChangeMembership, outside
  <2>2. QED BY <2>1, SameGrants
<1>5. QED BY <1>1, <1>2, <1>3, <1>4 DEF OutsideNext

\* The calls on grants.
LEMMA CallsKeepGrants ==
    ASSUME TypeInv, GrantsInv, GrantsNext
    PROVE  GrantsInv'
<1> USE DEF GrantsInv
<1>1. CASE SyncDatabaseGrants \/ ExpandGrants \/ PlanSync
  BY <1>1, PlanKeepsGrants
<1>2. CASE InvalidGrants \/ \E st \in todo : StatementFails(st)
  <2>1. pc' = "idle" /\ todo' = {} /\ later' = {} /\ UNCHANGED <<objects, held>>
    BY <1>2 DEF InvalidGrants, StatementFails, endReconcile, forgetGrants
  <2>2. QED BY <2>1, NothingPlanned DEF Forgotten, ObjectsInv
<1>3. CASE RevokeAllDatabaseGrants
  <2>1. CleanInv'
    BY <1>3, PlanClean
  <2>2. pc' = "clean" /\ UNCHANGED <<objects, held>>
    BY <1>3 DEF RevokeAllDatabaseGrants, continue
  <2>3. QED
    BY <2>1, <2>2 DEF Forgotten, ObjectsInv, SyncInv, CurrentRead, DesiredRead, OnlyDesired,
       PrivilegesPlanned, UsagePlanned
<1>4. CASE \E x \in Schemas : CleanSchema(x)
  <2>1. pc = "clean" /\ pc' = "clean" /\ UNCHANGED <<objects, held>>
    BY <1>4 DEF CleanSchema
  <2>2. CleanInv'
    BY <1>4, <2>1, CleanStepKeeps
  <2>3. QED
    BY <2>1, <2>2 DEF Forgotten, ObjectsInv, SyncInv, CurrentRead, DesiredRead, OnlyDesired,
       PrivilegesPlanned, UsagePlanned
<1>5. ASSUME NEW st \in todo, Execute(st) \/ Skip(st) PROVE GrantsInv'
  <2>1. pc \in {"apply", "clean"} /\ pc' = pc /\ UNCHANGED objects /\ role \in Roles
    BY <1>5 DEF Execute, Skip, continue, TypeInv, CallInv
  <2>2. SyncInv'
    BY <1>5, ExecuteKeepsSync, SkipKeepsSync
  <2>3. CleanInv'
    BY <1>5, <2>1, CleanStepKeeps DEF CleanInv
  <2>4. ObjectsInv'
    <3>1. CASE Skip(st)
      BY <2>1, <3>1 DEF Skip, ObjectsInv
    <3>2. CASE Execute(st)
      <4> SUFFICES ASSUME NEW r \in Roles, NEW k \in held'[r], k \notin held[r]
                   PROVE  tableOwner[<<k[1], k[2]>>] # None
        BY <2>1 DEF ObjectsInv
      <4>1. r = role /\ st.kind = "grant" /\ k \in named(st)
        BY <3>2, AfterExecute
      <4>2. k \in Privileges /\ k[1] = st.schema /\ k[2] = st.table
        BY <4>1 DEF named, TypeInv, Typed, GrantsTypeOK
      <4>3. st.table # All
        BY <4>2, PrivilegeParts, GrantsAssumption
      <4>4. QED BY <3>2, <4>2, <4>3 DEF Execute, ownerNow
    <3>3. QED BY <1>5, <3>1, <3>2
  <2>5. QED BY <2>1, <2>2, <2>3, <2>4 DEF Forgotten
<1>6. QED BY <1>1, <1>2, <1>3, <1>4, <1>5 DEF GrantsNext

\* Every step keeps what the calls on grants rely on.
LEMMA StepKeepsGrants == TypeInv /\ GrantsInv /\ [Next]_vars => GrantsInv'
<1> SUFFICES ASSUME TypeInv, GrantsInv, [Next]_vars PROVE GrantsInv'
  OBVIOUS
<1>1. CASE \/ \E r \in Roles : StartSync(r) \/ StartClean(r)
           \/ GrantsDone \/ CleanDone \/ DropDone
           \/ FunctionsDone \/ DropCustomRole \/ DropRefused \/ Fault
  <2>1. /\ pc' \notin {"expand", "owners", "apply", "clean"} /\ UNCHANGED <<objects, held>>
        /\ todo' \subseteq todo /\ later' \subseteq later
        /\ pc \in {"apply", "clean"} => todo' = {} /\ later' = {}
    BY <1>1 DEF StartSync, StartClean, GrantsDone, CleanDone, DropDone, FunctionsDone,
       DropCustomRole, DropRefused, Fault, continue, endReconcile, forgetGrants
  <2>2. QED BY <2>1, NothingPlanned DEF GrantsInv, Forgotten, ObjectsInv
<1>2. CASE GrantsNext
  BY <1>2, CallsKeepGrants
<1>3. CASE FunctionsNext /\ UNCHANGED <<grantVars, resources>>
  <2>1. pc' \notin {"expand", "owners", "apply", "clean"} /\ pc \notin {"apply", "clean"}
    BY <1>3 DEF FunctionsNext, SyncDatabaseFunctions, InvalidFunctions, DropForNewOwner,
       CreateFunction, LookupIdentity, RevokePublic, GrantExecute, BeginStale,
       DropManagedFunctions, DropStale, FunctionCallFails, continue, endReconcile
  <2>2. QED BY <1>3, <2>1, NothingPlanned DEF GrantsInv, Forgotten, ObjectsInv
<1>4. CASE Outside
  <2>1. CASE OutsideNext
    BY <2>1, OutsideKeepsGrants
  <2>2. ASSUME NEW o \in Owners, ChangeDatabaseOwner(o), UNCHANGED grantVars PROVE GrantsInv'
    BY <2>2, SameGrants DEF ChangeDatabaseOwner, outside
  <2>3. ASSUME NEW r \in Roles, Delete(r) \/ \E sp \in Specs[r] : Edit(r, sp) PROVE GrantsInv'
    BY <2>3, SameGrants DEF Delete, Edit
  <2>4. QED BY <1>4, <2>1, <2>2, <2>3 DEF Outside
<1>5. CASE UNCHANGED vars
  BY <1>5, SameGrants DEF vars
<1>6. QED BY <1>1, <1>2, <1>3, <1>4, <1>5 DEF Next, Call

\* They hold to begin with.
LEMMA InitGrants == Init => GrantsInv
BY RoleDatabaseAssumption DEF Init, GrantsInv, Forgotten, ObjectsInv, SyncInv, CurrentRead,
   DesiredRead, OnlyDesired, PrivilegesPlanned, UsagePlanned, CleanInv

\* The inductive invariant of the calls on grants.
LEMMA GrantsInvariant == Spec => [](TypeInv /\ GrantsInv)
BY InitTypes, StepKeepsTypes, InitGrants, StepKeepsGrants, PTL DEF Spec

\* SyncDatabaseGrants that returns nil has made the privileges of the role, and its USAGE on
\* schemas, what the grants ask for, on everything that nobody else has changed meanwhile
\* and for which no statement was refused: however tables, schemas and owners come and go
\* between its queries and its statements, and whatever earlier calls have left behind.
THEOREM SyncAchieved == Spec => []GrantsSynced
<1>1. TypeInv /\ GrantsInv => GrantsSynced
  <2> SUFFICES ASSUME TypeInv, GrantsInv, pc = "apply", todo = {} PROVE GrantsSynced
    BY DEF GrantsSynced, done
  <2>1. \A k \in Privileges : <<k[1], k[2]>> \notin missed =>
           /\ k \in wanted(grants) => k \in held[role]
           /\ k \in held[role] => \/ k \in wanted(grants)
                                  \/ <<k[1], k[2]>> \in Partitioned
                                  \/ k[1] \in SystemSchemas
    BY DEF GrantsInv, SyncInv, DesiredRead, PrivilegesPlanned, untouched, unlisted, tableOf
  <2>2. ASSUME NEW x \in Schemas \ SystemSchemas, \A y \in missed : y[1] # x
        PROVE  x \in usage[role] <=> x \in schemasOf(wanted(grants))
    <3>1. x \in usage[role] <=> x \in schemasOf(desired)
      BY <2>2 DEF GrantsInv, SyncInv, UsagePlanned, untouchedSchema
    <3>2. \A k \in Privileges : k[1] = x => untouched(k)
      BY <2>2 DEF untouched, tableOf
    <3>3. \A k \in Privileges : k[1] = x => (k \in desired <=> k \in wanted(grants))
      BY <3>2 DEF GrantsInv, SyncInv, DesiredRead
    <3>4. desired \subseteq Privileges /\ wanted(grants) \subseteq Privileges
      BY DEF TypeInv, Typed, GrantsTypeOK, wanted
    <3>5. QED BY <3>1, <3>3, <3>4 DEF schemasOf
  <2>3. QED BY <2>1, <2>2 DEF GrantsSynced
<1>2. QED BY <1>1, GrantsInvariant, PTL

\* RevokeAllDatabaseGrants that returns nil leaves the role neither USAGE nor privileges in
\* the schemas it had USAGE on, but for what others have changed meanwhile and statements
\* that were refused: every owner of a table in a schema gets a statement of its own.
THEOREM CleanAchieved == Spec => []GrantsCleaned
<1>1. GrantsInv => GrantsCleaned
  BY DEF GrantsInv, CleanInv, GrantsCleaned, done, untouched, tableOf
<1>2. QED BY <1>1, GrantsInvariant, PTL

\* No statement of SyncDatabaseGrants takes away access that the grants ask for: there is no
\* moment at which a role that keeps a privilege is without it, or without USAGE on its
\* schema.
THEOREM NoOutage == Spec => AccessKept
<1> DEFINE A == pc = "apply" /\ pc' = "apply" /\ changes' = changes =>
                   \A k \in wanted(grants) :
                      access(k) /\ (\A x \in missed : x[1] # k[1]) => access(k)'
<1>1. TypeInv /\ GrantsInv /\ [Next]_vars => [A]_<<grantVars, session>>
  <2> SUFFICES ASSUME TypeInv, GrantsInv, Next, pc = "apply", pc' = "apply", changes' = changes,
                      NEW k \in wanted(grants), access(k), \A x \in missed : x[1] # k[1]
               PROVE  access(k)'
    BY DEF vars
  <2>1. k \in Privileges /\ k \in desired /\ k[1] \in schemasOf(desired)
    <3>1. k \in Privileges
      BY DEF wanted
    <3>2. untouched(k)
      BY DEF untouched, tableOf
    <3>3. k \in desired
      BY <3>1, <3>2 DEF GrantsInv, SyncInv, DesiredRead
    <3>4. QED BY <3>1, <3>3 DEF schemasOf
  <2>2. changes \in Nat
    BY DEF TypeInv, Typed, SessionType
  <2>3. \E st \in todo : Execute(st) \/ Skip(st)
    <3>1. ~Outside
      <4>1. \A xs : ~outside(xs)
        BY <2>2 DEF outside
      <4>2. \A t, o : ~ChangeTable(t, o) /\ ~ChangeSchema(t, o) /\ ~GrantByHand(t, o)
        BY <4>1 DEF ChangeTable, ChangeSchema, GrantByHand
      <4>3. \A o : ~ChangeMembership(o) /\ ~ChangeDatabaseOwner(o) /\ ~Delete(o)
        BY <4>1 DEF ChangeMembership, ChangeDatabaseOwner, Delete
      <4>4. \A r, sp : ~Edit(r, sp)
        BY DEF Edit
      <4>5. QED BY <4>2, <4>3, <4>4 DEF Outside, OutsideNext
    <3>2. ~FunctionsNext
      BY DEF FunctionsNext, SyncDatabaseFunctions, InvalidFunctions, DropForNewOwner,
         CreateFunction, LookupIdentity, RevokePublic, GrantExecute, BeginStale,
         DropManagedFunctions, DropStale, FunctionCallFails
    <3>3. QED
      BY <3>1, <3>2 DEF Next, Call, StartSync, StartClean, GrantsDone, FunctionsDone, DropDone,
         CleanDone, DropCustomRole, DropRefused, Fault, GrantsNext, SyncDatabaseGrants,
         InvalidGrants, ExpandGrants, PlanSync, RevokeAllDatabaseGrants, CleanSchema,
         StatementFails, continue, endReconcile
  <2>4. PICK st \in todo : Execute(st) \/ Skip(st)
    BY <2>3
  <2>5. CASE Skip(st)
    BY <2>5 DEF Skip, access, continue
  <2>6. CASE Execute(st)
    <3>1. role' = role
      BY <2>6 DEF Execute
    <3>2. k \in held'[role] /\ k[1] \in usage'[role]
      BY <2>1, <2>6, SyncEffect DEF GrantsInv, access
    <3>3. QED BY <3>1, <3>2 DEF access
  <2>7. QED BY <2>4, <2>5, <2>6
<1>2. QED BY <1>1, GrantsInvariant, PTL DEF Spec, AccessKept
=============================================================================

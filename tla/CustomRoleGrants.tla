-------------------------- MODULE CustomRoleGrants --------------------------
(***************************************************************************)
(* pkg/postgres/customrole_grants.go: SyncDatabaseGrants brings the table  *)
(* privileges of a role in one database in line with its resource, and     *)
(* RevokeAllDatabaseGrants takes them all away before the role is dropped. *)
(*                                                                         *)
(* A privilege is <<schema, table, keyword>>, an object <<schema, table>>  *)
(* or <<schema, All>>.  A statement is planned from what the call has read *)
(* and is carried out later, on what there is by then.                     *)
(***************************************************************************)
EXTENDS RoleSession

CONSTANTS
    Schemas, TableNames,
    SystemSchemas,      \* information_schema, and schemas LIKE 'pg_%'
    Partitioned,        \* <<schema, table>> of tables whose relkind is 'p'
    All,                \* an empty name, or "*"
    Keywords, Upper,    \* privileges as written, and strings.ToUpper of them
    Peers               \* <<o, p>>: o holds some privilege on every table of p

Tables == Schemas \X TableNames

ASSUME GrantsAssumption ==
    /\ SystemSchemas \subseteq Schemas /\ Partitioned \subseteq Tables
    /\ All \notin Schemas \cup TableNames
    /\ Upper \in [Keywords -> Keywords]
    /\ Peers \subseteq Owners \X Owners

VARIABLES
    schemaOwner, tableOwner,    \* the database: who owns what
    usage, held,                \* the database: what has been granted to each role
    grants,                     \* the argument of the call
    current, desired,           \* what the call has read and worked out
    todo,                       \* the statements that are left
    later                       \* the statements for schemas that are not visited yet

objects == <<schemaOwner, tableOwner>>
grantLocals == <<grants, current, desired, todo, later>>
grantVars == <<objects, usage, held, grantLocals>>

Privileges == Schemas \X TableNames \X Keywords
Grants == [schema : Schemas \cup {All}, table : TableNames \cup {All},
           privileges : SUBSET Keywords]
Statements == [kind : {"usage", "grant", "revoke", "bulk", "unuse"}, schema : Schemas,
               table : TableNames \cup {All}, owner : Owners \cup {None}]

-----------------------------------------------------------------------------
(* Reading the catalog.                                                    *)

allowedTablePrivileges ==
    {"SELECT", "INSERT", "UPDATE", "DELETE", "TRUNCATE", "REFERENCES", "TRIGGER"}

validatePrivileges(privs) ==
    /\ privs # {}
    /\ \A p \in privs : Upper[p] \in allowedTablePrivileges

schemaOwnerMap(s) == IF s \in SystemSchemas THEN None ELSE schemaOwner[s]

tableOwnerMap(t) == IF t[1] \in SystemSchemas THEN None ELSE tableOwner[t]

currentTableGrants(r) ==
    {k \in held[r] : <<k[1], k[2]>> \notin Partitioned /\ k[1] \notin SystemSchemas}

currentGrantedSchemas(r) == usage[r] \ SystemSchemas

resolveSchemas(schema) ==
    {s \in Schemas : /\ schemaOwner[s] # None
                     /\ IF schema = All THEN s \notin SystemSchemas ELSE s = schema}

resolveTables(schema, table) ==
    {t \in Tables : t[1] = schema /\ tableOwner[t] # None /\ table \in {t[2], All}}

\* Mutant: "*" is taken for the name of a table.
tablesAsWritten(gs) ==
    UNION {{<<s, g.table, Upper[p]>> : s \in resolveSchemas(g.schema), p \in g.privileges} : g \in gs}

\* Mutant: the keywords are taken as they are written.
keywordsAsWritten(gs) ==
    UNION {UNION {{<<t[1], t[2], p>> : t \in resolveTables(s, g.table), p \in g.privileges} :
                    s \in resolveSchemas(g.schema)} : g \in gs}

expandGrants(gs) ==
    UNION {UNION {{<<t[1], t[2], Upper[p]>> : t \in resolveTables(s, g.table), p \in g.privileges} :
                    s \in resolveSchemas(g.schema)} : g \in gs}

-----------------------------------------------------------------------------
(* The statements.                                                         *)

schemasOf(keys) == {k[1] : k \in keys}
tablesOf(keys) == {<<k[1], k[2]>> : k \in keys}

statement(kind, s, table, owner) == [kind |-> kind, schema |-> s, table |-> table, owner |-> owner]
onSchemas(kind, ss) == {statement(kind, s, All, schemaOwnerMap(s)) : s \in ss}
onTables(kind, ts) == {statement(kind, t[1], t[2], tableOwnerMap(t)) : t \in ts}

\* Mutant: a schema is kept as long as a privilege in it is listed.
usageWhileListed ==
    LET have == currentGrantedSchemas(role)
    IN  onSchemas("usage", schemasOf(desired) \ have)
          \cup onTables("grant", tablesOf(desired \ current))
          \cup onTables("revoke", tablesOf(current \ desired))
          \cup onSchemas("unuse", have \ schemasOf(desired \cup current))

\* What SyncDatabaseGrants has to do.
syncStatements ==
    LET have == currentGrantedSchemas(role)
    IN  onSchemas("usage", schemasOf(desired) \ have)
          \cup onTables("grant", tablesOf(desired \ current))
          \cup onTables("revoke", tablesOf(current \ desired))
          \cup onSchemas("unuse", have \ schemasOf(desired))

\* The owners of tables in a schema, and the owner of the schema.
ownersIn(s) == {tableOwnerMap(t) : t \in resolveTables(s, All)} \cup {schemaOwnerMap(s)}

\* Mutant: the tables are left to the owner of the schema.
bulkBySchemaOwner ==
    UNION {{statement("bulk", s, All, schemaOwnerMap(s))} \cup onSchemas("unuse", {s}) :
             s \in currentGrantedSchemas(role)}

\* What RevokeAllDatabaseGrants has to do.
cleanStatements ==
    UNION {{statement("bulk", s, All, o) : o \in ownersIn(s)} \cup onSchemas("unuse", {s}) :
             s \in currentGrantedSchemas(role)}

rank == [usage |-> 1, grant |-> 2, revoke |-> 3, bulk |-> 3, unuse |-> 4]

\* One statement after the other; which of the same kind is first is left open.
isNext(st) == st \in todo /\ \A x \in todo : rank[st.kind] <= rank[x.kind]

owned(s, o) == {t \in Tables : t[1] = s /\ tableOwner[t] = o}

\* The objects that a statement is about, and the privileges that it names.
objectsOf(st) ==
    CASE st.kind \in {"usage", "unuse"} -> {<<st.schema, All>>}
      [] st.kind = "bulk" -> owned(st.schema, st.owner)
      [] OTHER -> {<<st.schema, st.table>>}

named(st) ==
    CASE st.kind = "grant" -> {k \in desired \ current : k[1] = st.schema /\ k[2] = st.table}
      [] st.kind = "revoke" -> {k \in current \ desired : k[1] = st.schema /\ k[2] = st.table}
      [] st.kind = "bulk" -> {k \in held[role] : <<k[1], k[2]>> \in owned(st.schema, st.owner)}
      [] OTHER -> {}

\* Who owns the object now, None when it is gone.
ownerNow(st) ==
    IF st.table = All THEN schemaOwner[st.schema] ELSE tableOwner[<<st.schema, st.table>>]

\* "Permission denied".  A bulk revoke is refused as a whole when the schema holds
\* a table on which the owner has no privilege at all.
refused(st) ==
    \/ st.owner = None \/ ~execWithRole(st.owner)
    \/ /\ ownerNow(st) # None
       /\ IF st.kind = "bulk"
          THEN \E t \in resolveTables(st.schema, All) :
                   tableOwner[t] # st.owner /\ <<st.owner, tableOwner[t]>> \notin Peers
          ELSE ownerNow(st) # st.owner

-----------------------------------------------------------------------------
(* The calls.                                                              *)

\* The variables of the call are gone when it returns.
forgetGrants ==
    /\ grants' = {} /\ current' = {} /\ desired' = {} /\ todo' = {} /\ later' = {}

\* SyncDatabaseGrants begins: the privileges are validated and the current ones read.
SyncDatabaseGrants ==
    /\ pc = "grants"
    /\ \A g \in grants : validatePrivileges(g.privileges)
    /\ current' = currentTableGrants(role)
    /\ continue("expand")
    /\ UNCHANGED <<objects, usage, held, grants, desired, todo, later, missed>>

InvalidGrants ==
    /\ pc = "grants"
    /\ \E g \in grants : ~validatePrivileges(g.privileges)
    /\ endReconcile /\ forgetGrants
    /\ UNCHANGED <<objects, usage, held, faults>>

ExpandGrants ==
    /\ pc = "expand"
    /\ desired' = expandGrants(grants)
    /\ continue("owners")
    /\ UNCHANGED <<objects, usage, held, grants, current, todo, later, missed>>

\* Schemas and owners are read, in queries about different objects.
PlanSync ==
    /\ pc = "owners"
    /\ todo' = syncStatements
    /\ continue("apply")
    /\ UNCHANGED <<objects, usage, held, grants, current, desired, later, missed>>

\* RevokeAllDatabaseGrants begins.  It reads no privileges: current is auxiliary
\* here, what it is expected to take away.
RevokeAllDatabaseGrants ==
    /\ pc = "revokeAll"
    /\ later' = cleanStatements
    /\ current' = {k \in held[role] : k[1] \in currentGrantedSchemas(role)}
    /\ continue("clean")
    /\ UNCHANGED <<objects, usage, held, grants, desired, todo, missed>>

CleanSchema(s) ==
    /\ pc = "clean" /\ todo = {}
    /\ \E st \in later : st.schema = s
    /\ todo' = {st \in later : st.schema = s}
    /\ later' = later \ todo'
    /\ UNCHANGED <<session, objects, usage, held, grants, current, desired>>

\* A statement is carried out by the owner of the object.
Execute(st) ==
    /\ pc \in {"apply", "clean"} /\ isNext(st)
    /\ ~refused(st) /\ ownerNow(st) # None
    /\ todo' = todo \ {st}
    /\ usage' = [usage EXCEPT ![role] =
                   CASE st.kind = "usage" -> @ \cup {st.schema}
                     [] st.kind = "unuse" -> @ \ {st.schema}
                     [] OTHER -> @]
    /\ held' = [held EXCEPT ![role] = IF st.kind = "grant" THEN @ \cup named(st)
                                                           ELSE @ \ named(st)]
    /\ UNCHANGED <<session, objects, grants, current, desired, later>>

\* It is refused, or has no owner, and is left out with a line in the log.
Skip(st) ==
    /\ pc \in {"apply", "clean"} /\ isNext(st)
    /\ refused(st)
    /\ todo' = todo \ {st}
    /\ missed' = missed \cup objectsOf(st)
    /\ continue(pc)
    /\ UNCHANGED <<objects, usage, held, grants, current, desired, later>>

\* All other error ends the call: the object is gone.
StatementFails(st) ==
    /\ pc \in {"apply", "clean"} /\ isNext(st)
    /\ ~refused(st) /\ ownerNow(st) = None
    /\ endReconcile /\ forgetGrants
    /\ UNCHANGED <<objects, usage, held, faults>>

done == todo = {} /\ later = {}

GrantsNext ==
    \/ SyncDatabaseGrants \/ InvalidGrants \/ ExpandGrants \/ PlanSync
    \/ RevokeAllDatabaseGrants \/ \E s \in Schemas : CleanSchema(s)
    \/ \E st \in todo : Execute(st) \/ Skip(st) \/ StatementFails(st)

-----------------------------------------------------------------------------
(* Others at work in the database.                                         *)

without(keys, ts) == {k \in keys : <<k[1], k[2]>> \notin ts}

\* A table is created, dropped or given to another owner.
ChangeTable(t, o) ==
    /\ t[1] \notin SystemSchemas
    /\ o # tableOwner[t] /\ schemaOwner[t[1]] # None
    /\ outside({t})
    /\ tableOwner' = [tableOwner EXCEPT ![t] = o]
    /\ held' = IF o # None THEN held ELSE [r \in Roles |-> without(held[r], {t})]
    /\ UNCHANGED <<schemaOwner, usage, grantLocals, settable>>

\* A schema is created, given to another owner, or dropped with all that is in it.
ChangeSchema(s, o) ==
    LET ts == {t \in Tables : t[1] = s}
    IN  /\ s \notin SystemSchemas /\ o # schemaOwner[s]
        /\ outside(ts \cup {<<s, All>>})
        /\ schemaOwner' = [schemaOwner EXCEPT ![s] = o]
        /\ tableOwner' = IF o # None THEN tableOwner
                         ELSE [t \in Tables |-> IF t \in ts THEN None ELSE tableOwner[t]]
        /\ usage' = IF o # None THEN usage ELSE [r \in Roles |-> usage[r] \ {s}]
        /\ held' = IF o # None THEN held ELSE [r \in Roles |-> without(held[r], ts)]
        /\ UNCHANGED <<grantLocals, settable>>

\* Somebody else grants a privilege.
GrantByHand(r, k) ==
    /\ k[1] \notin SystemSchemas /\ tableOwner[<<k[1], k[2]>>] # None
    /\ k[3] \in allowedTablePrivileges /\ k \notin held[r]
    /\ outside({<<k[1], k[2]>>})
    /\ held' = [held EXCEPT ![r] = @ \cup {k}]
    /\ UNCHANGED <<objects, usage, grantLocals, settable>>

\* The controller is made a member of a role, or is not any more.
ChangeMembership(o) ==
    /\ outside({})
    /\ settable' = (settable \ {o}) \cup ({o} \ settable)
    /\ UNCHANGED grantVars

OutsideNext ==
    \/ \E t \in Tables, o \in Owners \cup {None} : ChangeTable(t, o)
    \/ \E s \in Schemas, o \in Owners \cup {None} : ChangeSchema(s, o)
    \/ \E r \in Roles, k \in Privileges : GrantByHand(r, k)
    \/ \E o \in Owners \ {Controller} : ChangeMembership(o)

-----------------------------------------------------------------------------
\* The type invariant of this part.
GrantsTypeOK ==
    /\ schemaOwner \in [Schemas -> Owners \cup {None}]
    /\ tableOwner \in [Tables -> Owners \cup {None}]
    /\ usage \in [Roles -> SUBSET Schemas] /\ held \in [Roles -> SUBSET Privileges]
    /\ grants \subseteq Grants
    /\ current \subseteq Privileges /\ desired \subseteq Privileges
    /\ todo \subseteq Statements /\ later \subseteq Statements

\* What the grants ask for, in the database as it is.
wanted(gs) ==
    {k \in Privileges :
        /\ tableOwner[<<k[1], k[2]>>] # None
        /\ \E g \in gs :
              /\ g.schema = k[1] \/ (g.schema = All /\ k[1] \notin SystemSchemas)
              /\ g.table \in {All, k[2]}
              /\ \E p \in g.privileges : Upper[p] = k[3]}

\* When SyncDatabaseGrants is about to return nil, the role holds exactly what was
\* asked for on every table that nobody else has changed and the log does not name,
\* and USAGE on exactly the schemas where something was asked for.  What had been
\* granted on a partitioned table stays.
GrantsSynced ==
    pc = "apply" /\ done =>
        /\ \A k \in Privileges :
             <<k[1], k[2]>> \notin missed =>
                 /\ k \in wanted(grants) => k \in held[role]
                 /\ k \in held[role] => \/ k \in wanted(grants)
                                        \/ <<k[1], k[2]>> \in Partitioned
                                        \/ k[1] \in SystemSchemas
        /\ \A s \in Schemas \ SystemSchemas :
             (\A x \in missed : x[1] # s) =>
                 (s \in usage[role] <=> s \in schemasOf(wanted(grants)))

access(k) == k \in held[role] /\ k[1] \in usage[role]

\* "... issues only the necessary GRANT/REVOKE statements, avoiding any access
\* outage window": no statement of SyncDatabaseGrants takes away access that the
\* grants ask for, on a table that nobody else has touched meanwhile.
AccessKept ==
    [][pc = "apply" /\ pc' = "apply" /\ changes' = changes =>
         \A k \in wanted(grants) :
             access(k) /\ (\A x \in missed : x[1] # k[1]) => access(k)']_<<grantVars, session>>

\* When RevokeAllDatabaseGrants is about to return nil, nothing is left in the schemas
\* on which the role had USAGE, but for what others have changed and the log names.
GrantsCleaned ==
    pc = "clean" /\ done =>
        /\ \A s \in usage[role] \ SystemSchemas : <<s, All>> \in missed
        /\ \A k \in held[role] \cap current : <<k[1], k[2]>> \in missed
=============================================================================

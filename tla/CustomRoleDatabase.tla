------------------------- MODULE CustomRoleDatabase -------------------------
(***************************************************************************)
(* Custom roles in one database: the calls on grants and on functions in   *)
(* the order in which the reconciler makes them, for several roles, with   *)
(* reconciles that fail anywhere and are tried again.                      *)
(*                                                                         *)
(*   live resource   EnsureCustomRole, SyncDatabaseGrants,                 *)
(*                   SyncDatabaseFunctions                                 *)
(*   deleted one     DropManagedFunctions, RevokeAllDatabaseGrants,        *)
(*                   DropCustomRole                                        *)
(***************************************************************************)
EXTENDS CustomRoleGrants, CustomRoleFunctions

CONSTANTS
    Specs,          \* what the resource of a role may say: [grants, functions]
    Layouts,        \* databases to begin with: the owners of its objects, and the
                    \* roles that the controller may act as
    MaxEdits        \* bound on the edits of resources and their creation after a deletion

\* A table is in a schema that exists.
ASSUME RoleDatabaseAssumption ==
    /\ \A r \in Roles : \A sp \in Specs[r] : sp.grants \subseteq Grants /\ sp.functions \in Seq(Functions)
    /\ \A l \in Layouts :
          /\ l.settable \subseteq Owners /\ l.databaseOwner \in Owners
          /\ l.schemaOwner \in [Schemas -> Owners \cup {None}]
          /\ l.tableOwner \in [Tables -> Owners \cup {None}]
          /\ \A t \in Tables : l.tableOwner[t] # None => l.schemaOwner[t[1]] # None
    /\ MaxEdits \in Nat

VARIABLES
    phase,          \* of each resource: live, deleting, or gone
    spec,
    exists,         \* the role exists on the server
    edits

resources == <<phase, spec, exists, edits>>
vars == <<session, grantVars, functionVars, resources>>

\* The type invariant.
TypeOK ==
    /\ pc \in {"idle", "grants", "expand", "owners", "apply", "functions", "drop", "create",
               "lookup", "revoke", "execute", "stale", "dropAll", "dropping", "revokeAll",
               "clean", "dropRole"}
    /\ role \in Roles \cup {None} /\ settable \subseteq Owners
    /\ missed \subseteq Schemas \X (TableNames \cup {All})
    /\ changes \in 0..MaxChanges /\ faults \in 0..MaxFaults /\ edits \in 0..MaxEdits
    /\ GrantsTypeOK /\ FunctionsTypeOK
    /\ phase \in [Roles -> {"live", "deleting", "gone"}]
    /\ spec \in [Roles -> UNION {Specs[r] : r \in Roles}] /\ \A r \in Roles : spec[r] \in Specs[r]
    /\ exists \in [Roles -> BOOLEAN]

-----------------------------------------------------------------------------
StartSync(r) ==
    /\ pc = "idle" /\ phase[r] = "live"
    /\ pc' = "grants" /\ role' = r
    /\ grants' = spec[r].grants
    /\ exists' = [exists EXCEPT ![r] = TRUE]
    /\ UNCHANGED <<settable, missed, changes, faults, objects, usage, held, current, desired,
                   todo, later, functionVars, phase, spec, edits>>

GrantsDone ==
    /\ pc = "apply" /\ done
    /\ continue("functions") /\ missed' = {}
    /\ forgetGrants
    /\ functions' = spec[role].functions
    /\ UNCHANGED <<objects, usage, held, databaseOwner, procs, left, dbOwner, listed,
                   currentOwner, identity, dealtWith, resources>>

FunctionsDone ==
    /\ pc = "stale" /\ stale = {}
    /\ endReconcile /\ forgetFunctions
    /\ UNCHANGED <<faults, grantVars, databaseOwner, procs, resources>>

StartClean(r) ==
    /\ pc = "idle" /\ phase[r] = "deleting"
    /\ pc' = "dropAll" /\ role' = r
    /\ UNCHANGED <<settable, missed, changes, faults, grantVars, functionVars, resources>>

DropDone ==
    /\ pc = "dropping" /\ stale = {}
    /\ continue("revokeAll") /\ missed' = {}
    /\ forgetFunctions
    /\ UNCHANGED <<grantVars, databaseOwner, procs, resources>>

CleanDone ==
    /\ pc = "clean" /\ done
    /\ continue("dropRole") /\ missed' = {}
    /\ forgetGrants
    /\ UNCHANGED <<objects, usage, held, functionVars, resources>>

\* PostgreSQL drops no role that something is still granted to.
grantedSomething(r) ==
    usage[r] # {} \/ held[r] # {} \/ \E p \in Range(procs) : r \in p.execs

DropCustomRole ==
    /\ pc = "dropRole" /\ ~grantedSomething(role)
    /\ exists' = [exists EXCEPT ![role] = FALSE]
    /\ phase' = [phase EXCEPT ![role] = "gone"]
    /\ endReconcile
    /\ UNCHANGED <<faults, grantVars, functionVars, spec, edits>>

DropRefused ==
    /\ pc = "dropRole" /\ grantedSomething(role)
    /\ endReconcile
    /\ UNCHANGED <<faults, grantVars, functionVars, resources>>

\* A statement fails, its answer is lost, or the controller stops.
Fault ==
    /\ pc # "idle" /\ faults < MaxFaults
    /\ faults' = faults + 1
    /\ endReconcile /\ forgetGrants /\ forgetFunctions
    /\ UNCHANGED <<objects, usage, held, databaseOwner, procs, resources>>

Call ==
    \/ GrantsNext /\ UNCHANGED <<functionVars, resources>>
    \/ FunctionsNext /\ UNCHANGED <<grantVars, resources>>
    \/ GrantsDone \/ FunctionsDone \/ DropDone \/ CleanDone
    \/ DropCustomRole \/ DropRefused

\* Resources are edited, deleted and made again.  A reconcile reads the resource
\* once, so that an edit that comes meanwhile is an edit after it.
Edit(r, sp) ==
    /\ pc = "idle" /\ edits < MaxEdits
    /\ phase[r] \in {"live", "gone"} /\ (sp # spec[r] \/ phase[r] = "gone")
    /\ edits' = edits + 1
    /\ spec' = [spec EXCEPT ![r] = sp] /\ phase' = [phase EXCEPT ![r] = "live"]
    /\ UNCHANGED <<session, grantVars, functionVars, exists>>

Delete(r) ==
    /\ pc = "idle" /\ phase[r] = "live"
    /\ phase' = [phase EXCEPT ![r] = "deleting"]
    /\ UNCHANGED <<session, grantVars, functionVars, spec, exists, edits>>

Outside ==
    \/ OutsideNext /\ UNCHANGED <<functionVars, resources>>
    \/ (\E o \in Owners : ChangeDatabaseOwner(o)) /\ UNCHANGED <<grantVars, resources>>
    \/ \E r \in Roles : Delete(r) \/ \E sp \in Specs[r] : Edit(r, sp)

Next ==
    \/ \E r \in Roles : StartSync(r) \/ StartClean(r)
    \/ Call \/ Fault \/ Outside

\* A database where nothing has been done for custom roles yet.
Init ==
    /\ pc = "idle" /\ role = None /\ missed = {} /\ changes = 0 /\ faults = 0 /\ edits = 0
    /\ \E l \in Layouts :
          /\ settable = l.settable /\ databaseOwner = l.databaseOwner
          /\ schemaOwner = l.schemaOwner /\ tableOwner = l.tableOwner
    /\ usage = [r \in Roles |-> {}] /\ held = [r \in Roles |-> {}]
    /\ grants = {} /\ current = {} /\ desired = {} /\ todo = {} /\ later = {}
    /\ procs = <<>> /\ functions = <<>> /\ left = <<>> /\ dbOwner = None /\ identity = <<>>
    /\ listed = {} /\ currentOwner = <<>> /\ dealtWith = {}
    /\ phase = [r \in Roles |-> "live"] /\ spec \in [Roles -> UNION {Specs[r] : r \in Roles}]
    /\ \A r \in Roles : spec[r] \in Specs[r]
    /\ exists = [r \in Roles |-> FALSE]

Spec == Init /\ [][Next]_vars

\* A call goes on, and a resource that is deleted is reconciled until it is gone.
FairSpec ==
    /\ Spec /\ WF_vars(Call)
    /\ \A r \in Roles : SF_vars(StartClean(r))

-----------------------------------------------------------------------------
\* "When a CustomRole resource is deleted the controller revokes all table privileges
\* and schema USAGE grants it holds in every database, then drops the PostgreSQL role":
\* a deleted resource goes away at last.
RoleGoes == \A r \in Roles : phase[r] = "deleting" ~> phase[r] # "deleting"
=============================================================================

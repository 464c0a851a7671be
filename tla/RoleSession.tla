---------------------------- MODULE RoleSession ----------------------------
(***************************************************************************)
(* What the calls on custom roles share (pkg/postgres/customrole.go): one  *)
(* connection of the controller to one database, and execWithRole, which   *)
(* runs a statement in a transaction under the role that owns the object.  *)
(*                                                                         *)
(* A call is a sequence of statements.  Everything else that happens in    *)
(* the database happens between them: objects come, go and change hands,   *)
(* and the controller is made a member of roles or is not any more (the    *)
(* provisioning of databases takes the membership back).                   *)
(***************************************************************************)
EXTENDS Integers, Sequences, FiniteSets

CONSTANTS
    Roles,          \* names of custom roles
    Owners,         \* roles that own schemas, tables and functions
    Controller,     \* the role the controller is connected as
    None,           \* no role: the object has no owner, it does not exist
    MaxChanges,     \* bound on the changes made from outside
    MaxFaults       \* bound on the calls that fail for reasons of their own

ASSUME SessionAssumption ==
    /\ Controller \in Owners
    /\ None \notin Owners \cup Roles
    /\ MaxChanges \in Nat /\ MaxFaults \in Nat

VARIABLES
    pc,             \* the statement that comes next; "idle" between two calls
    role,           \* the role that the call is about, None between two calls
    settable,       \* the roles that the connection may SET ROLE to
    missed,         \* auxiliary: objects that the call has skipped, with a line in
                    \* the log, and objects that others have changed meanwhile
    changes, faults

session == <<pc, role, settable, missed, changes, faults>>

\* SET LOCAL ROLE is refused with "permission denied" otherwise.
execWithRole(owner) == owner \in settable \cup {Controller}

\* A change from outside, to the given objects.
outside(objects) ==
    /\ changes < MaxChanges
    /\ changes' = changes + 1
    /\ missed' = IF pc = "idle" THEN {} ELSE missed \cup objects
    /\ UNCHANGED <<pc, role, faults>>

\* The reconcile is over; an error is retried.
endReconcile ==
    /\ pc' = "idle" /\ role' = None /\ missed' = {}
    /\ UNCHANGED <<settable, changes>>

\* The call goes on with the statement named next.
continue(next) ==
    /\ pc' = next
    /\ UNCHANGED <<role, settable, changes, faults>>
=============================================================================

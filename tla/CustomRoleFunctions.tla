------------------------- MODULE CustomRoleFunctions -------------------------
(***************************************************************************)
(* pkg/postgres/customrole_functions.go: SyncDatabaseFunctions brings the  *)
(* SECURITY DEFINER functions of a role in one database in line with its   *)
(* resource, and DropManagedFunctions drops them before the role goes.     *)
(*                                                                         *)
(* A function is known to belong to a role by its name alone, so names are *)
(* sequences of letters.  PostgreSQL tells functions of one name apart by  *)
(* the types of their arguments (Types); identity arguments also hold the  *)
(* names of the parameters.  The functions of the public schema are kept   *)
(* by their oids, which follow the order of their creation.                *)
(***************************************************************************)
EXTENDS RoleSession, FunctionText

CONSTANTS
    Characters,         \* of which names and texts are made
    Args, Types,        \* argument lists, and the types of the arguments in them
    Returns, Bodies,    \* return types and bodies, as written
    FunctionNames,
    Creators,           \* roles that may create functions in the public schema
    ControllerUser      \* the owningRole "$controllerUser"

underscore == "_"
separator == <<underscore, underscore>>

ASSUME FunctionsAssumption ==
    /\ Roles \cup Args \cup Returns \cup FunctionNames \subseteq Seq(Characters)
    /\ underscore \in Characters
    /\ DOMAIN Types = Args
    /\ Creators \subseteq Owners
    /\ ControllerUser \notin Owners \cup {None}

VARIABLES
    databaseOwner,      \* the database: who owns it
    procs,              \* the database: procs[oid], the functions of the public schema
    functions,          \* the argument of the call
    left,               \* those of them that are still to be created
    dbOwner,            \* read once: the owner of the database
    listed,             \* read once: the functions of the role
    currentOwner,       \* read once: for each name the owner of one of them
    identity,           \* the identity arguments of the function in hand
    dealtWith           \* <<name, identity arguments>> that stay, or are dropped already

functionLocals == <<functions, left, dbOwner, listed, currentOwner, identity, dealtWith>>
functionVars == <<databaseOwner, procs, functionLocals>>

\* OwningRole None is the empty one: the owner of the database.
Functions == [name : FunctionNames, args : Args, returns : Returns,
              owningRole : Owners \cup {None, ControllerUser}, body : Bodies]

-----------------------------------------------------------------------------
(* Names.                                                                  *)

managedFunctionPrefix(r) == r \o separator

managedFunctionName(r, name) == managedFunctionPrefix(r) \o name

\* Mutant: any function whose name begins with the prefix.
anyWithPrefix(r, name) == IsPrefix(managedFunctionPrefix(r), name)

\* The condition on names in the query of managedFunctions.
isManaged(r, name) ==
    LET prefix == managedFunctionPrefix(r)
    IN  /\ IsPrefix(prefix, name)
        /\ ~pairIn(SubSeq(name, Len(prefix) + 1, Len(name)), separator)

managedFunctions(r) == {p \in Range(procs) : isManaged(r, p.name)}

validateFunction(f) ==
    /\ f.name # <<>> /\ ~pairIn(f.name, separator)
    /\ f.returns # <<>> /\ isSafeArgs(f.args) /\ isSafeReturns(f.returns)
    /\ f.body # ""

-----------------------------------------------------------------------------
(* The function in hand, and the statements about it.                      *)

f == Head(left)
pgName == managedFunctionName(role, f.name)

ownerOf(fn) ==
    CASE fn.owningRole = None -> dbOwner
      [] fn.owningRole = ControllerUser -> Controller
      [] OTHER -> fn.owningRole

owner == ownerOf(f)

same(p, name, args) == p.name = name /\ Types[p.args] = Types[args]
overloads(name) == {p \in Range(procs) : p.name = name}

\* DROP FUNCTION IF EXISTS, which only the owner may do.
mayDrop(o, name, args) ==
    execWithRole(o) /\ \A p \in Range(procs) : same(p, name, args) => p.owner = o
dropped(name, args) == Restrict(procs, {i \in DOMAIN procs : ~same(procs[i], name, args)})

ownerChanges == pgName \in DOMAIN currentOwner /\ currentOwner[pgName] # owner

\* CREATE OR REPLACE FUNCTION: what is there has the same owner, and neither the
\* names of its parameters nor its return type may change.
mayCreate ==
    /\ execWithRole(owner)
    /\ owner \in Creators
    /\ \A p \in Range(procs) :
          same(p, pgName, f.args) =>
              p.owner = owner /\ p.args = f.args /\ p.returns = f.returns

\* A new function may be executed by everybody.
newFunction == [name |-> pgName, args |-> f.args, returns |-> f.returns, body |-> f.body,
                owner |-> owner, public |-> TRUE, execs |-> {}]

\* Its oid is greater than those in use; oids that were used before do not matter.
newOid == Max(DOMAIN procs \cup {0}) + 1

created ==
    IF \E p \in Range(procs) : same(p, pgName, f.args)
    THEN [i \in DOMAIN procs |-> IF same(procs[i], pgName, f.args)
                                 THEN [procs[i] EXCEPT !.body = f.body] ELSE procs[i]]
    ELSE [i \in DOMAIN procs \cup {newOid} |-> IF i = newOid THEN newFunction ELSE procs[i]]

\* ORDER BY oid DESC LIMIT 1.
newest(name) ==
    LET at == {i \in DOMAIN procs : procs[i].name = name}
    IN  procs[CHOOSE i \in at : \A j \in at : j <= i]

\* ALTER FUNCTION, REVOKE and GRANT are left to the owner.
inHand(p) == p.name = pgName /\ p.args = identity

mayAlter ==
    /\ execWithRole(owner)
    /\ \E p \in Range(procs) : inHand(p) /\ p.owner = owner

-----------------------------------------------------------------------------
(* The calls.                                                              *)

\* The variables of the call are gone when it returns.
forgetFunctions ==
    /\ functions' = <<>> /\ left' = <<>> /\ dbOwner' = None /\ identity' = <<>>
    /\ listed' = {} /\ currentOwner' = <<>> /\ dealtWith' = {}

ownersByName(ps) ==
    {o \in [{p.name : p \in ps} -> Owners] :
        \A n \in DOMAIN o : \E p \in ps : p.name = n /\ p.owner = o[n]}

SyncDatabaseFunctions ==
    /\ pc = "functions"
    /\ \A i \in DOMAIN functions : validateFunction(functions[i])
    /\ left' = functions
    /\ dbOwner' = databaseOwner
    /\ listed' = managedFunctions(role)
    /\ currentOwner' \in ownersByName(listed')
    /\ dealtWith' = {}
    /\ continue("drop")
    /\ UNCHANGED <<databaseOwner, procs, functions, identity, missed>>

InvalidFunctions ==
    /\ pc = "functions"
    /\ \E i \in DOMAIN functions : ~validateFunction(functions[i])
    /\ endReconcile /\ forgetFunctions
    /\ UNCHANGED <<databaseOwner, procs, faults>>

\* If the owner changes the function is dropped first, as the owner it has.
DropForNewOwner ==
    /\ pc = "drop" /\ left # <<>>
    /\ IF ownerChanges
       THEN /\ mayDrop(currentOwner[pgName], pgName, f.args)
            /\ procs' = dropped(pgName, f.args)
       ELSE UNCHANGED procs
    /\ continue("create")
    /\ UNCHANGED <<databaseOwner, functionLocals, missed>>

CreateFunction ==
    /\ pc = "create"
    /\ mayCreate
    /\ procs' = created
    /\ continue("lookup")
    /\ UNCHANGED <<databaseOwner, functionLocals, missed>>

\* canonicalArgs: those of the newest function of that name.
LookupIdentity ==
    /\ pc = "lookup"
    /\ overloads(pgName) # {}
    /\ identity' = newest(pgName).args
    /\ continue("revoke")
    /\ UNCHANGED <<databaseOwner, procs, functions, left, dbOwner, listed, currentOwner,
                   dealtWith, missed>>

\* Mutant: only the owner is set.
keepsPublic ==
    /\ pc = "revoke"
    /\ mayAlter
    /\ continue("execute")
    /\ UNCHANGED <<functionVars, missed>>

\* ALTER FUNCTION ... OWNER TO the owner it has, and REVOKE ALL ... FROM PUBLIC.
RevokePublic ==
    /\ pc = "revoke"
    /\ mayAlter
    /\ procs' = [i \in DOMAIN procs |-> IF inHand(procs[i])
                     THEN [procs[i] EXCEPT !.public = FALSE] ELSE procs[i]]
    /\ continue("execute")
    /\ UNCHANGED <<databaseOwner, functionLocals, missed>>

GrantExecute ==
    /\ pc = "execute"
    /\ mayAlter
    /\ procs' = [i \in DOMAIN procs |-> IF inHand(procs[i])
                     THEN [procs[i] EXCEPT !.execs = @ \cup {role}] ELSE procs[i]]
    /\ dealtWith' = dealtWith \cup {<<pgName, identity>>}
    /\ left' = Tail(left)
    /\ continue("drop")
    /\ UNCHANGED <<databaseOwner, functions, dbOwner, listed, currentOwner, identity, missed>>

\* Mutant: a name that is desired covers all its overloads.
staleByName == {p \in listed : \A x \in dealtWith : x[1] # p.name}

stale == {p \in listed : <<p.name, p.args>> \notin dealtWith}

BeginStale ==
    /\ pc = "drop" /\ left = <<>>
    /\ continue("stale")
    /\ UNCHANGED <<functionVars, missed>>

DropManagedFunctions ==
    /\ pc = "dropAll"
    /\ listed' = managedFunctions(role)
    /\ dealtWith' = {}
    /\ continue("dropping")
    /\ UNCHANGED <<databaseOwner, procs, functions, left, dbOwner, currentOwner, identity, missed>>

DropStale(p) ==
    /\ pc \in {"stale", "dropping"} /\ p \in stale
    /\ mayDrop(p.owner, p.name, p.args)
    /\ procs' = dropped(p.name, p.args)
    /\ dealtWith' = dealtWith \cup {<<p.name, p.args>>}
    /\ continue(pc)
    /\ UNCHANGED <<databaseOwner, functions, left, dbOwner, listed, currentOwner, identity, missed>>

\* A statement that is refused ends the call.
FunctionCallFails ==
    /\ \/ pc = "drop" /\ left # <<>> /\ ownerChanges
          /\ ~mayDrop(currentOwner[pgName], pgName, f.args)
       \/ pc = "create" /\ ~mayCreate
       \/ pc = "lookup" /\ overloads(pgName) = {}
       \/ pc \in {"revoke", "execute"} /\ ~mayAlter
       \/ pc \in {"stale", "dropping"} /\ \E p \in stale : ~mayDrop(p.owner, p.name, p.args)
    /\ endReconcile /\ forgetFunctions
    /\ UNCHANGED <<databaseOwner, procs, faults>>

FunctionsNext ==
    \/ SyncDatabaseFunctions \/ InvalidFunctions
    \/ DropForNewOwner \/ CreateFunction \/ LookupIdentity \/ RevokePublic \/ GrantExecute
    \/ BeginStale \/ DropManagedFunctions \/ (\E p \in listed : DropStale(p))
    \/ FunctionCallFails

\* The database is given to another owner.
ChangeDatabaseOwner(o) ==
    /\ o # databaseOwner
    /\ outside({})
    /\ databaseOwner' = o
    /\ UNCHANGED <<procs, functionLocals, settable>>

-----------------------------------------------------------------------------
ManagedProcs ==
    [name : Seq(Characters), args : Args, returns : Returns, body : Bodies, owner : Owners,
     public : BOOLEAN, execs : SUBSET Roles]

\* The type invariant of this part.
FunctionsTypeOK ==
    /\ databaseOwner \in Owners
    /\ DOMAIN procs \in SUBSET Nat /\ procs \in [DOMAIN procs -> ManagedProcs]
    /\ functions \in Seq(Functions) /\ left \in Seq(Functions)
    /\ dbOwner \in Owners \cup {None} /\ identity \in Args \cup {<<>>}
    /\ listed \subseteq ManagedProcs /\ DOMAIN currentOwner \subseteq {p.name : p \in listed}
    /\ dealtWith \subseteq Seq(Characters) \X Args

functionsDone == pc = "stale" /\ stale = {}

\* The functions asked for, as the role is to find them.
asked ==
    {[name |-> managedFunctionName(role, functions[i].name), args |-> functions[i].args,
      returns |-> functions[i].returns, body |-> functions[i].body,
      owner |-> ownerOf(functions[i])] : i \in DOMAIN functions}
found ==
    {[name |-> p.name, args |-> p.args, returns |-> p.returns, body |-> p.body,
      owner |-> p.owner] :
        p \in {q \in managedFunctions(role) : ~q.public /\ role \in q.execs}}

distinctNames(ps) == \A p, q \in ps : p.name = q.name => p = q

\* SyncDatabaseFunctions that returns nil leaves the role exactly the functions of its
\* resource, unless there are, or were when it began, two functions of one name.
FunctionsSynced ==
    functionsDone /\ distinctNames(asked) /\ distinctNames(listed) => found = asked

\* "For each desired function it creates or replaces the function (as the owning role)
\* ... and grants EXECUTE to roleName": when SyncDatabaseFunctions returns nil all of
\* them are there, those that share a name included.
OverloadsKept == functionsDone => asked \subseteq found

\* "... only roleName can call the function": when SyncDatabaseFunctions returns nil no
\* function of the role is left open to everybody, whatever failed in earlier calls.
PublicShutOut == functionsDone => \A p \in managedFunctions(role) : ~p.public

\* "... Only a leading "SETOF " prefix is permitted to carry a space outside parentheses":
\* the texts in a CREATE FUNCTION statement are balanced as PostgreSQL reads them, and a
\* return type is one word, as long as no quoted name, dollar quote or form feed is in them.
StatementsWellFormed ==
    pc = "create" =>
        /\ plain(f.args) => balanced(read(f.args))
        /\ plain(f.returns) => balanced(read(f.returns)) /\ oneWord(read(f.returns))

\* Roles whose names differ by an underscore at the end.
clash(r1, r2) ==
    /\ {r1, r2} \subseteq Roles
    /\ r1 = r2 \o <<underscore>> \/ r2 = r1 \o <<underscore>>

\* "... distinguish functions owned by this role from those of longer-prefixed roles":
\* a call about one role changes no function that another role can execute, but for a
\* role whose name differs from it by an underscore at the end.
OthersFunctionsKept ==
    [][\A i \in DOMAIN procs :
         (\E r \in procs[i].execs : r # role /\ ~clash(r, role)) =>
             procs[i] \in Range(procs')]_<<functionVars, session>>

=============================================================================

---------------------------- MODULE IamPolicies ----------------------------
(***************************************************************************)
(* The AWS IAM policies through which users may log in to PostgreSQL.      *)
(*                                                                         *)
(*   pkg/iam/iam.go      EnsureUser, RemoveUser and what they call         *)
(*   pkg/iam/client.go   the calls to AWS                                  *)
(*   pkg/iam/policy.go   the policy document                               *)
(*                                                                         *)
(* A policy is known by the number in its name (PolicyBaseName_<number>);  *)
(* its document is a set of statements, one per user, each naming the      *)
(* database role by the configuration it was written under.  Every call    *)
(* that changes something in AWS is a step.  The PostgreSQLUser controller *)
(* is the caller: one call at a time, repeated until it succeeds.          *)
(***************************************************************************)
EXTENDS Naturals, FiniteSets

CONSTANTS
    Users,                  \* values of spec.name
    Configs,                \* region, account and role prefix of a process
    LoginRoles,             \* AWSLoginRoles
    MaxUsersPerPolicy,      \* 30 in the controller
    MaxVersions,            \* AWS keeps at most this many versions (5)
    MaxPolicies,            \* bound: numbers a policy name may carry
    MaxChanges,             \* bound: users created, deleted
    MaxFaults,              \* bound: failing calls and restarts
    NoUser, NoPolicy

PolicyIds == 0 .. (MaxPolicies - 1)
Statements == [user : Users, config : Configs]

ASSUME IamAssumption ==
    /\ MaxUsersPerPolicy \in Nat \ {0}
    /\ MaxVersions \in Nat /\ MaxVersions > 1
    /\ MaxPolicies \in Nat \ {0}
    /\ MaxChanges \in Nat /\ MaxFaults \in Nat
    /\ NoUser \notin Users /\ NoPolicy \notin Nat

VARIABLES
    \* AWS
    policies,       \* the policies that exist
    doc,            \* doc[p]: the document of the default version
    versions,       \* versions[p]: number of versions kept
    attached,       \* attached[p]: the login roles the policy is attached to
    \* the controller
    phase,          \* phase[u]: "absent", "live", "deleting"
    config,         \* the configuration of the running process
    pc, mode,       \* the next call, and what it is part of
    target,         \* the user EnsureUser or RemoveUser is called for
    listed, mem,    \* the policies ListPolicies returned and their documents
    visit,          \* policies the loop has still to look at
    write,          \* policies updatePolicies has still to write
    current,        \* the policy being pruned or deleted
    errs,           \* updatePolicies has met an error
    attach,         \* pairs still to attach
    detach,         \* login roles still to detach
    changes, faults

awsVars == <<policies, doc, versions, attached>>
callVars == <<pc, mode, target, listed, mem, visit, write, current, errs, attach, detach>>
vars == <<awsVars, callVars, phase, config, changes, faults>>

-----------------------------------------------------------------------------
(* The policy document.                                                    *)

ListUsers(d) == {s.user : s \in d}
Exists(d, u) == u \in ListUsers(d)
Count(d) == Cardinality(d)
Add(d, u, c) == d \cup {[user |-> u, config |-> c]}
Remove(d, u) == {s \in d : s.user # u}

\* Mutant: every statement is rewritten, whoever it is for.
updateEveryUser(d, u, c) == {[s EXCEPT !.user = u, !.config = c] : s \in d}

\* The user's statements are rewritten when they name another role.
Update(d, u, c) == {[s EXCEPT !.config = IF s.user = u THEN c ELSE @] : s \in d}

-----------------------------------------------------------------------------
PCs == {"idle", "visit", "write", "prune", "retry", "create", "attachNew", "attach",
        "ensured", "detach", "delete", "removed"}

Documents == SUBSET Statements

\* The type invariant.
TypeOK ==
    /\ policies \subseteq PolicyIds
    /\ doc \in [PolicyIds -> Documents]
    /\ versions \in [PolicyIds -> 0..MaxVersions]
    /\ \A p \in policies : versions[p] > 0
    /\ attached \in [PolicyIds -> SUBSET LoginRoles]
    /\ phase \in [Users -> {"absent", "live", "deleting"}]
    /\ config \in Configs
    /\ pc \in PCs
    /\ mode \in {"none", "update", "add", "remove"}
    /\ target \in Users \cup {NoUser}
    /\ listed \subseteq PolicyIds
    /\ mem \in [PolicyIds -> Documents]
    /\ visit \subseteq PolicyIds /\ write \subseteq PolicyIds
    /\ current \in PolicyIds \cup {NoPolicy}
    /\ errs \in BOOLEAN
    /\ attach \subseteq LoginRoles \X PolicyIds
    /\ detach \subseteq LoginRoles
    /\ changes \in 0..MaxChanges /\ faults \in 0..MaxFaults

noDocs == [p \in PolicyIds |-> {}]

Init ==
    /\ policies = {} /\ doc = noDocs
    /\ versions = [p \in PolicyIds |-> 0] /\ attached = [p \in PolicyIds |-> {}]
    /\ phase = [u \in Users |-> "absent"]
    /\ config \in Configs
    /\ pc = "idle" /\ mode = "none" /\ target = NoUser
    /\ listed = {} /\ mem = noDocs /\ visit = {} /\ write = {} /\ current = NoPolicy
    /\ errs = FALSE /\ attach = {} /\ detach = {}
    /\ changes = 0 /\ faults = 0

Fault == faults < MaxFaults /\ faults' = faults + 1

\* The call is over and nothing of it is remembered.
Idle ==
    /\ pc' = "idle" /\ mode' = "none" /\ target' = NoUser
    /\ listed' = {} /\ mem' = noDocs /\ visit' = {} /\ write' = {} /\ current' = NoPolicy
    /\ errs' = FALSE /\ attach' = {} /\ detach' = {}

-----------------------------------------------------------------------------
(* EnsureUser and RemoveUser list the policies and choose which to change.  *)

withUser(u) == {p \in policies : Exists(doc[p], u)}

\* Mutant: the check for room is off by one.
roomForOneMore == {p \in policies : Count(doc[p]) <= MaxUsersPerPolicy}

withRoom == {p \in policies : Count(doc[p]) < MaxUsersPerPolicy}

Call(u, how, which) ==
    /\ pc = "idle"
    /\ pc' = "visit" /\ mode' = how /\ target' = u
    /\ listed' = policies /\ mem' = doc /\ visit' = which
    /\ UNCHANGED <<awsVars, phase, config, write, current, errs, attach, detach, changes, faults>>

\* The user is in a policy: see to it that its statements name the right role.
EnsureKnownUser(u) ==
    /\ phase[u] = "live" /\ withUser(u) # {}
    /\ Call(u, "update", withUser(u))

\* The user is in none: put it where there is room.
EnsureNewUser(u) ==
    /\ phase[u] = "live" /\ withUser(u) = {}
    /\ Call(u, "add", withRoom)

RemoveUser(u) ==
    /\ phase[u] = "deleting"
    /\ Call(u, "remove", withUser(u))

-----------------------------------------------------------------------------
(* The loops over the listed policies.                                     *)

\* EnsureUser writes every listed policy after each change it makes to one.
VisitUpdate(p) ==
    /\ pc = "visit" /\ mode = "update" /\ p \in visit
    /\ visit' = visit \ {p}
    /\ mem' = [mem EXCEPT ![p] = Update(@, target, config)]
    /\ IF mem'[p] # mem[p]
       THEN write' = listed /\ pc' = "write"
       ELSE UNCHANGED <<write, pc>>
    /\ UNCHANGED <<awsVars, phase, config, mode, target, listed, current, errs, attach, detach,
                   changes, faults>>

VisitAdd(p) ==
    /\ pc = "visit" /\ mode = "add" /\ p \in visit
    /\ visit' = visit \ {p}
    /\ mem' = [mem EXCEPT ![p] = Add(@, target, config)]
    /\ write' = listed /\ pc' = "write"
    /\ UNCHANGED <<awsVars, phase, config, mode, target, listed, current, errs, attach, detach,
                   changes, faults>>

\* Mutant: a policy is deleted as soon as one of its users goes.
deleteWhenUserGoes(p) ==
    /\ pc = "visit" /\ mode = "remove" /\ p \in visit
    /\ visit' = visit \ {p}
    /\ mem' = [mem EXCEPT ![p] = Remove(@, target)]
    /\ pc' = "detach" /\ current' = p /\ detach' = LoginRoles
    /\ UNCHANGED <<awsVars, phase, config, mode, target, listed, write, errs, attach, changes, faults>>

\* Mutant: the loop ends with the first policy that has the user.
removeFromOne(p) ==
    /\ pc = "visit" /\ mode = "remove" /\ p \in visit
    /\ visit' = {}
    /\ mem' = [mem EXCEPT ![p] = Remove(@, target)]
    /\ IF Count(mem'[p]) = 0
       THEN pc' = "detach" /\ current' = p /\ detach' = LoginRoles /\ UNCHANGED write
       ELSE pc' = "write" /\ write' = {p} /\ UNCHANGED <<current, detach>>
    /\ UNCHANGED <<awsVars, phase, config, mode, target, listed, errs, attach, changes, faults>>

\* The user is taken out; a policy that is left empty is deleted.
VisitRemove(p) ==
    /\ pc = "visit" /\ mode = "remove" /\ p \in visit
    /\ visit' = visit \ {p}
    /\ mem' = [mem EXCEPT ![p] = Remove(@, target)]
    /\ IF Count(mem'[p]) = 0
       THEN pc' = "detach" /\ current' = p /\ detach' = LoginRoles /\ UNCHANGED write
       ELSE pc' = "write" /\ write' = {p} /\ UNCHANGED <<current, detach>>
    /\ UNCHANGED <<awsVars, phase, config, mode, target, listed, errs, attach, changes, faults>>

\* userHandled, read off the documents: the user is in one of them.
userHandled == \E p \in listed : Exists(mem[p], target)

\* Mutant: only a policy that EnsureUser creates is attached.
attachOnlyNew ==
    /\ pc = "visit" /\ visit = {}
    /\ pc' = CASE mode = "remove" -> "removed"
               [] mode # "remove" /\ userHandled -> "attach"
               [] OTHER -> "create"
    /\ attach' = {}
    /\ UNCHANGED <<awsVars, phase, config, mode, target, listed, mem, visit, write, current, errs,
                   detach, changes, faults>>

\* All policies seen to: a user that found no room gets a policy of its own,
\* otherwise every policy is attached to every login role.
VisitsDone ==
    /\ pc = "visit" /\ visit = {}
    /\ pc' = CASE mode = "remove" -> "removed"
               [] mode # "remove" /\ userHandled -> "attach"
               [] OTHER -> "create"
    /\ attach' = IF pc' = "attach" THEN LoginRoles \X policies ELSE {}
    /\ UNCHANGED <<awsVars, phase, config, mode, target, listed, mem, visit, write, current, errs,
                   detach, changes, faults>>

-----------------------------------------------------------------------------
(* UpdatePolicy: a new version that becomes the default.                   *)

\* The new version of p holds the document in memory.
newVersion(p) ==
    /\ doc' = [doc EXCEPT ![p] = mem[p]]
    /\ versions' = [versions EXCEPT ![p] = @ + 1]
    /\ UNCHANGED <<policies, attached>>

\* CreatePolicyVersion; AWS answers LimitExceeded when it keeps no more versions.
CreatePolicyVersion(p) ==
    /\ pc = "write" /\ p \in write
    /\ IF versions[p] < MaxVersions
       THEN newVersion(p) /\ write' = write \ {p} /\ UNCHANGED <<pc, current>>
       ELSE pc' = "prune" /\ current' = p /\ UNCHANGED <<awsVars, write>>
    /\ UNCHANGED <<phase, config, mode, target, listed, mem, visit, errs, attach, detach,
                   changes, faults>>

\* Mutant: the default version is deleted with the others.
deleteEveryVersion ==
    /\ pc = "prune"
    /\ pc' = "retry"
    /\ versions' = [versions EXCEPT ![current] = 0]
    /\ UNCHANGED <<policies, doc, attached, phase, config, mode, target, listed, mem, visit, write,
                   current, errs, attach, detach, changes, faults>>

\* deleteOldPolicyVersions.  An error of AWS on a single version is passed over,
\* so any number of versions may be left.
deleteOldPolicyVersions ==
    /\ pc = "prune"
    /\ pc' = "retry"
    /\ versions' = [versions EXCEPT ![current] = 1]
    /\ UNCHANGED <<policies, doc, attached, phase, config, mode, target, listed, mem, visit, write,
                   current, errs, attach, detach, changes, faults>>

deleteSomePolicyVersions ==
    /\ pc = "prune"
    /\ Fault
    /\ pc' = "retry"
    /\ \E k \in 2..versions[current] : versions' = [versions EXCEPT ![current] = k]
    /\ UNCHANGED <<policies, doc, attached, phase, config, mode, target, listed, mem, visit, write,
                   current, errs, attach, detach, changes>>

\* The second attempt; another LimitExceeded is an error like any other.
RetryPolicyVersion ==
    /\ pc = "retry"
    /\ IF versions[current] < MaxVersions
       THEN newVersion(current) /\ UNCHANGED errs
       ELSE errs' = TRUE /\ UNCHANGED awsVars
    /\ pc' = "write" /\ write' = write \ {current} /\ current' = NoPolicy
    /\ UNCHANGED <<phase, config, mode, target, listed, mem, visit, attach, detach, changes, faults>>

\* A write of policy p fails, or its answer is lost; updatePolicies notes it and goes on.
WriteFails(p) ==
    /\ \/ pc = "write" /\ p \in write
       \/ pc = "retry" /\ p = current
    /\ Fault
    /\ \/ UNCHANGED awsVars
       \/ versions[p] < MaxVersions /\ newVersion(p)
    /\ errs' = TRUE
    /\ pc' = "write" /\ write' = write \ {p} /\ current' = NoPolicy
    /\ UNCHANGED <<phase, config, mode, target, listed, mem, visit, attach, detach, changes>>

\* An error that is not one of AWS ends deleteOldPolicyVersions half way.
PruneFails ==
    /\ pc = "prune"
    /\ Fault
    /\ \E k \in 1..versions[current] : versions' = [versions EXCEPT ![current] = k]
    /\ errs' = TRUE
    /\ pc' = "write" /\ write' = write \ {current} /\ current' = NoPolicy
    /\ UNCHANGED <<policies, doc, attached, phase, config, mode, target, listed, mem, visit,
                   attach, detach, changes>>

\* Mutant: the errors of updatePolicies are dropped.
writeErrsDropped ==
    /\ pc = "write" /\ write = {}
    /\ pc' = "visit" /\ errs' = FALSE
    /\ UNCHANGED <<awsVars, phase, config, mode, target, listed, mem, visit, write, current,
                   attach, detach, changes, faults>>

\* All written: on to the next policy, or out with the errors.
WritesDone ==
    /\ pc = "write" /\ write = {}
    /\ IF errs
       THEN Idle
       ELSE /\ pc' = "visit"
            /\ UNCHANGED <<mode, target, listed, mem, visit, write, current, errs, attach, detach>>
    /\ UNCHANGED <<awsVars, phase, config, changes, faults>>

-----------------------------------------------------------------------------
(* A new policy, and attaching.                                            *)

\* The number of a new policy is the number of policies listed.  A policy of that
\* name may exist: CreatePolicy then fails.
newPolicy == Cardinality(listed)

\* The new policy holds the user; it is then attached.
CreatePolicy ==
    /\ pc = "create" /\ newPolicy \in PolicyIds
    /\ IF newPolicy \in policies
       THEN Idle /\ UNCHANGED awsVars
       ELSE /\ policies' = policies \cup {newPolicy}
            /\ doc' = [doc EXCEPT ![newPolicy] = Add({}, target, config)]
            /\ versions' = [versions EXCEPT ![newPolicy] = 1]
            /\ attach' = LoginRoles \X {newPolicy}
            /\ pc' = "attachNew"
            /\ UNCHANGED <<attached, mode, target, listed, mem, visit, write, current, errs, detach>>
    /\ UNCHANGED <<phase, config, changes, faults>>

\* AttachPolicy; a policy that is attached is left alone.
AttachPolicy(r, p) ==
    /\ pc \in {"attachNew", "attach"} /\ <<r, p>> \in attach
    /\ attached' = [attached EXCEPT ![p] = @ \cup {r}]
    /\ attach' = attach \ {<<r, p>>}
    /\ UNCHANGED <<policies, doc, versions, phase, config, pc, mode, target, listed, mem, visit,
                   write, current, errs, detach, changes, faults>>

\* After the new policy, all of them, listed afresh.
AttachAll ==
    /\ pc = "attachNew" /\ attach = {}
    /\ pc' = "attach" /\ attach' = LoginRoles \X policies
    /\ UNCHANGED <<awsVars, phase, config, mode, target, listed, mem, visit, write, current, errs,
                   detach, changes, faults>>

AttachDone ==
    /\ pc = "attach" /\ attach = {}
    /\ pc' = "ensured"
    /\ UNCHANGED <<awsVars, phase, config, mode, target, listed, mem, visit, write, current, errs,
                   attach, detach, changes, faults>>

-----------------------------------------------------------------------------
(* DeleteAndDetachPolicy.                                                  *)

\* DetachRolePolicy fails with NoSuchEntity when the policy is not attached.
DetachRolePolicy(r) ==
    /\ pc = "detach" /\ r \in detach
    /\ IF r \in attached[current]
       THEN /\ attached' = [attached EXCEPT ![current] = @ \ {r}]
            /\ detach' = detach \ {r}
            /\ UNCHANGED <<pc, mode, target, listed, mem, visit, write, current, errs, attach>>
       ELSE Idle /\ UNCHANGED attached
    /\ UNCHANGED <<policies, doc, versions, phase, config, changes, faults>>

DetachDone ==
    /\ pc = "detach" /\ detach = {}
    /\ pc' = "delete"
    /\ UNCHANGED <<awsVars, phase, config, mode, target, listed, mem, visit, write, current, errs,
                   attach, detach, changes, faults>>

\* DeletePolicy fails with DeleteConflict while AWS keeps more than one version.
DeletePolicy ==
    /\ pc = "delete"
    /\ IF versions[current] = 1 /\ attached[current] = {}
       THEN /\ policies' = policies \ {current}
            /\ doc' = [doc EXCEPT ![current] = {}]
            /\ versions' = [versions EXCEPT ![current] = 0]
            /\ pc' = "visit" /\ current' = NoPolicy
            /\ UNCHANGED <<attached, mode, target, listed, mem, visit, write, errs, attach, detach>>
       ELSE Idle /\ UNCHANGED awsVars
    /\ UNCHANGED <<phase, config, changes, faults>>

-----------------------------------------------------------------------------
(* The end of a call.                                                      *)

\* Any other call to AWS fails, and with it EnsureUser or RemoveUser.
CallFails ==
    /\ pc \in {"create", "attachNew", "attach", "detach", "delete"}
    /\ Fault
    /\ Idle
    /\ UNCHANGED <<awsVars, phase, config, changes>>

\* EnsureUser returns without error.
Ensured ==
    /\ pc = "ensured"
    /\ Idle
    /\ UNCHANGED <<awsVars, phase, config, changes, faults>>

\* RemoveUser returns without error, and the resource goes away.
Removed ==
    /\ pc = "removed"
    /\ phase' = [phase EXCEPT ![target] = "absent"]
    /\ Idle
    /\ UNCHANGED <<awsVars, config, changes, faults>>

\* The process ends in the middle of a call and is started again, perhaps with
\* another configuration.
Restart(c) ==
    /\ pc # "idle"
    /\ Fault
    /\ config' = c
    /\ Idle
    /\ UNCHANGED <<awsVars, phase, changes>>

Change == changes < MaxChanges /\ changes' = changes + 1

CreateUser(u) ==
    /\ phase[u] = "absent"
    /\ Change
    /\ phase' = [phase EXCEPT ![u] = "live"]
    /\ UNCHANGED <<awsVars, callVars, config, faults>>

DeleteUser(u) ==
    /\ phase[u] = "live"
    /\ Change
    /\ phase' = [phase EXCEPT ![u] = "deleting"]
    /\ UNCHANGED <<awsVars, callVars, config, faults>>

-----------------------------------------------------------------------------
Controller ==
    \/ \E u \in Users : EnsureKnownUser(u) \/ EnsureNewUser(u) \/ RemoveUser(u)
    \/ \E p \in PolicyIds : VisitUpdate(p) \/ VisitAdd(p) \/ VisitRemove(p)
    \/ VisitsDone
    \/ \E p \in PolicyIds : CreatePolicyVersion(p)
    \/ deleteOldPolicyVersions \/ RetryPolicyVersion \/ WritesDone
    \/ CreatePolicy
    \/ \E r \in LoginRoles, p \in PolicyIds : AttachPolicy(r, p)
    \/ AttachAll \/ AttachDone
    \/ \E r \in LoginRoles : DetachRolePolicy(r)
    \/ DetachDone \/ DeletePolicy
    \/ Ensured \/ Removed

Faults ==
    \/ \E p \in PolicyIds : WriteFails(p)
    \/ PruneFails \/ deleteSomePolicyVersions \/ CallFails
    \/ \E c \in Configs : Restart(c)

Environment == \E u \in Users : CreateUser(u) \/ DeleteUser(u)

Next == Controller \/ Faults \/ Environment

Spec == Init /\ [][Next]_vars

\* A call goes on until it returns, and the controller's work queue serves every
\* user that is to be ensured or removed.
Fairness ==
    /\ WF_vars(Controller)
    /\ \A u \in Users : SF_vars(EnsureKnownUser(u) \/ EnsureNewUser(u)) /\ SF_vars(RemoveUser(u))

FairSpec == Spec /\ Fairness

-----------------------------------------------------------------------------
(* What EnsureUser and RemoveUser promise.                                 *)

members == {u \in Users : \E p \in policies : Exists(doc[p], u)}

\* When EnsureUser returns without error the user is in a policy, all its
\* statements name the role of the running process's configuration, and every
\* policy is attached to every login role.
EnsuredMeansAccess ==
    pc = "ensured" =>
        /\ target \in members
        /\ \A p \in policies : \A s \in doc[p] : s.user = target => s.config = config
        /\ \A p \in policies : attached[p] = LoginRoles

\* When RemoveUser returns without error the user is in no policy, also when
\* EnsureUser had put it in several.
RemovedMeansGone == pc = "removed" => target \notin members

\* A policy never holds more users than MaxUsersPerPolicy, whatever fails.
CapacityRespected == \A p \in policies : Count(doc[p]) <= MaxUsersPerPolicy

\* No policy is left without a statement: RemoveUser deletes it instead.
NoEmptyPolicy == \A p \in policies : doc[p] # {}

\* A call writes whole documents that it read at its beginning.  It changes no
\* statement of a user other than the one it is made for.
OthersUntouched ==
    [][\A p \in PolicyIds : \A s \in Statements :
         s.user # target => (s \in doc[p] <=> s \in doc'[p])]_vars

\* The user may log in: it is in a policy attached to every login role.
hasAccess(u) == \E p \in policies : Exists(doc[p], u) /\ attached[p] = LoginRoles

\* A user that may log in may do so until its resource is deleted: neither the
\* removal of another user nor a failing or interrupted call takes it away.
AccessKept ==
    [][\A u \in Users : (phase[u] = "live" /\ hasAccess(u)) => hasAccess(u)']_vars

\* The calls seen as operations on a set of users (see IamDirectory).
operation == IF mode \in {"add", "update"} THEN "ensure" ELSE mode
returned == pc \in {"ensured", "removed"}

Directory ==
    INSTANCE IamDirectory WITH Nobody <- NoUser, user <- target, op <- operation, done <- returned

\* EnsureUser and RemoveUser, made of many calls to AWS any of which may fail,
\* implement an atomic insertion and an atomic removal.
ImplementsDirectory == Directory!Spec

\* A user whose resource exists gets its access: EnsureUser is repeated until it
\* succeeds ("User could not be handled in an existing policy so we create a new
\* one instead").
EnsureCompletes == \A u \in Users : phase[u] = "live" ~> (phase[u] # "live" \/ hasAccess(u))

-----------------------------------------------------------------------------
(* The parts of the inductive invariant behind the properties above.       *)

writing == {"write", "prune", "retry"}
deleting == {"detach", "delete"}
attaching == {"attachNew", "attach", "ensured"}

\* What is in AWS between and during calls.
AwsInv ==
    /\ \A p \in PolicyIds \ policies : doc[p] = {}
    /\ \A p \in policies : doc[p] # {}
    /\ \A p \in PolicyIds : IsFiniteSet(doc[p])

\* Where a call can be, and for whom.
ModeInv ==
    /\ (mode = "none") <=> (pc = "idle")
    /\ mode # "none" => target \in Users
    /\ pc \in attaching \cup {"create"} => mode \in {"add", "update"}
    /\ pc \in deleting \cup {"removed"} => mode = "remove"
    /\ mode = "remove" => phase[target] = "deleting"
    /\ pc \in {"prune", "retry"} => current \in write
    /\ errs => pc \in writing
    /\ pc \notin writing => write = {}
    /\ pc \notin writing \cup deleting \cup {"visit"} => visit = {}

\* The policies a call works on are the ones that exist, but for the one it makes.
ListInv ==
    /\ write \subseteq listed \cap policies
    /\ visit \subseteq listed \cap policies
    /\ mode # "none" /\ pc \notin attaching => policies \subseteq listed
    /\ mode \in {"add", "update"} /\ pc \notin attaching => listed = policies
    /\ pc \in deleting => current \in (listed \cap policies) \ visit /\ mem[current] = {}

\* The documents in memory are those of AWS for everybody but the user.
FreshInv ==
    mode # "none" =>
        \A p \in listed :
            /\ \A s \in Statements : s.user # target => (s \in mem[p] <=> s \in doc[p])
            /\ mode # "remove" => (Exists(doc[p], target) => Exists(mem[p], target))
            /\ mode = "remove" => (Exists(mem[p], target) => Exists(doc[p], target))
            /\ IsFiniteSet(mem[p])

\* No empty document is ever written.
FilledInv ==
    mode # "none" => \A p \in listed \cap policies : mem[p] = {} => pc \in deleting /\ p = current

\* What has been written is in AWS, unless a write has failed.
WrittenInv ==
    mode # "none" /\ ~errs =>
        \A p \in listed \ write : (pc \in deleting /\ p = current) \/ doc[p] = mem[p]

\* The policies that were looked at are as they should be for the user.
SettledInv ==
    mode # "none" =>
        /\ \A p \in listed \ visit : \A s \in mem[p] :
             s.user = target => mode # "remove" /\ s.config = config
        /\ mode = "add" => \A p \in visit : ~Exists(mem[p], target)

\* The end of a call, from the last loop to its success.
OutcomeInv ==
    /\ pc = "create" => ~userHandled
    /\ pc \in attaching =>
         /\ target \in members
         /\ \A p \in policies : \A s \in doc[p] : s.user = target => s.config = config
    /\ pc = "attach" => \A p \in policies, r \in LoginRoles : r \in attached[p] \/ <<r, p>> \in attach
    /\ pc = "ensured" => \A p \in policies : attached[p] = LoginRoles
    /\ pc = "removed" => target \notin members

\* A document in memory has room for what is in it, and for the user where it is to go.
CapacityInv ==
    /\ CapacityRespected
    /\ mode # "none" => \A p \in listed : Count(mem[p]) <= MaxUsersPerPolicy
    /\ mode = "add" => \A p \in visit : Count(mem[p]) < MaxUsersPerPolicy

IamInv ==
    /\ TypeOK /\ AwsInv /\ ModeInv /\ ListInv /\ FreshInv /\ FilledInv /\ WrittenInv
    /\ SettledInv /\ OutcomeInv
=============================================================================

------------------------- MODULE IamPoliciesProofs -------------------------
(* Theorems about IamPolicies, for all values of its constants. *)
EXTENDS IamPolicies, FiniteSetTheorems, TLAPS

-----------------------------------------------------------------------------
(* The policy document.                                                    *)

\* Exists finds a statement of the user.
LEMMA ExistsIff == \A d \in Documents, u \in Users : Exists(d, u) <=> \E s \in d : s.user = u
BY DEF Exists, ListUsers

\* Add leaves the others' statements alone and gives the user one.
LEMMA AddFacts ==
    ASSUME NEW d \in Documents, NEW u \in Users, NEW c \in Configs
    PROVE  /\ Add(d, u, c) \in Documents
           /\ IsFiniteSet(d) => IsFiniteSet(Add(d, u, c))
           /\ \A s \in Statements : s.user # u => (s \in Add(d, u, c) <=> s \in d)
           /\ Exists(Add(d, u, c), u)
           /\ Add(d, u, c) # {}
           /\ \A s \in Add(d, u, c) : s.user = u => s.config = c \/ s \in d
<1> DEFINE new == [user |-> u, config |-> c]
<1>1. new \in Statements /\ new.user = u /\ new.config = c
  BY DEF Statements
<1>2. Add(d, u, c) = d \cup {new}
  BY DEF Add
<1>3. Add(d, u, c) \in Documents
  BY <1>1, <1>2 DEF Documents
<1>4. IsFiniteSet(d) => IsFiniteSet(Add(d, u, c))
  BY <1>2, FS_AddElement
<1>5. Exists(Add(d, u, c), u)
  BY <1>1, <1>2, <1>3, ExistsIff
<1>6. QED BY <1>1, <1>2, <1>3, <1>4, <1>5

\* Remove leaves the others' statements alone and takes the user's out.
LEMMA RemoveFacts ==
    ASSUME NEW d \in Documents, NEW u \in Users
    PROVE  /\ Remove(d, u) \in Documents
           /\ IsFiniteSet(d) => IsFiniteSet(Remove(d, u))
           /\ \A s \in Statements : s.user # u => (s \in Remove(d, u) <=> s \in d)
           /\ ~Exists(Remove(d, u), u)
           /\ \A s \in Remove(d, u) : s.user # u
<1>1. Remove(d, u) \in SUBSET d
  BY DEF Remove
<1>2. Remove(d, u) \in Documents
  BY <1>1 DEF Documents
<1>3. IsFiniteSet(d) => IsFiniteSet(Remove(d, u))
  BY <1>1, FS_Subset
<1>4. ~Exists(Remove(d, u), u)
  BY <1>2, ExistsIff DEF Remove
<1>5. QED BY <1>2, <1>3, <1>4 DEF Remove

\* Update leaves the others' statements alone and keeps the user's, under the
\* configuration given.
LEMMA UpdateFacts ==
    ASSUME NEW d \in Documents, NEW u \in Users, NEW c \in Configs
    PROVE  /\ Update(d, u, c) \in Documents
           /\ IsFiniteSet(d) => IsFiniteSet(Update(d, u, c))
           /\ \A s \in Statements : s.user # u => (s \in Update(d, u, c) <=> s \in d)
           /\ Exists(d, u) <=> Exists(Update(d, u, c), u)
           /\ \A s \in Update(d, u, c) : s.user = u => s.config = c
           /\ d # {} => Update(d, u, c) # {}
<1> DEFINE f(s) == [s EXCEPT !.config = IF s.user = u THEN c ELSE @]
           new == [user |-> u, config |-> c]
<1>1. \A s \in Statements : f(s) = IF s.user = u THEN new ELSE s
  BY DEF Statements
<1>2. new \in Statements /\ new.user = u /\ new.config = c
  BY DEF Statements
<1>3. Update(d, u, c) = {f(s) : s \in d}
  BY DEF Update
<1> HIDE DEF f, new
<1>4. \A s \in d : s \in Statements
  BY DEF Documents
<1>5. Update(d, u, c) \in SUBSET (d \cup {new})
  BY <1>1, <1>3, <1>4
<1>6. Update(d, u, c) \in Documents
  BY <1>2, <1>4, <1>5 DEF Documents
<1>7. IsFiniteSet(d) => IsFiniteSet(Update(d, u, c))
  BY <1>5, FS_AddElement, FS_Subset
<1>8. \A s \in Statements : s.user # u => (s \in Update(d, u, c) <=> s \in d)
  BY <1>1, <1>2, <1>3, <1>4
<1>9. \A s \in Update(d, u, c) : s.user = u => s.config = c
  BY <1>1, <1>2, <1>3, <1>4
<1>10. Exists(d, u) <=> Exists(Update(d, u, c), u)
  BY <1>1, <1>2, <1>3, <1>4, <1>6, ExistsIff
<1>11. d # {} => Update(d, u, c) # {}
  BY <1>3
<1>12. QED BY <1>6, <1>7, <1>8, <1>9, <1>10, <1>11

\* A document that counts no statement is empty.
LEMMA CountZero == \A d : IsFiniteSet(d) => (Count(d) = 0 <=> d = {})
BY FS_EmptySet DEF Count

-----------------------------------------------------------------------------
(* Type correctness.                                                       *)

\* The initial states satisfy every part of the invariant.
LEMMA IamInit == Init => IamInv
<1> SUFFICES ASSUME Init PROVE IamInv
  OBVIOUS
<1>a. noDocs \in [PolicyIds -> Documents]
  BY DEF noDocs, Documents
<1>b. /\ versions \in [PolicyIds -> 0..MaxVersions] /\ attached \in [PolicyIds -> SUBSET LoginRoles]
      /\ policies \subseteq PolicyIds /\ \A p \in policies : versions[p] > 0
  BY IamAssumption DEF Init
<1>c. phase \in [Users -> {"absent", "live", "deleting"}]
  BY DEF Init
<1>d. /\ listed \subseteq PolicyIds /\ visit \subseteq PolicyIds /\ write \subseteq PolicyIds
      /\ attach \subseteq LoginRoles \X PolicyIds /\ detach \subseteq LoginRoles
  BY DEF Init
<1>e. changes \in 0..MaxChanges /\ faults \in 0..MaxFaults
  BY IamAssumption DEF Init
<1>1. TypeOK
  BY <1>a, <1>b, <1>c, <1>d, <1>e DEF Init, TypeOK, PCs
<1> USE DEF Init, noDocs
<1>2. AwsInv
  BY FS_EmptySet DEF AwsInv
<1>3. ModeInv /\ ListInv
  BY DEF ModeInv, ListInv, writing, deleting, attaching
<1>4. FreshInv /\ FilledInv /\ WrittenInv /\ SettledInv
  BY DEF FreshInv, FilledInv, WrittenInv, SettledInv
<1>5. OutcomeInv
  BY DEF OutcomeInv, attaching
<1>6. QED BY <1>1, <1>2, <1>3, <1>4, <1>5 DEF IamInv

\* A call that is over leaves its variables well typed.
LEMMA IdleType ==
    Idle =>
        /\ pc' \in PCs /\ mode' \in {"none", "update", "add", "remove"}
        /\ target' \in Users \cup {NoUser}
        /\ listed' \subseteq PolicyIds /\ mem' \in [PolicyIds -> Documents]
        /\ visit' \subseteq PolicyIds /\ write' \subseteq PolicyIds
        /\ current' \in PolicyIds \cup {NoPolicy}
        /\ errs' \in BOOLEAN
        /\ attach' \subseteq LoginRoles \X PolicyIds /\ detach' \subseteq LoginRoles
BY DEF Idle, PCs, Documents, noDocs

\* Every step keeps the types.
LEMMA TypeNext == IamInv /\ [Next]_vars => TypeOK'
<1> SUFFICES ASSUME IamInv, [Next]_vars PROVE TypeOK'
  OBVIOUS
<1> USE IamAssumption DEF TypeOK, vars, awsVars, callVars
<1>0. TypeOK /\ ModeInv /\ ListInv
  BY DEF IamInv
<1> USE <1>0
<1>a. \A u \in Users, how \in {"update", "add", "remove"}, which \in SUBSET PolicyIds :
        Call(u, how, which) => TypeOK'
  BY DEF Call, PCs
<1>1. ASSUME NEW u \in Users, EnsureKnownUser(u) \/ EnsureNewUser(u) \/ RemoveUser(u) PROVE TypeOK'
  <2>1. withUser(u) \in SUBSET PolicyIds /\ withRoom \in SUBSET PolicyIds
    BY DEF withUser, withRoom
  <2>2. QED BY <1>1, <1>a, <2>1 DEF EnsureKnownUser, EnsureNewUser, RemoveUser
<1>2. ASSUME NEW p \in PolicyIds, VisitUpdate(p) \/ VisitAdd(p) \/ VisitRemove(p) PROVE TypeOK'
  <2>1. mem[p] \in Documents /\ target \in Users /\ config \in Configs
    BY <1>2 DEF ModeInv, VisitUpdate, VisitAdd, VisitRemove
  <2>2. /\ Update(mem[p], target, config) \in Documents /\ Add(mem[p], target, config) \in Documents
        /\ Remove(mem[p], target) \in Documents
    BY <2>1, UpdateFacts, AddFacts, RemoveFacts
  <2>3. CASE VisitUpdate(p)
    BY <2>2, <2>3 DEF VisitUpdate, PCs
  <2>4. CASE VisitAdd(p)
    BY <2>2, <2>4 DEF VisitAdd, PCs
  <2>5. CASE VisitRemove(p)
    BY <2>2, <2>5 DEF VisitRemove, PCs
  <2>6. QED BY <1>2, <2>3, <2>4, <2>5
<1>3. CASE VisitsDone
  BY <1>3 DEF VisitsDone, PCs
<1>b. \A p \in policies : newVersion(p) /\ versions[p] < MaxVersions =>
        /\ policies' \subseteq PolicyIds /\ doc' \in [PolicyIds -> Documents]
        /\ versions' \in [PolicyIds -> 0..MaxVersions] /\ \A q \in policies' : versions'[q] > 0
        /\ attached' \in [PolicyIds -> SUBSET LoginRoles]
  BY DEF newVersion
<1>4. ASSUME NEW p \in PolicyIds, CreatePolicyVersion(p) PROVE TypeOK'
  BY <1>4, <1>b DEF CreatePolicyVersion, PCs, ListInv
<1>c. pc \in {"prune", "retry"} => current \in policies /\ current \in PolicyIds
  BY DEF ModeInv, ListInv
<1>5. CASE deleteOldPolicyVersions
  BY <1>5, <1>c DEF deleteOldPolicyVersions, PCs
<1>6. CASE deleteSomePolicyVersions
  BY <1>6, <1>c DEF deleteSomePolicyVersions, Fault, PCs
<1>7. CASE RetryPolicyVersion
  BY <1>7, <1>b, <1>c DEF RetryPolicyVersion, PCs
<1>8. ASSUME NEW p \in PolicyIds, WriteFails(p) PROVE TypeOK'
  BY <1>8, <1>b, <1>c DEF WriteFails, Fault, PCs, ListInv
<1>9. CASE PruneFails
  BY <1>9, <1>c DEF PruneFails, Fault, PCs
<1>10. CASE WritesDone
  BY <1>10, IdleType DEF WritesDone, PCs
<1>11. CASE CreatePolicy
  <2>1. Add({}, target, config) \in Documents
    BY <1>11, AddFacts DEF CreatePolicy, ModeInv, Documents
  <2>2. QED BY <1>11, <2>1, IdleType DEF CreatePolicy, PCs
<1>12. ASSUME NEW r \in LoginRoles, NEW p \in PolicyIds, AttachPolicy(r, p) PROVE TypeOK'
  BY <1>12 DEF AttachPolicy
<1>13. CASE AttachAll \/ AttachDone
  BY <1>13 DEF AttachAll, AttachDone, PCs
<1>d. pc \in deleting => current \in policies /\ current \in PolicyIds
  BY DEF ListInv
<1>14. ASSUME NEW r \in LoginRoles, DetachRolePolicy(r) PROVE TypeOK'
  BY <1>14, <1>d, IdleType DEF DetachRolePolicy, deleting
<1>15. CASE DetachDone
  BY <1>15 DEF DetachDone, PCs
<1>16. CASE DeletePolicy
  BY <1>16, <1>d, IdleType DEF DeletePolicy, PCs, deleting, Documents
<1>17. CASE CallFails \/ Ensured \/ Removed \/ \E c \in Configs : Restart(c)
  BY <1>17, IdleType DEF CallFails, Ensured, Removed, Restart, Fault
<1>18. ASSUME NEW u \in Users, CreateUser(u) \/ DeleteUser(u) PROVE TypeOK'
  BY <1>18 DEF CreateUser, DeleteUser, Change
<1>19. CASE UNCHANGED vars
  BY <1>19
<1>20. QED
  BY <1>1, <1>2, <1>3, <1>4, <1>5, <1>6, <1>7, <1>8, <1>9, <1>10, <1>11, <1>12, <1>13, <1>14,
     <1>15, <1>16, <1>17, <1>18, <1>19 DEF Next, Controller, Faults, Environment

-----------------------------------------------------------------------------
(* The steps, by the part of the call they belong to.                      *)

BeginStep == \E u \in Users : EnsureKnownUser(u) \/ EnsureNewUser(u) \/ RemoveUser(u)
VisitStep == \E p \in PolicyIds : VisitUpdate(p) \/ VisitAdd(p) \/ VisitRemove(p)
WriteStep == RetryPolicyVersion \/ \E p \in PolicyIds : CreatePolicyVersion(p) \/ WriteFails(p)
PruneStep == deleteOldPolicyVersions \/ deleteSomePolicyVersions \/ PruneFails
AttachStep == AttachAll \/ AttachDone \/ \E r \in LoginRoles, p \in PolicyIds : AttachPolicy(r, p)
DetachStep == DetachDone \/ \E r \in LoginRoles : DetachRolePolicy(r)
OverStep == CallFails \/ Ensured \/ Removed \/ \E c \in Configs : Restart(c)
OutsideStep == UNCHANGED vars \/ \E u \in Users : CreateUser(u) \/ DeleteUser(u)

\* These are all the steps there are.
LEMMA StepCases ==
    [Next]_vars =>
        \/ BeginStep \/ VisitStep \/ VisitsDone \/ WriteStep \/ PruneStep \/ WritesDone
        \/ CreatePolicy \/ AttachStep \/ DetachStep \/ DeletePolicy \/ OverStep \/ OutsideStep
BY DEF Next, Controller, Faults, Environment, BeginStep, VisitStep, WriteStep, PruneStep,
   AttachStep, DetachStep, OverStep, OutsideStep

-----------------------------------------------------------------------------
(* Each part of the invariant is kept by every step.                       *)

\* No step leaves an empty policy, or a document without its policy.
LEMMA AwsNext == ASSUME IamInv, TypeOK', [Next]_vars PROVE AwsInv'
<1> USE IamAssumption DEF IamInv, TypeOK, awsVars, writing, deleting, attaching, Documents,
      AwsInv, ModeInv, ListInv, FreshInv, FilledInv
<1>1. CASE BeginStep
  BY <1>1, ExistsIff DEF BeginStep, EnsureKnownUser, EnsureNewUser, RemoveUser, Call, withUser,
    withRoom
<1>2. CASE VisitStep
  BY <1>2, AddFacts, RemoveFacts, UpdateFacts, CountZero, ExistsIff DEF VisitStep, VisitUpdate,
    VisitAdd, VisitRemove
<1>3. CASE VisitsDone
  BY <1>3, ExistsIff DEF VisitsDone
<1>4. CASE WriteStep
  BY <1>4 DEF WriteStep, RetryPolicyVersion, CreatePolicyVersion, WriteFails, newVersion
<1>5. CASE PruneStep
  BY <1>5 DEF PruneStep, deleteOldPolicyVersions, deleteSomePolicyVersions, PruneFails
<1>6. CASE WritesDone
  BY <1>6 DEF WritesDone, Idle
<1>7. CASE CreatePolicy
  BY <1>7, AddFacts, FS_EmptySet, ExistsIff DEF CreatePolicy, Idle
<1>8. CASE AttachStep
  BY <1>8 DEF AttachStep, AttachAll, AttachDone, AttachPolicy
<1>9. CASE DetachStep
  BY <1>9 DEF DetachStep, DetachDone, DetachRolePolicy, Idle
<1>10. CASE DeletePolicy
  <2>1. CASE versions[current] = 1 /\ attached[current] = {}
    <3>1. /\ policies' = policies \ {current} /\ doc' = [doc EXCEPT ![current] = {}]
          /\ current \in policies
      BY <1>10, <2>1 DEF DeletePolicy, ListInv
    <3>2. QED BY <3>1, FS_EmptySet
  <2>2. CASE ~(versions[current] = 1 /\ attached[current] = {})
    BY <1>10, <2>2 DEF DeletePolicy
  <2>3. QED BY <2>1, <2>2
<1>11. CASE OverStep
  BY <1>11 DEF OverStep, CallFails, Ensured, Removed, Restart, Idle
<1>12. CASE OutsideStep
  BY <1>12 DEF OutsideStep, CreateUser, DeleteUser, vars, callVars
<1>13. QED BY StepCases, <1>1, <1>2, <1>3, <1>4, <1>5, <1>6, <1>7, <1>8, <1>9, <1>10, <1>11, <1>12

\* A call stays in step with what it was made for.
LEMMA ModeNext == ASSUME IamInv, TypeOK', [Next]_vars PROVE ModeInv'
<1> USE IamAssumption DEF IamInv, TypeOK, awsVars, writing, deleting, attaching, Documents,
      ModeInv, ListInv
<1>1. CASE BeginStep
  BY <1>1, ExistsIff DEF BeginStep, EnsureKnownUser, EnsureNewUser, RemoveUser, Call, withUser,
    withRoom
<1>2. CASE VisitStep
  BY <1>2, AddFacts, RemoveFacts, UpdateFacts, CountZero, ExistsIff DEF VisitStep, VisitUpdate,
    VisitAdd, VisitRemove
<1>3. CASE VisitsDone
  BY <1>3, ExistsIff DEF VisitsDone
<1>4. CASE WriteStep
  BY <1>4 DEF WriteStep, RetryPolicyVersion, CreatePolicyVersion, WriteFails, newVersion
<1>5. CASE PruneStep
  BY <1>5 DEF PruneStep, deleteOldPolicyVersions, deleteSomePolicyVersions, PruneFails
<1>6. CASE WritesDone
  BY <1>6 DEF WritesDone, Idle
<1>7. CASE CreatePolicy
  BY <1>7, AddFacts, FS_EmptySet, ExistsIff DEF CreatePolicy, Idle
<1>8. CASE AttachStep
  BY <1>8 DEF AttachStep, AttachAll, AttachDone, AttachPolicy
<1>9. CASE DetachStep
  BY <1>9 DEF DetachStep, DetachDone, DetachRolePolicy, Idle
<1>10. CASE DeletePolicy
  BY <1>10, FS_EmptySet, ExistsIff DEF DeletePolicy, Idle
<1>11. CASE OverStep
  BY <1>11 DEF OverStep, CallFails, Ensured, Removed, Restart, Idle
<1>12. CASE OutsideStep
  BY <1>12 DEF OutsideStep, CreateUser, DeleteUser, vars, callVars
<1>13. QED BY StepCases, <1>1, <1>2, <1>3, <1>4, <1>5, <1>6, <1>7, <1>8, <1>9, <1>10, <1>11, <1>12

\* The policies a call still has to look at or to write exist.
LEMMA ListNext == ASSUME IamInv, TypeOK', [Next]_vars PROVE ListInv'
<1> USE IamAssumption DEF IamInv, TypeOK, awsVars, writing, deleting, attaching, Documents,
      ModeInv, ListInv, FreshInv
<1>1. CASE BeginStep
  BY <1>1, ExistsIff DEF BeginStep, EnsureKnownUser, EnsureNewUser, RemoveUser, Call, withUser,
    withRoom
<1>2. CASE VisitStep
  BY <1>2, AddFacts, RemoveFacts, UpdateFacts, CountZero, ExistsIff DEF VisitStep, VisitUpdate,
    VisitAdd, VisitRemove
<1>3. CASE VisitsDone
  BY <1>3, ExistsIff DEF VisitsDone
<1>4. CASE WriteStep
  BY <1>4 DEF WriteStep, RetryPolicyVersion, CreatePolicyVersion, WriteFails, newVersion
<1>5. CASE PruneStep
  BY <1>5 DEF PruneStep, deleteOldPolicyVersions, deleteSomePolicyVersions, PruneFails
<1>6. CASE WritesDone
  BY <1>6 DEF WritesDone, Idle
<1>7. CASE CreatePolicy
  BY <1>7, AddFacts, FS_EmptySet, ExistsIff DEF CreatePolicy, Idle
<1>8. CASE AttachStep
  BY <1>8 DEF AttachStep, AttachAll, AttachDone, AttachPolicy
<1>9. CASE DetachStep
  BY <1>9 DEF DetachStep, DetachDone, DetachRolePolicy, Idle
<1>10. CASE DeletePolicy
  BY <1>10, FS_EmptySet, ExistsIff DEF DeletePolicy, Idle
<1>11. CASE OverStep
  BY <1>11 DEF OverStep, CallFails, Ensured, Removed, Restart, Idle
<1>12. CASE OutsideStep
  BY <1>12 DEF OutsideStep, CreateUser, DeleteUser, vars, callVars
<1>13. QED BY StepCases, <1>1, <1>2, <1>3, <1>4, <1>5, <1>6, <1>7, <1>8, <1>9, <1>10, <1>11, <1>12

\* Nobody else changes a document between its listing and its writing.
LEMMA FreshNext == ASSUME IamInv, TypeOK', [Next]_vars PROVE FreshInv'
<1> USE IamAssumption DEF IamInv, TypeOK, awsVars, writing, deleting, attaching, Documents,
      ModeInv, ListInv, FreshInv, AwsInv
<1>1. CASE BeginStep
  BY <1>1, ExistsIff DEF BeginStep, EnsureKnownUser, EnsureNewUser, RemoveUser, Call, withUser,
    withRoom
<1>2. CASE VisitStep
  BY <1>2, AddFacts, RemoveFacts, UpdateFacts, CountZero, ExistsIff DEF VisitStep, VisitUpdate,
    VisitAdd, VisitRemove
<1>3. CASE VisitsDone
  BY <1>3, ExistsIff DEF VisitsDone
<1>4. CASE WriteStep
  BY <1>4 DEF WriteStep, RetryPolicyVersion, CreatePolicyVersion, WriteFails, newVersion
<1>5. CASE PruneStep
  BY <1>5 DEF PruneStep, deleteOldPolicyVersions, deleteSomePolicyVersions, PruneFails
<1>6. CASE WritesDone
  BY <1>6 DEF WritesDone, Idle
<1>7. CASE CreatePolicy
  BY <1>7, AddFacts, FS_EmptySet, ExistsIff DEF CreatePolicy, Idle
<1>8. CASE AttachStep
  <2>1. UNCHANGED <<doc, mem, listed, mode, target>>
    BY <1>8 DEF AttachStep, AttachAll, AttachDone, AttachPolicy
  <2>2. QED BY <2>1
<1>9. CASE DetachStep
  BY <1>9 DEF DetachStep, DetachDone, DetachRolePolicy, Idle
<1>10. CASE DeletePolicy
  BY <1>10, FS_EmptySet, ExistsIff DEF DeletePolicy, Idle
<1>11. CASE OverStep
  BY <1>11 DEF OverStep, CallFails, Ensured, Removed, Restart, Idle
<1>12. CASE OutsideStep
  BY <1>12 DEF OutsideStep, CreateUser, DeleteUser, vars, callVars
<1>13. QED BY StepCases, <1>1, <1>2, <1>3, <1>4, <1>5, <1>6, <1>7, <1>8, <1>9, <1>10, <1>11, <1>12

\* A document that becomes empty is the one being deleted.
LEMMA FilledNext == ASSUME IamInv, TypeOK', [Next]_vars PROVE FilledInv'
<1> USE IamAssumption DEF IamInv, TypeOK, awsVars, writing, deleting, attaching, Documents,
      ModeInv, ListInv, AwsInv, FreshInv, FilledInv, WrittenInv
<1>1. CASE BeginStep
  BY <1>1, ExistsIff DEF BeginStep, EnsureKnownUser, EnsureNewUser, RemoveUser, Call, withUser,
    withRoom
<1>2. CASE VisitStep
  <2>1. PICK p \in PolicyIds : VisitUpdate(p) \/ VisitAdd(p) \/ VisitRemove(p)
    BY <1>2 DEF VisitStep
  <2>2. mem[p] \in Documents /\ target \in Users /\ config \in Configs
    BY <2>1 DEF ModeInv, VisitUpdate, VisitAdd, VisitRemove
  <2>3. CASE VisitUpdate(p)
    BY <2>2, <2>3, UpdateFacts DEF VisitUpdate
  <2>4. CASE VisitAdd(p)
    BY <2>2, <2>4, AddFacts DEF VisitAdd
  <2>5. CASE VisitRemove(p)
    <3>1. IsFiniteSet(Remove(mem[p], target))
      BY <2>2, <2>5, RemoveFacts DEF VisitRemove, ListInv, FreshInv
    <3>2. QED BY <2>2, <2>5, <3>1, CountZero DEF VisitRemove
  <2>6. QED BY <2>1, <2>3, <2>4, <2>5
<1>3. CASE VisitsDone
  BY <1>3, ExistsIff DEF VisitsDone
<1>4. CASE WriteStep
  BY <1>4 DEF WriteStep, RetryPolicyVersion, CreatePolicyVersion, WriteFails, newVersion
<1>5. CASE PruneStep
  BY <1>5 DEF PruneStep, deleteOldPolicyVersions, deleteSomePolicyVersions, PruneFails
<1>6. CASE WritesDone
  BY <1>6 DEF WritesDone, Idle
<1>7. CASE CreatePolicy
  BY <1>7, AddFacts, FS_EmptySet, ExistsIff DEF CreatePolicy, Idle
<1>8. CASE AttachStep
  BY <1>8 DEF AttachStep, AttachAll, AttachDone, AttachPolicy
<1>9. CASE DetachStep
  BY <1>9 DEF DetachStep, DetachDone, DetachRolePolicy, Idle
<1>10. CASE DeletePolicy
  BY <1>10, FS_EmptySet, ExistsIff DEF DeletePolicy, Idle
<1>11. CASE OverStep
  BY <1>11 DEF OverStep, CallFails, Ensured, Removed, Restart, Idle
<1>12. CASE OutsideStep
  BY <1>12 DEF OutsideStep, CreateUser, DeleteUser, vars, callVars
<1>13. QED BY StepCases, <1>1, <1>2, <1>3, <1>4, <1>5, <1>6, <1>7, <1>8, <1>9, <1>10, <1>11, <1>12

\* What is written is what is in memory.
LEMMA WrittenNext == ASSUME IamInv, TypeOK', [Next]_vars PROVE WrittenInv'
<1> USE IamAssumption DEF IamInv, TypeOK, awsVars, writing, deleting, attaching, Documents,
      AwsInv, ModeInv, ListInv, WrittenInv
<1>1. CASE BeginStep
  BY <1>1, ExistsIff DEF BeginStep, EnsureKnownUser, EnsureNewUser, RemoveUser, Call, withUser,
    withRoom
<1>2. CASE VisitStep
  BY <1>2, AddFacts, RemoveFacts, UpdateFacts, CountZero, ExistsIff DEF VisitStep, VisitUpdate,
    VisitAdd, VisitRemove
<1>3. CASE VisitsDone
  BY <1>3, ExistsIff DEF VisitsDone
<1>4. CASE WriteStep
  BY <1>4 DEF WriteStep, RetryPolicyVersion, CreatePolicyVersion, WriteFails, newVersion
<1>5. CASE PruneStep
  BY <1>5 DEF PruneStep, deleteOldPolicyVersions, deleteSomePolicyVersions, PruneFails
<1>6. CASE WritesDone
  BY <1>6 DEF WritesDone, Idle
<1>7. CASE CreatePolicy
  BY <1>7, AddFacts, FS_EmptySet, ExistsIff DEF CreatePolicy, Idle
<1>8. CASE AttachStep
  BY <1>8 DEF AttachStep, AttachAll, AttachDone, AttachPolicy
<1>9. CASE DetachStep
  BY <1>9 DEF DetachStep, DetachDone, DetachRolePolicy, Idle
<1>10. CASE DeletePolicy
  <2>1. CASE versions[current] = 1 /\ attached[current] = {}
    <3>1. /\ doc' = [doc EXCEPT ![current] = {}] /\ mem[current] = {} /\ pc' = "visit"
          /\ UNCHANGED <<mem, listed, write, errs, mode>>
      BY <1>10, <2>1 DEF DeletePolicy, ListInv
    <3>2. QED BY <1>10, <3>1 DEF DeletePolicy
  <2>2. CASE ~(versions[current] = 1 /\ attached[current] = {})
    BY <1>10, <2>2 DEF DeletePolicy, Idle
  <2>3. QED BY <2>1, <2>2
<1>11. CASE OverStep
  BY <1>11 DEF OverStep, CallFails, Ensured, Removed, Restart, Idle
<1>12. CASE OutsideStep
  BY <1>12 DEF OutsideStep, CreateUser, DeleteUser, vars, callVars
<1>13. QED BY StepCases, <1>1, <1>2, <1>3, <1>4, <1>5, <1>6, <1>7, <1>8, <1>9, <1>10, <1>11, <1>12

\* A policy that was looked at stays as it should be.
LEMMA SettledNext == ASSUME IamInv, TypeOK', [Next]_vars PROVE SettledInv'
<1> USE IamAssumption DEF IamInv, TypeOK, awsVars, writing, deleting, attaching, Documents,
      ModeInv, ListInv, SettledInv, WrittenInv
<1>1. CASE BeginStep
  BY <1>1, ExistsIff DEF BeginStep, EnsureKnownUser, EnsureNewUser, RemoveUser, Call, withUser,
    withRoom
<1>2. CASE VisitStep
  <2>1. PICK p \in PolicyIds : VisitUpdate(p) \/ VisitAdd(p) \/ VisitRemove(p)
    BY <1>2 DEF VisitStep
  <2>2. mem[p] \in Documents /\ target \in Users /\ config \in Configs
    BY <2>1 DEF VisitUpdate, VisitAdd, VisitRemove
  <2>3. CASE VisitUpdate(p)
    BY <2>2, <2>3, UpdateFacts DEF VisitUpdate
  <2>4. CASE VisitAdd(p)
    <3>1. \A s \in mem[p] : s.user # target
      BY <2>2, <2>4, ExistsIff DEF VisitAdd
    <3>2. QED BY <2>2, <2>4, <3>1, AddFacts DEF VisitAdd
  <2>5. CASE VisitRemove(p)
    BY <2>2, <2>5, RemoveFacts DEF VisitRemove
  <2>6. QED BY <2>1, <2>3, <2>4, <2>5
<1>3. CASE VisitsDone
  BY <1>3, ExistsIff DEF VisitsDone
<1>4. CASE WriteStep
  BY <1>4 DEF WriteStep, RetryPolicyVersion, CreatePolicyVersion, WriteFails, newVersion
<1>5. CASE PruneStep
  BY <1>5 DEF PruneStep, deleteOldPolicyVersions, deleteSomePolicyVersions, PruneFails
<1>6. CASE WritesDone
  BY <1>6 DEF WritesDone, Idle
<1>7. CASE CreatePolicy
  BY <1>7, AddFacts, FS_EmptySet, ExistsIff DEF CreatePolicy, Idle
<1>8. CASE AttachStep
  BY <1>8 DEF AttachStep, AttachAll, AttachDone, AttachPolicy
<1>9. CASE DetachStep
  BY <1>9 DEF DetachStep, DetachDone, DetachRolePolicy, Idle
<1>10. CASE DeletePolicy
  BY <1>10, FS_EmptySet, ExistsIff DEF DeletePolicy, Idle
<1>11. CASE OverStep
  BY <1>11 DEF OverStep, CallFails, Ensured, Removed, Restart, Idle
<1>12. CASE OutsideStep
  BY <1>12 DEF OutsideStep, CreateUser, DeleteUser, vars, callVars
<1>13. QED BY StepCases, <1>1, <1>2, <1>3, <1>4, <1>5, <1>6, <1>7, <1>8, <1>9, <1>10, <1>11, <1>12

\* The end of a call finds what its loops have established.
LEMMA OutcomeNext == ASSUME IamInv, TypeOK', [Next]_vars PROVE OutcomeInv'
<1> USE IamAssumption DEF IamInv, TypeOK, awsVars, writing, deleting, attaching, Documents,
      AwsInv, ModeInv, ListInv, WrittenInv, SettledInv, OutcomeInv, userHandled, members
<1>1. CASE BeginStep
  BY <1>1, ExistsIff DEF BeginStep, EnsureKnownUser, EnsureNewUser, RemoveUser, Call, withUser,
    withRoom
<1>2. CASE VisitStep
  BY <1>2, AddFacts, RemoveFacts, UpdateFacts, CountZero, ExistsIff DEF VisitStep, VisitUpdate,
    VisitAdd, VisitRemove
<1>3. CASE VisitsDone
  BY <1>3, ExistsIff DEF VisitsDone
<1>4. CASE WriteStep
  BY <1>4, ExistsIff DEF WriteStep, RetryPolicyVersion, CreatePolicyVersion, WriteFails,
    newVersion
<1>5. CASE PruneStep
  BY <1>5, ExistsIff DEF PruneStep, deleteOldPolicyVersions, deleteSomePolicyVersions, PruneFails
<1>6. CASE WritesDone
  BY <1>6, ExistsIff DEF WritesDone, Idle
<1>7. CASE CreatePolicy
  BY <1>7, AddFacts, FS_EmptySet, ExistsIff DEF CreatePolicy, Idle
<1>8. CASE AttachStep
  <2>1. CASE AttachAll
    BY <2>1 DEF AttachAll
  <2>2. CASE AttachDone
    <3>1. \A p \in policies : attached[p] = LoginRoles
      <4>1. SUFFICES ASSUME NEW p \in policies PROVE attached[p] = LoginRoles
        OBVIOUS
      <4>2. \A r \in LoginRoles : r \in attached[p]
        BY <2>2 DEF AttachDone
      <4>3. attached[p] \in SUBSET LoginRoles
        OBVIOUS
      <4>4. QED BY <4>2, <4>3
    <3>2. QED BY <2>2, <3>1 DEF AttachDone
  <2>3. ASSUME NEW r \in LoginRoles, NEW p \in PolicyIds, AttachPolicy(r, p) PROVE OutcomeInv'
    <3>1. UNCHANGED <<policies, doc, config, target, pc>> /\ pc \in {"attachNew", "attach"}
      BY <2>3 DEF AttachPolicy
    <3>2. \A q \in policies, x \in LoginRoles :
            x \in attached[q] \/ <<x, q>> \in attach => x \in attached'[q] \/ <<x, q>> \in attach'
      BY <2>3 DEF AttachPolicy
    <3>3. QED BY <3>1, <3>2
  <2>4. QED BY <1>8, <2>1, <2>2, <2>3 DEF AttachStep
<1>9. CASE DetachStep
  BY <1>9, ExistsIff DEF DetachStep, DetachDone, DetachRolePolicy, Idle
<1>10. CASE DeletePolicy
  BY <1>10, FS_EmptySet, ExistsIff DEF DeletePolicy, Idle
<1>11. CASE OverStep
  BY <1>11, ExistsIff DEF OverStep, CallFails, Ensured, Removed, Restart, Idle
<1>12. CASE OutsideStep
  BY <1>12, ExistsIff DEF OutsideStep, CreateUser, DeleteUser, vars, callVars
<1>13. QED BY StepCases, <1>1, <1>2, <1>3, <1>4, <1>5, <1>6, <1>7, <1>8, <1>9, <1>10, <1>11, <1>12

\* IamInv is inductive.
LEMMA IamNext == IamInv /\ [Next]_vars => IamInv'
BY TypeNext, AwsNext, ModeNext, ListNext, FreshNext, FilledNext, WrittenNext, SettledNext,
   OutcomeNext DEF IamInv

\* IamInv holds throughout.
LEMMA IamInvariant == Spec => []IamInv
<1>1. QED BY IamInit, IamNext, PTL DEF Spec

-----------------------------------------------------------------------------
(* What the invariant gives.                                               *)

\* The type invariant holds for any number of users, policies and login roles.
THEOREM IamTypeCorrect == Spec => []TypeOK
BY IamInvariant, PTL DEF IamInv

\* EnsureUser's success means access: the loops, the writes that may fail in
\* part, and the attaching end with the user in a policy, under the current
\* configuration, attached to every login role.
THEOREM EnsuredUserHasAccess == Spec => []EnsuredMeansAccess
<1>1. IamInv => EnsuredMeansAccess
  BY DEF IamInv, OutcomeInv, EnsuredMeansAccess, attaching
<1>2. QED BY <1>1, IamInvariant, PTL

\* RemoveUser's success means the user is in no policy.
THEOREM RemovedUserIsGone == Spec => []RemovedMeansGone
<1>1. IamInv => RemovedMeansGone
  BY DEF IamInv, OutcomeInv, RemovedMeansGone
<1>2. QED BY <1>1, IamInvariant, PTL

\* A policy without statements is never in AWS.
THEOREM PoliciesAreFilled == Spec => []NoEmptyPolicy
<1>1. IamInv => NoEmptyPolicy
  BY DEF IamInv, AwsInv, NoEmptyPolicy
<1>2. QED BY <1>1, IamInvariant, PTL

-----------------------------------------------------------------------------
(* The four things a step can do to the documents.                         *)

\* The step has no part in the documents.
Silent == UNCHANGED <<policies, doc>>

\* The document in memory becomes the one of an existing policy.
Writes(p) ==
    /\ p \in listed \cap policies /\ pc \in writing /\ pc' \in writing
    /\ doc' = [doc EXCEPT ![p] = mem[p]]
    /\ UNCHANGED <<policies, attached, phase, mode, target>>

\* A policy is made for the user.
Creates ==
    /\ pc = "create" /\ pc' = "attachNew" /\ newPolicy \in PolicyIds \ policies
    /\ policies' = policies \cup {newPolicy}
    /\ doc' = [doc EXCEPT ![newPolicy] = Add({}, target, config)]
    /\ UNCHANGED <<attached, phase, mode, target>>

\* A policy that only had the user is deleted.
Deletes ==
    /\ pc = "delete" /\ pc' = "visit"
    /\ policies' = policies \ {current}
    /\ doc' = [doc EXCEPT ![current] = {}]
    /\ UNCHANGED <<attached, phase, mode, target>>

\* Every step is one of these four.
LEMMA DocumentSteps ==
    ASSUME IamInv, [Next]_vars
    PROVE  Silent \/ (\E p \in PolicyIds : Writes(p)) \/ Creates \/ Deletes
<1> USE DEF IamInv, awsVars
<1>1. CASE BeginStep \/ VisitStep \/ VisitsDone
  BY <1>1 DEF BeginStep, EnsureKnownUser, EnsureNewUser, RemoveUser, Call, VisitStep, VisitUpdate,
     VisitAdd, VisitRemove, VisitsDone, Silent
<1>2. CASE WriteStep
  <2>1. CASE RetryPolicyVersion
    BY <2>1 DEF RetryPolicyVersion, newVersion, Silent, Writes, writing, ModeInv, ListInv, TypeOK
  <2>2. ASSUME NEW p \in PolicyIds, CreatePolicyVersion(p) PROVE Silent \/ Writes(p)
    BY <2>2 DEF CreatePolicyVersion, newVersion, Silent, Writes, writing, ListInv
  <2>3. ASSUME NEW p \in PolicyIds, WriteFails(p) PROVE Silent \/ Writes(p)
    BY <2>3 DEF WriteFails, newVersion, Silent, Writes, writing, ModeInv, ListInv
  <2>4. QED BY <1>2, <2>1, <2>2, <2>3 DEF WriteStep
<1>3. CASE PruneStep \/ WritesDone
  BY <1>3 DEF PruneStep, deleteOldPolicyVersions, deleteSomePolicyVersions, PruneFails, WritesDone,
     Silent
<1>4. CASE CreatePolicy
  BY <1>4 DEF CreatePolicy, Silent, Creates
<1>5. CASE AttachStep \/ DetachStep
  BY <1>5 DEF AttachStep, AttachAll, AttachDone, AttachPolicy, DetachStep, DetachDone,
     DetachRolePolicy, Silent
<1>6. CASE DeletePolicy
  BY <1>6 DEF DeletePolicy, Silent, Deletes
<1>7. CASE OverStep \/ OutsideStep
  BY <1>7 DEF OverStep, CallFails, Ensured, Removed, Restart, OutsideStep, CreateUser, DeleteUser,
     vars, Silent
<1>8. QED BY StepCases, <1>1, <1>2, <1>3, <1>4, <1>5, <1>6, <1>7

\* The policy being deleted has no statement but the user's.
LEMMA DeletedIsTheirs ==
    ASSUME IamInv, Deletes
    PROVE  /\ current \in policies /\ current \in PolicyIds /\ mode = "remove" /\ target \in Users
           /\ \A s \in doc[current] : s.user = target
BY DEF IamInv, TypeOK, Deletes, ModeInv, ListInv, FreshInv, deleting, Documents

\* No step touches a statement of a user it is not for.
LEMMA OthersStep ==
    ASSUME IamInv, [Next]_vars, NEW p \in PolicyIds, NEW s \in Statements, s.user # target
    PROVE  s \in doc[p] <=> s \in doc'[p]
<1>1. CASE Silent
  BY <1>1 DEF Silent
<1>2. ASSUME NEW q \in PolicyIds, Writes(q) PROVE s \in doc[p] <=> s \in doc'[p]
  BY <1>2 DEF Writes, IamInv, TypeOK, ModeInv, FreshInv, writing
<1>3. CASE Creates
  <2>1. doc[newPolicy] = {} /\ target \in Users /\ config \in Configs
    BY <1>3 DEF Creates, IamInv, TypeOK, AwsInv, ModeInv
  <2>2. s \notin Add({}, target, config)
    BY <2>1, AddFacts DEF Documents
  <2>3. QED BY <1>3, <2>1, <2>2 DEF Creates, IamInv, TypeOK
<1>4. CASE Deletes
  BY <1>4, DeletedIsTheirs DEF Deletes, IamInv, TypeOK
<1>5. QED BY DocumentSteps, <1>1, <1>2, <1>3, <1>4

\* Whole documents are written from memory, and yet no other user's statement is
\* lost or changed: the one worker is the only writer.
THEOREM OthersStatementsKept == Spec => OthersUntouched
<1>1. IamInv /\ [Next]_vars =>
        [\A p \in PolicyIds : \A s \in Statements :
           s.user # target => (s \in doc[p] <=> s \in doc'[p])]_vars
  BY OthersStep
<1>2. QED BY <1>1, IamInvariant, PTL DEF Spec, OthersUntouched

-----------------------------------------------------------------------------
(* Access once given is kept.                                              *)

\* A statement of a user other than the target, found before a step, is found after it.
LEMMA OthersExist ==
    ASSUME IamInv, [Next]_vars, NEW p \in PolicyIds, NEW u \in Users, u # target, TypeOK'
    PROVE  Exists(doc[p], u) <=> Exists(doc'[p], u)
<1>1. doc[p] \in Documents /\ doc'[p] \in Documents
  BY DEF IamInv, TypeOK
<1>2. \A s \in Statements : s.user # target => (s \in doc[p] <=> s \in doc'[p])
  BY OthersStep
<1>3. (\E s \in doc[p] : s.user = u) <=> (\E s \in doc'[p] : s.user = u)
  BY <1>1, <1>2 DEF Documents
<1>4. QED BY <1>1, <1>3, ExistsIff

\* As long as the user is not being removed, no step takes its statement away.
LEMMA TargetExists ==
    ASSUME IamInv, [Next]_vars, NEW p \in policies, mode # "remove", Exists(doc[p], target)
    PROVE  p \in policies' /\ Exists(doc'[p], target)
<1>0. p \in PolicyIds
  BY DEF IamInv, TypeOK
<1>1. CASE Silent
  BY <1>1 DEF Silent
<1>2. ASSUME NEW q \in PolicyIds, Writes(q) PROVE p \in policies' /\ Exists(doc'[p], target)
  BY <1>0, <1>2 DEF Writes, IamInv, TypeOK, ModeInv, FreshInv, writing
<1>3. CASE Creates
  BY <1>0, <1>3 DEF Creates, IamInv, TypeOK
<1>4. CASE Deletes
  BY <1>4, DeletedIsTheirs
<1>5. QED BY DocumentSteps, <1>1, <1>2, <1>3, <1>4

\* A policy loses a login role only while it is being deleted.
LEMMA DetachesOnlyDeleted ==
    ASSUME IamInv, [Next]_vars, NEW p \in policies, attached[p] = LoginRoles
    PROVE  attached'[p] = LoginRoles \/ (pc = "detach" /\ p = current)
<1> USE DEF IamInv, TypeOK, awsVars
<1>1. CASE BeginStep \/ VisitStep \/ VisitsDone
  BY <1>1 DEF BeginStep, EnsureKnownUser, EnsureNewUser, RemoveUser, Call, VisitStep, VisitUpdate,
     VisitAdd, VisitRemove, VisitsDone
<1>2. CASE WriteStep \/ PruneStep \/ WritesDone
  BY <1>2 DEF WriteStep, RetryPolicyVersion, CreatePolicyVersion, WriteFails, newVersion, PruneStep,
     deleteOldPolicyVersions, deleteSomePolicyVersions, PruneFails, WritesDone
<1>3. CASE CreatePolicy \/ DeletePolicy
  BY <1>3 DEF CreatePolicy, DeletePolicy
<1>4. CASE AttachStep
  <2>1. CASE AttachAll \/ AttachDone
    BY <2>1 DEF AttachAll, AttachDone
  <2>2. ASSUME NEW r \in LoginRoles, NEW q \in PolicyIds, AttachPolicy(r, q)
        PROVE  attached'[p] = LoginRoles
    <3>1. attached' = [attached EXCEPT ![q] = @ \cup {r}] /\ p \in PolicyIds
      BY <2>2 DEF AttachPolicy
    <3>2. CASE p = q
      <4>1. attached'[p] = LoginRoles \cup {r}
        BY <3>1, <3>2
      <4>2. QED BY <4>1
    <3>3. CASE p # q
      BY <3>1, <3>3
    <3>4. QED BY <3>2, <3>3
  <2>3. QED BY <1>4, <2>1, <2>2 DEF AttachStep
<1>5. CASE DetachStep
  <2>1. CASE DetachDone
    BY <2>1 DEF DetachDone
  <2>2. ASSUME NEW r \in LoginRoles, DetachRolePolicy(r)
        PROVE  attached'[p] = LoginRoles \/ (pc = "detach" /\ p = current)
    BY <2>2 DEF DetachRolePolicy
  <2>3. QED BY <1>5, <2>1, <2>2 DEF DetachStep
<1>6. CASE OverStep \/ OutsideStep
  BY <1>6 DEF OverStep, CallFails, Ensured, Removed, Restart, OutsideStep, CreateUser, DeleteUser, vars
<1>7. QED BY StepCases, <1>1, <1>2, <1>3, <1>4, <1>5, <1>6

\* A step keeps the access of every user whose resource is not being deleted.
LEMMA AccessStep ==
    ASSUME IamInv, [Next]_vars, NEW u \in Users, phase[u] = "live", hasAccess(u)
    PROVE  hasAccess(u)'
<1>0. TypeOK'
  BY TypeNext
<1>1. PICK p \in policies : Exists(doc[p], u) /\ attached[p] = LoginRoles
  BY DEF hasAccess
<1>2. p \in PolicyIds /\ doc[p] \in Documents
  BY DEF IamInv, TypeOK
<1>3. CASE u = target
  <2>1. mode # "remove"
    BY <1>3 DEF IamInv, ModeInv
  <2>2. p \in policies' /\ Exists(doc'[p], u)
    BY <1>1, <1>3, <2>1, TargetExists
  <2>3. attached'[p] = LoginRoles
    BY <1>1, <2>1, DetachesOnlyDeleted DEF IamInv, ModeInv, deleting
  <2>4. QED BY <2>2, <2>3 DEF hasAccess
<1>4. CASE u # target
  <2>1. PICK s \in doc[p] : s.user = u
    BY <1>1, <1>2, ExistsIff
  <2>2. pc \in deleting => p # current
    BY <1>2, <1>4, <2>1 DEF IamInv, ModeInv, ListInv, FreshInv, deleting, Documents
  <2>3. attached'[p] = LoginRoles
    BY <1>1, <2>2, DetachesOnlyDeleted DEF deleting
  <2>4. Exists(doc'[p], u)
    BY <1>0, <1>1, <1>2, <1>4, OthersExist
  <2>5. p \in policies'
    BY <2>2, DocumentSteps DEF Silent, Writes, Creates, Deletes, deleting
  <2>6. QED BY <2>3, <2>4, <2>5 DEF hasAccess
<1>5. QED BY <1>3, <1>4

\* A user that may log in may do so until its resource is deleted, through the
\* removal of others, failing calls and restarts.
THEOREM LiveUsersKeepAccess == Spec => AccessKept
<1>1. IamInv /\ [Next]_vars =>
        [\A u \in Users : (phase[u] = "live" /\ hasAccess(u)) => hasAccess(u)']_vars
  BY AccessStep
<1>2. QED BY <1>1, IamInvariant, PTL DEF Spec, AccessKept

-----------------------------------------------------------------------------
(* The calls implement IamDirectory.                                       *)

\* A user is a member when any document has it, since there is none without its policy.
LEMMA MemberAnywhere ==
    ASSUME TypeOK, AwsInv, NEW u \in Users
    PROVE  u \in members <=> \E p \in PolicyIds : Exists(doc[p], u)
<1>1. \A p \in PolicyIds : Exists(doc[p], u) => p \in policies
  BY ExistsIff DEF TypeOK, AwsInv, Documents
<1>2. QED BY <1>1 DEF TypeOK, members

\* A step makes nobody a member but the user of the call, and drops nobody else.
LEMMA OtherMembers ==
    ASSUME IamInv, [Next]_vars, NEW u \in Users, u # target
    PROVE  u \in members <=> u \in members'
<1>1. TypeOK /\ AwsInv /\ TypeOK' /\ AwsInv'
  BY IamNext DEF IamInv
<1>2. u \in members <=> \E p \in PolicyIds : Exists(doc[p], u)
  BY <1>1, MemberAnywhere
<1>3. u \in members' <=> \E p \in PolicyIds : Exists(doc'[p], u)
  <2>1. (u \in members <=> \E p \in PolicyIds : Exists(doc[p], u))'
    BY <1>1, MemberAnywhere, PTL
  <2>2. QED BY <2>1
<1>4. QED BY <1>1, <1>2, <1>3, OthersExist

\* EnsureUser never drops its user.
LEMMA EnsureKeeps ==
    ASSUME IamInv, [Next]_vars, mode # "remove", target \in members
    PROVE  target \in members'
<1>1. PICK p \in policies : Exists(doc[p], target)
  BY DEF members
<1>2. p \in policies' /\ Exists(doc'[p], target)
  BY <1>1, TargetExists
<1>3. QED BY <1>2 DEF members

\* RemoveUser never brings its user back.
LEMMA RemoveKeeps ==
    ASSUME IamInv, [Next]_vars, mode = "remove", target \in members'
    PROVE  target \in members
<1>0. target \in Users /\ TypeOK
  BY DEF IamInv, ModeInv
<1>1. PICK p \in policies' : Exists(doc'[p], target)
  BY DEF members
<1>2. p \in policies /\ Exists(doc[p], target)
  <2>1. CASE Silent
    BY <1>1, <2>1 DEF Silent
  <2>2. ASSUME NEW q \in PolicyIds, Writes(q) PROVE p \in policies /\ Exists(doc[p], target)
    BY <1>1, <2>2 DEF Writes, IamInv, TypeOK, ModeInv, FreshInv, writing
  <2>3. ~Creates
    BY DEF Creates, IamInv, ModeInv
  <2>4. CASE Deletes
    BY <1>1, <2>4, DeletedIsTheirs DEF Deletes, IamInv, TypeOK
  <2>5. QED BY DocumentSteps, <2>1, <2>2, <2>3, <2>4
<1>3. QED BY <1>0, <1>2 DEF members

\* What a step can do to the set of members, by the call it is part of.
LEMMA MembersStep ==
    ASSUME IamInv, [Next]_vars
    PROVE  /\ mode \in {"add", "update"} => members' \in {members, members \cup {target}}
           /\ mode = "remove" => members' \in {members, members \ {target}}
<1>1. members \subseteq Users /\ members' \subseteq Users
  BY DEF members
<1>2. \A u \in Users : u # target => (u \in members <=> u \in members')
  BY OtherMembers
<1>3. mode \in {"add", "update"} => members' \in {members, members \cup {target}}
  <2>1. SUFFICES ASSUME mode \in {"add", "update"}
                 PROVE  members' = members \/ members' = members \cup {target}
    OBVIOUS
  <2>2. target \in members => target \in members'
    BY <2>1, EnsureKeeps
  <2>3. CASE target \in members'
    BY <1>1, <1>2, <2>3
  <2>4. CASE target \notin members'
    BY <1>1, <1>2, <2>2, <2>4
  <2>5. QED BY <2>3, <2>4
<1>4. mode = "remove" => members' \in {members, members \ {target}}
  <2>1. SUFFICES ASSUME mode = "remove"
                 PROVE  members' = members \/ members' = members \ {target}
    OBVIOUS
  <2>2. target \in members' => target \in members
    BY <2>1, RemoveKeeps
  <2>3. CASE target \in members'
    BY <1>1, <1>2, <2>2, <2>3
  <2>4. CASE target \notin members'
    BY <1>1, <1>2, <2>4
  <2>5. QED BY <2>3, <2>4
<1>5. QED BY <1>3, <1>4

\* A step that leaves documents alone leaves the members alone.
LEMMA SilentMembers == Silent => members' = members
BY DEF Silent, members

\* Every step is a step of IamDirectory or none.
LEMMA DirectoryStep ==
    ASSUME IamInv, [Next]_vars
    PROVE  [Directory!Next]_(Directory!vars)
<1> USE DEF Directory!Next, Directory!vars, operation, returned
<1>0. TypeOK /\ ModeInv /\ OutcomeInv /\ TypeOK' /\ ModeInv' /\ OutcomeInv'
  BY IamNext DEF IamInv
<1>1. CASE BeginStep
  <2>1. PICK u \in Users : EnsureKnownUser(u) \/ EnsureNewUser(u) \/ RemoveUser(u)
    BY <1>1 DEF BeginStep
  <2>2. members' = members
    BY <2>1 DEF EnsureKnownUser, EnsureNewUser, RemoveUser, Call, awsVars, members
  <2>3. /\ pc = "idle" /\ mode = "none" /\ pc' = "visit" /\ target' = u
        /\ mode' \in {"add", "update", "remove"}
    BY <1>0, <2>1 DEF EnsureKnownUser, EnsureNewUser, RemoveUser, Call, ModeInv
  <2>4. QED BY <2>2, <2>3 DEF Directory!Begin
<1>2. CASE VisitStep \/ PruneStep \/ (DetachStep /\ pc' # "idle") \/ OutsideStep
  <2>1. members' = members
    BY <1>2, SilentMembers DEF VisitStep, VisitUpdate, VisitAdd, VisitRemove, PruneStep, awsVars,
       deleteOldPolicyVersions, deleteSomePolicyVersions, PruneFails, DetachStep, DetachDone,
       DetachRolePolicy, OutsideStep, CreateUser, DeleteUser, vars, Silent
  <2>2. UNCHANGED <<mode, target>> /\ (returned <=> returned')
    BY <1>2 DEF VisitStep, VisitUpdate, VisitAdd, VisitRemove, PruneStep, Idle,
       deleteOldPolicyVersions, deleteSomePolicyVersions, PruneFails, DetachStep, DetachDone,
       DetachRolePolicy, OutsideStep, CreateUser, DeleteUser, vars, callVars
  <2>3. QED BY <2>1, <2>2
<1>3. CASE VisitsDone \/ AttachStep
  <2>1. members' = members /\ UNCHANGED <<mode, target>>
    BY <1>3, SilentMembers DEF VisitsDone, AttachStep, AttachAll, AttachDone, AttachPolicy, awsVars,
       Silent
  <2>2. mode # "none" /\ ~returned
    BY <1>0, <1>3 DEF VisitsDone, AttachStep, AttachAll, AttachDone, AttachPolicy, ModeInv
  <2>3. pc' = "ensured" => mode \in {"add", "update"} /\ target \in members
    BY <1>0, <2>1 DEF OutcomeInv, ModeInv, attaching
  <2>4. pc' = "removed" => mode = "remove" /\ target \notin members
    BY <1>0, <2>1 DEF OutcomeInv, ModeInv
  <2>5. CASE returned'
    BY <2>1, <2>2, <2>3, <2>4, <2>5 DEF Directory!Succeed
  <2>6. CASE ~returned'
    BY <2>1, <2>2, <2>6
  <2>7. QED BY <2>5, <2>6
<1>4. ASSUME mode # "none", ~returned, ~returned', UNCHANGED <<mode, target>>
      PROVE  [Directory!Next]_(Directory!vars)
  <2>1. CASE mode \in {"add", "update"}
    BY <1>4, <2>1, MembersStep DEF Directory!Insert
  <2>2. CASE mode = "remove"
    BY <1>4, <2>2, MembersStep DEF Directory!Delete
  <2>3. QED BY <1>0, <1>4, <2>1, <2>2 DEF TypeOK
<1>5. ASSUME Idle, Silent, pc # "idle" PROVE [Directory!Next]_(Directory!vars)
  BY <1>0, <1>5, SilentMembers DEF Idle, ModeInv, TypeOK, Directory!End
<1>6. CASE WriteStep
  BY <1>0, <1>4, <1>6 DEF WriteStep, RetryPolicyVersion, CreatePolicyVersion, WriteFails, ModeInv
<1>7. CASE WritesDone
  BY <1>0, <1>4, <1>5, <1>7 DEF WritesDone, ModeInv, awsVars, Silent
<1>8. CASE CreatePolicy
  BY <1>0, <1>4, <1>5, <1>8 DEF CreatePolicy, ModeInv, awsVars, Silent
<1>9. CASE DetachStep /\ pc' = "idle"
  BY <1>0, <1>5, <1>9 DEF DetachStep, DetachDone, DetachRolePolicy, Silent
<1>10. CASE DeletePolicy
  BY <1>0, <1>4, <1>5, <1>10 DEF DeletePolicy, ModeInv, awsVars, Silent
<1>11. CASE OverStep
  BY <1>5, <1>11 DEF OverStep, CallFails, Ensured, Removed, Restart, awsVars, Silent
<1> HIDE DEF Directory!Next, Directory!vars, operation, returned
<1>12. QED BY StepCases, <1>1, <1>2, <1>3, <1>6, <1>7, <1>8, <1>9, <1>10, <1>11

\* EnsureUser and RemoveUser, each a sequence of calls to AWS that can fail or be
\* cut off anywhere, implement atomic insertion and removal: the effect comes in
\* one step, for the one user, and success is reported only with the effect there.
THEOREM CallsImplementDirectory == Spec => ImplementsDirectory
<1>1. Init => Directory!Init
  BY DEF Init, Directory!Init, members, operation, returned
<1>2. IamInv /\ [Next]_vars => [Directory!Next]_(Directory!vars)
  BY DirectoryStep
<1>3. QED BY <1>1, <1>2, IamInvariant, PTL DEF Spec, ImplementsDirectory, Directory!Spec

-----------------------------------------------------------------------------
(* The capacity of a policy.                                               *)

\* How many statements the operations on a document leave.
LEMMA CountFacts ==
    ASSUME NEW d \in Documents, IsFiniteSet(d), NEW u \in Users, NEW c \in Configs
    PROVE  /\ Count(d) \in Nat /\ Count({}) = 0
           /\ Count(Add(d, u, c)) \in Nat /\ Count(Add(d, u, c)) <= Count(d) + 1
           /\ Count(Remove(d, u)) \in Nat /\ Count(Remove(d, u)) <= Count(d)
           /\ Count(Update(d, u, c)) \in Nat /\ Count(Update(d, u, c)) <= Count(d)
<1> USE DEF Count
<1> DEFINE new == [user |-> u, config |-> c]
<1>1. Count(d) \in Nat /\ Count({}) = 0
  BY FS_CardinalityType, FS_EmptySet
<1>2. Count(Add(d, u, c)) \in Nat /\ Count(Add(d, u, c)) <= Count(d) + 1
  <2>1. /\ IsFiniteSet(d \cup {new})
        /\ Cardinality(d \cup {new}) = IF new \in d THEN Cardinality(d) ELSE Cardinality(d) + 1
    BY FS_AddElement
  <2>2. QED BY <1>1, <2>1 DEF Add
<1>3. IsFiniteSet(Remove(d, u)) /\ Remove(d, u) \in SUBSET d
  BY RemoveFacts DEF Remove
<1>4. Count(Remove(d, u)) \in Nat /\ Count(Remove(d, u)) <= Count(d)
  BY <1>3, FS_CardinalityType, FS_Subset
<1>5. Count(Update(d, u, c)) \in Nat /\ Count(Update(d, u, c)) <= Count(d)
  <2>1. Update(d, u, c) \in Documents /\ IsFiniteSet(Update(d, u, c))
    BY UpdateFacts
  <2>2. \A s \in Statements : s.user = u /\ s.config = c => s = new
    BY DEF Statements
  <2>3. Update(d, u, c) \subseteq Remove(d, u) \cup {new}
    <3>1. SUFFICES ASSUME NEW s \in Update(d, u, c), s # new PROVE s \in Remove(d, u)
      OBVIOUS
    <3>2. s \in Statements /\ s.user # u
      BY <2>1, <2>2, <3>1, UpdateFacts DEF Documents
    <3>3. s \in d
      BY <3>2, UpdateFacts
    <3>4. QED BY <3>2, <3>3 DEF Remove
  <2>4. CASE Exists(d, u)
    <3>1. Remove(d, u) # d
      BY <2>4, RemoveFacts
    <3>2. Count(Remove(d, u)) < Count(d)
      <4>1. Cardinality(d) = Cardinality(Remove(d, u)) => d = Remove(d, u)
        BY <1>3, FS_Subset
      <4>2. QED BY <1>1, <1>4, <3>1, <4>1
    <3>3. /\ IsFiniteSet(Remove(d, u) \cup {new})
          /\ Cardinality(Remove(d, u) \cup {new}) <= Cardinality(Remove(d, u)) + 1
      <4>1. /\ IsFiniteSet(Remove(d, u) \cup {new})
            /\ Cardinality(Remove(d, u) \cup {new}) =
                 IF new \in Remove(d, u) THEN Cardinality(Remove(d, u))
                 ELSE Cardinality(Remove(d, u)) + 1
        BY <1>3, FS_AddElement
      <4>2. QED BY <1>4, <4>1
    <3>4. Cardinality(Update(d, u, c)) <= Cardinality(Remove(d, u) \cup {new})
      BY <2>3, <3>3, FS_Subset
    <3>5. /\ Cardinality(Update(d, u, c)) \in Nat
          /\ Cardinality(Remove(d, u) \cup {new}) \in Nat
      BY <2>1, <3>3, FS_CardinalityType
    <3>6. QED BY <1>1, <1>4, <3>2, <3>3, <3>4, <3>5
  <2>5. CASE ~Exists(d, u)
    <3>1. \A s \in d : s \in Statements /\ s.user # u
      BY <2>5, ExistsIff DEF Documents
    <3>2. \A s \in Update(d, u, c) : s \in Statements /\ s.user # u
      BY <2>1, <2>5, UpdateFacts, ExistsIff DEF Documents
    <3>3. \A s \in Statements : s.user # u => (s \in Update(d, u, c) <=> s \in d)
      BY UpdateFacts
    <3>4. Update(d, u, c) = d
      BY <3>1, <3>2, <3>3
    <3>5. QED BY <1>1, <3>4
  <2>6. QED BY <2>4, <2>5
<1>6. QED BY <1>1, <1>2, <1>4, <1>5

\* The capacity is kept by every step.
LEMMA CapacityNext ==
    ASSUME IamInv, CapacityInv, [Next]_vars
    PROVE  CapacityInv'
<1> USE IamAssumption DEF CapacityInv, CapacityRespected
<1>0. /\ TypeOK /\ AwsInv /\ ModeInv /\ ListInv /\ FreshInv /\ TypeOK'
      /\ \A p \in PolicyIds : doc[p] \in Documents /\ mem[p] \in Documents /\ Count(doc[p]) \in Nat
  BY IamNext, FS_CardinalityType DEF IamInv, TypeOK, AwsInv, Count
<1>1. CASE BeginStep
  <2>1. PICK u \in Users : EnsureKnownUser(u) \/ EnsureNewUser(u) \/ RemoveUser(u)
    BY <1>1 DEF BeginStep
  <2>2. listed' = policies /\ mem' = doc /\ UNCHANGED <<policies, doc>>
    BY <2>1 DEF EnsureKnownUser, EnsureNewUser, RemoveUser, Call, awsVars
  <2>3. mode' = "add" => visit' = withRoom
    BY <2>1 DEF EnsureKnownUser, EnsureNewUser, RemoveUser, Call
  <2>4. QED BY <2>2, <2>3 DEF withRoom
<1>2. CASE VisitStep
  <2>1. PICK p \in PolicyIds : VisitUpdate(p) \/ VisitAdd(p) \/ VisitRemove(p)
    BY <1>2 DEF VisitStep
  <2>2. /\ mem[p] \in Documents /\ IsFiniteSet(mem[p]) /\ target \in Users /\ config \in Configs
        /\ p \in visit /\ p \in listed /\ mode # "none"
    BY <1>0, <2>1 DEF ModeInv, ListInv, FreshInv, TypeOK, VisitUpdate, VisitAdd, VisitRemove
  <2>3. /\ UNCHANGED <<policies, doc, listed, mode>> /\ visit' = visit \ {p}
        /\ mem' = [mem EXCEPT ![p] = mem'[p]]
    BY <1>0, <2>1 DEF VisitUpdate, VisitAdd, VisitRemove, awsVars, TypeOK
  <2>4. mem'[p] = IF mode = "update" THEN Update(mem[p], target, config)
                  ELSE IF mode = "add" THEN Add(mem[p], target, config) ELSE Remove(mem[p], target)
    BY <1>0, <2>1 DEF VisitUpdate, VisitAdd, VisitRemove, TypeOK
  <2>5. Count(mem'[p]) <= MaxUsersPerPolicy
    BY <2>2, <2>4, CountFacts
  <2>6. QED BY <1>0, <2>2, <2>3, <2>5 DEF TypeOK
<1>3. CASE Silent /\ UNCHANGED <<listed, mem, mode, visit>>
  BY <1>3 DEF Silent
<1>4. CASE Silent /\ mode' = "none"
  BY <1>4 DEF Silent
<1>5. ASSUME NEW p \in PolicyIds, Writes(p), UNCHANGED <<listed, mem, mode, visit>>
      PROVE  CapacityInv'
  BY <1>0, <1>5 DEF Writes, TypeOK, ModeInv, writing
<1>6. CASE VisitsDone \/ WriteStep \/ PruneStep \/ WritesDone
  <2>1. CASE WriteStep
    <3>1. UNCHANGED <<listed, mem, mode, visit>>
      BY <2>1 DEF WriteStep, RetryPolicyVersion, CreatePolicyVersion, WriteFails
    <3>2. ~Creates /\ ~Deletes
      BY <2>1 DEF WriteStep, RetryPolicyVersion, CreatePolicyVersion, WriteFails, Creates, Deletes
    <3>3. QED BY <1>3, <1>5, <3>1, <3>2, DocumentSteps
  <2>2. CASE VisitsDone \/ PruneStep \/ WritesDone
    BY <1>3, <1>4, <2>2 DEF VisitsDone, PruneStep, deleteOldPolicyVersions, deleteSomePolicyVersions,
       PruneFails, WritesDone, Idle, awsVars, Silent
  <2>3. QED BY <1>6, <2>1, <2>2
<1>7. CASE CreatePolicy
  <2>1. CASE newPolicy \in policies
    BY <1>4, <1>7, <2>1 DEF CreatePolicy, Idle, awsVars, Silent
  <2>2. CASE newPolicy \notin policies
    <3>1. /\ newPolicy \in PolicyIds /\ policies' = policies \cup {newPolicy}
          /\ doc' = [doc EXCEPT ![newPolicy] = Add({}, target, config)]
          /\ UNCHANGED <<listed, mem, mode, visit>>
      BY <1>7, <2>2 DEF CreatePolicy
    <3>2. target \in Users /\ config \in Configs /\ {} \in Documents /\ IsFiniteSet({})
      BY <1>0, <1>7, FS_EmptySet DEF CreatePolicy, ModeInv, TypeOK, Documents
    <3>3. Count(Add({}, target, config)) <= MaxUsersPerPolicy
      BY <3>2, CountFacts
    <3>4. QED BY <1>0, <3>1, <3>3 DEF TypeOK
  <2>3. QED BY <2>1, <2>2
<1>8. CASE AttachStep \/ DetachStep \/ OverStep \/ OutsideStep
  <2>1. Silent
    BY <1>8 DEF AttachStep, AttachAll, AttachDone, AttachPolicy, DetachStep, DetachDone, awsVars,
       DetachRolePolicy, OverStep, CallFails, Ensured, Removed, Restart, OutsideStep, CreateUser,
       DeleteUser, vars, Silent
  <2>2. mode' = "none" \/ UNCHANGED <<listed, mem, mode, visit>>
    BY <1>8 DEF AttachStep, AttachAll, AttachDone, AttachPolicy, DetachStep, DetachDone, Idle,
       DetachRolePolicy, OverStep, CallFails, Ensured, Removed, Restart, OutsideStep, CreateUser,
       DeleteUser, vars, callVars
  <2>3. QED BY <1>3, <1>4, <2>1, <2>2
<1>9. CASE DeletePolicy
  <2>1. CASE versions[current] = 1 /\ attached[current] = {}
    <3>1. /\ policies' = policies \ {current} /\ doc' = [doc EXCEPT ![current] = {}]
          /\ UNCHANGED <<listed, mem, mode, visit>>
      BY <1>9, <2>1 DEF DeletePolicy
    <3>2. QED BY <1>0, <3>1 DEF TypeOK
  <2>2. CASE ~(versions[current] = 1 /\ attached[current] = {})
    BY <1>4, <1>9, <2>2 DEF DeletePolicy, Idle, awsVars, Silent
  <2>3. QED BY <2>1, <2>2
<1>10. QED BY StepCases, <1>1, <1>2, <1>6, <1>7, <1>8, <1>9

\* No sequence of calls, failures and restarts puts more users in a policy than
\* MaxUsersPerPolicy allows.
THEOREM PoliciesStayWithinCapacity == Spec => []CapacityRespected
<1>1. Init => CapacityInv
  BY DEF Init, CapacityInv, CapacityRespected
<1>2. IamInv /\ CapacityInv /\ [Next]_vars => CapacityInv'
  BY CapacityNext
<1>3. CapacityInv => CapacityRespected
  BY DEF CapacityInv
<1>4. QED BY <1>1, <1>2, <1>3, IamInvariant, PTL DEF Spec
=============================================================================

---------------------------- MODULE IamDirectory ----------------------------
(***************************************************************************)
(* What pkg/iam promises its caller: a set of users, and two operations.   *)
(* An operation takes effect in one step, at most once, for the user it    *)
(* was called for and for nobody else; it may be given up at any time, and *)
(* it ends well only when its effect is there.                             *)
(***************************************************************************)
CONSTANTS Users, Nobody

VARIABLES
    members,    \* the users that are in a policy
    user, op,   \* the operation under way and its user
    done        \* it has returned without error

vars == <<members, user, op, done>>

TypeOK ==
    /\ members \subseteq Users
    /\ user \in Users \cup {Nobody}
    /\ op \in {"none", "ensure", "remove"}
    /\ done \in BOOLEAN

Init == members = {} /\ user = Nobody /\ op = "none" /\ done = FALSE

Begin(u, o) ==
    /\ op = "none"
    /\ op' = o /\ user' = u
    /\ UNCHANGED <<members, done>>

Insert ==
    /\ op = "ensure" /\ ~done
    /\ members' = members \cup {user}
    /\ UNCHANGED <<user, op, done>>

Delete ==
    /\ op = "remove" /\ ~done
    /\ members' = members \ {user}
    /\ UNCHANGED <<user, op, done>>

Succeed ==
    /\ op # "none" /\ ~done
    /\ (op = "ensure") <=> (user \in members)
    /\ done' = TRUE
    /\ UNCHANGED <<members, user, op>>

End ==
    /\ op # "none"
    /\ op' = "none" /\ user' = Nobody /\ done' = FALSE
    /\ UNCHANGED members

Next ==
    \/ \E u \in Users, o \in {"ensure", "remove"} : Begin(u, o)
    \/ Insert \/ Delete \/ Succeed \/ End

Spec == Init /\ [][Next]_vars
=============================================================================

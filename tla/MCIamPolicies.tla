--------------------------- MODULE MCIamPolicies ---------------------------
(* Small instances of IamPolicies for TLC. *)
EXTENDS IamPolicies, TLC

CONSTANTS u1, u2, u3, c1, c2, r1, r2

MCThree == {u1, u2, u3}
MCTwo == {u1, u2}
MCConfigs == {c1, c2}
MCRoles == {r1, r2}

\* Users and login roles are only ever compared for equality.
MCSymmetryThree == Permutations(MCThree) \cup Permutations(MCRoles)
=============================================================================

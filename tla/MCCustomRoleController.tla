----------------------- MODULE MCCustomRoleController -----------------------
(***************************************************************************)
(* Instances of CustomRoleController for TLC.                              *)
(***************************************************************************)
EXTENDS CustomRoleController

CONSTANTS a, g1, g2, h1, d, rds

\* The only user database is on one of the two hosts, and so is the role g2.
MCHostOf == [x \in UserDatabases |-> h1]
MCOtherRolesOn == [h \in Hosts |-> IF h = h1 THEN {g1, g2} ELSE {g1}]

spec(dbs, rs, content, valid) ==
    [databases |-> dbs, grantRoles |-> rs, content |-> content, valid |-> valid]

\* All databases; postgres and a reserved one; one that only one host has, with functions
\* that are not valid and a role to be granted that only one host has.
MCSpecs == [c \in CustomRoles |->
    {spec({}, {g1}, "v1", Kinds), spec({Postgres, rds}, {}, "v2", Kinds),
     spec({d}, {g2}, "v2", {"grants"})}]
=============================================================================

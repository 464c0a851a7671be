SPECIFICATION FairSpec
CONSTANTS
    a = a
    g1 = g1
    g2 = g2
    OtherRoles = {g1, g2}
    OtherRolesOn <- MCOtherRolesOn
    h1 = h1
    d = d
    rds = rds
    CustomRoles = {a}
    Neighbours = {a}
    Hosts = {h1, h2}
    UserDatabases = {d}
    HostOf <- MCHostOf
    Postgres = postgres
    Reserved = {rds}
    Contents = {"v1", "v2"}
    Nothing = Nothing
    Partial = Partial
    Obstructed = Obstructed
    Specs <- MCSpecs
    Absent = Absent
    NoHost = NoHost
    MaxEdits = 2
    MaxFaults = 1
INVARIANTS TypeOK RunningMeansApplied RoleOwned RevokedBeforeDrop
PROPERTIES Converges DeletionCompletes
CHECK_DEADLOCK FALSE

SPECIFICATION FairSpec
CONSTANTS
    u1 = u1
    u2 = u2
    u3 = u3
    c1 = c1
    c2 = c2
    r1 = r1
    r2 = r2
    NoUser = NoUser
    NoPolicy = NoPolicy
    Users <- MCTwo
    Configs <- MCConfigs
    LoginRoles <- MCRoles
    MaxUsersPerPolicy = 2
    MaxVersions = 3
    MaxPolicies = 1
    MaxChanges = 4
    MaxFaults = 2
PROPERTIES EnsureCompletes
CHECK_DEADLOCK FALSE

SPECIFICATION Spec
CONSTANTS
    u1 = u1
    u2 = u2
    u3 = u3
    c1 = c1
    c2 = c2
    r1 = r1
    r2 = r2
    NoUser = NoUser
    NoPolicy = NoPolicy
    Users <- MCThree
    Configs <- MCConfigs
    LoginRoles <- MCRoles
    MaxUsersPerPolicy = 2
    MaxVersions = 3
    MaxPolicies = 3
    MaxChanges = 6
    MaxFaults = 2
SYMMETRY MCSymmetryThree
INVARIANTS TypeOK EnsuredMeansAccess RemovedMeansGone CapacityRespected
PROPERTIES OthersUntouched AccessKept ImplementsDirectory
CHECK_DEADLOCK FALSE

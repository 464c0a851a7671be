SPECIFICATION FairSpec
CONSTANTS
    Values <- MCValues
    PublicSchemas <- MCPublic
    Sources <- MCSources
    NoValue = NoValue
    Missing = Missing
    Empty = ""
    None = None
    Databases <- MCOneDatabase
    StaticRoles <- MCNoRoles
    AllDatabasesReadEnabled = TRUE
    AllDatabasesWriteEnabled = FALSE
    ExtendedWritesEnabled = TRUE
    Users <- MCAdaOnly
    UserNames <- MCAdaName
    SpecChoices <- MCExpiringChoices
    StoreChoices <- MCSteadyStore
    HostCredentials <- MCHosts
    OutOfBandRoles <- MCNoRoles
    MaxTime = 2
    MaxChanges = 1
    MaxFaults = 0
PROPERTY ExpiredRevoked
CHECK_DEADLOCK FALSE

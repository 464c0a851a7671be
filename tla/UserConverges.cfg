SPECIFICATION FairSpec
CONSTANTS
    Values <- MCValues
    PublicSchemas <- MCPublic
    Sources <- MCSources
    NoValue = NoValue
    Missing = Missing
    Empty = ""
    None = None
    Databases <- MCDatabases
    StaticRoles <- MCNoRoles
    AllDatabasesReadEnabled = TRUE
    AllDatabasesWriteEnabled = FALSE
    ExtendedWritesEnabled = TRUE
    Users <- MCTwo
    UserNames <- MCTwoNames
    SpecChoices <- MCTwoChoices
    StoreChoices <- MCFlickeringStore
    HostCredentials <- MCHosts
    OutOfBandRoles <- MCNoRoles
    MaxTime = 2
    MaxChanges = 3
    MaxFaults = 1
PROPERTIES Converges DeletionCompletes
CHECK_DEADLOCK FALSE

SPECIFICATION Spec
CONSTANTS
    Values <- MCValues
    PublicSchemas <- MCPublic
    Sources <- MCSources
    NoValue = NoValue
    Missing = Missing
    Empty = ""
    None = None
    Databases <- MCBothDatabases
    StaticRoles <- MCStatic
    AllDatabasesReadEnabled = TRUE
    AllDatabasesWriteEnabled = FALSE
    ExtendedWritesEnabled = TRUE
    Users <- MCTwo
    UserNames <- MCSharedNames
    SpecChoices <- MCBothChoices
    StoreChoices <- MCBothStore
    HostCredentials <- MCHosts
    OutOfBandRoles <- MCOutOfBand
    MaxTime = 3
    MaxChanges = 3
    MaxFaults = 1
INVARIANTS GrantsJustified SyncedOnSuccess IamOwned
PROPERTIES NoAccessGap
CHECK_DEADLOCK FALSE

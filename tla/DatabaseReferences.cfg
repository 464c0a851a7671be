SPECIFICATION Spec
CONSTANTS
    Values <- MCValues
    Sources <- MCSources
    StoreChoices <- MCStore
    NoValue = NoValue
    Missing = Missing
    Empty = Empty
    None = None
    Databases <- MCTwo
    Names <- MCNames
    SpecChoices <- MCReferences
    Extensions <- MCExtensions
    Credentials <- MCCredentials
    CredentialSpecs <- MCCredentialSpecs
    Hosts <- MCHosts
    HostCredentials <- MCHosts
    SuperuserHosts <- MCHosts
    AdminIsSuperuser = FALSE
    Admin = Admin
    Manager = Manager
    Public = Public
    MaxChanges = 2
    MaxFaults = 1
INVARIANTS TypeOK ProvisionedOnSuccess AdminReleased
PROPERTIES OnlyPublicLoses
CHECK_DEADLOCK FALSE

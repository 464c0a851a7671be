SPECIFICATION FairSpec
CONSTANTS
    Values <- MCValues
    Sources <- MCSources
    StoreChoices <- MCUserStore
    NoValue = NoValue
    Missing = Missing
    Empty = Empty
    None = None
    Databases <- MCTwo
    Names <- MCNames
    SpecChoices <- MCSecretPassword
    Extensions <- MCExtensions
    Credentials <- MCNoCredentials
    CredentialSpecs <- MCNoCredentialSpecs
    Hosts <- MCHosts
    HostCredentials <- MCHosts
    SuperuserHosts <- MCHosts
    AdminIsSuperuser = FALSE
    Admin = Admin
    Manager = Manager
    Public = Public
    MaxChanges = 2
    MaxFaults = 1
PROPERTIES BecomesRunning
CHECK_DEADLOCK FALSE

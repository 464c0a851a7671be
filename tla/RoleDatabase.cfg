SPECIFICATION Spec
CONSTANTS
    Roles <- MCRoles
    o1 = o1
    Layouts <- MCLayouts
    Owners = {ctl, o1}
    Controller = ctl
    None = None
    MaxChanges = 1
    MaxFaults = 1
    Schemas = {"s", "pg"}
    TableNames <- MCTables
    SystemSchemas = {"pg"}
    Partitioned <- MCPartitioned
    All = All
    Keywords <- MCKeywords
    Upper <- MCUpper
    Peers <- MCPeers
    Characters <- MCCharacters
    Args <- MCArgs
    Types <- MCTypes
    Returns <- MCReturns
    Bodies <- MCBodies
    FunctionNames <- MCNames
    Creators = {ctl, o1}
    ControllerUser = ControllerUser
    Specs <- MCSpecs
    MaxEdits = 1
INVARIANTS TypeOK GrantsSynced GrantsCleaned FunctionsSynced PublicShutOut StatementsWellFormed
PROPERTIES AccessKept OthersFunctionsKept
CHECK_DEADLOCK FALSE

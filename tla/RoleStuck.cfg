SPECIFICATION FairSpec
CONSTANTS
    Roles <- MCOneRole
    o1 = o1
    Layouts <- MCLayouts
    Owners = {ctl, o1}
    Controller = ctl
    None = None
    MaxChanges = 0
    MaxFaults = 0
    Schemas = {"s", "pg"}
    TableNames <- MCTables
    SystemSchemas = {"pg"}
    Partitioned <- MCPartitioned
    All = All
    Keywords <- MCKeywords
    Upper <- MCUpper
    Peers <- MCNoPeers
    Characters <- MCCharacters
    Args <- MCArgs
    Types <- MCTypes
    Returns <- MCReturns
    Bodies <- MCBodies
    FunctionNames <- MCNames
    Creators = {ctl, o1}
    ControllerUser = ControllerUser
    Specs <- MCSpecs
    MaxEdits = 0
PROPERTIES RoleGoes
CHECK_DEADLOCK FALSE

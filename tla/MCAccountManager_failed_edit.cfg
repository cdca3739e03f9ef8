SPECIFICATION Spec
CONSTANTS
    AccountId = {a1, a2}
    NullId = null
    Service = {1, 2}
    PluginId = {p1}
    NoPid = nopid
    Absent = absent
    Status = {none}
    NONE = none
    Faults = {}
    CustomServices = {1}
    TokenServices = {1, 2}
    AutoInit = {2}
    MaxCount <- MCMaxCount
    UserDirs = 1
    ReadonlyDirs = 1
    Provisioned = {a2}
PROPERTY FailedEditKeepsSecrets

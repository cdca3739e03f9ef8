SPECIFICATION Spec
CONSTANTS
    AccountId = {a1, a2}
    NullId = null
    Service = {1, 2}
    PluginId = {p1}
    NoPid = nopid
    Absent = absent
    Status = {none, online}
    NONE = none
    Faults = {"crash", "plugin", "noevents"}
    CustomServices = {}
    TokenServices = {1}
    AutoInit = {2}
    MaxCount <- MCMaxCount
    UserDirs = 2
    ReadonlyDirs = 1
    Provisioned = {a2}
INVARIANT StatusOfExisting
INVARIANT UniqueHome
PROPERTY RegistrySpec
INVARIANT ListedIsGettable

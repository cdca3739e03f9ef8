SPECIFICATION PartsSpec
CONSTANTS
    PathName <- MCPathName
    HomeNames <- MCHomeNames
    firstWord <- MCFirstWord
    MkdirFails = FALSE
    Shared <- MCShared
    RpcPath <- MCRpcPath
    UserPaths <- MCUserPaths
    ReadonlyPaths <- MCReadonlyPaths
    DataDirs <- MCDataDirs
    DataNames <- MCDataNames
    ServiceNames <- MCServiceNames
    FirstDirs <- MCFirstDirs
    MaxEmits = 4
    MaxConns = 3
    Room = 1
    MaxFalls = 2
    AccountId = {a1}
    NullId = null
    Service = {1, 2}
    PluginId = {}
    NoPid = nopid
    Absent = absent
    Status = {none}
    NONE = none
    Faults = {"secret"}
    PluginPath = {1, 2}
    Name = {1, 2}
    Title = {"t1", "t2"}
    Info <- MCInfo
    package2module <- MCPackage2module
    Unreadable = unreadable
    Missing = missing
    MaxFiles = 2
    ProviderTitle = {"t1", "t2"}
    Variant = {1, 2}
    Bad = bad
    Unknown = unknown
    MaxProviders = 2
INVARIANT UserDirsUsable
CHECK_DEADLOCK FALSE

SPECIFICATION FairSpec
CONSTANTS
    AccountId = {a1, a2}
    NullId = null
    Service = {1, 2}
    PluginId = {p1}
    NoPid = nopid
    Absent = absent
    Status = {none, online}
    NONE = none
    Faults = {"unload"}
    CustomServices = {1}
    TokenServices = {1, 2}
    AutoInit = {2}
    MaxCount <- MCMaxCount
    UserDirs = 1
    ReadonlyDirs = 1
    Provisioned = {a2}
INVARIANT NoOrphanSecrets
INVARIANT SubscriberInSync
PROPERTY RemovalCompletes
PROPERTY OkMeansDone
PROPERTY HandlerEnds

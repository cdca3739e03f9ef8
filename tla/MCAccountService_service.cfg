SPECIFICATION ServiceSpec
CONSTANTS
    host = host
    user = user
    service = service
    v1 = v1
    Plain = {host}
    Protected = {user, service}
    Value = {v1, v2}
    Blank = blank
    Missing = missing
    Role <- MCRole
    Preset <- MCPreset
    NoFile = nofile
    PLUGIN_ID = pluginid
    ServiceFaults = {"crash", "search", "lost", "plugin"}
INVARIANT NoProtectedInFile
INVARIANT KeepsPasswords

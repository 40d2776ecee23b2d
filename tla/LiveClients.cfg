SPECIFICATION ScriptingSpec
CONSTANTS
    ch = ch
    pat = pat
    Conns = {1, 2}
    MaxClients = 1
    RequirePass = TRUE
    Channels = {ch}
    Patterns = {pat}
    Glob <- MCGlob
    Databases = 2
    Requests <- MCRequests
    Scripts <- MCScripts
    MaxQueue = 1
    MaxInbox = 1
    NoInfo = NoInfo
    Nobody = Nobody
INVARIANT OnlyLiveClients
CHECK_DEADLOCK FALSE

SPECIFICATION ScriptingSpec
CONSTANTS
    ch = ch
    pat = pat
    Conns = {1, 2, 3}
    MaxClients = 2
    RequirePass = TRUE
    Channels = {ch}
    Patterns = {pat}
    Glob <- MCGlob
    Databases = 2
    Requests <- MCRequests
    Scripts <- MCScripts
    MaxQueue = 1
    MaxInbox = 1
    NoInfo = NoInfo
    Nobody = Nobody
INVARIANTS TypeOK SubscriptionsAgree UnauthenticatedHoldsNothing NeverTrappedInMulti
    DbMirrored AdmissionBound
PROPERTY PublishReachesSubscribers
CHECK_DEADLOCK FALSE

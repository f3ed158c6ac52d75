CONSTANTS
    a1 = a1
    a2 = a2
    c1 = c1
    c2 = c2
    Apps = {a1, a2}
    AllApps = AllApps
    Clients = {c1, c2}
    LimitedTo <- Limits
    Handlers = {h1, h2}
    WatcherLimit = 1
    MaxChanges = 2
    Activities = {}
    Methods = {"subscribe", "watch"}
    Mjv0 = {TRUE}
    Types = {}
    NoType = NoType
    Scopes = {{}}
    Watchable = {a1, a2, AllApps}
SPECIFICATION Spec
INVARIANTS
    AuthorizationRespected
    NoWatcherMissed
SYMMETRY SymmetricHandlers

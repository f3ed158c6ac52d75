CONSTANTS
    a1 = a1
    a2 = a2
    c1 = c1
    c2 = c2
    Apps = {a1}
    AllApps = AllApps
    Clients = {c1}
    LimitedTo <- Limits
    Handlers = {h1, h2}
    WatcherLimit = 1
    MaxChanges = 3
    Activities = {"welcome", "crash", "expiry"}
    Methods = {"subscribe", "update", "delete", "watch"}
    Mjv0 = {FALSE}
    Types = {n1}
    NoType = NoType
    Scopes = {{}, {n1}}
    Watchable = {a1}
SPECIFICATION Spec
INVARIANTS
    TypeOK
    LiveTopicKept
    WelcomeOnce
SYMMETRY SymmetricHandlers

CONSTANTS
    x1 = x1
    x2 = x2
    y1 = y1
    X = X
    Y = Y
    n1 = n1
    t1 = t1
    t2 = t2
    Addresses = {X, Y}
    Accounts = {x1, x2, y1}
    AddressOf <- Address
    NotificationIds = {n1}
    Types = {t1, t2}
    Bodies <- SomeBodies
    Scopes = {{t1}, {t2}}
    Handlers = {h1, h2}
    CountLimit = 3
    MaxTokens = 2
    MaxSubscribers = 2
SPECIFICATION Spec
SYMMETRY SymmetricHandlers
INVARIANTS
    TypeOK
    SentMeansQueued
    ScopeRespected
    QueuedOnce
    OutcomePartition

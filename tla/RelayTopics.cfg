CONSTANTS
    Projects = {p1}
    Domains = {d1}
    Handlers = {h1}
    TTL = 4
    MaxRenewDays = 1
    MaxRows = 2
    MaxFaults = 2
SPECIFICATION FairSpec
INVARIANTS TypeOK AnsweredKeysLast NothingLapses
PROPERTIES LiveTopicServed DeletedTopicDropped

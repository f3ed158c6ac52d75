CONSTANTS
    t1 = t1  t2 = t2  A = A
    Rows = {r1}
    NoRow = NoRow
    Servers = {A}
    Tasks = {t1}
    Host <- OneTask
    MaxWorkers = 1
    StartWorkers = 1
    Timeout = 1
    GiveUp = 1
    MaxWakeups = 2
    MaxFaults = 0
    Deletable = {}
    Lockable = {}
SPECIFICATION FairSpec
PROPERTY GivenUpSettlesWhenQuiet

CONSTANTS
    t1 = t1  t2 = t2  A = A
    Rows = {r1}
    NoRow = NoRow
    Servers = {A}
    Tasks = {t1, t2}
    Host <- OneHost
    MaxWorkers = 2
    StartWorkers = 2
    Timeout = 1
    GiveUp = 1
    MaxWakeups = 2
    MaxFaults = 2
    Deletable = {r1}
    Lockable = {r1}
SPECIFICATION Spec
INVARIANTS TypeOK CounterExact OutcomeIsTrue LeaseExclusive NoOrphanWithoutFault
PROPERTIES OutcomeIsFinal Delivers

CONSTANTS
    k1 = k1  k2 = k2  app1 = app1
    Cacaos = {k1, k2}
    Cacao <- Registered
    Sub = Sub
    NoApp = NoApp
    AllApps = AllApps
    NoValue = NoValue
    Slots = {s1, s2}
    KeyTTL = 1
    SecretTTL = 2
    Delay = 1
    MaxFaults = 1
SPECIFICATION FairSpec
INVARIANT TypeOK
PROPERTIES VouchedFor RejectedForCause Recovers

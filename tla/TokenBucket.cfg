CONSTANTS
    Keys = {k1}
    MaxTokens = 3
    Interval = 3
    RefillRate = 2
    MaxNow = 10
SPECIFICATION Spec
INVARIANTS TypeOK WithinRate ResetIsExact

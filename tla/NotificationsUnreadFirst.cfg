CONSTANTS
    MaxId = 3
    MaxNow = 1
    Limits = {1}
    Orders = {TRUE}
SPECIFICATION Spec
INVARIANT
    UnreadFirstComplete

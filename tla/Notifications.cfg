CONSTANTS
    MaxId = 3
    MaxNow = 2
    Limits = {1, 2}
    Orders = {TRUE, FALSE}
SPECIFICATION Spec
INVARIANTS
    TypeOK
    PagingComplete
PROPERTIES
    NoRepeat
    NoMoreUnreadIsTrue

SPECIFICATION Spec
CONSTANTS
    Plans = {p1}
    Requests = {r1, r2}
    Tasks = {t1}
    NoTask = NoTask
    NoPlan = NoPlan
    NoRequest = NoRequest
INVARIANT ConsumedOnce
CHECK_DEADLOCK FALSE

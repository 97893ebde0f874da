SPECIFICATION FairSpec
CONSTANTS
    Plans = {p1}
    Requests = {r1, r2}
    Tasks = {t1}
    NoTask = NoTask
    NoPlan = NoPlan
    NoRequest = NoRequest
INVARIANTS TypeOK NoReplay StaleCopyExplained TaskSettles CountFollowsTasks
PROPERTY ExecutedPlanIsDeleted
CHECK_DEADLOCK FALSE

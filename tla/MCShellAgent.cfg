SPECIFICATION MCSpec
CONSTANTS
    t1 = t1
    t2 = t2
    NoTask = NoTask
    Tasks <- MCTasks
    MaxRuns = 2
    MaxOpens = 3
    MaxViews = 2
INVARIANTS TypeOK RunsStayInReach
PROPERTIES StreamsKeepToTheirTask IndicatorSettles
CHECK_DEADLOCK FALSE

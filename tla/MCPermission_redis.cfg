SPECIFICATION RunSpec
CONSTANTS
    r1 = r1
    r2 = r2
    NumCalls = 2
    Responders <- OneResponder
    AtomicSet = FALSE
PROPERTIES DeadlineSettles StopEndsRun
CHECK_DEADLOCK FALSE

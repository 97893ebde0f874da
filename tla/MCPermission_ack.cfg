SPECIFICATION RunSpec
CONSTANTS
    r1 = r1
    r2 = r2
    NumCalls = 2
    Responders <- OneResponder
    AtomicSet = TRUE
PROPERTIES AckOnlyWhilePending
CHECK_DEADLOCK FALSE

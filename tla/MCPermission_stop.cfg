SPECIFICATION RunSpec
CONSTANTS
    r1 = r1
    r2 = r2
    NumCalls = 2
    Responders <- OneResponder
    AtomicSet = TRUE
PROPERTIES NoToolAfterStop
CHECK_DEADLOCK FALSE

SPECIFICATION SessionFairSpec
CONSTANTS
    w1 = w1
    w2 = w2
    w3 = w3
    p1 = p1
    p2 = p2
    NoLock = NoLock
    Old = Old
    Writers <- MCWriters
    Processes <- MCProcesses
    ProcessOf <- MCProcessOf
    OpsOf <- MCOpsOf
INVARIANTS SessionTypeOK Exclusive AppendsKept SavesKept NoGhost
PROPERTY CallReturns
CHECK_DEADLOCK FALSE

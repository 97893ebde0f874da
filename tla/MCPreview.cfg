SPECIFICATION Spec
CONSTANTS
    t1 = t1
    t2 = t2
    None = None
    Tasks <- TwoTasks
    Ports <- TwoPorts
    MaxPreviews = 1
    MaxInstances = 3
SYMMETRY Symm
INVARIANTS
    TypeOK
    AtMostMax
    CleanedIsDead
    OrphanOnlyByRestart
    PortsApart
CHECK_DEADLOCK FALSE

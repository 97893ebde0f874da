SPECIFICATION Spec
CONSTANTS
    t1 = t1
    t2 = t2
    None = None
    Tasks <- TwoTasks
    Ports <- TwoPorts
    MaxPreviews = 1
    MaxInstances = 3
PROPERTIES
    StopAllStops
CHECK_DEADLOCK FALSE

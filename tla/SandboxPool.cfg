SPECIFICATION FairSpec
CONSTANTS
    Users = {u1, u2, u3}
    Images = {im1, im2}
    MaxSize = 2
    MaxAcquires = 4
INVARIANTS
    PoolTypeOK
    ExclusiveLease
    Bounded
    NoOrphan
PROPERTIES
    HandedOutAlive
    AcquireReturns
    StopReturns
CHECK_DEADLOCK FALSE

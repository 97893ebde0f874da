SPECIFICATION PermissionSpec
CONSTANTS
    r1 = r1
    r2 = r2
    NumCalls = 2
    Responders <- TwoResponders
    AtomicSet = TRUE
SYMMETRY Symm
INVARIANTS PermissionTypeOK OnlyApprovedCallsRun SettledCallHasNoRow StopEndsWithTurn
PROPERTIES NoPromptAfterStop ImplementsApproval
CHECK_DEADLOCK FALSE

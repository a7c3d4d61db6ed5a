CONSTANTS
    a = a
    b = b
    Clients = {a, b}
    Ops <- MCTwoWaiters
    MaxDraws = 0
    MaxDpms = 0
    MayBreak = FALSE
    StartMayFail = FALSE
    None = None
SPECIFICATION FairSpec
CHECK_DEADLOCK FALSE
PROPERTY WaitersWake

CONSTANTS
    a = a
    b = b
    Clients = {a, b}
    Ops <- MCMixed
    MaxDraws = 2
    MaxDpms = 2
    MayBreak = TRUE
    StartMayFail = TRUE
    None = None
SPECIFICATION FairSpec
CHECK_DEADLOCK FALSE
INVARIANTS
    NothingForgotten
PROPERTIES
    PixelsShown
    WaitersWake

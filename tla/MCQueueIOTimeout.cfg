CONSTANTS
    flush = flush
    app = app
    mouse = mouse
    Tasks = {flush, mouse}
    Calls <- MCCalls
    MaxCmds = 2
    Attempts = 2
    PollLimit = 1
    Capacity = 2
    Irq = TRUE
    SignalMayFail = TRUE
    None = None
SPECIFICATION StallSpec
CHECK_DEADLOCK FALSE
INVARIANTS
    WaitersClean
PROPERTIES
    PollersReturn

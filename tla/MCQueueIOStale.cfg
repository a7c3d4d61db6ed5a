CONSTANTS
    flush = flush
    app = app
    mouse = mouse
    Tasks = {flush, mouse}
    Calls <- MCCalls
    MaxCmds = 2
    Attempts = 2
    PollLimit = 1
    Capacity = 2
    Irq = TRUE
    SignalMayFail = FALSE
    None = None
SPECIFICATION Spec
CHECK_DEADLOCK FALSE
INVARIANT ResponseMatches

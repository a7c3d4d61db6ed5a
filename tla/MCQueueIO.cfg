CONSTANTS
    flush = flush
    app = app
    mouse = mouse
    Tasks = {flush, app, mouse}
    Calls <- MCMixedCalls
    MaxCmds = 1
    Attempts = 7
    PollLimit = 1
    Capacity = 2
    Irq = TRUE
    SignalMayFail = FALSE
    None = None
SPECIFICATION FairSpec
CHECK_DEADLOCK FALSE
INVARIANTS
    ResponseMatches
    ExchangeSound
PROPERTIES
    CallsReturn

CONSTANTS
    N = 2
    IdxMod = 4
    Modern = TRUE
    UseIndirect = TRUE
    UseEventIdx = TRUE
    Cookies = {c1, c2}
    Shapes <- MCSingleOrPair
    MaxBogus = 1
    NoCookie = NoCookie
SPECIFICATION FairSpec
INVARIANTS
    RingIntact
    RequestsIntact
    NoLostInterrupt
PROPERTIES
    RequestsReturn
    ImplementsRequestQueue

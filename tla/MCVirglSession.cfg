SPECIFICATION FairSpec
CONSTANTS
    Strips = 2
    Operators = 2
    MaxFail = 2
    MaxCalls = 1
    MaxResizes = 1
    None = None
PROPERTY TwoDForTheSession

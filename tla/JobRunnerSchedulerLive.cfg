SPECIFICATION FairSpec
CONSTANTS
    Tenants = 1
    Keys = 2
    Caller = {a, b}
    MaxJobs = 1
    Turns = 1
    RawCandidates = 1
    LeaseTxs = 1
    Window = 1
PROPERTIES PassGoesForward NoStarvation QuiesceEnds

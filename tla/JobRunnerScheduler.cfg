SPECIFICATION Spec
CONSTANTS
    Tenants = 2
    Keys = 1
    Caller = {a, b}
    MaxJobs = 2
    Turns = 2
    RawCandidates = 2
    LeaseTxs = 2
    Window = 1
SYMMETRY Callers
INVARIANTS OneOwner NothingHidden

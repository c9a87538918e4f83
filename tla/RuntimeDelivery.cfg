SPECIFICATION FairSpec
CONSTANTS
    Runner = {a, b}
    NoRunner = NoRunner
    MaxAttempts = 2
    MaxReentries = 1
    MaxGeneration = 2
    MaxFaults = 2
INVARIANTS CustodyKept BoundToCurrent OneOutcome
PROPERTIES ImplementsCustody InputEnds
CHECK_DEADLOCK FALSE

SPECIFICATION Spec
CONSTANTS
    Runner = {a, b}
    NoRunner = NoRunner
    MaxAttempts = 2
    MaxReentries = 1
    MaxGeneration = 1
    MaxFaults = 0
INVARIANT ExhaustionReported
CHECK_DEADLOCK FALSE

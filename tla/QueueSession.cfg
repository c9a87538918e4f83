SPECIFICATION Spec
CONSTANTS
    JobId = {j1, j2, j3}
    Token = {t1, t2}
    NoToken = NoToken
    NoJob = NoJob
    Session = {"s"}
    NoSession = "none"
    Work <- SessionWork
    LeaseKinds = {"sandbox", "runtime_input"}
    DefaultMaxAttempts = 1
    LeaseDuration = 1
    BaseDelay = 1
    MaxDelay = 1
    PollInterval = 1
    MaxSeq = 3
    MaxAttempt = 2
    MaxDefers = 1
SYMMETRY Symmetry
INVARIANTS LeaseExclusion LaneOrder NoCircularWait TokenCustody SequenceCustody ProvenanceExact FinalizationBudget
 
CHECK_DEADLOCK FALSE

SPECIFICATION Spec
CONSTANTS
    JobId = {j1, j2, j3}
    Token = {t1, t2}
    NoToken = NoToken
    NoJob = NoJob
    Session = {"s"}
    NoSession = "none"
    Work <- WedgeWork
    LeaseKinds = {"sandbox", "environment_build", "environment_ready_fanout"}
    DefaultMaxAttempts = 1
    LeaseDuration = 1
    BaseDelay = 1
    MaxDelay = 1
    PollInterval = 1
    MaxSeq = 3
    MaxAttempt = 2
    MaxDefers = 1
SYMMETRY Symmetry
INVARIANT NoCircularWait
CHECK_DEADLOCK FALSE

SPECIFICATION FairSpec
CONSTANTS
    JobId = {j1, j2}
    Token = {t1, t2}
    NoToken = NoToken
    NoJob = NoJob
    Session = {}
    NoSession = "none"
    Work <- PartitionWork
    LeaseKinds = {"sandbox", "environment_build", "environment_ready_fanout"}
    DefaultMaxAttempts = 1
    LeaseDuration = 1
    BaseDelay = 1
    MaxDelay = 1
    PollInterval = 1
    MaxSeq = 2
    MaxAttempt = 2
    MaxDefers = 1
PROPERTIES AbandonedLeaseEnds EventuallyServed
CHECK_DEADLOCK FALSE

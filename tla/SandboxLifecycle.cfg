SPECIFICATION FairSpec
CONSTANTS
    e1 = e1
    Tools = {e1}
    Attempts = 2
    FaultKinds = {"crash", "failure", "stop", "loss"}
    MaxFaults = 1
    RequestKinds = {"interrupt", "rebuild", "delete"}
    MaxRequests = 2
INVARIANTS  OperationCustody ExecutionCustody  HandleCustody
PROPERTIES ExecutionEnds DeleteEnds
CHECK_DEADLOCK FALSE

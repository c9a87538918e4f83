SPECIFICATION Spec
CONSTANTS
    e1 = e1
    Tools = {e1}
    Attempts = 2
    FaultKinds = {"stop"}
    MaxFaults = 1
    RequestKinds = {"interrupt", "mutation"}
    MaxRequests = 2
INVARIANTS OperationCustody
CHECK_DEADLOCK FALSE

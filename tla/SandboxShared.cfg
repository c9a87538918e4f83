SPECIFICATION Spec
CONSTANTS
    e1 = e1
    e2 = e2
    Tools = {e1, e2}
    Attempts = 2
    FaultKinds = {"crash", "failure"}
    MaxFaults = 1
    RequestKinds = {"interrupt", "mutation", "delete"}
    MaxRequests = 1
SYMMETRY Symmetry
INVARIANTS HonestOutcome SubmittedOnce   SingleFlight
CHECK_DEADLOCK FALSE

\* One request that may time out, and its status.
CONSTANTS
    MaxRequest = 1
    Executors = {e1}
    MaxFaults = 0
    FaultKinds = {}
    Outcomes = {"file", "error"}
    Poison = {}
    Reads = {"status"}
SPECIFICATION Spec
INVARIANT ReasonOnlyWhenFailed
CHECK_DEADLOCK FALSE

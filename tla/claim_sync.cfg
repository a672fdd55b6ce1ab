\* One synchronous query, no fault, a fair system.
CONSTANTS
    MaxRequest = 1
    Executors = {e1}
    MaxFaults = 0
    FaultKinds = {}
    Outcomes = {"file"}
    Poison = {}
    Reads = {"sync"}
SPECIFICATION FairSpec
PROPERTY SyncQueryReturns
CHECK_DEADLOCK FALSE

\* One request, no fault, downloaded while it is being finished.
CONSTANTS
    MaxRequest = 1
    Executors = {e1}
    MaxFaults = 0
    FaultKinds = {}
    Outcomes = {"file"}
    Poison = {}
    Reads = {"download"}
SPECIFICATION Spec
INVARIANT DownloadAnswersDocumented
CHECK_DEADLOCK FALSE

\* The deployment as it is: one executor.  Two requests, every outcome of a
\* job, any two faults of any kind.
CONSTANTS
    MaxRequest = 2
    Executors = {e1}
    MaxFaults = 2
    FaultKinds = {"crash", "disconnect", "exception", "api", "cluster", "broker"}
    Outcomes = {"file", "huge", "empty", "error", "longerror"}
    Poison = {}
    Reads = {}
SPECIFICATION Spec
INVARIANTS
    NoLostRequest
    SettledDoneHasResult
    SettlementInv
    LostJobHasCause
    ClosedHasCreator
    ReasonMatchesStatus
PROPERTY RefinesLifecycle
CHECK_DEADLOCK FALSE

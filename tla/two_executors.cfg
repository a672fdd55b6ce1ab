\* More executors than the deployment has, fed from one queue.  A task that
\* does not return a path ends as one that is lost with its cluster.
CONSTANTS
    MaxRequest = 2
    Executors = {e1, e2}
    MaxFaults = 1
    FaultKinds = {"crash", "disconnect", "exception", "broker"}
    Outcomes = {"file", "huge"}
    Poison = {}
    Reads = {}
SPECIFICATION Spec
SYMMETRY ExecutorSymmetry
INVARIANTS
    TypeOK
    OneJobPerExecutor
    NoSecondThread
    DeliveryInv
    DuplicateDownloadsNeedFaults
PROPERTY LateWriterIsStale
CHECK_DEADLOCK FALSE

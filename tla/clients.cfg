\* One executor, clients that follow and fetch their requests while it works.
\* The second request carries a message that does not parse, a result may not
\* fit its columns, and any one fault may happen.
CONSTANTS
    MaxRequest = 2
    Executors = {e1}
    MaxFaults = 1
    FaultKinds = {"crash", "disconnect", "exception", "api", "cluster", "broker"}
    Outcomes = {"file", "huge", "empty", "error"}
    Poison = {2}
    Reads = {"sync", "status", "size", "uri", "download"}
SPECIFICATION FairSpec
INVARIANTS
    PartialFileNeedsFault
    UriMeansDone
PROPERTIES
    AcceptedIsSettled
    SyncQueryAnswered
CHECK_DEADLOCK FALSE

\* One product, one worker beside the API, three changes by the operator and
\* two faults, each a killed process or a read that fails.
CONSTANTS
    Products = {p1}
    Datasets = {{p1}}
    Workers = {w1}
    MaxEdits = 3
    MaxFaults = 2
SPECIFICATION FairSpec
INVARIANTS
    TypeOK
    DamageHasCause
    CacheAgreesWithFile
    ResultIsAsEstimated
PROPERTIES
    CacheFileIsWrittenOnce
    ApiComesUp
CHECK_DEADLOCK FALSE

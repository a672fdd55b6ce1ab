\* Every body with up to five names and every map request; a Dataset of three
\* datacubes, with and without data, or a DataCube, delivered up to three
\* times, killed anywhere or with a call that fails, the data changing once.
\* A behaviour ends with the last delivery.
CONSTANTS
    MaxCubes = 3
    MaxAttempts = 3
    MaxChanges = 1
SPECIFICATION Spec
INVARIANTS
    TypeOK
    MessageKeepsQuery
    RowKeepsQuery
    ResultIsComplete
    AttemptsAgree
    NothingLeftBehind
CHECK_DEADLOCK FALSE

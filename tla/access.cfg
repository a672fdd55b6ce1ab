\* Every catalog of two datasets with two products and one, one user with any
\* roles, one call with any header, one change of the catalog or the roles
\* while it runs.  A behaviour ends with the answer.
SPECIFICATION Spec
CONSTANTS
    Datasets <- MCDatasets
    MaxProduct <- MCMaxProduct
    Users = {"user"}
    MaxEdits = 1
INVARIANTS
    TypeOK
    DecisionIsOfOneMoment
    ListedHasDetails
    ShownWasAllowed
CHECK_DEADLOCK FALSE

\* Three tasks, two of them subsets at most.
CONSTANTS
    Ids = {a, b, c}
    Kinds = {"subset", "operator"}
    MaxUse = 1
SPECIFICATION Spec
INVARIANT PrecedentsArePassed
CHECK_DEADLOCK FALSE

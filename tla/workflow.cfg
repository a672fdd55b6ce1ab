\* Four tasks of every kind, each using up to two others (or itself), added,
\* verified and computed in any order of calls.
CONSTANTS
    Ids = {a, b, c, d}
    Kinds = {"subset", "operator", "function"}
    MaxUse = 2
SPECIFICATION Spec
SYMMETRY IdSymmetry
INVARIANTS
    TypeOK
    VerifiedIsValid
    TraversalGoesThrough
    EachTaskOnceInOrder
    NoneNeedsRootOperator
    ChainIsComputed

CONSTANTS
    MaxCubes = 2
    MaxAttempts = 1
    MaxChanges = 0
SPECIFICATION Spec
INVARIANT WorkflowResultIsPersisted
CHECK_DEADLOCK FALSE

SPECIFICATION Spec
CONSTANTS
    MaxReconnects = 2
    MaxProgress = 1
    MaxRechecks = 1
    MaxCuts = 0
    Deletes = FALSE
    PartialBlocks = FALSE
INVARIANTS ResultIsOver
CHECK_DEADLOCK FALSE

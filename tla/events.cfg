SPECIFICATION FairSpec
CONSTANTS
    MaxReconnects = 2
    MaxProgress = 2
    MaxRechecks = 1
    MaxCuts = 3
    Deletes = TRUE
    PartialBlocks = TRUE
INVARIANTS EveryEventOnce FirstResultIsOver
PROPERTIES StreamEndsAfterLastEvent WatcherEnds
CHECK_DEADLOCK FALSE

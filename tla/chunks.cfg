SPECIFICATION FairSpec
CONSTANTS
    Plan <- MCPlan
    Blank = {2}
    MaxSplitDepth = 2
    BatchLimit = 2
    MaxStops = 1
    MaxResumes = 1
INVARIANTS LeavesPartitionPlan CompletedChunkHasFindings NoChunkForgotten RunningChunkHasWorker
PROPERTIES CompletedChunkIsKept RunEnds
CHECK_DEADLOCK FALSE

SPECIFICATION FairSpec
CONSTANTS
    Findings = {f1}
    Calls = {c1, c2}
    Ops = {"resume", "decide", "reopen", "confirm", "preview", "deleteUser"}
    MaxCalls = 3
    MaxFixes = 1
    MaxRestarts = 1
    SlowCancel = FALSE
    NoCall = NoCall
INVARIANTS NonTerminalReviewHasTask
PROPERTIES ShutdownDoesNotCancel ReviewEnds
CHECK_DEADLOCK FALSE

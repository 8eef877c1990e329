SPECIFICATION Spec
CONSTANTS
    Findings = {f1}
    Calls = {c1, c2}
    Ops = {"cancel", "delete", "resume", "decide", "reopen", "confirm", "undo", "preview", "deleteUser"}
    MaxCalls = 3
    MaxFixes = 1
    MaxRestarts = 0
    SlowCancel = TRUE
    NoCall = NoCall
SYMMETRY Symmetry
INVARIANTS TypeOK LockExcludes OneStart
PROPERTIES ClosedAttemptStaysClosed LockedHandlersKeepFixes StaleAttemptIsFenced
CHECK_DEADLOCK FALSE

SPECIFICATION Spec
CONSTANTS
    Findings = {f1, f2}
    Calls = {c1, c2}
    Ops = {"confirm", "resume", "preview"}
    MaxCalls = 3
    MaxFixes = 1
    MaxRestarts = 0
    SlowCancel = TRUE
    NoCall = NoCall
SYMMETRY Symmetry
PROPERTIES AppliedFixIsKept
CHECK_DEADLOCK FALSE

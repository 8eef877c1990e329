SPECIFICATION Spec
CONSTANTS
    Findings = {f1}
    Calls = {c1, c2}
    Ops = {"cancel"}
    MaxCalls = 2
    MaxFixes = 0
    MaxRestarts = 0
    SlowCancel = TRUE
    NoCall = NoCall
SYMMETRY Symmetry
PROPERTIES CancelledIsFinal
CHECK_DEADLOCK FALSE

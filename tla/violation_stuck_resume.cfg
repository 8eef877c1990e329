SPECIFICATION Spec
CONSTANTS
    Findings = {f1}
    Calls = {c1, c2}
    Ops = {"confirm", "preview", "resume"}
    MaxCalls = 3
    MaxFixes = 1
    MaxRestarts = 0
    SlowCancel = TRUE
    NoCall = NoCall
SYMMETRY Symmetry
INVARIANTS NonTerminalReviewHasTask
CHECK_DEADLOCK FALSE

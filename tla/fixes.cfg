SPECIFICATION FixSpec
CONSTANTS
    Issues = {f1, f2}
    Candidates = {x1, x2}
    Reported = reported
    FileLines = 2
    Hunks <- MCHunks
    Added = {0, 2}
    MaxCandidates = 1
    MaxRevisions = 2
    MaxAgain = 1
INVARIANTS
    PositionsFollowTheCode
    ShownDiffsAreTheFixes
SYMMETRY IdsAreAlike
CHECK_DEADLOCK FALSE

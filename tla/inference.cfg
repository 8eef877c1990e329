SPECIFICATION FairServiceSpec
CONSTANTS
    Endpoints = {1, 2}
    Callers = {1, 2}
    Prompt <- MCPrompt
    Total <- MCTotal
    MaxConcurrency <- MCMaxConcurrency
    MaxPrompt <- MCMaxPrompt
    MaxTotal <- MCMaxTotal
    FailureThreshold = 2
    Cooldown = 1
    MaxTime = 3
    MaxRequests = 1
INVARIANTS NothingLeftInFlight NoSecondRelease ModelCallsBounded
PROPERTIES RequestEnds
CHECK_DEADLOCK FALSE

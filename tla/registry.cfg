SPECIFICATION RegistrySpec
CONSTANTS
    Endpoints = {1, 2}
    Callers = {1, 2, 3}
    Prompt <- MCPrompt
    Total <- MCTotal
    MaxConcurrency <- MCMaxConcurrency
    MaxPrompt <- MCMaxPrompt
    MaxTotal <- MCMaxTotal
    FailureThreshold = 2
    Cooldown = 1
    MaxTime = 4
INVARIANTS TypeOK RequestsCountLeases CapacityRespected OneLeasePerCaller CircuitMatchesFailures WaiterHasWaker
PROPERTIES GrantsOnClosedCircuits ImplementsPool

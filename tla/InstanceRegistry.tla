--------------------------- MODULE InstanceRegistry ---------------------------
(***************************************************************************)
(* AsyncInstanceRegistry: leases on model instances with bounded capacity  *)
(* and a circuit breaker per instance.  Every method runs inside one       *)
(* asyncio.Condition and suspends nowhere but in wait(), so a method is    *)
(* one action.  A caller holds at most one lease at a time, as every use   *)
(* of the registry in inference_service does.                              *)
(***************************************************************************)
EXTENDS Integers, FiniteSets

CONSTANTS
    Endpoints,         \* instance urls, numbered in their sort order
    Callers,           \* coroutines that ask for leases
    Prompt, Total,     \* the estimated tokens of each caller's request
    MaxConcurrency,    \* capacity of each endpoint: requests,
    MaxPrompt,         \*   prompt tokens in flight,
    MaxTotal,          \*   and total tokens in flight
    FailureThreshold,  \* consecutive failures that open the circuit
    Cooldown,          \* how long an opened circuit stays open
    MaxTime            \* bound: the last instant of the clock

ASSUME RegistryAssumption ==
    /\ IsFiniteSet(Callers)
    /\ Endpoints \subseteq Nat
    /\ Prompt \in [Callers -> Nat] /\ Total \in [Callers -> Nat]
    /\ MaxConcurrency \in [Endpoints -> Nat \ {0}]
    /\ MaxPrompt \in [Endpoints -> Nat] /\ MaxTotal \in [Endpoints -> Nat]
    /\ FailureThreshold \in Nat \ {0}
    /\ Cooldown \in Nat /\ MaxTime \in Nat

VARIABLES
    requests,   \* inflight_requests
    prompt,     \* inflight_prompt_tokens
    total,      \* inflight_total_tokens
    failures,   \* consecutive_failures
    openedAt,   \* circuit_opened_at, Closed for None
    leases,     \* _leases: the endpoint leased to each caller that has one
    waiter,     \* where each caller is: "out", "waiting", "notified" or "leased"
    now         \* the clock

endpointVars == <<requests, prompt, total, failures, openedAt>>
registryVars == <<endpointVars, leases, waiter, now>>

Closed == -1

TypeOK ==
    /\ requests \in [Endpoints -> Nat]
    /\ prompt \in [Endpoints -> Nat]
    /\ total \in [Endpoints -> Nat]
    /\ failures \in [Endpoints -> Nat]
    /\ openedAt \in [Endpoints -> Nat \cup {Closed}]
    /\ leases \subseteq Callers \X Endpoints
    /\ waiter \in [Callers -> {"out", "waiting", "notified", "leased"}]
    /\ now \in Nat

Init ==
    /\ requests = [e \in Endpoints |-> 0]
    /\ prompt = [e \in Endpoints |-> 0]
    /\ total = [e \in Endpoints |-> 0]
    /\ failures = [e \in Endpoints |-> 0]
    /\ openedAt = [e \in Endpoints |-> Closed]
    /\ leases = {}
    /\ waiter = [c \in Callers |-> "out"]
    /\ now = 0

-----------------------------------------------------------------------------
(* acquire                                                                  *)

CooledDown(e) == openedAt[e] # Closed /\ now - openedAt[e] > Cooldown
Available(e) == openedAt[e] = Closed \/ CooledDown(e)

\* Seeded mistake: one request more than the limit is let in.
HasCapacityOffByOne(e, c) ==
    /\ requests[e] <= MaxConcurrency[e]
    /\ prompt[e] + Prompt[c] <= MaxPrompt[e]
    /\ total[e] + Total[c] <= MaxTotal[e]

HasCapacity(e, c) ==
    /\ requests[e] < MaxConcurrency[e]
    /\ prompt[e] + Prompt[c] <= MaxPrompt[e]
    /\ total[e] + Total[c] <= MaxTotal[e]

\* Seeded mistake: an endpoint is chosen whatever its circuit says.
EligibleIgnoringCircuit(c) == {e \in Endpoints : HasCapacity(e, c)}

Eligible(c) == {e \in Endpoints : Available(e) /\ HasCapacity(e, c)}

\* The sort key (inflight_total_tokens, inflight_requests, endpoint).
Precedes(e, d) ==
    \/ total[e] < total[d]
    \/ total[e] = total[d] /\ requests[e] < requests[d]
    \/ total[e] = total[d] /\ requests[e] = requests[d] /\ e <= d

\* Seeded mistake: the circuit closes, its failures stay.
ResetKeepsFailures ==
    /\ openedAt' = [e \in Endpoints |-> IF CooledDown(e) THEN Closed ELSE openedAt[e]]
    /\ UNCHANGED failures

\* _available is called on every endpoint, and closes what has cooled down.
ResetCooledDown ==
    /\ openedAt' = [e \in Endpoints |-> IF CooledDown(e) THEN Closed ELSE openedAt[e]]
    /\ failures' = [e \in Endpoints |-> IF CooledDown(e) THEN 0 ELSE failures[e]]

\* Seeded mistake: a caller asks again while it holds a lease.
EnteringAgain(c) == waiter[c] \in {"out", "notified", "leased"}

Entering(c) == waiter[c] \in {"out", "notified"}

Grant(c) ==
    /\ Entering(c)
    /\ ResetCooledDown
    /\ \E e \in Eligible(c) :
          /\ \A d \in Eligible(c) : Precedes(e, d)
          /\ requests' = [requests EXCEPT ![e] = @ + 1]
          /\ prompt' = [prompt EXCEPT ![e] = @ + Prompt[c]]
          /\ total' = [total EXCEPT ![e] = @ + Total[c]]
          /\ leases' = leases \cup {<<c, e>>}
    /\ waiter' = [waiter EXCEPT ![c] = "leased"]
    /\ UNCHANGED now

\* AllInstancesUnavailable
Refuse(c) ==
    /\ Entering(c)
    /\ \A e \in Endpoints : ~Available(e)
    /\ waiter' = [waiter EXCEPT ![c] = "out"]
    /\ UNCHANGED <<endpointVars, leases, now>>

\* Some endpoint is available but none has room: condition.wait().
Wait(c) ==
    /\ Entering(c)
    /\ \E e \in Endpoints : Available(e)
    /\ Eligible(c) = {}
    /\ ResetCooledDown
    /\ waiter' = [waiter EXCEPT ![c] = "waiting"]
    /\ UNCHANGED <<requests, prompt, total, leases, now>>

\* The waiting caller is cancelled: it owns nothing yet.
Abandon(c) ==
    /\ waiter[c] \in {"waiting", "notified"}
    /\ waiter' = [waiter EXCEPT ![c] = "out"]
    /\ UNCHANGED <<endpointVars, leases, now>>

Acquire(c) == Grant(c) \/ Refuse(c) \/ Wait(c)

-----------------------------------------------------------------------------
(* release_success, release_failure, release_neutral                        *)

NonNegative(i) == IF i < 0 THEN 0 ELSE i

\* Seeded mistake: a release without notify_all().
NotifyNobody(c) == waiter' = [waiter EXCEPT ![c] = "out"]

NotifyAll(c) ==
    waiter' = [d \in Callers |->
                 IF d = c THEN "out" ELSE IF waiter[d] = "waiting" THEN "notified" ELSE waiter[d]]

\* Seeded mistakes: a release that checks nothing; one that leaves the request
\* counted.
ReleaseUnchecked(c, e) ==
    /\ leases' = leases \ {<<c, e>>}
    /\ requests' = [requests EXCEPT ![e] = @ - 1]
    /\ prompt' = [prompt EXCEPT ![e] = @ - Prompt[c]]
    /\ total' = [total EXCEPT ![e] = @ - Total[c]]

ReleaseKeepsRequest(c, e) ==
    /\ <<c, e>> \in leases
    /\ leases' = leases \ {<<c, e>>}
    /\ prompt' = [prompt EXCEPT ![e] = NonNegative(@ - Prompt[c])]
    /\ total' = [total EXCEPT ![e] = NonNegative(@ - Total[c])]
    /\ UNCHANGED requests

ReleaseReservation(c, e) ==
    /\ <<c, e>> \in leases
    /\ leases' = leases \ {<<c, e>>}
    /\ requests' = [requests EXCEPT ![e] = NonNegative(@ - 1)]
    /\ prompt' = [prompt EXCEPT ![e] = NonNegative(@ - Prompt[c])]
    /\ total' = [total EXCEPT ![e] = NonNegative(@ - Total[c])]

\* A success closes the circuit, even one that opened during the request.
ReleaseSuccess(c) ==
    /\ \E e \in Endpoints :
          /\ ReleaseReservation(c, e)
          /\ failures' = [failures EXCEPT ![e] = 0]
          /\ openedAt' = [openedAt EXCEPT ![e] = Closed]
    /\ NotifyAll(c)
    /\ UNCHANGED now

ReleaseFailure(c) ==
    /\ \E e \in Endpoints :
          /\ ReleaseReservation(c, e)
          /\ failures' = [failures EXCEPT ![e] = @ + 1]
          /\ openedAt' = IF failures[e] + 1 >= FailureThreshold
                         THEN [openedAt EXCEPT ![e] = now] ELSE openedAt
    /\ NotifyAll(c)
    /\ UNCHANGED now

ReleaseNeutral(c) ==
    /\ \E e \in Endpoints : ReleaseReservation(c, e)
    /\ NotifyAll(c)
    /\ UNCHANGED <<failures, openedAt, now>>

Release(c) == ReleaseSuccess(c) \/ ReleaseFailure(c) \/ ReleaseNeutral(c)

Tick ==
    /\ now < MaxTime
    /\ now' = now + 1
    /\ UNCHANGED <<endpointVars, leases, waiter>>

RegistryNext ==
    \/ \E c \in Callers : Acquire(c) \/ Abandon(c) \/ Release(c)
    \/ Tick

RegistrySpec == Init /\ [][RegistryNext]_registryVars

-----------------------------------------------------------------------------
(* What the registry promises.                                              *)

LeasedTo(e) == {c \in Callers : <<c, e>> \in leases}

\* inflight_requests is the number of leases held on the endpoint: no lease is
\* counted twice, none is forgotten, and the clamp at zero never hides one.
RequestsCountLeases == \A e \in Endpoints : requests[e] = Cardinality(LeasedTo(e))

\* No sequence of grants and releases exceeds a configured limit.
CapacityRespected ==
    \A e \in Endpoints :
        requests[e] <= MaxConcurrency[e] /\ prompt[e] <= MaxPrompt[e] /\ total[e] <= MaxTotal[e]

\* A caller holds a lease exactly while it is between acquire and release, and
\* never two.
OneLeasePerCaller ==
    \A c \in Callers :
        /\ (\E e \in Endpoints : <<c, e>> \in leases) <=> waiter[c] = "leased"
        /\ \A e, d \in Endpoints : <<c, e>> \in leases /\ <<c, d>> \in leases => e = d

\* The breaker is open exactly when the failures reached the threshold: a late
\* failure on an open circuit and a reset both keep the two in step.
CircuitMatchesFailures ==
    \A e \in Endpoints : (openedAt[e] # Closed) <=> (failures[e] >= FailureThreshold)

\* A lease is granted only on an endpoint whose circuit is closed or has cooled
\* down, and granting it leaves the circuit closed.
GrantsOnClosedCircuits ==
    [][\A c \in Callers, e \in Endpoints :
          <<c, e>> \in leases' /\ <<c, e>> \notin leases
          => Available(e) /\ openedAt'[e] = Closed]_registryVars

\* A caller whose request fits every endpoint never waits with no lease left
\* whose release could wake it.
Fits(c) == \A e \in Endpoints : Prompt[c] <= MaxPrompt[e] /\ Total[c] <= MaxTotal[e]

WaiterHasWaker == \A c \in Callers : waiter[c] = "waiting" /\ Fits(c) => leases # {}

\* The registry implements a pool known only by its leases: the three counters it
\* keeps stand for the sums over the leases at every grant, whatever happened to
\* circuits, clamps and waiters before, and each release wakes whoever sleeps.
Pool == INSTANCE LeasePool
            WITH held <- [c \in Callers |-> {e \in Endpoints : <<c, e>> \in leases}],
                 blocked <- {c \in Callers : waiter[c] = "waiting"}

ImplementsPool == Pool!PoolSpec

=============================================================================

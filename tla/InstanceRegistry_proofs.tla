------------------------ MODULE InstanceRegistry_proofs ------------------------
(***************************************************************************)
(* The registry's invariants for every set of endpoints and callers, every *)
(* capacity and every size of request.                                     *)
(***************************************************************************)
EXTENDS InstanceRegistry, FiniteSetTheorems, TLAPS

USE DEF Closed

\* The clamp of _release_reservation yields a natural number that is no larger
\* than what was reserved.
LEMMA NonNegativeBounds ==
    ASSUME NEW i \in Nat, NEW k \in Nat
    PROVE  NonNegative(i - k) \in Nat /\ NonNegative(i - k) <= i
BY DEF NonNegative

\* The state every method of the registry changes stays well typed: in
\* particular the three counters never become negative.
THEOREM RegistryTypeCorrect == RegistrySpec => []TypeOK
<1>1. Init => TypeOK
  BY DEF Init, TypeOK
<1>2. TypeOK /\ [RegistryNext]_registryVars => TypeOK'
  <2> SUFFICES ASSUME TypeOK, [RegistryNext]_registryVars PROVE TypeOK'
    OBVIOUS
  <2> USE RegistryAssumption
  <2>1. ASSUME NEW c \in Callers, Grant(c) PROVE TypeOK'
    <3>1. PICK e \in Eligible(c) :
             /\ requests' = [requests EXCEPT ![e] = @ + 1]
             /\ prompt' = [prompt EXCEPT ![e] = @ + Prompt[c]]
             /\ total' = [total EXCEPT ![e] = @ + Total[c]]
             /\ leases' = leases \cup {<<c, e>>}
      BY <2>1 DEF Grant
    <3>2. e \in Endpoints
      BY DEF Eligible
    <3>3. (requests \in [Endpoints -> Nat] /\ prompt \in [Endpoints -> Nat])'
      BY <3>1, <3>2 DEF TypeOK
    <3>4. (total \in [Endpoints -> Nat] /\ leases \subseteq Callers \X Endpoints)'
      BY <3>1, <3>2 DEF TypeOK
    <3>5. (failures \in [Endpoints -> Nat] /\ openedAt \in [Endpoints -> Nat \cup {Closed}])'
      BY <2>1 DEF Grant, ResetCooledDown, TypeOK
    <3> QED BY <2>1, <3>3, <3>4, <3>5 DEF Grant, TypeOK
  <2>2. ASSUME NEW c \in Callers, Refuse(c) PROVE TypeOK'
    BY <2>2 DEF Refuse, TypeOK, endpointVars
  <2>3. ASSUME NEW c \in Callers, Wait(c) PROVE TypeOK'
    BY <2>3 DEF Wait, ResetCooledDown, TypeOK
  <2>4. ASSUME NEW c \in Callers, Abandon(c) PROVE TypeOK'
    BY <2>4 DEF Abandon, TypeOK, endpointVars
  <2>5. ASSUME NEW c \in Callers, NEW e \in Endpoints, ReleaseReservation(c, e)
        PROVE  (/\ requests \in [Endpoints -> Nat] /\ prompt \in [Endpoints -> Nat]
                /\ total \in [Endpoints -> Nat] /\ leases \subseteq Callers \X Endpoints)'
    <3>1. requests[e] \in Nat /\ prompt[e] \in Nat /\ total[e] \in Nat
      BY DEF TypeOK
    <3>2. /\ NonNegative(requests[e] - 1) \in Nat
          /\ NonNegative(prompt[e] - Prompt[c]) \in Nat
          /\ NonNegative(total[e] - Total[c]) \in Nat
      BY <3>1, NonNegativeBounds
    <3> QED BY <2>5, <3>2 DEF ReleaseReservation, TypeOK
  <2>6. ASSUME NEW c \in Callers, NotifyAll(c)
        PROVE  (waiter \in [Callers -> {"out", "waiting", "notified", "leased"}])'
    BY <2>6 DEF NotifyAll, TypeOK
  <2>7. ASSUME NEW c \in Callers, ReleaseSuccess(c) PROVE TypeOK'
    BY <2>5, <2>6, <2>7 DEF ReleaseSuccess, TypeOK
  <2>8. ASSUME NEW c \in Callers, ReleaseFailure(c) PROVE TypeOK'
    BY <2>5, <2>6, <2>8 DEF ReleaseFailure, TypeOK
  <2>9. ASSUME NEW c \in Callers, ReleaseNeutral(c) PROVE TypeOK'
    BY <2>5, <2>6, <2>9 DEF ReleaseNeutral, TypeOK
  <2>10. CASE Tick
    BY <2>10 DEF Tick, TypeOK, endpointVars
  <2>11. CASE UNCHANGED registryVars
    BY <2>11 DEF TypeOK, registryVars, endpointVars
  <2> QED
    BY <2>1, <2>2, <2>3, <2>4, <2>7, <2>8, <2>9, <2>10, <2>11
       DEF RegistryNext, Acquire, Release
<1> QED BY <1>1, <1>2, PTL DEF RegistrySpec

-----------------------------------------------------------------------------

\* No interleaving of acquire and the three releases puts more requests, prompt
\* tokens or total tokens on an endpoint than its profile allows.
THEOREM CapacityIsRespected == RegistrySpec => []CapacityRespected
<1>1. Init => CapacityRespected
  BY RegistryAssumption DEF Init, CapacityRespected
<1>2. TypeOK /\ TypeOK' /\ CapacityRespected /\ [RegistryNext]_registryVars => CapacityRespected'
  <2> SUFFICES ASSUME TypeOK, TypeOK', CapacityRespected, [RegistryNext]_registryVars
               PROVE  CapacityRespected'
    OBVIOUS
  <2> USE RegistryAssumption
  <2>1. ASSUME NEW c \in Callers, Grant(c) PROVE CapacityRespected'
    <3>1. PICK e \in Eligible(c) :
             /\ requests' = [requests EXCEPT ![e] = @ + 1]
             /\ prompt' = [prompt EXCEPT ![e] = @ + Prompt[c]]
             /\ total' = [total EXCEPT ![e] = @ + Total[c]]
      BY <2>1 DEF Grant
    <3>2. e \in Endpoints /\ HasCapacity(e, c)
      BY DEF Eligible
    <3>3. /\ requests[e] + 1 <= MaxConcurrency[e]
          /\ prompt[e] + Prompt[c] <= MaxPrompt[e]
          /\ total[e] + Total[c] <= MaxTotal[e]
      BY <3>2 DEF HasCapacity, TypeOK
    <3> QED BY <3>1, <3>2, <3>3 DEF CapacityRespected, TypeOK
  <2>2. ASSUME NEW c \in Callers, Release(c) PROVE CapacityRespected'
    <3>1. PICK e \in Endpoints : ReleaseReservation(c, e)
      BY <2>2 DEF Release, ReleaseSuccess, ReleaseFailure, ReleaseNeutral
    <3>2. requests[e] \in Nat /\ prompt[e] \in Nat /\ total[e] \in Nat
      BY DEF TypeOK
    <3>3. /\ NonNegative(requests[e] - 1) <= requests[e]
          /\ NonNegative(prompt[e] - Prompt[c]) <= prompt[e]
          /\ NonNegative(total[e] - Total[c]) <= total[e]
      BY <3>2, NonNegativeBounds
    <3>4. \A d \in Endpoints : /\ requests'[d] <= requests[d]
                               /\ prompt'[d] <= prompt[d]
                               /\ total'[d] <= total[d]
      BY <3>1, <3>3 DEF ReleaseReservation, TypeOK
    <3> QED BY <3>4 DEF CapacityRespected, TypeOK
  <2>3. ASSUME UNCHANGED <<requests, prompt, total>> PROVE CapacityRespected'
    BY <2>3 DEF CapacityRespected
  <2> QED
    BY <2>1, <2>2, <2>3
       DEF RegistryNext, Acquire, Refuse, Wait, Abandon, Tick, registryVars, endpointVars
<1> QED BY <1>1, <1>2, RegistryTypeCorrect, PTL DEF RegistrySpec

-----------------------------------------------------------------------------

\* A caller is between acquire and release exactly while it holds a lease, and it
\* holds one lease.
THEOREM CallersHoldOneLease == RegistrySpec => []OneLeasePerCaller
<1>1. Init => OneLeasePerCaller
  BY DEF Init, OneLeasePerCaller
<1>2. TypeOK /\ OneLeasePerCaller /\ [RegistryNext]_registryVars => OneLeasePerCaller'
  <2> SUFFICES ASSUME TypeOK, OneLeasePerCaller, [RegistryNext]_registryVars
               PROVE  OneLeasePerCaller'
    OBVIOUS
  <2>1. ASSUME NEW c \in Callers, Grant(c) PROVE OneLeasePerCaller'
    <3>1. PICK e \in Endpoints : leases' = leases \cup {<<c, e>>}
      BY <2>1 DEF Grant, Eligible
    <3>2. waiter' = [waiter EXCEPT ![c] = "leased"] /\ waiter[c] # "leased"
      BY <2>1 DEF Grant, Entering
    <3>3. \A d \in Endpoints : <<c, d>> \notin leases
      BY <3>2 DEF OneLeasePerCaller
    <3> QED BY <3>1, <3>2, <3>3 DEF OneLeasePerCaller, TypeOK
  <2>2. ASSUME NEW c \in Callers, Release(c) PROVE OneLeasePerCaller'
    <3>1. PICK e \in Endpoints : <<c, e>> \in leases /\ leases' = leases \ {<<c, e>>}
      BY <2>2 DEF Release, ReleaseSuccess, ReleaseFailure, ReleaseNeutral, ReleaseReservation
    <3>2. NotifyAll(c)
      BY <2>2 DEF Release, ReleaseSuccess, ReleaseFailure, ReleaseNeutral
    <3>3. \A d \in Endpoints : <<c, d>> \notin leases'
      BY <3>1 DEF OneLeasePerCaller
    <3>4. waiter'[c] # "leased"
      BY <3>2 DEF NotifyAll
    <3>5. ASSUME NEW b \in Callers, b # c
          PROVE  /\ waiter'[b] = "leased" <=> waiter[b] = "leased"
                 /\ \A d \in Endpoints : <<b, d>> \in leases' <=> <<b, d>> \in leases
      BY <3>1, <3>2, <3>5 DEF NotifyAll
    <3> QED BY <3>3, <3>4, <3>5 DEF OneLeasePerCaller
  <2>3. ASSUME NEW c \in Callers, Refuse(c) \/ Wait(c) \/ Abandon(c) PROVE OneLeasePerCaller'
    <3>1. /\ leases' = leases
          /\ waiter[c] # "leased"
          /\ waiter' = [waiter EXCEPT ![c] = waiter'[c]] /\ waiter'[c] # "leased"
      BY <2>3 DEF Refuse, Wait, Abandon, Entering, TypeOK
    <3> QED BY <3>1 DEF OneLeasePerCaller, TypeOK
  <2>4. ASSUME UNCHANGED <<leases, waiter>> PROVE OneLeasePerCaller'
    BY <2>4 DEF OneLeasePerCaller
  <2> QED
    BY <2>1, <2>2, <2>3, <2>4 DEF RegistryNext, Acquire, Tick, registryVars
<1> QED BY <1>1, <1>2, RegistryTypeCorrect, PTL DEF RegistrySpec

-----------------------------------------------------------------------------

\* What a lease adds to the set of an endpoint's leases, and what a release
\* takes from it.
LEMMA LeasedToGrows ==
    ASSUME NEW c \in Callers, NEW e \in Endpoints, leases' = leases \cup {<<c, e>>}
    PROVE  \A d \in Endpoints :
              LeasedTo(d)' = IF d = e THEN LeasedTo(d) \cup {c} ELSE LeasedTo(d)
BY DEF LeasedTo

LEMMA LeasedToShrinks ==
    ASSUME NEW c \in Callers, NEW e \in Endpoints, leases' = leases \ {<<c, e>>}
    PROVE  \A d \in Endpoints :
              LeasedTo(d)' = IF d = e THEN LeasedTo(d) \ {c} ELSE LeasedTo(d)
BY DEF LeasedTo

LEMMA LeasedToFinite ==
    ASSUME NEW e \in Endpoints
    PROVE  IsFiniteSet(LeasedTo(e)) /\ Cardinality(LeasedTo(e)) \in Nat
<1>1. LeasedTo(e) \subseteq Callers
  BY DEF LeasedTo
<1> QED BY <1>1, FS_Subset, FS_CardinalityType, RegistryAssumption

\* inflight_requests is the number of leases held: the clamp at zero never
\* hides a release that was counted twice.
THEOREM RequestsAreCounted == RegistrySpec => []RequestsCountLeases
<1>1. Init => RequestsCountLeases
  <2> SUFFICES ASSUME Init, NEW e \in Endpoints
               PROVE  requests[e] = Cardinality(LeasedTo(e))
    BY DEF RequestsCountLeases
  <2>1. LeasedTo(e) = {}
    BY DEF Init, LeasedTo
  <2> QED BY <2>1, FS_EmptySet DEF Init
<1>2. TypeOK /\ OneLeasePerCaller /\ RequestsCountLeases /\ [RegistryNext]_registryVars
      => RequestsCountLeases'
  <2> SUFFICES ASSUME TypeOK, OneLeasePerCaller, RequestsCountLeases,
                      [RegistryNext]_registryVars
               PROVE  RequestsCountLeases'
    OBVIOUS
  <2>1. ASSUME NEW c \in Callers, Grant(c) PROVE RequestsCountLeases'
    <3>1. PICK e \in Endpoints : /\ requests' = [requests EXCEPT ![e] = @ + 1]
                                 /\ leases' = leases \cup {<<c, e>>}
      BY <2>1 DEF Grant, Eligible
    <3>2. c \notin LeasedTo(e)
      BY <2>1 DEF Grant, Entering, OneLeasePerCaller, LeasedTo
    <3>3. Cardinality(LeasedTo(e) \cup {c}) = Cardinality(LeasedTo(e)) + 1
      BY <3>2, LeasedToFinite, FS_AddElement
    <3>4. ASSUME NEW d \in Endpoints PROVE requests'[d] = Cardinality(LeasedTo(d)')
      BY <3>1, <3>3, LeasedToGrows DEF RequestsCountLeases, TypeOK
    <3> QED BY <3>4 DEF RequestsCountLeases
  <2>2. ASSUME NEW c \in Callers, Release(c) PROVE RequestsCountLeases'
    <3>1. PICK e \in Endpoints : ReleaseReservation(c, e)
      BY <2>2 DEF Release, ReleaseSuccess, ReleaseFailure, ReleaseNeutral
    <3>2. c \in LeasedTo(e) /\ leases' = leases \ {<<c, e>>}
      BY <3>1 DEF ReleaseReservation, LeasedTo
    <3>3. Cardinality(LeasedTo(e) \ {c}) = Cardinality(LeasedTo(e)) - 1
      BY <3>2, LeasedToFinite, FS_RemoveElement
    <3>4. /\ requests[e] = Cardinality(LeasedTo(e))
          /\ Cardinality(LeasedTo(e) \ {c}) \in Nat
      BY LeasedToFinite, FS_RemoveElement, FS_CardinalityType DEF RequestsCountLeases
    <3>5. requests' = [requests EXCEPT ![e] = requests[e] - 1]
      <4>1. requests[e] \in Nat /\ requests[e] - 1 \in Nat
        BY <3>3, <3>4 DEF TypeOK
      <4>2. NonNegative(requests[e] - 1) = requests[e] - 1
        BY <4>1 DEF NonNegative
      <4> QED BY <3>1, <4>2 DEF ReleaseReservation
    <3>6. ASSUME NEW d \in Endpoints PROVE requests'[d] = Cardinality(LeasedTo(d)')
      BY <3>2, <3>3, <3>4, <3>5, LeasedToShrinks DEF RequestsCountLeases, TypeOK
    <3> QED BY <3>6 DEF RequestsCountLeases
  <2>3. ASSUME UNCHANGED <<requests, leases>> PROVE RequestsCountLeases'
    BY <2>3 DEF RequestsCountLeases, LeasedTo
  <2> QED
    BY <2>1, <2>2, <2>3
       DEF RegistryNext, Acquire, Refuse, Wait, Abandon, Tick, registryVars, endpointVars
<1> QED BY <1>1, <1>2, RegistryTypeCorrect, CallersHoldOneLease, PTL DEF RegistrySpec

-----------------------------------------------------------------------------

\* The circuit of an endpoint is open exactly while its consecutive failures
\* have reached the threshold, whatever late successes and failures arrive.
THEOREM CircuitFollowsFailures == RegistrySpec => []CircuitMatchesFailures
<1>1. Init => CircuitMatchesFailures
  BY RegistryAssumption DEF Init, CircuitMatchesFailures
<1>2. TypeOK /\ CircuitMatchesFailures /\ [RegistryNext]_registryVars
      => CircuitMatchesFailures'
  <2> SUFFICES ASSUME TypeOK, CircuitMatchesFailures, [RegistryNext]_registryVars
               PROVE  CircuitMatchesFailures'
    OBVIOUS
  <2> USE RegistryAssumption
  <2>1. ASSUME ResetCooledDown PROVE CircuitMatchesFailures'
    BY <2>1 DEF ResetCooledDown, CircuitMatchesFailures
  <2>2. ASSUME NEW c \in Callers, ReleaseSuccess(c) PROVE CircuitMatchesFailures'
    <3>1. PICK e \in Endpoints : /\ failures' = [failures EXCEPT ![e] = 0]
                                 /\ openedAt' = [openedAt EXCEPT ![e] = Closed]
      BY <2>2 DEF ReleaseSuccess
    <3> QED BY <3>1 DEF CircuitMatchesFailures, TypeOK
  <2>3. ASSUME NEW c \in Callers, ReleaseFailure(c) PROVE CircuitMatchesFailures'
    <3>1. PICK e \in Endpoints :
             /\ failures' = [failures EXCEPT ![e] = @ + 1]
             /\ openedAt' = IF failures[e] + 1 >= FailureThreshold
                            THEN [openedAt EXCEPT ![e] = now] ELSE openedAt
      BY <2>3 DEF ReleaseFailure
    <3>2. now # Closed /\ failures[e] \in Nat
      BY DEF TypeOK
    <3>3. CASE failures[e] + 1 >= FailureThreshold
      BY <3>1, <3>2, <3>3 DEF CircuitMatchesFailures, TypeOK
    <3>4. CASE failures[e] + 1 < FailureThreshold
      BY <3>1, <3>2, <3>4 DEF CircuitMatchesFailures, TypeOK
    <3> QED BY <3>2, <3>3, <3>4
  <2>4. ASSUME UNCHANGED <<failures, openedAt>> PROVE CircuitMatchesFailures'
    BY <2>4 DEF CircuitMatchesFailures
  <2> QED
    BY <2>1, <2>2, <2>3, <2>4
       DEF RegistryNext, Acquire, Grant, Refuse, Wait, Abandon, Release, ReleaseNeutral,
           Tick, registryVars, endpointVars
<1> QED BY <1>1, <1>2, RegistryTypeCorrect, PTL DEF RegistrySpec

-----------------------------------------------------------------------------

\* Every lease is granted on an endpoint whose circuit is closed, or was open
\* for longer than the cooldown and is closed by the grant.
THEOREM LeasesAvoidOpenCircuits == RegistrySpec => GrantsOnClosedCircuits
<1>1. [RegistryNext]_registryVars
      => [\A c \in Callers, e \in Endpoints :
             <<c, e>> \in leases' /\ <<c, e>> \notin leases
             => Available(e) /\ openedAt'[e] = Closed]_registryVars
  <2> SUFFICES ASSUME [RegistryNext]_registryVars,
                      NEW c \in Callers, NEW e \in Endpoints,
                      <<c, e>> \in leases', <<c, e>> \notin leases
               PROVE  Available(e) /\ openedAt'[e] = Closed
    OBVIOUS
  <2>1. PICK b \in Callers : Grant(b)
    BY DEF RegistryNext, Acquire, Refuse, Wait, Abandon, Release, ReleaseSuccess,
           ReleaseFailure, ReleaseNeutral, ReleaseReservation, Tick, registryVars
  <2>2. PICK d \in Eligible(b) : leases' = leases \cup {<<b, d>>}
    BY <2>1 DEF Grant
  <2>3. e = d
    BY <2>2
  <2>4. Available(e)
    BY <2>2, <2>3 DEF Eligible
  <2>5. openedAt'[e] = IF CooledDown(e) THEN Closed ELSE openedAt[e]
    BY <2>1 DEF Grant, ResetCooledDown
  <2> QED BY <2>4, <2>5 DEF Available
<1> QED BY <1>1, PTL DEF RegistrySpec, GrantsOnClosedCircuits

-----------------------------------------------------------------------------
(* The token counters.  The tokens a set of callers takes are counted one by *)
(* one, as a set, so that a sum over the leases is a cardinality.            *)

\* One caller more takes its own tokens and no other; one less gives them back.
LEMMA TokensOfOneMore ==
    ASSUME NEW size \in [Callers -> Nat], NEW S \in SUBSET Callers, NEW c \in Callers \ S,
           IsFiniteSet(Pool!Tokens(size, S))
    PROVE  /\ IsFiniteSet(Pool!Tokens(size, S \cup {c}))
           /\ Cardinality(Pool!Tokens(size, S \cup {c})) = Cardinality(Pool!Tokens(size, S)) + size[c]
<1> DEFINE own == {c} \X (1..size[c])
<1>1. Pool!Tokens(size, S \cup {c}) = Pool!Tokens(size, S) \cup own
  BY Zenon DEF Pool!Tokens
<1>2. Pool!Tokens(size, S) \cap own = {}
  BY DEF Pool!Tokens
<1>3. size[c] \in Nat
  OBVIOUS
<1>4. IsFiniteSet(1..size[c]) /\ Cardinality(1..size[c]) = size[c]
  BY <1>3, FS_Interval
<1>5. IsFiniteSet({c}) /\ Cardinality({c}) = 1
  BY FS_Singleton
<1>6. IsFiniteSet(own) /\ Cardinality(own) = Cardinality({c}) * Cardinality(1..size[c])
  BY <1>4, <1>5, FS_Product
<1>7. Cardinality(own) = size[c]
  BY <1>3, <1>4, <1>5, <1>6
<1> HIDE DEF own
<1>8. /\ IsFiniteSet(Pool!Tokens(size, S) \cup own)
      /\ Cardinality(Pool!Tokens(size, S) \cup own)
           = Cardinality(Pool!Tokens(size, S)) + Cardinality(own) - Cardinality({})
  BY <1>2, <1>6, FS_Union
<1>9. Cardinality(Pool!Tokens(size, S)) \in Nat
  BY FS_CardinalityType
<1>10. Cardinality(Pool!Tokens(size, S) \cup own) = Cardinality(Pool!Tokens(size, S)) + size[c]
  <2>1. ASSUME NEW n \in Nat, NEW k \in Nat PROVE n + k - 0 = n + k
    BY <2>1
  <2> QED BY <1>3, <1>7, <1>8, <1>9, <2>1, FS_EmptySet
<1> QED BY <1>1, <1>8, <1>10

LEMMA TokensOfOneLess ==
    ASSUME NEW size \in [Callers -> Nat], NEW S \in SUBSET Callers, NEW c \in S,
           IsFiniteSet(Pool!Tokens(size, S))
    PROVE  /\ IsFiniteSet(Pool!Tokens(size, S \ {c}))
           /\ Cardinality(Pool!Tokens(size, S)) = Cardinality(Pool!Tokens(size, S \ {c})) + size[c]
<1>1. Pool!Tokens(size, S \ {c}) \in SUBSET Pool!Tokens(size, S)
  BY DEF Pool!Tokens
<1>2. IsFiniteSet(Pool!Tokens(size, S \ {c}))
  BY <1>1, FS_Subset
<1>3. S \ {c} \in SUBSET Callers /\ c \in Callers \ (S \ {c}) /\ (S \ {c}) \cup {c} = S
  OBVIOUS
<1>4. Cardinality(Pool!Tokens(size, (S \ {c}) \cup {c})) = Cardinality(Pool!Tokens(size, S \ {c})) + size[c]
  BY <1>2, <1>3, TokensOfOneMore
<1> QED BY <1>2, <1>3, <1>4

\* Each counter is the number of tokens of the leases on its endpoint: what a
\* release takes off is what its grant put there, and the clamp is never needed.
Counted(counter, size) ==
    \A e \in Endpoints : /\ IsFiniteSet(Pool!Tokens(size, LeasedTo(e)))
                         /\ counter[e] = Cardinality(Pool!Tokens(size, LeasedTo(e)))

TokensCountLeases == Counted(prompt, Prompt) /\ Counted(total, Total)

\* What a grant and a release do to the tokens of an endpoint.
LEMMA GrantedTokens ==
    ASSUME NEW size \in [Callers -> Nat], NEW c \in Callers, NEW e \in Endpoints,
           \A d \in Endpoints : IsFiniteSet(Pool!Tokens(size, LeasedTo(d))),
           <<c, e>> \notin leases, leases' = leases \cup {<<c, e>>}
    PROVE  \A d \in Endpoints :
              /\ IsFiniteSet(Pool!Tokens(size, LeasedTo(d)'))
              /\ Cardinality(Pool!Tokens(size, LeasedTo(d)'))
                   = IF d = e THEN Cardinality(Pool!Tokens(size, LeasedTo(d))) + size[c]
                     ELSE Cardinality(Pool!Tokens(size, LeasedTo(d)))
<1>1. LeasedTo(e) \in SUBSET Callers /\ c \in Callers \ LeasedTo(e)
  BY DEF LeasedTo
<1>2. /\ IsFiniteSet(Pool!Tokens(size, LeasedTo(e) \cup {c}))
      /\ Cardinality(Pool!Tokens(size, LeasedTo(e) \cup {c}))
           = Cardinality(Pool!Tokens(size, LeasedTo(e))) + size[c]
  BY <1>1, TokensOfOneMore
<1> QED BY <1>2, LeasedToGrows

LEMMA ReleasedTokens ==
    ASSUME NEW size \in [Callers -> Nat], NEW c \in Callers, NEW e \in Endpoints,
           \A d \in Endpoints : IsFiniteSet(Pool!Tokens(size, LeasedTo(d))),
           <<c, e>> \in leases, leases' = leases \ {<<c, e>>}
    PROVE  \A d \in Endpoints :
              /\ IsFiniteSet(Pool!Tokens(size, LeasedTo(d)'))
              /\ Cardinality(Pool!Tokens(size, LeasedTo(d)'))
                   = IF d = e THEN NonNegative(Cardinality(Pool!Tokens(size, LeasedTo(d))) - size[c])
                     ELSE Cardinality(Pool!Tokens(size, LeasedTo(d)))
<1>1. LeasedTo(e) \in SUBSET Callers /\ c \in LeasedTo(e)
  BY DEF LeasedTo
<1>2. /\ IsFiniteSet(Pool!Tokens(size, LeasedTo(e) \ {c}))
      /\ Cardinality(Pool!Tokens(size, LeasedTo(e)))
           = Cardinality(Pool!Tokens(size, LeasedTo(e) \ {c})) + size[c]
  BY <1>1, TokensOfOneLess
<1>3. Cardinality(Pool!Tokens(size, LeasedTo(e) \ {c})) \in Nat /\ size[c] \in Nat
  BY <1>2, FS_CardinalityType
<1>4. NonNegative(Cardinality(Pool!Tokens(size, LeasedTo(e))) - size[c])
        = Cardinality(Pool!Tokens(size, LeasedTo(e) \ {c}))
  BY <1>2, <1>3 DEF NonNegative
<1> QED BY <1>2, <1>4, LeasedToShrinks

LEMMA TokensInvariance == RegistrySpec => []TokensCountLeases
<1>1. Init => TokensCountLeases
  <2> SUFFICES ASSUME Init, NEW e \in Endpoints, NEW size
               PROVE  Pool!Tokens(size, LeasedTo(e)) = {}
    BY FS_EmptySet DEF Init, TokensCountLeases, Counted
  <2> QED BY DEF Init, LeasedTo, Pool!Tokens
<1>2. TypeOK /\ OneLeasePerCaller /\ TokensCountLeases /\ [RegistryNext]_registryVars
      => TokensCountLeases'
  <2> SUFFICES ASSUME TypeOK, OneLeasePerCaller, TokensCountLeases, [RegistryNext]_registryVars
               PROVE  TokensCountLeases'
    OBVIOUS
  <2>1. /\ prompt \in [Endpoints -> Nat] /\ Prompt \in [Callers -> Nat]
        /\ total \in [Endpoints -> Nat] /\ Total \in [Callers -> Nat]
    BY RegistryAssumption DEF TypeOK
  <2>2. ASSUME NEW c \in Callers, Grant(c) PROVE TokensCountLeases'
    <3>1. PICK e \in Endpoints : /\ prompt' = [prompt EXCEPT ![e] = @ + Prompt[c]]
                                 /\ total' = [total EXCEPT ![e] = @ + Total[c]]
                                 /\ leases' = leases \cup {<<c, e>>}
      BY <2>2 DEF Grant, Eligible
    <3>2. <<c, e>> \notin leases
      BY <2>2 DEF Grant, Entering, OneLeasePerCaller
    <3>3. Counted(prompt, Prompt) /\ Counted(total, Total)
      BY DEF TokensCountLeases
    <3>4. Counted(prompt, Prompt)'
      BY <2>1, <3>1, <3>2, <3>3, GrantedTokens DEF Counted
    <3>5. Counted(total, Total)'
      BY <2>1, <3>1, <3>2, <3>3, GrantedTokens DEF Counted
    <3> QED BY <3>4, <3>5 DEF TokensCountLeases
  <2>3. ASSUME NEW c \in Callers, Release(c) PROVE TokensCountLeases'
    <3>1. PICK e \in Endpoints : ReleaseReservation(c, e)
      BY <2>3 DEF Release, ReleaseSuccess, ReleaseFailure, ReleaseNeutral
    <3>2. Counted(prompt, Prompt) /\ Counted(total, Total)
      BY DEF TokensCountLeases
    <3>3. Counted(prompt, Prompt)'
      BY <2>1, <3>1, <3>2, ReleasedTokens DEF Counted, ReleaseReservation
    <3>4. Counted(total, Total)'
      BY <2>1, <3>1, <3>2, ReleasedTokens DEF Counted, ReleaseReservation
    <3> QED BY <3>3, <3>4 DEF TokensCountLeases
  <2>4. ASSUME UNCHANGED <<prompt, total, leases>> PROVE TokensCountLeases'
    BY <2>4 DEF TokensCountLeases, Counted, LeasedTo
  <2> QED
    BY <2>2, <2>3, <2>4
       DEF RegistryNext, Acquire, Refuse, Wait, Abandon, Tick, registryVars, endpointVars
<1> QED BY <1>1, <1>2, RegistryTypeCorrect, CallersHoldOneLease, PTL DEF RegistrySpec

-----------------------------------------------------------------------------

\* With no lease held every counter is zero.
LEMMA NoLeaseNothingReserved ==
    ASSUME RequestsCountLeases, TokensCountLeases, leases = {}, NEW e \in Endpoints
    PROVE  requests[e] = 0 /\ prompt[e] = 0 /\ total[e] = 0
<1>1. LeasedTo(e) = {} /\ \A size : Pool!Tokens(size, LeasedTo(e)) = {}
  BY DEF LeasedTo, Pool!Tokens
<1> QED BY <1>1, FS_EmptySet DEF RequestsCountLeases, TokensCountLeases, Counted

\* A caller whose request fits every endpoint sleeps only while somebody holds a
\* lease, and so can wake it: no interleaving leaves it asleep for ever.
THEOREM WaitersHaveWakers == RegistrySpec => []WaiterHasWaker
<1>1. Init => WaiterHasWaker
  BY DEF Init, WaiterHasWaker
<1>2. /\ TypeOK /\ RequestsCountLeases /\ TokensCountLeases /\ WaiterHasWaker
      /\ [RegistryNext]_registryVars
      => WaiterHasWaker'
  <2> SUFFICES ASSUME TypeOK, RequestsCountLeases, TokensCountLeases, WaiterHasWaker,
                      [RegistryNext]_registryVars
               PROVE  WaiterHasWaker'
    OBVIOUS
  <2>1. ASSUME NEW c \in Callers, Grant(c) PROVE WaiterHasWaker'
    BY <2>1 DEF Grant, WaiterHasWaker
  <2>2. ASSUME NEW c \in Callers, Wait(c) PROVE WaiterHasWaker'
    <3>1. leases' = leases /\ waiter' = [waiter EXCEPT ![c] = "waiting"]
      BY <2>2 DEF Wait
    <3>2. Fits(c) => leases # {}
      <4> SUFFICES ASSUME Fits(c), leases = {} PROVE FALSE
        OBVIOUS
      <4>1. PICK e \in Endpoints : Available(e)
        BY <2>2 DEF Wait
      <4>2. /\ Prompt[c] \in Nat /\ Total[c] \in Nat /\ MaxConcurrency[e] \in Nat \ {0}
            /\ Prompt[c] <= MaxPrompt[e] /\ Total[c] <= MaxTotal[e]
        BY RegistryAssumption DEF Fits
      <4>3. HasCapacity(e, c)
        BY <4>2, NoLeaseNothingReserved DEF HasCapacity
      <4> QED BY <2>2, <4>1, <4>3 DEF Wait, Eligible
    <3> QED BY <3>1, <3>2 DEF WaiterHasWaker, TypeOK, Fits
  <2>3. ASSUME NEW c \in Callers, Release(c) PROVE WaiterHasWaker'
    BY <2>3 DEF Release, ReleaseSuccess, ReleaseFailure, ReleaseNeutral, NotifyAll, WaiterHasWaker, TypeOK
  <2>4. ASSUME NEW c \in Callers, Refuse(c) \/ Abandon(c) PROVE WaiterHasWaker'
    BY <2>4 DEF Refuse, Abandon, WaiterHasWaker, TypeOK, Fits
  <2>5. ASSUME UNCHANGED <<leases, waiter>> PROVE WaiterHasWaker'
    BY <2>5 DEF WaiterHasWaker, Fits
  <2> QED
    BY <2>1, <2>2, <2>3, <2>4, <2>5 DEF RegistryNext, Acquire, Tick, registryVars
<1> QED
  BY <1>1, <1>2, RegistryTypeCorrect, RequestsAreCounted, TokensInvariance, PTL DEF RegistrySpec

-----------------------------------------------------------------------------
(* The registry implements the pool of leases.                              *)

Held == [c \in Callers |-> {e \in Endpoints : <<c, e>> \in leases}]
Asleep == {c \in Callers : waiter[c] = "waiting"}

\* The counters, the circuits apart, tell what the leases tell: an endpoint has
\* capacity by its counters exactly when the requests it holds leave room.
LEMMA CapacityIsRoom ==
    ASSUME RequestsCountLeases, TokensCountLeases, NEW c \in Callers, NEW e \in Endpoints
    PROVE  HasCapacity(e, c) <=> Pool!HasRoom(e, c)
<1>0. \A S : Pool!Cardinality(S) = Cardinality(S)
  BY DEF Pool!Cardinality, Cardinality
<1>1. Pool!Holders(e) = LeasedTo(e)
  BY DEF Pool!Holders, LeasedTo
<1>2. /\ requests[e] = Cardinality(LeasedTo(e))
      /\ prompt[e] = Cardinality(Pool!Tokens(Prompt, LeasedTo(e)))
      /\ total[e] = Cardinality(Pool!Tokens(Total, LeasedTo(e)))
  BY DEF RequestsCountLeases, TokensCountLeases, Counted
<1>3. HasCapacity(e, c) <=> /\ Cardinality(LeasedTo(e)) < MaxConcurrency[e]
                            /\ Cardinality(Pool!Tokens(Prompt, LeasedTo(e))) + Prompt[c] <= MaxPrompt[e]
                            /\ Cardinality(Pool!Tokens(Total, LeasedTo(e))) + Total[c] <= MaxTotal[e]
  BY <1>2 DEF HasCapacity
<1>4. Pool!HasRoom(e, c) <=> /\ Cardinality(LeasedTo(e)) < MaxConcurrency[e]
                             /\ Cardinality(Pool!Tokens(Prompt, LeasedTo(e))) + Prompt[c] <= MaxPrompt[e]
                             /\ Cardinality(Pool!Tokens(Total, LeasedTo(e))) + Total[c] <= MaxTotal[e]
  BY <1>0, <1>1 DEF Pool!HasRoom
<1> QED BY <1>3, <1>4

\* Every step of the registry is a step of the pool or changes nothing of it: a
\* lease is given only where the leases held leave room, a caller sleeps only when
\* some endpoint has none, and whatever is given back wakes every sleeper.
THEOREM RegistryImplementsPool == RegistrySpec => ImplementsPool
<1>1. Init => Pool!PoolInit
  BY DEF Init, Pool!PoolInit
<1>2. /\ TypeOK /\ OneLeasePerCaller /\ RequestsCountLeases /\ TokensCountLeases
      /\ [RegistryNext]_registryVars
      => [Pool!PoolNext]_Pool!poolVars
  <2> SUFFICES ASSUME TypeOK, OneLeasePerCaller, RequestsCountLeases, TokensCountLeases,
                      [RegistryNext]_registryVars
               PROVE  [Pool!PoolNext]_Pool!poolVars
    OBVIOUS
  <2>1. ASSUME NEW c \in Callers, Grant(c) PROVE Pool!Take(c)
    <3>0. PICK e \in Eligible(c) : leases' = leases \cup {<<c, e>>}
      BY <2>1 DEF Grant
    <3>1. e \in Endpoints /\ HasCapacity(e, c) /\ leases' = leases \cup {<<c, e>>}
      BY <3>0 DEF Eligible
    <3>2. waiter' = [waiter EXCEPT ![c] = "leased"] /\ waiter[c] \in {"out", "notified"}
      BY <2>1 DEF Grant, Entering
    <3>3. Held[c] = {}
      BY <3>2 DEF Held, OneLeasePerCaller
    <3>4. Held' = [Held EXCEPT ![c] = {e}]
      BY <3>1, <3>3 DEF Held
    <3>5. c \notin Asleep /\ Asleep' = Asleep
      BY <3>2 DEF Asleep, TypeOK
    <3>6. Pool!HasRoom(e, c)
      BY <3>1, CapacityIsRoom
    <3> QED BY <3>3, <3>4, <3>5, <3>6 DEF Pool!Take, Held, Asleep
  <2>2. ASSUME NEW c \in Callers, Wait(c) PROVE Pool!Block(c)
    <3>1. leases' = leases /\ waiter' = [waiter EXCEPT ![c] = "waiting"] /\ waiter[c] \in {"out", "notified"}
      BY <2>2 DEF Wait, Entering
    <3>2. PICK e \in Endpoints : ~HasCapacity(e, c)
      BY <2>2 DEF Wait, Eligible
    <3>3. Held[c] = {} /\ Held' = Held
      BY <3>1 DEF Held, OneLeasePerCaller
    <3>4. c \notin Asleep /\ Asleep' = Asleep \cup {c}
      BY <3>1 DEF Asleep, TypeOK
    <3>5. ~Pool!HasRoom(e, c)
      BY <3>2, CapacityIsRoom
    <3> QED BY <3>3, <3>4, <3>5 DEF Pool!Block, Held, Asleep
  <2>3. ASSUME NEW c \in Callers, Release(c) PROVE Pool!GiveBack(c)
    <3>1. PICK e \in Endpoints : <<c, e>> \in leases /\ leases' = leases \ {<<c, e>>}
      BY <2>3 DEF Release, ReleaseSuccess, ReleaseFailure, ReleaseNeutral, ReleaseReservation
    <3>2. Held[c] = {e}
      BY <3>1 DEF Held, OneLeasePerCaller
    <3>3. Held' = [Held EXCEPT ![c] = {}]
      BY <3>1, <3>2 DEF Held
    <3>4. Asleep' = {}
      BY <2>3 DEF Release, ReleaseSuccess, ReleaseFailure, ReleaseNeutral, NotifyAll, Asleep
    <3> QED BY <3>2, <3>3, <3>4 DEF Pool!GiveBack, Held, Asleep
  <2>4. ASSUME NEW c \in Callers, Refuse(c) PROVE UNCHANGED <<Held, Asleep>>
    <3>1. leases' = leases /\ waiter' = [waiter EXCEPT ![c] = "out"] /\ waiter[c] # "waiting"
      BY <2>4 DEF Refuse, Entering
    <3> QED BY <3>1 DEF Held, Asleep, TypeOK
  <2>5. ASSUME NEW c \in Callers, Abandon(c)
        PROVE  Pool!GiveUp(c) \/ UNCHANGED <<Held, Asleep>>
    <3>1. leases' = leases /\ waiter' = [waiter EXCEPT ![c] = "out"]
      BY <2>5 DEF Abandon
    <3>2. Held' = Held /\ Asleep' = Asleep \ {c}
      BY <3>1 DEF Held, Asleep, TypeOK
    <3>3. CASE c \in Asleep
      BY <3>2, <3>3 DEF Pool!GiveUp, Held, Asleep
    <3>4. CASE c \notin Asleep
      BY <3>2, <3>4
    <3> QED BY <3>3, <3>4
  <2>6. ASSUME UNCHANGED <<leases, waiter>> PROVE UNCHANGED <<Held, Asleep>>
    BY <2>6 DEF Held, Asleep
  <2>7. UNCHANGED <<Held, Asleep>> => UNCHANGED Pool!poolVars
    BY DEF Held, Asleep, Pool!poolVars
  <2> QED
    BY <2>1, <2>2, <2>3, <2>4, <2>5, <2>6, <2>7
       DEF RegistryNext, Acquire, Tick, registryVars, Pool!PoolNext
<1> QED
  BY <1>1, <1>2, RegistryTypeCorrect, CallersHoldOneLease, RequestsAreCounted, TokensInvariance, PTL
     DEF RegistrySpec, ImplementsPool, Pool!PoolSpec

=============================================================================

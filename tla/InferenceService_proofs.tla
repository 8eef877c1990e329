------------------------ MODULE InferenceService_proofs ------------------------
(***************************************************************************)
(* InferenceService: its calls are bounded, it leaks no lease and gives    *)
(* none back twice, for any callers, endpoints, limits and number of       *)
(* requests.  What is proved of the registry is used through the lemma     *)
(* that every step of the service is one of the registry's or none.        *)
(***************************************************************************)
EXTENDS InferenceService, InstanceRegistry_proofs

-----------------------------------------------------------------------------
\* Every step of the service is a step of the registry or does not touch it, as both
\* are written: what is proved of the registry may be used for the service.
LEMMA ServiceUsesTheRegistry == ServiceSpec => RegistrySpec
<1>1. ServiceInit => Init
    BY DEF ServiceInit
<1>2. [ServiceNext]_serviceVars => [RegistryNext]_registryVars
    <2> SUFFICES ASSUME [ServiceNext]_serviceVars PROVE [RegistryNext]_registryVars
        OBVIOUS
    <2>1. ASSUME NEW c \in Callers, Send(c) PROVE UNCHANGED registryVars
        BY <2>1 DEF Send
    <2>2. ASSUME NEW c \in Callers, AcquireLease(c) PROVE Acquire(c)
        BY <2>2 DEF AcquireLease, Acquire
    <2>3. ASSUME NEW c \in Callers, ModelReturns(c) PROVE Release(c) \/ UNCHANGED registryVars
        BY <2>3 DEF ModelReturns, ModelAnswers, ModelTruncates, ModelNeedsRepair, ModelInvalid, ModelFails,
                    ModelExceedsContext, GiveBack, Release
    <2>4. ASSUME NEW c \in Callers, CancelledWaiting(c) PROVE Abandon(c)
        BY <2>4 DEF CancelledWaiting
    <2>5. CASE TimePasses
        BY <2>5 DEF TimePasses, RegistryNext
    <2>6. CASE UNCHANGED serviceVars
        BY <2>6 DEF serviceVars
    <2>7. QED
        BY <2>1, <2>2, <2>3, <2>4, <2>5, <2>6 DEF ServiceNext, RegistryNext
<1>3. QED
    BY <1>1, <1>2, PTL DEF ServiceSpec, RegistrySpec

-----------------------------------------------------------------------------
(* The calls of one request.                                                *)

JobTypeOK == job \in [Callers -> Job]

\* How many calls a request has made where it is: in each round at most two.
CallsFit(j) ==
    /\ j.op = "none" => j.stage = "idle"
    /\ j.op = "review" =>
         /\ j.stage = "acquire" => j.modelCalls <= 2 * (j.round - 1)
         /\ j.stage = "calling" => j.modelCalls <= 2 * j.round - 1
         /\ j.stage = "repairing" => j.modelCalls <= 2 * j.round
         /\ j.stage # "idle"
    /\ j.op = "single" =>
         /\ j.stage = "acquire" => j.modelCalls = 0
         /\ j.stage = "calling" => j.modelCalls = 1
         /\ j.stage \in {"acquire", "calling"}

CallsInv == JobTypeOK /\ \A c \in Callers : CallsFit(job[c])

\* What a step makes of the job of its caller decides.
LEMMA OneJobChanges ==
    ASSUME CallsInv, NEW c \in Callers, NEW j \in Job, CallsFit(j), job' = [job EXCEPT ![c] = j]
    PROVE  CallsInv'
BY DEF CallsInv, JobTypeOK, CallsFit

LEMMA EndKeepsCalls ==
    ASSUME CallsInv, NEW c \in Callers, End(c)
    PROVE  CallsInv'
<1>1. IdleJob \in Job /\ CallsFit(IdleJob)
    BY DEF IdleJob, Job, Rounds, CallsFit
<1>2. QED
    BY <1>1, OneJobChanges DEF End

\* A new round has two calls more to spend.
LEMMA RetryKeepsCalls ==
    ASSUME CallsInv, NEW c \in Callers, NEW r \in Rounds, Retry(c, r), job[c].op = "review",
           job[c].round < r
    PROVE  CallsInv'
<1> DEFINE j == [job[c] EXCEPT !.stage = "acquire", !.round = r]
<1>1. job[c] \in Job /\ CallsFit(job[c]) /\ job' = [job EXCEPT ![c] = j]
    BY DEF CallsInv, JobTypeOK, Retry
<1>2. j \in Job /\ j.op = "review" /\ j.stage = "acquire" /\ j.round = r /\ j.modelCalls = job[c].modelCalls
    BY <1>1 DEF Job
<1>3. job[c].modelCalls <= 2 * job[c].round
    <2>1. /\ job[c].modelCalls \in Nat /\ job[c].round \in 1..3
          /\ job[c].stage \in {"idle", "acquire", "calling", "repairing"}
        BY <1>1 DEF Job, Rounds
    <2>2. QED
        BY <1>1, <2>1 DEF CallsFit
<1>4. j.modelCalls <= 2 * (j.round - 1)
    BY <1>1, <1>2, <1>3 DEF Job, Rounds
<1> HIDE DEF j
<1>5. CallsFit(j)
    BY <1>2, <1>4 DEF CallsFit
<1>6. QED
    BY <1>1, <1>2, <1>5, OneJobChanges

LEMMA AttemptsKeepCalls ==
    ASSUME CallsInv, NEW c \in Callers, AttemptFails(c) \/ AttemptIncomplete(c)
    PROVE  CallsInv'
<1>1. job[c].round \in 1..3
    BY DEF CallsInv, JobTypeOK, Job, Rounds
<1>2. CASE End(c)
    BY <1>2, EndKeepsCalls
<1>3. CASE Retry(c, 2) /\ job[c].op = "review" /\ job[c].round = 1
    BY <1>3, RetryKeepsCalls DEF Rounds
<1>4. CASE Retry(c, 3) /\ job[c].op = "review" /\ job[c].round # 3
    BY <1>1, <1>4, RetryKeepsCalls DEF Rounds
<1>5. QED
    BY <1>2, <1>3, <1>4 DEF AttemptFails, AttemptIncomplete, Compressed

LEMMA CallsStep == CallsInv /\ [ServiceNext]_serviceVars => CallsInv'
<1> SUFFICES ASSUME CallsInv, [ServiceNext]_serviceVars PROVE CallsInv'
    OBVIOUS
<1>1. ASSUME NEW c \in Callers, Send(c) PROVE CallsInv'
    <2>1. PICK op \in {"review", "single"} :
             job' = [job EXCEPT ![c] = [IdleJob EXCEPT !.op = op, !.stage = "acquire"]]
        BY <1>1 DEF Send
    <2> DEFINE j == [IdleJob EXCEPT !.op = op, !.stage = "acquire"]
    <2>2. IdleJob \in Job /\ IdleJob.round = 1 /\ IdleJob.modelCalls = 0
        BY DEF IdleJob, Job, Rounds
    <2>3. /\ j \in Job /\ j.op # "none" /\ j.stage = "acquire" /\ j.round = 1 /\ j.modelCalls = 0
        BY <2>2 DEF Job
    <2> HIDE DEF j
    <2>4. CallsFit(j)
        BY <2>3 DEF CallsFit
    <2>5. QED
        BY <2>1, <2>3, <2>4, OneJobChanges DEF j
<1>2. ASSUME NEW c \in Callers, NEW stage \in {"calling", "repairing"},
             job' = [job EXCEPT ![c].stage = stage, ![c].modelCalls = @ + 1],
             stage = "calling" => job[c].stage = "acquire",
             stage = "repairing" => job[c].stage = "calling" /\ job[c].op = "review"
      PROVE  CallsInv'
    <2> DEFINE j == [job[c] EXCEPT !.stage = stage, !.modelCalls = @ + 1]
    <2>1. /\ job[c] \in Job /\ CallsFit(job[c]) /\ job' = [job EXCEPT ![c] = j]
          /\ job[c].round \in 1..3 /\ job[c].modelCalls \in Nat
        BY <1>2 DEF CallsInv, JobTypeOK, Job, Rounds
    <2>2. /\ j \in Job /\ j.op = job[c].op /\ j.stage = stage /\ j.round = job[c].round
          /\ j.modelCalls = job[c].modelCalls + 1
        <3>1. job[c].modelCalls + 1 \in Nat /\ stage \in {"idle", "acquire", "calling", "repairing"}
            BY <2>1
        <3>2. QED
            BY <2>1, <3>1 DEF Job
    <2> HIDE DEF j
    <2>3. CallsFit(j)
        BY <1>2, <2>1, <2>2 DEF CallsFit
    <2>4. QED
        BY <2>1, <2>2, <2>3, OneJobChanges
<1>3. ASSUME NEW c \in Callers, AcquireLease(c) PROVE CallsInv'
    <2>1. CASE job' = [job EXCEPT ![c].stage = "calling", ![c].modelCalls = @ + 1]
        BY <1>2, <1>3, <2>1 DEF AcquireLease, At
    <2>2. CASE UNCHANGED job
        BY <2>2 DEF CallsInv, JobTypeOK
    <2>3. CASE AttemptFails(c)
        BY <2>3, AttemptsKeepCalls
    <2>4. QED
        BY <1>3, <2>1, <2>2, <2>3 DEF AcquireLease
<1>4. ASSUME NEW c \in Callers, ModelNeedsRepair(c) PROVE CallsInv'
    BY <1>2, <1>4 DEF ModelNeedsRepair, At
<1>5. ASSUME NEW c \in Callers, ModelReturns(c) \/ CancelledWaiting(c) PROVE CallsInv'
    BY <1>4, <1>5, EndKeepsCalls, AttemptsKeepCalls
       DEF ModelReturns, ModelAnswers, ModelTruncates, ModelInvalid, ModelFails, ModelExceedsContext,
           CancelledWaiting
<1>6. CASE TimePasses \/ UNCHANGED serviceVars
    BY <1>6 DEF TimePasses, serviceVars, CallsInv, JobTypeOK
<1>7. QED
    BY <1>1, <1>3, <1>5, <1>6 DEF ServiceNext

LEMMA CallsStart == ServiceInit => CallsInv
BY DEF ServiceInit, CallsInv, JobTypeOK, IdleJob, Job, Rounds, CallsFit

LEMMA CallsInvariance == ServiceSpec => []CallsInv
BY CallsStart, CallsStep, PTL DEF ServiceSpec

\* Retries, the repair and the compressed round ask the model a bounded number of
\* times, whatever fails and however callers interleave.
THEOREM CallsAreBounded == ServiceSpec => []ModelCallsBounded
<1>1. CallsInv => ModelCallsBounded
    <2> SUFFICES ASSUME CallsInv, NEW c \in Callers
                 PROVE  /\ job[c].op = "review" => job[c].modelCalls <= 2 * job[c].round
                        /\ job[c].op = "single" => job[c].modelCalls <= 1
        BY DEF ModelCallsBounded
    <2>1. /\ CallsFit(job[c]) /\ job[c].modelCalls \in Nat /\ job[c].round \in 1..3
          /\ job[c].stage \in {"idle", "acquire", "calling", "repairing"}
        BY DEF CallsInv, JobTypeOK, Job, Rounds
    <2>2. QED
        BY <2>1 DEF CallsFit
<1>2. QED
    BY <1>1, CallsInvariance, PTL

-----------------------------------------------------------------------------
(* Leases.                                                                  *)

\* A caller is at the model exactly while the registry counts a lease for it.
CallIsLease == JobTypeOK /\ \A c \in Callers : Calling(c) <=> waiter[c] = "leased"

\* What is given back at the model is held: the registry refuses none of it.
LEMMA GivenBackWhatIsHeld ==
    ASSUME OneLeasePerCaller, CallIsLease, NEW c \in Callers, Calling(c),
           NEW outcome, GiveBack(c, outcome)
    PROVE  Release(c) /\ UNCHANGED refused
<1>1. HasLease(c)
    BY DEF CallIsLease, OneLeasePerCaller, HasLease
<1>2. QED
    BY <1>1 DEF GiveBack, Release

LEMMA CallIsLeaseStep ==
    TypeOK /\ OneLeasePerCaller /\ CallsInv /\ CallIsLease /\ [ServiceNext]_serviceVars
    => CallIsLease' /\ UNCHANGED refused
<1> SUFFICES ASSUME TypeOK, OneLeasePerCaller, CallsInv, CallIsLease, [ServiceNext]_serviceVars
             PROVE  CallIsLease' /\ UNCHANGED refused
    OBVIOUS
<1>1. JobTypeOK'
    BY CallsStep DEF CallsInv
<1>2. ASSUME NEW c \in Callers, \A d \in Callers \ {c} : job'[d] = job[d] /\ (waiter'[d] = "leased" <=> waiter[d] = "leased"),
             job'[c].stage \in {"calling", "repairing"} <=> waiter'[c] = "leased"
      PROVE  CallIsLease'
    BY <1>1, <1>2 DEF CallIsLease, Calling, At
<1>3. \A c \in Callers : Release(c) \/ Abandon(c) \/ Refuse(c) \/ Wait(c) =>
         /\ waiter'[c] # "leased"
         /\ \A d \in Callers \ {c} : waiter'[d] = "leased" <=> waiter[d] = "leased"
    BY DEF Release, ReleaseSuccess, ReleaseFailure, ReleaseNeutral, NotifyAll, Abandon, Refuse, Wait, TypeOK
<1>4. \A c \in Callers : AttemptFails(c) \/ AttemptIncomplete(c) \/ End(c) =>
         /\ job'[c].stage \in {"idle", "acquire"}
         /\ \A d \in Callers \ {c} : job'[d] = job[d]
    BY DEF AttemptFails, AttemptIncomplete, End, Retry, IdleJob, CallsInv, JobTypeOK, Job
<1>5. ASSUME NEW c \in Callers, Send(c) PROVE CallIsLease' /\ UNCHANGED refused
    <2>1. /\ waiter' = waiter /\ waiter[c] # "leased" /\ job'[c].stage = "acquire"
          /\ \A d \in Callers \ {c} : job'[d] = job[d]
        BY <1>5 DEF Send, registryVars, CallIsLease, Calling, At, IdleJob, JobTypeOK, Job
    <2>2. QED
        BY <1>2, <1>5, <2>1 DEF Send
<1>6. ASSUME NEW c \in Callers, AcquireLease(c) PROVE CallIsLease' /\ UNCHANGED refused
    <2> UNCHANGED refused
        BY <1>6 DEF AcquireLease
    <2>1. CASE Grant(c) /\ job' = [job EXCEPT ![c].stage = "calling", ![c].modelCalls = @ + 1]
        <3>1. /\ waiter'[c] = "leased" /\ \A d \in Callers \ {c} : waiter'[d] = waiter[d]
              /\ job'[c].stage = "calling" /\ \A d \in Callers \ {c} : job'[d] = job[d]
            BY <2>1 DEF Grant, TypeOK, CallsInv, JobTypeOK, Job
        <3>2. QED
            BY <1>2, <3>1
    <2>2. CASE Wait(c) /\ UNCHANGED job
        BY <1>2, <1>3, <1>6, <2>2 DEF AcquireLease, At
    <2>3. CASE Refuse(c) /\ AttemptFails(c)
        BY <1>2, <1>3, <1>4, <2>3
    <2>4. QED
        BY <1>6, <2>1, <2>2, <2>3 DEF AcquireLease
<1>7. ASSUME NEW c \in Callers, ModelNeedsRepair(c) PROVE CallIsLease' /\ UNCHANGED refused
    <2>1. /\ waiter' = waiter /\ waiter[c] = "leased" /\ job'[c].stage = "repairing"
          /\ \A d \in Callers \ {c} : job'[d] = job[d]
        BY <1>7 DEF ModelNeedsRepair, registryVars, CallIsLease, Calling, At, JobTypeOK, Job
    <2>2. QED
        BY <1>2, <1>7, <2>1 DEF ModelNeedsRepair
<1>8. ASSUME NEW c \in Callers, ModelReturns(c) \/ CancelledWaiting(c) PROVE CallIsLease' /\ UNCHANGED refused
    <2>1. CASE ModelNeedsRepair(c)
        BY <1>7, <2>1
    <2>2. CASE /\ Release(c) \/ Abandon(c)
               /\ AttemptFails(c) \/ AttemptIncomplete(c) \/ End(c)
               /\ UNCHANGED refused
        BY <1>2, <1>3, <1>4, <2>2
    <2>3. CASE CancelledWaiting(c)
        BY <2>2, <2>3 DEF CancelledWaiting
    <2>4. ASSUME Calling(c), NEW outcome, GiveBack(c, outcome),
                 AttemptFails(c) \/ AttemptIncomplete(c) \/ End(c)
          PROVE  CallIsLease' /\ UNCHANGED refused
        BY <2>2, <2>4, GivenBackWhatIsHeld
    <2>5. QED
        BY <1>8, <2>1, <2>3, <2>4
           DEF ModelReturns, ModelAnswers, ModelTruncates, ModelInvalid, ModelFails, ModelExceedsContext
<1>9. CASE TimePasses \/ UNCHANGED serviceVars
    BY <1>1, <1>9 DEF TimePasses, Tick, serviceVars, registryVars, CallIsLease, Calling, At
<1>10. QED
    BY <1>5, <1>6, <1>8, <1>9 DEF ServiceNext

LEMMA CallIsLeaseStart == ServiceInit => CallIsLease /\ NoSecondRelease
BY DEF ServiceInit, Init, CallIsLease, Calling, At, JobTypeOK, IdleJob, Job, Rounds, NoSecondRelease

LEMMA CallIsLeaseInvariance == ServiceSpec => []CallIsLease /\ []NoSecondRelease
<1>1. /\ TypeOK /\ OneLeasePerCaller /\ CallsInv /\ CallIsLease /\ NoSecondRelease
      /\ [ServiceNext]_serviceVars
      => CallIsLease' /\ NoSecondRelease'
    BY CallIsLeaseStep DEF NoSecondRelease
<1>2. QED
    BY <1>1, CallIsLeaseStart, CallsInvariance, ServiceUsesTheRegistry, RegistryTypeCorrect,
       CallersHoldOneLease, PTL DEF ServiceSpec

\* No path through truncation, repair, errors and cancellation gives a lease back that
\* it has given back: the registry never refuses a release.
THEOREM LeasesAreGivenBackOnce == ServiceSpec => []NoSecondRelease
BY CallIsLeaseInvariance

\* When nobody is at the model no lease is held and no endpoint counts a request or
\* a token: no path through retries, repair, errors and cancellations leaks one.
THEOREM NoLeaseLeaks == ServiceSpec => []NothingLeftInFlight
<1>1. ASSUME TypeOK, OneLeasePerCaller, RequestsCountLeases, TokensCountLeases, CallIsLease
      PROVE  NothingLeftInFlight
    <2> SUFFICES ASSUME \A c \in Callers : ~Calling(c)
                 PROVE  leases = {} /\ \A e \in Endpoints : requests[e] = 0 /\ prompt[e] = 0 /\ total[e] = 0
        BY DEF NothingLeftInFlight
    <2>1. leases = {}
        <3> SUFFICES ASSUME NEW l \in leases PROVE FALSE
            OBVIOUS
        <3>1. PICK c \in Callers, e \in Endpoints : l = <<c, e>>
            BY <1>1 DEF TypeOK
        <3>2. waiter[c] = "leased"
            BY <1>1, <3>1 DEF OneLeasePerCaller
        <3>3. QED
            BY <1>1, <3>2 DEF CallIsLease
    <2>2. QED
        BY <1>1, <2>1, NoLeaseNothingReserved
<1>2. QED
    BY <1>1, CallIsLeaseInvariance, ServiceUsesTheRegistry, RegistryTypeCorrect,
       CallersHoldOneLease, RequestsAreCounted, TokensInvariance, PTL

===============================================================================

--------------------------- MODULE InferenceService ---------------------------
(***************************************************************************)
(* InferenceService: a review asks the model under a lease of the registry,*)
(* repairs an invalid answer under the same lease, retries a failed call   *)
(* once and asks for a compressed answer when the first was truncated or   *)
(* invalid.  A follow-up answer or a fix proposal is one single call.      *)
(* The streaming variant takes the same leases in the same order.          *)
(***************************************************************************)
EXTENDS InstanceRegistry

CONSTANT MaxRequests   \* bound: requests each caller sends

ASSUME ServiceAssumption == MaxRequests \in Nat

VARIABLES
    job,     \* what each caller is doing
    served,  \* requests each caller has sent
    refused  \* observed: releases the registry refused with a ValueError

serviceVars == <<registryVars, job, served, refused>>

Rounds == 1..3   \* the two tries of review, then the compressed one
Compressed == 3

Job ==
    [op : {"none", "review", "single"},
     stage : {"idle", "acquire", "calling", "repairing"},
     round : Rounds,
     modelCalls : Nat]   \* calls made to the model for this request

IdleJob == [op |-> "none", stage |-> "idle", round |-> 1, modelCalls |-> 0]

ServiceInit ==
    /\ Init
    /\ job = [c \in Callers |-> IdleJob]
    /\ served = [c \in Callers |-> 0]
    /\ refused = 0

-----------------------------------------------------------------------------
At(c, stage) == job[c].stage = stage
Calling(c) == At(c, "calling") \/ At(c, "repairing")

End(c) == job' = [job EXCEPT ![c] = IdleJob]
Retry(c, round) == job' = [job EXCEPT ![c].stage = "acquire", ![c].round = round]

Send(c) ==
    /\ At(c, "idle") /\ served[c] < MaxRequests
    /\ \E op \in {"review", "single"} :
          job' = [job EXCEPT ![c] = [IdleJob EXCEPT !.op = op, !.stage = "acquire"]]
    /\ served' = [served EXCEPT ![c] = @ + 1]
    /\ UNCHANGED <<registryVars, refused>>

\* Seeded mistake: every failed try is repeated.
AttemptAlwaysRepeats(c) == IF job[c].op = "review" THEN Retry(c, 2) ELSE End(c)

\* An attempt failed with an exception of the client or of the registry: the
\* first try is repeated, every other one ends the request with an error.
AttemptFails(c) ==
    IF job[c].op = "review" /\ job[c].round = 1 THEN Retry(c, 2) ELSE End(c)

\* An attempt gave a truncated or undecodable answer: the compressed prompt is
\* tried once.
AttemptIncomplete(c) ==
    IF job[c].op = "review" /\ job[c].round # Compressed THEN Retry(c, Compressed) ELSE End(c)

AcquireLease(c) ==
    /\ At(c, "acquire")
    /\ \/ Grant(c) /\ job' = [job EXCEPT ![c].stage = "calling", ![c].modelCalls = @ + 1]
       \/ Wait(c) /\ UNCHANGED job
       \/ Refuse(c) /\ AttemptFails(c)
    /\ UNCHANGED <<served, refused>>

\* release_success, release_failure or release_neutral.  The service never asks whether
\* the lease is still held: _release_reservation does, and a lease that it does not
\* know is a ValueError that changes nothing.
HasLease(c) == \E e \in Endpoints : <<c, e>> \in leases

GiveBack(c, outcome) ==
    \/ /\ \/ outcome = "success" /\ ReleaseSuccess(c)
          \/ outcome = "failure" /\ ReleaseFailure(c)
          \/ outcome = "neutral" /\ ReleaseNeutral(c)
       /\ UNCHANGED refused
    \/ /\ ~HasLease(c)
       /\ refused' = refused + 1
       /\ UNCHANGED registryVars

\* A usable answer, or one that a single call reports as unusable.
ModelAnswers(c) ==
    /\ Calling(c)
    /\ GiveBack(c, "success")
    /\ End(c)
    /\ UNCHANGED served

\* Seeded mistake: the lease is given back, but the code that decodes the answer runs
\* on, and gives it back again.
ModelTruncatesRunsOn(c) ==
    /\ Calling(c) /\ job[c].op = "review"
    /\ GiveBack(c, "success")
    /\ UNCHANGED <<job, served>>

\* The answer is cut off: the endpoint did its work.
ModelTruncates(c) ==
    /\ Calling(c) /\ job[c].op = "review"
    /\ GiveBack(c, "success")
    /\ AttemptIncomplete(c)
    /\ UNCHANGED served

\* The first answer does not decode: it is sent back once, on the same lease.
ModelNeedsRepair(c) ==
    /\ At(c, "calling") /\ job[c].op = "review"
    /\ job' = [job EXCEPT ![c].stage = "repairing", ![c].modelCalls = @ + 1]
    /\ UNCHANGED <<registryVars, served, refused>>

\* A ValueError: the repaired answer, or the HTTP body of any, does not decode.
ModelInvalid(c) ==
    /\ Calling(c)
    /\ GiveBack(c, "failure")
    /\ AttemptIncomplete(c)
    /\ UNCHANGED served

\* A transport error, an HTTP error status or the HTTP timeout.
ModelFails(c) ==
    /\ Calling(c)
    /\ GiveBack(c, "failure")
    /\ AttemptFails(c)
    /\ UNCHANGED served

\* Seeded mistake: the lease is not given back.
ModelExceedsContextLeaks(c) ==
    /\ Calling(c)
    /\ End(c)
    /\ UNCHANGED <<registryVars, served, refused>>

\* ContextWindowExceededError, which no retry can cure, and CancelledError.
ModelExceedsContext(c) ==
    /\ Calling(c)
    /\ GiveBack(c, "neutral")
    /\ End(c)
    /\ UNCHANGED served

\* Cancelled while it waits for a lease: nothing to give back.
CancelledWaiting(c) ==
    /\ At(c, "acquire")
    /\ Abandon(c)
    /\ End(c)
    /\ UNCHANGED <<served, refused>>

ModelReturns(c) ==
    \/ ModelAnswers(c) \/ ModelTruncates(c) \/ ModelNeedsRepair(c)
    \/ ModelInvalid(c) \/ ModelFails(c) \/ ModelExceedsContext(c)

TimePasses == Tick /\ UNCHANGED <<job, served, refused>>

ServiceNext ==
    \/ \E c \in Callers : Send(c) \/ AcquireLease(c) \/ ModelReturns(c) \/ CancelledWaiting(c)
    \/ TimePasses

ServiceSpec == ServiceInit /\ [][ServiceNext]_serviceVars

\* The condition variable wakes who was notified, and every HTTP call ends at
\* its timeout.
ServiceFairness ==
    \A c \in Callers :
        /\ WF_serviceVars(AcquireLease(c))
        /\ WF_serviceVars(ModelReturns(c))

FairServiceSpec == ServiceSpec /\ ServiceFairness

-----------------------------------------------------------------------------
ServiceTypeOK ==
    /\ TypeOK
    /\ job \in [Callers -> Job]
    /\ served \in [Callers -> 0..MaxRequests]
    /\ refused \in Nat

\* Whatever path a request took through retries, repair, errors and cancellation, its
\* reservation was given back: with no call at the model, no endpoint has anything in
\* flight.
NothingLeftInFlight ==
    (\A c \in Callers : ~Calling(c))
    => leases = {} /\ \A e \in Endpoints : requests[e] = 0 /\ prompt[e] = 0 /\ total[e] = 0

\* The releases stand inside the try blocks whose handlers release too: whatever path
\* a request takes, it never gives back a lease it has given back before, which would
\* replace its answer by a ValueError.
NoSecondRelease == refused = 0

\* The retries are bounded: three leases, each with one call and one repair.
ModelCallsBounded ==
    \A c \in Callers :
        /\ job[c].op = "review" => job[c].modelCalls <= 2 * job[c].round
        /\ job[c].op = "single" => job[c].modelCalls <= 1

\* Every request whose size fits the endpoints ends, even when all of them are
\* busy, failing or open: no wake-up is lost.
RequestEnds ==
    \A c \in Callers : Fits(c) => (~At(c, "idle") ~> At(c, "idle"))

=============================================================================

---------------------------- MODULE ChunkScheduler ----------------------------
(***************************************************************************)
(* ChunkScheduler: a bounded queue of chunks for each review, served in    *)
(* rotation.  A method holds the condition's lock from its first line to   *)
(* its last and waits nowhere else than in wait(), so each is one action;  *)
(* get() is two, the second when its waiter has been notified.  Of a       *)
(* chunk only its review matters.                                          *)
(***************************************************************************)
EXTENDS Naturals, Sequences

CONSTANTS
    QueuedReviews,  \* reviews whose chunks are put
    Takers,         \* tasks that call get() again and again
    QueueLimit,     \* queue_limit
    NoReview        \* nothing was taken

ASSUME SchedulerAssumption ==
    NoReview \notin QueuedReviews /\ QueueLimit \in Nat \ {0}

VARIABLES
    queue,      \* _queues: how many chunks each review has; none: no entry
    rotation,   \* _rotation
    size,       \* _size
    taker,      \* what each task does: at the call of get(), parked, or notified
    taken       \* ghost: the review served last

schedulerVars == <<queue, rotation, size, taker, taken>>

SchedulerInit ==
    /\ queue = [r \in QueuedReviews |-> 0]
    /\ rotation = <<>> /\ size = 0
    /\ taker = [t \in Takers |-> "calling"]
    /\ taken = NoReview

Parked == {t \in Takers : taker[t] = "parked"}
NotifyAllTakers == taker' = [t \in Takers |-> IF t \in Parked THEN "notified" ELSE taker[t]]
NotifyOneTaker ==
    IF Parked = {} THEN UNCHANGED taker ELSE \E t \in Parked : taker' = [taker EXCEPT ![t] = "notified"]

\* put; one that finds the queue full raises ReviewQueueFull and changes nothing.
PutChunk(r) ==
    /\ size < QueueLimit
    /\ queue' = [queue EXCEPT ![r] = @ + 1]
    /\ rotation' = IF queue[r] = 0 THEN Append(rotation, r) ELSE rotation
    /\ size' = size + 1
    /\ NotifyOneTaker
    /\ taken' = NoReview

\* Seeded mistake: a review with more chunks stays at the head.
GetChunkGreedily(t) ==
    /\ taker[t] \in {"calling", "notified"}
    /\ IF size = 0
       THEN taker' = [taker EXCEPT ![t] = "parked"] /\ UNCHANGED <<queue, rotation, size, taken>>
       ELSE LET r == Head(rotation) IN
            /\ queue' = [queue EXCEPT ![r] = @ - 1]
            /\ rotation' = IF queue[r] > 1 THEN rotation ELSE Tail(rotation)
            /\ size' = size - 1
            /\ taker' = [taker EXCEPT ![t] = "calling"]
            /\ taken' = r

GetChunk(t) ==
    /\ taker[t] \in {"calling", "notified"}
    /\ IF size = 0
       THEN taker' = [taker EXCEPT ![t] = "parked"] /\ UNCHANGED <<queue, rotation, size, taken>>
       ELSE LET r == Head(rotation) IN
            /\ queue' = [queue EXCEPT ![r] = @ - 1]
            /\ rotation' = IF queue[r] > 1 THEN Append(Tail(rotation), r) ELSE Tail(rotation)
            /\ size' = size - 1
            /\ taker' = [taker EXCEPT ![t] = "calling"]
            /\ taken' = r

\* cancel_review
CancelQueued(r) ==
    /\ queue[r] > 0
    /\ queue' = [queue EXCEPT ![r] = 0]
    /\ size' = size - queue[r]
    /\ rotation' = SelectSeq(rotation, LAMBDA q : q # r)
    /\ NotifyAllTakers
    /\ taken' = NoReview

SchedulerNext ==
    \/ \E r \in QueuedReviews : PutChunk(r) \/ CancelQueued(r)
    \/ \E t \in Takers : GetChunk(t)

SchedulerSpec == SchedulerInit /\ [][SchedulerNext]_schedulerVars

\* The tasks run: one that is notified, or calls get() again, gets the lock.
SchedulerFairness == \A t \in Takers : WF_schedulerVars(GetChunk(t))

-----------------------------------------------------------------------------
SchedulerTypeOK ==
    /\ queue \in [QueuedReviews -> Nat] /\ size \in 0..QueueLimit
    /\ rotation \in Seq(QueuedReviews)
    /\ taker \in [Takers -> {"calling", "parked", "notified"}]
    /\ taken \in QueuedReviews \cup {NoReview}

\* A review with chunks in the queue is served again and again, however fast the
\* others fill it up, and however puts, cancellations and waiting tasks interleave.
EveryReviewIsServed ==
    \A r \in QueuedReviews : []<>(queue[r] = 0 \/ taken = r)

=============================================================================

---------------------------- MODULE ReviewLifecycle ----------------------------
(***************************************************************************)
(* The life of one review in HybridReviewService: the session row, the     *)
(* asyncio tasks that run the review pipeline or supervise a recheck, and  *)
(* the API handlers that cancel, resume, decide, confirm and undo while    *)
(* those tasks run.                                                        *)
(*                                                                         *)
(* Every await of a store call is one step (a store call is one            *)
(* transaction), and code between two awaits is atomic, as in asyncio.     *)
(* File contents, messages and chunks are abstracted: a row keeps the      *)
(* findings of the analyzer and of the model, what was decided on them and *)
(* which confirmed fixes its files carry.                                  *)
(***************************************************************************)
EXTENDS Naturals, Sequences, FiniteSets

CONSTANTS
    Findings,     \* ids of findings reported by the analyzer or the model
    Calls,        \* API requests that may be in flight at the same time
    Ops,          \* kinds of request the environment sends
    MaxCalls,     \* bound: requests sent in a behaviour, the creating one included
    MaxFixes,     \* bound: confirmed fixes the files carry at one time
    MaxRestarts,  \* bound: process exits (graceful or not)
    SlowCancel,   \* may a cancelled pipeline outlive the grace period?
    NoCall        \* no holder of the per-review lock

MaxTasks == MaxCalls + MaxRestarts   \* a request creates at most one task

AllOps == {"cancel", "delete", "resume", "decide", "reopen", "confirm", "undo",
           "preview", "deleteUser"}

ASSUME ConstantsAssumption ==
    /\ Ops \subseteq AllOps
    /\ MaxCalls \in Nat \ {0}
    /\ MaxFixes \in Nat
    /\ MaxRestarts \in Nat
    /\ SlowCancel \in BOOLEAN
    /\ NoCall \notin Calls
    /\ Calls # {}

VARIABLES
    row,         \* the row of review_sessions
    passed,      \* attempts whose recheck_deadline_at lies in the past
    attempts,    \* recheck attempts issued so far (their ids are 1..attempts)
    tasks,       \* the asyncio tasks created so far, in order
    slot,        \* _tasks[review_id]: an index into tasks, or 0
    orphan,      \* _orphaned_rechecks[review_id]: an index into tasks, or 0
    candidates,  \* _fix_candidates: prepared fixes not yet confirmed
    lock,        \* holder of _fix_locks[review_id]
    call,        \* the requests in flight
    sent,        \* requests sent so far
    process,     \* "up", "stopping" or "down"
    exits        \* process exits so far

rowVars == <<row, passed, attempts>>
memVars == <<tasks, slot, orphan, candidates, lock>>
envVars == <<sent, process, exits>>
vars == <<rowVars, memVars, call, envVars>>

-----------------------------------------------------------------------------
(* The row.  "deleted" stands for the absence of the row. *)

Terminal == {"completed", "failed", "cancelled"}
Statuses == Terminal \cup {"queued", "planning", "reviewing", "aggregating", "deleted"}
Decisions == {"none", "fixed", "kept", "deferred"}
AttemptStatuses == {"none", "running", "completed", "failed", "timed_out"}

Row ==
    [status : Statuses,
     attempt : Nat,                       \* recheck_attempt_id, 0 for None
     attemptStatus : AttemptStatuses,
     active : SUBSET Findings,            \* findings
     decided : SUBSET Findings,           \* keys of decided_findings
     decision : [Findings -> Decisions],  \* finding_decisions
     pending : SUBSET Findings,           \* finding_states = fixed_pending_revalidation
     applied : Seq(Findings)]             \* revisions that are not undone

Exists == row.status # "deleted"
HasPendingRevalidation(r) == r.pending # {}

\* _matches_running_recheck: the guard of every compare-and-set on the row.
MatchesRunningRecheck(r, a) ==
    /\ r.attempt = a
    /\ r.attemptStatus = "running"
    /\ r.status \notin Terminal \cup {"deleted"}

WithStatus(r, s) == [r EXCEPT !.status = s]

\* Seeded mistake: the resumed review goes on under its old attempt id.
RequeuedSameAttempt(r, a) == [r EXCEPT !.status = "queued", !.attemptStatus = "running"]

\* The row _restart_review_in_place writes for a new attempt.
Restarted(r, a) ==
    [r EXCEPT !.status = "queued", !.active = {}, !.attempt = a, !.attemptStatus = "running"]

\* The row resume writes: the attempt fields are filled only when a fix waits
\* for revalidation.
Requeued(r, a) ==
    [r EXCEPT !.status = "queued",
              !.attempt = IF HasPendingRevalidation(r) THEN a ELSE 0,
              !.attemptStatus = IF HasPendingRevalidation(r) THEN "running" ELSE "none"]

\* Seeded mistake: the name of the last event, written as the status.
CompletedRowMisnamed(r, seen, a) ==
    [r EXCEPT !.status = "complete", !.active = seen,
              !.attemptStatus = IF a = 0 THEN "none" ELSE "completed"]

\* The row run writes at the end: the findings it saw replace the old ones, and
\* a fixed finding is verified or reopened, no longer pending.
CompletedRow(r, seen, a) ==
    [r EXCEPT !.status = "completed",
              !.active = seen,
              !.pending = {f \in @ : ~(r.decision[f] = "fixed" /\ f \in r.decided)},
              !.attemptStatus = IF a = 0 THEN "none" ELSE "completed"]

\* The row run writes when static analysis found a syntax error: the states of
\* earlier findings are left as they are, the static findings are the result.
BlockedRow(r, a) ==
    [r EXCEPT !.status = "completed",
              !.attemptStatus = IF a = 0 THEN @ ELSE "completed"]

FailedRow(r, a, why) ==
    [r EXCEPT !.status = "failed", !.attemptStatus = IF a = 0 THEN "none" ELSE why]

-----------------------------------------------------------------------------
(* Tasks.  A task is either run() itself (attempt 0, stage "none") or the   *)
(* supervisor _run_revalidation_with_deadline with its inner pipeline.      *)

Ended == {"returned", "cancelled"}
Body == {"planning", "saving", "blocked", "reviewing", "executing", "aggregating",
         "completing"}
PipelineStages == Body \cup Ended \cup
    {"none", "begin", "failGet", "failWrite", "cancelGet", "cancelWrite"}
SupervisorStages ==
    {"none", "begin", "waiting", "timeoutGet", "timeoutWrite", "grace",
     "abortGet", "abortWrite", "abortGrace", "done"}

Task ==
    [attempt : Nat,                  \* 0: a first review, no recheck
     stage : SupervisorStages,
     abort : BOOLEAN,                \* a cancel of the supervisor not yet delivered
     timer : Nat,                    \* attempt whose deadline the supervisor waits for
     saw : Row,                      \* row read by the supervisor
     run : PipelineStages,
     stop : BOOLEAN,                 \* a cancel of the pipeline not yet delivered
     seen : Row]                     \* row read by the pipeline

NoRow ==
    [status |-> "deleted", attempt |-> 0, attemptStatus |-> "none", active |-> {},
     decided |-> {}, decision |-> [f \in Findings |-> "none"], pending |-> {},
     applied |-> <<>>]

NewTask(a) ==
    [attempt |-> a,
     stage |-> IF a = 0 THEN "none" ELSE "begin",
     abort |-> FALSE, timer |-> 0, saw |-> NoRow,
     run |-> IF a = 0 THEN "begin" ELSE "none",
     stop |-> FALSE, seen |-> NoRow]

\* Is the task that start() and cancel() look at still running?
Live(t) ==
    /\ t # 0
    /\ IF tasks[t].attempt = 0 THEN tasks[t].run \notin Ended ELSE tasks[t].stage # "done"

\* The inner pipeline has neither returned nor been cancelled.
PipelineLive(t) == tasks[t].run \notin Ended \cup {"none"}

\* What task.cancel() does to the task in the slot.
CancelTask(t) ==
    IF tasks[t].attempt = 0
    THEN [tasks EXCEPT ![t].stop = TRUE]
    ELSE [tasks EXCEPT ![t].abort = TRUE]

-----------------------------------------------------------------------------
(* The pipeline: run().                                                     *)

EndRun(t, how) ==
    tasks' = [tasks EXCEPT ![t].run = how, ![t].stop = FALSE, ![t].seen = NoRow]

GoRun(t, stage) == tasks' = [tasks EXCEPT ![t].run = stage]

\* A step of the pipeline's own code: it has no cancellation to receive first.
At(t, stage) == tasks[t].run = stage /\ ~tasks[t].stop

\* Seeded mistake: the attempt id is compared, its status is not.
MayWriteOwnAttempt(t) == tasks[t].attempt = 0 \/ row.attempt = tasks[t].attempt

\* _transition_run_review and _save_run_review: unconditional for a first
\* review, compare-and-set for a recheck, whose refusal raises CancelledError.
MayWrite(t) == tasks[t].attempt = 0 \/ MatchesRunningRecheck(row, tasks[t].attempt)

\* What was written is the copy that the next write starts from.
RunWrites(t, new, stage) ==
    /\ Exists
    /\ MayWrite(t)
    /\ row' = new
    /\ IF stage \in Ended
       THEN EndRun(t, stage)
       ELSE tasks' = [tasks EXCEPT ![t].run = stage, ![t].seen = new]

RunFenced(t) ==
    /\ tasks[t].run \in Body \cup {"failWrite"}
    /\ ~tasks[t].stop
    /\ Exists
    /\ ~MayWrite(t)
    /\ EndRun(t, "cancelled")
    /\ UNCHANGED <<rowVars, slot, orphan, candidates, lock, call, envVars>>

RunBegin(t) ==
    /\ At(t, "begin")
    /\ IF row.status \in {"deleted", "completed", "cancelled"}
       THEN EndRun(t, "returned")
       ELSE tasks' = [tasks EXCEPT ![t].run = "planning", ![t].seen = row]
    /\ UNCHANGED <<rowVars, slot, orphan, candidates, lock, call, envVars>>

\* The writes of the body, each from the snapshot read by RunBegin.  The analyzer
\* reports findings anew, whatever is not ignored, and perhaps a syntax error.
RunStage(t) ==
    /\ LET seen == tasks[t].seen IN
       \/ At(t, "planning") /\ RunWrites(t, WithStatus(seen, "planning"), "saving")
       \/ /\ At(t, "saving")
          /\ \E static \in SUBSET (Findings \ seen.decided), next \in {"blocked", "reviewing"} :
                RunWrites(t, [WithStatus(seen, "planning") EXCEPT !.active = static], next)
       \/ At(t, "reviewing") /\ RunWrites(t, WithStatus(seen, "reviewing"), "executing")
       \/ At(t, "aggregating") /\ RunWrites(t, WithStatus(seen, "aggregating"), "completing")
    /\ UNCHANGED <<passed, attempts, slot, orphan, candidates, lock, call, envVars>>

\* The batches of chunks are reviewed by the model.
RunExecutes(t) ==
    /\ At(t, "executing")
    /\ GoRun(t, "aggregating")
    /\ UNCHANGED <<rowVars, slot, orphan, candidates, lock, call, envVars>>

RunCompletes(t) ==
    /\ LET seen == tasks[t].seen
           a == tasks[t].attempt
       IN \/ At(t, "blocked") /\ RunWrites(t, BlockedRow(seen, a), "returned")
          \/ At(t, "completing") /\ \E found \in SUBSET (Findings \ seen.decided) :
                RunWrites(t, CompletedRow(seen, found, a), "returned")
    /\ UNCHANGED <<passed, attempts, slot, orphan, candidates, lock, call, envVars>>

\* An exception in the body: the analyzer, the planner, a chunk, missing
\* coverage, the batch timeout, or KeyError from a row that was deleted.
RunRaises(t) ==
    /\ tasks[t].run \in Body
    /\ ~tasks[t].stop
    /\ GoRun(t, "failGet")
    /\ UNCHANGED <<rowVars, slot, orphan, candidates, lock, call, envVars>>

RunFailGet(t) ==
    /\ At(t, "failGet")
    /\ IF Exists
       THEN tasks' = [tasks EXCEPT ![t].run = "failWrite", ![t].seen = row]
       ELSE EndRun(t, "returned")
    /\ UNCHANGED <<rowVars, slot, orphan, candidates, lock, call, envVars>>

RunFailWrite(t) ==
    /\ At(t, "failWrite")
    /\ \/ RunWrites(t, FailedRow(tasks[t].seen, tasks[t].attempt, "failed"), "returned")
       \/ ~Exists /\ EndRun(t, "returned") /\ UNCHANGED row
    /\ UNCHANGED <<passed, attempts, slot, orphan, candidates, lock, call, envVars>>

\* Seeded mistake: a cancelled pipeline does not look whether the service stops.
RunCancelledAtShutdown(t) ==
    /\ tasks[t].stop
    /\ PipelineLive(t)
    /\ IF tasks[t].run \in Body /\ tasks[t].attempt = 0
       THEN tasks' = [tasks EXCEPT ![t].run = "cancelGet", ![t].stop = FALSE]
       ELSE EndRun(t, "cancelled")
    /\ UNCHANGED <<rowVars, slot, orphan, candidates, lock, call, envVars>>

\* CancelledError reaches the pipeline.  A first review outside a shutdown
\* still has to mark the row; a recheck, or any run during a shutdown, has not.
RunCancelled(t) ==
    /\ tasks[t].stop
    /\ PipelineLive(t)
    /\ IF tasks[t].run \in Body /\ tasks[t].attempt = 0 /\ process # "stopping"
       THEN tasks' = [tasks EXCEPT ![t].run = "cancelGet", ![t].stop = FALSE]
       ELSE EndRun(t, "cancelled")
    /\ UNCHANGED <<rowVars, slot, orphan, candidates, lock, call, envVars>>

RunCancelGet(t) ==
    /\ At(t, "cancelGet")
    /\ IF row.status \in {"deleted", "cancelled"}
       THEN EndRun(t, "cancelled")
       ELSE tasks' = [tasks EXCEPT ![t].run = "cancelWrite", ![t].seen = row]
    /\ UNCHANGED <<rowVars, slot, orphan, candidates, lock, call, envVars>>

RunCancelWrite(t) ==
    /\ At(t, "cancelWrite")
    /\ row' = IF Exists THEN WithStatus(tasks[t].seen, "cancelled") ELSE row
    /\ EndRun(t, "cancelled")
    /\ UNCHANGED <<passed, attempts, slot, orphan, candidates, lock, call, envVars>>

Pipeline(t) ==
    \/ RunBegin(t) \/ RunStage(t) \/ RunExecutes(t) \/ RunCompletes(t) \/ RunRaises(t)
    \/ RunFenced(t) \/ RunFailGet(t) \/ RunFailWrite(t)
    \/ RunCancelled(t) \/ RunCancelGet(t) \/ RunCancelWrite(t)

-----------------------------------------------------------------------------
(* The supervisor of a recheck: _run_revalidation_with_deadline.            *)

GoSupervisor(t, stage) == tasks' = [tasks EXCEPT ![t].stage = stage]
EndSupervisor(t) ==
    tasks' = [tasks EXCEPT ![t].stage = "done", ![t].abort = FALSE, ![t].saw = NoRow]

In(t, stage) == tasks[t].stage = stage /\ ~tasks[t].abort

\* Reads the persisted deadline and creates the pipeline.
SupervisorBegin(t) ==
    /\ In(t, "begin")
    /\ tasks' = [tasks EXCEPT ![t].stage = "waiting",
                              ![t].run = "begin",
                              ![t].timer = IF Exists /\ row.attempt # 0
                                           THEN row.attempt ELSE tasks[t].attempt]
    /\ UNCHANGED <<rowVars, slot, orphan, candidates, lock, call, envVars>>

\* Seeded mistake: the pipeline is awaited without its deadline.
SupervisorWaitsForever(t) ==
    /\ In(t, "waiting")
    /\ \/ tasks[t].run = "returned" /\ EndSupervisor(t)
       \/ tasks[t].run = "cancelled" /\ GoSupervisor(t, "abortGet")
    /\ UNCHANGED <<rowVars, slot, orphan, candidates, lock, call, envVars>>

\* wait_for(shield(pipeline)) ends with the pipeline, or at the deadline.
SupervisorWakes(t) ==
    /\ In(t, "waiting")
    /\ \/ tasks[t].run = "returned" /\ EndSupervisor(t)
       \/ tasks[t].run = "cancelled" /\ GoSupervisor(t, "abortGet")
       \/ PipelineLive(t) /\ tasks[t].timer \in passed /\ GoSupervisor(t, "timeoutGet")
    /\ UNCHANGED <<rowVars, slot, orphan, candidates, lock, call, envVars>>

\* _commit_recheck_failure: a read, then a compare-and-set of the failed row.
CommitGet(t) ==
    /\ ~tasks[t].abort
    /\ tasks[t].stage \in {"timeoutGet", "abortGet"}
    /\ tasks' = [tasks EXCEPT
                   ![t].saw = row,
                   ![t].stage = IF tasks[t].stage = "timeoutGet"
                                THEN "timeoutWrite" ELSE "abortWrite"]
    /\ UNCHANGED <<rowVars, slot, orphan, candidates, lock, call, envVars>>

CommitFailure(t, why) ==
    LET a == tasks[t].attempt IN
    row' = IF tasks[t].saw.status # "deleted" /\ MatchesRunningRecheck(row, a)
           THEN FailedRow(tasks[t].saw, a, why) ELSE row

\* After the commit the pipeline is cancelled and given the grace period.
CommitWrite(t) ==
    /\ ~tasks[t].abort
    /\ \/ /\ tasks[t].stage = "timeoutWrite"
          /\ CommitFailure(t, "timed_out")
          /\ tasks' = [tasks EXCEPT ![t].stage = "grace", ![t].saw = NoRow,
                                    ![t].stop = PipelineLive(t)]
       \/ /\ tasks[t].stage = "abortWrite"
          /\ CommitFailure(t, "failed")
          /\ tasks' = [tasks EXCEPT
                         ![t].stage = IF PipelineLive(t) THEN "abortGrace" ELSE "done",
                         ![t].saw = NoRow, ![t].stop = PipelineLive(t)]
    /\ UNCHANGED <<passed, attempts, slot, orphan, candidates, lock, call, envVars>>

GraceEnds(t) ==
    /\ tasks[t].stage \in {"grace", "abortGrace"}
    /\ ~tasks[t].abort
    /\ ~PipelineLive(t)
    /\ EndSupervisor(t)
    /\ UNCHANGED <<rowVars, slot, orphan, candidates, lock, call, envVars>>

\* The pipeline outlives the grace period.  It is registered as an orphan
\* after a timeout, and nowhere after a cancellation.
GraceExpires(t) ==
    /\ SlowCancel
    /\ tasks[t].stage \in {"grace", "abortGrace"}
    /\ ~tasks[t].abort
    /\ PipelineLive(t)
    /\ EndSupervisor(t)
    /\ orphan' = IF tasks[t].stage = "grace" THEN t ELSE orphan
    /\ UNCHANGED <<rowVars, slot, candidates, lock, call, envVars>>

\* CancelledError reaches the supervisor: only while it waits for the pipeline
\* does it commit a failure; before, there is no pipeline; later, it just ends.
SupervisorCancelled(t) ==
    /\ tasks[t].abort
    /\ tasks[t].stage \notin {"none", "done"}
    /\ IF tasks[t].stage = "waiting"
       THEN tasks' = [tasks EXCEPT ![t].stage = "abortGet", ![t].abort = FALSE]
       ELSE EndSupervisor(t)
    /\ UNCHANGED <<rowVars, slot, orphan, candidates, lock, call, envVars>>

Supervisor(t) ==
    \/ SupervisorBegin(t) \/ SupervisorWakes(t) \/ CommitGet(t) \/ CommitWrite(t)
    \/ GraceEnds(t) \/ GraceExpires(t) \/ SupervisorCancelled(t)

-----------------------------------------------------------------------------
(* Requests.  Each is a coroutine that stops at its awaits.                 *)

CallOps == AllOps \cup {"create", "recover", "idle"}
CallStages ==
    {"idle", "cancelGet", "cancelTask", "cancelAwait", "cancelReget", "cancelWrite", "deleteRow",
     "lock", "resumeGet", "resumeSave", "decideGet", "decideSave", "reopenGet",
     "reopenSave", "confirmGet", "confirmSave", "undoGet", "undoSave", "reset",
     "startGet", "startSlot", "startSave", "startCreate", "startFailGet", "startFailWrite"}
LockedOps == {"resume", "decide", "reopen", "confirm"}

Call ==
    [op : CallOps, stage : CallStages, finding : Findings \cup {"none"},
     decision : {"kept", "deferred", "none"}, saw : Row, target : Nat]
Idle ==
    [op |-> "idle", stage |-> "idle", finding |-> "none", decision |-> "none",
     saw |-> NoRow, target |-> 0]

GoCall(c, stage) == call' = [call EXCEPT ![c].stage = stage]
CallSees(c, r, stage) == call' = [call EXCEPT ![c].saw = r, ![c].stage = stage]
\* Seeded mistake: a request that ends releases the lock of whoever holds it.
EndCallReleasesAny(c) == call' = [call EXCEPT ![c] = Idle] /\ lock' = NoCall

EndCall(c) ==
    /\ call' = [call EXCEPT ![c] = Idle]
    /\ lock' = IF lock = c THEN NoCall ELSE lock
KeepLock == UNCHANGED lock

AtCall(c, stage) == call[c].stage = stage

NewCall(op, stage, f, d) ==
    [op |-> op, stage |-> stage, finding |-> f, decision |-> d, saw |-> NoRow, target |-> 0]

FirstStage(op) ==
    CASE op \in {"cancel", "delete"} -> "cancelGet"
      [] op \in LockedOps -> "lock"
      [] op = "undo" -> "undoGet"

\* During startup recover() runs alone; afterwards requests come at any time.
BeginCall(c) ==
    /\ process = "up" /\ sent < MaxCalls
    /\ call[c] = Idle
    /\ \A d \in Calls : call[d].op # "recover"
    /\ \E op \in Ops \ {"preview", "deleteUser"}, f \in Findings \cup {"none"},
          d \in {"kept", "deferred", "none"} :
          /\ (f # "none") <=> (op \in {"decide", "reopen", "confirm"})
          /\ (d # "none") <=> (op = "decide")
          /\ call' = [call EXCEPT ![c] = NewCall(op, FirstStage(op), f, d)]
    /\ sent' = sent + 1
    /\ UNCHANGED <<rowVars, memVars, process, exits>>

-----------------------------------------------------------------------------
(* cancel and delete.                                                       *)

AfterCancel(c) == IF call[c].op = "delete" THEN GoCall(c, "deleteRow") /\ KeepLock ELSE EndCall(c)

CancelGet(c) ==
    /\ AtCall(c, "cancelGet")
    /\ IF ~Exists THEN EndCall(c)
       ELSE IF row.status \in Terminal THEN AfterCancel(c)
       ELSE GoCall(c, "cancelTask") /\ KeepLock
    /\ UNCHANGED <<rowVars, tasks, slot, orphan, candidates, envVars>>

CancelSlot(c) ==
    /\ AtCall(c, "cancelTask")
    /\ IF Live(slot)
       THEN /\ tasks' = CancelTask(slot)
            /\ call' = [call EXCEPT ![c].stage = "cancelAwait", ![c].target = slot]
       ELSE GoCall(c, "cancelReget") /\ UNCHANGED tasks
    /\ UNCHANGED <<rowVars, slot, orphan, candidates, lock, envVars>>

CancelAwait(c) ==
    /\ AtCall(c, "cancelAwait")
    /\ ~Live(call[c].target)
    /\ GoCall(c, "cancelReget")
    /\ UNCHANGED <<rowVars, memVars, envVars>>

CancelReget(c) ==
    /\ AtCall(c, "cancelReget")
    /\ IF row.status \in {"deleted", "cancelled"}
       THEN AfterCancel(c)
       ELSE CallSees(c, row, "cancelWrite") /\ KeepLock
    /\ UNCHANGED <<rowVars, tasks, slot, orphan, candidates, envVars>>

CancelWrite(c) ==
    /\ AtCall(c, "cancelWrite")
    /\ row' = IF Exists THEN WithStatus(call[c].saw, "cancelled") ELSE row
    /\ AfterCancel(c)
    /\ UNCHANGED <<passed, attempts, tasks, slot, orphan, candidates, envVars>>

DeleteRow(c) ==
    /\ AtCall(c, "deleteRow")
    /\ slot' = 0
    /\ row' = NoRow
    /\ EndCall(c)
    /\ UNCHANGED <<passed, attempts, tasks, orphan, candidates, envVars>>

CancelOrDelete(c) ==
    \/ CancelGet(c) \/ CancelSlot(c) \/ CancelAwait(c) \/ CancelReget(c)
    \/ CancelWrite(c) \/ DeleteRow(c)

-----------------------------------------------------------------------------
(* The handlers that hold the per-review lock.                              *)

\* Seeded mistake: a handler does not wait until the lock is free.
EnterWithoutWaiting(c) ==
    /\ AtCall(c, "lock")
    /\ lock' = c
    /\ GoCall(c, CASE call[c].op = "resume" -> "resumeGet" [] call[c].op = "decide" -> "decideGet"
                   [] call[c].op = "reopen" -> "reopenGet" [] call[c].op = "confirm" -> "confirmGet")
    /\ UNCHANGED <<rowVars, tasks, slot, orphan, candidates, envVars>>

\* resume refuses while an orphan is alive; the check follows the lock at once.
AcquireLock(c) ==
    /\ AtCall(c, "lock")
    /\ lock = NoCall
    /\ LET op == call[c].op IN
       IF op = "resume" /\ orphan # 0 /\ PipelineLive(orphan)
       THEN call' = [call EXCEPT ![c] = Idle] /\ KeepLock
       ELSE /\ lock' = c
            /\ GoCall(c, CASE op = "resume" -> "resumeGet" [] op = "decide" -> "decideGet"
                           [] op = "reopen" -> "reopenGet" [] op = "confirm" -> "confirmGet")
    /\ UNCHANGED <<rowVars, tasks, slot, orphan, candidates, envVars>>

ResumeGet(c) ==
    /\ AtCall(c, "resumeGet")
    /\ IF row.status = "failed" THEN CallSees(c, row, "resumeSave") /\ KeepLock ELSE EndCall(c)
    /\ UNCHANGED <<rowVars, tasks, slot, orphan, candidates, envVars>>

ResumeSave(c) ==
    /\ AtCall(c, "resumeSave")
    /\ IF Exists
       THEN LET saw == call[c].saw IN
            /\ row' = Requeued(saw, attempts + 1)
            /\ attempts' = attempts + (IF HasPendingRevalidation(saw) THEN 1 ELSE 0)
            /\ GoCall(c, "startGet")
            /\ KeepLock
       ELSE EndCall(c) /\ UNCHANGED <<row, attempts>>
    /\ UNCHANGED <<passed, tasks, slot, orphan, candidates, envVars>>

\* A read that must find a completed or failed review with the finding known.
DecideGet(c) ==
    /\ \/ AtCall(c, "decideGet") /\ call[c].finding \in row.active \cup row.decided
             /\ row.status \in {"completed", "failed"} /\ CallSees(c, row, "decideSave")
             /\ KeepLock
       \/ AtCall(c, "decideGet")
             /\ ~(row.status \in {"completed", "failed"}
                    /\ call[c].finding \in row.active \cup row.decided)
             /\ EndCall(c)
    /\ UNCHANGED <<rowVars, tasks, slot, orphan, candidates, envVars>>

DecidedRow(r, f, d) ==
    [r EXCEPT !.decision[f] = d,
              !.pending = @ \ {f},
              !.decided = @ \cup {f},
              !.active = IF d = "deferred" THEN @ \cup {f} ELSE @ \ {f}]

\* Every remaining finding has a decision, and a confirmed fix waits.
RestartsAfterDecision(r) ==
    /\ \A f \in r.active : r.decision[f] # "none"
    /\ HasPendingRevalidation(r)

SaveThen(c, new, restart) ==
    IF ~Exists
    THEN EndCall(c) /\ UNCHANGED row
    ELSE /\ row' = new
         /\ IF restart THEN CallSees(c, new, "reset") /\ KeepLock ELSE EndCall(c)

DecideSave(c) ==
    /\ AtCall(c, "decideSave")
    /\ LET new == DecidedRow(call[c].saw, call[c].finding, call[c].decision) IN
       SaveThen(c, new, RestartsAfterDecision(new))
    /\ UNCHANGED <<passed, attempts, tasks, slot, orphan, candidates, envVars>>

ReopenGet(c) ==
    /\ AtCall(c, "reopenGet")
    /\ LET f == call[c].finding IN
       IF /\ row.status \in {"completed", "failed"}
          /\ f \in row.decided
          /\ row.decision[f] # "none"
       THEN CallSees(c, row, "reopenSave") /\ KeepLock
       ELSE EndCall(c)
    /\ UNCHANGED <<rowVars, tasks, slot, orphan, candidates, envVars>>

ReopenedRow(r, f) ==
    [r EXCEPT !.decision[f] = "none", !.pending = @ \ {f}, !.active = @ \cup {f}]

ReopenSave(c) ==
    /\ AtCall(c, "reopenSave")
    /\ SaveThen(c, ReopenedRow(call[c].saw, call[c].finding), FALSE)
    /\ UNCHANGED <<passed, attempts, tasks, slot, orphan, candidates, envVars>>

\* confirm_fix takes the candidate out of the cache whatever happens next, and
\* looks at the files, not at the status of the review.  A candidate may have
\* expired since it was prepared.
ConfirmGet(c) ==
    /\ AtCall(c, "confirmGet")
    /\ LET f == call[c].finding
           mine == {k \in candidates : k.finding = f}
       IN \/ /\ ~Exists \/ mine = {}
             /\ EndCall(c) /\ UNCHANGED candidates
          \/ \E k \in mine :
             /\ Exists
             /\ candidates' = candidates \ {k}
             /\ \/ /\ k.base = row.applied /\ f \in row.active \cup row.decided
                   /\ CallSees(c, row, "confirmSave") /\ KeepLock
                \/ EndCall(c)
    /\ UNCHANGED <<rowVars, tasks, slot, orphan, envVars>>

\* The analyzer is awaited on the files before and after the fix, and rejects a
\* fix that brings a new finding.
ConfirmRejected(c) ==
    /\ AtCall(c, "confirmSave")
    /\ EndCall(c)
    /\ UNCHANGED <<rowVars, tasks, slot, orphan, candidates, envVars>>

\* Findings that overlap the fixed lines are stale and leave the row with it.
FixedRow(r, f, overlapping) ==
    [r EXCEPT !.active = @ \ ({f} \cup overlapping), !.decided = @ \cup {f},
              !.decision[f] = "fixed", !.pending = @ \cup {f}, !.applied = Append(@, f)]

ConfirmSave(c) ==
    /\ AtCall(c, "confirmSave")
    /\ \E overlapping \in SUBSET call[c].saw.active :
          LET new == FixedRow(call[c].saw, call[c].finding, overlapping) IN
          SaveThen(c, new, new.active = {})
    /\ UNCHANGED <<passed, attempts, tasks, slot, orphan, candidates, envVars>>

Locked(c) ==
    \/ AcquireLock(c) \/ ResumeGet(c) \/ ResumeSave(c) \/ DecideGet(c) \/ DecideSave(c)
    \/ ReopenGet(c) \/ ReopenSave(c) \/ ConfirmGet(c)
    \/ ConfirmRejected(c) \/ ConfirmSave(c)

-----------------------------------------------------------------------------
(* undo_revision takes no lock.  Only the newest applied fix can be undone. *)

UndoGet(c) ==
    /\ AtCall(c, "undoGet")
    /\ IF row.status \in {"completed", "failed"} /\ row.applied # <<>>
       THEN CallSees(c, row, "undoSave") /\ KeepLock
       ELSE EndCall(c)
    /\ UNCHANGED <<rowVars, tasks, slot, orphan, candidates, envVars>>

\* The decision is dropped; the finding's state is left as it was.
UndoneRow(r) ==
    [r EXCEPT !.applied = SubSeq(@, 1, Len(@) - 1),
              !.decision[r.applied[Len(r.applied)]] = "none"]

UndoSave(c) ==
    /\ AtCall(c, "undoSave")
    /\ SaveThen(c, UndoneRow(call[c].saw), TRUE)
    /\ UNCHANGED <<passed, attempts, tasks, slot, orphan, candidates, envVars>>

\* _restart_review_in_place, called by decide, confirm and undo.
Reset(c) ==
    /\ AtCall(c, "reset")
    /\ IF Exists
       THEN /\ row' = Restarted(call[c].saw, attempts + 1)
            /\ attempts' = attempts + 1
            /\ GoCall(c, "startGet")
            /\ KeepLock
       ELSE EndCall(c) /\ UNCHANGED <<row, attempts>>
    /\ UNCHANGED <<passed, tasks, slot, orphan, candidates, envVars>>

-----------------------------------------------------------------------------
(* start(), awaited by every operation that (re)starts a review.            *)

CreateTask(c, a) ==
    /\ tasks' = Append(tasks, NewTask(a))
    /\ slot' = Len(tasks) + 1
    /\ EndCall(c)

StartGet(c) ==
    /\ AtCall(c, "startGet")
    /\ IF Exists THEN CallSees(c, row, "startSlot") /\ KeepLock ELSE EndCall(c)
    /\ UNCHANGED <<rowVars, tasks, slot, orphan, candidates, envVars>>

\* A live task in the slot ends start() without a word, even a supervisor that
\* only cleans up after a finished attempt.  Without SlowCancel that clean-up is
\* over before a start gets through its store calls.
CleaningUp(t) ==
    /\ Live(t) /\ tasks[t].attempt # 0
    /\ tasks[t].stage \notin {"begin", "waiting"} \/ tasks[t].run \in Ended

StartSlot(c) ==
    /\ AtCall(c, "startSlot")
    /\ SlowCancel \/ ~CleaningUp(slot)
    /\ LET r == call[c].saw IN
       IF Live(slot)
       THEN EndCall(c) /\ UNCHANGED <<tasks, slot, attempts>>
       ELSE IF ~HasPendingRevalidation(r)
       THEN CreateTask(c, 0) /\ UNCHANGED attempts
       ELSE IF r.attemptStatus # "running" \/ r.attempt = 0
       THEN /\ CallSees(c, [r EXCEPT !.attempt = attempts + 1, !.attemptStatus = "running"],
                        "startSave")
            /\ attempts' = attempts + 1
            /\ UNCHANGED <<tasks, slot, lock>>
       ELSE IF r.attempt \in passed
       THEN GoCall(c, "startFailGet") /\ UNCHANGED <<tasks, slot, lock, attempts>>
       ELSE CreateTask(c, r.attempt) /\ UNCHANGED attempts
    /\ UNCHANGED <<row, passed, orphan, candidates, envVars>>

StartSave(c) ==
    /\ AtCall(c, "startSave")
    /\ IF Exists
       THEN row' = call[c].saw /\ GoCall(c, "startCreate") /\ KeepLock
       ELSE EndCall(c) /\ UNCHANGED row
    /\ UNCHANGED <<passed, attempts, tasks, slot, orphan, candidates, envVars>>

\* The slot was looked at before the save; it is not looked at again.
StartCreate(c) ==
    /\ AtCall(c, "startCreate")
    /\ CreateTask(c, call[c].saw.attempt)
    /\ UNCHANGED <<rowVars, orphan, candidates, envVars>>

\* The deadline passed while nothing ran: the attempt is failed on the spot.
\* The attempt id that is compared is the one start() read first.
StartFailGet(c) ==
    /\ AtCall(c, "startFailGet")
    /\ IF Exists
       THEN /\ call' = [call EXCEPT ![c].target = call[c].saw.attempt, ![c].saw = row,
                                    ![c].stage = "startFailWrite"]
            /\ KeepLock
       ELSE EndCall(c)
    /\ UNCHANGED <<rowVars, tasks, slot, orphan, candidates, envVars>>

StartFailWrite(c) ==
    /\ AtCall(c, "startFailWrite")
    /\ LET a == call[c].target IN
       row' = IF MatchesRunningRecheck(row, a) THEN FailedRow(call[c].saw, a, "timed_out") ELSE row
    /\ EndCall(c)
    /\ UNCHANGED <<passed, attempts, tasks, slot, orphan, candidates, envVars>>

Start(c) ==
    \/ StartGet(c) \/ StartSlot(c) \/ StartSave(c) \/ StartCreate(c)
    \/ StartFailGet(c) \/ StartFailWrite(c)

Request(c) ==
    \/ CancelOrDelete(c) \/ Locked(c) \/ UndoGet(c) \/ UndoSave(c) \/ Reset(c) \/ Start(c)

-----------------------------------------------------------------------------
(* The environment: previews, the owner, time and the process itself.       *)

\* preview_fix stores a candidate for the files it read from an ended review.
Preview ==
    /\ "preview" \in Ops /\ process = "up"
    /\ row.status \in {"completed", "failed"}
    /\ Len(row.applied) < MaxFixes
    /\ \E f \in row.active \cup row.decided :
          candidates' = candidates \cup {[finding |-> f, base |-> row.applied]}
    /\ UNCHANGED <<rowVars, tasks, slot, orphan, lock, call, envVars>>

\* delete_user_record removes the reviews of a deleted user, whatever they are doing:
\* delete_user cancelled those it had listed, but requests of the user still come in,
\* create others and restart what was over.
OwnerDeleted ==
    /\ "deleteUser" \in Ops /\ process = "up"
    /\ Exists
    /\ row' = NoRow
    /\ UNCHANGED <<passed, attempts, memVars, call, envVars>>

DeadlinePasses ==
    /\ \E a \in (1..attempts) \ passed :
          /\ a = row.attempt \/ \E t \in DOMAIN tasks : Live(t) /\ tasks[t].timer = a
          /\ passed' = passed \cup {a}
    /\ UNCHANGED <<row, attempts, memVars, call, envVars>>

\* shutdown() runs after the last request was answered.
Shutdown ==
    /\ process = "up" /\ exits < MaxRestarts
    /\ \A c \in Calls : call[c] = Idle
    /\ process' = "stopping"
    /\ LET slotCancelled == IF Live(slot) THEN CancelTask(slot) ELSE tasks IN
       tasks' = IF orphan # 0 /\ PipelineLive(orphan)
                THEN [slotCancelled EXCEPT ![orphan].stop = TRUE] ELSE slotCancelled
    /\ UNCHANGED <<rowVars, slot, orphan, candidates, lock, call, sent, exits>>

ForgetMemory ==
    /\ tasks' = <<>> /\ slot' = 0 /\ orphan' = 0 /\ candidates' = {} /\ lock' = NoCall
    /\ call' = [c \in Calls |-> Idle]

\* The process ends: when shutdown() has gathered its tasks, or in a crash.
Exit ==
    /\ \/ process = "stopping" /\ ~Live(slot) /\ (orphan # 0 => ~PipelineLive(orphan))
          /\ exits' = exits + 1
       \/ process = "up" /\ exits < MaxRestarts /\ exits' = exits + 1
    /\ process' = "down"
    /\ ForgetMemory
    /\ UNCHANGED <<rowVars, sent>>

\* Seeded mistake: only reviews that had not begun are recovered.
RestartQueuedOnly ==
    /\ process = "down"
    /\ process' = "up"
    /\ IF row.status # "queued"
       THEN UNCHANGED call
       ELSE \E c \in Calls :
               call' = [call EXCEPT ![c] = NewCall("recover", "startGet", "none", "none")]
    /\ UNCHANGED <<rowVars, memVars, sent, exits>>

\* Startup: recover() starts every review that is not in a terminal status.
Restart ==
    /\ process = "down"
    /\ process' = "up"
    /\ IF row.status \in Terminal \cup {"deleted"}
       THEN UNCHANGED call
       ELSE \E c \in Calls :
               call' = [call EXCEPT ![c] = NewCall("recover", "startGet", "none", "none")]
    /\ UNCHANGED <<rowVars, memVars, sent, exits>>

Environment == Preview \/ OwnerDeleted \/ DeadlinePasses \/ Shutdown \/ Exit \/ Restart

-----------------------------------------------------------------------------
FirstRow == [NoRow EXCEPT !.status = "queued"]

\* POST /v1/reviews has created the row and awaits start().
Init ==
    /\ row = FirstRow
    /\ passed = {} /\ attempts = 0
    /\ tasks = <<>> /\ slot = 0 /\ orphan = 0 /\ candidates = {} /\ lock = NoCall
    /\ \E c \in Calls :
          call = [d \in Calls |->
                    IF d = c THEN NewCall("create", "startGet", "none", "none") ELSE Idle]
    /\ sent = 1 /\ process = "up" /\ exits = 0

TaskStep == \E t \in DOMAIN tasks : Pipeline(t) \/ Supervisor(t)

Next ==
    \/ TaskStep
    \/ \E c \in Calls : BeginCall(c) \/ Request(c)
    \/ Environment

Spec == Init /\ [][Next]_vars

\* The event loop runs what is ready and every store call returns.  The model
\* call of a first review ends by its HTTP timeout; that of a recheck may hang,
\* its deadline is what ends it.
StoreSteps(t) ==
    \/ RunBegin(t) \/ RunStage(t) \/ RunCompletes(t) \/ RunFenced(t) \/ RunFailGet(t)
    \/ RunFailWrite(t) \/ RunCancelGet(t) \/ RunCancelWrite(t)
    \/ tasks[t].run \in Body \ {"executing"} /\ RunRaises(t)
    \/ tasks[t].attempt = 0 /\ (RunExecutes(t) \/ RunRaises(t))
    \/ (tasks[t].attempt = 0 \/ ~SlowCancel) /\ RunCancelled(t)

Fairness ==
    /\ \A t \in 1..MaxTasks :
          /\ WF_vars(t \in DOMAIN tasks /\ StoreSteps(t))
          /\ WF_vars(t \in DOMAIN tasks /\ Supervisor(t))
    /\ \A c \in Calls : WF_vars(Request(c))
    /\ WF_vars(DeadlinePasses) /\ WF_vars(Restart)
    /\ WF_vars(Exit /\ process = "stopping")

FairSpec == Spec /\ Fairness

-----------------------------------------------------------------------------
(* Correctness.                                                             *)

TypeOK ==
    /\ row \in Row
    /\ passed \subseteq 1..attempts
    /\ attempts \in Nat
    /\ tasks \in Seq(Task)
    /\ slot \in 0..Len(tasks)
    /\ orphan \in 0..Len(tasks)
    /\ candidates \subseteq [finding : Findings, base : Seq(Findings)]
    /\ lock \in Calls \cup {NoCall}
    /\ call \in [Calls -> Call]
    /\ sent \in 0..MaxCalls
    /\ process \in {"up", "stopping", "down"}
    /\ exits \in 0..MaxRestarts

TaskSteps(t) == t \in DOMAIN tasks' /\ tasks'[t] # tasks[t]
CallSteps(c) == call'[c] # call[c]

\* A recheck pipeline or its supervisor writes the row only while its own
\* attempt is the open one: a late result of a timed out, cancelled or
\* superseded attempt changes nothing.
StaleAttemptIsFenced ==
    [][\A t \in DOMAIN tasks :
          tasks[t].attempt # 0 /\ TaskSteps(t) /\ row' # row
          => MatchesRunningRecheck(row, tasks[t].attempt)]_vars

\* A finished attempt is opened again only by the two writers that neither
\* compare nor look at the status: confirm_fix, and the pipeline of a first
\* review with its old snapshot.  No other handler, supervisor or recheck does.
Closes(r) == r.attemptStatus \in {"completed", "failed", "timed_out"}

ClosedAttemptStaysClosed ==
    [][row'.attempt = row.attempt /\ Closes(row) /\ MatchesRunningRecheck(row', row.attempt)
       => \/ \E c \in Calls : call[c].stage = "confirmSave" /\ CallSteps(c)
          \/ \E t \in DOMAIN tasks : tasks[t].attempt = 0 /\ TaskSteps(t)]_vars

\* Two requests are never both inside the per-review lock, at any of its awaits.
InsideLock(c) == call[c].op \in LockedOps /\ call[c].stage # "lock"
LockExcludes == \A c \in Calls : InsideLock(c) <=> lock = c

\* While a handler holds the lock and a copy of the row that it will write back,
\* the files change under it only by a request that takes no lock, by a
\* pipeline or by the end of the review: it loses no fix that another handler,
\* a new review or recover() put there.
SaveStages == {"resumeSave", "decideSave", "reopenSave", "confirmSave"}
HoldsCopy(c) ==
    /\ InsideLock(c)
    /\ call[c].stage \in SaveStages \cup {"reset", "startSlot", "startSave", "startFailWrite"}

LockedHandlersKeepFixes ==
    [][\A c \in Calls :
          HoldsCopy(c) /\ ~CallSteps(c) /\ row'.applied # row.applied
          => \/ \E d \in Calls : call[d].op \in {"cancel", "delete", "undo"} /\ CallSteps(d)
             \/ \E t \in DOMAIN tasks : TaskSteps(t)
             \/ row' = NoRow]_vars

\* At most one request, undo aside, is on its way through start(), so that no
\* two of them find the same slot free; and a review that was just created or
\* is recovered has no task yet.
Starting(c) ==
    /\ call[c].op # "undo"
    /\ call[c].stage \in {"reset", "startGet", "startSlot", "startSave", "startCreate",
                         "startFailGet", "startFailWrite"}

OneStart ==
    /\ \A c, d \in Calls : Starting(c) /\ Starting(d) => c = d
    /\ \A c \in Calls : call[c].op \in {"create", "recover"} => tasks = <<>>

\* While no request is in flight, a review that is not over has a task that
\* works on it: no start, resume or recovery leaves it queued for nobody.  While
\* no fix is confirmed that is so for any number of requests; start() ignores a
\* fix that is confirmed while a recheck of an earlier one runs.
NonTerminalReviewHasTask ==
    (process = "up" /\ row.status \notin Terminal \cup {"deleted"}
      /\ \A c \in Calls : call[c] = Idle) => Live(slot)

\* A graceful shutdown never turns a running review into a cancelled one: it
\* has to be found again by recover().
ShutdownDoesNotCancel ==
    [][process = "stopping" /\ row.status # "cancelled" => row'.status # "cancelled"]_vars

\* Every review that is not over ends, whatever the model does with a recheck.
ReviewEnds ==
    row.status \notin Terminal \cup {"deleted"} ~> row.status \in Terminal \cup {"deleted"}

\* What cancel answers ("cancelled") stays true until the review is deleted.
CancelledIsFinal ==
    [][row.status = "cancelled" => row'.status \in {"cancelled", "deleted"}]_vars

\* While no handler holds the lock every confirm_fix has answered: what it answered
\* to be applied leaves the files only when it is undone or the review goes.
AppliedFixIsKept ==
    [][lock = NoCall /\ Len(row'.applied) < Len(row.applied)
       => row' = NoRow \/ \E c \in Calls : call[c].op = "undo" /\ CallSteps(c)]_vars

=============================================================================

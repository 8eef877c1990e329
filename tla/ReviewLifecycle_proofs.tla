------------------------ MODULE ReviewLifecycle_proofs ------------------------
(***************************************************************************)
(* Type correctness, mutual exclusion of the per-review lock, fencing of    *)
(* stale rechecks, graceful shutdown, closed attempts, one start at a time,  *)
(* fixes under the lock, and work on reviews without fixes: for every set of *)
(* findings and of requests, every number of fixes and restarts, and every   *)
(* interleaving.                                                            *)
(***************************************************************************)
EXTENDS ReviewLifecycle, SequenceTheorems, TLAPS

-----------------------------------------------------------------------------
(* The rows that the code writes are rows.                                  *)

LEMMA NoRowType == NoRow \in Row
<1>1. <<>> \in Seq(Findings)
  BY EmptySeq
<1> QED BY <1>1 DEF NoRow, Row, Statuses, Terminal, AttemptStatuses, Decisions

LEMMA RunRowsType ==
    ASSUME NEW r \in Row, NEW a \in Nat
    PROVE  /\ \A s \in Statuses : WithStatus(r, s) \in Row
           /\ \A static \in SUBSET Findings : [r EXCEPT !.active = static] \in Row
           /\ \A seen \in SUBSET Findings : CompletedRow(r, seen, a) \in Row
           /\ BlockedRow(r, a) \in Row
           /\ \A why \in {"failed", "timed_out"} : FailedRow(r, a, why) \in Row
<1>1. \A s \in Statuses : WithStatus(r, s) \in Row
  BY DEF WithStatus, Row
<1>2. \A static \in SUBSET Findings : [r EXCEPT !.active = static] \in Row
  BY DEF Row
<1>3. ASSUME NEW seen \in SUBSET Findings PROVE CompletedRow(r, seen, a) \in Row
  BY DEF CompletedRow, Row, Statuses, Terminal, AttemptStatuses
<1>4. BlockedRow(r, a) \in Row
  BY DEF BlockedRow, Row, Statuses, Terminal, AttemptStatuses
<1>5. ASSUME NEW why \in {"failed", "timed_out"} PROVE FailedRow(r, a, why) \in Row
  BY <1>5 DEF FailedRow, Row, Statuses, Terminal, AttemptStatuses
<1> QED BY <1>1, <1>2, <1>3, <1>4, <1>5

LEMMA RequestRowsType ==
    ASSUME NEW r \in Row, NEW a \in Nat
    PROVE  /\ Restarted(r, a) \in Row
           /\ Requeued(r, a) \in Row
           /\ UndoneRow(r) \in Row
           /\ \A f \in Findings : /\ ReopenedRow(r, f) \in Row
                                  /\ \A gone : FixedRow(r, f, gone) \in Row
                                  /\ \A d \in {"kept", "deferred", "none"} : DecidedRow(r, f, d) \in Row
           /\ [r EXCEPT !.attempt = a, !.attemptStatus = "running"] \in Row
<1>1. Restarted(r, a) \in Row
  BY DEF Restarted, Row, Statuses, AttemptStatuses
<1>2. Requeued(r, a) \in Row
  BY DEF Requeued, Row, Statuses, AttemptStatuses
<1>3. UndoneRow(r) \in Row
  <2>1. r.applied \in Seq(Findings) /\ r.decision \in [Findings -> Decisions]
    BY DEF Row
  <2>2. SubSeq(r.applied, 1, Len(r.applied) - 1) \in Seq(Findings)
    <3>1. Len(r.applied) \in Nat
      BY <2>1, LenProperties
    <3>2. \A i \in 1..(Len(r.applied) - 1) : r.applied[i] \in Findings
      BY <2>1, <3>1, ElementOfSeq
    <3> QED BY <3>1, <3>2, SubSeqProperties
  <2>3. [r.decision EXCEPT ![r.applied[Len(r.applied)]] = "none"] \in [Findings -> Decisions]
    BY <2>1 DEF Decisions
  <2>4. UndoneRow(r) = [r EXCEPT !.applied = SubSeq(r.applied, 1, Len(r.applied) - 1),
                                 !.decision = [r.decision EXCEPT ![r.applied[Len(r.applied)]] = "none"]]
    BY DEF UndoneRow, Row
  <2> QED BY <2>2, <2>3, <2>4 DEF Row
<1>4. ASSUME NEW f \in Findings PROVE ReopenedRow(r, f) \in Row
  BY DEF ReopenedRow, Row, Decisions
<1>5. ASSUME NEW f \in Findings, NEW gone PROVE FixedRow(r, f, gone) \in Row
  <2>1. Append(r.applied, f) \in Seq(Findings)
    BY AppendProperties DEF Row
  <2> QED BY <2>1 DEF FixedRow, Row, Decisions
<1>6. ASSUME NEW f \in Findings, NEW d \in {"kept", "deferred", "none"}
      PROVE  DecidedRow(r, f, d) \in Row
  BY DEF DecidedRow, Row, Decisions
<1>7. [r EXCEPT !.attempt = a, !.attemptStatus = "running"] \in Row
  BY DEF Row, AttemptStatuses
<1> QED BY <1>1, <1>2, <1>3, <1>4, <1>5, <1>6, <1>7

-----------------------------------------------------------------------------
(* The steps of the tasks.                                                  *)

LEMMA TasksAreFunctions ==
    ASSUME TypeOK
    PROVE  /\ Len(tasks) \in Nat
           /\ tasks \in [1..Len(tasks) -> Task]
           /\ DOMAIN tasks = 1..Len(tasks)
BY LenProperties DEF TypeOK

LEMMA FunctionsAreTasks ==
    ASSUME NEW n \in Nat, NEW s \in [1..n -> Task]
    PROVE  s \in Seq(Task) /\ Len(s) = n
OBVIOUS

\* A step of a task changes tasks, the row and the orphan, and nothing else.
LEMMA TaskStepKeepsTypes ==
    ASSUME TypeOK, row' \in Row, tasks' \in [1..Len(tasks) -> Task],
           orphan' \in 0..Len(tasks),
           UNCHANGED <<passed, attempts, slot, candidates, lock, call, envVars>>
    PROVE  TypeOK'
<1>1. tasks' \in Seq(Task) /\ Len(tasks') = Len(tasks)
  BY TasksAreFunctions, FunctionsAreTasks
<1> QED BY <1>1 DEF TypeOK, envVars

LEMMA PipelineType ==
    ASSUME TypeOK, NEW t \in DOMAIN tasks, Pipeline(t)
    PROVE  TypeOK'
<1> DEFINE TasksTyped == tasks' \in [1..Len(tasks) -> Task]
<1>1. row \in Row /\ t \in 1..Len(tasks) /\ tasks[t] \in Task /\ orphan \in 0..Len(tasks)
  BY TasksAreFunctions DEF TypeOK
<1>2. tasks[t].seen \in Row /\ tasks[t].attempt \in Nat
  BY <1>1 DEF Task
<1>3. ASSUME NEW how \in Ended, EndRun(t, how) PROVE TasksTyped
  BY <1>1, <1>3, NoRowType, TasksAreFunctions DEF EndRun, Task, PipelineStages
<1>4. ASSUME NEW stage \in PipelineStages, GoRun(t, stage) PROVE TasksTyped
  BY <1>1, <1>4, TasksAreFunctions DEF GoRun, Task
<1>5. ASSUME NEW new \in Row, NEW stage \in PipelineStages, RunWrites(t, new, stage)
      PROVE  row' \in Row /\ TasksTyped
  <2>1. ASSUME tasks' = [tasks EXCEPT ![t].run = stage, ![t].seen = new] PROVE TasksTyped
    BY <1>1, <1>5, <2>1, TasksAreFunctions DEF Task
  <2> QED BY <1>3, <1>5, <2>1 DEF RunWrites
<1>6. CASE RunBegin(t)
  <2>1. TasksTyped
    BY <1>1, <1>3, <1>6, TasksAreFunctions DEF RunBegin, Task, PipelineStages, Body, Ended
  <2> QED BY <1>1, <1>6, <2>1, TaskStepKeepsTypes DEF RunBegin, rowVars, envVars
<1>7. CASE RunStage(t)
  <2>1. {"planning", "reviewing", "aggregating"} \subseteq Statuses
    BY DEF Statuses
  <2>2. {"saving", "blocked", "reviewing", "executing", "completing"} \subseteq PipelineStages
    BY DEF PipelineStages, Body
  <2>3. \A s \in {"planning", "reviewing", "aggregating"} :
           /\ WithStatus(tasks[t].seen, s) \in Row
           /\ \A static \in SUBSET Findings :
                 [WithStatus(tasks[t].seen, s) EXCEPT !.active = static] \in Row
    <3>1. \A s \in {"planning", "reviewing", "aggregating"} :
             WithStatus(tasks[t].seen, s) \in Row
      BY <1>2, <2>1, RunRowsType
    <3> QED BY <1>2, <3>1, RunRowsType
  <2>4. row' \in Row /\ TasksTyped
    BY <1>5, <1>7, <2>2, <2>3 DEF RunStage
  <2> QED BY <1>1, <1>7, <2>4, TaskStepKeepsTypes DEF RunStage
<1>8. CASE RunExecutes(t)
  BY <1>1, <1>4, <1>8, TaskStepKeepsTypes DEF RunExecutes, PipelineStages, Body, rowVars
<1>9. CASE RunCompletes(t)
  <2>1. "returned" \in PipelineStages
    BY DEF PipelineStages, Ended
  <2>2. row' \in Row /\ TasksTyped
    BY <1>2, <1>5, <1>9, <2>1, RunRowsType DEF RunCompletes
  <2> QED BY <1>1, <1>9, <2>2, TaskStepKeepsTypes DEF RunCompletes
<1>10. CASE RunRaises(t)
  BY <1>1, <1>4, <1>10, TaskStepKeepsTypes DEF RunRaises, PipelineStages, rowVars
<1>11. CASE RunFenced(t)
  BY <1>1, <1>3, <1>11, TaskStepKeepsTypes DEF RunFenced, Ended, rowVars
<1>12. CASE RunFailGet(t)
  <2>1. TasksTyped
    BY <1>1, <1>3, <1>12, TasksAreFunctions DEF RunFailGet, Task, PipelineStages, Ended
  <2> QED BY <1>1, <1>12, <2>1, TaskStepKeepsTypes DEF RunFailGet, rowVars
<1>13. CASE RunFailWrite(t)
  <2>1. "returned" \in PipelineStages
    BY DEF PipelineStages, Ended
  <2>2. row' \in Row /\ TasksTyped
    BY <1>1, <1>2, <1>3, <1>5, <1>13, <2>1, RunRowsType DEF RunFailWrite, Ended
  <2> QED BY <1>1, <1>13, <2>2, TaskStepKeepsTypes DEF RunFailWrite
<1>14. CASE RunCancelled(t)
  <2>1. TasksTyped
    BY <1>1, <1>3, <1>14, TasksAreFunctions DEF RunCancelled, Task, PipelineStages, Ended
  <2> QED BY <1>1, <1>14, <2>1, TaskStepKeepsTypes DEF RunCancelled, rowVars
<1>15. CASE RunCancelGet(t)
  <2>1. TasksTyped
    <3>1. CASE EndRun(t, "cancelled")
      BY <1>3, <3>1 DEF Ended
    <3>2. CASE tasks' = [tasks EXCEPT ![t].run = "cancelWrite", ![t].seen = row]
      BY <1>1, <3>2, TasksAreFunctions DEF Task, PipelineStages
    <3> QED BY <1>15, <3>1, <3>2 DEF RunCancelGet
  <2> QED BY <1>1, <1>15, <2>1, TaskStepKeepsTypes DEF RunCancelGet, rowVars
<1>16. CASE RunCancelWrite(t)
  <2>1. WithStatus(tasks[t].seen, "cancelled") \in Row
    BY <1>2, RunRowsType DEF Statuses, Terminal
  <2>2. row' \in Row /\ TasksTyped
    BY <1>1, <1>3, <1>16, <2>1 DEF RunCancelWrite, Ended
  <2> QED BY <1>1, <1>16, <2>2, TaskStepKeepsTypes DEF RunCancelWrite
<1> QED
  BY <1>6, <1>7, <1>8, <1>9, <1>10, <1>11, <1>12, <1>13, <1>14, <1>15, <1>16 DEF Pipeline

LEMMA SupervisorType ==
    ASSUME TypeOK, NEW t \in DOMAIN tasks, Supervisor(t)
    PROVE  TypeOK'
<1> DEFINE TasksTyped == tasks' \in [1..Len(tasks) -> Task]
<1>1. /\ row \in Row /\ t \in 1..Len(tasks) /\ tasks[t] \in Task
      /\ orphan \in 0..Len(tasks) /\ tasks \in [1..Len(tasks) -> Task]
      /\ row.attempt \in Nat
  BY TasksAreFunctions DEF TypeOK, Row
<1>2. tasks[t].saw \in Row /\ tasks[t].attempt \in Nat
  BY <1>1 DEF Task
<1>3. ASSUME EndSupervisor(t) PROVE TasksTyped
  BY <1>1, <1>3, NoRowType DEF EndSupervisor, Task, SupervisorStages
<1>4. ASSUME NEW stage \in SupervisorStages, GoSupervisor(t, stage) PROVE TasksTyped
  BY <1>1, <1>4 DEF GoSupervisor, Task
<1>5. CASE SupervisorBegin(t)
  <2>1. TasksTyped
    BY <1>1, <1>2, <1>5 DEF SupervisorBegin, Task, SupervisorStages, PipelineStages
  <2> QED BY <1>1, <1>5, <2>1, TaskStepKeepsTypes DEF SupervisorBegin, rowVars
<1>6. CASE SupervisorWakes(t)
  <2>1. TasksTyped
    <3>1. {"abortGet", "timeoutGet"} \subseteq SupervisorStages
      BY DEF SupervisorStages
    <3>2. EndSupervisor(t) \/ GoSupervisor(t, "abortGet") \/ GoSupervisor(t, "timeoutGet")
      BY <1>6 DEF SupervisorWakes
    <3> QED BY <1>3, <1>4, <3>1, <3>2
  <2> QED BY <1>1, <1>6, <2>1, TaskStepKeepsTypes DEF SupervisorWakes, rowVars
<1>7. CASE CommitGet(t)
  <2>1. TasksTyped
    BY <1>1, <1>7 DEF CommitGet, Task, SupervisorStages
  <2> QED BY <1>1, <1>7, <2>1, TaskStepKeepsTypes DEF CommitGet, rowVars
<1>8. CASE CommitWrite(t)
  <2>1. PipelineLive(t) \in BOOLEAN
    BY DEF PipelineLive
  <2>2. ASSUME NEW why \in {"failed", "timed_out"}, CommitFailure(t, why) PROVE row' \in Row
    BY <1>1, <1>2, <2>2, RunRowsType DEF CommitFailure
  <2>3. row' \in Row
    BY <1>8, <2>2 DEF CommitWrite
  <2>4. TasksTyped
    <3>1. ASSUME NEW stage \in {"grace", "abortGrace", "done"},
                 tasks' = [tasks EXCEPT ![t].stage = stage, ![t].saw = NoRow,
                                        ![t].stop = PipelineLive(t)]
          PROVE  TasksTyped
      BY <1>1, <2>1, <3>1, NoRowType DEF Task, SupervisorStages
    <3> QED BY <1>8, <3>1 DEF CommitWrite
  <2> QED BY <1>1, <1>8, <2>3, <2>4, TaskStepKeepsTypes DEF CommitWrite
<1>9. CASE GraceEnds(t)
  BY <1>1, <1>3, <1>9, TaskStepKeepsTypes DEF GraceEnds, rowVars
<1>10. CASE GraceExpires(t)
  BY <1>1, <1>3, <1>10, TaskStepKeepsTypes DEF GraceExpires, rowVars
<1>11. CASE SupervisorCancelled(t)
  <2>1. TasksTyped
    BY <1>1, <1>3, <1>11 DEF SupervisorCancelled, Task, SupervisorStages
  <2> QED BY <1>1, <1>11, <2>1, TaskStepKeepsTypes DEF SupervisorCancelled, rowVars
<1> QED
  BY <1>5, <1>6, <1>7, <1>8, <1>9, <1>10, <1>11 DEF Supervisor

-----------------------------------------------------------------------------
(* The steps of the requests.                                               *)

\* A handler that saves a row for a finding has found the finding in the row, and
\* only the handlers of the lock queue for it.
RequestsFit ==
    \A c \in Calls :
        /\ call[c].stage \in {"decideSave", "reopenSave", "confirmSave"}
           => call[c].finding \in Findings
        /\ call[c].stage = "lock" => call[c].op \in LockedOps

CallTyped == call \in [Calls -> Call] /\ lock \in Calls \cup {NoCall}

\* A step of a request that creates no task.
LEMMA RequestKeepsTypes ==
    ASSUME TypeOK, row' \in Row, attempts' \in Nat, attempts' >= attempts,
           slot' \in 0..Len(tasks), candidates' \subseteq candidates, CallTyped',
           UNCHANGED <<passed, tasks, orphan, envVars>>
    PROVE  TypeOK'
<1>1. 1..attempts \subseteq 1..attempts'
  BY DEF TypeOK
<1> QED BY <1>1 DEF TypeOK, CallTyped, envVars

\* How a request moves on, with the lock it holds or without.
LEMMA CallMoves ==
    ASSUME TypeOK, NEW c \in Calls
    PROVE  /\ \A stage \in CallStages : GoCall(c, stage) /\ KeepLock => CallTyped'
           /\ \A r \in Row, stage \in CallStages :
                 CallSees(c, r, stage) /\ KeepLock => CallTyped'
           /\ EndCall(c) => CallTyped'
<1>1. call \in [Calls -> Call] /\ lock \in Calls \cup {NoCall}
  BY DEF TypeOK
<1>2. ASSUME NEW stage \in CallStages, GoCall(c, stage), KeepLock PROVE CallTyped'
  BY <1>1, <1>2 DEF GoCall, KeepLock, CallTyped, Call
<1>3. ASSUME NEW r \in Row, NEW stage \in CallStages, CallSees(c, r, stage), KeepLock
      PROVE  CallTyped'
  BY <1>1, <1>3 DEF CallSees, KeepLock, CallTyped, Call
<1>4. Idle \in Call
  BY NoRowType DEF Idle, Call, CallOps, CallStages
<1>5. ASSUME EndCall(c) PROVE CallTyped'
  BY <1>1, <1>4, <1>5 DEF EndCall, CallTyped
<1> QED BY <1>2, <1>3, <1>5

LEMMA CancelTaskType ==
    ASSUME TypeOK, NEW t \in 1..Len(tasks)
    PROVE  CancelTask(t) \in [1..Len(tasks) -> Task]
BY TasksAreFunctions DEF CancelTask, Task

LEMMA CancelOrDeleteType ==
    ASSUME TypeOK, NEW c \in Calls, CancelOrDelete(c)
    PROVE  TypeOK'
<1>1. /\ row \in Row /\ call[c] \in Call /\ slot \in 0..Len(tasks)
      /\ attempts \in Nat /\ lock \in Calls \cup {NoCall} /\ call \in [Calls -> Call]
  BY DEF TypeOK
<1>2. {"deleteRow", "cancelTask", "cancelAwait", "cancelReget", "cancelWrite"} \subseteq CallStages
  BY DEF CallStages
<1>3. ASSUME AfterCancel(c) PROVE CallTyped'
  BY <1>2, <1>3, CallMoves DEF AfterCancel
<1>4. CASE CancelGet(c)
  <2>1. CallTyped'
    BY <1>2, <1>3, <1>4, CallMoves DEF CancelGet
  <2> QED BY <1>1, <1>4, <2>1, RequestKeepsTypes DEF CancelGet, rowVars
<1>5. CASE CancelSlot(c)
  <2>1. CASE Live(slot)
    <3>1. slot \in 1..Len(tasks)
      BY <1>1, <2>1 DEF Live
    <3>2. tasks' \in [1..Len(tasks) -> Task]
      BY <1>5, <2>1, <3>1, CancelTaskType DEF CancelSlot
    <3>3. tasks' \in Seq(Task) /\ Len(tasks') = Len(tasks)
      BY <3>2, TasksAreFunctions, FunctionsAreTasks
    <3>4. call' \in [Calls -> Call]
      <4>1. slot \in Nat
        BY <3>1, TasksAreFunctions
      <4>2. call' = [call EXCEPT ![c].stage = "cancelAwait", ![c].target = slot]
        BY <1>5, <2>1 DEF CancelSlot
      <4> QED BY <1>1, <1>2, <4>1, <4>2 DEF Call
    <3> QED BY <1>5, <3>3, <3>4 DEF CancelSlot, TypeOK, rowVars, envVars
  <2>2. CASE ~Live(slot)
    <3>1. CallTyped' /\ UNCHANGED tasks
      BY <1>2, <1>5, <2>2, CallMoves DEF CancelSlot, KeepLock
    <3> QED BY <1>1, <1>5, <3>1, RequestKeepsTypes DEF CancelSlot, rowVars
  <2> QED BY <2>1, <2>2
<1>6. CASE CancelAwait(c)
  <2>1. CallTyped'
    BY <1>2, <1>6, CallMoves DEF CancelAwait, memVars, KeepLock
  <2> QED BY <1>1, <1>6, <2>1, RequestKeepsTypes DEF CancelAwait, rowVars, memVars
<1>7. CASE CancelReget(c)
  <2>1. CallTyped'
    BY <1>1, <1>2, <1>3, <1>7, CallMoves DEF CancelReget
  <2> QED BY <1>1, <1>7, <2>1, RequestKeepsTypes DEF CancelReget, rowVars
<1>8. CASE CancelWrite(c)
  <2>1. WithStatus(call[c].saw, "cancelled") \in Row
    BY <1>1, RunRowsType DEF Call, Statuses, Terminal
  <2>2. row' \in Row /\ CallTyped'
    BY <1>1, <1>3, <1>8, <2>1 DEF CancelWrite
  <2> QED BY <1>1, <1>8, <2>2, RequestKeepsTypes DEF CancelWrite
<1>9. CASE DeleteRow(c)
  <2>1. CallTyped'
    BY <1>9, CallMoves DEF DeleteRow
  <2>2. 0 \in 0..Len(tasks)
    BY TasksAreFunctions
  <2> QED BY <1>1, <1>9, <2>1, <2>2, NoRowType, RequestKeepsTypes DEF DeleteRow
<1> QED BY <1>4, <1>5, <1>6, <1>7, <1>8, <1>9 DEF CancelOrDelete

\* The saves of decide, reopen, confirm and undo.
LEMMA SaveThenType ==
    ASSUME TypeOK, NEW c \in Calls, NEW new \in Row, NEW restart \in BOOLEAN,
           SaveThen(c, new, restart)
    PROVE  row' \in Row /\ CallTyped'
<1>1. row \in Row /\ "reset" \in CallStages
  BY DEF TypeOK, CallStages
<1> QED BY <1>1, CallMoves DEF SaveThen

LEMMA LockedType ==
    ASSUME TypeOK, RequestsFit, NEW c \in Calls, Locked(c)
    PROVE  TypeOK'
<1>1. /\ row \in Row /\ call[c] \in Call /\ slot \in 0..Len(tasks)
      /\ attempts \in Nat /\ lock \in Calls \cup {NoCall} /\ call \in [Calls -> Call]
  BY DEF TypeOK
<1>2. /\ call[c].saw \in Row /\ call[c].decision \in {"kept", "deferred", "none"}
      /\ call[c].op \in CallOps
  BY <1>1 DEF Call
<1>3. {"resumeGet", "resumeSave", "decideGet", "decideSave", "reopenGet", "reopenSave",
       "confirmGet", "confirmSave", "startGet"} \subseteq CallStages
  BY DEF CallStages
<1>4. CASE AcquireLock(c)
  <2>1. CASE call' = [call EXCEPT ![c] = Idle] /\ KeepLock
    <3>1. EndCall(c)
      BY <1>1, <1>4, <2>1, ConstantsAssumption DEF AcquireLock, EndCall, KeepLock
    <3> QED BY <1>1, <1>4, <3>1, CallMoves, RequestKeepsTypes DEF AcquireLock, rowVars
  <2>2. CASE lock' = c
    <3>1. PICK stage \in {"resumeGet", "decideGet", "reopenGet", "confirmGet"} : GoCall(c, stage)
      BY <1>1, <1>4, <2>2, ConstantsAssumption
         DEF AcquireLock, KeepLock, LockedOps, RequestsFit, AtCall
    <3>2. call' \in [Calls -> Call]
      BY <1>1, <1>3, <3>1 DEF GoCall, Call
    <3> QED BY <1>1, <1>4, <2>2, <3>2, RequestKeepsTypes DEF AcquireLock, CallTyped, rowVars
  <2> QED BY <1>4, <2>1, <2>2 DEF AcquireLock
<1>5. CASE ResumeGet(c)
  <2>1. CallTyped'
    BY <1>1, <1>3, <1>5, CallMoves DEF ResumeGet
  <2> QED BY <1>1, <1>5, <2>1, RequestKeepsTypes DEF ResumeGet, rowVars
<1>6. CASE ResumeSave(c)
  <2>1. /\ row' \in Row /\ CallTyped'
        /\ attempts' \in Nat /\ attempts' >= attempts
    <3>1. CASE ~Exists
      BY <1>1, <1>6, <3>1, CallMoves DEF ResumeSave
    <3>2. CASE Exists
      <4>1. Requeued(call[c].saw, attempts + 1) \in Row
        <5>1. attempts + 1 \in Nat
          BY <1>1
        <5> QED BY <1>2, <5>1, RequestRowsType
      <4>2. CallTyped'
        BY <1>3, <1>6, <3>2, CallMoves DEF ResumeSave
      <4>3. row' \in Row
        BY <1>6, <3>2, <4>1 DEF ResumeSave
      <4>4. attempts' = attempts + 1 \/ attempts' = attempts + 0
        BY <1>6, <3>2 DEF ResumeSave
      <4> QED BY <1>1, <4>2, <4>3, <4>4
    <3> QED BY <3>1, <3>2
  <2> QED BY <1>1, <1>6, <2>1, RequestKeepsTypes DEF ResumeSave
<1>7. CASE DecideGet(c)
  <2>1. CallTyped'
    BY <1>1, <1>3, <1>7, CallMoves DEF DecideGet
  <2> QED BY <1>1, <1>7, <2>1, RequestKeepsTypes DEF DecideGet, rowVars
<1>8. CASE DecideSave(c)
  <2> DEFINE new == DecidedRow(call[c].saw, call[c].finding, call[c].decision)
  <2>1. new \in Row
    BY <1>2, <1>8, RequestRowsType DEF DecideSave, RequestsFit, AtCall
  <2>2. RestartsAfterDecision(new) \in BOOLEAN
    BY DEF RestartsAfterDecision
  <2>3. row' \in Row /\ CallTyped'
    BY <1>8, <2>1, <2>2, SaveThenType DEF DecideSave
  <2> QED BY <1>1, <1>8, <2>3, RequestKeepsTypes DEF DecideSave
<1>9. CASE ReopenGet(c)
  <2>1. CallTyped'
    BY <1>1, <1>3, <1>9, CallMoves DEF ReopenGet
  <2> QED BY <1>1, <1>9, <2>1, RequestKeepsTypes DEF ReopenGet, rowVars
<1>10. CASE ReopenSave(c)
  <2>1. ReopenedRow(call[c].saw, call[c].finding) \in Row
    BY <1>1, <1>2, <1>10, RequestRowsType DEF ReopenSave, RequestsFit, AtCall
  <2>2. row' \in Row /\ CallTyped'
    BY <1>10, <2>1, SaveThenType DEF ReopenSave
  <2> QED BY <1>1, <1>10, <2>2, RequestKeepsTypes DEF ReopenSave
<1>11. CASE ConfirmGet(c)
  <2>1. CallTyped' /\ candidates' \subseteq candidates
    <3>1. \/ EndCall(c)
          \/ CallSees(c, row, "confirmSave") /\ KeepLock
      BY <1>11 DEF ConfirmGet
    <3>2. candidates' \subseteq candidates
      BY <1>11 DEF ConfirmGet
    <3> QED BY <1>1, <1>3, <3>1, <3>2, CallMoves
  <2> QED BY <1>1, <1>11, <2>1, RequestKeepsTypes DEF ConfirmGet, rowVars
<1>12. CASE ConfirmSave(c)
  <2> DEFINE new(gone) == FixedRow(call[c].saw, call[c].finding, gone)
  <2>1. \A gone : new(gone) \in Row
    BY <1>1, <1>2, <1>12, RequestRowsType DEF ConfirmSave, RequestsFit, AtCall
  <2>2. row' \in Row /\ CallTyped'
    BY <1>12, <2>1, SaveThenType DEF ConfirmSave
  <2> QED BY <1>1, <1>12, <2>2, RequestKeepsTypes DEF ConfirmSave
<1>13. CASE ConfirmRejected(c)
  <2>1. CallTyped'
    BY <1>1, <1>3, <1>13, CallMoves DEF ConfirmRejected
  <2> QED BY <1>1, <1>13, <2>1, RequestKeepsTypes DEF ConfirmRejected, rowVars
<1> QED
  BY <1>4, <1>5, <1>6, <1>7, <1>8, <1>9, <1>10, <1>11, <1>12, <1>13 DEF Locked

LEMMA UndoAndResetType ==
    ASSUME TypeOK, NEW c \in Calls, UndoGet(c) \/ UndoSave(c) \/ Reset(c)
    PROVE  TypeOK'
<1>1. /\ row \in Row /\ call[c].saw \in Row /\ slot \in 0..Len(tasks) /\ attempts \in Nat
  BY DEF TypeOK, Call
<1>2. {"undoSave", "startGet"} \subseteq CallStages
  BY DEF CallStages
<1>3. CASE UndoGet(c)
  <2>1. CallTyped'
    BY <1>1, <1>2, <1>3, CallMoves DEF UndoGet
  <2> QED BY <1>1, <1>3, <2>1, RequestKeepsTypes DEF UndoGet, rowVars
<1>4. CASE UndoSave(c)
  <2>1. UndoneRow(call[c].saw) \in Row
    BY <1>1, RequestRowsType
  <2>2. row' \in Row /\ CallTyped'
    BY <1>4, <2>1, SaveThenType DEF UndoSave
  <2> QED BY <1>1, <1>4, <2>2, RequestKeepsTypes DEF UndoSave
<1>5. CASE Reset(c)
  <2>1. attempts + 1 \in Nat /\ attempts + 1 >= attempts
    BY <1>1
  <2>2. Restarted(call[c].saw, attempts + 1) \in Row
    BY <1>1, <2>1, RequestRowsType
  <2>3. CallTyped'
    BY <1>2, <1>5, CallMoves DEF Reset
  <2>4. row' \in Row /\ attempts' \in Nat /\ attempts' >= attempts
    BY <1>1, <1>5, <2>1, <2>2 DEF Reset
  <2> QED BY <1>1, <1>5, <2>3, <2>4, RequestKeepsTypes DEF Reset
<1> QED BY <1>3, <1>4, <1>5

LEMMA CreateTaskType ==
    ASSUME TypeOK, NEW c \in Calls, NEW a \in Nat, CreateTask(c, a),
           UNCHANGED <<rowVars, orphan, candidates, envVars>>
    PROVE  TypeOK'
<1>1. NewTask(a) \in Task
  BY NoRowType DEF NewTask, Task, SupervisorStages, PipelineStages
<1>2. tasks' \in Seq(Task) /\ Len(tasks') = Len(tasks) + 1
  BY <1>1, AppendProperties DEF CreateTask, TypeOK
<1>3. slot' \in 0..Len(tasks') /\ orphan' \in 0..Len(tasks')
  BY <1>2, TasksAreFunctions DEF CreateTask, TypeOK
<1>4. CallTyped'
  BY CallMoves DEF CreateTask
<1> QED BY <1>2, <1>3, <1>4 DEF TypeOK, CallTyped, rowVars, envVars

LEMMA StartType ==
    ASSUME TypeOK, NEW c \in Calls, Start(c)
    PROVE  TypeOK'
<1>1. /\ row \in Row /\ call[c] \in Call /\ slot \in 0..Len(tasks)
      /\ attempts \in Nat /\ lock \in Calls \cup {NoCall} /\ call \in [Calls -> Call]
  BY DEF TypeOK
<1>2. call[c].saw \in Row /\ call[c].target \in Nat /\ call[c].saw.attempt \in Nat
  BY <1>1 DEF Call, Row
<1>3. {"startSlot", "startSave", "startCreate", "startFailGet", "startFailWrite"} \subseteq CallStages
  BY DEF CallStages
<1>4. CASE StartGet(c)
  <2>1. CallTyped'
    BY <1>1, <1>3, <1>4, CallMoves DEF StartGet
  <2> QED BY <1>1, <1>4, <2>1, RequestKeepsTypes DEF StartGet, rowVars
<1>5. CASE StartSlot(c)
  <2> DEFINE r == call[c].saw
             reserved == [r EXCEPT !.attempt = attempts + 1, !.attemptStatus = "running"]
  <2>1. \/ EndCall(c) /\ UNCHANGED <<tasks, slot, attempts>>
        \/ CreateTask(c, 0) /\ UNCHANGED attempts
        \/ CallSees(c, reserved, "startSave") /\ attempts' = attempts + 1
           /\ UNCHANGED <<tasks, slot, lock>>
        \/ GoCall(c, "startFailGet") /\ UNCHANGED <<tasks, slot, lock, attempts>>
        \/ CreateTask(c, r.attempt) /\ UNCHANGED attempts
    BY <1>5 DEF StartSlot
  <2>2. UNCHANGED <<row, passed, orphan, candidates, envVars>>
    BY <1>5 DEF StartSlot
  <2>3. CASE EndCall(c) /\ UNCHANGED <<tasks, slot, attempts>>
    BY <1>1, <2>2, <2>3, CallMoves, RequestKeepsTypes
  <2>4. ASSUME NEW a \in Nat, CreateTask(c, a), UNCHANGED attempts PROVE TypeOK'
    BY <2>2, <2>4, CreateTaskType DEF rowVars
  <2>5. CASE /\ CallSees(c, reserved, "startSave") /\ attempts' = attempts + 1
             /\ UNCHANGED <<tasks, slot, lock>>
    <3>1. attempts' \in Nat /\ attempts' >= attempts
      BY <1>1, <2>5
    <3>2. reserved \in Row
      BY <1>2, <2>5, <3>1, RequestRowsType
    <3>3. CallTyped'
      BY <1>3, <2>5, <3>2, CallMoves DEF KeepLock
    <3> QED BY <1>1, <2>2, <2>5, <3>1, <3>3, RequestKeepsTypes
  <2>6. CASE GoCall(c, "startFailGet") /\ UNCHANGED <<tasks, slot, lock, attempts>>
    <3>1. CallTyped'
      BY <1>3, <2>6, CallMoves DEF KeepLock
    <3> QED BY <1>1, <2>2, <2>6, <3>1, RequestKeepsTypes
  <2> QED BY <1>2, <2>1, <2>3, <2>4, <2>5, <2>6
<1>6. CASE StartSave(c)
  <2>1. row' \in Row /\ CallTyped'
    BY <1>1, <1>2, <1>3, <1>6, CallMoves DEF StartSave
  <2> QED BY <1>1, <1>6, <2>1, RequestKeepsTypes DEF StartSave
<1>7. CASE StartCreate(c)
  BY <1>2, <1>7, CreateTaskType DEF StartCreate
<1>8. CASE StartFailGet(c)
  <2>1. CASE Exists
    <3>1. /\ call' = [call EXCEPT ![c].target = call[c].saw.attempt, ![c].saw = row,
                                  ![c].stage = "startFailWrite"]
          /\ lock' = lock
      BY <1>8, <2>1 DEF StartFailGet, KeepLock
    <3>2. CallTyped'
      BY <1>1, <1>2, <1>3, <3>1 DEF CallTyped, Call
    <3> QED BY <1>1, <1>8, <3>2, RequestKeepsTypes DEF StartFailGet, rowVars
  <2>2. CASE ~Exists
    BY <1>1, <1>8, <2>2, CallMoves, RequestKeepsTypes DEF StartFailGet, rowVars
  <2> QED BY <2>1, <2>2
<1>9. CASE StartFailWrite(c)
  <2>1. row' \in Row
    BY <1>1, <1>2, <1>9, RunRowsType DEF StartFailWrite
  <2> QED BY <1>1, <1>9, <2>1, CallMoves, RequestKeepsTypes DEF StartFailWrite
<1> QED BY <1>4, <1>5, <1>6, <1>7, <1>8, <1>9 DEF Start

-----------------------------------------------------------------------------
(* What a step of a request does to the request and to the lock.            *)

Saves == {"decideSave", "reopenSave", "confirmSave"}

\* The request goes on to its next await; the lock stays where it is.
MovesOn(c) ==
    /\ call[c].stage # "lock" /\ lock' = lock
    /\ \A d \in Calls \ {c} : call'[d] = call[d]
    /\ call'[c].op = call[c].op /\ call'[c].finding = call[c].finding
    /\ call'[c].stage # "lock"
    /\ call'[c].stage \in Saves => call[c].finding \in Findings

\* The request enters the per-review lock.
TakesLock(c) ==
    /\ call[c].stage = "lock" /\ lock = NoCall /\ lock' = c
    /\ \A d \in Calls \ {c} : call'[d] = call[d]
    /\ call'[c].op = call[c].op /\ call'[c].stage \notin Saves \cup {"lock"}

LEMMA MovesAreMoves ==
    ASSUME TypeOK, NEW c \in Calls, NEW stage \in CallStages, stage # "lock",
           stage \in Saves => call[c].finding \in Findings,
           call[c].stage # "lock"
    PROVE  /\ GoCall(c, stage) /\ KeepLock => MovesOn(c)
           /\ \A r \in Row : CallSees(c, r, stage) /\ KeepLock => MovesOn(c)
<1>1. call \in [Calls -> Call]
  BY DEF TypeOK
<1> QED BY <1>1 DEF GoCall, CallSees, KeepLock, MovesOn, Call

LEMMA RequestShape ==
    ASSUME TypeOK, RequestsFit, NEW c \in Calls, Request(c)
    PROVE  /\ call[c].stage # "idle" /\ process' = process
           /\ EndCall(c) \/ MovesOn(c) \/ TakesLock(c)
<1> DEFINE Shape == /\ call[c].stage # "idle" /\ process' = process
                    /\ EndCall(c) \/ MovesOn(c) \/ TakesLock(c)
<1>1. row \in Row /\ call[c] \in Call /\ call \in [Calls -> Call] /\ call[c].saw \in Row
  BY DEF TypeOK, Call
<1>2. ASSUME call[c].stage # "lock",
             NEW stage \in CallStages \ (Saves \cup {"lock"}), NEW r \in Row,
             \/ GoCall(c, stage) /\ KeepLock
             \/ CallSees(c, r, stage) /\ KeepLock
      PROVE  MovesOn(c)
  BY <1>2, MovesAreMoves
<1>3. {"deleteRow", "cancelTask", "cancelAwait", "cancelReget", "cancelWrite", "resumeSave",
       "startGet", "undoSave", "reset", "startSlot", "startSave", "startCreate",
       "startFailGet", "startFailWrite"} \subseteq CallStages \ (Saves \cup {"lock"})
  BY DEF CallStages, Saves
<1>4. CASE CancelGet(c)
  BY <1>1, <1>2, <1>3, <1>4 DEF CancelGet, AfterCancel, AtCall, envVars
<1>5. CASE CancelSlot(c)
  <2>1. call[c].stage = "cancelTask" /\ process' = process /\ lock' = lock
    BY <1>5 DEF CancelSlot, AtCall, envVars
  <2>2. CASE Live(slot)
    <3>1. call' = [call EXCEPT ![c].stage = "cancelAwait", ![c].target = slot]
      BY <1>5, <2>2 DEF CancelSlot
    <3>2. MovesOn(c)
      BY <1>1, <2>1, <3>1 DEF MovesOn, Call, Saves
    <3> QED BY <2>1, <3>2
  <2>3. CASE ~Live(slot)
    <3>1. GoCall(c, "cancelReget") /\ KeepLock
      BY <1>5, <2>1, <2>3 DEF CancelSlot, KeepLock
    <3> QED BY <1>1, <1>2, <1>3, <2>1, <3>1
  <2> QED BY <2>2, <2>3
<1>6. CASE CancelAwait(c)
  BY <1>1, <1>2, <1>3, <1>6 DEF CancelAwait, AtCall, KeepLock, memVars, envVars
<1>7. CASE CancelReget(c)
  BY <1>1, <1>2, <1>3, <1>7 DEF CancelReget, AfterCancel, AtCall, envVars
<1>8. CASE CancelWrite(c) \/ DeleteRow(c)
  BY <1>1, <1>2, <1>3, <1>8 DEF CancelWrite, DeleteRow, AfterCancel, AtCall, envVars
<1>9. CASE AcquireLock(c)
  <2>1. call[c].stage = "lock" /\ lock = NoCall /\ process' = process
    BY <1>9 DEF AcquireLock, AtCall, envVars
  <2>2. CASE call' = [call EXCEPT ![c] = Idle] /\ KeepLock
    <3>1. EndCall(c)
      BY <2>1, <2>2, ConstantsAssumption DEF EndCall, KeepLock
    <3> QED BY <2>1, <3>1
  <2>3. CASE lock' = c
    <3>1. PICK stage \in {"resumeGet", "decideGet", "reopenGet", "confirmGet"} : GoCall(c, stage)
      BY <1>9, <2>1, <2>3, ConstantsAssumption
         DEF AcquireLock, KeepLock, LockedOps, RequestsFit
    <3>2. TakesLock(c)
      BY <1>1, <2>1, <2>3, <3>1 DEF GoCall, TakesLock, Saves, Call
    <3> QED BY <2>1, <3>2
  <2> QED BY <1>9, <2>2, <2>3 DEF AcquireLock
<1>10. CASE ResumeGet(c) \/ ResumeSave(c)
  BY <1>1, <1>2, <1>3, <1>10 DEF ResumeGet, ResumeSave, AtCall, envVars
<1>11. CASE DecideGet(c) \/ ReopenGet(c) \/ ConfirmGet(c)
  <2>1. /\ call[c].stage \in {"decideGet", "reopenGet", "confirmGet"} /\ process' = process
        /\ \/ EndCall(c)
           \/ /\ call[c].finding \in row.active \cup row.decided
              /\ \E stage \in Saves : CallSees(c, row, stage) /\ KeepLock
    BY <1>11 DEF DecideGet, ReopenGet, ConfirmGet, AtCall, Saves, envVars
  <2>2. row.active \cup row.decided \subseteq Findings
    BY <1>1 DEF Row
  <2>3. "lock" \notin Saves /\ Saves \subseteq CallStages
    BY DEF Saves, CallStages
  <2> QED BY <1>1, <2>1, <2>2, <2>3, MovesAreMoves
<1>12. ASSUME NEW new, NEW restart, SaveThen(c, new, restart), new \in Row,
              call[c].stage # "lock"
       PROVE  EndCall(c) \/ MovesOn(c)
  BY <1>2, <1>3, <1>12 DEF SaveThen
<1>13. CASE DecideSave(c)
  <2>1. DecidedRow(call[c].saw, call[c].finding, call[c].decision) \in Row
    BY <1>1, <1>13, RequestRowsType DEF DecideSave, RequestsFit, AtCall, Call
  <2> QED BY <1>12, <1>13, <2>1 DEF DecideSave, AtCall, envVars
<1>14. CASE ReopenSave(c)
  <2>1. ReopenedRow(call[c].saw, call[c].finding) \in Row
    BY <1>1, <1>14, RequestRowsType DEF ReopenSave, RequestsFit, AtCall, TypeOK
  <2> QED BY <1>12, <1>14, <2>1 DEF ReopenSave, AtCall, envVars
<1>15. CASE ConfirmSave(c)
  <2>1. \A gone : FixedRow(call[c].saw, call[c].finding, gone) \in Row
    BY <1>1, <1>15, RequestRowsType DEF ConfirmSave, RequestsFit, AtCall, TypeOK
  <2> QED BY <1>12, <1>15, <2>1 DEF ConfirmSave, AtCall, envVars
<1>16. CASE UndoGet(c)
  BY <1>1, <1>2, <1>3, <1>16 DEF UndoGet, AtCall, envVars
<1>17. CASE UndoSave(c)
  <2>1. UndoneRow(call[c].saw) \in Row
    BY <1>1, RequestRowsType DEF TypeOK
  <2> QED BY <1>12, <1>17, <2>1 DEF UndoSave, AtCall, envVars
<1>18. CASE Reset(c)
  BY <1>1, <1>2, <1>3, <1>18 DEF Reset, AtCall, envVars
<1>19. CASE StartGet(c)
  BY <1>1, <1>2, <1>3, <1>19 DEF StartGet, AtCall, envVars
<1>20. CASE StartSlot(c)
  <2> DEFINE reserved == [call[c].saw EXCEPT !.attempt = attempts + 1, !.attemptStatus = "running"]
  <2>1. /\ call[c].stage = "startSlot" /\ process' = process
        /\ \/ EndCall(c)
           \/ CallSees(c, reserved, "startSave") /\ lock' = lock
           \/ GoCall(c, "startFailGet") /\ lock' = lock
    BY <1>20 DEF StartSlot, CreateTask, AtCall, envVars
  <2>2. attempts + 1 \in Nat
    BY DEF TypeOK
  <2>3. reserved \in Row
    BY <1>1, <2>2, RequestRowsType
  <2> QED BY <1>1, <1>2, <1>3, <2>1, <2>3 DEF KeepLock
<1>21. CASE StartSave(c)
  BY <1>1, <1>2, <1>3, <1>21 DEF StartSave, AtCall, envVars
<1>22. CASE StartCreate(c) \/ StartFailWrite(c)
  BY <1>22 DEF StartCreate, StartFailWrite, CreateTask, AtCall, envVars
<1>23. CASE StartFailGet(c)
  <2>1. call[c].stage = "startFailGet" /\ process' = process
    BY <1>23 DEF StartFailGet, AtCall, envVars
  <2>2. CASE Exists
    <3>1. /\ call' = [call EXCEPT ![c].target = call[c].saw.attempt, ![c].saw = row,
                                  ![c].stage = "startFailWrite"]
          /\ lock' = lock
      BY <1>23, <2>2 DEF StartFailGet, KeepLock
    <3>2. MovesOn(c)
      BY <1>1, <2>1, <3>1 DEF MovesOn, Call, Saves
    <3> QED BY <2>1, <3>2
  <2>3. CASE ~Exists
    BY <1>23, <2>1, <2>3 DEF StartFailGet
  <2> QED BY <2>2, <2>3
<1>24. CASE ConfirmRejected(c)
  BY <1>24 DEF ConfirmRejected, AtCall, envVars
<1> QED
  BY <1>4, <1>5, <1>6, <1>7, <1>8, <1>9, <1>10, <1>11, <1>13, <1>14, <1>15, <1>16, <1>17,
     <1>18, <1>19, <1>20, <1>21, <1>22, <1>23, <1>24 DEF Request, CancelOrDelete, Locked, Start

-----------------------------------------------------------------------------
(* Arrivals, the environment and type correctness.                          *)

LEMMA NewCallType ==
    ASSUME NEW op \in CallOps, NEW stage \in CallStages, NEW f \in Findings \cup {"none"},
           NEW d \in {"kept", "deferred", "none"}
    PROVE  NewCall(op, stage, f, d) \in Call
BY NoRowType DEF NewCall, Call

LEMMA BeginCallShape ==
    ASSUME TypeOK, NEW c \in Calls, BeginCall(c)
    PROVE  /\ call[c] = Idle /\ process = "up" /\ call' \in [Calls -> Call]
           /\ \A d \in Calls \ {c} : call'[d] = call[d]
           /\ call'[c].stage \in {"cancelGet", "undoGet", "lock"}
           /\ call'[c].stage = "lock" <=> call'[c].op \in LockedOps
<1>1. PICK op \in Ops \ {"preview", "deleteUser"}, f \in Findings \cup {"none"},
           d \in {"kept", "deferred", "none"} :
         call' = [call EXCEPT ![c] = NewCall(op, FirstStage(op), f, d)]
  BY DEF BeginCall
<1>2. op \in {"cancel", "delete", "undo"} \cup LockedOps /\ op \in CallOps
  BY ConstantsAssumption DEF AllOps, LockedOps, CallOps
<1>3. /\ FirstStage(op) \in {"cancelGet", "undoGet", "lock"}
      /\ FirstStage(op) = "lock" <=> op \in LockedOps
  BY <1>2 DEF FirstStage, LockedOps
<1>4. FirstStage(op) \in CallStages
  BY <1>3 DEF CallStages
<1>5. NewCall(op, FirstStage(op), f, d) \in Call
  BY <1>2, <1>4, NewCallType
<1>6. call \in [Calls -> Call]
  BY DEF TypeOK
<1>7. call'[c] = NewCall(op, FirstStage(op), f, d)
  BY <1>1, <1>6
<1>8. call'[c].op = op /\ call'[c].stage = FirstStage(op)
  BY <1>7 DEF NewCall
<1> QED BY <1>1, <1>3, <1>5, <1>6, <1>8 DEF BeginCall

LEMMA BeginCallType ==
    ASSUME TypeOK, NEW c \in Calls, BeginCall(c)
    PROVE  TypeOK'
<1>1. sent' \in 0..MaxCalls
  BY ConstantsAssumption DEF BeginCall, TypeOK
<1> QED BY <1>1, BeginCallShape DEF BeginCall, TypeOK, rowVars, memVars

\* A process that shuts down has been counted neither as exited nor as allowed
\* to exit once too often.
ExitCounted == process = "stopping" => exits < MaxRestarts

TypeInv == TypeOK /\ RequestsFit /\ ExitCounted

LEMMA ForgetMemoryType ==
    ASSUME ForgetMemory
    PROVE  /\ tasks' \in Seq(Task) /\ slot' \in 0..Len(tasks') /\ orphan' \in 0..Len(tasks')
           /\ candidates' \subseteq [finding : Findings, base : Seq(Findings)]
           /\ lock' \in Calls \cup {NoCall} /\ call' \in [Calls -> Call]
<1>1. Idle \in Call
  BY NoRowType DEF Idle, Call, CallOps, CallStages
<1>2. tasks' \in Seq(Task) /\ Len(tasks') = 0
  BY EmptySeq DEF ForgetMemory
<1> QED BY <1>1, <1>2 DEF ForgetMemory

LEMMA EnvironmentType ==
    ASSUME TypeInv, Environment
    PROVE  TypeOK' /\ ExitCounted'
<1> USE ConstantsAssumption DEF TypeInv
<1>1. CASE Preview
  <2>1. candidates' \subseteq [finding : Findings, base : Seq(Findings)]
    BY <1>1 DEF Preview, TypeOK, Row
  <2> QED BY <1>1, <2>1 DEF Preview, TypeOK, ExitCounted, rowVars, envVars
<1>2. CASE OwnerDeleted
  BY <1>2, NoRowType DEF OwnerDeleted, TypeOK, ExitCounted, memVars, envVars
<1>3. CASE DeadlinePasses
  BY <1>3 DEF DeadlinePasses, TypeOK, ExitCounted, memVars, envVars
<1>4. CASE Shutdown
  <2> DEFINE slotCancelled == IF Live(slot) THEN CancelTask(slot) ELSE tasks
  <2>1. slotCancelled \in [1..Len(tasks) -> Task]
    <3>1. CASE Live(slot)
      <4>1. slot \in 1..Len(tasks)
        BY <3>1 DEF Live, TypeOK
      <4> QED BY <3>1, <4>1, CancelTaskType
    <3>2. CASE ~Live(slot)
      BY <3>2, TasksAreFunctions
    <3> QED BY <3>1, <3>2
  <2>2. orphan # 0 => orphan \in 1..Len(tasks)
    BY DEF TypeOK
  <2>3. ASSUME NEW s \in [1..Len(tasks) -> Task], orphan # 0
        PROVE  [s EXCEPT ![orphan].stop = TRUE] \in [1..Len(tasks) -> Task]
    BY <2>2, <2>3 DEF Task
  <2>4. tasks' \in [1..Len(tasks) -> Task]
    BY <1>4, <2>1, <2>3 DEF Shutdown
  <2>5. tasks' \in Seq(Task) /\ Len(tasks') = Len(tasks)
    BY <2>4, TasksAreFunctions, FunctionsAreTasks
  <2> QED BY <1>4, <2>5 DEF Shutdown, TypeOK, ExitCounted, rowVars
<1>5. CASE Exit
  <2>1. exits' \in 0..MaxRestarts
    BY <1>5 DEF Exit, TypeOK, ExitCounted
  <2> QED BY <1>5, <2>1, ForgetMemoryType DEF Exit, TypeOK, ExitCounted, rowVars
<1>6. CASE Restart
  <2>1. call' \in [Calls -> Call]
    <3>1. CASE UNCHANGED call
      BY <3>1 DEF TypeOK
    <3>2. ASSUME NEW c \in Calls,
                 call' = [call EXCEPT ![c] = NewCall("recover", "startGet", "none", "none")]
          PROVE  call' \in [Calls -> Call]
      BY <3>2, NewCallType DEF TypeOK, CallOps, CallStages
    <3> QED BY <1>6, <3>1, <3>2 DEF Restart
  <2> QED BY <1>6, <2>1 DEF Restart, TypeOK, ExitCounted, rowVars, memVars
<1> QED BY <1>1, <1>2, <1>3, <1>4, <1>5, <1>6 DEF Environment

\* What an environment step does to the requests.
LEMMA EnvironmentShape ==
    ASSUME TypeOK, Environment
    PROVE  \/ UNCHANGED <<call, lock>> /\ process' = process
           \/ UNCHANGED <<call, lock>> /\ \A c \in Calls : call[c] = Idle
           \/ UNCHANGED <<call, lock>> /\ process' = "up"
           \/ lock' = NoCall /\ \A c \in Calls : call'[c] = Idle
           \/ /\ process = "down" /\ process' = "up" /\ UNCHANGED lock
              /\ \E c \in Calls :
                    call' = [call EXCEPT ![c] = NewCall("recover", "startGet", "none", "none")]
BY DEF Environment, Preview, OwnerDeleted, DeadlinePasses, Shutdown, Exit, ForgetMemory, Restart,
       memVars, envVars

LEMMA TaskStepShape ==
    ASSUME NEW t \in DOMAIN tasks, Pipeline(t) \/ Supervisor(t)
    PROVE  UNCHANGED <<call, lock, process, exits>>
<1>1. CASE Pipeline(t)
  BY <1>1 DEF Pipeline, RunBegin, RunStage, RunExecutes, RunCompletes, RunRaises, RunFenced,
              RunFailGet, RunFailWrite, RunCancelled, RunCancelGet, RunCancelWrite, envVars
<1>2. CASE Supervisor(t)
  BY <1>2 DEF Supervisor, SupervisorBegin, SupervisorWakes, CommitGet, CommitWrite, GraceEnds,
              GraceExpires, SupervisorCancelled, envVars
<1> QED BY <1>1, <1>2

LEMMA RequestsStayFit ==
    ASSUME TypeInv, [Next]_vars
    PROVE  RequestsFit'
<1> USE DEF TypeInv
<1>1. ASSUME UNCHANGED call PROVE RequestsFit'
  BY <1>1 DEF RequestsFit
<1>2. Idle.stage = "idle"
  BY DEF Idle
<1>3. call \in [Calls -> Call]
  BY DEF TypeOK
<1>4. ASSUME NEW c \in Calls, Request(c) PROVE RequestsFit'
  <2>1. CASE EndCall(c)
    BY <1>2, <1>3, <2>1 DEF EndCall, RequestsFit
  <2>2. CASE MovesOn(c)
    BY <2>2 DEF MovesOn, Saves, RequestsFit
  <2>3. CASE TakesLock(c)
    BY <2>3 DEF TakesLock, Saves, RequestsFit
  <2> QED BY <1>4, <2>1, <2>2, <2>3, RequestShape
<1>5. ASSUME NEW c \in Calls, BeginCall(c) PROVE RequestsFit'
  BY <1>5, BeginCallShape DEF RequestsFit
<1>6. ASSUME Environment PROVE RequestsFit'
  <2>1. ASSUME \A c \in Calls : call'[c] = Idle PROVE RequestsFit'
    BY <1>2, <2>1 DEF RequestsFit
  <2>2. ASSUME NEW c \in Calls,
               call' = [call EXCEPT ![c] = NewCall("recover", "startGet", "none", "none")]
        PROVE  RequestsFit'
    BY <1>3, <2>2 DEF RequestsFit, NewCall
  <2> QED BY <1>1, <1>6, <2>1, <2>2, EnvironmentShape
<1> QED BY <1>1, <1>4, <1>5, <1>6, TaskStepShape DEF Next, TaskStep, vars

\* The inductive strengthening of TypeOK.
THEOREM LifecycleTypeInvariant == Spec => []TypeInv
<1>1. Init => TypeInv
  <2> SUFFICES ASSUME Init PROVE TypeInv
    OBVIOUS
  <2> USE ConstantsAssumption
  <2>1. row \in Row
    BY NoRowType DEF Init, FirstRow, Row, Statuses
  <2>2. Idle \in Call
    BY NoRowType DEF Idle, Call, CallOps, CallStages
  <2>3. NewCall("create", "startGet", "none", "none") \in Call
    BY NewCallType DEF CallOps, CallStages
  <2>4. call \in [Calls -> Call]
    BY <2>2, <2>3 DEF Init
  <2>5. tasks \in Seq(Task) /\ Len(tasks) = 0
    BY EmptySeq DEF Init
  <2>6. TypeOK
    <3>1. sent \in 0..MaxCalls /\ passed \subseteq 1..attempts /\ exits \in 0..MaxRestarts
      BY DEF Init
    <3>2. slot \in 0..Len(tasks) /\ orphan \in 0..Len(tasks) /\ attempts \in Nat
      BY <2>5 DEF Init
    <3> QED BY <2>1, <2>4, <2>5, <3>1, <3>2 DEF Init, TypeOK
  <2>7. RequestsFit
    <3>1. \A c \in Calls : call[c].stage \in {"startGet", "idle"}
      BY DEF Init, NewCall, Idle
    <3> QED BY <3>1 DEF RequestsFit
  <2> QED BY <2>6, <2>7 DEF TypeInv, ExitCounted, Init
<1>2. TypeInv /\ [Next]_vars => TypeInv'
  <2> SUFFICES ASSUME TypeInv, [Next]_vars PROVE TypeInv'
    OBVIOUS
  <2>1. TypeOK /\ RequestsFit /\ ExitCounted
    BY DEF TypeInv
  <2>2. ASSUME NEW t \in DOMAIN tasks, Pipeline(t) \/ Supervisor(t)
        PROVE  TypeOK' /\ ExitCounted'
    BY <2>1, <2>2, PipelineType, SupervisorType, TaskStepShape DEF ExitCounted
  <2>3. ASSUME NEW c \in Calls, Request(c) PROVE TypeOK' /\ ExitCounted'
    <3>1. TypeOK'
      BY <2>1, <2>3, CancelOrDeleteType, LockedType, UndoAndResetType, StartType DEF Request
    <3>2. UNCHANGED exits
      BY <2>3 DEF Request, CancelOrDelete, CancelGet, CancelSlot, CancelAwait, CancelReget,
         CancelWrite, DeleteRow, Locked, AcquireLock, ResumeGet, ResumeSave, DecideGet,
         DecideSave, ReopenGet, ReopenSave, ConfirmGet, ConfirmRejected, ConfirmSave, UndoGet, UndoSave, Reset,
         Start, StartGet, StartSlot, StartSave, StartCreate, StartFailGet, StartFailWrite,
         envVars
    <3>3. process' = process
      BY <2>1, <2>3, RequestShape
    <3> QED BY <2>1, <3>1, <3>2, <3>3 DEF ExitCounted
  <2>4. ASSUME NEW c \in Calls, BeginCall(c) PROVE TypeOK' /\ ExitCounted'
    BY <2>1, <2>4, BeginCallType DEF BeginCall, ExitCounted
  <2>5. ASSUME UNCHANGED vars PROVE TypeOK' /\ ExitCounted'
    <3>1. UNCHANGED <<row, passed, attempts>> /\ UNCHANGED <<sent, process, exits, call>>
      BY <2>5 DEF vars, rowVars, envVars
    <3>2. UNCHANGED <<tasks, slot, orphan, candidates, lock>>
      BY <2>5 DEF vars, memVars
    <3>3. TypeOK'
      BY <2>1, <3>1, <3>2 DEF TypeOK
    <3> QED BY <2>1, <3>1, <3>3 DEF ExitCounted
  <2>6. ASSUME Environment PROVE TypeOK' /\ ExitCounted'
    BY <2>6, EnvironmentType
  <2>7. TypeOK' /\ ExitCounted'
    BY <2>2, <2>3, <2>4, <2>5, <2>6 DEF Next, TaskStep
  <2> QED BY <2>7, RequestsStayFit DEF TypeInv
<1> QED BY <1>1, <1>2, PTL DEF Spec

\* Every row, task and request keeps its type, whatever interleaving of
\* handlers, pipelines, supervisors, restarts and deletions produced it.
THEOREM LifecycleTypeCorrect == Spec => []TypeOK
<1>1. TypeInv => TypeOK
  BY DEF TypeInv
<1> QED BY <1>1, LifecycleTypeInvariant, PTL

-----------------------------------------------------------------------------
(* The per-review lock.                                                     *)

\* A process that is not up serves no request.
DownIdle == process # "up" => \A c \in Calls : call[c] = Idle

LockInv == LockExcludes /\ DownIdle

LEMMA LockInvariant == Spec => []LockInv
<1> USE ConstantsAssumption
<1>1. Idle.op \notin LockedOps /\ Idle.stage = "idle"
  BY DEF Idle, LockedOps
<1>2. Init => LockInv
  <2> SUFFICES ASSUME Init PROVE LockInv
    OBVIOUS
  <2>1. \A c \in Calls : call[c].op \in {"create", "idle"}
    BY DEF Init, NewCall, Idle
  <2>2. \A c \in Calls : ~InsideLock(c)
    BY <2>1 DEF InsideLock, LockedOps
  <2>3. lock = NoCall /\ process = "up"
    BY DEF Init
  <2> QED BY <2>2, <2>3 DEF LockInv, LockExcludes, DownIdle
<1>3. TypeInv /\ LockInv /\ [Next]_vars => LockInv'
  <2> SUFFICES ASSUME TypeInv, LockInv, [Next]_vars PROVE LockInv'
    OBVIOUS
  <2>1. /\ TypeOK /\ RequestsFit /\ LockExcludes /\ DownIdle
        /\ call \in [Calls -> Call]
    BY DEF TypeInv, LockInv, TypeOK
  <2>2. ASSUME NEW c \in Calls, Request(c) PROVE LockInv'
    <3>1. call[c].stage # "idle" /\ process' = process
      BY <2>1, <2>2, RequestShape
    <3>2. DownIdle'
      BY <1>1, <2>1, <3>1 DEF DownIdle
    <3>3. CASE EndCall(c)
      <4>1. call'[c] = Idle /\ lock' # c /\ \A d \in Calls \ {c} : call'[d] = call[d]
        BY <2>1, <3>3 DEF EndCall
      <4>2. \A d \in Calls \ {c} : lock' = d <=> lock = d
        BY <3>3 DEF EndCall
      <4> QED BY <1>1, <2>1, <3>2, <4>1, <4>2 DEF LockInv, LockExcludes, InsideLock
    <3>4. CASE MovesOn(c)
      BY <2>1, <3>2, <3>4 DEF MovesOn, LockInv, LockExcludes, InsideLock
    <3>5. CASE TakesLock(c)
      <4>1. call'[c].op \in LockedOps /\ call'[c].stage # "lock"
        BY <2>1, <3>5 DEF TakesLock, RequestsFit
      <4>2. \A d \in Calls : ~InsideLock(d)
        BY <2>1, <3>5 DEF TakesLock, LockExcludes
      <4> QED BY <3>2, <3>5, <4>1, <4>2 DEF TakesLock, LockInv, LockExcludes, InsideLock
    <3> QED BY <2>1, <2>2, <3>3, <3>4, <3>5, RequestShape
  <2>3. ASSUME NEW c \in Calls, BeginCall(c) PROVE LockInv'
    <3>1. lock' = lock /\ process = "up" /\ process' = "up"
      BY <2>3 DEF BeginCall, memVars
    <3>2. /\ call[c] = Idle /\ \A d \in Calls \ {c} : call'[d] = call[d]
          /\ call'[c].stage = "lock" <=> call'[c].op \in LockedOps
      BY <2>1, <2>3, BeginCallShape
    <3> QED BY <1>1, <2>1, <3>1, <3>2 DEF LockInv, LockExcludes, DownIdle, InsideLock
  <2>4. ASSUME UNCHANGED <<call, lock>> PROVE LockExcludes'
    BY <2>1, <2>4 DEF LockExcludes, InsideLock
  <2>5. ASSUME Environment PROVE LockInv'
    <3>1. CASE UNCHANGED <<call, lock>> /\ process' = process
      BY <2>1, <2>4, <3>1 DEF LockInv, DownIdle
    <3>2. CASE UNCHANGED <<call, lock>> /\ \A c \in Calls : call[c] = Idle
      BY <2>4, <3>2 DEF LockInv, DownIdle
    <3>3. CASE UNCHANGED <<call, lock>> /\ process' = "up"
      BY <2>4, <3>3 DEF LockInv, DownIdle
    <3>4. CASE lock' = NoCall /\ \A c \in Calls : call'[c] = Idle
      BY <1>1, <3>4 DEF LockInv, LockExcludes, DownIdle, InsideLock
    <3>5. ASSUME process = "down", process' = "up", UNCHANGED lock, NEW c \in Calls,
                 call' = [call EXCEPT ![c] = NewCall("recover", "startGet", "none", "none")]
          PROVE  LockInv'
      <4>1. \A d \in Calls : call[d] = Idle
        BY <2>1, <3>5 DEF DownIdle
      <4>2. \A d \in Calls : lock # d
        BY <1>1, <2>1, <4>1 DEF LockExcludes, InsideLock
      <4>3. \A d \in Calls : call'[d].op \in {"recover", "idle"}
        BY <2>1, <3>5, <4>1 DEF NewCall, Idle
      <4> QED BY <3>5, <4>2, <4>3 DEF LockInv, LockExcludes, DownIdle, InsideLock, LockedOps
    <3> QED BY <2>1, <2>5, <3>1, <3>2, <3>3, <3>4, <3>5, EnvironmentShape
  <2>6. ASSUME UNCHANGED <<call, lock, process>> PROVE LockInv'
    BY <2>1, <2>4, <2>6 DEF LockInv, DownIdle
  <2> QED
    BY <2>2, <2>3, <2>5, <2>6, TaskStepShape DEF Next, TaskStep, vars, memVars, envVars
<1> QED BY <1>2, <1>3, LifecycleTypeInvariant, PTL DEF Spec

\* Two requests are never both inside the per-review lock, at any await of
\* resume, decide, reopen or confirm and of the start() they end with.
THEOREM LockIsExclusive == Spec => []LockExcludes
<1>1. LockInv => LockExcludes
  BY DEF LockInv
<1> QED BY <1>1, LockInvariant, PTL

LEMMA NobodyIsServedDown == Spec => []DownIdle
<1>1. LockInv => DownIdle
  BY DEF LockInv
<1> QED BY <1>1, LockInvariant, PTL

-----------------------------------------------------------------------------
(* Stale attempts.                                                          *)

\* Only the pipeline of a first review marks a row cancelled by itself: this is
\* the one write of a pipeline that neither compares nor looks at the row.
OnlyFirstRunsCancel ==
    \A t \in DOMAIN tasks :
        tasks[t].run \in {"cancelGet", "cancelWrite"} => tasks[t].attempt = 0

\* A step of task t leaves the other tasks alone and keeps t's attempt.
LEMMA TaskStepChangesOneTask ==
    ASSUME TypeOK, NEW t \in DOMAIN tasks, Pipeline(t) \/ Supervisor(t)
    PROVE  /\ DOMAIN tasks' = DOMAIN tasks
           /\ \A u \in DOMAIN tasks \ {t} : tasks'[u] = tasks[u]
           /\ tasks'[t].attempt = tasks[t].attempt
<1>1. t \in 1..Len(tasks) /\ tasks[t] \in Task /\ tasks \in [1..Len(tasks) -> Task]
  BY TasksAreFunctions
<1> DEFINE Same == /\ DOMAIN tasks' = DOMAIN tasks
                   /\ \A u \in DOMAIN tasks \ {t} : tasks'[u] = tasks[u]
                   /\ tasks'[t].attempt = tasks[t].attempt
<1>2. ASSUME NEW how, EndRun(t, how) PROVE Same
  BY <1>1, <1>2 DEF EndRun, Task
<1>3. ASSUME NEW stage, GoRun(t, stage) PROVE Same
  BY <1>1, <1>3 DEF GoRun, Task
<1>4. ASSUME EndSupervisor(t) PROVE Same
  BY <1>1, <1>4 DEF EndSupervisor, Task
<1>5. ASSUME NEW stage, GoSupervisor(t, stage) PROVE Same
  BY <1>1, <1>5 DEF GoSupervisor, Task
<1>6. ASSUME NEW stage, NEW r,
             tasks' = [tasks EXCEPT ![t].run = stage, ![t].seen = r]
      PROVE  Same
  BY <1>1, <1>6 DEF Task
<1>7. CASE Pipeline(t)
  <2>1. ASSUME NEW new, NEW stage, RunWrites(t, new, stage) PROVE Same
    BY <1>2, <1>6, <2>1 DEF RunWrites
  <2>2. CASE RunStage(t) \/ RunCompletes(t)
    BY <2>1, <2>2 DEF RunStage, RunCompletes
  <2>3. CASE RunBegin(t) \/ RunFailGet(t) \/ RunCancelGet(t)
    BY <1>2, <1>6, <2>3 DEF RunBegin, RunFailGet, RunCancelGet
  <2>4. CASE RunExecutes(t) \/ RunRaises(t) \/ RunFenced(t) \/ RunCancelWrite(t)
    BY <1>2, <1>3, <2>4 DEF RunExecutes, RunRaises, RunFenced, RunCancelWrite
  <2>5. CASE RunFailWrite(t)
    BY <1>2, <2>1, <2>5 DEF RunFailWrite
  <2>6. CASE RunCancelled(t)
    <3>1. ASSUME tasks' = [tasks EXCEPT ![t].run = "cancelGet", ![t].stop = FALSE] PROVE Same
      BY <1>1, <3>1 DEF Task
    <3> QED BY <1>2, <2>6, <3>1 DEF RunCancelled
  <2> QED BY <1>7, <2>2, <2>3, <2>4, <2>5, <2>6 DEF Pipeline
<1>8. CASE Supervisor(t)
  <2>1. CASE SupervisorBegin(t)
    BY <1>1, <2>1 DEF SupervisorBegin, Task
  <2>2. CASE SupervisorWakes(t)
    BY <1>4, <1>5, <2>2 DEF SupervisorWakes
  <2>3. CASE CommitGet(t)
    BY <1>1, <2>3 DEF CommitGet, Task
  <2>4. CASE CommitWrite(t)
    <3>1. ASSUME tasks' = [tasks EXCEPT ![t].stage = "grace", ![t].saw = NoRow,
                                      ![t].stop = PipelineLive(t)]
          PROVE  Same
      BY <1>1, <3>1 DEF Task
    <3>2. ASSUME tasks' = [tasks EXCEPT
                           ![t].stage = IF PipelineLive(t) THEN "abortGrace" ELSE "done",
                           ![t].saw = NoRow, ![t].stop = PipelineLive(t)]
          PROVE  Same
      BY <1>1, <3>2 DEF Task
    <3> QED BY <2>4, <3>1, <3>2 DEF CommitWrite
  <2>5. CASE GraceEnds(t) \/ GraceExpires(t)
    BY <1>4, <2>5 DEF GraceEnds, GraceExpires
  <2>6. CASE SupervisorCancelled(t)
    <3>1. ASSUME tasks' = [tasks EXCEPT ![t].stage = "abortGet", ![t].abort = FALSE] PROVE Same
      BY <1>1, <3>1 DEF Task
    <3> QED BY <1>4, <2>6, <3>1 DEF SupervisorCancelled
  <2> QED BY <1>8, <2>1, <2>2, <2>3, <2>4, <2>5, <2>6 DEF Supervisor
<1> QED BY <1>7, <1>8

\* Where a step can lead the pipeline of a recheck: never to the self-inflicted
\* cancellation of a first review.
LEMMA RechecksDoNotCancel ==
    ASSUME TypeOK, NEW t \in DOMAIN tasks, Pipeline(t) \/ Supervisor(t),
           tasks[t].run \in {"cancelGet", "cancelWrite"} => tasks[t].attempt = 0
    PROVE  tasks'[t].run \in {"cancelGet", "cancelWrite"} => tasks[t].attempt = 0
<1>1. t \in 1..Len(tasks) /\ tasks[t] \in Task /\ tasks \in [1..Len(tasks) -> Task]
  BY TasksAreFunctions
<1> DEFINE Safe == tasks'[t].run \in {"cancelGet", "cancelWrite"} => tasks[t].attempt = 0
<1>2. ASSUME NEW how \in Ended, EndRun(t, how) PROVE Safe
  BY <1>1, <1>2 DEF EndRun, Ended, Task
<1>3. ASSUME NEW stage \in Body \cup Ended \cup {"failGet"}, GoRun(t, stage) PROVE Safe
  BY <1>1, <1>3 DEF GoRun, Body, Ended, Task
<1>4. CASE Supervisor(t)
  <2>1. tasks'[t].run = tasks[t].run \/ tasks'[t].run = "begin"
    <3>1. ASSUME EndSupervisor(t) PROVE tasks'[t].run = tasks[t].run
      BY <1>1, <3>1 DEF EndSupervisor, Task
    <3>2. ASSUME NEW stage, GoSupervisor(t, stage) PROVE tasks'[t].run = tasks[t].run
      BY <1>1, <3>2 DEF GoSupervisor, Task
    <3>3. CASE SupervisorBegin(t) \/ CommitGet(t)
      BY <1>1, <3>3 DEF SupervisorBegin, CommitGet, Task
    <3>4. CASE CommitWrite(t)
      <4>1. ASSUME tasks' = [tasks EXCEPT ![t].stage = "grace", ![t].saw = NoRow,
                                        ![t].stop = PipelineLive(t)]
            PROVE  tasks'[t].run = tasks[t].run
        BY <1>1, <4>1 DEF Task
      <4>2. ASSUME tasks' = [tasks EXCEPT
                             ![t].stage = IF PipelineLive(t) THEN "abortGrace" ELSE "done",
                             ![t].saw = NoRow, ![t].stop = PipelineLive(t)]
            PROVE  tasks'[t].run = tasks[t].run
        BY <1>1, <4>2 DEF Task
      <4> QED BY <3>4, <4>1, <4>2 DEF CommitWrite
    <3>5. CASE SupervisorWakes(t) \/ GraceEnds(t) \/ GraceExpires(t)
      BY <3>1, <3>2, <3>5 DEF SupervisorWakes, GraceEnds, GraceExpires
    <3>6. CASE SupervisorCancelled(t)
      BY <1>1, <3>1, <3>6 DEF SupervisorCancelled, Task
    <3> QED BY <1>4, <3>3, <3>4, <3>5, <3>6 DEF Supervisor
  <2> QED BY <2>1
<1>5. CASE Pipeline(t)
  <2>1. ASSUME NEW new, NEW stage \in Body \cup Ended, RunWrites(t, new, stage) PROVE Safe
    <3>1. ASSUME tasks' = [tasks EXCEPT ![t].run = stage, ![t].seen = new] PROVE Safe
      BY <1>1, <2>1, <3>1 DEF Task, Body, Ended
    <3> QED BY <1>2, <2>1, <3>1 DEF RunWrites
  <2>2. CASE RunStage(t)
    BY <2>1, <2>2 DEF RunStage, Body
  <2>3. CASE RunCompletes(t) \/ RunFailWrite(t)
    BY <1>2, <2>1, <2>3 DEF RunCompletes, RunFailWrite, Ended
  <2>4. CASE RunBegin(t)
    <3>1. ASSUME tasks' = [tasks EXCEPT ![t].run = "planning", ![t].seen = row] PROVE Safe
      BY <1>1, <3>1 DEF Task
    <3> QED BY <1>2, <2>4, <3>1 DEF RunBegin, Ended
  <2>5. CASE RunFailGet(t)
    <3>1. ASSUME tasks' = [tasks EXCEPT ![t].run = "failWrite", ![t].seen = row] PROVE Safe
      BY <1>1, <3>1 DEF Task
    <3> QED BY <1>2, <2>5, <3>1 DEF RunFailGet, Ended
  <2>6. CASE RunExecutes(t) \/ RunRaises(t)
    BY <1>3, <2>6 DEF RunExecutes, RunRaises, Body
  <2>7. CASE RunFenced(t) \/ RunCancelWrite(t)
    BY <1>2, <2>7 DEF RunFenced, RunCancelWrite, Ended
  <2>8. CASE RunCancelled(t)
    BY <1>2, <2>8 DEF RunCancelled, Ended
  <2>9. CASE RunCancelGet(t)
    BY <2>9 DEF RunCancelGet, At
  <2> QED BY <1>5, <2>2, <2>3, <2>4, <2>5, <2>6, <2>7, <2>8, <2>9 DEF Pipeline
<1> QED BY <1>4, <1>5

LEMMA RequestKeepsRechecks ==
    ASSUME TypeOK, OnlyFirstRunsCancel, NEW c \in Calls, Request(c)
    PROVE  OnlyFirstRunsCancel'
<1>1. tasks \in [1..Len(tasks) -> Task] /\ DOMAIN tasks = 1..Len(tasks) /\ tasks \in Seq(Task)
  BY TasksAreFunctions DEF TypeOK
<1>2. ASSUME NEW a \in Nat, CreateTask(c, a) PROVE OnlyFirstRunsCancel'
  <2>1. NewTask(a) \in Task /\ NewTask(a).run \in {"begin", "none"}
    BY NoRowType DEF NewTask, Task, SupervisorStages, PipelineStages
  <2>2. /\ tasks' \in Seq(Task) /\ Len(tasks') = Len(tasks) + 1
        /\ \A i \in 1..Len(tasks) : tasks'[i] = tasks[i]
        /\ tasks'[Len(tasks) + 1] = NewTask(a)
    BY <1>1, <1>2, <2>1, AppendProperties DEF CreateTask
  <2>3. DOMAIN tasks' = 1..(Len(tasks) + 1)
    BY <2>2, LenProperties
  <2>4. \A i \in DOMAIN tasks' : i \in 1..Len(tasks) \/ i = Len(tasks) + 1
    BY <2>3, TasksAreFunctions
  <2> QED BY <1>1, <2>1, <2>2, <2>4 DEF OnlyFirstRunsCancel
<1>3. CASE CancelSlot(c)
  <2>1. CASE Live(slot)
    <3>1. slot \in 1..Len(tasks)
      BY <2>1 DEF Live, TypeOK
    <3>2. tasks' = CancelTask(slot)
      BY <1>3, <2>1 DEF CancelSlot
    <3>3. \A t \in DOMAIN tasks : /\ CancelTask(slot)[t].run = tasks[t].run
                                  /\ CancelTask(slot)[t].attempt = tasks[t].attempt
      BY <1>1, <3>1 DEF CancelTask, Task
    <3>4. DOMAIN tasks' = DOMAIN tasks
      BY <3>2 DEF CancelTask
    <3> QED BY <3>2, <3>3, <3>4 DEF OnlyFirstRunsCancel
  <2>2. CASE ~Live(slot)
    BY <1>3, <2>2 DEF CancelSlot, OnlyFirstRunsCancel
  <2> QED BY <2>1, <2>2
<1>4. CASE StartSlot(c) \/ StartCreate(c)
  <2>1. call[c].saw.attempt \in Nat
    BY DEF TypeOK, Call, Row
  <2>2. \/ \E a \in Nat : CreateTask(c, a)
        \/ UNCHANGED tasks
    BY <1>4, <2>1 DEF StartSlot, StartCreate
  <2> QED BY <1>2, <2>2 DEF OnlyFirstRunsCancel
<1>5. ASSUME UNCHANGED tasks PROVE OnlyFirstRunsCancel'
  BY <1>5 DEF OnlyFirstRunsCancel
<1>6. CASE CancelOrDelete(c)
  BY <1>3, <1>5, <1>6 DEF CancelOrDelete, CancelGet, CancelAwait, CancelReget, CancelWrite,
     DeleteRow, memVars
<1>7. CASE Locked(c)
  BY <1>5, <1>7 DEF Locked, AcquireLock, ResumeGet, ResumeSave, DecideGet, DecideSave, ReopenGet,
     ReopenSave, ConfirmGet, ConfirmRejected, ConfirmSave
<1>8. CASE UndoGet(c) \/ UndoSave(c) \/ Reset(c)
  BY <1>5, <1>8 DEF UndoGet, UndoSave, Reset
<1>9. CASE Start(c)
  BY <1>4, <1>5, <1>9 DEF Start, StartGet, StartSave, StartFailGet, StartFailWrite
<1> QED BY <1>6, <1>7, <1>8, <1>9 DEF Request

LEMMA EnvironmentKeepsRechecks ==
    ASSUME TypeOK, OnlyFirstRunsCancel, Environment
    PROVE  OnlyFirstRunsCancel'
<1>1. tasks \in [1..Len(tasks) -> Task] /\ DOMAIN tasks = 1..Len(tasks)
  BY TasksAreFunctions
<1> DEFINE Kept(s) == /\ s \in [1..Len(tasks) -> Task]
                      /\ \A t \in 1..Len(tasks) : /\ s[t].run = tasks[t].run
                                                  /\ s[t].attempt = tasks[t].attempt
<1>2. CASE Shutdown
  <2> DEFINE slotCancelled == IF Live(slot) THEN CancelTask(slot) ELSE tasks
  <2>1. Kept(slotCancelled)
    <3>1. CASE Live(slot)
      <4>1. slot \in 1..Len(tasks)
        BY <3>1 DEF Live, TypeOK
      <4>2. \A t \in 1..Len(tasks) : /\ CancelTask(slot)[t].run = tasks[t].run
                                     /\ CancelTask(slot)[t].attempt = tasks[t].attempt
        BY <1>1, <4>1 DEF CancelTask, Task
      <4> QED BY <3>1, <4>1, <4>2, CancelTaskType
    <3>2. CASE ~Live(slot)
      BY <1>1, <3>2
    <3> QED BY <3>1, <3>2
  <2>2. ASSUME NEW s, Kept(s), orphan # 0 PROVE Kept([s EXCEPT ![orphan].stop = TRUE])
    BY <2>2 DEF Task, TypeOK
  <2>3. Kept(tasks')
    <3> HIDE DEF Kept
    <3> QED BY <1>2, <2>1, <2>2 DEF Shutdown
  <2> QED BY <1>1, <2>3 DEF OnlyFirstRunsCancel
<1>3. CASE Exit
  <2>1. tasks' = <<>>
    BY <1>3 DEF Exit, ForgetMemory
  <2>2. DOMAIN tasks' = {}
    BY <2>1
  <2> QED BY <2>2 DEF OnlyFirstRunsCancel
<1>4. CASE Preview \/ OwnerDeleted \/ DeadlinePasses \/ Restart
  BY <1>4 DEF Preview, OwnerDeleted, DeadlinePasses, Restart, memVars, OnlyFirstRunsCancel
<1> QED BY <1>2, <1>3, <1>4 DEF Environment

LEMMA OnlyFirstRunsCancelInv == Spec => []OnlyFirstRunsCancel
<1>1. Init => OnlyFirstRunsCancel
  BY DEF Init, OnlyFirstRunsCancel
<1>2. TypeInv /\ OnlyFirstRunsCancel /\ [Next]_vars => OnlyFirstRunsCancel'
  <2> SUFFICES ASSUME TypeInv, OnlyFirstRunsCancel, [Next]_vars PROVE OnlyFirstRunsCancel'
    OBVIOUS
  <2>1. TypeOK
    BY DEF TypeInv
  <2>2. ASSUME NEW t \in DOMAIN tasks, Pipeline(t) \/ Supervisor(t) PROVE OnlyFirstRunsCancel'
    BY <2>1, <2>2, TaskStepChangesOneTask, RechecksDoNotCancel DEF OnlyFirstRunsCancel
  <2>3. ASSUME UNCHANGED tasks PROVE OnlyFirstRunsCancel'
    BY <2>3 DEF OnlyFirstRunsCancel
  <2>4. ASSUME NEW c \in Calls, BeginCall(c) PROVE UNCHANGED tasks
    BY <2>4 DEF BeginCall, memVars
  <2>5. UNCHANGED vars => UNCHANGED tasks
    BY DEF vars, memVars
  <2> QED
    BY <2>1, <2>2, <2>3, <2>4, <2>5, RequestKeepsRechecks, EnvironmentKeepsRechecks
       DEF Next, TaskStep
<1> QED BY <1>1, <1>2, LifecycleTypeInvariant, PTL DEF Spec

\* The row is written by a task of a recheck only under the compare-and-set.
LEMMA RecheckWritesAreGuarded ==
    ASSUME NEW t \in DOMAIN tasks, Pipeline(t) \/ Supervisor(t), OnlyFirstRunsCancel,
           tasks[t].attempt # 0, row' # row
    PROVE  MatchesRunningRecheck(row, tasks[t].attempt)
<1>1. ASSUME NEW new, NEW stage, RunWrites(t, new, stage)
      PROVE  MatchesRunningRecheck(row, tasks[t].attempt)
  BY <1>1 DEF RunWrites, MayWrite
<1>2. CASE RunStage(t) \/ RunCompletes(t) \/ RunFailWrite(t)
  BY <1>1, <1>2 DEF RunStage, RunCompletes, RunFailWrite
<1>3. CASE RunCancelWrite(t)
  BY <1>3 DEF RunCancelWrite, At, OnlyFirstRunsCancel
<1>4. CASE CommitWrite(t)
  BY <1>4 DEF CommitWrite, CommitFailure
<1>5. CASE \/ RunBegin(t) \/ RunExecutes(t) \/ RunRaises(t) \/ RunFenced(t) \/ RunFailGet(t)
           \/ RunCancelled(t) \/ RunCancelGet(t)
  BY <1>5 DEF RunBegin, RunExecutes, RunRaises, RunFenced, RunFailGet, RunCancelled,
     RunCancelGet, rowVars
<1>6. CASE \/ SupervisorBegin(t) \/ SupervisorWakes(t) \/ CommitGet(t) \/ GraceEnds(t)
           \/ GraceExpires(t) \/ SupervisorCancelled(t)
  BY <1>6 DEF SupervisorBegin, SupervisorWakes, CommitGet, GraceEnds, GraceExpires,
     SupervisorCancelled, rowVars
<1> QED BY <1>2, <1>3, <1>4, <1>5, <1>6 DEF Pipeline, Supervisor

\* A late result of a recheck that timed out, was cancelled or was superseded
\* changes nothing: in every reachable state its pipeline and its supervisor
\* write only while their own attempt is the open one.
THEOREM StaleAttemptsAreFenced == Spec => StaleAttemptIsFenced
<1> DEFINE Fenced ==
      \A t \in DOMAIN tasks :
          tasks[t].attempt # 0 /\ TaskSteps(t) /\ row' # row
          => MatchesRunningRecheck(row, tasks[t].attempt)
<1>1. TypeInv /\ OnlyFirstRunsCancel /\ [Next]_vars => [Fenced]_vars
  <2> SUFFICES ASSUME TypeInv, OnlyFirstRunsCancel, Next,
                      NEW t \in DOMAIN tasks, tasks[t].attempt # 0, TaskSteps(t), row' # row
               PROVE  MatchesRunningRecheck(row, tasks[t].attempt)
    BY DEF vars
  <2>1. TypeOK
    BY DEF TypeInv
  <2>2. tasks' # tasks
    BY DEF TaskSteps
  <2>3. ASSUME NEW u \in DOMAIN tasks, Pipeline(u) \/ Supervisor(u)
        PROVE  MatchesRunningRecheck(row, tasks[t].attempt)
    <3>1. u = t
      BY <2>1, <2>3, TaskStepChangesOneTask DEF TaskSteps
    <3> QED BY <2>3, <3>1, RecheckWritesAreGuarded
  <2>4. ASSUME NEW c \in Calls PROVE ~Request(c)
    BY <2>2 DEF Request, CancelOrDelete, CancelGet, CancelSlot, CancelAwait, CancelReget,
       CancelWrite, DeleteRow, Locked, AcquireLock, ResumeGet, ResumeSave, DecideGet, DecideSave,
       ReopenGet, ReopenSave, ConfirmGet, ConfirmRejected, ConfirmSave, UndoGet, UndoSave, Reset, Start, StartGet,
       StartSlot, StartSave, StartCreate, StartFailGet, StartFailWrite, rowVars, memVars
  <2>5. ASSUME NEW c \in Calls PROVE ~BeginCall(c)
    BY DEF BeginCall, rowVars
  <2>6. ~Environment
    BY <2>2 DEF Environment, Preview, OwnerDeleted, DeadlinePasses, Shutdown, Exit, Restart, rowVars,
       memVars
  <2> QED BY <2>3, <2>4, <2>5, <2>6 DEF Next, TaskStep
<1> QED BY <1>1, LifecycleTypeInvariant, OnlyFirstRunsCancelInv, PTL
        DEF Spec, StaleAttemptIsFenced

-----------------------------------------------------------------------------
(* A shutdown.  A first review marks its own row cancelled when it is        *)
(* cancelled outside a shutdown.  Only cancel and delete cancel it there, and *)
(* both wait for it to end, so that a shutdown, which begins when the last    *)
(* request was answered, finds no first review on its way to that write.      *)

\* A first review that is being cancelled, or is about to mark the row.
Cancelling(x) ==
    /\ x.attempt = 0
    /\ \/ x.run \in {"cancelGet", "cancelWrite"}
       \/ x.stop /\ x.run \notin Ended \cup {"none"}

CancelsAreAwaited ==
    process = "up" =>
        \A t \in DOMAIN tasks : Cancelling(tasks[t]) =>
            \E c \in Calls : call[c].stage = "cancelAwait" /\ call[c].target = t

NoCancelAtShutdown ==
    process = "stopping" =>
        \A t \in DOMAIN tasks : tasks[t].run \notin {"cancelGet", "cancelWrite"}

DownForgets == process = "down" => tasks = <<>>

FirstRunsUnsupervised == \A t \in DOMAIN tasks : tasks[t].attempt = 0 => tasks[t].stage = "none"

ShutdownInv ==
    /\ CancelsAreAwaited /\ NoCancelAtShutdown /\ DownForgets /\ FirstRunsUnsupervised

\* A step of a task never begins the cancellation of a first review.
LEMMA TasksDoNotBeginCancels ==
    ASSUME TypeOK, OnlyFirstRunsCancel, FirstRunsUnsupervised,
           NEW t \in DOMAIN tasks, Pipeline(t) \/ Supervisor(t)
    PROVE  /\ tasks'[t].attempt = 0 => tasks'[t].stage = "none"
           /\ Cancelling(tasks'[t]) => Cancelling(tasks[t])
           /\ process = "stopping" /\ tasks[t].run \notin {"cancelGet", "cancelWrite"}
              => tasks'[t].run \notin {"cancelGet", "cancelWrite"}
<1> DEFINE Cancels == {"cancelGet", "cancelWrite"}
           Kept == /\ tasks'[t].attempt = 0 => tasks'[t].stage = "none"
                   /\ Cancelling(tasks'[t]) => Cancelling(tasks[t])
                   /\ process = "stopping" /\ tasks[t].run \notin Cancels
                      => tasks'[t].run \notin Cancels
<1>1. t \in 1..Len(tasks) /\ tasks[t] \in Task /\ tasks \in [1..Len(tasks) -> Task]
  BY TasksAreFunctions
<1>2. /\ tasks[t].attempt = 0 => tasks[t].stage = "none"
      /\ tasks[t].run \in Cancels => tasks[t].attempt = 0
  BY DEF FirstRunsUnsupervised, OnlyFirstRunsCancel
<1>3. CASE Supervisor(t)
  <2>1. tasks[t].stage # "none"
    BY <1>3 DEF Supervisor, SupervisorBegin, SupervisorWakes, CommitGet, CommitWrite, GraceEnds,
       GraceExpires, SupervisorCancelled, In
  <2>2. tasks'[t].attempt # 0
    BY <1>2, <1>3, <2>1, TaskStepChangesOneTask
  <2>3. tasks'[t].run \notin Cancels
    BY <1>2, <1>3, <2>1, RechecksDoNotCancel
  <2> QED BY <2>2, <2>3 DEF Cancelling
<1>4. CASE Pipeline(t)
  <2>1. tasks[t].run \notin Ended \cup {"none"}
    BY <1>4 DEF Pipeline, RunBegin, RunStage, RunExecutes, RunCompletes, RunRaises, RunFenced,
       RunFailGet, RunFailWrite, RunCancelled, RunCancelGet, RunCancelWrite, At, PipelineLive,
       Body, Ended
  <2>2. ASSUME NEW how \in Ended, EndRun(t, how) PROVE Kept
    BY <1>1, <1>2, <2>2 DEF EndRun, Ended, Task, Cancelling
  <2>3. ASSUME NEW stage \in Body \cup {"failGet"}, GoRun(t, stage) PROVE Kept
    BY <1>1, <1>2, <2>1, <2>3 DEF GoRun, Body, Ended, Task, Cancelling
  <2>4. ASSUME NEW new, NEW stage \in Body \cup Ended, RunWrites(t, new, stage) PROVE Kept
    <3>1. ASSUME stage \notin Ended,
                 tasks' = [tasks EXCEPT ![t].run = stage, ![t].seen = new]
          PROVE  Kept
      BY <1>1, <1>2, <2>1, <2>4, <3>1 DEF Body, Ended, Task, Cancelling
    <3> QED BY <2>2, <2>4, <3>1 DEF RunWrites
  <2>5. CASE RunStage(t)
    BY <2>4, <2>5 DEF RunStage, Body
  <2>6. CASE RunCompletes(t) \/ RunFailWrite(t)
    BY <2>2, <2>4, <2>6 DEF RunCompletes, RunFailWrite, Ended
  <2>7. CASE RunBegin(t)
    <3>1. ASSUME tasks' = [tasks EXCEPT ![t].run = "planning", ![t].seen = row] PROVE Kept
      BY <1>1, <1>2, <2>1, <3>1 DEF Task, Cancelling
    <3> QED BY <2>2, <2>7, <3>1 DEF RunBegin, Ended
  <2>8. CASE RunFailGet(t)
    <3>1. ASSUME tasks' = [tasks EXCEPT ![t].run = "failWrite", ![t].seen = row] PROVE Kept
      BY <1>1, <1>2, <2>1, <3>1 DEF Task, Cancelling
    <3> QED BY <2>2, <2>8, <3>1 DEF RunFailGet, Ended
  <2>9. CASE RunExecutes(t) \/ RunRaises(t)
    BY <2>3, <2>9 DEF RunExecutes, RunRaises, Body
  <2>10. CASE RunFenced(t) \/ RunCancelWrite(t)
    BY <2>2, <2>10 DEF RunFenced, RunCancelWrite, Ended
  <2>11. CASE RunCancelled(t)
    <3>1. CASE EndRun(t, "cancelled")
      BY <2>2, <3>1 DEF Ended
    <3>2. CASE /\ tasks' = [tasks EXCEPT ![t].run = "cancelGet", ![t].stop = FALSE]
               /\ tasks[t].attempt = 0 /\ process # "stopping"
      BY <1>1, <1>2, <2>1, <2>11, <3>2 DEF RunCancelled, Task, Cancelling
    <3> QED BY <2>11, <3>1, <3>2 DEF RunCancelled
  <2>12. CASE RunCancelGet(t)
    <3>1. ASSUME tasks' = [tasks EXCEPT ![t].run = "cancelWrite", ![t].seen = row] PROVE Kept
      BY <1>1, <1>2, <2>12, <3>1 DEF RunCancelGet, At, Task, Cancelling
    <3> QED BY <2>2, <2>12, <3>1 DEF RunCancelGet, Ended
  <2> QED
    BY <1>4, <2>5, <2>6, <2>7, <2>8, <2>9, <2>10, <2>11, <2>12 DEF Pipeline
<1> QED BY <1>3, <1>4

\* What a request does to the tasks: it may cancel the one in the slot and waits
\* for it, create one, or leave them alone.
LEMMA RequestTasks ==
    ASSUME TypeOK, NEW c \in Calls, Request(c)
    PROVE  \/ CancelSlot(c) /\ Live(slot)
           \/ tasks' = tasks
           \/ call[c].stage \in {"startSlot", "startCreate"} /\ \E a \in Nat : CreateTask(c, a)
<1>1. call[c].saw.attempt \in Nat
  BY DEF TypeOK, Call, Row
<1>2. CASE CancelOrDelete(c)
  BY <1>2 DEF CancelOrDelete, CancelGet, CancelSlot, CancelAwait, CancelReget, CancelWrite,
     DeleteRow, memVars
<1>3. CASE Locked(c)
  BY <1>3 DEF Locked, AcquireLock, ResumeGet, ResumeSave, DecideGet, DecideSave, ReopenGet,
     ReopenSave, ConfirmGet, ConfirmRejected, ConfirmSave
<1>4. CASE UndoGet(c) \/ UndoSave(c) \/ Reset(c)
  BY <1>4 DEF UndoGet, UndoSave, Reset
<1>5. CASE StartSlot(c) \/ StartCreate(c)
  BY <1>1, <1>5 DEF StartSlot, StartCreate, AtCall
<1>6. CASE Start(c)
  BY <1>5, <1>6 DEF Start, StartGet, StartSave, StartFailGet, StartFailWrite
<1> QED BY <1>2, <1>3, <1>4, <1>6 DEF Request

\* The tasks after a new one was created.
LEMMA CreatedTasks ==
    ASSUME TypeOK, NEW c \in Calls, NEW a \in Nat, CreateTask(c, a)
    PROVE  /\ DOMAIN tasks \subseteq DOMAIN tasks' /\ slot' \in DOMAIN tasks'
           /\ \A t \in DOMAIN tasks : tasks'[t] = tasks[t]
           /\ \A t \in DOMAIN tasks' : t \in DOMAIN tasks \/ tasks'[t] = NewTask(a)
<1>1. tasks \in Seq(Task) /\ DOMAIN tasks = 1..Len(tasks) /\ Len(tasks) \in Nat
  BY TasksAreFunctions DEF TypeOK
<1>2. NewTask(a) \in Task
  BY NoRowType DEF NewTask, Task, SupervisorStages, PipelineStages
<1>3. /\ tasks' \in Seq(Task) /\ Len(tasks') = Len(tasks) + 1
      /\ \A i \in 1..Len(tasks) : tasks'[i] = tasks[i]
      /\ tasks'[Len(tasks) + 1] = NewTask(a)
  BY <1>1, <1>2, AppendProperties DEF CreateTask
<1>4. DOMAIN tasks' = 1..(Len(tasks) + 1)
  BY <1>3, LenProperties
<1>5. \A t \in DOMAIN tasks' : t \in DOMAIN tasks \/ t = Len(tasks) + 1
  BY <1>1, <1>4
<1> QED BY <1>1, <1>3, <1>4, <1>5 DEF CreateTask

\* The actions of a task that write the row.
LEMMA RowWriters ==
    ASSUME NEW t \in DOMAIN tasks, Pipeline(t) \/ Supervisor(t), row' # row
    PROVE  \/ RunStage(t) \/ RunCompletes(t) \/ RunFailWrite(t) \/ CommitWrite(t)
           \/ RunCancelWrite(t) /\ tasks[t].run = "cancelWrite"
BY DEF Pipeline, Supervisor, RunBegin, RunExecutes, RunRaises, RunFenced, RunFailGet,
   RunCancelled, RunCancelGet, RunCancelWrite, At, SupervisorBegin, SupervisorWakes, CommitGet,
   GraceEnds, GraceExpires, SupervisorCancelled, rowVars

LEMMA RequestKeepsShutdown ==
    ASSUME TypeInv, DownIdle, ShutdownInv, NEW c \in Calls, Request(c)
    PROVE  ShutdownInv'
<1>1. TypeOK /\ RequestsFit /\ CancelsAreAwaited /\ FirstRunsUnsupervised
  BY DEF TypeInv, ShutdownInv
<1>2. tasks \in [1..Len(tasks) -> Task] /\ DOMAIN tasks = 1..Len(tasks) /\ call \in [Calls -> Call]
  BY <1>1, TasksAreFunctions DEF TypeOK
<1>3. call[c].stage # "idle" /\ process' = process
  BY <1>1, RequestShape
<1>4. process = "up"
  BY <1>3 DEF DownIdle, Idle
<1>5. \A d \in Calls \ {c} : call'[d] = call[d]
  BY <1>1, <1>2, RequestShape DEF EndCall, MovesOn, TakesLock
<1>6. SUFFICES CancelsAreAwaited' /\ FirstRunsUnsupervised'
  BY <1>3, <1>4 DEF ShutdownInv, NoCancelAtShutdown, DownForgets
<1>7. CASE CancelSlot(c) /\ Live(slot)
  <2>1. slot \in 1..Len(tasks) /\ slot \in Nat
    BY <1>1, <1>7, TasksAreFunctions DEF Live, TypeOK
  <2>2. /\ tasks' = CancelTask(slot) /\ call[c].stage = "cancelTask"
        /\ call' = [call EXCEPT ![c].stage = "cancelAwait", ![c].target = slot]
    BY <1>7 DEF CancelSlot, AtCall
  <2>3. call'[c].stage = "cancelAwait" /\ call'[c].target = slot
    BY <1>2, <2>1, <2>2 DEF Call
  <2>4. /\ DOMAIN tasks' = DOMAIN tasks
        /\ \A t \in DOMAIN tasks : /\ tasks'[t].attempt = tasks[t].attempt
                                   /\ tasks'[t].stage = tasks[t].stage
                                   /\ t # slot => tasks'[t] = tasks[t]
    BY <1>2, <2>1, <2>2 DEF CancelTask, Task
  <2>5. FirstRunsUnsupervised'
    BY <1>1, <2>4 DEF FirstRunsUnsupervised
  <2>6. ASSUME NEW t \in DOMAIN tasks', Cancelling(tasks'[t])
        PROVE  \E d \in Calls : call'[d].stage = "cancelAwait" /\ call'[d].target = t
    <3>1. CASE t = slot
      BY <2>3, <3>1
    <3>2. CASE t # slot
      <4>1. t \in DOMAIN tasks /\ Cancelling(tasks[t])
        BY <2>4, <2>6, <3>2
      <4>2. PICK d \in Calls : call[d].stage = "cancelAwait" /\ call[d].target = t
        BY <1>1, <1>4, <4>1 DEF CancelsAreAwaited
      <4>3. d # c
        BY <2>2, <4>2
      <4> QED BY <1>5, <4>2, <4>3
    <3> QED BY <3>1, <3>2
  <2>7. CancelsAreAwaited'
    BY <2>6 DEF CancelsAreAwaited
  <2> QED BY <2>5, <2>7
<1>8. CASE tasks' = tasks
  <2>1. FirstRunsUnsupervised'
    BY <1>1, <1>8 DEF FirstRunsUnsupervised
  <2>2. CASE CancelAwait(c)
    <3>1. ~Live(call[c].target)
      BY <2>2 DEF CancelAwait
    <3>2. ASSUME NEW t \in DOMAIN tasks, Cancelling(tasks[t]) PROVE Live(t)
      BY <1>2, <3>2 DEF Cancelling, Live, Ended
    <3> QED BY <1>1, <1>4, <1>5, <1>8, <2>1, <3>1, <3>2 DEF CancelsAreAwaited
  <2>3. CASE call[c].stage # "cancelAwait"
    BY <1>1, <1>4, <1>5, <1>8, <2>1, <2>3 DEF CancelsAreAwaited
  <2>4. CASE call[c].stage = "cancelAwait" /\ ~CancelAwait(c)
    BY <2>4 DEF Request, CancelOrDelete, CancelGet, CancelSlot, CancelReget, CancelWrite,
       DeleteRow, Locked, AcquireLock, ResumeGet, ResumeSave, DecideGet, DecideSave, ReopenGet,
       ReopenSave, ConfirmGet, ConfirmRejected, ConfirmSave, UndoGet, UndoSave, Reset, Start, StartGet, StartSlot,
       StartSave, StartCreate, StartFailGet, StartFailWrite, AtCall
  <2> QED BY <2>2, <2>3, <2>4
<1>9. ASSUME call[c].stage \in {"startSlot", "startCreate"}, NEW a \in Nat, CreateTask(c, a)
      PROVE  CancelsAreAwaited' /\ FirstRunsUnsupervised'
  <2>1. /\ \A t \in DOMAIN tasks : tasks'[t] = tasks[t]
        /\ \A t \in DOMAIN tasks' : t \in DOMAIN tasks \/ tasks'[t] = NewTask(a)
    BY <1>1, <1>9, CreatedTasks
  <2>2. ~Cancelling(NewTask(a)) /\ (NewTask(a).attempt = 0 => NewTask(a).stage = "none")
    BY DEF Cancelling, NewTask
  <2>3. FirstRunsUnsupervised'
    BY <1>1, <2>1, <2>2 DEF FirstRunsUnsupervised
  <2>4. CancelsAreAwaited'
    BY <1>1, <1>4, <1>5, <1>9, <2>1, <2>2 DEF CancelsAreAwaited
  <2> QED BY <2>3, <2>4
<1> QED BY <1>1, <1>7, <1>8, <1>9, RequestTasks

LEMMA EnvironmentKeepsShutdown ==
    ASSUME TypeOK, DownIdle, OnlyFirstRunsCancel, ShutdownInv, Environment
    PROVE  ShutdownInv'
<1>1. /\ CancelsAreAwaited /\ NoCancelAtShutdown /\ DownForgets /\ FirstRunsUnsupervised
      /\ DOMAIN tasks = 1..Len(tasks)
  BY TasksAreFunctions DEF ShutdownInv
<1>2. CASE Preview \/ OwnerDeleted \/ DeadlinePasses
  BY <1>1, <1>2 DEF Preview, OwnerDeleted, DeadlinePasses, memVars, envVars, ShutdownInv,
     CancelsAreAwaited, NoCancelAtShutdown, DownForgets, FirstRunsUnsupervised
<1>3. CASE Shutdown
  <2>1. process = "up" /\ process' = "stopping" /\ \A c \in Calls : call[c] = Idle
    BY <1>3 DEF Shutdown
  <2>2. \A t \in DOMAIN tasks : ~Cancelling(tasks[t])
    BY <1>1, <2>1 DEF CancelsAreAwaited, Idle
  <2> DEFINE Kept(s) == /\ s \in [1..Len(tasks) -> Task]
                        /\ \A t \in 1..Len(tasks) : /\ s[t].run = tasks[t].run
                                                    /\ s[t].stage = tasks[t].stage
                                                    /\ s[t].attempt = tasks[t].attempt
             slotCancelled == IF Live(slot) THEN CancelTask(slot) ELSE tasks
  <2>3. Kept(slotCancelled)
    <3>1. CASE Live(slot)
      <4>1. slot \in 1..Len(tasks)
        BY <3>1 DEF Live, TypeOK
      <4>2. \A t \in 1..Len(tasks) : /\ CancelTask(slot)[t].run = tasks[t].run
                                     /\ CancelTask(slot)[t].stage = tasks[t].stage
                                     /\ CancelTask(slot)[t].attempt = tasks[t].attempt
        BY <4>1, TasksAreFunctions DEF CancelTask, Task
      <4> QED BY <3>1, <4>1, <4>2, CancelTaskType
    <3>2. CASE ~Live(slot)
      BY <3>2, TasksAreFunctions
    <3> QED BY <3>1, <3>2
  <2>4. ASSUME NEW s, Kept(s), orphan # 0 PROVE Kept([s EXCEPT ![orphan].stop = TRUE])
    BY <2>4 DEF Task, TypeOK
  <2>5. Kept(tasks')
    <3> HIDE DEF Kept
    <3> QED BY <1>3, <2>3, <2>4 DEF Shutdown
  <2>6. FirstRunsUnsupervised'
    BY <1>1, <2>5 DEF FirstRunsUnsupervised
  <2>7. ASSUME NEW t \in DOMAIN tasks', tasks'[t].run \in {"cancelGet", "cancelWrite"}
        PROVE  FALSE
    <3>1. /\ t \in DOMAIN tasks /\ tasks[t].run \in {"cancelGet", "cancelWrite"}
      BY <1>1, <2>5, <2>7
    <3>2. tasks[t].attempt = 0
      BY <3>1 DEF OnlyFirstRunsCancel
    <3> QED BY <2>2, <3>1, <3>2 DEF Cancelling
  <2> QED BY <2>1, <2>6, <2>7 DEF ShutdownInv, CancelsAreAwaited, NoCancelAtShutdown, DownForgets
<1>4. CASE Exit
  <2>1. tasks' = <<>> /\ process' = "down"
    BY <1>4 DEF Exit, ForgetMemory
  <2>2. DOMAIN tasks' = {}
    BY <2>1
  <2> QED BY <2>1, <2>2 DEF ShutdownInv, CancelsAreAwaited, NoCancelAtShutdown, DownForgets,
          FirstRunsUnsupervised
<1>5. CASE Restart
  <2>1. tasks' = <<>> /\ process' = "up"
    BY <1>1, <1>5 DEF Restart, DownForgets, memVars
  <2>2. DOMAIN tasks' = {}
    BY <2>1
  <2> QED BY <2>1, <2>2 DEF ShutdownInv, CancelsAreAwaited, NoCancelAtShutdown, DownForgets,
          FirstRunsUnsupervised
<1> QED BY <1>2, <1>3, <1>4, <1>5 DEF Environment

LEMMA ShutdownInvariant == Spec => []ShutdownInv
<1>1. Init => ShutdownInv
  BY DEF Init, ShutdownInv, CancelsAreAwaited, NoCancelAtShutdown, DownForgets,
     FirstRunsUnsupervised
<1>2. TypeInv /\ DownIdle /\ OnlyFirstRunsCancel /\ ShutdownInv /\ [Next]_vars => ShutdownInv'
  <2> SUFFICES ASSUME TypeInv, DownIdle, OnlyFirstRunsCancel, ShutdownInv, [Next]_vars
               PROVE  ShutdownInv'
    OBVIOUS
  <2>1. /\ TypeOK /\ CancelsAreAwaited /\ NoCancelAtShutdown /\ DownForgets
        /\ FirstRunsUnsupervised
    BY DEF TypeInv, ShutdownInv
  <2>2. ASSUME NEW t \in DOMAIN tasks, Pipeline(t) \/ Supervisor(t) PROVE ShutdownInv'
    <3>1. UNCHANGED <<call, process>>
      BY <2>2, TaskStepShape
    <3>2. DOMAIN tasks' = DOMAIN tasks /\ \A u \in DOMAIN tasks \ {t} : tasks'[u] = tasks[u]
      BY <2>1, <2>2, TaskStepChangesOneTask
    <3>3. /\ tasks'[t].attempt = 0 => tasks'[t].stage = "none"
          /\ Cancelling(tasks'[t]) => Cancelling(tasks[t])
          /\ process = "stopping" /\ tasks[t].run \notin {"cancelGet", "cancelWrite"}
             => tasks'[t].run \notin {"cancelGet", "cancelWrite"}
      BY <2>1, <2>2, TasksDoNotBeginCancels
    <3>4. process # "down"
      <4>1. tasks # <<>>
        OBVIOUS
      <4> QED BY <2>1, <4>1 DEF DownForgets
    <3>5. CancelsAreAwaited'
      BY <2>1, <3>1, <3>2, <3>3 DEF CancelsAreAwaited
    <3>6. NoCancelAtShutdown'
      BY <2>1, <3>1, <3>2, <3>3 DEF NoCancelAtShutdown
    <3>7. FirstRunsUnsupervised'
      BY <2>1, <3>2, <3>3 DEF FirstRunsUnsupervised
    <3> QED BY <3>1, <3>4, <3>5, <3>6, <3>7 DEF ShutdownInv, DownForgets
  <2>3. ASSUME NEW c \in Calls, BeginCall(c) PROVE ShutdownInv'
    <3>1. UNCHANGED <<tasks, process>> /\ process = "up"
      BY <2>3 DEF BeginCall, memVars
    <3>2. call[c] = Idle /\ \A d \in Calls \ {c} : call'[d] = call[d]
      BY <2>1, <2>3, BeginCallShape
    <3>3. CancelsAreAwaited'
      BY <2>1, <3>1, <3>2 DEF CancelsAreAwaited, Idle
    <3> QED BY <2>1, <3>1, <3>3
            DEF ShutdownInv, NoCancelAtShutdown, DownForgets, FirstRunsUnsupervised
  <2>4. ASSUME UNCHANGED <<tasks, call, process>> PROVE ShutdownInv'
    BY <2>1, <2>4 DEF ShutdownInv, CancelsAreAwaited, NoCancelAtShutdown, DownForgets,
       FirstRunsUnsupervised
  <2> QED
    BY <2>1, <2>2, <2>3, <2>4, RequestKeepsShutdown, EnvironmentKeepsShutdown
       DEF Next, TaskStep, vars, memVars, envVars
<1> QED BY <1>1, <1>2, LifecycleTypeInvariant, NobodyIsServedDown, OnlyFirstRunsCancelInv, PTL DEF Spec

\* A graceful shutdown never turns a review into a cancelled one, whatever its
\* tasks were doing when they were cancelled: recover() finds it again.
THEOREM ShutdownKeepsReviews == Spec => ShutdownDoesNotCancel
<1> DEFINE Kept == process = "stopping" /\ row.status # "cancelled" => row'.status # "cancelled"
<1>1. TypeInv /\ DownIdle /\ ShutdownInv /\ [Next]_vars => [Kept]_vars
  <2> SUFFICES ASSUME TypeInv, DownIdle, ShutdownInv, Next, process = "stopping",
                      row.status # "cancelled", row' # row
               PROVE  row'.status # "cancelled"
    BY DEF vars
  <2>1. TypeOK /\ RequestsFit /\ NoCancelAtShutdown
    BY DEF TypeInv, ShutdownInv
  <2>2. ASSUME NEW c \in Calls PROVE ~Request(c) /\ ~BeginCall(c)
    <3>1. call[c] = Idle
      BY DEF DownIdle
    <3> QED BY <2>1, <3>1, RequestShape DEF BeginCall, Idle
  <2>3. ~Environment
    BY DEF Environment, Preview, OwnerDeleted, DeadlinePasses, Shutdown, Exit, Restart, rowVars
  <2>4. ASSUME NEW t \in DOMAIN tasks, Pipeline(t) \/ Supervisor(t)
        PROVE  row'.status # "cancelled"
    <3>1. tasks[t].run # "cancelWrite"
      BY <2>1 DEF NoCancelAtShutdown
    <3>2. tasks[t].seen \in Row /\ tasks[t].saw \in Row
      BY <2>1, TasksAreFunctions DEF Task
    <3>3. ASSUME NEW r \in Row, NEW s \in Statuses \ {"cancelled"}
          PROVE  /\ WithStatus(r, s).status # "cancelled"
                 /\ \A static : [WithStatus(r, s) EXCEPT !.active = static].status # "cancelled"
      BY DEF WithStatus, Row
    <3>4. CASE RunStage(t)
      <4>1. \E s \in {"planning", "reviewing", "aggregating"} :
               \/ row' = WithStatus(tasks[t].seen, s)
               \/ \E static \in SUBSET Findings :
                     row' = [WithStatus(tasks[t].seen, s) EXCEPT !.active = static]
        BY <3>4 DEF RunStage, RunWrites
      <4> QED BY <3>2, <3>3, <4>1 DEF Statuses
    <3>5. CASE RunCompletes(t) \/ RunFailWrite(t)
      BY <3>2, <3>5 DEF RunCompletes, RunFailWrite, RunWrites, BlockedRow, CompletedRow, FailedRow,
         Row
    <3>6. CASE CommitWrite(t)
      BY <3>2, <3>6 DEF CommitWrite, CommitFailure, FailedRow, Row
    <3> QED BY <2>4, <3>1, <3>4, <3>5, <3>6, RowWriters
  <2> QED BY <2>2, <2>3, <2>4 DEF Next, TaskStep
<1> QED BY <1>1, LifecycleTypeInvariant, NobodyIsServedDown, ShutdownInvariant, PTL
        DEF Spec, ShutdownDoesNotCancel

-----------------------------------------------------------------------------
(* Recheck attempts.  start() reserves a new attempt and saves the row it    *)
(* read with that id in a later call.  The save cannot reopen an attempt,    *)
(* because the reserved id is in no other copy of the row: not in a task, not *)
(* in a request, not in the store.                                           *)

\* The attempts in the copies that a request can write or pass on.
Copied(c) == {0, row.attempt, call[c].saw.attempt}

AttemptsIssued ==
    /\ row.attempt <= attempts
    /\ \A t \in DOMAIN tasks :
          tasks[t].seen.attempt <= attempts /\ tasks[t].saw.attempt <= attempts
    /\ \A c \in Calls : call[c].saw.attempt <= attempts

\* The attempt that request c reserved is nowhere else.
Reserved(c) ==
    LET a == call[c].saw.attempt IN
    /\ a # 0 /\ a # row.attempt
    /\ \A t \in DOMAIN tasks : a # tasks[t].seen.attempt /\ a # tasks[t].saw.attempt
    /\ \A d \in Calls \ {c} : a # call[d].saw.attempt

ReservedIsFresh == \A c \in Calls : call[c].stage = "startSave" => Reserved(c)

\* decide, reopen and undo save the copy of a review that was over.
SavesEnded == {"decideSave", "reopenSave", "undoSave"}
SavedIsOver == \A c \in Calls : call[c].stage \in SavesEnded => call[c].saw.status \in Terminal

AttemptInv == AttemptsIssued /\ ReservedIsFresh /\ SavedIsOver

\* What the operators that rewrite a row do to its attempt.
LEMMA RowsKeepAttempts ==
    ASSUME NEW r \in Row, NEW a \in Nat
    PROVE  /\ \A s \in Statuses : /\ WithStatus(r, s).attempt = r.attempt
                                  /\ \A static :
                                        [WithStatus(r, s) EXCEPT !.active = static].attempt = r.attempt
                                  /\ WithStatus(r, s).status = s
           /\ \A seen : CompletedRow(r, seen, a).attempt = r.attempt
           /\ BlockedRow(r, a).attempt = r.attempt
           /\ \A why : /\ FailedRow(r, a, why).attempt = r.attempt
                       /\ FailedRow(r, a, why).status = "failed"
           /\ UndoneRow(r).attempt = r.attempt /\ UndoneRow(r).status = r.status
           /\ \A f : /\ ReopenedRow(r, f).attempt = r.attempt /\ ReopenedRow(r, f).status = r.status
                     /\ \A gone : FixedRow(r, f, gone).attempt = r.attempt
           /\ \A f, d : DecidedRow(r, f, d).attempt = r.attempt /\ DecidedRow(r, f, d).status = r.status
           /\ Restarted(r, a).attempt = a
           /\ \/ Requeued(r, a).attempt = a /\ HasPendingRevalidation(r)
              \/ Requeued(r, a).attempt = 0 /\ Requeued(r, a).attemptStatus = "none"
<1>1. \/ Requeued(r, a).attempt = a /\ HasPendingRevalidation(r)
      \/ Requeued(r, a).attempt = 0 /\ Requeued(r, a).attemptStatus = "none"
  BY DEF Requeued, Row
<1>2. UndoneRow(r).attempt = r.attempt /\ UndoneRow(r).status = r.status
  BY DEF UndoneRow, Row
<1>3. /\ \A s \in Statuses : /\ WithStatus(r, s).attempt = r.attempt
                             /\ \A static :
                                   [WithStatus(r, s) EXCEPT !.active = static].attempt = r.attempt
                             /\ WithStatus(r, s).status = s
      /\ Restarted(r, a).attempt = a
  BY DEF WithStatus, Restarted, Row
<1>4. /\ \A seen : CompletedRow(r, seen, a).attempt = r.attempt
      /\ BlockedRow(r, a).attempt = r.attempt
      /\ \A why : /\ FailedRow(r, a, why).attempt = r.attempt
                  /\ FailedRow(r, a, why).status = "failed"
  BY DEF CompletedRow, BlockedRow, FailedRow, Row
<1>5. /\ \A f : /\ ReopenedRow(r, f).attempt = r.attempt /\ ReopenedRow(r, f).status = r.status
                /\ \A gone : FixedRow(r, f, gone).attempt = r.attempt
      /\ \A f, d : DecidedRow(r, f, d).attempt = r.attempt /\ DecidedRow(r, f, d).status = r.status
  BY DEF ReopenedRow, FixedRow, DecidedRow, Row
<1> QED BY <1>1, <1>2, <1>3, <1>4, <1>5

\* Where a request is after a step, by the way it moves on.
LEMMA CallOutcome ==
    ASSUME TypeOK, NEW c \in Calls
    PROVE  /\ EndCall(c) => call'[c] = Idle
           /\ \A stage : GoCall(c, stage) => call'[c].saw = call[c].saw /\ call'[c].stage = stage
           /\ \A r, stage : CallSees(c, r, stage) => call'[c].saw = r /\ call'[c].stage = stage
<1>1. call \in [Calls -> Call]
  BY DEF TypeOK
<1>2. EndCall(c) => call'[c] = Idle
  BY <1>1 DEF EndCall
<1>3. ASSUME NEW stage, GoCall(c, stage)
      PROVE  call'[c].saw = call[c].saw /\ call'[c].stage = stage
  BY <1>1, <1>3 DEF GoCall, Call
<1>4. ASSUME NEW r, NEW stage, CallSees(c, r, stage)
      PROVE  call'[c].saw = r /\ call'[c].stage = stage
  BY <1>1, <1>4 DEF CallSees, Call
<1> QED BY <1>2, <1>3, <1>4

\* The attempts a step of a request issues and copies, and what it writes.
LEMMA RequestAttempts ==
    ASSUME TypeOK, RequestsFit, SavedIsOver, NEW c \in Calls, Request(c)
    PROVE  /\ attempts' \in {attempts, attempts + 1}
           /\ \/ row'.attempt \in Copied(c)
              \/ row'.attempt = attempts + 1 /\ attempts' = attempts + 1
           /\ \/ call'[c].saw.attempt \in Copied(c)
              \/ call'[c].saw.attempt = attempts + 1 /\ attempts' = attempts + 1
           /\ call'[c].stage = "startSave"
              => /\ row' = row /\ tasks' = tasks
                 /\ attempts' = attempts + 1 /\ call'[c].saw.attempt = attempts + 1
           /\ call'[c].stage \in SavesEnded => call'[c].saw.status \in Terminal
           /\ \/ row' = row \/ row'.attempt = attempts + 1
              \/ row'.status \in Terminal \cup {"deleted"} \/ row'.attemptStatus = "none"
              \/ call[c].stage = "startSave" /\ row' = call[c].saw
              \/ call[c].stage = "confirmSave" /\ call'[c] # call[c]
<1> DEFINE saw == call[c].saw
           Harmless == \/ row' = row \/ row'.attempt = attempts + 1
                       \/ row'.status \in Terminal \cup {"deleted"} \/ row'.attemptStatus = "none"
                       \/ call[c].stage = "startSave" /\ row' = saw
                       \/ call[c].stage = "confirmSave" /\ call'[c] # call[c]
           RowFlow == \/ row'.attempt \in Copied(c)
                      \/ row'.attempt = attempts + 1 /\ attempts' = attempts + 1
           CallFlow == /\ \/ call'[c].saw.attempt \in Copied(c)
                          \/ call'[c].saw.attempt = attempts + 1 /\ attempts' = attempts + 1
                       /\ call'[c].stage = "startSave"
                          => /\ row' = row /\ tasks' = tasks
                             /\ attempts' = attempts + 1 /\ call'[c].saw.attempt = attempts + 1
                       /\ call'[c].stage \in SavesEnded => call'[c].saw.status \in Terminal
           Flow == attempts' \in {attempts, attempts + 1} /\ RowFlow /\ CallFlow /\ Harmless
<1> SUFFICES Flow
  OBVIOUS
<1>1. /\ row \in Row /\ call[c] \in Call /\ saw \in Row /\ call \in [Calls -> Call]
      /\ attempts \in Nat /\ attempts + 1 \in Nat
  BY DEF TypeOK, Call
<1>2. /\ Idle.saw.attempt = 0 /\ Idle.stage = "idle" /\ "idle" \notin SavesEnded \cup {"startSave"}
      /\ NoRow.attempt = 0 /\ NoRow.status = "deleted"
  BY DEF Idle, NoRow, SavesEnded
<1>3. ASSUME EndCall(c) PROVE CallFlow
  BY <1>2, <1>3, CallOutcome DEF Copied
<1>4. ASSUME NEW stage, stage \notin SavesEnded \cup {"startSave"}, GoCall(c, stage)
      PROVE  CallFlow
  BY <1>4, CallOutcome DEF Copied
<1>5. ASSUME NEW r, NEW stage, stage # "startSave", CallSees(c, r, stage),
             r.attempt \in Copied(c), stage \in SavesEnded => r.status \in Terminal
      PROVE  CallFlow
  BY <1>5, CallOutcome
<1>6. ASSUME CallFlow, row' = row, attempts' = attempts PROVE Flow
  BY <1>6 DEF Copied
<1>7. row.attempt \in Copied(c)
  BY DEF Copied
<1>8. ASSUME AfterCancel(c) PROVE CallFlow
  BY <1>3, <1>4, <1>8 DEF AfterCancel, SavesEnded
<1>9. CASE CancelOrDelete(c)
  <2> HIDE DEF CallFlow, Flow
  <2>1. CASE CancelGet(c) \/ CancelReget(c)
    <3>1. CallFlow
      BY <1>3, <1>4, <1>5, <1>7, <1>8, <2>1 DEF CancelGet, CancelReget, SavesEnded
    <3> QED BY <1>6, <2>1, <3>1 DEF CancelGet, CancelReget, rowVars
  <2>2. CASE CancelSlot(c)
    <3>1. CASE Live(slot)
      <4>1. call' = [call EXCEPT ![c].stage = "cancelAwait", ![c].target = slot]
        BY <2>2, <3>1 DEF CancelSlot
      <4>2. call'[c].saw = saw /\ call'[c].stage = "cancelAwait"
        BY <1>1, <4>1 DEF Call
      <4>3. CallFlow
        BY <4>2 DEF Copied, SavesEnded, CallFlow
      <4> QED BY <1>6, <2>2, <4>3 DEF CancelSlot, rowVars
    <3>2. CASE ~Live(slot)
      <4>1. CallFlow
        BY <1>4, <2>2, <3>2 DEF CancelSlot, SavesEnded
      <4> QED BY <1>6, <2>2, <4>1 DEF CancelSlot, rowVars
    <3> QED BY <3>1, <3>2
  <2>3. CASE CancelAwait(c)
    <3>1. CallFlow
      BY <1>4, <2>3 DEF CancelAwait, SavesEnded
    <3> QED BY <1>6, <2>3, <3>1 DEF CancelAwait, rowVars
  <2>4. CASE CancelWrite(c)
    <3>1. CallFlow
      BY <1>8, <2>4 DEF CancelWrite
    <3>2. /\ WithStatus(saw, "cancelled").attempt = saw.attempt
          /\ WithStatus(saw, "cancelled").status = "cancelled"
      BY <1>1, RowsKeepAttempts DEF Statuses, Terminal
    <3>3. row' = row \/ row' = WithStatus(saw, "cancelled")
      BY <2>4 DEF CancelWrite
    <3>4. attempts' = attempts
      BY <2>4 DEF CancelWrite
    <3> QED BY <1>6, <3>1, <3>2, <3>3, <3>4 DEF Flow, Copied, Terminal
  <2>5. CASE DeleteRow(c)
    <3>1. CallFlow
      BY <1>3, <2>5 DEF DeleteRow
    <3> QED BY <1>2, <2>5, <3>1 DEF DeleteRow, Flow, Copied
  <2> QED BY <1>9, <2>1, <2>2, <2>3, <2>4, <2>5 DEF CancelOrDelete
<1>10. ASSUME NEW new \in Row, NEW restart, SaveThen(c, new, restart), new.attempt = saw.attempt,
              attempts' = attempts,
              new.status \in Terminal \/ call[c].stage = "confirmSave"
       PROVE  Flow
  <2> HIDE DEF CallFlow, Flow
  <2>1. CallFlow
    <3>1. new.attempt \in Copied(c)
      BY <1>10 DEF Copied
    <3> QED BY <1>3, <1>5, <1>10, <3>1 DEF SaveThen, SavesEnded
  <2>2. CASE row' = row
    BY <1>6, <1>10, <2>1, <2>2
  <2>3. CASE row' = new /\ row' # row
    <3>1. RowFlow
      BY <1>10, <2>3 DEF Copied
    <3>2. call'[c].stage \in {"idle", "reset"}
      BY <1>2, <1>10, CallOutcome DEF SaveThen
    <3>3. Harmless
      BY <1>10, <2>3, <3>2
    <3> QED BY <1>10, <2>1, <3>1, <3>3 DEF Flow
  <2> QED BY <1>10, <2>2, <2>3 DEF SaveThen
<1>11. CASE Locked(c)
  <2> HIDE DEF CallFlow, Flow
  <2>1. CASE AcquireLock(c)
    <3>1. \/ call' = [call EXCEPT ![c] = Idle]
          \/ \E stage \in {"resumeGet", "decideGet", "reopenGet", "confirmGet"} : GoCall(c, stage)
      BY <2>1 DEF AcquireLock, AtCall, RequestsFit, LockedOps
    <3>2. CASE call' = [call EXCEPT ![c] = Idle]
      <4>1. call'[c] = Idle
        BY <1>1, <3>2
      <4>2. CallFlow
        BY <1>2, <4>1 DEF Copied, CallFlow
      <4> QED BY <1>6, <2>1, <4>2 DEF AcquireLock, rowVars, envVars
    <3>3. CASE \E stage \in {"resumeGet", "decideGet", "reopenGet", "confirmGet"} : GoCall(c, stage)
      <4>1. CallFlow
        BY <1>4, <3>3 DEF SavesEnded
      <4> QED BY <1>6, <2>1, <4>1 DEF AcquireLock, rowVars, envVars
    <3> QED BY <3>1, <3>2, <3>3
  <2>2. CASE ResumeGet(c) \/ DecideGet(c) \/ ReopenGet(c) \/ ConfirmGet(c)
    <3>1. CallFlow
      BY <1>3, <1>5, <1>7, <2>2
         DEF ResumeGet, DecideGet, ReopenGet, ConfirmGet, SavesEnded, Terminal
    <3> QED BY <1>6, <2>2, <3>1 DEF ResumeGet, DecideGet, ReopenGet, ConfirmGet, rowVars
  <2>3. CASE ResumeSave(c)
    <3>1. CallFlow
      BY <1>3, <1>4, <2>3 DEF ResumeSave, SavesEnded
    <3>2. CASE ~Exists
      BY <1>6, <2>3, <3>1, <3>2 DEF ResumeSave
    <3>3. CASE Exists
      <4> DEFINE new == Requeued(saw, attempts + 1)
      <4>1. row' = new /\ attempts' = attempts + (IF HasPendingRevalidation(saw) THEN 1 ELSE 0)
        BY <2>3, <3>3 DEF ResumeSave
      <4>2. \/ new.attempt = attempts + 1 /\ HasPendingRevalidation(saw)
            \/ new.attempt = 0 /\ new.attemptStatus = "none"
        BY <1>1, RowsKeepAttempts
      <4> HIDE DEF new
      <4>3. attempts' \in {attempts, attempts + 1}
        BY <1>1, <4>1
      <4>4. HasPendingRevalidation(saw) => attempts' = attempts + 1
        BY <4>1
      <4> QED BY <3>1, <4>1, <4>2, <4>3, <4>4 DEF Flow, Copied
    <3> QED BY <3>2, <3>3
  <2>4. CASE DecideSave(c)
    <3>1. /\ DecidedRow(saw, call[c].finding, call[c].decision) \in Row
          /\ saw.status \in Terminal
      BY <1>1, <2>4, RequestRowsType DEF DecideSave, RequestsFit, AtCall, Call, SavedIsOver, SavesEnded
    <3>2. /\ DecidedRow(saw, call[c].finding, call[c].decision).attempt = saw.attempt
          /\ DecidedRow(saw, call[c].finding, call[c].decision).status = saw.status
      BY <1>1, RowsKeepAttempts
    <3> QED BY <1>10, <2>4, <3>1, <3>2 DEF DecideSave
  <2>5. CASE ReopenSave(c)
    <3>1. ReopenedRow(saw, call[c].finding) \in Row /\ saw.status \in Terminal
      BY <1>1, <2>5, RequestRowsType DEF ReopenSave, RequestsFit, AtCall, SavedIsOver, SavesEnded
    <3>2. /\ ReopenedRow(saw, call[c].finding).attempt = saw.attempt
          /\ ReopenedRow(saw, call[c].finding).status = saw.status
      BY <1>1, RowsKeepAttempts
    <3> QED BY <1>10, <2>5, <3>1, <3>2 DEF ReopenSave
  <2>6. CASE ConfirmSave(c)
    <3>1. (\A gone : FixedRow(saw, call[c].finding, gone) \in Row) /\ call[c].stage = "confirmSave"
      BY <1>1, <2>6, RequestRowsType DEF ConfirmSave, RequestsFit, AtCall
    <3>2. \A gone : FixedRow(saw, call[c].finding, gone).attempt = saw.attempt
      BY <1>1 DEF FixedRow, Row
    <3> QED BY <1>10, <2>6, <3>1, <3>2 DEF ConfirmSave
  <2>7. CASE ConfirmRejected(c)
    <3>1. CallFlow
      BY <1>3, <2>7 DEF ConfirmRejected
    <3> QED BY <1>6, <2>7, <3>1 DEF ConfirmRejected, rowVars
  <2> QED BY <1>11, <2>1, <2>2, <2>3, <2>4, <2>5, <2>6, <2>7 DEF Locked
<1>12. CASE UndoGet(c)
  <2>1. CallFlow
    BY <1>3, <1>5, <1>7, <1>12 DEF UndoGet, Terminal
  <2> QED BY <1>6, <1>12, <2>1 DEF UndoGet, rowVars
<1>13. CASE UndoSave(c)
  <2>1. UndoneRow(saw) \in Row /\ saw.status \in Terminal
    BY <1>1, <1>13, RequestRowsType DEF UndoSave, AtCall, SavedIsOver, SavesEnded
  <2>2. UndoneRow(saw).attempt = saw.attempt /\ UndoneRow(saw).status = saw.status
    BY <1>1, RowsKeepAttempts
  <2> QED BY <1>10, <1>13, <2>1, <2>2 DEF UndoSave
<1>14. CASE Reset(c)
  <2> HIDE DEF CallFlow, Flow
  <2>1. CallFlow
    BY <1>3, <1>4, <1>14 DEF Reset, SavesEnded
  <2>2. CASE ~Exists
    BY <1>6, <1>14, <2>1, <2>2 DEF Reset
  <2>3. CASE Exists
    <3>1. row' = Restarted(saw, attempts + 1) /\ attempts' = attempts + 1
      BY <1>14, <2>3 DEF Reset
    <3>2. row'.attempt = attempts + 1
      BY <1>1, <3>1, RowsKeepAttempts
    <3> QED BY <2>1, <3>1, <3>2 DEF Flow
  <2> QED BY <2>2, <2>3
<1>15. CASE Start(c)
  <2> DEFINE reserved == [saw EXCEPT !.attempt = attempts + 1, !.attemptStatus = "running"]
  <2>1. CASE StartGet(c)
    <3>1. CallFlow
      BY <1>3, <1>5, <1>7, <2>1 DEF StartGet, SavesEnded
    <3> QED BY <1>6, <2>1, <3>1 DEF StartGet, rowVars
  <2>2. CASE StartSlot(c)
    <3>1. row' = row
      BY <2>2 DEF StartSlot
    <3>2. \/ EndCall(c) /\ attempts' = attempts
          \/ GoCall(c, "startFailGet") /\ attempts' = attempts
          \/ CallSees(c, reserved, "startSave") /\ attempts' = attempts + 1 /\ tasks' = tasks
      BY <2>2 DEF StartSlot, CreateTask
    <3>3. CASE EndCall(c) /\ attempts' = attempts
      BY <1>3, <1>6, <3>1, <3>3
    <3>4. CASE GoCall(c, "startFailGet") /\ attempts' = attempts
      <4>1. CallFlow
        BY <1>4, <3>4 DEF SavesEnded
      <4> QED BY <1>6, <3>1, <3>4, <4>1
    <3>5. CASE CallSees(c, reserved, "startSave") /\ attempts' = attempts + 1 /\ tasks' = tasks
      <4>1. call'[c].saw = reserved /\ call'[c].stage = "startSave"
        BY <3>5, CallOutcome
      <4>2. reserved.attempt = attempts + 1
        BY <1>1 DEF Row
      <4>3. call'[c].saw.attempt = attempts + 1
        BY <4>1, <4>2
      <4> QED BY <3>1, <3>5, <4>1, <4>3 DEF Copied, SavesEnded
    <3> QED BY <3>2, <3>3, <3>4, <3>5
  <2>3. CASE StartSave(c)
    <3>1. CallFlow
      BY <1>3, <1>4, <2>3 DEF StartSave, SavesEnded
    <3> QED BY <2>3, <3>1 DEF StartSave, AtCall, Copied
  <2>4. CASE StartCreate(c)
    <3>1. CallFlow
      BY <1>3, <2>4 DEF StartCreate, CreateTask
    <3> QED BY <1>6, <2>4, <3>1 DEF StartCreate, rowVars
  <2>5. CASE StartFailGet(c)
    <3>1. CASE Exists
      <4>1. call' = [call EXCEPT ![c].target = call[c].saw.attempt, ![c].saw = row,
                                 ![c].stage = "startFailWrite"]
        BY <2>5, <3>1 DEF StartFailGet
      <4>2. call'[c].saw = row /\ call'[c].stage = "startFailWrite"
        BY <1>1, <4>1 DEF Call
      <4>3. CallFlow
        BY <4>2 DEF Copied, SavesEnded
      <4> QED BY <1>6, <2>5, <4>3 DEF StartFailGet, rowVars
    <3>2. CASE ~Exists
      BY <1>3, <1>6, <2>5, <3>2 DEF StartFailGet, rowVars
    <3> QED BY <3>1, <3>2
  <2>6. CASE StartFailWrite(c)
    <3>1. CallFlow /\ attempts' = attempts
      BY <1>3, <2>6 DEF StartFailWrite
    <3>2. row' = row \/ row' = FailedRow(saw, call[c].target, "timed_out")
      BY <2>6 DEF StartFailWrite
    <3>3. /\ FailedRow(saw, call[c].target, "timed_out").attempt = saw.attempt
          /\ FailedRow(saw, call[c].target, "timed_out").status = "failed"
      <4>1. call[c].target \in Nat
        BY <1>1 DEF Call
      <4> QED BY <1>1, <4>1, RowsKeepAttempts
    <3> QED BY <1>6, <3>1, <3>2, <3>3 DEF Copied, Terminal
  <2> QED BY <1>15, <2>1, <2>2, <2>3, <2>4, <2>5, <2>6 DEF Start
<1> QED BY <1>9, <1>11, <1>12, <1>13, <1>14, <1>15 DEF Request

\* The attempts a step of a task copies.
LEMMA TaskAttempts ==
    ASSUME TypeOK, NEW t \in DOMAIN tasks, Pipeline(t) \/ Supervisor(t)
    PROVE  LET old == {0, row.attempt, tasks[t].seen.attempt, tasks[t].saw.attempt} IN
           /\ row'.attempt \in old
           /\ tasks'[t].seen.attempt \in old /\ tasks'[t].saw.attempt \in old
           /\ attempts' = attempts
<1> DEFINE old == {0, row.attempt, tasks[t].seen.attempt, tasks[t].saw.attempt}
           Copies == tasks'[t].seen.attempt \in old /\ tasks'[t].saw.attempt \in old
<1>1. /\ t \in 1..Len(tasks) /\ tasks[t] \in Task /\ tasks \in [1..Len(tasks) -> Task]
      /\ tasks[t].seen \in Row /\ tasks[t].saw \in Row /\ tasks[t].attempt \in Nat
  BY TasksAreFunctions DEF Task
<1>2. NoRow.attempt = 0
  BY DEF NoRow
<1>3. attempts' = attempts
  BY DEF Pipeline, Supervisor, RunBegin, RunStage, RunExecutes, RunCompletes, RunRaises, RunFenced,
     RunFailGet, RunFailWrite, RunCancelled, RunCancelGet, RunCancelWrite, SupervisorBegin,
     SupervisorWakes, CommitGet, CommitWrite, GraceEnds, GraceExpires, SupervisorCancelled, rowVars
<1>4. row'.attempt \in old
  <2>1. CASE row' = row
    BY <2>1
  <2>2. CASE RunStage(t)
    <3>1. \A s \in Statuses :
             /\ WithStatus(tasks[t].seen, s).attempt = tasks[t].seen.attempt
             /\ \A static \in SUBSET Findings :
                   [WithStatus(tasks[t].seen, s) EXCEPT !.active = static].attempt
                   = tasks[t].seen.attempt
      BY <1>1, RowsKeepAttempts
    <3>2. {"planning", "reviewing", "aggregating"} \subseteq Statuses
      BY DEF Statuses
    <3> QED BY <2>2, <3>1, <3>2 DEF RunStage, RunWrites
  <2>3. CASE RunCompletes(t) \/ RunFailWrite(t)
    <3>1. /\ \A seen : CompletedRow(tasks[t].seen, seen, tasks[t].attempt).attempt
                       = tasks[t].seen.attempt
          /\ BlockedRow(tasks[t].seen, tasks[t].attempt).attempt = tasks[t].seen.attempt
          /\ FailedRow(tasks[t].seen, tasks[t].attempt, "failed").attempt = tasks[t].seen.attempt
      BY <1>1, RowsKeepAttempts
    <3> QED BY <2>3, <3>1 DEF RunCompletes, RunFailWrite, RunWrites
  <2>4. CASE CommitWrite(t)
    <3>1. \A why : FailedRow(tasks[t].saw, tasks[t].attempt, why).attempt = tasks[t].saw.attempt
      BY <1>1, RowsKeepAttempts
    <3> QED BY <2>4, <3>1 DEF CommitWrite, CommitFailure
  <2>5. CASE RunCancelWrite(t)
    <3>1. WithStatus(tasks[t].seen, "cancelled").attempt = tasks[t].seen.attempt
      BY <1>1, RowsKeepAttempts DEF Statuses, Terminal
    <3> QED BY <2>5, <3>1 DEF RunCancelWrite
  <2> QED BY <2>1, <2>2, <2>3, <2>4, <2>5, RowWriters
<1>5. Copies
  <2>1. ASSUME NEW how, EndRun(t, how) PROVE Copies
    BY <1>1, <1>2, <2>1 DEF EndRun, Task
  <2>2. ASSUME NEW stage, GoRun(t, stage) PROVE Copies
    BY <1>1, <2>2 DEF GoRun, Task
  <2>3. ASSUME NEW stage, tasks' = [tasks EXCEPT ![t].run = stage, ![t].seen = row] PROVE Copies
    BY <1>1, <2>3 DEF Task
  <2>4. ASSUME NEW new, NEW stage, RunWrites(t, new, stage) PROVE Copies
    <3>1. new.attempt \in old
      BY <1>4, <2>4 DEF RunWrites
    <3>2. ASSUME tasks' = [tasks EXCEPT ![t].run = stage, ![t].seen = new] PROVE Copies
      BY <1>1, <3>1, <3>2 DEF Task
    <3> QED BY <2>1, <2>4, <3>2 DEF RunWrites
  <2>5. ASSUME EndSupervisor(t) PROVE Copies
    BY <1>1, <1>2, <2>5 DEF EndSupervisor, Task
  <2>6. ASSUME NEW stage, GoSupervisor(t, stage) PROVE Copies
    BY <1>1, <2>6 DEF GoSupervisor, Task
  <2> HIDE DEF Copies
  <2>7. CASE Pipeline(t)
    <3>1. CASE RunStage(t) \/ RunCompletes(t)
      BY <2>4, <3>1 DEF RunStage, RunCompletes
    <3>2. CASE RunBegin(t) \/ RunFailGet(t) \/ RunCancelGet(t)
      BY <2>1, <2>3, <3>2 DEF RunBegin, RunFailGet, RunCancelGet
    <3>3. CASE RunExecutes(t) \/ RunRaises(t) \/ RunFenced(t) \/ RunCancelWrite(t)
      BY <2>1, <2>2, <3>3 DEF RunExecutes, RunRaises, RunFenced, RunCancelWrite
    <3>4. CASE RunFailWrite(t)
      BY <2>1, <2>4, <3>4 DEF RunFailWrite
    <3>5. CASE RunCancelled(t)
      <4>1. ASSUME tasks' = [tasks EXCEPT ![t].run = "cancelGet", ![t].stop = FALSE] PROVE Copies
        BY <1>1, <4>1 DEF Task, Copies
      <4> QED BY <2>1, <3>5, <4>1 DEF RunCancelled
    <3> QED BY <2>7, <3>1, <3>2, <3>3, <3>4, <3>5 DEF Pipeline
  <2>8. CASE Supervisor(t)
    <3>1. CASE SupervisorBegin(t) \/ CommitGet(t)
      BY <1>1, <3>1 DEF SupervisorBegin, CommitGet, Task, Copies
    <3>2. CASE SupervisorWakes(t) \/ GraceEnds(t) \/ GraceExpires(t)
      BY <2>5, <2>6, <3>2 DEF SupervisorWakes, GraceEnds, GraceExpires
    <3>3. CASE CommitWrite(t)
      <4>1. ASSUME tasks' = [tasks EXCEPT ![t].stage = "grace", ![t].saw = NoRow,
                                        ![t].stop = PipelineLive(t)]
            PROVE  Copies
        BY <1>1, <1>2, <4>1 DEF Task, Copies
      <4>2. ASSUME tasks' = [tasks EXCEPT
                             ![t].stage = IF PipelineLive(t) THEN "abortGrace" ELSE "done",
                             ![t].saw = NoRow, ![t].stop = PipelineLive(t)]
            PROVE  Copies
        BY <1>1, <1>2, <4>2 DEF Task, Copies
      <4> QED BY <3>3, <4>1, <4>2 DEF CommitWrite
    <3>4. CASE SupervisorCancelled(t)
      <4>1. ASSUME tasks' = [tasks EXCEPT ![t].stage = "abortGet", ![t].abort = FALSE] PROVE Copies
        BY <1>1, <4>1 DEF Task, Copies
      <4> QED BY <2>5, <3>4, <4>1 DEF SupervisorCancelled
    <3> QED BY <2>8, <3>1, <3>2, <3>3, <3>4 DEF Supervisor
  <2> QED BY <2>7, <2>8
<1> QED BY <1>3, <1>4, <1>5

\* What an environment step does to the copies of the row.
LEMMA EnvironmentAttempts ==
    ASSUME TypeOK, Environment
    PROVE  /\ attempts' = attempts /\ (row' = row \/ row' = NoRow)
           /\ \A t \in DOMAIN tasks' : /\ t \in DOMAIN tasks
                                       /\ tasks'[t].seen = tasks[t].seen
                                       /\ tasks'[t].saw = tasks[t].saw
           /\ \A c \in Calls : \/ call'[c] = call[c]
                               \/ call'[c].saw = NoRow /\ call'[c].stage \in {"idle", "startGet"}
<1>1. tasks \in [1..Len(tasks) -> Task] /\ DOMAIN tasks = 1..Len(tasks) /\ call \in [Calls -> Call]
  BY TasksAreFunctions DEF TypeOK
<1>2. CASE Preview \/ OwnerDeleted \/ DeadlinePasses
  BY <1>2 DEF Preview, OwnerDeleted, DeadlinePasses, rowVars, memVars
<1>3. CASE Shutdown
  <2> DEFINE Kept(s) == /\ s \in [1..Len(tasks) -> Task]
                        /\ \A t \in 1..Len(tasks) : /\ s[t].seen = tasks[t].seen
                                                    /\ s[t].saw = tasks[t].saw
             slotCancelled == IF Live(slot) THEN CancelTask(slot) ELSE tasks
  <2>1. Kept(slotCancelled)
    <3>1. CASE Live(slot)
      <4>1. slot \in 1..Len(tasks)
        BY <3>1 DEF Live, TypeOK
      <4>2. \A t \in 1..Len(tasks) : /\ CancelTask(slot)[t].seen = tasks[t].seen
                                     /\ CancelTask(slot)[t].saw = tasks[t].saw
        BY <4>1, TasksAreFunctions DEF CancelTask, Task
      <4> QED BY <3>1, <4>1, <4>2, CancelTaskType
    <3>2. CASE ~Live(slot)
      BY <3>2, TasksAreFunctions
    <3> QED BY <3>1, <3>2
  <2>2. ASSUME NEW s, Kept(s), orphan # 0 PROVE Kept([s EXCEPT ![orphan].stop = TRUE])
    BY <2>2 DEF Task, TypeOK
  <2>3. Kept(tasks')
    <3> HIDE DEF Kept
    <3> QED BY <1>3, <2>1, <2>2 DEF Shutdown
  <2> QED BY <1>1, <1>3, <2>3 DEF Shutdown, rowVars
<1>4. CASE Exit
  <2>1. /\ tasks' = <<>> /\ UNCHANGED <<row, attempts>>
        /\ \A c \in Calls : call'[c] = Idle
    BY <1>4 DEF Exit, ForgetMemory, rowVars
  <2>2. DOMAIN tasks' = {}
    BY <2>1
  <2> QED BY <2>1, <2>2 DEF Idle
<1>5. CASE Restart
  <2>1. UNCHANGED <<row, attempts, tasks>>
    BY <1>5 DEF Restart, rowVars, memVars
  <2>2. \/ call' = call
        \/ \E c \in Calls :
              call' = [call EXCEPT ![c] = NewCall("recover", "startGet", "none", "none")]
    BY <1>5 DEF Restart
  <2>3. \A c \in Calls : \/ call'[c] = call[c]
                         \/ call'[c].saw = NoRow /\ call'[c].stage \in {"idle", "startGet"}
    BY <1>1, <2>2 DEF NewCall
  <2> QED BY <2>1, <2>3
<1> QED BY <1>2, <1>3, <1>4, <1>5 DEF Environment

LEMMA AttemptInvariant == Spec => []AttemptInv
<1>0. NoRow.attempt = 0
  BY DEF NoRow
<1>1. Init => AttemptInv
  <2> SUFFICES ASSUME Init PROVE AttemptInv
    OBVIOUS
  <2>1. row.attempt = 0 /\ attempts = 0 /\ DOMAIN tasks = {}
    BY DEF Init, FirstRow, NoRow
  <2>2. \A c \in Calls : call[c].saw.attempt = 0 /\ call[c].stage \in {"idle", "startGet"}
    BY <1>0 DEF Init, NewCall, Idle
  <2> QED BY <2>1, <2>2 DEF AttemptInv, AttemptsIssued, ReservedIsFresh, SavedIsOver, SavesEnded
<1>2. TypeInv /\ AttemptInv /\ [Next]_vars => AttemptInv'
  <2> SUFFICES ASSUME TypeInv, AttemptInv, [Next]_vars PROVE AttemptInv'
    OBVIOUS
  <2>1. /\ TypeOK /\ RequestsFit /\ AttemptsIssued /\ ReservedIsFresh /\ SavedIsOver
        /\ attempts \in Nat /\ call \in [Calls -> Call] /\ DOMAIN tasks = 1..Len(tasks)
    BY TasksAreFunctions DEF TypeInv, AttemptInv, TypeOK
  <2>2. /\ row.attempt \in Nat /\ \A c \in Calls : call[c].saw.attempt \in Nat
        /\ \A t \in DOMAIN tasks : tasks[t].seen.attempt \in Nat /\ tasks[t].saw.attempt \in Nat
    BY <2>1, TasksAreFunctions DEF TypeOK, Call, Row, Task
  <2>3. ASSUME NEW t \in DOMAIN tasks, Pipeline(t) \/ Supervisor(t) PROVE AttemptInv'
    <3>1. call' = call
      BY <2>3, TaskStepShape
    <3>2. DOMAIN tasks' = DOMAIN tasks /\ \A u \in DOMAIN tasks \ {t} : tasks'[u] = tasks[u]
      BY <2>1, <2>3, TaskStepChangesOneTask
    <3> DEFINE old == {0, row.attempt, tasks[t].seen.attempt, tasks[t].saw.attempt}
    <3>3. /\ row'.attempt \in old
          /\ tasks'[t].seen.attempt \in old /\ tasks'[t].saw.attempt \in old
          /\ attempts' = attempts
      BY <2>1, <2>3, TaskAttempts
    <3>4. \A a \in old : a <= attempts
      BY <2>1, <2>2 DEF AttemptsIssued
    <3>5. AttemptsIssued'
      BY <2>1, <3>1, <3>2, <3>3, <3>4 DEF AttemptsIssued
    <3>6. ReservedIsFresh'
      <4> SUFFICES ASSUME NEW c \in Calls, call[c].stage = "startSave" PROVE Reserved(c)'
        BY <3>1 DEF ReservedIsFresh
      <4>1. Reserved(c)
        BY <2>1 DEF ReservedIsFresh
      <4>2. call[c].saw.attempt \notin old
        BY <4>1 DEF Reserved
      <4> QED BY <3>1, <3>2, <3>3, <4>1, <4>2 DEF Reserved
    <3>7. SavedIsOver'
      BY <2>1, <3>1 DEF SavedIsOver
    <3> QED BY <3>5, <3>6, <3>7 DEF AttemptInv
  <2>4. ASSUME NEW e \in Calls, Request(e) PROVE AttemptInv'
    <3>1. \A d \in Calls \ {e} : call'[d] = call[d]
      BY <2>1, <2>4, RequestShape DEF EndCall, MovesOn, TakesLock
    <3>2. /\ attempts' \in {attempts, attempts + 1}
          /\ \/ row'.attempt \in Copied(e)
             \/ row'.attempt = attempts + 1 /\ attempts' = attempts + 1
          /\ \/ call'[e].saw.attempt \in Copied(e)
             \/ call'[e].saw.attempt = attempts + 1 /\ attempts' = attempts + 1
          /\ call'[e].stage = "startSave"
             => /\ row' = row /\ tasks' = tasks
                /\ attempts' = attempts + 1 /\ call'[e].saw.attempt = attempts + 1
          /\ call'[e].stage \in SavesEnded => call'[e].saw.status \in Terminal
      BY <2>1, <2>4, RequestAttempts
    <3>3. \A t \in DOMAIN tasks' :
             \/ t \in DOMAIN tasks /\ tasks'[t].seen = tasks[t].seen /\ tasks'[t].saw = tasks[t].saw
             \/ tasks'[t].seen = NoRow /\ tasks'[t].saw = NoRow
      <4>1. CASE CancelSlot(e) /\ Live(slot)
        <5>1. slot \in 1..Len(tasks)
          BY <2>1, <4>1 DEF Live, TypeOK
        <5>2. \A t \in DOMAIN tasks : /\ CancelTask(slot)[t].seen = tasks[t].seen
                                      /\ CancelTask(slot)[t].saw = tasks[t].saw
          BY <2>1, <5>1, TasksAreFunctions DEF CancelTask, Task
        <5>3. DOMAIN CancelTask(slot) = DOMAIN tasks
          BY DEF CancelTask
        <5> QED BY <4>1, <5>2, <5>3 DEF CancelSlot
      <4>2. ASSUME NEW a \in Nat, CreateTask(e, a)
            PROVE  \A t \in DOMAIN tasks' :
                      \/ t \in DOMAIN tasks /\ tasks'[t] = tasks[t]
                      \/ tasks'[t].seen = NoRow /\ tasks'[t].saw = NoRow
        BY <2>1, <4>2, CreatedTasks DEF NewTask
      <4> QED BY <2>1, <2>4, <4>1, <4>2, RequestTasks
    <3>4. \A a \in Copied(e) : a <= attempts /\ a \in Nat
      BY <2>1, <2>2 DEF Copied, AttemptsIssued
    <3>5. attempts <= attempts' /\ (attempts' = attempts + 1 => attempts < attempts')
      BY <2>1, <3>2
    <3>6. row'.attempt <= attempts' /\ call'[e].saw.attempt <= attempts'
      BY <2>1, <3>2, <3>4
    <3>7. AttemptsIssued'
      <4>1. \A t \in DOMAIN tasks' : /\ tasks'[t].seen.attempt <= attempts'
                                     /\ tasks'[t].saw.attempt <= attempts'
        <5> SUFFICES ASSUME NEW t \in DOMAIN tasks'
                     PROVE  /\ tasks'[t].seen.attempt <= attempts'
                            /\ tasks'[t].saw.attempt <= attempts'
          OBVIOUS
        <5>1. CASE tasks'[t].seen = NoRow /\ tasks'[t].saw = NoRow
          BY <1>0, <2>1, <3>2, <5>1
        <5>2. CASE t \in DOMAIN tasks /\ tasks'[t].seen = tasks[t].seen /\ tasks'[t].saw = tasks[t].saw
          <6> DEFINE x == tasks[t].seen.attempt
                     y == tasks[t].saw.attempt
          <6>1. x \in Nat /\ y \in Nat /\ x <= attempts /\ y <= attempts
            BY <2>1, <2>2, <5>2 DEF AttemptsIssued
          <6>2. tasks'[t].seen.attempt = x /\ tasks'[t].saw.attempt = y
            BY <5>2
          <6> HIDE DEF x, y
          <6> QED BY <2>1, <3>2, <6>1, <6>2
        <5> QED BY <3>3, <5>1, <5>2
      <4>2. \A d \in Calls \ {e} : call'[d].saw.attempt <= attempts'
        BY <2>1, <2>2, <3>1, <3>2 DEF AttemptsIssued
      <4> QED BY <3>6, <4>1, <4>2 DEF AttemptsIssued
    <3>8. ReservedIsFresh'
      <4> SUFFICES ASSUME NEW c \in Calls, call'[c].stage = "startSave" PROVE Reserved(c)'
        BY DEF ReservedIsFresh
      <4> DEFINE a == call'[c].saw.attempt
      <4>1. CASE c = e
        <5>1. a = attempts + 1 /\ row' = row /\ tasks' = tasks
          BY <3>2, <4>1
        <5> HIDE DEF a
        <5>2. \A b \in Nat : b <= attempts => a # b
          BY <2>1, <5>1
        <5>3. a # 0 /\ a # row'.attempt
          BY <2>1, <2>2, <5>1, <5>2 DEF AttemptsIssued
        <5>4. \A t \in DOMAIN tasks' : a # tasks'[t].seen.attempt /\ a # tasks'[t].saw.attempt
          BY <2>1, <2>2, <5>1, <5>2 DEF AttemptsIssued
        <5>5. \A d \in Calls \ {c} : a # call'[d].saw.attempt
          BY <2>1, <2>2, <3>1, <4>1, <5>2 DEF AttemptsIssued
        <5> QED BY <5>3, <5>4, <5>5 DEF Reserved, a
      <4>2. CASE c # e
        <5>1. call'[c] = call[c] /\ call[c].stage = "startSave"
          BY <3>1, <4>2
        <5>2. Reserved(c) /\ a = call[c].saw.attempt
          BY <2>1, <5>1 DEF ReservedIsFresh
        <5>3. a # 0 /\ a \in Nat /\ a <= attempts
          BY <2>1, <2>2, <5>2 DEF Reserved, AttemptsIssued
        <5>4. a \notin Copied(e)
          BY <4>2, <5>2 DEF Reserved, Copied
        <5> HIDE DEF a
        <5>5. a # attempts + 1
          BY <2>1, <5>3
        <5>6. a # row'.attempt /\ a # call'[e].saw.attempt
          BY <3>2, <5>4, <5>5
        <5>7. \A d \in Calls \ {c} : a # call'[d].saw.attempt
          BY <3>1, <5>2, <5>6 DEF Reserved
        <5>8. \A t \in DOMAIN tasks' : a # tasks'[t].seen.attempt /\ a # tasks'[t].saw.attempt
          BY <1>0, <3>3, <5>2, <5>3 DEF Reserved
        <5> QED BY <5>3, <5>6, <5>7, <5>8 DEF Reserved, a
      <4> QED BY <4>1, <4>2
    <3>9. SavedIsOver'
      BY <2>1, <3>1, <3>2 DEF SavedIsOver
    <3> QED BY <3>7, <3>8, <3>9 DEF AttemptInv
  <2>5. ASSUME /\ attempts' = attempts /\ (row' = row \/ row' = NoRow)
               /\ \A t \in DOMAIN tasks' : /\ t \in DOMAIN tasks
                                           /\ tasks'[t].seen = tasks[t].seen
                                           /\ tasks'[t].saw = tasks[t].saw
               /\ \A c \in Calls : \/ call'[c] = call[c]
                                   \/ /\ call'[c].saw = NoRow
                                      /\ call'[c].stage \notin SavesEnded \cup {"startSave"}
        PROVE  AttemptInv'
    <3>1. AttemptsIssued'
      BY <1>0, <2>1, <2>5 DEF AttemptsIssued
    <3>2. ReservedIsFresh'
      <4> SUFFICES ASSUME NEW c \in Calls, call'[c].stage = "startSave" PROVE Reserved(c)'
        BY DEF ReservedIsFresh
      <4>1. call'[c] = call[c] /\ Reserved(c)
        BY <2>1, <2>5 DEF ReservedIsFresh
      <4> QED BY <1>0, <2>5, <4>1 DEF Reserved
    <3>3. SavedIsOver'
      BY <2>1, <2>5 DEF SavedIsOver
    <3> QED BY <3>1, <3>2, <3>3 DEF AttemptInv
  <2>6. CASE Environment
    BY <2>1, <2>5, <2>6, EnvironmentAttempts DEF SavesEnded
  <2>7. ASSUME NEW c \in Calls, BeginCall(c) PROVE AttemptInv'
    <3>1. UNCHANGED <<row, attempts, tasks>>
      BY <2>7 DEF BeginCall, rowVars, memVars
    <3>2. /\ \A d \in Calls \ {c} : call'[d] = call[d]
          /\ call'[c].stage \in {"cancelGet", "undoGet", "lock"}
      BY <2>1, <2>7, BeginCallShape
    <3>3. call'[c].saw = NoRow
      BY <2>1, <2>7 DEF BeginCall, NewCall
    <3> QED BY <2>5, <3>1, <3>2, <3>3 DEF SavesEnded
  <2>8. CASE UNCHANGED vars
    BY <2>5, <2>8 DEF vars, rowVars, memVars
  <2> QED BY <2>3, <2>4, <2>6, <2>7, <2>8 DEF Next, TaskStep
<1> QED BY <1>1, <1>2, LifecycleTypeInvariant, PTL DEF Spec

\* A step of a first review's pipeline that writes the row also moves the task.
LEMMA WritersMove ==
    ASSUME TypeOK, NEW t \in DOMAIN tasks, Pipeline(t), row' # row
    PROVE  TaskSteps(t)
<1>1. t \in 1..Len(tasks) /\ tasks[t] \in Task /\ tasks \in [1..Len(tasks) -> Task]
  BY TasksAreFunctions
<1>2. ASSUME NEW stage, stage # tasks[t].run, EndRun(t, stage) \/ GoRun(t, stage)
      PROVE  TaskSteps(t)
  BY <1>1, <1>2 DEF EndRun, GoRun, TaskSteps, Task
<1>3. ASSUME NEW new, NEW stage, stage # tasks[t].run, RunWrites(t, new, stage)
      PROVE  TaskSteps(t)
  <2>1. ASSUME tasks' = [tasks EXCEPT ![t].run = stage, ![t].seen = new] PROVE TaskSteps(t)
    BY <1>1, <1>3, <2>1 DEF TaskSteps, Task
  <2> QED BY <1>2, <1>3, <2>1 DEF RunWrites
<1>4. CASE RunStage(t) \/ RunCompletes(t) \/ RunFailWrite(t)
  BY <1>3, <1>4 DEF RunStage, RunCompletes, RunFailWrite, At
<1>5. CASE RunCancelWrite(t)
  BY <1>2, <1>5 DEF RunCancelWrite, At
<1>6. CASE \/ RunBegin(t) \/ RunExecutes(t) \/ RunRaises(t) \/ RunFenced(t) \/ RunFailGet(t)
           \/ RunCancelled(t) \/ RunCancelGet(t)
  BY <1>6 DEF RunBegin, RunExecutes, RunRaises, RunFenced, RunFailGet, RunCancelled,
     RunCancelGet, rowVars
<1> QED BY <1>4, <1>5, <1>6 DEF Pipeline

\* A recheck that is over is opened again, in whatever interleaving, only by the
\* two writers that neither compare nor look at the status.
THEOREM ClosedAttemptsStayClosed == Spec => ClosedAttemptStaysClosed
<1> DEFINE StaysClosed ==
      row'.attempt = row.attempt /\ Closes(row) /\ MatchesRunningRecheck(row', row.attempt)
       => \/ \E c \in Calls : call[c].stage = "confirmSave" /\ CallSteps(c)
          \/ \E t \in DOMAIN tasks : tasks[t].attempt = 0 /\ TaskSteps(t)
<1>1. /\ TypeInv /\ OnlyFirstRunsCancel /\ FirstRunsUnsupervised /\ AttemptInv /\ [Next]_vars
      => [StaysClosed]_vars
  <2> SUFFICES ASSUME TypeInv, OnlyFirstRunsCancel, FirstRunsUnsupervised, AttemptInv, Next,
                      row'.attempt = row.attempt, Closes(row),
                      MatchesRunningRecheck(row', row.attempt)
               PROVE  \/ \E c \in Calls : call[c].stage = "confirmSave" /\ CallSteps(c)
                      \/ \E t \in DOMAIN tasks : tasks[t].attempt = 0 /\ TaskSteps(t)
    BY DEF vars
  <2>1. /\ TypeOK /\ RequestsFit /\ AttemptsIssued /\ ReservedIsFresh /\ SavedIsOver
        /\ attempts \in Nat /\ row.attempt \in Nat
    BY DEF TypeInv, AttemptInv, TypeOK, Row
  <2>2. /\ row' # row /\ row'.attemptStatus = "running"
        /\ row'.status \notin Terminal \cup {"deleted"}
    BY DEF Closes, MatchesRunningRecheck
  <2>3. ASSUME NEW t \in DOMAIN tasks, Pipeline(t) \/ Supervisor(t)
        PROVE  tasks[t].attempt = 0 /\ TaskSteps(t)
    <3>1. tasks[t].attempt = 0
      BY <2>2, <2>3, RecheckWritesAreGuarded DEF MatchesRunningRecheck, Closes
    <3>2. ~Supervisor(t)
      BY <3>1 DEF FirstRunsUnsupervised, Supervisor, SupervisorBegin, SupervisorWakes, CommitGet,
         CommitWrite, GraceEnds, GraceExpires, SupervisorCancelled, In
    <3> QED BY <2>1, <2>2, <2>3, <3>1, <3>2, WritersMove
  <2>4. ASSUME NEW c \in Calls, Request(c)
        PROVE  call[c].stage = "confirmSave" /\ CallSteps(c)
    <3>1. row.attempt # attempts + 1
      BY <2>1 DEF AttemptsIssued
    <3>2. ~(call[c].stage = "startSave" /\ row' = call[c].saw)
      BY <2>1 DEF ReservedIsFresh, Reserved
    <3> QED BY <2>1, <2>2, <2>4, <3>1, <3>2, RequestAttempts DEF CallSteps
  <2>5. ASSUME NEW c \in Calls PROVE ~BeginCall(c)
    BY <2>2 DEF BeginCall, rowVars
  <2>6. ~Environment
    BY <2>1, <2>2, EnvironmentAttempts DEF NoRow
  <2> QED BY <2>3, <2>4, <2>5, <2>6 DEF Next, TaskStep
<1>2. ShutdownInv => FirstRunsUnsupervised
  BY DEF ShutdownInv
<1> QED BY <1>1, <1>2, LifecycleTypeInvariant, OnlyFirstRunsCancelInv, ShutdownInvariant,
        AttemptInvariant, PTL DEF Spec, ClosedAttemptStaysClosed

-----------------------------------------------------------------------------
(* Starts.  The handlers of the lock are inside start() one at a time; the   *)
(* other starts are those of a new review and of recover().  A new review    *)
(* has nothing that a handler of the lock could start again: it is not over,  *)
(* no fix was previewed or confirmed.  recover() runs alone.                  *)

CancelStages == {"cancelGet", "cancelTask", "cancelAwait", "cancelReget", "cancelWrite", "deleteRow"}

\* What the operation of a request says about its stage.
OpStages ==
    \A c \in Calls :
        /\ call[c].op \notin {"preview", "deleteUser"}
        /\ call[c].op = "idle" => call[c].stage = "idle"
        /\ call[c].op \in {"cancel", "delete"} => call[c].stage \in CancelStages

\* How far the other requests get before the creating one has started the review.
EarlyStages ==
    {"idle", "cancelGet", "cancelTask", "cancelReget", "cancelWrite", "deleteRow",
     "lock", "resumeGet", "decideGet", "reopenGet", "confirmGet", "undoGet"}

NewReview ==
    \A c \in Calls : call[c].op = "create" =>
        /\ tasks = <<>> /\ candidates = {}
        /\ row.status \notin {"completed", "failed"} /\ row.pending = {}
        /\ call[c].stage \in {"startGet", "startSlot"} /\ call[c].saw.pending = {}
        /\ \A d \in Calls \ {c} :
              /\ call[d].op # "create" /\ call[d].stage \in EarlyStages
              /\ call[d].saw.pending = {}

RecoversAlone ==
    \A c \in Calls : call[c].op = "recover" =>
        tasks = <<>> /\ \A d \in Calls \ {c} : call[d] = Idle

StartInv == OpStages /\ NewReview /\ RecoversAlone

\* A request that is cancelling stays with its cancellation, and a step of it keeps
\* its operation or ends it.
LEMMA RequestKeepsOps ==
    ASSUME TypeOK, RequestsFit, OpStages, NEW c \in Calls, Request(c)
    PROVE  OpStages' /\ (call'[c] = Idle \/ call'[c].op = call[c].op)
<1>1. call \in [Calls -> Call]
  BY DEF TypeOK
<1>2. /\ \A d \in Calls \ {c} : call'[d] = call[d]
      /\ call'[c] = Idle \/ call'[c].op = call[c].op
      /\ call[c].stage # "idle"
  BY <1>1, RequestShape DEF EndCall, MovesOn, TakesLock
<1>3. Idle.op = "idle" /\ Idle.stage = "idle"
  BY DEF Idle
<1>4. ASSUME call[c].op \in {"cancel", "delete"}
      PROVE  call'[c] = Idle \/ call'[c].stage \in CancelStages
  <2>1. CancelOrDelete(c)
    <3>1. call[c].stage \in CancelStages
      BY <1>4 DEF OpStages
    <3> QED BY <3>1 DEF CancelStages, Request, Locked, AcquireLock, ResumeGet, ResumeSave,
       DecideGet, DecideSave, ReopenGet, ReopenSave, ConfirmGet, ConfirmRejected, ConfirmSave, UndoGet, UndoSave,
       Reset, Start, StartGet, StartSlot, StartSave, StartCreate, StartFailGet, StartFailWrite,
       AtCall
  <2>2. ASSUME NEW stage \in CancelStages, GoCall(c, stage) \/ CallSees(c, row, stage)
        PROVE  call'[c].stage \in CancelStages
    BY <2>2, CallOutcome
  <2>3. ASSUME AfterCancel(c) PROVE call'[c] = Idle \/ call'[c].stage \in CancelStages
    BY <2>2, <2>3, CallOutcome DEF AfterCancel, CancelStages
  <2>4. CASE CancelSlot(c) /\ Live(slot)
    BY <1>1, <2>4 DEF CancelSlot, Call, CancelStages
  <2> QED BY <2>1, <2>2, <2>3, <2>4, CallOutcome DEF CancelOrDelete, CancelGet, CancelSlot,
          CancelAwait, CancelReget, CancelWrite, DeleteRow, CancelStages
<1>5. CASE call'[c] = Idle
  <2>1. call'[c].op = "idle" /\ call'[c].stage = "idle"
    BY <1>3, <1>5
  <2> QED BY <1>2, <2>1 DEF OpStages
<1>6. CASE call'[c] # Idle
  <2>1. call'[c].op = call[c].op /\ call[c].op # "idle"
    BY <1>2, <1>6 DEF OpStages
  <2> QED BY <1>2, <1>4, <1>6, <2>1 DEF OpStages
<1> QED BY <1>2, <1>5, <1>6

\* Before the creating request has started the review, no request gets past its
\* read of the row, and none gives the row or its copies a pending fix.
LEMMA EarlyRequests ==
    ASSUME TypeOK, RequestsFit, OpStages, NewReview, NEW n \in Calls, call[n].op = "create",
           NEW c \in Calls, c # n, Request(c)
    PROVE  /\ tasks' = tasks /\ candidates' = candidates
           /\ row'.status \notin {"completed", "failed"} /\ row'.pending = {}
           /\ call'[c].op # "create" /\ call'[c].stage \in EarlyStages
           /\ call'[c].saw.pending = {}
<1>1. /\ tasks = <<>> /\ candidates = {}
      /\ row.status \notin {"completed", "failed"} /\ row.pending = {}
      /\ call[c].op # "create" /\ call[c].stage \in EarlyStages /\ call[c].saw.pending = {}
  BY DEF NewReview
<1>2. call \in [Calls -> Call] /\ call[c].saw \in Row /\ slot \in 0..Len(tasks)
  BY DEF TypeOK, Call
<1>3. slot = 0 /\ ~Live(slot)
  BY <1>1, <1>2 DEF Live
<1>4. call'[c] = Idle \/ call'[c].op = call[c].op
  BY RequestKeepsOps
<1>5. /\ Idle.op = "idle" /\ Idle.stage = "idle" /\ Idle.saw.pending = {}
      /\ NoRow.status = "deleted" /\ NoRow.pending = {}
  BY DEF Idle, NoRow
<1> DEFINE Early == call'[c].stage \in EarlyStages /\ call'[c].saw.pending = {}
<1>6. ASSUME call'[c] = Idle PROVE Early
  BY <1>5, <1>6 DEF EarlyStages
<1>7. ASSUME NEW stage \in EarlyStages, GoCall(c, stage) \/ CallSees(c, row, stage) PROVE Early
  BY <1>1, <1>7, CallOutcome
<1>8. ASSUME AfterCancel(c) PROVE Early
  BY <1>6, <1>7, <1>8, CallOutcome DEF AfterCancel, EarlyStages
<1>9. /\ tasks' = tasks /\ candidates' = candidates /\ Early
      /\ row' = row \/ row' = NoRow \/ row' = WithStatus(call[c].saw, "cancelled")
  <2>1. CASE CancelGet(c) \/ CancelReget(c)
    BY <1>6, <1>7, <1>8, <2>1, CallOutcome DEF CancelGet, CancelReget, EarlyStages, rowVars
  <2>2. CASE CancelSlot(c) \/ CancelAwait(c)
    <3>1. ~CancelAwait(c)
      BY <1>1 DEF CancelAwait, AtCall, EarlyStages
    <3> QED BY <1>3, <1>7, <2>2, <3>1 DEF CancelSlot, EarlyStages, rowVars
  <2>3. CASE CancelWrite(c) \/ DeleteRow(c)
    BY <1>6, <1>8, <2>3, CallOutcome DEF CancelWrite, DeleteRow
  <2>4. CASE AcquireLock(c)
    <3>1. \/ call' = [call EXCEPT ![c] = Idle]
          \/ \E stage \in {"resumeGet", "decideGet", "reopenGet", "confirmGet"} : GoCall(c, stage)
      BY <2>4 DEF AcquireLock, AtCall, RequestsFit, LockedOps
    <3>2. Early
      BY <1>2, <1>6, <1>7, <3>1 DEF EarlyStages
    <3> QED BY <2>4, <3>2 DEF AcquireLock, rowVars
  <2>5. CASE ResumeGet(c) \/ DecideGet(c) \/ ReopenGet(c) \/ UndoGet(c)
    BY <1>1, <1>6, <2>5, CallOutcome DEF ResumeGet, DecideGet, ReopenGet, UndoGet, rowVars
  <2>6. CASE ConfirmGet(c)
    <3>1. EndCall(c)
      BY <1>1, <2>6 DEF ConfirmGet
    <3> QED BY <1>1, <1>6, <2>6, <3>1, CallOutcome DEF ConfirmGet, rowVars
  <2> QED BY <1>1, <2>1, <2>2, <2>3, <2>4, <2>5, <2>6 DEF Request, CancelOrDelete, Locked, Start,
          ResumeSave, DecideSave, ReopenSave, ConfirmRejected, ConfirmSave, UndoSave, Reset,
          StartGet, StartSlot, StartSave, StartCreate, StartFailGet, StartFailWrite, AtCall, EarlyStages
<1>10. /\ WithStatus(call[c].saw, "cancelled").status = "cancelled"
       /\ WithStatus(call[c].saw, "cancelled").pending = call[c].saw.pending
  BY <1>2 DEF WithStatus, Row
<1> QED BY <1>1, <1>4, <1>5, <1>9, <1>10

\* The creating request reads the row and creates the first task.
LEMMA CreateStarts ==
    ASSUME TypeOK, NewReview, NEW n \in Calls, call[n].op = "create", Request(n)
    PROVE  /\ row' = row /\ candidates' = candidates
           /\ \/ call'[n] = Idle
              \/ /\ tasks' = tasks /\ call'[n].stage = "startSlot"
                 /\ call'[n].saw.pending = {} /\ \A d \in Calls \ {n} : call'[d] = call[d]
<1>1. /\ tasks = <<>> /\ row.pending = {} /\ call[n].saw.pending = {}
      /\ call[n].stage \in {"startGet", "startSlot"}
  BY DEF NewReview
<1>2. call \in [Calls -> Call] /\ slot \in 0..Len(tasks)
  BY DEF TypeOK
<1>3. ~Live(slot)
  BY <1>1, <1>2 DEF Live
<1>4. CASE StartGet(n)
  <2>1. CASE EndCall(n)
    BY <1>4, <2>1, CallOutcome DEF StartGet, rowVars
  <2>2. CASE CallSees(n, row, "startSlot")
    <3>1. call'[n].saw = row /\ call'[n].stage = "startSlot"
      BY <2>2, CallOutcome
    <3>2. \A d \in Calls \ {n} : call'[d] = call[d]
      BY <1>2, <2>2 DEF CallSees
    <3> QED BY <1>1, <1>4, <3>1, <3>2 DEF StartGet, rowVars
  <2> QED BY <1>4, <2>1, <2>2 DEF StartGet
<1>5. CASE StartSlot(n)
  <2>1. ~HasPendingRevalidation(call[n].saw)
    BY <1>1 DEF HasPendingRevalidation
  <2>2. EndCall(n) /\ row' = row /\ candidates' = candidates
    BY <1>3, <1>5, <2>1 DEF StartSlot, CreateTask
  <2> QED BY <2>2, CallOutcome
<1> QED
  BY <1>1, <1>4, <1>5 DEF Request, CancelOrDelete, CancelGet, CancelSlot, CancelAwait, CancelReget,
     CancelWrite, DeleteRow, Locked, AcquireLock, ResumeGet, ResumeSave, DecideGet, DecideSave,
     ReopenGet, ReopenSave, ConfirmGet, ConfirmRejected, ConfirmSave, UndoGet, UndoSave, Reset, Start, StartSave,
     StartCreate, StartFailGet, StartFailWrite, AtCall

LEMMA StartInvariant == Spec => []StartInv
<1>0. Idle.op = "idle" /\ Idle.stage = "idle" /\ Idle.saw.pending = {}
  BY DEF Idle, NoRow
<1>1. Init => StartInv
  <2> SUFFICES ASSUME Init PROVE StartInv
    OBVIOUS
  <2>1. PICK n \in Calls :
           call = [d \in Calls |->
                    IF d = n THEN NewCall("create", "startGet", "none", "none") ELSE Idle]
    BY DEF Init
  <2>2. /\ call[n].op = "create" /\ call[n].stage = "startGet" /\ call[n].saw.pending = {}
        /\ \A d \in Calls \ {n} : call[d] = Idle
    BY <2>1 DEF NewCall, NoRow
  <2>3. /\ tasks = <<>> /\ candidates = {} /\ row.status = "queued" /\ row.pending = {}
    BY DEF Init, FirstRow, NoRow
  <2>4. OpStages
    BY <1>0, <2>2 DEF OpStages
  <2>5. NewReview
    BY <1>0, <2>2, <2>3 DEF NewReview, EarlyStages
  <2>6. RecoversAlone
    BY <1>0, <2>2 DEF RecoversAlone
  <2> QED BY <2>4, <2>5, <2>6 DEF StartInv
<1>2. TypeInv /\ DownIdle /\ DownForgets /\ StartInv /\ [Next]_vars => StartInv'
  <2> SUFFICES ASSUME TypeInv, DownIdle, DownForgets, StartInv, [Next]_vars PROVE StartInv'
    OBVIOUS
  <2>1. /\ TypeOK /\ RequestsFit /\ OpStages /\ NewReview /\ RecoversAlone
        /\ call \in [Calls -> Call]
    BY DEF TypeInv, StartInv, TypeOK
  <2>2. ASSUME NEW t \in DOMAIN tasks, Pipeline(t) \/ Supervisor(t) PROVE StartInv'
    <3>1. call' = call /\ tasks # <<>>
      BY <2>2, TaskStepShape
    <3>2. \A c \in Calls : call[c].op \notin {"create", "recover"}
      BY <2>1, <3>1 DEF NewReview, RecoversAlone
    <3> QED BY <2>1, <3>1, <3>2 DEF StartInv, OpStages, NewReview, RecoversAlone
  <2>3. ASSUME NEW c \in Calls, Request(c) PROVE StartInv'
    <3>1. /\ \A d \in Calls \ {c} : call'[d] = call[d]
          /\ call[c].stage # "idle"
      BY <2>1, <2>3, RequestShape DEF EndCall, MovesOn, TakesLock
    <3>2. OpStages' /\ (call'[c] = Idle \/ call'[c].op = call[c].op)
      BY <2>1, <2>3, RequestKeepsOps
    <3>3. NewReview'
      <4> SUFFICES ASSUME NEW n \in Calls, call'[n].op = "create"
                   PROVE  /\ tasks' = <<>> /\ candidates' = {}
                          /\ row'.status \notin {"completed", "failed"} /\ row'.pending = {}
                          /\ call'[n].stage \in {"startGet", "startSlot"}
                          /\ call'[n].saw.pending = {}
                          /\ \A d \in Calls \ {n} :
                                /\ call'[d].op # "create" /\ call'[d].stage \in EarlyStages
                                /\ call'[d].saw.pending = {}
        BY DEF NewReview
      <4>1. call[n].op = "create"
        BY <1>0, <3>1, <3>2
      <4>2. CASE n = c
        BY <1>0, <2>1, <2>3, <4>1, <4>2, CreateStarts DEF NewReview
      <4>3. CASE n # c
        <5>1. call'[n] = call[n]
          BY <3>1, <4>3
        <5>2. /\ tasks' = tasks /\ candidates' = candidates
              /\ row'.status \notin {"completed", "failed"} /\ row'.pending = {}
              /\ call'[c].op # "create" /\ call'[c].stage \in EarlyStages
              /\ call'[c].saw.pending = {}
          BY <2>1, <2>3, <4>1, <4>3, EarlyRequests
        <5> QED BY <2>1, <3>1, <4>1, <4>3, <5>1, <5>2 DEF NewReview
      <4> QED BY <4>2, <4>3
    <3>4. RecoversAlone'
      <4> SUFFICES ASSUME NEW n \in Calls, call'[n].op = "recover"
                   PROVE  tasks' = <<>> /\ \A d \in Calls \ {n} : call'[d] = Idle
        BY DEF RecoversAlone
      <4>1. call[n].op = "recover"
        BY <1>0, <3>1, <3>2
      <4>2. tasks = <<>> /\ \A d \in Calls \ {n} : call[d] = Idle
        BY <2>1, <4>1 DEF RecoversAlone
      <4>3. n = c
        BY <1>0, <3>1, <4>2
      <4>4. tasks' = tasks
        <5>1. CASE CancelSlot(c) /\ Live(slot)
          BY <2>1, <4>2, <5>1 DEF Live, TypeOK
        <5>2. ASSUME NEW a \in Nat, CreateTask(c, a) PROVE FALSE
          <6>1. call'[c] = Idle
            BY <2>1, <5>2, CallOutcome DEF CreateTask
          <6> QED BY <1>0, <4>3, <6>1
        <5> QED BY <2>1, <2>3, <5>1, <5>2, RequestTasks
      <4> QED BY <3>1, <4>2, <4>3, <4>4
    <3> QED BY <3>2, <3>3, <3>4 DEF StartInv
  <2>4. ASSUME NEW c \in Calls, BeginCall(c) PROVE StartInv'
    <3>1. PICK op \in Ops \ {"preview", "deleteUser"}, f \in Findings \cup {"none"},
               d \in {"kept", "deferred", "none"} :
             call' = [call EXCEPT ![c] = NewCall(op, FirstStage(op), f, d)]
      BY <2>4 DEF BeginCall
    <3>2. op \in {"cancel", "delete", "undo"} \cup LockedOps
      BY ConstantsAssumption DEF AllOps, LockedOps
    <3>3. /\ FirstStage(op) \in {"cancelGet", "undoGet", "lock"}
          /\ op \in {"cancel", "delete"} => FirstStage(op) = "cancelGet"
      BY <3>2 DEF FirstStage, LockedOps
    <3>4. /\ call'[c].op = op /\ call'[c].stage = FirstStage(op) /\ call'[c].saw.pending = {}
          /\ \A e \in Calls \ {c} : call'[e] = call[e]
      BY <2>1, <3>1 DEF NewCall, NoRow
    <3>5. UNCHANGED <<row, tasks, candidates>> /\ \A e \in Calls : call[e].op # "recover"
      BY <2>4 DEF BeginCall, rowVars, memVars
    <3>6. OpStages'
      BY <2>1, <3>2, <3>3, <3>4 DEF OpStages, CancelStages, LockedOps
    <3>7. NewReview'
      BY <2>1, <3>2, <3>3, <3>4, <3>5 DEF NewReview, EarlyStages, LockedOps
    <3>8. RecoversAlone'
      BY <3>2, <3>4, <3>5 DEF RecoversAlone, LockedOps
    <3> QED BY <3>6, <3>7, <3>8 DEF StartInv
  <2>5. CASE Environment
    <3>1. CASE Preview
      BY <2>1, <3>1 DEF Preview, rowVars, StartInv, OpStages, NewReview, RecoversAlone
    <3>2. CASE OwnerDeleted
      BY <2>1, <3>2 DEF OwnerDeleted, memVars, NoRow, StartInv, OpStages, NewReview, RecoversAlone
    <3>3. CASE DeadlinePasses
      BY <2>1, <3>3 DEF DeadlinePasses, memVars, StartInv, OpStages, NewReview, RecoversAlone
    <3>4. CASE Shutdown
      <4>1. call' = call /\ \A c \in Calls : call[c] = Idle
        BY <3>4 DEF Shutdown
      <4> QED BY <1>0, <4>1 DEF StartInv, OpStages, NewReview, RecoversAlone
    <3>5. CASE Exit
      <4>1. \A c \in Calls : call'[c] = Idle
        BY <3>5 DEF Exit, ForgetMemory
      <4> QED BY <1>0, <4>1 DEF StartInv, OpStages, NewReview, RecoversAlone
    <3>6. CASE Restart
      <4>1. tasks' = <<>> /\ \A c \in Calls : call[c] = Idle
        BY <3>6 DEF Restart, memVars, DownIdle, DownForgets
      <4>2. CASE call' = call
        BY <1>0, <4>1, <4>2 DEF StartInv, OpStages, NewReview, RecoversAlone
      <4>3. ASSUME NEW c \in Calls,
                   call' = [call EXCEPT ![c] = NewCall("recover", "startGet", "none", "none")]
            PROVE  StartInv'
        <5>1. call'[c].op = "recover" /\ \A d \in Calls \ {c} : call'[d] = Idle
          BY <2>1, <4>1, <4>3 DEF NewCall
        <5> QED BY <1>0, <4>1, <5>1 DEF StartInv, OpStages, NewReview, RecoversAlone
      <4> QED BY <3>6, <4>2, <4>3 DEF Restart
    <3> QED BY <2>5, <3>1, <3>2, <3>3, <3>4, <3>5, <3>6 DEF Environment
  <2>6. CASE UNCHANGED vars
    <3>1. UNCHANGED <<row, tasks, candidates, call>>
      BY <2>6 DEF vars, rowVars, memVars
    <3> QED BY <2>1, <3>1 DEF StartInv, OpStages, NewReview, RecoversAlone
  <2> QED BY <2>2, <2>3, <2>4, <2>5, <2>6 DEF Next, TaskStep
<1>3. ShutdownInv => DownForgets
  BY DEF ShutdownInv
<1> QED BY <1>1, <1>2, <1>3, LifecycleTypeInvariant, NobodyIsServedDown, ShutdownInvariant, PTL
        DEF Spec

\* Whoever starts holds the lock, created the review or recovers it, and each of
\* the three excludes the others.
THEOREM OneStartAtATime == Spec => []OneStart
<1>1. TypeOK /\ LockExcludes /\ StartInv => OneStart
  <2> SUFFICES ASSUME TypeOK, LockExcludes, OpStages, NewReview, RecoversAlone PROVE OneStart
    BY DEF StartInv
  <2>1. ASSUME NEW c \in Calls, Starting(c)
        PROVE  \/ call[c].op \in LockedOps /\ lock = c
               \/ call[c].op \in {"create", "recover"}
    <3>1. call[c].op \in LockedOps \cup {"create", "recover"}
      BY <2>1 DEF TypeOK, Call, CallOps, AllOps, OpStages, CancelStages, Starting, LockedOps
    <3>2. call[c].op \in LockedOps => InsideLock(c)
      BY <2>1 DEF Starting, InsideLock
    <3> QED BY <3>1, <3>2 DEF LockExcludes
  <2>2. ASSUME NEW c \in Calls, NEW d \in Calls, Starting(c), Starting(d),
               call[c].op \in {"create", "recover"}
        PROVE  c = d
    <3>1. CASE call[c].op = "create"
      BY <2>2, <3>1 DEF NewReview, EarlyStages, Starting
    <3>2. CASE call[c].op = "recover"
      BY <2>2, <3>2 DEF RecoversAlone, Starting, Idle
    <3> QED BY <2>2, <3>1, <3>2
  <2>3. ASSUME NEW c \in Calls, NEW d \in Calls, Starting(c), Starting(d) PROVE c = d
    BY <2>1, <2>2, <2>3
  <2>4. ASSUME NEW c \in Calls, call[c].op \in {"create", "recover"} PROVE tasks = <<>>
    BY <2>4 DEF NewReview, RecoversAlone
  <2> QED BY <2>3, <2>4 DEF OneStart
<1> QED BY <1>1, LifecycleTypeCorrect, LockIsExclusive, StartInvariant, PTL

\* A request that writes the row goes on to another await.
LEMMA RequestWritersMove ==
    ASSUME TypeOK, NEW c \in Calls, Request(c), row' # row
    PROVE  CallSteps(c) /\ call[c].stage \notin {"lock", "startGet", "startSlot"}
<1>1. call \in [Calls -> Call]
  BY DEF TypeOK
<1>2. Idle.stage = "idle"
  BY DEF Idle
<1>3. ASSUME NEW stage, stage # call[c].stage,
             (EndCall(c) /\ stage = "idle") \/ GoCall(c, stage) \/ \E r : CallSees(c, r, stage)
      PROVE  CallSteps(c)
  <2>1. call'[c].stage = stage
    BY <1>2, <1>3, CallOutcome
  <2> QED BY <1>3, <2>1 DEF CallSteps
<1>4. ASSUME NEW new, NEW restart, SaveThen(c, new, restart),
             call[c].stage \notin {"idle", "reset"}
      PROVE  CallSteps(c)
  BY <1>3, <1>4 DEF SaveThen
<1>5. CASE CancelWrite(c) \/ DeleteRow(c)
  BY <1>3, <1>5 DEF CancelWrite, DeleteRow, AfterCancel, AtCall
<1>6. CASE ResumeSave(c) \/ Reset(c) \/ StartSave(c) \/ StartFailWrite(c)
  BY <1>3, <1>6 DEF ResumeSave, Reset, StartSave, StartFailWrite, AtCall
<1>7. CASE DecideSave(c) \/ ReopenSave(c) \/ ConfirmSave(c) \/ UndoSave(c)
  BY <1>4, <1>7 DEF DecideSave, ReopenSave, ConfirmSave, UndoSave, AtCall
<1>8. ASSUME \/ CancelGet(c) \/ CancelSlot(c) \/ CancelAwait(c) \/ CancelReget(c)
             \/ AcquireLock(c) \/ ResumeGet(c) \/ DecideGet(c) \/ ReopenGet(c) \/ ConfirmGet(c)
             \/ ConfirmRejected(c) \/ UndoGet(c) \/ StartGet(c) \/ StartSlot(c) \/ StartCreate(c) \/ StartFailGet(c)
      PROVE  FALSE
  BY <1>8 DEF CancelGet, CancelSlot, CancelAwait, CancelReget, AcquireLock, ResumeGet, DecideGet,
     ReopenGet, ConfirmGet, ConfirmRejected, UndoGet, StartGet, StartSlot, StartCreate,
     StartFailGet, rowVars
<1>9. \/ CancelWrite(c) \/ DeleteRow(c) \/ ResumeSave(c) \/ Reset(c) \/ StartSave(c)
      \/ StartFailWrite(c) \/ DecideSave(c) \/ ReopenSave(c) \/ ConfirmSave(c) \/ UndoSave(c)
  BY <1>8 DEF Request, CancelOrDelete, Locked, Start
<1>10. call[c].stage \notin {"lock", "startGet", "startSlot"}
  BY <1>9 DEF CancelWrite, DeleteRow, ResumeSave, Reset, StartSave, StartFailWrite, DecideSave,
     ReopenSave, ConfirmSave, UndoSave, AtCall
<1> QED BY <1>5, <1>6, <1>7, <1>9, <1>10

\* A task that writes the row moves.
LEMMA SupervisorWritersMove ==
    ASSUME TypeOK, NEW t \in DOMAIN tasks, Supervisor(t), row' # row
    PROVE  TaskSteps(t)
<1>1. t \in 1..Len(tasks) /\ tasks[t] \in Task /\ tasks \in [1..Len(tasks) -> Task]
  BY TasksAreFunctions
<1>2. CommitWrite(t)
  BY DEF Supervisor, SupervisorBegin, SupervisorWakes, CommitGet, GraceEnds, GraceExpires,
     SupervisorCancelled, rowVars
<1>3. t \in DOMAIN tasks' /\ tasks'[t].stage \in {"grace", "abortGrace", "done"}
  BY <1>1, <1>2 DEF CommitWrite, Task
<1>4. tasks[t].stage \in {"timeoutWrite", "abortWrite"}
  BY <1>2 DEF CommitWrite
<1> QED BY <1>3, <1>4 DEF TaskSteps

\* No handler of the lock, no new review and no recover() changes the files under
\* a handler that will write its copy back: a confirmed fix is lost only to a
\* request that takes no lock, to a pipeline or with the review.
THEOREM LockKeepsFixes == Spec => LockedHandlersKeepFixes
<1> DEFINE Keeps ==
      \A c \in Calls :
          HoldsCopy(c) /\ ~CallSteps(c) /\ row'.applied # row.applied
          => \/ \E d \in Calls : call[d].op \in {"cancel", "delete", "undo"} /\ CallSteps(d)
             \/ \E t \in DOMAIN tasks : TaskSteps(t)
             \/ row' = NoRow
<1>1. TypeInv /\ LockExcludes /\ StartInv /\ [Next]_vars => [Keeps]_vars
  <2> SUFFICES ASSUME TypeInv, LockExcludes, StartInv, Next,
                      NEW c \in Calls, HoldsCopy(c), ~CallSteps(c), row' # row
               PROVE  \/ \E d \in Calls : call[d].op \in {"cancel", "delete", "undo"} /\ CallSteps(d)
                      \/ \E t \in DOMAIN tasks : TaskSteps(t)
                      \/ row' = NoRow
    BY DEF vars
  <2>1. TypeOK /\ RequestsFit /\ OpStages /\ NewReview /\ RecoversAlone
    BY DEF TypeInv, StartInv
  <2>2. lock = c /\ call[c].op \in LockedOps
    BY DEF LockExcludes, HoldsCopy, InsideLock
  <2>3. ASSUME NEW t \in DOMAIN tasks, Pipeline(t) \/ Supervisor(t) PROVE TaskSteps(t)
    BY <2>1, <2>3, WritersMove, SupervisorWritersMove
  <2>4. ASSUME NEW d \in Calls, Request(d)
        PROVE  call[d].op \in {"cancel", "delete", "undo"} /\ CallSteps(d)
    <3>1. CallSteps(d) /\ call[d].stage \notin {"lock", "startGet", "startSlot"}
      BY <2>1, <2>4, RequestWritersMove
    <3>2. d # c
      BY <3>1
    <3>3. call[d].stage # "idle"
      BY <2>1, <2>4, RequestShape
    <3>4. call[d].op \notin LockedOps
      BY <2>2, <3>1, <3>2 DEF LockExcludes, InsideLock
    <3>5. call[d].op # "create"
      BY <2>1, <3>1 DEF NewReview
    <3>6. call[d].op # "recover"
      BY <2>1, <2>2, <3>2 DEF RecoversAlone, Idle, LockedOps
    <3>7. call[d].op \in CallOps /\ call[d].op \notin {"preview", "deleteUser", "idle"}
      BY <2>1, <3>3 DEF OpStages, TypeOK, Call
    <3> QED BY <3>1, <3>4, <3>5, <3>6, <3>7 DEF CallOps, AllOps, LockedOps
  <2>5. ASSUME NEW d \in Calls PROVE ~BeginCall(d)
    BY DEF BeginCall, rowVars
  <2>6. Environment => row' = NoRow
    BY <2>1, EnvironmentAttempts
  <2> QED BY <2>3, <2>4, <2>5, <2>6 DEF Next, TaskStep
<1> QED BY <1>1, LifecycleTypeInvariant, LockIsExclusive, StartInvariant, PTL
        DEF Spec, LockedHandlersKeepFixes

-----------------------------------------------------------------------------
(* Work.  As long as nobody confirms a fix there is no recheck: every task is *)
(* a first review, and no copy of the row has a fix that would restart one.   *)
(* Then the live task is the one in the slot, and a review that is not over   *)
(* is worked on by it, is being started, or is about to be cancelled.         *)

FixFree(r) == r.pending = {} /\ r.applied = <<>>

RestartStages ==
    {"confirmGet", "confirmSave", "undoSave", "reset", "startSave", "startCreate",
     "startFailGet", "startFailWrite"}

NoFixes ==
    /\ FixFree(row)
    /\ \A t \in DOMAIN tasks : tasks[t].attempt = 0 /\ FixFree(tasks[t].seen)
    /\ \A c \in Calls : /\ FixFree(call[c].saw)
                        /\ call[c].op # "confirm" /\ call[c].stage \notin RestartStages

LiveInSlot == Exists => \A t \in DOMAIN tasks : tasks[t].run \notin Ended => t = slot

\* The awaits of a request that will still start the review or mark it cancelled.
WorkStages == {"startGet", "startSlot", "cancelAwait", "cancelReget", "cancelWrite"}

HasWork ==
    process = "up" /\ row.status \notin Terminal \cup {"deleted"}
    => Live(slot) \/ \E c \in Calls : call[c].stage \in WorkStages

WorkInv == NoFixes /\ LiveInSlot /\ HasWork

LEMMA RowsStayFixFree ==
    ASSUME NEW r \in Row, FixFree(r)
    PROVE  /\ \A s : FixFree(WithStatus(r, s))
           /\ \A s, static : FixFree([WithStatus(r, s) EXCEPT !.active = static])
           /\ \A seen, a : FixFree(CompletedRow(r, seen, a))
           /\ \A a : FixFree(BlockedRow(r, a)) /\ FixFree(Requeued(r, a))
           /\ \A a, why : FixFree(FailedRow(r, a, why))
           /\ \A f : FixFree(ReopenedRow(r, f))
           /\ \A f, d : FixFree(DecidedRow(r, f, d))
<1>1. /\ \A s : FixFree(WithStatus(r, s))
      /\ \A s, static : FixFree([WithStatus(r, s) EXCEPT !.active = static])
      /\ \A a : FixFree(BlockedRow(r, a)) /\ FixFree(Requeued(r, a))
      /\ \A a, why : FixFree(FailedRow(r, a, why))
  BY DEF FixFree, WithStatus, BlockedRow, Requeued, FailedRow, Row
<1>2. \A seen, a : FixFree(CompletedRow(r, seen, a))
  BY DEF FixFree, CompletedRow, Row
<1>3. \A f : FixFree(ReopenedRow(r, f))
  BY DEF FixFree, ReopenedRow, Row
<1>4. \A f, d : FixFree(DecidedRow(r, f, d))
  BY DEF FixFree, DecidedRow, Row
<1> QED BY <1>1, <1>2, <1>3, <1>4

\* A step of a first review: what it writes, and what it leaves behind when it ends.
LEMMA FirstRunSteps ==
    ASSUME TypeOK, NoFixes, FirstRunsUnsupervised, CancelsAreAwaited,
           NEW t \in DOMAIN tasks, Pipeline(t) \/ Supervisor(t)
    PROVE  /\ FixFree(row') /\ FixFree(tasks'[t].seen) /\ (Exists' => Exists)
           /\ tasks[t].run \notin Ended
           /\ \/ tasks'[t].run \notin Ended
              \/ row'.status \in Terminal \cup {"deleted"}
              \/ process # "up" \/ \E c \in Calls : call[c].stage = "cancelAwait"
<1> DEFINE over == \/ row'.status \in Terminal \cup {"deleted"}
                   \/ process # "up" \/ \E c \in Calls : call[c].stage = "cancelAwait"
           Good == /\ FixFree(row') /\ FixFree(tasks'[t].seen) /\ (Exists' => Exists)
                   /\ tasks'[t].run \notin Ended \/ over
<1>1. /\ t \in 1..Len(tasks) /\ tasks[t] \in Task /\ tasks \in [1..Len(tasks) -> Task]
      /\ tasks[t].seen \in Row /\ tasks[t].attempt = 0 /\ FixFree(tasks[t].seen)
      /\ FixFree(row) /\ row \in Row
  BY TasksAreFunctions DEF Task, NoFixes, TypeOK
<1>2. Pipeline(t)
  BY <1>1 DEF FirstRunsUnsupervised, Supervisor, SupervisorBegin, SupervisorWakes, CommitGet,
     CommitWrite, GraceEnds, GraceExpires, SupervisorCancelled, In
<1>3. tasks[t].run \notin Ended
  BY <1>2 DEF Pipeline, RunBegin, RunStage, RunExecutes, RunCompletes, RunRaises, RunFenced,
     RunFailGet, RunFailWrite, RunCancelled, RunCancelGet, RunCancelWrite, At, PipelineLive, Body,
     Ended
<1> SUFFICES Good
  BY <1>3
<1> HIDE DEF Good, over
<1>4. FixFree(NoRow)
  BY DEF FixFree, NoRow
<1>5. ASSUME NEW how, EndRun(t, how) PROVE FixFree(tasks'[t].seen)
  BY <1>1, <1>4, <1>5 DEF EndRun, Task
<1>6. ASSUME NEW stage, stage \notin Ended, GoRun(t, stage)
      PROVE  FixFree(tasks'[t].seen) /\ tasks'[t].run \notin Ended
  BY <1>1, <1>6 DEF GoRun, Task
<1>7. ASSUME NEW stage, stage \notin Ended, tasks' = [tasks EXCEPT ![t].run = stage, ![t].seen = row]
      PROVE  FixFree(tasks'[t].seen) /\ tasks'[t].run \notin Ended
  BY <1>1, <1>7 DEF Task
<1>8. ASSUME NEW new \in Row, FixFree(new), NEW stage, RunWrites(t, new, stage),
             stage \in Ended => new.status \in Terminal
      PROVE  Good
  <2>1. Exists /\ row' = new
    BY <1>8 DEF RunWrites
  <2>2. CASE stage \in Ended
    <3>1. EndRun(t, stage) /\ row'.status \in Terminal
      BY <1>8, <2>1, <2>2 DEF RunWrites
    <3> QED BY <1>5, <1>8, <2>1, <3>1 DEF Good, over
  <2>3. CASE stage \notin Ended
    <3>1. tasks' = [tasks EXCEPT ![t].run = stage, ![t].seen = new]
      BY <1>8, <2>3 DEF RunWrites
    <3>2. FixFree(tasks'[t].seen) /\ tasks'[t].run \notin Ended
      BY <1>1, <1>8, <2>3, <3>1 DEF Task
    <3> QED BY <1>8, <2>1, <3>2 DEF Good, Exists
  <2> QED BY <2>2, <2>3
<1>9. CASE RunStage(t)
  <2>1. \A s \in {"planning", "reviewing", "aggregating"} :
           /\ WithStatus(tasks[t].seen, s) \in Row
           /\ \A static \in SUBSET Findings :
                 [WithStatus(tasks[t].seen, s) EXCEPT !.active = static] \in Row
    <3>1. \A s \in {"planning", "reviewing", "aggregating"} :
             WithStatus(tasks[t].seen, s) \in Row
      BY <1>1, RunRowsType DEF Statuses
    <3> QED BY <3>1, RunRowsType
  <2>2. \A s : /\ FixFree(WithStatus(tasks[t].seen, s))
               /\ \A static : FixFree([WithStatus(tasks[t].seen, s) EXCEPT !.active = static])
    BY <1>1, RowsStayFixFree
  <2> QED BY <1>8, <1>9, <2>1, <2>2 DEF RunStage, Ended
<1>10. CASE RunCompletes(t)
  <2>1. /\ BlockedRow(tasks[t].seen, 0) \in Row
        /\ \A seen \in SUBSET Findings : CompletedRow(tasks[t].seen, seen, 0) \in Row
    <3>1. 0 \in Nat
      OBVIOUS
    <3> QED BY <1>1, <3>1, RunRowsType
  <2>2. /\ FixFree(BlockedRow(tasks[t].seen, 0))
        /\ \A seen : FixFree(CompletedRow(tasks[t].seen, seen, 0))
    BY <1>1, RowsStayFixFree
  <2>3. /\ BlockedRow(tasks[t].seen, 0).status \in Terminal
        /\ \A seen : CompletedRow(tasks[t].seen, seen, 0).status \in Terminal
    <3>1. BlockedRow(tasks[t].seen, 0).status = "completed"
      BY <1>1 DEF BlockedRow, Row
    <3>2. \A seen : CompletedRow(tasks[t].seen, seen, 0).status = "completed"
      BY <1>1 DEF CompletedRow, Row
    <3> QED BY <3>1, <3>2 DEF Terminal
  <2> QED BY <1>1, <1>8, <1>10, <2>1, <2>2, <2>3 DEF RunCompletes
<1>11. CASE RunFailWrite(t)
  <2> DEFINE new == FailedRow(tasks[t].seen, 0, "failed")
  <2>1. new \in Row /\ FixFree(new) /\ new.status \in Terminal
    <3>1. 0 \in Nat /\ "failed" \in AttemptStatuses
      BY DEF AttemptStatuses
    <3>2. new \in Row
      BY <1>1, <3>1, RunRowsType
    <3>3. FixFree(new)
      BY <1>1, RowsStayFixFree
    <3>4. new.status = "failed"
      BY <1>1 DEF FailedRow, Row
    <3> QED BY <3>2, <3>3, <3>4 DEF Terminal
  <2>2. CASE ~Exists /\ EndRun(t, "returned") /\ row' = row
    BY <1>1, <1>5, <2>2 DEF Exists, Good, over
  <2>3. CASE RunWrites(t, new, "returned")
    BY <1>8, <2>1, <2>3
  <2> QED BY <1>1, <1>11, <2>2, <2>3 DEF RunFailWrite
<1>12. CASE RunBegin(t) \/ RunFailGet(t) \/ RunCancelGet(t)
  <2>1. row' = row
    BY <1>12 DEF RunBegin, RunFailGet, RunCancelGet, rowVars
  <2>2. \/ \E how : EndRun(t, how) /\ row.status \in Terminal \cup {"deleted"}
        \/ \E stage : stage \notin Ended /\ tasks' = [tasks EXCEPT ![t].run = stage, ![t].seen = row]
    BY <1>12 DEF RunBegin, RunFailGet, RunCancelGet, Exists, Terminal, Ended
  <2> QED BY <1>1, <1>5, <1>7, <2>1, <2>2 DEF Good, over, Exists
<1>13. CASE RunExecutes(t) \/ RunRaises(t)
  <2>1. row' = row
    BY <1>13 DEF RunExecutes, RunRaises, rowVars
  <2>2. GoRun(t, "aggregating") \/ GoRun(t, "failGet")
    BY <1>13 DEF RunExecutes, RunRaises
  <2> QED BY <1>1, <1>6, <2>1, <2>2 DEF Good, Exists, Ended
<1>14. ~RunFenced(t)
  BY <1>1 DEF RunFenced, MayWrite
<1>15. CASE RunCancelled(t)
  <2>1. row' = row
    BY <1>15 DEF RunCancelled, rowVars
  <2>2. CASE EndRun(t, "cancelled")
    <3>1. process # "up" \/ \E c \in Calls : call[c].stage = "cancelAwait"
      BY <1>1, <1>15 DEF RunCancelled, PipelineLive, CancelsAreAwaited, Cancelling
    <3> QED BY <1>1, <1>5, <2>1, <2>2, <3>1 DEF Good, over, Exists
  <2>3. CASE tasks' = [tasks EXCEPT ![t].run = "cancelGet", ![t].stop = FALSE]
    <3>1. tasks'[t].run \notin Ended /\ tasks'[t].seen = tasks[t].seen
      BY <1>1, <2>3 DEF Task, Ended
    <3> QED BY <1>1, <2>1, <3>1 DEF Good, Exists
  <2> QED BY <1>15, <2>2, <2>3 DEF RunCancelled
<1>16. CASE RunCancelWrite(t)
  <2>1. EndRun(t, "cancelled") /\ row' = IF Exists THEN WithStatus(tasks[t].seen, "cancelled") ELSE row
    BY <1>16 DEF RunCancelWrite
  <2>2. /\ WithStatus(tasks[t].seen, "cancelled").status = "cancelled"
        /\ FixFree(WithStatus(tasks[t].seen, "cancelled"))
    <3>1. WithStatus(tasks[t].seen, "cancelled").status = "cancelled"
      BY <1>1 DEF WithStatus, Row
    <3>2. FixFree(WithStatus(tasks[t].seen, "cancelled"))
      BY <1>1, RowsStayFixFree
    <3> QED BY <3>1, <3>2
  <2>3. CASE Exists
    BY <1>5, <2>1, <2>2, <2>3 DEF Good, over, Terminal
  <2>4. CASE ~Exists
    BY <1>1, <1>5, <2>1, <2>4 DEF Good, over, Exists
  <2> QED BY <2>3, <2>4
<1>17. Good
  BY <1>2, <1>9, <1>10, <1>11, <1>12, <1>13, <1>14, <1>15, <1>16 DEF Pipeline
<1> QED BY <1>17

\* A step of a request while nobody confirms a fix.
LEMMA FixFreeRequests ==
    ASSUME TypeOK, RequestsFit, SavedIsOver, NoFixes, NEW c \in Calls, Request(c)
    PROVE  /\ FixFree(row') /\ FixFree(call'[c].saw) /\ call'[c].stage \notin RestartStages
           /\ call'[c].op # "confirm" /\ (Exists' => Exists)
           /\ \/ tasks' = tasks /\ (slot' = slot \/ row'.status = "deleted")
              \/ tasks' = CancelTask(slot) /\ slot' = slot /\ Live(slot)
              \/ CreateTask(c, 0) /\ ~Live(slot) /\ row' = row
           /\ \/ row'.status \in Terminal \cup {"deleted"} \/ call'[c].stage \in WorkStages
              \/ row' = row /\ (call[c].stage \notin WorkStages \/ Live(slot)')
<1>1. /\ call \in [Calls -> Call] /\ call[c].saw \in Row /\ row \in Row
      /\ FixFree(row) /\ FixFree(call[c].saw) /\ call[c].op # "confirm"
      /\ call[c].stage \notin RestartStages
  BY DEF TypeOK, Call, NoFixes
<1>2. /\ Idle.op = "idle" /\ Idle.stage = "idle" /\ FixFree(Idle.saw) /\ FixFree(NoRow)
      /\ NoRow.status = "deleted"
  BY DEF Idle, NoRow, FixFree
<1>3. call'[c] = Idle \/ call'[c].op = call[c].op
  BY <1>1, RequestShape DEF EndCall, MovesOn, TakesLock
<1>4. call'[c].op # "confirm"
  BY <1>1, <1>2, <1>3
<1> DEFINE Sees == FixFree(call'[c].saw) /\ call'[c].stage \notin RestartStages
           Same == tasks' = tasks /\ (slot' = slot \/ row'.status = "deleted")
           Tasks == \/ Same
                    \/ tasks' = CancelTask(slot) /\ slot' = slot /\ Live(slot)
                    \/ CreateTask(c, 0) /\ ~Live(slot) /\ row' = row
           Works == \/ row'.status \in Terminal \cup {"deleted"} \/ call'[c].stage \in WorkStages
                    \/ row' = row /\ (call[c].stage \notin WorkStages \/ Live(slot)')
           Good == Sees /\ FixFree(row') /\ (Exists' => Exists) /\ Tasks /\ Works
<1> SUFFICES Good
  BY <1>4
<1>5. ASSUME call'[c] = Idle PROVE Sees
  BY <1>2, <1>5 DEF RestartStages
<1>6. ASSUME NEW stage, stage \notin RestartStages, GoCall(c, stage) \/ CallSees(c, row, stage)
      PROVE  Sees /\ call'[c].stage = stage
  BY <1>1, <1>6, CallOutcome
<1>7. ASSUME AfterCancel(c) PROVE Sees
  BY <1>5, <1>6, <1>7, CallOutcome DEF AfterCancel, RestartStages
<1>8. ASSUME row' = row, Sees, Same,
             \/ row.status \in Terminal \cup {"deleted"} \/ call'[c].stage \in WorkStages
             \/ call[c].stage \notin WorkStages
      PROVE  Good
  BY <1>1, <1>8 DEF Exists
<1> HIDE DEF Sees, Same, Good
<1>9. CASE CancelGet(c)
  <2>1. Sees
    BY <1>5, <1>6, <1>7, <1>9, CallOutcome DEF CancelGet, RestartStages
  <2>2. row' = row /\ Same /\ call[c].stage \notin WorkStages
    BY <1>9 DEF CancelGet, rowVars, Same, AtCall, WorkStages
  <2> QED BY <1>8, <2>1, <2>2
<1>10. CASE CancelSlot(c)
  <2>1. row' = row /\ slot' = slot /\ call[c].stage \notin WorkStages
    BY <1>10 DEF CancelSlot, rowVars, AtCall, WorkStages
  <2>2. CASE Live(slot)
    <3>1. /\ call' = [call EXCEPT ![c].stage = "cancelAwait", ![c].target = slot]
          /\ tasks' = CancelTask(slot)
      BY <1>10, <2>2 DEF CancelSlot
    <3>2. call'[c].saw = call[c].saw /\ call'[c].stage = "cancelAwait"
      BY <1>1, <3>1 DEF Call
    <3>3. Sees
      BY <1>1, <3>2 DEF Sees, RestartStages
    <3> QED BY <1>1, <2>1, <2>2, <3>1, <3>3 DEF Good, Exists
  <2>3. CASE ~Live(slot)
    <3>1. GoCall(c, "cancelReget") /\ tasks' = tasks
      BY <1>10, <2>3 DEF CancelSlot
    <3>2. Sees /\ Same
      BY <1>6, <2>1, <3>1 DEF RestartStages, Same
    <3> QED BY <1>8, <2>1, <3>2
  <2> QED BY <2>2, <2>3
<1>11. CASE CancelAwait(c)
  <2>1. Sees /\ call'[c].stage = "cancelReget"
    BY <1>6, <1>11 DEF CancelAwait, RestartStages
  <2>2. row' = row /\ Same
    BY <1>11 DEF CancelAwait, rowVars, memVars, Same
  <2> QED BY <1>8, <2>1, <2>2 DEF WorkStages
<1>12. CASE CancelReget(c)
  <2>1. row' = row /\ Same
    BY <1>12 DEF CancelReget, rowVars, Same
  <2>2. CASE row.status \in {"deleted", "cancelled"}
    <3>1. Sees
      BY <1>7, <1>12, <2>2 DEF CancelReget
    <3> QED BY <1>8, <2>1, <2>2, <3>1 DEF Terminal
  <2>3. CASE row.status \notin {"deleted", "cancelled"}
    <3>1. Sees /\ call'[c].stage = "cancelWrite"
      BY <1>6, <1>12, <2>3 DEF CancelReget, RestartStages
    <3> QED BY <1>8, <2>1, <3>1 DEF WorkStages
  <2> QED BY <2>2, <2>3
<1>13. CASE CancelWrite(c)
  <2>1. Sees
    BY <1>7, <1>13 DEF CancelWrite
  <2>2. /\ FixFree(WithStatus(call[c].saw, "cancelled"))
        /\ WithStatus(call[c].saw, "cancelled").status = "cancelled"
    <3>1. WithStatus(call[c].saw, "cancelled").status = "cancelled"
      BY <1>1 DEF WithStatus, Row
    <3>2. FixFree(WithStatus(call[c].saw, "cancelled"))
      BY <1>1, RowsStayFixFree
    <3> QED BY <3>1, <3>2
  <2>3. row' = (IF Exists THEN WithStatus(call[c].saw, "cancelled") ELSE row) /\ Same
    BY <1>13 DEF CancelWrite, Same
  <2>4. CASE Exists
    BY <2>1, <2>2, <2>3, <2>4 DEF Good, Terminal
  <2>5. CASE ~Exists
    BY <1>8, <2>1, <2>3, <2>5 DEF Exists
  <2> QED BY <2>4, <2>5
<1>14. CASE DeleteRow(c)
  <2>1. Sees
    BY <1>5, <1>14, CallOutcome DEF DeleteRow
  <2>2. row' = NoRow /\ Same
    BY <1>2, <1>14 DEF DeleteRow, Same
  <2> QED BY <1>2, <2>1, <2>2 DEF Good, Exists
<1>15. CASE AcquireLock(c)
  <2>1. \/ call' = [call EXCEPT ![c] = Idle]
        \/ \E stage \in {"resumeGet", "decideGet", "reopenGet"} : GoCall(c, stage)
    BY <1>1, <1>15 DEF AcquireLock, AtCall, RequestsFit, LockedOps
  <2>2. Sees
    BY <1>1, <1>5, <1>6, <2>1 DEF RestartStages
  <2>3. row' = row /\ Same /\ call[c].stage \notin WorkStages
    BY <1>15 DEF AcquireLock, rowVars, Same, AtCall, WorkStages
  <2> QED BY <1>8, <2>2, <2>3
<1>16. CASE ResumeGet(c) \/ DecideGet(c) \/ ReopenGet(c)
  <2>1. Sees
    BY <1>5, <1>6, <1>16, CallOutcome DEF ResumeGet, DecideGet, ReopenGet, RestartStages
  <2>2. row' = row /\ Same /\ call[c].stage \notin WorkStages
    BY <1>16 DEF ResumeGet, DecideGet, ReopenGet, rowVars, Same, AtCall, WorkStages
  <2> QED BY <1>8, <2>1, <2>2
<1>17. CASE ResumeSave(c)
  <2>1. tasks' = tasks /\ slot' = slot
    BY <1>17 DEF ResumeSave
  <2>2. CASE Exists
    <3>1. row' = Requeued(call[c].saw, attempts + 1) /\ GoCall(c, "startGet")
      BY <1>17, <2>2 DEF ResumeSave
    <3>2. FixFree(row')
      BY <1>1, <3>1, RowsStayFixFree
    <3>3. Sees /\ call'[c].stage \in WorkStages
      BY <1>6, <3>1 DEF RestartStages, WorkStages
    <3> QED BY <2>1, <2>2, <3>2, <3>3 DEF Good, Same
  <2>3. CASE ~Exists
    <3>1. EndCall(c) /\ row' = row
      BY <1>17, <2>3 DEF ResumeSave
    <3> QED BY <1>5, <1>8, <2>1, <2>3, <3>1, CallOutcome DEF Same, Exists
  <2> QED BY <2>2, <2>3
<1>18. ASSUME NEW new, SaveThen(c, new, FALSE), FixFree(new), new.status \in Terminal,
              tasks' = tasks, slot' = slot
       PROVE  Good
  <2>1. Sees
    BY <1>5, <1>18, CallOutcome DEF SaveThen
  <2>2. CASE Exists
    BY <1>18, <2>1, <2>2 DEF SaveThen, Good, Same
  <2>3. CASE ~Exists
    BY <1>8, <1>18, <2>1, <2>3 DEF SaveThen, Same, Exists
  <2> QED BY <2>2, <2>3
<1>19. CASE DecideSave(c)
  <2> DEFINE new == DecidedRow(call[c].saw, call[c].finding, call[c].decision)
  <2>1. FixFree(new) /\ new.status \in Terminal
    <3>1. call[c].saw.status \in Terminal
      BY <1>19 DEF DecideSave, AtCall, SavedIsOver, SavesEnded
    <3> QED BY <1>1, <3>1, RowsStayFixFree, RowsKeepAttempts
  <2>2. RestartsAfterDecision(new) = FALSE
    BY <2>1 DEF RestartsAfterDecision, HasPendingRevalidation, FixFree
  <2> HIDE DEF new
  <2>3. SaveThen(c, new, FALSE) /\ tasks' = tasks /\ slot' = slot
    BY <1>19, <2>2 DEF DecideSave, new
  <2> QED BY <1>18, <2>1, <2>3
<1>20. CASE ReopenSave(c)
  <2>1. call[c].saw.status \in Terminal
    BY <1>20 DEF ReopenSave, AtCall, SavedIsOver, SavesEnded
  <2>2. /\ FixFree(ReopenedRow(call[c].saw, call[c].finding))
        /\ ReopenedRow(call[c].saw, call[c].finding).status \in Terminal
    BY <1>1, <2>1, RowsStayFixFree, RowsKeepAttempts
  <2> QED BY <1>18, <1>20, <2>2 DEF ReopenSave
<1>21. CASE UndoGet(c)
  <2>1. EndCall(c)
    BY <1>1, <1>21 DEF UndoGet, FixFree
  <2>2. row' = row /\ Same /\ call[c].stage \notin WorkStages
    BY <1>21 DEF UndoGet, rowVars, Same, AtCall, WorkStages
  <2> QED BY <1>5, <1>8, <2>1, <2>2, CallOutcome
<1>22. CASE StartGet(c)
  <2>1. row' = row /\ Same
    BY <1>22 DEF StartGet, rowVars, Same
  <2>2. CASE Exists
    <3>1. Sees /\ call'[c].stage = "startSlot"
      BY <1>6, <1>22, <2>2 DEF StartGet, RestartStages
    <3> QED BY <1>8, <2>1, <3>1 DEF WorkStages
  <2>3. CASE ~Exists
    BY <1>5, <1>8, <1>22, <2>1, <2>3, CallOutcome DEF StartGet, Exists
  <2> QED BY <2>2, <2>3
<1>23. CASE StartSlot(c)
  <2>1. ~HasPendingRevalidation(call[c].saw)
    BY <1>1 DEF HasPendingRevalidation, FixFree
  <2>2. /\ row' = row
        /\ \/ Live(slot) /\ EndCall(c) /\ tasks' = tasks /\ slot' = slot
           \/ ~Live(slot) /\ CreateTask(c, 0)
    BY <1>23, <2>1 DEF StartSlot
  <2>3. EndCall(c)
    BY <2>2 DEF CreateTask
  <2>4. Sees
    BY <1>5, <2>3, CallOutcome
  <2>5. Live(slot)'
    <3>1. CASE Live(slot) /\ tasks' = tasks /\ slot' = slot
      BY <3>1 DEF Live
    <3>2. CASE CreateTask(c, 0)
      <4>1. tasks \in Seq(Task) /\ Len(tasks) \in Nat
        BY TasksAreFunctions DEF TypeOK
      <4>2. NewTask(0) \in Task
        BY NoRowType DEF NewTask, Task, SupervisorStages, PipelineStages
      <4>3. tasks'[Len(tasks) + 1] = NewTask(0)
        BY <3>2, <4>1, <4>2, AppendProperties DEF CreateTask
      <4>4. slot' = Len(tasks) + 1 /\ slot' # 0
        BY <3>2, <4>1 DEF CreateTask
      <4>5. NewTask(0).attempt = 0 /\ NewTask(0).run = "begin"
        BY DEF NewTask
      <4>6. tasks'[slot'].attempt = 0 /\ tasks'[slot'].run = "begin"
        BY <4>3, <4>4, <4>5
      <4> QED BY <4>4, <4>6 DEF Live, Ended
    <3> QED BY <2>2, <3>1, <3>2
  <2> QED BY <1>1, <2>2, <2>4, <2>5 DEF Good, Same, Exists
<1> QED
  BY <1>1, <1>9, <1>10, <1>11, <1>12, <1>13, <1>14, <1>15, <1>16, <1>17, <1>19, <1>20, <1>21,
     <1>22, <1>23 DEF Request, CancelOrDelete, Locked, Start, ConfirmGet, ConfirmRejected, ConfirmSave, UndoSave,
     Reset, StartSave, StartCreate, StartFailGet, StartFailWrite, AtCall, RestartStages

\* Where the work is after a step that leaves alone the tasks' attempts, copies
\* and whether they run.
SameWork(s) ==
    /\ DOMAIN s \subseteq DOMAIN tasks
    /\ \A t \in DOMAIN s : /\ s[t].attempt = tasks[t].attempt /\ s[t].seen = tasks[t].seen
                           /\ s[t].run = tasks[t].run

LEMMA TaskStepKeepsSlot ==
    ASSUME NEW t \in DOMAIN tasks, Pipeline(t) \/ Supervisor(t)
    PROVE  slot' = slot
<1>1. CASE Pipeline(t)
  BY <1>1 DEF Pipeline, RunBegin, RunStage, RunExecutes, RunCompletes, RunRaises, RunFenced,
              RunFailGet, RunFailWrite, RunCancelled, RunCancelGet, RunCancelWrite
<1>2. CASE Supervisor(t)
  BY <1>2 DEF Supervisor, SupervisorBegin, SupervisorWakes, CommitGet, CommitWrite, GraceEnds,
              GraceExpires, SupervisorCancelled
<1> QED BY <1>1, <1>2

LEMMA TaskStepsKeepWork ==
    ASSUME TypeOK, WorkInv, FirstRunsUnsupervised, CancelsAreAwaited,
           NEW t \in DOMAIN tasks, Pipeline(t) \/ Supervisor(t)
    PROVE  WorkInv'
<1>1. NoFixes /\ LiveInSlot /\ HasWork
  BY DEF WorkInv
<1>2. /\ call' = call /\ process' = process /\ slot' = slot
      /\ DOMAIN tasks' = DOMAIN tasks /\ \A u \in DOMAIN tasks \ {t} : tasks'[u] = tasks[u]
      /\ tasks'[t].attempt = tasks[t].attempt
  BY TaskStepShape, TaskStepKeepsSlot, TaskStepChangesOneTask
<1>3. /\ FixFree(row') /\ FixFree(tasks'[t].seen) /\ (Exists' => Exists)
      /\ tasks[t].run \notin Ended
      /\ \/ tasks'[t].run \notin Ended
         \/ row'.status \in Terminal \cup {"deleted"}
         \/ process # "up" \/ \E c \in Calls : call[c].stage = "cancelAwait"
  BY <1>1, FirstRunSteps
<1>4. NoFixes'
  BY <1>1, <1>2, <1>3 DEF NoFixes
<1>5. LiveInSlot'
  BY <1>1, <1>2, <1>3 DEF LiveInSlot
<1>6. HasWork'
  <2> SUFFICES ASSUME process = "up", row'.status \notin Terminal \cup {"deleted"}
               PROVE  Live(slot)' \/ \E c \in Calls : call[c].stage \in WorkStages
    BY <1>2 DEF HasWork
  <2>1. CASE tasks'[t].run \notin Ended
    <3>1. Exists
      BY <1>3 DEF Exists
    <3>2. t = slot
      BY <1>1, <1>3, <3>1 DEF LiveInSlot
    <3>3. t # 0
      BY TasksAreFunctions DEF TypeOK
    <3>4. tasks'[t].attempt = 0
      BY <1>1, <1>2 DEF NoFixes
    <3> QED BY <1>2, <2>1, <3>2, <3>3, <3>4 DEF Live
  <2> QED BY <1>3, <2>1 DEF WorkStages
<1> QED BY <1>4, <1>5, <1>6 DEF WorkInv

LEMMA RequestsKeepWork ==
    ASSUME TypeInv, WorkInv, SavedIsOver, NEW c \in Calls, Request(c)
    PROVE  WorkInv'
<1>1. NoFixes /\ LiveInSlot /\ HasWork /\ TypeOK /\ RequestsFit
  BY DEF WorkInv, TypeInv
<1>2. /\ FixFree(row') /\ FixFree(call'[c].saw) /\ call'[c].stage \notin RestartStages
      /\ call'[c].op # "confirm" /\ (Exists' => Exists)
      /\ \/ tasks' = tasks /\ (slot' = slot \/ row'.status = "deleted")
         \/ tasks' = CancelTask(slot) /\ slot' = slot /\ Live(slot)
         \/ CreateTask(c, 0) /\ ~Live(slot) /\ row' = row
      /\ \/ row'.status \in Terminal \cup {"deleted"} \/ call'[c].stage \in WorkStages
         \/ row' = row /\ (call[c].stage \notin WorkStages \/ Live(slot)')
  BY <1>1, FixFreeRequests
<1>3. process' = process /\ \A d \in Calls \ {c} : call'[d] = call[d]
  <2>1. call \in [Calls -> Call]
    BY <1>1 DEF TypeOK
  <2>2. EndCall(c) => \A d \in Calls \ {c} : call'[d] = call[d]
    BY <2>1 DEF EndCall
  <2> QED BY <1>1, <2>2, RequestShape DEF MovesOn, TakesLock
<1>4. \A d \in Calls : /\ FixFree(call'[d].saw)
                       /\ call'[d].op # "confirm" /\ call'[d].stage \notin RestartStages
  BY <1>1, <1>2, <1>3 DEF NoFixes
<1> DEFINE Works == Live(slot) /\ row'.status # "deleted" => Live(slot)'
           Copies == \A t \in DOMAIN tasks' : tasks'[t].attempt = 0 /\ FixFree(tasks'[t].seen)
           Tasks == Copies /\ LiveInSlot' /\ Works
<1>5. ASSUME tasks' = tasks /\ (slot' = slot \/ row'.status = "deleted") PROVE Tasks
  <2>1. LiveInSlot'
    BY <1>1, <1>2, <1>5 DEF LiveInSlot, Exists
  <2>2. Works
    BY <1>5 DEF Live
  <2>3. Copies
    BY <1>1, <1>5 DEF NoFixes
  <2> HIDE DEF Copies, Works
  <2> QED BY <2>1, <2>2, <2>3
<1>6. ASSUME tasks' = CancelTask(slot) /\ slot' = slot /\ Live(slot) PROVE Tasks
  <2>1. slot \in DOMAIN tasks
    BY <1>1, <1>6, TasksAreFunctions DEF Live, TypeOK
  <2>2. SameWork(tasks') /\ DOMAIN tasks' = DOMAIN tasks
    BY <1>1, <1>6, <2>1, TasksAreFunctions DEF CancelTask, SameWork, Task, TypeOK
  <2>3. LiveInSlot'
    BY <1>1, <1>2, <1>6, <2>2 DEF LiveInSlot, SameWork
  <2>4. Works
    <3>1. tasks[slot].attempt = 0 /\ tasks[slot].run \notin Ended /\ slot # 0
      BY <1>1, <1>6, <2>1 DEF Live, NoFixes
    <3>2. tasks'[slot].attempt = 0 /\ tasks'[slot].run \notin Ended
      BY <2>1, <2>2, <3>1 DEF SameWork
    <3> QED BY <1>6, <3>1, <3>2 DEF Live
  <2>5. Copies
    BY <1>1, <2>2 DEF NoFixes, SameWork
  <2> HIDE DEF Copies, Works
  <2> QED BY <2>3, <2>4, <2>5
<1>7. ASSUME CreateTask(c, 0) /\ ~Live(slot) /\ row' = row PROVE Tasks
  <2>1. /\ DOMAIN tasks \subseteq DOMAIN tasks' /\ slot' \in DOMAIN tasks'
        /\ \A t \in DOMAIN tasks : tasks'[t] = tasks[t]
        /\ \A t \in DOMAIN tasks' : t \in DOMAIN tasks \/ tasks'[t] = NewTask(0)
    <3>1. 0 \in Nat
      OBVIOUS
    <3> QED BY <1>1, <1>7, <3>1, CreatedTasks
  <2>2. NewTask(0).attempt = 0 /\ FixFree(NewTask(0).seen)
    BY DEF NewTask, NoRow, FixFree
  <2>3. \A t \in DOMAIN tasks : Exists => tasks[t].run \in Ended
    <3> SUFFICES ASSUME NEW t \in DOMAIN tasks, Exists, tasks[t].run \notin Ended PROVE FALSE
      OBVIOUS
    <3>1. t = slot
      BY <1>1 DEF LiveInSlot
    <3>2. t # 0 /\ tasks[t].attempt = 0
      BY <1>1, TasksAreFunctions DEF NoFixes, TypeOK
    <3> QED BY <1>7, <3>1, <3>2 DEF Live
  <2>4. \A t \in DOMAIN tasks' : t \in DOMAIN tasks \/ t = slot'
    <3>1. Len(tasks) \in Nat /\ DOMAIN tasks = 1..Len(tasks) /\ tasks \in Seq(Task)
      BY <1>1, TasksAreFunctions DEF TypeOK
    <3>2. NewTask(0) \in Task
      BY NoRowType DEF NewTask, Task, SupervisorStages, PipelineStages
    <3>3. tasks' \in Seq(Task) /\ Len(tasks') = Len(tasks) + 1 /\ slot' = Len(tasks) + 1
      BY <1>7, <3>1, <3>2, AppendProperties DEF CreateTask
    <3>4. DOMAIN tasks' = 1..(Len(tasks) + 1)
      BY <3>3, LenProperties
    <3> QED BY <3>1, <3>3, <3>4
  <2>5. LiveInSlot'
    BY <1>2, <2>1, <2>3, <2>4 DEF LiveInSlot
  <2>6. Works
    BY <1>7
  <2>7. Copies
    BY <1>1, <2>1, <2>2 DEF NoFixes
  <2> HIDE DEF Copies, Works
  <2> QED BY <2>5, <2>6, <2>7
<1>8. Copies /\ LiveInSlot' /\ Works
  <2> HIDE DEF Copies, Works
  <2> QED BY <1>2, <1>5, <1>6, <1>7
<1>9. NoFixes'
  BY <1>2, <1>4, <1>8 DEF NoFixes
<1>10. HasWork'
  <2> SUFFICES ASSUME process = "up", row'.status \notin Terminal \cup {"deleted"}
               PROVE  Live(slot)' \/ \E d \in Calls : call'[d].stage \in WorkStages
    BY <1>3 DEF HasWork
  <2>1. CASE call'[c].stage \in WorkStages
    BY <2>1
  <2>2. CASE row' = row /\ (call[c].stage \notin WorkStages \/ Live(slot)')
    <3>1. Live(slot) \/ \E d \in Calls : call[d].stage \in WorkStages
      BY <1>1, <2>2 DEF HasWork
    <3>2. Live(slot) => Live(slot)'
      BY <1>8
    <3>3. ASSUME NEW d \in Calls, call[d].stage \in WorkStages, ~Live(slot)'
          PROVE  call'[d].stage \in WorkStages
      BY <1>3, <2>2, <3>3
    <3> HIDE DEF Works, Tasks
    <3> QED BY <3>1, <3>2, <3>3
  <2> QED BY <1>2, <2>1, <2>2
<1> QED BY <1>8, <1>9, <1>10 DEF WorkInv

\* The environment: recover() starts a review that is not over.
LEMMA EnvironmentKeepsWork ==
    ASSUME TypeOK, DownForgets, DownIdle, WorkInv, Environment
    PROVE  WorkInv'
<1>1. NoFixes /\ LiveInSlot /\ HasWork /\ call \in [Calls -> Call]
  BY DEF WorkInv, TypeOK
<1>2. FixFree(NoRow) /\ NoRow.status = "deleted"
  BY DEF NoRow, FixFree
<1>3. Idle.op = "idle" /\ Idle.stage = "idle" /\ FixFree(Idle.saw)
  BY <1>2 DEF Idle
<1>4. CASE Preview \/ DeadlinePasses
  <2>1. UNCHANGED <<row, tasks, slot, call, process>>
    BY <1>4 DEF Preview, DeadlinePasses, rowVars, memVars, envVars
  <2> QED BY <1>1, <2>1 DEF WorkInv, NoFixes, LiveInSlot, HasWork, Exists, Live
<1>5. CASE OwnerDeleted
  <2>1. UNCHANGED <<tasks, slot, call, process>> /\ row' = NoRow
    BY <1>5 DEF OwnerDeleted, memVars, envVars
  <2> QED BY <1>1, <1>2, <2>1 DEF WorkInv, NoFixes, LiveInSlot, HasWork, Exists
<1>6. CASE Shutdown
  <2>1. UNCHANGED <<row, slot, call>> /\ process' = "stopping"
    BY <1>6 DEF Shutdown, rowVars
  <2> DEFINE slotCancelled == IF Live(slot) THEN CancelTask(slot) ELSE tasks
             Kept(s) == s \in [1..Len(tasks) -> Task] /\ SameWork(s)
  <2>2. tasks \in [1..Len(tasks) -> Task] /\ DOMAIN tasks = 1..Len(tasks)
    BY TasksAreFunctions DEF TypeOK
  <2>3. Kept(slotCancelled)
    <3>1. CASE Live(slot)
      <4>1. slot \in 1..Len(tasks)
        BY <3>1 DEF Live, TypeOK
      <4>2. SameWork(CancelTask(slot))
        BY <2>2, <4>1 DEF CancelTask, SameWork, Task
      <4>3. CancelTask(slot) \in [1..Len(tasks) -> Task]
        BY <4>1, CancelTaskType
      <4> QED BY <3>1, <4>2, <4>3
    <3>2. CASE ~Live(slot)
      BY <2>2, <3>2 DEF SameWork
    <3> QED BY <3>1, <3>2
  <2>4. ASSUME NEW s, Kept(s), orphan # 0 PROVE Kept([s EXCEPT ![orphan].stop = TRUE])
    <3>1. DOMAIN s = 1..Len(tasks) /\ orphan \in 1..Len(tasks)
      BY <2>4 DEF TypeOK
    <3>2. [s EXCEPT ![orphan].stop = TRUE] \in [1..Len(tasks) -> Task]
      BY <2>4, <3>1 DEF Task
    <3>3. \A t \in 1..Len(tasks) :
             /\ [s EXCEPT ![orphan].stop = TRUE][t].attempt = s[t].attempt
             /\ [s EXCEPT ![orphan].stop = TRUE][t].seen = s[t].seen
             /\ [s EXCEPT ![orphan].stop = TRUE][t].run = s[t].run
      BY <2>4, <3>1 DEF Task
    <3> QED BY <2>2, <2>4, <3>1, <3>2, <3>3 DEF SameWork
  <2>5. Kept(tasks')
    <3> HIDE DEF Kept
    <3> QED BY <1>6, <2>3, <2>4 DEF Shutdown
  <2> QED BY <1>1, <2>1, <2>5 DEF WorkInv, NoFixes, LiveInSlot, HasWork, Exists, SameWork
<1>7. CASE Exit
  <2>1. tasks' = <<>> /\ row' = row /\ process' = "down" /\ \A c \in Calls : call'[c] = Idle
    BY <1>7 DEF Exit, ForgetMemory, rowVars
  <2>2. DOMAIN tasks' = {}
    BY <2>1
  <2> QED BY <1>1, <1>3, <2>1, <2>2 DEF WorkInv, NoFixes, LiveInSlot, HasWork, RestartStages
<1>8. CASE Restart
  <2>1. tasks' = <<>> /\ row' = row
    BY <1>8 DEF Restart, rowVars, memVars, DownForgets
  <2>2. DOMAIN tasks' = {}
    BY <2>1
  <2>3. LiveInSlot'
    BY <2>2 DEF LiveInSlot
  <2>4. CASE row.status \in Terminal \cup {"deleted"}
    <3>1. call' = call
      BY <1>8, <2>4 DEF Restart
    <3> QED BY <1>1, <2>1, <2>2, <2>3, <2>4, <3>1 DEF WorkInv, NoFixes, HasWork
  <2>5. CASE row.status \notin Terminal \cup {"deleted"}
    <3>1. PICK c \in Calls : call' = [call EXCEPT ![c] = NewCall("recover", "startGet", "none", "none")]
      BY <1>8, <2>5 DEF Restart
    <3>2. /\ call'[c].op = "recover" /\ call'[c].stage = "startGet" /\ call'[c].saw = NoRow
          /\ \A d \in Calls \ {c} : call'[d] = call[d]
      BY <1>1, <3>1 DEF NewCall
    <3>3. NoFixes'
      BY <1>1, <1>2, <2>1, <2>2, <3>2 DEF NoFixes, RestartStages
    <3>4. HasWork'
      BY <3>2 DEF HasWork, WorkStages
    <3> QED BY <2>3, <3>3, <3>4 DEF WorkInv
  <2> QED BY <2>4, <2>5
<1> QED BY <1>4, <1>5, <1>6, <1>7, <1>8 DEF Environment

LEMMA WorkInvariant ==
    ASSUME "confirm" \notin Ops
    PROVE  Spec => []WorkInv
<1>1. Init => WorkInv
  <2> SUFFICES ASSUME Init PROVE WorkInv
    OBVIOUS
  <2>1. row = FirstRow /\ tasks = <<>>
    BY DEF Init
  <2>2. FixFree(row) /\ DOMAIN tasks = {}
    BY <2>1 DEF FirstRow, NoRow, FixFree
  <2>3. PICK c \in Calls :
          call = [d \in Calls |->
                    IF d = c THEN NewCall("create", "startGet", "none", "none") ELSE Idle]
    BY DEF Init
  <2>4. \A d \in Calls : /\ FixFree(call[d].saw) /\ call[d].op \in {"create", "idle"}
                         /\ call[d].stage \in {"startGet", "idle"}
    BY <2>3 DEF NewCall, Idle, NoRow, FixFree
  <2>5. call[c].stage = "startGet"
    BY <2>3 DEF NewCall
  <2> QED BY <2>2, <2>4, <2>5 DEF WorkInv, NoFixes, LiveInSlot, HasWork, RestartStages, WorkStages
<1>2. TypeInv /\ SavedIsOver /\ ShutdownInv /\ DownIdle /\ WorkInv /\ [Next]_vars => WorkInv'
  <2> SUFFICES ASSUME TypeInv, SavedIsOver, ShutdownInv, DownIdle, WorkInv, [Next]_vars
               PROVE  WorkInv'
    OBVIOUS
  <2>1. TypeOK /\ CancelsAreAwaited /\ FirstRunsUnsupervised /\ DownForgets
    BY DEF TypeInv, ShutdownInv
  <2>2. CASE TaskStep
    BY <2>1, <2>2, TaskStepsKeepWork DEF TaskStep
  <2>3. ASSUME NEW c \in Calls, Request(c) PROVE WorkInv'
    BY <2>3, RequestsKeepWork
  <2>4. ASSUME NEW c \in Calls, BeginCall(c) PROVE WorkInv'
    <3>1. NoFixes /\ LiveInSlot /\ HasWork /\ call \in [Calls -> Call]
      BY <2>1 DEF WorkInv, TypeOK
    <3>2. PICK op \in Ops \ {"preview", "deleteUser"}, f \in Findings \cup {"none"},
               d \in {"kept", "deferred", "none"} :
             call' = [call EXCEPT ![c] = NewCall(op, FirstStage(op), f, d)]
      BY <2>4 DEF BeginCall
    <3>3. op # "confirm"
      OBVIOUS
    <3>4. /\ call'[c].op = op /\ call'[c].saw = NoRow
          /\ \A e \in Calls \ {c} : call'[e] = call[e]
      BY <3>1, <3>2 DEF NewCall
    <3>5. call'[c].stage \in {"cancelGet", "undoGet", "lock"} /\ call[c] = Idle
      BY <2>1, <2>4, BeginCallShape
    <3>6. UNCHANGED <<row, tasks, slot, process>>
      BY <2>4 DEF BeginCall, rowVars, memVars
    <3>7. NoFixes'
      <4>1. FixFree(NoRow)
        BY DEF FixFree, NoRow
      <4> QED BY <3>1, <3>3, <3>4, <3>5, <3>6, <4>1 DEF NoFixes, RestartStages
    <3>8. HasWork'
      <4>1. call[c].stage \notin WorkStages
        BY <3>5 DEF Idle, WorkStages
      <4> QED BY <3>1, <3>4, <3>6, <4>1 DEF HasWork, Live
    <3> QED BY <3>1, <3>6, <3>7, <3>8 DEF WorkInv, LiveInSlot, Exists
  <2>5. CASE Environment
    BY <2>1, <2>5, EnvironmentKeepsWork
  <2>6. CASE UNCHANGED vars
    <3>1. UNCHANGED <<row, tasks, slot, call, process>>
      BY <2>6 DEF vars, rowVars, memVars, envVars
    <3> QED BY <3>1 DEF WorkInv, NoFixes, LiveInSlot, HasWork, Exists, Live
  <2> QED BY <2>2, <2>3, <2>4, <2>5, <2>6 DEF Next
<1>3. AttemptInv => SavedIsOver
  BY DEF AttemptInv
<1> QED BY <1>1, <1>2, <1>3, LifecycleTypeInvariant, AttemptInvariant, ShutdownInvariant,
        NobodyIsServedDown, PTL DEF Spec

\* As long as nobody confirms a fix, no interleaving of cancel, delete, resume,
\* decisions, undo, deletion of the owner, shutdown, crash and recovery leaves a
\* review that is not over without the task that works on it, however many requests
\* are sent.
THEOREM ReviewsWithoutFixesAreWorkedOn ==
    ASSUME "confirm" \notin Ops
    PROVE  Spec => []NonTerminalReviewHasTask
<1>1. WorkInv => NonTerminalReviewHasTask
  BY DEF WorkInv, HasWork, NonTerminalReviewHasTask, WorkStages, Idle
<1>2. Spec => []WorkInv
  BY WorkInvariant
<1> QED BY <1>1, <1>2, PTL

=============================================================================

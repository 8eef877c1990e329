------------------------------ MODULE ChunkReview ------------------------------
(***************************************************************************)
(* The chunks of one review while HybridReviewService.run works through    *)
(* them with ChunkReviewService: batches of chunks executed concurrently,  *)
(* two strategies per chunk, splitting, aggregation, and what a crash, a   *)
(* failure, a resume or a recheck makes of half finished work.             *)
(*                                                                         *)
(* One file is reviewed.  A store call is one step; a chunk is its range   *)
(* of lines and its status, and its findings are either saved or not.      *)
(***************************************************************************)
EXTENDS Naturals, Sequences, FiniteSets

CONSTANTS
    Plan,            \* the planner's chunks: a sequence of ranges [from, to]; the
                     \* chunkers work by rows, so two ranges may share a line
    Blank,           \* the empty lines of the file
    MaxSplitDepth,   \* max_chunk_split_depth
    BatchLimit,      \* review_queue_limit
    MaxStops,        \* bound: crashes, timeouts and rechecks
    MaxResumes       \* bound: resumes

ASSUME ChunkAssumption ==
    /\ Plan \in Seq([from : Nat, to : Nat])
    /\ \A k \in DOMAIN Plan : Plan[k].from <= Plan[k].to
    /\ Blank \subseteq Nat
    /\ MaxSplitDepth \in Nat /\ BatchLimit \in Nat \ {0}
    /\ MaxStops \in Nat /\ MaxResumes \in Nat

VARIABLES
    status,     \* status of the review
    chunks,     \* review_chunks: a function from chunk ids to chunks
    findings,   \* ids of the chunks that have rows in review_findings
    run,        \* where the pipeline is
    workers,    \* the executions of the current batch
    stops, resumes

vars == <<status, chunks, findings, run, workers, stops, resumes>>

ChunkStatus == {"pending", "running", "validating", "completed", "failed", "superseded"}
Unfinished == {"running", "validating"}   \* "queued" is never written
Strategies == 2                           \* original, trim_context
WorkerStages == {"start", "asking", "validating", "saving", "completing", "giveUp", "done"}

NoChunks == [c \in {} |-> {}]
Leaves == {c \in DOMAIN chunks : chunks[c].status # "superseded"}
WithStatus(s) == {c \in DOMAIN chunks : chunks[c].status = s}
Covers(c) == chunks[c].from..chunks[c].to

Init ==
    /\ status = "queued" /\ chunks = NoChunks /\ findings = {}
    /\ run = "load" /\ workers = NoChunks
    /\ stops = 0 /\ resumes = 0

-----------------------------------------------------------------------------
(* run(): load or plan, then batch after batch, then aggregate.             *)

\* plan: ids are sequences, <<k>> for the k-th range of the plan.
Planned ==
    [id \in {<<k>> : k \in DOMAIN Plan} |->
        [from |-> Plan[id[1]].from, to |-> Plan[id[1]].to, depth |-> 0, status |-> "pending"]]

\* Chunks left by an earlier run are used as they are.
Load ==
    /\ run = "load"
    /\ chunks' = IF chunks = NoChunks THEN Planned ELSE chunks
    /\ status' = "reviewing"
    /\ run' = "batch"
    /\ UNCHANGED <<findings, workers, stops, resumes>>

\* Seeded mistake: one batch is the whole review.
BatchEndsTheLoop ==
    /\ run = "executing"
    /\ \A c \in DOMAIN workers : workers[c].stage = "done"
    /\ workers' = NoChunks
    /\ run' = "aggregate"
    /\ UNCHANGED <<status, chunks, findings, stops, resumes>>

\* The first review_queue_limit pending chunks are executed; which ones these
\* are is left open.
NextBatch ==
    /\ run = "batch"
    /\ LET pending == WithStatus("pending") IN
       IF pending = {}
       THEN run' = "aggregate" /\ UNCHANGED workers
       ELSE \E batch \in SUBSET pending :
               /\ Cardinality(batch) =
                     IF Cardinality(pending) < BatchLimit THEN Cardinality(pending) ELSE BatchLimit
               /\ workers' = [c \in batch |-> [stage |-> "start", strategy |-> 1]]
               /\ run' = "executing"
    /\ UNCHANGED <<status, chunks, findings, stops, resumes>>

BatchEnds ==
    /\ run = "executing"
    /\ \A c \in DOMAIN workers : workers[c].stage = "done"
    /\ workers' = NoChunks
    /\ run' = "batch"
    /\ UNCHANGED <<status, chunks, findings, stops, resumes>>

\* aggregate raises unless every leaf is completed and every line is covered.
FileLines == UNION {Plan[k].from..Plan[k].to : k \in DOMAIN Plan}

Aggregate ==
    /\ run = "aggregate"
    /\ status' = IF /\ Leaves \subseteq WithStatus("completed")
                    /\ FileLines \subseteq UNION {Covers(c) : c \in Leaves}
                 THEN "completed" ELSE "failed"
    /\ run' = "none"
    /\ UNCHANGED <<chunks, findings, workers, stops, resumes>>

-----------------------------------------------------------------------------
(* execute() of one chunk.                                                  *)

At(c, stage) == c \in DOMAIN workers /\ workers[c].stage = stage
Go(c, stage) == workers' = [workers EXCEPT ![c].stage = stage]
Store(c, s) == chunks' = [chunks EXCEPT ![c].status = s]

StartAttempt(c) ==
    /\ At(c, "start")
    /\ Store(c, "running")
    /\ Go(c, "asking")
    /\ UNCHANGED <<status, findings, run, stops, resumes>>

\* Seeded mistake: the chunk is completed before its findings are saved.
ModelAnswersUnsaved(c) ==
    /\ At(c, "asking")
    /\ Store(c, "validating")
    /\ Go(c, "completing")
    /\ UNCHANGED <<status, findings, run, stops, resumes>>

ModelAnswers(c) ==
    /\ At(c, "asking")
    /\ Store(c, "validating")
    /\ Go(c, "saving")
    /\ UNCHANGED <<status, findings, run, stops, resumes>>

SaveFindings(c) ==
    /\ At(c, "saving")
    /\ findings' = findings \cup {c}
    /\ Go(c, "completing")
    /\ UNCHANGED <<status, chunks, run, stops, resumes>>

Complete(c) ==
    /\ At(c, "completing")
    /\ Store(c, "completed")
    /\ Go(c, "done")
    /\ UNCHANGED <<status, findings, run, stops, resumes>>

\* Seeded mistake: a failed attempt is repeated with the same strategy.
AttemptFailsForEver(c) ==
    /\ At(c, "asking") \/ At(c, "saving")
    /\ Go(c, "start")
    /\ UNCHANGED <<status, chunks, findings, run, stops, resumes>>

\* The model call, or the validation of its answer, raises.
AttemptFails(c) ==
    /\ At(c, "asking") \/ At(c, "saving")
    /\ workers' = [workers EXCEPT
                     ![c] = IF @.strategy < Strategies
                            THEN [stage |-> "start", strategy |-> @.strategy + 1]
                            ELSE [@ EXCEPT !.stage = "giveUp"]]
    /\ UNCHANGED <<status, chunks, findings, run, stops, resumes>>

\* split: two halves of the lines of target_code, which has lost the empty lines
\* at the end of the range; nothing for a chunk of fewer than two lines.
Text(c) == {line \in Covers(c) : \E l \in Covers(c) \ Blank : line <= l}
Size(c) == Cardinality(Text(c))
Middle(c) == chunks[c].from + (Size(c) \div 2)

\* Seeded mistake: the halves share a line.
ChildrenOverlap(c) ==
    [id \in {Append(c, 1), Append(c, 2)} |->
        [from |-> IF id = Append(c, 1) THEN chunks[c].from ELSE Middle(c),
         to |-> IF id = Append(c, 1) THEN Middle(c) ELSE chunks[c].to,
         depth |-> chunks[c].depth + 1,
         status |-> "pending"]]

Children(c) ==
    [id \in {Append(c, 1), Append(c, 2)} |->
        [from |-> IF id = Append(c, 1) THEN chunks[c].from ELSE Middle(c),
         to |-> IF id = Append(c, 1) THEN Middle(c) - 1 ELSE chunks[c].to,
         depth |-> chunks[c].depth + 1,
         status |-> "pending"]]

CanSplit(c) == chunks[c].depth < MaxSplitDepth /\ Size(c) >= 2

\* replace_chunk stores the superseded parent and its children at once.
Split(c) ==
    /\ At(c, "giveUp") /\ CanSplit(c)
    /\ LET children == Children(c) IN
       chunks' = [id \in DOMAIN chunks \cup DOMAIN children |->
                    IF id \in DOMAIN children THEN children[id]
                    ELSE IF id = c THEN [chunks[c] EXCEPT !.status = "superseded"]
                    ELSE chunks[id]]
    /\ Go(c, "done")
    /\ UNCHANGED <<status, findings, run, stops, resumes>>

Fail(c) ==
    /\ At(c, "giveUp") /\ ~CanSplit(c)
    /\ Store(c, "failed")
    /\ Go(c, "done")
    /\ UNCHANGED <<status, findings, run, stops, resumes>>

Execute(c) ==
    \/ StartAttempt(c) \/ ModelAnswers(c) \/ SaveFindings(c) \/ Complete(c)
    \/ AttemptFails(c) \/ Split(c) \/ Fail(c)

-----------------------------------------------------------------------------
(* What ends a run early, and what starts another.                          *)

Reset(these) ==
    chunks' = [c \in DOMAIN chunks |->
                 IF chunks[c].status \in these THEN [chunks[c] EXCEPT !.status = "pending"]
                 ELSE chunks[c]]

\* Seeded mistake: chunks whose answer was being validated are not recovered.
RecoverRunningOnly ==
    /\ run # "none" /\ stops < MaxStops
    /\ stops' = stops + 1
    /\ workers' = NoChunks
    /\ Reset({"running"})
    /\ run' = "load"
    /\ UNCHANGED <<status, findings, resumes>>

\* The process ends, gracefully or not, and the workers vanish.  At the next
\* start recoverable_reviews makes interrupted chunks pending again, unless the
\* crash caught a resume before it had saved the review.
CrashAndRecover ==
    /\ run # "none" /\ stops < MaxStops
    /\ stops' = stops + 1
    /\ workers' = NoChunks
    /\ IF status = "failed"
       THEN run' = "none" /\ UNCHANGED chunks
       ELSE run' = "load" /\ Reset(Unfinished)
    /\ UNCHANGED <<status, findings, resumes>>

\* The batch timeout of a recheck cancels the running executions where they are; an
\* exception of the loop between two batches finds none.  (An exception out of one
\* execution, when the store refuses a write, would leave the others running.)
RunFails ==
    /\ run \notin {"none", "resuming"} /\ stops < MaxStops
    /\ stops' = stops + 1
    /\ workers' = NoChunks
    /\ run' = "none"
    /\ status' = "failed"
    /\ UNCHANGED <<chunks, findings, resumes>>

\* Seeded mistake: resume starts every chunk again.
ResumeChunksFromScratch ==
    /\ run = "none" /\ status = "failed" /\ resumes < MaxResumes
    /\ resumes' = resumes + 1
    /\ Reset(Unfinished \cup {"failed", "completed"})
    /\ run' = "resuming"
    /\ UNCHANGED <<status, findings, workers, stops>>

\* resume keeps what is completed and retries everything else: first it saves
\* the chunks, then the review.
ResumeChunks ==
    /\ run = "none" /\ status = "failed" /\ resumes < MaxResumes
    /\ resumes' = resumes + 1
    /\ Reset(Unfinished \cup {"failed"})
    /\ run' = "resuming"
    /\ UNCHANGED <<status, findings, workers, stops>>

ResumeReview ==
    /\ run = "resuming"
    /\ status' = "queued"
    /\ run' = "load"
    /\ UNCHANGED <<chunks, findings, workers, stops, resumes>>

\* reset_review clears the tables for a recheck of changed files.
Recheck ==
    /\ run = "none" /\ stops < MaxStops
    /\ stops' = stops + 1
    /\ chunks' = NoChunks /\ findings' = {}
    /\ status' = "queued"
    /\ run' = "load"
    /\ UNCHANGED <<workers, resumes>>

Pipeline ==
    \/ Load \/ NextBatch \/ BatchEnds \/ Aggregate \/ ResumeReview
    \/ \E c \in DOMAIN workers : Execute(c)

Next == Pipeline \/ CrashAndRecover \/ RunFails \/ ResumeChunks \/ Recheck

Spec == Init /\ [][Next]_vars

\* Every store call returns and the inference service always ends a call.
FairSpec == Spec /\ WF_vars(Pipeline)

-----------------------------------------------------------------------------
Chunk == [from : Nat, to : Nat, depth : 0..MaxSplitDepth, status : ChunkStatus]

TypeOK ==
    /\ status \in {"queued", "reviewing", "completed", "failed"}
    /\ chunks \in [DOMAIN chunks -> Chunk]
    /\ findings \subseteq DOMAIN chunks
    /\ run \in {"none", "resuming", "load", "batch", "executing", "aggregate"}
    /\ workers \in [DOMAIN workers -> [stage : WorkerStages, strategy : 1..Strategies]]
    /\ stops \in 0..MaxStops /\ resumes \in 0..MaxResumes

\* Through splits, crashes and resumes the leaves that descend from a planned chunk
\* partition its range: splitting loses no line of the plan and repeats none.  (Two
\* planned chunks may share a line, which is then reviewed with each of them.)
LeavesPartitionPlan ==
    chunks # NoChunks =>
        \A k \in DOMAIN Plan, line \in FileLines :
            Cardinality({c \in Leaves : c[1] = k /\ line \in Covers(c)}) =
               IF line \in Plan[k].from..Plan[k].to THEN 1 ELSE 0

\* A completed chunk is reviewed again only after the tables were cleared.
CompletedChunkIsKept ==
    [][\A c \in DOMAIN chunks :
          chunks[c].status = "completed" =>
             \/ c \in DOMAIN chunks' /\ chunks'[c] = chunks[c]
             \/ chunks' = NoChunks]_vars

\* A crash never leaves a chunk completed whose findings are not stored.
CompletedChunkHasFindings == WithStatus("completed") \subseteq findings

\* The loop stops only when every chunk is completed or has failed for good.
NoChunkForgotten ==
    run = "aggregate" => \A c \in Leaves : chunks[c].status \in {"completed", "failed"}

\* An interrupted chunk is worked on by somebody or waits for a resume: no
\* chunk stays "running" for nobody while the pipeline goes on.
RunningChunkHasWorker ==
    run # "none" => \A c \in DOMAIN chunks : chunks[c].status \in Unfinished => c \in DOMAIN workers

\* Splitting and retrying end, and so does the review.
RunEnds == status \in {"queued", "reviewing"} ~> status \in {"completed", "failed"}

=============================================================================

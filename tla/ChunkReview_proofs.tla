--------------------------- MODULE ChunkReview_proofs ---------------------------
(***************************************************************************)
(* ChunkReview: splitting loses no line of the plan and repeats none, and  *)
(* no chunk is completed without findings, for any plan (overlapping       *)
(* ranges included), empty lines, limits, splits and interruptions.        *)
(*                                                                         *)
(* ChunkInv adds to the properties what makes them inductive: the status   *)
(* of a chunk fits the stage of its worker, and the ids are a tree whose   *)
(* inner nodes are the superseded chunks, so that a split creates ids      *)
(* that are not in use.                                                    *)
(***************************************************************************)
EXTENDS ChunkReview, FiniteSetTheorems, SequenceTheorems, TLAPS

StatusFits(c) ==
    LET stage == workers[c].stage
        s == chunks[c].status
    IN /\ stage = "start" => s \in {"pending", "running", "validating"}
       /\ stage = "asking" => s = "running"
       /\ stage = "saving" => s = "validating"
       /\ stage = "completing" => s = "validating" /\ c \in findings
       /\ stage = "giveUp" => s \in Unfinished
       /\ stage = "done" => s \in {"completed", "failed", "superseded"}

WorkersFit ==
    /\ DOMAIN workers \subseteq DOMAIN chunks
    /\ run # "executing" => DOMAIN workers = {}
    /\ \A c \in DOMAIN workers : StatusFits(c)

NothingPendingInTheEnd == run = "aggregate" => WithStatus("pending") = {}

\* A chunk is created by the plan or by the split of the chunk its id extends.
Ids == Seq(Nat) \ {<<>>}
IdsAreATree ==
    /\ DOMAIN chunks \subseteq Ids
    /\ \A c \in Ids, k \in {1, 2} :
          Append(c, k) \in DOMAIN chunks => c \in DOMAIN chunks /\ chunks[c].status = "superseded"

\* The ranges of the leaves under a planned chunk are disjoint and make up its range.
Partition ==
    /\ \A c \in DOMAIN chunks : /\ chunks[c].from <= chunks[c].to
                                /\ c[1] \in DOMAIN Plan
                                /\ Covers(c) \subseteq Plan[c[1]].from..Plan[c[1]].to
    /\ DOMAIN chunks # {} =>
          \A k \in DOMAIN Plan : \A line \in Plan[k].from..Plan[k].to :
              \E c \in Leaves : c[1] = k /\ line \in Covers(c)
    /\ \A c, d \in Leaves : c # d /\ c[1] = d[1] => Covers(c) \cap Covers(d) = {}

ChunkInv ==
    /\ TypeOK /\ WorkersFit /\ NothingPendingInTheEnd /\ RunningChunkHasWorker
    /\ CompletedChunkHasFindings /\ IdsAreATree /\ Partition

-----------------------------------------------------------------------------
\* A step that changes no range, and makes no chunk superseded or the reverse,
\* keeps tree and partition.
LEMMA SameChunksKeep ==
    ASSUME ChunkInv, DOMAIN chunks' = DOMAIN chunks,
           \A c \in DOMAIN chunks : /\ chunks'[c].from = chunks[c].from
                                    /\ chunks'[c].to = chunks[c].to
                                    /\ chunks'[c].status = "superseded" <=> chunks[c].status = "superseded"
    PROVE  IdsAreATree' /\ Partition'
<1>1. Leaves' = Leaves
    BY DEF Leaves
<1>2. \A c \in DOMAIN chunks : Covers(c)' = Covers(c)
    BY DEF Covers
<1>3. Leaves \subseteq DOMAIN chunks
    BY DEF Leaves
<1>4. QED
    BY <1>1, <1>2, <1>3 DEF ChunkInv, IdsAreATree, Partition

\* What text is left of a chunk's range is not more than the range.
LEMMA SizeIsInRange ==
    ASSUME TypeOK, NEW c \in DOMAIN chunks, chunks[c].from <= chunks[c].to
    PROVE  Size(c) \in 0..(chunks[c].to - chunks[c].from + 1)
<1>1. chunks[c].from \in Nat /\ chunks[c].to \in Nat
    BY DEF TypeOK, Chunk
<1>2. /\ IsFiniteSet(Covers(c))
      /\ Cardinality(Covers(c)) = chunks[c].to - chunks[c].from + 1
    <2> DEFINE f == chunks[c].from
               t == chunks[c].to
    <2>1. f \in Int /\ t \in Int /\ ~(f > t) /\ Covers(c) = f..t
        BY <1>1 DEF Covers
    <2> HIDE DEF f, t
    <2>2. IsFiniteSet(f..t) /\ Cardinality(f..t) = t - f + 1
        BY <2>1, FS_Interval
    <2>3. QED
        BY <2>1, <2>2 DEF f, t
<1>3. Text(c) \in SUBSET Covers(c)
    BY DEF Text
<1>4. IsFiniteSet(Text(c)) /\ Cardinality(Text(c)) <= Cardinality(Covers(c))
    BY <1>2, <1>3, FS_Subset
<1>5. Cardinality(Text(c)) \in Nat
    BY <1>4, FS_CardinalityType
<1>6. QED
    BY <1>1, <1>2, <1>4, <1>5 DEF Size

\* The halves of a chunk that can be split are not empty and are the chunk.
LEMMA MiddleIsInside ==
    ASSUME TypeOK, NEW c \in DOMAIN chunks, chunks[c].from <= chunks[c].to, CanSplit(c)
    PROVE  /\ Middle(c) \in Nat
           /\ chunks[c].from < Middle(c) /\ Middle(c) <= chunks[c].to
<1> DEFINE f == chunks[c].from
           t == chunks[c].to
           n == Size(c)
<1>1. f \in Nat /\ t \in Nat
    BY DEF TypeOK, Chunk
<1>2. n \in Nat /\ n >= 2 /\ n <= t - f + 1
    BY <1>1, SizeIsInRange DEF CanSplit
<1>3. Middle(c) = f + (n \div 2)
    BY DEF Middle
<1> HIDE DEF f, t, n
<1>4. (n \div 2) \in Nat /\ 1 <= (n \div 2) /\ (n \div 2) <= n - 1
    BY <1>2
<1>5. /\ f + (n \div 2) \in Nat /\ f < f + (n \div 2) /\ f + (n \div 2) <= t
    BY <1>1, <1>2, <1>4
<1>6. QED
    BY <1>3, <1>5 DEF f, t

-----------------------------------------------------------------------------
(* Steps of one execution.                                                  *)

\* A worker changes the status of its own chunk only.
LEMMA StoreKeeps ==
    ASSUME ChunkInv, NEW c \in DOMAIN workers, NEW s \in ChunkStatus \ {"superseded", "pending"},
           NEW stage \in WorkerStages, chunks[c].status # "superseded", chunks[c].status # "completed",
           Store(c, s), Go(c, stage), UNCHANGED <<status, findings, run, stops, resumes>>,
           s = "completed" => c \in findings,
           /\ stage = "asking" => s = "running"
           /\ stage = "saving" => s = "validating"
           /\ stage = "done" => s \in {"completed", "failed"}
           /\ stage \in {"asking", "saving", "done"}
    PROVE  ChunkInv' /\ \A d \in DOMAIN chunks : chunks[d].status = "completed" =>
                                 d \in DOMAIN chunks' /\ chunks'[d] = chunks[d]
<1>1. c \in DOMAIN chunks /\ run = "executing"
    BY DEF ChunkInv, WorkersFit
<1>2. /\ DOMAIN chunks' = DOMAIN chunks
      /\ \A d \in DOMAIN chunks : d # c => chunks'[d] = chunks[d]
      /\ chunks'[c].from = chunks[c].from /\ chunks'[c].to = chunks[c].to
      /\ chunks'[c].status = s /\ chunks'[c] \in Chunk /\ \A d \in DOMAIN chunks : chunks'[d] \in Chunk
      /\ chunks' \in [DOMAIN chunks' -> Chunk]
    BY <1>1 DEF ChunkInv, TypeOK, Chunk, Store
<1>3. /\ DOMAIN workers' = DOMAIN workers
      /\ \A d \in DOMAIN workers : d # c => workers'[d] = workers[d]
      /\ workers'[c].stage = stage
      /\ workers' \in [DOMAIN workers' -> [stage : WorkerStages, strategy : 1..Strategies]]
    BY DEF ChunkInv, TypeOK, Go
<1>4. IdsAreATree' /\ Partition'
    BY <1>1, <1>2, SameChunksKeep
<1>5. TypeOK'
    BY <1>1, <1>2, <1>3 DEF ChunkInv, TypeOK
<1>6. WorkersFit'
    BY <1>1, <1>2, <1>3 DEF ChunkInv, WorkersFit, StatusFits
<1>7. NothingPendingInTheEnd' /\ RunningChunkHasWorker'
    BY <1>1, <1>2, <1>3 DEF ChunkInv, NothingPendingInTheEnd, RunningChunkHasWorker
<1>8. CompletedChunkHasFindings'
    BY <1>1, <1>2 DEF ChunkInv, CompletedChunkHasFindings, WithStatus
<1>9. QED
    BY <1>2, <1>4, <1>5, <1>6, <1>7, <1>8 DEF ChunkInv

\* A worker goes on without a change to its chunk.
LEMMA WorkerGoesOnKeeps ==
    ASSUME ChunkInv, NEW c \in DOMAIN workers, NEW w \in [stage : WorkerStages, strategy : 1..Strategies],
           workers' = [workers EXCEPT ![c] = w],
           UNCHANGED <<status, chunks, run, stops, resumes>>,
           findings' = findings \/ findings' = findings \cup {c},
           \/ w.stage \in {"start", "giveUp"} /\ chunks[c].status \in Unfinished
           \/ w.stage = "completing" /\ chunks[c].status = "validating" /\ c \in findings'
    PROVE  ChunkInv'
<1>1. c \in DOMAIN chunks /\ run = "executing"
    BY DEF ChunkInv, WorkersFit
<1>2. /\ DOMAIN workers' = DOMAIN workers
      /\ \A d \in DOMAIN workers : d # c => workers'[d] = workers[d]
      /\ workers'[c] = w
      /\ workers' \in [DOMAIN workers' -> [stage : WorkerStages, strategy : 1..Strategies]]
    BY DEF ChunkInv, TypeOK
<1>3. findings \subseteq findings' /\ findings' \subseteq DOMAIN chunks
    BY <1>1 DEF ChunkInv, TypeOK
<1>4. TypeOK'
    BY <1>2, <1>3 DEF ChunkInv, TypeOK
<1>5. WorkersFit'
    BY <1>1, <1>2, <1>3 DEF ChunkInv, WorkersFit, StatusFits, Unfinished
<1>6. NothingPendingInTheEnd' /\ RunningChunkHasWorker' /\ CompletedChunkHasFindings'
    BY <1>2, <1>3 DEF ChunkInv, NothingPendingInTheEnd, RunningChunkHasWorker, CompletedChunkHasFindings,
                      WithStatus
<1>7. IdsAreATree' /\ Partition'
    BY SameChunksKeep
<1>8. QED
    BY <1>4, <1>5, <1>6, <1>7 DEF ChunkInv

\* What is kept of a completed chunk: all of it.
CompletedKept ==
    \A d \in DOMAIN chunks :
        chunks[d].status = "completed" => d \in DOMAIN chunks' /\ chunks'[d] = chunks[d]

\* A split replaces a leaf by two leaves that are not in use and cover its lines.
LEMMA SplitKeeps ==
    ASSUME ChunkInv, NEW c \in DOMAIN workers, Split(c)
    PROVE  ChunkInv' /\ CompletedKept
<1> DEFINE one == Append(c, 1)
           two == Append(c, 2)
           m == Middle(c)
<1>1. /\ c \in DOMAIN chunks /\ run = "executing" /\ chunks[c].status \in Unfinished
      /\ c \in Ids /\ chunks[c] \in Chunk
      /\ workers[c].stage = "giveUp" /\ CanSplit(c)
      /\ UNCHANGED <<status, findings, run, stops, resumes>>
    BY DEF ChunkInv, TypeOK, WorkersFit, StatusFits, IdsAreATree, Split, At
<1>2. /\ one \in Ids /\ two \in Ids /\ one # two
      /\ \A d \in Ids, k \in {1, 2} :
            /\ Append(d, k) \in Ids
            /\ Append(d, k) = one => d = c
            /\ Append(d, k) = two => d = c
      /\ one[1] = c[1] /\ two[1] = c[1]
    <2>1. ASSUME NEW d \in Ids, NEW k \in {1, 2}
          PROVE  /\ Append(d, k) \in Ids
                 /\ \A j \in {1, 2} : Append(d, k) = Append(c, j) => d = c /\ k = j
        <3>1. d \in Seq(Nat) /\ c \in Seq(Nat) /\ k \in Nat
            BY <1>1 DEF Ids
        <3>2. Append(d, k) \in Seq(Nat) /\ Append(d, k) # <<>>
            BY <3>1, AppendProperties
        <3>3. \A j \in Nat : Append(d, k) = Append(c, j) <=> d = c /\ k = j
            BY <3>1, AppendInjective
        <3>4. QED
            BY <3>2, <3>3 DEF Ids
    <2>2. \A k \in Nat : Append(c, k)[1] = c[1]
        <3>1. c \in Seq(Nat) /\ Len(c) \in Nat /\ Len(c) # 0
            BY <1>1, EmptySeq, LenProperties DEF Ids
        <3>2. 1 \in 1..Len(c)
            BY <3>1
        <3>3. QED
            BY <3>1, <3>2, AppendProperties
    <2>3. QED
        BY <1>1, <2>1, <2>2
<1>3. one \notin DOMAIN chunks /\ two \notin DOMAIN chunks /\ c # one /\ c # two
    BY <1>1 DEF ChunkInv, IdsAreATree, Unfinished
<1>4. m \in Nat /\ chunks[c].from < m /\ m <= chunks[c].to
    BY <1>1, MiddleIsInside DEF ChunkInv, Partition
<1> DEFINE first == [from |-> chunks[c].from, to |-> m - 1, depth |-> chunks[c].depth + 1, status |-> "pending"]
           second == [from |-> m, to |-> chunks[c].to, depth |-> chunks[c].depth + 1, status |-> "pending"]
           old == [chunks[c] EXCEPT !.status = "superseded"]
<1>5. /\ DOMAIN Children(c) = {one, two}
      /\ Children(c)[one] = first /\ Children(c)[two] = second
    BY <1>2 DEF Children
<1>6. /\ chunks' = [id \in DOMAIN chunks \cup {one, two} |->
                      IF id \in {one, two} THEN Children(c)[id]
                      ELSE IF id = c THEN old ELSE chunks[id]]
      /\ Go(c, "done")
    BY <1>5 DEF Split
<1>7. /\ first \in Chunk /\ first.from = chunks[c].from /\ first.to = m - 1 /\ first.status = "pending"
      /\ second \in Chunk /\ second.from = m /\ second.to = chunks[c].to /\ second.status = "pending"
      /\ old \in Chunk /\ old.from = chunks[c].from /\ old.to = chunks[c].to /\ old.status = "superseded"
    <2>1. chunks[c].depth + 1 \in 0..MaxSplitDepth
        BY <1>1, ChunkAssumption DEF CanSplit, Chunk
    <2>2. m - 1 \in Nat
        BY <1>1, <1>4 DEF Chunk
    <2>3. QED
        BY <1>1, <1>4, <2>1, <2>2 DEF Chunk, ChunkStatus
<1> HIDE DEF one, two, m, first, second, old
<1>8. /\ DOMAIN chunks' = DOMAIN chunks \cup {one, two}
      /\ chunks'[one] = first /\ chunks'[two] = second /\ chunks'[c] = old
      /\ \A d \in DOMAIN chunks : d # c => chunks'[d] = chunks[d]
    BY <1>1, <1>2, <1>3, <1>5, <1>6
<1>9. chunks' \in [DOMAIN chunks' -> Chunk]
    <2>1. \A d \in DOMAIN chunks' : chunks'[d] \in Chunk
        BY <1>7, <1>8 DEF ChunkInv, TypeOK
    <2>2. QED
        BY <1>6, <2>1
<1>10. /\ DOMAIN workers' = DOMAIN workers
       /\ \A d \in DOMAIN workers : d # c => workers'[d] = workers[d]
       /\ workers'[c].stage = "done"
       /\ workers' \in [DOMAIN workers' -> [stage : WorkerStages, strategy : 1..Strategies]]
    BY <1>6 DEF Go, ChunkInv, TypeOK, WorkerStages
<1>11. TypeOK'
    BY <1>1, <1>8, <1>9, <1>10 DEF ChunkInv, TypeOK
<1>12. WorkersFit'
    <2>1. \A d \in DOMAIN workers : StatusFits(d)'
        BY <1>1, <1>3, <1>7, <1>8, <1>10 DEF ChunkInv, WorkersFit, StatusFits
    <2>2. QED
        BY <1>1, <1>8, <1>10, <2>1 DEF ChunkInv, WorkersFit
<1>13. NothingPendingInTheEnd' /\ RunningChunkHasWorker' /\ CompletedChunkHasFindings'
    BY <1>1, <1>7, <1>8, <1>10 DEF ChunkInv, NothingPendingInTheEnd, RunningChunkHasWorker,
                               CompletedChunkHasFindings, WithStatus, Unfinished
<1>14. IdsAreATree'
    <2>1. ASSUME NEW d \in Ids, NEW k \in {1, 2}, Append(d, k) \in DOMAIN chunks'
          PROVE  d \in DOMAIN chunks' /\ chunks'[d].status = "superseded"
        <3>1. CASE Append(d, k) \in DOMAIN chunks
            BY <3>1, <1>7, <1>8 DEF ChunkInv, IdsAreATree
        <3>2. CASE Append(d, k) \in {one, two}
            BY <3>2, <1>1, <1>2, <1>7, <1>8
        <3>3. QED
            BY <2>1, <3>1, <3>2, <1>8
    <2>2. DOMAIN chunks' \subseteq Ids
        BY <1>2, <1>8 DEF ChunkInv, IdsAreATree
    <2>3. QED
        BY <2>1, <2>2 DEF IdsAreATree
<1>15. /\ Leaves' = (Leaves \ {c}) \cup {one, two} /\ c \in Leaves
       /\ \A d \in Leaves \ {c} : Covers(d)' = Covers(d)
       /\ Covers(one)' \cup Covers(two)' = Covers(c)
       /\ Covers(one)' \cap Covers(two)' = {}
    <2>1. Leaves' = (Leaves \ {c}) \cup {one, two} /\ c \in Leaves
        BY <1>1, <1>3, <1>7, <1>8 DEF Leaves, Unfinished
    <2>2. \A d \in Leaves \ {c} : Covers(d)' = Covers(d)
        BY <1>8 DEF Leaves, Covers
    <2>3. /\ Covers(one)' = chunks[c].from..(m - 1)
          /\ Covers(two)' = m..chunks[c].to
          /\ Covers(c) = chunks[c].from..chunks[c].to
        BY <1>7, <1>8 DEF Covers
    <2>4. chunks[c].from \in Nat /\ chunks[c].to \in Nat
        BY <1>1 DEF Chunk
    <2>5. m \in Nat /\ chunks[c].from < m /\ m <= chunks[c].to
        BY <1>4 DEF m
    <2>6. QED
        BY <2>1, <2>2, <2>3, <2>4, <2>5
<1>16. Partition'
    <2> DEFINE P(k) == Plan[k].from..Plan[k].to
    <2>1. \A d \in DOMAIN chunks' : chunks'[d].from <= chunks'[d].to
        <3>1. first.from <= first.to /\ second.from <= second.to /\ old.from <= old.to
            BY <1>1, <1>4, <1>7 DEF m, Chunk
        <3>2. QED
            BY <3>1, <1>8 DEF ChunkInv, Partition
    <2>2. c[1] \in DOMAIN Plan /\ Covers(c) \subseteq P(c[1])
        BY <1>1 DEF ChunkInv, Partition
    <2>3. ASSUME NEW d \in DOMAIN chunks'
          PROVE  d[1] \in DOMAIN Plan /\ Covers(d)' \subseteq P(d[1])
        <3>1. CASE d \in {one, two}
            BY <3>1, <2>2, <1>2, <1>15
        <3>2. CASE d = c
            BY <3>2, <2>2, <1>7, <1>8 DEF Covers
        <3>3. CASE d \in DOMAIN chunks \ {c}
            BY <3>3, <1>8 DEF ChunkInv, Partition, Covers
        <3>4. QED
            BY <3>1, <3>2, <3>3, <1>8
    <2>4. ASSUME NEW k \in DOMAIN Plan, NEW line \in P(k)
          PROVE  \E d \in Leaves' : d[1] = k /\ line \in Covers(d)'
        <3>1. PICK d \in Leaves : d[1] = k /\ line \in Covers(d)
            BY <1>1 DEF ChunkInv, Partition
        <3>2. CASE d = c
            BY <3>1, <3>2, <1>2, <1>15
        <3>3. CASE d # c
            BY <3>1, <3>3, <1>15
        <3>4. QED
            BY <3>2, <3>3
    <2>5. ASSUME NEW d \in Leaves', NEW e \in Leaves', d # e, d[1] = e[1]
          PROVE  Covers(d)' \cap Covers(e)' = {}
        <3>1. \A x \in Leaves \ {c} :
                 x[1] = c[1] => Covers(x)' \cap Covers(one)' = {} /\ Covers(x)' \cap Covers(two)' = {}
            BY <1>15 DEF ChunkInv, Partition
        <3>2. \A x, y \in Leaves \ {c} : x # y /\ x[1] = y[1] => Covers(x)' \cap Covers(y)' = {}
            BY <1>15 DEF ChunkInv, Partition
        <3>3. QED
            BY <3>1, <3>2, <2>5, <1>2, <1>15
    <2> HIDE DEF P
    <2>6. \A d \in DOMAIN chunks' : d[1] \in DOMAIN Plan /\ Covers(d)' \subseteq Plan[d[1]].from..Plan[d[1]].to
        BY <2>3 DEF P
    <2>7. \A k \in DOMAIN Plan : \A line \in Plan[k].from..Plan[k].to :
             \E d \in Leaves' : d[1] = k /\ line \in Covers(d)'
        BY <2>4 DEF P
    <2>8. QED
        BY <2>1, <2>5, <2>6, <2>7 DEF Partition
<1>17. CompletedKept
    BY <1>1, <1>8 DEF CompletedKept, Unfinished
<1>18. QED
    BY <1>11, <1>12, <1>13, <1>14, <1>16, <1>17 DEF ChunkInv

\* Every step of an execution.
LEMMA ExecuteKeeps ==
    ASSUME ChunkInv, NEW c \in DOMAIN workers, Execute(c)
    PROVE  ChunkInv' /\ CompletedKept
<1>1. /\ c \in DOMAIN chunks /\ StatusFits(c) /\ chunks[c].status \in ChunkStatus
      /\ workers[c] \in [stage : WorkerStages, strategy : 1..Strategies]
    BY DEF ChunkInv, TypeOK, WorkersFit, Chunk
<1>2. CASE StartAttempt(c)
    BY <1>1, <1>2, StoreKeeps DEF StartAttempt, At, StatusFits, ChunkStatus, WorkerStages, CompletedKept
<1>3. CASE ModelAnswers(c)
    BY <1>1, <1>3, StoreKeeps DEF ModelAnswers, At, StatusFits, ChunkStatus, WorkerStages, CompletedKept
<1>4. CASE Complete(c)
    BY <1>1, <1>4, StoreKeeps DEF Complete, At, StatusFits, ChunkStatus, WorkerStages, CompletedKept
<1>5. CASE Fail(c)
    BY <1>1, <1>5, StoreKeeps
       DEF Fail, At, StatusFits, ChunkStatus, WorkerStages, Unfinished, CompletedKept
<1>6. CASE SaveFindings(c)
    <2> DEFINE w == [workers[c] EXCEPT !.stage = "completing"]
    <2>1. w \in [stage : WorkerStages, strategy : 1..Strategies] /\ w.stage = "completing"
        BY <1>1 DEF WorkerStages
    <2>2. workers' = [workers EXCEPT ![c] = w]
        BY <1>6 DEF SaveFindings, Go
    <2> HIDE DEF w
    <2>3. ChunkInv'
        BY <1>1, <1>6, <2>1, <2>2, WorkerGoesOnKeeps DEF SaveFindings, At, StatusFits
    <2>4. QED
        BY <1>6, <2>3 DEF SaveFindings, CompletedKept
<1>7. CASE AttemptFails(c)
    <2> DEFINE w == IF workers[c].strategy < Strategies
                    THEN [stage |-> "start", strategy |-> workers[c].strategy + 1]
                    ELSE [workers[c] EXCEPT !.stage = "giveUp"]
    <2>1. w \in [stage : WorkerStages, strategy : 1..Strategies] /\ w.stage \in {"start", "giveUp"}
        BY <1>1 DEF WorkerStages, Strategies
    <2>2. workers' = [workers EXCEPT ![c] = w]
        BY <1>7 DEF AttemptFails
    <2>3. chunks[c].status \in Unfinished
        BY <1>1, <1>7 DEF AttemptFails, At, StatusFits, Unfinished
    <2> HIDE DEF w
    <2>4. ChunkInv'
        BY <1>1, <1>7, <2>1, <2>2, <2>3, WorkerGoesOnKeeps DEF AttemptFails
    <2>5. QED
        BY <1>7, <2>4 DEF AttemptFails, CompletedKept
<1>8. CASE Split(c)
    BY <1>8, SplitKeeps
<1>9. QED
    BY <1>2, <1>3, <1>4, <1>5, <1>6, <1>7, <1>8 DEF Execute

-----------------------------------------------------------------------------
(* The pipeline between batches, and what ends or starts a run.             *)

LEMMA PlannedIsAPartition ==
    ASSUME ChunkInv, chunks = NoChunks, chunks' = Planned
    PROVE  /\ chunks' \in [DOMAIN chunks' -> Chunk]
           /\ \A c \in DOMAIN chunks' : chunks'[c].status = "pending"
           /\ IdsAreATree' /\ Partition'
<1>1. ASSUME NEW k \in DOMAIN Plan
      PROVE  /\ k \in Nat /\ Plan[k].from \in Nat /\ Plan[k].to \in Nat /\ Plan[k].from <= Plan[k].to
    <2> DEFINE S == [from : Nat, to : Nat]
    <2>1. Plan \in Seq(S)
        BY ChunkAssumption
    <2>2. \A r \in S : r.from \in Nat /\ r.to \in Nat
        OBVIOUS
    <2> HIDE DEF S
    <2>3. k \in 1..Len(Plan) /\ Len(Plan) \in Nat
        BY <2>1, LenProperties
    <2>4. k \in Nat
        BY <2>3
    <2>5. Plan[k] \in S
        BY <2>1, <2>3, ElementOfSeq
    <2>6. QED
        BY <2>2, <2>4, <2>5, ChunkAssumption
<1>2. chunks' = [id \in {<<k>> : k \in DOMAIN Plan} |->
                   [from |-> Plan[id[1]].from, to |-> Plan[id[1]].to, depth |-> 0, status |-> "pending"]]
    BY DEF Planned
<1>3. ASSUME NEW c \in DOMAIN chunks'
      PROVE  /\ c \in Seq(Nat) /\ Len(c) = 1 /\ c[1] \in DOMAIN Plan /\ c = <<c[1]>>
             /\ chunks'[c] = [from |-> Plan[c[1]].from, to |-> Plan[c[1]].to, depth |-> 0, status |-> "pending"]
    <2>1. PICK k \in DOMAIN Plan : c = <<k>>
        BY <1>2
    <2>2. k \in Nat
        BY <1>1
    <2>3. c \in Seq(Nat) /\ Len(c) = 1 /\ c[1] = k
        BY <2>1, <2>2
    <2>4. chunks'[c] = [from |-> Plan[c[1]].from, to |-> Plan[c[1]].to, depth |-> 0, status |-> "pending"]
        BY <1>2
    <2>5. QED
        BY <2>1, <2>3, <2>4
<1>4. \A k \in DOMAIN Plan : <<k>> \in DOMAIN chunks' /\ <<k>>[1] = k
    BY <1>2
<1>5. \A c \in DOMAIN chunks' : /\ chunks'[c] \in Chunk /\ chunks'[c].status = "pending"
                                /\ chunks'[c].from = Plan[c[1]].from /\ chunks'[c].to = Plan[c[1]].to
    BY <1>1, <1>3, ChunkAssumption DEF Chunk, ChunkStatus
<1>6. chunks' \in [DOMAIN chunks' -> Chunk]
    BY <1>2, <1>5
<1>7. Leaves' = DOMAIN chunks'
    BY <1>5 DEF Leaves
<1>8. \A c \in DOMAIN chunks' : Covers(c)' = Plan[c[1]].from..Plan[c[1]].to
    BY <1>5 DEF Covers
<1>9. IdsAreATree'
    <2>1. DOMAIN chunks' \subseteq Ids
        BY <1>3 DEF Ids
    <2>2. ASSUME NEW c \in Ids, NEW k \in {1, 2} PROVE Append(c, k) \notin DOMAIN chunks'
        <3>1. c \in Seq(Nat) /\ Len(c) # 0 /\ Len(c) \in Nat /\ k \in Nat
            BY EmptySeq, LenProperties DEF Ids
        <3>2. Len(Append(c, k)) = Len(c) + 1
            BY <3>1, AppendProperties
        <3>3. Len(Append(c, k)) # 1
            BY <3>1, <3>2
        <3>4. QED
            BY <3>3, <1>3
    <2>3. QED
        BY <2>1, <2>2 DEF IdsAreATree
<1>10. Partition'
    <2>1. \A c \in DOMAIN chunks' : /\ chunks'[c].from <= chunks'[c].to
                                    /\ c[1] \in DOMAIN Plan
                                    /\ Covers(c)' \subseteq Plan[c[1]].from..Plan[c[1]].to
        BY <1>1, <1>3, <1>5, <1>8
    <2>2. ASSUME NEW k \in DOMAIN Plan, NEW line \in Plan[k].from..Plan[k].to
          PROVE  \E c \in Leaves' : c[1] = k /\ line \in Covers(c)'
        BY <1>4, <1>7, <1>8
    <2>3. \A c, d \in DOMAIN chunks' : c[1] = d[1] => c = d
        BY <1>3
    <2>4. QED
        BY <2>1, <2>2, <2>3, <1>7 DEF Partition
<1>11. QED
    BY <1>5, <1>6, <1>9, <1>10

LEMMA LoadKeeps ==
    ASSUME ChunkInv, Load
    PROVE  ChunkInv' /\ CompletedKept
<1>1. /\ run = "load" /\ run' = "batch" /\ status' = "reviewing" /\ DOMAIN workers = {}
      /\ UNCHANGED <<findings, workers, stops, resumes>>
    BY DEF Load, ChunkInv, WorkersFit
<1>2. CASE chunks = NoChunks /\ chunks' = Planned
    <2>1. DOMAIN chunks = {}
        BY <1>2 DEF NoChunks
    <2>2. /\ chunks' \in [DOMAIN chunks' -> Chunk]
          /\ \A c \in DOMAIN chunks' : chunks'[c].status = "pending"
          /\ IdsAreATree' /\ Partition'
        BY <1>2, PlannedIsAPartition
    <2>3. findings = {}
        BY <2>1 DEF ChunkInv, TypeOK
    <2>4. TypeOK'
        BY <1>1, <2>2, <2>3 DEF ChunkInv, TypeOK
    <2>5. QED
        BY <1>1, <2>1, <2>2, <2>4
           DEF ChunkInv, WorkersFit, NothingPendingInTheEnd, RunningChunkHasWorker, CompletedChunkHasFindings,
               WithStatus, Unfinished, CompletedKept
<1>3. CASE UNCHANGED chunks
    <2>1. IdsAreATree' /\ Partition'
        BY <1>3, SameChunksKeep
    <2>2. TypeOK'
        BY <1>1, <1>3 DEF ChunkInv, TypeOK
    <2>3. QED
        BY <1>1, <1>3, <2>1, <2>2
           DEF ChunkInv, WorkersFit, NothingPendingInTheEnd, RunningChunkHasWorker, CompletedChunkHasFindings,
               WithStatus, CompletedKept
<1>4. QED
    BY <1>2, <1>3 DEF Load

\* A step that leaves the chunks, and the end of a batch or of a run.
LEMMA PipelineKeeps ==
    ASSUME ChunkInv, NextBatch \/ BatchEnds \/ Aggregate \/ ResumeReview \/ RunFails
    PROVE  ChunkInv' /\ CompletedKept
<1>1. /\ UNCHANGED <<chunks, findings>>
      /\ status' \in {"queued", "reviewing", "completed", "failed"}
      /\ run' \in {"none", "resuming", "load", "batch", "executing", "aggregate"}
      /\ stops' \in 0..MaxStops /\ resumes' \in 0..MaxResumes
    BY ChunkAssumption
       DEF NextBatch, BatchEnds, Aggregate, ResumeReview, RunFails, ChunkInv, TypeOK
<1>2. /\ IdsAreATree' /\ Partition' /\ CompletedChunkHasFindings' /\ CompletedKept
      /\ Leaves' = Leaves /\ WithStatus("pending")' = WithStatus("pending")
    <2>1. IdsAreATree' /\ Partition'
        BY <1>1, SameChunksKeep
    <2>2. QED
        BY <1>1, <2>1 DEF ChunkInv, CompletedChunkHasFindings, WithStatus, CompletedKept, Leaves
<1>3. /\ workers' \in [DOMAIN workers' -> [stage : WorkerStages, strategy : 1..Strategies]]
      /\ WorkersFit' /\ NothingPendingInTheEnd' /\ RunningChunkHasWorker'
    <2>1. CASE NextBatch
        <3>1. DOMAIN workers = {}
            BY <2>1 DEF NextBatch, ChunkInv, WorkersFit
        <3>2. CASE WithStatus("pending") = {} /\ run' = "aggregate" /\ UNCHANGED workers
            BY <3>1, <3>2, <2>1, <1>1, <1>2
               DEF NextBatch, ChunkInv, TypeOK, WorkersFit, NothingPendingInTheEnd, RunningChunkHasWorker
        <3>3. ASSUME NEW batch \in SUBSET WithStatus("pending"), run' = "executing",
                     workers' = [c \in batch |-> [stage |-> "start", strategy |-> 1]]
              PROVE  /\ workers' \in [DOMAIN workers' -> [stage : WorkerStages, strategy : 1..Strategies]]
                     /\ WorkersFit' /\ NothingPendingInTheEnd' /\ RunningChunkHasWorker'
            <4>1. /\ workers' \in [DOMAIN workers' -> [stage : WorkerStages, strategy : 1..Strategies]]
                  /\ DOMAIN workers' = batch /\ \A c \in batch : workers'[c].stage = "start"
                BY <3>3 DEF WorkerStages, Strategies
            <4>2. /\ batch \subseteq DOMAIN chunks
                  /\ \A c \in batch : chunks[c].status = "pending"
                BY DEF WithStatus
            <4>3. \A c \in DOMAIN chunks : chunks[c].status \notin Unfinished
                BY <2>1, <3>1 DEF ChunkInv, RunningChunkHasWorker, NextBatch
            <4>4. QED
                BY <1>1, <3>3, <4>1, <4>2, <4>3
                   DEF WorkersFit, StatusFits, NothingPendingInTheEnd, RunningChunkHasWorker
        <3>4. QED
            BY <2>1, <3>2, <3>3 DEF NextBatch
    <2>2. CASE BatchEnds
        <3>1. /\ DOMAIN workers' = {} /\ run' = "batch" /\ run = "executing"
              /\ workers' \in [DOMAIN workers' -> [stage : WorkerStages, strategy : 1..Strategies]]
            BY <2>2 DEF BatchEnds, NoChunks
        <3>2. \A c \in DOMAIN chunks : chunks[c].status \notin Unfinished
            BY <2>2 DEF BatchEnds, ChunkInv, RunningChunkHasWorker, WorkersFit, StatusFits, Unfinished
        <3>3. QED
            BY <1>1, <3>1, <3>2 DEF WorkersFit, NothingPendingInTheEnd, RunningChunkHasWorker
    <2>3. CASE Aggregate \/ ResumeReview
        <3>1. /\ DOMAIN workers = {} /\ UNCHANGED workers /\ run # "none"
              /\ run' \notin {"executing", "aggregate"}
            BY <2>3 DEF Aggregate, ResumeReview, ChunkInv, WorkersFit
        <3>2. QED
            BY <1>1, <3>1 DEF ChunkInv, TypeOK, WorkersFit, NothingPendingInTheEnd, RunningChunkHasWorker
    <2>4. CASE RunFails
        <3>1. /\ DOMAIN workers' = {} /\ run' = "none"
              /\ workers' \in [DOMAIN workers' -> [stage : WorkerStages, strategy : 1..Strategies]]
            BY <2>4 DEF RunFails, NoChunks
        <3>2. QED
            BY <1>1, <3>1 DEF WorkersFit, NothingPendingInTheEnd, RunningChunkHasWorker
    <2>5. QED
        BY <2>1, <2>2, <2>3, <2>4
<1>4. TypeOK'
    BY <1>1, <1>3 DEF ChunkInv, TypeOK
<1>5. QED
    BY <1>2, <1>3, <1>4 DEF ChunkInv

\* A crash, and a resume: chunks in some states wait again, and no worker is left.
LEMMA ResetKeeps ==
    ASSUME ChunkInv, NEW these \in {Unfinished, Unfinished \cup {"failed"}}, Reset(these),
           DOMAIN workers' = {}, workers' = NoChunks \/ workers' = workers,
           UNCHANGED findings, run' \in {"load", "resuming"}, UNCHANGED status,
           stops' \in 0..MaxStops, resumes' \in 0..MaxResumes
    PROVE  ChunkInv' /\ CompletedKept
<1>1. \A c \in DOMAIN chunks : chunks[c] \in Chunk
    BY DEF ChunkInv, TypeOK
<1>2. /\ DOMAIN chunks' = DOMAIN chunks
      /\ \A c \in DOMAIN chunks :
            /\ chunks'[c] \in Chunk /\ chunks'[c].from = chunks[c].from /\ chunks'[c].to = chunks[c].to
            /\ IF chunks[c].status \in these THEN chunks'[c].status = "pending" ELSE chunks'[c] = chunks[c]
      /\ chunks' \in [DOMAIN chunks' -> Chunk]
    BY <1>1 DEF Reset, Chunk, ChunkStatus
<1>3. IdsAreATree' /\ Partition'
    BY <1>2, SameChunksKeep DEF Unfinished
<1>4. /\ \A c \in DOMAIN chunks' : chunks'[c].status \notin Unfinished
      /\ \A c \in DOMAIN chunks : chunks'[c].status = "completed" <=> chunks[c].status = "completed"
    BY <1>2 DEF Unfinished
<1>5. workers' \in [DOMAIN workers' -> [stage : WorkerStages, strategy : 1..Strategies]]
    BY DEF ChunkInv, TypeOK, NoChunks
<1>6. TypeOK'
    BY <1>2, <1>5 DEF ChunkInv, TypeOK
<1>7. /\ WorkersFit' /\ NothingPendingInTheEnd' /\ RunningChunkHasWorker'
    BY <1>4 DEF WorkersFit, NothingPendingInTheEnd, RunningChunkHasWorker
<1>8. CompletedChunkHasFindings' /\ CompletedKept
    BY <1>2, <1>4 DEF ChunkInv, CompletedChunkHasFindings, WithStatus, CompletedKept, Unfinished
<1>9. QED
    BY <1>3, <1>6, <1>7, <1>8 DEF ChunkInv

-----------------------------------------------------------------------------
LEMMA ChunkStep == ChunkInv /\ [Next]_vars => ChunkInv' /\ (CompletedKept \/ chunks' = NoChunks)
<1> SUFFICES ASSUME ChunkInv, [Next]_vars PROVE ChunkInv' /\ (CompletedKept \/ chunks' = NoChunks)
    OBVIOUS
<1>1. CASE Load
    BY <1>1, LoadKeeps
<1>2. CASE NextBatch \/ BatchEnds \/ Aggregate \/ ResumeReview \/ RunFails
    BY <1>2, PipelineKeeps
<1>3. ASSUME NEW c \in DOMAIN workers, Execute(c)
      PROVE  ChunkInv' /\ CompletedKept
    BY <1>3, ExecuteKeeps
<1>4. CASE CrashAndRecover
    <2>1. stops' \in 0..MaxStops /\ resumes' \in 0..MaxResumes /\ UNCHANGED <<status, findings>>
        BY <1>4, ChunkAssumption DEF CrashAndRecover, ChunkInv, TypeOK
    <2>2. CASE run' = "none" /\ UNCHANGED chunks
        <3>1. IdsAreATree' /\ Partition'
            BY <2>2, SameChunksKeep
        <3>2. DOMAIN workers' = {}
              /\ workers' \in [DOMAIN workers' -> [stage : WorkerStages, strategy : 1..Strategies]]
            BY <1>4 DEF CrashAndRecover, NoChunks
        <3>3. TypeOK'
            BY <2>1, <2>2, <3>2 DEF ChunkInv, TypeOK
        <3>4. QED
            BY <2>1, <2>2, <3>1, <3>2, <3>3
               DEF ChunkInv, WorkersFit, NothingPendingInTheEnd, RunningChunkHasWorker, CompletedChunkHasFindings,
                   WithStatus, CompletedKept
    <2>3. CASE run' = "load" /\ Reset(Unfinished)
        <3>1. workers' = NoChunks /\ DOMAIN workers' = {}
            BY <1>4 DEF CrashAndRecover, NoChunks
        <3>2. QED
            BY <2>1, <2>3, <3>1, ResetKeeps
    <2>4. QED
        BY <1>4, <2>2, <2>3 DEF CrashAndRecover
<1>5. CASE ResumeChunks
    <2>1. /\ stops' \in 0..MaxStops /\ resumes' \in 0..MaxResumes /\ UNCHANGED <<status, findings, workers>>
          /\ run' = "resuming" /\ DOMAIN workers' = {} /\ Reset(Unfinished \cup {"failed"})
        BY <1>5, ChunkAssumption DEF ResumeChunks, ChunkInv, TypeOK, WorkersFit
    <2>2. QED
        BY <2>1, ResetKeeps
<1>6. CASE Recheck
    <2>1. /\ chunks' = NoChunks /\ DOMAIN chunks' = {} /\ findings' = {} /\ run' = "load"
          /\ DOMAIN workers = {} /\ UNCHANGED workers /\ status' = "queued"
          /\ chunks' \in [DOMAIN chunks' -> Chunk]
          /\ stops' \in 0..MaxStops /\ resumes' \in 0..MaxResumes
        BY <1>6, ChunkAssumption DEF Recheck, ChunkInv, TypeOK, WorkersFit, NoChunks
    <2>2. TypeOK'
        BY <2>1 DEF ChunkInv, TypeOK
    <2>3. Leaves' = {}
        BY <2>1 DEF Leaves
    <2>4. IdsAreATree' /\ Partition'
        BY <2>1, <2>3 DEF IdsAreATree, Partition
    <2>5. QED
        BY <2>1, <2>2, <2>4
           DEF ChunkInv, WorkersFit, NothingPendingInTheEnd, RunningChunkHasWorker, CompletedChunkHasFindings,
               WithStatus
<1>7. CASE UNCHANGED vars
    <2>1. IdsAreATree' /\ Partition'
        BY <1>7, SameChunksKeep DEF vars
    <2>2. QED
        BY <1>7, <2>1 DEF vars, ChunkInv, TypeOK, WorkersFit, StatusFits, NothingPendingInTheEnd,
                          RunningChunkHasWorker, CompletedChunkHasFindings, WithStatus, CompletedKept
<1>8. QED
    BY <1>1, <1>2, <1>3, <1>4, <1>5, <1>6, <1>7 DEF Next, Pipeline

LEMMA ChunkStart == Init => ChunkInv
<1> SUFFICES ASSUME Init PROVE ChunkInv
    OBVIOUS
<1>1. /\ DOMAIN chunks = {} /\ DOMAIN workers = {} /\ findings = {} /\ run = "load"
      /\ chunks \in [DOMAIN chunks -> Chunk]
      /\ workers \in [DOMAIN workers -> [stage : WorkerStages, strategy : 1..Strategies]]
    BY DEF Init, NoChunks
<1>2. TypeOK
    BY <1>1, ChunkAssumption DEF Init, TypeOK
<1>3. Leaves = {}
    BY <1>1 DEF Leaves
<1>4. QED
    BY <1>1, <1>2, <1>3
       DEF ChunkInv, WorkersFit, NothingPendingInTheEnd, RunningChunkHasWorker, CompletedChunkHasFindings,
           WithStatus, IdsAreATree, Partition

LEMMA ChunkInvariance == Spec => []ChunkInv
BY ChunkStart, ChunkStep, PTL DEF Spec

-----------------------------------------------------------------------------
\* The leaves under a planned chunk partition its range, whatever the plan, however
\* often chunks are split and runs are cut off and resumed.
THEOREM LeavesFollowThePlan == Spec => []LeavesPartitionPlan
<1>1. ChunkInv => LeavesPartitionPlan
    <2> SUFFICES ASSUME ChunkInv, chunks # NoChunks, NEW k \in DOMAIN Plan, NEW line \in FileLines
                 PROVE  Cardinality({c \in Leaves : c[1] = k /\ line \in Covers(c)}) =
                           IF line \in Plan[k].from..Plan[k].to THEN 1 ELSE 0
        BY DEF LeavesPartitionPlan
    <2>1. DOMAIN chunks # {}
        BY DEF ChunkInv, TypeOK, NoChunks
    <2>2. CASE line \in Plan[k].from..Plan[k].to
        <3>1. PICK c \in Leaves : c[1] = k /\ line \in Covers(c)
            BY <2>1, <2>2 DEF ChunkInv, Partition
        <3>2. {d \in Leaves : d[1] = k /\ line \in Covers(d)} = {c}
            BY <3>1 DEF ChunkInv, Partition
        <3>3. QED
            BY <2>2, <3>2, FS_Singleton
    <2>3. CASE line \notin Plan[k].from..Plan[k].to
        <3>1. {d \in Leaves : d[1] = k /\ line \in Covers(d)} = {}
            BY <2>3 DEF ChunkInv, Partition, Leaves
        <3>2. QED
            BY <2>3, <3>1, FS_EmptySet
    <2>4. QED
        BY <2>2, <2>3
<1>2. QED
    BY <1>1, ChunkInvariance, PTL

\* No chunk is completed before its findings are stored, wherever a run is cut off.
THEOREM NoCompletionWithoutFindings == Spec => []CompletedChunkHasFindings
<1>1. ChunkInv => CompletedChunkHasFindings
    BY DEF ChunkInv
<1>2. QED
    BY <1>1, ChunkInvariance, PTL

\* While the pipeline goes on, a chunk that is under way is so for somebody.
THEOREM UnderWayForSomebody == Spec => []RunningChunkHasWorker
<1>1. ChunkInv => RunningChunkHasWorker
    BY DEF ChunkInv
<1>2. QED
    BY <1>1, ChunkInvariance, PTL

\* When the batches end, every chunk is done with.
THEOREM AllChunksAreDoneWith == Spec => []NoChunkForgotten
<1>1. ChunkInv => NoChunkForgotten
    <2> SUFFICES ASSUME ChunkInv, run = "aggregate", NEW c \in Leaves
                 PROVE  chunks[c].status \in {"completed", "failed"}
        BY DEF NoChunkForgotten
    <2>1. c \in DOMAIN chunks /\ chunks[c].status \in ChunkStatus /\ chunks[c].status # "superseded"
        BY DEF Leaves, ChunkInv, TypeOK, Chunk
    <2>2. chunks[c].status # "pending"
        BY <2>1 DEF ChunkInv, NothingPendingInTheEnd, WithStatus
    <2>3. chunks[c].status \notin Unfinished
        BY <2>1 DEF ChunkInv, RunningChunkHasWorker, WorkersFit
    <2>4. QED
        BY <2>1, <2>2, <2>3 DEF ChunkStatus, Unfinished
<1>2. QED
    BY <1>1, ChunkInvariance, PTL

\* No step but the clearing of the tables changes a completed chunk.
THEOREM CompletedChunksAreKept == Spec => CompletedChunkIsKept
<1> DEFINE Kept == \A c \in DOMAIN chunks :
                      chunks[c].status = "completed" =>
                         \/ c \in DOMAIN chunks' /\ chunks'[c] = chunks[c]
                         \/ chunks' = NoChunks
<1>1. ChunkInv /\ [Next]_vars => [Kept]_vars
    BY ChunkStep DEF CompletedKept
<1>2. QED
    BY <1>1, ChunkInvariance, PTL DEF Spec, CompletedChunkIsKept

===============================================================================

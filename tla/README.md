# Formal models of CodeAstra

TLA+ models of CodeAstra, a FastAPI service that reviews Python and C++ code with
static analysis and language models and repairs what the user confirms. The models
are translated from the Python and TypeScript source, checked with TLC on small
instances, and the properties that matter most are proved with TLAPS for all values
of the constants. `PROJECT.json` ties every definition to the lines it models, every
property to a seeded mistake that breaks it, and every hazard to its properties.

## The system

The server is one asyncio process over one SQLite connection. Code between two
`await`s runs undisturbed; every hard behaviour comes from what happens *at* an
`await`, from tasks that outlive the request that started them, and from process
exits. The source paths below are relative to `src/src/code_review`.

| Part | State | Operations | Interacts with | What makes it correct |
| --- | --- | --- | --- | --- |
| Review lifecycle (`application/hybrid_review_service.py`) | the session row; `_tasks`, `_orphaned_rechecks`, `_fix_locks` | create, start, run, cancel, delete, resume, decide, reopen, preview and confirm a fix, undo, recover, shutdown | reads and writes rows through the store; runs chunk reviews; answers the routes | one writer per review; late rechecks change nothing; every review ends and is found after a crash; confirmed fixes are kept |
| Fixes, revisions and positions (the same file, `domain/review_models.py`) | the text, `findings`, `decided_findings`, `changed_ranges`, `revisions`, `_fix_candidates` | preview with correction rounds and structured repairs, cancel, confirm, decide, reopen, undo | confirms only what was prepared for the text on disk; restarts the review | findings point at the code they are about; revisions show what the fixes did |
| Chunk review (`application/chunk_review_service.py`, `review_planner.py`, `review_aggregator.py`) | `review_chunks`, `review_findings` | plan, execute, split, aggregate | called by `run` in concurrent batches; calls the inference service | splitting loses and repeats no line of the plan; a completed chunk has its findings; splits and retries end |
| Events (`events`, `api/client.ts`) | `review_events`, the open stream, the browser's position | publish, poll, stream, reconnect, snapshot | written by the lifecycle and the chunks, read by the page | each event once and in order; the stream ends after the last event; what is returned is over |
| Instance registry (`infrastructure/sglang/registry.py`) | in-flight counters, circuit, leases | acquire with wait, three releases | shared by all inference calls | limits hold; each lease is given back once; no lost wake-up |
| Inference service (`application/inference_service.py`) | the request being retried | review, stream, follow-up, fix proposal | leases from the registry, calls the client | bounded calls; no leaked lease; every request ends |
| Store (`infrastructure/persistence/sqlite_review_store.py`) | the tables | one transaction per call; two compare-and-set writes | everything above | the compare-and-set fences stale attempts |
| Authentication and users (`application/auth_service.py`, `user_admin_service.py`, `infrastructure/persistence/sqlite_auth_store.py`, `user_data_purger.py`) | accounts, login sessions, cookies, files in place and in quarantine | log in and out, change and reset passwords, activate, create, delete | admits the requests that create reviews; cancels the reviews of a user who is deleted | no session outlives its credentials; a review always has its owner, and files go with the account |
| Schema migration (`infrastructure/persistence/sqlite_auth_migration.py`) | the database and its backups | backup, rebuild, validate, commit, open | runs before the server serves | the database changes as a whole or not at all; only a checked one is served |
| Deployment (`deployment/`, `config/deployment_manifest.py`) | plans, the manifest, model processes, their ports | plan, apply, spawn, probe, terminate, restart | decides which endpoints the next server has | a plan is applied once and as a whole; a failed one gives the manifest back and tells its processes to terminate |
| Chunk scheduler (`application/chunk_scheduler.py`) | queues, rotation | put, get, cancel | constructed by its tests only | no review is starved |
| Model router, health | none | route, probe | standalone | the choice of a profile |
| Static analysis, evidence, follow-up routing, imports | none | pure functions, reading files | feed the lifecycle | their result is chosen freely in the models |

Hard behaviours: a request that read the row before another wrote it; a recheck
whose pipeline outlives its deadline; a cancel before the task exists; a process exit
between two store calls; a stream that breaks inside an event; an answer of the model
after the circuit opened; a fix confirmed for a text that has changed meanwhile; a
model process that dies during a launch. Each is a hazard in `PROJECT.json`, at its line.

## Modules

| Module | Models | State and actions |
| --- | --- | --- |
| `ReviewLifecycle` | one review, its tasks, its requests, the process | `row` is the session row; `tasks` the asyncio tasks, each a pipeline (`run`) or a supervisor (`_run_revalidation_with_deadline`) with its inner pipeline; `slot` and `orphan` are `_tasks[id]` and `_orphaned_rechecks[id]`; `call` the requests, each at one of its awaits. One action per store call, plus those that receive a cancellation, a deadline or a process exit |
| `ChunkReview` | the chunks of one file during `run` | `chunks` are the rows, `workers` the executions of the batch; an action per store call of `execute`, per batch, per crash, failure and resume |
| `ReviewEvents` | log, generator, stream, browser | `log` and `status` in the store, `link` the generator of the open stream, `wire` what is under way, `client` the variables of `streamReviewSession` |
| `InstanceRegistry` | `AsyncInstanceRegistry` | the counters and circuit of each endpoint, the leases, and where each caller is; every method is one action because it holds the condition and suspends only in `wait()` |
| `InferenceService` | `InferenceService` on top of the registry | `job` says for each caller which try it is in; it extends the registry, and each step calls one of its methods or none. `GiveBack` is a release as the registry performs it: one of a lease that is not held changes nothing and is counted (`refused`), as the code raises a `ValueError` |
| `LeasePool` | what callers rely on of the registry (abstract) | only who holds a lease where, and who sleeps: leases are given where there is room, and nobody sleeps while there is room everywhere |
| `FixCandidates` | fixes, revisions and positions in one file | `text` is a sequence of lines, each a value of its own; `place` the lines of each finding, `ranges` the changed ranges, `preview` and `cache` the candidates being prepared and `_fix_candidates`. A handler that writes is one action: how handlers race is the subject of `ReviewLifecycle` |
| `Accounts` | accounts, sessions, files and reviews of their owners | a request without `await` is one action with its transactions, and a crash may come between those; creating a review and deleting a user take several |
| `AuthMigration` | the start of a server on any database | `disk` is the committed database, `work` the transaction's view of it, `step` the statement reached; each may fail or be the last before a crash |
| `Deployment` | plans, manifest, processes, restarts | `apply` the requests under `_apply_lock`; `process` and `listener` what runs and who has each port: processes survive the server, plans do not. A launch is spawning, probing, asking each endpoint, and on any failure stopping, at each of which a crash or a cancellation may come |
| `ChunkScheduler` | `ChunkScheduler` | queues, rotation and the tasks parked in `get()` |
| `..._proofs` (8) | theorems | each extends the module it is about; `Startup_proofs` is about `AuthMigration` and `Deployment`. `ChunkScheduler` has one property, liveness, and no theorem |
| `MC...` | values for the constants, symmetry; `MCPlatform` puts the four parts around the reviews in one run | `part` says which of them a behaviour is about |

One refinement ties the layers of inference together, checked and proved:
`InstanceRegistry` maps itself to `LeasePool` (`ImplementsPool`): counters, circuits, conditions and
wake-ups implement a pool that is known only by who holds a lease. `InferenceService`
is composed of the registry's own actions, so that the registry's theorems hold of it by
construction (a lemma of its proofs, not a result); what could go wrong, a second
release, is `NoSecondRelease`.

`ReviewEvents` abstracts the lifecycle to the statuses a watcher sees and relies on
`ReviewEnds`; `ReviewLifecycle` abstracts the chunks to the single step `RunExecutes`
and relies on `RunEnds`, and the text of a file to the fixes in it, which
`FixCandidates` takes apart; `ChunkReview` abstracts a call of the model to its
outcome and relies on `RequestEnds`. Accounts, migration, deployment and scheduler
share no state with each other.

### Correspondence worth knowing

* A store call is one action; what follows it up to the next `await` belongs to the
  same action or to the next one, never between.
* In `ReviewLifecycle` the row keeps the fields that guards read: status, recheck
  attempt and its status, findings, decisions, pending revalidation, and the applied
  fixes (which stand for file contents: a file is the sequence of fixes in it).
  The findings of static analysis are saved in `planning` and stay when the run is blocked
  or fails; aggregation replaces them. `kept` stands for `accepted_risk` and
  `dismissed`. `deleted` stands for a missing row, and a row may go with its owner
  (`OwnerDeleted`), which looks neither at the review's tasks nor at its lock.
* `confirm_fix` takes the candidate out of the cache first; it may find it expired or
  made for another text (`ConfirmGet`), or the analyzer may reject the text it yields
  (`ConfirmRejected`): the candidate is gone then, and the row unchanged.
* Attempt ids (UUIDs) are numbers handed out in order; `passed` holds those whose
  deadline is in the past. A candidate remembers the files it was prepared for, as
  the code compares SHA values.
* `RunRaises` may follow any step of the body, whatever the cause.
* `SlowCancel` says whether a cancelled pipeline may outlive the two seconds of grace
  (a thread of the analyzer, a store call in its thread). With `SlowCancel = FALSE`
  a cancellation is prompt, and a start is not raced against that clean-up
  (`CleaningUp`); runs that need this are named below.
* In `ChunkReview` a chunk is a range of lines. `split` counts the lines of the text,
  which has lost its empty lines at the end (`Blank`), and not those of the range.
* In `ReviewEvents` the browser consumes several blocks in one read, and looks for a
  terminal event only after all of them, as the loop does.
* In `InferenceService` the retry with a smaller budget inside `SGLangClient.complete`
  belongs to the call. `review_stream` follows the same path of leases as `review`. A
  release is one step: no method of the registry but `wait()` suspends while it holds the
  condition, and asyncio's lock is taken without suspending when it is free, so that a
  cancellation finds a request before the release or after it.
* In `FixCandidates` a place is a pair of line numbers, as in the code, and a ghost
  (`about`) keeps the lines a finding was reported for, so that a place can be wrong.
  A finding that comes back with the place it had when it was decided, after the text
  changed, is `Stale`: nothing is claimed of it until the next review. Findings span
  lines, the ranges of a file are a set, and a finding below the end of the text is
  clamped to the last line or, in a file that is not Python, replaced by appending
  (`Clamped`, `Clipped`). `ReportAgain` may leave `pending` as it was, and clears only what is
  decided, as the code does.
  Whether a text is valid Python, and the replacement the model proposes, are free. A
  structured repair may insert lines above the span; `decided` findings come back with
  the place they had.
* In `Accounts` a cookie is a session or nothing, and the CSRF token goes with it.
  Passwords are values; hashing keeps them apart. `MaxCrashes` bounds crashes, which
  lose every request under way and nothing that is committed.
* In `AuthMigration` the account tables are `absent`, `partial` (users are there, a
  table or an index is not: the migration creates it), `canonical` or `other`, as the
  code compares their SQL with the text it would create.
* In `Deployment` a `listener` that is not a plan's process is another server that took
  the port (`Original`); the probe cannot tell them apart, as in the code. The processes
  are looked at before the endpoints are asked and never after, as in `_wait_ready`. A
  failed launch tells its processes to terminate and waits for each (`stopping`), and a
  second cancellation ends that wait. Ghosts: `cut` holds the plans whose apply a crash cut
  off, perhaps between the manifest and the answer; `settled` is the plan the last apply
  answered or cut off.

Definitions commented *Seeded mistake* are variants of a definition with a plausible
bug. No specification uses them: they exist to show that each property fails when
the code is wrong (`mutants` in `PROJECT.json`).

## Runs

All runs are small on purpose; the bounds are the constants named as such.

| Run | Question | Bounds, and why they suffice |
| --- | --- | --- |
| `lifecycle_handlers` | do requests of every kind exclude each other under the lock, start one at a time and keep each other's fixes, and can a stale attempt write or a closed one be opened? | 3 requests, 2 of them at once: a holder, a competitor, a task, and a third to start or resume what the orphan of the first meets; one finding and one fix. Slow cancellation |
| `lifecycle_restart` | is a review lost at a crash or shutdown, and does every review end? | one exit at any step, 3 requests without cancel and undo, one fix, deletion of the owner. Prompt cancellation: without these limits `violation_stuck_resume`, `violation_cancel_race` and `violation_lost_fix` show what goes wrong. No symmetry, because liveness is checked |
| `registry` | are reservations, limits, circuit and wake-ups right? | 3 callers and 2 endpoints: each of the three limits binds in some state; the clock runs past a cooldown. Also: does it implement `LeasePool`? Checked for deadlock |
| `inference` | is every lease given back, is none given back twice, are calls bounded, does every request end? | 2 callers on 2 endpoints with room for one each; a caller waits when the circuit of an endpoint is open and the other is busy |
| `events` | does the page see every event once, is a stream closed only after the last event of every run, is what a watcher of a first run returns over, and does it end? | a run and a recheck with 2 events of progress, a deletion, 3 network failures that cut inside a block, 2 reconnections of 4: the counter only has to run out |
| `chunks` | do the leaves hold the lines of the plan through splits, crashes and resumes, and do retries and splits end? | 2 chunks that share a line, as two declarations on one line do; one is split twice and one half is too short to split, an empty line at an end, 1 interruption, 1 resume, batches of 2 |
| `fixes` | do positions follow the code, and do revisions show what was done? | a file of 2 lines changed in one hunk or in two, 2 findings of any lines of it, 2 candidates whose replacements have 0 or 2 lines (every span shrinks or grows, one of 2 lines keeps its length), a cache of 1, which evicts, and a history of 2, which two fixes fill and do not overflow; 1 recheck. That a full history is trimmed rightly is proved (`RevisionsShowTheFixes`), not run |
| `platform` | do sessions follow credentials and files their owners; is the database migrated as a whole; are plans applied as a whole; is every review in the queue served? | accounts: one user and the administrator, 2 browsers, 2 passwords, 1 review, 1 deletion, 1 crash; migration: 2 reviews, versions 2 to 4, 2 starts; deployment: 2 plans on 2 endpoints, 2 requests, 1 restart; plans and endpoints are alike, so the first plan is issued first and only it expires, and the operator takes the first port only (`DeploymentBound`); scheduler: 3 reviews, 2 tasks, 3 places |
| `violation_*` | see Findings | the shortest set of requests that shows it |

`CHECK_DEADLOCK FALSE` is set wherever the bounds stop the environment: once all
requests, interruptions or reconnections are used up and the review is over, the
system rightly has nothing to do. The registry has callers that always can go on, so
it is checked for deadlock. In `platform` the bounds on crashes, starts and restarts
stop the parts.

In `platform` the parts interleave with nothing, so a behaviour is one of one part
(`part`), and the others stay where they are when nothing is asked of them. One user
is enough to be deleted, deactivated and reset while the administrator acts, and two
browsers to hold a stale session beside a new one; the theorems of `Accounts_proofs`
hold for any number of users, browsers and concurrent deletions.

### Fairness

* `ReviewLifecycle.FairSpec`: the event loop runs what is ready and every store call
  returns, so each task, supervisor and request makes progress. `RunExecutes`
  and the delivery of a cancellation are fair only for a first review, whose calls
  end by the HTTP timeout; the pipeline of a recheck may hang for ever, and it is its
  deadline (`DeadlinePasses` is fair: time goes on) that ends it. No request is ever
  required to arrive. A process that went down is started again.
* `InferenceService`: a notified waiter runs, and a call to the model ends, by
  answer, error or timeout. A cancellation is never required.
* `ReviewEvents`: the generator polls, the browser reads, and a run of a review ends.
  Nothing is assumed of the network: its failures are bounded, not fair.
* `ChunkReview`: the pipeline goes on; crashes, failures and resumes are free.
* `Accounts`: a deletion that was accepted goes on, as its store calls and the
  cancellations it asks for return (`DeletionStep`); requests and crashes are free.
* `ChunkScheduler`: a task that calls `get()`, or was notified in it, gets the lock.

## Findings

Each is a run that TLC must find violated, with the text of the repository that says
otherwise quoted in `PROJECT.json`.

1. `violation_stuck_resume`: `resume` in the grace period of a timed out recheck is
   accepted; `start` finds the old supervisor still in `_tasks` and returns. The
   review is queued with nobody to run it until the next restart. Slow cancellation is
   not needed for it: with `MaxFixes = 2` TLC finds, with two requests to confirm, that a
   second fix confirmed while the recheck of the first runs (`confirm_fix` looks at no
   status) opens a new attempt, `start` returns because the supervisor of the old one is
   in the slot, and that one ends without having worked on the new attempt. Two undos,
   which take no lock, come to `start` together in the same way. `lifecycle_restart`
   leaves these out (one fix within its three requests, no undo), so `ReviewEnds` and
   `NonTerminalReviewHasTask` say no more than that there; the latter is proved for any
   number of requests only when none of them confirms a fix.
2. `violation_lost_fix`: a first review saves its static findings and fails. A fix is
   previewed, as the review has ended; `resume` queues the review, and its pipeline reads
   the row; `confirm_fix`, which looks at no status, applies the candidate and answers
   `applied`. Another finding is left, so nothing is restarted. The pipeline then saves the
   row it read, with the old files (`_save_run_review` compares nothing in a first
   review): the fix is lost for good. (`undo` takes no lock and saves the row it read,
   too; that is outside the run.)
3. `violation_cancel_race`: `cancel` finds no task yet, answers `cancelled`, and the
   review goes on.
4. `violation_stale_complete`: a watcher of a recheck starts at event 0 and takes the
   end of the first run for the end of the recheck.

The model also shows behaviours that no text of the repository rules out: cancelling a
recheck first commits a retryable failure and then turns it into `cancelled`, which
`resume` refuses; `undo` leaves the state of a finding pending; a crash between the last
decision and the restart of the review leaves a fix that nothing rechecks. They are
listed among the hazards. So are three in the newer modules: a structured repair that
inserts lines above its span leaves other findings behind; a plan may be answered as
applied because another server took its port, or though a process exited after it was
looked at; a crash during a launch leaves the manifest and the processes of that plan,
of which nobody was told.

## Proofs

`InstanceRegistry_proofs` (from `RegistryAssumption`: finite callers, numeric
endpoints and limits): the type invariant; then each of `CapacityRespected`,
`OneLeasePerCaller` and `CircuitMatchesFailures` is inductive by itself or with the
type invariant; `RequestsCountLeases` needs `OneLeasePerCaller` (a grant adds a
lease that was not there) and the finiteness of the callers; `LeasesAvoidOpenCircuits`
is an action property: only `Grant` adds a lease, on an eligible endpoint whose
circuit it leaves closed.

`WaitersHaveWakers` and `RegistryImplementsPool` rest on `TokensCountLeases`, which says
the same of tokens: the tokens of an endpoint are the size of the set
`Pool!Tokens(size, LeasedTo(e))`, the pairs of a holder and a number up to its size, so
that a grant adds and a release removes a known number of them without a sum over a
set. Where no lease is held the counters are then 0, and so every caller that fits is
awake; and a grant that fits by the counters fits by the leases, which is what the pool
asks.

`ReviewLifecycle_proofs` (from `ConstantsAssumption`), for any number of tasks, requests
and restarts, where TLC saw a few:

* `LifecycleTypeCorrect`. `TypeOK` is not inductive: a handler past its first read
  writes a decision for `call.finding`, which must be a finding (`RequestsFit`), and an
  exit counted at the end of a shutdown must stay within its bound (`ExitCounted`).
  `TypeInv` is the conjunction, proved inductive action by action.
* `LockIsExclusive`. `LockExcludes` says that the holder is exactly the request past
  the lock. It is inductive with `DownIdle`: no request survives the process.
* `StaleAttemptsAreFenced`. Every write of a recheck is a compare-and-set, except the
  one in the pipeline's cancellation handler; `OnlyFirstRunsCancel`, inductive with the
  type invariant, says that no recheck reaches it.
* `ShutdownKeepsReviews`. A first review that is cancelled outside a shutdown marks its
  own row; the danger is one that was cancelled before and writes after the shutdown
  began. `ShutdownInv`: while the process is up every first review that is being
  cancelled is awaited by the request that cancelled it (`CancelsAreAwaited`), and
  shutdown begins when no request is left.
* `ClosedAttemptsStayClosed`. `start` reserves a new attempt and saves it in a later
  call. `AttemptInv` says that a reserved id is in no other copy of the row, in a task,
  a request or the store (`ReservedIsFresh`), and that decide, reopen and undo save
  copies of a review that was over (`SavedIsOver`).
* `OneStartAtATime` and `LockKeepsFixes`. `StartInv` says at which awaits each kind of
  request can be, that a review under creation has neither tasks, findings nor
  candidates (so nobody can restart it yet), and that `recover` runs alone. Everybody
  else on the way through `start` holds the lock. `undo` does not: it is the exception in
  both properties.
* `ReviewsWithoutFixesAreWorkedOn`. `NonTerminalReviewHasTask`, from the further
  assumption that no fix is confirmed (`"confirm" \notin Ops`). `WorkInv`: no copy of the
  row has a fix, so that every task is a first review (`NoFixes`); the live one is in the
  slot (`LiveInSlot`); and a review that is not over has it, or a request that will start
  the review or mark it cancelled (`HasWork`). It covers slow cancellation. With fixes the
  code does not keep the property (Findings, 1).

`InferenceService_proofs` (from `ServiceAssumption` and the registry's):

* `LeasesAreGivenBackOnce`: a release by a caller without a lease is a step of the model
  that counts it (`refused`), so the theorem rests on the service's own order of calls:
  `CallIsLease`, a caller is at the model exactly while it has a lease, holds on every path
  through answers, truncation, repair, errors and cancellation.
* `CallsAreBounded`: `CallsInv` ties the number of calls to the try and the round.
* `NoLeaseLeaks`: from the same invariant; with `RequestsCountLeases` and
  `TokensCountLeases` all counters are 0 when nobody is at the model.

`ReviewEvents_proofs` (from the module's assumption): `EveryEventIsSeenOnce` needs
`StreamInv`: the position of the generator is the browser's plus what is on the wire, in
order. `StreamsEndWithTheNews` needs that a review that is over, or was when the server
looked, has its end in the log (`EndIsLogged`). `FirstResultsAreOver` follows the news of
an end from the log over the wire to the browser: in a first run it is true at every
stage, and a stream that breaks leads to a check of the status.

`ChunkReview_proofs` (from `ChunkAssumption`: the planned ranges
are not empty; they may overlap, as the chunkers work by rows and two declarations may share one):
`ChunkInv` says that the status of a chunk fits its worker's stage, and that ids form a
tree whose inner nodes are the superseded chunks. The second is what makes the halves
of a split new ids, and so `LeavesFollowThePlan` provable: the leaves under a planned
chunk hold each of its lines once (`Partition`), since the two halves cover what
the chunk covered. Whether two planned chunks share a line is the chunkers' business. All five safety properties follow, for any plan,
depth, batch size and number of interruptions.

`FixCandidates_proofs`: `ShownDiffsAreTheFixes` is inductive once `revisions` is known
to be a sequence of records (`History`): confirming appends the text it replaces,
forgetting the oldest keeps the chain, and undo takes the last link away, for which it
must be the last that is not undone.

`FindingsFollowTheCode` is about places, and its invariant (`Positions`) needs what
the property does not mention: a candidate changes nothing outside its span
(`CandidatesReplace`), its new lines are nowhere in a text before it is confirmed
(`LinesAreNew`), a finding that was decided still knows its lines unless it is stale
(`DecidedAreLocated`), and each revision keeps ranges that go with its text
(`RangesHold`), which is what undo brings back.

`Accounts_proofs`: `AccountsTypeCorrect`, and with it `DataIsFollowing` and
`CredentialsStaySound`, each inductive with the type invariant, for any number of
users, browsers, reviews and concurrent deletions. What a crash between two
transactions leaves is part of the properties themselves: accounts whose change was
cut in two (`torn`) and files left in quarantine.

`Startup_proofs`. `AuthMigration`: the invariant says what the process knows of its working copy
at each step (`WorkIsPrepared`); `disk` is written by the commit, after the validation,
and by the store that opens what was migrated. `OnlyMigratedIsServed` and `MigrationHappensAsAWhole` follow.

`Deployment`: the request that holds the lock is the only one that launches, on the
manifest of its plan (`LockIsLaunch`); the manifest on disk, or the backup of the request
that launches, is the settled one (`ManifestIsKept`); a process that loads or serves and was
not told to terminate is of a plan that was applied, cut off or is being launched
(`ProcessesAreOwned`); a plan that can still be applied was neither (`AppliedOnce`). Hence
`PlansAreAppliedAsAWhole`.

Checked by TLC only:

* liveness and fairness (`ReviewEnds`, `RequestEnds`, `WatcherEnds`, `RunEnds`,
  `DeletionIsAnswered`, `EveryReviewIsServed`), which the prover does not handle;
* `NonTerminalReviewHasTask` when fixes are confirmed. There it is a statement about the
  bounds of `lifecycle_restart`, not a theorem: the code does not keep it beyond them
  (Findings, 1). `ReviewEnds` is checked within the same bounds.

## Not modelled

* Static analysis, evidence, prompts, routing of follow-ups, budgets, imports and
  rendering: pure functions and I/O, whose results the models choose freely. The model
  router and the health probe keep no state.
* `LoginRateLimiter`: nothing in the source constructs it, although the repository's
  README (line 81) lists a limit on logins. `cleanup_expired_reviews`
  (`api/main.py:165`) is started by nothing, so `delete_expired` is not modelled. `ChunkScheduler` is modelled, but only its tests construct it.
* Accounts: the files under `users/`, which nothing in the source writes, are there
  or not as a choice; the audit log and the lists are only read; activating several
  users is the activation of each.
* Migration without an administrator configured: the server does not migrate.
* Deployment: a failure of `DeploymentManifest.restore` itself, the search for model
  files, `instances.json`, which the program only writes.
* Lifecycle: rename and follow-up questions touch no field its guards read.
* Two pipelines on the same chunk tables (a slow orphan and its successor; siblings
  that go on after one chunk of a batch raised), and store calls that go on in their
  thread after their caller was cancelled. These are hazards with a note.
* `PositionsFollowTheCode` leaves out what the code does not promise: other findings
  after a structured repair, and a finding that was decided before the text changed.

## Plan

Done: lifecycle, registry and its abstract pool, inference, events, chunks, fixes,
accounts, migration, deployment, scheduler, and the theorems above. Next, in order:

1. `StaleChunks`: two pipelines on the same chunk tables, check-then-write fencing,
   detached siblings of a failed batch.
2. `StoreCalls`: calls that outlive their caller, sequence numbers of events.
3. An abstract review (queued, running, over; at most one open attempt) that
   `ReviewLifecycle` implements, and its proof.
4. `ReviewPage`: `watchReview` and `watchRecheckReview` at once, and the snapshots
   they apply.
5. Algorithms against reference definitions: `significant_lines`, the chunkers, the
   merge of findings, routing, budgets.

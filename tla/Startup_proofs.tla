----------------------------- MODULE Startup_proofs -----------------------------
(***************************************************************************)
(* What stands behind a server that answers: its database was migrated as  *)
(* a whole, for any reviews, accounts and versions, and its deployment was *)
(* planned and applied once or not at all, for any plans, endpoints,       *)
(* concurrent requests and restarts.                                       *)
(***************************************************************************)
EXTENDS AuthMigration, Deployment, FiniteSetTheorems, TLAPS

-----------------------------------------------------------------------------
(* AuthMigration.  Neither property is inductive: both are about the disk,  *)
(* and what makes them true is what the process knows of its working copy   *)
(* at each step.                                                            *)

IsDatabase(db) ==
    DOMAIN db = {"exists", "version", "auth", "users", "table", "owner", "constraint", "index"}

Migrated(db) ==
    /\ db.version = SchemaVersion /\ db.auth = "canonical"
    /\ db.table /\ db.constraint /\ db.index
    /\ Valid(db, Rows(db))

\* The reviews of db, with the owner they have there if they have one.
KeepsOwners(new, db) ==
    /\ Rows(new) = Rows(db)
    /\ \A r \in Rows(db) : db.owner[r] \in {new.owner[r], NoOwner}

\* What the process has done by the time it comes to a step.
WorkIsPrepared ==
    /\ IsDatabase(disk) /\ IsDatabase(work)
    /\ step \in {"tables", "rebuild", "validate"} =>
         KeepsOwners(work, disk) /\ (before.exists => before \in backups)
    /\ step \in {"rebuild", "validate"} => work.auth = "canonical"
    /\ step = "validate" => work.table /\ work.constraint /\ work.index
    /\ step \in {"inspect", "backup", "tables", "rebuild", "validate"} => disk = before
    /\ step \in {"open", "serving"} => Migrated(disk)

MigrationInv == WorkIsPrepared /\ MigrationIsAtomic

-----------------------------------------------------------------------------
\* Whoever gives up leaves the disk alone.
LEMMA FailIsHarmless ==
    ASSUME MigrationInv, Fail
    PROVE  MigrationInv'
BY DEF MigrationInv, WorkIsPrepared, MigrationIsAtomic, Fail, Go, KeepsOwners, Rows, Valid

\* A process finds a database, or one that was migrated before.
LEMMA InspectKeeps ==
    ASSUME MigrationInv, Inspect
    PROVE  MigrationInv'
<1>1. CASE Fail
    BY <1>1, FailIsHarmless
<1>2. CASE MigrationNeeded(disk) /\ Go("backup") /\ UNCHANGED <<disk, work, backups, before, starts>>
    BY <1>2 DEF MigrationInv, WorkIsPrepared, MigrationIsAtomic, Go, Rows, Valid, Inspect
<1>3. CASE /\ ~MigrationNeeded(disk) /\ Valid(disk, Rows(disk))
           /\ Go("open") /\ UNCHANGED <<disk, work, backups, before, starts>>
    <2>1. Migrated(disk)
        BY <1>3 DEF MigrationNeeded, Migrated
    <2>2. QED
        BY <1>3, <2>1 DEF MigrationInv, WorkIsPrepared, MigrationIsAtomic, Go, Rows, Valid, Inspect, Migrated
<1>4. QED
    BY <1>1, <1>2, <1>3 DEF Inspect

\* The copy of a database has its rows.
LEMMA BackupKeeps ==
    ASSUME MigrationInv, Backup
    PROVE  MigrationInv'
<1>1. IsDatabase(work') /\ work'.owner = disk.owner
    BY DEF MigrationInv, WorkIsPrepared, IsDatabase, Backup
<1>2. KeepsOwners(work', disk)
    BY <1>1 DEF KeepsOwners, Rows
<1>3. disk = before /\ UNCHANGED <<disk, before>> /\ step' = "tables" /\ backups \subseteq backups'
      /\ (disk.exists => disk \in backups')
    BY DEF MigrationInv, WorkIsPrepared, Backup, Go
<1>4. WorkIsPrepared'
    BY <1>1, <1>2, <1>3 DEF MigrationInv, WorkIsPrepared, KeepsOwners, Rows
<1>5. QED
    BY <1>3, <1>4 DEF MigrationInv, MigrationIsAtomic

\* Accounts are added, reviews are not touched.
LEMMA CreateTablesKeeps ==
    ASSUME MigrationInv, CreateTables
    PROVE  MigrationInv'
<1>1. CASE Fail
    BY <1>1, FailIsHarmless
<1>2. CASE /\ work' = [work EXCEPT !.auth = "canonical", !.users = @ \cup {TheAdmin}]
           /\ Go("rebuild") /\ UNCHANGED <<disk, backups, before, starts>>
    <2>1. IsDatabase(work') /\ work'.owner = work.owner /\ work'.auth = "canonical"
        BY <1>2 DEF MigrationInv, WorkIsPrepared, IsDatabase
    <2>2. KeepsOwners(work', disk)
        BY <2>1 DEF MigrationInv, WorkIsPrepared, CreateTables, KeepsOwners, Rows
    <2>3. disk = before /\ (before.exists => before \in backups) /\ step' = "rebuild"
        BY <1>2 DEF MigrationInv, WorkIsPrepared, CreateTables, Go
    <2>4. WorkIsPrepared'
        BY <1>2, <2>1, <2>2, <2>3 DEF MigrationInv, WorkIsPrepared, KeepsOwners, Rows
    <2>5. QED
        BY <1>2, <2>3, <2>4 DEF MigrationInv, MigrationIsAtomic
<1>3. QED
    BY <1>1, <1>2 DEF CreateTables

\* The new table has the rows of the old one; only those without owner get one.
LEMMA RebuildKeeps ==
    ASSUME MigrationInv, Rebuild
    PROVE  MigrationInv'
<1>1. /\ IsDatabase(work) /\ KeepsOwners(work, disk) /\ work.auth = "canonical"
      /\ disk = before /\ (before.exists => before \in backups)
      /\ step' = "validate" /\ UNCHANGED <<disk, backups, before>>
    BY DEF MigrationInv, WorkIsPrepared, Rebuild, Go
<1>2. /\ IsDatabase(work') /\ work'.auth = "canonical"
      /\ work'.table /\ work'.constraint /\ work'.index /\ KeepsOwners(work', disk)
    <2>1. CASE work.table /\ work.constraint
        <3>1. work' = [work EXCEPT !.index = TRUE]
            BY <2>1 DEF Rebuild
        <3>2. QED
            BY <1>1, <2>1, <3>1 DEF IsDatabase, KeepsOwners, Rows
    <2>2. CASE ~(work.table /\ work.constraint)
        <3> DEFINE given == [r \in Rows(work) |-> IF work.owner[r] = NoOwner THEN TheAdmin ELSE work.owner[r]]
        <3>1. work' = [work EXCEPT !.table = TRUE, !.constraint = TRUE, !.index = TRUE, !.owner = given]
            BY <2>2 DEF Rebuild
        <3>2. /\ DOMAIN given = Rows(work)
              /\ \A r \in Rows(work) : work.owner[r] \in {given[r], NoOwner}
            OBVIOUS
        <3> HIDE DEF given
        <3>3. /\ IsDatabase(work') /\ work'.auth = work.auth /\ work'.owner = given
              /\ work'.table /\ work'.constraint /\ work'.index
            BY <1>1, <3>1 DEF IsDatabase
        <3>4. QED
            BY <1>1, <3>2, <3>3 DEF KeepsOwners, Rows
    <2>3. QED
        BY <2>1, <2>2
<1>3. WorkIsPrepared'
    BY <1>1, <1>2 DEF MigrationInv, WorkIsPrepared, KeepsOwners, Rows
<1>4. QED
    BY <1>1, <1>3 DEF MigrationInv, MigrationIsAtomic

\* What is committed has passed _validate_migration.
LEMMA CommitKeeps ==
    ASSUME MigrationInv, ValidateAndCommit
    PROVE  MigrationInv'
<1>1. CASE Fail
    BY <1>1, FailIsHarmless
<1>2. CASE /\ Valid(work, Rows(disk)) /\ disk' = [work EXCEPT !.version = SchemaVersion] /\ work' = disk'
           /\ Go("open") /\ UNCHANGED <<backups, before, starts>>
    <2>1. /\ IsDatabase(work) /\ KeepsOwners(work, disk) /\ work.auth = "canonical"
          /\ work.table /\ work.constraint /\ work.index
          /\ disk = before /\ (before.exists => before \in backups)
        BY DEF MigrationInv, WorkIsPrepared, ValidateAndCommit
    <2>2. /\ IsDatabase(disk') /\ disk'.version = SchemaVersion
          /\ disk'.auth = work.auth /\ disk'.users = work.users /\ disk'.owner = work.owner
          /\ disk'.table = work.table /\ disk'.constraint = work.constraint /\ disk'.index = work.index
        BY <1>2, <2>1 DEF IsDatabase
    <2>3. KeepsOwners(disk', before)
        BY <2>1, <2>2 DEF KeepsOwners, Rows
    <2>4. Valid(disk', Rows(before)) /\ Rows(disk') = Rows(before)
        BY <1>2, <2>1, <2>2, <2>3 DEF Valid, Rows, KeepsOwners
    <2>5. Migrated(disk')
        BY <2>1, <2>2, <2>4 DEF Migrated
    <2>6. WorkIsPrepared'
        BY <1>2, <2>2, <2>5 DEF WorkIsPrepared, Go, Migrated, Valid, Rows, IsDatabase
    <2>7. MigrationIsAtomic'
        BY <1>2, <2>1, <2>3, <2>4 DEF MigrationIsAtomic, KeepsOwners, Valid, Rows
    <2>8. QED
        BY <2>6, <2>7 DEF MigrationInv
<1>3. QED
    BY <1>1, <1>2 DEF ValidateAndCommit

\* The store finds the version and the table it would create.
LEMMA OpenKeeps ==
    ASSUME MigrationInv, OpenStore
    PROVE  MigrationInv'
<1>1. IsDatabase(disk) /\ Migrated(disk)
    BY DEF MigrationInv, WorkIsPrepared, OpenStore
<1>2. /\ IsDatabase(disk') /\ disk'.version = SchemaVersion /\ disk.version = SchemaVersion
      /\ disk'.auth = disk.auth /\ disk'.users = disk.users /\ disk'.owner = disk.owner
      /\ disk'.table /\ disk'.constraint = disk.constraint /\ disk'.index = disk.index
    BY <1>1 DEF OpenStore, IsDatabase, Migrated
<1>3. /\ Rows(disk') = Rows(disk) /\ Valid(disk', Rows(disk'))
    BY <1>1, <1>2 DEF Migrated, Valid, Rows
<1>4. Migrated(disk')
    BY <1>1, <1>2, <1>3 DEF Migrated
<1>5. WorkIsPrepared'
    BY <1>2, <1>4 DEF OpenStore, WorkIsPrepared, Go, Migrated, Valid, Rows, IsDatabase
<1>6. KeepsOwners(disk, before)
    BY DEF MigrationInv, MigrationIsAtomic, KeepsOwners
<1>7. MigrationIsAtomic'
    BY <1>2, <1>3, <1>6 DEF OpenStore, MigrationInv, MigrationIsAtomic, KeepsOwners, Valid, Rows
<1>8. QED
    BY <1>5, <1>7 DEF MigrationInv

-----------------------------------------------------------------------------
\* Every step keeps the invariant.
LEMMA MigrationStep == MigrationInv /\ [MigrationNext]_migrationVars => MigrationInv'
<1> SUFFICES ASSUME MigrationInv, [MigrationNext]_migrationVars PROVE MigrationInv'
    OBVIOUS
<1>1. CASE Start
    BY <1>1 DEF Start, Go, MigrationInv, WorkIsPrepared, MigrationIsAtomic
<1>2. CASE Proceed
    BY <1>2, InspectKeeps, BackupKeeps, CreateTablesKeeps, RebuildKeeps, CommitKeeps, OpenKeeps DEF Proceed
<1>3. CASE Breaks \/ Dies
    BY <1>3, FailIsHarmless DEF Breaks, Dies
<1>4. CASE UNCHANGED migrationVars
    BY <1>4 DEF migrationVars, MigrationInv, WorkIsPrepared, MigrationIsAtomic, KeepsOwners, Migrated,
                Valid, Rows, IsDatabase
<1>5. QED
    BY <1>1, <1>2, <1>3, <1>4 DEF MigrationNext

LEMMA MigrationStart == MigrationInit => MigrationInv
<1> SUFFICES ASSUME MigrationInit PROVE MigrationInv
    OBVIOUS
<1>1. IsDatabase(disk)
    BY DEF MigrationInit, NoDatabase, Database, IsDatabase
<1>2. QED
    BY <1>1 DEF MigrationInit, MigrationInv, WorkIsPrepared, MigrationIsAtomic

\* The server never serves a database without accounts, without administrator or
\* with a review whose owner does not exist, whatever it found and however its
\* earlier starts were cut off.
THEOREM OnlyMigratedIsServed == MigrationSpec => []ServedDatabaseIsMigrated
<1>1. MigrationInv => ServedDatabaseIsMigrated
    BY DEF MigrationInv, WorkIsPrepared, ServedDatabaseIsMigrated, Migrated
<1>2. QED
    BY <1>1, MigrationStart, MigrationStep, PTL DEF MigrationSpec

\* A start that is cut off leaves the database it found, or the whole migration
\* of it; and no owner is taken from a review that had one.
THEOREM MigrationHappensAsAWhole == MigrationSpec => []MigrationIsAtomic
<1>1. MigrationInv => MigrationIsAtomic
    BY DEF MigrationInv
<1>2. QED
    BY <1>1, MigrationStart, MigrationStep, PTL DEF MigrationSpec

-----------------------------------------------------------------------------
(* Deployment.  That a plan is applied once speaks of the moments when no   *)
(* plan is being applied.  In between, the request that holds the lock is   *)
(* the one whose manifest is on disk, what it keeps to restore is the one   *)
(* that was settled before, and a process that was not told to terminate is *)
(* one of its plan: that is what makes the property inductive.              *)

Launching == {"spawning", "probing", "asked", "stopping"}
Running == {"loading", "serving"}
ProcessStates == {"none", "loading", "serving", "stopping", "exited"}
Applied(p) == \E i \in DOMAIN applied : applied[i] = p

\* The lock is held by the request that launches; its plan can still be applied.
LockIsLaunch ==
    /\ \A c \in Callers : apply[c].at \in Launching <=> lock = c
    /\ \A c \in Callers : apply[c].at # "idle" => apply[c].of \in Plans
    /\ \A c \in Callers : lock = c =>
         /\ plan[apply[c].of].state \in {"issued", "expired"}
         /\ manifest = apply[c].of /\ apply[c].backup \in Plans \cup {Original}

AppliedOnce ==
    /\ \A p \in Plans : plan[p].state # "gone" => ~Applied(p) /\ p \notin cut
    /\ \A p \in cut : ~Applied(p)
    /\ \A i, j \in DOMAIN applied : applied[i] = applied[j] => i = j

ManifestIsKept ==
    settled = IF lock = Nothing THEN manifest ELSE apply[lock].backup

ProcessesAreOwned ==
    \A p \in Plans, e \in Endpoints : process[p][e] \in Running =>
        Applied(p) \/ p \in cut \/ \E c \in Callers : InLaunch(c) /\ apply[c].of = p

DeploymentInv == DeploymentTypeOK /\ LockIsLaunch /\ AppliedOnce /\ ManifestIsKept /\ ProcessesAreOwned

-----------------------------------------------------------------------------
\* One more plan is the last one, and nothing else is new.
LEMMA AppendToApplied ==
    ASSUME applied \in Seq(Plans), NEW p \in Plans, applied' = Append(applied, p)
    PROVE  /\ applied' \in Seq(Plans)
           /\ \A q : Applied(q)' <=> Applied(q) \/ q = p
           /\ (~Applied(p) /\ \A i, j \in DOMAIN applied : applied[i] = applied[j] => i = j)
              => \A i, j \in DOMAIN applied' : applied'[i] = applied'[j] => i = j
<1> DEFINE n == Len(applied)
<1>1. /\ applied' \in Seq(Plans) /\ n \in Nat /\ Len(applied') = n + 1
      /\ DOMAIN applied = 1..n /\ DOMAIN applied' = 1..(n + 1)
      /\ \A i \in 1..n : applied'[i] = applied[i]
      /\ applied'[n + 1] = p /\ applied' # <<>>
    OBVIOUS
<1> HIDE DEF n
<1>3. 1..(n + 1) = 1..n \cup {n + 1} /\ n + 1 \notin 1..n
    BY <1>1
<1>4. \A q : Applied(q)' <=> Applied(q) \/ q = p
    BY <1>1, <1>3 DEF Applied
<1>5. ASSUME ~Applied(p), \A i, j \in DOMAIN applied : applied[i] = applied[j] => i = j,
             NEW i \in DOMAIN applied', NEW j \in DOMAIN applied', applied'[i] = applied'[j]
      PROVE  i = j
    BY <1>1, <1>3, <1>5 DEF Applied
<1>6. QED
    BY <1>1, <1>4, <1>5

\* Issuing and forgetting a plan, and everything the model processes do by
\* themselves, concern no request.
LEMMA PlanStepKeeps ==
    ASSUME DeploymentInv, NEW p \in Plans,
           PlanDeepseek(p) \/ PlanReuse(p) \/ PlanLaunch(p) \/ Expires(p)
    PROVE  DeploymentInv'
<1>1. Cardinality(Endpoints) \in Nat
    BY DeploymentAssumption, FS_CardinalityType
<1>2. CASE Expires(p)
    <2>1. DeploymentTypeOK'
        BY <1>2 DEF Expires, DeploymentInv, DeploymentTypeOK, Plan
    <2>2. /\ \A q \in Plans : q # p => plan'[q] = plan[q]
          /\ plan[p].state = "issued" /\ plan'[p].state = "expired"
        BY <1>2 DEF Expires, DeploymentInv, DeploymentTypeOK, Plan
    <2>3. QED
        BY <1>2, <2>1, <2>2 DEF Expires, DeploymentInv, LockIsLaunch, AppliedOnce, ManifestIsKept,
                                ProcessesAreOwned, InLaunch, Applied
<1>3. ASSUME NEW action \in {"configure_deepseek", "reuse_endpoints", "launch_local"},
             NEW is \in Configuration, Remember(p, action, is)
      PROVE  DeploymentInv'
    <2>1. DeploymentTypeOK'
        BY <1>3 DEF Remember, DeploymentInv, DeploymentTypeOK, Plan
    <2>2. /\ \A q \in Plans : q # p => plan'[q] = plan[q]
          /\ plan[p].state = "none" /\ plan'[p].state = "issued"
        BY <1>3 DEF Remember, DeploymentInv, DeploymentTypeOK
    <2>3. QED
        BY <1>3, <2>1, <2>2 DEF Remember, DeploymentInv, LockIsLaunch, AppliedOnce, ManifestIsKept,
                                ProcessesAreOwned, InLaunch, Applied
<1>4. CASE PlanDeepseek(p)
    <2>1. Deepseek \in Configuration
        BY <1>1 DEF Deepseek, Configuration
    <2>2. QED
        BY <1>3, <1>4, <2>1 DEF PlanDeepseek
<1>5. CASE PlanReuse(p)
    <2>1. PICK es \in SUBSET Healthy :
              Remember(p, "reuse_endpoints", [endpoints |-> es, devices |-> configured.devices])
        BY <1>5 DEF PlanReuse
    <2>2. configured \in Configuration
        BY DEF DeploymentInv, DeploymentTypeOK
    <2>3. [endpoints |-> es, devices |-> configured.devices] \in Configuration
        BY <2>2 DEF Configuration, Healthy
    <2>4. QED
        BY <1>3, <2>1, <2>3
<1>6. CASE PlanLaunch(p)
    <2>1. configured \in Configuration
        BY DEF DeploymentInv, DeploymentTypeOK
    <2>2. QED
        BY <1>3, <1>6, <2>1 DEF PlanLaunch
<1>7. QED
    BY <1>2, <1>4, <1>5, <1>6

LEMMA ProcessStepKeeps ==
    ASSUME DeploymentInv, NEW p \in Plans, NEW e \in Endpoints, Binds(p, e) \/ Exits(p, e)
    PROVE  DeploymentInv'
<1>1. /\ UNCHANGED <<plan, configured, apply, lock, manifest, applied, cut, settled, restarts>>
      /\ \A q \in Plans, d \in Endpoints : process'[q][d] \in Running => process[q][d] \in Running
    BY DEF Running, Binds, Exits, DeploymentInv, DeploymentTypeOK
<1>2. /\ process' \in [Plans -> [Endpoints -> ProcessStates]]
      /\ listener' \in [Endpoints -> Plans \cup {Original, Nothing}]
    <2>1. CASE Binds(p, e)
        <3>1. \/ process' = [process EXCEPT ![p][e] = "serving"] /\ listener' = [listener EXCEPT ![e] = p]
              \/ process' = [process EXCEPT ![p][e] = "exited"] /\ listener' = listener
            BY <2>1 DEF Binds
        <3>2. /\ process \in [Plans -> [Endpoints -> ProcessStates]]
              /\ listener \in [Endpoints -> Plans \cup {Original, Nothing}]
            BY DEF DeploymentInv, DeploymentTypeOK, ProcessStates
        <3>3. CASE process' = [process EXCEPT ![p][e] = "serving"] /\ listener' = [listener EXCEPT ![e] = p]
            BY <3>2, <3>3 DEF ProcessStates
        <3>4. CASE process' = [process EXCEPT ![p][e] = "exited"] /\ listener' = listener
            BY <3>2, <3>4 DEF ProcessStates
        <3>5. QED
            BY <3>1, <3>3, <3>4
    <2>2. CASE Exits(p, e)
        BY <2>2 DEF Exits, DeploymentInv, DeploymentTypeOK, ProcessStates
    <2>3. QED
        BY <2>1, <2>2
<1>3. DeploymentTypeOK'
    BY <1>1, <1>2 DEF DeploymentInv, DeploymentTypeOK, ProcessStates
<1>4. QED
    BY <1>1, <1>3 DEF DeploymentInv, LockIsLaunch, AppliedOnce, ManifestIsKept, ProcessesAreOwned,
                      InLaunch, Applied

LEMMA OperatorStepKeeps ==
    ASSUME DeploymentInv, NEW e \in Endpoints, OperatorUses(e)
    PROVE  DeploymentInv'
<1>1. UNCHANGED <<plan, configured, apply, lock, manifest, process, applied, cut, settled, restarts>>
    BY DEF OperatorUses
<1>2. listener' \in [Endpoints -> Plans \cup {Original, Nothing}]
    BY DEF OperatorUses, DeploymentInv, DeploymentTypeOK
<1>3. DeploymentTypeOK'
    BY <1>1, <1>2 DEF DeploymentInv, DeploymentTypeOK
<1>4. QED
    BY <1>1, <1>3 DEF DeploymentInv, LockIsLaunch, AppliedOnce, ManifestIsKept, ProcessesAreOwned,
                      InLaunch, Applied

\* A request that waits is not the one that holds the lock.
LEMMA PostKeeps ==
    ASSUME DeploymentInv, NEW c \in Callers, NEW p \in Plans, Post(c, p)
    PROVE  DeploymentInv'
<1>1. /\ apply[c].at = "idle" /\ apply'[c].at = "waiting"
      /\ \A d \in Callers : d # c => apply'[d] = apply[d]
      /\ apply' \in [Callers -> ApplyRequest]
    BY DEF Post, NoRequest, DeploymentInv, DeploymentTypeOK, ApplyRequest
<1>2. lock # c /\ lock' = lock /\ lock \in Callers \cup {Nothing}
    BY <1>1 DEF Post, DeploymentInv, LockIsLaunch, DeploymentTypeOK, Launching
<1>3. DeploymentTypeOK'
    BY <1>1 DEF Post, DeploymentInv, DeploymentTypeOK
<1>4. LockIsLaunch'
    BY <1>1, <1>2 DEF Post, DeploymentInv, LockIsLaunch, Launching
<1>5. QED
    BY <1>1, <1>2, <1>3, <1>4 DEF Post, DeploymentInv, AppliedOnce, ManifestIsKept, ProcessesAreOwned,
                                  InLaunch, Applied

\* A request that is answered leaves the lock free.
LEMMA AnswerFreesTheLock ==
    ASSUME DeploymentInv, NEW c \in Callers, AnswerApply(c), lock = Nothing \/ lock = c
    PROVE  /\ apply' \in [Callers -> ApplyRequest] /\ lock' = Nothing /\ lock' \in Callers \cup {Nothing}
           /\ LockIsLaunch'
           /\ \A d \in Callers : InLaunch(d) => d = c
<1>1. NoRequest \in ApplyRequest /\ NoRequest.at = "idle" /\ "idle" \notin Launching
    BY DEF NoRequest, ApplyRequest, Launching
<1>2. apply' \in [Callers -> ApplyRequest] /\ lock' = Nothing
    BY <1>1 DEF AnswerApply, DeploymentInv, DeploymentTypeOK
<1>3. \A d \in Callers : apply'[d].at \notin Launching /\ lock' # d
    BY <1>1, DeploymentAssumption DEF AnswerApply, DeploymentInv, DeploymentTypeOK, LockIsLaunch
<1>4. \A d \in Callers : apply'[d].at # "idle" => apply'[d].of \in Plans
    BY <1>1 DEF AnswerApply, DeploymentInv, DeploymentTypeOK, LockIsLaunch
<1>5. \A d \in Callers : InLaunch(d) => d = c
    BY DeploymentAssumption DEF DeploymentInv, LockIsLaunch, Launching, InLaunch
<1>6. QED
    BY <1>2, <1>3, <1>4, <1>5 DEF LockIsLaunch

-----------------------------------------------------------------------------
(* The steps of a request.                                                  *)

LEMMA RefuseKeeps ==
    ASSUME DeploymentInv, NEW c \in Callers, Refuse(c)
    PROVE  DeploymentInv'
<1>1. /\ lock = Nothing /\ AnswerApply(c)
      /\ UNCHANGED <<configured, manifest, process, listener, applied, cut, settled, restarts>>
    BY DEF Refuse, Turn
<1>2. /\ plan' \in [Plans -> Plan]
      /\ \A p \in Plans : plan'[p].state = plan[p].state \/ plan'[p].state = "gone"
    <2>1. plan \in [Plans -> Plan]
        BY DEF DeploymentInv, DeploymentTypeOK
    <2>2. plan' = plan \/ plan' = [plan EXCEPT ![apply[c].of].state = "gone"]
        BY DEF Refuse
    <2>3. apply[c].of \in Plans
        BY DEF Refuse, Turn, DeploymentInv, LockIsLaunch
    <2> DEFINE p == apply[c].of
               gone == [plan[p] EXCEPT !.state = "gone"]
    <2>4. gone \in Plan /\ gone.state = "gone"
        BY <2>1, <2>3 DEF Plan
    <2>5. plan' = plan \/ plan' = [plan EXCEPT ![p] = gone]
        BY <2>2
    <2> HIDE DEF p, gone
    <2>6. p \in Plans
        BY <2>3 DEF p
    <2>7. QED
        BY <2>1, <2>4, <2>5, <2>6
<1>3. /\ apply' \in [Callers -> ApplyRequest] /\ lock' = Nothing /\ LockIsLaunch'
      /\ \A d \in Callers : ~InLaunch(d)
    <2>1. ~InLaunch(c)
        BY DEF Refuse, Turn, InLaunch
    <2>2. QED
        BY <1>1, <2>1, AnswerFreesTheLock
<1>4. DeploymentTypeOK'
    BY <1>1, <1>2, <1>3 DEF DeploymentInv, DeploymentTypeOK
<1>5. AppliedOnce'
    BY <1>1, <1>2 DEF DeploymentInv, AppliedOnce, Applied
<1>6. ProcessesAreOwned'
    BY <1>1, <1>3 DEF DeploymentInv, ProcessesAreOwned, Applied
<1>7. QED
    BY <1>1, <1>3, <1>4, <1>5, <1>6 DEF DeploymentInv, ManifestIsKept

\* The two ways in which a plan succeeds.
LEMMA SucceedKeeps ==
    ASSUME DeploymentInv, NEW c \in Callers, Succeed(c), apply[c].of \in Plans,
           plan[apply[c].of].state # "gone", lock = Nothing \/ lock = c,
           manifest' = apply[c].of, UNCHANGED <<configured, process, listener, cut, restarts>>
    PROVE  DeploymentInv'
<1> DEFINE p == apply[c].of
<1>1. p \in Plans /\ ~Applied(p) /\ p \notin cut
    BY DEF DeploymentInv, AppliedOnce
<1>2. /\ applied' = Append(applied, p) /\ settled' = p /\ AnswerApply(c) /\ manifest' = p
      /\ plan' = [plan EXCEPT ![p].state = "gone"]
    BY DEF Succeed
<1>3. \A d \in Callers : InLaunch(d) => apply[d].of = p
    BY <1>2, AnswerFreesTheLock
<1> HIDE DEF p
<1>4. /\ applied' \in Seq(Plans)
      /\ \A q : Applied(q)' <=> Applied(q) \/ q = p
      /\ \A i, j \in DOMAIN applied' : applied'[i] = applied'[j] => i = j
    BY <1>1, <1>2, AppendToApplied DEF DeploymentInv, DeploymentTypeOK, AppliedOnce
<1>5. /\ plan' \in [Plans -> Plan] /\ plan'[p].state = "gone"
      /\ \A q \in Plans : q # p => plan'[q] = plan[q]
    BY <1>1, <1>2 DEF DeploymentInv, DeploymentTypeOK, Plan
<1>6. apply' \in [Callers -> ApplyRequest] /\ lock' = Nothing /\ LockIsLaunch'
    BY <1>2, AnswerFreesTheLock
<1>7. DeploymentTypeOK'
    BY <1>1, <1>2, <1>4, <1>5, <1>6 DEF DeploymentInv, DeploymentTypeOK
<1>8. AppliedOnce'
    BY <1>1, <1>4, <1>5 DEF DeploymentInv, AppliedOnce
<1>9. ManifestIsKept'
    BY <1>2, <1>6 DEF ManifestIsKept
<1>10. ProcessesAreOwned'
    BY <1>3, <1>4 DEF DeploymentInv, ProcessesAreOwned
<1>11. QED
    BY <1>6, <1>7, <1>8, <1>9, <1>10 DEF DeploymentInv

LEMMA BeginLaunchKeeps ==
    ASSUME DeploymentInv, NEW c \in Callers, BeginLaunch(c)
    PROVE  DeploymentInv'
<1> DEFINE p == apply[c].of
           request == [of |-> p, at |-> "spawning", left |-> plan[p].is.endpoints, backup |-> manifest]
<1>1. /\ lock = Nothing /\ lock' = c /\ manifest' = p
      /\ apply' = [apply EXCEPT ![c] = request]
      /\ plan[p].state = "issued" /\ plan[p].is = configured
      /\ UNCHANGED <<plan, configured, process, listener, applied, cut, settled, restarts>>
    BY DEF BeginLaunch, PlanAccepted, Turn
<1>2. p \in Plans
    BY DEF BeginLaunch, PlanAccepted, Turn, DeploymentInv, LockIsLaunch
<1>3. request \in ApplyRequest /\ request.of = p /\ request.at = "spawning" /\ request.backup = manifest
    BY <1>1, <1>2 DEF DeploymentInv, DeploymentTypeOK, ApplyRequest, Configuration
<1> HIDE DEF p, request
<1>4. /\ apply' \in [Callers -> ApplyRequest] /\ apply'[c] = request
      /\ \A d \in Callers : d # c => apply'[d] = apply[d]
    BY <1>1, <1>3 DEF DeploymentInv, DeploymentTypeOK
<1>5. DeploymentTypeOK'
    BY <1>1, <1>2, <1>4 DEF DeploymentInv, DeploymentTypeOK
<1>6. LockIsLaunch'
    <2>1. \A d \in Callers : apply[d].at \notin Launching
        BY <1>1, DeploymentAssumption DEF DeploymentInv, LockIsLaunch
    <2>2. QED
        BY <1>1, <1>2, <1>3, <1>4, <2>1 DEF DeploymentInv, DeploymentTypeOK, LockIsLaunch, Launching
<1>7. ManifestIsKept'
    BY <1>1, <1>3, <1>4, DeploymentAssumption DEF DeploymentInv, ManifestIsKept
<1>8. ProcessesAreOwned'
    <2>1. \A d \in Callers : ~InLaunch(d)
        BY <1>1, DeploymentAssumption DEF DeploymentInv, LockIsLaunch, Launching, InLaunch
    <2>2. QED
        BY <1>1, <2>1 DEF DeploymentInv, ProcessesAreOwned, Applied
<1>9. QED
    BY <1>1, <1>5, <1>6, <1>7, <1>8 DEF DeploymentInv, AppliedOnce, Applied

\* A request that goes on with its launch holds the lock before and after, for the
\* same plan and with the same backup.
LEMMA LaunchGoesOn ==
    ASSUME DeploymentInv, NEW c \in Callers, apply[c].at \in Launching,
           NEW next \in ApplyRequest, apply' = [apply EXCEPT ![c] = next],
           next.at \in Launching, next.of = apply[c].of, next.backup = apply[c].backup,
           UNCHANGED <<plan, lock, manifest, applied, cut, settled>>
    PROVE  /\ apply' \in [Callers -> ApplyRequest]
           /\ lock = c /\ apply[c].of \in Plans
           /\ LockIsLaunch' /\ AppliedOnce' /\ ManifestIsKept'
<1>1. /\ apply' \in [Callers -> ApplyRequest] /\ apply'[c] = next
      /\ \A d \in Callers : d # c => apply'[d] = apply[d]
    BY DEF DeploymentInv, DeploymentTypeOK
<1>2. lock = c /\ lock # Nothing /\ apply[c].of \in Plans
    BY DeploymentAssumption DEF DeploymentInv, LockIsLaunch, Launching
<1>3. LockIsLaunch'
    BY <1>1, <1>2 DEF DeploymentInv, LockIsLaunch
<1>4. ManifestIsKept'
    BY <1>1, <1>2 DEF DeploymentInv, ManifestIsKept
<1>5. AppliedOnce'
    BY DEF DeploymentInv, AppliedOnce, Applied
<1>6. QED
    BY <1>1, <1>2, <1>3, <1>4, <1>5

\* A process is started for the plan of the request that holds the lock.
LEMMA SpawnKeeps ==
    ASSUME DeploymentInv, NEW c \in Callers, Spawn(c)
    PROVE  DeploymentInv'
<1> DEFINE p == apply[c].of
<1>1. PICK e \in apply[c].left :
         /\ process' = [process EXCEPT ![p][e] = "loading"]
         /\ apply' = [apply EXCEPT ![c].left = @ \ {e},
                                   ![c].at = IF apply[c].left = {e} THEN "probing" ELSE @]
    BY DEF Spawn
<1> DEFINE next == [apply[c] EXCEPT !.left = @ \ {e}, !.at = IF apply[c].left = {e} THEN "probing" ELSE @]
<1>2. /\ apply[c].at = "spawning" /\ apply[c] \in ApplyRequest
      /\ UNCHANGED <<plan, configured, lock, manifest, listener, applied, cut, settled, restarts>>
    BY DEF Spawn, DeploymentInv, DeploymentTypeOK
<1>3. /\ next \in ApplyRequest /\ next.of = p /\ next.at \in {"spawning", "probing"}
      /\ next.backup = apply[c].backup /\ e \in Endpoints
    BY <1>2 DEF ApplyRequest
<1>4. apply' = [apply EXCEPT ![c] = next]
    BY <1>1 DEF DeploymentInv, DeploymentTypeOK
<1> HIDE DEF next
<1>5. /\ apply' \in [Callers -> ApplyRequest] /\ apply'[c] = next
      /\ \A d \in Callers : d # c => apply'[d] = apply[d]
    BY <1>3, <1>4 DEF DeploymentInv, DeploymentTypeOK
<1>6. p \in Plans /\ LockIsLaunch' /\ AppliedOnce' /\ ManifestIsKept'
    <2>1. apply[c].at \in Launching /\ next.at \in Launching
        BY <1>2, <1>3 DEF Launching
    <2>2. QED
        BY <1>2, <1>3, <1>4, <2>1, LaunchGoesOn
<1> HIDE DEF p
<1>7. /\ process' \in [Plans -> [Endpoints -> ProcessStates]]
      /\ \A q \in Plans : q # p => process'[q] = process[q]
    BY <1>1, <1>3, <1>6 DEF DeploymentInv, DeploymentTypeOK, ProcessStates
<1>8. DeploymentTypeOK'
    BY <1>2, <1>5, <1>7 DEF DeploymentInv, DeploymentTypeOK, ProcessStates
<1>9. ProcessesAreOwned'
    <2>1. InLaunch(c)' /\ apply'[c].of = p
        BY <1>3, <1>5 DEF InLaunch
    <2>2. ASSUME NEW q \in Plans, q # p, NEW d \in Callers, InLaunch(d), apply[d].of = q
          PROVE  InLaunch(d)' /\ apply'[d].of = q
        BY <2>2, <1>5 DEF p, InLaunch
    <2>3. QED
        BY <1>2, <1>7, <2>1, <2>2 DEF DeploymentInv, ProcessesAreOwned, Applied
<1>10. QED
    BY <1>6, <1>8, <1>9 DEF DeploymentInv

\* Asking for the health of the endpoints changes nothing but the request.
LEMMA ReadinessKeeps ==
    ASSUME DeploymentInv, NEW c \in Callers, AskHealth(c) \/ EndpointAnswers(c) \/ AsksAgain(c)
    PROVE  DeploymentInv'
<1>1. /\ apply[c].at \in {"probing", "asked"} /\ apply[c] \in ApplyRequest
      /\ UNCHANGED <<plan, configured, lock, manifest, process, listener, applied, cut, settled, restarts>>
    BY DEF AskHealth, EndpointAnswers, AsksAgain, DeploymentInv, DeploymentTypeOK
<1>2. apply[c].of \in Plans
    BY <1>1 DEF DeploymentInv, LockIsLaunch
<1>3. PICK at \in {"probing", "asked"}, left \in SUBSET Endpoints :
         apply' = [apply EXCEPT ![c].at = at, ![c].left = left]
    <2>1. CASE AskHealth(c)
        <3>1. plan[apply[c].of].is.endpoints \in SUBSET Endpoints
            BY <1>2 DEF DeploymentInv, DeploymentTypeOK, Plan, Configuration
        <3>2. QED
            BY <2>1, <3>1 DEF AskHealth
    <2>2. CASE EndpointAnswers(c)
        <3>1. PICK e \in apply[c].left : apply' = [apply EXCEPT ![c].left = @ \ {e}]
            BY <2>2 DEF EndpointAnswers
        <3>2. apply[c].left \ {e} \in SUBSET Endpoints
            BY <1>1 DEF ApplyRequest
        <3>3. apply' = [apply EXCEPT ![c].at = apply[c].at, ![c].left = apply[c].left \ {e}]
            BY <1>1, <3>1 DEF ApplyRequest, DeploymentInv, DeploymentTypeOK
        <3>4. QED
            BY <1>1, <3>2, <3>3
    <2>3. CASE AsksAgain(c)
        BY <2>3 DEF AsksAgain
    <2>4. QED
        BY <2>1, <2>2, <2>3
<1> DEFINE next == [apply[c] EXCEPT !.at = at, !.left = left]
<1>4. /\ next \in ApplyRequest /\ next.of = apply[c].of /\ next.at \in {"probing", "asked"}
      /\ next.backup = apply[c].backup
    BY <1>1 DEF ApplyRequest
<1>5. apply' = [apply EXCEPT ![c] = next]
    BY <1>3 DEF DeploymentInv, DeploymentTypeOK
<1> HIDE DEF next
<1>6. /\ apply' \in [Callers -> ApplyRequest] /\ apply'[c] = next
      /\ \A d \in Callers : d # c => apply'[d] = apply[d]
    BY <1>4, <1>5 DEF DeploymentInv, DeploymentTypeOK
<1>7. LockIsLaunch' /\ AppliedOnce' /\ ManifestIsKept'
    <2>1. apply[c].at \in Launching /\ next.at \in Launching
        BY <1>1, <1>4 DEF Launching
    <2>2. QED
        BY <1>1, <1>4, <1>5, <2>1, LaunchGoesOn
<1>8. DeploymentTypeOK'
    BY <1>1, <1>6 DEF DeploymentInv, DeploymentTypeOK
<1>9. ProcessesAreOwned'
    <2>1. \A d \in Callers : InLaunch(d) => InLaunch(d)' /\ apply'[d].of = apply[d].of
        BY <1>4, <1>6 DEF InLaunch
    <2>2. QED
        BY <1>1, <2>1 DEF DeploymentInv, ProcessesAreOwned, Applied
<1>10. QED
    BY <1>7, <1>8, <1>9 DEF DeploymentInv

\* Everything that was started is told to terminate.
LEMMA LaunchFailsKeeps ==
    ASSUME DeploymentInv, NEW c \in Callers, LaunchFails(c)
    PROVE  DeploymentInv'
<1> DEFINE p == apply[c].of
           next == [apply[c] EXCEPT !.at = "stopping", !.left = {}]
<1>1. /\ InLaunch(c) /\ apply[c] \in ApplyRequest
      /\ process' = [process EXCEPT ![p] = [e \in Endpoints |->
                       IF process[p][e] \in {"loading", "serving"} THEN "stopping" ELSE process[p][e]]]
      /\ apply' = [apply EXCEPT ![c].at = "stopping", ![c].left = {}]
      /\ UNCHANGED <<plan, configured, lock, manifest, listener, applied, cut, settled, restarts>>
    <2>1. p \in Plans /\ apply[c] \in ApplyRequest
        BY DEF LaunchFails, InLaunch, DeploymentInv, DeploymentTypeOK, LockIsLaunch
    <2>2. QED
        BY <2>1 DEF LaunchFails, DeploymentInv, DeploymentTypeOK
<1>2. /\ next \in ApplyRequest /\ next.of = p /\ next.at = "stopping" /\ next.backup = apply[c].backup
    BY <1>1 DEF ApplyRequest
<1>3. apply' = [apply EXCEPT ![c] = next]
    BY <1>1 DEF DeploymentInv, DeploymentTypeOK
<1> HIDE DEF next
<1>4. /\ apply' \in [Callers -> ApplyRequest] /\ apply'[c] = next
      /\ \A d \in Callers : d # c => apply'[d] = apply[d]
    BY <1>2, <1>3 DEF DeploymentInv, DeploymentTypeOK
<1>5. p \in Plans /\ LockIsLaunch' /\ AppliedOnce' /\ ManifestIsKept'
    <2>1. apply[c].at \in Launching /\ next.at \in Launching
        BY <1>1, <1>2 DEF Launching, InLaunch
    <2>2. QED
        BY <1>1, <1>2, <1>3, <2>1, LaunchGoesOn
<1> HIDE DEF p
<1>6. /\ process' \in [Plans -> [Endpoints -> ProcessStates]]
      /\ \A q \in Plans : q # p => process'[q] = process[q]
      /\ \A e \in Endpoints : process'[p][e] \notin Running
    BY <1>1, <1>5 DEF DeploymentInv, DeploymentTypeOK, ProcessStates, Running
<1>7. DeploymentTypeOK'
    BY <1>1, <1>4, <1>6 DEF DeploymentInv, DeploymentTypeOK, ProcessStates
<1>8. ProcessesAreOwned'
    <2>1. ASSUME NEW q \in Plans, q # p, NEW d \in Callers, InLaunch(d), apply[d].of = q
          PROVE  InLaunch(d)' /\ apply'[d].of = q
        BY <2>1, <1>4 DEF p, InLaunch
    <2>2. QED
        BY <1>1, <1>6, <2>1 DEF DeploymentInv, ProcessesAreOwned, Applied
<1>9. QED
    BY <1>5, <1>7, <1>8 DEF DeploymentInv

\* What was there before is there again, whether or not everything has exited.
LEMMA RestoreKeeps ==
    ASSUME DeploymentInv, NEW c \in Callers, Restore(c)
    PROVE  DeploymentInv'
<1>1. /\ apply[c].at = "stopping" /\ manifest' = apply[c].backup /\ AnswerApply(c)
      /\ UNCHANGED <<plan, configured, process, listener, applied, cut, settled, restarts>>
    BY DEF Restore
<1>2. lock = c /\ lock # Nothing
    BY <1>1, DeploymentAssumption DEF DeploymentInv, LockIsLaunch, Launching
<1>3. /\ apply' \in [Callers -> ApplyRequest] /\ lock' = Nothing /\ LockIsLaunch'
      /\ \A d \in Callers : ~InLaunch(d)
    <2>1. ~InLaunch(c)
        BY <1>1 DEF InLaunch
    <2>2. QED
        BY <1>1, <1>2, <2>1, AnswerFreesTheLock
<1>4. manifest' \in Plans \cup {Original}
    BY <1>1, <1>2 DEF DeploymentInv, LockIsLaunch
<1>5. DeploymentTypeOK'
    BY <1>1, <1>3, <1>4 DEF DeploymentInv, DeploymentTypeOK
<1>6. AppliedOnce' /\ ProcessesAreOwned'
    BY <1>1, <1>3 DEF DeploymentInv, AppliedOnce, ProcessesAreOwned, Applied
<1>7. ManifestIsKept'
    BY <1>1, <1>2, <1>3 DEF DeploymentInv, ManifestIsKept
<1>8. QED
    BY <1>3, <1>5, <1>6, <1>7 DEF DeploymentInv

\* A crash in the middle of an apply is what cut records.
LEMMA RestartServerKeeps ==
    ASSUME DeploymentInv, RestartServer
    PROVE  DeploymentInv'
<1>1. /\ plan' \in [Plans -> Plan]
      /\ \A p \in Plans : plan'[p].state = "gone" \/ (plan'[p].state = "none" /\ plan[p].state = "none")
    BY DEF RestartServer, DeploymentInv, DeploymentTypeOK, Plan
<1>2. /\ apply' = [c \in Callers |-> NoRequest] /\ lock' = Nothing
      /\ UNCHANGED <<process, listener, applied>>
      /\ restarts' = restarts + 1
    BY DEF RestartServer
<1>3. \/ UNCHANGED <<manifest, cut, settled>> /\ lock = Nothing
      \/ \E p \in Plans : /\ plan[p].state \in {"issued", "expired"}
                          /\ manifest' = p /\ settled' = p /\ cut' = cut \cup {p}
                          /\ \A c \in Callers : InLaunch(c) => apply[c].of = p
    <2>1. PICK accepted \in {c \in Callers : PlanAccepted(c)} \cup {Nothing} :
             LET off == IF accepted # Nothing THEN accepted ELSE lock
             IN  /\ manifest' = IF accepted # Nothing THEN apply[accepted].of ELSE manifest
                 /\ cut' = IF off # Nothing THEN cut \cup {apply[off].of} ELSE cut
                 /\ settled' = IF off # Nothing THEN apply[off].of ELSE settled
        BY DEF RestartServer
    <2>2. CASE accepted = Nothing /\ lock = Nothing
        BY <2>1, <2>2
    <2>3. CASE accepted = Nothing /\ lock # Nothing
        <3>1. lock \in Callers /\ apply[lock].of \in Plans /\ manifest = apply[lock].of
              /\ plan[apply[lock].of].state \in {"issued", "expired"}
            BY <2>3 DEF DeploymentInv, DeploymentTypeOK, LockIsLaunch, Launching
        <3>2. \A c \in Callers : InLaunch(c) => c = lock
            BY DEF DeploymentInv, LockIsLaunch, Launching, InLaunch
        <3>3. QED
            BY <2>1, <2>3, <3>1, <3>2
    <2>4. CASE accepted # Nothing
        <3>1. accepted \in Callers /\ apply[accepted].of \in Plans /\ lock = Nothing
              /\ plan[apply[accepted].of].state = "issued"
            BY <2>4 DEF PlanAccepted, Turn, DeploymentInv, LockIsLaunch
        <3>2. \A c \in Callers : ~InLaunch(c)
            BY <3>1, DeploymentAssumption DEF DeploymentInv, LockIsLaunch, Launching, InLaunch
        <3>3. QED
            BY <2>1, <2>4, <3>1, <3>2
    <2>5. QED
        BY <2>2, <2>3, <2>4
<1>4. configured' \in Configuration /\ manifest' \in Plans \cup {Original}
    <2>1. Local \in Configuration
        BY DeploymentAssumption, FS_CardinalityType DEF Local, Configuration
    <2>2. manifest' \in Plans \cup {Original}
        BY <1>3 DEF DeploymentInv, DeploymentTypeOK
    <2>3. QED
        BY <2>1, <2>2 DEF RestartServer, DeploymentInv, DeploymentTypeOK, Plan
<1>5. NoRequest \in ApplyRequest /\ NoRequest.at = "idle" /\ "idle" \notin Launching
    BY DEF NoRequest, ApplyRequest, Launching
<1>6. cut' \subseteq Plans /\ settled' \in Plans \cup {Original}
    BY <1>3 DEF DeploymentInv, DeploymentTypeOK
<1>7. DeploymentTypeOK'
    BY <1>1, <1>2, <1>4, <1>5, <1>6 DEF DeploymentInv, DeploymentTypeOK
<1>8. LockIsLaunch'
    BY <1>2, <1>5, DeploymentAssumption DEF LockIsLaunch
<1>9. AppliedOnce'
    BY <1>1, <1>2, <1>3 DEF DeploymentInv, AppliedOnce, Applied
<1>10. ManifestIsKept'
    BY <1>2, <1>3 DEF DeploymentInv, ManifestIsKept
<1>11. ProcessesAreOwned'
    <2>1. lock = Nothing => \A c \in Callers : ~InLaunch(c)
        BY DeploymentAssumption DEF DeploymentInv, LockIsLaunch, Launching, InLaunch
    <2>2. QED
        BY <1>2, <1>3, <2>1 DEF DeploymentInv, ProcessesAreOwned, Applied
<1>12. QED
    BY <1>7, <1>8, <1>9, <1>10, <1>11 DEF DeploymentInv

-----------------------------------------------------------------------------
LEMMA DeploymentStep == DeploymentInv /\ [DeploymentNext]_deploymentVars => DeploymentInv'
<1> SUFFICES ASSUME DeploymentInv, [DeploymentNext]_deploymentVars PROVE DeploymentInv'
    OBVIOUS
<1>1. ASSUME NEW c \in Callers, ApplyStep(c) PROVE DeploymentInv'
    <2>1. CASE ApplyAtOnce(c)
        BY <2>1, SucceedKeeps DEF ApplyAtOnce, PlanAccepted, Turn, DeploymentInv, LockIsLaunch
    <2>2. CASE BecomesReady(c)
        <3>1. /\ lock = c /\ apply[c].of \in Plans /\ plan[apply[c].of].state # "gone"
              /\ manifest = apply[c].of
            BY <2>2 DEF BecomesReady, DeploymentInv, LockIsLaunch, Launching
        <3>2. QED
            BY <2>2, <3>1, SucceedKeeps DEF BecomesReady
    <2>3. QED
        BY <1>1, <2>1, <2>2, RefuseKeeps, BeginLaunchKeeps, SpawnKeeps, ReadinessKeeps, LaunchFailsKeeps,
           RestoreKeeps DEF ApplyStep, Terminated, CancelledAgain
<1>2. ASSUME NEW c \in Callers, NEW p \in Plans, Post(c, p) PROVE DeploymentInv'
    BY <1>2, PostKeeps
<1>3. ASSUME NEW p \in Plans, PlanDeepseek(p) \/ PlanReuse(p) \/ PlanLaunch(p) \/ Expires(p)
      PROVE  DeploymentInv'
    BY <1>3, PlanStepKeeps
<1>4. ASSUME NEW p \in Plans, NEW e \in Endpoints, Binds(p, e) \/ Exits(p, e) PROVE DeploymentInv'
    BY <1>4, ProcessStepKeeps
<1>5. ASSUME NEW e \in Endpoints, OperatorUses(e) PROVE DeploymentInv'
    BY <1>5, OperatorStepKeeps
<1>6. CASE RestartServer
    BY <1>6, RestartServerKeeps
<1>7. CASE UNCHANGED deploymentVars
    BY <1>7 DEF deploymentVars, DeploymentInv, DeploymentTypeOK, LockIsLaunch, AppliedOnce, ManifestIsKept,
                ProcessesAreOwned, InLaunch, Applied
<1>8. QED
    BY <1>1, <1>2, <1>3, <1>4, <1>5, <1>6, <1>7 DEF DeploymentNext

LEMMA DeploymentStart == DeploymentInit => DeploymentInv
<1> SUFFICES ASSUME DeploymentInit PROVE DeploymentInv
    OBVIOUS
<1>1. Cardinality(Endpoints) \in Nat
    BY DeploymentAssumption, FS_CardinalityType
<1>2. Local \in Configuration /\ Deepseek \in Configuration /\ NoRequest \in ApplyRequest
    BY <1>1 DEF Local, Deepseek, Configuration, NoRequest, ApplyRequest
<1>3. DeploymentTypeOK
    <2>1. [state |-> "none", action |-> "configure_deepseek", is |-> Deepseek] \in Plan
        BY <1>2 DEF Plan
    <2>2. plan \in [Plans -> Plan] /\ apply \in [Callers -> ApplyRequest] /\ configured \in Configuration
        BY <1>2, <2>1 DEF DeploymentInit
    <2>3. /\ process \in [Plans -> [Endpoints -> ProcessStates]]
          /\ listener \in [Endpoints -> Plans \cup {Original, Nothing}]
          /\ applied \in Seq(Plans)
        BY DEF DeploymentInit, ProcessStates
    <2>4. QED
        BY <2>2, <2>3 DEF DeploymentInit, DeploymentTypeOK, ProcessStates
<1>4. QED
    BY <1>3, DeploymentAssumption
       DEF DeploymentInit, DeploymentInv, LockIsLaunch, AppliedOnce, ManifestIsKept, ProcessesAreOwned,
           Running, Applied, NoRequest, Launching

\* However requests, failures, expiry, crashes and the model processes interleave:
\* no plan is applied twice, a request that fails leaves the manifest it found and
\* no process it did not tell to terminate, and a crash leaves those of the plan
\* that it cut off.
THEOREM PlansAreAppliedAsAWhole == DeploymentSpec => []DeploymentIsAllOrNothing
<1>1. DeploymentInv => DeploymentIsAllOrNothing
    <2> SUFFICES ASSUME DeploymentInv PROVE DeploymentIsAllOrNothing
        OBVIOUS
    <2>1. lock = Nothing => \A c \in Callers : ~InLaunch(c)
        BY DeploymentAssumption DEF DeploymentInv, LockIsLaunch, Launching, InLaunch
    <2>2. QED
        BY <2>1 DEF DeploymentInv, AppliedOnce, ManifestIsKept, ProcessesAreOwned, Running, Applied,
                    DeploymentIsAllOrNothing
<1>2. QED
    BY <1>1, DeploymentStart, DeploymentStep, PTL DEF DeploymentSpec

=================================================================================

----------------------------- MODULE AuthMigration -----------------------------
(***************************************************************************)
(* What the server does to the database before it serves: the migration to *)
(* the schema with accounts (migrate_auth_schema) and the opening of the   *)
(* review store (SQLiteReviewStore._initialize).  The migration is one     *)
(* transaction on a working copy; a crash, or an exception at any of its   *)
(* statements, leaves the disk as it was, and the operator starts again.   *)
(* The name and password of an administrator are configured; a server      *)
(* without them does not migrate.                                          *)
(***************************************************************************)
EXTENDS Naturals, FiniteSets

CONSTANTS
    OldReviews,     \* reviews in the database when the server is first started
    Owners,         \* accounts that own some of them already
    TheAdmin,       \* the administrator
    NoOwner,        \* owner_id IS NULL
    Versions,       \* values of PRAGMA user_version
    MaxStarts       \* bound: how often the operator starts the server

SchemaVersion == 3

ASSUME MigrationAssumption ==
    /\ IsFiniteSet(OldReviews)
    /\ TheAdmin \notin Owners /\ NoOwner \notin Owners \cup {TheAdmin}
    /\ SchemaVersion \in Versions /\ Versions \subseteq Nat /\ MaxStarts \in Nat

VARIABLES
    disk,       \* the committed database
    work,       \* the transaction's view of it
    backups,    \* copies made by _backup_database
    step,       \* what the starting process does next
    before,     \* ghost: the database this process found
    starts

migrationVars == <<disk, work, backups, step, before, starts>>

\* exists: the file; auth: the three tables and one_admin, "partial" when some of them
\* are missing, "other" when one is not as it should be; users: the rows of users;
\* table: review_sessions and its rows' owners; constraint: owner_id NOT NULL
\* REFERENCES users; index: idx_review_sessions_owner_created.
Database ==
    [exists : BOOLEAN, version : Versions \cup {0},
     auth : {"absent", "partial", "other", "canonical"}, users : SUBSET (Owners \cup {TheAdmin}),
     table : BOOLEAN, owner : UNION {[rows -> Owners \cup {TheAdmin, NoOwner}] : rows \in SUBSET OldReviews},
     constraint : BOOLEAN, index : BOOLEAN]

NoDatabase ==
    [exists |-> FALSE, version |-> 0, auth |-> "absent", users |-> {}, table |-> FALSE,
     owner |-> <<>>, constraint |-> FALSE, index |-> FALSE]

Rows(db) == DOMAIN db.owner

\* Databases that earlier versions of the program, or an operator, have left.
Found(db) ==
    /\ db.exists
    /\ db.users # {} => db.auth # "absent"
    /\ ~db.table => Rows(db) = {} /\ ~db.constraint /\ ~db.index
    /\ db.table => Rows(db) = OldReviews
    /\ db.constraint => \A r \in Rows(db) : db.owner[r] # NoOwner

MigrationInit ==
    /\ disk \in {NoDatabase} \cup {db \in Database : Found(db)}
    /\ work = disk /\ before = disk
    /\ backups = {} /\ step = "stopped" /\ starts = 0

-----------------------------------------------------------------------------
(* One process.                                                             *)

Go(next) == step' = next
Fail == work' = disk /\ Go("stopped") /\ UNCHANGED <<disk, backups, before, starts>>

Start ==
    /\ step = "stopped" /\ starts < MaxStarts
    /\ starts' = starts + 1
    /\ before' = disk
    /\ Go("inspect")
    /\ UNCHANGED <<disk, work, backups>>

\* _migration_needed
MigrationNeeded(db) ==
    ~ /\ db.exists
      /\ db.version = SchemaVersion /\ db.auth = "canonical"
      /\ TheAdmin \in db.users
      /\ db.table /\ db.constraint /\ db.index

\* _validate_migration: one administrator, no row lost or without owner, and no
\* reference to an account that does not exist.
Valid(db, rows) ==
    /\ TheAdmin \in db.users
    /\ db.table =>
         /\ Rows(db) = rows
         /\ NoOwner \notin {db.owner[r] : r \in Rows(db)}
         /\ db.constraint /\ db.index
    /\ \A r \in Rows(db) : db.owner[r] \in db.users

\* A newer schema is refused; a current one is only validated.
Inspect ==
    /\ step = "inspect"
    /\ \/ disk.version > SchemaVersion /\ Fail
       \/ /\ disk.version <= SchemaVersion
          /\ \/ /\ MigrationNeeded(disk)
                /\ Go("backup")
                /\ UNCHANGED <<disk, work, backups, before, starts>>
             \/ /\ ~MigrationNeeded(disk)
                /\ IF Valid(disk, Rows(disk))
                   THEN Go("open") /\ UNCHANGED <<disk, work, backups, before, starts>>
                   ELSE Fail

\* _backup_database, then BEGIN IMMEDIATE.
Backup ==
    /\ step = "backup"
    /\ backups' = IF disk.exists THEN backups \cup {disk} ELSE backups
    /\ work' = [disk EXCEPT !.exists = TRUE]
    /\ Go("tables")
    /\ UNCHANGED <<disk, before, starts>>

\* CREATE ... IF NOT EXISTS adds what is missing and leaves a table that is there as
\* it is, so an unknown schema is found by _validate_auth_schema and refused.
CreateTables ==
    /\ step = "tables"
    /\ IF work.auth = "other"
       THEN Fail
       ELSE /\ work' = [work EXCEPT !.auth = "canonical", !.users = @ \cup {TheAdmin}]
            /\ Go("rebuild")
            /\ UNCHANGED <<disk, backups, before, starts>>

\* Seeded mistake: every review is given to the administrator.
RebuildTakesAll ==
    /\ step = "rebuild"
    /\ work' = [work EXCEPT !.table = TRUE, !.constraint = TRUE, !.index = TRUE,
                            !.owner = [r \in Rows(work) |-> TheAdmin]]
    /\ Go("validate")
    /\ UNCHANGED <<disk, backups, before, starts>>

\* _rebuild_review_sessions: the rows are copied to a table with the final
\* constraint, those without owner to the administrator, and the old table is
\* dropped; a table that has the constraint only gets its index.
Rebuild ==
    /\ step = "rebuild"
    /\ work' =
         IF work.table /\ work.constraint
         THEN [work EXCEPT !.index = TRUE]
         ELSE [work EXCEPT !.table = TRUE, !.constraint = TRUE, !.index = TRUE,
                           !.owner = [r \in Rows(work) |->
                                        IF work.owner[r] = NoOwner THEN TheAdmin ELSE work.owner[r]]]
    /\ Go("validate")
    /\ UNCHANGED <<disk, backups, before, starts>>

\* Seeded mistake: the copy is committed before it is validated.
CommitUnvalidated ==
    /\ step = "validate"
    /\ disk' = [work EXCEPT !.version = SchemaVersion] /\ work' = disk'
    /\ Go("open")
    /\ UNCHANGED <<backups, before, starts>>

\* The new version number is committed with the tables it describes.
ValidateAndCommit ==
    /\ step = "validate"
    /\ IF Valid(work, Rows(disk))
       THEN /\ disk' = [work EXCEPT !.version = SchemaVersion] /\ work' = disk'
            /\ Go("open")
            /\ UNCHANGED <<backups, before, starts>>
       ELSE Fail

\* SQLiteReviewStore._initialize: a table that is missing is created (this one
\* without reference to an account), and the version is set.
OpenStore ==
    /\ step = "open"
    /\ disk' = [disk EXCEPT !.version = SchemaVersion, !.table = TRUE]
    /\ work' = disk'
    /\ Go("serving")
    /\ UNCHANGED <<backups, before, starts>>

\* An exception of SQLite or of the file system; rollback and close.
Breaks == step \in {"inspect", "backup", "tables", "rebuild", "validate"} /\ Fail

\* The process dies, also while it serves.
Dies == step # "stopped" /\ Fail

Proceed == Inspect \/ Backup \/ CreateTables \/ Rebuild \/ ValidateAndCommit \/ OpenStore

MigrationNext == Start \/ Proceed \/ Breaks \/ Dies

MigrationSpec == MigrationInit /\ [][MigrationNext]_migrationVars

-----------------------------------------------------------------------------
MigrationTypeOK ==
    /\ disk \in Database \cup {NoDatabase} /\ work \in Database \cup {NoDatabase}
    /\ before \in Database \cup {NoDatabase}
    /\ backups \subseteq Database
    /\ step \in {"stopped", "inspect", "backup", "tables", "rebuild", "validate", "open", "serving"}
    /\ starts \in 0..MaxStarts

\* A database that is served has accounts, an administrator and an existing owner
\* for every review, although only a fraction of this is looked at when the
\* version number says that nothing is to be done.
ServedDatabaseIsMigrated ==
    step = "serving" =>
        /\ disk.version = SchemaVersion /\ disk.auth = "canonical"
        /\ disk.constraint /\ disk.index
        /\ Valid(disk, Rows(disk))

\* Wherever a start is cut off, the disk holds the database that was found or the
\* whole migration of it: the same reviews, each with the owner it had if it had
\* one; and while a change is under way the database as it was is in a backup.
MigrationIsAtomic ==
    /\ \/ disk = before
       \/ /\ Valid(disk, Rows(before))
          /\ Rows(disk) = Rows(before)
          /\ \A r \in Rows(before) : before.owner[r] \in {disk.owner[r], NoOwner}
    /\ before.exists /\ disk.version # before.version => before \in backups

=============================================================================

------------------------------- MODULE Accounts -------------------------------
(***************************************************************************)
(* Accounts, login sessions and the data an account owns: AuthService,     *)
(* UserAdminService, SQLiteAuthStore and UserDataPurger behind the         *)
(* authentication middleware.                                              *)
(*                                                                         *)
(* The methods of SQLiteAuthStore contain no await, so a request that      *)
(* calls nothing else runs without interruption: it is one action, and     *)
(* only a crash of the process comes between its transactions.  Creating   *)
(* a review and deleting a user do suspend and are several actions.  A     *)
(* browser always sends the CSRF token of its session.                     *)
(***************************************************************************)
EXTENDS Naturals, FiniteSets

CONSTANTS
    Users,          \* ordinary accounts; an id is used once (uuid4)
    Admin,          \* the administrator's account
    Browsers,       \* where session cookies are kept
    Secrets,        \* passwords a person chooses
    Temporary,      \* TEMPORARY_PASSWORD
    Reviews,        \* review ids; an id is used once
    Deletions,      \* DELETE /users requests that may be under way at once
    Nobody,         \* no account
    MaxCrashes      \* bound: crashes of the server

ASSUME AccountsAssumption ==
    /\ Admin \notin Users /\ Nobody \notin Users \cup {Admin}
    /\ Temporary \notin Secrets
    /\ MaxCrashes \in Nat

Accounts == Users \cup {Admin}

VARIABLES
    \* users: the rows, is_active, must_change_password, the password
    existing, enabled, mustChange, secret,
    \* auth_sessions: whose token the browser holds
    user,
    \* review_sessions, and create requests already admitted; reviews with a
    \* running pipeline
    owner, stage, tasks,
    \* the directory of the user's files; none: the id was not used yet
    files,
    \* DELETE /users requests: for whom, and the reviews still to cancel
    deleting, left,
    \* ghost: browsers whose session is older than the last change of its account's
    \* credentials, and accounts whose change was cut in two
    outdated, torn,
    crashes

accountRows == <<existing, enabled, mustChange, secret>>
sessions == <<user, outdated>>
reviews == <<owner, stage, tasks>>
deletions == <<deleting, left>>
accountsVars == <<accountRows, sessions, reviews, files, deletions, torn, crashes>>

Anybody == Accounts \cup {Nobody}

\* The migration has created the administrator, who must change the password.
AccountsInit ==
    /\ existing = {Admin} /\ enabled = {Admin} /\ mustChange = {Admin}
    /\ \E s \in Secrets : secret = [u \in Accounts |-> s]
    /\ user = [b \in Browsers |-> Nobody] /\ outdated = {}
    /\ owner = [r \in Reviews |-> Nobody] /\ stage = [r \in Reviews |-> "none"]
    /\ tasks = {}
    /\ files = [u \in Users |-> "none"]
    /\ deleting = [d \in Deletions |-> Nobody] /\ left = [d \in Deletions |-> {}]
    /\ torn = {} /\ crashes = 0

HasRow(r) == stage[r] \in {"running", "over"}
OwnedBy(u) == {r \in Reviews : HasRow(r) /\ owner[r] = u}

\* The process dies: requests and tasks are gone, the next start runs the
\* reviews that are not over (recover).
RestartWith(rows) ==
    /\ crashes < MaxCrashes
    /\ crashes' = crashes + 1
    /\ stage' = [r \in Reviews |-> IF rows[r] = "admitted" THEN "gone" ELSE rows[r]]
    /\ tasks' = {r \in Reviews : rows[r] = "running"}
    /\ deleting' = [d \in Deletions |-> Nobody] /\ left' = [d \in Deletions |-> {}]
    /\ UNCHANGED owner

Crash ==
    /\ RestartWith(stage)
    /\ UNCHANGED <<accountRows, sessions, files, torn>>

-----------------------------------------------------------------------------
(* Sessions.                                                                *)

\* get_session joins the user and asks for an active one.
Accepted(b) == user[b] # Nobody /\ user[b] \in enabled

\* The middleware in front of every route outside /v1/auth.
Authorised(b) == Accepted(b) /\ user[b] \notin mustChange
AsAdmin(b) == Authorised(b) /\ user[b] = Admin

\* Seeded mistake: only the session of this browser is replaced.
ReplaceOwn(b, u) ==
    /\ user' = [user EXCEPT ![b] = u]
    /\ outdated' = outdated \ {b}

\* create_single_session
CreateSingleSession(b, u) ==
    /\ user' = [c \in Browsers |-> IF c = b THEN u ELSE IF user[c] = u THEN Nobody ELSE user[c]]
    /\ outdated' = outdated \ {b}

EndSessionsOf(u) ==
    user' = [b \in Browsers |-> IF user[b] = u THEN Nobody ELSE user[b]]

Login(b, u, s) ==
    /\ u \in existing /\ u \in enabled /\ secret[u] = s
    /\ CreateSingleSession(b, u)
    /\ UNCHANGED <<accountRows, reviews, files, deletions, torn, crashes>>

\* logout, also after twelve hours, when the row is not accepted any more.
Logout(b) ==
    /\ user[b] # Nobody
    /\ user' = [user EXCEPT ![b] = Nobody]
    /\ UNCHANGED <<outdated, accountRows, reviews, files, deletions, torn, crashes>>

LogoutAll(b) ==
    /\ Accepted(b)
    /\ EndSessionsOf(user[b])
    /\ UNCHANGED <<outdated, accountRows, reviews, files, deletions, torn, crashes>>

\* Seeded mistake: the sessions of the account stay.
RevokeNothing(u) == UNCHANGED <<user, reviews, files, deletions, torn, crashes>>

\* revoke_user_sessions is a transaction after the one that changed the account: a
\* crash in between, or a database that refuses the second, leaves the sessions.
RevokeSessions(u) ==
    /\ \/ /\ EndSessionsOf(u)
          /\ UNCHANGED <<reviews, deletions, torn, crashes>>
       \/ /\ RestartWith(stage) \/ UNCHANGED <<reviews, deletions, crashes>>
          /\ torn' = torn \cup {u}
          /\ UNCHANGED user
    /\ UNCHANGED files

\* What is to end the sessions of an account.
Changes(u) == outdated' = outdated \cup {b \in Browsers : user[b] = u}

ChangePassword(b, s) ==
    /\ Accepted(b)
    /\ LET u == user[b] IN
       /\ s # secret[u]                 \* nor the temporary one: s \in Secrets
       /\ Changes(u)
       /\ secret' = [secret EXCEPT ![u] = s]
       /\ mustChange' = mustChange \ {u}
       /\ RevokeSessions(u)
    /\ UNCHANGED <<existing, enabled>>

-----------------------------------------------------------------------------
(* The administrator's requests.                                            *)

\* No request writes to the user's directory: it is there or not.
CreateUser(b, u) ==
    /\ AsAdmin(b)
    /\ files[u] = "none"
    /\ existing' = existing \cup {u} /\ enabled' = enabled \cup {u}
    /\ mustChange' = mustChange \cup {u}
    /\ secret' = [secret EXCEPT ![u] = Temporary]
    /\ \E there \in {"home", "empty"} : files' = [files EXCEPT ![u] = there]
    /\ UNCHANGED <<sessions, reviews, deletions, torn, crashes>>

Enable(b, u) ==
    /\ AsAdmin(b)
    /\ u \in existing
    /\ enabled' = enabled \cup {u}
    /\ UNCHANGED <<existing, mustChange, secret, sessions, reviews, files, deletions, torn, crashes>>

Disable(b, u) ==
    /\ AsAdmin(b)
    /\ u \in existing
    /\ enabled' = enabled \ {u}
    /\ Changes(u)
    /\ RevokeSessions(u)
    /\ UNCHANGED <<existing, mustChange, secret>>

\* reset_user_password: both changes in one transaction.
ResetPassword(b, u) ==
    /\ AsAdmin(b)
    /\ u \in existing
    /\ Changes(u)
    /\ secret' = [secret EXCEPT ![u] = Temporary]
    /\ mustChange' = mustChange \cup {u}
    /\ EndSessionsOf(u)
    /\ UNCHANGED <<existing, enabled, reviews, files, deletions, torn, crashes>>

-----------------------------------------------------------------------------
(* Reviews, as far as accounts concern them.                                *)

\* POST /reviews has passed the middleware.
AdmitReview(b, r) ==
    /\ Authorised(b)
    /\ stage[r] = "none"
    /\ owner' = [owner EXCEPT ![r] = user[b]]
    /\ stage' = [stage EXCEPT ![r] = "admitted"]
    /\ UNCHANGED <<accountRows, sessions, tasks, files, deletions, torn, crashes>>

\* Seeded mistake: owner_id has no foreign key.
InsertReviewUnchecked(r) ==
    /\ stage[r] = "admitted"
    /\ stage' = [stage EXCEPT ![r] = "running"]
    /\ tasks' = tasks \cup {r}
    /\ UNCHANGED <<accountRows, sessions, owner, files, deletions, torn, crashes>>

\* The row is inserted later, and the foreign key on owner_id looks again.
InsertReview(r) ==
    /\ stage[r] = "admitted"
    /\ \/ /\ owner[r] \in existing
          /\ stage' = [stage EXCEPT ![r] = "running"]
          /\ tasks' = tasks \cup {r}
       \/ /\ owner[r] \notin existing
          /\ stage' = [stage EXCEPT ![r] = "gone"]
          /\ UNCHANGED tasks
    /\ UNCHANGED <<accountRows, sessions, owner, files, deletions, torn, crashes>>

\* A pipeline ends; one whose row was deleted finds nothing to write.
PipelineEnds(r) ==
    /\ r \in tasks
    /\ tasks' = tasks \ {r}
    /\ stage' = [stage EXCEPT ![r] = IF HasRow(r) THEN "over" ELSE @]
    /\ UNCHANGED <<accountRows, sessions, owner, files, deletions, torn, crashes>>

DeleteReview(b, r) ==
    /\ Authorised(b)
    /\ HasRow(r) /\ owner[r] = user[b]
    /\ stage' = [stage EXCEPT ![r] = "gone"]
    /\ tasks' = tasks \ {r}
    /\ UNCHANGED <<accountRows, sessions, owner, files, deletions, torn, crashes>>

-----------------------------------------------------------------------------
(* delete_user                                                              *)

BeginDelete(b, d, u) ==
    /\ AsAdmin(b)
    /\ u \in existing
    /\ deleting[d] = Nobody
    /\ deleting' = [deleting EXCEPT ![d] = u]
    /\ left' = [left EXCEPT ![d] = OwnedBy(u)]
    /\ UNCHANGED <<accountRows, sessions, reviews, files, torn, crashes>>

AnswerDeletion(d) ==
    /\ deleting' = [deleting EXCEPT ![d] = Nobody]
    /\ left' = [left EXCEPT ![d] = {}]

CancelOne(d, r) ==
    /\ HasRow(r)
    /\ stage' = [stage EXCEPT ![r] = "over"]
    /\ tasks' = tasks \ {r}
    /\ left' = [left EXCEPT ![d] = @ \ {r}]
    /\ UNCHANGED deleting

\* Seeded mistake: a review that is gone is waited for.
CancelOwnedStuck(d) ==
    /\ \E r \in left[d] : CancelOne(d, r)
    /\ UNCHANGED <<accountRows, sessions, owner, files, torn, crashes>>

\* The reviews listed at the beginning are cancelled one by one; one that its
\* owner deleted meanwhile cannot be, and the request fails.
CancelOwned(d) ==
    /\ \E r \in left[d] :
          \/ CancelOne(d, r)
          \/ ~HasRow(r) /\ AnswerDeletion(d) /\ UNCHANGED <<stage, tasks>>
    /\ UNCHANGED <<accountRows, sessions, owner, files, torn, crashes>>

AllCancelled(d) == deleting[d] # Nobody /\ left[d] = {}

\* delete_user_record: one transaction over all that refers to the user.
WithoutReviewsOf(u) == [r \in Reviews |-> IF r \in OwnedBy(u) THEN "gone" ELSE stage[r]]
DeleteRecord(u) ==
    /\ existing' = existing \ {u} /\ enabled' = enabled \ {u}
    /\ EndSessionsOf(u)
    /\ UNCHANGED <<mustChange, secret, outdated>>

\* Only what is in its place can be moved: files a crash left in quarantine stay.
MoveFiles(u, where) ==
    files' = [files EXCEPT ![u] = IF @ = "home" THEN where ELSE @]

\* Seeded mistake: the files are removed although the record could not be.
DeletionFailsLosingFiles(d) ==
    /\ AllCancelled(d)
    /\ MoveFiles(deleting[d], "removed")
    /\ AnswerDeletion(d)
    /\ UNCHANGED <<accountRows, sessions, reviews, torn, crashes>>

\* The user is gone already, a file cannot be moved, or the database refuses:
\* what was staged is moved back, if that works.
DeletionFails(d) ==
    /\ AllCancelled(d)
    /\ UNCHANGED files \/ (deleting[d] \in existing /\ MoveFiles(deleting[d], "quarantine"))
    /\ AnswerDeletion(d)
    /\ UNCHANGED <<accountRows, sessions, reviews, torn, crashes>>

\* stage, delete_user_record and finalize follow each other without an await.
\* finalize may fail when the record is gone.
DeletionSucceeds(d) ==
    /\ AllCancelled(d) /\ deleting[d] \in existing
    /\ DeleteRecord(deleting[d])
    /\ stage' = WithoutReviewsOf(deleting[d])
    /\ MoveFiles(deleting[d], "removed") \/ MoveFiles(deleting[d], "quarantine")
    /\ AnswerDeletion(d)
    /\ UNCHANGED <<owner, tasks, torn, crashes>>

\* A crash after stage, or after the record was deleted.
DeletionCrashes(d) ==
    /\ AllCancelled(d) /\ deleting[d] \in existing
    /\ MoveFiles(deleting[d], "quarantine")
    /\ \/ RestartWith(stage) /\ UNCHANGED <<accountRows, sessions>>
       \/ RestartWith(WithoutReviewsOf(deleting[d])) /\ DeleteRecord(deleting[d])
    /\ UNCHANGED torn

DeletionStep(d) == CancelOwned(d) \/ DeletionFails(d) \/ DeletionSucceeds(d)

-----------------------------------------------------------------------------
Administer(b) ==
    \E u \in Users :
        \/ CreateUser(b, u) \/ Enable(b, u) \/ Disable(b, u) \/ ResetPassword(b, u)
        \/ \E d \in Deletions : BeginDelete(b, d, u)

Request(b) ==
    \/ \E u \in Accounts, s \in Secrets \cup {Temporary} : Login(b, u, s)
    \/ Logout(b) \/ LogoutAll(b)
    \/ \E s \in Secrets : ChangePassword(b, s)
    \/ \E r \in Reviews : AdmitReview(b, r) \/ DeleteReview(b, r)

AccountsNext ==
    \/ \E b \in Browsers : Request(b) \/ Administer(b)
    \/ \E r \in Reviews : InsertReview(r) \/ PipelineEnds(r)
    \/ \E d \in Deletions : DeletionStep(d) \/ DeletionCrashes(d)
    \/ Crash

AccountsSpec == AccountsInit /\ [][AccountsNext]_accountsVars

\* The event loop goes on with every request that is not waiting.
AccountsFairness == \A d \in Deletions : WF_accountsVars(DeletionStep(d))

-----------------------------------------------------------------------------
AccountsTypeOK ==
    /\ existing \subseteq Accounts /\ enabled \subseteq Accounts /\ mustChange \subseteq Accounts
    /\ secret \in [Accounts -> Secrets \cup {Temporary}]
    /\ user \in [Browsers -> Anybody] /\ outdated \subseteq Browsers
    /\ owner \in [Reviews -> Anybody]
    /\ stage \in [Reviews -> {"none", "admitted", "running", "over", "gone"}]
    /\ tasks \subseteq Reviews
    /\ files \in [Users -> {"none", "home", "empty", "quarantine", "removed"}]
    /\ deleting \in [Deletions -> Users \cup {Nobody}]
    /\ left \in [Deletions -> SUBSET Reviews]
    /\ torn \subseteq Accounts
    /\ crashes \in Nat

SessionsAreSound ==
    \A b \in Browsers : user[b] # Nobody =>
        /\ user[b] \in existing
        /\ b \in outdated => user[b] \in torn
        /\ \A c \in Browsers \ {b} : user[c] # user[b]

TemporaryIsChanged == \A u \in existing : secret[u] = Temporary => u \in mustChange

\* A session never outlives the credentials it was opened with: a password
\* change, a reset and a deactivation end the sessions of the account, also when
\* it is enabled again, unless a failure cut the change in two.  An account has one
\* session, and whoever still has the temporary password has to change it.
CredentialsAreSound == SessionsAreSound /\ TemporaryIsChanged

ReviewsHaveOwners == \A r \in Reviews : HasRow(r) => owner[r] \in existing

FilesFollow ==
    \A u \in Users :
        IF u \in existing THEN files[u] \in {"home", "empty", "quarantine"} ELSE files[u] # "home"

\* However requests, failures and crashes interleave with the deletion of a user:
\* no review is left without its owner, the files of a user who still exists are
\* never destroyed, and those of a user who is gone are never where they were.
DataFollowsItsOwner == ReviewsHaveOwners /\ FilesFollow

\* Every deletion of a user is answered, whatever its reviews do meanwhile.
DeletionIsAnswered ==
    \A d \in Deletions : deleting[d] # Nobody ~> deleting[d] = Nobody

=============================================================================

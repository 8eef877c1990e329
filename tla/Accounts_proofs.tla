---------------------------- MODULE Accounts_proofs ----------------------------
(***************************************************************************)
(* Accounts: the type invariant, CredentialsAreSound and                   *)
(* DataFollowsItsOwner hold for any number of users, browsers, requests    *)
(* and crashes.                                                            *)
(***************************************************************************)
EXTENDS Accounts, TLAPS

USE DEF Anybody, Accounts

-----------------------------------------------------------------------------
(* The type invariant.                                                      *)

\* What the operations that several actions share do to the types.
LEMMA RestartTyped ==
    ASSUME AccountsTypeOK, NEW rows,
           rows \in [Reviews -> {"none", "admitted", "running", "over", "gone"}],
           RestartWith(rows)
    PROVE  (/\ owner \in [Reviews -> Anybody]
            /\ stage \in [Reviews -> {"none", "admitted", "running", "over", "gone"}]
            /\ tasks \subseteq Reviews
            /\ deleting \in [Deletions -> Users \cup {Nobody}]
            /\ left \in [Deletions -> SUBSET Reviews]
            /\ crashes \in Nat)'
BY DEF AccountsTypeOK, RestartWith

LEMMA EndSessionsTyped ==
    ASSUME AccountsTypeOK, NEW u, EndSessionsOf(u)
    PROVE  user' \in [Browsers -> Anybody]
BY DEF AccountsTypeOK, EndSessionsOf

LEMMA RevokeTyped ==
    ASSUME AccountsTypeOK, NEW u \in Accounts, RevokeSessions(u)
    PROVE  (/\ user \in [Browsers -> Anybody]
            /\ owner \in [Reviews -> Anybody]
            /\ stage \in [Reviews -> {"none", "admitted", "running", "over", "gone"}]
            /\ tasks \subseteq Reviews
            /\ files \in [Users -> {"none", "home", "empty", "quarantine", "removed"}]
            /\ deleting \in [Deletions -> Users \cup {Nobody}]
            /\ left \in [Deletions -> SUBSET Reviews]
            /\ torn \subseteq Accounts
            /\ crashes \in Nat)'
<1>1. CASE EndSessionsOf(u) /\ UNCHANGED <<reviews, deletions, torn, crashes>>
    BY <1>1, EndSessionsTyped DEF AccountsTypeOK, RevokeSessions, reviews, deletions
<1>2. CASE RestartWith(stage) /\ torn' = torn \cup {u} /\ UNCHANGED user
    BY <1>2, RestartTyped DEF AccountsTypeOK, RevokeSessions
<1>3. CASE UNCHANGED <<reviews, deletions, crashes>> /\ torn' = torn \cup {u} /\ UNCHANGED user
    BY <1>3 DEF AccountsTypeOK, RevokeSessions, reviews, deletions
<1>4. QED
    BY <1>1, <1>2, <1>3 DEF RevokeSessions

LEMMA AnswerTyped ==
    ASSUME AccountsTypeOK, NEW d \in Deletions, AnswerDeletion(d)
    PROVE  /\ deleting' \in [Deletions -> Users \cup {Nobody}]
           /\ left' \in [Deletions -> SUBSET Reviews]
BY DEF AccountsTypeOK, AnswerDeletion

LEMMA MoveTyped ==
    ASSUME AccountsTypeOK, NEW u, NEW where \in {"quarantine", "removed"}, MoveFiles(u, where)
    PROVE  files' \in [Users -> {"none", "home", "empty", "quarantine", "removed"}]
BY DEF AccountsTypeOK, MoveFiles

LEMMA WithoutReviewsTyped ==
    ASSUME AccountsTypeOK, NEW u
    PROVE  WithoutReviewsOf(u) \in [Reviews -> {"none", "admitted", "running", "over", "gone"}]
BY DEF AccountsTypeOK, WithoutReviewsOf

\* Whoever is deleted is an ordinary user; whoever is accepted has an id.
LEMMA WhoIsMeant ==
    ASSUME AccountsTypeOK
    PROVE  /\ \A d \in Deletions : AllCancelled(d) => deleting[d] \in Users
           /\ \A b \in Browsers : Accepted(b) => user[b] \in Accounts
BY DEF AccountsTypeOK, AllCancelled, Accepted

LEMMA TypePreserved == AccountsTypeOK /\ [AccountsNext]_accountsVars => AccountsTypeOK'
<1> SUFFICES ASSUME AccountsTypeOK, [AccountsNext]_accountsVars PROVE AccountsTypeOK'
    OBVIOUS
<1> USE DEF accountRows, sessions, reviews, deletions
<1>1. ASSUME NEW b \in Browsers, NEW u \in Accounts, NEW s, Login(b, u, s) PROVE AccountsTypeOK'
    BY <1>1 DEF Login, CreateSingleSession, AccountsTypeOK
<1>2. ASSUME NEW b \in Browsers, Logout(b) PROVE AccountsTypeOK'
    BY <1>2 DEF Logout, AccountsTypeOK
<1>3. ASSUME NEW b \in Browsers, LogoutAll(b) PROVE AccountsTypeOK'
    BY <1>3 DEF LogoutAll, EndSessionsOf, AccountsTypeOK
<1>4. ASSUME NEW b \in Browsers, NEW s \in Secrets, ChangePassword(b, s) PROVE AccountsTypeOK'
    <2>1. user[b] \in Accounts
        BY <1>4, WhoIsMeant DEF ChangePassword
    <2>2. RevokeSessions(user[b])
        BY <1>4 DEF ChangePassword
    <2>3. QED
        BY <1>4, <2>1, <2>2, RevokeTyped DEF ChangePassword, Changes, AccountsTypeOK
<1>5. ASSUME NEW b \in Browsers, NEW u \in Users, CreateUser(b, u) PROVE AccountsTypeOK'
    BY <1>5 DEF CreateUser, AccountsTypeOK
<1>6. ASSUME NEW b \in Browsers, NEW u \in Users, Enable(b, u) PROVE AccountsTypeOK'
    BY <1>6 DEF Enable, AccountsTypeOK
<1>7. ASSUME NEW b \in Browsers, NEW u \in Users, Disable(b, u) PROVE AccountsTypeOK'
    BY <1>7, RevokeTyped DEF Disable, Changes, AccountsTypeOK
<1>8. ASSUME NEW b \in Browsers, NEW u \in Users, ResetPassword(b, u) PROVE AccountsTypeOK'
    BY <1>8, EndSessionsTyped DEF ResetPassword, Changes, AccountsTypeOK
<1>9. ASSUME NEW b \in Browsers, NEW u \in Users, NEW d \in Deletions, BeginDelete(b, d, u)
      PROVE  AccountsTypeOK'
    BY <1>9 DEF BeginDelete, OwnedBy, AccountsTypeOK
<1>10. ASSUME NEW b \in Browsers, NEW r \in Reviews, AdmitReview(b, r) \/ DeleteReview(b, r)
       PROVE  AccountsTypeOK'
    BY <1>10 DEF AdmitReview, DeleteReview, AccountsTypeOK
<1>11. ASSUME NEW r \in Reviews, InsertReview(r) \/ PipelineEnds(r) PROVE AccountsTypeOK'
    BY <1>11 DEF InsertReview, PipelineEnds, AccountsTypeOK
<1>12. ASSUME NEW d \in Deletions, CancelOwned(d) PROVE AccountsTypeOK'
    <2>1. CASE \E r \in left[d] : CancelOne(d, r)
        BY <1>12, <2>1 DEF CancelOwned, CancelOne, AccountsTypeOK
    <2>2. CASE AnswerDeletion(d) /\ UNCHANGED <<stage, tasks>>
        BY <1>12, <2>2, AnswerTyped DEF CancelOwned, AccountsTypeOK
    <2>3. QED
        BY <1>12, <2>1, <2>2 DEF CancelOwned
<1>13. ASSUME NEW d \in Deletions, DeletionFails(d) PROVE AccountsTypeOK'
    <2>1. files' \in [Users -> {"none", "home", "empty", "quarantine", "removed"}]
        BY <1>13, MoveTyped DEF DeletionFails, AccountsTypeOK
    <2>2. QED
        BY <1>13, <2>1, AnswerTyped DEF DeletionFails, AccountsTypeOK
<1>14. ASSUME NEW d \in Deletions, DeletionSucceeds(d) PROVE AccountsTypeOK'
    <2>1. files' \in [Users -> {"none", "home", "empty", "quarantine", "removed"}]
        BY <1>14, MoveTyped DEF DeletionSucceeds
    <2>2. user' \in [Browsers -> Anybody]
        BY <1>14, EndSessionsTyped DEF DeletionSucceeds, DeleteRecord
    <2>3. QED
        BY <1>14, <2>1, <2>2, AnswerTyped, WithoutReviewsTyped
           DEF DeletionSucceeds, DeleteRecord, AccountsTypeOK
<1>15. ASSUME NEW d \in Deletions, DeletionCrashes(d) PROVE AccountsTypeOK'
    <2>1. files' \in [Users -> {"none", "home", "empty", "quarantine", "removed"}]
        BY <1>15, MoveTyped DEF DeletionCrashes
    <2>2. CASE RestartWith(stage) /\ UNCHANGED <<accountRows, sessions>>
        BY <1>15, <2>1, <2>2, RestartTyped DEF DeletionCrashes, AccountsTypeOK
    <2>3. CASE RestartWith(WithoutReviewsOf(deleting[d])) /\ DeleteRecord(deleting[d])
        <3>1. user' \in [Browsers -> Anybody]
            BY <2>3, EndSessionsTyped DEF DeleteRecord
        <3>2. QED
            BY <1>15, <2>1, <2>3, <3>1, RestartTyped, WithoutReviewsTyped
               DEF DeletionCrashes, DeleteRecord, AccountsTypeOK
    <2>4. QED
        BY <1>15, <2>2, <2>3 DEF DeletionCrashes
<1>16. CASE Crash
    <2>1. stage \in [Reviews -> {"none", "admitted", "running", "over", "gone"}]
        BY DEF AccountsTypeOK
    <2>2. QED
        BY <1>16, <2>1, RestartTyped DEF Crash, AccountsTypeOK
<1>17. CASE UNCHANGED accountsVars
    BY <1>17 DEF accountsVars, AccountsTypeOK
<1>18. QED
    BY <1>1, <1>2, <1>3, <1>4, <1>5, <1>6, <1>7, <1>8, <1>9, <1>10, <1>11, <1>12, <1>13, <1>14,
       <1>15, <1>16, <1>17
       DEF AccountsNext, Request, Administer, DeletionStep

\* Accounts, sessions, reviews, files and deletions keep their shape.
THEOREM AccountsTypeCorrect == AccountsSpec => []AccountsTypeOK
<1>1. AccountsInit => AccountsTypeOK
    BY DEF AccountsInit, AccountsTypeOK
<1>2. QED
    BY <1>1, TypePreserved, PTL DEF AccountsSpec

-----------------------------------------------------------------------------
(* The data of an account.                                                  *)

\* What a restart does to the rows of reviews, and the deletion of a record.
LEMMA RestartKeepsRows ==
    ASSUME NEW rows, RestartWith(rows), NEW r \in Reviews, HasRow(r)'
    PROVE  rows[r] \in {"running", "over"} /\ owner' = owner
BY DEF RestartWith, HasRow

LEMMA WithoutReviewsLeavesOthers ==
    ASSUME NEW u, NEW r \in Reviews, WithoutReviewsOf(u)[r] \in {"running", "over"}
    PROVE  HasRow(r) /\ owner[r] # u
BY DEF WithoutReviewsOf, OwnedBy, HasRow

LEMMA MovedFiles ==
    ASSUME AccountsTypeOK, NEW u \in Users, NEW where \in {"quarantine", "removed"},
           MoveFiles(u, where)
    PROVE  \A v \in Users : files'[v] = IF v = u /\ files[u] = "home" THEN where ELSE files[v]
BY DEF AccountsTypeOK, MoveFiles

LEMMA RevokeKeepsRows ==
    ASSUME AccountsTypeOK, NEW u, RevokeSessions(u), ReviewsHaveOwners, existing' = existing
    PROVE  ReviewsHaveOwners'
<1>1. CASE RestartWith(stage)
    BY <1>1, RestartKeepsRows DEF ReviewsHaveOwners, HasRow
<1>2. CASE UNCHANGED reviews
    BY <1>2 DEF ReviewsHaveOwners, HasRow, reviews
<1>3. QED
    BY <1>1, <1>2 DEF RevokeSessions

LEMMA DataPreserved ==
    AccountsTypeOK /\ DataFollowsItsOwner /\ [AccountsNext]_accountsVars => DataFollowsItsOwner'
<1> SUFFICES ASSUME AccountsTypeOK, ReviewsHaveOwners, FilesFollow, [AccountsNext]_accountsVars
             PROVE  ReviewsHaveOwners' /\ FilesFollow'
    BY DEF DataFollowsItsOwner
<1> USE DEF accountRows, sessions, reviews, deletions
<1>1. ASSUME UNCHANGED <<existing, owner, stage, files>> PROVE ReviewsHaveOwners' /\ FilesFollow'
    BY <1>1 DEF ReviewsHaveOwners, FilesFollow, HasRow
<1>2. ASSUME NEW b \in Browsers, NEW u \in Accounts, NEW s, Login(b, u, s)
      PROVE  ReviewsHaveOwners' /\ FilesFollow'
    BY <1>1, <1>2 DEF Login
<1>3. ASSUME NEW b \in Browsers, Logout(b) \/ LogoutAll(b) PROVE ReviewsHaveOwners' /\ FilesFollow'
    BY <1>1, <1>3 DEF Logout, LogoutAll
<1>4. ASSUME NEW b \in Browsers, NEW s \in Secrets, ChangePassword(b, s)
      PROVE  ReviewsHaveOwners' /\ FilesFollow'
    BY <1>4, RevokeKeepsRows DEF ChangePassword, FilesFollow, RevokeSessions
<1>5. ASSUME NEW b \in Browsers, NEW u \in Users, CreateUser(b, u)
      PROVE  ReviewsHaveOwners' /\ FilesFollow'
    BY <1>5 DEF CreateUser, ReviewsHaveOwners, FilesFollow, HasRow, AccountsTypeOK
<1>6. ASSUME NEW b \in Browsers, NEW u \in Users, Enable(b, u)
      PROVE  ReviewsHaveOwners' /\ FilesFollow'
    BY <1>1, <1>6 DEF Enable
<1>7. ASSUME NEW b \in Browsers, NEW u \in Users, Disable(b, u)
      PROVE  ReviewsHaveOwners' /\ FilesFollow'
    BY <1>7, RevokeKeepsRows DEF Disable, FilesFollow, RevokeSessions
<1>8. ASSUME NEW b \in Browsers, NEW u \in Users, ResetPassword(b, u)
      PROVE  ReviewsHaveOwners' /\ FilesFollow'
    BY <1>1, <1>8 DEF ResetPassword
<1>9. ASSUME NEW b \in Browsers, NEW u \in Users, NEW d \in Deletions, BeginDelete(b, d, u)
      PROVE  ReviewsHaveOwners' /\ FilesFollow'
    BY <1>1, <1>9 DEF BeginDelete
<1>10. ASSUME NEW b \in Browsers, NEW r \in Reviews, AdmitReview(b, r) \/ DeleteReview(b, r)
       PROVE  ReviewsHaveOwners' /\ FilesFollow'
    BY <1>10 DEF AdmitReview, DeleteReview, ReviewsHaveOwners, FilesFollow, HasRow, AccountsTypeOK
<1>11. ASSUME NEW r \in Reviews, InsertReview(r) \/ PipelineEnds(r)
       PROVE  ReviewsHaveOwners' /\ FilesFollow'
    BY <1>11 DEF InsertReview, PipelineEnds, ReviewsHaveOwners, FilesFollow, HasRow, AccountsTypeOK
<1>12. ASSUME NEW d \in Deletions, CancelOwned(d) PROVE ReviewsHaveOwners' /\ FilesFollow'
    <2>1. CASE \E r \in left[d] : CancelOne(d, r)
        BY <1>12, <2>1
           DEF CancelOwned, CancelOne, ReviewsHaveOwners, FilesFollow, HasRow, AccountsTypeOK
    <2>2. CASE UNCHANGED stage
        BY <1>1, <1>12, <2>2 DEF CancelOwned
    <2>3. QED
        BY <1>12, <2>1, <2>2 DEF CancelOwned
<1>13. ASSUME NEW d \in Deletions, DeletionFails(d) PROVE ReviewsHaveOwners' /\ FilesFollow'
    <2>1. deleting[d] \in Users
        BY <1>13, WhoIsMeant DEF DeletionFails
    <2>2. CASE UNCHANGED files
        BY <1>1, <1>13, <2>2 DEF DeletionFails
    <2>3. CASE MoveFiles(deleting[d], "quarantine")
        BY <1>13, <2>1, <2>3, MovedFiles DEF DeletionFails, ReviewsHaveOwners, FilesFollow, HasRow
    <2>4. QED
        BY <1>13, <2>2, <2>3 DEF DeletionFails
<1>14. ASSUME NEW d \in Deletions, DeletionSucceeds(d) PROVE ReviewsHaveOwners' /\ FilesFollow'
    <2>1. deleting[d] \in Users
        BY <1>14, WhoIsMeant DEF DeletionSucceeds
    <2>2. ReviewsHaveOwners'
        BY <1>14, WithoutReviewsLeavesOthers
           DEF DeletionSucceeds, DeleteRecord, ReviewsHaveOwners, HasRow
    <2>3. FilesFollow'
        BY <1>14, <2>1, MovedFiles DEF DeletionSucceeds, DeleteRecord, FilesFollow
    <2>4. QED
        BY <2>2, <2>3
<1>15. ASSUME NEW d \in Deletions, DeletionCrashes(d) PROVE ReviewsHaveOwners' /\ FilesFollow'
    <2>1. deleting[d] \in Users /\ MoveFiles(deleting[d], "quarantine")
        BY <1>15, WhoIsMeant DEF DeletionCrashes
    <2>2. CASE RestartWith(stage) /\ UNCHANGED <<accountRows, sessions>>
        <3>1. ReviewsHaveOwners'
            BY <2>2, RestartKeepsRows DEF ReviewsHaveOwners, HasRow
        <3>2. QED
            BY <2>1, <2>2, <3>1, MovedFiles DEF FilesFollow
    <2>3. CASE RestartWith(WithoutReviewsOf(deleting[d])) /\ DeleteRecord(deleting[d])
        <3>1. ReviewsHaveOwners'
            BY <2>3, RestartKeepsRows, WithoutReviewsLeavesOthers
               DEF DeleteRecord, ReviewsHaveOwners, HasRow
        <3>2. QED
            BY <2>1, <2>3, <3>1, MovedFiles DEF DeleteRecord, FilesFollow
    <2>4. QED
        BY <1>15, <2>2, <2>3 DEF DeletionCrashes
<1>16. CASE Crash
    BY <1>16, RestartKeepsRows DEF Crash, ReviewsHaveOwners, FilesFollow, HasRow
<1>17. CASE UNCHANGED accountsVars
    BY <1>1, <1>17 DEF accountsVars
<1>18. QED
    BY <1>2, <1>3, <1>4, <1>5, <1>6, <1>7, <1>8, <1>9, <1>10, <1>11, <1>12, <1>13, <1>14,
       <1>15, <1>16, <1>17
       DEF AccountsNext, Request, Administer, DeletionStep

\* No interleaving of requests, failures and crashes with the deletion of a user
\* leaves a review without its owner, destroys the files of a user who exists or
\* leaves those of a user who is gone where they were.
THEOREM DataIsFollowing == AccountsSpec => []DataFollowsItsOwner
<1>1. AccountsInit => DataFollowsItsOwner
    BY AccountsAssumption DEF AccountsInit, DataFollowsItsOwner, ReviewsHaveOwners, FilesFollow, HasRow
<1>2. QED
    BY <1>1, DataPreserved, AccountsTypeCorrect, PTL DEF AccountsSpec

-----------------------------------------------------------------------------
(* The credentials of an account.                                           *)

\* Ending sessions, or none, of an account that exists keeps the others sound.
LEMMA FewerSessionsAreSound ==
    ASSUME AccountsTypeOK, SessionsAreSound, NEW u,
           \A b \in Browsers : user'[b] \in {user[b], Nobody},
           \A b \in Browsers : user'[b] # Nobody =>
              /\ user'[b] \in existing'
              /\ b \in outdated' => b \in outdated \/ user'[b] \in torn',
           torn \subseteq torn'
    PROVE  SessionsAreSound'
BY DEF SessionsAreSound

LEMMA EndedSessions ==
    ASSUME AccountsTypeOK, NEW u, EndSessionsOf(u)
    PROVE  \A b \in Browsers : /\ user'[b] \in {user[b], Nobody}
                               /\ user'[b] # Nobody => user'[b] = user[b] /\ user[b] # u
BY DEF EndSessionsOf, AccountsTypeOK

LEMMA RevokeIsSound ==
    ASSUME AccountsTypeOK, SessionsAreSound, NEW u \in Accounts, existing' = existing,
           Changes(u), RevokeSessions(u)
    PROVE  SessionsAreSound'
<1>1. CASE EndSessionsOf(u) /\ UNCHANGED torn
    BY <1>1, EndedSessions, FewerSessionsAreSound DEF Changes, SessionsAreSound
<1>2. CASE torn' = torn \cup {u} /\ UNCHANGED user
    BY <1>2, FewerSessionsAreSound DEF Changes, SessionsAreSound
<1>3. QED
    BY <1>1, <1>2 DEF RevokeSessions

LEMMA DeletionTouches ==
    ASSUME NEW d, DeletionStep(d) \/ DeletionCrashes(d)
    PROVE  /\ UNCHANGED <<mustChange, secret, outdated, torn>>
           /\ \/ UNCHANGED <<existing, user>>
              \/ existing' = existing \ {deleting[d]} /\ EndSessionsOf(deleting[d])
<1> USE DEF accountRows, sessions
<1>1. CASE CancelOwned(d)
    BY <1>1 DEF CancelOwned
<1>2. CASE DeletionFails(d)
    BY <1>2 DEF DeletionFails
<1>3. CASE DeletionSucceeds(d)
    BY <1>3 DEF DeletionSucceeds, DeleteRecord
<1>4. CASE DeletionCrashes(d)
    BY <1>4 DEF DeletionCrashes, DeleteRecord
<1>5. QED
    BY <1>1, <1>2, <1>3, <1>4 DEF DeletionStep

LEMMA CredentialsPreserved ==
    AccountsTypeOK /\ CredentialsAreSound /\ [AccountsNext]_accountsVars => CredentialsAreSound'
<1> SUFFICES ASSUME AccountsTypeOK, SessionsAreSound, TemporaryIsChanged, [AccountsNext]_accountsVars
             PROVE  SessionsAreSound' /\ TemporaryIsChanged'
    BY DEF CredentialsAreSound
<1> USE DEF accountRows, sessions, reviews, deletions
<1>1. ASSUME UNCHANGED <<accountRows, sessions, torn>>
      PROVE  SessionsAreSound' /\ TemporaryIsChanged'
    BY <1>1 DEF SessionsAreSound, TemporaryIsChanged
<1>2. ASSUME NEW b \in Browsers, NEW u \in Accounts, NEW s, Login(b, u, s)
      PROVE  SessionsAreSound' /\ TemporaryIsChanged'
    <2>1. \A c \in Browsers : user'[c] = IF c = b THEN u ELSE IF user[c] = u THEN Nobody ELSE user[c]
        BY <1>2 DEF Login, CreateSingleSession
    <2>2. outdated' = outdated \ {b} /\ u \in existing /\ UNCHANGED <<existing, torn>>
        BY <1>2 DEF Login, CreateSingleSession
    <2>3. SessionsAreSound'
        BY <2>1, <2>2 DEF SessionsAreSound
    <2>4. QED
        BY <1>2, <2>3 DEF Login, TemporaryIsChanged
<1>3. ASSUME NEW b \in Browsers, Logout(b) PROVE SessionsAreSound' /\ TemporaryIsChanged'
    BY <1>3 DEF Logout, SessionsAreSound, TemporaryIsChanged, AccountsTypeOK
<1>4. ASSUME NEW b \in Browsers, LogoutAll(b) PROVE SessionsAreSound' /\ TemporaryIsChanged'
    <2>1. SessionsAreSound'
        BY <1>4, EndedSessions, FewerSessionsAreSound DEF LogoutAll, SessionsAreSound
    <2>2. QED
        BY <1>4, <2>1 DEF LogoutAll, TemporaryIsChanged
<1>5. ASSUME NEW b \in Browsers, NEW s \in Secrets, ChangePassword(b, s)
      PROVE  SessionsAreSound' /\ TemporaryIsChanged'
    <2>1. user[b] \in Accounts
        BY <1>5, WhoIsMeant DEF ChangePassword
    <2>2. SessionsAreSound'
        BY <1>5, <2>1, RevokeIsSound DEF ChangePassword
    <2>3. TemporaryIsChanged'
        BY <1>5, <2>1, AccountsAssumption DEF ChangePassword, TemporaryIsChanged, AccountsTypeOK
    <2>4. QED
        BY <2>2, <2>3
<1>6. ASSUME NEW b \in Browsers, NEW u \in Users, CreateUser(b, u)
      PROVE  SessionsAreSound' /\ TemporaryIsChanged'
    BY <1>6 DEF CreateUser, SessionsAreSound, TemporaryIsChanged, AccountsTypeOK
<1>7. ASSUME NEW b \in Browsers, NEW u \in Users, Enable(b, u)
      PROVE  SessionsAreSound' /\ TemporaryIsChanged'
    BY <1>7 DEF Enable, SessionsAreSound, TemporaryIsChanged
<1>8. ASSUME NEW b \in Browsers, NEW u \in Users, Disable(b, u)
      PROVE  SessionsAreSound' /\ TemporaryIsChanged'
    BY <1>8, RevokeIsSound DEF Disable, TemporaryIsChanged
<1>9. ASSUME NEW b \in Browsers, NEW u \in Users, ResetPassword(b, u)
      PROVE  SessionsAreSound' /\ TemporaryIsChanged'
    <2>1. SessionsAreSound'
        BY <1>9, EndedSessions, FewerSessionsAreSound DEF ResetPassword, Changes, SessionsAreSound
    <2>2. TemporaryIsChanged'
        BY <1>9 DEF ResetPassword, TemporaryIsChanged, AccountsTypeOK
    <2>3. QED
        BY <2>1, <2>2
<1>10. ASSUME NEW b \in Browsers, NEW u \in Users, NEW d \in Deletions, BeginDelete(b, d, u)
       PROVE  SessionsAreSound' /\ TemporaryIsChanged'
    BY <1>1, <1>10 DEF BeginDelete
<1>11. ASSUME NEW b \in Browsers, NEW r \in Reviews, AdmitReview(b, r) \/ DeleteReview(b, r)
       PROVE  SessionsAreSound' /\ TemporaryIsChanged'
    BY <1>1, <1>11 DEF AdmitReview, DeleteReview
<1>12. ASSUME NEW r \in Reviews, InsertReview(r) \/ PipelineEnds(r)
       PROVE  SessionsAreSound' /\ TemporaryIsChanged'
    BY <1>1, <1>12 DEF InsertReview, PipelineEnds
<1>13. ASSUME NEW d \in Deletions, DeletionStep(d) \/ DeletionCrashes(d)
       PROVE  SessionsAreSound' /\ TemporaryIsChanged'
    <2>1. CASE UNCHANGED <<existing, user>>
        BY <1>1, <1>13, <2>1, DeletionTouches DEF SessionsAreSound, TemporaryIsChanged
    <2>2. CASE existing' = existing \ {deleting[d]} /\ EndSessionsOf(deleting[d])
        <3>1. SessionsAreSound'
            BY <1>13, <2>2, DeletionTouches, EndedSessions, FewerSessionsAreSound DEF SessionsAreSound
        <3>2. QED
            BY <1>13, <2>2, <3>1, DeletionTouches DEF TemporaryIsChanged
    <2>3. QED
        BY <1>13, <2>1, <2>2, DeletionTouches
<1>14. CASE Crash
    BY <1>1, <1>14 DEF Crash
<1>15. CASE UNCHANGED accountsVars
    BY <1>1, <1>15 DEF accountsVars
<1>16. QED
    BY <1>2, <1>3, <1>4, <1>5, <1>6, <1>7, <1>8, <1>9, <1>10, <1>11, <1>12, <1>13, <1>14, <1>15
       DEF AccountsNext, Request, Administer

\* No interleaving of logins, changes of credentials by their owner and by the
\* administrator, failures and crashes leaves a session that is older than the
\* credentials of its account, two sessions of one account, or a temporary
\* password that need not be changed.
THEOREM CredentialsStaySound == AccountsSpec => []CredentialsAreSound
<1>1. AccountsInit => CredentialsAreSound
    BY AccountsAssumption
       DEF AccountsInit, CredentialsAreSound, SessionsAreSound, TemporaryIsChanged
<1>2. QED
    BY <1>1, CredentialsPreserved, AccountsTypeCorrect, PTL DEF AccountsSpec

================================================================================

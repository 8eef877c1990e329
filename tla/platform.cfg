SPECIFICATION PlatformSpec
CONSTANTS
    Users = {u1}
    Admin = admin
    Browsers = {b1, b2}
    Secrets = {s1, s2}
    Temporary = temporary
    Reviews = {r1}
    Deletions = {del1}
    Nobody = nobody
    MaxCrashes = 1
    OldReviews = {r1, r2}
    Owners = {o1}
    TheAdmin = admin
    NoOwner = noowner
    Versions = {2, 3, 4}
    MaxStarts = 2
    Plans = {p1, p2}
    Endpoints = {e1, e2}
    Callers = {c1, c2}
    Original = original
    Nothing = nothing
    MaxRestarts = 1
    QueuedReviews = {q1, q2, q3}
    Takers = {t1, t2}
    QueueLimit = 3
    NoReview = noreview
INVARIANTS
    CredentialsAreSound
    DataFollowsItsOwner
    ServedDatabaseIsMigrated
    MigrationIsAtomic
    DeploymentIsAllOrNothing
PROPERTIES
    DeletionIsAnswered
    EveryReviewIsServed
CHECK_DEADLOCK FALSE

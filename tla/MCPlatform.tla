------------------------------ MODULE MCPlatform ------------------------------
(***************************************************************************)
(* The parts of the program around the reviews that share no state with    *)
(* each other, checked in one run: a behaviour is one of one part, the     *)
(* others rest where they are when nothing is asked of them.               *)
(***************************************************************************)
EXTENDS Accounts, AuthMigration, Deployment, ChunkScheduler

VARIABLE part

platformVars == <<accountsVars, migrationVars, deploymentVars, schedulerVars, part>>

\* Passwords are alike: the first one is any of them.
MCAccountsInit == AccountsInit /\ secret = [u \in Accounts |-> CHOOSE s \in Secrets : TRUE]

\* At rest: nobody has logged in, there is no database, the tasks wait for a chunk.
MigrationRest ==
    /\ disk = NoDatabase /\ work = disk /\ before = disk
    /\ backups = {} /\ step = "stopped" /\ starts = 0
SchedulerRest ==
    /\ queue = [r \in QueuedReviews |-> 0] /\ rotation = <<>> /\ size = 0
    /\ taker = [t \in Takers |-> "parked"] /\ taken = NoReview

\* Plans and endpoints are alike: the first plan is issued first and only
\* it expires, and the operator uses the first endpoint only.
First(set) == CHOOSE x \in set : TRUE
DeploymentBound ==
    /\ \A p \in Plans : plan'[p].state # "none" => plan'[First(Plans)].state # "none"
    /\ \A p \in Plans : plan'[p].state = "expired" => p = First(Plans)
    /\ \A e \in Endpoints : listener'[e] = Original => e = First(Endpoints)

PlatformInit ==
    /\ part \in {"accounts", "migration", "deployment", "scheduler"}
    /\ MCAccountsInit
    /\ IF part = "migration" THEN MigrationInit ELSE MigrationRest
    /\ DeploymentInit
    /\ IF part = "scheduler" THEN SchedulerInit ELSE SchedulerRest

PlatformNext ==
    /\ UNCHANGED part
    /\ \/ /\ part = "accounts" /\ AccountsNext
          /\ UNCHANGED <<migrationVars, deploymentVars, schedulerVars>>
       \/ /\ part = "migration" /\ MigrationNext
          /\ UNCHANGED <<accountsVars, deploymentVars, schedulerVars>>
       \/ /\ part = "deployment" /\ DeploymentNext /\ DeploymentBound
          /\ UNCHANGED <<accountsVars, migrationVars, schedulerVars>>
       \/ /\ part = "scheduler" /\ SchedulerNext
          /\ UNCHANGED <<accountsVars, migrationVars, deploymentVars>>

PlatformSpec ==
    PlatformInit /\ [][PlatformNext]_platformVars /\ AccountsFairness /\ SchedulerFairness

===============================================================================

------------------------------ MODULE Deployment ------------------------------
(***************************************************************************)
(* The deployment service: plans issued by MigrationService, their         *)
(* application under _apply_lock, the manifest on disk and the model       *)
(* processes that LocalModelLauncher starts.                               *)
(*                                                                         *)
(* A process has a session of its own and survives the server.  Plans are  *)
(* kept in memory and do not.  An exception and the cancellation of a      *)
(* request take the same way out (except BaseException).                   *)
(***************************************************************************)
EXTENDS Naturals, FiniteSets, Sequences

CONSTANTS
    Plans,          \* plan ids; an id is issued once (token_urlsafe)
    Endpoints,      \* local endpoints, one for each device
    Callers,        \* POST /apply requests that may be under way at once
    Original,       \* the configuration before any plan; no manifest file
    Nothing,        \* no plan, no process, no caller
    MaxRestarts     \* bound: restarts and crashes of the server

ASSUME DeploymentAssumption ==
    /\ Original \notin Plans /\ Nothing \notin Plans \cup Callers \cup {Original}
    /\ IsFiniteSet(Endpoints) /\ MaxRestarts \in Nat

VARIABLES
    plan,       \* _plans
    configured, \* the settings the server was started with
    apply,      \* apply requests
    lock,       \* _apply_lock
    manifest,   \* whose manifest file is on disk
    process,    \* what was started for an endpoint, by plan
    listener,   \* who answers at an endpoint
    applied,    \* ghost: the plans whose apply was answered with success, in order
    cut,        \* ghost: the plans whose apply was cut off by a crash
    settled,    \* ghost: whose manifest the last of them left
    restarts

deploymentVars ==
    <<plan, configured, apply, lock, manifest, process, listener, applied, cut, settled, restarts>>

\* devices: how many device ids are configured.
Configuration == [endpoints : SUBSET Endpoints, devices : 0..Cardinality(Endpoints)]
Plan == [state : {"none", "issued", "expired", "gone"},
         action : {"configure_deepseek", "reuse_endpoints", "launch_local"}, is : Configuration]
ApplyRequest == [of : Plans \cup {Nothing},
                 at : {"idle", "waiting", "spawning", "probing", "asked", "stopping"},
                 left : SUBSET Endpoints, backup : Plans \cup {Original, Nothing}]

NoRequest == [of |-> Nothing, at |-> "idle", left |-> {}, backup |-> Nothing]
Local == [endpoints |-> Endpoints, devices |-> Cardinality(Endpoints)]
Deepseek == [endpoints |-> {}, devices |-> 0]

DeploymentInit ==
    /\ plan = [p \in Plans |-> [state |-> "none", action |-> "configure_deepseek", is |-> Deepseek]]
    /\ configured = Local
    /\ apply = [c \in Callers |-> NoRequest]
    /\ lock = Nothing
    /\ manifest = Original
    /\ process = [p \in Plans |-> [e \in Endpoints |-> "none"]]
    /\ listener = [e \in Endpoints |-> Nothing]
    /\ applied = <<>> /\ cut = {} /\ settled = Original
    /\ restarts = 0

-----------------------------------------------------------------------------
(* Plans.                                                                   *)

\* The probe asks the configured endpoints only.
Healthy == {e \in configured.endpoints : listener[e] # Nothing}

Remember(p, action, is) ==
    /\ plan[p].state = "none"
    /\ plan' = [plan EXCEPT ![p] = [state |-> "issued", action |-> action, is |-> is]]
    /\ UNCHANGED <<configured, apply, lock, manifest, process, listener, applied, cut, settled, restarts>>

PlanDeepseek(p) == Remember(p, "configure_deepseek", Deepseek)

\* Any healthy endpoints may be reused; the device ids stay all that are configured.
PlanReuse(p) ==
    \E es \in SUBSET Healthy \ {{}} :
        Remember(p, "reuse_endpoints", [endpoints |-> es, devices |-> configured.devices])

PlanLaunch(p) ==
    /\ Healthy = {}
    /\ configured.endpoints # {} /\ Cardinality(configured.endpoints) = configured.devices
    /\ Remember(p, "launch_local", configured)

Expires(p) ==
    /\ plan[p].state = "issued"
    /\ plan' = [plan EXCEPT ![p].state = "expired"]
    /\ UNCHANGED <<configured, apply, lock, manifest, process, listener, applied, cut, settled, restarts>>

-----------------------------------------------------------------------------
(* POST /apply                                                              *)

Post(c, p) ==
    /\ apply[c] = NoRequest
    /\ plan[p].state # "none"
    /\ apply' = [apply EXCEPT ![c].of = p, ![c].at = "waiting"]
    /\ UNCHANGED <<plan, configured, lock, manifest, process, listener, applied, cut, settled, restarts>>

AnswerApply(c) ==
    /\ apply' = [apply EXCEPT ![c] = NoRequest]
    /\ lock' = Nothing

Turn(c) == apply[c].at = "waiting" /\ lock = Nothing

\* Unknown, already applied, expired, not the plan that was issued, not valid for
\* the settings, a port that is taken: nothing has changed, or is changed back.
Refuse(c) ==
    /\ Turn(c)
    /\ LET p == apply[c].of IN
       plan' = IF plan[p].state = "expired" THEN [plan EXCEPT ![p].state = "gone"] ELSE plan
    /\ AnswerApply(c)
    /\ UNCHANGED <<configured, manifest, process, listener, applied, cut, settled, restarts>>

\* A local plan for other settings than those of this server is refused.
PlanAccepted(c) ==
    /\ Turn(c)
    /\ LET p == apply[c].of IN
       plan[p].state = "issued" /\ (plan[p].action = "launch_local" => plan[p].is = configured)

Succeed(c) ==
    /\ plan' = [plan EXCEPT ![apply[c].of].state = "gone"]
    /\ applied' = Append(applied, apply[c].of)
    /\ settled' = apply[c].of
    /\ AnswerApply(c)

\* A plan that starts no process is applied without an await.
ApplyAtOnce(c) ==
    /\ PlanAccepted(c)
    /\ plan[apply[c].of].action # "launch_local"
    /\ manifest' = apply[c].of
    /\ Succeed(c)
    /\ UNCHANGED <<configured, process, listener, cut, restarts>>

\* The manifest is backed up and written, the ports are free, the first process
\* is about to be started.
BeginLaunch(c) ==
    /\ PlanAccepted(c)
    /\ LET p == apply[c].of IN
       /\ plan[p].action = "launch_local"
       /\ \A e \in plan[p].is.endpoints : listener[e] = Nothing
       /\ lock' = c
       /\ manifest' = p
       /\ apply' = [apply EXCEPT ![c] = [of |-> p, at |-> "spawning", left |-> plan[p].is.endpoints,
                                         backup |-> manifest]]
    /\ UNCHANGED <<plan, configured, process, listener, applied, cut, settled, restarts>>

Spawn(c) ==
    /\ apply[c].at = "spawning"
    /\ \E e \in apply[c].left :
          /\ process' = [process EXCEPT ![apply[c].of][e] = "loading"]
          /\ apply' = [apply EXCEPT ![c].left = @ \ {e},
                                    ![c].at = IF apply[c].left = {e} THEN "probing" ELSE @]
    /\ UNCHANGED <<plan, configured, lock, manifest, listener, applied, cut, settled, restarts>>

\* _wait_ready: no process has exited, so every endpoint is asked.
AskHealth(c) ==
    /\ apply[c].at = "probing"
    /\ LET p == apply[c].of IN
       /\ \A e \in plan[p].is.endpoints : process[p][e] # "exited"
       /\ apply' = [apply EXCEPT ![c].at = "asked", ![c].left = plan[p].is.endpoints]
    /\ UNCHANGED <<plan, configured, lock, manifest, process, listener, applied, cut, settled, restarts>>

\* Somebody answers, whoever it is.
EndpointAnswers(c) ==
    /\ apply[c].at = "asked"
    /\ \E e \in apply[c].left :
          listener[e] # Nothing /\ apply' = [apply EXCEPT ![c].left = @ \ {e}]
    /\ UNCHANGED <<plan, configured, lock, manifest, process, listener, applied, cut, settled, restarts>>

\* Nobody answers, or not in time: a second later everything is asked again.
AsksAgain(c) ==
    /\ apply[c].at = "asked" /\ apply[c].left # {}
    /\ apply' = [apply EXCEPT ![c].at = "probing", ![c].left = {}]
    /\ UNCHANGED <<plan, configured, lock, manifest, process, listener, applied, cut, settled, restarts>>

\* All have answered.  Nothing looks at the processes again before the plan is
\* done: one may have exited since.
BecomesReady(c) ==
    /\ apply[c].at = "asked" /\ apply[c].left = {}
    /\ Succeed(c)
    /\ UNCHANGED <<configured, manifest, process, listener, cut, restarts>>

InLaunch(c) == apply[c].at \in {"spawning", "probing", "asked"}

\* Seeded mistake: the processes that were started before the failure stay.
LaunchFailsLeavingProcesses(c) ==
    /\ InLaunch(c)
    /\ apply' = [apply EXCEPT ![c].at = "stopping", ![c].left = {}]
    /\ UNCHANGED <<plan, configured, lock, manifest, process, listener, applied, cut, settled, restarts>>

\* A process cannot be started or exits, the deadline passes, a file cannot be
\* written, the request is cancelled: every process is told to terminate.
LaunchFails(c) ==
    /\ InLaunch(c)
    /\ LET p == apply[c].of IN
       process' = [process EXCEPT ![p] = [e \in Endpoints |->
                     IF @[e] \in {"loading", "serving"} THEN "stopping" ELSE @[e]]]
    /\ apply' = [apply EXCEPT ![c].at = "stopping", ![c].left = {}]
    /\ UNCHANGED <<plan, configured, lock, manifest, listener, applied, cut, settled, restarts>>

\* The manifest is restored (removed if there was none), and the plan can be
\* applied again.
Restore(c) ==
    /\ apply[c].at = "stopping"
    /\ manifest' = apply[c].backup
    /\ AnswerApply(c)
    /\ UNCHANGED <<plan, configured, process, listener, applied, cut, settled, restarts>>

\* Each process has exited, in time or killed.
Terminated(c) ==
    /\ \A e \in Endpoints, p \in Plans : apply[c].of = p => process[p][e] # "stopping"
    /\ Restore(c)

\* The wait is cancelled: nobody waits for the rest, or kills it.
CancelledAgain(c) ==
    /\ \E e \in Endpoints, p \in Plans : apply[c].of = p /\ process[p][e] = "stopping"
    /\ Restore(c)

-----------------------------------------------------------------------------
(* Model processes.                                                         *)

\* A model is loaded, and its port is bound if it is still free.  process is what
\* was started last for an endpoint; a process that was told to terminate may go
\* on answering until it exits.
Binds(p, e) ==
    /\ process[p][e] = "loading"
    /\ IF listener[e] = Nothing
       THEN process' = [process EXCEPT ![p][e] = "serving"] /\ listener' = [listener EXCEPT ![e] = p]
       ELSE process' = [process EXCEPT ![p][e] = "exited"] /\ UNCHANGED listener
    /\ UNCHANGED <<plan, configured, apply, lock, manifest, applied, cut, settled, restarts>>

Exits(p, e) ==
    /\ process[p][e] \in {"loading", "serving", "stopping"}
    /\ process' = [process EXCEPT ![p][e] = "exited"]
    /\ listener' = [listener EXCEPT ![e] = IF @ = p THEN Nothing ELSE @]
    /\ UNCHANGED <<plan, configured, apply, lock, manifest, applied, cut, settled, restarts>>

\* scripts/manage_ppu_model.py starts and stops model services, too.
OperatorUses(e) ==
    /\ \/ listener[e] = Nothing /\ listener' = [listener EXCEPT ![e] = Original]
       \/ listener[e] = Original /\ listener' = [listener EXCEPT ![e] = Nothing]
    /\ UNCHANGED <<plan, configured, apply, lock, manifest, process, applied, cut, settled, restarts>>

-----------------------------------------------------------------------------
\* The server stops, in good order or not, and starts with the manifest it finds:
\* perhaps one that was written a moment ago, for a request that has no answer.
RestartServer ==
    /\ restarts < MaxRestarts
    /\ restarts' = restarts + 1
    /\ \E accepted \in {c \in Callers : PlanAccepted(c)} \cup {Nothing} :
         LET off == IF accepted # Nothing THEN accepted ELSE lock
         IN  /\ manifest' = IF accepted # Nothing THEN apply[accepted].of ELSE manifest
             /\ cut' = IF off # Nothing THEN cut \cup {apply[off].of} ELSE cut
             /\ settled' = IF off # Nothing THEN apply[off].of ELSE settled
    /\ configured' = IF manifest' = Original THEN Local ELSE plan[manifest'].is
    /\ plan' = [p \in Plans |->
                  IF plan[p].state = "none" THEN plan[p] ELSE [plan[p] EXCEPT !.state = "gone"]]
    /\ apply' = [c \in Callers |-> NoRequest]
    /\ lock' = Nothing
    /\ UNCHANGED <<process, listener, applied>>

ApplyStep(c) ==
    \/ Refuse(c) \/ ApplyAtOnce(c) \/ BeginLaunch(c) \/ Spawn(c)
    \/ AskHealth(c) \/ EndpointAnswers(c) \/ AsksAgain(c) \/ BecomesReady(c)
    \/ LaunchFails(c) \/ Terminated(c) \/ CancelledAgain(c)

DeploymentNext ==
    \/ \E p \in Plans : PlanDeepseek(p) \/ PlanReuse(p) \/ PlanLaunch(p) \/ Expires(p)
    \/ \E c \in Callers, p \in Plans : Post(c, p)
    \/ \E c \in Callers : ApplyStep(c)
    \/ \E p \in Plans, e \in Endpoints : Binds(p, e) \/ Exits(p, e)
    \/ \E e \in Endpoints : OperatorUses(e)
    \/ RestartServer

DeploymentSpec == DeploymentInit /\ [][DeploymentNext]_deploymentVars

-----------------------------------------------------------------------------
DeploymentTypeOK ==
    /\ plan \in [Plans -> Plan]
    /\ configured \in Configuration
    /\ apply \in [Callers -> ApplyRequest]
    /\ lock \in Callers \cup {Nothing}
    /\ manifest \in Plans \cup {Original}
    /\ process \in [Plans -> [Endpoints -> {"none", "loading", "serving", "stopping", "exited"}]]
    /\ listener \in [Endpoints -> Plans \cup {Original, Nothing}]
    /\ applied \in Seq(Plans)
    /\ cut \subseteq Plans /\ settled \in Plans \cup {Original} /\ restarts \in Nat

\* However requests, failures, expiry, crashes and other processes interleave, a
\* plan is applied once or not at all: when none is being applied, the manifest is
\* that of the last plan that was answered with success or that a crash cut off,
\* and every process of another plan was told to terminate.
DeploymentIsAllOrNothing ==
    /\ \A i, j \in DOMAIN applied : applied[i] = applied[j] => i = j
    /\ \A i \in DOMAIN applied : applied[i] \notin cut
    /\ lock = Nothing =>
         /\ manifest = settled
         /\ \A p \in Plans, e \in Endpoints :
               process[p][e] \in {"loading", "serving"} =>
                   p \in cut \/ \E i \in DOMAIN applied : applied[i] = p

=============================================================================

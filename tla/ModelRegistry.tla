--------------------------- MODULE ModelRegistry ---------------------------
(***************************************************************************)
(* The model registry of one tenant: versions that are activated, rolled   *)
(* back to and archived by concurrent requests, the deployment record that *)
(* says what is serving, the item index of each version, and the capacity  *)
(* controller that writes the same deployment record.                      *)
(*                                                                         *)
(* A lifecycle request reads the time, waits for the tenant's advisory     *)
(* lock, reads and validates under it, and commits, which frees the lock.  *)
(* Time is a counter that every activation reads and advances; whether an  *)
(* artifact is sound and the catalogue fits it is left open.               *)
(***************************************************************************)
EXTENDS Integers, FiniteSets

CONSTANTS
    Versions,       \* model versions, registered or not
    Requests,       \* request handlers
    NoVersion,      \* NULL in the deployment record
    NoRequest,      \* nobody holds the lifecycle lock
    VersionLimit,   \* the plan's active_model_versions limit
    MaxReplicas,    \* the plan's maximum_inference_replicas
    MaxStarts       \* bound: activations and rollbacks ever requested

ASSUME ConstantsOK ==
    /\ NoVersion \notin Versions
    /\ NoRequest \notin Requests
    /\ VersionLimit \in Nat
    /\ MaxReplicas \in Nat \ {0}
    /\ MaxStarts \in Nat

VARIABLES
    version,     \* [Versions -> row of model_versions]
    deployment,  \* the tenant's row of model_deployments
    indexed,     \* versions whose Qdrant collection exists
    lifecycle,   \* the request that holds the lifecycle advisory lock
    request,     \* [Requests -> handler state]
    clock,       \* the time
    previous,    \* history: the version that served before the active one
    overtaken    \* history: an activation committed after a later one

vars == <<version, deployment, indexed, lifecycle, request, clock, previous, overtaken>>

-----------------------------------------------------------------------------
Time == 0 .. MaxStarts

Status == {"none", "eligible", "active", "retired", "archived"}

Row == [status : Status, activated : Time]     \* activated_at, 0 for NULL

Deployment == [active  : Versions \cup {NoVersion},
               target  : Versions \cup {NoVersion},   \* desired_model_version_id
               status  : {"absent", "available", "degraded"},
               desired : 1 .. MaxReplicas,
               ready   : 0 .. MaxReplicas]

NoDeployment == [active |-> NoVersion, target |-> NoVersion, status |-> "absent",
                 desired |-> 1, ready |-> 0]

(* A handler waits for the lock; holds it with its checks done (validated,  *)
(* rejected by the validation, or about to archive); or has archived and    *)
(* still has to delete the collection.                                      *)
Phases == {"idle", "waiting", "validated", "rejected", "archiving", "deleting"}
Holding == {"validated", "rejected", "archiving"}

Operations == {"activate", "rollback", "archive"}

Handler == [pc      : Phases,
            op      : Operations,
            target  : Versions \cup {NoVersion},
            now     : Time,                 \* read before the lock
            actives : SUBSET Versions,      \* read under the lock
            seen    : Deployment]           \* read under the lock

Idle == [pc |-> "idle", op |-> "archive", target |-> NoVersion, now |-> 0,
         actives |-> {}, seen |-> NoDeployment]

TypeOK ==
    /\ version \in [Versions -> Row]
    /\ deployment \in Deployment
    /\ indexed \subseteq Versions
    /\ lifecycle \in Requests \cup {NoRequest}
    /\ request \in [Requests -> Handler]
    /\ clock \in Time
    /\ previous \in Versions \cup {NoVersion}
    /\ overtaken \in BOOLEAN

-----------------------------------------------------------------------------
(* A comment "slip" marks a plausible mistake in the definition that        *)
(* follows it.  No action uses one.                                         *)

Actives == {v \in Versions : version[v].status = "active"}

Retained == {v \in Versions : version[v].status \notin {"none", "archived"}}

ProtectsOldest(v) ==               \* slip: ORDER BY activated_at without DESC
    /\ version[v].status = "retired"
    /\ Actives # {}
    /\ \A u \in Versions :
          version[u].status = "retired" => version[v].activated <= version[u].activated

(* The rollback target: the retired version that was activated last.        *)
Protected(v) ==
    /\ version[v].status = "retired"
    /\ Actives # {}
    /\ \A u \in Versions :
          version[u].status = "retired" => version[u].activated <= version[v].activated

SetRequest(r, state) == request' = [request EXCEPT ![r] = state]

FlushAll(read, new, stored) == new   \* slip: the whole row is written

(* The ORM writes only the columns whose new value is not the one it read.  *)
Flush(read, new, stored) == IF new = read THEN stored ELSE new

(* _set_deployment, from the row as it was read without FOR UPDATE.         *)
SetDeployment(read, target, active, status) ==
    LET ready == IF active = NoVersion THEN 0 ELSE read.desired
    IN  deployment' = [deployment EXCEPT
                          !.target = Flush(read.target, target, @),
                          !.active = Flush(read.active, active, @),
                          !.status = Flush(read.status, status, @),
                          !.ready  = Flush(read.ready, ready, @)]

-----------------------------------------------------------------------------
(* A training run, an import or a placeholder writes the collection before  *)
(* the row that owns it is committed; a worker removes it again when it is  *)
(* incomplete, and a crash leaves it without an owner.                      *)
WriteIndex(v) ==
    /\ version[v].status = "none"
    /\ indexed' \in {indexed \cup {v}, indexed \ {v}}
    /\ UNCHANGED <<version, deployment, lifecycle, request, clock, previous, overtaken>>

(* The row, under the quota lock; imports and placeholders are registered   *)
(* even when their collection could not be written.                         *)
RegisterVersion(v) ==
    /\ version[v].status = "none"
    /\ Cardinality(Retained) + 1 <= VersionLimit
    /\ version' = [version EXCEPT ![v].status = "eligible"]
    /\ UNCHANGED <<deployment, indexed, lifecycle, request, clock, previous, overtaken>>

-----------------------------------------------------------------------------
(* Lifecycle requests.                                                      *)

(* activate_model_version reads the time first and asks for the lock then.  *)
StartActivation(r, op, v) ==
    /\ request[r].pc = "idle"
    /\ clock < MaxStarts
    /\ clock' = clock + 1
    /\ SetRequest(r, [Idle EXCEPT !.pc = "waiting", !.op = op, !.target = v,
                                  !.now = clock + 1])
    /\ UNCHANGED <<version, deployment, indexed, lifecycle, previous, overtaken>>

StartArchive(r, v) ==
    /\ request[r].pc = "idle"
    /\ SetRequest(r, [Idle EXCEPT !.pc = "waiting", !.op = "archive", !.target = v])
    /\ UNCHANGED <<version, deployment, indexed, lifecycle, clock, previous, overtaken>>

LifecycleIgnored == TRUE           \* slip: the advisory lock is forgotten

LifecycleFree == lifecycle = NoRequest

ArchiveUnchecked(op, v) ==         \* slip: archive forgets to look at "active"
    \/ version[v].status = "none"
    \/ op = "activate" /\ version[v].status # "eligible"
    \/ op = "rollback" /\ version[v].status # "retired"
    \/ op = "archive" /\ Protected(v)

(* The early returns: 404, already active, 409 not eligible or not retired, *)
(* 409 active, 409 protected rollback target.                               *)
Refuses(op, v) ==
    \/ version[v].status = "none"
    \/ op = "activate" /\ version[v].status # "eligible"
    \/ op = "rollback" /\ version[v].status # "retired"
    \/ op = "archive" /\ (version[v].status = "active" \/ Protected(v))

Refuse(r) ==
    /\ request[r].pc = "waiting"
    /\ LifecycleFree
    /\ Refuses(request[r].op, request[r].target)
    /\ SetRequest(r, Idle)
    /\ UNCHANGED <<version, deployment, indexed, lifecycle, clock, previous, overtaken>>

(* _validate_activation wants a collection with points; any other check of  *)
(* the artifact and the catalogue may fail as well.                         *)
Verdicts(op, v) ==
    IF op = "archive" THEN {"archiving"}
    ELSE {"rejected"} \cup {pc \in {"validated"} : v \in indexed}

Enter(r) ==
    LET op == request[r].op
        v  == request[r].target
    IN  /\ request[r].pc = "waiting"
        /\ LifecycleFree
        /\ ~Refuses(op, v)
        /\ lifecycle' = r
        /\ \E pc \in Verdicts(op, v) :
              SetRequest(r, [request[r] EXCEPT !.pc = pc, !.actives = Actives,
                                               !.seen = deployment])
        /\ UNCHANGED <<version, deployment, indexed, clock, previous, overtaken>>

Overtakes(r) == \E v \in Versions : version[v].activated > request[r].now

(* Retire what was active, activate the target, point the deployment to it. *)
CommitActivation(r) ==
    LET me == request[r]
    IN  /\ me.pc = "validated"
        /\ version' = [v \in Versions |->
              CASE v = me.target     -> [status |-> "active", activated |-> me.now]
                [] v # me.target /\ v \in me.actives ->
                       [version[v] EXCEPT !.status = "retired"]
                [] OTHER             -> version[v]]
        /\ SetDeployment(me.seen, me.target, me.target, "available")
        /\ lifecycle' = NoRequest
        /\ SetRequest(r, Idle)
        /\ previous' = deployment.active
        /\ overtaken' = (overtaken \/ Overtakes(r))
        /\ UNCHANGED <<indexed, clock>>

RejectAndStop(r) ==                \* slip: the rejected version is said to serve
    LET me == request[r]
    IN  /\ me.pc = "rejected"
        /\ SetDeployment(me.seen, me.target, me.target, "degraded")
        /\ lifecycle' = NoRequest
        /\ SetRequest(r, Idle)
        /\ UNCHANGED <<version, indexed, clock, previous, overtaken>>

(* A failed validation is recorded and the active version goes on serving.  *)
CommitRejection(r) ==
    LET me == request[r]
    IN  /\ me.pc = "rejected"
        /\ \E active \in IF me.actives = {} THEN {NoVersion} ELSE me.actives :
              SetDeployment(me.seen, me.target, active, "degraded")
        /\ lifecycle' = NoRequest
        /\ SetRequest(r, Idle)
        /\ UNCHANGED <<version, indexed, clock, previous, overtaken>>

CommitArchive(r) ==
    /\ request[r].pc = "archiving"
    /\ version' = [version EXCEPT ![request[r].target].status = "archived"]
    /\ lifecycle' = NoRequest
    /\ SetRequest(r, [request[r] EXCEPT !.pc = "deleting"])
    /\ UNCHANGED <<deployment, indexed, clock, previous, overtaken>>

(* After the commit and without the lock; a failure is only logged.         *)
DeleteCollection(r) ==
    /\ request[r].pc = "deleting"
    /\ indexed' \in {indexed, indexed \ {request[r].target}}
    /\ SetRequest(r, Idle)
    /\ UNCHANGED <<version, deployment, lifecycle, clock, previous, overtaken>>

(* The process dies, the statement times out or the commit fails: Postgres  *)
(* rolls back and frees the lock.                                           *)
Abort(r) ==
    /\ request[r].pc # "idle"
    /\ SetRequest(r, Idle)
    /\ lifecycle' = IF lifecycle = r THEN NoRequest ELSE lifecycle
    /\ UNCHANGED <<version, deployment, indexed, clock, previous, overtaken>>

-----------------------------------------------------------------------------
(* decide_capacity: demand is open, the plan's maximum is a bound.          *)
CapacityTargets == 1 .. MaxReplicas

(* evaluate_capacity holds the row FOR UPDATE for its whole transaction.    *)
ScaleCapacity ==
    /\ deployment.active # NoVersion
    /\ \E target \in CapacityTargets \ {deployment.desired} :
          deployment' = [deployment EXCEPT !.desired = target, !.ready = target]
    /\ UNCHANGED <<version, indexed, lifecycle, request, clock, previous, overtaken>>

-----------------------------------------------------------------------------
Init ==
    /\ version = [v \in Versions |-> [status |-> "none", activated |-> 0]]
    /\ deployment = NoDeployment
    /\ indexed = {}
    /\ lifecycle = NoRequest
    /\ request = [r \in Requests |-> Idle]
    /\ clock = 0
    /\ previous = NoVersion
    /\ overtaken = FALSE

Start(r) ==
    \E v \in Versions :
        \/ StartArchive(r, v)
        \/ \E op \in {"activate", "rollback"} : StartActivation(r, op, v)

Handle(r) ==
    \/ Refuse(r) \/ Enter(r) \/ CommitActivation(r) \/ CommitRejection(r)
    \/ CommitArchive(r) \/ DeleteCollection(r) \/ Abort(r)

Next ==
    \/ \E v \in Versions : WriteIndex(v) \/ RegisterVersion(v)
    \/ \E r \in Requests : Start(r) \/ Handle(r)
    \/ ScaleCapacity

Spec == Init /\ [][Next]_vars

-----------------------------------------------------------------------------
(* BRULE-08: at most one version is active.  Nothing in the schema says so; *)
(* only the lifecycle lock does.                                            *)
OneActive == \A u, v \in Actives : u = v

(* The deployment record, which concurrent activations, failed validations  *)
(* and the capacity controller all write, names the version that is active; *)
(* it is available exactly when what was asked for is what serves.          *)
DeploymentAgrees ==
    /\ Actives = {deployment.active} \ {NoVersion}
    /\ deployment.status = "available" <=>
          deployment.active # NoVersion /\ deployment.target = deployment.active

(* XR-NF-01: the slots that serve are those the controller decided on,      *)
(* although activation writes ready_capacity from a row it did not lock.    *)
ReadyMatchesDesired ==
    deployment.ready = IF deployment.active = NoVersion THEN 0 ELSE deployment.desired

(* What serves has its item index: an archive deletes a collection after    *)
(* its commit, when the lock is already free.                               *)
ServedIsIndexed == deployment.active # NoVersion => deployment.active \in indexed

(* "Archive refuses the active version and the protected most recent        *)
(* retired rollback target": what served before the active version can be   *)
(* rolled back to.                                                          *)
RollbackTargetKept ==
    previous # NoVersion => version[previous].status = "retired"

(* The same as long as activations commit in the order in which they read   *)
(* the time.                                                                *)
RollbackTargetKeptInOrder == ~overtaken => RollbackTargetKept

(* Requests that overlap, and the controller that writes the row they read, *)
(* have the effect they would have one at a time, each done at once: what a *)
(* request checks before it writes is still so when it commits.             *)
Lifecycle == INSTANCE VersionLifecycle

KeepsLifecycle == Lifecycle!Spec

(* Once a version serves there always is one: activation, failed activation *)
(* and crash never leave the tenant without.                                *)
ServingContinues == [][Actives # {} => Actives' # {}]_vars
=============================================================================

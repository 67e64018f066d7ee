-------------------------- MODULE VersionLifecycle --------------------------
(***************************************************************************)
(* The registry's tables as if lifecycle requests and the capacity         *)
(* controller came one at a time and each did all of its work at once:     *)
(* what a request has checked holds of the tables it writes.               *)
(***************************************************************************)
EXTENDS Integers, FiniteSets

CONSTANTS Versions, NoVersion, VersionLimit, MaxReplicas

VARIABLES
    version,     \* [Versions -> [status, activated]]
    deployment,  \* [active, target, status, desired, ready]
    indexed      \* versions that have their collection

tables == <<version, deployment, indexed>>

With(statuses) == {v \in Versions : version[v].status \in statuses}

Kept == With({"eligible", "active", "retired"})

(* The version to roll back to: of those that served, the one that was      *)
(* activated last.                                                          *)
RollbackTarget(v) ==
    /\ v \in With({"retired"}) /\ With({"active"}) # {}
    /\ \A u \in With({"retired"}) : version[u].activated <= version[v].activated

Init ==
    /\ With({"none"}) = Versions
    /\ deployment.active = NoVersion /\ deployment.ready = 0
    /\ indexed = {}

Register(v) ==
    /\ v \in With({"none"}) /\ Cardinality(Kept) + 1 <= VersionLimit
    /\ version' = [version EXCEPT ![v].status = "eligible"]
    /\ UNCHANGED <<deployment, indexed>>

(* For a version that does not serve, and cannot without being indexed.     *)
Index(v) ==
    /\ v \in With({"none", "archived"})
    /\ indexed' \in {indexed \cup {v}, indexed \ {v}}
    /\ UNCHANGED <<version, deployment>>

(* Activation and rollback: the version takes over from the one that serves,*)
(* with the capacity decided on at this moment.                             *)
Activate(v) ==
    /\ v \in With({"eligible", "retired"}) \cap indexed
    /\ version'[v].status = "active"
    /\ \A u \in Versions \ {v} :
          version'[u] = IF u \in With({"active"}) THEN [version[u] EXCEPT !.status = "retired"]
                        ELSE version[u]
    /\ deployment' = [deployment EXCEPT !.active = v, !.target = v, !.status = "available",
                                        !.ready = deployment.desired]
    /\ UNCHANGED indexed

(* A failed validation is recorded and changes nothing of what serves.      *)
Reject(v) ==
    /\ v \in With({"eligible", "retired"})
    /\ deployment' = [deployment EXCEPT !.target = v, !.status = "degraded"]
    /\ UNCHANGED <<version, indexed>>

Archive(v) ==
    /\ v \in With({"eligible", "retired"}) /\ ~RollbackTarget(v)
    /\ version' = [version EXCEPT ![v].status = "archived"]
    /\ UNCHANGED <<deployment, indexed>>

Scale ==
    /\ deployment.active # NoVersion
    /\ \E n \in 1 .. MaxReplicas :
          deployment' = [deployment EXCEPT !.desired = n, !.ready = n]
    /\ UNCHANGED <<version, indexed>>

Next ==
    \/ \E v \in Versions : Register(v) \/ Index(v) \/ Activate(v) \/ Reject(v) \/ Archive(v)
    \/ Scale

Spec == Init /\ [][Next]_tables
=============================================================================

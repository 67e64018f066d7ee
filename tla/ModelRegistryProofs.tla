------------------------ MODULE ModelRegistryProofs ------------------------
(* Theorems about ModelRegistry for every value of its constants. *)
EXTENDS ModelRegistry, TLAPS

(***************************************************************************)
(* The inductive invariant.                                                *)
(***************************************************************************)

(* Only one request is past its checks: the holder of the lock. *)
LockInv == \A r \in Requests : request[r].pc \in Holding => lifecycle = r

TargetInv ==
    \A r \in Requests :
        /\ request[r].pc # "idle" => request[r].target \in Versions
        /\ request[r].pc = "deleting" => version[request[r].target].status = "archived"

(* What the holder of the lock read is still so, except for the capacity,   *)
(* which the controller may have changed since.                             *)
Holds(r) ==
    LET me == request[r]
    IN  /\ me.target \in Versions
        /\ me.actives = Actives
        /\ me.seen.active = deployment.active
        /\ me.seen.target = deployment.target
        /\ me.seen.status = deployment.status
        /\ deployment.active = NoVersion =>
              me.seen.ready = 0 /\ me.seen.desired = deployment.desired
        /\ deployment.active # NoVersion => me.seen.ready = me.seen.desired
        /\ version[me.target].status \notin {"none", "active"}
        /\ me.pc = "validated" => me.target \in indexed
        /\ me.pc # "archiving" => version[me.target].status # "archived"
        /\ me.pc = "archiving" => ~Protected(me.target)

HolderInv == \A r \in Requests : request[r].pc \in Holding => Holds(r)

(* The version that served before was activated after every other version   *)
(* that is not active, and the active one after all.                        *)
OrderInv ==
    ~overtaken =>
        /\ previous # NoVersion =>
              /\ Actives # {}
              /\ version[previous].status = "retired"
              /\ \A u \in Versions \ Actives :
                    version[u].activated <= version[previous].activated
        /\ \A a \in Actives : \A u \in Versions :
              version[u].activated <= version[a].activated

IInv ==
    /\ TypeOK
    /\ LockInv
    /\ TargetInv
    /\ HolderInv
    /\ DeploymentAgrees
    /\ ReadyMatchesDesired
    /\ ServedIsIndexed
    /\ OrderInv

(***************************************************************************)
(* Types.                                                                  *)
(***************************************************************************)

LEMMA Constants ==
    /\ NoDeployment \in Deployment
    /\ Idle \in Handler
    /\ 0 \in Time
    /\ Time \subseteq Nat
    /\ Idle.pc = "idle"
BY ConstantsOK DEF NoDeployment, Deployment, Idle, Handler, Phases, Operations, Time

LEMMA HandlerUpdate ==
    ASSUME request \in [Requests -> Handler], NEW r \in Requests,
           NEW h \in Handler, SetRequest(r, h)
    PROVE  /\ request' \in [Requests -> Handler]
           /\ \A q \in Requests : request'[q] = IF q = r THEN h ELSE request[q]
BY DEF SetRequest

(* _set_deployment writes a row of the right type, whatever was read.       *)
LEMMA SetDeploymentType ==
    ASSUME deployment \in Deployment, NEW read \in Deployment,
           NEW t \in Versions, NEW a \in Versions \cup {NoVersion},
           NEW s \in {"available", "degraded"},
           SetDeployment(read, t, a, s)
    PROVE  deployment' \in Deployment
<1>1. (IF a = NoVersion THEN 0 ELSE read.desired) \in 0 .. MaxReplicas
  BY ConstantsOK DEF Deployment
<1>2. \A A : \A x, new, y \in A : Flush(x, new, y) \in A
  BY DEF Flush
<1> DEFINE d == [deployment EXCEPT
                   !.target = Flush(read.target, t, deployment.target),
                   !.active = Flush(read.active, a, deployment.active),
                   !.status = Flush(read.status, s, deployment.status),
                   !.ready  = Flush(read.ready, IF a = NoVersion THEN 0 ELSE read.desired,
                                    deployment.ready)]
<1>3. /\ deployment.target \in Versions \cup {NoVersion}
      /\ deployment.active \in Versions \cup {NoVersion}
      /\ deployment.status \in {"absent", "available", "degraded"}
      /\ deployment.ready \in 0 .. MaxReplicas
      /\ read.target \in Versions \cup {NoVersion}
      /\ read.active \in Versions \cup {NoVersion}
      /\ read.status \in {"absent", "available", "degraded"}
      /\ read.ready \in 0 .. MaxReplicas
  BY DEF Deployment
<1>4. /\ Flush(read.target, t, deployment.target) \in Versions \cup {NoVersion}
      /\ Flush(read.active, a, deployment.active) \in Versions \cup {NoVersion}
      /\ Flush(read.status, s, deployment.status) \in {"absent", "available", "degraded"}
      /\ Flush(read.ready, IF a = NoVersion THEN 0 ELSE read.desired, deployment.ready)
           \in 0 .. MaxReplicas
  BY <1>1, <1>2, <1>3
<1>5. d \in Deployment
  BY <1>4 DEF Deployment
<1>6. deployment' = d
  BY DEF SetDeployment
<1> QED
  BY <1>5, <1>6

(* What it writes, when only the capacity may have changed since the read.  *)
LEMMA SetDeploymentWrites ==
    ASSUME deployment \in Deployment, ReadyMatchesDesired,
           NEW read \in Deployment,
           read.active = deployment.active, read.target = deployment.target,
           read.status = deployment.status,
           deployment.active = NoVersion =>
               read.ready = 0 /\ read.desired = deployment.desired,
           deployment.active # NoVersion => read.ready = read.desired,
           NEW t \in Versions, NEW a \in Versions \cup {NoVersion},
           NEW s \in {"available", "degraded"},
           SetDeployment(read, t, a, s)
    PROVE  /\ deployment'.target = t
           /\ deployment'.active = a
           /\ deployment'.status = s
           /\ deployment'.desired = deployment.desired
           /\ deployment'.ready = IF a = NoVersion THEN 0 ELSE deployment'.desired
<1> DEFINE ready == IF a = NoVersion THEN 0 ELSE read.desired
<1>1. /\ deployment.ready = IF deployment.active = NoVersion THEN 0 ELSE deployment.desired
      /\ deployment.desired \in 1 .. MaxReplicas /\ read.desired \in 1 .. MaxReplicas
      /\ read.ready \in 0 .. MaxReplicas
  BY DEF ReadyMatchesDesired, Deployment
<1>2. /\ deployment'.target = Flush(read.target, t, deployment.target)
      /\ deployment'.active = Flush(read.active, a, deployment.active)
      /\ deployment'.status = Flush(read.status, s, deployment.status)
      /\ deployment'.ready = Flush(read.ready, ready, deployment.ready)
      /\ deployment'.desired = deployment.desired
  BY DEF SetDeployment, Deployment
<1>3. Flush(read.ready, ready, deployment.ready)
          = IF a = NoVersion THEN 0 ELSE deployment.desired
  <2>1. CASE a = NoVersion
    BY <1>1, <2>1, ConstantsOK DEF Flush
  <2>2. CASE a # NoVersion /\ deployment.active = NoVersion
    BY <1>1, <2>2, ConstantsOK DEF Flush
  <2>3. CASE a # NoVersion /\ deployment.active # NoVersion
    BY <1>1, <2>3 DEF Flush
  <2>4. QED
    BY <2>1, <2>2, <2>3
<1> HIDE DEF ready
<1>4. QED
  BY <1>2, <1>3 DEF Flush

LEMMA TypeStep == TypeOK /\ TargetInv /\ [Next]_vars => TypeOK'
<1> SUFFICES ASSUME TypeOK, TargetInv, [Next]_vars
             PROVE  TypeOK'
  OBVIOUS
<1>1. CASE UNCHANGED vars
  BY <1>1 DEF TypeOK, vars
<1>2. ASSUME NEW v \in Versions, WriteIndex(v)
      PROVE  TypeOK'
  BY <1>2 DEF WriteIndex, TypeOK
<1>3. ASSUME NEW v \in Versions, RegisterVersion(v)
      PROVE  TypeOK'
  BY <1>3 DEF RegisterVersion, TypeOK, Row, Status
<1>4. CASE ScaleCapacity
  <2>1. PICK target \in CapacityTargets :
            deployment' = [deployment EXCEPT !.desired = target, !.ready = target]
    BY <1>4 DEF ScaleCapacity
  <2>2. target \in 1 .. MaxReplicas /\ target \in 0 .. MaxReplicas
    BY <2>1, ConstantsOK DEF CapacityTargets
  <2>3. deployment' \in Deployment
    BY <2>1, <2>2 DEF Deployment, TypeOK
  <2>4. QED
    BY <1>4, <2>3 DEF ScaleCapacity, TypeOK
<1>5. ASSUME NEW r \in Requests, Start(r)
      PROVE  TypeOK'
  <2>1. ASSUME NEW v \in Versions, StartArchive(r, v)
        PROVE  TypeOK'
    <3>1. [Idle EXCEPT !.pc = "waiting", !.op = "archive", !.target = v] \in Handler
      BY Constants DEF Handler, Phases, Operations
    <3>2. QED
      BY <2>1, <3>1, HandlerUpdate DEF StartArchive, TypeOK
  <2>2. ASSUME NEW v \in Versions, NEW op \in {"activate", "rollback"},
               StartActivation(r, op, v)
        PROVE  TypeOK'
    <3>1. clock + 1 \in Time
      BY <2>2, ConstantsOK DEF StartActivation, TypeOK, Time
    <3>2. [Idle EXCEPT !.pc = "waiting", !.op = op, !.target = v, !.now = clock + 1] \in Handler
      BY <3>1, Constants DEF Handler, Phases, Operations
    <3>3. QED
      BY <2>2, <3>1, <3>2, HandlerUpdate DEF StartActivation, TypeOK
  <2>3. QED
    BY <1>5, <2>1, <2>2 DEF Start
<1>6. ASSUME NEW r \in Requests, Handle(r)
      PROVE  TypeOK'
  <2> DEFINE me == request[r]
  <2>0. me \in Handler /\ me.seen \in Deployment /\ me.now \in Time
        /\ me.actives \subseteq Versions
    BY DEF TypeOK, Handler
  <2>t. me.pc # "idle" => me.target \in Versions
    BY DEF TargetInv
  <2>1. CASE Refuse(r)
    BY <2>1, Constants, HandlerUpdate DEF Refuse, TypeOK
  <2>2. CASE Enter(r)
    <3>1. PICK pc \in {"archiving", "rejected", "validated"} :
              SetRequest(r, [me EXCEPT !.pc = pc, !.actives = Actives, !.seen = deployment])
      BY <2>2 DEF Enter, Verdicts
    <3>2. [me EXCEPT !.pc = pc, !.actives = Actives, !.seen = deployment] \in Handler
      BY <2>0, <3>1 DEF Handler, Phases, Actives, TypeOK
    <3>3. QED
      BY <2>2, <3>1, <3>2, HandlerUpdate DEF Enter, TypeOK
  <2>3. CASE CommitActivation(r)
    <3>1. me.target \in Versions
      BY <2>3, <2>t DEF CommitActivation
    <3>2. /\ [status |-> "active", activated |-> me.now] \in Row
          /\ \A v \in Versions : [version[v] EXCEPT !.status = "retired"] \in Row
      BY <2>0 DEF Row, Status, TypeOK
    <3>3. version' \in [Versions -> Row]
      BY <2>3, <3>2 DEF CommitActivation, TypeOK
    <3>4. deployment' \in Deployment
      BY <2>0, <2>3, <3>1, SetDeploymentType DEF CommitActivation, TypeOK
    <3>5. previous' \in Versions \cup {NoVersion} /\ overtaken' \in BOOLEAN
      BY <2>3 DEF CommitActivation, TypeOK, Deployment
    <3>6. QED
      BY <2>3, <3>3, <3>4, <3>5, Constants, HandlerUpdate DEF CommitActivation, TypeOK
  <2>4. CASE CommitRejection(r)
    <3>1. me.target \in Versions
      BY <2>4, <2>t DEF CommitRejection
    <3>2. PICK active \in Versions \cup {NoVersion} :
              SetDeployment(me.seen, me.target, active, "degraded")
      BY <2>0, <2>4 DEF CommitRejection
    <3>3. deployment' \in Deployment
      BY <2>0, <3>1, <3>2, SetDeploymentType DEF TypeOK
    <3>4. QED
      BY <2>4, <3>3, Constants, HandlerUpdate DEF CommitRejection, TypeOK
  <2>5. CASE CommitArchive(r)
    <3>1. version' \in [Versions -> Row]
      BY <2>5 DEF CommitArchive, TypeOK, Row, Status
    <3>2. [me EXCEPT !.pc = "deleting"] \in Handler
      BY <2>0 DEF Handler, Phases
    <3>3. QED
      BY <2>5, <3>1, <3>2, HandlerUpdate DEF CommitArchive, TypeOK
  <2>6. CASE DeleteCollection(r)
    <3>1. indexed' \subseteq Versions
      BY <2>6 DEF DeleteCollection, TypeOK
    <3>2. QED
      BY <2>6, <3>1, Constants, HandlerUpdate DEF DeleteCollection, TypeOK
  <2>7. CASE Abort(r)
    BY <2>7, Constants, HandlerUpdate DEF Abort, TypeOK
  <2>8. QED
    BY <1>6, <2>1, <2>2, <2>3, <2>4, <2>5, <2>6, <2>7 DEF Handle
<1>7. QED
  BY <1>1, <1>2, <1>3, <1>4, <1>5, <1>6 DEF Next

(***************************************************************************)
(* Safety.                                                                 *)
(***************************************************************************)

LEMMA InitInv == Init => IInv
<1> SUFFICES ASSUME Init PROVE IInv
  OBVIOUS
<1>1. TypeOK
  BY Constants DEF Init, TypeOK, Row, Status
<1>2. LockInv /\ TargetInv /\ HolderInv
  BY Constants DEF Init, LockInv, TargetInv, HolderInv, Holding
<1>3. Actives = {}
  BY DEF Init, Actives
<1>4. DeploymentAgrees /\ ReadyMatchesDesired /\ ServedIsIndexed
  BY <1>3 DEF Init, DeploymentAgrees, ReadyMatchesDesired, ServedIsIndexed, NoDeployment
<1>5. OrderInv
  BY <1>3 DEF Init, OrderInv
<1>6. QED
  BY <1>1, <1>2, <1>4, <1>5 DEF IInv

(* The parts of the invariant that speak of the tables.                     *)
Tables == DeploymentAgrees /\ ReadyMatchesDesired /\ ServedIsIndexed /\ OrderInv

LEMMA TablesKept ==
    ASSUME IInv, UNCHANGED <<version, deployment, indexed, previous, overtaken>>
    PROVE  /\ Tables'
           /\ \A r \in Requests : request'[r] = request[r] /\ Holds(r) => Holds(r)'
BY DEF IInv, Tables, DeploymentAgrees, ReadyMatchesDesired, ServedIsIndexed, OrderInv,
       Holds, Actives, Protected

(* A request that is not past its checks comes or goes.                     *)
LEMMA OutsideStep ==
    ASSUME IInv, NEW r \in Requests, request[r].pc \notin Holding,
           NEW h \in Handler, SetRequest(r, h), h.pc \notin Holding,
           h.pc # "idle" => h.target \in Versions,
           h.pc # "deleting",
           UNCHANGED <<version, deployment, indexed, lifecycle, previous, overtaken>>
    PROVE  LockInv' /\ TargetInv' /\ HolderInv' /\ Tables'
<1>1. \A q \in Requests : request'[q] = IF q = r THEN h ELSE request[q]
  BY HandlerUpdate DEF IInv, TypeOK
<1>2. LockInv'
  BY <1>1 DEF IInv, LockInv
<1>3. TargetInv'
  BY <1>1 DEF IInv, TargetInv
<1>4. HolderInv'
  BY <1>1, TablesKept DEF IInv, HolderInv
<1>5. QED
  BY <1>2, <1>3, <1>4, TablesKept

LEMMA StartStep ==
    ASSUME IInv, NEW r \in Requests, Start(r)
    PROVE  LockInv' /\ TargetInv' /\ HolderInv' /\ Tables'
<1>1. ASSUME NEW v \in Versions, StartArchive(r, v)
      PROVE  LockInv' /\ TargetInv' /\ HolderInv' /\ Tables'
  <2> DEFINE h == [Idle EXCEPT !.pc = "waiting", !.op = "archive", !.target = v]
  <2>1. h \in Handler /\ h.pc = "waiting" /\ h.target = v
    BY Constants DEF Handler, Phases, Operations
  <2>2. SetRequest(r, h) /\ request[r].pc = "idle"
    BY <1>1 DEF StartArchive
  <2> HIDE DEF h
  <2>3. QED
    BY <1>1, <2>1, <2>2, OutsideStep DEF StartArchive, Holding
<1>2. ASSUME NEW v \in Versions, NEW op \in {"activate", "rollback"},
             StartActivation(r, op, v)
      PROVE  LockInv' /\ TargetInv' /\ HolderInv' /\ Tables'
  <2> DEFINE h == [Idle EXCEPT !.pc = "waiting", !.op = op, !.target = v, !.now = clock + 1]
  <2>1. clock + 1 \in Time
    BY <1>2, ConstantsOK DEF StartActivation, IInv, TypeOK, Time
  <2>2. h \in Handler /\ h.pc = "waiting" /\ h.target = v
    BY <2>1, Constants DEF Handler, Phases, Operations
  <2>3. SetRequest(r, h) /\ request[r].pc = "idle"
    BY <1>2 DEF StartActivation
  <2> HIDE DEF h
  <2>4. QED
    BY <1>2, <2>2, <2>3, OutsideStep DEF StartActivation, Holding
<1>3. QED
  BY <1>1, <1>2 DEF Start

LEMMA RefuseStep ==
    ASSUME IInv, NEW r \in Requests, Refuse(r)
    PROVE  LockInv' /\ TargetInv' /\ HolderInv' /\ Tables'
BY Constants, OutsideStep DEF Refuse, Holding

LEMMA EnterStep ==
    ASSUME IInv, NEW r \in Requests, Enter(r)
    PROVE  LockInv' /\ TargetInv' /\ HolderInv' /\ Tables'
<1> DEFINE op == request[r].op
           v  == request[r].target
<1>1. PICK pc \in Verdicts(op, v) :
          SetRequest(r, [request[r] EXCEPT !.pc = pc, !.actives = Actives, !.seen = deployment])
  BY DEF Enter
<1>2. /\ pc \in Holding /\ pc \in Phases
      /\ pc = "validated" => v \in indexed
      /\ pc = "archiving" <=> op = "archive"
  BY <1>1 DEF Verdicts, Holding, Phases
<1>3. /\ request[r] \in Handler /\ op \in Operations
      /\ request[r].pc = "waiting" /\ v \in Versions
      /\ lifecycle = NoRequest /\ lifecycle' = r
      /\ ~Refuses(op, v)
      /\ UNCHANGED <<version, deployment, indexed, previous, overtaken>>
  BY DEF Enter, LifecycleFree, IInv, TypeOK, TargetInv, Handler
<1> DEFINE h == [request[r] EXCEPT !.pc = pc, !.actives = Actives, !.seen = deployment]
<1>4. /\ h \in Handler /\ h.pc = pc /\ h.target = v
      /\ h.actives = Actives /\ h.seen = deployment
  BY <1>2, <1>3 DEF Handler, Actives, IInv, TypeOK
<1> HIDE DEF h
<1>5. \A q \in Requests : request'[q] = IF q = r THEN h ELSE request[q]
  BY <1>1, <1>4, HandlerUpdate DEF IInv, TypeOK, h
<1>6. \A q \in Requests : request[q].pc \notin Holding
  BY <1>3, ConstantsOK DEF IInv, LockInv
<1>7. LockInv'
  BY <1>3, <1>5, <1>6 DEF LockInv
<1>8. TargetInv'
  BY <1>2, <1>3, <1>4, <1>5 DEF IInv, TargetInv, Holding
<1>9. version[v].status \notin {"none", "active"}
  BY <1>3 DEF Refuses, Operations
<1>10. pc # "archiving" => version[v].status # "archived"
  BY <1>2, <1>3 DEF Refuses, Operations
<1>11. pc = "archiving" => ~Protected(v)
  BY <1>2, <1>3 DEF Refuses
<1>12. Holds(r)'
  <2>1. request'[r] = h
    BY <1>5
  <2>2. Actives' = Actives /\ (\A w \in Versions : Protected(w)' <=> Protected(w))
    BY <1>3 DEF Actives, Protected
  <2>3. /\ deployment.active = NoVersion => deployment.ready = 0
        /\ deployment.active # NoVersion => deployment.ready = deployment.desired
    BY DEF IInv, ReadyMatchesDesired
  <2>4. QED
    BY <1>2, <1>3, <1>4, <1>9, <1>10, <1>11, <2>1, <2>2, <2>3 DEF Holds
<1>13. HolderInv'
  BY <1>5, <1>6, <1>12 DEF HolderInv
<1>14. QED
  BY <1>3, <1>7, <1>8, <1>13, TablesKept

(* The holder commits or gives up: the lock is free and nobody is past its  *)
(* checks.                                                                  *)
LEMMA LockFreed ==
    ASSUME IInv, NEW r \in Requests, request[r].pc \in Holding,
           NEW h \in Handler, SetRequest(r, h), h.pc \notin Holding,
           lifecycle' = NoRequest
    PROVE  LockInv' /\ HolderInv'
<1>1. \A q \in Requests : request'[q] = IF q = r THEN h ELSE request[q]
  BY HandlerUpdate DEF IInv, TypeOK
<1>2. \A q \in Requests : q # r => request[q].pc \notin Holding
  BY DEF IInv, LockInv
<1>3. \A q \in Requests : request'[q].pc \notin Holding
  BY <1>1, <1>2
<1>4. QED
  BY <1>3 DEF LockInv, HolderInv

(* What an activation writes: the version it was asked for takes over from  *)
(* the active ones, with the capacity desired at the commit.                *)
LEMMA ActivationWrites ==
    ASSUME IInv, NEW r \in Requests, CommitActivation(r)
    PROVE  LET t == request[r].target
           IN  /\ t \in Versions /\ t \in indexed
               /\ version[t].status \in {"eligible", "retired"}
               /\ version'[t] = [status |-> "active", activated |-> request[r].now]
               /\ \A v \in Versions \ {t} :
                     version'[v] = IF v \in Actives THEN [version[v] EXCEPT !.status = "retired"]
                                   ELSE version[v]
               /\ deployment'.target = t /\ deployment'.active = t
               /\ deployment'.status = "available"
               /\ deployment'.desired = deployment.desired
               /\ deployment'.ready = deployment.desired
<1> DEFINE t == request[r].target
<1>1. request[r].pc = "validated" /\ request[r].pc \in Holding
  BY DEF CommitActivation, Holding
<1>2. Holds(r)
  BY <1>1 DEF IInv, HolderInv
<1>3. /\ request[r].actives = Actives /\ t \in Versions /\ t \in indexed
      /\ version[t].status \in {"eligible", "retired"} /\ t # NoVersion
  BY <1>1, <1>2, ConstantsOK DEF Holds, IInv, TypeOK, Row, Status
<1>4. \A v \in Versions : version'[v] =
          CASE v = t                   -> [status |-> "active", activated |-> request[r].now]
            [] v # t /\ v \in Actives  -> [version[v] EXCEPT !.status = "retired"]
            [] OTHER                   -> version[v]
  BY <1>3 DEF CommitActivation
<1>5. /\ version'[t] = [status |-> "active", activated |-> request[r].now]
      /\ \A v \in Versions \ {t} :
            version'[v] = IF v \in Actives THEN [version[v] EXCEPT !.status = "retired"]
                          ELSE version[v]
  BY <1>3, <1>4
<1>6. /\ request[r].seen \in Deployment
      /\ SetDeployment(request[r].seen, t, t, "available")
  BY DEF IInv, TypeOK, Handler, CommitActivation
<1> HIDE DEF t
<1>7. /\ deployment'.target = t /\ deployment'.active = t
      /\ deployment'.status = "available"
      /\ deployment'.desired = deployment.desired
      /\ deployment'.ready = deployment.desired
  BY <1>2, <1>3, <1>6, SetDeploymentWrites DEF Holds, IInv, TypeOK
<1>8. QED
  BY <1>3, <1>5, <1>7 DEF t

LEMMA ActivationStep ==
    ASSUME IInv, NEW r \in Requests, CommitActivation(r)
    PROVE  LockInv' /\ TargetInv' /\ HolderInv' /\ Tables'
<1> DEFINE t   == request[r].target
           now == request[r].now
<1>1. /\ request[r].pc = "validated" /\ request[r].pc \in Holding
      /\ lifecycle' = NoRequest /\ SetRequest(r, Idle)
      /\ previous' = deployment.active
      /\ overtaken' = (overtaken \/ Overtakes(r))
      /\ indexed' = indexed
  BY DEF CommitActivation, Holding
<1>2. /\ t \in Versions /\ t \in indexed /\ t \notin Actives /\ t # NoVersion
      /\ version[t].status \notin {"none", "active", "archived"}
      /\ version'[t] = [status |-> "active", activated |-> now]
      /\ \A v \in Versions \ {t} :
            version'[v] = IF v \in Actives THEN [version[v] EXCEPT !.status = "retired"]
                          ELSE version[v]
      /\ deployment'.target = t /\ deployment'.active = t
      /\ deployment'.status = "available"
      /\ deployment'.ready = deployment'.desired
  BY ActivationWrites, ConstantsOK DEF Actives
<1>3. /\ now \in Nat
      /\ \A v \in Versions : version[v] \in Row /\ version[v].activated \in Nat
  BY Constants DEF IInv, TypeOK, Handler, Row
<1> HIDE DEF t, now
<1>4. /\ version'[t].status = "active" /\ version'[t].activated = now
      /\ \A v \in Versions : v # t => version'[v].activated = version[v].activated
      /\ \A v \in Actives : version'[v].status = "retired"
      /\ \A v \in Versions : v # t /\ v \notin Actives => version'[v] = version[v]
  <2>1. Actives \subseteq Versions
    BY DEF Actives
  <2>2. ASSUME NEW v \in Versions
        PROVE  /\ [version[v] EXCEPT !.status = "retired"].status = "retired"
               /\ [version[v] EXCEPT !.status = "retired"].activated = version[v].activated
    BY <1>3 DEF Row
  <2>3. version'[t].status = "active" /\ version'[t].activated = now
    BY <1>2
  <2>4. ASSUME NEW v \in Versions, v # t
        PROVE  /\ version'[v].activated = version[v].activated
               /\ v \in Actives => version'[v].status = "retired"
    BY <1>2, <2>2, <2>4
  <2>5. ASSUME NEW v \in Versions, v # t, v \notin Actives
        PROVE  version'[v] = version[v]
    BY <1>2, <2>5
  <2>6. QED
    BY <1>2, <2>1, <2>3, <2>4, <2>5
<1>5. Actives' = {t}
  <2>1. \A v \in Versions : v # t => version'[v].status # "active"
    BY <1>4 DEF Actives
  <2>2. QED
    BY <1>2, <1>4, <2>1 DEF Actives
<1>6. LockInv' /\ HolderInv'
  BY <1>1, Constants, LockFreed DEF Holding
<1>7. TargetInv'
  <2>1. \A q \in Requests : request'[q] = IF q = r THEN Idle ELSE request[q]
    BY <1>1, Constants, HandlerUpdate DEF IInv, TypeOK
  <2>2. ASSUME NEW q \in Requests, q # r, request[q].pc = "deleting"
        PROVE  version'[request[q].target].status = "archived"
    BY <1>2, <1>4, <2>2 DEF IInv, TargetInv, Actives
  <2>3. QED
    BY <2>1, <2>2, Constants DEF IInv, TargetInv
<1>8. DeploymentAgrees' /\ ReadyMatchesDesired' /\ ServedIsIndexed'
  BY <1>1, <1>2, <1>5 DEF DeploymentAgrees, ReadyMatchesDesired, ServedIsIndexed
<1>9. OrderInv'
  <2> SUFFICES ASSUME ~overtaken'
               PROVE  /\ previous' # NoVersion =>
                            /\ version'[previous'].status = "retired"
                            /\ \A u \in Versions \ {t} :
                                  version'[u].activated <= version'[previous'].activated
                      /\ \A u \in Versions : version'[u].activated <= version'[t].activated
    BY <1>5 DEF OrderInv
  <2>1. ~overtaken /\ \A u \in Versions : version[u].activated <= now
    <3>1. ~overtaken /\ ~Overtakes(r)
      BY <1>1
    <3>2. QED
      BY <1>3, <3>1 DEF Overtakes, now
  <2>2. \A u \in Versions : version'[u].activated <= version'[t].activated
    BY <1>2, <1>3, <1>4, <2>1
  <2>3. ASSUME previous' # NoVersion
        PROVE  /\ version'[previous'].status = "retired"
               /\ \A u \in Versions \ {t} :
                     version'[u].activated <= version'[previous'].activated
    <3>1. previous' \in Actives
      BY <1>1, <2>3 DEF IInv, DeploymentAgrees
    <3>2. \A u \in Versions : version[u].activated <= version[previous'].activated
      BY <2>1, <3>1 DEF IInv, OrderInv
    <3>3. previous' \in Versions /\ previous' # t
      BY <1>2, <3>1 DEF Actives
    <3>4. QED
      BY <1>4, <3>1, <3>2, <3>3
  <2>4. QED
    BY <2>2, <2>3
<1>10. QED
  BY <1>6, <1>7, <1>8, <1>9 DEF Tables

(* A rejection writes what was asked for and that it does not serve.        *)
LEMMA RejectionWrites ==
    ASSUME IInv, NEW r \in Requests, CommitRejection(r)
    PROVE  LET t == request[r].target
           IN  /\ t \in Versions /\ t # deployment.active
               /\ version[t].status \in {"eligible", "retired"}
               /\ deployment'.target = t /\ deployment'.active = deployment.active
               /\ deployment'.status = "degraded"
               /\ deployment'.desired = deployment.desired
               /\ deployment'.ready = deployment.ready
<1> DEFINE t == request[r].target
<1>1. request[r].pc = "rejected" /\ request[r].pc \in Holding
  BY DEF CommitRejection, Holding
<1>2. Holds(r)
  BY <1>1 DEF IInv, HolderInv
<1>3. PICK active \in IF request[r].actives = {} THEN {NoVersion} ELSE request[r].actives :
          SetDeployment(request[r].seen, t, active, "degraded")
  BY DEF CommitRejection
<1>4. /\ active = deployment.active /\ active \in Versions \cup {NoVersion}
      /\ t \in Versions /\ t # active
      /\ version[t].status \in {"eligible", "retired"}
  BY <1>1, <1>2, <1>3, ConstantsOK
     DEF Holds, Actives, IInv, DeploymentAgrees, TypeOK, Deployment, Row, Status
<1>5. request[r].seen \in Deployment
  BY DEF IInv, TypeOK, Handler
<1> HIDE DEF t
<1>6. /\ deployment'.target = t /\ deployment'.active = active
      /\ deployment'.status = "degraded"
      /\ deployment'.desired = deployment.desired
      /\ deployment'.ready = IF active = NoVersion THEN 0 ELSE deployment'.desired
  BY <1>2, <1>3, <1>4, <1>5, SetDeploymentWrites DEF Holds, IInv, TypeOK
<1>7. deployment'.ready = deployment.ready
  BY <1>4, <1>6 DEF IInv, ReadyMatchesDesired
<1>8. QED
  BY <1>4, <1>6, <1>7 DEF t

LEMMA RejectionStep ==
    ASSUME IInv, NEW r \in Requests, CommitRejection(r)
    PROVE  LockInv' /\ TargetInv' /\ HolderInv' /\ Tables'
<1> DEFINE t == request[r].target
<1>1. /\ request[r].pc = "rejected" /\ request[r].pc \in Holding
      /\ lifecycle' = NoRequest /\ SetRequest(r, Idle)
      /\ UNCHANGED <<version, indexed, previous, overtaken>>
  BY DEF CommitRejection, Holding
<1>2. /\ t \in Versions /\ t # NoVersion /\ t # deployment.active
      /\ deployment'.target = t /\ deployment'.active = deployment.active
      /\ deployment'.status = "degraded"
      /\ deployment'.desired = deployment.desired /\ deployment'.ready = deployment.ready
  BY RejectionWrites, ConstantsOK
<1> HIDE DEF t
<1>3. Actives' = Actives
  BY <1>1 DEF Actives
<1>4. DeploymentAgrees' /\ ReadyMatchesDesired' /\ ServedIsIndexed'
  BY <1>1, <1>2, <1>3
     DEF IInv, DeploymentAgrees, ReadyMatchesDesired, ServedIsIndexed
<1>5. OrderInv'
  BY <1>1, <1>3 DEF IInv, OrderInv
<1>6. TargetInv'
  <2>1. \A q \in Requests : request'[q] = IF q = r THEN Idle ELSE request[q]
    BY <1>1, Constants, HandlerUpdate DEF IInv, TypeOK
  <2>2. QED
    BY <1>1, <2>1, Constants DEF IInv, TargetInv
<1>7. QED
  BY <1>1, <1>4, <1>5, <1>6, Constants, LockFreed DEF Tables, Holding

LEMMA ArchiveStep ==
    ASSUME IInv, NEW r \in Requests, CommitArchive(r)
    PROVE  LockInv' /\ TargetInv' /\ HolderInv' /\ Tables'
<1> DEFINE t == request[r].target
           h == [request[r] EXCEPT !.pc = "deleting"]
<1>1. /\ request[r].pc = "archiving" /\ request[r].pc \in Holding
      /\ lifecycle' = NoRequest /\ SetRequest(r, h)
      /\ version' = [version EXCEPT ![t].status = "archived"]
      /\ UNCHANGED <<deployment, indexed, previous, overtaken>>
  BY DEF CommitArchive, Holding
<1>2. /\ t \in Versions /\ version[t].status \notin {"none", "active"}
      /\ ~Protected(t)
  BY <1>1 DEF IInv, HolderInv, Holds
<1>3. h \in Handler /\ h.pc = "deleting" /\ h.target = t
  BY DEF IInv, TypeOK, Handler, Phases
<1> HIDE DEF h, t
<1>4. /\ version'[t].status = "archived"
      /\ \A v \in Versions : version'[v].activated = version[v].activated
      /\ \A v \in Versions : v # t => version'[v] = version[v]
  BY <1>1, <1>2 DEF IInv, TypeOK, Row
<1>5. Actives' = Actives
  BY <1>2, <1>4 DEF Actives
<1>6. LockInv' /\ HolderInv'
  BY <1>1, <1>3, LockFreed DEF Holding
<1>7. TargetInv'
  <2>1. \A q \in Requests : request'[q] = IF q = r THEN h ELSE request[q]
    BY <1>1, <1>3, HandlerUpdate DEF IInv, TypeOK
  <2>2. ASSUME NEW q \in Requests
        PROVE  /\ request'[q].pc # "idle" => request'[q].target \in Versions
               /\ request'[q].pc = "deleting" =>
                     version'[request'[q].target].status = "archived"
    BY <1>2, <1>3, <1>4, <2>1 DEF IInv, TargetInv
  <2>3. QED
    BY <2>2 DEF TargetInv
<1>8. DeploymentAgrees' /\ ReadyMatchesDesired' /\ ServedIsIndexed'
  BY <1>1, <1>5 DEF IInv, DeploymentAgrees, ReadyMatchesDesired, ServedIsIndexed
<1>9. OrderInv'
  <2> SUFFICES ASSUME ~overtaken, previous # NoVersion
               PROVE  version'[previous].status = "retired"
    <3>1. ~overtaken => OrderInv
      BY DEF IInv
    <3>2. previous # NoVersion => previous \in Versions
      BY DEF IInv, TypeOK
    <3>3. \A a \in Actives : a \in Versions
      BY DEF Actives
    <3>4. QED
      BY <1>1, <1>4, <1>5, <3>1, <3>2, <3>3 DEF OrderInv
  <2>1. /\ previous \in Versions /\ version[previous].status = "retired" /\ Actives # {}
        /\ \A u \in Versions \ Actives : version[u].activated <= version[previous].activated
    BY DEF IInv, TypeOK, OrderInv
  <2>2. Protected(previous)
    BY <2>1 DEF Protected, Actives
  <2>3. QED
    BY <1>2, <1>4, <2>1, <2>2
<1>10. QED
  BY <1>6, <1>7, <1>8, <1>9 DEF Tables

(* The other requests keep what they know across a step that touches        *)
(* neither their state nor the tables they have read.                       *)
LEMMA DeleteStep ==
    ASSUME IInv, NEW r \in Requests, DeleteCollection(r)
    PROVE  LockInv' /\ TargetInv' /\ HolderInv' /\ Tables'
<1> DEFINE t == request[r].target
<1>1. /\ request[r].pc = "deleting" /\ SetRequest(r, Idle)
      /\ indexed' = indexed \/ indexed' = indexed \ {t}
      /\ UNCHANGED <<version, deployment, lifecycle, previous, overtaken>>
  BY DEF DeleteCollection
<1>2. t \in Versions /\ version[t].status = "archived"
  BY <1>1 DEF IInv, TargetInv
<1> HIDE DEF t
<1>3. \A q \in Requests : request'[q] = IF q = r THEN Idle ELSE request[q]
  BY <1>1, Constants, HandlerUpdate DEF IInv, TypeOK
<1>4. LockInv' /\ TargetInv'
  BY <1>1, <1>3, Constants DEF IInv, LockInv, TargetInv, Holding
<1>5. Actives' = Actives /\ (\A v \in Versions : Protected(v)' <=> Protected(v))
  BY <1>1 DEF Actives, Protected
<1>6. HolderInv'
  <2> SUFFICES ASSUME NEW q \in Requests, request'[q].pc \in Holding
               PROVE  Holds(q)'
    BY DEF HolderInv
  <2>1. q # r /\ request'[q] = request[q]
    BY <1>3, Constants DEF Holding
  <2>2. Holds(q)
    BY <2>1 DEF IInv, HolderInv
  <2>3. request[q].pc = "validated" => request[q].target \in indexed'
    BY <1>1, <1>2, <2>2 DEF Holds
  <2>4. QED
    BY <1>1, <1>5, <2>1, <2>2, <2>3 DEF Holds
<1>7. DeploymentAgrees' /\ ReadyMatchesDesired' /\ OrderInv'
  BY <1>1, <1>5 DEF IInv, DeploymentAgrees, ReadyMatchesDesired, OrderInv
<1>8. ServedIsIndexed'
  <2>1. deployment.active # NoVersion => deployment.active \in Actives
    BY DEF IInv, DeploymentAgrees
  <2>2. t \notin Actives
    BY <1>2 DEF Actives
  <2>3. QED
    BY <1>1, <2>1, <2>2 DEF IInv, ServedIsIndexed
<1>9. QED
  BY <1>4, <1>6, <1>7, <1>8 DEF Tables

LEMMA AbortStep ==
    ASSUME IInv, NEW r \in Requests, Abort(r)
    PROVE  LockInv' /\ TargetInv' /\ HolderInv' /\ Tables'
<1>1. /\ SetRequest(r, Idle)
      /\ lifecycle' = IF lifecycle = r THEN NoRequest ELSE lifecycle
      /\ UNCHANGED <<version, deployment, indexed, previous, overtaken>>
  BY DEF Abort
<1>2. \A q \in Requests : request'[q] = IF q = r THEN Idle ELSE request[q]
  BY <1>1, Constants, HandlerUpdate DEF IInv, TypeOK
<1>3. \A q \in Requests : request'[q].pc \in Holding =>
          q # r /\ request[q].pc \in Holding /\ lifecycle = q
  BY <1>2, Constants DEF IInv, LockInv, Holding
<1>4. LockInv'
  BY <1>1, <1>3 DEF LockInv
<1>5. TargetInv'
  BY <1>1, <1>2, Constants DEF IInv, TargetInv
<1>6. HolderInv'
  <2>1. ASSUME NEW q \in Requests, request'[q].pc \in Holding
        PROVE  Holds(q)'
    BY <1>1, <1>2, <1>3, <2>1, TablesKept DEF IInv, HolderInv
  <2>2. QED
    BY <2>1 DEF HolderInv
<1>7. QED
  BY <1>1, <1>4, <1>5, <1>6, TablesKept

LEMMA IndexStep ==
    ASSUME IInv, NEW v \in Versions, WriteIndex(v)
    PROVE  LockInv' /\ TargetInv' /\ HolderInv' /\ Tables'
<1>1. /\ version[v].status = "none"
      /\ indexed' = indexed \cup {v} \/ indexed' = indexed \ {v}
      /\ UNCHANGED <<version, deployment, lifecycle, request, previous, overtaken>>
  BY DEF WriteIndex
<1>2. Actives' = Actives /\ (\A u \in Versions : Protected(u)' <=> Protected(u))
  BY <1>1 DEF Actives, Protected
<1>3. LockInv' /\ TargetInv'
  BY <1>1 DEF IInv, LockInv, TargetInv
<1>4. HolderInv'
  <2> SUFFICES ASSUME NEW q \in Requests, request[q].pc \in Holding
               PROVE  Holds(q)'
    BY <1>1 DEF HolderInv
  <2>1. Holds(q)
    BY DEF IInv, HolderInv
  <2>2. request[q].pc = "validated" => request[q].target \in indexed'
    BY <1>1, <2>1 DEF Holds
  <2>3. QED
    BY <1>1, <1>2, <2>1, <2>2 DEF Holds
<1>5. DeploymentAgrees' /\ ReadyMatchesDesired' /\ OrderInv'
  BY <1>1, <1>2 DEF IInv, DeploymentAgrees, ReadyMatchesDesired, OrderInv
<1>6. ServedIsIndexed'
  <2>1. deployment.active # NoVersion => deployment.active \in Actives
    BY DEF IInv, DeploymentAgrees
  <2>2. v \notin Actives
    BY <1>1 DEF Actives
  <2>3. QED
    BY <1>1, <2>1, <2>2 DEF IInv, ServedIsIndexed
<1>7. QED
  BY <1>3, <1>4, <1>5, <1>6 DEF Tables

LEMMA RegisterStep ==
    ASSUME IInv, NEW v \in Versions, RegisterVersion(v)
    PROVE  LockInv' /\ TargetInv' /\ HolderInv' /\ Tables'
<1>1. /\ version[v].status = "none"
      /\ version' = [version EXCEPT ![v].status = "eligible"]
      /\ UNCHANGED <<deployment, indexed, lifecycle, request, previous, overtaken>>
  BY DEF RegisterVersion
<1>2. /\ version'[v].status = "eligible"
      /\ \A u \in Versions : version'[u].activated = version[u].activated
      /\ \A u \in Versions : u # v => version'[u] = version[u]
  BY <1>1 DEF IInv, TypeOK, Row
<1>3. Actives' = Actives
  BY <1>1, <1>2 DEF Actives
<1>4. \A u \in Versions : Protected(u)' <=> Protected(u)
  BY <1>1, <1>2, <1>3 DEF Protected
<1>5. LockInv'
  BY <1>1 DEF IInv, LockInv
<1>6. TargetInv'
  <2>1. ASSUME NEW q \in Requests
        PROVE  /\ request[q].pc # "idle" => request[q].target \in Versions
               /\ request[q].pc = "deleting" =>
                     version'[request[q].target].status = "archived"
    <3>1. CASE request[q].pc = "deleting"
      <4>1. request[q].target \in Versions /\ request[q].target # v
        BY <1>1, <3>1 DEF IInv, TargetInv
      <4>2. QED
        BY <1>2, <3>1, <4>1 DEF IInv, TargetInv
    <3>2. CASE request[q].pc # "deleting"
      BY <3>2 DEF IInv, TargetInv
    <3>3. QED
      BY <3>1, <3>2
  <2>2. QED
    BY <1>1, <2>1 DEF TargetInv
<1>7. HolderInv'
  <2> SUFFICES ASSUME NEW q \in Requests, request[q].pc \in Holding
               PROVE  Holds(q)'
    BY <1>1 DEF HolderInv
  <2>1. Holds(q)
    BY DEF IInv, HolderInv
  <2>2. /\ request[q].target \in Versions
        /\ version'[request[q].target] = version[request[q].target]
        /\ Protected(request[q].target)' <=> Protected(request[q].target)
    BY <1>1, <1>2, <1>4, <2>1 DEF Holds
  <2>3. QED
    BY <1>1, <1>3, <2>1, <2>2 DEF Holds
<1>8. DeploymentAgrees' /\ ReadyMatchesDesired' /\ ServedIsIndexed'
  BY <1>1, <1>3 DEF IInv, DeploymentAgrees, ReadyMatchesDesired, ServedIsIndexed
<1>9. OrderInv'
  <2>1. ~overtaken => OrderInv
    BY DEF IInv
  <2>2. previous # NoVersion => previous \in Versions
    BY DEF IInv, TypeOK
  <2>3. \A a \in Actives : a \in Versions
    BY DEF Actives
  <2>4. QED
    BY <1>1, <1>2, <1>3, <2>1, <2>2, <2>3 DEF OrderInv
<1>10. QED
  BY <1>5, <1>6, <1>7, <1>8, <1>9 DEF Tables

LEMMA ScaleStep ==
    ASSUME IInv, ScaleCapacity
    PROVE  LockInv' /\ TargetInv' /\ HolderInv' /\ Tables'
<1>1. PICK n \in CapacityTargets :
          deployment' = [deployment EXCEPT !.desired = n, !.ready = n]
  BY DEF ScaleCapacity
<1>2. /\ deployment.active # NoVersion
      /\ UNCHANGED <<version, indexed, lifecycle, request, previous, overtaken>>
  BY DEF ScaleCapacity
<1>3. /\ deployment'.active = deployment.active /\ deployment'.target = deployment.target
      /\ deployment'.status = deployment.status
      /\ deployment'.desired = n /\ deployment'.ready = n
  BY <1>1 DEF IInv, TypeOK, Deployment
<1>4. Actives' = Actives /\ (\A u \in Versions : Protected(u)' <=> Protected(u))
  BY <1>2 DEF Actives, Protected
<1>5. LockInv' /\ TargetInv'
  BY <1>2 DEF IInv, LockInv, TargetInv
<1>6. HolderInv'
  <2> SUFFICES ASSUME NEW q \in Requests, request[q].pc \in Holding
               PROVE  Holds(q)'
    BY <1>2 DEF HolderInv
  <2>1. Holds(q)
    BY DEF IInv, HolderInv
  <2>2. QED
    BY <1>2, <1>3, <1>4, <2>1 DEF Holds
<1>7. DeploymentAgrees' /\ ReadyMatchesDesired' /\ ServedIsIndexed'
  BY <1>2, <1>3, <1>4 DEF IInv, DeploymentAgrees, ReadyMatchesDesired, ServedIsIndexed
<1>8. OrderInv'
  BY <1>2, <1>4 DEF IInv, OrderInv
<1>9. QED
  BY <1>5, <1>6, <1>7, <1>8 DEF Tables

LEMMA StutterStep ==
    ASSUME IInv, UNCHANGED vars
    PROVE  LockInv' /\ TargetInv' /\ HolderInv' /\ Tables'
<1>1. LockInv' /\ TargetInv'
  BY DEF vars, IInv, LockInv, TargetInv
<1>2. HolderInv' /\ Tables'
  BY TablesKept DEF vars, IInv, HolderInv
<1>3. QED
  BY <1>1, <1>2

LEMMA InvStep == IInv /\ [Next]_vars => IInv'
<1> SUFFICES ASSUME IInv, [Next]_vars
             PROVE  IInv'
  OBVIOUS
<1>1. TypeOK'
  BY TypeStep DEF IInv
<1>2. ASSUME NEW r \in Requests, Handle(r)
      PROVE  LockInv' /\ TargetInv' /\ HolderInv' /\ Tables'
  BY <1>2, RefuseStep, EnterStep, ActivationStep, RejectionStep, ArchiveStep,
     DeleteStep, AbortStep DEF Handle
<1>3. LockInv' /\ TargetInv' /\ HolderInv' /\ Tables'
  BY <1>2, StartStep, IndexStep, RegisterStep, ScaleStep, StutterStep DEF Next
<1>4. QED
  BY <1>1, <1>3 DEF IInv, Tables

LEMMA Invariance == Spec => []IInv
BY InitInv, InvStep, PTL DEF Spec

(***************************************************************************)
(* Operations one at a time: every step of the registry is a step of       *)
(* VersionLifecycle or leaves its tables alone.                            *)
(***************************************************************************)

(* The sets of versions have other names there.                             *)
LEMMA SameSets ==
    /\ Lifecycle!Kept = {v \in Versions : version[v].status \in {"eligible", "active", "retired"}}
    /\ Lifecycle!With({"active"}) = Actives
    /\ TypeOK => Lifecycle!Kept = Retained
    /\ \A v \in Versions : Lifecycle!RollbackTarget(v) <=> Protected(v)
    /\ Cardinality(Lifecycle!Kept) = Lifecycle!Cardinality(Lifecycle!Kept)
<1>1. Lifecycle!With({"active"}) = Actives
  BY DEF Lifecycle!With, Actives
<1>2. Lifecycle!Kept = {v \in Versions : version[v].status \in {"eligible", "active", "retired"}}
  BY DEF Lifecycle!With, Lifecycle!Kept
<1>3. TypeOK => Lifecycle!Kept = Retained
  BY <1>2 DEF TypeOK, Row, Status, Retained
<1>4. \A v \in Versions : Lifecycle!RollbackTarget(v) <=> Protected(v)
  BY <1>1 DEF Lifecycle!With, Lifecycle!RollbackTarget, Protected
<1>5. Cardinality(Lifecycle!Kept) = Lifecycle!Cardinality(Lifecycle!Kept)
  BY DEF Cardinality, Lifecycle!Cardinality
<1>6. QED
  BY <1>1, <1>2, <1>3, <1>4, <1>5

LEMMA LifecycleBegins == Init => Lifecycle!Init
BY DEF Init, NoDeployment, Lifecycle!Init, Lifecycle!With

LEMMA LifecycleActivates ==
    ASSUME IInv, TypeOK', NEW r \in Requests, CommitActivation(r)
    PROVE  Lifecycle!Next
<1> DEFINE t == request[r].target
<1>1. /\ t \in Versions /\ t \in indexed
      /\ version[t].status \in {"eligible", "retired"}
      /\ version'[t] = [status |-> "active", activated |-> request[r].now]
      /\ \A v \in Versions \ {t} :
            version'[v] = IF v \in Actives THEN [version[v] EXCEPT !.status = "retired"]
                          ELSE version[v]
      /\ deployment'.target = t /\ deployment'.active = t
      /\ deployment'.status = "available"
      /\ deployment'.desired = deployment.desired
      /\ deployment'.ready = deployment.desired
  BY ActivationWrites
<1>2. indexed' = indexed
  BY DEF CommitActivation
<1> HIDE DEF t
<1>3. deployment' = [deployment EXCEPT !.active = t, !.target = t, !.status = "available",
                                       !.ready = deployment.desired]
  BY <1>1 DEF IInv, TypeOK, Deployment
<1>4. t \in Lifecycle!With({"eligible", "retired"}) \cap indexed
  BY <1>1 DEF Lifecycle!With
<1>5. version'[t].status = "active"
  BY <1>1
<1>6. Lifecycle!Activate(t)
  BY <1>1, <1>2, <1>3, <1>4, <1>5, SameSets DEF Lifecycle!Activate
<1>7. QED
  BY <1>1, <1>6 DEF Lifecycle!Next

LEMMA LifecycleRejects ==
    ASSUME IInv, TypeOK', NEW r \in Requests, CommitRejection(r)
    PROVE  Lifecycle!Next
<1> DEFINE t == request[r].target
<1>1. /\ t \in Versions /\ version[t].status \in {"eligible", "retired"}
      /\ deployment'.target = t /\ deployment'.active = deployment.active
      /\ deployment'.status = "degraded"
      /\ deployment'.desired = deployment.desired
      /\ deployment'.ready = deployment.ready
  BY RejectionWrites
<1>2. UNCHANGED <<version, indexed>>
  BY DEF CommitRejection
<1> HIDE DEF t
<1>3. deployment' = [deployment EXCEPT !.target = t, !.status = "degraded"]
  BY <1>1 DEF IInv, TypeOK, Deployment
<1>4. Lifecycle!Reject(t)
  BY <1>1, <1>2, <1>3 DEF Lifecycle!Reject, Lifecycle!With
<1>5. QED
  BY <1>1, <1>4 DEF Lifecycle!Next

(* What is archived a second time stays as it is.                           *)
LEMMA LifecycleArchives ==
    ASSUME IInv, NEW r \in Requests, CommitArchive(r)
    PROVE  Lifecycle!Next \/ UNCHANGED Lifecycle!tables
<1> DEFINE t == request[r].target
<1>1. /\ request[r].pc = "archiving" /\ request[r].pc \in Holding
      /\ version' = [version EXCEPT ![t].status = "archived"]
      /\ UNCHANGED <<deployment, indexed>>
  BY DEF CommitArchive, Holding
<1>2. /\ t \in Versions /\ ~Protected(t)
      /\ version[t].status \in {"eligible", "retired", "archived"}
  BY <1>1 DEF IInv, HolderInv, Holds, TypeOK, Row, Status
<1> HIDE DEF t
<1>3. CASE version[t].status = "archived"
  <2>1. version' = version
    BY <1>1, <1>2, <1>3 DEF IInv, TypeOK, Row
  <2>2. QED
    BY <1>1, <2>1 DEF Lifecycle!tables
<1>4. CASE version[t].status # "archived"
  <2>1. t \in Lifecycle!With({"eligible", "retired"}) /\ ~Lifecycle!RollbackTarget(t)
    BY <1>2, <1>4, SameSets DEF Lifecycle!With
  <2>2. Lifecycle!Archive(t)
    BY <1>1, <2>1 DEF Lifecycle!Archive
  <2>3. QED
    BY <1>2, <2>2 DEF Lifecycle!Next
<1>5. QED
  BY <1>3, <1>4

LEMMA LifecycleStep ==
    ASSUME IInv, TypeOK', [Next]_vars
    PROVE  Lifecycle!Next \/ UNCHANGED Lifecycle!tables
<1>1. ASSUME NEW v \in Versions, WriteIndex(v)
      PROVE  Lifecycle!Next
  <2>1. Lifecycle!Index(v)
    BY <1>1 DEF WriteIndex, Lifecycle!Index, Lifecycle!With
  <2>2. QED
    BY <2>1 DEF Lifecycle!Next
<1>2. ASSUME NEW v \in Versions, RegisterVersion(v)
      PROVE  Lifecycle!Next
  <2>1. Lifecycle!Cardinality(Lifecycle!Kept) + 1 <= VersionLimit
    BY <1>2, SameSets DEF RegisterVersion, IInv
  <2>2. Lifecycle!Register(v)
    BY <1>2, <2>1 DEF RegisterVersion, Lifecycle!Register, Lifecycle!With
  <2>3. QED
    BY <2>2 DEF Lifecycle!Next
<1>3. CASE ScaleCapacity
  <2>1. Lifecycle!Scale
    BY <1>3 DEF ScaleCapacity, CapacityTargets, Lifecycle!Scale
  <2>2. QED
    BY <2>1 DEF Lifecycle!Next
<1>4. ASSUME NEW r \in Requests, DeleteCollection(r)
      PROVE  Lifecycle!Next \/ UNCHANGED Lifecycle!tables
  <2>1. request[r].target \in Versions /\ version[request[r].target].status = "archived"
    BY <1>4 DEF DeleteCollection, IInv, TargetInv
  <2>2. CASE indexed' = indexed
    BY <1>4, <2>2 DEF DeleteCollection, Lifecycle!tables
  <2>3. CASE indexed' = indexed \ {request[r].target}
    <3>1. Lifecycle!Index(request[r].target)
      BY <1>4, <2>1, <2>3 DEF DeleteCollection, Lifecycle!Index, Lifecycle!With
    <3>2. QED
      BY <2>1, <3>1 DEF Lifecycle!Next
  <2>4. QED
    BY <1>4, <2>2, <2>3 DEF DeleteCollection
<1>5. ASSUME NEW r \in Requests, Start(r) \/ Refuse(r) \/ Enter(r) \/ Abort(r)
      PROVE  UNCHANGED Lifecycle!tables
  BY <1>5 DEF Start, StartArchive, StartActivation, Refuse, Enter, Abort, Lifecycle!tables
<1>6. CASE UNCHANGED vars
  BY <1>6 DEF vars, Lifecycle!tables
<1>7. QED
  BY <1>1, <1>2, <1>3, <1>4, <1>5, <1>6, LifecycleActivates, LifecycleRejects, LifecycleArchives
     DEF Next, Handle

(***************************************************************************)
(* The theorems.                                                           *)
(***************************************************************************)

(* Every table, handler and history variable keeps its type whatever the    *)
(* requests, the worker and the capacity controller do.                     *)
THEOREM RegistryTypes == Spec => []TypeOK
<1>1. IInv => TypeOK
  BY DEF IInv
<1>2. QED
  BY <1>1, Invariance, PTL

(* BRULE-08: however many requests activate, roll back and archive at once, *)
(* at most one version of the tenant is active.                             *)
THEOREM AtMostOneActive == Spec => []OneActive
<1>1. IInv => OneActive
  BY DEF IInv, DeploymentAgrees, OneActive
<1>2. QED
  BY <1>1, Invariance, PTL

(* The deployment record names the active version, although activation      *)
(* computes it from a row it read without a row lock.                       *)
THEOREM DeploymentNamesTheActive == Spec => []DeploymentAgrees
<1>1. IInv => DeploymentAgrees
  BY DEF IInv
<1>2. QED
  BY <1>1, Invariance, PTL

(* The capacity that serves is the capacity decided on: no activation       *)
(* undoes a concurrent decision of the capacity controller.                 *)
THEOREM CapacityIsNotLost == Spec => []ReadyMatchesDesired
<1>1. IInv => ReadyMatchesDesired
  BY DEF IInv
<1>2. QED
  BY <1>1, Invariance, PTL

(* The collection of the version that serves exists, although archives      *)
(* delete collections outside the lock.                                     *)
THEOREM TheServedIsIndexed == Spec => []ServedIsIndexed
<1>1. IInv => ServedIsIndexed
  BY DEF IInv
<1>2. QED
  BY <1>1, Invariance, PTL

(* The version that served before the active one can be rolled back to, as  *)
(* long as activations commit in the order in which they read the time.     *)
THEOREM RollbackTargetIsKept == Spec => []RollbackTargetKeptInOrder
<1>1. IInv => RollbackTargetKeptInOrder
  BY DEF IInv, OrderInv, RollbackTargetKeptInOrder, RollbackTargetKept
<1>2. QED
  BY <1>1, Invariance, PTL

(* No step takes the tenant from serving to not serving: a version stops    *)
(* being active only in the commit that activates another.                  *)
THEOREM ServingIsKept == Spec => ServingContinues
<1>1. ASSUME IInv, [Next]_vars, Actives # {}
      PROVE  Actives' # {}
  <2>1. PICK a \in Actives : a \in Versions /\ version[a].status = "active"
    BY <1>1 DEF Actives
  <2>2. SUFFICES ASSUME ~(\E v \in Versions : version'[v].status = "active")
                 PROVE  FALSE
    BY DEF Actives
  <2>3. version' # version
    BY <2>1, <2>2
  <2>4. CASE \E v \in Versions : RegisterVersion(v)
    <3>1. PICK v \in Versions : RegisterVersion(v)
      BY <2>4
    <3>2. v # a /\ version'[a] = version[a]
      BY <1>1, <2>1, <3>1 DEF RegisterVersion, IInv, TypeOK
    <3>3. QED
      BY <2>1, <2>2, <3>2
  <2>5. CASE \E r \in Requests : CommitActivation(r)
    <3>1. PICK r \in Requests : CommitActivation(r)
      BY <2>5
    <3>2. request[r].target \in Versions
      BY <1>1, <3>1 DEF CommitActivation, IInv, TargetInv
    <3>3. version'[request[r].target] = [status |-> "active", activated |-> request[r].now]
      BY <3>1, <3>2 DEF CommitActivation
    <3>4. version'[request[r].target].status = "active"
      BY <3>3
    <3>5. QED
      BY <2>2, <3>2, <3>4
  <2>6. CASE \E r \in Requests : CommitArchive(r)
    <3>1. PICK r \in Requests : CommitArchive(r)
      BY <2>6
    <3>2. request[r].pc = "archiving" /\ request[r].pc \in Holding
      BY <3>1 DEF CommitArchive, Holding
    <3>3. Holds(r)
      BY <1>1, <3>2 DEF IInv, HolderInv
    <3>4. request[r].target # a
      BY <2>1, <3>3 DEF Holds
    <3>5. version'[a] = version[a]
      BY <1>1, <2>1, <3>1, <3>4 DEF CommitArchive, IInv, TypeOK
    <3>6. QED
      BY <2>1, <2>2, <3>5
  <2>7. QED
    BY <1>1, <2>3, <2>4, <2>5, <2>6
       DEF Next, vars, Start, Handle, WriteIndex, StartArchive, StartActivation, Refuse, Enter,
           CommitRejection, DeleteCollection, Abort, ScaleCapacity
<1>2. IInv /\ [Next]_vars => [Actives # {} => Actives' # {}]_vars
  BY <1>1
<1>3. QED
  BY <1>2, Invariance, PTL DEF Spec, ServingContinues

(* Lifecycle requests that overlap, their failures and the capacity         *)
(* controller have the effect of operations that come one at a time and     *)
(* check what they write at the moment they write it.                       *)
THEOREM ImplementsLifecycle == Spec => KeepsLifecycle
<1>1. IInv /\ [Next]_vars => [Lifecycle!Next]_(Lifecycle!tables)
  <2>1. ASSUME IInv, [Next]_vars
        PROVE  TypeOK'
    BY <2>1, InvStep DEF IInv
  <2>2. QED
    BY <2>1, LifecycleStep
<1>2. QED
  BY <1>1, LifecycleBegins, Invariance, PTL DEF Spec, KeepsLifecycle, Lifecycle!Spec
=============================================================================

---------------------------- MODULE PlanChanges ----------------------------
(***************************************************************************)
(* Plans, plan change requests and limits of tenants: what operators       *)
(* change on the platform side while tenants file and withdraw requests    *)
(* and store products up to their limit.                                   *)
(*                                                                         *)
(* A platform operation is one transaction of several statements under     *)
(* READ COMMITTED.  What it has written is kept in its own record until it *)
(* commits, the rows it has locked follow from how far it is.  One limit   *)
(* stands for the inventory limits; stored_products is the one whose       *)
(* growth is modelled.                                                     *)
(***************************************************************************)
EXTENDS Integers, FiniteSets

CONSTANTS
    Tenants,
    Plans,
    Operators,    \* platform operations that may overlap
    Clients,      \* tenant operations that may overlap
    Ids,          \* rows of plan_change_requests (bound)
    Limits,       \* the values a limit may take (bound)
    MaxBatch,     \* new products in one upload (bound)
    MaxChanges,   \* platform operations (bound)
    NoId,
    NoLimit

ASSUME ConstantsOK ==
    /\ Tenants # {} /\ Plans # {}
    /\ Limits \subseteq Nat
    /\ MaxBatch \in Nat
    /\ MaxChanges \in Nat
    /\ NoId \notin Ids
    /\ NoLimit \notin Nat

VARIABLES
    plans,          \* [Plans -> limit and is_active]
    subscription,   \* [Tenants -> Plans]: tenant_subscriptions.plan_id
    quota,          \* [Tenants -> tenant_resource_quotas: limits, overrides]
    request,        \* [Ids -> row of plan_change_requests]
    stored,         \* [Tenants -> number of products]
    operator,       \* [Operators -> state of a platform transaction]
    client,         \* [Clients -> state of a tenant's transaction]
    changes,        \* platform operations so far (bound)
    notes           \* history: why a limit may be exceeded or out of step

vars == <<plans, subscription, quota, request, stored, operator, client, changes, notes>>

(* acknowledged: an operator accepted that the limit is below the usage.    *)
(* raced: a limit changed between an upload's check and its commit, or an   *)
(*   upload committed between an operator's count and its commit.           *)
(* moved: an edit of a plan wrote the quota of a tenant that had left it.   *)
(* stale: a plan was assigned with limits read before they were edited.     *)
Causes == {"acknowledged", "raced", "moved", "stale"}

-----------------------------------------------------------------------------
Plan == [limit : Limits, is_active : BOOLEAN]

Quota == [limit : Limits, override : Limits \cup {NoLimit}]

Statuses == {"none", "pending", "approved", "rejected", "cancelled"}

Request == [tenant : Tenants, requested : Plans, status : Statuses]

(* opened: has found the open request; reading: has read the plan's limits; *)
(* waiting: an edit that has locked its plan and found the subscribers;     *)
(* written: has written its rows; guarded: has passed _guard_below_usage.   *)
OperatorPhases == {"idle", "opened", "reading", "waiting", "written", "guarded"}

Operator == [phase   : OperatorPhases,
             kind    : {"assign", "edit", "override"},
             plan    : Plans,
             id      : Ids \cup {NoId},           \* the request it approves
             targets : SUBSET Tenants,            \* whose quotas it writes
             limit   : Limits \cup {NoLimit},     \* what it writes there
             active  : BOOLEAN,                   \* the plan's new is_active
             ack     : BOOLEAN,                   \* acknowledge_below_usage
             used    : [Tenants -> Nat]]          \* the inventory it counted

ClientPhases == {"idle", "asking", "withdrawing", "storing"}

Client == [phase   : ClientPhases,
           tenant  : Tenants,
           current : Plans,
           plan    : Plans,
           id      : Ids \cup {NoId},
           limit   : Limits \cup {NoLimit},       \* read under the quota lock
           count   : Nat]

(* An operation that is not running keeps nothing.                          *)
IdleOperator ==
    [phase |-> "idle", kind |-> "assign", plan |-> CHOOSE p \in Plans : TRUE,
     id |-> NoId, targets |-> {}, limit |-> NoLimit, active |-> FALSE,
     ack |-> FALSE, used |-> [t \in Tenants |-> 0]]

IdleClient ==
    [phase |-> "idle", tenant |-> CHOOSE t \in Tenants : TRUE,
     current |-> CHOOSE p \in Plans : TRUE, plan |-> CHOOSE p \in Plans : TRUE,
     id |-> NoId, limit |-> NoLimit, count |-> 0]

Effective(q) == IF q.override # NoLimit THEN q.override ELSE q.limit

Pending(t) == {i \in Ids : request[i].status = "pending" /\ request[i].tenant = t}

-----------------------------------------------------------------------------
(* Row locks.                                                               *)

HoldsRequest(o, i) ==
    operator[o].id = i /\ operator[o].phase \in {"reading", "written", "guarded"}

HoldsWritten(o) == operator[o].phase \in {"written", "guarded"}

HoldsQuota(o, t) == HoldsWritten(o) /\ t \in operator[o].targets

HoldsSubscription(o, t) == HoldsQuota(o, t) /\ operator[o].kind = "assign"

(* SELECT ... FOR UPDATE by an edit; the foreign key of a subscription that *)
(* is being moved to the plan takes FOR KEY SHARE, which excludes it.       *)
HoldsPlan(o, p) ==
    /\ operator[o].kind = "edit" /\ operator[o].plan = p
    /\ operator[o].phase \in {"waiting", "written", "guarded"}

SharesPlan(o, p) ==
    /\ operator[o].kind = "assign" /\ operator[o].plan = p /\ HoldsWritten(o)
    /\ \E t \in operator[o].targets : subscription[t] # p

RequestFree(i) == \A o \in Operators : ~HoldsRequest(o, i)

QuotaFree(t) == \A o \in Operators : ~HoldsQuota(o, t)

SubscriptionFree(t) == \A o \in Operators : ~HoldsSubscription(o, t)

PlanFree(p) == \A o \in Operators : ~HoldsPlan(o, p)

PlanUnshared(p) == \A o \in Operators : ~SharesPlan(o, p)

(* The advisory lock of the tenant's stored_products dimension.             *)
DimensionFree(t) ==
    \A c \in Clients : ~(client[c].phase = "storing" /\ client[c].tenant = t)

-----------------------------------------------------------------------------
(* What an operation has written, as it sees it before it commits.          *)

PlansAfter(o) ==
    LET x == operator[o]
    IN  IF x.kind = "edit"
          THEN [plans EXCEPT ![x.plan] = [limit |-> x.limit, is_active |-> x.active]]
          ELSE plans

SubscriptionAfter(o) ==
    LET x == operator[o]
    IN  [t \in Tenants |-> IF x.kind = "assign" /\ t \in x.targets
                             THEN x.plan ELSE subscription[t]]

QuotaAfter(o) ==
    LET x == operator[o]
    IN  [t \in Tenants |->
          IF t \notin x.targets THEN quota[t]
          ELSE IF x.kind = "override" THEN [quota[t] EXCEPT !.override = x.limit]
          ELSE [quota[t] EXCEPT !.limit = x.limit]]

(* An edit looks at the tenants that are on the plan now.                   *)
Checked(o) ==
    IF operator[o].kind = "edit"
      THEN {t \in Tenants : subscription[t] = operator[o].plan}
      ELSE operator[o].targets

Exceeded(o, used) == {t \in Checked(o) : used[t] > Effective(QuotaAfter(o)[t])}

-----------------------------------------------------------------------------
(* Tenants: PlanRequestService and CatalogService.                          *)

ClientEnds(c) == client' = [client EXCEPT ![c] = IdleClient]

(* create, up to the insert: the checks read without a lock.                *)
Ask(c, t, p) ==
    /\ client[c].phase = "idle"
    /\ plans[p].is_active
    /\ p # subscription[t]
    /\ Pending(t) = {}
    /\ client' = [client EXCEPT ![c] = [IdleClient EXCEPT
                    !.phase = "asking", !.tenant = t, !.plan = p,
                    !.current = subscription[t]]]
    /\ UNCHANGED <<plans, subscription, quota, request, stored, operator, changes,
                   notes>>

(* Slip: the insert relies on the check that was made before.               *)
InsertUnchecked(c) ==
    LET x == client[c] IN
    /\ x.phase = "asking"
    /\ PlanFree(x.plan) /\ PlanFree(x.current)
    /\ \E i \in Ids :
         /\ request[i].status = "none"
         /\ request' = [request EXCEPT ![i] =
              [tenant |-> x.tenant, requested |-> x.plan, status |-> "pending"]]
    /\ ClientEnds(c)
    /\ UNCHANGED <<plans, subscription, quota, stored, operator, changes, notes>>

(* The insert and the commit: the foreign keys wait for an edit of either   *)
(* plan, the partial unique index admits one pending row of the tenant.     *)
CommitAsk(c) ==
    LET x == client[c] IN
    /\ x.phase = "asking"
    /\ PlanFree(x.plan) /\ PlanFree(x.current)
    /\ Pending(x.tenant) = {}
    /\ \E i \in Ids :
         /\ request[i].status = "none"
         /\ request' = [request EXCEPT ![i] =
              [tenant |-> x.tenant, requested |-> x.plan, status |-> "pending"]]
    /\ ClientEnds(c)
    /\ UNCHANGED <<plans, subscription, quota, stored, operator, changes, notes>>

(* cancel, up to the update: the status is read without a lock.             *)
Withdraw(c, i) ==
    /\ client[c].phase = "idle"
    /\ request[i].status = "pending"
    /\ client' = [client EXCEPT ![c] = [IdleClient EXCEPT
                    !.phase = "withdrawing", !.tenant = request[i].tenant, !.id = i]]
    /\ UNCHANGED <<plans, subscription, quota, request, stored, operator, changes,
                   notes>>

(* Slip: the row is written by its key, whatever its status is by now.      *)
WithdrawAnyway(c) ==
    LET x == client[c] IN
    /\ x.phase = "withdrawing"
    /\ RequestFree(x.id)
    /\ request' = [request EXCEPT ![x.id].status = "cancelled"]
    /\ ClientEnds(c)
    /\ UNCHANGED <<plans, subscription, quota, stored, operator, changes, notes>>

(* The update waits for the row's lock; the policy lets a tenant write a    *)
(* row only while it is pending, otherwise no row is matched and the        *)
(* handler fails (ClientFails).                                             *)
CommitWithdraw(c) ==
    LET x == client[c] IN
    /\ x.phase = "withdrawing"
    /\ RequestFree(x.id)
    /\ request[x.id].status = "pending"
    /\ request' = [request EXCEPT ![x.id].status = "cancelled"]
    /\ ClientEnds(c)
    /\ UNCHANGED <<plans, subscription, quota, stored, operator, changes, notes>>

(* Slip: the capacity is checked without the lock of the dimension.         *)
StoreUnlocked(c, t, n) ==
    /\ client[c].phase = "idle"
    /\ stored[t] + n <= Effective(quota[t])
    /\ client' = [client EXCEPT ![c] = [IdleClient EXCEPT
                    !.phase = "storing", !.tenant = t, !.count = n,
                    !.limit = Effective(quota[t])]]
    /\ UNCHANGED <<plans, subscription, quota, request, stored, operator, changes,
                   notes>>

(* bulk_upsert or update_product with n new products: the lock of the       *)
(* dimension, then require_capacity.  A refusal changes nothing.            *)
Store(c, t, n) ==
    /\ client[c].phase = "idle"
    /\ DimensionFree(t)
    /\ stored[t] + n <= Effective(quota[t])
    /\ client' = [client EXCEPT ![c] = [IdleClient EXCEPT
                    !.phase = "storing", !.tenant = t, !.count = n,
                    !.limit = Effective(quota[t])]]
    /\ UNCHANGED <<plans, subscription, quota, request, stored, operator, changes,
                   notes>>

CommitStore(c) ==
    LET x == client[c] IN
    /\ x.phase = "storing"
    /\ stored' = [stored EXCEPT ![x.tenant] = @ + x.count]
    /\ notes' = [notes EXCEPT ![x.tenant] =
                   IF x.limit # Effective(quota[x.tenant]) THEN @ \cup {"raced"} ELSE @]
    /\ ClientEnds(c)
    /\ UNCHANGED <<plans, subscription, quota, request, operator, changes>>

(* A refused write, a statement timeout, a lost connection, a crash.        *)
ClientFails(c) ==
    /\ client[c].phase # "idle"
    /\ ClientEnds(c)
    /\ UNCHANGED <<plans, subscription, quota, request, stored, operator, changes,
                   notes>>

-----------------------------------------------------------------------------
(* Operators.                                                               *)

OperatorEnds(o) == operator' = [operator EXCEPT ![o] = IdleOperator]

OperatorBegins(o) ==
    /\ operator[o].phase = "idle"
    /\ changes < MaxChanges
    /\ changes' = changes + 1

(* platform_assign_plan reads the limits of an active plan without a lock.  *)
ReadLimits(o, t, p, i) ==
    /\ plans[p].is_active
    /\ operator' = [operator EXCEPT ![o] = [IdleOperator EXCEPT
                      !.phase = "reading", !.kind = "assign", !.plan = p, !.id = i,
                      !.targets = {t}, !.limit = plans[p].limit]]

(* assign_tenant_plan: a pending request for this very plan is approved     *)
(* instead; it is looked up without a lock.                                 *)
Assign(o, t, p) ==
    LET open == {i \in Pending(t) : request[i].requested = p} IN
    /\ OperatorBegins(o)
    /\ \/ open = {} /\ ReadLimits(o, t, p, NoId)
       \/ \E i \in open :
            operator' = [operator EXCEPT ![o] = [IdleOperator EXCEPT
                           !.phase = "opened", !.plan = p, !.id = i,
                           !.targets = {t}]]
    /\ UNCHANGED <<plans, subscription, quota, request, stored, client, notes>>

(* platform_decide_plan_request locks the request and looks at its status.  *)
Take(o, t, p, i) ==
    /\ RequestFree(i)
    /\ request[i].status = "pending"
    /\ ReadLimits(o, t, p, i)

TakeOpened(o) ==
    LET x == operator[o] IN
    /\ x.phase = "opened"
    /\ \E t \in x.targets : Take(o, t, x.plan, x.id)
    /\ UNCHANGED <<plans, subscription, quota, request, stored, client, changes,
                   notes>>

Approve(o, i) ==
    /\ OperatorBegins(o)
    /\ request[i].status # "none"
    /\ Take(o, request[i].tenant, request[i].requested, i)
    /\ UNCHANGED <<plans, subscription, quota, request, stored, client, notes>>

Reject(i) ==
    /\ RequestFree(i)
    /\ request[i].status = "pending"
    /\ request' = [request EXCEPT ![i].status = "rejected"]
    /\ UNCHANGED <<plans, subscription, quota, stored, operator, client, changes,
                   notes>>

(* The subscription's row is locked and moved (the foreign key waits for an *)
(* edit of the new plan), then the quota gets the limits that were read.    *)
WriteAssignment(o) ==
    LET x == operator[o] IN
    /\ x.phase = "reading"
    /\ \A t \in x.targets :
         /\ SubscriptionFree(t)
         /\ QuotaFree(t)
         /\ subscription[t] # x.plan => PlanFree(x.plan)
    /\ operator' = [operator EXCEPT ![o].phase = "written"]
    /\ UNCHANGED <<plans, subscription, quota, request, stored, client, changes,
                   notes>>

(* platform_update_plan locks the plan and writes it; the update of the     *)
(* subscribers' quotas then finds those that are on the plan now.           *)
Edit(o, p, l, active) ==
    /\ OperatorBegins(o)
    /\ PlanFree(p) /\ PlanUnshared(p)
    /\ operator' = [operator EXCEPT ![o] = [IdleOperator EXCEPT
                      !.phase = "waiting", !.kind = "edit", !.plan = p,
                      !.targets = {t \in Tenants : subscription[t] = p},
                      !.limit = l, !.active = active]]
    /\ UNCHANGED <<plans, subscription, quota, request, stored, client, notes>>

(* It waits for their quota rows and writes those that it found, whatever   *)
(* their subscription is by then.                                           *)
WriteEdit(o) ==
    /\ operator[o].phase = "waiting"
    /\ \A t \in operator[o].targets : QuotaFree(t)
    /\ operator' = [operator EXCEPT ![o].phase = "written"]
    /\ UNCHANGED <<plans, subscription, quota, request, stored, client, changes,
                   notes>>

(* platform_set_quota_overrides replaces the overrides.                     *)
Override(o, t, l) ==
    /\ OperatorBegins(o)
    /\ QuotaFree(t)
    /\ operator' = [operator EXCEPT ![o] = [IdleOperator EXCEPT
                      !.phase = "written", !.kind = "override", !.targets = {t},
                      !.limit = l]]
    /\ UNCHANGED <<plans, subscription, quota, request, stored, client, notes>>

(* limits_below_inventory counts without the lock of the dimension, and     *)
(* _guard_below_usage rolls back (OperatorFails) unless acknowledged.  The  *)
(* acknowledgement is an input that is read only here.                      *)
PassGuard(o, ack) ==
    /\ operator[o].phase = "written"
    /\ ack \/ Exceeded(o, stored) = {}
    /\ operator' = [operator EXCEPT ![o].phase = "guarded", ![o].ack = ack,
                                    ![o].used = stored]
    /\ UNCHANGED <<plans, subscription, quota, request, stored, client, changes,
                   notes>>

(* The history of a tenant whose quota is written by o.  An override leaves *)
(* the plan's limits as they were.                                          *)
NotesAfter(o, t) ==
    LET x == operator[o]
    IN  (IF x.kind = "override" THEN notes[t] \cap {"moved", "stale"} ELSE {})
        \cup (IF x.ack THEN {"acknowledged"} ELSE {})
        \cup (IF x.used[t] # stored[t] THEN {"raced"} ELSE {})
        \cup (IF t \notin Checked(o) THEN {"moved"} ELSE {})
        \cup (IF x.kind = "assign" /\ x.limit # plans[x.plan].limit
                THEN {"stale"} ELSE {})

(* Slip: a plan is edited without its subscribers.                          *)
CommitPlanOnly(o) ==
    LET x == operator[o] IN
    /\ x.phase = "guarded"
    /\ plans' = PlansAfter(o)
    /\ subscription' = SubscriptionAfter(o)
    /\ quota' = IF x.kind = "edit" THEN quota ELSE QuotaAfter(o)
    /\ request' = [i \in Ids |-> IF i = x.id THEN [request[i] EXCEPT !.status = "approved"]
                                             ELSE request[i]]
    /\ notes' = [t \in Tenants |-> IF t \in x.targets THEN NotesAfter(o, t) ELSE notes[t]]
    /\ OperatorEnds(o)
    /\ UNCHANGED <<stored, client, changes>>

Commit(o) ==
    LET x == operator[o] IN
    /\ x.phase = "guarded"
    /\ plans' = PlansAfter(o)
    /\ subscription' = SubscriptionAfter(o)
    /\ quota' = QuotaAfter(o)
    /\ request' = [i \in Ids |-> IF i = x.id THEN [request[i] EXCEPT !.status = "approved"]
                                             ELSE request[i]]
    /\ notes' = [t \in Tenants |-> IF t \in x.targets THEN NotesAfter(o, t) ELSE notes[t]]
    /\ OperatorEnds(o)
    /\ UNCHANGED <<stored, client, changes>>

(* A refused change, a statement timeout, a lost connection, a crash.       *)
OperatorFails(o) ==
    /\ operator[o].phase # "idle"
    /\ OperatorEnds(o)
    /\ UNCHANGED <<plans, subscription, quota, request, stored, client, changes,
                   notes>>

-----------------------------------------------------------------------------
Init ==
    /\ plans \in [Plans -> [limit : Limits, is_active : {TRUE}]]
    /\ subscription \in [Tenants -> Plans]
    /\ quota = [t \in Tenants |-> [limit |-> plans[subscription[t]].limit,
                                   override |-> NoLimit]]
    /\ request \in [Ids -> [tenant : {IdleClient.tenant}, requested : {IdleClient.plan},
                            status : {"none"}]]
    /\ stored = [t \in Tenants |-> 0]
    /\ operator = [o \in Operators |-> IdleOperator]
    /\ client = [c \in Clients |-> IdleClient]
    /\ changes = 0
    /\ notes = [t \in Tenants |-> {}]

TenantStep(c) ==
    \/ \E t \in Tenants, p \in Plans : Ask(c, t, p)
    \/ CommitAsk(c)
    \/ \E i \in Ids : Withdraw(c, i)
    \/ CommitWithdraw(c)
    \/ \E t \in Tenants, n \in 1..MaxBatch : Store(c, t, n)
    \/ CommitStore(c)
    \/ ClientFails(c)

OperatorStep(o) ==
    \/ \E t \in Tenants, p \in Plans : Assign(o, t, p)
    \/ TakeOpened(o)
    \/ \E i \in Ids : Approve(o, i)
    \/ WriteAssignment(o)
    \/ \E p \in Plans, l \in Limits, active \in BOOLEAN : Edit(o, p, l, active)
    \/ WriteEdit(o)
    \/ \E t \in Tenants, l \in Limits \cup {NoLimit} : Override(o, t, l)
    \/ \E ack \in BOOLEAN : PassGuard(o, ack)
    \/ Commit(o)
    \/ OperatorFails(o)

Next ==
    \/ \E c \in Clients : TenantStep(c)
    \/ \E o \in Operators : OperatorStep(o)
    \/ \E i \in Ids : Reject(i)

Spec == Init /\ [][Next]_vars

-----------------------------------------------------------------------------
TypeOK ==
    /\ plans \in [Plans -> Plan]
    /\ subscription \in [Tenants -> Plans]
    /\ quota \in [Tenants -> Quota]
    /\ request \in [Ids -> Request]
    /\ stored \in [Tenants -> Nat]
    /\ operator \in [Operators -> Operator]
    /\ client \in [Clients -> Client]
    /\ changes \in 0..MaxChanges
    /\ notes \in [Tenants -> SUBSET Causes]

(* A tenant may hold one pending request at a time, although create looks   *)
(* for one before it inserts (subscription/requests.py, migration 0039).    *)
OnePending ==
    \A t \in Tenants : \A i, j \in Pending(t) : i = j

(* A request is decided or withdrawn once, while it is pending, though an   *)
(* operator and the tenant may act on it at once, and what is approved is   *)
(* what was asked for: the same step puts the tenant on that plan           *)
(* (platform_decide_plan_request, the cancel policy of migration 0039).     *)
DecidedOnce ==
    [][\A i \in Ids : request'[i] # request[i] =>
         \/ request[i].status = "none" /\ request'[i].status = "pending"
         \/ /\ request[i].status = "pending"
            /\ \/ request'[i] = [request[i] EXCEPT !.status = "cancelled"]
               \/ request'[i] = [request[i] EXCEPT !.status = "rejected"]
               \/ /\ request'[i] = [request[i] EXCEPT !.status = "approved"]
                  /\ subscription'[request[i].tenant] = request[i].requested]_vars

(* A tenant's limits are those of its plan, unless an edit of a plan        *)
(* overlapped an assignment in one of the two ways the notes name           *)
(* (platform_assign_plan, platform_update_plan).                            *)
QuotaFollowsPlan ==
    \A t \in Tenants :
      quota[t].limit # plans[subscription[t]].limit
        => notes[t] \cap {"stale", "moved"} # {}

(* What a tenant stores exceeds its limit only if an operator accepted it   *)
(* or a change of the limit overlapped an upload or a move                  *)
(* (require_capacity, _guard_below_usage).                                  *)
LimitHolds ==
    \A t \in Tenants :
      stored[t] > Effective(quota[t])
        => notes[t] \cap {"acknowledged", "raced", "moved"} # {}
=============================================================================

------------------------- MODULE PlanChangesProofs -------------------------
(* Theorems about PlanChanges for every value of its constants. *)
EXTENDS PlanChanges, TLAPS

(***************************************************************************)
(* Types.                                                                  *)
(***************************************************************************)

LEMMA OperatorTypes ==
    ASSUME NEW ph \in OperatorPhases, NEW k \in {"assign", "edit", "override"},
           NEW p \in Plans, NEW i \in Ids \cup {NoId}, NEW ts \in SUBSET Tenants,
           NEW l \in Limits \cup {NoLimit}, NEW a \in BOOLEAN, NEW k2 \in BOOLEAN,
           NEW u \in [Tenants -> Nat]
    PROVE  [phase |-> ph, kind |-> k, plan |-> p, id |-> i, targets |-> ts,
            limit |-> l, active |-> a, ack |-> k2, used |-> u] \in Operator
  BY Zenon DEF Operator

LEMMA IdleTypes == IdleOperator \in Operator /\ IdleClient \in Client
  <1>1. /\ (CHOOSE p \in Plans : TRUE) \in Plans
        /\ (CHOOSE t \in Tenants : TRUE) \in Tenants
    BY ConstantsOK
  <1>2. [t \in Tenants |-> 0] \in [Tenants -> Nat]
    OBVIOUS
  <1>3. IdleOperator \in Operator
    BY <1>1, <1>2, OperatorTypes, Zenon DEF IdleOperator, OperatorPhases
  <1>4. IdleClient \in Client
    BY <1>1 DEF IdleClient, Client, ClientPhases
  <1> QED BY <1>3, <1>4

LEMMA TypeInit == Init => TypeOK
  <1> SUFFICES ASSUME Init PROVE TypeOK
    OBVIOUS
  <1>1. IdleClient.tenant \in Tenants /\ IdleClient.plan \in Plans
    BY IdleTypes DEF Client
  <1>2. quota \in [Tenants -> Quota]
    BY DEF Init, Quota
  <1>3. request \in [Ids -> Request]
    BY <1>1 DEF Init, Request, Statuses
  <1>4. plans \in [Plans -> Plan] /\ subscription \in [Tenants -> Plans]
    BY DEF Init, Plan
  <1>5. stored \in [Tenants -> Nat] /\ changes \in 0..MaxChanges
    BY ConstantsOK DEF Init
  <1>6. operator \in [Operators -> Operator] /\ client \in [Clients -> Client]
    BY IdleTypes DEF Init
  <1>7. notes \in [Tenants -> SUBSET Causes]
    BY DEF Init
  <1> QED BY <1>2, <1>3, <1>4, <1>5, <1>6, <1>7 DEF TypeOK

(* What a tenant's transaction may become. *)
LEMMA ClientStepTypes ==
    ASSUME TypeOK, NEW c \in Clients, TenantStep(c)
    PROVE  client' \in [Clients -> Client]
  <1>1. ASSUME NEW t \in Tenants, NEW p \in Plans, Ask(c, t, p)
        PROVE  client' \in [Clients -> Client]
    <2>1. [IdleClient EXCEPT !.phase = "asking", !.tenant = t, !.plan = p,
                             !.current = subscription[t]] \in Client
      BY IdleTypes DEF TypeOK, Client, ClientPhases
    <2> QED BY <1>1, <2>1 DEF Ask, TypeOK
  <1>2. ASSUME NEW i \in Ids, Withdraw(c, i)
        PROVE  client' \in [Clients -> Client]
    <2>1. [IdleClient EXCEPT !.phase = "withdrawing", !.tenant = request[i].tenant,
                             !.id = i] \in Client
      BY IdleTypes DEF TypeOK, Client, ClientPhases, Request
    <2> QED BY <1>2, <2>1 DEF Withdraw, TypeOK
  <1>3. ASSUME NEW t \in Tenants, NEW n \in 1..MaxBatch, Store(c, t, n)
        PROVE  client' \in [Clients -> Client]
    <2>1. Effective(quota[t]) \in Limits \cup {NoLimit}
      BY DEF TypeOK, Quota, Effective
    <2>2. n \in Nat
      BY ConstantsOK
    <2>3. [IdleClient EXCEPT !.phase = "storing", !.tenant = t, !.count = n,
                             !.limit = Effective(quota[t])] \in Client
      BY <2>1, <2>2, IdleTypes DEF Client, ClientPhases
    <2> QED BY <1>3, <2>3 DEF Store, TypeOK
  <1>4. CASE ClientEnds(c)
    BY <1>4, IdleTypes DEF ClientEnds, TypeOK
  <1> QED BY <1>1, <1>2, <1>3, <1>4
          DEF TenantStep, CommitAsk, CommitWithdraw, CommitStore, ClientFails

LEMMA TenantStepTypes ==
    ASSUME TypeOK, NEW c \in Clients, TenantStep(c)
    PROVE  TypeOK'
  <1>1. client' \in [Clients -> Client]
    BY ClientStepTypes
  <1>2. CASE CommitAsk(c)
    <2>1. client[c].tenant \in Tenants /\ client[c].plan \in Plans
      BY DEF TypeOK, Client
    <2>2. [tenant |-> client[c].tenant, requested |-> client[c].plan,
           status |-> "pending"] \in Request
      BY <2>1 DEF Request, Statuses
    <2> QED BY <1>1, <1>2, <2>2 DEF CommitAsk, TypeOK
  <1>3. CASE CommitWithdraw(c)
    <2>1. \A i \in Ids : [request[i] EXCEPT !.status = "cancelled"] \in Request
      BY DEF TypeOK, Request, Statuses
    <2>2. request' \in [Ids -> Request]
      BY <1>3, <2>1 DEF CommitWithdraw, TypeOK
    <2> QED BY <1>1, <1>3, <2>2 DEF CommitWithdraw, TypeOK
  <1>4. CASE CommitStore(c)
    <2>1. client[c].tenant \in Tenants /\ client[c].count \in Nat
      BY DEF TypeOK, Client
    <2>2. stored' \in [Tenants -> Nat]
      BY <1>4, <2>1 DEF CommitStore, TypeOK
    <2>3. notes' \in [Tenants -> SUBSET Causes]
      BY <1>4, <2>1 DEF CommitStore, TypeOK, Causes
    <2> QED BY <1>1, <1>4, <2>2, <2>3 DEF CommitStore, TypeOK
  <1>5. CASE UNCHANGED <<plans, subscription, quota, request, stored, operator,
                         changes, notes>>
    BY <1>1, <1>5 DEF TypeOK
  <1> QED BY <1>2, <1>3, <1>4, <1>5
          DEF TenantStep, Ask, Withdraw, Store, ClientFails

LEMMA ReadingTypes ==
    ASSUME NEW p \in Plans, NEW i \in Ids \cup {NoId}, NEW t \in Tenants,
           NEW l \in Limits
    PROVE [IdleOperator EXCEPT
                      !.phase = "reading", !.kind = "assign", !.plan = p, !.id = i,
                      !.targets = {t}, !.limit = l] \in Operator
  BY IdleTypes DEF Operator, OperatorPhases

LEMMA GuardTypes ==
    ASSUME NEW x \in Operator, NEW a \in BOOLEAN, NEW u \in [Tenants -> Nat]
    PROVE [x EXCEPT !.phase = "guarded", !.ack = a, !.used = u] \in Operator
  BY DEF Operator, OperatorPhases

(* What a platform transaction may become. *)
LEMMA OperatorStepTypes ==
    ASSUME TypeOK, NEW o \in Operators, OperatorStep(o)
    PROVE  operator' \in [Operators -> Operator]
  <1>1. ASSUME NEW t \in Tenants, NEW p \in Plans, NEW i \in Ids \cup {NoId},
               ReadLimits(o, t, p, i)
        PROVE  operator' \in [Operators -> Operator]
    <2>1. plans[p].limit \in Limits
      BY DEF TypeOK, Plan
    <2> QED BY <1>1, <2>1, ReadingTypes DEF ReadLimits, TypeOK
  <1>2. ASSUME NEW t \in Tenants, NEW p \in Plans, Assign(o, t, p)
        PROVE  operator' \in [Operators -> Operator]
    <2>1. CASE ReadLimits(o, t, p, NoId)
      BY <1>1, <2>1
    <2>2. ASSUME NEW i \in Ids
          PROVE  [IdleOperator EXCEPT !.phase = "opened", !.plan = p, !.id = i,
                                      !.targets = {t}] \in Operator
      BY IdleTypes DEF Operator, OperatorPhases
    <2> QED BY <1>2, <2>1, <2>2 DEF Assign, Pending, TypeOK
  <1>3. CASE TakeOpened(o)
    <2>1. /\ operator[o].targets \in SUBSET Tenants
          /\ operator[o].plan \in Plans
          /\ operator[o].id \in Ids \cup {NoId}
      BY DEF TypeOK, Operator
    <2> QED BY <1>1, <1>3, <2>1 DEF TakeOpened, Take
  <1>4. ASSUME NEW i \in Ids, Approve(o, i)
        PROVE  operator' \in [Operators -> Operator]
    <2>1. request[i].tenant \in Tenants /\ request[i].requested \in Plans
      BY DEF TypeOK, Request
    <2> QED BY <1>1, <1>4, <2>1 DEF Approve, Take
  <1>5. CASE WriteAssignment(o) \/ WriteEdit(o)
    <2>1. [operator[o] EXCEPT !.phase = "written"] \in Operator
      <3>1. operator[o] \in Operator
        BY DEF TypeOK
      <3> QED BY <3>1 DEF Operator, OperatorPhases
    <2> QED BY <1>5, <2>1 DEF WriteAssignment, WriteEdit, TypeOK
  <1>6. ASSUME NEW p \in Plans, NEW l \in Limits, NEW a \in BOOLEAN, Edit(o, p, l, a)
        PROVE  operator' \in [Operators -> Operator]
    <2>1. {t \in Tenants : subscription[t] = p} \in SUBSET Tenants
      OBVIOUS
    <2>2. [IdleOperator EXCEPT
             !.phase = "waiting", !.kind = "edit", !.plan = p,
             !.targets = {t \in Tenants : subscription[t] = p},
             !.limit = l, !.active = a] \in Operator
      BY <2>1, IdleTypes DEF Operator, OperatorPhases
    <2> QED BY <1>6, <2>2 DEF Edit, TypeOK
  <1>7. ASSUME NEW t \in Tenants, NEW l \in Limits \cup {NoLimit}, Override(o, t, l)
        PROVE  operator' \in [Operators -> Operator]
    <2>1. [IdleOperator EXCEPT !.phase = "written", !.kind = "override",
                               !.targets = {t}, !.limit = l] \in Operator
      BY IdleTypes DEF Operator, OperatorPhases
    <2> QED BY <1>7, <2>1 DEF Override, TypeOK
  <1>8. ASSUME NEW ack \in BOOLEAN, PassGuard(o, ack)
        PROVE  operator' \in [Operators -> Operator]
    <2>1. [operator[o] EXCEPT !.phase = "guarded", !.ack = ack, !.used = stored] \in Operator
      BY GuardTypes DEF TypeOK
    <2> QED BY <1>8, <2>1 DEF PassGuard, TypeOK
  <1>9. CASE OperatorEnds(o)
    BY <1>9, IdleTypes DEF OperatorEnds, TypeOK
  <1> QED BY <1>2, <1>3, <1>4, <1>5, <1>6, <1>7, <1>8, <1>9
          DEF OperatorStep, Commit, OperatorFails

(***************************************************************************)
(* The invariant.                                                          *)
(***************************************************************************)

(* How far an operation is determines what it does; before it writes, it    *)
(* has read a limit; an edit decides no request.                            *)
KindInv ==
    \A o \in Operators :
      LET x == operator[o] IN
      /\ x.phase \in {"opened", "reading"} => x.kind = "assign"
      /\ x.phase = "waiting" => x.kind = "edit" /\ x.id = NoId
      /\ x.phase \in {"reading", "waiting", "written", "guarded"} /\ x.kind # "override"
           => x.limit \in Limits

(* A request is pending while it is locked, by one operation only.          *)
RequestInv ==
    \A o \in Operators, i \in Ids :
      HoldsRequest(o, i)
        => /\ request[i].status = "pending"
           /\ \A o2 \in Operators : HoldsRequest(o2, i) => o2 = o

QuotaInv ==
    \A o, o2 \in Operators, t \in Tenants :
      HoldsQuota(o, t) /\ HoldsQuota(o2, t) => o = o2

(* An edit excludes other edits of its plan and moves to it, so that the    *)
(* subscribers it has found are all there are.                              *)
PlanInv ==
    \A o \in Operators, p \in Plans :
      HoldsPlan(o, p)
        => /\ \A o2 \in Operators : HoldsPlan(o2, p) => o2 = o
           /\ \A o2 \in Operators : ~SharesPlan(o2, p)
           /\ \A t \in Tenants : subscription[t] = p => t \in operator[o].targets

(* What _guard_below_usage found still describes what will be committed.    *)
GuardInv ==
    \A o \in Operators :
      operator[o].phase = "guarded" /\ ~operator[o].ack
        => Exceeded(o, operator[o].used) = {}

(* An operation that decides a request assigns what was asked for in it.    *)
DecideInv ==
    \A o \in Operators :
      LET x == operator[o] IN
      x.id # NoId => /\ x.kind = "assign" /\ x.id \in Ids
                     /\ request[x.id].status # "none"
                     /\ x.targets = {request[x.id].tenant}
                     /\ x.plan = request[x.id].requested

(* An upload holds the lock of its tenant and fits the limit it has read.   *)
StoreInv ==
    \A c \in Clients :
      client[c].phase = "storing"
        => /\ stored[client[c].tenant] + client[c].count <= client[c].limit
           /\ \A c2 \in Clients :
                client[c2].phase = "storing" /\ client[c2].tenant = client[c].tenant
                  => c2 = c

LockInv == KindInv /\ RequestInv /\ QuotaInv /\ PlanInv

IInv ==
    /\ TypeOK /\ LockInv /\ DecideInv /\ GuardInv /\ StoreInv
    /\ OnePending /\ QuotaFollowsPlan /\ LimitHolds

(***************************************************************************)
(* What an operation touches.                                              *)
(***************************************************************************)

(* Every step of an operator but its commit writes its own record only. *)
LEMMA OperatorStepFrame ==
    ASSUME TypeOK, NEW o \in Operators, OperatorStep(o)
    PROVE  /\ UNCHANGED <<stored, client>>
           /\ \A o2 \in Operators : o2 # o => operator'[o2] = operator[o2]
           /\ Commit(o) \/ UNCHANGED <<plans, subscription, quota, request, notes>>
  <1>1. UNCHANGED <<stored, client>>
    BY DEF OperatorStep, Assign, TakeOpened, Approve, WriteAssignment, Edit,
           WriteEdit, Override, PassGuard, Commit, OperatorFails
  <1>2. Commit(o) \/ UNCHANGED <<plans, subscription, quota, request, notes>>
    BY DEF OperatorStep, Assign, TakeOpened, Approve, WriteAssignment, Edit,
           WriteEdit, Override, PassGuard, OperatorFails
  <1>3. \E x : operator' = [operator EXCEPT ![o] = x]
    BY Zenon
       DEF OperatorStep, Assign, TakeOpened, Approve, WriteAssignment, Edit,
           WriteEdit, Override, PassGuard, Commit, OperatorFails, OperatorEnds,
           Take, ReadLimits
  <1>4. operator \in [Operators -> Operator]
    BY DEF TypeOK
  <1> QED BY <1>1, <1>2, <1>3, <1>4

LEMMA TenantStepFrame ==
    ASSUME NEW c \in Clients, TenantStep(c)
    PROVE  UNCHANGED <<plans, subscription, quota, operator, changes>>
  BY DEF TenantStep, Ask, CommitAsk, Withdraw, CommitWithdraw, Store, CommitStore,
         ClientFails

LEMMA RejectFrame ==
    ASSUME NEW i \in Ids, Reject(i)
    PROVE  UNCHANGED <<plans, subscription, quota, stored, operator, client, changes,
                       notes>>
  BY DEF Reject

LEMMA IdleFields ==
    /\ IdleOperator.phase = "idle" /\ IdleOperator.kind = "assign"
    /\ IdleOperator.id = NoId /\ IdleOperator.targets = {}
  BY DEF IdleOperator

LEMMA KindInit == Init => KindInv
  BY DEF Init, KindInv, IdleOperator

LEMMA KindStep ==
    ASSUME TypeOK, KindInv, NEW o \in Operators, OperatorStep(o)
    PROVE  KindInv'
  <1> DEFINE y == operator'[o]
  <1> DEFINE Good == /\ y.phase \in {"opened", "reading"} => y.kind = "assign"
                     /\ y.phase = "waiting" => y.kind = "edit" /\ y.id = NoId
                     /\ y.phase \in {"reading", "waiting", "written", "guarded"}
                          /\ y.kind # "override" => y.limit \in Limits
  <1>1. ASSUME NEW t \in Tenants, NEW p \in Plans, NEW i \in Ids \cup {NoId},
               ReadLimits(o, t, p, i)
        PROVE  Good
    <2>1. plans[p].limit \in Limits
      BY DEF TypeOK, Plan
    <2> QED BY <1>1, <2>1 DEF ReadLimits, IdleOperator, TypeOK
  <1>2. ASSUME NEW t \in Tenants, NEW p \in Plans, Assign(o, t, p) PROVE Good
    <2>1. CASE ReadLimits(o, t, p, NoId)
      BY <1>1, <2>1
    <2>2. ASSUME NEW i \in Ids,
                 operator' = [operator EXCEPT ![o] = [IdleOperator EXCEPT
                                !.phase = "opened", !.plan = p, !.id = i,
                                !.targets = {t}]]
          PROVE  Good
      BY <2>2, IdleTypes, IdleFields DEF TypeOK, Operator
    <2> QED BY <1>2, <2>1, <2>2, Zenon DEF Assign, Pending
  <1>3. ASSUME TakeOpened(o) PROVE Good
    <2>1. /\ operator[o].targets \in SUBSET Tenants
          /\ operator[o].plan \in Plans
          /\ operator[o].id \in Ids \cup {NoId}
      BY DEF TypeOK, Operator
    <2>2. PICK t \in operator[o].targets : Take(o, t, operator[o].plan, operator[o].id)
      BY <1>3 DEF TakeOpened
    <2>3. ReadLimits(o, t, operator[o].plan, operator[o].id) /\ t \in Tenants
      BY <2>1, <2>2 DEF Take
    <2> QED BY <1>1, <2>1, <2>3
  <1>4. ASSUME NEW i \in Ids, Approve(o, i) PROVE Good
    <2>1. request[i].tenant \in Tenants /\ request[i].requested \in Plans
      BY DEF TypeOK, Request
    <2> QED BY <1>1, <1>4, <2>1 DEF Approve, Take
  <1>5. ASSUME WriteAssignment(o) \/ WriteEdit(o) PROVE Good
    <2>1. y = [operator[o] EXCEPT !.phase = "written"]
      BY <1>5 DEF WriteAssignment, WriteEdit, TypeOK
    <2>2. operator[o].kind # "override" => operator[o].limit \in Limits
      BY <1>5 DEF WriteAssignment, WriteEdit, KindInv
    <2>3. operator[o] \in Operator
      BY DEF TypeOK
    <2> QED BY <2>1, <2>2, <2>3 DEF Operator
  <1>6. ASSUME NEW p \in Plans, NEW l \in Limits, NEW a \in BOOLEAN, Edit(o, p, l, a)
        PROVE  Good
    BY <1>6 DEF Edit, IdleOperator, TypeOK
  <1>7. ASSUME NEW t \in Tenants, NEW l \in Limits \cup {NoLimit}, Override(o, t, l)
        PROVE  Good
    BY <1>7 DEF Override, IdleOperator, TypeOK
  <1>8. ASSUME NEW ack \in BOOLEAN, PassGuard(o, ack) PROVE Good
    BY <1>8 DEF PassGuard, KindInv, TypeOK
  <1>9. ASSUME OperatorEnds(o) PROVE Good
    <2>1. y = IdleOperator
      BY <1>9 DEF OperatorEnds, TypeOK
    <2> QED BY <2>1, IdleFields
  <1>10. Good
    BY <1>2, <1>3, <1>4, <1>5, <1>6, <1>7, <1>8, <1>9, Zenon
       DEF OperatorStep, Commit, OperatorFails
  <1> QED BY <1>10, OperatorStepFrame DEF KindInv

(* The ways in which an operator's record changes. *)
Starts(o) ==
    LET y == operator'[o] IN
    \/ y.phase \in {"idle", "opened"}
    \/ /\ y.phase = "reading" /\ y.kind = "assign"
       /\ y.id # NoId => RequestFree(y.id) /\ request[y.id].status = "pending"
    \/ /\ y.phase = "waiting" /\ y.kind = "edit" /\ y.id = NoId
       /\ PlanFree(y.plan) /\ PlanUnshared(y.plan)
       /\ y.targets = {t \in Tenants : subscription[t] = y.plan}
    \/ /\ y.phase = "written" /\ y.kind = "override" /\ y.id = NoId
       /\ \A t \in y.targets : QuotaFree(t)

Proceeds(o) ==
    LET x == operator[o]
        y == operator'[o]
    IN  /\ y.kind = x.kind /\ y.plan = x.plan /\ y.id = x.id /\ y.targets = x.targets
        /\ \/ /\ x.phase = "reading" /\ y.phase = "written" /\ x.kind = "assign"
              /\ \A t \in x.targets : QuotaFree(t)
              /\ \A t \in x.targets : subscription[t] # x.plan => PlanFree(x.plan)
           \/ /\ x.phase = "waiting" /\ y.phase = "written" /\ x.kind = "edit"
              /\ x.id = NoId
              /\ \A t \in x.targets : QuotaFree(t)
           \/ x.phase = "written" /\ y.phase = "guarded"

LEMMA OperatorRecords ==
    ASSUME TypeOK, KindInv, NEW o \in Operators, OperatorStep(o)
    PROVE  Starts(o) \/ Proceeds(o)
  <1>1. ASSUME NEW t \in Tenants, NEW p \in Plans, NEW i \in Ids \cup {NoId},
               ReadLimits(o, t, p, i),
               i # NoId => RequestFree(i) /\ request[i].status = "pending"
        PROVE  Starts(o)
    <2>1. operator'[o] = [IdleOperator EXCEPT
                      !.phase = "reading", !.kind = "assign", !.plan = p, !.id = i,
                      !.targets = {t}, !.limit = plans[p].limit]
      BY <1>1 DEF ReadLimits, TypeOK
    <2>2. /\ operator'[o].phase = "reading" /\ operator'[o].kind = "assign"
          /\ operator'[o].id = i
      BY <2>1, IdleTypes DEF Operator
    <2> QED BY <1>1, <2>2 DEF Starts
  <1>2. ASSUME NEW t \in Tenants, NEW p \in Plans, Assign(o, t, p) PROVE Starts(o)
    <2>1. CASE ReadLimits(o, t, p, NoId)
      BY <1>1, <2>1
    <2>2. ASSUME NEW i \in Ids,
                 operator' = [operator EXCEPT ![o] = [IdleOperator EXCEPT
                                !.phase = "opened", !.plan = p, !.id = i,
                                !.targets = {t}]]
          PROVE  Starts(o)
      BY <2>2, IdleTypes, IdleFields DEF TypeOK, Operator, Starts
    <2> QED BY <1>2, <2>1, <2>2, Zenon DEF Assign, Pending
  <1>3. ASSUME TakeOpened(o) PROVE Starts(o)
    <2>1. /\ operator[o].targets \in SUBSET Tenants
          /\ operator[o].plan \in Plans
          /\ operator[o].id \in Ids \cup {NoId}
      BY DEF TypeOK, Operator
    <2>2. PICK t \in operator[o].targets : Take(o, t, operator[o].plan, operator[o].id)
      BY <1>3 DEF TakeOpened
    <2> QED BY <1>1, <2>1, <2>2 DEF Take
  <1>4. ASSUME NEW i \in Ids, Approve(o, i) PROVE Starts(o)
    <2>1. request[i].tenant \in Tenants /\ request[i].requested \in Plans
      BY DEF TypeOK, Request
    <2> QED BY <1>1, <1>4, <2>1 DEF Approve, Take
  <1>5. ASSUME WriteAssignment(o) \/ WriteEdit(o) PROVE Proceeds(o)
    <2>1. operator'[o] = [operator[o] EXCEPT !.phase = "written"]
      BY <1>5 DEF WriteAssignment, WriteEdit, TypeOK
    <2>2. operator[o] \in Operator
      BY DEF TypeOK
    <2>3. /\ operator'[o].phase = "written" /\ operator'[o].kind = operator[o].kind
          /\ operator'[o].plan = operator[o].plan /\ operator'[o].id = operator[o].id
          /\ operator'[o].targets = operator[o].targets
      BY <2>1, <2>2 DEF Operator
    <2>4. /\ operator[o].phase = "reading" => operator[o].kind = "assign"
          /\ operator[o].phase = "waiting" => operator[o].kind = "edit" /\ operator[o].id = NoId
      BY DEF KindInv
    <2>5. CASE WriteAssignment(o)
      <3>1. /\ \A t \in operator[o].targets : QuotaFree(t)
            /\ \A t \in operator[o].targets :
                 subscription[t] # operator[o].plan => PlanFree(operator[o].plan)
            /\ operator[o].phase = "reading"
        BY <2>5 DEF WriteAssignment
      <3> QED BY <2>3, <2>4, <3>1 DEF Proceeds
    <2>6. CASE WriteEdit(o)
      BY <2>3, <2>4, <2>6 DEF WriteEdit, Proceeds
    <2> QED BY <1>5, <2>5, <2>6
  <1>6. ASSUME NEW p \in Plans, NEW l \in Limits, NEW a \in BOOLEAN, Edit(o, p, l, a)
        PROVE  Starts(o)
    <2>1. operator'[o] = [IdleOperator EXCEPT
                      !.phase = "waiting", !.kind = "edit", !.plan = p,
                      !.targets = {t \in Tenants : subscription[t] = p},
                      !.limit = l, !.active = a]
      BY <1>6 DEF Edit, TypeOK
    <2>2. /\ operator'[o].phase = "waiting" /\ operator'[o].kind = "edit"
          /\ operator'[o].id = NoId /\ operator'[o].plan = p
          /\ operator'[o].targets = {t \in Tenants : subscription[t] = p}
      BY <2>1, IdleTypes, IdleFields DEF Operator
    <2>3. PlanFree(p) /\ PlanUnshared(p)
      BY <1>6 DEF Edit
    <2> QED BY <2>2, <2>3 DEF Starts
  <1>7. ASSUME NEW t \in Tenants, NEW l \in Limits \cup {NoLimit}, Override(o, t, l)
        PROVE  Starts(o)
    <2>1. operator'[o] = [IdleOperator EXCEPT !.phase = "written",
                            !.kind = "override", !.targets = {t}, !.limit = l]
      BY <1>7 DEF Override, TypeOK
    <2>2. /\ operator'[o].phase = "written" /\ operator'[o].kind = "override"
          /\ operator'[o].id = NoId /\ operator'[o].targets = {t}
      BY <2>1, IdleTypes, IdleFields DEF Operator
    <2>3. QuotaFree(t)
      BY <1>7 DEF Override
    <2> QED BY <2>2, <2>3 DEF Starts
  <1>8. ASSUME NEW ack \in BOOLEAN, PassGuard(o, ack) PROVE Proceeds(o)
    <2>1. operator'[o] = [operator[o] EXCEPT !.phase = "guarded", !.ack = ack,
                                             !.used = stored]
      BY <1>8 DEF PassGuard, TypeOK
    <2>2. /\ operator'[o].phase = "guarded" /\ operator'[o].kind = operator[o].kind
          /\ operator'[o].plan = operator[o].plan /\ operator'[o].id = operator[o].id
          /\ operator'[o].targets = operator[o].targets
      BY <2>1 DEF TypeOK, Operator
    <2> QED BY <1>8, <2>2 DEF PassGuard, Proceeds
  <1>9. ASSUME OperatorEnds(o) PROVE Starts(o)
    <2>1. operator'[o] = IdleOperator
      BY <1>9 DEF OperatorEnds, TypeOK
    <2> QED BY <2>1, IdleFields DEF Starts
  <1> QED BY <1>2, <1>3, <1>4, <1>5, <1>6, <1>7, <1>8, <1>9, Zenon
          DEF OperatorStep, Commit, OperatorFails

(* A lock an operator holds after its step is one it held, or one that was  *)
(* free.                                                                    *)
LEMMA NewLocks ==
    ASSUME TypeOK, KindInv, NEW o \in Operators, OperatorStep(o)
    PROVE  /\ \A i \in Ids : HoldsRequest(o, i)' =>
                HoldsRequest(o, i) \/ (RequestFree(i) /\ request[i].status = "pending")
           /\ \A t \in Tenants : HoldsQuota(o, t)' => HoldsQuota(o, t) \/ QuotaFree(t)
           /\ \A p \in Plans : HoldsPlan(o, p)' =>
                \/ HoldsPlan(o, p) /\ operator'[o].targets = operator[o].targets
                \/ /\ PlanFree(p) /\ PlanUnshared(p)
                   /\ operator'[o].targets = {t \in Tenants : subscription[t] = p}
  <1>1. Starts(o) \/ Proceeds(o)
    BY OperatorRecords
  <1>2. ASSUME NEW i \in Ids, HoldsRequest(o, i)'
        PROVE  HoldsRequest(o, i) \/ (RequestFree(i) /\ request[i].status = "pending")
    <2>1. i # NoId
      BY ConstantsOK
    <2>2. CASE Starts(o)
      BY <1>2, <2>1, <2>2 DEF Starts, HoldsRequest
    <2>3. CASE Proceeds(o)
      BY <1>2, <2>1, <2>3 DEF Proceeds, HoldsRequest
    <2> QED BY <1>1, <2>2, <2>3
  <1>3. ASSUME NEW t \in Tenants, HoldsQuota(o, t)'
        PROVE  HoldsQuota(o, t) \/ QuotaFree(t)
    <2>1. CASE Starts(o)
      BY <1>3, <2>1 DEF Starts, HoldsQuota, HoldsWritten
    <2>2. CASE Proceeds(o)
      BY <1>3, <2>2 DEF Proceeds, HoldsQuota, HoldsWritten
    <2> QED BY <1>1, <2>1, <2>2
  <1>4. ASSUME NEW p \in Plans, HoldsPlan(o, p)'
        PROVE  \/ HoldsPlan(o, p) /\ operator'[o].targets = operator[o].targets
               \/ /\ PlanFree(p) /\ PlanUnshared(p)
                  /\ operator'[o].targets = {t \in Tenants : subscription[t] = p}
    <2>1. CASE Starts(o)
      BY <1>4, <2>1 DEF Starts, HoldsPlan
    <2>2. CASE Proceeds(o)
      BY <1>4, <2>2 DEF Proceeds, HoldsPlan
    <2> QED BY <1>1, <2>1, <2>2
  <1> QED BY <1>2, <1>3, <1>4

(* The same for the share of a plan that an assignment takes. *)
LEMMA NewShares ==
    ASSUME TypeOK, KindInv, NEW o \in Operators, OperatorStep(o),
           UNCHANGED subscription, NEW p \in Plans, SharesPlan(o, p)'
    PROVE  SharesPlan(o, p) \/ PlanFree(p)
  <1>1. CASE Starts(o)
    BY <1>1 DEF Starts, SharesPlan, HoldsWritten
  <1>2. CASE Proceeds(o)
    BY <1>2 DEF Proceeds, SharesPlan, HoldsWritten
  <1> QED BY <1>1, <1>2, OperatorRecords

(* After its commit an operator holds nothing. *)
LEMMA CommitReleases ==
    ASSUME TypeOK, NEW o \in Operators, Commit(o)
    PROVE  /\ operator'[o].phase = "idle"
           /\ \A i : ~HoldsRequest(o, i)'
           /\ \A t : ~HoldsQuota(o, t)'
           /\ \A p : ~HoldsPlan(o, p)' /\ ~SharesPlan(o, p)'
  <1>1. operator'[o].phase = "idle"
    BY IdleFields DEF Commit, OperatorEnds, TypeOK
  <1> QED BY <1>1 DEF HoldsRequest, HoldsQuota, HoldsPlan, SharesPlan, HoldsWritten

(***************************************************************************)
(* Locks.                                                                  *)
(***************************************************************************)

LEMMA LockInit == Init => LockInv
  <1> SUFFICES ASSUME Init PROVE LockInv
    OBVIOUS
  <1>1. \A o \in Operators : operator[o].phase = "idle"
    BY IdleFields DEF Init
  <1>2. RequestInv
    BY <1>1 DEF RequestInv, HoldsRequest
  <1>3. QuotaInv
    BY <1>1 DEF QuotaInv, HoldsQuota, HoldsWritten
  <1>4. PlanInv
    BY <1>1 DEF PlanInv, HoldsPlan
  <1> QED BY <1>2, <1>3, <1>4, KindInit DEF LockInv

(* A request that has been asked for and is locked stays as it is; a        *)
(* decision is final.                                                       *)
LEMMA RequestsKept ==
    ASSUME TypeOK, RequestInv, [Next]_vars, NEW i \in Ids,
           \/ request[i].status \in {"approved", "rejected", "cancelled"}
           \/ \E o \in Operators : HoldsRequest(o, i) /\ ~Commit(o)
    PROVE  request'[i] = request[i]
  <1>1. CASE UNCHANGED vars
    BY <1>1 DEF vars
  <1>2. ~(RequestFree(i) /\ request[i].status = "pending")
    BY DEF RequestFree
  <1>3. request[i].status # "none"
    BY DEF RequestInv
  <1>4. ASSUME NEW c \in Clients, TenantStep(c) PROVE request'[i] = request[i]
    BY <1>2, <1>3, <1>4
       DEF TenantStep, Ask, CommitAsk, Withdraw, CommitWithdraw, Store, CommitStore,
           ClientFails, TypeOK
  <1>5. ASSUME NEW j \in Ids, Reject(j) PROVE request'[i] = request[i]
    BY <1>2, <1>5 DEF Reject, TypeOK
  <1>6. ASSUME NEW o \in Operators, OperatorStep(o) PROVE request'[i] = request[i]
    <2>1. CASE Commit(o)
      <3>1. operator[o].id # i
        BY <2>1, ConstantsOK DEF Commit, RequestInv, HoldsRequest
      <3> QED BY <2>1, <3>1 DEF Commit
    <2> QED BY <1>6, <2>1, OperatorStepFrame
  <1> QED BY <1>1, <1>4, <1>5, <1>6 DEF Next

(* Who asked and for what is not changed.                                   *)
LEMMA RequestsNamed ==
    ASSUME TypeOK, [Next]_vars, NEW i \in Ids, request[i].status # "none"
    PROVE  /\ request'[i].status # "none"
           /\ request'[i].tenant = request[i].tenant
           /\ request'[i].requested = request[i].requested
  <1> DEFINE Named == \/ request'[i] = request[i]
                     \/ \E s \in {"approved", "rejected", "cancelled"} :
                           request'[i] = [request[i] EXCEPT !.status = s]
  <1>1. CASE UNCHANGED vars
    BY <1>1 DEF vars
  <1>2. ASSUME NEW c \in Clients, TenantStep(c) PROVE Named
    BY <1>2
       DEF TenantStep, Ask, CommitAsk, Withdraw, CommitWithdraw, Store, CommitStore,
           ClientFails, TypeOK
  <1>3. ASSUME NEW j \in Ids, Reject(j) PROVE Named
    BY <1>3 DEF Reject, TypeOK
  <1>4. ASSUME NEW o \in Operators, OperatorStep(o) PROVE Named
    <2>1. CASE Commit(o)
      BY <2>1 DEF Commit
    <2>2. CASE ~Commit(o)
      BY <1>4, <2>2, OperatorStepFrame
    <2> QED BY <2>1, <2>2
  <1>5. request[i] \in Request
    BY DEF TypeOK
  <1>6. Named => /\ request'[i].status # "none"
                 /\ request'[i].tenant = request[i].tenant
                 /\ request'[i].requested = request[i].requested
    BY <1>5 DEF Request
  <1> HIDE DEF Named
  <1> QED BY <1>1, <1>2, <1>3, <1>4, <1>6 DEF Next

(* Every step of an operator leaves it with the request it found, if any.   *)
LEMMA DecideStep ==
    ASSUME TypeOK, DecideInv, NEW o \in Operators, OperatorStep(o)
    PROVE  LET y == operator'[o] IN
           y.id # NoId => /\ y.kind = "assign" /\ y.id \in Ids
                          /\ request[y.id].status # "none"
                          /\ y.targets = {request[y.id].tenant}
                          /\ y.plan = request[y.id].requested
  <1> DEFINE y == operator'[o]
  <1> DEFINE Good == y.id # NoId => /\ y.kind = "assign" /\ y.id \in Ids
                                    /\ request[y.id].status # "none"
                                    /\ y.targets = {request[y.id].tenant}
                                    /\ y.plan = request[y.id].requested
  <1>1. ASSUME NEW t \in Tenants, NEW p \in Plans, NEW i \in Ids \cup {NoId},
               ReadLimits(o, t, p, i),
               i # NoId => /\ request[i].status # "none"
                           /\ t = request[i].tenant /\ p = request[i].requested
        PROVE  Good
    <2>1. y = [IdleOperator EXCEPT
                 !.phase = "reading", !.kind = "assign", !.plan = p, !.id = i,
                 !.targets = {t}, !.limit = plans[p].limit]
      BY <1>1 DEF ReadLimits, TypeOK
    <2>2. y.kind = "assign" /\ y.plan = p /\ y.id = i /\ y.targets = {t}
      BY <2>1, IdleTypes DEF Operator
    <2> QED BY <1>1, <2>2
  <1>2. ASSUME NEW t \in Tenants, NEW p \in Plans, Assign(o, t, p) PROVE Good
    <2>1. CASE ReadLimits(o, t, p, NoId)
      BY <1>1, <2>1
    <2>2. ASSUME NEW i \in Pending(t), request[i].requested = p,
                 operator' = [operator EXCEPT ![o] = [IdleOperator EXCEPT
                                !.phase = "opened", !.plan = p, !.id = i,
                                !.targets = {t}]]
          PROVE  Good
      <3>1. i \in Ids /\ request[i].status = "pending" /\ request[i].tenant = t
        BY <2>2 DEF Pending
      <3>2. y.kind = "assign" /\ y.plan = p /\ y.id = i /\ y.targets = {t}
        BY <2>2, IdleTypes, IdleFields DEF TypeOK, Operator
      <3> QED BY <2>2, <3>1, <3>2
    <2> QED BY <1>2, <2>1, <2>2, Zenon DEF Assign
  <1>3. ASSUME TakeOpened(o) PROVE Good
    <2>1. /\ operator[o].targets \in SUBSET Tenants
          /\ operator[o].plan \in Plans
          /\ operator[o].id \in Ids \cup {NoId}
      BY DEF TypeOK, Operator
    <2>2. PICK t \in operator[o].targets : Take(o, t, operator[o].plan, operator[o].id)
      BY <1>3 DEF TakeOpened
    <2>3. ReadLimits(o, t, operator[o].plan, operator[o].id) /\ t \in Tenants
      BY <2>1, <2>2 DEF Take
    <2>4. operator[o].id # NoId =>
            /\ request[operator[o].id].status # "none"
            /\ t = request[operator[o].id].tenant
            /\ operator[o].plan = request[operator[o].id].requested
      BY DEF DecideInv
    <2> QED BY <1>1, <2>1, <2>3, <2>4
  <1>4. ASSUME NEW i \in Ids, Approve(o, i) PROVE Good
    <2>1. request[i].tenant \in Tenants /\ request[i].requested \in Plans
      BY DEF TypeOK, Request
    <2> QED BY <1>1, <1>4, <2>1 DEF Approve, Take
  <1>5. ASSUME \/ WriteAssignment(o) \/ WriteEdit(o)
               \/ \E ack \in BOOLEAN : PassGuard(o, ack)
        PROVE  Good
    <2>1. operator[o] \in Operator
      BY DEF TypeOK
    <2>2. \/ y = [operator[o] EXCEPT !.phase = "written"]
          \/ \E ack \in BOOLEAN :
               y = [operator[o] EXCEPT !.phase = "guarded", !.ack = ack, !.used = stored]
      BY <1>5 DEF WriteAssignment, WriteEdit, PassGuard, TypeOK
    <2>3. /\ y.id = operator[o].id /\ y.kind = operator[o].kind
          /\ y.targets = operator[o].targets /\ y.plan = operator[o].plan
      BY <2>1, <2>2 DEF Operator
    <2> QED BY <2>3 DEF DecideInv
  <1>6. ASSUME NEW p \in Plans, NEW l \in Limits, NEW a \in BOOLEAN, Edit(o, p, l, a)
        PROVE  Good
    <2>1. y.id = NoId
      BY <1>6, IdleFields DEF Edit, TypeOK, IdleOperator
    <2> QED BY <2>1
  <1>7. ASSUME NEW t \in Tenants, NEW l \in Limits \cup {NoLimit}, Override(o, t, l)
        PROVE  Good
    <2>1. y.id = NoId
      BY <1>7, IdleFields DEF Override, TypeOK, IdleOperator
    <2> QED BY <2>1
  <1>8. ASSUME OperatorEnds(o) PROVE Good
    <2>1. y.id = NoId
      BY <1>8, IdleFields DEF OperatorEnds, TypeOK
    <2> QED BY <2>1
  <1>9. Good
    BY <1>2, <1>3, <1>4, <1>5, <1>6, <1>7, <1>8, Zenon
       DEF OperatorStep, Commit, OperatorFails
  <1> QED BY <1>9

(* The decision stays bound to its request through every step.              *)
LEMMA DecideNext ==
    ASSUME TypeOK, DecideInv, [Next]_vars
    PROVE  DecideInv'
  <1> SUFFICES ASSUME NEW o \in Operators, operator'[o].id # NoId
               PROVE  /\ operator'[o].kind = "assign" /\ operator'[o].id \in Ids
                      /\ request'[operator'[o].id].status # "none"
                      /\ operator'[o].targets = {request'[operator'[o].id].tenant}
                      /\ operator'[o].plan = request'[operator'[o].id].requested
    BY DEF DecideInv
  <1>1. /\ operator'[o].kind = "assign" /\ operator'[o].id \in Ids
        /\ request[operator'[o].id].status # "none"
        /\ operator'[o].targets = {request[operator'[o].id].tenant}
        /\ operator'[o].plan = request[operator'[o].id].requested
    <2>1. CASE operator'[o] = operator[o]
      BY <2>1 DEF DecideInv
    <2>2. CASE OperatorStep(o)
      BY <2>2, DecideStep
    <2>3. operator'[o] = operator[o] \/ OperatorStep(o)
      BY OperatorStepFrame, TenantStepFrame, RejectFrame DEF Next, vars
    <2> QED BY <2>1, <2>2, <2>3
  <1> QED BY <1>1, RequestsNamed

(* What becomes of a request in one step.                                   *)
LEMMA DecisionStep ==
    ASSUME TypeOK, RequestInv, DecideInv, [Next]_vars, NEW i \in Ids,
           request'[i] # request[i]
    PROVE  \/ request[i].status = "none" /\ request'[i].status = "pending"
           \/ /\ request[i].status = "pending"
              /\ \/ request'[i] = [request[i] EXCEPT !.status = "cancelled"]
                 \/ request'[i] = [request[i] EXCEPT !.status = "rejected"]
                 \/ /\ request'[i] = [request[i] EXCEPT !.status = "approved"]
                    /\ subscription'[request[i].tenant] = request[i].requested
  <1>1. ASSUME NEW c \in Clients, CommitAsk(c)
        PROVE  request[i].status = "none" /\ request'[i].status = "pending"
    BY <1>1 DEF CommitAsk, TypeOK
  <1>2. ASSUME NEW c \in Clients, CommitWithdraw(c)
        PROVE  /\ request[i].status = "pending"
               /\ request'[i] = [request[i] EXCEPT !.status = "cancelled"]
    BY <1>2 DEF CommitWithdraw, TypeOK
  <1>3. ASSUME NEW j \in Ids, Reject(j)
        PROVE  /\ request[i].status = "pending"
               /\ request'[i] = [request[i] EXCEPT !.status = "rejected"]
    BY <1>3 DEF Reject, TypeOK
  <1>4. ASSUME NEW o \in Operators, Commit(o)
        PROVE  /\ request[i].status = "pending"
               /\ request'[i] = [request[i] EXCEPT !.status = "approved"]
               /\ subscription'[request[i].tenant] = request[i].requested
    <2>1. /\ operator[o].id = i /\ operator[o].phase = "guarded"
          /\ request'[i] = [request[i] EXCEPT !.status = "approved"]
      BY <1>4 DEF Commit
    <2>2. request[i].status = "pending"
      BY <2>1 DEF RequestInv, HoldsRequest
    <2>3. /\ operator[o].kind = "assign" /\ operator[o].targets = {request[i].tenant}
          /\ operator[o].plan = request[i].requested
      BY <2>1, ConstantsOK DEF DecideInv
    <2>4. request[i].tenant \in Tenants
      BY DEF TypeOK, Request
    <2>5. subscription'[request[i].tenant] = request[i].requested
      BY <1>4, <2>3, <2>4 DEF Commit, SubscriptionAfter
    <2> QED BY <2>1, <2>2, <2>5
  <1>5. ASSUME NEW o \in Operators, OperatorStep(o) PROVE Commit(o)
    BY <1>5, OperatorStepFrame
  <1>6. ASSUME NEW c \in Clients, TenantStep(c) PROVE CommitAsk(c) \/ CommitWithdraw(c)
    BY <1>6 DEF TenantStep, Ask, Withdraw, Store, CommitStore, ClientFails
  <1> QED BY <1>1, <1>2, <1>3, <1>4, <1>5, <1>6 DEF Next, vars

LEMMA RequestStep ==
    ASSUME TypeOK, KindInv, RequestInv, [Next]_vars
    PROVE  RequestInv'
  <1>1. CASE UNCHANGED vars
    BY <1>1 DEF vars, RequestInv, HoldsRequest
  <1>2. CASE UNCHANGED operator
    <2>1. \A o \in Operators : ~Commit(o)
      BY <1>2, CommitReleases DEF Commit
    <2>2. \A o \in Operators, i \in Ids : HoldsRequest(o, i)' <=> HoldsRequest(o, i)
      BY <1>2 DEF HoldsRequest
    <2>3. \A o \in Operators, i \in Ids : HoldsRequest(o, i) => request'[i] = request[i]
      BY <2>1, RequestsKept
    <2> QED BY <2>2, <2>3 DEF RequestInv
  <1>3. ASSUME NEW o \in Operators, OperatorStep(o) PROVE RequestInv'
    <2>1. SUFFICES ASSUME NEW o1 \in Operators, NEW i \in Ids, HoldsRequest(o1, i)'
                   PROVE  /\ request'[i].status = "pending"
                          /\ \A o2 \in Operators : HoldsRequest(o2, i)' => o2 = o1
      BY DEF RequestInv
    <2>2. \A o2 \in Operators : o2 # o => (HoldsRequest(o2, i)' <=> HoldsRequest(o2, i))
      BY <1>3, OperatorStepFrame DEF HoldsRequest
    <2>3. HoldsRequest(o, i)' =>
                HoldsRequest(o, i) \/ (RequestFree(i) /\ request[i].status = "pending")
      BY <1>3, NewLocks
    <2>4. request[i].status = "pending"
      BY <2>1, <2>2, <2>3 DEF RequestInv
    <2>5. CASE Commit(o)
      <3>1. ~HoldsRequest(o, i)'
        BY <2>5, CommitReleases
      <3>2. request'[i] = request[i]
        BY <2>1, <2>2, <2>5, <3>1 DEF RequestInv, HoldsRequest, Commit
      <3> QED BY <2>1, <2>2, <2>4, <3>1, <3>2 DEF RequestInv
    <2>6. CASE ~Commit(o)
      <3>1. request' = request
        BY <1>3, <2>6, OperatorStepFrame
      <3> QED BY <2>1, <2>2, <2>3, <2>4, <3>1 DEF RequestInv, RequestFree
    <2> QED BY <2>5, <2>6
  <1> QED BY <1>1, <1>2, <1>3, TenantStepFrame, RejectFrame DEF Next

LEMMA QuotaStep ==
    ASSUME TypeOK, KindInv, QuotaInv, [Next]_vars
    PROVE  QuotaInv'
  <1>1. CASE UNCHANGED operator
    BY <1>1 DEF QuotaInv, HoldsQuota, HoldsWritten
  <1>2. ASSUME NEW o \in Operators, OperatorStep(o) PROVE QuotaInv'
    <2>1. \A o2 \in Operators, t \in Tenants :
            o2 # o => (HoldsQuota(o2, t)' <=> HoldsQuota(o2, t))
      BY <1>2, OperatorStepFrame DEF HoldsQuota, HoldsWritten
    <2>2. \A t \in Tenants : HoldsQuota(o, t)' => HoldsQuota(o, t) \/ QuotaFree(t)
      BY <1>2, NewLocks
    <2> QED BY <2>1, <2>2 DEF QuotaInv, QuotaFree
  <1> QED BY <1>1, <1>2, TenantStepFrame, RejectFrame DEF Next, vars

(* What a commit does to the subscriptions that others have looked at. *)
LEMMA CommitMoves ==
    ASSUME TypeOK, QuotaInv, PlanInv, NEW o \in Operators, Commit(o),
           NEW o2 \in Operators, o2 # o
    PROVE  /\ \A t \in Tenants : HoldsQuota(o2, t) => subscription'[t] = subscription[t]
           /\ \A p \in Plans, t \in Tenants :
                HoldsPlan(o2, p) /\ subscription'[t] = p => subscription[t] = p
  <1>1. \A t \in Tenants :
          subscription'[t] = IF operator[o].kind = "assign" /\ t \in operator[o].targets
                               THEN operator[o].plan ELSE subscription[t]
    BY DEF Commit, SubscriptionAfter
  <1>2. HoldsWritten(o)
    BY DEF Commit, HoldsWritten
  <1>3. \A t \in Tenants : HoldsQuota(o2, t) => t \notin operator[o].targets
    BY <1>2 DEF QuotaInv, HoldsQuota
  <1>4. ASSUME NEW p \in Plans, NEW t \in Tenants, HoldsPlan(o2, p),
               subscription'[t] = p, subscription[t] # p
        PROVE  FALSE
    <2>1. /\ operator[o].kind = "assign" /\ t \in operator[o].targets
          /\ operator[o].plan = p
      BY <1>1, <1>4
    <2>2. SharesPlan(o, p)
      BY <1>2, <1>4, <2>1 DEF SharesPlan
    <2> QED BY <1>4, <2>2 DEF PlanInv
  <1> QED BY <1>1, <1>3, <1>4

LEMMA PlanStep ==
    ASSUME TypeOK, KindInv, QuotaInv, PlanInv, [Next]_vars
    PROVE  PlanInv'
  <1>1. CASE UNCHANGED <<operator, subscription>>
    BY <1>1 DEF PlanInv, HoldsPlan, SharesPlan, HoldsWritten
  <1>2. ASSUME NEW o \in Operators, OperatorStep(o) PROVE PlanInv'
    <2>1. SUFFICES ASSUME NEW o1 \in Operators, NEW p \in Plans, HoldsPlan(o1, p)'
          PROVE  /\ \A o2 \in Operators : HoldsPlan(o2, p)' => o2 = o1
                 /\ \A o2 \in Operators : ~SharesPlan(o2, p)'
                 /\ \A t \in Tenants : subscription'[t] = p => t \in operator'[o1].targets
      BY DEF PlanInv
    <2>2. \A o2 \in Operators : o2 # o => operator'[o2] = operator[o2]
      BY <1>2, OperatorStepFrame
    <2>3. \A o2 \in Operators : o2 # o => (HoldsPlan(o2, p)' <=> HoldsPlan(o2, p))
      BY <2>2 DEF HoldsPlan
    <2>4. HoldsPlan(o, p)' =>
            \/ HoldsPlan(o, p) /\ operator'[o].targets = operator[o].targets
            \/ /\ PlanFree(p) /\ PlanUnshared(p)
               /\ operator'[o].targets = {t \in Tenants : subscription[t] = p}
      BY <1>2, NewLocks
    <2>5. \A o2 \in Operators : HoldsPlan(o2, p)' => o2 = o1
      BY <2>1, <2>3, <2>4 DEF PlanInv, PlanFree
    <2>6. CASE UNCHANGED subscription
      <3>1. \A o2 \in Operators : o2 # o => (SharesPlan(o2, p)' <=> SharesPlan(o2, p))
        BY <2>2, <2>6 DEF SharesPlan, HoldsWritten
      <3>2. SharesPlan(o, p)' => SharesPlan(o, p) \/ PlanFree(p)
        BY <1>2, <2>6, NewShares
      <3>3. ~(HoldsPlan(o, p)' /\ SharesPlan(o, p)')
        BY DEF HoldsPlan, SharesPlan
      <3>4. \A o2 \in Operators : ~SharesPlan(o2, p)'
        BY <2>1, <2>3, <2>4, <3>1, <3>2, <3>3 DEF PlanInv, PlanFree, PlanUnshared
      <3>5. \A t \in Tenants : subscription'[t] = p => t \in operator'[o1].targets
        BY <2>1, <2>2, <2>3, <2>4, <2>6 DEF PlanInv
      <3> QED BY <2>5, <3>4, <3>5
    <2>7. CASE Commit(o)
      <3>1. o1 # o /\ ~SharesPlan(o, p)'
        BY <2>1, <2>7, CommitReleases
      <3>2. HoldsPlan(o1, p)
        BY <2>1, <2>3, <3>1
      <3>3. ASSUME NEW o2 \in Operators, o2 # o, SharesPlan(o2, p)' PROVE FALSE
        <4>1. /\ operator[o2].kind = "assign" /\ operator[o2].plan = p
              /\ HoldsWritten(o2) /\ operator[o2].targets \in SUBSET Tenants
          BY <2>2, <3>3 DEF SharesPlan, HoldsWritten, TypeOK, Operator
        <4>2. PICK t \in operator[o2].targets : subscription'[t] # p
          BY <2>2, <3>3 DEF SharesPlan
        <4>3. HoldsQuota(o2, t) /\ t \in Tenants
          BY <4>1, <4>2 DEF HoldsQuota
        <4>4. subscription[t] # p
          BY <2>7, <3>3, <4>2, <4>3, CommitMoves
        <4>5. SharesPlan(o2, p)
          BY <4>1, <4>2, <4>4 DEF SharesPlan
        <4> QED BY <3>2, <4>5 DEF PlanInv
      <3>4. \A t \in Tenants : subscription'[t] = p => t \in operator'[o1].targets
        BY <2>2, <2>7, <3>1, <3>2, CommitMoves DEF PlanInv
      <3> QED BY <2>5, <3>1, <3>3, <3>4
    <2> QED BY <1>2, <2>6, <2>7, OperatorStepFrame
  <1> QED BY <1>1, <1>2, TenantStepFrame, RejectFrame DEF Next, vars

LEMMA KindNext ==
    ASSUME TypeOK, KindInv, [Next]_vars
    PROVE  KindInv'
  <1>1. CASE UNCHANGED operator
    BY <1>1 DEF KindInv
  <1> QED BY <1>1, KindStep, TenantStepFrame, RejectFrame DEF Next, vars

(***************************************************************************)
(* What a commit writes.                                                   *)
(***************************************************************************)

LEMMA QuotaAfterTypes ==
    ASSUME TypeOK, KindInv, NEW o \in Operators, HoldsWritten(o)
    PROVE  QuotaAfter(o) \in [Tenants -> Quota]
  <1>1. operator[o].kind # "override" => operator[o].limit \in Limits
    BY DEF KindInv, HoldsWritten
  <1>2. operator[o].limit \in Limits \cup {NoLimit}
    BY DEF TypeOK, Operator
  <1>3. \A t \in Tenants : quota[t] \in Quota
    BY DEF TypeOK
  <1> QED BY <1>1, <1>2, <1>3 DEF QuotaAfter, Quota

LEMMA CommitTypes ==
    ASSUME TypeOK, KindInv, NEW o \in Operators, Commit(o)
    PROVE  TypeOK'
  <1> DEFINE x == operator[o]
  <1>1. HoldsWritten(o)
    BY DEF Commit, HoldsWritten
  <1>2. quota' \in [Tenants -> Quota]
    BY <1>1, QuotaAfterTypes DEF Commit
  <1>3. /\ x.kind = "edit" => x.limit \in Limits
        /\ x.plan \in Plans /\ x.active \in BOOLEAN
    <2>1. x.kind = "edit" => x.limit \in Limits
      BY <1>1 DEF KindInv, HoldsWritten
    <2>2. x \in Operator
      BY DEF TypeOK
    <2> QED BY <2>1, <2>2, Zenon DEF Operator
  <1>4. plans' \in [Plans -> Plan]
    <2>1. CASE x.kind = "edit"
      <3>1. [limit |-> x.limit, is_active |-> x.active] \in Plan
        BY <1>3, <2>1 DEF Plan
      <3> QED BY <2>1, <3>1 DEF Commit, PlansAfter, TypeOK
    <2>2. CASE x.kind # "edit"
      BY <2>2 DEF Commit, PlansAfter, TypeOK
    <2> QED BY <2>1, <2>2
  <1>5. subscription' \in [Tenants -> Plans]
    BY <1>3 DEF Commit, SubscriptionAfter, TypeOK
  <1>6. request' \in [Ids -> Request]
    <2>1. \A i \in Ids : [request[i] EXCEPT !.status = "approved"] \in Request
      BY DEF TypeOK, Request, Statuses
    <2> QED BY <2>1 DEF Commit, TypeOK
  <1>7. notes' \in [Tenants -> SUBSET Causes]
    <2>1. \A t \in Tenants : NotesAfter(o, t) \in SUBSET Causes
      BY DEF NotesAfter, Causes, TypeOK
    <2> QED BY <2>1 DEF Commit, TypeOK
  <1>8. operator' \in [Operators -> Operator]
    BY OperatorStepTypes DEF OperatorStep
  <1> QED BY <1>2, <1>4, <1>5, <1>6, <1>7, <1>8 DEF Commit, TypeOK

LEMMA TypeStep ==
    ASSUME TypeOK, KindInv, [Next]_vars
    PROVE  TypeOK'
  <1>1. CASE UNCHANGED vars
    BY <1>1 DEF vars, TypeOK
  <1>2. ASSUME NEW i \in Ids, Reject(i) PROVE TypeOK'
    <2>1. [request[i] EXCEPT !.status = "rejected"] \in Request
      BY DEF TypeOK, Request, Statuses
    <2> QED BY <1>2, <2>1 DEF Reject, TypeOK
  <1>3. ASSUME NEW o \in Operators, OperatorStep(o), ~Commit(o) PROVE TypeOK'
    <2>1. operator' \in [Operators -> Operator]
      BY <1>3, OperatorStepTypes
    <2>2. OperatorBegins(o) \/ UNCHANGED changes
      BY <1>3, Zenon
         DEF OperatorStep, Assign, TakeOpened, Approve, WriteAssignment, Edit, WriteEdit,
             Override, PassGuard, OperatorFails
    <2>3. changes' \in 0..MaxChanges
      BY <2>2, ConstantsOK DEF OperatorBegins, TypeOK
    <2> QED BY <1>3, <2>1, <2>3, OperatorStepFrame DEF TypeOK
  <1> QED BY <1>1, <1>2, <1>3, TenantStepTypes, CommitTypes DEF Next

(***************************************************************************)
(* One pending request.                                                    *)
(***************************************************************************)

LEMMA PendingStep ==
    ASSUME TypeOK, OnePending, [Next]_vars
    PROVE  OnePending'
  <1>1. CASE UNCHANGED request
    BY <1>1 DEF OnePending, Pending
  <1>2. ASSUME NEW c \in Clients, CommitAsk(c) PROVE OnePending'
    BY <1>2 DEF CommitAsk, OnePending, Pending, TypeOK
  <1>3. ASSUME NEW c \in Clients, CommitWithdraw(c) PROVE OnePending'
    <2>1. \A j \in Ids : request'[j].status = "pending" => request'[j] = request[j]
      BY <1>3 DEF CommitWithdraw, TypeOK, Request
    <2> QED BY <2>1 DEF OnePending, Pending
  <1>4. ASSUME NEW i \in Ids, Reject(i) PROVE OnePending'
    <2>1. \A j \in Ids : request'[j].status = "pending" => request'[j] = request[j]
      BY <1>4 DEF Reject, TypeOK, Request
    <2> QED BY <2>1 DEF OnePending, Pending
  <1>5. ASSUME NEW o \in Operators, Commit(o) PROVE OnePending'
    <2>1. \A j \in Ids : request'[j].status = "pending" => request'[j] = request[j]
      BY <1>5 DEF Commit, TypeOK, Request
    <2> QED BY <2>1 DEF OnePending, Pending
  <1>6. ASSUME NEW c \in Clients, TenantStep(c) PROVE OnePending'
    BY <1>1, <1>2, <1>3, <1>6 DEF TenantStep, Ask, Withdraw, Store, CommitStore, ClientFails
  <1>7. ASSUME NEW o \in Operators, OperatorStep(o) PROVE OnePending'
    BY <1>1, <1>5, <1>7, OperatorStepFrame
  <1> QED BY <1>1, <1>4, <1>6, <1>7 DEF Next, vars

(***************************************************************************)
(* Quotas and plans.                                                       *)
(***************************************************************************)

LEMMA FollowsCommit ==
    ASSUME TypeOK, LockInv, QuotaFollowsPlan, NEW o \in Operators, Commit(o)
    PROVE  QuotaFollowsPlan'
  <1> DEFINE x == operator[o]
  <1> SUFFICES ASSUME NEW t \in Tenants,
                      quota'[t].limit # plans'[subscription'[t]].limit
               PROVE  notes'[t] \cap {"stale", "moved"} # {}
    BY DEF QuotaFollowsPlan
  <1>1. /\ x \in Operator /\ x.phase = "guarded" /\ HoldsWritten(o)
        /\ subscription[t] \in Plans /\ quota[t] \in Quota
    BY DEF Commit, HoldsWritten, TypeOK
  <1>2. /\ x.kind \in {"assign", "edit", "override"} /\ x.plan \in Plans
        /\ x.targets \in SUBSET Tenants
    BY <1>1 DEF Operator
  <1>3. CASE t \notin x.targets
    <2>1. /\ quota'[t] = quota[t] /\ subscription'[t] = subscription[t]
          /\ notes'[t] = notes[t]
      BY <1>3 DEF Commit, QuotaAfter, SubscriptionAfter
    <2>2. plans'[subscription[t]] = plans[subscription[t]]
      <3>1. CASE x.kind = "edit"
        <4>1. HoldsPlan(o, x.plan)
          BY <1>1, <3>1 DEF HoldsPlan
        <4>2. subscription[t] # x.plan
          BY <1>2, <1>3, <4>1 DEF LockInv, PlanInv
        <4> QED BY <1>1, <3>1, <4>2 DEF Commit, PlansAfter, TypeOK
      <3> QED BY <3>1 DEF Commit, PlansAfter
    <2> QED BY <2>1, <2>2 DEF QuotaFollowsPlan
  <1>4. CASE t \in x.targets
    <2>1. quota'[t] = IF x.kind = "override" THEN [quota[t] EXCEPT !.override = x.limit]
                      ELSE [quota[t] EXCEPT !.limit = x.limit]
      BY <1>4 DEF Commit, QuotaAfter
    <2>2. notes'[t] = NotesAfter(o, t)
      BY <1>4 DEF Commit
    <2>3. CASE x.kind = "assign"
      <3>1. /\ quota'[t].limit = x.limit /\ subscription'[t] = x.plan /\ plans' = plans
        BY <1>1, <1>4, <2>1, <2>3 DEF Commit, SubscriptionAfter, PlansAfter, Quota
      <3>2. "stale" \in notes'[t]
        BY <2>2, <2>3, <3>1 DEF NotesAfter
      <3> QED BY <3>2
    <2>4. CASE x.kind = "edit"
      <3>1. /\ quota'[t].limit = x.limit /\ subscription'[t] = subscription[t]
            /\ plans'[x.plan].limit = x.limit
        BY <1>1, <1>2, <2>1, <2>4 DEF Commit, SubscriptionAfter, PlansAfter, Quota, TypeOK
      <3>2. t \notin Checked(o)
        BY <2>4, <3>1 DEF Checked
      <3>3. "moved" \in notes'[t]
        BY <2>2, <3>2 DEF NotesAfter
      <3> QED BY <3>3
    <2>5. CASE x.kind = "override"
      <3>1. /\ quota'[t].limit = quota[t].limit /\ subscription'[t] = subscription[t]
            /\ plans' = plans
        BY <1>1, <2>1, <2>5 DEF Commit, SubscriptionAfter, PlansAfter, Quota
      <3>2. notes[t] \cap {"stale", "moved"} # {}
        BY <3>1 DEF QuotaFollowsPlan
      <3>3. notes[t] \cap {"moved", "stale"} \subseteq notes'[t]
        BY <2>2, <2>5 DEF NotesAfter
      <3> QED BY <3>2, <3>3
    <2> QED BY <1>2, <2>3, <2>4, <2>5
  <1> QED BY <1>3, <1>4

(* A tenant's step only adds to the notes. *)
LEMMA NotesGrow ==
    ASSUME TypeOK, NEW c \in Clients, TenantStep(c), NEW t \in Tenants
    PROVE  notes[t] \subseteq notes'[t]
  <1>1. CASE CommitStore(c)
    BY <1>1 DEF CommitStore, TypeOK
  <1> QED BY <1>1 DEF TenantStep, Ask, CommitAsk, Withdraw, CommitWithdraw, Store,
                      ClientFails

LEMMA FollowsStep ==
    ASSUME TypeOK, LockInv, QuotaFollowsPlan, [Next]_vars
    PROVE  QuotaFollowsPlan'
  <1>1. CASE UNCHANGED <<plans, subscription, quota, notes>>
    BY <1>1 DEF QuotaFollowsPlan
  <1>2. ASSUME NEW c \in Clients, TenantStep(c) PROVE QuotaFollowsPlan'
    <2>1. UNCHANGED <<plans, subscription, quota>>
      BY <1>2, TenantStepFrame
    <2>2. \A t \in Tenants : notes[t] \subseteq notes'[t]
      BY <1>2, NotesGrow
    <2> QED BY <2>1, <2>2 DEF QuotaFollowsPlan
  <1> QED BY <1>1, <1>2, FollowsCommit, OperatorStepFrame, RejectFrame DEF Next, vars

(***************************************************************************)
(* Limits.                                                                 *)
(***************************************************************************)

LEMMA EffectiveTypes ==
    ASSUME NEW q \in Quota
    PROVE  Effective(q) \in Limits /\ Effective(q) \in Nat /\ Effective(q) # NoLimit
  BY ConstantsOK DEF Effective, Quota

(* What _guard_below_usage has found is not disturbed by other operations.  *)
LEMMA GuardStep ==
    ASSUME TypeOK, LockInv, GuardInv, [Next]_vars
    PROVE  GuardInv'
  <1>1. CASE UNCHANGED <<subscription, quota, operator>>
    <2>1. \A o \in Operators : Checked(o)' = Checked(o)
      BY <1>1 DEF Checked
    <2>2. \A o \in Operators : QuotaAfter(o)' = QuotaAfter(o)
      BY <1>1 DEF QuotaAfter
    <2> QED BY <1>1, <2>1, <2>2 DEF GuardInv, Exceeded
  <1>2. ASSUME NEW o \in Operators, OperatorStep(o) PROVE GuardInv'
    <2>1. SUFFICES ASSUME NEW o2 \in Operators, operator'[o2].phase = "guarded",
                          ~operator'[o2].ack
                   PROVE  (Exceeded(o2, operator[o2].used) = {})'
      BY DEF GuardInv
    <2>2. CASE o2 = o
      <3>1. Proceeds(o) /\ operator[o].phase = "written"
        BY <1>2, <2>1, <2>2, OperatorRecords DEF LockInv, Starts, Proceeds
      <3>2. PICK ack \in BOOLEAN : PassGuard(o, ack)
        BY <1>2, <2>1, <2>2, <3>1, IdleFields
           DEF OperatorStep, Assign, TakeOpened, Approve, WriteAssignment, Edit,
               WriteEdit, Override, Commit, OperatorFails, OperatorBegins, OperatorEnds,
               TypeOK
      <3>3. operator[o] \in Operator
        BY DEF TypeOK
      <3>4. operator'[o] = [operator[o] EXCEPT !.phase = "guarded", !.ack = ack,
                                               !.used = stored]
        BY <3>2 DEF PassGuard, TypeOK
      <3>5. /\ operator'[o].kind = operator[o].kind
            /\ operator'[o].plan = operator[o].plan
            /\ operator'[o].targets = operator[o].targets
            /\ operator'[o].limit = operator[o].limit
            /\ operator'[o].used = stored /\ operator'[o].ack = ack
        BY <3>3, <3>4 DEF Operator
      <3>6. Exceeded(o, stored) = {}
        BY <2>1, <2>2, <3>2, <3>5 DEF PassGuard
      <3>7. UNCHANGED <<subscription, quota>>
        BY <3>2 DEF PassGuard
      <3> QED BY <2>2, <3>5, <3>6, <3>7 DEF Exceeded, Checked, QuotaAfter
    <2>3. CASE o2 # o
      <3>1. operator'[o2] = operator[o2]
        BY <1>2, <2>3, OperatorStepFrame
      <3>2. Exceeded(o2, operator[o2].used) = {}
        BY <2>1, <3>1 DEF GuardInv
      <3>3. CASE UNCHANGED <<subscription, quota>>
        BY <3>1, <3>2, <3>3 DEF Exceeded, Checked, QuotaAfter
      <3>4. CASE Commit(o)
        <4>1. HoldsWritten(o2) /\ HoldsWritten(o)
          BY <2>1, <3>1, <3>4 DEF HoldsWritten, Commit
        <4>2. /\ operator[o2] \in Operator /\ operator[o2].plan \in Plans
              /\ operator[o2].targets \in SUBSET Tenants
          BY DEF TypeOK, Operator
        <4>3. operator[o2].kind = "edit" => HoldsPlan(o2, operator[o2].plan)
          BY <2>1, <3>1 DEF HoldsPlan
        <4>4. Checked(o2)' \subseteq Checked(o2)
          BY <2>3, <3>1, <3>4, <4>2, <4>3, CommitMoves DEF LockInv, Checked
        <4>5. Checked(o2) \subseteq operator[o2].targets
          BY <4>2, <4>3 DEF LockInv, PlanInv, Checked
        <4>6. \A t \in operator[o2].targets :
                t \in Tenants /\ quota'[t] = quota[t]
          <5>1. \A t \in operator[o2].targets : t \in Tenants /\ t \notin operator[o].targets
            BY <2>3, <4>1, <4>2 DEF LockInv, QuotaInv, HoldsQuota
          <5> QED BY <3>4, <5>1 DEF Commit, QuotaAfter
        <4>7. \A t \in operator[o2].targets : QuotaAfter(o2)'[t] = QuotaAfter(o2)[t]
          BY <3>1, <4>6 DEF QuotaAfter
        <4> QED BY <3>1, <3>2, <4>4, <4>5, <4>7 DEF Exceeded
      <3> QED BY <1>2, <3>3, <3>4, OperatorStepFrame
    <2> QED BY <2>2, <2>3
  <1> QED BY <1>1, <1>2, TenantStepFrame, RejectFrame DEF Next, vars

LEMMA StoreStep ==
    ASSUME TypeOK, StoreInv, [Next]_vars
    PROVE  StoreInv'
  <1>1. CASE UNCHANGED <<stored, client>>
    BY <1>1 DEF StoreInv
  <1>2. ASSUME NEW c \in Clients, TenantStep(c) PROVE StoreInv'
    <2>1. ASSUME \A c2 \in Clients : c2 # c => client'[c2] = client[c2],
                 client'[c].phase # "storing",
                 \A t \in Tenants : \/ stored'[t] = stored[t]
                                    \/ client[c].phase = "storing" /\ client[c].tenant = t
          PROVE  StoreInv'
      <3>1. \A c2 \in Clients : client[c2].tenant \in Tenants
        BY DEF TypeOK, Client
      <3> QED BY <2>1, <3>1 DEF StoreInv
    <2>2. ASSUME NEW t \in Tenants, NEW n \in 1..MaxBatch, Store(c, t, n)
          PROVE  StoreInv'
      <3>1. client'[c] = [IdleClient EXCEPT !.phase = "storing", !.tenant = t,
                            !.count = n, !.limit = Effective(quota[t])]
        BY <2>2 DEF Store, TypeOK
      <3>2. /\ client'[c].tenant = t /\ client'[c].count = n
            /\ client'[c].limit = Effective(quota[t])
        BY <3>1, IdleTypes DEF Client
      <3>3. \A c2 \in Clients : c2 # c => client'[c2] = client[c2]
        BY <2>2 DEF Store, TypeOK
      <3>4. stored' = stored /\ stored[t] + n <= Effective(quota[t]) /\ DimensionFree(t)
        BY <2>2 DEF Store
      <3>5. \A c2 \in Clients : client[c2].phase = "storing" => client[c2].tenant # t
        BY <3>4 DEF DimensionFree
      <3> QED BY <3>2, <3>3, <3>4, <3>5 DEF StoreInv
    <2>3. CASE CommitStore(c)
      <3>1. client'[c].phase # "storing"
        BY <2>3 DEF CommitStore, ClientEnds, IdleClient, TypeOK
      <3>2. \A c2 \in Clients : c2 # c => client'[c2] = client[c2]
        BY <2>3 DEF CommitStore, ClientEnds, TypeOK
      <3>3. \A t \in Tenants :
              \/ stored'[t] = stored[t]
              \/ client[c].phase = "storing" /\ client[c].tenant = t
        BY <2>3 DEF CommitStore, TypeOK
      <3> QED BY <2>1, <3>1, <3>2, <3>3
    <2>4. CASE ClientEnds(c) /\ stored' = stored
      BY <2>1, <2>4 DEF ClientEnds, IdleClient, TypeOK
    <2>5. ASSUME NEW t \in Tenants, NEW p \in Plans, Ask(c, t, p) PROVE StoreInv'
      <3>1. client'[c].phase # "storing" /\ stored' = stored
        BY <2>5, IdleTypes DEF Ask, TypeOK, Client
      <3>2. \A c2 \in Clients : c2 # c => client'[c2] = client[c2]
        BY <2>5 DEF Ask, TypeOK
      <3> QED BY <2>1, <3>1, <3>2
    <2>6. ASSUME NEW i \in Ids, Withdraw(c, i) PROVE StoreInv'
      <3>1. client'[c].phase # "storing" /\ stored' = stored
        BY <2>6, IdleTypes DEF Withdraw, TypeOK, Client
      <3>2. \A c2 \in Clients : c2 # c => client'[c2] = client[c2]
        BY <2>6 DEF Withdraw, TypeOK
      <3> QED BY <2>1, <3>1, <3>2
    <2> QED BY <1>2, <2>2, <2>3, <2>4, <2>5, <2>6
            DEF TenantStep, CommitAsk, CommitWithdraw, ClientFails
  <1> QED BY <1>1, <1>2, OperatorStepFrame, RejectFrame DEF Next, vars

LEMMA LimitCommit ==
    ASSUME TypeOK, LockInv, GuardInv, LimitHolds, NEW o \in Operators, Commit(o)
    PROVE  LimitHolds'
  <1> DEFINE x == operator[o]
  <1> SUFFICES ASSUME NEW t \in Tenants, stored'[t] > Effective(quota'[t])
               PROVE  notes'[t] \cap {"acknowledged", "raced", "moved"} # {}
    BY DEF LimitHolds, Effective
  <1>1. stored' = stored
    BY DEF Commit
  <1>2. CASE t \notin x.targets
    <2>1. quota'[t] = quota[t] /\ notes'[t] = notes[t]
      BY <1>2 DEF Commit, QuotaAfter
    <2> QED BY <1>1, <2>1 DEF LimitHolds
  <1>3. CASE t \in x.targets
    <2>1. quota'[t] = QuotaAfter(o)[t] /\ notes'[t] = NotesAfter(o, t)
      BY <1>3 DEF Commit
    <2>2. CASE x.ack \/ x.used[t] # stored[t] \/ t \notin Checked(o)
      BY <2>1, <2>2 DEF NotesAfter
    <2>3. CASE ~x.ack /\ x.used[t] = stored[t] /\ t \in Checked(o)
      <3>1. Exceeded(o, x.used) = {}
        BY <2>3 DEF GuardInv, Commit
      <3>2. x.used[t] > Effective(QuotaAfter(o)[t])
        BY <1>1, <2>1, <2>3
      <3> QED BY <2>3, <3>1, <3>2 DEF Exceeded
    <2> QED BY <2>2, <2>3
  <1> QED BY <1>2, <1>3

LEMMA LimitStep ==
    ASSUME TypeOK, LockInv, GuardInv, StoreInv, LimitHolds, [Next]_vars
    PROVE  LimitHolds'
  <1>1. CASE UNCHANGED <<quota, stored, notes>>
    BY <1>1 DEF LimitHolds
  <1>2. ASSUME NEW c \in Clients, CommitStore(c) PROVE LimitHolds'
    <2> DEFINE x == client[c]
    <2> SUFFICES ASSUME NEW t \in Tenants, stored'[t] > Effective(quota'[t])
                 PROVE  notes'[t] \cap {"acknowledged", "raced", "moved"} # {}
      BY DEF LimitHolds, Effective
    <2>1. quota' = quota /\ notes[t] \subseteq notes'[t]
      BY <1>2, NotesGrow DEF CommitStore, TenantStep
    <2>2. CASE stored'[t] = stored[t]
      BY <2>1, <2>2 DEF LimitHolds
    <2>3. CASE stored'[t] # stored[t]
      <3>1. x.tenant = t /\ stored'[t] = stored[t] + x.count
        BY <1>2, <2>3 DEF CommitStore, TypeOK
      <3>2. stored[t] + x.count <= x.limit
        BY <1>2, <3>1 DEF CommitStore, StoreInv
      <3>3. CASE x.limit # Effective(quota[t])
        BY <1>2, <3>1, <3>3 DEF CommitStore, TypeOK
      <3>4. CASE x.limit = Effective(quota[t])
        <4>1. Effective(quota[t]) \in Nat /\ stored[t] + x.count \in Nat
          BY EffectiveTypes DEF TypeOK, Client
        <4> QED BY <2>1, <3>1, <3>2, <3>4, <4>1
      <3> QED BY <3>3, <3>4
    <2> QED BY <2>2, <2>3
  <1>3. ASSUME NEW c \in Clients, TenantStep(c) PROVE LimitHolds'
    BY <1>1, <1>2, <1>3
       DEF TenantStep, Ask, CommitAsk, Withdraw, CommitWithdraw, Store, ClientFails
  <1> QED BY <1>1, <1>3, LimitCommit, OperatorStepFrame, RejectFrame DEF Next, vars

(***************************************************************************)
(* Theorems.                                                               *)
(***************************************************************************)

LEMMA InitIInv == Init => IInv
  <1> SUFFICES ASSUME Init PROVE IInv
    OBVIOUS
  <1>1. TypeOK /\ LockInv
    BY TypeInit, LockInit
  <1>2. GuardInv
    BY IdleFields DEF Init, GuardInv
  <1>3. StoreInv
    BY DEF Init, StoreInv, IdleClient
  <1>4. OnePending
    BY DEF Init, OnePending, Pending
  <1>5. QuotaFollowsPlan
    BY DEF Init, QuotaFollowsPlan
  <1>6. LimitHolds
    <2>1. \A t \in Tenants : stored[t] = 0 /\ Effective(quota[t]) \in Nat
      BY <1>1, EffectiveTypes DEF Init, TypeOK
    <2> QED BY <2>1 DEF LimitHolds
  <1>7. DecideInv
    BY IdleFields DEF Init, DecideInv
  <1> QED BY <1>1, <1>2, <1>3, <1>4, <1>5, <1>6, <1>7 DEF IInv

LEMMA NextIInv == IInv /\ [Next]_vars => IInv'
  <1> SUFFICES ASSUME IInv, [Next]_vars PROVE IInv'
    OBVIOUS
  <1>1. TypeOK'
    BY TypeStep DEF IInv, LockInv
  <1>2. LockInv'
    BY KindNext, RequestStep, QuotaStep, PlanStep DEF IInv, LockInv
  <1>3. DecideInv' /\ GuardInv' /\ StoreInv'
    BY DecideNext, GuardStep, StoreStep DEF IInv
  <1>4. OnePending' /\ QuotaFollowsPlan' /\ LimitHolds'
    BY PendingStep, FollowsStep, LimitStep DEF IInv
  <1> QED BY <1>1, <1>2, <1>3, <1>4 DEF IInv

(* The conjunction that carries the properties below through every step:    *)
(* the row locks of the platform's transactions and what they protect.      *)
THEOREM PlanInvariant == Spec => []IInv
  BY InitIInv, NextIInv, PTL DEF Spec

(* Plans, quotas, requests and transactions keep their types: a committed   *)
(* quota always has a limit (platform_assign_plan, platform_update_plan).   *)
THEOREM PlanTypes == Spec => []TypeOK
  <1>1. IInv => TypeOK
    BY DEF IInv
  <1> QED BY <1>1, PlanInvariant, PTL

(* A tenant has one pending request at a time, however many of its users    *)
(* ask at once (subscription/requests.py, migration 0039).                  *)
THEOREM OneRequestPending == Spec => []OnePending
  <1>1. IInv => OnePending
    BY DEF IInv
  <1> QED BY <1>1, PlanInvariant, PTL

(* A request is decided or withdrawn once, however operators and the tenant *)
(* overlap, and approved in the step that puts the tenant on the plan asked *)
(* for (platform_decide_plan_request, cancel).                              *)
THEOREM RequestsDecidedOnce == Spec => DecidedOnce
  <1> DEFINE Decided ==
        \A i \in Ids : request'[i] # request[i] =>
          \/ request[i].status = "none" /\ request'[i].status = "pending"
          \/ /\ request[i].status = "pending"
             /\ \/ request'[i] = [request[i] EXCEPT !.status = "cancelled"]
                \/ request'[i] = [request[i] EXCEPT !.status = "rejected"]
                \/ /\ request'[i] = [request[i] EXCEPT !.status = "approved"]
                   /\ subscription'[request[i].tenant] = request[i].requested
  <1>1. IInv /\ [Next]_vars => [Decided]_vars
    BY DecisionStep DEF IInv, LockInv
  <1> QED BY <1>1, PlanInvariant, PTL DEF Spec, DecidedOnce

(* A tenant's limits are those of its plan unless an edit of a plan         *)
(* overlapped an assignment (platform_assign_plan, platform_update_plan).   *)
THEOREM QuotasFollowPlans == Spec => []QuotaFollowsPlan
  <1>1. IInv => QuotaFollowsPlan
    BY DEF IInv
  <1> QED BY <1>1, PlanInvariant, PTL

(* A tenant stores more than its limit only if an operator accepted it or   *)
(* a change of the limit overlapped an upload or a move (require_capacity,  *)
(* _guard_below_usage).                                                     *)
THEOREM LimitsAreKept == Spec => []LimitHolds
  <1>1. IInv => LimitHolds
    BY DEF IInv
  <1> QED BY <1>1, PlanInvariant, PTL

=============================================================================

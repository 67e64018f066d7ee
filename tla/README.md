# GraphRec in TLA+

GraphRec is a multi-tenant recommendation service: tenants upload a catalogue and interaction
events, have a graph neural network trained on them, activate a trained version and ask it for
recommendations. A Postgres database, a Redis server, a Qdrant vector store, a directory of model
artifacts, several API processes, one training worker and one scheduler share its state. A web
console calls the API from tabs that renew their session's tokens by themselves.

This directory holds specifications of the parts of GraphRec in which those processes, or the calls of one tab, meet, the TLC
runs that check them on small instances, and TLAPS proofs of what they promise for every instance.
The sections below are: the inventory of the system, how the specifications are laid out, one
section per module, the disagreements between code and documentation that the runs show, what is
proved and how, what is left out, and the plan for what comes next.

Paths are relative to the repository: `worker.py` is `src/graphrec_core/dgsr/worker.py`,
`service.py` in the sections on training and the registry is
`src/graphrec_core/models_reg/service.py`, `admission.py` is `src/graphrec_core/usage/admission.py`.

## 1. Inventory

### Processes and shared state

| Process | Runs | Talks to |
|---|---|---|
| API processes (`apps/api`) | request handlers in a thread pool, one database transaction or a few per request | Postgres, Redis, Qdrant |
| Training worker (`dgsr/worker.py`) | one loop: claim a job, train, register a version | Postgres (three connections), Qdrant, artifact directory |
| Scheduler (`scheduler.py`) | one loop: retraining policies and serving capacity | Postgres |
| Probe thread (`usage/admission.py`) | pings Redis while a circuit is open | Redis |

| Tab of the web console (`src/web`) | one thread: pages, the calls of their API client, the renewal of tokens | API processes |

On the server nothing is sent between processes: they interact through rows, advisory locks, Redis keys, Qdrant
collections and directories. Handlers are retried by clients, so a request may arrive twice.

### Components

| Component | State it keeps | Operations | What is hard | What makes it correct |
|---|---|---|---|---|
| Training queue and worker | `training_jobs`, artifact directories, the trainer's advisory lock, heartbeats | request, cancel, claim with recovery, pulse, register, finish a failure, shut down | the worker reads and writes the row in many transactions while the tenant cancels and other processes recover it; crashes in any phase; commits without an answer | one open job per tenant, one ending per job, cancellation wins, bounded attempts, a version exactly for a success, its files kept, every job ends |
| Model registry | `model_versions`, `model_deployments`, item indexes | register, activate, roll back, archive | two lifecycle requests and the capacity controller write one record; indexes are deleted after the commit | one active version, a record that says so, a rollback target that survives, no gap in serving |
| Plan limits and metering | usage ledger, quota locks | `require_capacity`, `active_model_count`, summaries | limits checked long before the use they admit | the limits hold |
| Serving admission control | Redis slots, monthly counter and rate window; a fallback and a circuit per process | acquire, check rate, consume, refund, release, probe | Redis comes and goes while requests hold things in either store | nothing leaks, nothing is returned twice, the quota holds while it is shared, the circuit closes again |
| Capacity controller | `desired_capacity`, `ready_capacity` | `evaluate_capacity` | concurrent activation | capacity decided is capacity served |
| Retraining scheduler | `retraining_policies`, an advisory lock | `update_policy`, `evaluate` | two transactions per evaluation, crash between them | at most one job per slot, no slot lost |
| Tenant lifecycle, platform administration | tenants, plans, overrides | suspend, reactivate, assign plan, edit limits, decide requests | lowering a limit while something is being created | no limit below the inventory |
| Plan change requests | `plan_change_requests` | create, cancel, approve, reject | cancel against approve | one pending per tenant; approved exactly when assigned |
| Event ingestion and catalogue | events, products, batches, ledger | batch and single ingestion, upsert, import | replays, duplicates, overlapping retries | each event counted once; what is answered is what was stored |
| Dataset snapshots | snapshot rows and contents | create | none: written once | - |
| Serving pipeline | last-good cache, breaker of the vector store, records of answers | serve, replay | optional sources failing one by one; a stale cache | only eligible items, one answer per request identifier |
| Vector store | one collection per version | write, delete, search | writes and deletes outside the transaction that owns them | what serves has its collection |
| Authentication and sessions | users, refresh sessions, setup and recovery tokens | login, refresh, logout, set up, recover, invite, update a member | rotation of one token by two requests; two administrators at once | one live session per family; a tenant keeps an administrator |
| Platform operators, API keys, registration | their rows | create, rotate, revoke, register | two registrations with one key | unique results |
| DGSR model | weights | training and inference numerics | no protocol | - |
| Web console (`src/web`) | the session of a tab in `sessionStorage`, the renewal and the reads in flight, the data of each page | sign in and out, request, renew, load and reload a page | calls, renewals, a sign-out and page loads in flight at once; a read that is shared or late; a token that may be presented once | a page shows its own session's data and the writes it reported; a write happens once; a session ends only when it must |
| HTTP layer, SDK, storefront demos, deployment files | - | input, output, configuration | no shared state of their own | - |

`PROJECT.json` lists every component with its files and says which module models it, and under
`hazards` what in this code is hard to test, at its line, with the properties that cover it.

## 2. Layout

| Module | Contents |
|---|---|
| `TrainingQueue` | the queue, the tenant's operations on it, the worker: state, actions, fairness, properties |
| `TrainingContract` | what the queue promises a tenant, without workers |
| `MCTrainingQueue`, `MCTrainingQueue*.cfg` | its instances |
| `TrainingQueueProofs` | the inductive invariant, the safety theorems, and that `TrainingQueue` implements `TrainingContract` |
| `ModelRegistry`, `MCModelRegistry`, `*.cfg`, `ModelRegistryProofs` | the registry, its instance, its theorems |
| `VersionLifecycle` | the registry with operations that come one at a time; `ModelRegistryProofs` proves that `ModelRegistry` implements it |
| `Admission`, `MCAdmission`, `*.cfg`, `AdmissionProofs` | admission control, its instances, its theorems |
| `PlanChanges`, `MCPlanChanges`, `*.cfg`, `PlanChangesProofs` | plans, plan change requests and limits, their instances, their theorems |
| `Sessions`, `MCSessions`, `*.cfg`, `SessionsProofs` | sessions, recovery tokens and members, their instance, their theorems |
| `Console`, `MCConsole`, `*.cfg` | a tab of the web console, its instance; its theorems are the second part of `SessionsProofs`, since it holds the other side of the same tokens |
| `Serving`, `MCServing`, `*.cfg`, `ServingProofs` | the serving pipeline, its instances, its theorems |
| `Ingestion`, `MCIngestion`, `*.cfg`, `IngestionProofs` | events, catalogue, feedback and the ledger, their instance, their theorems |
| `EventBooks` | what ingestion promises, without calls; `IngestionProofs` proves that `Ingestion` implements it |
| `Retraining`, `MCRetraining`, `*.cfg`, `RetrainingProofs` | retraining policies and the scheduler, their instance, their theorems |

Conventions. One action is one database transaction, one Redis command (each is a Lua script or a
single command, so atomic), or one step between two of them; a transaction whose locks another
actor can wait for is split where it starts to hold them. Database isolation is READ COMMITTED,
PostgreSQL's default, which the engine in `database/session.py` leaves alone: a read is of the moment, and only what is locked
stays as it was read. The ORM writes only the attributes whose value changed against what it
read; where a row is read without a lock and written later, the operator `Flush` models exactly
that. A crash or an aborted transaction loses a handler's local state and its locks and nothing else.

A definition whose comment says "slip" is not part of a specification: it is the definition below
it with a plausible mistake, and `PROJECT.json` (`mutants`) says which property it breaks. Every
property of every passing run has one.

The names of variables, actions and fields are those of the code where it has names.

## 3. TrainingQueue

### State and actions

| Variable | In the code |
|---|---|
| `job[j]` | a row of `training_jobs`; `begun` is `progress > 0`, `beat` the age of `heartbeat_at`, `version` the version `trained-<job>` the job registered |
| `directories` | the job's directory under `MODEL_ARTIFACT_ROOT` |
| `others[t]` | retained versions that came from somewhere else (imports, placeholders) |
| `enabled` | tenants with `status = 'active'` |
| `guard` | who holds `pg_try_advisory_lock(714629381)` on the guard connection |
| `worker[w]` | where process `w` is in `main`, `run_once`, `train_job` and `finish_failed_job` |
| `mishaps` | history: whether a guard connection was dropped, whether an acknowledgement was lost |

| Action | In the code |
|---|---|
| `RequestTraining` | `create_training_job`: tenant's advisory lock, eligibility, quota locks, insert |
| `CancelTraining` | `cancel_training` under the row lock |
| `RegisterVersion`, `ArchiveVersion`, `SetTenantStatus` | other operations that change what the queue reads |
| `Claim` | the SQL function `claim_training_job`: recovery of interrupted jobs, then the oldest claimable one |
| `Prepare`, `Pulse`, `PulseStops`, `TrainingFails`, `DependencyFails` | `train_job` up to its last transaction |
| `Register`, `Commit` | that transaction, up to its locks and from there on |
| `Cleanup`, `FinishFailed`, `FinishLost` | `finish_failed_job`: directory and unlocked read, then the update |
| `StartWorker`, `SignalStop`, `Exit`, `Crash`, `DropGuard`, `Heartbeat` | process, signal, connection, time |

Time is abstracted to what the code asks of it: a heartbeat is fresh, stale or absent, and may grow
stale whenever no pulse is written. The month is one period.

### Properties and runs

`training` (two workers, one tenant, two jobs, two attempts, one disruption; 584 thousand states)
checks that however requests, cancellations, recoveries, shutdowns and crashes interleave

- a version exists exactly for a succeeded job (`VersionIffSucceeded`), and a retained version has
  its directory (`RetainedHasDirectory`);
- the plan's limits hold at every moment (`LimitsHold`);
- one process trains as long as no guard connection was dropped (`OneTrainerWhileGuarded`);
- every step is a step of the contract (`KeepsContract`, refinement of `TrainingContract`), in which
  a tenant has one open job and a cancellation that was accepted is not followed by success;
- an accepted job ends (`Settles`), unless its tenant is suspended or the guard connection was dropped.

`OneActiveJob` (although a retry or a recovery may put a job back), `AttemptsBounded` (although a
shutdown gives an attempt back and the SQL counts with a literal of its own) and
`CancelledNeverSucceeds` are theorems, and the run does not repeat them. Most of these are stated while
no mishap has happened. Two mishaps take them away, and the history variable names them:

- `guard_dropped`. The trainer's lock belongs to a connection of its own (`worker.py:391-393`, `398`).
  When only that connection dies, Postgres frees the lock, the worker goes on training, and a second
  worker may train beside it, although `SRS_ACCEPTANCE.md:73` says "One CPU trainer runs globally".
- `ack_lost`. When the final commit takes effect but reports an error (`worker.py:349-374`), the
  failure path removes the directory of the version that was registered and ends the job as failed or
  cancelled, although `GraphRec_Complete_SRS.md:1496` says "Failed or cancelled jobs produce no
  version".

`guard_wedge` (one worker, one tenant, one disruption) expects a violation; it is in section 12.

Two workers are enough for the lock and for recovery by another process; two jobs for the order of
claims, for a job that waits behind another and for a second job of the same tenant; two attempts
are the code's own constant; one disruption is a crash, a shutdown, a lost acknowledgement or a
dropped connection at any step. The proofs have no such bounds, and cover repairs that are disrupted again.

For `Settles` fairness is assumed

- of starting a worker, because `src/docker-compose.yml` restarts it (`restart: unless-stopped`);
- of each step of the worker's sequential code, which nothing but a crash can prevent;
- of ending the training loop, because the time budget of a job (`training_budget_seconds`, at most 180 s) raises when
  it is exceeded and a pulse that sees the STOP event or a cancellation raises;
- of a heartbeat growing stale when nobody refreshes it, which is the passing of time.

Nothing is assumed of tenants, operators, signals, crashes or failing dependencies. Fairness is weak
throughout: where an action can be disabled by another process (`Register` waits for a row lock),
the lock's holder is itself under fairness.

## 4. ModelRegistry

One tenant. `version[v]` is the row of `model_versions`, `deployment` the row of `model_deployments`,
`indexed` the versions whose Qdrant collection exists, `lifecycle` the holder of
`pg_advisory_xact_lock(... 'model_lifecycle' ...)`, `request[r]` a handler with what it read.

`StartActivation` and `StartArchive` are the code before the lock (an activation reads the time
there, `service.py:141`), `Enter` and `Refuse` its checks under the lock, `CommitActivation`,
`CommitRejection` and `CommitArchive` the three endings, `DeleteCollection` what an archive does
after its commit, `Abort` any death before one, `ScaleCapacity` the controller's transaction,
`WriteIndex` and `RegisterVersion` the creation of a version. A handler reads the deployment row in
`Enter`; the code reads it a few lines later, and only the capacity can change in between, so
each order of the two is an order of the model. Whether an artifact is sound is left open: the
validation may pass or fail, except that it fails without a collection.

`registry_safety` (three versions, two handlers, four starts, two replicas; 336 thousand states)
checks `DeploymentAgrees`, `ReadyMatchesDesired`, `ServedIsIndexed`,
`RollbackTargetKeptInOrder` and `KeepsLifecycle`: the tables change only as `VersionLifecycle` says,
in which an operation does all its work at once. There an activation finds its version eligible or
retired and indexed at the moment it takes over from the one that serves, with the capacity desired at
that moment; an archive finds a version that neither serves nor is the rollback target; a rejection
writes what was asked for and nothing else; and an index changes only for a version that is not
registered or is archived. In the code each of these checks is made several statements before the
commit, partly on rows read without a lock. The tables are mapped to themselves, and requests, locks
and what was read are hidden.

Three versions are needed for an active one, its predecessor and one more to archive; two handlers to
overlap; four starts to activate all three and archive one. `OneActive`, which `DeploymentAgrees`
implies, and `ServingContinues`, that a tenant that serves goes on serving, are theorems and not
checked again; neither are the types.

The rollback target is claimed for activations that commit in the order of the times they read: the
time is read before the lock (`service.py:141`, the lock is at 144), so that two activations can commit
in the opposite order. Then the version that served last is not the protected one and may be archived,
although `srs-implementation-report.md:123` protects it; `overtaken` is the history of that. No
fairness: nothing is promised about progress here.

`activated` times are unique in the model, so the tie-break on `created_at` is dropped.

## 5. Admission

One tenant, one month. `redis` holds whether the server answers, the leases of `gr:slots:<tenant>`
that have not expired and the counter `gr:q:<tenant>:recs:<month>`; `breaker[p]` and `local[p]` are
the circuit and the fallback of process `p`; `request[r]` is where `get_recommendations` is
(`src/apps/api/routes/recommendations.py:146-164`); `ledger` counts the usage events.

Every Redis command is a step of its own that is either answered (`Answered`) or not (`Unanswered`):
the circuit is open, or the command raises, with or without having taken effect. The probe thread
has three steps, because `_fail` asks whether the thread is alive (`admission.py:259`) while the
thread may have left its loop already. `Crash` kills a process with all its requests;
`RecoverRedis` brings Redis back with its data or, after a restart, without
(`src/docker-compose.yml` turns persistence off); `ExpireLease` is `SLOT_LEASE_SECONDS` passing.

`admission_safety` (two processes, two requests, one slot, one unit of quota, four disruptions;
1.5 million states) checks

- `LocalSlotsAccounted`: a process counts exactly the fallback slots of its own requests, although
  the circuit flips while they are held;
- `SharedSlotsAccounted`: Redis never grants more slots than there are, and undisturbed a request
  holds its slot exactly while it is in service, whichever way it ends;
- `QuotaHolds`: requests that find no counter, seed it, take from it and refund never pass the
  limit together, as long as no decision was taken without Redis;
- `OpenIsProbed`: an open circuit has a probe that will close it, unless a failure met a probe
  thread on its way out.

One slot and one unit of quota make every pair of requests compete; four disruptions allow an
outage, a recovery and a second outage around one lost reply. The run may end: both requests are
over, hence `CHECK_DEADLOCK FALSE`. The history variable `lapses` names the two situations that
the last two properties exempt.

## 6. PlanChanges

`plans[p]` is a row of `pricing_plans`, `subscription[t]` the plan in `tenant_subscriptions`,
`quota[t]` the row of `tenant_resource_quotas` with its limits and overrides, `request[i]` a row of
`plan_change_requests`, `stored[t]` the number of products of a tenant. One limit stands for the
inventory limits that `limits_below_inventory` compares; the one whose growth is modelled is
`stored_products`. Platform operations (`operator[o]`) and tenant operations (`client[c]`) overlap.

| Action | In the code |
|---|---|
| `Ask`, `CommitAsk` | `PlanRequestService.create`: the checks, then the insert with its foreign keys and the partial unique index |
| `Withdraw`, `CommitWithdraw` | `cancel`: the unlocked read, then the update under the row-level policy |
| `Store`, `CommitStore` | an upload: `require_capacity` under the dimension's advisory lock, then the commit |
| `Assign`, `TakeOpened`, `Approve`, `Reject` | `assign_tenant_plan` and `_decide` with `platform_decide_plan_request` |
| `WriteAssignment` | the updates of `platform_assign_plan` |
| `Edit`, `WriteEdit` | `platform_update_plan`: the plan under its row lock, then the subscribers' quotas |
| `Override` | `platform_set_quota_overrides` |
| `PassGuard`, `Commit` | `limits_below_inventory` and `_guard_below_usage`, then the commit |
| `ClientFails`, `OperatorFails` | a refusal after something was written, a timeout, a lost connection, a crash |

A platform operation is one transaction of several statements. What it has written stays in its
own record until `Commit`, and the row locks it holds follow from its phase (`HoldsRequest`,
`HoldsQuota`, `HoldsSubscription`, `HoldsPlan`, `SharesPlan`). Three facts about PostgreSQL matter,
and all three are in the model:

- `platform_assign_plan` reads the plan's limits without a lock (`0018_platform_plan_assignment.py:24`);
- moving a subscription takes `FOR KEY SHARE` on the new plan for its foreign key, which excludes
  the `FOR UPDATE` of an edit, but only from that statement on;
- the `UPDATE ... FROM tenant_subscriptions` of an edit waits for a quota row that is being written
  and then writes it with the subscription row it had found before, so that the quota of a tenant
  that has left the plan meanwhile gets the plan's limits all the same.

`plan_changes` (two operators, two clients, one tenant, two plans, two limits, two requests, two
platform operations; 3 million states) checks

- `OnePending` and `DecidedOnce`: the checks that `create` and `cancel` make without a lock are
  made good by the index, the policy and the row lock; a request leaves `pending` once, and what is
  approved is what was asked for, in the step that puts the tenant on that plan;
- `QuotaFollowsPlan`: a tenant's limits are those of its plan, unless one of the two overlaps above
  happened; the history variable `notes` calls them `stale` and `moved`;
- `LimitHolds`: a tenant stores more than its limit only if an operator acknowledged it
  (`acknowledged`), the limit changed between an upload's check and its commit or the inventory
  between an operator's count and its commit (`raced`), or an edit wrote a tenant that had left the
  plan and was not counted (`moved`). `raced` is a lowered limit that nobody accepted:
  the guard counts the inventory in the operator's own transaction and does not take the lock of the
  dimension (`platform.py:89`, `157`), so an upload under way that passed the old limit is not
  counted, and the tenant ends above its limit without an acknowledgement.

Two operations on each side are what a race needs; one tenant, because the rows of different
tenants meet only in a plan, and an edit already meets an assignment of its one subscriber; the
theorems of section 13 have no such bounds. Plans are interchangeable at the start, so the instance
begins with the tenant on one of them. Operations are bounded by `MaxChanges` and no row of `Ids`
is used twice, so the instance comes to rest: hence `CHECK_DEADLOCK FALSE`. The acknowledgement is chosen
where it is read, at the guard. One behaviour of the model is claimed by no property: a request that
is filed between the search in `assign_tenant_plan` (`platform.py:142`) and the commit of the
assignment stays pending for a plan the tenant is on by then, which the comment above the search
(`platform.py:140`) means to avoid. An operator or the tenant has to close it. A tenant's status is not modelled: here it matters only whether the tenant is deleted.

## 7. Sessions

One active tenant. `account[u]` is a row of `tenant_users`, `session[s]` a row of `refresh_sessions`
together with the claims of the access token issued with it, `token[t]` a row of
`account_recovery_tokens`, `request[r]` a transaction. A phase is the statement a transaction executes
next; what it wrote is invisible until it commits, and `HoldsSession`, `HoldsUser`, `HoldsToken` and
`HoldsMembers` say which rows and which advisory lock it keeps.

| Action | In the code (`auth/service.py`, `auth/users.py`) |
|---|---|
| `Refresh`, `Consume` | `refresh`: the unlocked read, then `UPDATE ... WHERE revoked_at IS NULL` |
| `SignIn` | `login` after its password check |
| `ReadEpoch`, `Touch`, `CommitIssue` | `_issue_session`, shared by both |
| `Logout`, `LockUser`, `Scan`, `CommitRevocation` | `logout`, and the revocation at the end of reuse, recovery and a member's change |
| `Reissue`, `CommitReissue` | `issue_recovery_token` |
| `Recover`, `Redeem`, `Reset`, `Discard` | `recover_password` |
| `UpdateUser`, `TakeMembers`, `Select`, `Count` | `update_user` with its advisory lock and its count of administrators |
| `Abort` | a failure before the commit, and what Postgres does to one side of a deadlock |

`sessions` (two administrators, three sessions, two recovery tokens, two requests, one revocation
per user; about two minutes) checks

- `RotatedOnce`: a refresh token has one successor although several requests may present it;
- `AcceptedIsCurrent`: an access token that is still accepted stands for a sign-in nobody ended. The
  code keeps the fact twice, as `auth_epoch` and as revoked sessions, and checks only the first;
- `HasAdministrator`: administrators who demote or disable each other at once leave one;
- `RecoveredOncePerToken`: a recovery token changes the password once;
- `RevocationIsComplete`: a revocation leaves no session open, also none that a sign-in or a rotation
  was about to insert. The order rests on the lock that writing `last_authenticated_at` takes.

Two requests make every pair of operations overlap, and three sessions allow a rotation after a
rotation. Rows are not used twice, so the instance comes to rest: hence `CHECK_DEADLOCK FALSE`. Three things
the model shows and no property claims: a logout that overtakes a refresh is treated as the reuse of
a stolen token; two administrators who reissue at once may leave two open recovery tokens; requests
that lock a session and its user in opposite orders deadlock, and one of them is aborted.

## 8. Serving

`attempt[a]` is one HTTP request, which may carry an identifier that a retry repeats. `servable` is
the set of products that `eligible_meta` lets through, `lastGood` the list Redis remembers for one
shopper, `record` and `metered` the rows of `recommendation_records` and of the ledger.

| Action | In the code (`recommendations.py`, `serving/pipeline.py`, `serving/cache.py`) |
|---|---|
| `Arrive`, `Look` | the advisory lock of the identifier, the replay or its refusal |
| `Admit` | section 5, as one choice |
| `Filter` | retrieval and the eligibility filter, with any source failing or returning anything |
| `Remember`, `TopUp` | a short answer filled from the last-good list, which is filtered again |
| `Fallback`, `Recheck` | popular products, and the second look-up that rules make necessary |
| `Store`, `RecordAnswer` | the cache, then one commit of record, results, telemetry and ledger |
| `Fail`, `RecordFailure` | an exception of the pipeline, the rollback, the row with outcome `error` |
| `Withdraw`, `Offer`, `Forget`, `Leave` | catalogue changes, expiry, the death of a process or the end of a client |

`serving` (two requests, one shared identifier, two products, three inputs; 1.3 million states)
checks `AnswersWereServable` against the products servable since the request arrived (a history
variable), `AnswerIsRecorded` and `MeteredOnce`. Two products make a list short, full or stale, and a
second request under the same identifier is what the lock and the replay are for. `serving_errors`
(one request) expects a violation; it is in section 12. Not modelled: scores and the order of
items; reranking, which drops none of them; the rows of identifiers that nobody reuses.

## 9. Ingestion

`call[c]` is a submission in progress: single event, batch, catalogue sync, product update or
feedback. The stages are the points between which another transaction can commit: waiting for
`lock_dimension`, reading what is stored, `require_capacity` (which reads the clock by itself), the
clock of the handler, the inserts and the commit. `events`, `customers`, `products` and `ledger` are
the tables, `row` the rows of `event_batches`, `catalog_syncs` and feedback with their keys.

| Action | In the code (`events/service.py`, `catalog/service.py`, `feedback.py`, `customers.py`) |
|---|---|
| `Submit`, `Lock` | the request, `lock_dimension` |
| `ReadEvent`, `ReadBatch`, `ReadSync`, `ReadProduct`, `ReadFeedback` | the replay of a key, duplicates within the call and in the table, references |
| `Check`, `Stamp` | `require_capacity`; a batch reads its time after that, an event before |
| `InsertFeedback` | `INSERT ... ON CONFLICT DO NOTHING`, which waits for the other insert, and the second comparison |
| `Commit`, `Leave` | the rows with their unique indexes, with or without an answer; a client or process that is gone |
| `MonthTurns` | the calendar |

`ingestion` (two calls, ten submissions that repeat events and keys, limits of two events and one
product, two months; 512 thousand states) checks `CountedOnce`, `MonthlyLimitHolds`, `ReplaysAgree`
and `KeepsBooks`: the tables change only as `EventBooks` says. There a step accepts new events of one
month, lists their shoppers, adds exactly as many to that month's meter and leaves at most one new receipt,
which says which events were stored and which products are new, all at once; it lists products
within their limit; and nothing is ever taken back or moved to another month. The refinement is
direct: `entry` are the events, `meter` the ledger, `shoppers` the customers, `catalogue` the products,
`receipt` the rows a retry of a key is answered from.
`CustomersInteracted` is a theorem and not checked again.

A month may exceed its limit by one event, and the property says so: the time of a
single event is read before `require_capacity` reads its own (`events/service.py:25`,
`limits.py:61`), so an event stamped at the end of one month can be checked against the next. The
limits are constant here, since `PlanChanges` changes them. What feedback refers to may be missing
or not, as a choice. Product attributes and disabling are left to `Serving` as changes of
`servable`.

## 10. Retraining

`policy` is the row of `retraining_policies`, `job` the latest row of `training_jobs`, `used` the
request identifiers of the jobs the scheduler asked for, `fresh` the events since the latest job,
`scheduler[s]` a process of `scheduler.py`. Time is the number of the slot.

| Action | In the code (`scheduler.py`, `retraining/service.py`) |
|---|---|
| `Lead`, `Tick` | the advisory lock, the loop |
| `Evaluate` | `evaluate` up to its trigger, with the policy locked `FOR UPDATE` |
| `Create` | `create_training_job`, whose commit is the commit of the advanced slot |
| `RecordRefusal`, `RecordJob` | the second transaction, which advances again what a rollback undid |
| `Fail`, `Crash`, `LoseGuard` | a failing statement, a dead process, a dead guard connection |
| `UpdatePolicy`, `RequestJob`, `EndJob`, `Cool`, `AcceptEvent`, `TimePasses` | administrators, people, the queue, the cooldown, ingestion, time |

`retraining` (two schedulers, two intervals, two jobs, three slots, one disruption; 1.1 million
states, under two minutes) checks

- `AsksOncePerSlot`: no evaluation asks for a slot or a condition that has started a job, so the
  replay branch of `create_training_job` is never reached from here;
- `ScheduledJobsAreDue` and `EventJobsNeedEvents`: the condition still holds when the job is
  created, whatever an administrator or a person's job did since it was read;
- `DueSlotsPass`: a due slot passes, under weak fairness of each scheduler's work.

Fairness is justified by the loop, which sleeps for at most one tick and catches every exception,
and by the restart policy of the container. `DueSlotsPass` needs the second scheduler: with a single
one, a lost guard connection ends the work for good, as in the worker (`scheduler.py:100`). Two
assumptions come from configuration: placeholder training, which has no cooldown, is refused in
production; and the cooldown (`training_cooldown_seconds`) is positive and no evaluation outlasts
it, which is the guard of `Cool`. The fields of a policy that only report its last outcome are left
out. Every state allows another edit, so the run cannot stop.

## 11. Console

One tab of the web console (`src/web/src`). It has one thread, so an action is what happens between
two `await`s: a user's act, a timer, or an answer with everything the code does in the same turn of
the event loop. A session is a token pair, named by its number, and `pair` also carries what the
server knows of it. Of the data a page shows only its age counts: `data` numbers the writes, and a
read returns the number of the last.

| Variable | In the code |
|---|---|
| `held`, `due` | `tenantCache` (`auth/session.ts:68-96`), `needsRefresh` (`api/client.ts:75-82`) |
| `renewal` | `refreshing`, the one call of `/v1/auth/refresh` in flight (`client.ts:84-103`) |
| `ask[a]` | a call of `request`: `sentWith`, whether it was repeated, whose fetch it awaits |
| `reads` | `pendingReads`: the reads that are shared (`client.ts:105-121`) |
| `hook` | `useResource` in the page shown: the session rendered, the run awaited, the data |
| `reported` | history: the latest write whose success the tab saw |

| Action | In the code |
|---|---|
| `Submit`, `Reread`, `Render` | a form, `reload` or a poll, a changed session: each ends in `send` |
| `Resume` | `request` after the renewal it awaited |
| `ReadSucceeds`, `WriteSucceeds`, `SessionChanged`, `TokenExpired`, `Unauthorized`, `Fail` | the branches of `performRequest` and `request` when an answer arrives |
| `RenewalSucceeds`, `RenewalRefused`, `RenewalFails` | the answer of a renewal, for all who await it |
| `setTenantSession`, `signOutTenant`, `Unmount`, `Reload` | the pages for signing in, the user, navigation, the browser |
| `Serve`, `ServeRenewal`, `Age` | the server (`principal.py`, section 7 as one step) and time |

`console` (two accounts, two calls, three token pairs, one write told apart; 5.4 million states, two
minutes) checks

- `ShownIsOwn`: a page never shows data read with another account's session, whatever was in flight
  or shared when the session changed;
- `ReadsYourWrites`: a page that has loaded shows every write that was reported as successful,
  although an older read may be shared or arrive later;
- `WritesOnce`: a submission takes effect once, although a call is repeated when its token expired;
- `RefreshedOnce`: a refresh token is presented once, except after an answer that the tab missed;
- `SessionSurvives` (an action property): a session the server would renew is given up only by
  signing out, or by the answer to a renewal of a different session.

Two calls are one that is shared or overtaken and one that does it; three pairs allow a renewal
and a sign-in, in either order; a write that is told from none is what a stale read can miss. The
theorems have no such bounds. Nothing is promised about progress, so there is no fairness.

Reading the code for this module showed three things that `SessionSurvives` exempts or that no
property claims. `refreshTenantSession` does not look which session is held when its answer arrives:
a renewal that was in flight at a sign-out signs in again, and one in flight at a new sign-in
replaces or ends the newer session. A renewal during a write makes the write's success a
`session_changed` error, and then the reads in flight are not forgotten. `CredentialsPage` writes
rows into the data of a list that may still be loading, which then drops them. And the Python
SDK's comment that "The API has no refresh endpoint" (`sdks/python/src/graphrec_sdk/_auth.py:10`) is
out of date.

## 12. What the runs find

Three runs each check one property the documentation or a comment states, and TLC violates it:

| Run | Property | What happens |
|---|---|---|
| `guard_wedge` | `AcceptedWorkEnds` | after its guard connection died the worker polls for ever without claiming, and nothing restarts it |
| `admission_seed` | `CounterIsSeeded` | a refund that meets no counter creates it at -1, so the ledger is never read for it |
| `serving_errors` | `FailuresAreRecorded` | the rollback of a failed request ends the transaction that `set_config` made the tenant's, so row-level security refuses the error row |

The quotations and lines are under `findings` in `PROJECT.json`. `guard_wedge` is checked under the
fairness of section 3: the worker stays up and keeps all its promises of scheduling, and the job
waits nevertheless. Where a property of a passing run exempts a situation (`mishaps`, `overtaken`,
`lapses`, `notes`, the one event of section 9), its section says which behaviour of the code that is.

## 13. What is proved

All theorems are for arbitrary sets and bounds, from the one named assumption of each module
(markers are not members, limits are natural numbers, inputs are what the interface lets through,
some sets are finite). TLC
evaluates the assumptions in every run.

### TrainingQueueProofs

The properties of section 3 are not inductive by themselves. `IInv` joins the types, `GuardInv` (only
the holder of the lock works on a job, as long as no guard connection was dropped) and, while no
mishap has happened, `CalmInv`, whose parts are `RowsInv` (job rows and versions), `DirectoryInv`
(files) and `HolderInv` (the worker's local state against its job): the job a worker holds is running and has no version; a running job
that nobody holds can only be recovered; what `finish_failed_job` read is still so, except that a
cancellation may have been added; the row locked by the last transaction is not cancelled. That an
unlocked read may be written back safely (`Outcome`) rests on the lock: nobody else changes a
running job except to set its `cancel` flag. `TypeCorrect`, `NeverTwoActiveJobs`,
`NeverTooManyAttempts`, `VersionsMatchOutcomes`, `CancellationWins`, `VersionsKeepTheirFiles` and
`OneTrainerUnderTheLock` follow.

`LimitsAreKept` adds `LimitInv`: while a version is about to be committed, under the lock of the
tenant's quota, it still fits. Every step leaves the sets of charged jobs and of retained versions
as they are, smaller, or larger by one that the step has checked (`CountsNoMore`, `Counts`).

`ImplementsContract`, at the end of the module: the initial state maps to the contract's, and every step, by that invariant,
to a step or a stutter of it.

### ModelRegistryProofs

`IInv` says that only the holder of the lifecycle lock is past its checks (`LockInv`), and that what
it read under the lock still holds (`HolderInv`), except for the capacity: there, what it read is
what was desired then, and `Flush` writes only what it changed, which is why no decision of the
controller is undone. `OrderInv` carries the rollback target: the predecessor has the latest time
of all versions that are not active, as long as activations committed in the order of their times.
`ImplementsLifecycle` uses `HolderInv` at each commit: what was checked under the lock (`Refuses`, the
collection, the rollback target) still holds of the tables that are written. `ActivationWrites` and
`RejectionWrites` say what that is, through `Flush`; every other step is an operation by itself or
changes no table (`LifecycleStep`). Theorems: `RegistryTypes`, `AtMostOneActive`, `DeploymentNamesTheActive`, `CapacityIsNotLost`,
`TheServedIsIndexed`, `RollbackTargetIsKept`, `ServingIsKept`, `ImplementsLifecycle`.

### AdmissionProofs

- `OpenCircuitsAreProbed` is inductive with the types; `HandleCircuit` reduces all of a request's
  steps to leaving the circuits alone or tripping one.
- `LocalSlotsAreAccounted`: every step of a request keeps the set of holders and the counts
  (`SlotsKept`), adds one holder and one slot (`SlotTaken`) or removes one of each (`SlotReturned`);
  the theorems on finite cardinality do the rest. The `max(0, ...)` of `release` never matters,
  because a holder is counted.
- `SharedSlotsAreAccounted` needs `CalmInv`: without a disruption no circuit is open and every
  command is answered.
- `TheQuotaHolds` needs `ChargeInv` (quota is held from its taking to the end of serving) and
  `QuotaInv`: the counter is at least the number of charged requests, and there are none when it
  does not exist. A seed can therefore not be too small, whenever it was read.

### PlanChangesProofs

`IInv` adds to the types and the properties `LockInv` (how far an operation is fixes its kind; a
locked request is pending and locked once; a quota row has one writer; an edit of a plan excludes
other edits and moves to it, so that the subscribers it found are all there are), `GuardInv` (what
`_guard_below_usage` found stays true of what will be committed: the rows it looked at are locked,
and nobody can join them) and `StoreInv` (one upload per dimension, within the limit it read).
`OperatorRecords` reduces the steps of an operator to starting, proceeding and ending, and
`NewLocks` to the locks they take; each conjunct of the invariant then has one lemma for its step.
`DecideInv` ties an operation that decides a request to it: what it will assign is what was asked for,
by whoever asked; with `RequestInv` (what is locked is pending) it gives `DecidedOnce`.
Theorems: `PlanTypes`, `OneRequestPending`, `RequestsDecidedOnce`, `QuotasFollowPlans`,
`LimitsAreKept`.

### SessionsProofs

`StepMoves` reduces a step of a request to ending (with or without a commit), beginning (`Fresh`,
nothing is held yet) or proceeding to its next statement (`Proceeds`, one more lock or read). `IInv`
adds to the types and the state properties

- `AllShaped` and `LockInv`: a phase fixes what a request carries, and a row, like the advisory lock
  of the members, has one holder;
- `Families` and `RowsInv`: a session has one successor and is revoked when it has one; successors
  share their user, and no session is ahead of its user's epoch;
- `Held`: what a request read stays true until it commits. A rotation that meets an open session has
  its user's current role and epoch (`RotationHeld`), since whoever changes them revokes the session
  first; the epoch of a sign-in is at most the current one (`EpochHeld`); what a revocation found is
  all there is (`ScanHeld`), because a session is inserted under the user's row lock; tokens stay
  open once locked (`TokenHeld`); whoever takes an administrator away has seen another one, who stays
  while the advisory lock is held (`CountHeld`).

Theorems: `SessionTypes`, `TokensRotateOnce`, `AcceptedTokensAreCurrent`, `AnAdministratorStays`,
`TokensRecoverOnce`, `RevocationsAreComplete`.

The second part of the module is about `Console`. `ConsoleInv` adds to the types

- `TokensInv` (`PairsInv`, `RenewalInv`, `PresentedInv`): the token of the session held has not been
  presented unless its renewal is in flight, and a renewal that was answered brings a pair that
  nobody has used yet, or was refused for a token that is not good;
- `CallsInv` (`AskInv`, `ReadsInv`, `RecentInv`): who shares a fetch was sent with the session of its
  owner, which is still under way, and so is every registered read; a call the server served is not
  sent again. A read that is registered, or that the page awaits, was not answered before the latest
  write that was reported, which is why a write clears `pendingReads` before the page loads again;
- `RevokedInv`: a call is rejected only for a revoked pair, and by `PairsInv` the refresh token of that
  is revoked too, so that nothing is given up that could be renewed;
- `HookInv`: a page that is rendered for the session held shows data of that session, at least as
  recent as the latest write reported once it has loaded.

Theorems: `ConsoleTypes`, `PagesShowTheirOwn`, `PagesShowWrites`, `WritesTakeEffectOnce`,
`TokensArePresentedOnce`, `SessionsSurvive`.

### ServingProofs

`IInv` adds to the types and the properties `AttemptInv` (what a request has picked or remembered was
servable since it arrived and is not excluded), `LockInv` (one request per identifier is past its
look-up, and nothing is stored under the identifier yet) and `RecordInv` (a stored
answer respects the exclusions of its input, which is why a replay does). Theorems:
`OnlyServableIsServed`, `AnswersAreRecorded`, `MeteredOncePerIdentifier`.

### IngestionProofs

`HandleMoves` reduces every step of a call to nine moves of its stage and `DataMoves` says that only
a commit changes tables. `IInv` adds to the types and the properties

- `CallsSound`: only events are accepted, only products are created, and an event of a batch is
  accepted in one place, from which `CountedOnce` follows by counting: the rows a commit adds
  are disjoint from those of the month, and as many as it charges;
- `Stamped`: the month of an event has begun;
- `OneMeters`: of all calls that meter events one is past the lock;
- `LimitInv`: what a call that passed the check is going to charge still fits, because nobody else
  charges while it holds the lock; a single event stamped in an earlier month may exceed it by one.

- `ListInv`: of all calls that list products one is past the lock; what such a call is going to create
  is still not in the catalogue when it commits, and fits its limit.

Theorems: `IngestionTypes`, `EventsAreCountedOnce`, `TheMonthlyLimitHolds`,
`KeysStandForOneContent`, `CustomersHaveInteracted`, and the refinement `ImplementsBooks`. For the
latter every step but a commit and the turn of the month is a stutter (`BooksStep`). A commit is a step
of the books (`BooksCommit`), and its parts are what the invariant is for: `LimitInv` and `BooksCount`
give the meter (the rows added are as many as the call charges), `ListInv` the catalogue, and
`CallsSound` with `CreatedAreNew` that the receipt tells the truth.

### RetrainingProofs

`IInv` adds to the types `OneHolder` (one scheduler has the policy's row), `Clocked` (no evaluation
is ahead of time), `SlotHeld` and `EventsHeld` (what the holder read is still so when it creates its
job), `SlotsUsed` (slots that started a job lie before the next one) and `EventsUsed` (so do the
jobs that events followed). `SlotHeld` rests on the row lock that is held from the decision to the
commit; `EventsHeld` on the cooldown, which refuses a second job. Theorems: `RetrainingTypes`,
`SlotsAreAskedOnce`, `ScheduledJobsAreDueAlways`, `EventJobsNeedEventsAlways`.

### Only model-checked

Liveness (`Settles`, `AcceptedWorkEnds`, `DueSlotsPass`), which the prover does not reach under
fairness, and the three violations, which are single behaviours.

## 14. What is left out

- The replay of a `request_id` and the cooldown of a training request: they refuse and change nothing.
- The comparison of a finished model with the active one: it never fails a job.
- Storage quotas and the import of versions from a directory; an import is `RegisterVersion`.
- The archive of the active version is excluded in `TrainingQueue`, since the registry refuses it.
- Row-level security: every statement is taken to see the rows of its tenant.
- The rate window, login windows, the status endpoint's ping, and the turn of the month in `Admission`.
- Numbers: scores, losses, vectors, usage summaries.
- In `PlanChanges`: creating plans, deleting tenants, the audit records, and the cleanup of storage.
- The directory of a job that `claim_training_job` itself ends as failed stays behind. The model shows
  it (`Claim` leaves `directories` alone), but nothing is promised about it, so no property is about it.
- Liveness of the breaker (that it closes): `OpenIsProbed` is the safety half.
- In `Sessions`: invitations (a recovery token by another name), `MAX_USERS`, which is counted without a
  lock, login throttling, and expiry, which a client cannot tell from never presenting a token.
- In `Serving` and `Ingestion`: scores, rules, the order of items, product attributes, and the deletion of
  customers and categories.
- The components marked `not_modelled` in `PROJECT.json`.
- In `Console`: the realm of platform operators, which has no renewal; what forms and pages compute
  from their data, `setData`, the messages of errors, and routing beyond mounting and unmounting a page.
- The larger part of the repository by lines: the console's pages, its generated API types and
  documentation data, the storefronts and the SDK keep no state that two steps could disagree about.

## 15. Plan

The modules planned are written: `TrainingQueue` with its contract, `ModelRegistry` with its lifecycle,
`Admission`, `PlanChanges`, `Sessions`, `Serving`, `Ingestion` with its books, `Retraining`, `Console`;
every safety property that a passing run checks is also a theorem. What could follow:

1. Further abstract specifications with their refinements: of `PlanChanges` (requests decided in one
   step, limits that follow from plans) and of what `Serving` answers and records.
2. API keys and registration: one transaction per operation, guarded by a row lock or a unique index, so
   little is left to interleave.

--------------------------- MODULE TrainingQueue ---------------------------
(***************************************************************************)
(* The durable training queue: the training_jobs table, the tenant's       *)
(* request and cancel operations, the SQL function claim_training_job and  *)
(* the worker process that trains, registers a model version and records   *)
(* the outcome.                                                            *)
(*                                                                         *)
(* One action is one database transaction, or one step of the worker       *)
(* between two transactions.  Time is abstracted: a heartbeat is fresh,    *)
(* stale (older than five minutes) or none (NULL), and may age at any      *)
(* moment.  The ledger month is one period.                                *)
(***************************************************************************)
EXTENDS Integers, FiniteSets

CONSTANTS
    Tenants,          \* the tenants that may train
    Workers,          \* worker processes, running or not
    NoTenant,         \* the owner of a row that does not exist yet
    NoWorker,         \* nobody holds the trainer's advisory lock
    MaxJobs,          \* bound: rows of training_jobs ever created
    MaxAttempts,      \* worker.MAX_ATTEMPTS, and the literal 2 of the SQL
    JobLimit,         \* the plan's training_jobs limit for the month
    VersionLimit,     \* the plan's active_model_versions limit
    MaxDisruptions    \* bound: crashes, signals and failing dependencies

ASSUME ConstantsOK ==
    /\ NoTenant \notin Tenants
    /\ NoWorker \notin Workers
    /\ MaxJobs \in Nat
    /\ MaxAttempts \in Nat \ {0}
    /\ JobLimit \in Nat
    /\ VersionLimit \in Nat
    /\ MaxDisruptions \in Nat

VARIABLES
    job,          \* [Jobs -> row]; ids are handed out in created_at order
    directories,  \* jobs whose artifact directory exists on disk
    others,       \* retained versions that no queued job produced, per tenant
    enabled,      \* tenants whose status is 'active'
    guard,        \* the worker that owns pg_try_advisory_lock(714629381)
    worker,       \* [Workers -> process state]
    disruptions,  \* disruptions so far (bound)
    mishaps       \* history: which of the two mishaps below have happened

vars == <<job, directories, others, enabled, guard, worker, disruptions, mishaps>>

(* guard_dropped: the guard connection died under a live worker.            *)
(* ack_lost: a commit took effect and the worker saw an error.              *)
Mishaps == {"guard_dropped", "ack_lost"}

-----------------------------------------------------------------------------
Jobs == 1 .. MaxJobs
NoJob == 0

Active == {"queued", "running"}
Terminal == {"succeeded", "failed", "cancelled"}

Row == [tenant   : Tenants \cup {NoTenant},
        status   : {"none"} \cup Active \cup Terminal,
        attempts : Nat,
        cancel   : BOOLEAN,                       \* cancel_requested
        begun    : BOOLEAN,                       \* progress > 0
        beat     : {"none", "fresh", "stale"},    \* heartbeat_at
        version  : {"none", "retained", "archived"}]

NoRow == [tenant |-> NoTenant, status |-> "none", attempts |-> 0,
          cancel |-> FALSE, begun |-> FALSE, beat |-> "none",
          version |-> "none"]

(* Where a worker is: polling; holding a claimed job; inside train_job;     *)
(* before its last transaction; with the item index written and the commit  *)
(* pending; with an exception on its way to finish_failed_job; inside it.   *)
Phases == {"down", "idle", "claimed", "training", "trained", "committing",
           "raised", "cleaned"}
Busy == Phases \ {"down", "idle"}

Reasons == {"none", "cancelled", "shutdown", "transient", "permanent"}

Process == [pc   : Phases,
            job  : Jobs \cup {NoJob},
            why  : Reasons,                \* the class of the exception
            seen : Row,                    \* the row as finish_failed_job read it
            stop : BOOLEAN]                \* the STOP event

Off == [pc |-> "down", job |-> NoJob, why |-> "none", seen |-> NoRow, stop |-> FALSE]

TypeOK ==
    /\ job \in [Jobs -> Row]
    /\ directories \subseteq Jobs
    /\ others \in [Tenants -> Nat]
    /\ enabled \subseteq Tenants
    /\ guard \in Workers \cup {NoWorker}
    /\ worker \in [Workers -> Process]
    /\ disruptions \in 0 .. MaxDisruptions
    /\ mishaps \subseteq Mishaps

-----------------------------------------------------------------------------
(* A comment "slip" marks a plausible mistake in the definition that        *)
(* follows it.  No action uses one: substituted for that definition, it     *)
(* breaks a property below, which shows what the property is good for.      *)

(* The final transaction of train_job keeps the job row locked, and the     *)
(* tenant's quota locks, from its checks until its commit.                  *)
RowLocked(j) == \E w \in Workers : worker[w].pc = "committing" /\ worker[w].job = j

VersionsNeverLocked(t) == FALSE    \* slip: require_capacity without its lock

VersionsLocked(t) ==
    \E w \in Workers : worker[w].pc = "committing" /\ job[worker[w].job].tenant = t

JobsOf(t) == {j \in Jobs : job[j].tenant = t}

Retained(t) ==
    others[t] + Cardinality({j \in JobsOf(t) : job[j].version = "retained"})

(* Cancelled while still queued: the append-only ledger is credited back.   *)
Credited(j) ==
    job[j].status = "cancelled" /\ ~job[j].begun /\ job[j].attempts = 0

Charged(t) == Cardinality({j \in JobsOf(t) : ~Credited(j)})

HasActive(t) == \E j \in JobsOf(t) : job[j].status \in Active

SetJob(j, row) == job' = [job EXCEPT ![j] = row]

SetWorker(w, state) == worker' = [worker EXCEPT ![w] = state]

Disrupt ==
    /\ disruptions < MaxDisruptions
    /\ disruptions' = disruptions + 1

-----------------------------------------------------------------------------
(* Tenant operations.                                                       *)

(* create_training_job with mode train.  The tenant's advisory lock makes   *)
(* the checks and the insert one step for two requests of one tenant.       *)
(* A replayed request_id returns the earlier row and changes nothing; the   *)
(* cooldown only delays the request, so it is not a guard here.             *)
RequestTraining(t) ==
    /\ t \in enabled
    /\ ~VersionsLocked(t)
    /\ Charged(t) + 1 <= JobLimit
    /\ Retained(t) + 1 <= VersionLimit
    /\ ~HasActive(t)
    /\ \E j \in Jobs :
          /\ job[j].status = "none"
          /\ \A i \in 1 .. (j - 1) : job[i].status # "none"
          /\ SetJob(j, [NoRow EXCEPT !.tenant = t, !.status = "queued"])
    /\ UNCHANGED <<directories, others, enabled, guard, worker, disruptions, mishaps>>

CancelAtOnce(j) ==                 \* slip: a running job is cancelled in place
    /\ job[j].tenant \in enabled
    /\ job[j].status \in Active
    /\ ~RowLocked(j)
    /\ SetJob(j, [job[j] EXCEPT !.cancel = TRUE, !.status = "cancelled"])
    /\ UNCHANGED <<directories, others, enabled, guard, worker, disruptions, mishaps>>

(* cancel_training: SELECT ... FOR UPDATE, so it waits for a worker that is *)
(* about to commit.  A running job is only marked.                          *)
CancelTraining(j) ==
    /\ job[j].tenant \in enabled
    /\ job[j].status \in Active
    /\ ~RowLocked(j)
    /\ SetJob(j, [job[j] EXCEPT !.cancel = TRUE,
                                !.status = IF @ = "queued" THEN "cancelled" ELSE @])
    /\ UNCHANGED <<directories, others, enabled, guard, worker, disruptions, mishaps>>

(* Versions the queue did not produce: register_model_version and the       *)
(* development placeholder, under the same quota lock.                      *)
RegisterVersion(t) ==
    /\ t \in enabled
    /\ ~VersionsLocked(t)
    /\ Retained(t) + 1 <= VersionLimit
    /\ others' = [others EXCEPT ![t] = @ + 1]
    /\ UNCHANGED <<job, directories, enabled, guard, worker, disruptions, mishaps>>

(* archive_model_version frees a retained place and keeps the directory.    *)
ArchiveVersion(t) ==
    /\ t \in enabled
    /\ \/ /\ others[t] > 0
          /\ others' = [others EXCEPT ![t] = @ - 1]
          /\ UNCHANGED job
       \/ /\ \E j \in JobsOf(t) :
                /\ job[j].version = "retained"
                /\ SetJob(j, [job[j] EXCEPT !.version = "archived"])
          /\ UNCHANGED others
    /\ UNCHANGED <<directories, enabled, guard, worker, disruptions, mishaps>>

(* The platform suspends or reactivates a tenant.                           *)
SetTenantStatus(t) ==
    /\ enabled' = IF t \in enabled THEN enabled \ {t} ELSE enabled \cup {t}
    /\ UNCHANGED <<job, directories, others, guard, worker, disruptions, mishaps>>

Tenant == \E t \in Tenants :
    \/ RequestTraining(t) \/ RegisterVersion(t) \/ ArchiveVersion(t)
    \/ SetTenantStatus(t)

-----------------------------------------------------------------------------
(* claim_training_job: two UPDATEs in one transaction.                      *)

StaleRow(j) == job[j].beat = "stale"   \* slip: finished rows are recovered too

NeverInterrupted(j) == FALSE           \* slip: a NULL in the heartbeat comparison

Interrupted(j) == job[j].status = "running" /\ job[j].beat = "stale"

(* The first UPDATE hands interrupted jobs back, or fails them.             *)
Recovered ==
    [j \in Jobs |->
        IF Interrupted(j)
        THEN [job[j] EXCEPT
                !.status = IF job[j].attempts < MaxAttempts THEN "queued" ELSE "failed"]
        ELSE job[j]]

(* SKIP LOCKED: a row that a worker is about to commit is not waited for.   *)
Claimable(rows) ==
    {j \in Jobs : /\ rows[j].status = "queued"
                  /\ rows[j].tenant \in enabled
                  /\ ~RowLocked(j)}

Started(j) == [job[j] EXCEPT !.status = "running", !.beat = "fresh", !.attempts = @ + 1]

(* The second UPDATE takes the oldest queued job of an active tenant.       *)
Claim(w) ==
    /\ worker[w].pc = "idle"
    /\ ~worker[w].stop
    /\ guard = w                     \* SELECT 1 on the guard connection
    /\ \A j \in Jobs : Interrupted(j) => ~RowLocked(j)
    /\ \/ /\ Claimable(Recovered) = {}
          /\ job' = Recovered
          /\ UNCHANGED worker
       \/ \E j \in Claimable(Recovered) :
             /\ \A i \in Claimable(Recovered) : j <= i
             /\ job' = [Recovered EXCEPT ![j] = Started(j)]
             /\ SetWorker(w, [worker[w] EXCEPT !.pc = "claimed", !.job = j])
    /\ UNCHANGED <<directories, others, enabled, guard, disruptions, mishaps>>

-----------------------------------------------------------------------------
(* The worker process.                                                      *)

StartUnlocked(w) ==                    \* slip: the lock's answer is ignored
    /\ worker[w].pc = "down"
    /\ guard' = w
    /\ SetWorker(w, [Off EXCEPT !.pc = "idle"])
    /\ UNCHANGED <<job, directories, others, enabled, disruptions, mishaps>>

(* main: a second worker finds the lock taken and exits at once.            *)
StartWorker(w) ==
    /\ worker[w].pc = "down"
    /\ guard = NoWorker
    /\ guard' = w
    /\ SetWorker(w, [Off EXCEPT !.pc = "idle"])
    /\ UNCHANGED <<job, directories, others, enabled, disruptions, mishaps>>

(* SIGTERM or SIGINT only sets the STOP event.                              *)
SignalStop(w) ==
    /\ worker[w].pc # "down"
    /\ ~worker[w].stop
    /\ Disrupt
    /\ SetWorker(w, [worker[w] EXCEPT !.stop = TRUE])
    /\ UNCHANGED <<job, directories, others, enabled, guard, mishaps>>

Exit(w) ==
    /\ worker[w].pc = "idle"
    /\ worker[w].stop
    /\ SetWorker(w, Off)
    /\ guard' = IF guard = w THEN NoWorker ELSE guard
    /\ UNCHANGED <<job, directories, others, enabled, disruptions, mishaps>>

(* Killed at any point: Postgres rolls back and releases the lock.          *)
Crash(w) ==
    /\ worker[w].pc # "down"
    /\ Disrupt
    /\ SetWorker(w, Off)
    /\ guard' = IF guard = w THEN NoWorker ELSE guard
    /\ UNCHANGED <<job, directories, others, enabled, mishaps>>

(* Only the guard connection dies: the lock is free and the worker lives.   *)
(* Its next SELECT 1 raises, and goes on raising: it claims no more.        *)
DropGuard(w) ==
    /\ guard = w
    /\ Disrupt
    /\ guard' = NoWorker
    /\ mishaps' = mishaps \cup {"guard_dropped"}
    /\ UNCHANGED <<job, directories, others, enabled, worker>>

Heartbeat(j) ==                      \* five minutes pass without a pulse
    /\ job[j].status = "running"
    /\ job[j].beat = "fresh"
    /\ SetJob(j, [job[j] EXCEPT !.beat = "stale"])
    /\ UNCHANGED <<directories, others, enabled, guard, worker, disruptions, mishaps>>

Goto(w, pc) == SetWorker(w, [worker[w] EXCEPT !.pc = pc])

Raise(w, reason) == SetWorker(w, [worker[w] EXCEPT !.pc = "raised", !.why = reason])

(* train_job creates the job's directory and writes the training data.      *)
Prepare(w) ==
    /\ worker[w].pc = "claimed"
    /\ directories' = directories \cup {worker[w].job}
    /\ Goto(w, "training")
    /\ UNCHANGED <<job, others, enabled, guard, disruptions, mishaps>>

(* pulse: STOP first, then cancel_requested, then the heartbeat.            *)
PulseStops(w) ==
    /\ worker[w].pc = "training"
    /\ \/ worker[w].stop /\ Raise(w, "shutdown")
       \/ ~worker[w].stop /\ job[worker[w].job].cancel /\ Raise(w, "cancelled")
    /\ UNCHANGED <<job, directories, others, enabled, guard, disruptions, mishaps>>

Pulse(w) ==
    /\ worker[w].pc = "training"
    /\ ~worker[w].stop
    /\ ~job[worker[w].job].cancel
    /\ ~RowLocked(worker[w].job)
    /\ SetJob(worker[w].job, [job[worker[w].job] EXCEPT !.beat = "fresh", !.begun = TRUE])
    /\ \/ UNCHANGED worker            \* more to do
       \/ Goto(w, "trained")          \* the last pulse
    /\ UNCHANGED <<directories, others, enabled, guard, disruptions, mishaps>>

(* Invalid data, a non-finite loss, the time budget: never retried.         *)
TrainingFails(w) ==
    /\ worker[w].pc \in {"claimed", "training", "trained"}
    /\ Raise(w, "permanent")
    /\ UNCHANGED <<job, directories, others, enabled, guard, disruptions, mishaps>>

(* The database or Qdrant is unreachable for a moment.                      *)
DependencyFails(w) ==
    /\ worker[w].pc \in {"claimed", "training", "trained", "committing"}
    /\ Disrupt
    /\ Raise(w, "transient")
    /\ UNCHANGED <<job, directories, others, enabled, guard, mishaps>>

(* The last transaction: lock the row, look at cancel_requested again,      *)
(* check the quotas under their locks, write the item index.                *)
Register(w) ==
    LET j == worker[w].job
        t == job[j].tenant
    IN  /\ worker[w].pc = "trained"
        /\ ~RowLocked(j)
        /\ \/ job[j].cancel /\ Raise(w, "cancelled")
           \/ /\ ~job[j].cancel
              /\ ~VersionsLocked(t)
              /\ \/ Retained(t) + 1 > VersionLimit /\ Raise(w, "permanent")
                 \/ /\ Retained(t) + 1 <= VersionLimit
                    /\ Goto(w, "committing")
        /\ UNCHANGED <<job, directories, others, enabled, guard, disruptions, mishaps>>

Succeeded(j) ==
    [job[j] EXCEPT !.status = "succeeded", !.version = "retained", !.begun = TRUE]

Freed(w) == [Off EXCEPT !.pc = "idle", !.stop = worker[w].stop]

(* The version tag is trained-<job>, unique for the tenant: a job that has  *)
(* registered a version before gets an IntegrityError, which is final.      *)
Commit(w) ==
    LET j == worker[w].job
    IN  /\ worker[w].pc = "committing"
        /\ \/ /\ job[j].version # "none"
              /\ Raise(w, "permanent")
              /\ UNCHANGED <<job, disruptions, mishaps>>
           \/ /\ job[j].version = "none"
              /\ SetJob(j, Succeeded(j))
              /\ SetWorker(w, Freed(w))
              /\ UNCHANGED <<disruptions, mishaps>>
           \/ /\ job[j].version = "none"   \* committed, and still an error
              /\ SetJob(j, Succeeded(j))
              /\ mishaps' = mishaps \cup {"ack_lost"}
              /\ Raise(w, "transient")
              /\ Disrupt
        /\ UNCHANGED <<directories, others, enabled, guard>>

(* finish_failed_job: remove the directory, then read the row unlocked.     *)
Cleanup(w) ==
    /\ worker[w].pc = "raised"
    /\ directories' = directories \ {worker[w].job}
    /\ SetWorker(w, [worker[w] EXCEPT !.pc = "cleaned",
                                      !.seen = job[worker[w].job]])
    /\ UNCHANGED <<job, others, enabled, guard, disruptions, mishaps>>

(* What it decides, from the row as it was read.                            *)
Decided(w) ==
    LET read == worker[w].seen
        why  == worker[w].why
    IN  CASE why = "shutdown" ->
               [read EXCEPT !.status = "queued", !.beat = "none",
                            !.attempts = IF @ = 0 THEN 0 ELSE @ - 1]
          [] why = "transient" /\ read.attempts < MaxAttempts ->
               [read EXCEPT !.status = "queued", !.beat = "none"]
          [] why = "cancelled" -> [read EXCEPT !.status = "cancelled"]
          [] OTHER -> [read EXCEPT !.status = "failed"]

(* Its UPDATE has no condition on the status, and names only the columns    *)
(* whose new value is not the one that was read.                            *)
Flush(read, new, stored) == IF new = read THEN stored ELSE new

Outcome(w) ==
    LET read == worker[w].seen
        new  == Decided(w)
    IN  [job[worker[w].job] EXCEPT
            !.status = Flush(read.status, new.status, @),
            !.attempts = Flush(read.attempts, new.attempts, @),
            !.beat = Flush(read.beat, new.beat, @)]

FinishFailed(w) ==
    /\ worker[w].pc = "cleaned"
    /\ ~RowLocked(worker[w].job)
    /\ SetJob(worker[w].job, Outcome(w))
    /\ SetWorker(w, Freed(w))
    /\ UNCHANGED <<directories, others, enabled, guard, disruptions, mishaps>>

(* The database is down when the outcome is written: the exception reaches  *)
(* main's handler and the job stays running until its heartbeat is stale.   *)
FinishLost(w) ==
    /\ worker[w].pc = "cleaned"
    /\ Disrupt
    /\ SetWorker(w, Freed(w))
    /\ UNCHANGED <<job, directories, others, enabled, guard, mishaps>>

WorkerStep(w) ==
    \/ Claim(w) \/ Prepare(w) \/ PulseStops(w) \/ Pulse(w) \/ TrainingFails(w)
    \/ Register(w) \/ Commit(w) \/ Cleanup(w) \/ FinishFailed(w) \/ FinishLost(w)
    \/ DependencyFails(w) \/ StartWorker(w) \/ SignalStop(w) \/ Exit(w)
    \/ Crash(w) \/ DropGuard(w)

-----------------------------------------------------------------------------
Init ==
    /\ job = [j \in Jobs |-> NoRow]
    /\ directories = {}
    /\ others = [t \in Tenants |-> 0]
    /\ enabled = Tenants
    /\ guard = NoWorker
    /\ worker = [w \in Workers |-> Off]
    /\ disruptions = 0
    /\ mishaps = {}

Next ==
    \/ Tenant
    \/ \E j \in Jobs : CancelTraining(j) \/ Heartbeat(j)
    \/ \E w \in Workers : WorkerStep(w)

Spec == Init /\ [][Next]_vars

(* A worker process is restarted by its supervisor and keeps polling; a     *)
(* pulse that must stop training stops it; training ends within its budget  *)
(* of seconds; each later step of a worker is plain sequential code.  No    *)
(* tenant or operator is assumed to do anything, and nothing is assumed of  *)
(* signals, crashes or failing dependencies.                                *)
EndsTraining(w) == PulseStops(w) \/ TrainingFails(w) \/ (Pulse(w) /\ worker'[w].pc = "trained")

Fairness ==
    /\ \A w \in Workers :
          /\ WF_vars(Exit(w))
          /\ WF_vars(Prepare(w))
          /\ WF_vars(EndsTraining(w))
          /\ WF_vars(Register(w))
          /\ WF_vars(Commit(w))
          /\ WF_vars(Cleanup(w))
          /\ WF_vars(FinishFailed(w))
          /\ WF_vars(Claim(w))
    /\ WF_vars(\E w \in Workers : StartWorker(w))
    /\ \A j \in Jobs : WF_vars(Heartbeat(j))

FairSpec == Spec /\ Fairness

-----------------------------------------------------------------------------
Calm == mishaps = {}

(* BRULE-06: one queued or running job per tenant, however requests, the    *)
(* worker's retries and the recovery of interrupted jobs interleave, as     *)
(* long as the trainer's lock outlives its holder's work.                   *)
OneActiveJob ==
    Calm => \A i, j \in Jobs :
        /\ i # j
        /\ job[i].status \in Active
        /\ job[j].status \in Active
        => job[i].tenant # job[j].tenant

(* ER-NF-05: crashes, shutdowns (which give an attempt back) and retries    *)
(* together never start a job more than MaxAttempts times, because a job in *)
(* the queue always has an attempt left.                                    *)
AttemptsBounded ==
    Calm => \A j \in Jobs :
        /\ job[j].attempts <= MaxAttempts
        /\ job[j].status = "queued" => job[j].attempts < MaxAttempts

(* A job has a version exactly when it succeeded, although the worker       *)
(* decides the outcome in one transaction and records failures in another.  *)
VersionIffSucceeded ==
    Calm => \A j \in Jobs : (job[j].version # "none") <=> (job[j].status = "succeeded")

(* A cancellation that was accepted while the job ran is never followed by  *)
(* success, because the last transaction reads the flag under the row lock. *)
CancelledNeverSucceeds ==
    Calm => \A j \in Jobs : job[j].cancel => job[j].status # "succeeded"

(* A version that can be activated still has its files: no failure path of  *)
(* any attempt removes the directory of a registered version.               *)
RetainedHasDirectory ==
    Calm => \A j \in Jobs : job[j].version = "retained" => j \in directories

(* The plan's limits hold although training takes long and other versions   *)
(* are registered meanwhile, and although cancelled jobs are credited.      *)
LimitsHold ==
    Calm => \A t \in Tenants : Retained(t) <= VersionLimit /\ Charged(t) <= JobLimit

(* "One CPU trainer runs globally."                                         *)
Trainers == {w \in Workers : worker[w].pc \in Busy}

OneTrainer == \A v, w \in Trainers : v = w

OneTrainerWhileGuarded == "guard_dropped" \notin mishaps => OneTrainer

(* Retries, recovery and late outcomes stay within the contract with the    *)
(* tenant: a job ends once, never succeeds after an accepted cancellation,  *)
(* is cancelled only on request, and shares its tenant with no other open   *)
(* job.                                                                     *)
Contract == INSTANCE TrainingContract WITH
    Owners  <- Tenants,
    Nobody  <- NoTenant,
    status  <- [j \in Jobs |-> job[j].status],
    owner   <- [j \in Jobs |-> job[j].tenant],
    revoked <- [j \in Jobs |-> job[j].cancel],
    assured <- Calm

KeepsContract == Contract!Spec

(* Every accepted job ends, whatever is cancelled, killed or restarted,     *)
(* unless its tenant is suspended; a cancelled one too.                     *)
Settles ==
    \A j \in Jobs :
        job[j].status \in Active
            ~> \/ job[j].status \in Terminal
               \/ job[j].tenant \notin enabled
               \/ "guard_dropped" \in mishaps

(* The same without exemption for a dropped guard connection: "Accepted     *)
(* background work has durable state, idempotent stages, controlled         *)
(* retries, terminal failure records".                                      *)
AcceptedWorkEnds ==
    \A j \in Jobs :
        job[j].status \in Active
            ~> job[j].status \in Terminal \/ job[j].tenant \notin enabled

=============================================================================

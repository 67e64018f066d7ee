----------------------------- MODULE Retraining -----------------------------
(***************************************************************************)
(* Scheduled and event-triggered retraining of one tenant: the policy its  *)
(* administrator edits, the scheduler processes of which one is active at  *)
(* a time, and the jobs they request beside those of people.               *)
(*                                                                         *)
(* What becomes of a job is the matter of TrainingQueue; here it is active *)
(* or has ended, and the tenant then waits for the cooldown.  Jobs are     *)
(* counted, so that the latest one is known by its number.  Placeholder    *)
(* training, which knows no cooldown, is refused in production and left    *)
(* out.                                                                    *)
(***************************************************************************)
EXTENDS Integers, FiniteSets

CONSTANTS
    Schedulers,
    Intervals,          \* what interval_minutes may be set to
    Threshold,          \* event_threshold
    MaxJobs,            \* the training_jobs limit
    MaxClock,           \* bound on time
    MaxDisruptions,     \* bound on crashes, lost connections and failed statements
    None

ASSUME RetrainingOK ==
    /\ Intervals \subseteq Nat \ {0} /\ Intervals # {}
    /\ Threshold \in Nat \ {0}
    /\ MaxJobs \in Nat /\ MaxClock \in Nat /\ MaxDisruptions \in Nat
    /\ None \notin Nat

VARIABLES
    clock,          \* the time, as far as slots tell times apart
    policy,         \* row of retraining_policies
    fresh,          \* events accepted since the latest job was created
    job,            \* the latest row of training_jobs
    used,           \* request identifiers of the jobs schedulers requested
    scheduler,      \* [Schedulers -> state of a process]
    disruptions

vars == <<clock, policy, fresh, job, used, scheduler, disruptions>>

-----------------------------------------------------------------------------
(* What it tells of the last outcome is left out.                           *)
Policy == [schedule : BOOLEAN, interval : Intervals, next : Nat \cup {None},
           onEvents : BOOLEAN]

Job == [id : 0 .. MaxJobs, status : {"none", "active", "ended"},
        by : {"none", "person", "schedule", "events"}, cooling : BOOLEAN]

Triggers == {"none", "schedule", "events"}

Stages == {"standby", "resting", "evaluating", "requesting", "refused", "recording"}

(* mark is the slot or the latest job that the request identifier embeds,   *)
(* latest the latest job that was read, next the slot that follows.         *)
Scheduler == [stage : Stages, guard : BOOLEAN, now : Nat, trigger : Triggers,
              mark : Nat, latest : Nat, next : Nat \cup {None}]

Down == [stage |-> "standby", guard |-> FALSE, now |-> 0, trigger |-> "none",
         mark |-> 0, latest |-> 0, next |-> None]

PolicyReadable == TRUE      \* slip: the row is read without FOR UPDATE

(* The policy's row is locked from the read to the commit of the job.       *)
PolicyIsFree == \A s \in Schedulers : scheduler[s].stage # "requesting"

Goto(s, stage) == scheduler' = [scheduler EXCEPT ![s].stage = stage]

(* What the evaluation read is of no use any more.                          *)
Settle(s, stage) ==
    scheduler' = [scheduler EXCEPT ![s] = [Down EXCEPT !.stage = stage, !.guard = scheduler[s].guard]]

Rest(s) == Settle(s, "resting")

Disrupts == disruptions < MaxDisruptions /\ disruptions' = disruptions + 1

(* The first slot after now.                                                *)
SlotAfter(next, interval, now) ==
    next + interval * ((now - next) \div interval + 1)

Due(p, now) == p.schedule /\ p.next # None /\ p.next <= now

Advanced(p, now) == IF Due(p, now) THEN SlotAfter(p.next, p.interval, now) ELSE p.next

(* decide                                                                   *)
Decision(now) ==
    IF job.status = "active" THEN "none"
    ELSE IF Due(policy, now) THEN "schedule"
    ELSE IF policy.onEvents /\ fresh >= Threshold THEN "events" ELSE "none"

-----------------------------------------------------------------------------
(* The advisory lock, kept by the connection named guard.                   *)
Lead(s) ==
    /\ scheduler[s].stage = "standby"
    /\ \A r \in Schedulers : ~scheduler[r].guard
    /\ scheduler' = [scheduler EXCEPT ![s].stage = "resting", ![s].guard = TRUE]
    /\ UNCHANGED <<clock, policy, fresh, job, used, disruptions>>

(* A tick finds the tenant while its policy is enabled.  With a dead guard  *)
(* every tick raises before it does anything.                               *)
Tick(s) ==
    /\ scheduler[s].stage = "resting" /\ scheduler[s].guard
    /\ policy.schedule \/ policy.onEvents
    /\ scheduler' = [scheduler EXCEPT ![s].stage = "evaluating", ![s].now = clock]
    /\ UNCHANGED <<clock, policy, fresh, job, used, disruptions>>

(* Nothing to start: the slot that passed is skipped, and committed.        *)
Skip(s) ==
    LET now == scheduler[s].now IN
    /\ Decision(now) = "none"
    /\ policy' = [policy EXCEPT !.next = Advanced(policy, now)]
    /\ Rest(s)

(* A trigger: the advanced slot is flushed, and not yet committed.          *)
Trigger(s) ==
    LET now == scheduler[s].now IN
    /\ Decision(now) # "none"
    /\ scheduler' = [scheduler EXCEPT
           ![s].stage = "requesting", ![s].trigger = Decision(now),
           ![s].mark = IF Decision(now) = "schedule" THEN policy.next ELSE job.id,
           ![s].latest = job.id, ![s].next = Advanced(policy, now)]
    /\ UNCHANGED policy

Evaluate(s) ==
    /\ scheduler[s].stage = "evaluating"
    /\ PolicyIsFree
    /\ \/ ~(policy.schedule \/ policy.onEvents) /\ Rest(s) /\ UNCHANGED policy
       \/ (policy.schedule \/ policy.onEvents) /\ (Skip(s) \/ Trigger(s))
    /\ UNCHANGED <<clock, fresh, job, used, disruptions>>

EligibleWhileCooling == job.status # "active" /\ job.id < MaxJobs   \* slip: no cooldown

(* require_capacity and _check_training_eligibility.                        *)
Eligible == job.status # "active" /\ ~job.cooling /\ job.id < MaxJobs

Queued(by) ==
    /\ job' = [id |-> job.id + 1, status |-> "active", by |-> by, cooling |-> FALSE]
    /\ fresh' = 0

CreateKeepsSlot(s) ==       \* slip: the slot is not advanced with the job
    /\ scheduler[s].stage = "requesting"
    /\ \/ /\ Eligible
          /\ Queued(scheduler[s].trigger)
          /\ used' = used \cup {<<scheduler[s].trigger, scheduler[s].mark>>}
          /\ Settle(s, "recording")
          /\ UNCHANGED <<policy, disruptions>>
       \/ /\ Goto(s, "refused")
          /\ UNCHANGED <<policy, fresh, job, used, disruptions>>
    /\ UNCHANGED clock

(* create_training_job: the job, and with it the advanced slot; a refusal,  *)
(* also for want of data; or a failure, its commit's included.              *)
Create(s) ==
    /\ scheduler[s].stage = "requesting"
    /\ \/ /\ Eligible
          /\ Queued(scheduler[s].trigger)
          /\ policy' = [policy EXCEPT !.next = scheduler[s].next]
          /\ used' = used \cup {<<scheduler[s].trigger, scheduler[s].mark>>}
          /\ \/ Settle(s, "recording") /\ UNCHANGED disruptions
             \/ Rest(s) /\ Disrupts
       \/ /\ Goto(s, "refused")
          /\ UNCHANGED <<policy, fresh, job, used, disruptions>>
       \/ /\ Rest(s) /\ Disrupts
          /\ UNCHANGED <<policy, fresh, job, used>>
    /\ UNCHANGED clock

RecordRefusalOnly(s) ==     \* slip: a refused slot stays due
    /\ scheduler[s].stage = "refused"
    /\ PolicyIsFree
    /\ Rest(s)
    /\ UNCHANGED <<clock, policy, fresh, job, used, disruptions>>

(* The rollback has undone the advance: it is made again, on the policy as  *)
(* it is now.                                                               *)
RecordRefusal(s) ==
    LET x == scheduler[s] IN
    /\ x.stage = "refused"
    /\ PolicyIsFree
    /\ policy' = [policy EXCEPT
           !.next = IF x.trigger = "schedule" /\ @ # None /\ @ <= x.now
                    THEN SlotAfter(@, policy.interval, x.now) ELSE @]
    /\ Rest(s)
    /\ UNCHANGED <<clock, fresh, job, used, disruptions>>

RecordJob(s) ==
    /\ scheduler[s].stage = "recording"
    /\ PolicyIsFree
    /\ Rest(s)
    /\ UNCHANGED <<clock, policy, fresh, job, used, disruptions>>

(* A statement fails; the tick goes on and the next one starts afresh.      *)
Fail(s) ==
    /\ scheduler[s].stage \in {"evaluating", "refused", "recording"}
    /\ Disrupts
    /\ Rest(s)
    /\ UNCHANGED <<clock, policy, fresh, job, used>>

(* The process dies in any stage and is started again.                      *)
Crash(s) ==
    /\ scheduler[s].stage # "standby"
    /\ Disrupts
    /\ scheduler' = [scheduler EXCEPT ![s] = Down]
    /\ UNCHANGED <<clock, policy, fresh, job, used>>

(* Only the guard's connection dies: the lock is free, the process lives.   *)
LoseGuard(s) ==
    /\ scheduler[s].guard
    /\ Disrupts
    /\ scheduler' = [scheduler EXCEPT ![s].guard = FALSE]
    /\ UNCHANGED <<clock, policy, fresh, job, used>>

-----------------------------------------------------------------------------
UpdatePolicy(schedule, interval, onEvents) ==
    /\ PolicyIsFree
    /\ policy' = [policy EXCEPT
           !.schedule = schedule, !.interval = interval, !.onEvents = onEvents,
           !.next = IF ~schedule THEN None
                    ELSE IF ~policy.schedule \/ policy.interval # interval \/ @ = None
                    THEN clock + interval ELSE @]
    /\ UNCHANGED <<clock, fresh, job, used, scheduler, disruptions>>

(* A person requests training through the API.                              *)
RequestJob ==
    /\ Eligible
    /\ Queued("person")
    /\ UNCHANGED <<clock, policy, used, scheduler, disruptions>>

(* The job succeeds, fails or is cancelled.                                 *)
EndJob ==
    /\ job.status = "active"
    /\ job' = [job EXCEPT !.status = "ended", !.cooling = TRUE]
    /\ UNCHANGED <<clock, policy, fresh, used, scheduler, disruptions>>

(* The cooldown is over.  An evaluation does not outlast it: none is left   *)
(* that read the jobs before this one was created.                          *)
Cool ==
    /\ job.cooling
    /\ \A s \in Schedulers : scheduler[s].stage = "requesting" => scheduler[s].latest = job.id
    /\ job' = [job EXCEPT !.cooling = FALSE]
    /\ UNCHANGED <<clock, policy, fresh, used, scheduler, disruptions>>

AcceptEvent ==
    /\ fresh < Threshold
    /\ fresh' = fresh + 1
    /\ UNCHANGED <<clock, policy, job, used, scheduler, disruptions>>

TimePasses ==
    /\ clock < MaxClock
    /\ clock' = clock + 1
    /\ UNCHANGED <<policy, fresh, job, used, scheduler, disruptions>>

Init ==
    /\ clock = 0
    /\ policy \in [schedule : {FALSE}, interval : Intervals, next : {None},
                   onEvents : {FALSE}]
    /\ fresh = 0
    /\ job = [id |-> 0, status |-> "none", by |-> "none", cooling |-> FALSE]
    /\ used = {}
    /\ scheduler = [s \in Schedulers |-> Down]
    /\ disruptions = 0

Work(s) ==
    \/ Lead(s) \/ Tick(s) \/ Evaluate(s) \/ Create(s) \/ RecordRefusal(s) \/ RecordJob(s)

Next ==
    \/ \E s \in Schedulers : Work(s) \/ Fail(s) \/ Crash(s) \/ LoseGuard(s)
    \/ \E schedule, onEvents \in BOOLEAN, interval \in Intervals :
         UpdatePolicy(schedule, interval, onEvents)
    \/ RequestJob \/ EndJob \/ Cool \/ AcceptEvent \/ TimePasses

Spec == Init /\ [][Next]_vars

(* A scheduler that can go on does: the loop sleeps for a tick at most and  *)
(* survives every exception.                                                *)
FairSpec == Spec /\ \A s \in Schedulers : WF_vars(Work(s))

-----------------------------------------------------------------------------
TypeOK ==
    /\ clock \in 0 .. MaxClock
    /\ policy \in Policy
    /\ fresh \in 0 .. Threshold
    /\ job \in Job
    /\ used \in SUBSET (Triggers \X Nat)
    /\ scheduler \in [Schedulers -> Scheduler]
    /\ disruptions \in 0 .. MaxDisruptions

(* "Schedule fires once per slot", and the event trigger once per condition *)
(* (service.py:42-47): whatever fails or overlaps, no request identifier is *)
(* used for a second time, so that the replay in create_training_job is     *)
(* never met.                                                               *)
AsksOncePerSlot ==
    \A s \in Schedulers : scheduler[s].stage = "requesting" =>
        <<scheduler[s].trigger, scheduler[s].mark>> \notin used

(* A scheduled job is created for the slot of the policy as it is then: an  *)
(* administrator who has disabled or moved the schedule gets none.          *)
ScheduledJobsAreDue ==
    [][job'.id # job.id /\ job'.by = "schedule" => Due(policy, clock)]_vars

(* An event-triggered job is created only if the threshold was reached since*)
(* the latest job, a person's included, that started in between.            *)
EventJobsNeedEvents ==
    [][job'.id # job.id /\ job'.by = "events" => policy.onEvents /\ fresh >= Threshold]_vars

(* A slot does not stay due: it starts a job, is blocked or is skipped      *)
(* ("skipped instead of retried forever", service.py:161), while one        *)
(* scheduler can take the lock.                                             *)
DueSlotsPass == Due(policy, clock) ~> ~Due(policy, clock)
=============================================================================

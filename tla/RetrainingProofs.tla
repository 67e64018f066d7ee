--------------------------- MODULE RetrainingProofs ---------------------------
(***************************************************************************)
(* The safety properties of Retraining, for any number of schedulers, any  *)
(* intervals and any number of jobs.                                       *)
(***************************************************************************)
EXTENDS Retraining, TLAPS

Requesting(s) == scheduler[s].stage = "requesting"

(* The policy's row has one holder.                                         *)
OneHolder == \A r, s \in Schedulers : Requesting(r) /\ Requesting(s) => r = s

Clocked == \A s \in Schedulers : scheduler[s].now <= clock

(* What the holder read of the policy is still so.                          *)
SlotHeld ==
    \A s \in Schedulers : Requesting(s) =>
        /\ scheduler[s].trigger \in {"schedule", "events"}
        /\ scheduler[s].next = Advanced(policy, scheduler[s].now)
        /\ scheduler[s].trigger = "schedule" =>
             Due(policy, scheduler[s].now) /\ scheduler[s].mark = policy.next

(* What it counted is still so, unless a job was created since: that one is *)
(* active, or the tenant waits for the cooldown.                            *)
EventsHeld ==
    \A s \in Schedulers : Requesting(s) /\ scheduler[s].trigger = "events" =>
        /\ policy.onEvents
        /\ scheduler[s].mark = scheduler[s].latest
        /\ \/ job.id = scheduler[s].latest /\ fresh >= Threshold
           \/ job.id > scheduler[s].latest /\ (job.status = "active" \/ job.cooling)

(* A slot that started a job lies before the next one.                      *)
SlotsUsed ==
    \A m \in Nat : <<"schedule", m>> \in used =>
        m <= clock /\ (policy.next # None => m < policy.next)

(* A condition that started a job had an earlier job as its latest one.     *)
EventsUsed == \A m \in Nat : <<"events", m>> \in used => m < job.id

IInv ==
    /\ TypeOK
    /\ OneHolder
    /\ Clocked
    /\ SlotHeld
    /\ EventsHeld
    /\ SlotsUsed
    /\ EventsUsed
    /\ AsksOncePerSlot

-----------------------------------------------------------------------------
(* Slots                                                                    *)

LEMMA Quotient ==
    ASSUME NEW a \in Nat, NEW b \in Nat \ {0}
    PROVE  /\ a \div b \in Nat
           /\ a < b * (a \div b + 1)
  <1>1. /\ a \div b \in Int
        /\ a % b \in 0 .. b - 1
        /\ a = b * (a \div b) + (a % b)
    BY Z3
  <1>2. a \div b >= 0
    BY Z3
  <1> QED
    BY <1>1, <1>2, Z3

(* The slot after a slot that has passed lies ahead (evaluate).             *)
LEMMA LaterSlot ==
    ASSUME NEW next \in Nat, NEW interval \in Nat \ {0}, NEW now \in Nat, next <= now
    PROVE  SlotAfter(next, interval, now) \in Nat /\ SlotAfter(next, interval, now) > now
  <1> DEFINE q == (now - next) \div interval
  <1>1. now - next \in Nat
    OBVIOUS
  <1>2. q \in Nat /\ now - next < interval * (q + 1)
    BY <1>1, Quotient
  <1>3. interval * (q + 1) \in Nat
    BY <1>2
  <1>4. SlotAfter(next, interval, now) = next + interval * (q + 1)
    BY DEF SlotAfter
  <1> HIDE DEF q
  <1> QED
    BY <1>2, <1>3, <1>4

(* Advancing leaves a policy without slots as it is, and otherwise never    *)
(* goes back; a due slot is passed.                                         *)
LEMMA Advancing ==
    ASSUME RetrainingOK, NEW p \in Policy, NEW now \in Nat
    PROVE  /\ Advanced(p, now) \in Nat \cup {None}
           /\ p.next = None => Advanced(p, now) = None
           /\ p.next # None => Advanced(p, now) \in Nat /\ Advanced(p, now) >= p.next
           /\ Due(p, now) => p.next \in Nat /\ Advanced(p, now) > now /\ p.next <= now
  <1>1. /\ p.next \in Nat \cup {None}
        /\ p.interval \in Nat \ {0}
        /\ None \notin Nat
    BY DEF RetrainingOK, Policy
  <1>2. CASE Due(p, now)
    <2>1. p.next \in Nat /\ p.next <= now
      BY <1>1, <1>2 DEF Due
    <2>2. Advanced(p, now) = SlotAfter(p.next, p.interval, now)
      BY <1>2 DEF Advanced
    <2>3. SlotAfter(p.next, p.interval, now) \in Nat /\ SlotAfter(p.next, p.interval, now) > now
      BY <1>1, <2>1, LaterSlot
    <2> QED
      BY <1>1, <2>1, <2>2, <2>3
  <1>3. CASE ~Due(p, now)
    <2>1. Advanced(p, now) = p.next
      BY <1>3 DEF Advanced
    <2> QED
      BY <1>1, <1>3, <2>1
  <1> QED
    BY <1>2, <1>3

-----------------------------------------------------------------------------
(* Types                                                                    *)

LEMMA RestingType ==
    ASSUME RetrainingOK, TypeOK, NEW s \in Schedulers, NEW stage \in Stages, Settle(s, stage)
    PROVE  /\ scheduler' \in [Schedulers -> Scheduler]
           /\ \A r \in Schedulers \ {s} : scheduler'[r] = scheduler[r]
           /\ scheduler'[s].stage = stage
           /\ scheduler'[s].now = 0
  <1> DEFINE y == [Down EXCEPT !.stage = stage, !.guard = scheduler[s].guard]
  <1>1. scheduler[s] \in Scheduler /\ scheduler \in [Schedulers -> Scheduler]
    BY DEF TypeOK
  <1>2. Down \in Scheduler
    BY DEF Down, Scheduler, Stages, Triggers
  <1>3. y \in Scheduler /\ y.stage = stage /\ y.now = 0
    BY <1>1, <1>2 DEF Down, Scheduler
  <1>4. scheduler' = [scheduler EXCEPT ![s] = y]
    BY DEF Settle
  <1> HIDE DEF y
  <1> QED
    BY <1>1, <1>3, <1>4

LEMMA RestType ==
    ASSUME RetrainingOK, TypeOK, NEW s \in Schedulers, Rest(s)
    PROVE  /\ scheduler' \in [Schedulers -> Scheduler]
           /\ \A r \in Schedulers \ {s} : scheduler'[r] = scheduler[r]
           /\ scheduler'[s].stage = "resting"
           /\ scheduler'[s].now = 0
  <1>1. "resting" \in Stages
    BY DEF Stages
  <1> QED
    BY <1>1, RestingType DEF Rest

LEMMA GotoType ==
    ASSUME TypeOK, NEW s \in Schedulers, NEW stage \in Stages, Goto(s, stage)
    PROVE  /\ scheduler' \in [Schedulers -> Scheduler]
           /\ \A r \in Schedulers \ {s} : scheduler'[r] = scheduler[r]
           /\ scheduler'[s].stage = stage
           /\ scheduler'[s].now = scheduler[s].now
  <1>1. scheduler[s] \in Scheduler /\ scheduler \in [Schedulers -> Scheduler]
    BY DEF TypeOK
  <1> QED
    BY <1>1 DEF Goto, Scheduler

(* What a trigger leaves in the scheduler's record.                         *)
LEMMA TriggerType ==
    ASSUME RetrainingOK, TypeOK, NEW s \in Schedulers, Trigger(s)
    PROVE  LET now == scheduler[s].now
               x == scheduler'[s]
           IN /\ scheduler' \in [Schedulers -> Scheduler]
              /\ \A r \in Schedulers \ {s} : scheduler'[r] = scheduler[r]
              /\ x.stage = "requesting" /\ x.now = now
              /\ x.trigger = Decision(now) /\ x.trigger \in {"schedule", "events"}
              /\ x.latest = job.id /\ x.next = Advanced(policy, now)
              /\ x.mark = IF x.trigger = "schedule" THEN policy.next ELSE job.id
              /\ x.trigger = "schedule" => Due(policy, now)
              /\ x.trigger = "events" => policy.onEvents /\ fresh >= Threshold
  <1> DEFINE now == scheduler[s].now
             d == Decision(now)
             k == IF d = "schedule" THEN policy.next ELSE job.id
             n == Advanced(policy, now)
             y == [scheduler[s] EXCEPT !.stage = "requesting", !.trigger = d, !.mark = k,
                                       !.latest = job.id, !.next = n]
  <1>1. scheduler[s] \in Scheduler /\ scheduler \in [Schedulers -> Scheduler]
    BY DEF TypeOK
  <1>2. policy \in Policy /\ job \in Job
    BY DEF TypeOK
  <1>3. job.id \in Nat /\ now \in Nat
    BY <1>1, <1>2 DEF RetrainingOK, Job, Scheduler
  <1>4. /\ d \in {"schedule", "events"}
        /\ d = "schedule" => Due(policy, now)
        /\ d = "events" => policy.onEvents /\ fresh >= Threshold
    BY DEF Trigger, Decision
  <1>5. n \in Nat \cup {None} /\ k \in Nat
    BY <1>2, <1>3, <1>4, Advancing
  <1>6. scheduler' = [scheduler EXCEPT ![s] = y]
    BY <1>1 DEF Trigger, Scheduler
  <1>7. "requesting" \in Stages /\ d \in Triggers
    BY <1>4 DEF Stages, Triggers
  <1> HIDE DEF d, k, n
  <1>8. y \in Scheduler
    BY <1>1, <1>3, <1>5, <1>7 DEF Scheduler
  <1>9. /\ y.stage = "requesting" /\ y.now = now /\ y.trigger = d
        /\ y.latest = job.id /\ y.next = n /\ y.mark = k
    BY <1>1 DEF Scheduler
  <1>10. /\ scheduler' \in [Schedulers -> Scheduler]
         /\ \A r \in Schedulers \ {s} : scheduler'[r] = scheduler[r]
         /\ scheduler'[s] = y
    <2> HIDE DEF y
    <2> QED
      BY <1>1, <1>6, <1>8
  <1> HIDE DEF y
  <1> QED
    BY <1>4, <1>9, <1>10 DEF d, k, n

Own(s) == Work(s) \/ Fail(s) \/ Crash(s) \/ LoseGuard(s)

(* The parts of a scheduler's record that an evaluation works with.         *)
SameEvaluation(s) ==
    /\ scheduler'[s].now = scheduler[s].now
    /\ scheduler'[s].trigger = scheduler[s].trigger
    /\ scheduler'[s].mark = scheduler[s].mark
    /\ scheduler'[s].latest = scheduler[s].latest
    /\ scheduler'[s].next = scheduler[s].next

(* How a scheduler comes to hold the policy's row, or keeps it.             *)
LEMMA OwnMoves ==
    ASSUME RetrainingOK, TypeOK, NEW s \in Schedulers, Own(s)
    PROVE  /\ scheduler' \in [Schedulers -> Scheduler]
           /\ \A r \in Schedulers \ {s} : scheduler'[r] = scheduler[r]
           /\ scheduler'[s].now \in {0, clock, scheduler[s].now}
           /\ scheduler'[s].stage = "requesting" =>
                \/ PolicyIsFree /\ Trigger(s) /\ UNCHANGED <<clock, policy, fresh, job, used>>
                \/ LoseGuard(s) /\ Requesting(s) /\ SameEvaluation(s)
  <1>0. /\ scheduler[s] \in Scheduler /\ scheduler \in [Schedulers -> Scheduler]
        /\ clock \in Nat
    BY DEF TypeOK, RetrainingOK
  <1>1. CASE Lead(s)
    <2>1. "resting" \in Stages
      BY DEF Stages
    <2> QED
      BY <1>0, <1>1, <2>1 DEF Lead, Scheduler
  <1>2. CASE Tick(s)
    <2>1. "evaluating" \in Stages
      BY DEF Stages
    <2> QED
      BY <1>0, <1>2, <2>1 DEF Tick, Scheduler
  <1>3. CASE Evaluate(s)
    <2>1. CASE Rest(s)
      BY <2>1, RestType
    <2>2. CASE Trigger(s)
      BY <1>3, <2>2, TriggerType DEF Evaluate, Trigger
    <2> QED
      BY <1>3, <2>1, <2>2 DEF Evaluate, Skip
  <1>4. CASE Create(s)
    <2>1. "recording" \in Stages /\ "refused" \in Stages
      BY DEF Stages
    <2>2. CASE Settle(s, "recording")
      BY <2>1, <2>2, RestingType
    <2>3. CASE Goto(s, "refused")
      BY <2>1, <2>3, GotoType
    <2>4. CASE Rest(s)
      BY <2>4, RestType
    <2> QED
      BY <1>4, <2>2, <2>3, <2>4 DEF Create
  <1>5. CASE RecordRefusal(s) \/ RecordJob(s) \/ Fail(s)
    <2>1. Rest(s)
      BY <1>5 DEF RecordRefusal, RecordJob, Fail
    <2> QED
      BY <2>1, RestType
  <1>6. CASE Crash(s)
    <2>1. Down \in Scheduler /\ Down.stage = "standby" /\ Down.now = 0
      BY DEF Down, Scheduler, Stages, Triggers
    <2>2. scheduler' = [scheduler EXCEPT ![s] = Down]
      BY <1>6 DEF Crash
    <2> QED
      BY <1>0, <2>1, <2>2
  <1>7. CASE LoseGuard(s)
    BY <1>0, <1>7 DEF LoseGuard, Scheduler, SameEvaluation, Requesting
  <1> QED
    BY <1>1, <1>2, <1>3, <1>4, <1>5, <1>6, <1>7 DEF Own, Work

(* The policy keeps its type, whoever writes it.                            *)
LEMMA PolicyType ==
    ASSUME RetrainingOK, TypeOK, [Next]_vars
    PROVE  policy' \in Policy
  <1>0. /\ policy \in Policy /\ clock \in Nat
        /\ scheduler \in [Schedulers -> Scheduler]
    BY DEF TypeOK, RetrainingOK
  <1>1. ASSUME NEW n \in Nat \cup {None}, policy' = [policy EXCEPT !.next = n]
        PROVE  policy' \in Policy
    BY <1>0, <1>1 DEF Policy
  <1>2. ASSUME NEW s \in Schedulers, Skip(s)
        PROVE  policy' \in Policy
    <2>1. scheduler[s].now \in Nat
      BY <1>0 DEF Scheduler
    <2>2. Advanced(policy, scheduler[s].now) \in Nat \cup {None}
      BY <1>0, <2>1, Advancing
    <2> QED
      BY <1>1, <1>2, <2>2 DEF Skip
  <1>3. ASSUME NEW s \in Schedulers, Create(s)
        PROVE  policy' \in Policy
    <2>1. scheduler[s].next \in Nat \cup {None}
      BY <1>0 DEF Scheduler
    <2>2. UNCHANGED policy \/ policy' = [policy EXCEPT !.next = scheduler[s].next]
      BY <1>3 DEF Create
    <2> QED
      BY <1>0, <1>1, <2>1, <2>2
  <1>4. ASSUME NEW s \in Schedulers, RecordRefusal(s)
        PROVE  policy' \in Policy
    <2> DEFINE x == scheduler[s]
               n == IF x.trigger = "schedule" /\ policy.next # None /\ policy.next <= x.now
                    THEN SlotAfter(policy.next, policy.interval, x.now) ELSE policy.next
    <2>1. x.now \in Nat /\ policy.next \in Nat \cup {None} /\ policy.interval \in Nat \ {0}
      BY <1>0 DEF Scheduler, Policy, RetrainingOK
    <2>2. n \in Nat \cup {None}
      BY <2>1, LaterSlot
    <2>3. policy' = [policy EXCEPT !.next = n]
      BY <1>4 DEF RecordRefusal
    <2> HIDE DEF n
    <2> QED
      BY <1>1, <2>2, <2>3
  <1>5. ASSUME NEW schedule \in BOOLEAN, NEW onEvents \in BOOLEAN, NEW interval \in Intervals,
               UpdatePolicy(schedule, interval, onEvents)
        PROVE  policy' \in Policy
    <2>1. interval \in Nat /\ clock + interval \in Nat
      BY <1>0 DEF RetrainingOK
    <2> QED
      BY <1>0, <1>5, <2>1 DEF UpdatePolicy, Policy
  <1>6. ASSUME NEW s \in Schedulers, Own(s)
        PROVE  policy' \in Policy
    <2>1. CASE Evaluate(s)
      BY <1>0, <1>2, <2>1 DEF Evaluate, Trigger
    <2>2. CASE Lead(s) \/ Tick(s) \/ RecordJob(s) \/ Fail(s) \/ Crash(s) \/ LoseGuard(s)
      BY <1>0, <2>2 DEF Lead, Tick, RecordJob, Fail, Crash, LoseGuard
    <2> QED
      BY <1>3, <1>4, <1>6, <2>1, <2>2 DEF Own, Work
  <1>7. CASE RequestJob \/ EndJob \/ Cool \/ AcceptEvent \/ TimePasses \/ UNCHANGED vars
    BY <1>0, <1>7 DEF RequestJob, EndJob, Cool, AcceptEvent, TimePasses, vars
  <1> QED
    BY <1>5, <1>6, <1>7 DEF Next, Own

(* The latest job, its number, and the events since.                        *)
LEMMA JobMoves ==
    ASSUME RetrainingOK, TypeOK, [Next]_vars
    PROVE  /\ job' \in Job /\ fresh' \in 0 .. Threshold
           /\ used' \in SUBSET (Triggers \X Nat)
           /\ \/ job' = job /\ fresh' >= fresh /\ used' = used
              \/ RequestJob \/ EndJob \/ Cool
              \/ \E s \in Schedulers : Create(s) /\ Eligible /\ Queued(scheduler[s].trigger)
  <1>0. /\ job \in Job /\ fresh \in 0 .. Threshold /\ used \in SUBSET (Triggers \X Nat)
        /\ Threshold \in Nat /\ MaxJobs \in Nat
        /\ scheduler \in [Schedulers -> Scheduler]
    BY DEF TypeOK, RetrainingOK
  <1>1. ASSUME NEW by \in {"person", "none", "schedule", "events"}, Eligible, Queued(by)
        PROVE  job' \in Job /\ fresh' \in 0 .. Threshold
    BY <1>0, <1>1 DEF Eligible, Queued, Job
  <1>2. ASSUME NEW s \in Schedulers, Create(s)
        PROVE  /\ job' \in Job /\ fresh' \in 0 .. Threshold
               /\ used' \in SUBSET (Triggers \X Nat)
               /\ \/ job' = job /\ fresh' = fresh /\ used' = used
                  \/ Eligible /\ Queued(scheduler[s].trigger)
    <2>1. scheduler[s].trigger \in Triggers /\ scheduler[s].mark \in Nat
      BY <1>0 DEF Scheduler
    <2>2. scheduler[s].trigger \in {"person", "none", "schedule", "events"}
      BY <2>1 DEF Triggers
    <2>3. CASE Eligible /\ Queued(scheduler[s].trigger)
               /\ used' = used \cup {<<scheduler[s].trigger, scheduler[s].mark>>}
      BY <1>0, <1>1, <2>1, <2>2, <2>3
    <2>4. CASE UNCHANGED <<fresh, job, used>>
      BY <1>0, <2>4
    <2> QED
      BY <1>2, <2>3, <2>4 DEF Create
  <1>3. ASSUME NEW s \in Schedulers, Own(s)
        PROVE  Create(s) \/ UNCHANGED <<fresh, job, used>>
    BY <1>3 DEF Own, Work, Lead, Tick, Evaluate, RecordRefusal, RecordJob, Fail, Crash, LoseGuard
  <1>4. CASE RequestJob
    BY <1>0, <1>1, <1>4 DEF RequestJob
  <1>5. CASE EndJob \/ Cool
    BY <1>0, <1>5 DEF EndJob, Cool, Job
  <1>6. CASE AcceptEvent
    BY <1>0, <1>6 DEF AcceptEvent
  <1>7. CASE TimePasses \/ UNCHANGED vars
    BY <1>0, <1>7 DEF TimePasses, vars
  <1>8. CASE \E schedule, onEvents \in BOOLEAN, interval \in Intervals :
               UpdatePolicy(schedule, interval, onEvents)
    BY <1>0, <1>8 DEF UpdatePolicy
  <1> QED
    <2>1. ASSUME NEW s \in Schedulers, Own(s)
          PROVE  \/ UNCHANGED <<fresh, job, used>>
                 \/ Create(s)
      BY <1>3, <2>1
    <2>2. CASE \E s \in Schedulers : Own(s)
      <3>1. PICK s \in Schedulers : Own(s)
        BY <2>2
      <3>2. CASE UNCHANGED <<fresh, job, used>>
        BY <1>0, <3>2
      <3>3. CASE Create(s)
        BY <1>0, <1>2, <3>3
      <3> QED
        BY <2>1, <3>1, <3>2, <3>3
    <2> QED
      BY <1>4, <1>5, <1>6, <1>7, <1>8, <2>2 DEF Next, Own

LEMMA ClockMoves ==
    ASSUME RetrainingOK, TypeOK, [Next]_vars
    PROVE  /\ clock' \in 0 .. MaxClock /\ clock' >= clock
           /\ disruptions' \in 0 .. MaxDisruptions
           /\ scheduler' \in [Schedulers -> Scheduler]
           /\ scheduler' = scheduler \/ \E s \in Schedulers : Own(s) /\ clock' = clock
  <1>0. /\ clock \in 0 .. MaxClock /\ disruptions \in 0 .. MaxDisruptions
        /\ MaxClock \in Nat /\ MaxDisruptions \in Nat
        /\ scheduler \in [Schedulers -> Scheduler]
    BY DEF TypeOK, RetrainingOK
  <1>1. ASSUME NEW s \in Schedulers, Own(s)
        PROVE  clock' = clock /\ (UNCHANGED disruptions \/ Disrupts)
    <2>1. CASE Create(s)
      BY <2>1 DEF Create
    <2> QED
      BY <1>1, <2>1
      DEF Own, Work, Lead, Tick, Evaluate, RecordRefusal, RecordJob, Fail, Crash, LoseGuard
  <1>2. CASE \E s \in Schedulers : Own(s)
    <2>1. PICK s \in Schedulers : Own(s)
      BY <1>2
    <2>2. scheduler' \in [Schedulers -> Scheduler]
      BY <2>1, OwnMoves
    <2>3. clock' = clock /\ disruptions' \in 0 .. MaxDisruptions
      BY <1>0, <1>1, <2>1 DEF Disrupts
    <2> QED
      BY <1>0, <2>1, <2>2, <2>3
  <1>3. CASE TimePasses
    BY <1>0, <1>3 DEF TimePasses
  <1>4. CASE RequestJob \/ EndJob \/ Cool \/ AcceptEvent \/ UNCHANGED vars
    BY <1>0, <1>4 DEF RequestJob, EndJob, Cool, AcceptEvent, vars
  <1>5. CASE \E schedule, onEvents \in BOOLEAN, interval \in Intervals :
               UpdatePolicy(schedule, interval, onEvents)
    BY <1>0, <1>5 DEF UpdatePolicy
  <1> QED
    BY <1>2, <1>3, <1>4, <1>5 DEF Next, Own

LEMMA TypeStep ==
    ASSUME RetrainingOK, TypeOK, [Next]_vars
    PROVE  TypeOK'
  BY PolicyType, JobMoves, ClockMoves DEF TypeOK

-----------------------------------------------------------------------------
(* The holder of the policy's row                                           *)

(* While a scheduler holds the row, nobody else writes the policy or the    *)
(* request identifiers, and its evaluation stays what it is.                *)
Keeps(s) ==
    /\ Requesting(s)
    /\ UNCHANGED <<policy, used>>
    /\ SameEvaluation(s)
    /\ \/ job' = job /\ fresh' >= fresh
       \/ RequestJob \/ EndJob \/ Cool

Starts(s) == PolicyIsFree /\ Trigger(s) /\ UNCHANGED <<clock, policy, fresh, job, used>>

LEMMA Holder ==
    ASSUME RetrainingOK, TypeOK, OneHolder, [Next]_vars,
           NEW s \in Schedulers, Requesting(s)'
    PROVE  Keeps(s) \/ Starts(s)
  <1>0. fresh \in Nat
    BY DEF TypeOK, RetrainingOK
  <1>1. ASSUME NEW r \in Schedulers, Own(r), r # s
        PROVE  Keeps(s)
    <2>1. scheduler'[s] = scheduler[s]
      BY <1>1, OwnMoves
    <2>2. Requesting(s) /\ SameEvaluation(s)
      BY <2>1 DEF Requesting, SameEvaluation
    <2>3. ~Requesting(r) /\ ~PolicyIsFree
      BY <1>1, <2>2 DEF OneHolder, PolicyIsFree, Requesting
    <2>4. UNCHANGED <<policy, fresh, job, used>>
      BY <1>1, <2>3
      DEF Own, Work, Lead, Tick, Evaluate, Create, RecordRefusal, RecordJob, Fail, Crash,
          LoseGuard, Requesting
    <2> QED
      BY <1>0, <2>2, <2>4 DEF Keeps
  <1>2. CASE Own(s)
    <2>1. \/ PolicyIsFree /\ Trigger(s) /\ UNCHANGED <<clock, policy, fresh, job, used>>
          \/ LoseGuard(s) /\ Requesting(s) /\ SameEvaluation(s)
      BY <1>2, OwnMoves DEF Requesting
    <2> QED
      BY <1>0, <2>1 DEF Keeps, Starts, LoseGuard
  <1>3. CASE scheduler' = scheduler
    <2>1. Requesting(s) /\ SameEvaluation(s)
      BY <1>3 DEF Requesting, SameEvaluation
    <2>2. ~PolicyIsFree
      BY <2>1 DEF PolicyIsFree, Requesting
    <2>3. CASE \E r \in Schedulers : Own(r)
      BY <1>1, <1>2, <2>3
    <2>4. CASE RequestJob \/ EndJob \/ Cool
      BY <2>1, <2>4 DEF Keeps, RequestJob, EndJob, Cool
    <2>5. CASE AcceptEvent \/ TimePasses \/ UNCHANGED vars
      BY <1>0, <2>1, <2>5 DEF Keeps, AcceptEvent, TimePasses, vars
    <2>6. CASE \E schedule, onEvents \in BOOLEAN, interval \in Intervals :
                 UpdatePolicy(schedule, interval, onEvents)
      BY <2>2, <2>6 DEF UpdatePolicy
    <2> QED
      BY <2>3, <2>4, <2>5, <2>6 DEF Next, Own
  <1> QED
    BY <1>1, <1>2, <1>3, ClockMoves

LEMMA OneHolderStep ==
    ASSUME RetrainingOK, TypeOK, OneHolder, [Next]_vars
    PROVE  OneHolder'
  <1> SUFFICES ASSUME NEW r \in Schedulers, NEW s \in Schedulers,
                      Requesting(r)', Requesting(s)', r # s
               PROVE  FALSE
    BY DEF OneHolder
  <1>1. (Keeps(r) \/ Starts(r)) /\ (Keeps(s) \/ Starts(s))
    BY Holder
  <1>2. ASSUME NEW q \in Schedulers, Starts(q), NEW p \in Schedulers, p # q, Requesting(p)'
        PROVE  FALSE
    <2>1. scheduler'[p] = scheduler[p]
      BY <1>2, TriggerType DEF Starts
    <2> QED
      BY <1>2, <2>1 DEF Starts, PolicyIsFree, Requesting
  <1>3. CASE Keeps(r) /\ Keeps(s)
    BY <1>3 DEF Keeps, OneHolder
  <1> QED
    BY <1>1, <1>2, <1>3

LEMMA ClockedStep ==
    ASSUME RetrainingOK, TypeOK, Clocked, [Next]_vars
    PROVE  Clocked'
  <1>0. clock \in Nat /\ clock' \in Nat /\ clock' >= clock
    BY ClockMoves DEF RetrainingOK, TypeOK
  <1>1. CASE scheduler' = scheduler
    <2>1. \A s \in Schedulers : scheduler[s].now \in Nat
      BY DEF TypeOK, Scheduler
    <2> QED
      BY <1>0, <1>1, <2>1 DEF Clocked
  <1>2. ASSUME NEW s \in Schedulers, Own(s), clock' = clock
        PROVE  Clocked'
    <2>1. scheduler'[s].now <= clock
      BY <1>0, <1>2, OwnMoves DEF Clocked
    <2>2. \A r \in Schedulers \ {s} : scheduler'[r].now <= clock
      BY <1>2, OwnMoves DEF Clocked
    <2> QED
      BY <1>2, <2>1, <2>2 DEF Clocked
  <1> QED
    BY <1>1, <1>2, ClockMoves

LEMMA SlotHeldStep ==
    ASSUME RetrainingOK, TypeOK, OneHolder, SlotHeld, [Next]_vars
    PROVE  SlotHeld'
  <1> SUFFICES ASSUME NEW s \in Schedulers, Requesting(s)'
               PROVE  /\ scheduler'[s].trigger \in {"schedule", "events"}
                      /\ scheduler'[s].next = Advanced(policy', scheduler'[s].now)
                      /\ scheduler'[s].trigger = "schedule" =>
                           /\ Due(policy', scheduler'[s].now)
                           /\ scheduler'[s].mark = policy'.next
    BY DEF SlotHeld
  <1>1. CASE Keeps(s)
    BY <1>1 DEF Keeps, SameEvaluation, SlotHeld
  <1>2. CASE Starts(s)
    BY <1>2, TriggerType DEF Starts
  <1> QED
    BY <1>1, <1>2, Holder

LEMMA EventsHeldStep ==
    ASSUME RetrainingOK, TypeOK, OneHolder, EventsHeld, [Next]_vars
    PROVE  EventsHeld'
  <1> SUFFICES ASSUME NEW s \in Schedulers, Requesting(s)', scheduler'[s].trigger = "events"
               PROVE  /\ policy'.onEvents
                      /\ scheduler'[s].mark = scheduler'[s].latest
                      /\ \/ job'.id = scheduler'[s].latest /\ fresh' >= Threshold
                         \/ /\ job'.id > scheduler'[s].latest
                            /\ job'.status = "active" \/ job'.cooling
    BY DEF EventsHeld
  <1>1. CASE Starts(s)
    BY <1>1, TriggerType DEF Starts
  <1>2. CASE Keeps(s)
    <2>0. /\ job \in Job /\ scheduler[s] \in Scheduler
          /\ fresh \in Nat /\ fresh' \in Nat /\ Threshold \in Nat
      BY JobMoves DEF TypeOK, RetrainingOK
    <2>1. /\ policy'.onEvents
          /\ scheduler'[s].mark = scheduler'[s].latest
          /\ scheduler'[s].latest = scheduler[s].latest
          /\ \/ job.id = scheduler[s].latest /\ fresh >= Threshold
             \/ job.id > scheduler[s].latest /\ (job.status = "active" \/ job.cooling)
      BY <1>2 DEF Keeps, SameEvaluation, EventsHeld
    <2>2. scheduler[s].latest \in Nat /\ job.id \in Nat
      BY <2>0 DEF Scheduler, Job, RetrainingOK
    <2>3. CASE job' = job /\ fresh' >= fresh
      BY <2>0, <2>1, <2>2, <2>3
    <2>4. CASE RequestJob
      BY <2>0, <2>1, <2>2, <2>4 DEF RequestJob, Queued
    <2>5. CASE EndJob
      BY <2>0, <2>1, <2>2, <2>5 DEF EndJob, Job
    <2>6. CASE Cool
      <3>1. job'.id = job.id /\ scheduler[s].latest = job.id /\ fresh' = fresh
        BY <1>2, <2>0, <2>6 DEF Cool, Keeps, Requesting, Job
      <3> QED
        BY <2>1, <2>2, <3>1
    <2> QED
      BY <1>2, <2>3, <2>4, <2>5, <2>6 DEF Keeps
  <1> QED
    BY <1>1, <1>2, Holder

-----------------------------------------------------------------------------
(* Slots and conditions that were used                                      *)

(* A write of the policy leaves it without slots or does not go back, and   *)
(* identifiers are added only with a job.                                   *)
LEMMA SlotMoves ==
    ASSUME RetrainingOK, TypeOK, [Next]_vars
    PROVE  \/ /\ used' = used
              /\ \/ policy'.next = None
                 \/ policy'.next \in Nat /\ policy'.next > clock
                 \/ policy.next \in Nat /\ policy'.next \in Nat /\ policy'.next >= policy.next
           \/ \E s \in Schedulers :
                /\ Requesting(s) /\ Eligible /\ Queued(scheduler[s].trigger)
                /\ used' = used \cup {<<scheduler[s].trigger, scheduler[s].mark>>}
                /\ policy'.next = scheduler[s].next
  <1>0. /\ policy \in Policy /\ clock \in Nat
        /\ scheduler \in [Schedulers -> Scheduler]
    BY DEF TypeOK, RetrainingOK
  <1>1. policy.next \in Nat \cup {None} /\ policy.interval \in Nat \ {0} /\ None \notin Nat
    BY <1>0 DEF Policy, RetrainingOK
  <1>2. CASE UNCHANGED <<policy, used>>
    BY <1>1, <1>2
  <1>3. ASSUME NEW s \in Schedulers, Skip(s), used' = used
        PROVE  \/ policy'.next = None
               \/ policy.next \in Nat /\ policy'.next \in Nat /\ policy'.next >= policy.next
    <2>1. scheduler[s].now \in Nat
      BY <1>0 DEF Scheduler
    <2>2. policy'.next = Advanced(policy, scheduler[s].now)
      BY <1>0, <1>3 DEF Skip, Policy
    <2> QED
      BY <1>0, <1>1, <2>1, <2>2, Advancing
  <1>4. ASSUME NEW s \in Schedulers, RecordRefusal(s)
        PROVE  /\ used' = used
               /\ \/ policy'.next = None
                  \/ policy.next \in Nat /\ policy'.next \in Nat /\ policy'.next >= policy.next
    <2> DEFINE x == scheduler[s]
               n == IF x.trigger = "schedule" /\ policy.next # None /\ policy.next <= x.now
                    THEN SlotAfter(policy.next, policy.interval, x.now) ELSE policy.next
    <2>1. x.now \in Nat
      BY <1>0 DEF Scheduler
    <2>2. n = None \/ (policy.next \in Nat /\ n \in Nat /\ n >= policy.next)
      <3>1. CASE policy.next # None /\ policy.next <= x.now
        <4>1. policy.next \in Nat
          BY <1>1, <3>1
        <4>2. /\ SlotAfter(policy.next, policy.interval, x.now) \in Nat
              /\ SlotAfter(policy.next, policy.interval, x.now) > x.now
          BY <1>1, <2>1, <3>1, <4>1, LaterSlot
        <4> QED
          BY <2>1, <3>1, <4>1, <4>2
      <3>2. CASE ~(policy.next # None /\ policy.next <= x.now)
        BY <1>1, <3>2
      <3> QED
        BY <3>1, <3>2
    <2>3. policy' = [policy EXCEPT !.next = n] /\ used' = used
      BY <1>4 DEF RecordRefusal
    <2> HIDE DEF n
    <2> QED
      BY <1>0, <2>2, <2>3 DEF Policy
  <1>5. ASSUME NEW s \in Schedulers, Create(s)
        PROVE  \/ UNCHANGED <<policy, used>>
               \/ /\ Requesting(s) /\ Eligible /\ Queued(scheduler[s].trigger)
                  /\ used' = used \cup {<<scheduler[s].trigger, scheduler[s].mark>>}
                  /\ policy'.next = scheduler[s].next
    BY <1>0, <1>5 DEF Create, Requesting, Policy
  <1>6. ASSUME NEW schedule \in BOOLEAN, NEW onEvents \in BOOLEAN, NEW interval \in Intervals,
               UpdatePolicy(schedule, interval, onEvents)
        PROVE  /\ used' = used
               /\ \/ policy'.next = None
                  \/ policy'.next \in Nat /\ policy'.next > clock
                  \/ policy.next \in Nat /\ policy'.next = policy.next
    <2>1. interval \in Nat \ {0}
      BY DEF RetrainingOK
    <2> QED
      BY <1>0, <1>1, <1>6, <2>1 DEF UpdatePolicy, Policy
  <1>7. ASSUME NEW s \in Schedulers, Own(s)
        PROVE  \/ Skip(s) /\ used' = used
               \/ RecordRefusal(s) \/ Create(s) \/ UNCHANGED <<policy, used>>
    BY <1>7 DEF Own, Work, Lead, Tick, Evaluate, Trigger, RecordJob, Fail, Crash, LoseGuard
  <1>8. CASE RequestJob \/ EndJob \/ Cool \/ AcceptEvent \/ TimePasses \/ UNCHANGED vars
    <2>1. UNCHANGED <<policy, used>>
      BY <1>8 DEF RequestJob, EndJob, Cool, AcceptEvent, TimePasses, vars
    <2> QED
      BY <1>2, <2>1
  <1>9. CASE \E s \in Schedulers : Own(s)
    <2>1. PICK s \in Schedulers : Own(s)
      BY <1>9
    <2>2. CASE Create(s)
      BY <1>2, <1>5, <2>2
    <2> QED
      BY <1>2, <1>3, <1>4, <1>7, <2>1, <2>2
  <1>10. CASE \E schedule, onEvents \in BOOLEAN, interval \in Intervals :
                UpdatePolicy(schedule, interval, onEvents)
    <2>1. PICK schedule \in BOOLEAN, onEvents \in BOOLEAN, interval \in Intervals :
                 UpdatePolicy(schedule, interval, onEvents)
      BY <1>10
    <2>2. \/ policy'.next = None
          \/ policy'.next \in Nat /\ policy'.next > clock
          \/ policy.next \in Nat /\ policy'.next = policy.next
      BY <1>6, <2>1
    <2>3. used' = used
      BY <1>6, <2>1
    <2> QED
      BY <2>2, <2>3
  <1> QED
    BY <1>8, <1>9, <1>10 DEF Next, Own

(* What a scheduler that creates a job leaves in the policy.                *)
LEMMA SlotPassed ==
    ASSUME RetrainingOK, TypeOK, Clocked, SlotHeld, NEW s \in Schedulers, Requesting(s)
    PROVE  LET x == scheduler[s] IN
           /\ x.trigger \in {"schedule", "events"}
           /\ x.trigger = "schedule" =>
                /\ Due(policy, clock) /\ x.mark = policy.next
                /\ policy.next \in Nat /\ policy.next <= clock
                /\ x.next \in Nat /\ x.next > policy.next
           /\ policy.next = None => x.next = None
           /\ policy.next # None => x.next \in Nat /\ x.next >= policy.next
  <1>1. /\ policy \in Policy /\ clock \in Nat
        /\ scheduler[s].now \in Nat /\ scheduler[s].now <= clock
    BY DEF TypeOK, RetrainingOK, Scheduler, Clocked
  <1>2. /\ scheduler[s].next = Advanced(policy, scheduler[s].now)
        /\ scheduler[s].trigger \in {"schedule", "events"}
        /\ scheduler[s].trigger = "schedule" =>
             Due(policy, scheduler[s].now) /\ scheduler[s].mark = policy.next
    BY DEF SlotHeld
  <1>3. CASE scheduler[s].trigger = "schedule"
    <2>1. /\ policy.next \in Nat /\ Advanced(policy, scheduler[s].now) > scheduler[s].now
          /\ policy.next <= scheduler[s].now
          /\ Advanced(policy, scheduler[s].now) \in Nat
      BY <1>1, <1>2, <1>3, Advancing DEF RetrainingOK
    <2>2. Due(policy, clock)
      BY <1>1, <1>2, <1>3, <2>1 DEF Due
    <2> QED
      BY <1>1, <1>2, <1>3, <2>1, <2>2 DEF RetrainingOK
  <1> QED
    BY <1>1, <1>2, <1>3, Advancing

LEMMA SlotsUsedStep ==
    ASSUME RetrainingOK, TypeOK, Clocked, SlotHeld, SlotsUsed, [Next]_vars
    PROVE  SlotsUsed'
  <1> SUFFICES ASSUME NEW m \in Nat, <<"schedule", m>> \in used'
               PROVE  m <= clock' /\ (policy'.next # None => m < policy'.next)
    BY DEF SlotsUsed
  <1>0. clock \in Nat /\ clock' \in Nat /\ clock' >= clock
    BY ClockMoves DEF TypeOK, RetrainingOK
  <1>1. <<"schedule", m>> \in used => m <= clock /\ (policy.next # None => m < policy.next)
    BY DEF SlotsUsed
  <1>2. None \notin Nat /\ policy.next \in Nat \cup {None}
    BY DEF RetrainingOK, TypeOK, Policy
  <1>3. CASE /\ used' = used
             /\ \/ policy'.next = None
                \/ policy'.next \in Nat /\ policy'.next > clock
                \/ policy.next \in Nat /\ policy'.next \in Nat /\ policy'.next >= policy.next
    BY <1>0, <1>1, <1>2, <1>3
  <1>4. CASE \E s \in Schedulers :
               /\ Requesting(s) /\ Eligible /\ Queued(scheduler[s].trigger)
               /\ used' = used \cup {<<scheduler[s].trigger, scheduler[s].mark>>}
               /\ policy'.next = scheduler[s].next
    <2>1. PICK s \in Schedulers :
            /\ Requesting(s)
            /\ used' = used \cup {<<scheduler[s].trigger, scheduler[s].mark>>}
            /\ policy'.next = scheduler[s].next
      BY <1>4
    <2> DEFINE x == scheduler[s]
    <2>2. /\ x.trigger = "schedule" =>
               /\ x.mark = policy.next
               /\ policy.next \in Nat /\ policy.next <= clock
               /\ x.next \in Nat /\ x.next > policy.next
          /\ policy.next = None => x.next = None
          /\ policy.next # None => x.next \in Nat /\ x.next >= policy.next
      BY <2>1, SlotPassed
    <2>3. <<"schedule", m>> \in used \/ (x.trigger = "schedule" /\ x.mark = m)
      BY <2>1
    <2>4. policy'.next = x.next
      BY <2>1
    <2> HIDE DEF x
    <2> QED
      BY <1>0, <1>1, <1>2, <2>2, <2>3, <2>4
  <1> QED
    BY <1>3, <1>4, SlotMoves

LEMMA EventsUsedStep ==
    ASSUME RetrainingOK, TypeOK, SlotHeld, EventsHeld, EventsUsed, [Next]_vars
    PROVE  EventsUsed'
  <1> SUFFICES ASSUME NEW m \in Nat, <<"events", m>> \in used'
               PROVE  m < job'.id
    BY DEF EventsUsed
  <1>0. job \in Job /\ job' \in Job /\ job.id \in Nat
    BY JobMoves DEF TypeOK, Job, RetrainingOK
  <1>1. <<"events", m>> \in used => m < job.id
    BY DEF EventsUsed
  <1>2. job'.id = job.id \/ job'.id = job.id + 1
    <2>1. \A by : Queued(by) => job'.id = job.id + 1
      BY DEF Queued
    <2>2. EndJob \/ Cool => job'.id = job.id
      BY <1>0 DEF EndJob, Cool, Job
    <2> QED
      BY <2>1, <2>2, JobMoves DEF RequestJob
  <1>3. CASE used' = used
    BY <1>0, <1>1, <1>2, <1>3
  <1>4. CASE \E s \in Schedulers :
               /\ Requesting(s) /\ Eligible /\ Queued(scheduler[s].trigger)
               /\ used' = used \cup {<<scheduler[s].trigger, scheduler[s].mark>>}
               /\ policy'.next = scheduler[s].next
    <2>1. PICK s \in Schedulers :
            /\ Requesting(s) /\ Queued(scheduler[s].trigger)
            /\ used' = used \cup {<<scheduler[s].trigger, scheduler[s].mark>>}
      BY <1>4
    <2>2. job'.id = job.id + 1
      BY <2>1 DEF Queued
    <2>3. CASE scheduler[s].trigger = "events"
      <3>1. /\ scheduler[s].mark = scheduler[s].latest
            /\ job.id = scheduler[s].latest \/ job.id > scheduler[s].latest
        BY <2>1, <2>3 DEF EventsHeld
      <3>2. scheduler[s].latest \in Nat
        BY DEF TypeOK, Scheduler
      <3>3. <<"events", m>> \in used \/ m = scheduler[s].mark
        BY <2>1
      <3> QED
        BY <1>0, <1>1, <2>2, <3>1, <3>2, <3>3
    <2>4. CASE scheduler[s].trigger = "schedule"
      <3>1. <<"events", m>> \in used
        BY <2>1, <2>4
      <3> QED
        BY <1>0, <1>1, <2>2, <3>1
    <2> QED
      BY <2>1, <2>3, <2>4 DEF SlotHeld
  <1> QED
    BY <1>3, <1>4, SlotMoves

LEMMA AsksStep ==
    ASSUME RetrainingOK, TypeOK, OneHolder, SlotsUsed, EventsUsed, AsksOncePerSlot, [Next]_vars
    PROVE  AsksOncePerSlot'
  <1> SUFFICES ASSUME NEW s \in Schedulers, Requesting(s)'
               PROVE  <<scheduler'[s].trigger, scheduler'[s].mark>> \notin used'
    BY DEF AsksOncePerSlot, Requesting
  <1>1. CASE Keeps(s)
    BY <1>1 DEF Keeps, SameEvaluation, AsksOncePerSlot, Requesting
  <1>2. CASE Starts(s)
    <2> DEFINE x == scheduler'[s]
    <2>1. /\ x.trigger \in {"schedule", "events"}
          /\ x.mark = IF x.trigger = "schedule" THEN policy.next ELSE job.id
          /\ x.trigger = "schedule" => policy.next \in Nat
          /\ used' = used
      <3>1. policy \in Policy /\ scheduler[s].now \in Nat
        BY DEF TypeOK, Scheduler
      <3>2. Due(policy, scheduler[s].now) => policy.next \in Nat
        BY <3>1, Advancing
      <3> QED
        BY <1>2, <3>2, TriggerType DEF Starts
    <2>2. job.id \in Nat /\ None \notin Nat
      BY DEF TypeOK, Job, RetrainingOK
    <2> HIDE DEF x
    <2>3. CASE x.trigger = "schedule"
      BY <2>1, <2>2, <2>3 DEF SlotsUsed, x
    <2>4. CASE x.trigger = "events"
      BY <2>1, <2>2, <2>4 DEF EventsUsed, x
    <2> QED
      BY <2>1, <2>3, <2>4
  <1> QED
    BY <1>1, <1>2, Holder

-----------------------------------------------------------------------------
(* The invariant and the theorems                                           *)

LEMMA Initially ==
    ASSUME RetrainingOK, Init
    PROVE  IInv
  <1>1. \A s \in Schedulers : scheduler[s] = Down
    BY DEF Init
  <1>2. /\ Down.stage = "standby" /\ Down.now = 0
        /\ Down \in Scheduler
    BY DEF Down, Scheduler, Stages, Triggers
  <1>3. TypeOK
    <2>1. policy \in Policy
      BY DEF Init, Policy
    <2>2. /\ job \in Job /\ fresh \in 0 .. Threshold /\ clock \in 0 .. MaxClock
          /\ disruptions \in 0 .. MaxDisruptions
      BY DEF Init, Job, RetrainingOK
    <2>3. scheduler \in [Schedulers -> Scheduler]
      BY <1>2 DEF Init
    <2>4. used \in SUBSET (Triggers \X Nat)
      BY DEF Init
    <2> QED
      BY <2>1, <2>2, <2>3, <2>4 DEF TypeOK
  <1>4. \A s \in Schedulers : ~Requesting(s)
    BY <1>1, <1>2 DEF Requesting
  <1>5. OneHolder /\ SlotHeld /\ EventsHeld /\ AsksOncePerSlot
    BY <1>4 DEF OneHolder, SlotHeld, EventsHeld, AsksOncePerSlot, Requesting
  <1>6. Clocked
    BY <1>1, <1>2 DEF Clocked, Init
  <1>7. SlotsUsed /\ EventsUsed
    BY DEF Init, SlotsUsed, EventsUsed
  <1> QED
    BY <1>3, <1>5, <1>6, <1>7 DEF IInv

LEMMA Inductive ==
    ASSUME RetrainingOK, IInv, [Next]_vars
    PROVE  IInv'
  BY TypeStep, OneHolderStep, ClockedStep, SlotHeldStep, EventsHeldStep, SlotsUsedStep,
     EventsUsedStep, AsksStep DEF IInv

LEMMA Invariance == Spec => []IInv
  BY RetrainingOK, Initially, Inductive, PTL DEF Spec

(* Policy, jobs, identifiers and schedulers keep their types; every slot is *)
(* a natural number however often the schedule was changed (service.py).    *)
THEOREM RetrainingTypes == Spec => []TypeOK
  <1>1. IInv => TypeOK
    BY DEF IInv
  <1> QED
    BY <1>1, Invariance, PTL

(* Whatever crashes, fails or overlaps, no slot and no condition starts a   *)
(* job twice (RetrainingService.evaluate).                                  *)
THEOREM SlotsAreAskedOnce == Spec => []AsksOncePerSlot
  <1>1. IInv => AsksOncePerSlot
    BY DEF IInv
  <1> QED
    BY <1>1, Invariance, PTL

(* Who creates a job that is not a person's holds the policy's row.         *)
LEMMA NewJobs ==
    ASSUME RetrainingOK, TypeOK, [Next]_vars, job'.id # job.id, job'.by # "person"
    PROVE  \E s \in Schedulers :
             Requesting(s) /\ Eligible /\ job'.by = scheduler[s].trigger
  <1>1. job \in Job
    BY DEF TypeOK
  <1>2. ~(EndJob \/ Cool)
    BY <1>1 DEF EndJob, Cool, Job
  <1>3. ~RequestJob
    BY DEF RequestJob, Queued
  <1>4. \E s \in Schedulers : Create(s) /\ Eligible /\ Queued(scheduler[s].trigger)
    BY <1>2, <1>3, JobMoves
  <1> QED
    BY <1>4 DEF Create, Requesting, Queued

(* A scheduled job starts only for a slot of the policy as it is when the   *)
(* job is created (_policy with FOR UPDATE).                                *)
THEOREM ScheduledJobsAreDueAlways == Spec => ScheduledJobsAreDue
  <1>1. IInv /\ [Next]_vars => [job'.id # job.id /\ job'.by = "schedule" => Due(policy, clock)]_vars
    <2> SUFFICES ASSUME IInv, [Next]_vars, job'.id # job.id, job'.by = "schedule"
                 PROVE  Due(policy, clock)
      OBVIOUS
    <2>1. \E s \in Schedulers : Requesting(s) /\ scheduler[s].trigger = "schedule"
      BY RetrainingOK, NewJobs DEF IInv
    <2> QED
      BY <2>1, RetrainingOK, SlotPassed DEF IInv
  <1> QED
    BY <1>1, Invariance, PTL DEF Spec, ScheduledJobsAreDue

(* An event-triggered job starts only if the threshold was reached since    *)
(* the latest job, whoever started that one (create_training_job).          *)
THEOREM EventJobsNeedEventsAlways == Spec => EventJobsNeedEvents
  <1>1. IInv /\ [Next]_vars =>
          [job'.id # job.id /\ job'.by = "events" => policy.onEvents /\ fresh >= Threshold]_vars
    <2> SUFFICES ASSUME IInv, [Next]_vars, job'.id # job.id, job'.by = "events"
                 PROVE  policy.onEvents /\ fresh >= Threshold
      OBVIOUS
    <2>1. \E s \in Schedulers : Requesting(s) /\ Eligible /\ scheduler[s].trigger = "events"
      BY RetrainingOK, NewJobs DEF IInv
    <2> QED
      BY <2>1 DEF IInv, EventsHeld, Eligible
  <1> QED
    BY <1>1, Invariance, PTL DEF Spec, EventJobsNeedEvents

=============================================================================

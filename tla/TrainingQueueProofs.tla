------------------------ MODULE TrainingQueueProofs ------------------------
(* Theorems about TrainingQueue for every value of its constants. *)
EXTENDS TrainingQueue, FiniteSetTheorems, TLAPS

(***************************************************************************)
(* Types.                                                                  *)
(***************************************************************************)

(* A worker that is not polling holds a job that exists. *)
BusyHasJob == \A w \in Workers : worker[w].pc \in Busy => worker[w].job \in Jobs

TypeInv == TypeOK /\ BusyHasJob

(* A state of a worker process that TypeInv allows. *)
GoodState(p) == p \in Process /\ (p.pc \in Busy => p.job \in Jobs)

LEMMA RowFacts ==
    /\ NoRow \in Row
    /\ Off \in Process
    /\ NoRow.status = "none" /\ NoRow.tenant = NoTenant /\ NoRow.version = "none"
    /\ NoRow.cancel = FALSE /\ NoRow.attempts = 0
    /\ Off.pc = "down"
BY DEF NoRow, Row, Off, Process, NoJob, Phases, Reasons, Active, Terminal

(* The attempts of a row, as claim and finish_failed_job change them. *)
LEMMA RowAttempts ==
    ASSUME NEW r \in Row, NEW n \in Nat
    PROVE  /\ r.attempts + 1 \in Nat
           /\ [r EXCEPT !.status = "running", !.beat = "fresh", !.attempts = n] \in Row
           /\ [r EXCEPT !.status = "queued", !.beat = "none", !.attempts = n] \in Row
<1>1. r.attempts + 1 \in Nat
  BY DEF Row
<1>2. /\ [r EXCEPT !.status = "running", !.beat = "fresh", !.attempts = n] \in Row
      /\ [r EXCEPT !.status = "queued", !.beat = "none", !.attempts = n] \in Row
  BY DEF Row, Active
<1>3. QED
  BY <1>1, <1>2

LEMMA TypeInit == Init => TypeInv
BY ConstantsOK, RowFacts DEF Init, TypeInv, TypeOK, BusyHasJob, Busy, Phases

LEMMA TypeRecovered ==
    ASSUME TypeOK
    PROVE  Recovered \in [Jobs -> Row]
BY DEF TypeOK, Recovered, Row, Active, Terminal

(* One row, or one worker, changes at a time. *)
LEMMA JobUpdate ==
    ASSUME TypeInv, NEW j, NEW row \in Row, SetJob(j, row)
    PROVE  job' \in [Jobs -> Row]
BY DEF TypeInv, TypeOK, SetJob

LEMMA WorkerUpdate ==
    ASSUME TypeInv, NEW w \in Workers, NEW p, GoodState(p), SetWorker(w, p)
    PROVE  /\ worker' \in [Workers -> Process]
           /\ BusyHasJob'
<1>1. worker' \in [Workers -> Process]
  BY DEF TypeInv, TypeOK, SetWorker, GoodState
<1>2. ASSUME NEW v \in Workers
      PROVE  worker'[v] = IF v = w THEN p ELSE worker[v]
  BY DEF TypeInv, TypeOK, SetWorker
<1>3. BusyHasJob'
  BY <1>2 DEF TypeInv, BusyHasJob, GoodState
<1>4. QED
  BY <1>1, <1>3

LEMMA DisruptType ==
    ASSUME TypeInv, Disrupt
    PROVE  disruptions' \in 0 .. MaxDisruptions
BY ConstantsOK DEF TypeInv, TypeOK, Disrupt

(* A row as finish_failed_job decides it. *)
LEMMA DecidedType ==
    ASSUME NEW w \in Workers, worker[w].seen \in Row
    PROVE  Decided(w) \in Row
<1> DEFINE read == worker[w].seen
           n == IF read.attempts = 0 THEN 0 ELSE read.attempts - 1
<1>1. n \in Nat
  BY DEF Row
<1> HIDE DEF n
<1>2. /\ [read EXCEPT !.status = "queued", !.beat = "none"] \in Row
      /\ [read EXCEPT !.status = "cancelled"] \in Row
      /\ [read EXCEPT !.status = "failed"] \in Row
  BY DEF Row, Active, Terminal
<1>3. [read EXCEPT !.status = "queued", !.beat = "none", !.attempts = n] \in Row
  BY <1>1, RowAttempts
<1>4. QED
  BY <1>2, <1>3 DEF Decided, n

(* The states a worker reaches from a busy state are good. *)
LEMMA GoodStates ==
    ASSUME TypeInv, NEW w \in Workers
    PROVE  /\ GoodState(Off)
           /\ GoodState([Off EXCEPT !.pc = "idle"])
           /\ GoodState(Freed(w))
           /\ GoodState([worker[w] EXCEPT !.stop = TRUE])
           /\ worker[w].pc \in Busy =>
                 /\ \A pc \in Phases : GoodState([worker[w] EXCEPT !.pc = pc])
                 /\ \A reason \in Reasons :
                       GoodState([worker[w] EXCEPT !.pc = "raised", !.why = reason])
                 /\ \A r \in Row : GoodState([worker[w] EXCEPT !.pc = "cleaned", !.seen = r])
           /\ \A j \in Jobs : GoodState([worker[w] EXCEPT !.pc = "claimed", !.job = j])
<1>1. worker[w] \in Process /\ (worker[w].pc \in Busy => worker[w].job \in Jobs)
  BY DEF TypeInv, TypeOK, BusyHasJob
<1> USE RowFacts DEF GoodState, Process, Busy, Phases, NoJob, Reasons
<1>2. /\ GoodState(Off) /\ GoodState([Off EXCEPT !.pc = "idle"])
  BY DEF Off
<1>3. GoodState(Freed(w))
  BY <1>1 DEF Off, Freed
<1>4. /\ GoodState([worker[w] EXCEPT !.stop = TRUE])
      /\ \A j \in Jobs : GoodState([worker[w] EXCEPT !.pc = "claimed", !.job = j])
  BY <1>1
<1>5. ASSUME worker[w].pc \in Busy
      PROVE  /\ \A pc \in Phases : GoodState([worker[w] EXCEPT !.pc = pc])
             /\ \A reason \in Reasons :
                   GoodState([worker[w] EXCEPT !.pc = "raised", !.why = reason])
             /\ \A r \in Row : GoodState([worker[w] EXCEPT !.pc = "cleaned", !.seen = r])
  <2>1. worker[w] \in Process /\ worker[w].job \in Jobs
    BY <1>1, <1>5
  <2>2. \A pc \in Phases : GoodState([worker[w] EXCEPT !.pc = pc])
    BY <2>1
  <2>3. \A reason \in Reasons :
          GoodState([worker[w] EXCEPT !.pc = "raised", !.why = reason])
    BY <2>1
  <2>4. \A r \in Row : GoodState([worker[w] EXCEPT !.pc = "cleaned", !.seen = r])
    BY <2>1
  <2>5. QED
    BY <2>2, <2>3, <2>4
<1>6. QED
  BY <1>2, <1>3, <1>4, <1>5

LEMMA TypeTenant ==
    ASSUME TypeInv, Tenant
    PROVE  TypeInv'
<1> USE DEF TypeInv, TypeOK, BusyHasJob
<1>1. ASSUME NEW t \in Tenants, RequestTraining(t)
      PROVE  TypeInv'
  <2>1. [NoRow EXCEPT !.tenant = t, !.status = "queued"] \in Row
    BY DEF NoRow, Row, Active
  <2>2. job' \in [Jobs -> Row]
    BY <1>1, <2>1, JobUpdate DEF RequestTraining
  <2>3. QED
    BY <1>1, <2>2 DEF RequestTraining
<1>2. ASSUME NEW t \in Tenants, RegisterVersion(t)
      PROVE  TypeInv'
  BY <1>2 DEF RegisterVersion
<1>3. ASSUME NEW t \in Tenants, ArchiveVersion(t)
      PROVE  TypeInv'
  <2>1. ASSUME NEW j \in Jobs
        PROVE  [job[j] EXCEPT !.version = "archived"] \in Row
    <3>1. job[j] \in Row
      OBVIOUS
    <3>2. QED
      BY <3>1 DEF Row
  <2>2. job' \in [Jobs -> Row]
    BY <1>3, <2>1, JobUpdate DEF ArchiveVersion, JobsOf
  <2>3. others' \in [Tenants -> Nat]
    BY <1>3 DEF ArchiveVersion
  <2>4. QED
    BY <1>3, <2>2, <2>3 DEF ArchiveVersion
<1>4. ASSUME NEW t \in Tenants, SetTenantStatus(t)
      PROVE  TypeInv'
  BY <1>4 DEF SetTenantStatus
<1>5. QED
  BY <1>1, <1>2, <1>3, <1>4 DEF Tenant

LEMMA TypeJob ==
    ASSUME TypeInv, NEW j \in Jobs, CancelTraining(j) \/ Heartbeat(j)
    PROVE  TypeInv'
<1>1. job[j] \in Row
  BY DEF TypeInv, TypeOK
<1>2. [job[j] EXCEPT !.cancel = TRUE,
                     !.status = IF @ = "queued" THEN "cancelled" ELSE @] \in Row
  BY <1>1 DEF Row, Terminal
<1>3. [job[j] EXCEPT !.beat = "stale"] \in Row
  BY <1>1 DEF Row
<1>4. job' \in [Jobs -> Row]
  BY <1>2, <1>3, JobUpdate DEF CancelTraining, Heartbeat
<1>5. QED
  BY <1>4 DEF CancelTraining, Heartbeat, TypeInv, TypeOK, BusyHasJob

LEMMA TypeWorker ==
    ASSUME TypeInv, NEW w \in Workers, WorkerStep(w)
    PROVE  TypeInv'
<1> DEFINE me == worker[w]
           row == job[me.job]
<1>0. /\ me \in Process
      /\ me.pc \in Busy => me.job \in Jobs /\ row \in Row
  BY DEF TypeInv, TypeOK, BusyHasJob
<1> DEFINE Rows == job' \in [Jobs -> Row]
           Processes == worker' \in [Workers -> Process] /\ BusyHasJob'
           Rest == /\ directories' \subseteq Jobs
                   /\ others' \in [Tenants -> Nat]
                   /\ enabled' \subseteq Tenants
                   /\ guard' \in Workers \cup {NoWorker}
                   /\ disruptions' \in 0 .. MaxDisruptions
                   /\ mishaps' \subseteq Mishaps
<1>a. Rows /\ Processes /\ Rest => TypeInv'
  BY DEF TypeInv, TypeOK
<1>b. UNCHANGED job => Rows
  BY DEF TypeInv, TypeOK
<1>c. UNCHANGED worker => Processes
  BY DEF TypeInv, TypeOK, BusyHasJob
<1>d. ASSUME me.pc \in Busy, NEW pc \in Phases, Goto(w, pc)
      PROVE  Processes
  BY <1>d, GoodStates, WorkerUpdate DEF Goto
<1>e. ASSUME me.pc \in Busy, NEW reason \in Reasons, Raise(w, reason)
      PROVE  Processes
  BY <1>e, GoodStates, WorkerUpdate DEF Raise
<1>1. CASE Claim(w)
  <2>1. Rest
    BY <1>1 DEF Claim, TypeInv, TypeOK
  <2>2. Recovered \in [Jobs -> Row]
    BY TypeRecovered DEF TypeInv
  <2>3. ASSUME NEW j \in Jobs
        PROVE  Started(j) \in Row
    <3>1. job[j] \in Row
      BY DEF TypeInv, TypeOK
    <3>2. QED
      BY <3>1, RowAttempts DEF Started
  <2>4. Rows
    BY <1>1, <2>2, <2>3 DEF Claim, Claimable
  <2>5. Processes
    BY <1>1, <1>c, GoodStates, WorkerUpdate DEF Claim, Claimable
  <2>6. QED
    BY <1>a, <2>1, <2>4, <2>5
<1>2. CASE Prepare(w)
  BY <1>0, <1>2, <1>a, <1>b, <1>d DEF Prepare, TypeInv, TypeOK, Busy, Phases
<1>3. CASE PulseStops(w)
  BY <1>0, <1>3, <1>a, <1>b, <1>e DEF PulseStops, TypeInv, TypeOK, Busy, Phases, Reasons
<1>4. CASE Pulse(w)
  <2>1. me.pc \in Busy
    BY <1>4 DEF Pulse, Busy, Phases
  <2>2. [row EXCEPT !.beat = "fresh", !.begun = TRUE] \in Row
    BY <2>1, <1>0 DEF Row
  <2>3. Rows
    BY <1>4, <2>2, JobUpdate DEF Pulse
  <2>4. Processes
    BY <1>4, <2>1, <1>c, <1>d DEF Pulse, Phases
  <2>5. QED
    BY <1>4, <1>a, <2>3, <2>4 DEF Pulse, TypeInv, TypeOK
<1>5. CASE TrainingFails(w)
  BY <1>0, <1>5, <1>a, <1>b, <1>e DEF TrainingFails, TypeInv, TypeOK, Busy, Phases, Reasons
<1>6. CASE Register(w)
  <2>1. me.pc \in Busy
    BY <1>6 DEF Register, Busy, Phases
  <2>2. Processes
    BY <1>6, <2>1, <1>d, <1>e DEF Register, Phases, Reasons
  <2>3. QED
    BY <1>6, <1>a, <1>b, <2>2 DEF Register, TypeInv, TypeOK
<1>7. CASE Commit(w)
  <2>1. me.pc \in Busy
    BY <1>7 DEF Commit, Busy, Phases
  <2>2. Succeeded(me.job) \in Row
    BY <1>0, <2>1 DEF Succeeded, Row, Terminal
  <2>3. Rows
    BY <1>7, <1>b, <2>2, JobUpdate DEF Commit
  <2>4. Processes
    BY <1>7, <2>1, <1>e, GoodStates, WorkerUpdate DEF Commit, Reasons
  <2>5. Rest
    BY <1>7, DisruptType DEF Commit, Mishaps, TypeInv, TypeOK
  <2>6. QED
    BY <1>a, <2>3, <2>4, <2>5
<1>8. CASE Cleanup(w)
  <2>1. me.pc \in Busy
    BY <1>8 DEF Cleanup, Busy, Phases
  <2>2. row \in Row
    BY <1>0, <2>1
  <2>3. Processes
    BY <1>8, <2>1, <2>2, GoodStates, WorkerUpdate DEF Cleanup
  <2>4. QED
    BY <1>8, <1>a, <1>b, <2>3 DEF Cleanup, TypeInv, TypeOK
<1>9. CASE FinishFailed(w)
  <2>1. me.pc \in Busy
    BY <1>9 DEF FinishFailed, Busy, Phases
  <2>2. Outcome(w) \in Row
    <3>1. row \in Row /\ me.seen \in Row
      BY <1>0, <2>1 DEF Process
    <3>2. Decided(w) \in Row
      BY <3>1, DecidedType
    <3>3. /\ Flush(me.seen.status, Decided(w).status, row.status)
               \in {"none"} \cup Active \cup Terminal
          /\ Flush(me.seen.attempts, Decided(w).attempts, row.attempts) \in Nat
          /\ Flush(me.seen.beat, Decided(w).beat, row.beat) \in {"none", "fresh", "stale"}
      BY <3>1, <3>2 DEF Flush, Row
    <3>4. QED
      BY <3>1, <3>3 DEF Outcome, Row
  <2>3. Rows
    BY <1>9, <2>2, JobUpdate DEF FinishFailed
  <2>4. Processes
    BY <1>9, GoodStates, WorkerUpdate DEF FinishFailed
  <2>5. QED
    BY <1>9, <1>a, <2>3, <2>4 DEF FinishFailed, TypeInv, TypeOK
<1>10. CASE FinishLost(w)
  BY <1>10, <1>a, <1>b, GoodStates, WorkerUpdate, DisruptType
     DEF FinishLost, TypeInv, TypeOK
<1>11. CASE DependencyFails(w)
  <2>1. me.pc \in Busy
    BY <1>11 DEF DependencyFails, Busy, Phases
  <2>2. QED
    BY <1>11, <1>a, <1>b, <1>e, <2>1, DisruptType
       DEF DependencyFails, TypeInv, TypeOK, Reasons
<1>12. CASE StartWorker(w)
  BY <1>12, <1>a, <1>b, GoodStates, WorkerUpdate DEF StartWorker, TypeInv, TypeOK
<1>13. CASE SignalStop(w)
  BY <1>13, <1>a, <1>b, GoodStates, WorkerUpdate, DisruptType
     DEF SignalStop, TypeInv, TypeOK
<1>14. CASE Exit(w)
  BY <1>14, <1>a, <1>b, GoodStates, WorkerUpdate DEF Exit, TypeInv, TypeOK
<1>15. CASE Crash(w)
  BY <1>15, <1>a, <1>b, GoodStates, WorkerUpdate, DisruptType
     DEF Crash, TypeInv, TypeOK
<1>16. CASE DropGuard(w)
  BY <1>16, <1>a, <1>b, <1>c, DisruptType DEF DropGuard, Mishaps, TypeInv, TypeOK
<1>17. QED
  BY <1>1, <1>2, <1>3, <1>4, <1>5, <1>6, <1>7, <1>8, <1>9, <1>10, <1>11, <1>12,
     <1>13, <1>14, <1>15, <1>16 DEF WorkerStep

LEMMA TypeStep == TypeInv /\ [Next]_vars => TypeInv'
<1> SUFFICES ASSUME TypeInv, [Next]_vars
             PROVE  TypeInv'
  OBVIOUS
<1>1. CASE UNCHANGED vars
  BY <1>1 DEF TypeInv, TypeOK, BusyHasJob, vars
<1>2. CASE Next
  BY <1>2, TypeTenant, TypeJob, TypeWorker DEF Next
<1>3. QED
  BY <1>1, <1>2

(* Every action keeps every variable in its type, whatever mishap happens. *)
THEOREM TypeCorrect == Spec => []TypeOK
<1>1. TypeInv => TypeOK
  BY DEF TypeInv
<1>2. QED
  BY TypeInit, TypeStep, <1>1, PTL DEF Spec

(***************************************************************************)
(* Safety.  The inductive invariant.                                       *)
(***************************************************************************)

(* Who may act as a worker: the owner of the advisory lock. *)
GuardInv ==
    "guard_dropped" \notin mishaps
        => \A w \in Workers : worker[w].pc # "down" => guard = w

(* What a row satisfies on its own. *)
SoundRow(r) ==
    /\ r.attempts <= MaxAttempts
    /\ r.status = "queued" => r.attempts < MaxAttempts
    /\ r.status = "running" => r.attempts > 0
    /\ (r.version # "none") <=> (r.status = "succeeded")
    /\ r.cancel => r.status # "succeeded"

RowsInv == \A j \in Jobs : SoundRow(job[j])

DirectoryInv == \A j \in Jobs : job[j].version = "retained" => j \in directories

(* What a worker that holds a job may rely on. *)
Holds(w) ==
    LET me == worker[w]
        j  == worker[w].job
    IN  /\ job[j].status = "running"
        /\ me.pc = "cleaned" =>
              me.seen.status = "running" /\ me.seen.attempts = job[j].attempts
        /\ me.pc \in {"training", "trained", "committing"} => j \in directories
        /\ me.pc = "committing" => ~job[j].cancel
        /\ me.pc \in {"raised", "cleaned"} /\ me.why = "cancelled" => job[j].cancel

HolderInv == \A w \in Workers : worker[w].pc \in Busy => Holds(w)

CalmInv == RowsInv /\ DirectoryInv /\ HolderInv /\ OneActiveJob

IInv == TypeInv /\ GuardInv /\ (Calm => CalmInv)

LEMMA InitInv == Init => IInv
<1> SUFFICES ASSUME Init PROVE IInv
  OBVIOUS
<1>1. \A j \in Jobs : job[j] = NoRow
  BY DEF Init
<1>2. \A w \in Workers : worker[w].pc = "down"
  BY RowFacts DEF Init
<1>3. RowsInv
  BY <1>1, RowFacts, ConstantsOK DEF RowsInv, SoundRow
<1>4. DirectoryInv /\ OneActiveJob
  BY <1>1, RowFacts DEF DirectoryInv, OneActiveJob, Active
<1>5. GuardInv /\ HolderInv
  BY <1>2 DEF GuardInv, HolderInv, Busy
<1>6. QED
  BY <1>3, <1>4, <1>5, TypeInit DEF IInv, CalmInv

(* A mishap is remembered. *)
LEMMA MishapsGrow ==
    ASSUME Next
    PROVE  mishaps \subseteq mishaps'
<1>1. CASE Tenant
  BY <1>1 DEF Tenant, RequestTraining, RegisterVersion, ArchiveVersion, SetTenantStatus
<1>2. ASSUME NEW j \in Jobs, CancelTraining(j) \/ Heartbeat(j)
      PROVE  mishaps \subseteq mishaps'
  BY <1>2 DEF CancelTraining, Heartbeat
<1>3. ASSUME NEW w \in Workers, WorkerStep(w)
      PROVE  mishaps \subseteq mishaps'
  BY <1>3 DEF WorkerStep, Claim, Prepare, PulseStops, Pulse, TrainingFails, Register,
     Commit, Cleanup, FinishFailed, FinishLost, DependencyFails, StartWorker,
     SignalStop, Exit, Crash, DropGuard
<1>4. QED
  BY <1>1, <1>2, <1>3 DEF Next

(* Only the worker that steps, and never the lock of another one. *)
LEMMA GuardStep ==
    ASSUME TypeInv, GuardInv, Next
    PROVE  GuardInv'
<1> SUFFICES ASSUME "guard_dropped" \notin mishaps',
                    NEW v \in Workers, worker'[v].pc # "down"
             PROVE  guard' = v
  BY DEF GuardInv
<1>1. \A w \in Workers : worker[w].pc # "down" => guard = w
  BY MishapsGrow DEF GuardInv
<1>2. CASE UNCHANGED <<worker, guard>>
  BY <1>1, <1>2
<1>3. ASSUME NEW w \in Workers, NEW p, SetWorker(w, p)
      PROVE  worker'[v] = IF v = w THEN p ELSE worker[v]
  BY <1>3 DEF SetWorker, TypeInv, TypeOK
<1>4. ASSUME NEW w \in Workers, NEW p, SetWorker(w, p),
             worker[w].pc # "down", UNCHANGED guard
      PROVE  guard' = v
  BY <1>1, <1>3, <1>4
<1>5. ASSUME NEW w \in Workers, StartWorker(w)
      PROVE  guard' = v
  BY <1>1, <1>3, <1>5, ConstantsOK DEF StartWorker
<1>6. ASSUME NEW w \in Workers, Exit(w) \/ Crash(w)
      PROVE  guard' = v
  BY <1>1, <1>3, <1>6, RowFacts DEF Exit, Crash
<1>7. ASSUME NEW w \in Workers, DropGuard(w)
      PROVE  guard' = v
  BY <1>7 DEF DropGuard
<1>8. ASSUME NEW w \in Workers,
             \/ Claim(w) \/ Prepare(w) \/ PulseStops(w) \/ Pulse(w) \/ TrainingFails(w)
             \/ Register(w) \/ Commit(w) \/ Cleanup(w) \/ FinishFailed(w)
             \/ FinishLost(w) \/ DependencyFails(w) \/ SignalStop(w)
      PROVE  guard' = v
  <2>1. UNCHANGED guard
    BY <1>8 DEF Claim, Prepare, PulseStops, Pulse, TrainingFails, Register, Commit,
       Cleanup, FinishFailed, FinishLost, DependencyFails, SignalStop
  <2>2. worker[w].pc # "down"
    BY <1>8 DEF Claim, Prepare, PulseStops, Pulse, TrainingFails, Register, Commit,
       Cleanup, FinishFailed, FinishLost, DependencyFails, SignalStop
  <2>3. UNCHANGED worker \/ \E p : SetWorker(w, p)
    BY <1>8 DEF Claim, Prepare, PulseStops, Pulse, TrainingFails, Register, Commit,
       Cleanup, FinishFailed, FinishLost, DependencyFails, SignalStop, Goto, Raise
  <2>4. QED
    BY <1>2, <1>4, <2>1, <2>2, <2>3
<1>9. CASE Tenant \/ \E j \in Jobs : CancelTraining(j) \/ Heartbeat(j)
  BY <1>2, <1>9 DEF Tenant, RequestTraining, RegisterVersion, ArchiveVersion,
     SetTenantStatus, CancelTraining, Heartbeat
<1>10. QED
  BY <1>5, <1>6, <1>7, <1>8, <1>9 DEF Next, WorkerStep

(* Under the lock, the worker that steps is the only one that is up. *)
LEMMA Alone ==
    ASSUME GuardInv, Calm, NEW v \in Workers, NEW w \in Workers, v # w,
           worker[w].pc # "down"
    PROVE  worker[v].pc = "down"
BY DEF GuardInv, Calm

(* So what a worker may rely on is its own business. *)
LEMMA HolderStep ==
    ASSUME TypeInv, GuardInv, Calm, NEW w \in Workers, worker[w].pc # "down",
           UNCHANGED worker \/ \E p : SetWorker(w, p),
           worker'[w].pc \in Busy => Holds(w)'
    PROVE  HolderInv'
<1> SUFFICES ASSUME NEW v \in Workers, v # w, worker'[v].pc \in Busy
             PROVE  FALSE
  BY DEF HolderInv
<1>1. worker'[v] = worker[v]
  BY DEF SetWorker, TypeInv, TypeOK
<1>2. QED
  BY <1>1, Alone DEF Busy

(* One row changes and stays sound. *)
LEMMA RowStep ==
    ASSUME TypeInv, Calm, CalmInv, NEW j \in Jobs, NEW row, SetJob(j, row),
           SoundRow(row), row.tenant = job[j].tenant,
           row.status \in Active => job[j].status \in Active
    PROVE  RowsInv' /\ OneActiveJob'
<1>1. \A i \in Jobs : job'[i] = IF i = j THEN row ELSE job[i]
  BY DEF TypeInv, TypeOK, SetJob
<1>2. RowsInv'
  BY <1>1 DEF CalmInv, RowsInv, SoundRow
<1>3. OneActiveJob'
  BY <1>1 DEF CalmInv, OneActiveJob
<1>4. QED
  BY <1>2, <1>3

(* The rows stay as they are. *)
LEMMA NoRowStep ==
    ASSUME CalmInv, Calm, UNCHANGED job
    PROVE  RowsInv' /\ OneActiveJob'
BY DEF CalmInv, Calm, RowsInv, OneActiveJob, SoundRow

LEMMA CalmTenant ==
    ASSUME IInv, Calm, Tenant
    PROVE  CalmInv'
<1> USE DEF IInv
<1>1. ASSUME NEW t \in Tenants, RequestTraining(t)
      PROVE  CalmInv'
  <2> DEFINE row == [NoRow EXCEPT !.tenant = t, !.status = "queued"]
  <2>1. PICK j \in Jobs : job[j].status = "none" /\ SetJob(j, row)
    BY <1>1 DEF RequestTraining
  <2>2. \A i \in Jobs : job'[i] = IF i = j THEN row ELSE job[i]
    BY <2>1 DEF TypeInv, TypeOK, SetJob
  <2>3. /\ row.tenant = t /\ row.status = "queued" /\ row.attempts = 0
        /\ row.cancel = FALSE /\ row.version = "none"
    BY DEF NoRow
  <2> HIDE DEF row
  <2>4. RowsInv'
    BY <2>2, <2>3, ConstantsOK DEF CalmInv, RowsInv, SoundRow
  <2>5. DirectoryInv'
    BY <1>1, <2>2, <2>3 DEF CalmInv, DirectoryInv, RequestTraining
  <2>6. \A i \in Jobs : job[i].tenant = t => job[i].status \notin Active
    BY <1>1 DEF RequestTraining, HasActive, JobsOf
  <2>7. OneActiveJob'
    BY <2>2, <2>3, <2>6 DEF CalmInv, OneActiveJob
  <2>8. HolderInv'
    <3>1. UNCHANGED <<worker, directories>>
      BY <1>1 DEF RequestTraining
    <3>2. \A w \in Workers : worker[w].pc \in Busy => worker[w].job # j
      BY <2>1 DEF CalmInv, HolderInv, Holds
    <3>3. \A w \in Workers : worker[w].pc \in Busy => job'[worker[w].job] = job[worker[w].job]
      BY <2>2, <3>2 DEF TypeInv, BusyHasJob
    <3>4. QED
      BY <3>1, <3>3 DEF CalmInv, HolderInv, Holds
  <2>9. QED
    BY <2>4, <2>5, <2>7, <2>8 DEF CalmInv
<1>2. ASSUME NEW t \in Tenants, RegisterVersion(t) \/ SetTenantStatus(t)
      PROVE  CalmInv'
  <2>1. UNCHANGED <<job, directories, worker, mishaps>>
    BY <1>2 DEF RegisterVersion, SetTenantStatus
  <2>2. QED
    BY <2>1, NoRowStep DEF CalmInv, DirectoryInv, HolderInv, Holds
<1>3. ASSUME NEW t \in Tenants, ArchiveVersion(t)
      PROVE  CalmInv'
  <2>1. UNCHANGED <<directories, worker, mishaps>>
    BY <1>3 DEF ArchiveVersion
  <2>2. CASE UNCHANGED job
    BY <2>1, <2>2, NoRowStep DEF CalmInv, DirectoryInv, HolderInv, Holds
  <2>3. ASSUME NEW j \in Jobs, job[j].version = "retained",
               SetJob(j, [job[j] EXCEPT !.version = "archived"])
        PROVE  CalmInv'
    <3> DEFINE row == [job[j] EXCEPT !.version = "archived"]
    <3>1. job[j] \in Row
      BY DEF TypeInv, TypeOK
    <3>2. /\ row.tenant = job[j].tenant /\ row.status = job[j].status
          /\ row.attempts = job[j].attempts /\ row.cancel = job[j].cancel
          /\ row.version = "archived"
      BY <3>1 DEF Row
    <3>3. SoundRow(job[j])
      BY DEF CalmInv, RowsInv
    <3>4. SoundRow(row)
      BY <2>3, <3>2, <3>3 DEF SoundRow
    <3>5. RowsInv' /\ OneActiveJob'
      BY <2>3, <3>2, <3>4, RowStep
    <3>6. \A i \in Jobs : job'[i] = IF i = j THEN row ELSE job[i]
      BY <2>3 DEF TypeInv, TypeOK, SetJob
    <3>7. DirectoryInv'
      BY <2>1, <3>2, <3>6 DEF CalmInv, DirectoryInv
    <3>8. job[j].status = "succeeded"
      BY <2>3, <3>3 DEF SoundRow
    <3>9. HolderInv'
      <4>1. \A w \in Workers : worker[w].pc \in Busy => worker[w].job # j
        BY <3>8 DEF CalmInv, HolderInv, Holds
      <4>2. \A w \in Workers : worker[w].pc \in Busy => job'[worker[w].job] = job[worker[w].job]
        BY <3>6, <4>1 DEF TypeInv, BusyHasJob
      <4>3. QED
        BY <2>1, <4>2 DEF CalmInv, HolderInv, Holds
    <3>10. QED
      BY <3>5, <3>7, <3>9 DEF CalmInv
  <2>4. QED
    BY <1>3, <2>2, <2>3 DEF ArchiveVersion, JobsOf
<1>4. QED
  BY <1>1, <1>2, <1>3 DEF Tenant

LEMMA CalmJob ==
    ASSUME IInv, Calm, NEW j \in Jobs, CancelTraining(j) \/ Heartbeat(j)
    PROVE  CalmInv'
<1> USE DEF IInv
<1>0. /\ job[j] \in Row
      /\ SoundRow(job[j])
      /\ UNCHANGED <<directories, worker, mishaps>>
  BY DEF TypeInv, TypeOK, CalmInv, RowsInv, CancelTraining, Heartbeat
<1>1. PICK row :
        /\ SetJob(j, row)
        /\ job[j].status \in Active
        /\ row.tenant = job[j].tenant
        /\ row.attempts = job[j].attempts
        /\ row.version = job[j].version
        /\ \/ row.status = job[j].status
           \/ job[j].status = "queued" /\ row.status = "cancelled"
        /\ \/ row.cancel = job[j].cancel
           \/ row.cancel /\ ~RowLocked(j)
  <2>1. CASE CancelTraining(j)
    <3> DEFINE row == [job[j] EXCEPT !.cancel = TRUE,
                                     !.status = IF @ = "queued" THEN "cancelled" ELSE @]
    <3>1. /\ row.tenant = job[j].tenant /\ row.attempts = job[j].attempts
          /\ row.version = job[j].version /\ row.cancel
          /\ row.status = IF job[j].status = "queued" THEN "cancelled" ELSE job[j].status
      BY <1>0 DEF Row
    <3>2. QED
      BY <2>1, <3>1 DEF CancelTraining
  <2>2. CASE Heartbeat(j)
    <3> DEFINE row == [job[j] EXCEPT !.beat = "stale"]
    <3>1. /\ row.tenant = job[j].tenant /\ row.attempts = job[j].attempts
          /\ row.version = job[j].version /\ row.cancel = job[j].cancel
          /\ row.status = job[j].status
      BY <1>0 DEF Row
    <3>2. QED
      BY <2>2, <3>1 DEF Heartbeat, Active
  <2>3. QED
    BY <2>1, <2>2
<1>2. SoundRow(row)
  BY <1>0, <1>1 DEF SoundRow, Active
<1>3. RowsInv' /\ OneActiveJob'
  BY <1>1, <1>2, RowStep
<1>4. \A i \in Jobs : job'[i] = IF i = j THEN row ELSE job[i]
  BY <1>1 DEF TypeInv, TypeOK, SetJob
<1>5. DirectoryInv'
  BY <1>0, <1>1, <1>4 DEF CalmInv, DirectoryInv
<1>6. HolderInv'
  <2> SUFFICES ASSUME NEW w \in Workers, worker[w].pc \in Busy
               PROVE  Holds(w)'
    BY <1>0 DEF HolderInv
  <2>1. Holds(w) /\ worker[w].job \in Jobs
    BY DEF CalmInv, HolderInv, TypeInv, BusyHasJob
  <2>2. CASE worker[w].job # j
    BY <1>0, <1>4, <2>1, <2>2 DEF Holds
  <2>3. CASE worker[w].job = j
    <3>1. job'[j] = row
      BY <1>4
    <3>2. worker[w].pc = "committing" => RowLocked(j)
      BY <2>3 DEF RowLocked
    <3>3. row.status = "running"
      BY <1>1, <2>1, <2>3 DEF Holds
    <3>4. QED
      BY <1>0, <1>1, <2>1, <2>3, <3>1, <3>2, <3>3 DEF Holds
  <2>4. QED
    BY <2>2, <2>3
<1>7. QED
  BY <1>3, <1>5, <1>6 DEF CalmInv

(* claim_training_job: the claimant is alone, so nobody loses its row.      *)
LEMMA CalmClaim ==
    ASSUME IInv, Calm, NEW w \in Workers, Claim(w)
    PROVE  CalmInv'
<1> USE DEF IInv
<1>1. /\ worker[w].pc = "idle"
      /\ UNCHANGED <<directories, mishaps>>
  BY DEF Claim
<1>2. \A j \in Jobs : job[j] \in Row /\ SoundRow(job[j])
  BY DEF TypeInv, TypeOK, CalmInv, RowsInv
<1>3. ASSUME NEW j \in Jobs
      PROVE  /\ Recovered[j].tenant = job[j].tenant
             /\ Recovered[j].version = job[j].version
             /\ SoundRow(Recovered[j])
             /\ Recovered[j].status \in Active => job[j].status \in Active
             /\ Recovered[j].status = "queued" =>
                   job[j].attempts < MaxAttempts /\ job[j].status \in Active
  <2>1. CASE ~Interrupted(j)
    BY <1>2, <2>1 DEF Recovered, SoundRow, Active
  <2>2. CASE Interrupted(j)
    <3> DEFINE s == IF job[j].attempts < MaxAttempts THEN "queued" ELSE "failed"
               row == [job[j] EXCEPT !.status = s]
    <3>1. Recovered[j] = row
      BY <2>2 DEF Recovered
    <3>2. /\ row.tenant = job[j].tenant /\ row.version = job[j].version
          /\ row.attempts = job[j].attempts /\ row.cancel = job[j].cancel
          /\ row.status = s
      BY <1>2 DEF Row
    <3> HIDE DEF row
    <3>3. QED
      BY <1>2, <2>2, <3>1, <3>2 DEF SoundRow, Active, Interrupted
  <2>3. QED
    BY <2>1, <2>2
<1>4. ASSUME NEW j \in Jobs, Recovered[j].status = "queued"
      PROVE  /\ Started(j).tenant = job[j].tenant
             /\ Started(j).version = job[j].version
             /\ Started(j).status = "running"
             /\ SoundRow(Started(j))
             /\ job[j].status \in Active
  <2>1. /\ Started(j).tenant = job[j].tenant
        /\ Started(j).version = job[j].version
        /\ Started(j).cancel = job[j].cancel
        /\ Started(j).status = "running"
        /\ Started(j).attempts = job[j].attempts + 1
    BY <1>2 DEF Started, Row
  <2>2. job[j].attempts \in Nat
    BY <1>2 DEF Row
  <2>3. job[j].attempts < MaxAttempts /\ job[j].status \in Active
    BY <1>3, <1>4
  <2>4. SoundRow(Started(j))
    BY <1>2, <2>1, <2>2, <2>3, ConstantsOK DEF SoundRow, Active
  <2>5. QED
    BY <2>1, <2>3, <2>4
<1>5. \A i \in Jobs :
        /\ SoundRow(job'[i])
        /\ job'[i].tenant = job[i].tenant
        /\ job'[i].version = job[i].version
        /\ job'[i].status \in Active => job[i].status \in Active
  <2>1. CASE job' = Recovered
    BY <1>3, <2>1
  <2>2. ASSUME NEW j \in Claimable(Recovered), job' = [Recovered EXCEPT ![j] = Started(j)]
        PROVE  \A i \in Jobs :
                 /\ SoundRow(job'[i])
                 /\ job'[i].tenant = job[i].tenant
                 /\ job'[i].version = job[i].version
                 /\ job'[i].status \in Active => job[i].status \in Active
    <3>1. j \in Jobs /\ Recovered[j].status = "queued"
      BY DEF Claimable
    <3>2. \A i \in Jobs : job'[i] = IF i = j THEN Started(j) ELSE Recovered[i]
      BY <2>2 DEF Recovered
    <3>3. QED
      BY <1>3, <1>4, <3>1, <3>2
  <2>3. QED
    BY <2>1, <2>2 DEF Claim
<1>6. RowsInv' /\ DirectoryInv' /\ OneActiveJob'
  BY <1>1, <1>5 DEF CalmInv, RowsInv, SoundRow, DirectoryInv, OneActiveJob
<1>7. HolderInv'
  <2>1. CASE UNCHANGED worker
    BY <1>1, <2>1, HolderStep DEF Busy
  <2>2. ASSUME NEW j \in Claimable(Recovered),
               job' = [Recovered EXCEPT ![j] = Started(j)],
               SetWorker(w, [worker[w] EXCEPT !.pc = "claimed", !.job = j])
        PROVE  HolderInv'
    <3>1. j \in Jobs /\ Recovered[j].status = "queued"
      BY DEF Claimable
    <3>2. job'[j].status = "running"
      BY <1>4, <2>2, <3>1 DEF Recovered
    <3>3. worker'[w].pc = "claimed" /\ worker'[w].job = j
      BY <2>2 DEF SetWorker, TypeInv, TypeOK, Process
    <3>4. Holds(w)'
      BY <3>2, <3>3 DEF Holds
    <3>5. QED
      BY <1>1, <2>2, <3>4, HolderStep
  <2>3. QED
    BY <2>1, <2>2 DEF Claim
<1>8. QED
  BY <1>6, <1>7 DEF CalmInv

(* The worker's steps that leave its row alone. *)
LEMMA CalmQuiet ==
    ASSUME IInv, Calm, Calm', NEW w \in Workers,
           \/ Prepare(w) \/ PulseStops(w) \/ TrainingFails(w) \/ Register(w)
           \/ Cleanup(w) \/ FinishLost(w) \/ DependencyFails(w) \/ StartWorker(w)
           \/ SignalStop(w) \/ Exit(w) \/ Crash(w) \/ DropGuard(w)
    PROVE  CalmInv'
<1> USE DEF IInv
<1> DEFINE j == worker[w].job
<1>1. UNCHANGED job
  BY DEF Prepare, PulseStops, TrainingFails, Register, Cleanup, FinishLost,
     DependencyFails, StartWorker, SignalStop, Exit, Crash, DropGuard
<1>2. RowsInv' /\ OneActiveJob'
  BY <1>1, NoRowStep
<1>3. worker[w] \in Process /\ (worker[w].pc \in Busy => Holds(w) /\ j \in Jobs)
  BY DEF TypeInv, TypeOK, BusyHasJob, CalmInv, HolderInv
<1>4. ~DropGuard(w)
  BY DEF DropGuard, Calm
<1>5. DirectoryInv'
  <2>1. CASE Cleanup(w)
    <3>1. job[j].status = "running"
      BY <1>3, <2>1 DEF Cleanup, Busy, Phases, Holds
    <3>2. job[j].version # "retained"
      BY <1>3, <2>1, <3>1 DEF CalmInv, RowsInv, SoundRow, Cleanup, Busy, Phases
    <3>3. QED
      BY <1>1, <2>1, <3>2 DEF Cleanup, CalmInv, DirectoryInv
  <2>2. CASE ~Cleanup(w)
    <3>1. directories \subseteq directories'
      BY <1>4, <2>2 DEF Prepare, PulseStops, TrainingFails, Register, FinishLost,
         DependencyFails, StartWorker, SignalStop, Exit, Crash
    <3>2. QED
      BY <1>1, <3>1 DEF CalmInv, DirectoryInv
  <2>3. QED
    BY <2>1, <2>2
<1>6. ASSUME NEW p, SetWorker(w, p)
      PROVE  worker'[w] = p
  BY <1>6 DEF SetWorker, TypeInv, TypeOK
<1>7. CASE worker[w].pc # "down"
  <2>1. \E p : SetWorker(w, p)
    BY <1>4 DEF Prepare, PulseStops, TrainingFails, Register, Cleanup, FinishLost,
       DependencyFails, StartWorker, SignalStop, Exit, Crash, Goto, Raise
  <2>a. ASSUME NEW reason, Raise(w, reason), UNCHANGED directories,
               worker[w].pc \in Busy, reason = "cancelled" => job[j].cancel
        PROVE  Holds(w)'
    <3>1. worker'[w] = [worker[w] EXCEPT !.pc = "raised", !.why = reason]
      BY <1>6, <2>a DEF Raise
    <3>2. /\ worker'[w].pc = "raised" /\ worker'[w].job = j
          /\ worker'[w].why = reason
      BY <1>3, <3>1 DEF Process
    <3>3. QED
      BY <1>1, <1>3, <2>a, <3>2 DEF Holds
  <2>b. ASSUME NEW pc \in {"training", "committing"}, Goto(w, pc), worker[w].pc \in Busy,
               j \in directories', pc = "committing" => ~job[j].cancel
        PROVE  Holds(w)'
    <3>1. worker'[w] = [worker[w] EXCEPT !.pc = pc]
      BY <1>6, <2>b DEF Goto
    <3>2. worker'[w].pc = pc /\ worker'[w].job = j
      BY <1>3, <3>1 DEF Process
    <3>3. QED
      BY <1>1, <1>3, <2>b, <3>2 DEF Holds
  <2>2. worker'[w].pc \in Busy => Holds(w)'
    <3>1. CASE Prepare(w)
      BY <2>b, <3>1 DEF Prepare, Busy, Phases
    <3>2. CASE PulseStops(w)
      BY <2>a, <3>2 DEF PulseStops, Busy, Phases
    <3>3. CASE TrainingFails(w)
      BY <2>a, <3>3 DEF TrainingFails, Busy, Phases
    <3>4. CASE Register(w)
      <4>1. worker[w].pc \in Busy /\ j \in directories /\ UNCHANGED directories
        BY <1>3, <3>4 DEF Register, Busy, Phases, Holds
      <4>2. QED
        BY <2>a, <2>b, <3>4, <4>1 DEF Register
    <3>5. CASE Cleanup(w)
      <4>1. worker'[w] = [worker[w] EXCEPT !.pc = "cleaned", !.seen = job[j]]
        BY <1>6, <3>5 DEF Cleanup
      <4>2. /\ worker'[w].pc = "cleaned" /\ worker'[w].job = j
            /\ worker'[w].why = worker[w].why /\ worker'[w].seen = job[j]
        BY <1>3, <4>1 DEF Process
      <4>3. worker[w].pc = "raised" /\ Holds(w)
        BY <1>3, <3>5 DEF Cleanup, Busy, Phases
      <4>4. QED
        BY <1>1, <4>2, <4>3 DEF Holds
    <3>6. CASE FinishLost(w)
      BY <1>6, <3>6 DEF FinishLost, Freed, Off, Busy
    <3>7. CASE DependencyFails(w)
      BY <2>a, <3>7 DEF DependencyFails, Busy, Phases
    <3>8. CASE SignalStop(w)
      <4>1. worker' [w] = [worker[w] EXCEPT !.stop = TRUE] /\ UNCHANGED directories
        BY <1>6, <3>8 DEF SignalStop
      <4>2. /\ worker'[w].pc = worker[w].pc /\ worker'[w].job = worker[w].job
            /\ worker'[w].why = worker[w].why /\ worker'[w].seen = worker[w].seen
        BY <1>3, <4>1 DEF Process
      <4>3. QED
        BY <1>1, <1>3, <4>1, <4>2 DEF Holds
    <3>9. CASE Exit(w) \/ Crash(w)
      BY <1>6, <3>9, RowFacts DEF Exit, Crash, Busy
    <3>10. CASE StartWorker(w)
      BY <1>7, <3>10 DEF StartWorker
    <3>11. QED
      BY <1>4, <3>1, <3>2, <3>3, <3>4, <3>5, <3>6, <3>7, <3>8, <3>9, <3>10
  <2>3. HolderInv'
    BY <1>7, <2>1, <2>2, HolderStep
  <2>4. QED
    BY <1>2, <1>5, <2>3 DEF CalmInv
<1>8. CASE worker[w].pc = "down"
  <2>1. StartWorker(w)
    BY <1>4, <1>8 DEF Prepare, PulseStops, TrainingFails, Register, Cleanup, FinishLost,
       DependencyFails, SignalStop, Exit, Crash
  <2>2. \A v \in Workers : worker[v].pc = "down"
    BY <2>1, ConstantsOK DEF StartWorker, GuardInv, Calm
  <2>3. \A v \in Workers : worker'[v].pc \notin Busy
    BY <2>1, <2>2 DEF StartWorker, SetWorker, TypeInv, TypeOK, Off, Busy
  <2>4. QED
    BY <1>2, <1>5, <2>3 DEF CalmInv, HolderInv
<1>9. QED
  BY <1>7, <1>8

(* A pulse refreshes the heartbeat of the row its worker holds.             *)
LEMMA CalmPulse ==
    ASSUME IInv, Calm, NEW w \in Workers, Pulse(w)
    PROVE  CalmInv'
<1> USE DEF IInv
<1> DEFINE j   == worker[w].job
           row == [job[j] EXCEPT !.beat = "fresh", !.begun = TRUE]
<1>1. /\ worker[w].pc = "training" /\ worker[w] \in Process
      /\ j \in Jobs /\ job[j] \in Row /\ SoundRow(job[j]) /\ Holds(w)
      /\ SetJob(j, row) /\ UNCHANGED <<directories, mishaps>>
  BY DEF Pulse, TypeInv, TypeOK, BusyHasJob, Busy, Phases, CalmInv, RowsInv, HolderInv
<1>2. /\ row.tenant = job[j].tenant /\ row.attempts = job[j].attempts
      /\ row.version = job[j].version /\ row.cancel = job[j].cancel
      /\ row.status = job[j].status
  BY <1>1 DEF Row
<1>3. \A i \in Jobs : job'[i] = IF i = j THEN row ELSE job[i]
  BY <1>1 DEF TypeInv, TypeOK, SetJob
<1> HIDE DEF row
<1>4. SoundRow(row)
  BY <1>1, <1>2 DEF SoundRow
<1>5. RowsInv' /\ OneActiveJob'
  BY <1>1, <1>2, <1>4, RowStep
<1>6. DirectoryInv'
  BY <1>1, <1>2, <1>3 DEF CalmInv, DirectoryInv
<1>7. HolderInv'
  <2>1. /\ worker'[w].pc \in {"training", "trained"} /\ worker'[w].job = j
        /\ UNCHANGED worker \/ \E p : SetWorker(w, p)
    BY <1>1 DEF Pulse, Goto, SetWorker, TypeInv, TypeOK, Process
  <2>2. Holds(w)'
    BY <1>1, <1>2, <1>3, <2>1 DEF Holds
  <2>3. QED
    BY <1>1, <2>1, <2>2, HolderStep
<1>8. QED
  BY <1>5, <1>6, <1>7 DEF CalmInv

(* With the acknowledgement, the commit of a job that was not cancelled.    *)
LEMMA CalmCommit ==
    ASSUME IInv, Calm, Calm', NEW w \in Workers, Commit(w)
    PROVE  CalmInv'
<1> USE DEF IInv
<1> DEFINE j == worker[w].job
<1>1. /\ worker[w].pc = "committing" /\ worker[w] \in Process
      /\ j \in Jobs /\ job[j] \in Row /\ SoundRow(job[j]) /\ Holds(w)
      /\ UNCHANGED directories
  BY DEF Commit, TypeInv, TypeOK, BusyHasJob, Busy, Phases, CalmInv, RowsInv, HolderInv
<1>2. job[j].version = "none" /\ j \in directories /\ ~job[j].cancel
  BY <1>1 DEF Holds, SoundRow
<1>3. SetJob(j, Succeeded(j)) /\ SetWorker(w, Freed(w)) /\ UNCHANGED mishaps
  BY <1>2 DEF Commit, Calm
<1>4. /\ Succeeded(j).tenant = job[j].tenant
      /\ Succeeded(j).attempts = job[j].attempts
      /\ Succeeded(j).cancel = job[j].cancel
      /\ Succeeded(j).version = "retained"
      /\ Succeeded(j).status = "succeeded"
  BY <1>1 DEF Succeeded, Row
<1>5. SoundRow(Succeeded(j))
  BY <1>1, <1>2, <1>4 DEF SoundRow
<1>6. RowsInv' /\ OneActiveJob'
  BY <1>1, <1>3, <1>4, <1>5, RowStep DEF Active
<1>7. \A i \in Jobs : job'[i] = IF i = j THEN Succeeded(j) ELSE job[i]
  BY <1>3 DEF TypeInv, TypeOK, SetJob
<1>8. DirectoryInv'
  BY <1>1, <1>2, <1>7 DEF CalmInv, DirectoryInv
<1>9. worker'[w].pc = "idle"
  BY <1>3 DEF SetWorker, TypeInv, TypeOK, Freed, Off
<1>10. HolderInv'
  BY <1>1, <1>3, <1>9, HolderStep DEF Busy
<1>11. QED
  BY <1>6, <1>8, <1>10 DEF CalmInv

(* What finish_failed_job decides about a job that it read as running.      *)
LEMMA DecidedSound ==
    ASSUME NEW w \in Workers, worker[w].seen \in Row,
           worker[w].seen.status = "running",
           worker[w].seen.attempts > 0, worker[w].seen.attempts <= MaxAttempts
    PROVE  /\ Decided(w).status \in {"queued", "failed", "cancelled"}
           /\ Decided(w).status = "cancelled" => worker[w].why = "cancelled"
           /\ Decided(w).attempts \in Nat /\ Decided(w).attempts <= MaxAttempts
           /\ Decided(w).status = "queued" => Decided(w).attempts < MaxAttempts
<1> DEFINE read == worker[w].seen
           why == worker[w].why
           n == IF read.attempts = 0 THEN 0 ELSE read.attempts - 1
<1>1. /\ read \in Row /\ read.attempts \in Nat
      /\ n \in Nat /\ n < MaxAttempts
  BY ConstantsOK DEF Row
<1> HIDE DEF n
<1>2. CASE why = "shutdown"
  <2>1. Decided(w) = [read EXCEPT !.status = "queued", !.beat = "none", !.attempts = n]
    BY <1>2 DEF Decided, n
  <2>2. Decided(w).status = "queued" /\ Decided(w).attempts = n
    BY <1>1, <2>1 DEF Row
  <2>3. QED
    BY <1>1, <2>2, ConstantsOK
<1>3. CASE why = "transient" /\ read.attempts < MaxAttempts
  <2>1. Decided(w) = [read EXCEPT !.status = "queued", !.beat = "none"]
    BY <1>3 DEF Decided
  <2>2. Decided(w).status = "queued" /\ Decided(w).attempts = read.attempts
    BY <1>1, <2>1 DEF Row
  <2>3. QED
    BY <1>1, <1>3, <2>2
<1>4. CASE why = "cancelled"
  <2>1. Decided(w) = [read EXCEPT !.status = "cancelled"]
    BY <1>4 DEF Decided
  <2>2. Decided(w).status = "cancelled" /\ Decided(w).attempts = read.attempts
    BY <1>1, <2>1 DEF Row
  <2>3. QED
    BY <1>1, <1>4, <2>2
<1>5. CASE /\ why # "shutdown" /\ why # "cancelled"
           /\ ~(why = "transient" /\ read.attempts < MaxAttempts)
  <2>1. Decided(w) = [read EXCEPT !.status = "failed"]
    BY <1>5 DEF Decided
  <2>2. Decided(w).status = "failed" /\ Decided(w).attempts = read.attempts
    BY <1>1, <2>1 DEF Row
  <2>3. QED
    BY <1>1, <2>2
<1>6. QED
  BY <1>2, <1>3, <1>4, <1>5

(* finish_failed_job writes the outcome of a job that is still running.     *)
LEMMA OutcomeSound ==
    ASSUME IInv, Calm, NEW w \in Workers, worker[w].pc = "cleaned"
    PROVE  LET j == worker[w].job
           IN  /\ Outcome(w).tenant = job[j].tenant
               /\ Outcome(w).version = job[j].version
               /\ Outcome(w).cancel = job[j].cancel
               /\ Outcome(w).status \in {"queued", "failed", "cancelled"}
               /\ Outcome(w).status = "cancelled" => job[j].cancel
               /\ SoundRow(Outcome(w))
<1> USE DEF IInv
<1> DEFINE j == worker[w].job
           r == job[j]
           read == worker[w].seen
           new == Decided(w)
<1>1. /\ worker[w] \in Process /\ j \in Jobs /\ r \in Row /\ SoundRow(r)
      /\ Holds(w) /\ read \in Row
  BY DEF TypeInv, TypeOK, BusyHasJob, Busy, Phases, CalmInv, RowsInv, HolderInv, Process
<1>2. /\ r.status = "running" /\ read.status = "running" /\ read.attempts = r.attempts
      /\ r.attempts \in Nat /\ r.attempts > 0 /\ r.attempts <= MaxAttempts
      /\ r.version = "none"
      /\ worker[w].why = "cancelled" => r.cancel
  BY <1>1 DEF Holds, SoundRow, Row
<1>3. /\ new.status \in {"queued", "failed", "cancelled"}
      /\ new.status = "cancelled" => r.cancel
      /\ new.attempts \in Nat /\ new.attempts <= MaxAttempts
      /\ new.status = "queued" => new.attempts < MaxAttempts
  BY <1>1, <1>2, DecidedSound
<1> HIDE DEF new
<1>4. /\ Outcome(w).tenant = r.tenant /\ Outcome(w).version = r.version
      /\ Outcome(w).cancel = r.cancel
      /\ Outcome(w).status = Flush(read.status, new.status, r.status)
      /\ Outcome(w).attempts = Flush(read.attempts, new.attempts, r.attempts)
  BY <1>1 DEF Outcome, Row, new
<1>5. Outcome(w).status = new.status /\ Outcome(w).attempts = new.attempts
  BY <1>2, <1>3, <1>4 DEF Flush
<1>6. SoundRow(Outcome(w))
  BY <1>2, <1>3, <1>4, <1>5 DEF SoundRow
<1>7. QED
  BY <1>3, <1>4, <1>5, <1>6

LEMMA CalmFinish ==
    ASSUME IInv, Calm, NEW w \in Workers, FinishFailed(w)
    PROVE  CalmInv'
<1> USE DEF IInv
<1> DEFINE j == worker[w].job
<1>1. /\ worker[w].pc = "cleaned" /\ j \in Jobs /\ Holds(w)
      /\ SetJob(j, Outcome(w)) /\ SetWorker(w, Freed(w))
      /\ UNCHANGED <<directories, mishaps>>
  BY DEF FinishFailed, TypeInv, TypeOK, BusyHasJob, Busy, Phases, CalmInv, HolderInv
<1>2. /\ Outcome(w).tenant = job[j].tenant
      /\ Outcome(w).version = job[j].version
      /\ SoundRow(Outcome(w))
  BY <1>1, OutcomeSound
<1>3. job[j].status \in Active
  BY <1>1 DEF Holds, Active
<1>4. RowsInv' /\ OneActiveJob'
  BY <1>1, <1>2, <1>3, RowStep
<1>5. \A i \in Jobs : job'[i] = IF i = j THEN Outcome(w) ELSE job[i]
  BY <1>1 DEF TypeInv, TypeOK, SetJob
<1>6. DirectoryInv'
  BY <1>1, <1>2, <1>5 DEF CalmInv, DirectoryInv
<1>7. worker'[w].pc = "idle"
  BY <1>1 DEF SetWorker, TypeInv, TypeOK, Freed, Off
<1>8. HolderInv'
  BY <1>1, <1>7, HolderStep DEF Busy
<1>9. QED
  BY <1>4, <1>6, <1>8 DEF CalmInv

LEMMA InvStep == IInv /\ [Next]_vars => IInv'
<1> SUFFICES ASSUME IInv, [Next]_vars
             PROVE  IInv'
  OBVIOUS
<1>1. CASE UNCHANGED vars
  BY <1>1, TypeStep DEF IInv, GuardInv, Calm, CalmInv, RowsInv, SoundRow, DirectoryInv,
     HolderInv, Holds, OneActiveJob, vars
<1>2. CASE Next
  <2>1. TypeInv' /\ GuardInv'
    BY <1>2, TypeStep, GuardStep DEF IInv
  <2>2. ASSUME Calm'
        PROVE  CalmInv'
    <3>1. Calm
      BY <1>2, <2>2, MishapsGrow DEF Calm
    <3>2. CASE Tenant
      BY <3>1, <3>2, CalmTenant
    <3>3. ASSUME NEW j \in Jobs, CancelTraining(j) \/ Heartbeat(j)
          PROVE  CalmInv'
      BY <3>1, <3>3, CalmJob
    <3>4. ASSUME NEW w \in Workers, WorkerStep(w)
          PROVE  CalmInv'
      BY <2>2, <3>1, <3>4, CalmClaim, CalmQuiet, CalmPulse, CalmCommit, CalmFinish
         DEF WorkerStep
    <3>5. QED
      BY <1>2, <3>2, <3>3, <3>4 DEF Next
  <2>3. QED
    BY <2>1, <2>2 DEF IInv
<1>3. QED
  BY <1>1, <1>2

LEMMA AlwaysInv == Spec => []IInv
BY InitInv, InvStep, PTL DEF Spec

(* BRULE-06 in every behaviour: requests, retries and the recovery of       *)
(* interrupted jobs never give a tenant two queued or running jobs.         *)
THEOREM NeverTwoActiveJobs == Spec => []OneActiveJob
<1>1. IInv => OneActiveJob
  BY DEF IInv, CalmInv, OneActiveJob
<1>2. QED
  BY AlwaysInv, <1>1, PTL

(* ER-NF-05: crashes, shutdowns and retries keep within the attempts.       *)
THEOREM NeverTooManyAttempts == Spec => []AttemptsBounded
<1>1. IInv => AttemptsBounded
  BY DEF IInv, CalmInv, AttemptsBounded, RowsInv, SoundRow
<1>2. QED
  BY AlwaysInv, <1>1, PTL

(* Failed and cancelled jobs produce no version; succeeded ones produce one. *)
THEOREM VersionsMatchOutcomes == Spec => []VersionIffSucceeded
<1>1. IInv => VersionIffSucceeded
  BY DEF IInv, CalmInv, VersionIffSucceeded, RowsInv, SoundRow
<1>2. QED
  BY AlwaysInv, <1>1, PTL

(* A cancellation that was accepted is never followed by success.           *)
THEOREM CancellationWins == Spec => []CancelledNeverSucceeds
<1>1. IInv => CancelledNeverSucceeds
  BY DEF IInv, CalmInv, CancelledNeverSucceeds, RowsInv, SoundRow
<1>2. QED
  BY AlwaysInv, <1>1, PTL

(* No failure path removes the directory of a registered version.           *)
THEOREM VersionsKeepTheirFiles == Spec => []RetainedHasDirectory
<1>1. IInv => RetainedHasDirectory
  BY DEF IInv, CalmInv, RetainedHasDirectory, DirectoryInv
<1>2. QED
  BY AlwaysInv, <1>1, PTL

(* One trainer at a time for as long as no guard connection dies.           *)
THEOREM OneTrainerUnderTheLock == Spec => []OneTrainerWhileGuarded
<1>1. IInv => OneTrainerWhileGuarded
  BY DEF IInv, GuardInv, OneTrainerWhileGuarded, OneTrainer, Trainers, Busy
<1>2. QED
  BY AlwaysInv, <1>1, PTL

(***************************************************************************)
(* The limits of the plan.                                                 *)
(***************************************************************************)

RetainedOf(t) == {i \in JobsOf(t) : job[i].version = "retained"}

ChargedOf(t) == {i \in JobsOf(t) : ~Credited(i)}

(* Under the quota's lock the version about to be committed still fits. *)
LimitInv ==
    \A t \in Tenants :
        /\ Retained(t) <= VersionLimit
        /\ Charged(t) <= JobLimit
        /\ VersionsLocked(t) => Retained(t) + 1 <= VersionLimit

(* A row that stays what it counts as, or counts for less. *)
CountsNoMore(i) ==
    /\ job'[i].tenant = job[i].tenant
    /\ job'[i].version = "retained" => job[i].version = "retained"
    /\ Credited(i) => Credited(i)'

LEMMA Counting ==
    ASSUME NEW S \in SUBSET Jobs, NEW T \in SUBSET Jobs, NEW j \in Jobs
    PROVE  /\ Cardinality(S) \in Nat
           /\ T \subseteq S => Cardinality(T) <= Cardinality(S)
           /\ T \subseteq S \cup {j} => Cardinality(T) <= Cardinality(S) + 1
<1>1. IsFiniteSet(Jobs)
  BY ConstantsOK, FS_Interval DEF Jobs
<1>2. IsFiniteSet(S)
  BY <1>1, FS_Subset
<1>3. IsFiniteSet(S \cup {j}) /\ Cardinality(S \cup {j}) <= Cardinality(S) + 1
  <2>1. /\ IsFiniteSet(S \cup {j})
        /\ Cardinality(S \cup {j}) = IF j \in S THEN Cardinality(S) ELSE Cardinality(S) + 1
    BY <1>2, FS_AddElement
  <2>2. Cardinality(S) \in Nat
    BY <1>2, FS_CardinalityType
  <2>3. QED
    BY <2>1, <2>2
<1>4. Cardinality(S) \in Nat /\ Cardinality(S \cup {j}) \in Nat
  BY <1>2, <1>3, FS_CardinalityType
<1>5. T \subseteq S => Cardinality(T) <= Cardinality(S)
  BY <1>2, FS_Subset
<1>6. T \subseteq S \cup {j} => Cardinality(T) <= Cardinality(S) + 1
  <2>1. ASSUME T \subseteq S \cup {j}
        PROVE  Cardinality(T) \in Nat /\ Cardinality(T) <= Cardinality(S \cup {j})
    BY <1>3, <2>1, FS_Subset, FS_CardinalityType
  <2>2. QED
    BY <1>3, <1>4, <2>1
<1>7. QED
  BY <1>4, <1>5, <1>6

(* What the rows of a step may do to the counts of a tenant. *)
LEMMA Counts ==
    ASSUME TypeInv, TypeInv', NEW t \in Tenants
    PROVE  /\ Retained(t) \in Nat /\ Charged(t) \in Nat
           /\ Retained(t)' \in Nat /\ Charged(t)' \in Nat
           /\ RetainedOf(t)' \subseteq RetainedOf(t) /\ others'[t] <= others[t]
              => Retained(t)' <= Retained(t)
           /\ ChargedOf(t)' \subseteq ChargedOf(t) => Charged(t)' <= Charged(t)
           /\ \A j \in Jobs :
                /\ RetainedOf(t)' \subseteq RetainedOf(t) \cup {j} /\ others'[t] <= others[t]
                   => Retained(t)' <= Retained(t) + 1
                /\ ChargedOf(t)' \subseteq ChargedOf(t) \cup {j} => Charged(t)' <= Charged(t) + 1
           /\ RetainedOf(t)' \subseteq RetainedOf(t) /\ others'[t] <= others[t] + 1
              => Retained(t)' <= Retained(t) + 1
<1> DEFINE r == Cardinality(RetainedOf(t))
           c == Cardinality(ChargedOf(t))
<1>1. /\ RetainedOf(t) \in SUBSET Jobs /\ RetainedOf(t)' \in SUBSET Jobs
      /\ ChargedOf(t) \in SUBSET Jobs /\ ChargedOf(t)' \in SUBSET Jobs
  BY DEF RetainedOf, ChargedOf, JobsOf
<1>2. others[t] \in Nat /\ others'[t] \in Nat
  BY DEF TypeInv, TypeOK
<1>3. /\ Retained(t) = others[t] + r /\ Retained(t)' = others'[t] + r'
      /\ Charged(t) = c /\ Charged(t)' = c'
  BY DEF Retained, Charged, RetainedOf, ChargedOf
<1>4. r \in Nat /\ r' \in Nat /\ c \in Nat /\ c' \in Nat
  <2>1. CASE Jobs = {}
    <3>1. Cardinality({}) = 0
      BY FS_EmptySet
    <3>2. QED
      BY <1>1, <2>1, <3>1
  <2>2. CASE Jobs # {}
    BY <1>1, <2>2, Counting
  <2>3. QED
    BY <2>1, <2>2
<1>5. /\ RetainedOf(t)' \subseteq RetainedOf(t) => r' <= r
      /\ ChargedOf(t)' \subseteq ChargedOf(t) => c' <= c
  <2>1. CASE Jobs = {}
    BY <1>1, <1>4, <2>1
  <2>2. CASE Jobs # {}
    BY <1>1, <2>2, Counting
  <2>3. QED
    BY <2>1, <2>2
<1>6. ASSUME NEW j \in Jobs
      PROVE  /\ RetainedOf(t)' \subseteq RetainedOf(t) \cup {j} => r' <= r + 1
             /\ ChargedOf(t)' \subseteq ChargedOf(t) \cup {j} => c' <= c + 1
  BY <1>1, Counting
<1> HIDE DEF r, c
<1>7. QED
  BY <1>2, <1>3, <1>4, <1>5, <1>6

LEMMA NoMore ==
    ASSUME NEW t \in Tenants, \A i \in Jobs : CountsNoMore(i)
    PROVE  RetainedOf(t)' \subseteq RetainedOf(t) /\ ChargedOf(t)' \subseteq ChargedOf(t)
BY DEF RetainedOf, ChargedOf, JobsOf, CountsNoMore

(* One row changes. *)
LEMMA OneMore ==
    ASSUME NEW t \in Tenants, NEW j \in Jobs, \A i \in Jobs \ {j} : CountsNoMore(i)
    PROVE  /\ RetainedOf(t)' \subseteq RetainedOf(t) \cup {j}
           /\ ChargedOf(t)' \subseteq ChargedOf(t) \cup {j}
           /\ job'[j].version # "retained" \/ job'[j].tenant # t
              => RetainedOf(t)' \subseteq RetainedOf(t)
           /\ job'[j].tenant # t => ChargedOf(t)' \subseteq ChargedOf(t)
BY DEF RetainedOf, ChargedOf, JobsOf, CountsNoMore

LEMMA SameRow ==
    ASSUME NEW i \in Jobs, job'[i] = job[i]
    PROVE  CountsNoMore(i)
BY DEF CountsNoMore, Credited

LEMMA OtherRows ==
    ASSUME TypeInv, NEW j \in Jobs, NEW row, SetJob(j, row)
    PROVE  /\ job'[j] = row
           /\ \A i \in Jobs \ {j} : job'[i] = job[i] /\ CountsNoMore(i)
<1>1. job'[j] = row /\ \A i \in Jobs \ {j} : job'[i] = job[i]
  BY DEF TypeInv, TypeOK, SetJob
<1>2. QED
  BY <1>1, SameRow

(* Most actions add to no count, and nobody reaches the last transaction. *)
LEMMA LimitQuiet ==
    ASSUME LimitInv, TypeInv, TypeInv',
           \A i \in Jobs : CountsNoMore(i),
           \A t \in Tenants : others'[t] <= others[t],
           \A v \in Workers : worker'[v].pc = "committing" =>
               worker[v].pc = "committing" /\ worker'[v].job = worker[v].job
    PROVE  LimitInv'
<1> SUFFICES ASSUME NEW t \in Tenants
             PROVE  /\ Retained(t)' <= VersionLimit
                    /\ Charged(t)' <= JobLimit
                    /\ VersionsLocked(t)' => Retained(t)' + 1 <= VersionLimit
  BY DEF LimitInv
<1>1. /\ Retained(t) \in Nat /\ Retained(t)' \in Nat /\ Retained(t)' <= Retained(t)
      /\ Charged(t) \in Nat /\ Charged(t)' \in Nat /\ Charged(t)' <= Charged(t)
  BY NoMore, Counts
<1>2. VersionsLocked(t)' => VersionsLocked(t)
  BY DEF VersionsLocked, TypeInv, BusyHasJob, Busy, Phases, CountsNoMore
<1>3. QED
  BY <1>1, <1>2, ConstantsOK DEF LimitInv

(* A row that was not cancelled changes, and no version is registered. *)
LEMMA OneRow ==
    ASSUME TypeInv, NEW j \in Jobs, NEW row, SetJob(j, row),
           row.tenant = job[j].tenant,
           row.version = "retained" => job[j].version = "retained",
           job[j].status # "cancelled"
    PROVE  \A i \in Jobs : CountsNoMore(i)
<1>1. CountsNoMore(j)
  BY OtherRows DEF CountsNoMore, Credited
<1>2. QED
  BY <1>1, OtherRows

LEMMA LimitTenant ==
    ASSUME IInv, TypeInv', Calm, LimitInv, Tenant
    PROVE  LimitInv'
<1> USE DEF IInv
<1>1. ASSUME NEW t \in Tenants, RequestTraining(t)
      PROVE  LimitInv'
  <2> DEFINE row == [NoRow EXCEPT !.tenant = t, !.status = "queued"]
  <2>1. PICK j \in Jobs : job[j].status = "none" /\ SetJob(j, row)
    BY <1>1 DEF RequestTraining
  <2>2. row.tenant = t /\ row.version = "none"
    BY DEF NoRow
  <2> HIDE DEF row
  <2>3. job'[j] = row /\ \A i \in Jobs \ {j} : job'[i] = job[i] /\ CountsNoMore(i)
    BY <2>1, OtherRows
  <2>4. UNCHANGED <<others, worker>> /\ ~VersionsLocked(t) /\ Charged(t) + 1 <= JobLimit
    BY <1>1 DEF RequestTraining
  <2>5. ASSUME NEW u \in Tenants, VersionsLocked(u)'
        PROVE  VersionsLocked(u)
    <3>1. PICK w \in Workers : worker[w].pc = "committing" /\ job'[worker[w].job].tenant = u
      BY <2>4, <2>5 DEF VersionsLocked
    <3>2. worker[w].job \in Jobs /\ job[worker[w].job].status = "running"
      BY <3>1 DEF TypeInv, BusyHasJob, Busy, Phases, CalmInv, HolderInv, Holds
    <3>3. job'[worker[w].job] = job[worker[w].job]
      BY <2>1, <2>3, <3>2
    <3>4. QED
      BY <3>1, <3>3 DEF VersionsLocked
  <2>6. ASSUME NEW u \in Tenants
        PROVE  /\ Retained(u)' <= VersionLimit
               /\ Charged(u)' <= JobLimit
               /\ VersionsLocked(u)' => Retained(u)' + 1 <= VersionLimit
    <3>1. /\ RetainedOf(u)' \subseteq RetainedOf(u)
          /\ ChargedOf(u)' \subseteq ChargedOf(u) \cup {j}
          /\ u # t => ChargedOf(u)' \subseteq ChargedOf(u)
      BY <2>2, <2>3, OneMore
    <3>2. others'[u] <= others[u]
      BY <2>4 DEF TypeInv, TypeOK
    <3>3. /\ Retained(u)' <= Retained(u) /\ Charged(u)' <= Charged(u) + 1
          /\ u # t => Charged(u)' <= Charged(u)
          /\ Retained(u) \in Nat /\ Retained(u)' \in Nat
          /\ Charged(u) \in Nat /\ Charged(u)' \in Nat
      BY <3>1, <3>2, Counts
    <3>4. QED
      BY <2>4, <2>5, <3>3, ConstantsOK DEF LimitInv
  <2>7. QED
    BY <2>6 DEF LimitInv
<1>2. ASSUME NEW t \in Tenants, RegisterVersion(t)
      PROVE  LimitInv'
  <2>1. /\ UNCHANGED <<job, worker>> /\ ~VersionsLocked(t) /\ Retained(t) + 1 <= VersionLimit
        /\ others' = [others EXCEPT ![t] = @ + 1]
    BY <1>2 DEF RegisterVersion
  <2>2. ASSUME NEW u \in Tenants
        PROVE  /\ Retained(u)' <= VersionLimit
               /\ Charged(u)' <= JobLimit
               /\ VersionsLocked(u)' => Retained(u)' + 1 <= VersionLimit
    <3>1. RetainedOf(u)' \subseteq RetainedOf(u) /\ ChargedOf(u)' \subseteq ChargedOf(u)
      BY <2>1, SameRow, NoMore
    <3>2. others'[u] <= others[u] + 1 /\ (u # t => others'[u] <= others[u])
      BY <2>1 DEF TypeInv, TypeOK
    <3>3. /\ Retained(u)' <= Retained(u) + 1 /\ Charged(u)' <= Charged(u)
          /\ u # t => Retained(u)' <= Retained(u)
          /\ Retained(u) \in Nat /\ Retained(u)' \in Nat
          /\ Charged(u) \in Nat /\ Charged(u)' \in Nat
      BY <3>1, <3>2, Counts
    <3>4. VersionsLocked(u)' => VersionsLocked(u)
      BY <2>1 DEF VersionsLocked
    <3>5. QED
      BY <2>1, <3>3, <3>4, ConstantsOK DEF LimitInv
  <2>3. QED
    BY <2>2 DEF LimitInv
<1>3. ASSUME NEW t \in Tenants, ArchiveVersion(t)
      PROVE  LimitInv'
  <2>1. UNCHANGED worker
    BY <1>3 DEF ArchiveVersion
  <2>2. \A u \in Tenants : others'[u] <= others[u]
    BY <1>3 DEF ArchiveVersion, TypeInv, TypeOK
  <2>3. \A i \in Jobs : CountsNoMore(i)
    <3>1. CASE UNCHANGED job
      BY <3>1, SameRow
    <3>2. ASSUME NEW j \in Jobs, job[j].version = "retained",
                 SetJob(j, [job[j] EXCEPT !.version = "archived"])
          PROVE  \A i \in Jobs : CountsNoMore(i)
      <4>1. job[j] \in Row /\ SoundRow(job[j])
        BY DEF TypeInv, TypeOK, CalmInv, RowsInv
      <4>2. job[j].status # "cancelled"
        BY <3>2, <4>1 DEF SoundRow
      <4>3. QED
        BY <3>2, <4>1, <4>2, OneRow DEF Row
    <3>3. QED
      BY <1>3, <3>1, <3>2 DEF ArchiveVersion, JobsOf
  <2>4. QED
    BY <2>1, <2>2, <2>3, LimitQuiet
<1>4. ASSUME NEW t \in Tenants, SetTenantStatus(t)
      PROVE  LimitInv'
  <2>1. UNCHANGED <<job, others, worker>>
    BY <1>4 DEF SetTenantStatus
  <2>2. \A u \in Tenants : others'[u] <= others[u]
    BY <2>1 DEF TypeInv, TypeOK
  <2>3. QED
    BY <2>1, <2>2, SameRow, LimitQuiet
<1>5. QED
  BY <1>1, <1>2, <1>3, <1>4 DEF Tenant

LEMMA LimitJob ==
    ASSUME IInv, TypeInv', LimitInv, NEW j \in Jobs, CancelTraining(j) \/ Heartbeat(j)
    PROVE  LimitInv'
<1> USE DEF IInv
<1>1. job[j] \in Row /\ UNCHANGED <<others, worker>>
  BY DEF TypeInv, TypeOK, CancelTraining, Heartbeat
<1>2. \A u \in Tenants : others'[u] <= others[u]
  BY <1>1 DEF TypeInv, TypeOK
<1>3. CASE CancelTraining(j)
  <2> DEFINE row == [job[j] EXCEPT !.cancel = TRUE,
                                   !.status = IF @ = "queued" THEN "cancelled" ELSE @]
  <2>1. row.tenant = job[j].tenant /\ row.version = job[j].version
    BY <1>1 DEF Row
  <2>2. SetJob(j, row) /\ job[j].status # "cancelled"
    BY <1>3 DEF CancelTraining, Active
  <2> HIDE DEF row
  <2>3. QED
    BY <1>1, <1>2, <2>1, <2>2, OneRow, LimitQuiet
<1>4. CASE Heartbeat(j)
  <2> DEFINE row == [job[j] EXCEPT !.beat = "stale"]
  <2>1. row.tenant = job[j].tenant /\ row.version = job[j].version
    BY <1>1 DEF Row
  <2>2. SetJob(j, row) /\ job[j].status # "cancelled"
    BY <1>4 DEF Heartbeat
  <2> HIDE DEF row
  <2>3. QED
    BY <1>1, <1>2, <2>1, <2>2, OneRow, LimitQuiet
<1>5. QED
  BY <1>3, <1>4

LEMMA LimitClaim ==
    ASSUME IInv, TypeInv', LimitInv, NEW w \in Workers, Claim(w)
    PROVE  LimitInv'
<1> USE DEF IInv
<1>1. ASSUME NEW i \in Jobs, job'[i] = Recovered[i]
      PROVE  CountsNoMore(i)
  <2>1. job[i] \in Row
    BY DEF TypeInv, TypeOK
  <2>2. QED
    BY <1>1, <2>1 DEF Recovered, Interrupted, CountsNoMore, Credited, Row
<1>2. ASSUME NEW i \in Jobs, job'[i] = Started(i), Recovered[i].status = "queued"
      PROVE  CountsNoMore(i)
  <2>1. job[i] \in Row
    BY DEF TypeInv, TypeOK
  <2>2. job[i].status # "cancelled"
    BY <1>2, <2>1 DEF Recovered, Interrupted
  <2>3. QED
    BY <1>2, <2>1, <2>2 DEF Started, CountsNoMore, Credited, Row
<1>3. \A i \in Jobs : CountsNoMore(i)
  <2>1. CASE job' = Recovered
    BY <1>1, <2>1
  <2>2. ASSUME NEW j \in Claimable(Recovered), job' = [Recovered EXCEPT ![j] = Started(j)]
        PROVE  \A i \in Jobs : CountsNoMore(i)
    <3>1. j \in Jobs /\ Recovered[j].status = "queued"
      BY DEF Claimable
    <3>2. \A i \in Jobs : job'[i] = IF i = j THEN Started(j) ELSE Recovered[i]
      BY <2>2 DEF Recovered
    <3>3. QED
      BY <1>1, <1>2, <3>1, <3>2
  <2>3. QED
    BY <2>1, <2>2 DEF Claim
<1>4. \A u \in Tenants : others'[u] <= others[u]
  <2>1. UNCHANGED others
    BY DEF Claim
  <2>2. QED
    BY <2>1 DEF TypeInv, TypeOK
<1>5. \A v \in Workers : worker'[v].pc = "committing" =>
         worker[v].pc = "committing" /\ worker'[v].job = worker[v].job
  <2>1. ASSUME NEW j, SetWorker(w, [worker[w] EXCEPT !.pc = "claimed", !.job = j])
        PROVE  worker'[w].pc = "claimed" /\ \A v \in Workers \ {w} : worker'[v] = worker[v]
    BY <2>1 DEF SetWorker, TypeInv, TypeOK, Process
  <2>2. QED
    BY <2>1 DEF Claim
<1>6. QED
  BY <1>3, <1>4, <1>5, LimitQuiet

(* The last transaction begins when the version fits under the limit. *)
LEMMA LimitRegister ==
    ASSUME IInv, TypeInv', LimitInv, NEW w \in Workers, Register(w)
    PROVE  LimitInv'
<1> USE DEF IInv
<1> DEFINE j == worker[w].job
           t == job[j].tenant
<1>1. UNCHANGED <<job, others>> /\ worker[w] \in Process /\ worker \in [Workers -> Process]
  BY DEF Register, TypeInv, TypeOK
<1>2. \A u \in Tenants : Retained(u)' = Retained(u) /\ Charged(u)' = Charged(u)
  BY <1>1 DEF Retained, Charged, JobsOf, Credited
<1>3. CASE \E reason \in Reasons : Raise(w, reason)
  <2>1. PICK reason \in Reasons :
          SetWorker(w, [worker[w] EXCEPT !.pc = "raised", !.why = reason])
    BY <1>3 DEF Raise
  <2>2. worker'[w].pc = "raised" /\ \A v \in Workers \ {w} : worker'[v] = worker[v]
    BY <1>1, <2>1 DEF SetWorker, Process
  <2>3. \A u \in Tenants : VersionsLocked(u)' => VersionsLocked(u)
    BY <1>1, <2>2 DEF VersionsLocked
  <2>4. QED
    BY <1>2, <2>3 DEF LimitInv
<1>4. CASE Goto(w, "committing") /\ Retained(t) + 1 <= VersionLimit
  <2>1. SetWorker(w, [worker[w] EXCEPT !.pc = "committing"])
    BY <1>4 DEF Goto
  <2>2. worker'[w].job = j /\ \A v \in Workers \ {w} : worker'[v] = worker[v]
    BY <1>1, <2>1 DEF SetWorker, Process
  <2>3. \A u \in Tenants : VersionsLocked(u)' => VersionsLocked(u) \/ u = t
    BY <1>1, <2>2 DEF VersionsLocked
  <2>4. QED
    BY <1>2, <1>4, <2>3 DEF LimitInv
<1>5. QED
  BY <1>3, <1>4 DEF Register, Reasons

(* It commits the one version that it had found room for. *)
LEMMA LimitCommit ==
    ASSUME IInv, TypeInv', Calm, Calm', LimitInv, NEW w \in Workers, Commit(w)
    PROVE  LimitInv'
<1> USE DEF IInv
<1> DEFINE j == worker[w].job
<1>1. /\ j \in Jobs /\ job[j] \in Row /\ SoundRow(job[j]) /\ Holds(w)
      /\ worker[w].pc = "committing" /\ UNCHANGED others
  BY DEF Commit, Busy, Phases, TypeInv, TypeOK, BusyHasJob, CalmInv, RowsInv, HolderInv
<1>2. job[j].status = "running" /\ job[j].version = "none"
  BY <1>1 DEF Holds, SoundRow
<1>3. SetJob(j, Succeeded(j)) /\ SetWorker(w, Freed(w))
  BY <1>2 DEF Commit, Calm
<1>4. /\ job'[j].tenant = job[j].tenant
      /\ \A i \in Jobs \ {j} : CountsNoMore(i)
      /\ ~Credited(j)
  <2>1. ~Credited(j)
    BY <1>2 DEF Credited
  <2>2. Succeeded(j).tenant = job[j].tenant
    BY <1>1 DEF Succeeded, Row
  <2>3. QED
    BY <1>1, <1>3, <2>1, <2>2, OtherRows
<1>5. \A u \in Tenants : ~VersionsLocked(u)'
  <2>1. worker'[w].pc = "idle" /\ \A v \in Workers \ {w} : worker'[v] = worker[v]
    BY <1>3 DEF SetWorker, TypeInv, TypeOK, Freed, Off
  <2>2. \A v \in Workers \ {w} : worker[v].pc = "down"
    BY <1>1, Alone
  <2>3. QED
    BY <2>1, <2>2 DEF VersionsLocked
<1>6. ASSUME NEW u \in Tenants
      PROVE  Retained(u)' <= VersionLimit /\ Charged(u)' <= JobLimit
  <2>1. /\ RetainedOf(u)' \subseteq RetainedOf(u) \cup {j}
        /\ job[j].tenant # u => RetainedOf(u)' \subseteq RetainedOf(u)
        /\ ChargedOf(u)' \subseteq ChargedOf(u)
    <3>1. /\ RetainedOf(u)' \subseteq RetainedOf(u) \cup {j}
          /\ job[j].tenant # u => RetainedOf(u)' \subseteq RetainedOf(u)
      BY <1>1, <1>4, OneMore
    <3>2. ChargedOf(u)' \subseteq ChargedOf(u)
      BY <1>4 DEF ChargedOf, JobsOf, CountsNoMore
    <3>3. QED
      BY <3>1, <3>2
  <2>2. others'[u] <= others[u]
    BY <1>1 DEF TypeInv, TypeOK
  <2>3. /\ Retained(u)' <= Retained(u) + 1
        /\ job[j].tenant # u => Retained(u)' <= Retained(u)
        /\ Charged(u)' <= Charged(u)
        /\ Retained(u) \in Nat /\ Retained(u)' \in Nat
        /\ Charged(u) \in Nat /\ Charged(u)' \in Nat
    BY <1>1, <2>1, <2>2, Counts
  <2>4. job[j].tenant = u => VersionsLocked(u)
    BY <1>1 DEF VersionsLocked
  <2>5. QED
    BY <2>3, <2>4, ConstantsOK DEF LimitInv
<1>7. QED
  BY <1>5, <1>6 DEF LimitInv

(* The other steps of the worker add to no count. *)
LEMMA LimitWorker ==
    ASSUME IInv, TypeInv', Calm, Calm', LimitInv, NEW w \in Workers, WorkerStep(w)
    PROVE  LimitInv'
<1> USE DEF IInv
<1> DEFINE j == worker[w].job
<1>0. /\ worker[w].pc \in Busy => j \in Jobs /\ job[j] \in Row /\ SoundRow(job[j]) /\ Holds(w)
      /\ worker \in [Workers -> Process] /\ worker[w] \in Process
  BY DEF TypeInv, TypeOK, BusyHasJob, CalmInv, RowsInv, HolderInv
<1>a. UNCHANGED others
  BY DEF WorkerStep, Claim, Prepare, PulseStops, Pulse, TrainingFails, Register, Commit, Cleanup,
     FinishFailed, FinishLost, DependencyFails, StartWorker, SignalStop, Exit, Crash, DropGuard
<1>b. \A u \in Tenants : others'[u] <= others[u]
  BY <1>a DEF TypeInv, TypeOK
<1>c. ASSUME UNCHANGED job
      PROVE  \A i \in Jobs : CountsNoMore(i)
  BY <1>c, SameRow
<1> DEFINE NotLocking ==
             \A v \in Workers : worker'[v].pc = "committing" =>
                 worker[v].pc = "committing" /\ worker'[v].job = worker[v].job
<1>d. ASSUME NEW p, SetWorker(w, p), p.pc # "committing"
      PROVE  NotLocking
  BY <1>0, <1>d DEF SetWorker
<1>e. ASSUME NEW pc, Goto(w, pc), pc # "committing"
      PROVE  NotLocking
  <2>1. [worker[w] EXCEPT !.pc = pc].pc # "committing"
    BY <1>0, <1>e DEF Process
  <2>2. QED
    BY <1>d, <1>e, <2>1 DEF Goto
<1>f. ASSUME NEW reason, Raise(w, reason)
      PROVE  NotLocking
  <2>1. [worker[w] EXCEPT !.pc = "raised", !.why = reason].pc # "committing"
    BY <1>0 DEF Process
  <2>2. QED
    BY <1>d, <1>f, <2>1 DEF Raise
<1>g. ASSUME \/ SetWorker(w, Off) \/ SetWorker(w, Freed(w))
             \/ SetWorker(w, [Off EXCEPT !.pc = "idle"])
      PROVE  NotLocking
  <2>1. /\ Off.pc # "committing" /\ Freed(w).pc # "committing"
        /\ [Off EXCEPT !.pc = "idle"].pc # "committing"
    BY DEF Off, Freed
  <2>2. QED
    BY <1>d, <1>g, <2>1
<1>h. UNCHANGED worker => NotLocking
  OBVIOUS
<1> HIDE DEF NotLocking
<1>q. ASSUME NotLocking, \A i \in Jobs : CountsNoMore(i)
      PROVE  LimitInv'
  BY <1>b, <1>q, LimitQuiet DEF NotLocking
<1>1. CASE Claim(w)
  BY <1>1, LimitClaim
<1>2. CASE Prepare(w) \/ PulseStops(w) \/ TrainingFails(w) \/ DependencyFails(w)
  <2>1. UNCHANGED job
    BY <1>2 DEF Prepare, PulseStops, TrainingFails, DependencyFails
  <2>2. NotLocking
    BY <1>2, <1>e, <1>f DEF Prepare, PulseStops, TrainingFails, DependencyFails
  <2>3. QED
    BY <1>c, <1>q, <2>1, <2>2
<1>3. CASE Exit(w) \/ Crash(w) \/ StartWorker(w) \/ DropGuard(w) \/ FinishLost(w)
  <2>1. UNCHANGED job
    BY <1>3 DEF Exit, Crash, StartWorker, DropGuard, FinishLost
  <2>2. NotLocking
    BY <1>3, <1>g, <1>h DEF Exit, Crash, StartWorker, DropGuard, FinishLost
  <2>3. QED
    BY <1>c, <1>q, <2>1, <2>2
<1>4. CASE Cleanup(w)
  <2>1. UNCHANGED job /\ SetWorker(w, [worker[w] EXCEPT !.pc = "cleaned", !.seen = job[j]])
    BY <1>4 DEF Cleanup
  <2>2. [worker[w] EXCEPT !.pc = "cleaned", !.seen = job[j]].pc # "committing"
    BY <1>0 DEF Process
  <2>3. QED
    BY <1>c, <1>d, <1>q, <2>1, <2>2
<1>5. CASE SignalStop(w)
  <2>1. UNCHANGED job /\ SetWorker(w, [worker[w] EXCEPT !.stop = TRUE])
    BY <1>5 DEF SignalStop
  <2>2. /\ [worker[w] EXCEPT !.stop = TRUE].pc = worker[w].pc
        /\ [worker[w] EXCEPT !.stop = TRUE].job = worker[w].job
    BY <1>0 DEF Process
  <2>3. NotLocking
    BY <1>0, <2>1, <2>2 DEF SetWorker, NotLocking
  <2>4. QED
    BY <1>c, <1>q, <2>1, <2>3
<1>6. CASE Pulse(w)
  <2> DEFINE row == [job[j] EXCEPT !.beat = "fresh", !.begun = TRUE]
  <2>1. j \in Jobs /\ job[j] \in Row /\ job[j].status = "running"
    BY <1>0, <1>6 DEF Pulse, Busy, Phases, Holds
  <2>2. row.tenant = job[j].tenant /\ row.version = job[j].version
    BY <2>1 DEF Row
  <2>3. SetJob(j, row)
    BY <1>6 DEF Pulse
  <2> HIDE DEF row
  <2>4. \A i \in Jobs : CountsNoMore(i)
    BY <2>1, <2>2, <2>3, OneRow
  <2>5. NotLocking
    BY <1>6, <1>e, <1>h DEF Pulse
  <2>6. QED
    BY <1>q, <2>4, <2>5
<1>7. CASE FinishFailed(w)
  <2>1. j \in Jobs /\ job[j].status = "running" /\ worker[w].pc = "cleaned"
    BY <1>0, <1>7 DEF FinishFailed, Busy, Phases, Holds
  <2>2. Outcome(w).tenant = job[j].tenant /\ Outcome(w).version = job[j].version
    BY <2>1, OutcomeSound
  <2>3. SetJob(j, Outcome(w)) /\ SetWorker(w, Freed(w))
    BY <1>7 DEF FinishFailed
  <2>4. \A i \in Jobs : CountsNoMore(i)
    BY <2>1, <2>2, <2>3, OneRow
  <2>5. QED
    BY <1>g, <1>q, <2>3, <2>4
<1>8. CASE Register(w)
  BY <1>8, LimitRegister
<1>9. CASE Commit(w)
  BY <1>9, LimitCommit
<1>10. QED
  BY <1>1, <1>2, <1>3, <1>4, <1>5, <1>6, <1>7, <1>8, <1>9 DEF WorkerStep

LEMMA LimitInit == Init => LimitInv
<1> SUFFICES ASSUME Init, NEW t \in Tenants
             PROVE  /\ Retained(t) <= VersionLimit /\ Charged(t) <= JobLimit
                    /\ ~VersionsLocked(t)
  BY DEF LimitInv
<1>1. JobsOf(t) = {}
  BY ConstantsOK, RowFacts DEF Init, JobsOf
<1>2. Retained(t) = 0 /\ Charged(t) = 0
  <2>1. Cardinality({}) = 0
    BY FS_EmptySet
  <2>2. QED
    BY <1>1, <2>1 DEF Init, Retained, Charged
<1>3. ~VersionsLocked(t)
  BY RowFacts DEF Init, VersionsLocked
<1>4. QED
  BY <1>2, <1>3, ConstantsOK

LEMMA LimitStep ==
    IInv /\ IInv' /\ (Calm => LimitInv) /\ [Next]_vars => (Calm' => LimitInv')
<1> SUFFICES ASSUME IInv, IInv', Calm => LimitInv, [Next]_vars, Calm'
             PROVE  LimitInv'
  OBVIOUS
<1>1. CASE UNCHANGED vars
  BY <1>1 DEF vars, Calm, LimitInv, Retained, Charged, JobsOf, Credited, VersionsLocked
<1>2. CASE Next
  <2>1. Calm /\ TypeInv'
    BY <1>2, MishapsGrow DEF Calm, IInv
  <2>2. QED
    BY <1>2, <2>1, LimitTenant, LimitJob, LimitWorker DEF Next
<1>3. QED
  BY <1>1, <1>2

(* A plan's limits on jobs and versions hold at every time, although jobs   *)
(* take long and are credited when cancelled (require_capacity).            *)
THEOREM LimitsAreKept == Spec => []LimitsHold
<1>1. (Calm => LimitInv) => LimitsHold
  BY DEF LimitInv, LimitsHold
<1>2. Spec => [](Calm => LimitInv)
  BY AlwaysInv, LimitInit, LimitStep, PTL DEF Spec
<1>3. QED
  BY <1>1, <1>2, PTL

(***************************************************************************)
(* The queue implements its contract, for every value of its constants:    *)
(* TrainingQueue refines TrainingContract.                                 *)
(***************************************************************************)

(* The steps of the contract, in terms of the rows of the queue. *)
Kept(j) == job'[j].tenant = job[j].tenant /\ job'[j].cancel = job[j].cancel

LEMMA MappedSteps ==
    ASSUME NEW j \in Jobs
    PROVE  /\ job'[j].status = job[j].status /\ Kept(j) => Contract!JobStep(j)
           /\ /\ job[j].status = "queued"
              /\ job'[j].status = "running"
              /\ Kept(j)
              => Contract!JobStep(j)
           /\ /\ job[j].status = "running"
              /\ job'[j].status = "queued"
              /\ Kept(j)
              => Contract!JobStep(j)
           /\ /\ job'[j].tenant = job[j].tenant
              /\ job'[j].cancel
              /\ \/ job[j].status = "queued" /\ job'[j].status = "cancelled"
                 \/ job[j].status = "running" /\ job'[j].status = "running"
              => Contract!JobStep(j)
           /\ /\ job[j].status = "running"
              /\ Kept(j)
              /\ \/ job'[j].status = "failed"
                 \/ job'[j].status = "cancelled" /\ job[j].cancel
                 \/ job'[j].status = "succeeded" /\ ~job[j].cancel
              => Contract!JobStep(j)
           /\ /\ job[j].status = "none"
              /\ job'[j].status = "queued"
              /\ job'[j].tenant \in Tenants
              /\ ~job'[j].cancel
              /\ \A i \in Jobs \ {j} :
                    job'[i].status \in Active => job'[i].tenant # job'[j].tenant
              => Contract!JobStep(j)
BY DEF Kept, Active, Contract!JobStep, Contract!Stay, Contract!Same, Contract!Start,
   Contract!GiveBack, Contract!Revoke, Contract!End, Contract!Submit, Contract!Open

(* An action that changes one row. *)
LEMMA OthersStay ==
    ASSUME TypeInv, NEW j \in Jobs, NEW row, SetJob(j, row), Contract!JobStep(j)
    PROVE  \A i \in Jobs : Contract!JobStep(i)
<1> SUFFICES ASSUME NEW i \in Jobs, i # j
             PROVE  Contract!JobStep(i)
  OBVIOUS
<1>1. job'[i] = job[i]
  BY DEF TypeInv, TypeOK, SetJob
<1>2. QED
  BY <1>1, MappedSteps DEF Kept

LEMMA AllStay ==
    ASSUME UNCHANGED job
    PROVE  \A i \in Jobs : Contract!JobStep(i)
BY MappedSteps DEF Kept

LEMMA MapsTenant ==
    ASSUME IInv, Calm, Calm', OneActiveJob', Tenant
    PROVE  \A i \in Jobs : Contract!JobStep(i)
<1> USE DEF IInv
<1>1. ASSUME NEW t \in Tenants, RequestTraining(t)
      PROVE  \A i \in Jobs : Contract!JobStep(i)
  <2> DEFINE row == [NoRow EXCEPT !.tenant = t, !.status = "queued"]
  <2>1. PICK j \in Jobs : job[j].status = "none" /\ SetJob(j, row)
    BY <1>1 DEF RequestTraining
  <2>2. row.tenant = t /\ row.status = "queued" /\ row.cancel = FALSE
    BY DEF NoRow
  <2> HIDE DEF row
  <2>3. job'[j] = row
    BY <2>1 DEF TypeInv, TypeOK, SetJob
  <2>4. \A i \in Jobs \ {j} :
           job'[i].status \in Active => job'[i].tenant # job'[j].tenant
    BY <2>2, <2>3 DEF OneActiveJob, Active
  <2>5. Contract!JobStep(j)
    BY <2>1, <2>2, <2>3, <2>4, MappedSteps
  <2>6. QED
    BY <2>1, <2>5, OthersStay
<1>2. ASSUME NEW t \in Tenants, RegisterVersion(t) \/ SetTenantStatus(t)
      PROVE  \A i \in Jobs : Contract!JobStep(i)
  BY <1>2, AllStay DEF RegisterVersion, SetTenantStatus
<1>3. ASSUME NEW t \in Tenants, ArchiveVersion(t)
      PROVE  \A i \in Jobs : Contract!JobStep(i)
  <2>1. CASE UNCHANGED job
    BY <2>1, AllStay
  <2>2. ASSUME NEW j \in Jobs, SetJob(j, [job[j] EXCEPT !.version = "archived"])
        PROVE  \A i \in Jobs : Contract!JobStep(i)
    <3>1. /\ job'[j].status = job[j].status
          /\ Kept(j)
      BY <2>2 DEF TypeInv, TypeOK, SetJob, Row, Kept
    <3>2. QED
      BY <2>2, <3>1, OthersStay, MappedSteps
  <2>3. QED
    BY <1>3, <2>1, <2>2 DEF ArchiveVersion, JobsOf
<1>4. QED
  BY <1>1, <1>2, <1>3 DEF Tenant

LEMMA MapsJob ==
    ASSUME IInv, NEW j \in Jobs, CancelTraining(j) \/ Heartbeat(j)
    PROVE  \A i \in Jobs : Contract!JobStep(i)
<1> USE DEF IInv
<1>0. job[j] \in Row
  BY DEF TypeInv, TypeOK
<1>1. CASE CancelTraining(j)
  <2> DEFINE row == [job[j] EXCEPT !.cancel = TRUE,
                                   !.status = IF @ = "queued" THEN "cancelled" ELSE @]
  <2>1. /\ row.tenant = job[j].tenant /\ row.cancel
        /\ row.status = IF job[j].status = "queued" THEN "cancelled" ELSE job[j].status
    BY <1>0 DEF Row
  <2>2. SetJob(j, row) /\ job[j].status \in Active
    BY <1>1 DEF CancelTraining
  <2> HIDE DEF row
  <2>3. job'[j] = row
    BY <2>2 DEF TypeInv, TypeOK, SetJob
  <2>4. Contract!JobStep(j)
    BY <2>1, <2>2, <2>3, MappedSteps DEF Active
  <2>5. QED
    BY <2>2, <2>4, OthersStay
<1>2. CASE Heartbeat(j)
  <2>1. SetJob(j, [job[j] EXCEPT !.beat = "stale"])
    BY <1>2 DEF Heartbeat
  <2>2. job'[j].status = job[j].status /\ Kept(j)
    BY <1>0, <2>1 DEF TypeInv, TypeOK, SetJob, Row, Kept
  <2>3. QED
    BY <2>1, <2>2, OthersStay, MappedSteps
<1>3. QED
  BY <1>1, <1>2

LEMMA MapsClaim ==
    ASSUME IInv, NEW w \in Workers, Claim(w)
    PROVE  \A i \in Jobs : Contract!JobStep(i)
<1> USE DEF IInv
<1>1. ASSUME NEW i \in Jobs, job'[i] = Recovered[i]
      PROVE  Contract!JobStep(i)
  <2>1. CASE ~Interrupted(i)
    BY <1>1, <2>1, MappedSteps DEF Recovered, Kept
  <2>2. CASE Interrupted(i)
    <3> DEFINE s == IF job[i].attempts < MaxAttempts THEN "queued" ELSE "failed"
    <3>1. job'[i] = [job[i] EXCEPT !.status = s] /\ job[i] \in Row
      BY <1>1, <2>2 DEF Recovered, TypeInv, TypeOK
    <3>2. job'[i].status = s /\ Kept(i) /\ job[i].status = "running"
      BY <2>2, <3>1 DEF Row, Kept, Interrupted
    <3>3. QED
      BY <3>2, MappedSteps
  <2>3. QED
    BY <2>1, <2>2
<1>2. ASSUME NEW i \in Jobs, job'[i] = Started(i), Recovered[i].status = "queued"
      PROVE  Contract!JobStep(i)
  <2>1. job[i] \in Row
    BY DEF TypeInv, TypeOK
  <2>2. job'[i].status = "running" /\ Kept(i)
    BY <1>2, <2>1 DEF Started, Row, Kept
  <2>3. job[i].status \in Active
    BY <1>2, <2>1 DEF Recovered, Interrupted, Active
  <2>4. QED
    BY <2>2, <2>3, MappedSteps DEF Active
<1>3. CASE job' = Recovered
  BY <1>1, <1>3
<1>4. ASSUME NEW j \in Claimable(Recovered), job' = [Recovered EXCEPT ![j] = Started(j)]
      PROVE  \A i \in Jobs : Contract!JobStep(i)
  <2>1. j \in Jobs /\ Recovered[j].status = "queued"
    BY DEF Claimable
  <2>2. \A i \in Jobs : job'[i] = IF i = j THEN Started(j) ELSE Recovered[i]
    BY <1>4 DEF Recovered
  <2>3. QED
    BY <1>1, <1>2, <2>1, <2>2
<1>5. QED
  BY <1>3, <1>4 DEF Claim

LEMMA MapsWorker ==
    ASSUME IInv, Calm, Calm', NEW w \in Workers, WorkerStep(w)
    PROVE  \A i \in Jobs : Contract!JobStep(i)
<1> USE DEF IInv
<1> DEFINE j == worker[w].job
<1>0. worker[w].pc \in Busy => j \in Jobs /\ job[j] \in Row /\ SoundRow(job[j]) /\ Holds(w)
  BY DEF TypeInv, TypeOK, BusyHasJob, CalmInv, RowsInv, HolderInv
<1>1. CASE Claim(w)
  BY <1>1, MapsClaim
<1>2. CASE Pulse(w)
  <2>1. SetJob(j, [job[j] EXCEPT !.beat = "fresh", !.begun = TRUE])
    BY <1>2 DEF Pulse
  <2>2. j \in Jobs /\ job[j] \in Row
    BY <1>0, <1>2 DEF Pulse, Busy, Phases
  <2>3. job'[j].status = job[j].status /\ Kept(j)
    BY <2>1, <2>2 DEF TypeInv, TypeOK, SetJob, Row, Kept
  <2>4. QED
    BY <2>1, <2>2, <2>3, OthersStay, MappedSteps
<1>3. CASE Commit(w)
  <2>1. j \in Jobs /\ job[j] \in Row /\ SoundRow(job[j]) /\ Holds(w) /\ worker[w].pc = "committing"
    BY <1>0, <1>3 DEF Commit, Busy, Phases
  <2>2. job[j].status = "running" /\ job[j].version = "none" /\ ~job[j].cancel
    BY <2>1 DEF Holds, SoundRow
  <2>3. SetJob(j, Succeeded(j))
    BY <1>3, <2>2 DEF Commit
  <2>4. job'[j].status = "succeeded" /\ Kept(j)
    BY <2>1, <2>3 DEF TypeInv, TypeOK, SetJob, Succeeded, Row, Kept
  <2>5. QED
    BY <2>1, <2>2, <2>3, <2>4, OthersStay, MappedSteps
<1>4. CASE FinishFailed(w)
  <2>1. j \in Jobs /\ Holds(w) /\ worker[w].pc = "cleaned" /\ SetJob(j, Outcome(w))
    BY <1>0, <1>4 DEF FinishFailed, Busy, Phases
  <2>2. job'[j] = Outcome(w)
    BY <2>1 DEF TypeInv, TypeOK, SetJob
  <2>3. /\ Kept(j) /\ job[j].status = "running"
        /\ job'[j].status \in {"queued", "failed", "cancelled"}
        /\ job'[j].status = "cancelled" => job[j].cancel
    BY <2>1, <2>2, OutcomeSound DEF Kept, Holds
  <2>4. QED
    BY <2>1, <2>3, OthersStay, MappedSteps
<1>5. CASE UNCHANGED job
  BY <1>5, AllStay
<1>6. QED
  BY <1>1, <1>2, <1>3, <1>4, <1>5 DEF WorkerStep, Prepare, PulseStops, TrainingFails,
     Register, Cleanup, FinishLost, DependencyFails, StartWorker, SignalStop, Exit,
     Crash, DropGuard

LEMMA MapsInit == Init => Contract!Init
<1> SUFFICES ASSUME Init PROVE Contract!Init
  OBVIOUS
<1>1. \A j \in Jobs : job[j].status = "none" /\ job[j].tenant = NoTenant /\ job[j].cancel = FALSE
  BY RowFacts DEF Init
<1>2. QED
  BY <1>1 DEF Contract!Init, Init, Calm

LEMMA MapsNext == IInv /\ IInv' /\ [Next]_vars => [Contract!Next]_(Contract!vars)
<1> SUFFICES ASSUME IInv, IInv', [Next]_vars
             PROVE  [Contract!Next]_(Contract!vars)
  OBVIOUS
<1>1. CASE UNCHANGED vars
  BY <1>1 DEF vars, Contract!vars, Calm
<1>2. CASE Next
  <2>1. Calm' => Calm
    BY <1>2, MishapsGrow DEF Calm
  <2>2. ASSUME Calm'
        PROVE  \A i \in Jobs : Contract!JobStep(i)
    <3>1. OneActiveJob'
      BY <2>2 DEF IInv, CalmInv
    <3>2. QED
      BY <1>2, <2>1, <2>2, <3>1, MapsTenant, MapsJob, MapsWorker DEF Next
  <2>3. QED
    BY <2>1, <2>2 DEF Contract!Next
<1>3. QED
  BY <1>1, <1>2

(* Every behaviour of the queue is one the contract with the tenant allows. *)
THEOREM ImplementsContract == Spec => KeepsContract
BY MapsInit, MapsNext, AlwaysInv, PTL DEF Spec, KeepsContract, Contract!Spec

=============================================================================

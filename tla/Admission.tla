----------------------------- MODULE Admission -----------------------------
(***************************************************************************)
(* Admission of the recommendation requests of one tenant by several API   *)
(* processes: concurrency slots and the monthly quota, kept in Redis while *)
(* it answers and in each process while it does not, and the circuit       *)
(* breaker that decides between the two.                                   *)
(*                                                                         *)
(* One action is one Redis command (each is a Lua script, so atomic), one  *)
(* step under a process's own lock, or one database statement.  A request  *)
(* is served once, so its name stands for its lease identifier too.  The   *)
(* rate window only refuses or lets pass, the month is one period.         *)
(***************************************************************************)
EXTENDS Integers, FiniteSets

CONSTANTS
    Processes,       \* API worker processes
    Requests,        \* requests, each sent once
    SlotLimit,       \* slots the ready capacity provides
    QuotaLimit,      \* the plan's recommendation_requests limit
    MaxDisruptions   \* bound: outages, lost replies, crashes, slow requests

ASSUME ConstantsOK ==
    /\ SlotLimit \in Nat \ {0}
    /\ QuotaLimit \in Nat
    /\ IsFiniteSet(Requests)
    /\ MaxDisruptions \in Nat

VARIABLES
    redis,        \* reachability and content of Redis
    breaker,      \* [Processes -> circuit and probe thread]
    local,        \* [Processes -> the per-process fallback]
    request,      \* [Requests -> state of the request]
    ledger,       \* usage events of the month, served or failed
    disruptions,  \* disruptions so far (bound)
    lapses        \* history: which of the lapses below have happened

vars == <<redis, breaker, local, request, ledger, disruptions, lapses>>

(* unshared: a decision was taken without Redis, or Redis lost its content. *)
(* raced: a failure was reported while the probe thread was on its way out. *)
Lapses == {"unshared", "raced"}

-----------------------------------------------------------------------------
Counter == [exists : BOOLEAN,
            seeded : BOOLEAN,      \* created by SET NX EXAT, not by DECRBY
            count  : Int]

NoCounter == [exists |-> FALSE, seeded |-> FALSE, count |-> 0]

Redis == [up      : BOOLEAN,
          leases  : SUBSET Requests,   \* gr:slots, without the expired ones
          counter : Counter]           \* gr:q:<tenant>:recs:<month>

(* The probe thread is not alive; sleeps or pings; has closed the circuit;  *)
(* has left its loop and is still alive.                                    *)
Probes == {"none", "probing", "closed", "leaving"}

Breaker == [open : BOOLEAN, probe : Probes]

Fallback == [slots : Nat, quota : Nat]

(* A request that has not come yet waits for a slot like one that has.      *)
Phases == {"slot", "trying", "queued", "rate", "quota", "seeding", "storing",
           "retaking", "counting", "serving", "refund", "release", "done"}

Stores == {"none", "redis", "local"}

Request == [pc      : Phases,
            process : Processes,
            lease   : Stores,          \* Lease.local
            taken   : BOOLEAN,         \* quota_taken
            seed    : Nat,             \* what the ledger said
            served  : BOOLEAN]

TypeOK ==
    /\ redis \in Redis
    /\ breaker \in [Processes -> Breaker]
    /\ local \in [Processes -> Fallback]
    /\ request \in [Requests -> Request]
    /\ ledger \in Nat
    /\ disruptions \in 0 .. MaxDisruptions
    /\ lapses \subseteq Lapses

-----------------------------------------------------------------------------
(* A comment "slip" marks a plausible mistake in the definition that        *)
(* follows it.  No action uses one.                                         *)

At(p) == {r \in Requests : request[r].process = p}

Goto(r, pc) == request' = [request EXCEPT ![r].pc = pc]

Over(r) == [request[r] EXCEPT !.pc = "done", !.lease = "none", !.taken = FALSE, !.seed = 0]

Finish(r) == request' = [request EXCEPT ![r] = Over(r)]

Disrupt ==
    /\ disruptions < MaxDisruptions
    /\ disruptions' = disruptions + 1

(* The circuit is looked at before the first command of a call only.        *)
Shared(r) == request[r].pc \in {"trying", "storing", "retaking"} \/ ~breaker[request[r].process].open

(* The command is sent and answered.                                        *)
Answered(r) ==
    /\ Shared(r)
    /\ redis.up
    /\ UNCHANGED <<breaker, disruptions, lapses>>

(* _fail: open the circuit, and start a probe unless one is alive.          *)
Trip(p) ==
    [breaker EXCEPT ![p].open = TRUE,
                    ![p].probe = IF @ = "none" THEN "probing" ELSE @]

(* The circuit is open; or the command raises, with or without effect.      *)
Unanswered(r, effect) ==
    LET p == request[r].process
    IN  \/ /\ ~Shared(r)
           /\ lapses' = lapses \cup {"unshared"}
           /\ UNCHANGED <<redis, breaker, disruptions>>
        \/ /\ Shared(r)
           /\ \/ ~redis.up /\ UNCHANGED <<redis, disruptions>>
              \/ redis.up /\ Disrupt /\ redis' \in {redis, effect}
           /\ breaker' = Trip(p)
           /\ lapses' = lapses \cup {"unshared"}
                               \cup {l \in {"raced"} : breaker[p].probe = "leaving"}

-----------------------------------------------------------------------------
(* The route get_recommendations, in the order of its calls.                *)

Leased(r) ==
    IF Cardinality(redis.leases) < SlotLimit
    THEN [redis EXCEPT !.leases = @ \cup {r}] ELSE redis

TakeLocalSlot(r) ==
    LET p == request[r].process
    IN  IF local[p].slots < SlotLimit
        THEN /\ request' = [request EXCEPT ![r].pc = "rate", ![r].lease = "local"]
             /\ local' = [local EXCEPT ![p].slots = @ + 1]
        ELSE /\ Finish(r) \/ Goto(r, "queued")
             /\ UNCHANGED local

(* acquire_slot: try again while there is no room, or give up with 429.     *)
AcquireSlot(r) ==
    /\ request[r].pc \in {"slot", "trying"}
    /\ \/ /\ Answered(r)
          /\ redis' = Leased(r)
          /\ IF r \in redis'.leases
             THEN request' = [request EXCEPT ![r].pc = "rate", ![r].lease = "redis"]
             ELSE Finish(r) \/ Goto(r, "trying")
          /\ UNCHANGED local
       \/ Unanswered(r, Leased(r)) /\ TakeLocalSlot(r)
    /\ UNCHANGED ledger

(* _LocalFallback.acquire waits for a slot of this process, or until the    *)
(* deadline.                                                                *)
AcquireLocally(r) ==
    /\ request[r].pc = "queued"
    /\ TakeLocalSlot(r)
    /\ UNCHANGED <<redis, breaker, ledger, disruptions, lapses>>

CheckRate(r) ==
    /\ request[r].pc = "rate"
    /\ \/ Answered(r) /\ UNCHANGED redis
       \/ Unanswered(r, redis)
    /\ \E pc \in {"quota", "release"} : Goto(r, pc)
    /\ UNCHANGED <<local, ledger>>

Larger(a, b) == IF a > b THEN a ELSE b

(* Redis does not decide: the fallback will, from what the ledger says now. *)
FallBack(r) == request' = [request EXCEPT ![r].pc = "counting", ![r].seed = ledger]

(* The fallback counts from the larger of its own count and the ledger.     *)
TakeLocally(r) ==
    LET p    == request[r].process
        used == Larger(local[p].quota, request[r].seed)
        Then(pc, taken) ==
            request' = [request EXCEPT ![r].pc = pc, ![r].taken = taken, ![r].seed = 0]
    IN  /\ request[r].pc = "counting"
        /\ IF used + 1 > QuotaLimit
           THEN Then("release", FALSE) /\ UNCHANGED local
           ELSE /\ Then("serving", TRUE)
                /\ local' = [local EXCEPT ![p].quota = used + 1]
        /\ UNCHANGED <<redis, breaker, ledger, disruptions, lapses>>

HasRoom == redis.counter.exists /\ redis.counter.count + 1 <= QuotaLimit

Taken == IF HasRoom THEN [redis EXCEPT !.counter.count = @ + 1] ELSE redis

(* consume_quota: the script, run once more after the counter was seeded.   *)
TakeQuota(r) ==
    /\ request[r].pc \in {"quota", "retaking"}
    /\ \/ /\ Answered(r)
          /\ redis' = Taken
          /\ CASE HasRoom ->
                    request' = [request EXCEPT ![r].pc = "serving", ![r].taken = TRUE]
               [] ~redis.counter.exists /\ request[r].pc = "quota" ->
                    Goto(r, "seeding")
               [] OTHER -> Goto(r, "release")
       \/ Unanswered(r, Taken) /\ FallBack(r)
    /\ UNCHANGED <<local, ledger>>

ReadLedger(r) ==
    /\ request[r].pc = "seeding"
    /\ request' = [request EXCEPT ![r].pc = "storing", ![r].seed = ledger]
    /\ UNCHANGED <<redis, breaker, local, ledger, disruptions, lapses>>

SeededAnyway(seed) ==              \* slip: SET without NX
    [redis EXCEPT !.counter = [exists |-> TRUE, seeded |-> TRUE, count |-> seed]]

(* SET NX EXAT.                                                             *)
Seeded(seed) ==
    IF redis.counter.exists THEN redis
    ELSE [redis EXCEPT !.counter = [exists |-> TRUE, seeded |-> TRUE, count |-> seed]]

StoreSeed(r) ==
    LET s == Seeded(request[r].seed)
    IN  /\ request[r].pc = "storing"
        /\ \/ /\ Answered(r)
              /\ redis' = s
              /\ request' = [request EXCEPT ![r].pc = "retaking", ![r].seed = 0]
           \/ Unanswered(r, s) /\ FallBack(r)
        /\ UNCHANGED <<local, ledger>>

ServeWithoutFinally(r) ==          \* slip: an exception skips refund and release
    /\ request[r].pc = "serving"
    /\ \/ /\ request' = [request EXCEPT ![r].pc = "release", ![r].served = TRUE]
          /\ ledger' = ledger + 1
       \/ /\ Finish(r)
          /\ ledger' \in {ledger, ledger + 1}
    /\ UNCHANGED <<redis, breaker, local, disruptions, lapses>>

(* Served and metered, in one transaction; or failed, with nothing metered  *)
(* unless that transaction took effect and its answer was lost.             *)
Serve(r) ==
    /\ request[r].pc = "serving"
    /\ \/ /\ request' = [request EXCEPT ![r].pc = "release", ![r].served = TRUE]
          /\ ledger' = ledger + 1
       \/ /\ Goto(r, "refund")
          /\ ledger' \in {ledger, ledger + 1}
    /\ UNCHANGED <<redis, breaker, local, disruptions, lapses>>

(* DECRBY creates a counter that does not exist, without an expiry.         *)
Refunded ==
    [redis EXCEPT !.counter = [exists |-> TRUE, seeded |-> redis.counter.seeded,
                               count |-> redis.counter.count - 1]]

Refund(r) ==
    LET p == request[r].process
    IN  /\ request[r].pc = "refund"
        /\ request' = [request EXCEPT ![r].pc = "release", ![r].taken = FALSE]
        /\ \/ Answered(r) /\ redis' = Refunded /\ UNCHANGED local
           \/ /\ Unanswered(r, Refunded)
              /\ local' = [local EXCEPT ![p].quota = Larger(0, @ - 1)]
        /\ UNCHANGED ledger

Released(r) == [redis EXCEPT !.leases = @ \ {r}]

HeldLocallyNow(r) ==               \* slip: released where a slot would be taken now
    breaker[request[r].process].open

HeldLocally(r) == request[r].lease = "local"

(* release: a lease goes back where it was taken; one that Redis keeps      *)
(* because the circuit is open expires there.                               *)
Release(r) ==
    LET p == request[r].process
    IN  /\ request[r].pc = "release"
        /\ Finish(r)
        /\ \/ /\ HeldLocally(r)
              /\ local' = [local EXCEPT ![p].slots = Larger(0, @ - 1)]
              /\ UNCHANGED <<redis, breaker, disruptions, lapses>>
           \/ /\ ~HeldLocally(r)
              /\ \/ Answered(r) /\ redis' = Released(r)
                 \/ Unanswered(r, Released(r))
              /\ UNCHANGED local
        /\ UNCHANGED ledger

-----------------------------------------------------------------------------
(* The probe thread.                                                        *)

PingOnce(p) ==                     \* slip: a failed ping ends the loop
    /\ breaker[p].probe = "probing"
    /\ breaker' = [breaker EXCEPT ![p] =
                      IF redis.up THEN [open |-> FALSE, probe |-> "closed"]
                      ELSE [open |-> TRUE, probe |-> "leaving"]]
    /\ UNCHANGED <<redis, local, request, ledger, disruptions, lapses>>

(* A failed ping changes nothing: the thread sleeps and tries again.        *)
Ping(p) ==
    /\ breaker[p].probe = "probing"
    /\ redis.up
    /\ breaker' = [breaker EXCEPT ![p] = [open |-> FALSE, probe |-> "closed"]]
    /\ UNCHANGED <<redis, local, request, ledger, disruptions, lapses>>

(* while self._circuit_open: the circuit may have been opened again.        *)
TestLoop(p) ==
    /\ breaker[p].probe = "closed"
    /\ breaker' = [breaker EXCEPT ![p].probe =
                      IF breaker[p].open THEN "probing" ELSE "leaving"]
    /\ UNCHANGED <<redis, local, request, ledger, disruptions, lapses>>

ThreadEnds(p) ==
    /\ breaker[p].probe = "leaving"
    /\ breaker' = [breaker EXCEPT ![p].probe = "none"]
    /\ UNCHANGED <<redis, local, request, ledger, disruptions, lapses>>

-----------------------------------------------------------------------------
(* The surroundings.                                                        *)

Fresh == [open |-> FALSE, probe |-> "none"]

Empty == [slots |-> 0, quota |-> 0]

(* A process is killed and started again; its leases expire in Redis.       *)
Crash(p) ==
    /\ Disrupt
    /\ breaker' = [breaker EXCEPT ![p] = Fresh]
    /\ local' = [local EXCEPT ![p] = Empty]
    /\ request' = [r \in Requests |->
                      IF r \in At(p) /\ request[r].pc # "slot"
                      THEN Over(r)
                      ELSE request[r]]
    /\ UNCHANGED <<redis, ledger, lapses>>

LoseRedis ==
    /\ redis.up
    /\ Disrupt
    /\ redis' = [redis EXCEPT !.up = FALSE]
    /\ UNCHANGED <<breaker, local, request, ledger, lapses>>

(* Reachable again; restarted, it comes back empty (nothing is persisted).  *)
RecoverRedis ==
    /\ ~redis.up
    /\ \/ /\ redis' = [redis EXCEPT !.up = TRUE]
          /\ UNCHANGED lapses
       \/ /\ redis' = [up |-> TRUE, leases |-> {}, counter |-> NoCounter]
          /\ lapses' = lapses \cup {"unshared"}
    /\ UNCHANGED <<breaker, local, request, ledger, disruptions>>

(* SLOT_LEASE_SECONDS pass for the lease of a request that is over, or that *)
(* is still being served.                                                   *)
ExpireLease(r) ==
    /\ r \in redis.leases
    /\ redis' = Released(r)
    /\ \/ request[r].pc = "done" /\ UNCHANGED disruptions
       \/ request[r].pc # "done" /\ Disrupt
    /\ UNCHANGED <<breaker, local, request, ledger, lapses>>

-----------------------------------------------------------------------------
Init ==
    /\ redis = [up |-> TRUE, leases |-> {}, counter |-> NoCounter]
    /\ breaker = [p \in Processes |-> Fresh]
    /\ local = [p \in Processes |-> Empty]
    /\ request \in [Requests -> {[pc |-> "slot", process |-> p, lease |-> "none",
                                  taken |-> FALSE, seed |-> 0, served |-> FALSE] :
                                    p \in Processes}]
    /\ ledger = 0
    /\ disruptions = 0
    /\ lapses = {}

Handle(r) ==
    \/ AcquireSlot(r) \/ AcquireLocally(r) \/ CheckRate(r) \/ TakeQuota(r) \/ ReadLedger(r)
    \/ StoreSeed(r) \/ TakeLocally(r) \/ Serve(r) \/ Refund(r) \/ Release(r)

Probe(p) == Ping(p) \/ TestLoop(p) \/ ThreadEnds(p)

Next ==
    \/ \E r \in Requests : Handle(r) \/ ExpireLease(r)
    \/ \E p \in Processes : Probe(p) \/ Crash(p)
    \/ LoseRedis \/ RecoverRedis

Spec == Init /\ [][Next]_vars

-----------------------------------------------------------------------------
InService == {"rate", "quota", "seeding", "storing", "retaking", "counting",
              "serving", "refund", "release"}

Holders(store) ==
    {r \in Requests : request[r].pc \in InService /\ request[r].lease = store}

(* No slot leaks and none is given back twice, however the circuit opens    *)
(* and closes while requests hold slots: each process counts exactly its    *)
(* own holders, within the limit.                                           *)
LocalSlotsAccounted ==
    \A p \in Processes :
        /\ local[p].slots = Cardinality(Holders("local") \cap At(p))
        /\ local[p].slots <= SlotLimit

(* As long as nothing is disturbed the shared slots are those of the        *)
(* requests in service: a failed or refused request gives its slot back.    *)
SharedSlotsAccounted ==
    /\ Cardinality(redis.leases) <= SlotLimit
    /\ disruptions = 0 => redis.leases = Holders("redis")

Charged == {r \in Requests : request[r].served \/ request[r].taken}

(* ER-F-09: requests that seed, take and refund at once never pass the      *)
(* monthly limit together, whichever process they reach and even when a     *)
(* process is killed, as long as every decision is shared.                  *)
QuotaHolds == "unshared" \notin lapses => Cardinality(Charged) <= QuotaLimit

(* "Monthly recommendation quota: counter seeded once from the Postgres     *)
(* usage ledger".                                                           *)
CounterIsSeeded == redis.counter.exists => redis.counter.seeded

(* An open circuit has a probe that will close it when Redis answers again, *)
(* unless a failure met a probe thread that had already left its loop.      *)
OpenIsProbed ==
    "raced" \notin lapses =>
        \A p \in Processes :
            breaker[p].open => breaker[p].probe \in {"probing", "closed"}
=============================================================================

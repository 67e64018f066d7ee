-------------------------- MODULE AdmissionProofs --------------------------
(* Theorems about Admission for every value of its constants. *)
EXTENDS Admission, FiniteSetTheorems, TLAPS

(***************************************************************************)
(* Types.                                                                  *)
(***************************************************************************)

LEMMA CounterTypes ==
    ASSUME NEW e \in BOOLEAN, NEW s \in BOOLEAN, NEW c \in Int
    PROVE  [exists |-> e, seeded |-> s, count |-> c] \in Counter
  BY Zenon DEF Counter

LEMMA NoCounterTypes == NoCounter \in Counter
  <1>1. 0 \in Int
    OBVIOUS
  <1> QED BY <1>1, CounterTypes, Zenon DEF NoCounter

LEMMA RedisTypes ==
    ASSUME NEW u \in BOOLEAN, NEW l \in SUBSET Requests, NEW c \in Counter
    PROVE  [up |-> u, leases |-> l, counter |-> c] \in Redis
  BY Zenon DEF Redis

LEMMA BreakerTypes ==
    ASSUME NEW o \in BOOLEAN, NEW t \in Probes
    PROVE  [open |-> o, probe |-> t] \in Breaker
  BY Zenon DEF Breaker

LEMMA RequestTypes ==
    ASSUME NEW pc \in Phases, NEW p \in Processes, NEW l \in Stores,
           NEW t \in BOOLEAN, NEW n \in Nat, NEW s \in BOOLEAN
    PROVE  [pc |-> pc, process |-> p, lease |-> l, taken |-> t, seed |-> n, served |-> s]
               \in Request
  BY Zenon DEF Request

(* What Redis may hold after a command of a request. *)
LEMMA EffectTypes ==
    ASSUME TypeOK, NEW r \in Requests
    PROVE  /\ Leased(r) \in Redis
           /\ Taken \in Redis
           /\ Refunded \in Redis
           /\ Released(r) \in Redis
           /\ \A seed \in Nat : Seeded(seed) \in Redis
  <1>1. Leased(r) \in Redis
    BY DEF TypeOK, Leased, Redis
  <1>2. Taken \in Redis
    BY DEF TypeOK, Taken, Redis, Counter
  <1>3. Refunded \in Redis
    <2>1. redis.counter.seeded \in BOOLEAN /\ redis.counter.count - 1 \in Int
      BY DEF TypeOK, Redis, Counter
    <2> QED BY <2>1, CounterTypes, Zenon DEF TypeOK, Refunded, Redis
  <1>4. Released(r) \in Redis
    BY DEF TypeOK, Released, Redis
  <1>5. ASSUME NEW seed \in Nat PROVE Seeded(seed) \in Redis
    <2>1. seed \in Int
      OBVIOUS
    <2> QED BY <2>1, CounterTypes, Zenon DEF TypeOK, Seeded, Redis
  <1> QED BY <1>1, <1>2, <1>3, <1>4, <1>5

LEMMA AnsweredTypes ==
    ASSUME TypeOK, NEW r \in Requests, Answered(r), redis' \in Redis
    PROVE  /\ breaker' \in [Processes -> Breaker]
           /\ disruptions' \in 0 .. MaxDisruptions
           /\ lapses' \subseteq Lapses
  BY DEF TypeOK, Answered

LEMMA UnansweredTypes ==
    ASSUME TypeOK, NEW r \in Requests, NEW effect \in Redis, Unanswered(r, effect)
    PROVE  /\ redis' \in Redis
           /\ breaker' \in [Processes -> Breaker]
           /\ disruptions' \in 0 .. MaxDisruptions
           /\ lapses' \subseteq Lapses
  <1> DEFINE p == request[r].process
  <1>1. p \in Processes
    BY DEF TypeOK, Request
  <1>2. Trip(p) \in [Processes -> Breaker]
    <2>1. breaker \in [Processes -> Breaker] /\ breaker[p] \in Breaker
      BY <1>1 DEF TypeOK
    <2>2. \A probe \in Probes :
            [breaker[p] EXCEPT !.open = TRUE, !.probe = probe] \in Breaker
      BY <2>1 DEF Breaker
    <2>3. (IF breaker[p].probe = "none" THEN "probing" ELSE breaker[p].probe) \in Probes
      BY <2>1 DEF Breaker, Probes
    <2>4. Trip(p) = [breaker EXCEPT ![p] =
                       [breaker[p] EXCEPT
                          !.open = TRUE,
                          !.probe = IF breaker[p].probe = "none" THEN "probing"
                                    ELSE breaker[p].probe]]
      BY <1>1, <2>1 DEF Trip, Breaker
    <2> QED BY <1>1, <2>1, <2>2, <2>3, <2>4
  <1>3. redis' \in Redis
    <2>1. redis' \in {redis, effect}
      BY Zenon DEF Unanswered
    <2>2. redis \in Redis
      BY DEF TypeOK
    <2> QED BY <2>1, <2>2
  <1>4. breaker' \in [Processes -> Breaker]
    BY <1>2 DEF TypeOK, Unanswered
  <1>5. disruptions' \in 0 .. MaxDisruptions
    BY ConstantsOK DEF TypeOK, Unanswered, Disrupt
  <1>6. lapses' \subseteq Lapses
    BY DEF TypeOK, Unanswered, Lapses
  <1> QED BY <1>3, <1>4, <1>5, <1>6

LEMMA GotoTypes ==
    ASSUME TypeOK, NEW r \in Requests, NEW pc \in Phases, Goto(r, pc)
    PROVE  request' \in [Requests -> Request]
  BY DEF TypeOK, Goto, Request

LEMMA FinishTypes ==
    ASSUME TypeOK, NEW r \in Requests, Finish(r)
    PROVE  request' \in [Requests -> Request]
  <1>1. request \in [Requests -> Request] /\ request[r] \in Request
    BY DEF TypeOK
  <1>2. Over(r) \in Request
    BY <1>1 DEF Over, Request, Phases, Stores
  <1> QED BY <1>1, <1>2 DEF Finish

LEMMA LocalSlotTypes ==
    ASSUME TypeOK, NEW r \in Requests, TakeLocalSlot(r)
    PROVE  /\ request' \in [Requests -> Request]
           /\ local' \in [Processes -> Fallback]
  <1>1. request[r].process \in Processes
    BY DEF TypeOK, Request
  <1>2. request' \in [Requests -> Request]
    <2>1. CASE Finish(r) \/ Goto(r, "queued")
      BY <2>1, FinishTypes, GotoTypes DEF Phases
    <2>2. CASE request' = [request EXCEPT ![r].pc = "rate", ![r].lease = "local"]
      <3>1. request \in [Requests -> Request] /\ request[r] \in Request
        BY DEF TypeOK
      <3>2. [request[r] EXCEPT !.pc = "rate", !.lease = "local"] \in Request
        BY <3>1 DEF Request, Phases, Stores
      <3>3. request' = [request EXCEPT ![r] =
                          [request[r] EXCEPT !.pc = "rate", !.lease = "local"]]
        BY <2>2, <3>1
      <3> QED BY <3>1, <3>2, <3>3
    <2> QED BY <2>1, <2>2, Zenon DEF TakeLocalSlot
  <1>3. local' \in [Processes -> Fallback]
    BY <1>1, ConstantsOK DEF TypeOK, TakeLocalSlot, Fallback
  <1> QED BY <1>2, <1>3

LEMMA FallBackTypes ==
    ASSUME TypeOK, NEW r \in Requests, FallBack(r)
    PROVE  request' \in [Requests -> Request]
  <1>1. /\ request \in [Requests -> Request] /\ request[r] \in Request
        /\ ledger \in Nat
    BY DEF TypeOK
  <1>2. [request[r] EXCEPT !.pc = "counting", !.seed = ledger] \in Request
    BY <1>1 DEF Request, Phases
  <1>3. request' = [request EXCEPT ![r] = [request[r] EXCEPT !.pc = "counting",
                                                            !.seed = ledger]]
    BY <1>1 DEF FallBack
  <1> QED BY <1>1, <1>2, <1>3

LEMMA TypeInit == Init => TypeOK
  <1> SUFFICES ASSUME Init PROVE TypeOK
    OBVIOUS
  <1>2. redis \in Redis
    BY NoCounterTypes, RedisTypes DEF Init
  <1>3. breaker \in [Processes -> Breaker]
    BY BreakerTypes DEF Init, Fresh, Probes
  <1>4. local \in [Processes -> Fallback]
    BY DEF Init, Empty, Fallback
  <1>5. request \in [Requests -> Request]
    <2> DEFINE First(p) == [pc |-> "slot", process |-> p, lease |-> "none",
                            taken |-> FALSE, seed |-> 0, served |-> FALSE]
    <2>1. "slot" \in Phases /\ "none" \in Stores /\ 0 \in Nat
      BY DEF Phases, Stores
    <2>2. \A p \in Processes : First(p) \in Request
      BY <2>1, RequestTypes, Zenon
    <2>3. request \in [Requests -> {First(p) : p \in Processes}]
      BY Zenon DEF Init
    <2> HIDE DEF First
    <2> QED BY <2>2, <2>3
  <1> QED BY <1>2, <1>3, <1>4, <1>5, ConstantsOK DEF Init, TypeOK, Lapses

LEMMA TypeNext == TypeOK /\ [Next]_vars => TypeOK'
  <1> SUFFICES ASSUME TypeOK, [Next]_vars PROVE TypeOK'
    OBVIOUS
  <1>1. ASSUME NEW r \in Requests, AcquireSlot(r) PROVE TypeOK'
    <2>1. CASE TakeLocalSlot(r)
      <3>1. CASE Answered(r) /\ redis' = Leased(r)
        BY <1>1, <2>1, <3>1, EffectTypes, AnsweredTypes, LocalSlotTypes
        DEF AcquireSlot, TypeOK
      <3>2. CASE Unanswered(r, Leased(r))
        BY <1>1, <2>1, <3>2, EffectTypes, UnansweredTypes, LocalSlotTypes
        DEF AcquireSlot, TypeOK
      <3> QED BY <1>1, <3>1, <3>2 DEF AcquireSlot
    <2>2. CASE ~TakeLocalSlot(r)
      <3>1. Answered(r) /\ redis' = Leased(r) /\ UNCHANGED local
        BY <1>1, <2>2 DEF AcquireSlot
      <3>2. request' \in [Requests -> Request]
        <4>1. CASE r \in redis'.leases
          BY <1>1, <2>2, <4>1 DEF AcquireSlot, TypeOK, Request, Phases, Stores
        <4>2. CASE r \notin redis'.leases
          BY <1>1, <2>2, <4>2, FinishTypes, GotoTypes DEF AcquireSlot, Phases
        <4> QED BY <4>1, <4>2
      <3> QED BY <1>1, <3>1, <3>2, EffectTypes, AnsweredTypes DEF AcquireSlot, TypeOK
    <2> QED BY <2>1, <2>2
  <1>2. ASSUME NEW r \in Requests, AcquireLocally(r) PROVE TypeOK'
    BY <1>2, LocalSlotTypes DEF AcquireLocally, TypeOK
  <1>3. ASSUME NEW r \in Requests, CheckRate(r) PROVE TypeOK'
    <2>1. request' \in [Requests -> Request]
      BY <1>3, GotoTypes DEF CheckRate, Phases
    <2>2. redis \in Redis
      BY DEF TypeOK
    <2>3. CASE Answered(r) /\ UNCHANGED redis
      BY <1>3, <2>1, <2>2, <2>3, AnsweredTypes DEF CheckRate, TypeOK
    <2>4. CASE Unanswered(r, redis)
      BY <1>3, <2>1, <2>2, <2>4, UnansweredTypes DEF CheckRate, TypeOK
    <2> QED BY <1>3, <2>3, <2>4 DEF CheckRate
  <1>4. ASSUME NEW r \in Requests, TakeQuota(r) PROVE TypeOK'
    <2>1. CASE Answered(r) /\ redis' = Taken
      <3>1. redis' \in Redis
        BY <2>1, EffectTypes
      <3>2. request' \in [Requests -> Request]
        <4>1. CASE \E pc \in {"seeding", "release"} : Goto(r, pc)
          BY <4>1, GotoTypes DEF Phases
        <4>2. CASE request' = [request EXCEPT ![r].pc = "serving", ![r].taken = TRUE]
          <5>1. request \in [Requests -> Request] /\ request[r] \in Request
            BY DEF TypeOK
          <5>2. [request[r] EXCEPT !.pc = "serving", !.taken = TRUE] \in Request
            BY <5>1 DEF Request, Phases
          <5>3. request' = [request EXCEPT ![r] =
                              [request[r] EXCEPT !.pc = "serving", !.taken = TRUE]]
            BY <4>2, <5>1
          <5> QED BY <5>1, <5>2, <5>3
        <4>3. CASE FallBack(r)
          BY <4>3, FallBackTypes
        <4> QED BY <1>4, <4>1, <4>2, <4>3 DEF TakeQuota
      <3> QED BY <1>4, <2>1, <3>1, <3>2, AnsweredTypes DEF TakeQuota, TypeOK
    <2>2. CASE Unanswered(r, Taken) /\ FallBack(r)
      BY <1>4, <2>2, EffectTypes, UnansweredTypes, FallBackTypes DEF TakeQuota, TypeOK
    <2> QED BY <1>4, <2>1, <2>2 DEF TakeQuota
  <1>5. ASSUME NEW r \in Requests, ReadLedger(r) PROVE TypeOK'
    <2>1. request' = [request EXCEPT ![r] = [request[r] EXCEPT !.pc = "storing",
                                                              !.seed = ledger]]
      BY <1>5 DEF ReadLedger, TypeOK
    <2>2. request[r] \in Request /\ ledger \in Nat
      BY DEF TypeOK
    <2>3. [request[r] EXCEPT !.pc = "storing", !.seed = ledger] \in Request
      BY <2>2 DEF Request, Phases
    <2>4. request' \in [Requests -> Request]
      BY <2>1, <2>3 DEF TypeOK
    <2> QED BY <1>5, <2>4 DEF ReadLedger, TypeOK
  <1>6. ASSUME NEW r \in Requests, StoreSeed(r) PROVE TypeOK'
    <2> DEFINE s == Seeded(request[r].seed)
    <2>1. s \in Redis
      BY EffectTypes DEF TypeOK, Request
    <2> HIDE DEF s
    <2>2. CASE Answered(r) /\ redis' = s /\ ~Unanswered(r, s)
      <3>1. request' \in [Requests -> Request]
        BY <1>6, <2>2 DEF StoreSeed, TypeOK, Request, Phases, s
      <3> QED BY <1>6, <2>1, <2>2, <3>1, AnsweredTypes DEF StoreSeed, TypeOK
    <2>3. CASE Unanswered(r, s)
      <3>1. request' \in [Requests -> Request]
        BY <1>6 DEF StoreSeed, FallBack, TypeOK, Request, Phases
      <3> QED BY <1>6, <2>1, <2>3, <3>1, UnansweredTypes DEF StoreSeed, TypeOK
    <2> QED BY <1>6, <2>2, <2>3 DEF StoreSeed, s
  <1>7. ASSUME NEW r \in Requests, TakeLocally(r) PROVE TypeOK'
    <2>1. request[r].process \in Processes /\ request[r].seed \in Nat
      BY DEF TypeOK, Request
    <2>2. Larger(local[request[r].process].quota, request[r].seed) \in Nat
      BY <2>1 DEF TypeOK, Fallback, Larger
    <2>3. request' \in [Requests -> Request]
      BY <1>7 DEF TakeLocally, TypeOK, Request, Phases
    <2>4. local' \in [Processes -> Fallback]
      BY <1>7, <2>1, <2>2 DEF TakeLocally, TypeOK, Fallback
    <2> QED BY <1>7, <2>3, <2>4 DEF TakeLocally, TypeOK
  <1>8. ASSUME NEW r \in Requests, Serve(r) PROVE TypeOK'
    BY <1>8 DEF Serve, Goto, TypeOK, Request, Phases
  <1>9. ASSUME NEW r \in Requests, Refund(r) PROVE TypeOK'
    <2>1. request' \in [Requests -> Request]
      <3>1. [request[r] EXCEPT !.pc = "release", !.taken = FALSE] \in Request
        BY Zenon DEF TypeOK, Request, Phases
      <3> QED BY <1>9, <3>1 DEF Refund, TypeOK
    <2>2. local' \in [Processes -> Fallback]
      BY <1>9 DEF Refund, TypeOK, Fallback, Request, Larger
    <2>3. CASE Answered(r) /\ redis' = Refunded
      BY <1>9, <2>1, <2>2, <2>3, EffectTypes, AnsweredTypes DEF Refund, TypeOK
    <2>4. CASE Unanswered(r, Refunded)
      BY <1>9, <2>1, <2>2, <2>4, EffectTypes, UnansweredTypes DEF Refund, TypeOK
    <2> QED BY <1>9, <2>3, <2>4 DEF Refund
  <1>10. ASSUME NEW r \in Requests, Release(r) PROVE TypeOK'
    <2>1. request' \in [Requests -> Request]
      BY <1>10, FinishTypes DEF Release
    <2>2. local' \in [Processes -> Fallback]
      BY <1>10 DEF Release, TypeOK, Fallback, Request, Larger
    <2>3. CASE HeldLocally(r)
      BY <1>10, <2>1, <2>2, <2>3 DEF Release, TypeOK
    <2>4. CASE Answered(r) /\ redis' = Released(r)
      BY <1>10, <2>1, <2>2, <2>4, EffectTypes, AnsweredTypes DEF Release, TypeOK
    <2>5. CASE Unanswered(r, Released(r))
      BY <1>10, <2>1, <2>2, <2>5, EffectTypes, UnansweredTypes DEF Release, TypeOK
    <2> QED BY <1>10, <2>3, <2>4, <2>5 DEF Release
  <1>11. ASSUME NEW r \in Requests, ExpireLease(r) PROVE TypeOK'
    BY <1>11, EffectTypes, ConstantsOK DEF ExpireLease, Disrupt, TypeOK
  <1>12. ASSUME NEW p \in Processes, Probe(p) PROVE TypeOK'
    <2>1. breaker' \in [Processes -> Breaker]
      <3>1. CASE Ping(p)
        BY <3>1, BreakerTypes DEF Ping, TypeOK, Probes
      <3>2. CASE TestLoop(p) \/ ThreadEnds(p)
        BY <3>2 DEF TestLoop, ThreadEnds, TypeOK, Breaker, Probes
      <3> QED BY <1>12, <3>1, <3>2 DEF Probe
    <2>2. UNCHANGED <<redis, local, request, ledger, disruptions, lapses>>
      BY <1>12 DEF Probe, Ping, TestLoop, ThreadEnds
    <2> QED BY <2>1, <2>2 DEF TypeOK
  <1>13. ASSUME NEW p \in Processes, Crash(p) PROVE TypeOK'
    <2>1. request' \in [Requests -> Request]
      <3>1. \A r \in Requests : request[r] \in Request
        BY DEF TypeOK
      <3>2. \A r \in Requests : Over(r) \in Request
        BY <3>1 DEF Over, Request, Phases, Stores
      <3> QED BY <1>13, <3>1, <3>2 DEF Crash
    <2>2. local' \in [Processes -> Fallback] /\ breaker' \in [Processes -> Breaker]
      BY <1>13 DEF Crash, TypeOK, Empty, Fallback, Fresh, Breaker, Probes
    <2> QED BY <1>13, <2>1, <2>2, ConstantsOK DEF Crash, Disrupt, TypeOK
  <1>14. CASE LoseRedis
    <2>1. redis' \in Redis
      BY <1>14, Zenon DEF LoseRedis, TypeOK, Redis
    <2> QED BY <1>14, <2>1, ConstantsOK DEF LoseRedis, Disrupt, TypeOK
  <1>15. CASE RecoverRedis
    <2>2. redis' \in Redis
      <3>1. [redis EXCEPT !.up = TRUE] \in Redis
        BY Zenon DEF TypeOK, Redis
      <3> QED BY <1>15, <3>1, NoCounterTypes, RedisTypes DEF RecoverRedis
    <2> QED BY <1>15, <2>2 DEF RecoverRedis, TypeOK, Lapses
  <1>16. CASE UNCHANGED vars
    BY <1>16 DEF vars, TypeOK
  <1> QED
    BY <1>1, <1>2, <1>3, <1>4, <1>5, <1>6, <1>7, <1>8, <1>9, <1>10, <1>11, <1>12,
       <1>13, <1>14, <1>15, <1>16 DEF Next, Handle

(* Redis, circuits, fallbacks and requests keep their types; the counts of  *)
(* a fallback never go below zero.                                          *)
THEOREM AdmissionTypes == Spec => []TypeOK
  BY TypeInit, TypeNext, PTL DEF Spec

(***************************************************************************)
(* The circuit breaker.                                                    *)
(***************************************************************************)

(* A request leaves the circuits alone, or trips its own process's.         *)
LEMMA HandleCircuit ==
    ASSUME NEW r \in Requests, Handle(r) \/ ExpireLease(r)
    PROVE  /\ lapses \subseteq lapses'
           /\ \/ UNCHANGED breaker
              \/ /\ breaker' = Trip(request[r].process)
                 /\ breaker[request[r].process].probe = "leaving" => "raced" \in lapses'
  <1> DEFINE Goal == /\ lapses \subseteq lapses'
                     /\ \/ UNCHANGED breaker
                        \/ /\ breaker' = Trip(request[r].process)
                           /\ breaker[request[r].process].probe = "leaving"
                                  => "raced" \in lapses'
  <1>1. ASSUME NEW effect, Unanswered(r, effect) PROVE Goal
    BY <1>1 DEF Unanswered
  <1>2. CASE Answered(r)
    BY <1>2 DEF Answered
  <1> HIDE DEF Goal
  <1>3. CASE AcquireSlot(r) \/ AcquireLocally(r) \/ CheckRate(r)
    BY <1>1, <1>2, <1>3 DEF AcquireSlot, AcquireLocally, CheckRate, Goal
  <1>4. CASE TakeQuota(r) \/ ReadLedger(r) \/ StoreSeed(r) \/ TakeLocally(r)
    BY <1>1, <1>2, <1>4 DEF TakeQuota, ReadLedger, StoreSeed, TakeLocally, Goal
  <1>5. CASE Serve(r) \/ Refund(r) \/ Release(r) \/ ExpireLease(r)
    BY <1>1, <1>2, <1>5 DEF Serve, Refund, Release, ExpireLease, Goal
  <1> QED BY <1>3, <1>4, <1>5 DEF Handle, Goal

LEMMA ProbedNext == TypeOK /\ OpenIsProbed /\ [Next]_vars => OpenIsProbed'
  <1> SUFFICES ASSUME TypeOK, OpenIsProbed, [Next]_vars PROVE OpenIsProbed'
    OBVIOUS
  <1> USE DEF OpenIsProbed
  <1>1. ASSUME NEW r \in Requests, Handle(r) \/ ExpireLease(r) PROVE OpenIsProbed'
    <2>1. CASE UNCHANGED breaker
      BY <1>1, <2>1, HandleCircuit
    <2>2. CASE breaker' = Trip(request[r].process)
      <3>1. request[r].process \in Processes
        BY DEF TypeOK, Request
      <3>2. ASSUME "raced" \notin lapses'
            PROVE  /\ "raced" \notin lapses
                   /\ breaker[request[r].process].probe # "leaving" \/ UNCHANGED breaker
        BY <1>1, <3>2, HandleCircuit
      <3>3. ASSUME NEW p \in Processes, "raced" \notin lapses', breaker'[p].open
            PROVE  breaker'[p].probe \in {"probing", "closed"}
        BY <2>2, <3>1, <3>2, <3>3 DEF Trip, TypeOK, Breaker, Probes
      <3> QED BY <3>3
    <2> QED BY <1>1, <2>1, <2>2, HandleCircuit
  <1>2. ASSUME NEW p \in Processes, Probe(p) PROVE OpenIsProbed'
    BY <1>2 DEF Probe, Ping, TestLoop, ThreadEnds, TypeOK, Breaker, Probes
  <1>3. ASSUME NEW p \in Processes, Crash(p) PROVE OpenIsProbed'
    BY <1>3 DEF Crash, Fresh, TypeOK
  <1>4. CASE LoseRedis \/ RecoverRedis \/ UNCHANGED vars
    BY <1>4 DEF LoseRedis, RecoverRedis, vars
  <1> QED BY <1>1, <1>2, <1>3, <1>4 DEF Next

(* An open circuit is being probed, unless a failure met a probe thread     *)
(* that had already left its loop (_fail, _probe).                          *)
THEOREM OpenCircuitsAreProbed == Spec => []OpenIsProbed
  <1>1. Init => OpenIsProbed
    BY DEF Init, Fresh, OpenIsProbed
  <1> QED BY <1>1, TypeInit, TypeNext, ProbedNext, PTL DEF Spec

(***************************************************************************)
(* Slots of the fallback.                                                  *)
(***************************************************************************)

(* A step of a request changes no other request, and never its process.     *)
LEMMA OnlyItself ==
    ASSUME TypeOK, NEW r \in Requests, Handle(r) \/ ExpireLease(r)
    PROVE  /\ \A q \in Requests \ {r} : request'[q] = request[q]
           /\ request'[r].process = request[r].process
  <1> DEFINE Frame == /\ \A q \in Requests \ {r} : request'[q] = request[q]
                      /\ request'[r].process = request[r].process
  <1>1. request \in [Requests -> Request] /\ request[r] \in Request
    BY DEF TypeOK
  <1>2. ASSUME NEW pc, Goto(r, pc) PROVE Frame
    BY <1>1, <1>2 DEF Goto, Request
  <1>3. ASSUME Finish(r) PROVE Frame
    <2>1. Over(r).process = request[r].process
      BY <1>1 DEF Over, Request
    <2> QED BY <1>1, <1>3, <2>1 DEF Finish
  <1>4. ASSUME FallBack(r) PROVE Frame
    BY <1>1, <1>4 DEF FallBack, Request
  <1>5. ASSUME NEW pc, NEW lease,
               request' = [request EXCEPT ![r].pc = pc, ![r].lease = lease]
        PROVE  Frame
    BY <1>1, <1>5 DEF Request
  <1>6. ASSUME TakeLocalSlot(r) PROVE Frame
    <2>1. \/ request' = [request EXCEPT ![r].pc = "rate", ![r].lease = "local"]
          \/ Finish(r) \/ Goto(r, "queued")
      BY <1>6, Zenon DEF TakeLocalSlot
    <2> HIDE DEF Frame
    <2> QED BY <1>2, <1>3, <1>5, <2>1
  <1>7. ASSUME AcquireSlot(r) PROVE Frame
    <2>1. \/ request' = [request EXCEPT ![r].pc = "rate", ![r].lease = "redis"]
          \/ Finish(r) \/ Goto(r, "trying") \/ TakeLocalSlot(r)
      BY <1>7, Zenon DEF AcquireSlot
    <2> HIDE DEF Frame
    <2> QED BY <1>2, <1>3, <1>5, <1>6, <2>1
  <1>8. ASSUME CheckRate(r) PROVE Frame
    <2>1. PICK pc \in {"quota", "release"} : Goto(r, pc)
      BY <1>8 DEF CheckRate
    <2> QED BY <1>2, <2>1
  <1>9. ASSUME NEW pc, NEW taken,
               request' = [request EXCEPT ![r].pc = pc, ![r].taken = taken]
        PROVE  Frame
    BY <1>1, <1>9 DEF Request
  <1>10. ASSUME NEW pc, NEW seed,
                request' = [request EXCEPT ![r].pc = pc, ![r].seed = seed]
         PROVE  Frame
    BY <1>1, <1>10 DEF Request
  <1>11. ASSUME NEW pc, NEW taken, NEW seed,
                request' = [request EXCEPT ![r].pc = pc, ![r].taken = taken,
                                           ![r].seed = seed]
         PROVE  Frame
    BY <1>1, <1>11 DEF Request
  <1>12. ASSUME NEW pc, NEW served,
                request' = [request EXCEPT ![r].pc = pc, ![r].served = served]
         PROVE  Frame
    BY <1>1, <1>12 DEF Request
  <1> HIDE DEF Frame
  <1>13. ASSUME TakeQuota(r) PROVE Frame
    <2>1. \/ request' = [request EXCEPT ![r].pc = "serving", ![r].taken = TRUE]
          \/ Goto(r, "seeding") \/ Goto(r, "release") \/ FallBack(r)
      BY <1>13 DEF TakeQuota
    <2> QED BY <1>2, <1>4, <1>9, <2>1
  <1>14. ASSUME ReadLedger(r) \/ StoreSeed(r) \/ TakeLocally(r) PROVE Frame
    <2>1. CASE ReadLedger(r)
      BY <1>10, <2>1 DEF ReadLedger
    <2>2. CASE StoreSeed(r)
      BY <1>4, <1>10, <2>2 DEF StoreSeed
    <2>3. CASE TakeLocally(r)
      <3>1. \/ request' = [request EXCEPT ![r].pc = "release", ![r].taken = FALSE,
                                          ![r].seed = 0]
            \/ request' = [request EXCEPT ![r].pc = "serving", ![r].taken = TRUE,
                                          ![r].seed = 0]
        BY <2>3, Zenon DEF TakeLocally
      <3> QED BY <1>11, <3>1
    <2> QED BY <1>14, <2>1, <2>2, <2>3
  <1>15. ASSUME Serve(r) \/ Refund(r) \/ Release(r) PROVE Frame
    <2>1. CASE Serve(r)
      BY <1>2, <1>12, <2>1 DEF Serve
    <2>2. CASE Refund(r)
      BY <1>9, <2>2 DEF Refund
    <2>3. CASE Release(r)
      BY <1>3, <2>3 DEF Release
    <2> QED BY <1>15, <2>1, <2>2, <2>3
  <1>16. ASSUME ExpireLease(r) PROVE Frame
    BY <1>16 DEF ExpireLease, Frame
  <1> USE DEF Frame
  <1> QED BY <1>6, <1>7, <1>8, <1>13, <1>14, <1>15, <1>16 DEF Handle, AcquireLocally

Holds(r, store) == request[r].pc \in InService /\ request[r].lease = store

LEMMA HoldersAfter ==
    ASSUME TypeOK, NEW r \in Requests, Handle(r) \/ ExpireLease(r), NEW store
    PROVE  /\ Holds(r, store)' => Holders(store)' = Holders(store) \cup {r}
           /\ ~Holds(r, store)' => Holders(store)' = Holders(store) \ {r}
           /\ \A p : At(p)' = At(p)
  BY OnlyItself DEF Holders, Holds, At

SlotsKept ==
    /\ Holders("local")' = Holders("local")
    /\ \A p \in Processes : local'[p].slots = local[p].slots

SlotTaken(r) ==
    LET p == request[r].process
    IN  /\ Holders("local")' = Holders("local") \cup {r}
        /\ r \notin Holders("local")
        /\ local[p].slots < SlotLimit
        /\ local' = [local EXCEPT ![p].slots = @ + 1]

SlotReturned(r) ==
    LET p == request[r].process
    IN  /\ Holders("local")' = Holders("local") \ {r}
        /\ r \in Holders("local")
        /\ local' = [local EXCEPT ![p].slots = Larger(0, @ - 1)]

LEMMA LocalSlotStep ==
    ASSUME TypeOK, NEW r \in Requests, TakeLocalSlot(r), Handle(r),
           request[r].pc \in {"slot", "trying", "queued"}
    PROVE  SlotsKept \/ SlotTaken(r)
  <1>1. ~Holds(r, "local") /\ r \notin Holders("local")
    BY DEF Holds, Holders, InService
  <1>2. CASE local[request[r].process].slots < SlotLimit
    <2>1. Holds(r, "local")'
      BY <1>2 DEF TakeLocalSlot, Holds, InService, TypeOK, Request
    <2> QED BY <1>1, <1>2, <2>1, HoldersAfter DEF SlotTaken, TakeLocalSlot
  <1>3. CASE ~(local[request[r].process].slots < SlotLimit)
    <2>1. ~Holds(r, "local")'
      BY <1>3 DEF TakeLocalSlot, Finish, Over, Goto, Holds, InService, TypeOK, Request
    <2> QED BY <1>1, <1>3, <2>1, HoldersAfter DEF SlotsKept, TakeLocalSlot, Holders
  <1> QED BY <1>2, <1>3

LEMMA SlotStep ==
    ASSUME TypeOK, NEW r \in Requests, Handle(r) \/ ExpireLease(r)
    PROVE  SlotsKept \/ SlotTaken(r) \/ SlotReturned(r)
  <1> DEFINE Same == Holds(r, "local")' <=> Holds(r, "local")
  <1>1. ASSUME Same, \A p \in Processes : local'[p].slots = local[p].slots
        PROVE  SlotsKept
    <2>1. Holds(r, "local") <=> r \in Holders("local")
      BY DEF Holds, Holders
    <2> QED BY <1>1, <2>1, HoldersAfter DEF SlotsKept
  <1> HIDE DEF Same
  <1>2. CASE AcquireSlot(r)
    <2>1. CASE TakeLocalSlot(r)
      BY <1>2, <2>1, LocalSlotStep DEF AcquireSlot, Handle
    <2>2. CASE ~TakeLocalSlot(r)
      <3>1. Same
        <4>1. ~Holds(r, "local")
          BY <1>2 DEF AcquireSlot, Holds, InService
        <4>2. \/ request' = [request EXCEPT ![r].pc = "rate", ![r].lease = "redis"]
              \/ Finish(r) \/ Goto(r, "trying")
          BY <1>2, <2>2, Zenon DEF AcquireSlot
        <4>3. request \in [Requests -> Request] /\ request[r] \in Request
          BY DEF TypeOK
        <4>4. CASE request' = [request EXCEPT ![r].pc = "rate", ![r].lease = "redis"]
          BY <4>1, <4>3, <4>4 DEF Holds, Request, Same
        <4>5. CASE Finish(r)
          BY <4>1, <4>3, <4>5 DEF Finish, Over, Holds, InService, Request, Same
        <4>6. CASE Goto(r, "trying")
          BY <4>1, <4>3, <4>6 DEF Goto, Holds, InService, Request, Same
        <4> QED BY <4>2, <4>4, <4>5, <4>6
      <3> QED BY <1>1, <1>2, <2>2, <3>1 DEF AcquireSlot
    <2> QED BY <2>1, <2>2
  <1>3. CASE AcquireLocally(r)
    BY <1>3, LocalSlotStep DEF AcquireLocally, Handle
  <1>4. CASE CheckRate(r) \/ TakeQuota(r) \/ ReadLedger(r) \/ StoreSeed(r)
    <2>1. Same
      BY <1>4 DEF CheckRate, TakeQuota, ReadLedger, StoreSeed, FallBack, Goto, Holds,
         InService, TypeOK, Request, Same
    <2> QED BY <1>1, <1>4, <2>1 DEF CheckRate, TakeQuota, ReadLedger, StoreSeed
  <1>5. CASE TakeLocally(r)
    <2>1. Same
      BY <1>5 DEF TakeLocally, Holds, InService, TypeOK, Request, Same
    <2>2. \A p \in Processes : local'[p].slots = local[p].slots
      BY <1>5 DEF TakeLocally, TypeOK, Fallback
    <2> QED BY <1>1, <2>1, <2>2
  <1>6. CASE Serve(r) \/ ExpireLease(r)
    <2>1. Same
      BY <1>6 DEF Serve, ExpireLease, Goto, Holds, InService, TypeOK, Request, Same
    <2> QED BY <1>1, <1>6, <2>1 DEF Serve, ExpireLease
  <1>7. CASE Refund(r)
    <2>1. Same
      BY <1>7 DEF Refund, Holds, InService, TypeOK, Request, Same
    <2>2. \A p \in Processes : local'[p].slots = local[p].slots
      BY <1>7 DEF Refund, TypeOK, Fallback
    <2> QED BY <1>1, <2>1, <2>2
  <1>8. CASE Release(r)
    <2>1. ~Holds(r, "local")'
      BY <1>8 DEF Release, Finish, Over, Holds, InService, TypeOK, Request
    <2>2. CASE HeldLocally(r)
      <3>1. r \in Holders("local")
        BY <1>8, <2>2 DEF Release, HeldLocally, Holders, InService
      <3> QED BY <1>8, <2>1, <2>2, <3>1, HoldersAfter DEF Release, SlotReturned
    <2>3. CASE ~HeldLocally(r)
      <3>1. Same
        BY <2>1, <2>3 DEF HeldLocally, Holds, Same
      <3> QED BY <1>1, <1>8, <2>3, <3>1 DEF Release
    <2> QED BY <2>2, <2>3
  <1> QED BY <1>2, <1>3, <1>4, <1>5, <1>6, <1>7, <1>8 DEF Handle

LEMMA FiniteHolders ==
    ASSUME NEW store, NEW p
    PROVE  IsFiniteSet(Holders(store)) /\ IsFiniteSet(Holders(store) \cap At(p))
  <1>1. Holders(store) \subseteq Requests /\ Holders(store) \cap At(p) \subseteq Requests
    BY DEF Holders
  <1> QED BY <1>1, ConstantsOK, FS_Subset

LEMMA SlotsNext == TypeOK /\ LocalSlotsAccounted /\ [Next]_vars => LocalSlotsAccounted'
  <1> SUFFICES ASSUME TypeOK, LocalSlotsAccounted, [Next]_vars
               PROVE  LocalSlotsAccounted'
    OBVIOUS
  <1> DEFINE Held(p) == Holders("local") \cap At(p)
  <1>1. ASSUME NEW r \in Requests, Handle(r) \/ ExpireLease(r), NEW p \in Processes
        PROVE  /\ local'[p].slots = Cardinality(Held(p)')
               /\ local'[p].slots <= SlotLimit
    <2> DEFINE me == request[r].process
    <2>1. me \in Processes /\ (r \in At(p) <=> p = me) /\ At(p)' = At(p)
      BY <1>1, HoldersAfter DEF TypeOK, Request, At
    <2>2. /\ local[p].slots = Cardinality(Held(p))
          /\ local[p].slots <= SlotLimit
          /\ local[p].slots \in Nat
          /\ local \in [Processes -> Fallback]
      BY DEF LocalSlotsAccounted, TypeOK, Fallback
    <2>3. IsFiniteSet(Held(p))
      BY FiniteHolders
    <2>4. CASE SlotsKept
      BY <2>1, <2>2, <2>4 DEF SlotsKept
    <2>5. CASE SlotTaken(r)
      <3>1. CASE p = me
        <4>1. Held(p)' = Held(p) \cup {r} /\ r \notin Held(p)
          BY <2>1, <2>5, <3>1 DEF SlotTaken
        <4>2. Cardinality(Held(p)') = Cardinality(Held(p)) + 1
          BY <2>3, <4>1, FS_AddElement
        <4> QED BY <2>2, <2>5, <3>1, <4>2, ConstantsOK DEF SlotTaken, Fallback
      <3>2. CASE p # me
        <4>1. Held(p)' = Held(p)
          BY <2>1, <2>5, <3>2 DEF SlotTaken
        <4> QED BY <2>2, <2>5, <3>2, <4>1 DEF SlotTaken
      <3> QED BY <3>1, <3>2
    <2>6. CASE SlotReturned(r)
      <3>1. CASE p = me
        <4>1. Held(p)' = Held(p) \ {r} /\ r \in Held(p)
          BY <2>1, <2>6, <3>1 DEF SlotReturned
        <4>2. Cardinality(Held(p)') = Cardinality(Held(p)) - 1
          <5>1. \A S : IsFiniteSet(S) /\ r \in S =>
                  Cardinality(S \ {r}) = Cardinality(S) - 1
            BY FS_RemoveElement
          <5> QED BY <2>3, <4>1, <5>1, Zenon
        <4>3. Cardinality(Held(p)) # 0
          BY <2>3, <4>1, FS_EmptySet
        <4> QED BY <2>2, <2>6, <3>1, <4>2, <4>3, ConstantsOK
                DEF SlotReturned, Fallback, Larger
      <3>2. CASE p # me
        <4>1. Held(p)' = Held(p)
          BY <2>1, <2>6, <3>2 DEF SlotReturned
        <4> QED BY <2>2, <2>6, <3>2, <4>1 DEF SlotReturned
      <3> QED BY <3>1, <3>2
    <2> QED BY <1>1, <2>4, <2>5, <2>6, SlotStep
  <1>2. ASSUME NEW p \in Processes, Crash(p), NEW q \in Processes
        PROVE  /\ local'[q].slots = Cardinality(Held(q)')
               /\ local'[q].slots <= SlotLimit
    <2>1. CASE q = p
      <3>1. Held(q)' = {}
        <4>1. \A r \in Requests : request[r] \in Request
          BY DEF TypeOK
        <4>2. \A r \in Requests : Over(r).pc = "done" /\ Over(r).process = request[r].process
          BY <4>1 DEF Over, Request
        <4>3. \A r \in Requests : request[r].process = q =>
                request'[r].pc \notin InService
          BY <1>2, <2>1, <4>2 DEF Crash, At, InService
        <4>4. \A r \in Requests : request'[r].process = request[r].process
          BY <1>2, <4>2 DEF Crash
        <4> QED BY <4>3, <4>4 DEF Holders, At
      <3>2. local'[q].slots = 0
        BY <1>2, <2>1 DEF Crash, Empty, TypeOK
      <3> QED BY <3>1, <3>2, FS_EmptySet, ConstantsOK
    <2>2. CASE q # p
      <3>1. Held(q)' = Held(q)
        <4>1. \A r \in Requests : request'[r].process = request[r].process
          BY <1>2 DEF Crash, Over, TypeOK, Request
        <4>2. \A r \in Requests \ At(p) : request'[r] = request[r]
          BY <1>2 DEF Crash
        <4> QED BY <2>2, <4>1, <4>2 DEF Holders, At
      <3>2. local'[q].slots = local[q].slots
        BY <1>2, <2>2 DEF Crash, TypeOK
      <3> QED BY <3>1, <3>2 DEF LocalSlotsAccounted
    <2> QED BY <2>1, <2>2
  <1>3. CASE \/ \E p \in Processes : Probe(p)
             \/ LoseRedis \/ RecoverRedis \/ UNCHANGED vars
    <2>1. UNCHANGED <<local, request>>
      BY <1>3 DEF Probe, Ping, TestLoop, ThreadEnds, LoseRedis, RecoverRedis, vars
    <2> QED BY <2>1 DEF LocalSlotsAccounted, Holders, At
  <1> QED BY <1>1, <1>2, <1>3 DEF Next, LocalSlotsAccounted

(* Every process counts exactly the slots of its own requests, within the   *)
(* limit, however the circuit opens and closes meanwhile (acquire_slot,     *)
(* release).                                                                *)
THEOREM LocalSlotsAreAccounted == Spec => []LocalSlotsAccounted
  <1>1. ASSUME Init PROVE LocalSlotsAccounted
    <2>1. \A p \in Processes : Holders("local") \cap At(p) = {}
      BY <1>1 DEF Init, Holders, InService
    <2>2. \A p \in Processes : local[p].slots = 0
      BY <1>1 DEF Init, Empty
    <2> QED BY <2>1, <2>2, FS_EmptySet, ConstantsOK DEF LocalSlotsAccounted
  <1> QED BY <1>1, TypeInit, TypeNext, SlotsNext, PTL DEF Spec

(***************************************************************************)
(* Slots in Redis.                                                         *)
(***************************************************************************)

(* Nothing was disturbed: Redis answers and no circuit is open.             *)
Calm == redis.up /\ \A p \in Processes : ~breaker[p].open

CalmInv == disruptions = 0 => Calm

(* Without a disruption every command of a request is answered.             *)
LEMMA NoneUnanswered ==
    ASSUME TypeOK, CalmInv, disruptions' = 0, disruptions = 0,
           NEW r \in Requests, NEW effect, Unanswered(r, effect)
    PROVE  FALSE
  BY DEF CalmInv, Calm, Unanswered, Shared, Disrupt, TypeOK, Request

LEMMA DisruptionsGrow == TypeOK /\ [Next]_vars /\ disruptions' = 0 => disruptions = 0
  <1> SUFFICES ASSUME TypeOK, [Next]_vars, disruptions' = 0 PROVE disruptions = 0
    OBVIOUS
  <1>1. Disrupt => FALSE
    BY DEF Disrupt, TypeOK
  <1> QED
    BY <1>1 DEF Next, Handle, AcquireSlot, AcquireLocally, CheckRate, TakeQuota, ReadLedger,
       StoreSeed, TakeLocally, Serve, Refund, Release, ExpireLease, Answered, Unanswered,
       Probe, Ping, TestLoop, ThreadEnds, Crash, LoseRedis, RecoverRedis, vars

LEMMA CalmNext == TypeOK /\ CalmInv /\ [Next]_vars => CalmInv'
  <1> SUFFICES ASSUME TypeOK, CalmInv, [Next]_vars, disruptions' = 0 PROVE Calm'
    BY DEF CalmInv
  <1>1. Disrupt => FALSE
    BY DEF Disrupt, TypeOK
  <1>2. disruptions = 0
    BY DisruptionsGrow
  <1>3. Calm
    BY <1>2 DEF CalmInv
  <1>4. ASSUME NEW r \in Requests, NEW effect, Unanswered(r, effect) PROVE FALSE
    BY <1>2, <1>4, NoneUnanswered
  <1>5. ASSUME NEW r \in Requests, Handle(r) \/ ExpireLease(r) PROVE Calm'
    <2>1. UNCHANGED breaker
      BY <1>4, <1>5 DEF Handle, AcquireSlot, AcquireLocally, CheckRate, TakeQuota, ReadLedger,
         StoreSeed, TakeLocally, Serve, Refund, Release, ExpireLease, Answered
    <2>2. redis'.up = redis.up
      BY <1>4, <1>5 DEF Handle, AcquireSlot, AcquireLocally, CheckRate, TakeQuota, ReadLedger,
         StoreSeed, TakeLocally, Serve, Refund, Release, ExpireLease, Leased, Taken, Seeded,
         Refunded, Released, TypeOK, Redis
    <2> QED BY <1>3, <2>1, <2>2 DEF Calm
  <1>6. ASSUME NEW p \in Processes, Probe(p) PROVE Calm'
    BY <1>3, <1>6 DEF Calm, Probe, Ping, TestLoop, ThreadEnds, TypeOK, Breaker
  <1>7. ASSUME NEW p \in Processes, Crash(p) PROVE Calm'
    BY <1>1, <1>7 DEF Crash
  <1>8. CASE LoseRedis \/ RecoverRedis \/ UNCHANGED vars
    BY <1>1, <1>3, <1>8 DEF LoseRedis, RecoverRedis, vars, Calm
  <1> QED BY <1>5, <1>6, <1>7, <1>8 DEF Next

LEMMA LeasesStep ==
    ASSUME TypeOK, NEW r \in Requests, Handle(r) \/ ExpireLease(r)
    PROVE  redis'.leases \in {redis.leases, Leased(r).leases, redis.leases \ {r}}
  <1> USE DEF TypeOK, Redis, Unanswered
  <1>1. /\ Released(r).leases = redis.leases \ {r}
        /\ Taken.leases = redis.leases
        /\ Refunded.leases = redis.leases
        /\ \A seed : Seeded(seed).leases = redis.leases
    BY DEF Released, Taken, Refunded, Seeded
  <1>2. CASE AcquireSlot(r) \/ AcquireLocally(r) \/ CheckRate(r)
    BY <1>2 DEF AcquireSlot, AcquireLocally, CheckRate
  <1>3. CASE TakeQuota(r) \/ ReadLedger(r) \/ StoreSeed(r) \/ TakeLocally(r)
    BY <1>1, <1>3 DEF TakeQuota, ReadLedger, StoreSeed, TakeLocally
  <1>4. CASE Serve(r) \/ Refund(r) \/ Release(r) \/ ExpireLease(r)
    BY <1>1, <1>4 DEF Serve, Refund, Release, ExpireLease
  <1> QED BY <1>2, <1>3, <1>4 DEF Handle

LEMMA LeasesBounded ==
    ASSUME TypeOK, Cardinality(redis.leases) <= SlotLimit,
           NEW r \in Requests, Handle(r) \/ ExpireLease(r)
    PROVE  Cardinality(redis'.leases) <= SlotLimit
  <1>1. redis.leases \subseteq Requests
    BY DEF TypeOK, Redis
  <1>2. IsFiniteSet(redis.leases) /\ Cardinality(redis.leases) \in Nat
    BY <1>1, ConstantsOK, FS_Subset, FS_CardinalityType
  <1>3. CASE redis'.leases = redis.leases
    BY <1>3
  <1>4. CASE redis'.leases = redis.leases \ {r}
    <2>1. \/ Cardinality(redis'.leases) = Cardinality(redis.leases)
          \/ Cardinality(redis'.leases) = Cardinality(redis.leases) - 1
      BY <1>2, <1>4, FS_RemoveElement
    <2> QED BY <1>2, <2>1, ConstantsOK
  <1>5. CASE redis'.leases = Leased(r).leases /\ redis'.leases # redis.leases
    <2>1. Cardinality(redis.leases) < SlotLimit /\ redis'.leases = redis.leases \cup {r}
      BY <1>5 DEF Leased, TypeOK, Redis
    <2>2. \/ Cardinality(redis'.leases) = Cardinality(redis.leases)
          \/ Cardinality(redis'.leases) = Cardinality(redis.leases) + 1
      BY <1>2, <2>1, FS_AddElement
    <2> QED BY <1>2, <2>1, <2>2, ConstantsOK
  <1> QED BY <1>3, <1>4, <1>5, LeasesStep

LEMMA LeasesHeld ==
    ASSUME TypeOK, CalmInv, disruptions = 0, disruptions' = 0,
           redis.leases = Holders("redis"), NEW r \in Requests,
           Handle(r) \/ ExpireLease(r)
    PROVE  redis'.leases = Holders("redis")'
  <1>1. ASSUME NEW effect, Unanswered(r, effect) PROVE FALSE
    BY <1>1, NoneUnanswered
  <1>2. r \in redis.leases <=> Holds(r, "redis")
    BY DEF Holders, Holds
  <1> DEFINE Same == Holds(r, "redis")' <=> Holds(r, "redis")
  <1>3. ASSUME Same, redis'.leases = redis.leases PROVE redis'.leases = Holders("redis")'
    BY <1>2, <1>3, HoldersAfter
  <1> HIDE DEF Same
  <1>4. CASE AcquireSlot(r)
    <2>1. redis' = Leased(r) /\ r \notin redis.leases
      BY <1>1, <1>2, <1>4 DEF AcquireSlot, Holds, InService
    <2>2. CASE r \in redis'.leases
      <3>1. Holds(r, "redis")'
        BY <1>1, <1>4, <2>2 DEF AcquireSlot, Holds, InService, TypeOK, Request
      <3>2. redis'.leases = redis.leases \cup {r}
        BY <2>1, <2>2 DEF Leased, TypeOK, Redis
      <3> QED BY <1>4, <3>1, <3>2, HoldersAfter DEF Handle
    <2>3. CASE r \notin redis'.leases
      <3>1. ~Holds(r, "redis")'
        <4>1. Finish(r) \/ Goto(r, "trying")
          BY <1>1, <1>4, <2>3 DEF AcquireSlot
        <4>2. request \in [Requests -> Request] /\ request[r] \in Request
          BY DEF TypeOK
        <4>3. request'[r].pc \in {"done", "trying"}
          BY <4>1, <4>2 DEF Finish, Over, Goto, Request
        <4> QED BY <4>3 DEF Holds, InService
      <3>2. redis'.leases = redis.leases
        BY <2>1, <2>3 DEF Leased, TypeOK, Redis
      <3> QED BY <1>4, <2>1, <3>1, <3>2, HoldersAfter DEF Handle
    <2> QED BY <2>2, <2>3
  <1>5. CASE AcquireLocally(r)
    <2>1. ~Holds(r, "redis") /\ ~Holds(r, "redis")'
      <3>1. CASE local[request[r].process].slots < SlotLimit
        BY <1>5, <3>1 DEF AcquireLocally, TakeLocalSlot, Holds, InService, TypeOK, Request
      <3>2. CASE ~(local[request[r].process].slots < SlotLimit)
        BY <1>5, <3>2 DEF AcquireLocally, TakeLocalSlot, Finish, Over, Goto, Holds, InService,
           TypeOK, Request
      <3> QED BY <3>1, <3>2
    <2> QED BY <1>3, <1>5, <2>1 DEF AcquireLocally, Same
  <1>6. CASE CheckRate(r) \/ TakeQuota(r) \/ ReadLedger(r) \/ StoreSeed(r)
    <2>1. Same
      BY <1>1, <1>6 DEF CheckRate, TakeQuota, ReadLedger, StoreSeed, Goto, Holds, InService,
         TypeOK, Request, Same
    <2>2. redis'.leases = redis.leases
      BY <1>1, <1>6 DEF CheckRate, TakeQuota, ReadLedger, StoreSeed, Taken, Seeded, TypeOK, Redis
    <2> QED BY <1>3, <2>1, <2>2
  <1>7. CASE TakeLocally(r) \/ Serve(r) \/ Refund(r)
    <2>1. Same
      BY <1>7 DEF TakeLocally, Serve, Refund, Goto, Holds, InService, TypeOK, Request, Same
    <2>2. redis'.leases = redis.leases
      BY <1>1, <1>7 DEF TakeLocally, Serve, Refund, Refunded, TypeOK, Redis
    <2> QED BY <1>3, <2>1, <2>2
  <1>8. CASE Release(r)
    <2>1. ~Holds(r, "redis")'
      BY <1>8 DEF Release, Finish, Over, Holds, InService, TypeOK, Request
    <2>2. CASE HeldLocally(r)
      BY <1>3, <1>8, <2>1, <2>2 DEF Release, HeldLocally, Holds, Same
    <2>3. CASE ~HeldLocally(r)
      <3>1. redis'.leases = redis.leases \ {r}
        BY <1>1, <1>8, <2>3 DEF Release, Released, TypeOK, Redis
      <3> QED BY <1>8, <2>1, <3>1, HoldersAfter DEF Handle
    <2> QED BY <2>2, <2>3
  <1>9. CASE ExpireLease(r)
    BY <1>2, <1>9 DEF ExpireLease, Disrupt, Holds, InService
  <1> QED BY <1>4, <1>5, <1>6, <1>7, <1>8, <1>9 DEF Handle

LEMMA SharedNext ==
    TypeOK /\ CalmInv /\ SharedSlotsAccounted /\ [Next]_vars => SharedSlotsAccounted'
  <1> SUFFICES ASSUME TypeOK, CalmInv, SharedSlotsAccounted, [Next]_vars
               PROVE  SharedSlotsAccounted'
    OBVIOUS
  <1> USE DEF SharedSlotsAccounted
  <1>1. disruptions' = 0 => disruptions = 0
    BY DisruptionsGrow
  <1>2. ASSUME NEW r \in Requests, Handle(r) \/ ExpireLease(r) PROVE SharedSlotsAccounted'
    BY <1>1, <1>2, LeasesBounded, LeasesHeld
  <1>3. CASE LoseRedis \/ \E p \in Processes : Crash(p)
    <2>1. disruptions' # 0 /\ redis'.leases = redis.leases
      BY <1>3 DEF LoseRedis, Crash, Disrupt, TypeOK, Redis
    <2> QED BY <2>1
  <1>4. CASE RecoverRedis
    <2>1. disruptions' # 0
      BY <1>4 DEF RecoverRedis, CalmInv, Calm
    <2>2. redis'.leases \in {redis.leases, {}}
      BY <1>4 DEF RecoverRedis, TypeOK, Redis
    <2> QED BY <2>1, <2>2, FS_EmptySet, ConstantsOK
  <1>5. CASE UNCHANGED vars \/ \E p \in Processes : Probe(p)
    <2>1. UNCHANGED <<redis, request, disruptions>>
      BY <1>5 DEF Probe, Ping, TestLoop, ThreadEnds, vars
    <2> QED BY <2>1 DEF Holders
  <1> QED BY <1>2, <1>3, <1>4, <1>5 DEF Next

(* Redis never grants more slots than there are; and while nothing is       *)
(* disturbed, a slot is taken exactly as long as its request is in service, *)
(* whichever way the request ends (get_recommendations).                    *)
THEOREM SharedSlotsAreAccounted == Spec => []SharedSlotsAccounted
  <1>1. ASSUME Init PROVE CalmInv /\ SharedSlotsAccounted
    <2>1. CalmInv
      BY <1>1 DEF Init, Fresh, CalmInv, Calm
    <2>2. redis.leases = {} /\ Holders("redis") = {}
      BY <1>1 DEF Init, Holders, InService
    <2> QED BY <2>1, <2>2, FS_EmptySet, ConstantsOK DEF SharedSlotsAccounted
  <1> QED BY <1>1, TypeInit, TypeNext, CalmNext, SharedNext, PTL DEF Spec

(***************************************************************************)
(* The monthly quota.                                                      *)
(***************************************************************************)

(* What the finally of the route relies on: quota is held from the moment   *)
(* it is taken until the request is served or refunded.                     *)
ChargeInv ==
    \A r \in Requests :
        /\ request[r].pc \notin {"release", "done"} => ~request[r].served
        /\ request[r].pc \in {"serving", "refund"} => request[r].taken

(* As long as every decision is shared, the counter covers every charge,    *)
(* the seeds that found it missing included.                                *)
QuotaInv ==
    "unshared" \notin lapses =>
        /\ \A r \in Requests : request[r].pc # "counting"
        /\ ~redis.counter.exists => Charged = {}
        /\ redis.counter.exists => Cardinality(Charged) <= redis.counter.count
        /\ Cardinality(Charged) <= QuotaLimit

LEMMA Finished ==
    ASSUME TypeOK, NEW r \in Requests, Finish(r)
    PROVE  request'[r].pc = "done"
  BY DEF TypeOK, Finish, Over, Request

LEMMA Gone ==
    ASSUME TypeOK, NEW r \in Requests, NEW pc, Goto(r, pc)
    PROVE  /\ request'[r].pc = pc
           /\ request'[r].served = request[r].served
           /\ request'[r].taken = request[r].taken
  BY DEF TypeOK, Goto, Request

LEMMA ChargeNext == TypeOK /\ ChargeInv /\ [Next]_vars => ChargeInv'
  <1> SUFFICES ASSUME TypeOK, ChargeInv, [Next]_vars PROVE ChargeInv'
    OBVIOUS
  <1> DEFINE Good(q) == /\ request'[q].pc \notin {"release", "done"} => ~request'[q].served
                        /\ request'[q].pc \in {"serving", "refund"} => request'[q].taken
  <1>1. ASSUME NEW r \in Requests, Handle(r) \/ ExpireLease(r) PROVE ChargeInv'
    <2>1. Good(r)
      <3> USE DEF TypeOK, Request, Goto, Finish, Over, FallBack, ChargeInv
      <3>1. CASE TakeLocalSlot(r) /\ request[r].pc \in {"slot", "trying", "queued"}
        <4>1. CASE local[request[r].process].slots < SlotLimit
          BY <3>1, <4>1 DEF TakeLocalSlot
        <4> HIDE DEF Goto, Finish, Over
        <4>2. CASE ~(local[request[r].process].slots < SlotLimit)
          BY <3>1, <4>2, Finished, Gone DEF TakeLocalSlot
        <4> QED BY <4>1, <4>2
      <3>2. CASE AcquireSlot(r) /\ ~TakeLocalSlot(r)
        <4>1. CASE r \in redis'.leases
          BY <3>2, <4>1 DEF AcquireSlot
        <4> HIDE DEF Goto, Finish, Over
        <4>2. CASE r \notin redis'.leases
          BY <3>2, <4>2, Finished, Gone DEF AcquireSlot
        <4> QED BY <4>1, <4>2
      <3>3. CASE CheckRate(r) \/ TakeQuota(r)
        BY <3>3 DEF CheckRate, TakeQuota
      <3>4. CASE ReadLedger(r) \/ StoreSeed(r) \/ TakeLocally(r)
        BY <3>4 DEF ReadLedger, StoreSeed, TakeLocally
      <3>5. CASE Serve(r) \/ Refund(r) \/ ExpireLease(r)
        BY <3>5 DEF Serve, Refund, ExpireLease
      <3>6. CASE Release(r)
        <4> HIDE DEF Finish
        <4> QED BY <3>6, Finished DEF Release
      <3> QED BY <1>1, <3>1, <3>2, <3>3, <3>4, <3>5, <3>6 DEF Handle, AcquireSlot, AcquireLocally
    <2>2. \A q \in Requests \ {r} : Good(q)
      BY <1>1, OnlyItself DEF ChargeInv
    <2> QED BY <2>1, <2>2 DEF ChargeInv
  <1>2. ASSUME NEW p \in Processes, Crash(p) PROVE ChargeInv'
    <2>1. ASSUME NEW q \in Requests PROVE Good(q)
      <3>1. CASE request'[q] = request[q]
        BY <3>1 DEF ChargeInv
      <3>2. CASE request'[q] = Over(q)
        BY <3>2 DEF Over, TypeOK, Request
      <3> QED BY <1>2, <3>1, <3>2 DEF Crash
    <2> QED BY <2>1 DEF ChargeInv
  <1>3. CASE \/ \E p \in Processes : Probe(p)
             \/ LoseRedis \/ RecoverRedis \/ UNCHANGED vars
    <2>1. UNCHANGED request
      BY <1>3 DEF Probe, Ping, TestLoop, ThreadEnds, LoseRedis, RecoverRedis, vars
    <2> QED BY <2>1 DEF ChargeInv
  <1> QED BY <1>1, <1>2, <1>3 DEF Next

Charge(r) == request[r].served \/ request[r].taken

LEMMA ChargedAfter ==
    ASSUME TypeOK, NEW r \in Requests, Handle(r) \/ ExpireLease(r)
    PROVE  /\ Charge(r)' => Charged' = Charged \cup {r}
           /\ ~Charge(r)' => Charged' = Charged \ {r}
           /\ r \in Charged <=> Charge(r)
  <1>1. \A q \in Requests \ {r} : q \in Charged' <=> q \in Charged
    BY OnlyItself DEF Charged
  <1>2. (r \in Charged' <=> Charge(r)') /\ (r \in Charged <=> Charge(r))
    BY DEF Charged, Charge
  <1>3. Charged \subseteq Requests /\ Charged' \subseteq Requests
    BY DEF Charged
  <1> QED BY <1>1, <1>2, <1>3

LEMMA FinishCharge ==
    ASSUME TypeOK, NEW r \in Requests, Finish(r)
    PROVE  request'[r].pc = "done" /\ (Charge(r)' => Charge(r))
  BY DEF TypeOK, Finish, Over, Request, Charge

LEMMA FiniteCharged == IsFiniteSet(Charged) /\ Cardinality(Charged) \in Nat
  <1>1. Charged \subseteq Requests
    BY DEF Charged
  <1> QED BY <1>1, ConstantsOK, FS_Subset, FS_CardinalityType

(* A step that charges nobody and leaves the counter alone.                 *)
LEMMA NoNewCharge ==
    ASSUME TypeOK, QuotaInv, "unshared" \notin lapses,
           Charged' \subseteq Charged, redis'.counter = redis.counter,
           \A r \in Requests : request'[r].pc # "counting"
    PROVE  QuotaInv'
  <1>1. Cardinality(Charged') <= Cardinality(Charged) /\ Cardinality(Charged') \in Nat
    BY FiniteCharged, FS_Subset, FS_CardinalityType
  <1>2. redis.counter.count \in Int
    BY DEF TypeOK, Redis, Counter
  <1> QED BY <1>1, <1>2, FiniteCharged, ConstantsOK DEF QuotaInv

LEMMA QuotaNext == TypeOK /\ ChargeInv /\ QuotaInv /\ [Next]_vars => QuotaInv'
  <1> SUFFICES ASSUME TypeOK, ChargeInv, QuotaInv, [Next]_vars, "unshared" \notin lapses'
               PROVE  QuotaInv'
    BY DEF QuotaInv
  <1>1. ASSUME NEW r \in Requests, Handle(r) \/ ExpireLease(r) PROVE QuotaInv'
    <2>1. "unshared" \notin lapses
      BY <1>1, HandleCircuit
    <2>2. ASSUME NEW effect, Unanswered(r, effect) PROVE FALSE
      BY <2>2 DEF Unanswered
    <2>3. ASSUME request'[r].pc # "counting"
          PROVE  \A q \in Requests : request'[q].pc # "counting"
      BY <1>1, <2>1, <2>3, OnlyItself DEF QuotaInv
    <2>4. ASSUME request'[r].pc # "counting", redis'.counter = redis.counter,
                 Charge(r)' => Charge(r)
          PROVE  QuotaInv'
      BY <1>1, <2>1, <2>3, <2>4, ChargedAfter, NoNewCharge
    <2> USE DEF TypeOK, Redis, Request
    <2>5. CASE AcquireSlot(r)
      <3>1. redis' = Leased(r)
        BY <2>2, <2>5 DEF AcquireSlot
      <3>2. redis'.counter = redis.counter
        BY <3>1 DEF Leased
      <3>3. CASE r \in redis'.leases
        BY <2>2, <2>4, <2>5, <3>2, <3>3 DEF AcquireSlot, Charge
      <3>4. CASE r \notin redis'.leases
        <4>1. Finish(r) \/ Goto(r, "trying")
          BY <2>2, <2>5, <3>4 DEF AcquireSlot
        <4> QED BY <2>4, <3>2, <4>1, Gone, FinishCharge DEF Charge
      <3> QED BY <3>3, <3>4
    <2>6. CASE AcquireLocally(r)
      <3>1. CASE local[request[r].process].slots < SlotLimit
        BY <2>4, <2>6, <3>1 DEF AcquireLocally, TakeLocalSlot, Charge
      <3>2. CASE ~(local[request[r].process].slots < SlotLimit)
        <4>1. (Finish(r) \/ Goto(r, "queued")) /\ UNCHANGED redis
          BY <2>6, <3>2 DEF AcquireLocally, TakeLocalSlot
        <4> QED BY <2>4, <4>1, Gone, FinishCharge DEF Charge
      <3> QED BY <3>1, <3>2
    <2>7. CASE CheckRate(r)
      <3>1. UNCHANGED redis /\ \E pc \in {"quota", "release"} : Goto(r, pc)
        BY <2>2, <2>7 DEF CheckRate
      <3> QED BY <2>4, <3>1, Gone DEF Charge
    <2>8. CASE TakeQuota(r)
      <3>1. CASE HasRoom
        <4>1. /\ redis'.counter.exists
              /\ redis'.counter.count = redis.counter.count + 1
              /\ redis.counter.count + 1 <= QuotaLimit
              /\ redis.counter.count \in Int
          BY <2>2, <2>8, <3>1 DEF TakeQuota, HasRoom, Taken, Counter
        <4>2. request'[r].pc = "serving" /\ Charge(r)'
          <5>1. request' = [request EXCEPT ![r].pc = "serving", ![r].taken = TRUE]
            BY <2>2, <2>8, <3>1 DEF TakeQuota, HasRoom
          <5> QED BY <5>1 DEF Charge
        <4>3. Charged' = Charged \cup {r}
          BY <1>1, <4>2, ChargedAfter
        <4>4. /\ Cardinality(Charged') \in Nat
              /\ Cardinality(Charged') <= Cardinality(Charged) + 1
          <5>1. IsFiniteSet(Charged \cup {r})
                /\ Cardinality(Charged \cup {r}) =
                      IF r \in Charged THEN Cardinality(Charged) ELSE Cardinality(Charged) + 1
            BY FiniteCharged, FS_AddElement
          <5> QED BY <4>3, <5>1, FiniteCharged
        <4>5. Cardinality(Charged) <= redis.counter.count
          BY <2>1, <3>1 DEF QuotaInv, HasRoom
        <4> QED BY <2>3, <4>1, <4>2, <4>4, <4>5, FiniteCharged, ConstantsOK DEF QuotaInv
      <3>2. CASE ~HasRoom
        <4>1. UNCHANGED redis /\ \E pc \in {"seeding", "release"} : Goto(r, pc)
          BY <2>2, <2>8, <3>2 DEF TakeQuota, Taken
        <4> QED BY <2>4, <4>1, Gone DEF Charge
      <3> QED BY <3>1, <3>2
    <2>9. CASE ReadLedger(r)
      BY <2>4, <2>9 DEF ReadLedger, Charge
    <2>10. CASE StoreSeed(r)
      <3>1. redis' = Seeded(request[r].seed) /\ request'[r].pc # "counting"
        BY <2>2, <2>10 DEF StoreSeed
      <3>2. Charge(r)' <=> Charge(r)
        BY <2>2, <2>10 DEF StoreSeed, Charge
      <3>3. CASE redis.counter.exists
        BY <2>4, <3>1, <3>2, <3>3 DEF Seeded
      <3>4. CASE ~redis.counter.exists
        <4>1. redis'.counter.count = request[r].seed /\ request[r].seed \in Nat
          BY <3>1, <3>4 DEF Seeded
        <4>2. Charged = {} /\ Charged' = {}
          BY <1>1, <2>1, <3>2, <3>4, ChargedAfter DEF QuotaInv
        <4> QED BY <2>3, <3>1, <4>1, <4>2, FS_EmptySet, ConstantsOK DEF QuotaInv
      <3> QED BY <3>3, <3>4
    <2>11. CASE TakeLocally(r)
      BY <2>1, <2>11 DEF TakeLocally, QuotaInv
    <2>12. CASE Serve(r)
      <3>1. Charge(r)
        BY <2>12 DEF Serve, ChargeInv, Charge
      <3>2. request'[r].pc \in {"release", "refund"} /\ UNCHANGED redis
        BY <2>12 DEF Serve, Goto
      <3> QED BY <2>4, <3>1, <3>2
    <2>13. CASE Refund(r)
      <3>1. redis' = Refunded /\ request'[r].pc # "counting"
        BY <2>2, <2>13 DEF Refund
      <3>2. Charge(r) /\ ~Charge(r)'
        BY <2>13 DEF Refund, ChargeInv, Charge
      <3>3. r \in Charged /\ Charged' = Charged \ {r}
        BY <1>1, <3>2, ChargedAfter
      <3>4. redis.counter.exists /\ Cardinality(Charged) <= redis.counter.count
        BY <2>1, <3>3 DEF QuotaInv
      <3>5. Cardinality(Charged') = Cardinality(Charged) - 1 /\ Cardinality(Charged') \in Nat
        BY <3>3, FiniteCharged, FS_RemoveElement, FS_CardinalityType
      <3>6. /\ redis'.counter.exists
            /\ redis'.counter.count = redis.counter.count - 1
            /\ redis.counter.count \in Int
        BY <3>1 DEF Refunded, Counter
      <3> QED BY <2>1, <2>3, <3>1, <3>4, <3>5, <3>6, FiniteCharged, ConstantsOK DEF QuotaInv
    <2>14. CASE Release(r)
      <3>1. Finish(r) /\ redis'.counter = redis.counter
        BY <2>2, <2>14 DEF Release, Released
      <3> QED BY <2>4, <3>1, FinishCharge
    <2>15. CASE ExpireLease(r)
      <3>1. UNCHANGED request /\ redis'.counter = redis.counter
        BY <2>15 DEF ExpireLease, Released
      <3> QED BY <2>1, <2>4, <3>1 DEF Charge, QuotaInv
    <2> QED BY <1>1, <2>5, <2>6, <2>7, <2>8, <2>9, <2>10, <2>11, <2>12, <2>13, <2>14,
               <2>15 DEF Handle
  <1>2. ASSUME NEW p \in Processes, Crash(p) PROVE QuotaInv'
    <2>1. UNCHANGED <<redis, lapses>>
      BY <1>2 DEF Crash
    <2>2. ASSUME NEW q \in Requests
          PROVE  /\ request'[q].pc = "counting" => request[q].pc = "counting"
                 /\ Charge(q)' => Charge(q)
      <3>1. request'[q] \in {request[q], Over(q)}
        BY <1>2 DEF Crash
      <3> QED BY <3>1 DEF Over, Charge, TypeOK, Request
    <2>3. Charged' \subseteq Charged
      BY <2>2 DEF Charged, Charge
    <2> QED BY <2>1, <2>2, <2>3, NoNewCharge DEF QuotaInv
  <1>3. CASE \/ \E p \in Processes : Probe(p)
             \/ LoseRedis \/ RecoverRedis \/ UNCHANGED vars
    <2>1. UNCHANGED request /\ redis'.counter = redis.counter /\ "unshared" \notin lapses
      BY <1>3 DEF Probe, Ping, TestLoop, ThreadEnds, LoseRedis, RecoverRedis, vars, TypeOK, Redis
    <2>2. Charged' = Charged
      BY <2>1 DEF Charged
    <2> QED BY <2>1, <2>2, NoNewCharge DEF QuotaInv
  <1> QED BY <1>1, <1>2, <1>3 DEF Next

(* ER-F-09: as long as every decision is taken in Redis, the requests       *)
(* served and being served never exceed the monthly limit, although they    *)
(* seed, take and refund concurrently (consume_quota, refund_quota).        *)
THEOREM TheQuotaHolds == Spec => []QuotaHolds
  <1>1. ASSUME Init PROVE TypeOK /\ ChargeInv /\ QuotaInv
    <2>1. \A r \in Requests : /\ request[r].pc = "slot"
                              /\ ~request[r].served /\ ~request[r].taken
      BY <1>1 DEF Init
    <2>2. Charged = {}
      BY <2>1 DEF Charged
    <2> QED BY <1>1, <2>1, <2>2, TypeInit, FS_EmptySet, ConstantsOK
            DEF Init, NoCounter, ChargeInv, QuotaInv
  <1>2. QuotaInv => QuotaHolds
    BY DEF QuotaInv, QuotaHolds
  <1> QED BY <1>1, <1>2, TypeNext, ChargeNext, QuotaNext, PTL DEF Spec
=============================================================================

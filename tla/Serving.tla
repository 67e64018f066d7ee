------------------------------ MODULE Serving ------------------------------
(***************************************************************************)
(* POST /v1/recommendations, as far as it is control: the replay of a      *)
(* request identifier, the stages of the pipeline that decide what may be  *)
(* served while the catalogue changes, and the record of what was served.  *)
(*                                                                         *)
(* An attempt is one request of a client, which retries with the same      *)
(* identifier.  Retrieval, scores and ranking are data: a source may       *)
(* return any products, stale or unknown ones too, and any of the eligible *)
(* ones may be ranked first.  The order of the items is left out.          *)
(***************************************************************************)
EXTENDS Integers, FiniteSets

CONSTANTS
    Products,
    RequestIds,     \* identifiers that clients reuse
    Attempts,       \* requests that may overlap
    Inputs,         \* what a request may ask for (inputs)
    None

(* top_n, fallback_allowed and exclude_product_ids of the payload.          *)
Input == [top : Nat \ {0}, fallback : BOOLEAN, exclude : SUBSET Products]

ASSUME ServingOK ==
    /\ Inputs \subseteq Input
    /\ None \notin RequestIds \cup Inputs
    /\ IsFiniteSet(Products)

VARIABLES
    servable,       \* the products of the catalogue that may be served
    lastGood,       \* the list Redis remembers for the shopper
    record,         \* [RequestIds -> row of recommendation_records]
    metered,        \* [RequestIds -> usage events of its answers]
    errors,         \* serving_requests with the outcome error
    attempt         \* [Attempts -> state of a request]

vars == <<servable, lastGood, record, metered, errors, attempt>>

-----------------------------------------------------------------------------
Record == [stored : BOOLEAN, input : Inputs \cup {None}, items : SUBSET Products]

Phases == {"idle", "locking", "admitting", "filtering", "remembering", "topping",
           "falling", "rechecking", "storing", "recording", "failed", "answered"}

Attempt == [phase      : Phases,
            id         : RequestIds \cup {None},
            input      : Inputs \cup {None},
            picked     : SUBSET Products,
            remembered : SUBSET Products,
            tenant     : BOOLEAN,            \* its transaction is the tenant's
            seen       : SUBSET Products]    \* servable since it arrived (history)

Idle == [phase |-> "idle", id |-> None, input |-> None, picked |-> {},
         remembered |-> {}, tenant |-> FALSE, seen |-> {}]

(* The advisory lock of tenant and identifier, kept by the transaction.     *)
HoldsIdentifier(a) ==
    /\ attempt[a].id # None
    /\ attempt[a].phase \notin {"idle", "locking", "failed", "answered"}

Goto(a, phase) == attempt' = [attempt EXCEPT ![a].phase = phase]

(* The client has its answer, an error, or none because the process died.   *)
Done(a) == attempt' = [attempt EXCEPT ![a] = Idle]

Pick(a, phase, items) == attempt' = [attempt EXCEPT ![a].phase = phase, ![a].picked = items]

(* At most n of the products, all of them if there are fewer.               *)
Choices(n, items) ==
    {s \in SUBSET items : Cardinality(s) = IF Cardinality(items) < n THEN Cardinality(items) ELSE n}

-----------------------------------------------------------------------------
Arrive(a, id, input) ==
    /\ attempt[a].phase = "idle"
    /\ attempt' = [attempt EXCEPT ![a] =
           [Idle EXCEPT !.phase = IF id = None THEN "admitting" ELSE "locking",
                        !.id = id, !.input = input, !.tenant = TRUE, !.seen = servable]]
    /\ UNCHANGED <<servable, lastGood, record, metered, errors>>

LookIgnoringInput(a) ==            \* slip: the fingerprint is not compared
    LET r == record[attempt[a].id] IN
    /\ attempt[a].phase = "locking"
    /\ \A b \in Attempts : HoldsIdentifier(b) => attempt[b].id # attempt[a].id
    /\ \/ ~r.stored /\ Goto(a, "admitting")
       \/ r.stored /\ r.items \subseteq servable /\ Pick(a, "answered", r.items)
       \/ r.stored /\ ~(r.items \subseteq servable) /\ Done(a)
    /\ UNCHANGED <<servable, lastGood, record, metered, errors>>

(* A stored answer is given again if the input is the same and all its      *)
(* items may still be served, otherwise the request is refused.             *)
Look(a) ==
    LET r == record[attempt[a].id] IN
    /\ attempt[a].phase = "locking"
    /\ \A b \in Attempts : HoldsIdentifier(b) => attempt[b].id # attempt[a].id
    /\ \/ ~r.stored /\ Goto(a, "admitting")
       \/ r.stored /\ r.input # attempt[a].input /\ Done(a)
       \/ /\ r.stored /\ r.input = attempt[a].input
          /\ \/ r.items \subseteq servable /\ Pick(a, "answered", r.items)
             \/ ~(r.items \subseteq servable) /\ Done(a)
    /\ UNCHANGED <<servable, lastGood, record, metered, errors>>

(* Admission takes a slot and quota (module Admission) or refuses.          *)
Admit(a) ==
    /\ attempt[a].phase = "admitting"
    /\ Goto(a, "filtering") \/ Done(a)
    /\ UNCHANGED <<servable, lastGood, record, metered, errors>>

(* Retrieval and eligible_meta, then the best top_n of what is eligible.    *)
Filter(a) ==
    LET x == attempt[a].input IN
    /\ attempt[a].phase = "filtering"
    /\ \E candidates \in SUBSET Products :
         \E items \in Choices(x.top, (candidates \cap servable) \ x.exclude) :
           \/ items = {} /\ Pick(a, "falling", items)
           \/ /\ items # {} /\ Cardinality(items) < x.top /\ x.fallback
              /\ Pick(a, "remembering", items)
           \/ /\ items # {} /\ ~(Cardinality(items) < x.top /\ x.fallback)
              /\ Pick(a, "storing", items)
    /\ UNCHANGED <<servable, lastGood, record, metered, errors>>

(* cache.load; nothing is remembered while Redis does not answer.           *)
Remember(a) ==
    /\ attempt[a].phase = "remembering"
    /\ \E list \in {lastGood, {}} :
         LET more == list \ (attempt[a].picked \cup attempt[a].input.exclude) IN
         attempt' = [attempt EXCEPT ![a].phase = IF more = {} THEN "storing" ELSE "topping",
                                    ![a].remembered = more]
    /\ UNCHANGED <<servable, lastGood, record, metered, errors>>

TopUpUnchecked(a) ==               \* slip: the remembered list is served as it is
    /\ attempt[a].phase = "topping"
    /\ \E more \in Choices(attempt[a].input.top - Cardinality(attempt[a].picked),
                           attempt[a].remembered) :
         Pick(a, "storing", attempt[a].picked \cup more)
    /\ UNCHANGED <<servable, lastGood, record, metered, errors>>

(* eligible_meta again, for what was remembered.                            *)
TopUp(a) ==
    /\ attempt[a].phase = "topping"
    /\ \E more \in Choices(attempt[a].input.top - Cardinality(attempt[a].picked),
                           attempt[a].remembered \cap servable) :
         Pick(a, "storing", attempt[a].picked \cup more)
    /\ UNCHANGED <<servable, lastGood, record, metered, errors>>

(* popular_fallback, which looks a longer list up once more where rules     *)
(* apply.  With nothing to serve and no fallback allowed the request fails. *)
Fallback(a) ==
    LET x == attempt[a].input
        popular == servable \ x.exclude
    IN /\ attempt[a].phase = "falling"
       /\ \/ /\ x.fallback
             /\ \/ \E items \in Choices(x.top, popular) : Pick(a, "storing", items)
                \/ \E items \in Choices(5 * x.top, popular) : Pick(a, "rechecking", items)
          \/ /\ ~x.fallback
             /\ attempt' = [attempt EXCEPT ![a].phase = "failed", ![a].tenant = FALSE]
       /\ UNCHANGED <<servable, lastGood, record, metered, errors>>

Recheck(a) ==
    /\ attempt[a].phase = "rechecking"
    /\ \E items \in Choices(attempt[a].input.top, attempt[a].picked \cap servable) :
         Pick(a, "storing", items)
    /\ UNCHANGED <<servable, lastGood, record, metered, errors>>

(* cache.store, unless Redis does not answer.                               *)
Store(a) ==
    /\ attempt[a].phase = "storing"
    /\ Goto(a, "recording")
    /\ lastGood' \in IF attempt[a].picked = {} THEN {lastGood} ELSE {lastGood, attempt[a].picked}
    /\ UNCHANGED <<servable, record, metered, errors>>

(* An exception of the pipeline: the transaction is rolled back, and with   *)
(* it goes the tenant that set_config made local to it.                     *)
Fail(a) ==
    /\ attempt[a].phase \in {"filtering", "remembering", "topping", "falling",
                             "rechecking", "storing"}
    /\ attempt' = [attempt EXCEPT ![a].phase = "failed", ![a].tenant = FALSE]
    /\ UNCHANGED <<servable, lastGood, record, metered, errors>>

(* _record_serving_request with the outcome error: row-level security       *)
(* refuses the row unless the transaction is the tenant's.                  *)
RecordFailure(a) ==
    /\ attempt[a].phase = "failed"
    /\ errors' = IF attempt[a].tenant THEN errors + 1 ELSE errors
    /\ Done(a)
    /\ UNCHANGED <<servable, lastGood, record, metered>>

(* The rows of an answer; those of an identifier nobody reuses are left out. *)
Written(a) ==
    /\ record' = IF attempt[a].id = None THEN record
                 ELSE [record EXCEPT ![attempt[a].id] =
                          [stored |-> TRUE, input |-> attempt[a].input, items |-> attempt[a].picked]]
    /\ metered' = IF attempt[a].id = None THEN metered
                  ELSE [metered EXCEPT ![attempt[a].id] = @ + 1]

RecordMetersFirst(a) ==            \* slip: the meter has a transaction of its own
    /\ attempt[a].phase = "recording"
    /\ \/ Written(a) /\ (Goto(a, "answered") \/ Done(a))
       \/ /\ Done(a)
          /\ metered' = IF attempt[a].id = None THEN metered
                        ELSE [metered EXCEPT ![attempt[a].id] = @ + 1]
          /\ UNCHANGED record
    /\ UNCHANGED <<servable, lastGood, errors>>

(* One commit for record, results, telemetry and ledger.  If it fails, or   *)
(* succeeds without the process learning of it, the client gets an error.   *)
RecordAnswer(a) ==
    /\ attempt[a].phase = "recording"
    /\ \/ Written(a) /\ (Goto(a, "answered") \/ Done(a))
       \/ Done(a) /\ UNCHANGED <<record, metered>>
    /\ UNCHANGED <<servable, lastGood, errors>>

(* The client leaves with its answer; earlier, its process died.            *)
Leave(a) ==
    /\ attempt[a].phase # "idle"
    /\ Done(a)
    /\ UNCHANGED <<servable, lastGood, record, metered, errors>>

-----------------------------------------------------------------------------
(* disable_product, update_product and bulk_upsert.                         *)
Withdraw(p) ==
    /\ servable' = servable \ {p}
    /\ UNCHANGED <<lastGood, record, metered, errors, attempt>>

Offer(p) ==
    /\ servable' = servable \cup {p}
    /\ attempt' = [a \in Attempts |->
           IF attempt[a].phase = "idle" THEN attempt[a]
           ELSE [attempt[a] EXCEPT !.seen = @ \cup {p}]]
    /\ UNCHANGED <<lastGood, record, metered, errors>>

(* The remembered list expires, or Redis restarts.                          *)
Forget ==
    /\ lastGood' = {}
    /\ UNCHANGED <<servable, record, metered, errors, attempt>>

Init ==
    /\ servable \in SUBSET Products
    /\ lastGood = {}
    /\ record = [id \in RequestIds |-> [stored |-> FALSE, input |-> None, items |-> {}]]
    /\ metered = [id \in RequestIds |-> 0]
    /\ errors = 0
    /\ attempt = [a \in Attempts |-> Idle]

Handle(a) ==
    \/ \E id \in RequestIds \cup {None}, input \in Inputs : Arrive(a, id, input)
    \/ Look(a) \/ Admit(a) \/ Filter(a) \/ Remember(a) \/ TopUp(a) \/ Fallback(a) \/ Recheck(a)
    \/ Store(a) \/ Fail(a) \/ RecordFailure(a) \/ RecordAnswer(a) \/ Leave(a)

Next ==
    \/ \E a \in Attempts : Handle(a)
    \/ \E p \in Products : Withdraw(p) \/ Offer(p)
    \/ Forget

Spec == Init /\ [][Next]_vars

-----------------------------------------------------------------------------
TypeOK ==
    /\ servable \in SUBSET Products
    /\ lastGood \in SUBSET Products
    /\ record \in [RequestIds -> Record]
    /\ metered \in [RequestIds -> Nat]
    /\ errors \in Nat
    /\ attempt \in [Attempts -> Attempt]

(* Every product of an answer could be served at some moment of the request *)
(* and was not excluded, whatever a stale source, the last-good list or the *)
(* replay of an older answer proposed (pipeline.py:455-523, and the replay  *)
(* in recommendations.py:127-134).                                          *)
AnswersWereServable ==
    \A a \in Attempts : attempt[a].phase = "answered" =>
        attempt[a].picked \subseteq attempt[a].seen \ attempt[a].input.exclude

(* All clients that got an answer under one identifier asked the same and   *)
(* got the same, and it is the answer feedback will be checked against      *)
(* (recommendations.py:118-134 and 191-213).                                *)
AnswerIsRecorded ==
    \A a \in Attempts : attempt[a].phase = "answered" /\ attempt[a].id # None =>
        record[attempt[a].id] =
            [stored |-> TRUE, input |-> attempt[a].input, items |-> attempt[a].picked]

(* An identifier is metered once if its answer is stored and not at all     *)
(* otherwise, however often it is retried and whatever fails in between     *)
(* (_serve_and_record, recommendations.py:185-213).                         *)
MeteredOnce ==
    \A id \in RequestIds : metered[id] = IF record[id].stored THEN 1 ELSE 0

(* "Append the telemetry row behind /v1/metrics/summary": a request that    *)
(* failed is counted as an error (recommendations.py:68 and 172-184).       *)
FailuresAreRecorded ==
    [][\A a \in Attempts : RecordFailure(a) => errors' = errors + 1]_vars
=============================================================================

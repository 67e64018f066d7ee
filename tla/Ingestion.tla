----------------------------- MODULE Ingestion -----------------------------
(***************************************************************************)
(* What a tenant's systems send: events, one at a time or in batches, the  *)
(* catalogue, and feedback on recommendations.  A client repeats what got  *)
(* no answer, so every path has to recognise what it has already stored;   *)
(* events are metered in the usage ledger of the month and may not exceed  *)
(* its limit.                                                              *)
(*                                                                         *)
(* One tenant: its advisory locks and its rows are its own.  An item is    *)
(* what a submission says of one event, product or feedback; two items     *)
(* that differ in nothing but their other fields are one here.  The limits *)
(* do not change (PlanChanges lets them).                                  *)
(***************************************************************************)
EXTENDS Integers, FiniteSets, Sequences

CONSTANTS
    Events, Products, Users,    \* identifiers the tenant chooses
    Keys,                       \* request identifiers, and those of feedback
    Submissions,                \* what clients send (inputs)
    Calls,                      \* calls that may overlap
    EventLimit, ProductLimit,   \* accepted_events and stored_products
    LastMonth,                  \* months that are watched (bound)
    None

Months == 0 .. LastMonth

Kinds == {"event", "batch", "sync", "product", "feedback"}

Item == [event : Events \cup {None}, product : Products \cup {None}, user : Users \cup {None}]

Submission == [kind : Kinds, key : Keys \cup {None}, items : Seq(Item)]

ASSUME IngestionOK ==
    /\ Submissions \subseteq Submission
    /\ \A s \in Submissions :
         /\ s.items # <<>>
         /\ s.kind = "feedback" => s.key \in Keys
         /\ s.kind \in {"event", "batch"} => \A i \in DOMAIN s.items : s.items[i].event \in Events
         /\ s.kind \in {"sync", "product"} => \A i \in DOMAIN s.items : s.items[i].product \in Products
         /\ s.kind \in {"event", "product", "feedback"} => Len(s.items) = 1
    /\ None \notin Events \cup Products \cup Users \cup Keys
    /\ IsFiniteSet(Events) /\ IsFiniteSet(Products)
    /\ EventLimit \in Nat /\ ProductLimit \in Nat /\ LastMonth \in Nat

VARIABLES
    month,      \* the calendar month
    products,   \* external identifiers in the catalogue
    events,     \* [Events -> row of customer_events]
    customers,  \* external identifiers of the tenant's shoppers
    ledger,     \* [Months -> accepted_events metered in usage_events]
    row,        \* [kind -> [Keys -> row of event_batches, catalog_syncs, feedback]]
    call        \* [Calls -> state of a call]

vars == <<month, products, events, customers, ledger, row, call>>

-----------------------------------------------------------------------------
Outcomes == {"accepted", "duplicate", "rejected", "created", "updated", "received"}

(* created_at of an event is the occurred_at of the row that meters it.     *)
EventRow == [stored : BOOLEAN, month : Months, user : Users \cup {None}]

Row == [stored : BOOLEAN, items : Seq(Item), outcomes : Seq(Outcomes)]

Stages == {"idle", "waiting", "reading", "checking", "stamping", "writing", "answered"}

Call == [stage : Stages, kind : Kinds, key : Keys \cup {None}, items : Seq(Item),
         now : Months, outcomes : Seq(Outcomes)]

Idle == [stage |-> "idle", kind |-> "event", key |-> None, items |-> <<>>,
         now |-> 0, outcomes |-> <<>>]

Dimension(kind) ==
    IF kind \in {"event", "batch"} THEN "accepted_events"
    ELSE IF kind \in {"sync", "product"} THEN "stored_products" ELSE "none"

(* The transaction is open and has the lock of its dimension.               *)
Holds(c) == call[c].stage \in {"reading", "checking", "stamping", "writing"}

Goto(c, stage) == call' = [call EXCEPT ![c].stage = stage]

(* The client has an error, or no answer at all.                            *)
Done(c) == call' = [call EXCEPT ![c] = Idle]

Answer(c, outcomes) ==
    call' = [call EXCEPT ![c].stage = "answered", ![c].outcomes = outcomes]

Plan(c, stage, outcomes) ==
    call' = [call EXCEPT ![c].stage = stage, ![c].outcomes = outcomes]

With(c, outcome) == {i \in DOMAIN call[c].items : call[c].outcomes[i] = outcome}

NewEvents(c) == {call[c].items[i].event : i \in With(c, "accepted")}

NewProducts(c) == {call[c].items[i].product : i \in With(c, "created")}

-----------------------------------------------------------------------------
Submit(c, s) ==
    /\ call[c].stage = "idle"
    /\ call' = [call EXCEPT ![c] =
           [Idle EXCEPT !.stage = IF s.kind = "feedback" THEN "reading" ELSE "waiting",
                        !.kind = s.kind, !.key = s.key, !.items = s.items]]
    /\ UNCHANGED <<month, products, events, customers, ledger, row>>

LockIgnored(c) ==           \* slip: capacity is checked without the lock
    /\ call[c].stage = "waiting"
    /\ call' = [call EXCEPT ![c].stage = "reading", ![c].now = month]
    /\ UNCHANGED <<month, products, events, customers, ledger, row>>

(* lock_dimension; submit_event reads the clock next.                       *)
Lock(c) ==
    /\ call[c].stage = "waiting"
    /\ \A d \in Calls : Holds(d) => Dimension(call[d].kind) # Dimension(call[c].kind)
    /\ call' = [call EXCEPT ![c].stage = "reading", ![c].now = month]
    /\ UNCHANGED <<month, products, events, customers, ledger, row>>

ReplayedUnchecked(c, r) ==  \* slip: payload_hash is not compared
    /\ r.stored
    /\ Answer(c, r.outcomes)

(* A key that is stored answers again what it answered, to the same content *)
(* only.                                                                    *)
Replayed(c, r) ==
    /\ r.stored
    /\ \/ r.items = call[c].items /\ Answer(c, r.outcomes)
       \/ r.items # call[c].items /\ Done(c)

IsReplay(c) == call[c].key # None /\ row[call[c].kind][call[c].key].stored

(* submit_event: a stored event is a duplicate, whatever else it now says.  *)
ReadEvent(c) ==
    LET item == call[c].items[1] IN
    /\ call[c].stage = "reading" /\ call[c].kind = "event"
    /\ \/ events[item.event].stored /\ Answer(c, <<"duplicate">>)
       \/ /\ ~events[item.event].stored
          /\ IF item.product \in products \cup {None}
             THEN Plan(c, "checking", <<"accepted">>) ELSE Done(c)
    /\ UNCHANGED <<month, products, events, customers, ledger, row>>

(* The outcomes submit_batch gives, in the order of the items: a duplicate  *)
(* is stored already, or accepted earlier in the batch.                     *)
BatchOutcomes(items) ==
    LET Known(i) == items[i].product \in products \cup {None}
        Seen(i) == \/ events[items[i].event].stored
                   \/ \E j \in 1 .. i - 1 : items[j].event = items[i].event /\ Known(j)
    IN [i \in DOMAIN items |-> IF Seen(i) THEN "duplicate"
                               ELSE IF Known(i) THEN "accepted" ELSE "rejected"]

ReadBatch(c) ==
    /\ call[c].stage = "reading" /\ call[c].kind = "batch"
    /\ \/ IsReplay(c) /\ Replayed(c, row["batch"][call[c].key])
       \/ ~IsReplay(c) /\ Plan(c, "checking", BatchOutcomes(call[c].items))
    /\ UNCHANGED <<month, products, events, customers, ledger, row>>

(* A product may be named once in a sync.                                   *)
SyncOutcomes(items) ==
    [i \in DOMAIN items |->
        IF \E j \in 1 .. i - 1 : items[j].product = items[i].product THEN "rejected"
        ELSE IF items[i].product \in products THEN "updated" ELSE "created"]

ReadSync(c) ==
    /\ call[c].stage = "reading" /\ call[c].kind = "sync"
    /\ \/ IsReplay(c) /\ Replayed(c, row["sync"][call[c].key])
       \/ ~IsReplay(c) /\ Plan(c, "checking", SyncOutcomes(call[c].items))
    /\ UNCHANGED <<month, products, events, customers, ledger, row>>

(* update_product.                                                          *)
ReadProduct(c) ==
    /\ call[c].stage = "reading" /\ call[c].kind = "product"
    /\ Plan(c, "checking", SyncOutcomes(call[c].items))
    /\ UNCHANGED <<month, products, events, customers, ledger, row>>

(* submit_feedback: a replay; or what it refers to is not there; or neither.*)
ReadFeedback(c) ==
    /\ call[c].stage = "reading" /\ call[c].kind = "feedback"
    /\ \/ IsReplay(c) /\ Replayed(c, row["feedback"][call[c].key])
       \/ ~IsReplay(c) /\ (Done(c) \/ Plan(c, "checking", <<"received">>))
    /\ UNCHANGED <<month, products, events, customers, ledger, row>>

(* require_capacity, which reads the clock by itself.                       *)
Check(c) ==
    LET e == Cardinality(NewEvents(c))
        p == Cardinality(NewProducts(c))
    IN /\ call[c].stage = "checking" /\ call[c].kind # "feedback"
       /\ \/ /\ e = 0 \/ ledger[month] + e <= EventLimit
             /\ p = 0 \/ Cardinality(products) + p <= ProductLimit
             /\ Goto(c, "stamping")
          \/ /\ \/ e > 0 /\ ledger[month] + e > EventLimit
                \/ p > 0 /\ Cardinality(products) + p > ProductLimit
             /\ Done(c)
       /\ UNCHANGED <<month, products, events, customers, ledger, row>>

(* submit_batch reads the clock after require_capacity.                     *)
Stamp(c) ==
    /\ call[c].stage = "stamping"
    /\ call' = [call EXCEPT ![c].stage = "writing",
                            ![c].now = IF call[c].kind = "event" THEN @ ELSE month]
    /\ UNCHANGED <<month, products, events, customers, ledger, row>>

(* INSERT ... ON CONFLICT DO NOTHING waits for another insert of the key.   *)
InsertFeedback(c) ==
    LET r == row["feedback"][call[c].key] IN
    /\ call[c].stage = "checking" /\ call[c].kind = "feedback"
    /\ \A d \in Calls : call[d].stage = "writing" /\ call[d].kind = "feedback"
         => call[d].key # call[c].key
    /\ \/ Replayed(c, r)
       \/ ~r.stored /\ Goto(c, "writing")
    /\ UNCHANGED <<month, products, events, customers, ledger, row>>

-----------------------------------------------------------------------------
ChargedForRepeats(c) ==     \* slip: an event repeated in its batch is metered again
    Cardinality({i \in DOMAIN call[c].items :
                   \E j \in With(c, "accepted") : call[c].items[j].event = call[c].items[i].event})

(* The quantity of the usage row.                                           *)
Charged(c) == Cardinality(With(c, "accepted"))

ShoppersOfAll(c) ==         \* slip: rejected and duplicate items bring customers too
    {call[c].items[i].user : i \in DOMAIN call[c].items} \ {None}

(* accepted_customers, and the customer of a single event.                  *)
Shoppers(c) == {call[c].items[i].user : i \in With(c, "accepted")} \ {None}

(* The rows of event_batches and catalog_syncs that nobody can ask for by a *)
(* key are left out.  Unique indexes refuse a second row for a key, and for *)
(* an event.                                                                *)
Recorded(c) ==
    \/ /\ call[c].key = None \/ call[c].kind \in {"event", "product"}
       /\ UNCHANGED row
    \/ /\ call[c].key # None /\ call[c].kind \in {"batch", "sync", "feedback"}
       /\ ~row[call[c].kind][call[c].key].stored
       /\ row' = [row EXCEPT ![call[c].kind][call[c].key] =
                     [stored |-> TRUE, items |-> call[c].items, outcomes |-> call[c].outcomes]]

(* The rows of one transaction.                                             *)
Rows(c) ==
    LET at(e) == CHOOSE i \in With(c, "accepted") : call[c].items[i].event = e
    IN /\ \A e \in NewEvents(c) : ~events[e].stored
       /\ events' = [e \in Events |->
              IF e \in NewEvents(c)
              THEN [stored |-> TRUE, month |-> call[c].now, user |-> call[c].items[at(e)].user]
              ELSE events[e]]
       /\ customers' = customers \cup Shoppers(c)
       /\ ledger' = [ledger EXCEPT ![call[c].now] = @ + Charged(c)]
       /\ products' = products \cup NewProducts(c)
       /\ Recorded(c)

(* The commit fails, or takes effect with or without an answer.             *)
Commit(c) ==
    /\ call[c].stage = "writing"
    /\ \/ Rows(c) /\ (Goto(c, "answered") \/ Done(c))
       \/ Done(c) /\ UNCHANGED <<products, events, customers, ledger, row>>
    /\ UNCHANGED month

(* The client leaves with its answer, or the process dies.                  *)
Leave(c) ==
    /\ call[c].stage # "idle"
    /\ Done(c)
    /\ UNCHANGED <<month, products, events, customers, ledger, row>>

MonthTurns ==
    /\ month < LastMonth
    /\ month' = month + 1
    /\ UNCHANGED <<products, events, customers, ledger, row, call>>

NoRow == [stored |-> FALSE, items |-> <<>>, outcomes |-> <<>>]

Init ==
    /\ month = 0
    /\ products = {}
    /\ events = [e \in Events |-> [stored |-> FALSE, month |-> 0, user |-> None]]
    /\ customers = {}
    /\ ledger = [m \in Months |-> 0]
    /\ row = [k \in {"batch", "sync", "feedback"} |-> [key \in Keys |-> NoRow]]
    /\ call = [c \in Calls |-> Idle]

Handle(c) ==
    \/ \E s \in Submissions : Submit(c, s)
    \/ Lock(c)
    \/ ReadEvent(c) \/ ReadBatch(c) \/ ReadSync(c) \/ ReadProduct(c) \/ ReadFeedback(c)
    \/ Check(c) \/ Stamp(c) \/ InsertFeedback(c) \/ Commit(c) \/ Leave(c)

Next == (\E c \in Calls : Handle(c)) \/ MonthTurns

Spec == Init /\ [][Next]_vars

-----------------------------------------------------------------------------
TypeOK ==
    /\ month \in Months
    /\ products \in SUBSET Products
    /\ events \in [Events -> EventRow]
    /\ customers \in SUBSET Users
    /\ ledger \in [Months -> Nat]
    /\ row \in [{"batch", "sync", "feedback"} -> [Keys -> Row]]
    /\ call \in [Calls -> Call]

(* Every stored event is metered once, in the month it was stored in, and   *)
(* nothing else is: neither a retry, nor a duplicate within its batch, nor  *)
(* a batch that overlaps another (submit_event, submit_batch).              *)
CountedOnce ==
    \A m \in Months : ledger[m] = Cardinality({e \in Events : events[e].stored /\ events[e].month = m})

(* The ledger of a month stays within the limit, but for a single event     *)
(* whose call read the clock before the month turned and was checked after  *)
(* it (service.py:25, limits.py:61); at most one can, since it has the lock.*)
MonthlyLimitHolds == \A m \in Months : ledger[m] <= EventLimit + 1

(* Who gets an answer under a key sent what is stored under it, and gets    *)
(* what is stored: the calls that overlap included (service.py:78-85,       *)
(* catalog/service.py:33-40, feedback.py:25-29 and 51-59).                  *)
ReplaysAgree ==
    \A c \in Calls :
      LET x == call[c] IN
      x.stage = "answered" /\ x.key # None /\ x.kind \in {"batch", "sync", "feedback"} =>
          row[x.kind][x.key] = [stored |-> TRUE, items |-> x.items, outcomes |-> x.outcomes]

(* Customers come from accepted events and only from those (customers.py,   *)
(* and "customers are created from accepted interactions only",             *)
(* recommendations.py:186).                                                 *)
CustomersInteracted ==
    customers = {events[e].user : e \in {f \in Events : events[f].stored}} \ {None}

(* Whatever overlaps, is repeated or fails half-way: what is stored, what   *)
(* is charged, who interacted, which products are new and what the receipts *)
(* say change together and as if each submission were taken up at once.     *)
Books == INSTANCE EventBooks WITH
    Kinds     <- {"batch", "sync", "feedback"},
    Nobody    <- None,
    now       <- month,
    entry     <- events,
    meter     <- ledger,
    shoppers  <- customers,
    catalogue <- products,
    receipt   <- row

KeepsBooks == Books!Spec
=============================================================================

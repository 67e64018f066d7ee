----------------------------- MODULE EventBooks -----------------------------
(***************************************************************************)
(* The books a tenant's submissions are kept in, as if each were taken up  *)
(* at once or not at all: the events stored and the meter of their month,  *)
(* the shoppers who brought them, the catalogue, and the receipts given    *)
(* under a key.                                                            *)
(***************************************************************************)
EXTENDS Integers, FiniteSets

CONSTANTS
    Events,
    Kinds, Keys,                \* a receipt is of a kind and has a key
    Months,
    EventLimit, ProductLimit,
    Nobody

VARIABLES
    now,        \* the month
    entry,      \* [Events -> what is stored of it]
    meter,      \* [Months -> events that are charged]
    shoppers,
    catalogue,
    receipt     \* [Kinds -> [Keys -> what was submitted and answered]]

books == <<now, entry, meter, shoppers, catalogue, receipt>>

Init ==
    /\ now = 0
    /\ \A e \in Events : ~entry[e].stored
    /\ \A m \in Months : meter[m] = 0
    /\ shoppers = {} /\ catalogue = {}
    /\ \A k \in Kinds, key \in Keys : ~receipt[k][key].stored

Stored == {e \in Events : ~entry[e].stored /\ entry'[e].stored}

Listed == catalogue' \ catalogue

(* What is stored stays as it is, and brings the shoppers it names.         *)
Enter(m) ==
    /\ \A e \in Events : IF e \in Stored THEN entry'[e].month = m ELSE entry'[e] = entry[e]
    /\ shoppers' = shoppers \cup ({entry'[e].user : e \in Stored} \ {Nobody})

(* Each new event is charged once.  The limit may be exceeded by one event  *)
(* of a month that is over.                                                 *)
Charge(m) ==
    /\ \A n \in Months : meter'[n] = meter[n] + (IF n = m THEN Cardinality(Stored) ELSE 0)
    /\ \/ Stored = {}
       \/ meter'[m] <= EventLimit
       \/ m < now /\ Cardinality(Stored) = 1 /\ meter'[m] = EventLimit + 1

List ==
    /\ catalogue \subseteq catalogue'
    /\ Listed = {} \/ Cardinality(catalogue') <= ProductLimit

(* A receipt says which events were stored and which products are new.      *)
True(r) ==
    LET With(outcome) == {i \in DOMAIN r.items : r.outcomes[i] = outcome} IN
    /\ r.stored
    /\ {r.items[i].event : i \in With("accepted")} = Stored
    /\ {r.items[i].product : i \in With("created")} = Listed

(* A key gets one receipt, in the step that stores what it is for.          *)
Acknowledge ==
    \/ UNCHANGED receipt
    \/ \E k \in Kinds, key \in Keys :
          /\ ~receipt[k][key].stored
          /\ True(receipt'[k][key])
          /\ \A j \in Kinds, other \in Keys :
                <<j, other>> # <<k, key>> => receipt'[j][other] = receipt[j][other]

Accept ==
    /\ \E m \in Months : m <= now /\ Enter(m) /\ Charge(m)
    /\ List
    /\ Acknowledge
    /\ UNCHANGED now

Turn == now' = now + 1 /\ UNCHANGED <<entry, meter, shoppers, catalogue, receipt>>

Next == Accept \/ Turn

Spec == Init /\ [][Next]_books
=============================================================================

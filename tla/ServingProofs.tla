--------------------------- MODULE ServingProofs ---------------------------
(* Theorems about Serving for every value of its constants. *)
EXTENDS Serving, TLAPS

(***************************************************************************)
(* The invariant.                                                          *)
(***************************************************************************)

(* What a request has picked was servable since it arrived.                 *)
Well(x) ==
    /\ x.phase # "idle" => x.input \in Inputs /\ servable \subseteq x.seen
    /\ x.phase = "locking" => x.id # None
    /\ x.phase \in {"remembering", "topping", "rechecking", "storing", "recording", "answered"}
         => x.picked \subseteq x.seen \ x.input.exclude
    /\ x.phase = "topping" => x.remembered \cap x.input.exclude = {}

AttemptInv == \A a \in Attempts : Well(attempt[a])

(* Who holds an identifier is alone, and nothing is stored under it yet.    *)
LockInv ==
    \A a \in Attempts : HoldsIdentifier(a) =>
      /\ ~record[attempt[a].id].stored
      /\ \A b \in Attempts : HoldsIdentifier(b) /\ attempt[a].id = attempt[b].id => a = b

RecordInv ==
    \A id \in RequestIds : record[id].stored =>
      record[id].input \in Inputs /\ record[id].items \cap record[id].input.exclude = {}

IInv == TypeOK /\ AttemptInv /\ LockInv /\ RecordInv /\ AnswerIsRecorded /\ MeteredOnce

(***************************************************************************)
(* What a step does to the request that takes it.                          *)
(***************************************************************************)

LEMMA IdleType ==
    /\ Idle \in Attempt
    /\ Idle.phase = "idle" /\ Idle.id = None /\ Idle.picked = {}
  BY DEF Idle, Attempt, Phases

LEMMA ChoicesAreParts ==
    ASSUME NEW n, NEW items, NEW s \in Choices(n, items)
    PROVE  s \subseteq items
  BY DEF Choices

LEMMA IdleIsWell == Well(Idle)
  BY IdleType DEF Well

(* A step of a request changes only its own record ... *)
LEMMA OwnRecord ==
    ASSUME TypeOK, NEW a \in Attempts, Handle(a)
    PROVE  /\ attempt' = [attempt EXCEPT ![a] = attempt'[a]]
           /\ \A b \in Attempts : b # a => attempt'[b] = attempt[b]
           /\ servable' = servable
  <1>1. \E y : attempt' = [attempt EXCEPT ![a] = y]
    BY Zenon DEF Handle, Arrive, Look, Admit, Filter, Remember, TopUp, Fallback, Recheck, Store,
                 Fail, RecordFailure, RecordAnswer, Leave, Goto, Done, Pick
  <1>2. servable' = servable
    BY Zenon DEF Handle, Arrive, Look, Admit, Filter, Remember, TopUp, Fallback, Recheck, Store,
                 Fail, RecordFailure, RecordAnswer, Leave
  <1>3. attempt \in [Attempts -> Attempt]
    BY DEF TypeOK
  <1> QED BY <1>1, <1>2, <1>3

(* ... to one that is typed and well. *)
LEMMA PickedType ==
    ASSUME NEW x \in Attempt, NEW ph \in Phases, NEW items \in SUBSET Products
    PROVE  [x EXCEPT !.phase = ph, !.picked = items] \in Attempt
  BY DEF Attempt

LEMMA AttemptStep ==
    ASSUME TypeOK, AttemptInv, RecordInv, NEW a \in Attempts, Handle(a)
    PROVE  attempt'[a] \in Attempt /\ Well(attempt'[a])
  <1> DEFINE x == attempt[a]
             y == attempt'[a]
             Good == y \in Attempt /\ Well(y)
  <1>1. attempt \in [Attempts -> Attempt] /\ x \in Attempt /\ Well(x)
    BY DEF TypeOK, AttemptInv
  <1>2. servable \in SUBSET Products /\ lastGood \in SUBSET Products
    BY DEF TypeOK
  <1>3. Idle \in Attempt /\ Well(Idle)
    BY IdleType, IdleIsWell
  <1>4. Done(a) => Good
    BY <1>1, <1>3 DEF Done
  <1>5. ASSUME NEW id \in RequestIds \cup {None}, NEW input \in Inputs, Arrive(a, id, input)
        PROVE  Good
    <2>1. y = [Idle EXCEPT !.phase = IF id = None THEN "admitting" ELSE "locking",
                           !.id = id, !.input = input, !.tenant = TRUE, !.seen = servable]
      BY <1>1, <1>5 DEF Arrive
    <2> QED BY <2>1, <1>2, IdleType DEF Well, Attempt, Phases
  <1>6. ASSUME Look(a) PROVE Good
    <2>1. CASE Goto(a, "admitting")
      BY <2>1, <1>1, <1>6 DEF Goto, Look, Attempt, Phases, Well
    <2>2. CASE Done(a)
      BY <2>2, <1>4
    <2>3. CASE /\ Pick(a, "answered", record[x.id].items) /\ record[x.id].stored
               /\ record[x.id].input = x.input /\ record[x.id].items \subseteq servable
      <3>1. x.phase = "locking" /\ x.id \in RequestIds
        BY <1>1, <1>6 DEF Look, Well, Attempt
      <3>2. record[x.id].items \in SUBSET Products
        BY <1>2, <2>3
      <3>3. y = [x EXCEPT !.phase = "answered", !.picked = record[x.id].items]
        BY <1>1, <2>3 DEF Pick
      <3>4. y \in Attempt
        <4>1. "answered" \in Phases
          BY DEF Phases
        <4> HIDE DEF x, y
        <4> QED BY <1>1, <3>2, <3>3, <4>1, PickedType, Zenon
      <3>5. record[x.id].items \subseteq x.seen \ x.input.exclude
        BY <1>1, <2>3, <3>1 DEF RecordInv, Well
      <3> QED BY <1>1, <3>1, <3>3, <3>4, <3>5 DEF Well, Attempt
    <2> QED BY <1>6, <2>1, <2>2, <2>3 DEF Look
  <1>7. ASSUME Admit(a) PROVE Good
    BY <1>1, <1>4, <1>7 DEF Admit, Goto, Attempt, Phases, Well
  <1>8. ASSUME Filter(a) PROVE Good
    <2>0. PICK candidates \in SUBSET Products :
            \E items \in Choices(x.input.top, (candidates \cap servable) \ x.input.exclude) :
              \E ph \in {"falling", "remembering", "storing"} :
                x.phase = "filtering" /\ Pick(a, ph, items)
      BY <1>8 DEF Filter
    <2>1. PICK items \in Choices(x.input.top, (candidates \cap servable) \ x.input.exclude),
               ph \in {"falling", "remembering", "storing"} :
            x.phase = "filtering" /\ Pick(a, ph, items)
      BY <2>0
    <2>2. items \subseteq servable \ x.input.exclude /\ items \in SUBSET Products
      BY <1>2, ChoicesAreParts
    <2>3. y = [x EXCEPT !.phase = ph, !.picked = items] /\ ph \in Phases
      BY <1>1, <2>1 DEF Pick, Phases
    <2>4. y \in Attempt
      <3> HIDE DEF x, y
      <3> QED BY <1>1, <2>2, <2>3, PickedType, Zenon
    <2> QED BY <1>1, <2>1, <2>2, <2>3, <2>4 DEF Well, Attempt
  <1>9. ASSUME Remember(a) PROVE Good
    <2>1. PICK list \in {lastGood, {}} :
            /\ x.phase = "remembering"
            /\ attempt' = [attempt EXCEPT
                 ![a].phase = IF list \ (x.picked \cup x.input.exclude) = {} THEN "storing" ELSE "topping",
                 ![a].remembered = list \ (x.picked \cup x.input.exclude)]
      BY <1>9 DEF Remember
    <2>2. PICK ph \in {"storing", "topping"} :
            y = [x EXCEPT !.phase = ph, !.remembered = list \ (x.picked \cup x.input.exclude)]
      BY <1>1, <2>1
    <2> QED BY <1>1, <1>2, <2>1, <2>2 DEF Well, Attempt, Phases
  <1>10. ASSUME TopUp(a) PROVE Good
    <2>1. PICK more \in Choices(x.input.top - Cardinality(x.picked), x.remembered \cap servable) :
            x.phase = "topping" /\ Pick(a, "storing", x.picked \cup more)
      BY <1>10 DEF TopUp
    <2>2. more \subseteq x.remembered \cap servable
      BY ChoicesAreParts
    <2>3. y = [x EXCEPT !.phase = "storing", !.picked = x.picked \cup more]
      BY <1>1, <2>1 DEF Pick
    <2>4. x.picked \cup more \in SUBSET Products
      BY <1>1, <1>2, <2>2 DEF Attempt
    <2>5. y \in Attempt
      <3>1. "storing" \in Phases
        BY DEF Phases
      <3> HIDE DEF x, y
      <3> QED BY <1>1, <2>3, <2>4, <3>1, PickedType, Zenon
    <2> QED BY <1>1, <2>1, <2>2, <2>3, <2>5 DEF Well, Attempt
  <1>11. ASSUME Fallback(a) PROVE Good
    <2>1. CASE \E n : \E ph \in {"storing", "rechecking"} :
                 \E items \in Choices(n, servable \ x.input.exclude) : Pick(a, ph, items)
      <3>0. PICK n : \E ph \in {"storing", "rechecking"} :
                       \E items \in Choices(n, servable \ x.input.exclude) : Pick(a, ph, items)
        BY <2>1
      <3>1. PICK ph \in {"storing", "rechecking"},
                 items \in Choices(n, servable \ x.input.exclude) : Pick(a, ph, items)
        BY <3>0
      <3>2. items \subseteq servable \ x.input.exclude /\ items \in SUBSET Products
        BY <1>2, ChoicesAreParts
      <3>3. y = [x EXCEPT !.phase = ph, !.picked = items] /\ ph \in Phases
        BY <1>1, <3>1 DEF Pick, Phases
      <3>4. y \in Attempt
        <4> HIDE DEF x, y
        <4> QED BY <1>1, <3>2, <3>3, PickedType, Zenon
      <3>5. x.phase = "falling"
        BY <1>11 DEF Fallback
      <3> QED BY <1>1, <3>2, <3>3, <3>4, <3>5 DEF Well, Attempt
    <2>2. CASE attempt' = [attempt EXCEPT ![a].phase = "failed", ![a].tenant = FALSE]
      BY <2>2, <1>1, <1>11 DEF Fallback, Well, Attempt, Phases
    <2> QED BY <1>11, <2>1, <2>2 DEF Fallback
  <1>12. ASSUME Recheck(a) PROVE Good
    <2>1. PICK items \in Choices(x.input.top, x.picked \cap servable) :
            x.phase = "rechecking" /\ Pick(a, "storing", items)
      BY <1>12 DEF Recheck
    <2>2. items \subseteq x.picked \cap servable /\ items \in SUBSET Products
      BY <1>2, ChoicesAreParts
    <2>3. y = [x EXCEPT !.phase = "storing", !.picked = items]
      BY <1>1, <2>1 DEF Pick
    <2>4. y \in Attempt
      <3>1. "storing" \in Phases
        BY DEF Phases
      <3> HIDE DEF x, y
      <3> QED BY <1>1, <2>2, <2>3, <3>1, PickedType, Zenon
    <2> QED BY <1>1, <2>1, <2>2, <2>3, <2>4 DEF Well, Attempt
  <1>13. ASSUME Store(a) PROVE Good
    BY <1>1, <1>13 DEF Store, Goto, Well, Attempt, Phases
  <1>14. ASSUME Fail(a) PROVE Good
    BY <1>1, <1>14 DEF Fail, Well, Attempt, Phases
  <1>15. ASSUME RecordAnswer(a) PROVE Good
    <2>1. CASE Goto(a, "answered")
      BY <2>1, <1>1, <1>15 DEF RecordAnswer, Goto, Well, Attempt, Phases
    <2> QED BY <1>4, <1>15, <2>1 DEF RecordAnswer
  <1>16. ASSUME RecordFailure(a) \/ Leave(a) PROVE Good
    BY <1>4, <1>16 DEF RecordFailure, Leave
  <1> QED BY <1>5, <1>6, <1>7, <1>8, <1>9, <1>10, <1>11, <1>12, <1>13, <1>14, <1>15, <1>16
          DEF Handle

(* Rows are written by the commit of a request that holds its identifier. *)
LEMMA RowStep ==
    ASSUME TypeOK, NEW a \in Attempts, Handle(a)
    PROVE  \/ UNCHANGED <<record, metered>>
           \/ /\ attempt[a].phase = "recording" /\ Written(a)
              /\ Goto(a, "answered") \/ Done(a)
  BY Zenon DEF Handle, Arrive, Look, Admit, Filter, Remember, TopUp, Fallback, Recheck, Store,
               Fail, RecordFailure, RecordAnswer, Leave

LEMMA TypeStep ==
    ASSUME TypeOK, AttemptInv, RecordInv, [Next]_vars
    PROVE  TypeOK'
  <1>1. ASSUME NEW a \in Attempts, Handle(a) PROVE TypeOK'
    <2>1. attempt \in [Attempts -> Attempt] /\ attempt'[a] \in Attempt
      BY <1>1, AttemptStep DEF TypeOK
    <2>2. attempt' \in [Attempts -> Attempt] /\ servable' \in SUBSET Products
      BY <1>1, <2>1, OwnRecord DEF TypeOK
    <2>3. lastGood' = lastGood \/ lastGood' = attempt[a].picked
      BY <1>1, Zenon DEF Handle, Arrive, Look, Admit, Filter, Remember, TopUp, Fallback, Recheck,
                 Store, Fail, RecordFailure, RecordAnswer, Leave
    <2>4. lastGood' \in SUBSET Products
      BY <2>1, <2>3 DEF TypeOK, Attempt
    <2>5. errors' \in {errors, errors + 1}
      BY <1>1 DEF Handle, Arrive, Look, Admit, Filter, Remember, TopUp, Fallback, Recheck,
                  Store, Fail, RecordFailure, RecordAnswer, Leave
    <2>6. errors' \in Nat
      BY <2>5 DEF TypeOK
    <2>7. record' \in [RequestIds -> Record] /\ metered' \in [RequestIds -> Nat]
      <3>1. CASE UNCHANGED <<record, metered>>
        BY <3>1 DEF TypeOK
      <3>2. CASE attempt[a].phase = "recording" /\ Written(a)
        <4>1. [stored |-> TRUE, input |-> attempt[a].input, items |-> attempt[a].picked] \in Record
          BY <2>1 DEF TypeOK, Attempt, Record
        <4>2. metered \in [RequestIds -> Nat] /\ record \in [RequestIds -> Record]
          BY DEF TypeOK
        <4>3. CASE attempt[a].id = None
          BY <3>2, <4>2, <4>3 DEF Written
        <4>4. CASE attempt[a].id # None
          <5>1. attempt[a].id \in RequestIds
            BY <2>1, <4>4 DEF Attempt
          <5>2. record' \in [RequestIds -> Record]
            <6>1. record' = [record EXCEPT ![attempt[a].id] =
                      [stored |-> TRUE, input |-> attempt[a].input, items |-> attempt[a].picked]]
              BY <3>2, <4>4 DEF Written
            <6> QED BY <4>1, <4>2, <6>1, Zenon
          <5>3. metered[attempt[a].id] + 1 \in Nat
            BY <4>2, <5>1
          <5>4. metered' \in [RequestIds -> Nat]
            BY <3>2, <4>2, <4>4, <5>1, <5>3 DEF Written
          <5> QED BY <5>2, <5>4
        <4> QED BY <4>3, <4>4
      <3> QED BY <1>1, <3>1, <3>2, RowStep
    <2> QED BY <2>2, <2>4, <2>6, <2>7 DEF TypeOK
  <1>2. ASSUME NEW p \in Products, Offer(p) PROVE TypeOK'
    <2>1. ASSUME NEW b \in Attempts PROVE attempt'[b] \in Attempt
      <3>1. attempt[b] \in Attempt
        BY DEF TypeOK
      <3>2. [attempt[b] EXCEPT !.seen = @ \cup {p}] \in Attempt
        BY <3>1 DEF Attempt
      <3> QED BY <1>2, <3>1, <3>2 DEF Offer
    <2>2. attempt' \in [Attempts -> Attempt]
      BY <1>2, <2>1 DEF Offer
    <2> QED BY <1>2, <2>2 DEF Offer, TypeOK
  <1>3. ASSUME NEW p \in Products, Withdraw(p) PROVE TypeOK'
    BY <1>3 DEF Withdraw, TypeOK
  <1>4. ASSUME Forget PROVE TypeOK'
    BY <1>4 DEF Forget, TypeOK
  <1>5. ASSUME UNCHANGED vars PROVE TypeOK'
    BY <1>5 DEF vars, TypeOK
  <1> QED BY <1>1, <1>2, <1>3, <1>4, <1>5 DEF Next

(***************************************************************************)
(* The invariant is preserved.                                             *)
(***************************************************************************)

(* What the catalogue does meanwhile to a request. *)
LEMMA SeenGrows ==
    ASSUME TypeOK, NEW p \in Products, Offer(p), NEW b \in Attempts
    PROVE  /\ attempt'[b].phase = attempt[b].phase /\ attempt'[b].id = attempt[b].id
           /\ attempt'[b].input = attempt[b].input /\ attempt'[b].picked = attempt[b].picked
           /\ attempt'[b].remembered = attempt[b].remembered
           /\ attempt[b].phase # "idle" => attempt'[b].seen = attempt[b].seen \cup {p}
           /\ attempt[b].phase = "idle" => attempt'[b].seen = attempt[b].seen
  <1>1. attempt[b] \in Attempt
    BY DEF TypeOK
  <1> QED BY <1>1 DEF Offer, Attempt

LEMMA AttemptInvStep ==
    ASSUME TypeOK, AttemptInv, RecordInv, [Next]_vars
    PROVE  AttemptInv'
  <1>1. ASSUME NEW a \in Attempts, Handle(a) PROVE AttemptInv'
    BY <1>1, AttemptStep, OwnRecord DEF AttemptInv, Well
  <1>2. ASSUME NEW p \in Products, Offer(p) PROVE AttemptInv'
    BY <1>2, SeenGrows DEF AttemptInv, Well, Offer
  <1>3. ASSUME NEW p \in Products, Withdraw(p) PROVE AttemptInv'
    BY <1>3 DEF AttemptInv, Well, Withdraw
  <1>4. ASSUME Forget PROVE AttemptInv'
    BY <1>4 DEF AttemptInv, Well, Forget
  <1>5. ASSUME UNCHANGED vars PROVE AttemptInv'
    BY <1>5 DEF AttemptInv, Well, vars
  <1> QED BY <1>1, <1>2, <1>3, <1>4, <1>5 DEF Next

(* A request that holds an identifier held it before, or has just found it  *)
(* free and nothing stored under it. *)
LEMMA Holds ==
    ASSUME TypeOK, NEW a \in Attempts, Handle(a), HoldsIdentifier(a)'
    PROVE  /\ attempt'[a].id = attempt[a].id
           /\ \/ HoldsIdentifier(a)
              \/ /\ ~record[attempt[a].id].stored
                 /\ \A b \in Attempts : HoldsIdentifier(b) => attempt[b].id # attempt[a].id
  <1>1. attempt \in [Attempts -> Attempt] /\ attempt[a] \in Attempt
    BY DEF TypeOK
  <1>2. ~Done(a)
    BY <1>1, IdleType DEF Done, HoldsIdentifier
  <1>3. ASSUME NEW id \in RequestIds \cup {None}, NEW input \in Inputs, Arrive(a, id, input)
        PROVE  FALSE
    <2>1. attempt'[a].id = id /\ attempt'[a].phase = IF id = None THEN "admitting" ELSE "locking"
      BY <1>1, <1>3, IdleType DEF Arrive, Attempt
    <2> QED BY <2>1 DEF HoldsIdentifier
  <1>4. CASE Look(a)
    <2>1. Goto(a, "admitting") \/ attempt'[a].phase = "answered"
      BY <1>1, <1>2, <1>4 DEF Look, Pick, Attempt
    <2> QED BY <1>1, <1>2, <1>4, <2>1 DEF Look, Goto, Pick, Attempt, HoldsIdentifier
  <1>5. CASE Filter(a) \/ Remember(a) \/ TopUp(a) \/ Fallback(a) \/ Recheck(a)
    <2>1. attempt'[a].id = attempt[a].id
      <3>1. CASE Filter(a)
        <4>1. \E ph, items : Pick(a, ph, items)
          BY <3>1, Zenon DEF Filter
        <4> QED BY <1>1, <4>1 DEF Pick, Attempt
      <3>2. CASE Remember(a)
        BY <1>1, <3>2 DEF Remember, Attempt
      <3>3. CASE TopUp(a) \/ Recheck(a)
        <4>1. \E ph, items : Pick(a, ph, items)
          BY <3>3, Zenon DEF TopUp, Recheck
        <4> QED BY <1>1, <4>1 DEF Pick, Attempt
      <3>4. CASE Fallback(a)
        <4>1. \/ \E ph, items : Pick(a, ph, items)
              \/ attempt' = [attempt EXCEPT ![a].phase = "failed", ![a].tenant = FALSE]
          BY <3>4, Zenon DEF Fallback
        <4> QED BY <1>1, <4>1 DEF Pick, Attempt
      <3> QED BY <1>5, <3>1, <3>2, <3>3, <3>4
    <2>2. attempt[a].phase \in {"filtering", "remembering", "topping", "falling", "rechecking"}
      BY <1>5 DEF Filter, Remember, TopUp, Fallback, Recheck
    <2> QED BY <2>1, <2>2 DEF HoldsIdentifier
  <1>6. CASE Admit(a) \/ Store(a) \/ Fail(a)
    <2>1. attempt'[a].id = attempt[a].id
      BY <1>1, <1>2, <1>6 DEF Admit, Store, Fail, Goto, Attempt
    <2>2. attempt[a].phase \notin {"idle", "locking", "failed", "answered"}
      BY <1>6 DEF Admit, Store, Fail
    <2> QED BY <2>1, <2>2 DEF HoldsIdentifier
  <1>7. CASE RecordAnswer(a)
    BY <1>1, <1>2, <1>7 DEF RecordAnswer, Goto, Attempt, HoldsIdentifier
  <1>8. ~RecordFailure(a) /\ ~Leave(a)
    BY <1>2 DEF RecordFailure, Leave
  <1> QED BY <1>3, <1>4, <1>5, <1>6, <1>7, <1>8 DEF Handle

(* After its commit a request holds nothing. *)
LEMMA Releases ==
    ASSUME TypeOK, NEW a \in Attempts, Handle(a),
           attempt[a].phase = "recording", Goto(a, "answered") \/ Done(a)
    PROVE  ~HoldsIdentifier(a)'
  <1>1. attempt \in [Attempts -> Attempt] /\ attempt[a] \in Attempt
    BY DEF TypeOK
  <1> QED BY <1>1, IdleType DEF Goto, Done, Attempt, HoldsIdentifier

LEMMA RecordStep ==
    ASSUME IInv, NEW a \in Attempts, Handle(a)
    PROVE  LockInv' /\ RecordInv' /\ MeteredOnce'
  <1>1. /\ TypeOK /\ attempt \in [Attempts -> Attempt] /\ attempt[a] \in Attempt
        /\ record \in [RequestIds -> Record] /\ metered \in [RequestIds -> Nat]
    BY DEF IInv, TypeOK
  <1>2. \A b \in Attempts : b # a => (HoldsIdentifier(b)' <=> HoldsIdentifier(b))
    BY <1>1, OwnRecord DEF HoldsIdentifier
  <1>3. CASE UNCHANGED <<record, metered>>
    <2>1. RecordInv' /\ MeteredOnce'
      BY <1>3 DEF IInv, RecordInv, MeteredOnce
    <2>2. LockInv'
      <3> SUFFICES ASSUME NEW b \in Attempts, HoldsIdentifier(b)'
                   PROVE  /\ ~record[attempt'[b].id].stored
                          /\ \A c \in Attempts : HoldsIdentifier(c)' /\ attempt'[b].id = attempt'[c].id
                               => b = c
        BY <1>3 DEF LockInv
      <3>1. \A c \in Attempts : HoldsIdentifier(c)' => attempt'[c].id = attempt[c].id
        BY <1>1, OwnRecord, Holds
      <3>2. ~record[attempt[b].id].stored
        BY <1>1, <1>2, Holds DEF IInv, LockInv
      <3>3. ASSUME NEW c \in Attempts, HoldsIdentifier(c)', attempt[b].id = attempt[c].id, b # c
            PROVE  FALSE
        BY <1>1, <1>2, <3>3, Holds DEF IInv, LockInv
      <3> QED BY <3>1, <3>2, <3>3
    <2> QED BY <2>1, <2>2
  <1>4. CASE attempt[a].phase = "recording" /\ Written(a) /\ (Goto(a, "answered") \/ Done(a))
    <2>1. ~HoldsIdentifier(a)'
      BY <1>1, <1>4, Releases
    <2>2. CASE attempt[a].id = None
      <3>1. record' = record /\ metered' = metered
        BY <1>4, <2>2 DEF Written
      <3> QED BY <1>3, <3>1
    <2>3. CASE attempt[a].id # None
      <3>1. HoldsIdentifier(a) /\ attempt[a].id \in RequestIds
        BY <1>1, <1>4, <2>3 DEF HoldsIdentifier, Attempt
      <3>2. /\ record' = [record EXCEPT ![attempt[a].id] =
                [stored |-> TRUE, input |-> attempt[a].input, items |-> attempt[a].picked]]
            /\ metered' = [metered EXCEPT ![attempt[a].id] = @ + 1]
        BY <1>4, <2>3 DEF Written
      <3>3. /\ \A id \in RequestIds : id # attempt[a].id =>
                record'[id] = record[id] /\ metered'[id] = metered[id]
            /\ record'[attempt[a].id] =
                 [stored |-> TRUE, input |-> attempt[a].input, items |-> attempt[a].picked]
            /\ metered'[attempt[a].id] = metered[attempt[a].id] + 1
        BY <1>1, <3>1, <3>2
      <3>4. ~record[attempt[a].id].stored
        BY <3>1 DEF IInv, LockInv
      <3>5. LockInv'
        <4> SUFFICES ASSUME NEW b \in Attempts, HoldsIdentifier(b)'
                     PROVE  /\ ~record'[attempt'[b].id].stored
                            /\ \A c \in Attempts : HoldsIdentifier(c)' /\ attempt'[b].id = attempt'[c].id
                                 => b = c
          BY DEF LockInv
        <4>1. b # a /\ HoldsIdentifier(b) /\ attempt'[b] = attempt[b] /\ attempt[b] \in Attempt
          BY <1>1, <1>2, <2>1, OwnRecord
        <4>2. attempt[b].id # attempt[a].id /\ attempt[b].id \in RequestIds
          BY <3>1, <4>1 DEF IInv, LockInv, HoldsIdentifier, Attempt
        <4>3. ~record'[attempt'[b].id].stored
          BY <3>3, <4>1, <4>2 DEF IInv, LockInv
        <4>4. ASSUME NEW c \in Attempts, HoldsIdentifier(c)', attempt'[b].id = attempt'[c].id
              PROVE  b = c
          <5>1. c # a /\ HoldsIdentifier(c) /\ attempt'[c] = attempt[c]
            BY <1>1, <1>2, <2>1, <4>4, OwnRecord
          <5> QED BY <4>1, <4>4, <5>1 DEF IInv, LockInv
        <4> QED BY <4>3, <4>4
      <3>6. RecordInv'
        <4>1. /\ attempt[a].input \in Inputs
              /\ attempt[a].picked \cap attempt[a].input.exclude = {}
          BY <1>4 DEF IInv, AttemptInv, Well
        <4> QED BY <3>3, <4>1 DEF IInv, RecordInv
      <3>7. MeteredOnce'
        BY <1>1, <3>1, <3>3, <3>4 DEF IInv, MeteredOnce
      <3> QED BY <3>5, <3>6, <3>7
    <2> QED BY <2>2, <2>3
  <1> QED BY <1>1, <1>3, <1>4, RowStep

LEMMA AnswerStep ==
    ASSUME IInv, NEW a \in Attempts, Handle(a)
    PROVE  AnswerIsRecorded'
  <1>1. /\ TypeOK /\ attempt \in [Attempts -> Attempt] /\ attempt[a] \in Attempt
        /\ record \in [RequestIds -> Record]
    BY DEF IInv, TypeOK
  <1> SUFFICES ASSUME NEW b \in Attempts, attempt'[b].phase = "answered", attempt'[b].id # None
               PROVE  record'[attempt'[b].id] = [stored |-> TRUE, input |-> attempt'[b].input,
                                                 items |-> attempt'[b].picked]
    BY DEF AnswerIsRecorded
  <1>2. CASE b # a
    <2>1. attempt'[b] = attempt[b] /\ attempt[b].id \in RequestIds
      BY <1>1, <1>2, OwnRecord DEF Attempt
    <2>2. record[attempt[b].id] = [stored |-> TRUE, input |-> attempt[b].input,
                                   items |-> attempt[b].picked]
      BY <2>1 DEF IInv, AnswerIsRecorded
    <2>3. record'[attempt[b].id] = record[attempt[b].id]
      <3>1. CASE attempt[a].phase = "recording" /\ Written(a) /\ attempt[a].id # None
        <4>1. HoldsIdentifier(a) /\ attempt[a].id # attempt[b].id
          BY <2>2, <3>1 DEF HoldsIdentifier, IInv, LockInv
        <4> QED BY <1>1, <2>1, <3>1, <4>1 DEF Written
      <3>2. CASE attempt[a].phase = "recording" /\ Written(a) /\ attempt[a].id = None
        BY <3>2 DEF Written
      <3> QED BY <1>1, <3>1, <3>2, RowStep
    <2> QED BY <2>1, <2>2, <2>3
  <1>3. CASE b = a
    <2>1. ~Done(a)
      BY <1>1, <1>3, IdleType DEF Done
    <2>2. Look(a) \/ RecordAnswer(a)
      <3>1. ASSUME NEW id, NEW input, Arrive(a, id, input) PROVE FALSE
        BY <1>1, <1>3, <3>1 DEF Arrive, Idle, Attempt
      <3>2. ASSUME Admit(a) \/ Store(a) \/ Fail(a) \/ RecordFailure(a) \/ Leave(a) PROVE FALSE
        BY <1>1, <1>3, <2>1, <3>2 DEF Admit, Store, Fail, RecordFailure, Leave, Goto, Attempt
      <3>3. ASSUME Filter(a) \/ TopUp(a) \/ Recheck(a) PROVE FALSE
        <4>1. \E items : \E ph \in Phases \ {"answered"} : Pick(a, ph, items)
          <5>1. {"storing", "falling", "remembering"} \subseteq Phases \ {"answered"}
            BY DEF Phases
          <5>2. \E items : \E ph \in {"storing", "falling", "remembering"} : Pick(a, ph, items)
            BY <3>3, Zenon DEF Filter, TopUp, Recheck
          <5> QED BY <5>1, <5>2
        <4> QED BY <1>1, <1>3, <4>1 DEF Pick, Attempt
      <3>4. ASSUME Fallback(a) PROVE FALSE
        <4>1. \/ \E items : \E ph \in {"storing", "rechecking"} : Pick(a, ph, items)
              \/ attempt' = [attempt EXCEPT ![a].phase = "failed", ![a].tenant = FALSE]
          BY <3>4, Zenon DEF Fallback
        <4> QED BY <1>1, <1>3, <4>1 DEF Pick, Attempt
      <3>5. ASSUME Remember(a) PROVE FALSE
        BY <1>1, <1>3, <3>5 DEF Remember, Attempt
      <3> QED BY <3>1, <3>2, <3>3, <3>4, <3>5 DEF Handle
    <2>3. CASE Look(a)
      <3>1. /\ record[attempt[a].id].stored /\ record[attempt[a].id].input = attempt[a].input
            /\ Pick(a, "answered", record[attempt[a].id].items) /\ record' = record
        BY <1>1, <1>3, <2>1, <2>3 DEF Look, Goto, Attempt
      <3>2. /\ attempt'[a].id = attempt[a].id /\ attempt'[a].input = attempt[a].input
            /\ attempt'[a].picked = record[attempt[a].id].items
        BY <1>1, <3>1 DEF Pick, Attempt
      <3>3. record[attempt[a].id] \in Record
        BY <1>1, <1>3, <3>2 DEF Attempt
      <3> QED BY <1>3, <3>1, <3>2, <3>3 DEF Record
    <2>4. CASE RecordAnswer(a)
      <3>1. Written(a) /\ Goto(a, "answered")
        BY <2>1, <2>4 DEF RecordAnswer
      <3>2. /\ attempt'[a].id = attempt[a].id /\ attempt'[a].input = attempt[a].input
            /\ attempt'[a].picked = attempt[a].picked
        BY <1>1, <3>1 DEF Goto, Attempt
      <3>3. attempt[a].id \in RequestIds
        BY <1>1, <1>3, <3>2 DEF Attempt
      <3> QED BY <1>1, <1>3, <3>1, <3>2, <3>3 DEF Written
    <2> QED BY <2>2, <2>3, <2>4
  <1> QED BY <1>2, <1>3

(* The catalogue and Redis leave records and requests alone. *)
LEMMA OutsideStep ==
    ASSUME IInv, (\E p \in Products : Withdraw(p) \/ Offer(p)) \/ Forget \/ UNCHANGED vars
    PROVE  LockInv' /\ RecordInv' /\ MeteredOnce' /\ AnswerIsRecorded'
  <1>1. record' = record /\ metered' = metered
    BY DEF Withdraw, Offer, Forget, vars
  <1>2. \A b \in Attempts :
          /\ attempt'[b].phase = attempt[b].phase /\ attempt'[b].id = attempt[b].id
          /\ attempt'[b].input = attempt[b].input /\ attempt'[b].picked = attempt[b].picked
    <2>1. ASSUME NEW p \in Products, Offer(p)
          PROVE  \A b \in Attempts :
                   /\ attempt'[b].phase = attempt[b].phase /\ attempt'[b].id = attempt[b].id
                   /\ attempt'[b].input = attempt[b].input /\ attempt'[b].picked = attempt[b].picked
      BY <2>1, SeenGrows DEF IInv
    <2> QED BY <2>1 DEF Withdraw, Forget, vars
  <1>3. \A b \in Attempts : HoldsIdentifier(b)' <=> HoldsIdentifier(b)
    BY <1>2 DEF HoldsIdentifier
  <1>4. LockInv'
    BY <1>1, <1>2, <1>3 DEF IInv, LockInv
  <1>5. RecordInv' /\ MeteredOnce'
    BY <1>1 DEF IInv, RecordInv, MeteredOnce
  <1>6. AnswerIsRecorded'
    BY <1>1, <1>2 DEF IInv, AnswerIsRecorded
  <1> QED BY <1>4, <1>5, <1>6

LEMMA InvInit == Init => IInv
  <1> SUFFICES ASSUME Init PROVE IInv
    OBVIOUS
  <1>1. TypeOK
    BY IdleType DEF Init, TypeOK, Record
  <1>2. \A a \in Attempts : attempt[a] = Idle /\ ~HoldsIdentifier(a)
    BY IdleType DEF Init, HoldsIdentifier
  <1>3. AttemptInv /\ LockInv
    BY <1>2, IdleIsWell DEF AttemptInv, LockInv
  <1>4. RecordInv /\ MeteredOnce
    BY DEF Init, RecordInv, MeteredOnce
  <1>5. AnswerIsRecorded
    BY <1>2, IdleType DEF AnswerIsRecorded
  <1> QED BY <1>1, <1>3, <1>4, <1>5 DEF IInv

LEMMA InvStep == IInv /\ [Next]_vars => IInv'
  <1> SUFFICES ASSUME IInv, [Next]_vars PROVE IInv'
    OBVIOUS
  <1>1. TypeOK' /\ AttemptInv'
    BY TypeStep, AttemptInvStep DEF IInv
  <1>2. LockInv' /\ RecordInv' /\ MeteredOnce' /\ AnswerIsRecorded'
    BY RecordStep, AnswerStep, OutsideStep DEF Next
  <1> QED BY <1>1, <1>2 DEF IInv

(***************************************************************************)
(* The theorems.                                                           *)
(***************************************************************************)

THEOREM Invariance == Spec => []IInv
  BY InvInit, InvStep, PTL DEF Spec

(* Types: also after any number of retries an identifier is metered a       *)
(* natural number of times and a request is in one of its phases.           *)
THEOREM ServingTypes == Spec => []TypeOK
  <1>1. IInv => TypeOK
    BY DEF IInv
  <1> QED BY <1>1, Invariance, PTL

(* Every item of an answer was servable while the request was served, and   *)
(* none was excluded.                                                       *)
THEOREM OnlyServableIsServed == Spec => []AnswersWereServable
  <1>1. IInv => AnswersWereServable
    BY DEF IInv, AttemptInv, Well, AnswersWereServable
  <1> QED BY <1>1, Invariance, PTL

(* Clients that were answered under one identifier have the same answer.    *)
THEOREM AnswersAreRecorded == Spec => []AnswerIsRecorded
  <1>1. IInv => AnswerIsRecorded
    BY DEF IInv
  <1> QED BY <1>1, Invariance, PTL

(* An identifier is metered exactly once for its stored answer.             *)
THEOREM MeteredOncePerIdentifier == Spec => []MeteredOnce
  <1>1. IInv => MeteredOnce
    BY DEF IInv
  <1> QED BY <1>1, Invariance, PTL
=============================================================================

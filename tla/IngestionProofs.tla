--------------------------- MODULE IngestionProofs ---------------------------
(***************************************************************************)
(* The safety properties of Ingestion, for any submissions of clients, any *)
(* number of overlapping calls, any limits and any number of months.       *)
(***************************************************************************)
EXTENDS Ingestion, FiniteSetTheorems, SequenceTheorems, FunctionTheorems, TLAPS

(* The places of the items that a call has accepted.                        *)
Accepted(x) == {i \in DOMAIN x.items : x.outcomes[i] = "accepted"}

Planned(x) == x.stage \in {"checking", "stamping", "writing"}

EventKinds == {"event", "batch"}

ProductKinds == {"sync", "product"}

(* What a call works on was submitted.                                      *)
Submitted(x) ==
    x.stage # "idle" =>
        /\ x.kind \in EventKinds => \A i \in DOMAIN x.items : x.items[i].event \in Events
        /\ x.kind \in ProductKinds => \A i \in DOMAIN x.items : x.items[i].product \in Products
        /\ x.kind = "feedback" => x.key \in Keys
        /\ x.kind \in {"event", "product", "feedback"} => Len(x.items) = 1

(* Only events are accepted and only products created; an event of a batch  *)
(* is accepted in one place.                                                *)
Sound(x) ==
    Planned(x) =>
        /\ x.kind \notin EventKinds => Accepted(x) = {}
        /\ x.kind \notin ProductKinds => \A i \in DOMAIN x.items : x.outcomes[i] # "created"
        /\ \A i, j \in Accepted(x) : x.items[i].event = x.items[j].event => i = j

CallsSound == \A c \in Calls : Submitted(call[c]) /\ Sound(call[c])

InProgress == {"reading", "checking", "stamping", "writing"}

(* The month an event is metered in has begun.                              *)
Stamped ==
    \A c \in Calls :
        /\ call[c].kind = "event" /\ call[c].stage \in InProgress => call[c].now <= month
        /\ call[c].kind = "batch" /\ call[c].stage = "writing" => call[c].now <= month

-----------------------------------------------------------------------------
(* Outcomes                                                                 *)

LEMMA BatchPlan ==
    ASSUME NEW items \in Seq(Item)
    PROVE  LET o == BatchOutcomes(items) IN
           /\ o \in Seq(Outcomes)
           /\ \A i \in DOMAIN items : o[i] # "created"
           /\ \A i, j \in DOMAIN items :
                o[i] = "accepted" /\ o[j] = "accepted" /\ items[i].event = items[j].event => i = j
  <1> DEFINE o == BatchOutcomes(items)
  <1>1. /\ Len(items) \in Nat
        /\ DOMAIN items = 1 .. Len(items)
    BY LenProperties
  <1>2. /\ o \in [1 .. Len(items) -> {"duplicate", "accepted", "rejected"}]
        /\ \A i \in DOMAIN items : o[i] \in {"duplicate", "accepted", "rejected"}
    BY <1>1 DEF BatchOutcomes
  <1>3. {"duplicate", "accepted", "rejected"} \subseteq Outcomes
    BY DEF Outcomes
  <1>4. o \in [1 .. Len(items) -> Outcomes]
    BY <1>2, <1>3
  <1>5. o \in Seq(Outcomes)
    BY <1>1, <1>4, SeqDef
  <1>6. ASSUME NEW i \in DOMAIN items, NEW j \in DOMAIN items, i < j,
               o[i] = "accepted", o[j] = "accepted", items[i].event = items[j].event
        PROVE  FALSE
    <2>1. i \in 1 .. j - 1
      BY <1>1, <1>6
    <2>2. items[i].product \in products \cup {None}
      BY <1>6 DEF BatchOutcomes
    <2>3. \E k \in 1 .. j - 1 : items[k].event = items[j].event
                                 /\ items[k].product \in products \cup {None}
      BY <1>6, <2>1, <2>2
    <2>4. o[j] = "duplicate"
      BY <1>6, <2>3 DEF BatchOutcomes
    <2> QED
      BY <1>6, <2>4
  <1>7. \A i, j \in DOMAIN items :
          o[i] = "accepted" /\ o[j] = "accepted" /\ items[i].event = items[j].event => i = j
    BY <1>1, <1>6
  <1> QED
    BY <1>2, <1>5, <1>7

LEMMA SyncPlan ==
    ASSUME NEW items \in Seq(Item)
    PROVE  LET o == SyncOutcomes(items) IN
           /\ o \in Seq(Outcomes)
           /\ \A i \in DOMAIN items : o[i] # "accepted"
  <1> DEFINE o == SyncOutcomes(items)
  <1>1. /\ Len(items) \in Nat
        /\ DOMAIN items = 1 .. Len(items)
    BY LenProperties
  <1>2. /\ o \in [1 .. Len(items) -> {"rejected", "updated", "created"}]
        /\ \A i \in DOMAIN items : o[i] \in {"rejected", "updated", "created"}
    BY <1>1 DEF SyncOutcomes
  <1>3. {"rejected", "updated", "created"} \subseteq Outcomes
    BY DEF Outcomes
  <1>4. o \in [1 .. Len(items) -> Outcomes]
    BY <1>2, <1>3
  <1>5. o \in Seq(Outcomes)
    BY <1>1, <1>4, SeqDef
  <1> QED
    BY <1>2, <1>5

LEMMA OnePlan ==
    ASSUME NEW outcome \in Outcomes
    PROVE  <<outcome>> \in Seq(Outcomes)
  OBVIOUS

-----------------------------------------------------------------------------
(* Types                                                                    *)

Others(c) == \A d \in Calls \ {c} : call'[d] = call[d]

Same(c) ==
    /\ call'[c].kind = call[c].kind
    /\ call'[c].key = call[c].key
    /\ call'[c].items = call[c].items

LEMMA GotoType ==
    ASSUME TypeOK, NEW c \in Calls, NEW stage \in Stages, Goto(c, stage)
    PROVE  /\ call' \in [Calls -> Call] /\ Others(c) /\ Same(c)
           /\ call'[c].stage = stage
           /\ call'[c].outcomes = call[c].outcomes
           /\ call'[c].now = call[c].now
  <1>1. call \in [Calls -> Call] /\ call[c] \in Call
    BY DEF TypeOK
  <1> DEFINE y == [call[c] EXCEPT !.stage = stage]
  <1>2. /\ y \in Call /\ y.stage = stage
        /\ y.kind = call[c].kind /\ y.key = call[c].key /\ y.items = call[c].items
        /\ y.outcomes = call[c].outcomes /\ y.now = call[c].now
    BY <1>1 DEF Call
  <1>3. call' = [call EXCEPT ![c] = y]
    BY DEF Goto
  <1> HIDE DEF y
  <1> QED
    BY <1>1, <1>2, <1>3 DEF Others, Same

LEMMA PlanType ==
    ASSUME TypeOK, NEW c \in Calls, NEW stage \in Stages, NEW outcomes \in Seq(Outcomes),
           Plan(c, stage, outcomes)
    PROVE  /\ call' \in [Calls -> Call] /\ Others(c) /\ Same(c)
           /\ call'[c].stage = stage
           /\ call'[c].outcomes = outcomes
           /\ call'[c].now = call[c].now
  <1>1. call \in [Calls -> Call] /\ call[c] \in Call
    BY DEF TypeOK
  <1> DEFINE y == [call[c] EXCEPT !.stage = stage, !.outcomes = outcomes]
  <1>2. /\ y \in Call /\ y.stage = stage
        /\ y.kind = call[c].kind /\ y.key = call[c].key /\ y.items = call[c].items
        /\ y.outcomes = outcomes /\ y.now = call[c].now
    BY <1>1 DEF Call
  <1>3. call' = [call EXCEPT ![c] = y]
    BY <1>1 DEF Plan
  <1> HIDE DEF y
  <1> QED
    BY <1>1, <1>2, <1>3 DEF Others, Same

LEMMA TimeType ==
    ASSUME TypeOK, NEW c \in Calls, NEW stage \in Stages, NEW now \in Months,
           call' = [call EXCEPT ![c].stage = stage, ![c].now = now]
    PROVE  /\ call' \in [Calls -> Call] /\ Others(c) /\ Same(c)
           /\ call'[c].stage = stage
           /\ call'[c].outcomes = call[c].outcomes
           /\ call'[c].now = now
  <1>1. call \in [Calls -> Call] /\ call[c] \in Call
    BY DEF TypeOK
  <1> DEFINE y == [call[c] EXCEPT !.stage = stage, !.now = now]
  <1>2. /\ y \in Call /\ y.stage = stage
        /\ y.kind = call[c].kind /\ y.key = call[c].key /\ y.items = call[c].items
        /\ y.outcomes = call[c].outcomes /\ y.now = now
    BY <1>1 DEF Call
  <1>3. call' = [call EXCEPT ![c] = y]
    BY <1>1
  <1> HIDE DEF y
  <1> QED
    BY <1>1, <1>2, <1>3 DEF Others, Same

LEMMA IdleType ==
    ASSUME IngestionOK
    PROVE  Idle \in Call /\ Idle.stage = "idle"
  <1>1. 0 \in Months
    BY DEF IngestionOK, Months
  <1>2. <<>> \in Seq(Item) /\ <<>> \in Seq(Outcomes)
    OBVIOUS
  <1> QED
    BY <1>1, <1>2 DEF Idle, Call, Stages, Kinds

LEMMA DoneType ==
    ASSUME IngestionOK, TypeOK, NEW c \in Calls, Done(c)
    PROVE  /\ call' \in [Calls -> Call] /\ Others(c)
           /\ call'[c].stage = "idle"
  <1>1. call \in [Calls -> Call]
    BY DEF TypeOK
  <1>2. call' = [call EXCEPT ![c] = Idle]
    BY DEF Done
  <1>3. Idle \in Call /\ Idle.stage = "idle"
    BY IdleType
  <1> HIDE DEF Idle
  <1> QED
    BY <1>1, <1>2, <1>3 DEF Others

LEMMA SubmitType ==
    ASSUME IngestionOK, TypeOK, NEW c \in Calls, NEW s \in Submissions, Submit(c, s)
    PROVE  /\ call' \in [Calls -> Call] /\ Others(c)
           /\ call'[c].stage = IF s.kind = "feedback" THEN "reading" ELSE "waiting"
           /\ call'[c].kind = s.kind /\ call'[c].key = s.key /\ call'[c].items = s.items
  <1>1. call \in [Calls -> Call] /\ s \in Submission
    BY DEF TypeOK, IngestionOK
  <1> DEFINE stage == IF s.kind = "feedback" THEN "reading" ELSE "waiting"
             y == [Idle EXCEPT !.stage = stage, !.kind = s.kind, !.key = s.key, !.items = s.items]
  <1>2. stage \in Stages
    BY DEF Stages
  <1>3. s.kind \in Kinds /\ s.key \in Keys \cup {None} /\ s.items \in Seq(Item)
    BY <1>1 DEF Submission
  <1>4. call' = [call EXCEPT ![c] = y]
    BY DEF Submit
  <1> HIDE DEF stage
  <1>5. Idle \in Call
    BY IdleType
  <1>6. y \in Call /\ y.stage = stage /\ y.kind = s.kind /\ y.key = s.key /\ y.items = s.items
    <2> HIDE DEF Idle
    <2> QED
      BY <1>2, <1>3, <1>5 DEF Call
  <1>7. call' \in [Calls -> Call] /\ Others(c) /\ call'[c] = y
    <2> HIDE DEF y
    <2> QED
      BY <1>1, <1>4, <1>6 DEF Others
  <1> HIDE DEF y
  <1> QED
    BY <1>6, <1>7 DEF stage

-----------------------------------------------------------------------------
(* The steps of a call                                                      *)

LEMMA ReplayType ==
    ASSUME IngestionOK, TypeOK, NEW c \in Calls, NEW r \in Row, Replayed(c, r)
    PROVE  /\ call' \in [Calls -> Call] /\ Others(c)
           /\ \/ call'[c].stage = "idle"
              \/ /\ call'[c].stage = "answered" /\ Same(c)
                 /\ r.stored /\ r.items = call[c].items /\ call'[c].outcomes = r.outcomes
  <1>1. CASE Done(c)
    BY <1>1, DoneType
  <1>2. CASE r.stored /\ r.items = call[c].items /\ Answer(c, r.outcomes)
    <2>1. "answered" \in Stages /\ r.outcomes \in Seq(Outcomes)
      BY DEF Stages, Row
    <2>2. Plan(c, "answered", r.outcomes)
      BY <1>2 DEF Answer, Plan
    <2> QED
      BY <1>2, <2>1, <2>2, PlanType
  <1> QED
    BY <1>1, <1>2 DEF Replayed

LEMMA RowType ==
    ASSUME TypeOK, NEW kind \in {"batch", "sync", "feedback"}, NEW key \in Keys
    PROVE  row[kind][key] \in Row
  BY DEF TypeOK

(* How a call comes to an answer.                                           *)
Answers(c) ==
    \/ call[c].kind = "event"
    \/ call[c].key = None \/ call[c].kind = "product"
    \/ /\ call[c].kind \in {"batch", "sync", "feedback"}
       /\ row[call[c].kind][call[c].key] =
            [stored |-> TRUE, items |-> call[c].items, outcomes |-> call'[c].outcomes]
       /\ UNCHANGED row
    \/ Commit(c) /\ Rows(c) /\ call'[c].outcomes = call[c].outcomes

(* A call is over, begins, waits, reads, plans, is checked, stamps, writes  *)
(* or is answered.                                                          *)
Moves(c) ==
    \/ call'[c].stage = "idle"
    \/ /\ call[c].stage = "idle" /\ call'[c].stage = "waiting" /\ Submitted(call'[c])
    \/ /\ call[c].stage = "idle" /\ call'[c].stage = "reading" /\ Submitted(call'[c])
       /\ call'[c].kind = "feedback"
    \/ /\ call[c].stage = "waiting" /\ call'[c].stage = "reading" /\ Same(c) /\ Lock(c)
       /\ call'[c].now = month
    \/ /\ call[c].stage = "reading" /\ call'[c].stage = "checking" /\ Same(c)
       /\ call'[c].now = call[c].now /\ Sound(call'[c])
    \/ /\ call[c].stage = "checking" /\ call'[c].stage = "stamping" /\ Same(c) /\ Check(c)
       /\ call'[c].now = call[c].now /\ call'[c].outcomes = call[c].outcomes
       /\ Goto(c, "stamping")
    \/ /\ call[c].stage = "stamping" /\ call'[c].stage = "writing" /\ Same(c)
       /\ call'[c].now = (IF call[c].kind = "event" THEN call[c].now ELSE month)
       /\ call'[c].outcomes = call[c].outcomes
    \/ /\ call[c].stage = "checking" /\ call'[c].stage = "writing" /\ Same(c)
       /\ call[c].kind = "feedback"
       /\ call'[c].now = call[c].now /\ call'[c].outcomes = call[c].outcomes
    \/ /\ call[c].stage # "idle" /\ call'[c].stage = "answered" /\ Same(c) /\ Answers(c)

Typed(c) == call' \in [Calls -> Call] /\ Others(c) /\ Moves(c)

LEMMA SubmitMoves ==
    ASSUME IngestionOK, TypeOK, NEW c \in Calls, NEW s \in Submissions, Submit(c, s)
    PROVE  Typed(c)
  <1>1. /\ call' \in [Calls -> Call] /\ Others(c)
        /\ call'[c].stage = IF s.kind = "feedback" THEN "reading" ELSE "waiting"
        /\ call'[c].kind = s.kind /\ call'[c].key = s.key /\ call'[c].items = s.items
    BY SubmitType
  <1>2. /\ s.kind = "feedback" => s.key \in Keys
        /\ s.kind \in {"event", "batch"} => \A i \in DOMAIN s.items : s.items[i].event \in Events
        /\ s.kind \in {"sync", "product"} => \A i \in DOMAIN s.items : s.items[i].product \in Products
        /\ s.kind \in {"event", "product", "feedback"} => Len(s.items) = 1
    BY DEF IngestionOK
  <1>3. Submitted(call'[c])
    BY <1>1, <1>2 DEF Submitted, EventKinds, ProductKinds
  <1>4. call[c].stage = "idle"
    BY DEF Submit
  <1> QED
    BY <1>1, <1>3, <1>4 DEF Typed, Moves

LEMMA ReadMoves ==
    ASSUME IngestionOK, TypeOK, NEW c \in Calls, Submitted(call[c]),
           ReadEvent(c) \/ ReadBatch(c) \/ ReadSync(c) \/ ReadProduct(c) \/ ReadFeedback(c)
    PROVE  Typed(c)
  <1>0. /\ call[c] \in Call /\ call[c].items \in Seq(Item)
        /\ "checking" \in Stages /\ "answered" \in Stages
        /\ UNCHANGED row
        /\ call[c].stage = "reading"
    BY DEF TypeOK, Call, Stages, ReadEvent, ReadBatch, ReadSync, ReadProduct, ReadFeedback
  <1>1. CASE Done(c)
    BY <1>1, DoneType DEF Typed, Moves
  <1>2. ASSUME NEW kind \in {"batch", "sync", "feedback"}, call[c].kind = kind,
               IsReplay(c), Replayed(c, row[kind][call[c].key])
        PROVE  Typed(c)
    <2> DEFINE r == row[kind][call[c].key]
    <2>1. call[c].key \in Keys
      BY <1>0, <1>2 DEF IsReplay, Call
    <2>2. r \in Row
      BY <2>1, RowType
    <2>3. Replayed(c, r)
      BY <1>2
    <2>4. /\ call' \in [Calls -> Call] /\ Others(c)
          /\ \/ call'[c].stage = "idle"
             \/ /\ call'[c].stage = "answered" /\ Same(c)
                /\ r.stored /\ r.items = call[c].items /\ call'[c].outcomes = r.outcomes
      <3> HIDE DEF r
      <3> QED
        BY <2>2, <2>3, ReplayType
    <2>5. r.stored /\ r.items = call[c].items /\ call'[c].outcomes = r.outcomes
            => r = [stored |-> TRUE, items |-> call[c].items, outcomes |-> call'[c].outcomes]
      <3> HIDE DEF r
      <3> QED
        BY <2>2 DEF Row
    <2> QED
      BY <1>0, <1>2, <2>4, <2>5 DEF Typed, Moves, Answers
  <1>3. ASSUME NEW o \in Seq(Outcomes), Plan(c, "checking", o),
               call[c].kind \notin EventKinds => \A i \in DOMAIN call[c].items : o[i] # "accepted",
               call[c].kind \notin ProductKinds => \A i \in DOMAIN call[c].items : o[i] # "created",
               \A i, j \in DOMAIN call[c].items :
                 o[i] = "accepted" /\ o[j] = "accepted"
                 /\ call[c].items[i].event = call[c].items[j].event => i = j
        PROVE  Typed(c)
    <2>1. /\ call' \in [Calls -> Call] /\ Others(c) /\ Same(c)
          /\ call'[c].stage = "checking"
          /\ call'[c].outcomes = o
          /\ call'[c].now = call[c].now
      BY <1>0, <1>3, PlanType
    <2>2. Sound(call'[c])
      BY <1>3, <2>1 DEF Sound, Accepted, Same
    <2> QED
      BY <1>0, <2>1, <2>2 DEF Typed, Moves
  <1>4. CASE ReadEvent(c)
    <2>1. call[c].kind = "event" /\ Len(call[c].items) = 1
      BY <1>0, <1>4 DEF ReadEvent, Submitted
    <2>2. DOMAIN call[c].items = {1}
      BY <1>0, <2>1, LenProperties
    <2>3. <<"accepted">> \in Seq(Outcomes) /\ <<"duplicate">> \in Seq(Outcomes)
      BY OnePlan DEF Outcomes
    <2>4. CASE Answer(c, <<"duplicate">>)
      <3>1. Plan(c, "answered", <<"duplicate">>)
        BY <2>4 DEF Answer, Plan
      <3> QED
        BY <1>0, <2>1, <2>3, <3>1, PlanType DEF Typed, Moves, Answers
    <2>5. CASE Plan(c, "checking", <<"accepted">>)
      <3> DEFINE o == <<"accepted">>
      <3>1. o[1] = "accepted" /\ o \in Seq(Outcomes) /\ Plan(c, "checking", o)
        BY <2>3, <2>5
      <3> HIDE DEF o
      <3> QED
        BY <1>3, <2>1, <2>2, <3>1 DEF EventKinds, ProductKinds
    <2> QED
      BY <1>1, <1>4, <2>4, <2>5 DEF ReadEvent
  <1>5. CASE ReadBatch(c)
    <2>1. CASE IsReplay(c) /\ Replayed(c, row["batch"][call[c].key])
      BY <1>2, <1>5, <2>1 DEF ReadBatch
    <2>2. CASE Plan(c, "checking", BatchOutcomes(call[c].items))
      BY <1>0, <1>3, <1>5, <2>2, BatchPlan DEF ReadBatch, EventKinds, ProductKinds
    <2> QED
      BY <1>5, <2>1, <2>2 DEF ReadBatch
  <1>6. CASE ReadSync(c)
    <2>1. CASE IsReplay(c) /\ Replayed(c, row["sync"][call[c].key])
      BY <1>2, <1>6, <2>1 DEF ReadSync
    <2>2. CASE Plan(c, "checking", SyncOutcomes(call[c].items))
      BY <1>0, <1>3, <1>6, <2>2, SyncPlan DEF ReadSync, EventKinds, ProductKinds
    <2> QED
      BY <1>6, <2>1, <2>2 DEF ReadSync
  <1>7. CASE ReadProduct(c)
    BY <1>0, <1>3, <1>7, SyncPlan DEF ReadProduct, EventKinds, ProductKinds
  <1>8. CASE ReadFeedback(c)
    <2>1. CASE IsReplay(c) /\ Replayed(c, row["feedback"][call[c].key])
      BY <1>2, <1>8, <2>1 DEF ReadFeedback
    <2>2. CASE Plan(c, "checking", <<"received">>)
      <3> DEFINE o == <<"received">>
      <3>1. /\ o \in Seq(Outcomes) /\ Plan(c, "checking", o)
            /\ \A i \in DOMAIN call[c].items : o[i] \notin {"accepted", "created"}
        <4>1. o \in Seq(Outcomes)
          BY OnePlan DEF Outcomes
        <4>2. Len(call[c].items) = 1
          BY <1>0, <1>8 DEF ReadFeedback, Submitted
        <4>3. DOMAIN call[c].items = {1}
          BY <1>0, <4>2, LenProperties
        <4> QED
          BY <2>2, <4>1, <4>3
      <3> HIDE DEF o
      <3> QED
        BY <1>3, <3>1
    <2> QED
      BY <1>1, <1>8, <2>1, <2>2 DEF ReadFeedback
  <1> QED
    BY <1>4, <1>5, <1>6, <1>7, <1>8

LEMMA HandleMoves ==
    ASSUME IngestionOK, TypeOK, NEW c \in Calls, Submitted(call[c]), Handle(c)
    PROVE  Typed(c)
  <1>0. /\ call[c] \in Call /\ month \in Months
        /\ {"reading", "stamping", "writing", "answered"} \subseteq Stages
    BY DEF TypeOK, Stages
  <1>1. CASE \E s \in Submissions : Submit(c, s)
    BY <1>1, SubmitMoves
  <1>2. CASE Lock(c)
    <2> DEFINE stage == "reading"
    <2>1. stage \in Stages /\ call[c].stage = "waiting"
      BY <1>0, <1>2 DEF Lock
    <2>2. call' = [call EXCEPT ![c].stage = stage, ![c].now = month]
      BY <1>2 DEF Lock
    <2> HIDE DEF stage
    <2>3. /\ call' \in [Calls -> Call] /\ Others(c) /\ Same(c)
          /\ call'[c].stage = stage /\ call'[c].now = month
      BY <1>0, <2>1, <2>2, TimeType, ZenonT(60)
    <2> QED
      BY <1>2, <2>1, <2>3 DEF Typed, Moves, stage
  <1>3. CASE ReadEvent(c) \/ ReadBatch(c) \/ ReadSync(c) \/ ReadProduct(c) \/ ReadFeedback(c)
    BY <1>3, ReadMoves
  <1>4. CASE Check(c)
    <2>1. CASE Done(c)
      BY <2>1, DoneType DEF Typed, Moves
    <2>2. CASE Goto(c, "stamping")
      <3>1. call[c].stage = "checking"
        BY <1>4 DEF Check
      <3> QED
        BY <1>0, <1>4, <2>2, <3>1, GotoType DEF Typed, Moves
    <2> QED
      BY <1>4, <2>1, <2>2 DEF Check
  <1>5. CASE Stamp(c)
    <2> DEFINE stage == "writing"
               now == IF call[c].kind = "event" THEN call[c].now ELSE month
    <2>1. stage \in Stages /\ now \in Months /\ call[c].stage = "stamping"
      BY <1>0, <1>5 DEF Call, Stamp
    <2>2. call' = [call EXCEPT ![c].stage = stage, ![c].now = now]
      BY <1>5 DEF Stamp
    <2> HIDE DEF stage, now
    <2>3. /\ call' \in [Calls -> Call] /\ Others(c) /\ Same(c)
          /\ call'[c].stage = stage
          /\ call'[c].outcomes = call[c].outcomes
          /\ call'[c].now = now
      BY <2>1, <2>2, TimeType, ZenonT(60)
    <2> QED
      BY <2>1, <2>3 DEF Typed, Moves, stage, now
  <1>6. CASE InsertFeedback(c)
    <2>1. call[c].kind = "feedback" /\ call[c].stage = "checking" /\ UNCHANGED row
      BY <1>6 DEF InsertFeedback
    <2>2. CASE Goto(c, "writing")
      BY <1>0, <2>1, <2>2, GotoType DEF Typed, Moves
    <2>3. CASE Replayed(c, row["feedback"][call[c].key])
      <3> DEFINE r == row["feedback"][call[c].key]
      <3>1. r \in Row
        BY <2>1, RowType DEF Submitted
      <3>2. Replayed(c, r)
        BY <2>3
      <3>3. /\ call' \in [Calls -> Call] /\ Others(c)
            /\ \/ call'[c].stage = "idle"
               \/ /\ call'[c].stage = "answered" /\ Same(c)
                  /\ r.stored /\ r.items = call[c].items /\ call'[c].outcomes = r.outcomes
        <4> HIDE DEF r
        <4> QED
          BY <3>1, <3>2, ReplayType
      <3>4. r.stored /\ r.items = call[c].items /\ call'[c].outcomes = r.outcomes
              => r = [stored |-> TRUE, items |-> call[c].items, outcomes |-> call'[c].outcomes]
        <4> HIDE DEF r
        <4> QED
          BY <3>1 DEF Row
      <3> QED
        BY <2>1, <3>3, <3>4 DEF Typed, Moves, Answers
    <2> QED
      BY <1>6, <2>2, <2>3 DEF InsertFeedback
  <1>7. CASE Commit(c)
    <2>1. CASE Done(c)
      BY <2>1, DoneType DEF Typed, Moves
    <2>2. CASE Rows(c) /\ Goto(c, "answered")
      <3>1. call[c].stage = "writing"
        BY <1>7 DEF Commit
      <3> QED
        BY <1>0, <1>7, <2>2, <3>1, GotoType DEF Typed, Moves, Answers
    <2> QED
      BY <1>7, <2>1, <2>2 DEF Commit
  <1>8. CASE Leave(c)
    BY <1>8, DoneType DEF Leave, Typed, Moves
  <1> QED
    BY <1>1, <1>2, <1>3, <1>4, <1>5, <1>6, <1>7, <1>8 DEF Handle

(* Only the last transaction of a call changes what is stored.              *)
LEMMA DataMoves ==
    ASSUME NEW c \in Calls, Handle(c)
    PROVE  /\ month' = month
           /\ \/ UNCHANGED <<products, events, customers, ledger, row>>
              \/ Rows(c) /\ call[c].stage = "writing"
  BY DEF Handle, Submit, Lock, ReadEvent, ReadBatch, ReadSync, ReadProduct, ReadFeedback, Check,
         Stamp, InsertFeedback, Commit, Leave

LEMMA CallsSoundStep ==
    ASSUME IngestionOK, TypeOK, CallsSound, [Next]_vars
    PROVE  CallsSound'
  <1>1. CASE call' = call
    BY <1>1 DEF CallsSound
  <1>2. ASSUME NEW c \in Calls, Handle(c)
        PROVE  CallsSound'
    <2>1. Submitted(call[c]) /\ Sound(call[c])
      BY DEF CallsSound
    <2>2. Others(c) /\ Moves(c)
      BY <1>2, <2>1, HandleMoves DEF Typed
    <2>3. Submitted(call'[c])
      BY <2>1, <2>2 DEF Moves, Submitted, Same
    <2>4. Sound(call'[c])
      <3>1. CASE ~Planned(call'[c])
        BY <3>1 DEF Sound
      <3>2. CASE Sound(call'[c])
        BY <3>2
      <3>3. CASE Planned(call[c]) /\ Same(c) /\ call'[c].outcomes = call[c].outcomes
        <4>1. /\ call'[c].items = call[c].items /\ call'[c].kind = call[c].kind
              /\ Accepted(call'[c]) = Accepted(call[c])
          BY <3>3 DEF Same, Accepted
        <4> QED
          BY <2>1, <3>3, <4>1 DEF Sound
      <3> QED
        BY <2>2, <3>1, <3>2, <3>3 DEF Moves, Planned
    <2>5. ASSUME NEW d \in Calls, d # c
          PROVE  Submitted(call'[d]) /\ Sound(call'[d])
      BY <2>2, <2>5 DEF Others, CallsSound
    <2> QED
      BY <2>3, <2>4, <2>5 DEF CallsSound
  <1> QED
    BY <1>1, <1>2 DEF Next, MonthTurns, vars

LEMMA StampedStep ==
    ASSUME IngestionOK, TypeOK, CallsSound, Stamped, [Next]_vars
    PROVE  Stamped'
  <1>0. month \in Int /\ \A c \in Calls : call[c].now \in Int
    BY DEF TypeOK, Call, Months
  <1>1. CASE call' = call /\ month' \in Int /\ month' >= month
    BY <1>0, <1>1 DEF Stamped
  <1>2. ASSUME NEW c \in Calls, Handle(c)
        PROVE  Stamped'
    <2>1. Submitted(call[c])
      BY DEF CallsSound
    <2>2. Others(c) /\ Moves(c) /\ month' = month
      BY <1>2, <2>1, HandleMoves, DataMoves DEF Typed
    <2>3. call'[c].kind = "batch" /\ call'[c].stage = "writing" => call'[c].now <= month
      BY <1>0, <2>2 DEF Moves, Same
    <2>4. call'[c].kind = "event" /\ call'[c].stage \in InProgress => call'[c].now <= month
      BY <1>0, <2>2 DEF Moves, Same, Stamped, InProgress
    <2> QED
      BY <2>2, <2>3, <2>4 DEF Others, Stamped
  <1> QED
    BY <1>0, <1>1, <1>2 DEF Next, MonthTurns, vars

-----------------------------------------------------------------------------
(* What a transaction writes                                                *)

LEMMA ItemsFinite ==
    ASSUME TypeOK, NEW c \in Calls, NEW o
    PROVE  /\ IsFiniteSet(With(c, o))
           /\ Cardinality(With(c, o)) \in Nat
           /\ With(c, o) \subseteq DOMAIN call[c].items
  <1>1. call[c].items \in Seq(Item)
    BY DEF TypeOK, Call
  <1>2. Len(call[c].items) \in Nat /\ DOMAIN call[c].items = 1 .. Len(call[c].items)
    BY <1>1, LenProperties
  <1>3. IsFiniteSet(1 .. Len(call[c].items))
    BY <1>2, FS_Interval
  <1>4. With(c, o) \subseteq DOMAIN call[c].items
    BY DEF With
  <1>5. IsFiniteSet(With(c, o))
    BY <1>2, <1>3, <1>4, FS_Subset
  <1> QED
    BY <1>4, <1>5, FS_CardinalityType

(* An event is accepted in one place, so the quantity is their number.      *)
LEMMA ChargedIsNew ==
    ASSUME TypeOK, CallsSound, NEW c \in Calls, Planned(call[c])
    PROVE  /\ NewEvents(c) \subseteq Events
           /\ IsFiniteSet(NewEvents(c))
           /\ Charged(c) = Cardinality(NewEvents(c))
           /\ Charged(c) \in Nat
           /\ \A i, j \in With(c, "accepted") :
                call[c].items[i].event = call[c].items[j].event => i = j
  <1> DEFINE A == With(c, "accepted")
             N == NewEvents(c)
             f == [i \in A |-> call[c].items[i].event]
  <1>1. /\ Submitted(call[c]) /\ Sound(call[c])
        /\ A = Accepted(call[c])
    BY DEF CallsSound, Accepted, With
  <1>2. /\ call[c].kind \notin EventKinds => A = {}
        /\ \A i, j \in A : call[c].items[i].event = call[c].items[j].event => i = j
    BY <1>1 DEF Sound
  <1>3. IsFiniteSet(A) /\ Cardinality(A) \in Nat /\ A \subseteq DOMAIN call[c].items
    BY ItemsFinite
  <1>4. N \subseteq Events
    BY <1>1, <1>2, <1>3 DEF NewEvents, Submitted, Planned
  <1>5. f \in Bijection(A, N)
    <2>1. f \in [A -> N] /\ \A e \in N : \E i \in A : f[i] = e
      BY DEF NewEvents
    <2>2. \A i, j \in A : f[i] = f[j] => i = j
      BY <1>2
    <2> HIDE DEF f, A, N
    <2> QED
      BY <2>1, <2>2, Fun_IsBij
  <1>6. ExistsBijection(A, N)
    BY <1>5 DEF ExistsBijection
  <1>7. IsFiniteSet(N) /\ Cardinality(N) = Cardinality(A)
    BY <1>3, <1>6, FS_Bijection
  <1> QED
    BY <1>2, <1>3, <1>4, <1>7 DEF Charged

(* The rows of the events a transaction stores.                             *)
LEMMA EventsWritten ==
    ASSUME TypeOK, CallsSound, NEW c \in Calls, call[c].stage = "writing", Rows(c)
    PROVE  /\ events' \in [Events -> EventRow]
           /\ \A e \in NewEvents(c) : ~events[e].stored
           /\ \A e \in NewEvents(c) : events'[e].stored /\ events'[e].month = call[c].now
           /\ \A e \in Events \ NewEvents(c) : events'[e] = events[e]
           /\ \A i \in With(c, "accepted") :
                events'[call[c].items[i].event].user = call[c].items[i].user
  <1> DEFINE at(e) == CHOOSE i \in With(c, "accepted") : call[c].items[i].event = e
             r(e) == [stored |-> TRUE, month |-> call[c].now, user |-> call[c].items[at(e)].user]
  <1>1. /\ \A e \in NewEvents(c) : ~events[e].stored
        /\ events' = [e \in Events |-> IF e \in NewEvents(c) THEN r(e) ELSE events[e]]
    BY DEF Rows
  <1>2. /\ NewEvents(c) \subseteq Events
        /\ \A i, j \in With(c, "accepted") :
             call[c].items[i].event = call[c].items[j].event => i = j
    BY ChargedIsNew DEF Planned
  <1>3. \A i \in With(c, "accepted") :
          call[c].items[i].event \in NewEvents(c) /\ at(call[c].items[i].event) = i
    BY <1>2 DEF NewEvents
  <1>4. \A i \in With(c, "accepted") : call[c].items[i].user \in Users \cup {None}
    <2>1. call[c].items \in Seq(Item) /\ With(c, "accepted") \subseteq DOMAIN call[c].items
      BY ItemsFinite DEF TypeOK, Call
    <2>2. \A i \in DOMAIN call[c].items : call[c].items[i] \in Item
      BY <2>1, LenProperties, ElementOfSeq
    <2> QED
      BY <2>1, <2>2 DEF Item
  <1>5. \A e \in NewEvents(c) : \E i \in With(c, "accepted") : call[c].items[i].event = e
    BY DEF NewEvents
  <1>6. \A e \in NewEvents(c) : at(e) \in With(c, "accepted")
    BY <1>5
  <1>7. call[c].now \in Months /\ events \in [Events -> EventRow]
    BY DEF TypeOK, Call
  <1>8. \A e \in NewEvents(c) : /\ r(e) \in EventRow
                                /\ r(e).stored /\ r(e).month = call[c].now
                                /\ r(e).user = call[c].items[at(e)].user
    BY <1>4, <1>6, <1>7 DEF EventRow
  <1> HIDE DEF at, r
  <1>9. events' \in [Events -> EventRow]
    BY <1>1, <1>7, <1>8
  <1>10. \A e \in NewEvents(c) : events'[e] = r(e)
    BY <1>1, <1>2
  <1>11. \A e \in Events \ NewEvents(c) : events'[e] = events[e]
    BY <1>1
  <1>12. \A i \in With(c, "accepted") :
           events'[call[c].items[i].event].user = call[c].items[i].user
    BY <1>3, <1>8, <1>10
  <1> QED
    BY <1>1, <1>8, <1>9, <1>10, <1>11, <1>12

LEMMA TypeStep ==
    ASSUME IngestionOK, TypeOK, CallsSound, [Next]_vars
    PROVE  TypeOK'
  <1>1. CASE call' = call /\ UNCHANGED <<products, events, customers, ledger, row>>
             /\ month' \in Months
    BY <1>1 DEF TypeOK
  <1>2. ASSUME NEW c \in Calls, Handle(c)
        PROVE  TypeOK'
    <2>1. call' \in [Calls -> Call] /\ month' = month
      BY <1>2, HandleMoves, DataMoves DEF CallsSound, Typed
    <2>2. CASE UNCHANGED <<products, events, customers, ledger, row>>
      BY <2>1, <2>2 DEF TypeOK
    <2>3. CASE Rows(c) /\ call[c].stage = "writing"
      <3>0. /\ call[c] \in Call /\ call[c].items \in Seq(Item)
            /\ call[c].outcomes \in Seq(Outcomes)
        BY DEF TypeOK, Call
      <3>1. \A i \in DOMAIN call[c].items : call[c].items[i] \in Item
        BY <3>0, LenProperties, ElementOfSeq
      <3>2. events' \in [Events -> EventRow]
        BY <2>3, EventsWritten
      <3>3. customers' \in SUBSET Users
        <4>1. Shoppers(c) \subseteq Users
          BY <3>1 DEF Shoppers, With, Item
        <4> QED
          BY <2>3, <4>1 DEF Rows, TypeOK
      <3>4. ledger' \in [Months -> Nat]
        <4>1. Charged(c) \in Nat
          BY ItemsFinite DEF Charged
        <4>2. ledger' = [ledger EXCEPT ![call[c].now] = @ + Charged(c)]
          BY <2>3 DEF Rows
        <4>3. ledger \in [Months -> Nat] /\ call[c].now \in Months
          BY <3>0 DEF TypeOK, Call
        <4> QED
          BY <4>1, <4>2, <4>3
      <3>5. products' \in SUBSET Products
        <4>1. NewProducts(c) \subseteq Products
          <5>1. /\ call[c].kind \notin ProductKinds =>
                     \A i \in DOMAIN call[c].items : call[c].outcomes[i] # "created"
                /\ call[c].kind \in ProductKinds =>
                     \A i \in DOMAIN call[c].items : call[c].items[i].product \in Products
            BY <2>3 DEF CallsSound, Sound, Planned, Submitted
          <5> QED
            BY <5>1 DEF NewProducts, With
        <4> QED
          BY <2>3, <4>1 DEF Rows, TypeOK
      <3>6. row' \in [{"batch", "sync", "feedback"} -> [Keys -> Row]]
        <4>1. CASE UNCHANGED row
          BY <4>1 DEF TypeOK
        <4>2. CASE /\ call[c].key # None /\ call[c].kind \in {"batch", "sync", "feedback"}
                   /\ row' = [row EXCEPT ![call[c].kind][call[c].key] =
                        [stored |-> TRUE, items |-> call[c].items, outcomes |-> call[c].outcomes]]
          <5> DEFINE y == [stored |-> TRUE, items |-> call[c].items, outcomes |-> call[c].outcomes]
          <5>1. y \in Row
            BY <3>0 DEF Row
          <5>2. row' = [row EXCEPT ![call[c].kind][call[c].key] = y]
            BY <4>2
          <5>3. call[c].key \in Keys
            BY <3>0, <4>2 DEF Call
          <5> HIDE DEF y
          <5> QED
            BY <4>2, <5>1, <5>2, <5>3 DEF TypeOK
        <4> QED
          BY <2>3, <4>1, <4>2 DEF Rows, Recorded
      <3> QED
        BY <2>1, <3>2, <3>3, <3>4, <3>5, <3>6 DEF TypeOK
    <2> QED
      BY <1>2, <2>2, <2>3, DataMoves
  <1>3. CASE MonthTurns
    <2>1. month' \in Months
      BY <1>3 DEF MonthTurns, TypeOK, Months, IngestionOK
    <2> QED
      BY <1>1, <1>3, <2>1 DEF MonthTurns
  <1>4. CASE UNCHANGED vars
    BY <1>1, <1>4 DEF vars, TypeOK
  <1> QED
    BY <1>2, <1>3, <1>4 DEF Next

-----------------------------------------------------------------------------
(* Metering and customers                                                   *)

Metered(m) == {e \in Events : events[e].stored /\ events[e].month = m}

LEMMA CountedStep ==
    ASSUME IngestionOK, TypeOK, CallsSound, CountedOnce, [Next]_vars
    PROVE  CountedOnce'
  <1>1. CASE UNCHANGED <<events, ledger>>
    BY <1>1 DEF CountedOnce
  <1>2. ASSUME NEW c \in Calls, Rows(c), call[c].stage = "writing"
        PROVE  CountedOnce'
    <2> DEFINE N == NewEvents(c)
               n == call[c].now
    <2>1. /\ N \subseteq Events /\ IsFiniteSet(N)
          /\ Charged(c) = Cardinality(N) /\ Cardinality(N) \in Nat
      BY <1>2, ChargedIsNew DEF Planned
    <2>2. /\ \A e \in N : ~events[e].stored
          /\ \A e \in N : events'[e].stored /\ events'[e].month = n
          /\ \A e \in Events \ N : events'[e] = events[e]
      BY <1>2, EventsWritten
    <2>3. /\ ledger \in [Months -> Nat] /\ n \in Months
          /\ ledger' = [ledger EXCEPT ![n] = @ + Charged(c)]
      BY <1>2 DEF Rows, TypeOK, Call
    <2> SUFFICES ASSUME NEW m \in Months
                 PROVE  ledger'[m] = Cardinality(Metered(m)')
      BY DEF CountedOnce, Metered
    <2>4. ledger[m] = Cardinality(Metered(m))
      BY DEF CountedOnce, Metered
    <2>5. CASE m # n
      <3>1. Metered(m)' = Metered(m)
        <4> HIDE DEF N, n
        <4> QED
          BY <2>1, <2>2, <2>5 DEF Metered
      <3>2. ledger'[m] = ledger[m]
        BY <2>3, <2>5
      <3> QED
        BY <2>4, <3>1, <3>2
    <2>6. CASE m = n
      <3>1. Metered(m)' = Metered(m) \cup N
        <4> HIDE DEF N, n
        <4> QED
          BY <2>1, <2>2, <2>6 DEF Metered
      <3>2. Metered(m) \cap N = {}
        BY <2>2 DEF Metered
      <3>3. IsFiniteSet(Metered(m)) /\ Cardinality(Metered(m)) \in Nat
        <4>1. Metered(m) \subseteq Events
          BY DEF Metered
        <4>2. IsFiniteSet(Metered(m))
          BY <4>1, FS_Subset DEF IngestionOK
        <4> QED
          BY <4>2, FS_CardinalityType
      <3>4. Cardinality(Metered(m) \cup N) =
              Cardinality(Metered(m)) + Cardinality(N) - Cardinality(Metered(m) \cap N)
        BY <2>1, <3>3, FS_Union
      <3>5. Cardinality(Metered(m) \cap N) = 0
        BY <3>2, FS_EmptySet
      <3>6. ledger'[m] = ledger[m] + Charged(c)
        BY <2>3, <2>6
      <3> QED
        BY <2>1, <2>4, <3>1, <3>3, <3>4, <3>5, <3>6
    <2> QED
      BY <2>5, <2>6
  <1> QED
    BY <1>1, <1>2, DataMoves DEF Next, MonthTurns, vars

LEMMA CustomersStep ==
    ASSUME IngestionOK, TypeOK, CallsSound, CustomersInteracted, [Next]_vars
    PROVE  CustomersInteracted'
  <1>1. CASE UNCHANGED <<events, customers>>
    BY <1>1 DEF CustomersInteracted
  <1>2. ASSUME NEW c \in Calls, Rows(c), call[c].stage = "writing"
        PROVE  CustomersInteracted'
    <2> DEFINE N == NewEvents(c)
               A == With(c, "accepted")
    <2>1. N \subseteq Events /\ N = {call[c].items[i].event : i \in A}
      BY <1>2, ChargedIsNew DEF Planned, NewEvents
    <2>2. /\ \A e \in N : ~events[e].stored
          /\ \A e \in N : events'[e].stored
          /\ \A e \in Events \ N : events'[e] = events[e]
          /\ \A i \in A : events'[call[c].items[i].event].user = call[c].items[i].user
      BY <1>2, EventsWritten
    <2>3. customers' = customers \cup ({call[c].items[i].user : i \in A} \ {None})
      BY <1>2 DEF Rows, Shoppers
    <2>4. customers = {events[e].user : e \in {f \in Events : events[f].stored}} \ {None}
      BY DEF CustomersInteracted
    <2>5. {events'[e].user : e \in {f \in Events : events'[f].stored}}
            = {events[e].user : e \in {f \in Events : events[f].stored}}
              \cup {call[c].items[i].user : i \in A}
      <3> HIDE DEF N, A
      <3>1. {f \in Events : events'[f].stored} = {f \in Events : events[f].stored} \cup N
        BY <2>1, <2>2
      <3>2. \A f \in Events : events[f].stored => events'[f].user = events[f].user
        BY <2>2
      <3>3. {events'[e].user : e \in N} = {call[c].items[i].user : i \in A}
        BY <2>1, <2>2
      <3> QED
        BY <3>1, <3>2, <3>3
    <2> HIDE DEF N, A
    <2> QED
      BY <2>3, <2>4, <2>5 DEF CustomersInteracted
  <1> QED
    BY <1>1, <1>2, DataMoves DEF Next, MonthTurns, vars

-----------------------------------------------------------------------------
(* Answers under a key                                                      *)

LEMMA ReplaysStep ==
    ASSUME IngestionOK, TypeOK, CallsSound, ReplaysAgree, [Next]_vars
    PROVE  ReplaysAgree'
  <1> DEFINE Agrees(x, r) ==
               x.stage = "answered" /\ x.key # None /\ x.kind \in {"batch", "sync", "feedback"} =>
                 r[x.kind][x.key] = [stored |-> TRUE, items |-> x.items, outcomes |-> x.outcomes]
  <1>0. \A c \in Calls : Agrees(call[c], row)
    BY DEF ReplaysAgree
  <1>1. CASE UNCHANGED <<call, row>>
    BY <1>1 DEF ReplaysAgree
  <1>2. ASSUME NEW c \in Calls, Handle(c)
        PROVE  ReplaysAgree'
    <2>0. Others(c) /\ Moves(c)
      BY <1>2, HandleMoves DEF CallsSound, Typed
    <2>1. CASE UNCHANGED row
      <3>1. Agrees(call'[c], row)
        <4> SUFFICES ASSUME call'[c].stage = "answered", call'[c].key # None,
                            call'[c].kind \in {"batch", "sync", "feedback"}
                     PROVE  row[call'[c].kind][call'[c].key] =
                              [stored |-> TRUE, items |-> call'[c].items,
                               outcomes |-> call'[c].outcomes]
          OBVIOUS
        <4>1. Same(c) /\ Answers(c)
          BY <2>0 DEF Moves
        <4>2. CASE row[call[c].kind][call[c].key] =
                     [stored |-> TRUE, items |-> call[c].items, outcomes |-> call'[c].outcomes]
          BY <4>1, <4>2 DEF Same
        <4>3. CASE Rows(c) /\ call'[c].outcomes = call[c].outcomes
          <5> DEFINE y == [stored |-> TRUE, items |-> call[c].items, outcomes |-> call[c].outcomes]
          <5>1. row' = [row EXCEPT ![call[c].kind][call[c].key] = y]
            BY <4>1, <4>3 DEF Rows, Recorded, Same
          <5>2. call[c].key \in Keys /\ call[c].kind \in {"batch", "sync", "feedback"}
            BY <4>1 DEF Same, TypeOK, Call
          <5>3. row \in [{"batch", "sync", "feedback"} -> [Keys -> Row]]
            BY DEF TypeOK
          <5>4. row'[call[c].kind][call[c].key] = y
            <6> HIDE DEF y
            <6> QED
              BY <5>1, <5>2, <5>3
          <5> QED
            BY <2>1, <4>1, <4>3, <5>4 DEF Same
        <4> QED
          BY <4>1, <4>2, <4>3 DEF Answers, Same
      <3>2. \A d \in Calls \ {c} : Agrees(call'[d], row)
        BY <1>0, <2>0 DEF Others
      <3> HIDE DEF Agrees
      <3>3. \A d \in Calls : Agrees(call'[d], row')
        BY <2>1, <3>1, <3>2
      <3> QED
        BY <3>3 DEF ReplaysAgree, Agrees
    <2>2. CASE Rows(c) /\ call[c].stage = "writing" /\ ~UNCHANGED row
      <3> DEFINE y == [stored |-> TRUE, items |-> call[c].items, outcomes |-> call[c].outcomes]
                 kind == call[c].kind
                 key == call[c].key
      <3>1. /\ key \in Keys /\ kind \in {"batch", "sync", "feedback"}
            /\ ~row[kind][key].stored
            /\ row' = [row EXCEPT ![kind][key] = y]
        BY <2>2 DEF Rows, Recorded, TypeOK, Call
      <3>2. row \in [{"batch", "sync", "feedback"} -> [Keys -> Row]]
        BY DEF TypeOK
      <3>3. row'[kind][key] = y
        <4> HIDE DEF y, kind, key
        <4> QED
          BY <3>1, <3>2
      <3>4. \A k \in {"batch", "sync", "feedback"}, q \in Keys :
              row[k][q].stored => row'[k][q] = row[k][q]
        <4> HIDE DEF y, kind, key
        <4> QED
          BY <3>1, <3>2
      <3>5. Agrees(call'[c], row')
        <4>1. call'[c].stage = "answered" => Same(c) /\ call'[c].outcomes = call[c].outcomes
          <5>1. call'[c].stage = "answered" => Same(c) /\ Answers(c)
            BY <2>0 DEF Moves
          <5>2. Commit(c)
            BY <1>2, <2>2
            DEF Handle, Submit, Lock, ReadEvent, ReadBatch, ReadSync, ReadProduct, ReadFeedback,
                Check, Stamp, InsertFeedback, Leave
          <5>3. Goto(c, "answered") \/ Done(c)
            BY <5>2 DEF Commit
          <5>4. "answered" \in Stages
            BY DEF Stages
          <5> QED
            BY <5>3, <5>4, GotoType, DoneType
        <4> QED
          BY <3>3, <4>1 DEF Same
      <3>6. ASSUME NEW d \in Calls, d # c
            PROVE  Agrees(call'[d], row')
        <4>1. call'[d] = call[d] /\ Agrees(call[d], row) /\ call[d] \in Call
          BY <1>0, <2>0, <3>6 DEF Others, TypeOK
        <4>2. call[d].key # None => call[d].key \in Keys
          BY <4>1 DEF Call
        <4> QED
          BY <3>4, <4>1, <4>2
      <3> HIDE DEF Agrees
      <3>7. \A d \in Calls : Agrees(call'[d], row')
        BY <3>5, <3>6
      <3> QED
        BY <3>7 DEF ReplaysAgree, Agrees
    <2> QED
      BY <1>2, <2>1, <2>2, DataMoves
  <1> QED
    BY <1>1, <1>2 DEF Next, MonthTurns, vars

-----------------------------------------------------------------------------
(* The monthly limit                                                        *)

(* One call at a time has the lock of accepted_events.                      *)
OneMeters ==
    \A c, d \in Calls :
        /\ call[c].kind \in EventKinds /\ call[c].stage \in InProgress
        /\ call[d].kind \in EventKinds /\ call[d].stage \in InProgress
        => c = d

(* The ledger of the current month is within the limit, and those of later  *)
(* ones are empty.                                                          *)
LedgerInv ==
    \A m \in Months :
        /\ m > month => ledger[m] = 0
        /\ m >= month => ledger[m] <= EventLimit

(* Room for what a call will meter.  A single event that is metered in a    *)
(* month that has gone is one, and that month was within the limit.         *)
Room(c) ==
    LET x == call[c]
        Fits(m) == Charged(c) = 0 \/ ledger[m] + Charged(c) <= EventLimit
    IN /\ x.kind = "event" /\ x.stage \in InProgress => ledger[x.now] <= EventLimit
       /\ x.kind = "event" /\ Planned(x) => Charged(c) <= 1
       /\ x.kind = "event" /\ x.stage \in {"stamping", "writing"} /\ x.now = month => Fits(month)
       /\ x.kind = "batch" /\ x.stage = "stamping" => Fits(month)
       /\ x.kind = "batch" /\ x.stage = "writing" => Fits(x.now)

LimitInv == LedgerInv /\ MonthlyLimitHolds /\ \A c \in Calls : Room(c)

LEMMA OneMetersStep ==
    ASSUME IngestionOK, TypeOK, CallsSound, OneMeters, [Next]_vars
    PROVE  OneMeters'
  <1>1. CASE call' = call
    BY <1>1 DEF OneMeters
  <1>2. ASSUME NEW c \in Calls, Handle(c)
        PROVE  OneMeters'
    <2>0. Others(c) /\ Moves(c)
      BY <1>2, HandleMoves DEF CallsSound, Typed
    <2>1. ASSUME call'[c].kind \in EventKinds, call'[c].stage \in InProgress,
                 NEW d \in Calls, d # c, call[d].kind \in EventKinds, call[d].stage \in InProgress
          PROVE  FALSE
      <3>1. CASE call[c].kind \in EventKinds /\ call[c].stage \in InProgress
        BY <2>1, <3>1 DEF OneMeters
      <3>2. CASE Lock(c) /\ Same(c)
        BY <2>1, <3>2 DEF Lock, Holds, Dimension, Same, EventKinds, InProgress
      <3> QED
        BY <2>0, <2>1, <3>1, <3>2 DEF Moves, Same, EventKinds, InProgress
    <2>2. \A d \in Calls \ {c} : call'[d] = call[d]
      BY <2>0 DEF Others
    <2> QED
      BY <2>1, <2>2 DEF OneMeters
  <1> QED
    BY <1>1, <1>2 DEF Next, MonthTurns, vars

LEMMA ChargedKept ==
    ASSUME NEW c \in Calls, call'[c].items = call[c].items, call'[c].outcomes = call[c].outcomes
    PROVE  Charged(c)' = Charged(c)
  BY DEF Charged, With

LEMMA ChargedTypes ==
    ASSUME IngestionOK, TypeOK, CallsSound, NEW c \in Calls
    PROVE  /\ Charged(c) \in Nat
           /\ Planned(call[c]) /\ call[c].kind = "event" => Charged(c) <= 1
           /\ Planned(call[c]) /\ call[c].kind \notin EventKinds => Charged(c) = 0
  <1> DEFINE A == With(c, "accepted")
  <1>1. Charged(c) \in Nat /\ Charged(c) = Cardinality(A) /\ IsFiniteSet(A)
    BY ItemsFinite DEF Charged
  <1>2. Submitted(call[c]) /\ Sound(call[c]) /\ A = Accepted(call[c])
    BY DEF CallsSound, Accepted, With
  <1>3. ASSUME Planned(call[c]), call[c].kind = "event"
        PROVE  Charged(c) <= 1
    <2>1. Len(call[c].items) = 1 /\ call[c].items \in Seq(Item)
      BY <1>2, <1>3 DEF Submitted, Planned, TypeOK, Call
    <2>2. DOMAIN call[c].items = {1}
      BY <2>1, LenProperties
    <2>3. A \subseteq {1}
      BY <2>2 DEF With
    <2>4. IsFiniteSet({1}) /\ Cardinality({1}) = 1
      BY FS_Singleton
    <2>5. Cardinality(A) <= Cardinality({1})
      BY <2>3, <2>4, FS_Subset
    <2> QED
      BY <1>1, <2>4, <2>5
  <1>4. ASSUME Planned(call[c]), call[c].kind \notin EventKinds
        PROVE  Charged(c) = 0
    <2>1. A = {}
      BY <1>2, <1>4 DEF Sound
    <2> QED
      BY <1>1, <2>1, FS_EmptySet
  <1> QED
    BY <1>1, <1>3, <1>4

(* A transaction that commits was checked, or meters one event late.        *)
LEMMA LedgerStep ==
    ASSUME IngestionOK, TypeOK, CallsSound, Stamped, LimitInv,
           NEW c \in Calls, call[c].stage = "writing", Rows(c), month' = month
    PROVE  /\ (LedgerInv /\ MonthlyLimitHolds)'
           /\ call[c].kind \notin EventKinds => ledger' = ledger
  <1> DEFINE n == call[c].now
             q == Charged(c)
  <1>1. /\ q \in Nat
        /\ call[c].kind = "event" => q <= 1
        /\ call[c].kind \notin EventKinds => q = 0
    BY ChargedTypes DEF Planned
  <1>2. /\ ledger \in [Months -> Nat] /\ n \in Months
        /\ ledger' = [ledger EXCEPT ![n] = @ + q]
        /\ month \in Months /\ EventLimit \in Nat /\ Months \subseteq Nat
    BY DEF Rows, TypeOK, Call, Months, IngestionOK
  <1>3. CASE q = 0
    <2>1. ledger' = ledger
      <3> HIDE DEF n, q
      <3>1. ledger[n] + q = ledger[n]
        BY <1>2, <1>3
      <3> QED
        BY <1>2, <3>1
    <2> QED
      BY <2>1 DEF LimitInv, LedgerInv, MonthlyLimitHolds
  <1>4. CASE q # 0
    <2>1. call[c].kind \in EventKinds
      BY <1>1, <1>4
    <2>2. n <= month
      BY <2>1 DEF Stamped, EventKinds, InProgress
    <2>3. Room(c)
      BY DEF LimitInv
    <2>4. n = month => ledger[n] + q <= EventLimit
      BY <1>4, <2>1, <2>3 DEF Room, EventKinds
    <2>5. ledger[n] + q <= EventLimit + 1
      <3>1. CASE call[c].kind = "batch"
        <4>1. ledger[n] + q <= EventLimit
          BY <1>4, <2>3, <3>1 DEF Room
        <4> HIDE DEF n, q
        <4>2. ledger[n] + q \in Nat
          BY <1>1, <1>2
        <4> QED
          BY <1>2, <4>1, <4>2
      <3>2. CASE call[c].kind = "event"
        <4>1. ledger[n] <= EventLimit /\ q <= 1
          BY <1>1, <2>3, <3>2 DEF Room, InProgress
        <4> QED
          BY <1>1, <1>2, <4>1
      <3> QED
        BY <2>1, <3>1, <3>2 DEF EventKinds
    <2> HIDE DEF n, q
    <2>6. ledger'[n] = ledger[n] + q /\ \A m \in Months \ {n} : ledger'[m] = ledger[m]
      BY <1>2
    <2>7. \A m \in Months : ledger'[m] <= EventLimit + 1
      BY <2>5, <2>6 DEF LimitInv, MonthlyLimitHolds
    <2>8. ASSUME NEW m \in Months
          PROVE  /\ m > month => ledger'[m] = 0
                 /\ m >= month => ledger'[m] <= EventLimit
      BY <1>2, <2>2, <2>4, <2>6 DEF LimitInv, LedgerInv
    <2> QED
      BY <2>1, <2>7, <2>8 DEF LedgerInv, MonthlyLimitHolds
  <1> QED
    BY <1>3, <1>4

LEMMA RoomStep ==
    ASSUME IngestionOK, TypeOK, CallsSound, Stamped, OneMeters, LimitInv,
           NEW c \in Calls, Handle(c), NEW d \in Calls
    PROVE  Room(d)'
  <1>0. /\ Others(c) /\ Moves(c) /\ month' = month
        /\ CallsSound' /\ TypeOK'
    BY HandleMoves, DataMoves, CallsSoundStep, TypeStep DEF CallsSound, Typed, Next
  <1>1. /\ ledger \in [Months -> Nat] /\ month \in Months /\ EventLimit \in Nat
        /\ \A a \in Calls : call[a].now \in Months /\ Charged(a) \in Nat /\ Room(a)
    BY ChargedTypes DEF TypeOK, Call, IngestionOK, LimitInv
  <1>2. ASSUME Planned(call'[d]), call'[d].kind = "event"
        PROVE  Charged(d)' <= 1
    <2>1. call'[d].items \in Seq(Item) /\ Len(call'[d].items) = 1
      BY <1>0, <1>2 DEF TypeOK, Call, CallsSound, Submitted, Planned
    <2>2. DOMAIN call'[d].items = 1 .. 1
      BY <2>1, LenProperties
    <2>3. With(d, "accepted")' \subseteq {1}
      BY <2>2 DEF With
    <2>4. IsFiniteSet({1}) /\ Cardinality({1}) = 1
      BY FS_Singleton
    <2> QED
      BY <2>3, <2>4, FS_Subset DEF Charged
  <1>3. CASE d # c
    <2>1. call'[d] = call[d]
      BY <1>0, <1>3 DEF Others
    <2>2. Charged(d)' = Charged(d)
      BY <2>1, ChargedKept
    <2>3. CASE ledger' = ledger
      BY <1>0, <1>1, <2>1, <2>2, <2>3 DEF Room
    <2>4. CASE call[d].kind \in EventKinds /\ call[d].stage \in InProgress /\ ledger' # ledger
      <3>1. Rows(c) /\ call[c].stage = "writing"
        BY <2>4, DataMoves
      <3>2. call[c].kind \in EventKinds
        BY <1>0, <2>4, <3>1, LedgerStep
      <3> QED
        BY <1>3, <2>4, <3>1, <3>2 DEF OneMeters, InProgress
    <2>5. CASE ~(call[d].kind \in EventKinds /\ call[d].stage \in InProgress)
      BY <2>1, <2>5 DEF Room, EventKinds, InProgress, Planned
    <2> QED
      BY <2>3, <2>4, <2>5
  <1>4. CASE d = c
    <2>1. CASE call'[c].stage \in {"idle", "waiting", "answered"}
      BY <1>4, <2>1 DEF Room, InProgress, Planned
    <2>2. CASE call[c].stage = "idle" /\ call'[c].stage = "reading" /\ call'[c].kind = "feedback"
      BY <1>4, <2>2 DEF Room
    <2>3. CASE call'[c].stage \in InProgress /\ Same(c)
               /\ call[c].stage \in {"waiting", "reading", "checking", "stamping"}
      <3>0. UNCHANGED ledger
        BY <2>3, DataMoves
      <3>1. CASE call[c].stage = "waiting" /\ call'[c].stage = "reading" /\ call'[c].now = month
        <4>1. ledger[month] <= EventLimit
          BY <1>1 DEF LimitInv, LedgerInv, Months
        <4> QED
          BY <1>0, <1>4, <3>0, <3>1, <4>1 DEF Room, Planned
      <3>2. CASE call[c].stage = "reading" /\ call'[c].stage = "checking"
                 /\ call'[c].now = call[c].now
        <4>1. call[c].kind = "event" => ledger[call[c].now] <= EventLimit
          BY <1>1, <3>2 DEF Room, InProgress
        <4> QED
          BY <1>2, <1>4, <2>3, <3>0, <3>2, <4>1 DEF Room, Same
      <3>3. CASE /\ call[c].stage = "checking" /\ call'[c].stage = "stamping" /\ Check(c)
                 /\ call'[c].now = call[c].now /\ call'[c].outcomes = call[c].outcomes
                 /\ Goto(c, "stamping")
        <4>1. call[c].kind = "event" => ledger[call[c].now] <= EventLimit
          BY <1>1, <3>3 DEF Room, InProgress
        <4>2. Charged(c)' = Charged(c)
          BY <2>3, <3>3, ChargedKept DEF Same
        <4>3. Charged(c) = Cardinality(NewEvents(c))
          BY <3>3, ChargedIsNew DEF Planned
        <4>4. Cardinality(NewEvents(c)) = 0 \/ ledger[month] + Cardinality(NewEvents(c)) <= EventLimit
          <5>1. ~Done(c)
            <6>1. Done(c) => call'[c].stage = "idle"
              BY DoneType
            <6> QED
              BY <3>3, <6>1
          <5> QED
            BY <3>3, <5>1 DEF Check
        <4>5. Charged(c) = 0 \/ ledger[month] + Charged(c) <= EventLimit
          BY <4>3, <4>4
        <4> QED
          BY <1>0, <1>2, <1>4, <2>3, <3>0, <3>3, <4>1, <4>2, <4>5 DEF Room, Same
      <3>4. CASE /\ call[c].stage = "stamping" /\ call'[c].stage = "writing"
                 /\ call'[c].now = (IF call[c].kind = "event" THEN call[c].now ELSE month)
                 /\ call'[c].outcomes = call[c].outcomes
        <4>1. call[c].kind = "event" => ledger[call[c].now] <= EventLimit
          BY <1>1, <3>4 DEF Room, InProgress
        <4>2. Charged(c)' = Charged(c)
          BY <2>3, <3>4, ChargedKept DEF Same
        <4>3. /\ call[c].kind = "event" /\ call[c].now = month =>
                   Charged(c) = 0 \/ ledger[month] + Charged(c) <= EventLimit
              /\ call[c].kind = "batch" =>
                   Charged(c) = 0 \/ ledger[month] + Charged(c) <= EventLimit
          BY <1>1, <3>4 DEF Room
        <4> QED
          BY <1>0, <1>2, <1>4, <2>3, <3>0, <3>4, <4>1, <4>2, <4>3 DEF Room, Same
      <3>5. CASE call[c].kind = "feedback"
        BY <1>4, <2>3, <3>5 DEF Room, Same
      <3> QED
        BY <1>0, <2>3, <3>1, <3>2, <3>3, <3>4, <3>5 DEF Moves, InProgress
    <2> QED
      BY <1>0, <2>1, <2>2, <2>3 DEF Moves, InProgress
  <1> QED
    BY <1>3, <1>4

LEMMA LimitStep ==
    ASSUME IngestionOK, TypeOK, CallsSound, Stamped, OneMeters, LimitInv, [Next]_vars
    PROVE  LimitInv'
  <1>1. CASE UNCHANGED vars
    BY <1>1 DEF vars, LimitInv, LedgerInv, MonthlyLimitHolds, Room, Charged, With
  <1>2. CASE MonthTurns
    <2>1. /\ month \in Nat /\ month' = month + 1
          /\ ledger \in [Months -> Nat] /\ ledger' = ledger /\ call' = call
          /\ EventLimit \in Nat /\ Months \subseteq Nat /\ month \in Months /\ month' \in Months
      BY <1>2 DEF MonthTurns, TypeOK, Months, IngestionOK
    <2>2. \A c \in Calls : Charged(c)' = Charged(c) /\ Charged(c) \in Nat
      BY <2>1, ChargedKept, ChargedTypes
    <2>3. (LedgerInv /\ MonthlyLimitHolds)'
      <3>1. ASSUME NEW m \in Months
            PROVE  /\ m > month' => m > month
                   /\ m >= month' => m >= month
        <4>1. m \in Nat
          BY <2>1
        <4> QED
          BY <2>1, <4>1
      <3>2. LedgerInv'
        BY <2>1, <3>1 DEF LimitInv, LedgerInv
      <3>3. MonthlyLimitHolds'
        BY <2>1 DEF LimitInv, MonthlyLimitHolds
      <3> QED
        BY <3>2, <3>3
    <2>4. ASSUME NEW c \in Calls
          PROVE  Room(c)'
      <3>1. Room(c)
        BY DEF LimitInv
      <3>2. call[c].kind = "event" /\ call[c].stage \in InProgress => call[c].now # month'
        <4>1. call[c].now \in Nat
          BY <2>1 DEF TypeOK, Call
        <4> QED
          BY <2>1, <4>1 DEF Stamped
      <3>3. ledger[month'] = 0
        BY <2>1 DEF LimitInv, LedgerInv
      <3>4. Charged(c) = 0 \/ ledger[month] + Charged(c) <= EventLimit
              => Charged(c) = 0 \/ ledger[month'] + Charged(c) <= EventLimit
        <4>1. ledger[month] \in Nat
          BY <2>1
        <4> QED
          BY <2>1, <2>2, <3>3, <4>1
      <3> QED
        BY <2>1, <2>2, <3>1, <3>2, <3>4 DEF Room, InProgress
    <2> QED
      BY <2>3, <2>4 DEF LimitInv
  <1>3. ASSUME NEW c \in Calls, Handle(c)
        PROVE  LimitInv'
    <2>1. \A d \in Calls : Room(d)'
      BY <1>3, RoomStep
    <2>2. CASE UNCHANGED ledger
      <3>1. (LedgerInv /\ MonthlyLimitHolds)'
        BY <1>3, <2>2, DataMoves DEF LimitInv, LedgerInv, MonthlyLimitHolds
      <3> QED
        BY <2>1, <3>1 DEF LimitInv
    <2>3. CASE Rows(c) /\ call[c].stage = "writing"
      <3>1. (LedgerInv /\ MonthlyLimitHolds)'
        BY <1>3, <2>3, DataMoves, LedgerStep
      <3> QED
        BY <2>1, <3>1 DEF LimitInv
    <2> QED
      BY <1>3, <2>2, <2>3, DataMoves
  <1> QED
    BY <1>1, <1>2, <1>3 DEF Next

-----------------------------------------------------------------------------
(* The catalogue                                                            *)

(* One call at a time has the lock of stored_products.                      *)
OneLists ==
    \A c, d \in Calls :
        /\ call[c].kind \in ProductKinds /\ call[c].stage \in InProgress
        /\ call[d].kind \in ProductKinds /\ call[d].stage \in InProgress
        => c = d

(* While it has the lock, what it calls created is not in the catalogue,    *)
(* and once it is checked there is room for it.                             *)
ListRoom(c) ==
    call[c].kind \in ProductKinds =>
        /\ Planned(call[c]) => NewProducts(c) \cap products = {}
        /\ call[c].stage \in {"stamping", "writing"} =>
             \/ NewProducts(c) = {}
             \/ Cardinality(products) + Cardinality(NewProducts(c)) <= ProductLimit

ListInv == OneLists /\ \A c \in Calls : ListRoom(c)

LEMMA OneListsStep ==
    ASSUME IngestionOK, TypeOK, CallsSound, OneLists, [Next]_vars
    PROVE  OneLists'
  <1>1. CASE call' = call
    BY <1>1 DEF OneLists
  <1>2. ASSUME NEW c \in Calls, Handle(c)
        PROVE  OneLists'
    <2>0. Others(c) /\ Moves(c)
      BY <1>2, HandleMoves DEF CallsSound, Typed
    <2>1. ASSUME call'[c].kind \in ProductKinds, call'[c].stage \in InProgress,
                 NEW d \in Calls, d # c, call[d].kind \in ProductKinds, call[d].stage \in InProgress
          PROVE  FALSE
      <3>1. CASE call[c].kind \in ProductKinds /\ call[c].stage \in InProgress
        BY <2>1, <3>1 DEF OneLists
      <3>2. CASE Lock(c) /\ Same(c)
        BY <2>1, <3>2 DEF Lock, Holds, Dimension, Same, ProductKinds, InProgress
      <3> QED
        BY <2>0, <2>1, <3>1, <3>2 DEF Moves, Same, ProductKinds, InProgress
    <2>2. \A d \in Calls \ {c} : call'[d] = call[d]
      BY <2>0 DEF Others
    <2> QED
      BY <2>1, <2>2 DEF OneLists
  <1> QED
    BY <1>1, <1>2 DEF Next, MonthTurns, vars

LEMMA NewProductsKept ==
    ASSUME NEW c \in Calls, call'[c].items = call[c].items, call'[c].outcomes = call[c].outcomes
    PROVE  NewProducts(c)' = NewProducts(c)
  BY DEF NewProducts, With

(* What is created are products, and only a sync or an update creates any.  *)
LEMMA NewProductsTypes ==
    ASSUME IngestionOK, TypeOK, CallsSound, NEW c \in Calls, Planned(call[c])
    PROVE  /\ NewProducts(c) \subseteq Products
           /\ IsFiniteSet(NewProducts(c)) /\ Cardinality(NewProducts(c)) \in Nat
           /\ Cardinality(NewProducts(c)) = 0 => NewProducts(c) = {}
           /\ call[c].kind \notin ProductKinds => NewProducts(c) = {}
  <1>1. Submitted(call[c]) /\ Sound(call[c]) /\ With(c, "created") \subseteq DOMAIN call[c].items
    BY ItemsFinite DEF CallsSound
  <1>2. call[c].kind \notin ProductKinds => NewProducts(c) = {}
    BY <1>1 DEF Sound, NewProducts, With
  <1>3. NewProducts(c) \subseteq Products
    BY <1>1, <1>2 DEF Submitted, NewProducts, Planned
  <1>4. IsFiniteSet(NewProducts(c))
    BY <1>3, FS_Subset DEF IngestionOK
  <1> QED
    BY <1>2, <1>3, <1>4, FS_CardinalityType, FS_EmptySet

(* A plan for products is made under the lock, from the catalogue.          *)
LEMMA CreatedAreNew ==
    ASSUME IngestionOK, TypeOK, NEW c \in Calls, Submitted(call[c]), Handle(c),
           call[c].stage = "reading", call'[c].stage = "checking", call[c].kind \in ProductKinds
    PROVE  NewProducts(c)' \cap products = {} /\ UNCHANGED products
  <1>1. Plan(c, "checking", SyncOutcomes(call[c].items)) /\ UNCHANGED products
    <2>1. ~Done(c)
      BY DoneType
    <2>2. ASSUME NEW r \in Row, Replayed(c, r)
          PROVE  FALSE
      BY <2>2, ReplayType
    <2>3. ReadSync(c) \/ ReadProduct(c)
      <3>1. ~Leave(c)
        BY <2>1 DEF Leave
      <3> QED
        BY <3>1 DEF Handle, Submit, Lock, ReadEvent, ReadBatch, ReadFeedback, Check, Stamp,
                    InsertFeedback, Commit, ProductKinds
    <2>4. ReadSync(c) /\ IsReplay(c) => row["sync"][call[c].key] \in Row
      <3>1. call[c].key \in Keys \cup {None}
        BY DEF TypeOK, Call
      <3> QED
        BY <3>1, RowType DEF IsReplay
    <2> QED
      BY <2>2, <2>3, <2>4 DEF ReadSync, ReadProduct
  <1>2. call[c].items \in Seq(Item) /\ "checking" \in Stages
    BY DEF TypeOK, Call, Stages
  <1> DEFINE o == SyncOutcomes(call[c].items)
  <1>3. o \in Seq(Outcomes)
    BY <1>2, SyncPlan
  <1>4. call'[c].items = call[c].items /\ call'[c].outcomes = o
    <2> HIDE DEF o
    <2>1. Plan(c, "checking", o)
      BY <1>1 DEF o
    <2> QED
      BY <1>2, <1>3, <2>1, PlanType DEF Same
  <1>5. \A i \in DOMAIN call[c].items : o[i] = "created" => call[c].items[i].product \notin products
    BY DEF SyncOutcomes
  <1> HIDE DEF o
  <1> QED
    BY <1>1, <1>4, <1>5 DEF NewProducts, With

LEMMA ListRoomStep ==
    ASSUME IngestionOK, TypeOK, CallsSound, ListInv, NEW c \in Calls, Handle(c), NEW d \in Calls
    PROVE  ListRoom(d)'
  <1>0. Others(c) /\ Moves(c) /\ Submitted(call[c])
    BY HandleMoves DEF CallsSound, Typed
  <1>1. CASE d # c
    <2>1. call'[d] = call[d] /\ NewProducts(d)' = NewProducts(d)
      BY <1>0, <1>1, NewProductsKept DEF Others
    <2>2. CASE products' = products
      BY <2>1, <2>2 DEF ListInv, ListRoom, Planned
    <2>3. CASE products' # products /\ call[d].kind \in ProductKinds /\ call[d].stage \in InProgress
      <3>1. Rows(c) /\ call[c].stage = "writing"
        BY <2>3, DataMoves
      <3>2. call[c].kind \in ProductKinds
        BY <2>3, <3>1, NewProductsTypes DEF Rows, Planned
      <3> QED
        BY <1>1, <2>3, <3>1, <3>2 DEF ListInv, OneLists, InProgress
    <2>4. CASE call[d].stage \notin InProgress
      BY <2>1, <2>4 DEF ListRoom, Planned, InProgress
    <2>5. CASE call[d].kind \notin ProductKinds
      BY <2>1, <2>5 DEF ListRoom
    <2> QED
      BY <2>2, <2>3, <2>4, <2>5
  <1>2. CASE d = c
    <2> SUFFICES ASSUME call'[c].kind \in ProductKinds, Planned(call'[c])
                 PROVE  ListRoom(c)'
      BY <1>2 DEF ListRoom, Planned
    <2>1. CASE call[c].stage = "reading" /\ call'[c].stage = "checking" /\ Same(c)
      <3>1. NewProducts(c)' \cap products' = {}
        BY <1>0, <2>1, CreatedAreNew DEF Same
      <3> QED
        BY <2>1, <3>1 DEF ListRoom
    <2>2. CASE /\ call[c].stage = "checking" /\ call'[c].stage = "stamping" /\ Same(c) /\ Check(c)
               /\ call'[c].outcomes = call[c].outcomes
      <3>1. NewProducts(c)' = NewProducts(c) /\ call[c].kind \in ProductKinds
        BY <2>2, NewProductsKept DEF Same
      <3>2. products' = products
        BY <2>2 DEF Check
      <3>3. ~Done(c)
        BY <2>2, DoneType
      <3>4. \/ Cardinality(NewProducts(c)) = 0
            \/ Cardinality(products) + Cardinality(NewProducts(c)) <= ProductLimit
        BY <2>2, <3>3 DEF Check
      <3>5. Cardinality(NewProducts(c)) = 0 => NewProducts(c) = {}
        BY <2>2, NewProductsTypes DEF Planned
      <3> QED
        BY <2>2, <3>1, <3>2, <3>4, <3>5 DEF ListInv, ListRoom, Planned
    <2>3. CASE /\ call[c].stage = "stamping" /\ call'[c].stage = "writing" /\ Same(c)
               /\ call'[c].outcomes = call[c].outcomes
      <3>1. NewProducts(c)' = NewProducts(c) /\ call[c].kind \in ProductKinds
        BY <2>3, NewProductsKept DEF Same
      <3>2. products' = products
        BY <2>3, DataMoves
      <3> QED
        BY <2>3, <3>1, <3>2 DEF ListInv, ListRoom, Planned
    <2> QED
      BY <1>0, <2>1, <2>2, <2>3 DEF Moves, Planned, Same, ProductKinds
  <1> QED
    BY <1>1, <1>2

LEMMA ListStep ==
    ASSUME IngestionOK, TypeOK, CallsSound, ListInv, [Next]_vars
    PROVE  ListInv'
  <1>1. OneLists'
    BY OneListsStep DEF ListInv
  <1>2. CASE UNCHANGED <<call, products>>
    BY <1>1, <1>2 DEF ListInv, ListRoom, NewProducts, With, Planned
  <1>3. ASSUME NEW c \in Calls, Handle(c)
        PROVE  ListInv'
    BY <1>1, <1>3, ListRoomStep DEF ListInv
  <1> QED
    BY <1>2, <1>3 DEF Next, MonthTurns, vars

-----------------------------------------------------------------------------
(* The invariant and the theorems                                           *)

IInv ==
    /\ TypeOK
    /\ CallsSound
    /\ Stamped
    /\ CountedOnce
    /\ CustomersInteracted
    /\ ReplaysAgree
    /\ OneMeters
    /\ LimitInv
    /\ ListInv

LEMMA Initially ==
    ASSUME IngestionOK, Init
    PROVE  IInv
  <1>1. /\ \A c \in Calls : call[c] = Idle
        /\ Idle \in Call /\ Idle.stage = "idle"
    BY IdleType DEF Init
  <1>2. /\ Months \subseteq Nat /\ 0 \in Months
        /\ month = 0 /\ ledger = [m \in Months |-> 0]
        /\ \A e \in Events : ~events[e].stored
    BY DEF Init, Months, IngestionOK
  <1>3. TypeOK
    <2>1. call \in [Calls -> Call]
      <3> HIDE DEF Idle
      <3> QED
        BY <1>1 DEF Init
    <2>2. events \in [Events -> EventRow]
      BY <1>2 DEF Init, EventRow
    <2>3. row \in [{"batch", "sync", "feedback"} -> [Keys -> Row]]
      <3>1. NoRow \in Row
        <4>1. <<>> \in Seq(Item) /\ <<>> \in Seq(Outcomes)
          OBVIOUS
        <4> QED
          BY <4>1 DEF NoRow, Row
      <3> HIDE DEF NoRow
      <3> QED
        BY <3>1 DEF Init
    <2>4. ledger \in [Months -> Nat]
      BY <1>2
    <2> QED
      BY <1>2, <2>1, <2>2, <2>3, <2>4 DEF TypeOK, Init
  <1>4. \A c \in Calls : call[c].stage = "idle"
    BY <1>1
  <1>5. CallsSound /\ Stamped /\ ReplaysAgree /\ OneMeters
    BY <1>4 DEF CallsSound, Submitted, Sound, Planned, Stamped, ReplaysAgree, OneMeters, InProgress
  <1>6. \A c \in Calls : Room(c)
    BY <1>4 DEF Room, InProgress, Planned
  <1>7. LedgerInv /\ MonthlyLimitHolds
    BY <1>2 DEF LedgerInv, MonthlyLimitHolds, IngestionOK
  <1>8. CountedOnce
    <2>1. \A m \in Months : {e \in Events : events[e].stored /\ events[e].month = m} = {}
      BY <1>2
    <2> QED
      BY <1>2, <2>1, FS_EmptySet DEF CountedOnce
  <1>9. CustomersInteracted
    <2>1. {f \in Events : events[f].stored} = {}
      BY <1>2
    <2> QED
      BY <2>1 DEF CustomersInteracted, Init
  <1>10. ListInv
    BY <1>4 DEF ListInv, OneLists, ListRoom, Planned, InProgress
  <1> QED
    BY <1>3, <1>5, <1>6, <1>7, <1>8, <1>9, <1>10 DEF IInv, LimitInv

LEMMA Inductive ==
    ASSUME IngestionOK, IInv, [Next]_vars
    PROVE  IInv'
  BY TypeStep, CallsSoundStep, StampedStep, CountedStep, CustomersStep, ReplaysStep,
     OneMetersStep, LimitStep, ListStep DEF IInv

LEMMA Invariance == Spec => []IInv
  BY IngestionOK, Initially, Inductive, PTL DEF Spec

(* Rows, ledger and calls keep their types, for any inputs of clients.      *)
THEOREM IngestionTypes == Spec => []TypeOK
  <1>1. IInv => TypeOK
    BY DEF IInv
  <1> QED
    BY <1>1, Invariance, PTL

(* An event is metered once, in the month of its row (submit_event,         *)
(* submit_batch), whatever is repeated, retried or overlaps.                *)
THEOREM EventsAreCountedOnce == Spec => []CountedOnce
  <1>1. IInv => CountedOnce
    BY DEF IInv
  <1> QED
    BY <1>1, Invariance, PTL

(* No month exceeds its limit by more than the one event that may be        *)
(* stamped before the month turns and checked after (require_capacity).     *)
THEOREM TheMonthlyLimitHolds == Spec => []MonthlyLimitHolds
  <1>1. IInv => MonthlyLimitHolds
    BY DEF IInv, LimitInv
  <1> QED
    BY <1>1, Invariance, PTL

(* A key stands for one content and one answer (submit_batch, bulk_upsert,  *)
(* submit_feedback).                                                        *)
THEOREM KeysStandForOneContent == Spec => []ReplaysAgree
  <1>1. IInv => ReplaysAgree
    BY DEF IInv
  <1> QED
    BY <1>1, Invariance, PTL

(* The tenant's shoppers are those of its stored events (customers.py).     *)
THEOREM CustomersHaveInteracted == Spec => []CustomersInteracted
  <1>1. IInv => CustomersInteracted
    BY DEF IInv
  <1> QED
    BY <1>1, Invariance, PTL

-----------------------------------------------------------------------------
(* The books                                                                *)

LEMMA BooksBegin ==
    ASSUME IngestionOK, Init
    PROVE  Books!Init
  BY DEF Init, Books!Init, NoRow, Months

(* The books count as the model does.                                       *)
LEMMA BooksCount ==
    ASSUME NEW S
    PROVE  Books!Cardinality(S) = Cardinality(S)
  BY DEF Cardinality, Books!Cardinality

(* The step a commit takes in the books.                                    *)
LEMMA BooksCommit ==
    ASSUME IngestionOK, IInv, NEW c \in Calls, call[c].stage = "writing", Rows(c), month' = month
    PROVE  Books!Accept
  <1> DEFINE N == NewEvents(c)
             n == call[c].now
             x == call[c]
             q == Charged(c)
             A == With(c, "accepted")
  <1>0. /\ TypeOK /\ CallsSound /\ Stamped /\ LimitInv /\ ListInv
        /\ Planned(call[c])
    BY DEF IInv, Planned
  <1>1. /\ N \subseteq Events /\ q = Cardinality(N) /\ q \in Nat
        /\ IsFiniteSet(N)
    BY <1>0, ChargedIsNew
  <1>2. /\ \A e \in N : ~events[e].stored /\ events'[e].stored /\ events'[e].month = n
        /\ \A e \in Events \ N : events'[e] = events[e]
        /\ \A i \in With(c, "accepted") : events'[x.items[i].event].user = x.items[i].user
    BY <1>0, EventsWritten
  <1>3. Books!Stored = N
    <2> HIDE DEF N, n
    <2> QED
      BY <1>1, <1>2 DEF Books!Stored
  <1>4. /\ N = {x.items[i].event : i \in With(c, "accepted")}
        /\ customers' = customers \cup Shoppers(c)
        /\ ledger' = [ledger EXCEPT ![n] = @ + q]
        /\ products' = products \cup NewProducts(c)
        /\ Recorded(c)
    BY DEF Rows, NewEvents
  <1>5. /\ n \in Months /\ month \in Months /\ Months \subseteq Nat /\ ledger \in [Months -> Nat]
        /\ EventLimit \in Nat
    BY <1>0 DEF TypeOK, Call, Months, IngestionOK
  <1>6. customers' = customers \cup ({events'[e].user : e \in N} \ {None})
    <2>1. {events'[e].user : e \in N} = {x.items[i].user : i \in A}
      <3>1. N = {x.items[i].event : i \in A} /\ \A i \in A : events'[x.items[i].event].user = x.items[i].user
        BY <1>2, <1>4
      <3> HIDE DEF A, N, x
      <3> QED
        BY <3>1
    <2> QED
      BY <1>4, <2>1 DEF Shoppers
  <1>7. \E m \in Months : m <= month /\ Books!Enter(m) /\ Books!Charge(m)
    <2>1. CASE q = 0
      <3>1. N = {}
        BY <1>1, <2>1, FS_EmptySet
      <3>2. \A k \in Months : ledger'[k] = ledger[k] + (IF k = month THEN Cardinality(N) ELSE 0)
        <4> HIDE DEF N, n, q
        <4>1. ledger'[n] = ledger[n] + 0 /\ \A k \in Months \ {n} : ledger'[k] = ledger[k]
          BY <1>4, <1>5, <2>1
        <4>2. \A k \in Months : ledger'[k] = ledger[k] /\ ledger[k] \in Nat
          BY <1>5, <4>1
        <4> QED
          BY <1>1, <2>1, <4>2
      <3>3. Books!Enter(month)
        BY <1>2, <1>3, <1>6, <3>1 DEF Books!Enter
      <3>4. Books!Charge(month)
        BY <1>3, <3>1, <3>2, BooksCount DEF Books!Charge
      <3>5. month <= month
        BY <1>5
      <3> QED
        BY <1>5, <3>3, <3>4, <3>5
    <2>2. CASE q # 0
      <3>1. x.kind \in EventKinds
        BY <1>0, <2>2, ChargedTypes
      <3>2. n <= month
        BY <1>0, <3>1 DEF Stamped, EventKinds, InProgress
      <3>3. \/ ledger[n] + q <= EventLimit
            \/ n < month /\ q = 1 /\ ledger[n] + q = EventLimit + 1
        <4>1. Room(c)
          BY <1>0 DEF LimitInv
        <4>2. CASE x.kind = "batch"
          BY <2>2, <4>1, <4>2 DEF Room
        <4>3. CASE x.kind = "event"
          <5>1. ledger[n] <= EventLimit /\ q <= 1
            BY <1>0, <4>1, <4>3 DEF Room, InProgress
          <5>2. n = month => ledger[n] + q <= EventLimit
            BY <2>2, <4>1, <4>3 DEF Room
          <5>3. q = 1
            <6> HIDE DEF q
            <6> QED
              BY <1>1, <2>2, <5>1
          <5>4. ledger[n] \in Nat
            BY <1>5
          <5> HIDE DEF n, q
          <5> QED
            BY <1>5, <3>2, <5>1, <5>2, <5>3, <5>4
        <4> QED
          BY <3>1, <4>2, <4>3 DEF EventKinds
      <3>4. \A k \in Months : ledger'[k] = ledger[k] + (IF k = n THEN Cardinality(N) ELSE 0)
        <4> HIDE DEF N, n, q
        <4>1. ledger'[n] = ledger[n] + q /\ \A k \in Months \ {n} : ledger'[k] = ledger[k]
          BY <1>4, <1>5
        <4> QED
          BY <1>1, <1>5, <4>1
      <3>5. Books!Enter(n)
        <4> HIDE DEF N, n
        <4> QED
          BY <1>2, <1>3, <1>6 DEF Books!Enter
      <3>6. Books!Charge(n)
        <4>1. ledger'[n] = ledger[n] + q
          BY <1>1, <1>5, <3>4
        <4> HIDE DEF N, n, q
        <4> QED
          BY <1>1, <1>3, <3>3, <3>4, <4>1, BooksCount DEF Books!Charge
      <3> QED
        BY <1>5, <3>2, <3>5, <3>6
    <2> QED
      BY <2>1, <2>2
  <1>8. /\ NewProducts(c) \subseteq Products /\ IsFiniteSet(NewProducts(c))
        /\ Cardinality(NewProducts(c)) \in Nat
        /\ x.kind \notin ProductKinds => NewProducts(c) = {}
    BY <1>0, NewProductsTypes
  <1>9. NewProducts(c) \cap products = {} /\ Books!Listed = NewProducts(c)
    <2>1. NewProducts(c) \cap products = {}
      BY <1>0, <1>8 DEF ListInv, ListRoom
    <2> QED
      BY <1>4, <2>1 DEF Books!Listed
  <1>10. Books!List
    <2>1. CASE NewProducts(c) = {}
      BY <1>4, <1>9, <2>1 DEF Books!List
    <2>2. CASE NewProducts(c) # {}
      <3>1. Cardinality(products) + Cardinality(NewProducts(c)) <= ProductLimit
        BY <1>0, <1>8, <2>2 DEF ListInv, ListRoom
      <3>2. IsFiniteSet(products) /\ Cardinality(products) \in Nat
        BY <1>0, FS_Subset, FS_CardinalityType DEF TypeOK, IngestionOK
      <3>3. Cardinality(products \cup NewProducts(c)) =
              Cardinality(products) + Cardinality(NewProducts(c))
              - Cardinality(products \cap NewProducts(c))
        BY <1>8, <3>2, FS_Union
      <3>4. Cardinality(products \cap NewProducts(c)) = 0
        BY <1>9, FS_EmptySet
      <3> QED
        BY <1>4, <1>8, <1>9, <3>1, <3>2, <3>3, <3>4, BooksCount DEF Books!List
    <2> QED
      BY <2>1, <2>2
  <1>11. Books!Acknowledge
    <2>1. CASE UNCHANGED row
      BY <2>1 DEF Books!Acknowledge
    <2>2. CASE row' # row
      <3> DEFINE k == x.kind
                 key == x.key
                 r == [stored |-> TRUE, items |-> x.items, outcomes |-> x.outcomes]
      <3>1. /\ k \in {"batch", "sync", "feedback"} /\ key # None
            /\ ~row[k][key].stored /\ row' = [row EXCEPT ![k][key] = r]
        BY <1>4, <2>2 DEF Recorded
      <3>2. key \in Keys /\ row \in [{"batch", "sync", "feedback"} -> [Keys -> Row]]
        BY <1>0, <3>1 DEF TypeOK, Call
      <3>3. r.stored /\ r.items = x.items /\ r.outcomes = x.outcomes
        OBVIOUS
      <3>4. /\ {x.items[i].event : i \in {j \in DOMAIN x.items : x.outcomes[j] = "accepted"}} = N
            /\ {x.items[i].product : i \in {j \in DOMAIN x.items : x.outcomes[j] = "created"}}
                 = NewProducts(c)
        BY DEF NewEvents, NewProducts, With
      <3> HIDE DEF k, key, r, N
      <3>5. row'[k][key] = r
        BY <3>1, <3>2
      <3>6. \A j \in {"batch", "sync", "feedback"}, other \in Keys :
              <<j, other>> # <<k, key>> => row'[j][other] = row[j][other]
        BY <3>1, <3>2
      <3>7. Books!True(row'[k][key])
        BY <1>3, <1>9, <3>3, <3>4, <3>5 DEF Books!True
      <3> QED
        BY <3>1, <3>2, <3>6, <3>7 DEF Books!Acknowledge
    <2> QED
      BY <2>1, <2>2
  <1> QED
    BY <1>7, <1>10, <1>11 DEF Books!Accept

LEMMA BooksStep ==
    ASSUME IngestionOK, IInv, [Next]_vars
    PROVE  [Books!Next]_(Books!books)
  <1>1. CASE UNCHANGED vars
    BY <1>1 DEF vars, Books!books
  <1>2. CASE MonthTurns
    BY <1>2 DEF MonthTurns, Books!Next, Books!Turn
  <1>3. ASSUME NEW c \in Calls, Handle(c)
        PROVE  [Books!Next]_(Books!books)
    <2>1. CASE UNCHANGED <<products, events, customers, ledger, row>>
      BY <1>3, <2>1, DataMoves DEF Books!books
    <2>2. CASE Rows(c) /\ call[c].stage = "writing"
      BY <1>3, <2>2, DataMoves, BooksCommit DEF Books!Next
    <2> QED
      BY <1>3, <2>1, <2>2, DataMoves
  <1> QED
    BY <1>1, <1>2, <1>3 DEF Next

(* Ingestion implements the books: its calls, locks, clocks, replays and    *)
(* failures come to transactions each of which takes up one submission as a *)
(* whole, within the limits, and says so truthfully (submit_event,          *)
(* submit_batch, bulk_upsert, update_product, submit_feedback).             *)
THEOREM ImplementsBooks == Spec => KeepsBooks
  <1>1. Init => Books!Init
    BY IngestionOK, BooksBegin
  <1>2. IInv /\ [Next]_vars => [Books!Next]_(Books!books)
    BY IngestionOK, BooksStep
  <1> QED
    BY <1>1, <1>2, Invariance, PTL DEF Spec, KeepsBooks, Books!Spec

=============================================================================

---------------------------- MODULE EventProofs ----------------------------
(***************************************************************************)
(* Theorems about EventDelivery, for any events, consumers and publishers  *)
(* and any thresholds: its types, its claims, that the outbox and the      *)
(* inbox implement the contract of DeliveryContract, that waiting alone    *)
(* parks nothing, and that failures add up.                                *)
(***************************************************************************)
EXTENDS EventDelivery, WellFoundedInduction, TLAPS

\* A row is held only while it may be delivered; what was not tried, or was
\* replayed, has no failures.
Row(e) ==
  /\ outbox[e].state = "absent" => outbox[e].holder = NoOne /\ ~ outbox[e].failed
  /\ outbox[e].holder # NoOne => outbox[e].state = "unpublished" /\ ~ Parked(e)
  /\ outbox[e].state # "published" /\ ~ outbox[e].failed => outbox[e].retries = 0

\* A run works on rows that are recorded and had tries left when it claimed
\* them, for the consumers of its current row.
Work(p) ==
  /\ \A e \in run[p].batch : outbox[e].state # "absent" /\ run[p].retries[e] < MaxRetries
  /\ Busy(p) => \A c \in Consumers : run[p].task[c].pc # "todo" => c \in ConsumersOf[Current(p)]

Shape ==
  /\ TypeOK
  /\ \A e \in Events : Row(e)
  /\ \A p \in Publishers : Work(p)

-----------------------------------------------------------------------------
(* The clock, and the current row. *)

LEMMA OlderLemma ==
  ASSUME NEW k \in Nat, NEW n \in 0..k+1
  PROVE  Older(n, k) \in 0..k+1
BY DEF Older

LEMMA CurrentLemma ==
  ASSUME TypeOK, NEW p \in Publishers, Busy(p)
  PROVE  Current(p) \in run[p].batch /\ Current(p) \in Events
<1>1. run[p].batch \subseteq Events /\ run[p].batch # {}
  BY DEF TypeOK, Runs, Busy
<1>2. Events \subseteq Nat
  BY DEF Events
<1>3. \E e \in run[p].batch : \A f \in run[p].batch : e <= f
  <2> DEFINE R == OpToRel(<, Nat)
             T == run[p].batch
  <2>1. IsWellFoundedOn(R, Nat)
    BY NatLessThanWellFounded
  <2>2. T \subseteq Nat /\ T # {}
    BY <1>1, <1>2
  <2>3. \A m, n \in Nat : m < n => <<m, n>> \in R
    BY DEF OpToRel
  <2> HIDE DEF R, T
  <2>4. \E x \in T : \A y \in T : ~ (<<y, x>> \in R)
    BY <2>1, <2>2, WFMin
  <2>5. \E x \in T : \A y \in T : x <= y
    <3>1. PICK x \in T : \A y \in T : ~ (<<y, x>> \in R)
      BY <2>4
    <3>2. ASSUME NEW y \in T
          PROVE  x <= y
      <4>1. x \in Nat /\ y \in Nat
        BY <2>2
      <4>2. ~ (y < x)
        BY <2>3, <3>1, <4>1
      <4>3. QED
        BY <4>1, <4>2
    <3>3. QED
      BY <3>2
  <2>6. QED
    BY <2>5 DEF T
<1>4. Oldest(run[p].batch) \in run[p].batch
  BY <1>3 DEF Oldest
<1>5. QED
  BY <1>1, <1>4 DEF Current

-----------------------------------------------------------------------------
(* What the steps of a run write. *)

\* The four ways to be done with a row.
Finish(p) == AckRecordOnly(p) \/ ParkUnrouted(p) \/ MarkPublished(p) \/ MarkFailed(p)

LEMMA FinishWrites ==
  ASSUME Shape, NEW p \in Publishers, Finish(p)
  PROVE  LET e == Current(p) IN
         /\ Busy(p) /\ e \in run[p].batch /\ e \in Events /\ NextRow(p)
         /\ UNCHANGED <<inbox, effects, threw, shared, crashes, replays>>
         /\ outbox' \in [Events -> OutboxRows]
         /\ \A f \in Events : f # e => outbox'[f] = outbox[f]
         /\ \/ outbox' = outbox /\ ~ Owns(p, e)
            \/ /\ Owns(p, e)
               /\ outbox'[e].holder = NoOne /\ outbox'[e].age = 0
               /\ \/ outbox'[e].state = "published" /\ (AckRecordOnly(p) \/ MarkPublished(p))
                  \/ outbox'[e].state = "unpublished" /\ outbox'[e].failed
<1> DEFINE e == Current(p)
<1>1. Busy(p) /\ NextRow(p) /\ UNCHANGED <<inbox, effects, threw, shared, crashes, replays>>
  BY DEF Finish, AckRecordOnly, ParkUnrouted, MarkPublished, MarkFailed
<1>2. e \in run[p].batch /\ e \in Events
  BY <1>1, CurrentLemma DEF Shape
<1>3. /\ outbox \in [Events -> OutboxRows] /\ outbox[e] \in OutboxRows
      /\ MaxRetries \in Nat \ {0} /\ ClaimTTL \in Nat
  BY <1>2, DeliveryAssumption DEF Shape, TypeOK, DeliveryAssumption
<1>4. run[p].retries[e] + 1 \in 0..MaxRetries
  BY <1>2, <1>3 DEF Shape, TypeOK, Work, Runs
<1>5. Owns(p, e) => outbox[e].state = "unpublished"
  BY <1>2, DeliveryAssumption DEF Owns, Shape, Row, DeliveryAssumption
<1>6. CASE ~ Owns(p, e)
  <2>1. outbox' = outbox
    BY <1>6 DEF Finish, AckRecordOnly, ParkUnrouted, MarkPublished, MarkFailed
  <2>2. QED
    BY <1>1, <1>2, <1>3, <1>6, <2>1
<1>7. CASE Owns(p, e)
  <2> DEFINE Written(row) == /\ row \in OutboxRows
                             /\ row.holder = NoOne /\ row.age = 0
                             /\ \/ row.state = "published" /\ (AckRecordOnly(p) \/ MarkPublished(p))
                                \/ row.state = "unpublished" /\ row.failed
  <2>1. \E row \in OutboxRows : Written(row) /\ outbox' = [outbox EXCEPT ![e] = row]
    <3>1. Released(outbox[e]) \in OutboxRows /\ Released(outbox[e]).state = "unpublished"
          /\ Released(outbox[e]).holder = NoOne /\ Released(outbox[e]).age = 0
      <4>1. outbox[e].state = "unpublished" /\ 0 \in 0..ClaimTTL+1
        BY <1>3, <1>5, <1>7
      <4>2. QED
        BY <1>3, <4>1 DEF Released, OutboxRows
    <3>2. ASSUME NEW r \in OutboxRows, r = Released(outbox[e])
          PROVE  \E row \in OutboxRows : Written(row) /\ outbox' = [outbox EXCEPT ![e] = row]
      <4>1. CASE AckRecordOnly(p)
        <5> DEFINE row == [r EXCEPT !.state = "published"]
        <5>1. Written(row)
          BY <3>1, <3>2, <4>1 DEF OutboxRows
        <5>2. outbox' = [outbox EXCEPT ![e] = row]
          BY <1>7, <3>2, <4>1 DEF AckRecordOnly
        <5>3. QED
          BY <5>1, <5>2
      <4>2. CASE ParkUnrouted(p)
        <5> DEFINE row == [r EXCEPT !.retries = MaxRetries, !.failed = TRUE]
        <5> MaxRetries \in 0..MaxRetries
          BY <1>3
        <5>1. Written(row)
          BY <3>1, <3>2, <4>2 DEF OutboxRows
        <5>2. outbox' = [outbox EXCEPT ![e] = row]
          BY <1>7, <3>2, <4>2 DEF ParkUnrouted
        <5>3. QED
          BY <5>1, <5>2
      <4>3. CASE MarkPublished(p)
        <5> DEFINE row == [r EXCEPT !.state = "published", !.failed = FALSE]
        <5>1. Written(row)
          BY <3>1, <3>2, <4>3 DEF OutboxRows
        <5>2. outbox' = [outbox EXCEPT ![e] = row]
          BY <1>7, <3>2, <4>3 DEF MarkPublished
        <5>3. QED
          BY <5>1, <5>2
      <4>4. CASE MarkFailed(p)
        <5> DEFINE row == [r EXCEPT !.retries = run[p].retries[e] + 1, !.failed = TRUE]
        <5>1. Written(row)
          BY <1>4, <3>1, <3>2, <4>4 DEF OutboxRows
        <5>2. outbox' = [outbox EXCEPT ![e] = row]
          BY <1>7, <3>2, <4>4 DEF MarkFailed, FailedOnce
        <5>3. QED
          BY <5>1, <5>2
      <4>5. QED
        BY <4>1, <4>2, <4>3, <4>4 DEF Finish
    <3>3. QED
      BY <3>1, <3>2
  <2>2. PICK row \in OutboxRows : Written(row) /\ outbox' = [outbox EXCEPT ![e] = row]
    BY <2>1
  <2>3. outbox' \in [Events -> OutboxRows] /\ outbox'[e] = row /\ \A f \in Events : f # e => outbox'[f] = outbox[f]
    BY <1>2, <1>3, <2>2
  <2>4. QED
    BY <1>1, <1>2, <1>7, <2>2, <2>3
<1>8. QED
  BY <1>6, <1>7

\* A consumer's part in the delivery of the current row.
TaskStep(p, c) ==
  \/ InboxClaim(p, c) \/ HandleInTransaction(p, c) \/ HandleOnItsOwn(p, c)
  \/ MarkProcessed(p, c) \/ HandleThrows(p, c) \/ RecordThrow(p, c)

\* The run's task for consumer c becomes t.
Writes(p, c, t) == run' = [run EXCEPT ![p].task[c] = t]

\* The table f with x at (e, c).
Put(f, e, c, x) == [f EXCEPT ![e][c] = x]

LEMMA TaskWrites ==
  ASSUME TypeOK, NEW p \in Publishers, NEW c \in Consumers, NEW t \in Tasks, Writes(p, c, t)
  PROVE  /\ run' \in [Publishers -> Runs]
         /\ run'[p].batch = run[p].batch /\ run'[p].retries = run[p].retries /\ run'[p].age = run[p].age
         /\ run'[p].task[c] = t
         /\ \A d \in Consumers : d # c => run'[p].task[d] = run[p].task[d]
         /\ \A q \in Publishers : q # p => run'[q] = run[q]
<1> DEFINE task == [run[p].task EXCEPT ![c] = t]
           r == [run[p] EXCEPT !.task = task]
<1>1. run \in [Publishers -> Runs] /\ run[p] \in Runs
  BY DEF TypeOK
<1>2. run[p].task \in [Consumers -> Tasks]
  BY <1>1 DEF Runs
<1>3. task \in [Consumers -> Tasks] /\ task[c] = t /\ \A d \in Consumers : d # c => task[d] = run[p].task[d]
  BY <1>2
<1> HIDE DEF task
<1>4. /\ r \in Runs /\ r.batch = run[p].batch /\ r.retries = run[p].retries /\ r.age = run[p].age
      /\ r.task = task
  BY <1>1, <1>3 DEF Runs
<1>5. run' = [run EXCEPT ![p] = r]
  BY DEF task, Writes
<1> HIDE DEF r
<1>6. run' \in [Publishers -> Runs] /\ run'[p] = r /\ \A q \in Publishers : q # p => run'[q] = run[q]
  BY <1>1, <1>4, <1>5
<1>7. QED
  BY <1>3, <1>4, <1>6

\* What each part does to the task, the slot and the count of effects.
LEMMA TaskStepWrites ==
  ASSUME Shape, NEW p \in Publishers, NEW c \in Consumers, TaskStep(p, c)
  PROVE  LET e == Current(p) IN
         /\ Busy(p) /\ e \in Events /\ e \in run[p].batch /\ c \in ConsumersOf[e]
         /\ \E t \in Tasks : t.pc # "todo" /\ Writes(p, c, t)
         /\ UNCHANGED <<outbox, crashes, replays>>
         /\ inbox' = inbox \/ \E row \in InboxRows : inbox' = Put(inbox, e, c, row)
         /\ effects' = effects \/ CountEffect(e, c)
         /\ threw' = threw \/ threw' = [threw EXCEPT ![e] = @ \cup {c}]
         /\ shared' = shared \/ shared' = [shared EXCEPT ![e] = @ \cup {c}]
<1> DEFINE e == Current(p)
<1>1. Busy(p)
  BY DEF TaskStep, InboxClaim, HandleInTransaction, HandleOnItsOwn, MarkProcessed, HandleThrows, RecordThrow
<1>2. e \in Events /\ e \in run[p].batch
  BY <1>1, CurrentLemma DEF Shape
<1>3. c \in ConsumersOf[e]
  <2>1. run[p].task[c].pc # "todo" => c \in ConsumersOf[e]
    BY <1>1 DEF Shape, Work
  <2>2. QED
    BY <2>1 DEF TaskStep, InboxClaim, HandleInTransaction, HandleOnItsOwn, MarkProcessed, HandleThrows, RecordThrow
<1>4. run[p].task[c] \in Tasks /\ 0 \in 0..StaleClaim+1
  BY DeliveryAssumption DEF Shape, TypeOK, Runs, DeliveryAssumption
<1>5. ASSUME NEW pc \in {"handling", "handled", "thrown", "ok", "failed"}, SetTask(p, c, pc)
      PROVE  \E t \in Tasks : t.pc # "todo" /\ Writes(p, c, t)
  <2> DEFINE t == [run[p].task[c] EXCEPT !.pc = pc]
  <2>1. t \in Tasks /\ t.pc # "todo"
    BY <1>4 DEF Tasks
  <2>2. Writes(p, c, t)
    BY <1>5 DEF SetTask, Writes
  <2>3. QED
    BY <2>1, <2>2
<1>6. \E t \in Tasks : t.pc # "todo" /\ Writes(p, c, t)
  <2>1. CASE run' = [run EXCEPT ![p].task[c] = [pc |-> "handling", age |-> 0]]
    <3>1. [pc |-> "handling", age |-> 0] \in Tasks
      BY <1>4 DEF Tasks
    <3>2. QED
      BY <2>1, <3>1 DEF Writes
  <2>2. CASE \E pc \in {"handling", "handled", "thrown", "ok", "failed"} : SetTask(p, c, pc)
    BY <1>5, <2>2
  <2>3. QED
    BY <2>1, <2>2
       DEF TaskStep, InboxClaim, HandleInTransaction, HandleOnItsOwn, MarkProcessed, HandleThrows, RecordThrow
<1>7. inbox' = inbox \/ \E row \in InboxRows : inbox' = Put(inbox, e, c, row)
  <2>1. \A s \in {"PROCESSING", "PROCESSED", "FAILED"} : [status |-> s, age |-> 0] \in InboxRows
    BY <1>4 DEF InboxRows
  <2>2. \/ inbox' = inbox
        \/ \E s \in {"PROCESSING", "PROCESSED", "FAILED"} : inbox' = Put(inbox, e, c, [status |-> s, age |-> 0])
    BY DEF Put, TaskStep, InboxClaim, HandleInTransaction, HandleOnItsOwn, MarkProcessed, HandleThrows, RecordThrow
  <2>3. QED
    BY <2>1, <2>2
<1>8. /\ UNCHANGED <<outbox, crashes, replays>>
      /\ effects' = effects \/ CountEffect(e, c)
      /\ threw' = threw \/ threw' = [threw EXCEPT ![e] = @ \cup {c}]
      /\ shared' = shared \/ shared' = [shared EXCEPT ![e] = @ \cup {c}]
  BY DEF TaskStep, InboxClaim, HandleInTransaction, HandleOnItsOwn, MarkProcessed, HandleThrows, RecordThrow
<1>9. QED
  BY <1>1, <1>2, <1>3, <1>6, <1>7, <1>8

-----------------------------------------------------------------------------
(* The steps keep the shape. *)

\* One entry of a table is written.
LEMMA EntryLemma ==
  ASSUME NEW S, NEW f \in [Events -> [Consumers -> S]], NEW e \in Events, NEW c \in Consumers, NEW x \in S
  PROVE  Put(f, e, c, x) \in [Events -> [Consumers -> S]]
<1> DEFINE row == [f[e] EXCEPT ![c] = x]
<1>1. row \in [Consumers -> S]
  OBVIOUS
<1>2. Put(f, e, c, x) = [f EXCEPT ![e] = row]
  BY DEF Put
<1> HIDE DEF row
<1>3. QED
  BY <1>1, <1>2

LEMMA PutLemma ==
  ASSUME NEW f, NEW e \in Events, NEW c \in Consumers, NEW x,
         f = [a \in Events |-> f[a]], \A a \in Events : f[a] = [b \in Consumers |-> f[a][b]]
  PROVE  /\ Put(f, e, c, x)[e][c] = x
         /\ \A a \in Events : \A b \in Consumers : a # e \/ b # c => Put(f, e, c, x)[a][b] = f[a][b]
<1> DEFINE row == [f[e] EXCEPT ![c] = x]
<1>1. row[c] = x /\ \A b \in Consumers : b # c => row[b] = f[e][b]
  <2>1. f[e] = [b \in Consumers |-> f[e][b]]
    OBVIOUS
  <2> DEFINE g == f[e]
  <2>2. g = [b \in Consumers |-> g[b]]
    BY <2>1
  <2> HIDE DEF g
  <2>3. [g EXCEPT ![c] = x][c] = x /\ \A b \in Consumers : b # c => [g EXCEPT ![c] = x][b] = g[b]
    BY <2>2
  <2>4. QED
    BY <2>3 DEF g
<1>2. Put(f, e, c, x) = [f EXCEPT ![e] = row]
  BY DEF Put
<1> HIDE DEF row
<1>3. Put(f, e, c, x)[e] = row /\ \A a \in Events : a # e => Put(f, e, c, x)[a] = f[a]
  BY <1>2
<1>4. QED
  BY <1>1, <1>3

\* A consumer is added to an event's.
LEMMA AddLemma ==
  ASSUME NEW f \in [Events -> SUBSET Consumers], NEW e \in Events, NEW c \in Consumers
  PROVE  [f EXCEPT ![e] = @ \cup {c}] \in [Events -> SUBSET Consumers]
OBVIOUS

LEMMA EndedLemma == EndedRun \in Runs /\ EndedRun.batch = {} /\ NoTasks \in [Consumers -> Tasks]
<1>1. Todo \in Tasks /\ 0 \in 0..MaxRetries /\ 0 \in 0..ClaimTTL+1
  BY DeliveryAssumption DEF Todo, Tasks, DeliveryAssumption
<1>2. NoTasks \in [Consumers -> Tasks]
  BY <1>1 DEF NoTasks
<1>3. QED
  BY <1>1, <1>2 DEF EndedRun, Runs

\* What being done with a row leaves of the run.
LEMMA NextRowWrites ==
  ASSUME TypeOK, NEW p \in Publishers, Busy(p), NextRow(p)
  PROVE  /\ run' \in [Publishers -> Runs]
         /\ \A q \in Publishers : q # p => run'[q] = run[q]
         /\ run'[p].batch = run[p].batch \ {Current(p)}
         /\ run'[p].batch # {} => run'[p].age = run[p].age /\ run'[p].retries = run[p].retries
         /\ \A c \in Consumers : run'[p].task[c] = Todo
<1> DEFINE rest == run[p].batch \ {Current(p)}
           r == IF rest = {} THEN EndedRun ELSE [run[p] EXCEPT !.batch = rest, !.task = NoTasks]
<1>1. run \in [Publishers -> Runs] /\ run[p] \in Runs
  BY DEF TypeOK
<1>2. run' = [run EXCEPT ![p] = r]
  BY DEF NextRow
<1>3. /\ r \in Runs /\ r.batch = rest
      /\ rest # {} => r.age = run[p].age /\ r.retries = run[p].retries
      /\ \A c \in Consumers : r.task[c] = Todo
  <2>1. CASE rest = {}
    BY <2>1, EndedLemma DEF EndedRun, NoTasks
  <2>2. CASE rest # {}
    BY <1>1, <2>2, EndedLemma DEF Runs, NoTasks
  <2>3. QED
    BY <2>1, <2>2
<1> HIDE DEF r
<1>4. QED
  BY <1>1, <1>2, <1>3

LEMMA FinishStep == ASSUME Shape, NEW p \in Publishers, Finish(p) PROVE Shape'
<1> DEFINE e == Current(p)
<1>1. /\ Busy(p) /\ e \in run[p].batch /\ e \in Events /\ NextRow(p)
      /\ UNCHANGED <<inbox, effects, threw, shared, crashes, replays>>
      /\ outbox' \in [Events -> OutboxRows]
      /\ \A f \in Events : f # e => outbox'[f] = outbox[f]
      /\ \/ outbox' = outbox /\ ~ Owns(p, e)
         \/ /\ Owns(p, e)
            /\ outbox'[e].holder = NoOne /\ outbox'[e].age = 0
            /\ \/ outbox'[e].state = "published" /\ (AckRecordOnly(p) \/ MarkPublished(p))
               \/ outbox'[e].state = "unpublished" /\ outbox'[e].failed
  BY FinishWrites
<1>2. /\ run' \in [Publishers -> Runs]
      /\ \A q \in Publishers : q # p => run'[q] = run[q]
      /\ run'[p].batch = run[p].batch \ {e}
      /\ run'[p].batch # {} => run'[p].age = run[p].age /\ run'[p].retries = run[p].retries
      /\ \A c \in Consumers : run'[p].task[c] = Todo
  BY <1>1, NextRowWrites DEF Shape
<1>3. TypeOK'
  BY <1>1, <1>2 DEF Shape, TypeOK
<1>4. \A f \in Events : Row(f)'
  BY <1>1 DEF Shape, Row, Parked
<1>5. \A f \in Events : outbox[f].state # "absent" => outbox'[f].state # "absent"
  BY <1>1
<1>6. ASSUME NEW q \in Publishers
      PROVE  Work(q)'
  <2>1. CASE q = p
    <3>1. \A f \in run'[p].batch : outbox'[f].state # "absent" /\ run'[p].retries[f] < MaxRetries
      BY <1>2, <1>5 DEF Shape, Work, TypeOK, Runs
    <3>2. \A c \in Consumers : run'[p].task[c].pc = "todo"
      BY <1>2 DEF Todo
    <3>3. QED
      BY <2>1, <3>1, <3>2 DEF Work
  <2>2. CASE q # p
    <3>1. run'[q] = run[q] /\ run[q] \in Runs
      BY <1>2, <2>2 DEF Shape, TypeOK
    <3>2. \A f \in run[q].batch : outbox'[f].state # "absent"
      BY <1>5, <3>1 DEF Shape, Work, Runs
    <3>3. QED
      BY <3>1, <3>2 DEF Shape, Work, Busy, Current
  <2>3. QED
    BY <2>1, <2>2
<1>7. QED
  BY <1>3, <1>4, <1>6 DEF Shape

LEMMA TaskShape == ASSUME Shape, NEW p \in Publishers, NEW c \in Consumers, TaskStep(p, c) PROVE Shape'
<1> DEFINE e == Current(p)
<1>1. /\ Busy(p) /\ e \in Events /\ c \in ConsumersOf[e]
      /\ UNCHANGED <<outbox, crashes, replays>>
      /\ inbox' = inbox \/ \E row \in InboxRows : inbox' = Put(inbox, e, c, row)
      /\ effects' = effects \/ CountEffect(e, c)
      /\ threw' = threw \/ threw' = [threw EXCEPT ![e] = @ \cup {c}]
      /\ shared' = shared \/ shared' = [shared EXCEPT ![e] = @ \cup {c}]
  BY TaskStepWrites
<1>2. PICK t \in Tasks : t.pc # "todo" /\ Writes(p, c, t)
  BY TaskStepWrites
<1>3. /\ run' \in [Publishers -> Runs]
      /\ run'[p].batch = run[p].batch /\ run'[p].retries = run[p].retries
      /\ run'[p].task[c] = t /\ \A d \in Consumers : d # c => run'[p].task[d] = run[p].task[d]
      /\ \A q \in Publishers : q # p => run'[q] = run[q]
  <2>1. TypeOK
    BY DEF Shape
  <2>2. QED
    BY <1>2, <2>1, TaskWrites
<1>4. inbox' \in [Events -> [Consumers -> InboxRows]]
  <2>1. inbox \in [Events -> [Consumers -> InboxRows]]
    BY DEF Shape, TypeOK
  <2>2. ASSUME NEW row \in InboxRows
        PROVE  Put(inbox, e, c, row) \in [Events -> [Consumers -> InboxRows]]
    BY <1>1, <2>1, EntryLemma
  <2>3. QED
    BY <1>1, <2>1, <2>2
<1>5. effects' \in [Events -> [Consumers -> 0..2]]
  <2>1. effects \in [Events -> [Consumers -> 0..2]]
    BY DEF Shape, TypeOK
  <2> DEFINE n == IF effects[e][c] < 2 THEN effects[e][c] + 1 ELSE effects[e][c]
  <2>2. n \in 0..2
    BY <1>1, <2>1
  <2>3. CountEffect(e, c) => effects' = Put(effects, e, c, n)
    BY DEF CountEffect, Put
  <2> HIDE DEF n
  <2>4. Put(effects, e, c, n) \in [Events -> [Consumers -> 0..2]]
    BY <1>1, <2>1, <2>2, EntryLemma
  <2>5. QED
    BY <1>1, <2>1, <2>3, <2>4
<1>6. threw' \in [Events -> SUBSET Consumers] /\ shared' \in [Events -> SUBSET Consumers]
  <2>1. threw \in [Events -> SUBSET Consumers] /\ shared \in [Events -> SUBSET Consumers]
    BY DEF Shape, TypeOK
  <2>2. QED
    BY <1>1, <2>1, AddLemma
<1>7. TypeOK'
  BY <1>1, <1>3, <1>4, <1>5, <1>6 DEF Shape, TypeOK
<1>8. \A f \in Events : Row(f)'
  BY <1>1 DEF Shape, Row, Parked
<1>9. ASSUME NEW q \in Publishers
      PROVE  Work(q)'
  <2>1. CASE q = p
    <3>1. Current(p)' = e /\ Busy(p)' = Busy(p)
      BY <1>3 DEF Current, Busy
    <3>2. \A d \in Consumers : run'[p].task[d].pc # "todo" => d \in ConsumersOf[e]
      BY <1>1, <1>3 DEF Shape, Work
    <3>3. QED
      BY <1>1, <1>3, <2>1, <3>1, <3>2 DEF Shape, Work
  <2>2. CASE q # p
    <3>1. run'[q] = run[q]
      BY <1>3, <2>2
    <3>2. QED
      BY <1>1, <3>1 DEF Shape, Work, Busy, Current
  <2>3. QED
    BY <2>1, <2>2
<1>10. QED
  BY <1>7, <1>8, <1>9 DEF Shape

\* The claim of a batch.
LEMMA ClaimWrites ==
  ASSUME Shape, NEW p \in Publishers, ClaimRows(p)
  PROVE  \E claimed \in SUBSET Events :
           /\ \A e \in claimed : Deliverable(e)
           /\ outbox' \in [Events -> OutboxRows]
           /\ \A e \in claimed : outbox'[e] = [outbox[e] EXCEPT !.holder = p, !.age = 0]
           /\ \A e \in Events \ claimed : outbox'[e] = outbox[e]
           /\ run' \in [Publishers -> Runs]
           /\ run'[p] = [batch |-> claimed, retries |-> [e \in Events |-> outbox[e].retries],
                         age |-> 0, task |-> NoTasks]
           /\ \A q \in Publishers : q # p => run'[q] = run[q]
           /\ UNCHANGED <<inbox, effects, threw, shared, crashes, replays>>
<1>1. PICK claimed \in SUBSET Events :
        /\ \A e \in claimed : Deliverable(e)
        /\ outbox' = [e \in Events |-> IF e \in claimed THEN [outbox[e] EXCEPT !.holder = p, !.age = 0]
                                       ELSE outbox[e]]
        /\ run' = [run EXCEPT ![p] = [batch |-> claimed,
                                      retries |-> [e \in Events |-> outbox[e].retries],
                                      age |-> 0, task |-> NoTasks]]
        /\ UNCHANGED <<inbox, effects, threw, shared, crashes, replays>>
  <2> DEFINE claimed == {e \in {f \in Events : Deliverable(f)} :
                           Cardinality({f \in {g \in Events : Deliverable(g)} : f < e}) < BatchSize}
  <2>1. claimed \in SUBSET Events /\ \A e \in claimed : Deliverable(e)
    OBVIOUS
  <2>2. /\ outbox' = [e \in Events |-> IF e \in claimed THEN [outbox[e] EXCEPT !.holder = p, !.age = 0]
                                       ELSE outbox[e]]
        /\ run' = [run EXCEPT ![p] = [batch |-> claimed,
                                      retries |-> [e \in Events |-> outbox[e].retries],
                                      age |-> 0, task |-> NoTasks]]
        /\ UNCHANGED <<inbox, effects, threw, shared, crashes, replays>>
    BY DEF ClaimRows
  <2> HIDE DEF claimed
  <2>3. QED
    BY <2>1, <2>2
<1>2. /\ outbox \in [Events -> OutboxRows] /\ run \in [Publishers -> Runs]
      /\ 0 \in 0..ClaimTTL+1
  BY DeliveryAssumption DEF Shape, TypeOK, DeliveryAssumption
<1>3. \A e \in Events : [outbox[e] EXCEPT !.holder = p, !.age = 0] \in OutboxRows
  BY <1>2 DEF OutboxRows
<1>4. outbox' \in [Events -> OutboxRows]
  BY <1>1, <1>2, <1>3
<1>5. [e \in Events |-> outbox[e].retries] \in [Events -> 0..MaxRetries]
  BY <1>2 DEF OutboxRows
<1>6. [batch |-> claimed, retries |-> [e \in Events |-> outbox[e].retries], age |-> 0, task |-> NoTasks] \in Runs
  BY <1>2, <1>5, EndedLemma DEF Runs
<1>7. QED
  BY <1>1, <1>2, <1>4, <1>6

LEMMA ClaimStep == ASSUME Shape, NEW p \in Publishers, ClaimRows(p) PROVE Shape'
<1>1. PICK claimed \in SUBSET Events :
        /\ \A e \in claimed : Deliverable(e)
        /\ outbox' \in [Events -> OutboxRows]
        /\ \A e \in claimed : outbox'[e] = [outbox[e] EXCEPT !.holder = p, !.age = 0]
        /\ \A e \in Events \ claimed : outbox'[e] = outbox[e]
        /\ run' \in [Publishers -> Runs]
        /\ run'[p] = [batch |-> claimed, retries |-> [e \in Events |-> outbox[e].retries],
                      age |-> 0, task |-> NoTasks]
        /\ \A q \in Publishers : q # p => run'[q] = run[q]
        /\ UNCHANGED <<inbox, effects, threw, shared, crashes, replays>>
  BY ClaimWrites
<1>2. \A e \in Events : /\ outbox[e] \in OutboxRows
                        /\ outbox'[e].state = outbox[e].state /\ outbox'[e].failed = outbox[e].failed
                        /\ outbox'[e].retries = outbox[e].retries
                        /\ e \notin claimed => outbox'[e].holder = outbox[e].holder
  <2>1. \A e \in Events : outbox[e] \in OutboxRows
    BY DEF Shape, TypeOK
  <2>2. \A e \in claimed : /\ outbox'[e].state = outbox[e].state /\ outbox'[e].failed = outbox[e].failed
                           /\ outbox'[e].retries = outbox[e].retries
    BY <1>1, <2>1 DEF OutboxRows
  <2>3. QED
    BY <1>1, <2>1, <2>2
<1>3. TypeOK'
  BY <1>1 DEF Shape, TypeOK
<1>4. ASSUME NEW e \in Events
      PROVE  Row(e)'
  <2>1. Row(e)
    BY DEF Shape
  <2>2. CASE e \in claimed
    BY <1>1, <1>2, <2>1, <2>2 DEF Row, Deliverable, Parked
  <2>3. CASE e \notin claimed
    BY <1>2, <2>1, <2>3 DEF Row, Parked
  <2>4. QED
    BY <2>2, <2>3
<1>5. ASSUME NEW q \in Publishers
      PROVE  Work(q)'
  <2>1. CASE q = p
    <3>1. \A e \in claimed : outbox[e].state = "unpublished" /\ outbox[e].retries < MaxRetries
      <4>1. ASSUME NEW e \in claimed
            PROVE  outbox[e].state = "unpublished" /\ outbox[e].retries < MaxRetries
        <5>1. Row(e) /\ outbox[e].state = "unpublished" /\ ~ Parked(e)
          BY <1>1 DEF Shape, Deliverable
        <5>2. outbox[e].retries \in 0..MaxRetries /\ MaxRetries \in Nat \ {0}
          BY <1>2, DeliveryAssumption DEF OutboxRows, DeliveryAssumption
        <5>3. QED
          BY <5>1, <5>2 DEF Row, Parked
      <4>2. QED
        BY <4>1
    <3>2. /\ run'[p].batch = claimed /\ run'[p].task = NoTasks
          /\ run'[p].retries = [e \in Events |-> outbox[e].retries]
      <4>1. run'[p] = [batch |-> claimed, retries |-> [e \in Events |-> outbox[e].retries],
                       age |-> 0, task |-> NoTasks]
        BY <1>1
      <4>2. QED
        BY <4>1
    <3>3. QED
      BY <1>2, <2>1, <3>1, <3>2 DEF Work, NoTasks, Todo
  <2>2. CASE q # p
    <3>1. run'[q] = run[q] /\ run[q].batch \subseteq Events
      BY <1>1, <2>2 DEF Shape, TypeOK, Runs
    <3>2. QED
      BY <1>2, <3>1 DEF Shape, Work, Busy, Current
  <2>3. QED
    BY <2>1, <2>2
<1>6. QED
  BY <1>3, <1>4, <1>5 DEF Shape

\* Steps that leave the runs and the tables' other rows alone.
LEMMA CrashStep == ASSUME Shape, NEW p \in Publishers, Crash(p) PROVE Shape'
<1>1. /\ UNCHANGED <<outbox, inbox, effects, threw, shared, replays>>
      /\ run' = [run EXCEPT ![p] = EndedRun] /\ crashes' \in 0..MaxCrashes
  BY DeliveryAssumption DEF Crash, Shape, TypeOK, DeliveryAssumption
<1>2. /\ run' \in [Publishers -> Runs] /\ run'[p] = EndedRun
      /\ \A q \in Publishers : q # p => run'[q] = run[q]
  BY <1>1, EndedLemma DEF Shape, TypeOK
<1>3. TypeOK'
  BY <1>1, <1>2 DEF Shape, TypeOK
<1>4. \A e \in Events : Row(e)'
  BY <1>1 DEF Shape, Row, Parked
<1>5. ASSUME NEW q \in Publishers
      PROVE  Work(q)'
  <2>1. CASE q = p
    BY <1>2, <2>1, EndedLemma DEF Work, Busy
  <2>2. CASE q # p
    <3>1. run'[q] = run[q]
      BY <1>2, <2>2
    <3>2. QED
      BY <1>1, <3>1 DEF Shape, Work, Busy, Current
  <2>3. QED
    BY <2>1, <2>2
<1>6. QED
  BY <1>3, <1>4, <1>5 DEF Shape

\* An outbox that keeps its shape, under runs that stay as they are.
LEMMA OutboxStep ==
  ASSUME Shape, outbox' \in [Events -> OutboxRows], \A e \in Events : Row(e)',
         \A e \in Events : outbox[e].state # "absent" => outbox'[e].state # "absent",
         UNCHANGED <<inbox, run, effects, threw, shared, crashes>>, replays' \in 0..MaxReplays
  PROVE  Shape'
<1>1. TypeOK'
  BY DEF Shape, TypeOK
<1>2. ASSUME NEW q \in Publishers
      PROVE  Work(q)'
  <2>1. run[q].batch \subseteq Events
    BY DEF Shape, TypeOK, Runs
  <2>2. QED
    BY <2>1 DEF Shape, Work, Busy, Current
<1>3. QED
  BY <1>1, <1>2 DEF Shape

LEMMA PublishStep == ASSUME Shape, NEW e \in Events, Publish(e) PROVE Shape'
<1> DEFINE row == [outbox[e] EXCEPT !.state = "unpublished"]
<1>1. outbox \in [Events -> OutboxRows] /\ outbox[e] \in OutboxRows /\ Row(e) /\ outbox[e].state = "absent"
  BY DEF Shape, TypeOK, Publish
<1>2. /\ row \in OutboxRows /\ row.state = "unpublished" /\ row.holder = NoOne
      /\ ~ row.failed /\ row.retries = 0
  BY <1>1 DEF OutboxRows, Row
<1>3. /\ outbox' = [outbox EXCEPT ![e] = row]
      /\ UNCHANGED <<inbox, run, effects, threw, shared, crashes, replays>>
  BY DEF Publish
<1> HIDE DEF row
<1>4. /\ outbox' \in [Events -> OutboxRows] /\ outbox'[e] = row
      /\ \A f \in Events : f # e => outbox'[f] = outbox[f]
  BY <1>1, <1>2, <1>3
<1>5. \A f \in Events : Row(f)'
  BY <1>2, <1>4 DEF Shape, Row, Parked
<1>6. \A f \in Events : outbox[f].state # "absent" => outbox'[f].state # "absent"
  BY <1>2, <1>4
<1>7. replays' \in 0..MaxReplays
  BY <1>3 DEF Shape, TypeOK
<1>8. QED
  BY <1>3, <1>4, <1>5, <1>6, <1>7, OutboxStep

\* The rows an operator resets.
LEMMA ReplayWrites ==
  ASSUME Shape, NEW given \in SUBSET Events, Replay(given)
  PROVE  \E rows \in SUBSET Events :
           /\ rows # {} /\ \A e \in rows : outbox[e].state = "unpublished"
           /\ outbox' \in [Events -> OutboxRows]
           /\ \A e \in rows : outbox'[e] = [outbox[e] EXCEPT !.retries = 0, !.failed = FALSE]
           /\ \A e \in Events \ rows : outbox'[e] = outbox[e]
           /\ UNCHANGED <<inbox, run, effects, threw, shared, crashes>>
           /\ replays' = replays + 1 /\ replays' \in 0..MaxReplays
<1> DEFINE rows == Replayable(given)
<1>1. rows \in SUBSET Events /\ rows # {} /\ \A e \in rows : outbox[e].state = "unpublished"
  BY DEF Replay, Replayable
<1>2. outbox \in [Events -> OutboxRows] /\ 0 \in 0..MaxRetries
  BY DeliveryAssumption DEF Shape, TypeOK, DeliveryAssumption
<1>3. /\ outbox' = [e \in Events |-> IF e \in rows THEN [outbox[e] EXCEPT !.retries = 0, !.failed = FALSE]
                                     ELSE outbox[e]]
      /\ UNCHANGED <<inbox, run, effects, threw, shared, crashes>>
      /\ replays' = replays + 1
  BY DEF Replay
<1>4. replays' \in 0..MaxReplays
  <2>1. replays < MaxReplays /\ replays' = replays + 1
    BY DEF Replay
  <2>2. replays \in 0..MaxReplays /\ MaxReplays \in Nat
    BY DeliveryAssumption DEF Shape, TypeOK, DeliveryAssumption
  <2>3. QED
    BY <2>1, <2>2
<1> HIDE DEF rows
<1>5. \A e \in Events : [outbox[e] EXCEPT !.retries = 0, !.failed = FALSE] \in OutboxRows
  BY <1>2 DEF OutboxRows
<1>6. outbox' \in [Events -> OutboxRows]
  BY <1>2, <1>3, <1>5
<1>7. QED
  BY <1>1, <1>3, <1>4, <1>6

LEMMA ReplayStep == ASSUME Shape, NEW given \in SUBSET Events, Replay(given) PROVE Shape'
<1>1. PICK rows \in SUBSET Events :
           /\ rows # {} /\ \A e \in rows : outbox[e].state = "unpublished"
           /\ outbox' \in [Events -> OutboxRows]
           /\ \A e \in rows : outbox'[e] = [outbox[e] EXCEPT !.retries = 0, !.failed = FALSE]
           /\ \A e \in Events \ rows : outbox'[e] = outbox[e]
           /\ UNCHANGED <<inbox, run, effects, threw, shared, crashes>>
           /\ replays' = replays + 1 /\ replays' \in 0..MaxReplays
  BY ReplayWrites
<1>2. \A e \in rows : /\ outbox'[e].state = "unpublished" /\ outbox'[e].holder = outbox[e].holder
                      /\ outbox'[e].retries = 0 /\ ~ outbox'[e].failed
  <2>1. ASSUME NEW e \in rows
        PROVE  /\ outbox'[e].state = outbox[e].state /\ outbox'[e].holder = outbox[e].holder
               /\ outbox'[e].retries = 0 /\ ~ outbox'[e].failed
    <3>1. outbox[e] \in OutboxRows
      BY DEF Shape, TypeOK
    <3>2. outbox'[e] = [outbox[e] EXCEPT !.retries = 0, !.failed = FALSE]
      BY <1>1
    <3>3. QED
      BY <3>1, <3>2 DEF OutboxRows
  <2>2. QED
    BY <1>1, <2>1
<1>3. \A f \in Events : Row(f)'
  BY <1>1, <1>2 DEF Shape, Row, Parked
<1>4. \A f \in Events : outbox[f].state # "absent" => outbox'[f].state # "absent"
  BY <1>1, <1>2
<1>5. QED
  BY <1>1, <1>3, <1>4, OutboxStep

\* A minute passes: ages, and nothing else.
LEMMA TickWrites ==
  ASSUME TypeOK, Tick
  PROVE  /\ outbox' \in [Events -> OutboxRows]
         /\ \A e \in Events :
              /\ outbox'[e].state = outbox[e].state /\ outbox'[e].failed = outbox[e].failed
              /\ outbox'[e].retries = outbox[e].retries /\ outbox'[e].holder = outbox[e].holder
              /\ outbox[e].holder = NoOne => outbox'[e] = outbox[e]
              /\ outbox[e].holder # NoOne => outbox'[e].age = Older(outbox[e].age, ClaimTTL)
         /\ inbox' \in [Events -> [Consumers -> InboxRows]]
         /\ \A e \in Events, c \in Consumers :
              /\ inbox'[e][c].status = inbox[e][c].status
              /\ inbox[e][c].status = "PROCESSING" => inbox'[e][c].age = Older(inbox[e][c].age, StaleClaim)
         /\ run' \in [Publishers -> Runs]
         /\ \A p \in Publishers :
              /\ run'[p].batch = run[p].batch /\ run'[p].retries = run[p].retries
              /\ Busy(p) => run'[p].age = Older(run[p].age, ClaimTTL)
              /\ \A c \in Consumers :
                   /\ run'[p].task[c].pc = run[p].task[c].pc
                   /\ Busy(p) /\ run[p].task[c].pc \in {"handling", "handled", "thrown"} =>
                        run'[p].task[c].age = Older(run[p].task[c].age, StaleClaim)
         /\ UNCHANGED <<effects, threw, shared, crashes, replays>>
<1>1. /\ outbox \in [Events -> OutboxRows] /\ inbox \in [Events -> [Consumers -> InboxRows]]
      /\ run \in [Publishers -> Runs] /\ ClaimTTL \in Nat /\ StaleClaim \in Nat
  BY DeliveryAssumption DEF TypeOK, DeliveryAssumption
<1>2. /\ \A n \in 0..ClaimTTL+1 : Older(n, ClaimTTL) \in 0..ClaimTTL+1
      /\ \A n \in 0..StaleClaim+1 : Older(n, StaleClaim) \in 0..StaleClaim+1
  BY <1>1, OlderLemma
<1>3. ASSUME NEW e \in Events
      PROVE  /\ outbox'[e] \in OutboxRows
             /\ outbox'[e].state = outbox[e].state /\ outbox'[e].failed = outbox[e].failed
             /\ outbox'[e].retries = outbox[e].retries /\ outbox'[e].holder = outbox[e].holder
             /\ outbox[e].holder = NoOne => outbox'[e] = outbox[e]
             /\ outbox[e].holder # NoOne => outbox'[e].age = Older(outbox[e].age, ClaimTTL)
  <2>1. outbox[e] \in OutboxRows /\ outbox[e].age \in 0..ClaimTTL+1
    BY <1>1 DEF OutboxRows
  <2>2. outbox'[e] = IF outbox[e].holder = NoOne THEN outbox[e]
                     ELSE [outbox[e] EXCEPT !.age = Older(outbox[e].age, ClaimTTL)]
    BY DEF Tick
  <2>3. QED
    BY <1>2, <2>1, <2>2 DEF OutboxRows
<1>4. outbox' \in [Events -> OutboxRows]
  <2>1. outbox' = [e \in Events |-> outbox'[e]]
    BY DEF Tick
  <2>2. QED
    BY <1>3, <2>1
<1>5. ASSUME NEW e \in Events, NEW c \in Consumers
      PROVE  /\ inbox'[e][c] \in InboxRows
             /\ inbox'[e][c].status = inbox[e][c].status
             /\ inbox[e][c].status = "PROCESSING" => inbox'[e][c].age = Older(inbox[e][c].age, StaleClaim)
  <2>1. inbox[e][c] \in InboxRows /\ inbox[e][c].age \in 0..StaleClaim+1
    BY <1>1 DEF InboxRows
  <2>2. inbox'[e][c] = IF inbox[e][c].status = "PROCESSING"
                       THEN [inbox[e][c] EXCEPT !.age = Older(inbox[e][c].age, StaleClaim)] ELSE inbox[e][c]
    BY DEF Tick
  <2>3. QED
    BY <1>2, <2>1, <2>2 DEF InboxRows
<1>6. inbox' \in [Events -> [Consumers -> InboxRows]]
  <2>1. inbox' = [e \in Events |-> [c \in Consumers |-> inbox'[e][c]]]
    BY DEF Tick
  <2>2. QED
    BY <1>5, <2>1
<1>7. ASSUME NEW p \in Publishers
      PROVE  /\ run'[p] \in Runs
             /\ run'[p].batch = run[p].batch /\ run'[p].retries = run[p].retries
             /\ Busy(p) => run'[p].age = Older(run[p].age, ClaimTTL)
             /\ \A c \in Consumers :
                  /\ run'[p].task[c].pc = run[p].task[c].pc
                  /\ Busy(p) /\ run[p].task[c].pc \in {"handling", "handled", "thrown"} =>
                       run'[p].task[c].age = Older(run[p].task[c].age, StaleClaim)
  <2> DEFINE task == [c \in Consumers |-> OlderTask(run[p].task[c])]
  <2>1. run[p] \in Runs /\ run[p].task \in [Consumers -> Tasks] /\ run[p].age \in 0..ClaimTTL+1
    BY <1>1 DEF Runs
  <2>2. \A c \in Consumers :
          /\ task[c] \in Tasks /\ task[c].pc = run[p].task[c].pc
          /\ run[p].task[c].pc \in {"handling", "handled", "thrown"} =>
               task[c].age = Older(run[p].task[c].age, StaleClaim)
    BY <1>2, <2>1 DEF OlderTask, Tasks
  <2>3. task \in [Consumers -> Tasks]
    BY <2>2
  <2>4. CASE ~ Busy(p)
    BY <2>1, <2>4 DEF Tick
  <2>5. CASE Busy(p)
    <3>1. run'[p] = [run[p] EXCEPT !.age = Older(@, ClaimTTL), !.task = task]
      BY <2>5 DEF Tick
    <3> HIDE DEF task
    <3>2. QED
      BY <1>2, <2>1, <2>2, <2>3, <2>5, <3>1 DEF Runs
  <2>6. QED
    BY <2>4, <2>5
<1>8. run' \in [Publishers -> Runs]
  <2>1. run' = [p \in Publishers |-> run'[p]]
    BY DEF Tick
  <2>2. QED
    BY <1>7, <2>1
<1>9. UNCHANGED <<effects, threw, shared, crashes, replays>>
  BY DEF Tick
<1>10. QED
  BY <1>3, <1>4, <1>5, <1>6, <1>7, <1>8, <1>9

LEMMA TickStep == ASSUME Shape, Tick PROVE Shape'
<1>1. TypeOK
  BY DEF Shape
<1>2. TypeOK'
  BY <1>1, TickWrites DEF TypeOK
<1>3. \A e \in Events : Row(e)'
  BY <1>1, TickWrites DEF Shape, Row, Parked
<1>4. ASSUME NEW q \in Publishers
      PROVE  Work(q)'
  <2>1. /\ run'[q].batch = run[q].batch /\ run'[q].retries = run[q].retries
        /\ \A c \in Consumers : run'[q].task[c].pc = run[q].task[c].pc
        /\ \A e \in Events : outbox'[e].state = outbox[e].state
        /\ run[q].batch \subseteq Events
    BY <1>1, TickWrites DEF TypeOK, Runs
  <2>2. QED
    BY <2>1 DEF Shape, Work, Busy, Current
<1>5. QED
  BY <1>2, <1>3, <1>4 DEF Shape

LEMMA ShapeInit == Init => Shape
<1>1. SUFFICES ASSUME Init PROVE Shape
  OBVIOUS
<1>2. /\ 0 \in 0..MaxRetries /\ 0 \in 0..ClaimTTL+1 /\ 0 \in 0..StaleClaim+1 /\ 0 \in 0..MaxCrashes
      /\ 0 \in 0..MaxReplays
  BY DeliveryAssumption DEF DeliveryAssumption
<1>3. TypeOK
  BY <1>1, <1>2, EndedLemma DEF Init, TypeOK, OutboxRows, InboxRows
<1>4. \A e \in Events : Row(e)
  BY <1>1 DEF Init, Row
<1>5. \A p \in Publishers : Work(p)
  BY <1>1, EndedLemma DEF Init, Work, Busy
<1>6. QED
  BY <1>3, <1>4, <1>5 DEF Shape

\* The actions of a run, in the groups the proofs treat alike.
LEMMA NextCases ==
  ASSUME Next
  PROVE  \/ \E e \in Events : Publish(e)
         \/ Tick
         \/ \E p \in Publishers : ClaimRows(p) \/ Finish(p) \/ Crash(p)
         \/ \E p \in Publishers, c \in Consumers : TaskStep(p, c)
         \/ \E given \in SUBSET Events : Replay(given)
BY DEF Next, RunStep, Finish, TaskStep

LEMMA ShapeNext == Shape /\ [Next]_vars => Shape'
<1>1. SUFFICES ASSUME Shape, [Next]_vars PROVE Shape'
  OBVIOUS
<1>2. CASE UNCHANGED vars
  BY <1>1, <1>2 DEF vars, Shape, TypeOK, Row, Parked, Work, Busy, Current
<1>3. CASE Next
  BY <1>1, <1>3, NextCases, PublishStep, TickStep, ClaimStep, FinishStep, CrashStep, TaskShape, ReplayStep
<1>4. QED
  BY <1>1, <1>2, <1>3

LEMMA ShapeInvariant == Spec => []Shape
BY ShapeInit, ShapeNext, PTL DEF Spec

\* The tables and the runs keep their types: no retry count passes MAX_RETRIES.
THEOREM TypeCorrect == Spec => []TypeOK
<1>1. Shape => TypeOK
  BY DEF Shape
<1>2. QED
  BY <1>1, ShapeInvariant, PTL

-----------------------------------------------------------------------------
(* The claims of the publisher. *)

\* A run whose claim has not expired holds the rows of its batch, and is as old
\* as their claims.
Held(p) ==
  \A e \in run[p].batch : run[p].age <= ClaimTTL =>
    outbox[e].holder = p /\ outbox[e].age = run[p].age

Claims == \A p \in Publishers : Held(p)

LEMMA ClaimsNext == Shape /\ Claims /\ [Next]_vars => Claims'
<1>1. SUFFICES ASSUME Shape, Claims, [Next]_vars PROVE Claims'
  OBVIOUS
<1>2. \A q \in Publishers : run[q] \in Runs /\ run[q].batch \subseteq Events /\ run[q].age \in Int /\ q # NoOne
  BY <1>1, DeliveryAssumption DEF Shape, TypeOK, Runs, DeliveryAssumption
<1>3. ASSUME NEW p \in Publishers, Finish(p)
      PROVE  Claims'
  <2> DEFINE e == Current(p)
  <2>1. /\ Busy(p) /\ e \in Events /\ NextRow(p)
        /\ \A f \in Events : f # e => outbox'[f] = outbox[f]
        /\ outbox' = outbox \/ Owns(p, e)
    BY <1>1, <1>3, FinishWrites
  <2>2. /\ \A q \in Publishers : q # p => run'[q] = run[q]
        /\ run'[p].batch = run[p].batch \ {e}
        /\ run'[p].batch # {} => run'[p].age = run[p].age
    BY <1>1, <2>1, NextRowWrites DEF Shape
  <2>3. Held(p)'
    BY <1>1, <1>2, <2>1, <2>2 DEF Claims, Held
  <2>4. ASSUME NEW q \in Publishers, q # p
        PROVE  Held(q)'
    <3>1. run'[q] = run[q] /\ Held(q)
      BY <1>1, <2>2, <2>4 DEF Claims
    <3>2. \A f \in run[q].batch : run[q].age <= ClaimTTL => outbox'[f] = outbox[f]
      BY <1>2, <2>1, <2>4, <3>1 DEF Held, Owns
    <3>3. QED
      BY <3>1, <3>2 DEF Held
  <2>5. QED
    BY <2>3, <2>4 DEF Claims
<1>4. ASSUME NEW p \in Publishers, ClaimRows(p)
      PROVE  Claims'
  <2>1. PICK claimed \in SUBSET Events :
          /\ \A e \in claimed : Deliverable(e)
          /\ \A e \in claimed : outbox'[e] = [outbox[e] EXCEPT !.holder = p, !.age = 0]
          /\ \A e \in Events \ claimed : outbox'[e] = outbox[e]
          /\ run'[p] = [batch |-> claimed, retries |-> [e \in Events |-> outbox[e].retries],
                        age |-> 0, task |-> NoTasks]
          /\ \A q \in Publishers : q # p => run'[q] = run[q]
    BY <1>1, <1>4, ClaimWrites
  <2>2. Held(p)'
    <3>1. run'[p].batch = claimed /\ run'[p].age = 0
      <4>1. run'[p] = [batch |-> claimed, retries |-> [e \in Events |-> outbox[e].retries],
                       age |-> 0, task |-> NoTasks]
        BY <2>1
      <4>2. QED
        BY <4>1
    <3>2. ASSUME NEW e \in claimed
          PROVE  outbox'[e].holder = p /\ outbox'[e].age = 0
      <4>1. outbox[e] \in OutboxRows /\ outbox'[e] = [outbox[e] EXCEPT !.holder = p, !.age = 0]
        BY <1>1, <2>1 DEF Shape, TypeOK
      <4>2. QED
        BY <4>1 DEF OutboxRows
    <3>3. QED
      BY <3>1, <3>2 DEF Held
  <2>3. ASSUME NEW q \in Publishers, q # p
        PROVE  Held(q)'
    <3>1. run'[q] = run[q] /\ Held(q)
      BY <1>1, <2>1, <2>3 DEF Claims
    <3>2. ASSUME NEW f \in run[q].batch, run[q].age <= ClaimTTL
          PROVE  f \notin claimed
      <4>1. outbox[f].holder = q /\ outbox[f].age = run[q].age
        BY <3>1, <3>2 DEF Held
      <4>2. ~ Deliverable(f)
        <5>1. outbox[f].holder # NoOne
          BY <1>2, <4>1
        <5>2. ~ (outbox[f].age > ClaimTTL)
          BY <1>2, <3>2, <4>1, DeliveryAssumption DEF DeliveryAssumption
        <5>3. QED
          BY <5>1, <5>2 DEF Deliverable
      <4>3. QED
        BY <2>1, <4>2
    <3>3. QED
      BY <1>2, <2>1, <3>1, <3>2 DEF Held
  <2>4. QED
    BY <2>2, <2>3 DEF Claims
<1>5. CASE Tick
  <2>1. ASSUME NEW p \in Publishers, NEW e \in run'[p].batch, run'[p].age <= ClaimTTL
        PROVE  outbox'[e].holder = p /\ outbox'[e].age = run'[p].age
    <3>1. /\ run'[p].batch = run[p].batch /\ Busy(p) /\ e \in Events
          /\ run'[p].age = Older(run[p].age, ClaimTTL)
          /\ outbox'[e].holder = outbox[e].holder
          /\ outbox[e].holder # NoOne => outbox'[e].age = Older(outbox[e].age, ClaimTTL)
      BY <1>1, <1>2, <1>5, <2>1, TickWrites DEF Shape, Busy
    <3>2. run[p].age <= ClaimTTL
      BY <1>2, <2>1, <3>1, DeliveryAssumption DEF Older, DeliveryAssumption
    <3>3. outbox[e].holder = p /\ outbox[e].age = run[p].age
      BY <1>1, <3>1, <3>2 DEF Claims, Held
    <3>4. QED
      BY <1>2, <3>1, <3>3
  <2>2. QED
    BY <2>1 DEF Claims, Held
<1>6. ASSUME NEW e \in Events, Publish(e)
      PROVE  Claims'
  <2>1. run' = run /\ \A f \in Events : f # e => outbox'[f] = outbox[f]
    BY <1>1, <1>6 DEF Publish, Shape, TypeOK
  <2>2. \A p \in Publishers : e \notin run[p].batch
    BY <1>1, <1>6 DEF Publish, Shape, Work
  <2>3. QED
    BY <1>1, <1>2, <2>1, <2>2 DEF Claims, Held
<1>7. ASSUME NEW given \in SUBSET Events, Replay(given)
      PROVE  Claims'
  <2>1. PICK rows \in SUBSET Events :
           /\ \A e \in rows : outbox'[e] = [outbox[e] EXCEPT !.retries = 0, !.failed = FALSE]
           /\ \A e \in Events \ rows : outbox'[e] = outbox[e]
           /\ run' = run
    BY <1>1, <1>7, ReplayWrites
  <2>2. ASSUME NEW e \in Events
        PROVE  outbox'[e].holder = outbox[e].holder /\ outbox'[e].age = outbox[e].age
    <3>1. outbox[e] \in OutboxRows
      BY <1>1 DEF Shape, TypeOK
    <3>2. CASE e \in rows
      <4>1. outbox'[e] = [outbox[e] EXCEPT !.retries = 0, !.failed = FALSE]
        BY <2>1, <3>2
      <4>2. QED
        BY <3>1, <4>1 DEF OutboxRows
    <3>3. CASE e \notin rows
      BY <2>1, <3>3
    <3>4. QED
      BY <3>2, <3>3
  <2>3. QED
    BY <1>1, <1>2, <2>1, <2>2 DEF Claims, Held
<1>8. ASSUME NEW p \in Publishers, NEW c \in Consumers, TaskStep(p, c)
      PROVE  Claims'
  <2>1. PICK t \in Tasks : Writes(p, c, t)
    BY <1>1, <1>8, TaskStepWrites
  <2>2. outbox' = outbox
    BY <1>1, <1>8, TaskStepWrites
  <2>3. /\ run'[p].batch = run[p].batch /\ run'[p].age = run[p].age
        /\ \A q \in Publishers : q # p => run'[q] = run[q]
    BY <1>1, <2>1, TaskWrites DEF Shape
  <2>4. QED
    BY <1>1, <2>2, <2>3 DEF Claims, Held
<1>9. ASSUME NEW p \in Publishers, Crash(p)
      PROVE  Claims'
  <2>1. outbox' = outbox /\ run'[p] = EndedRun /\ \A q \in Publishers : q # p => run'[q] = run[q]
    BY <1>1, <1>9 DEF Crash, Shape, TypeOK
  <2>2. QED
    BY <1>1, <2>1, EndedLemma DEF Claims, Held
<1>10. CASE UNCHANGED vars
  BY <1>1, <1>10 DEF vars, Claims, Held
<1>11. QED
  BY <1>1, <1>3, <1>4, <1>5, <1>6, <1>7, <1>8, <1>9, <1>10, NextCases

\* Two publisher runs work on the same row only when the claim of one of them
\* has expired (claimRows: claimed_by, claim_expires_at).
THEOREM SharedRowExpired == Spec => []TwoRunsNeedExpiredClaim
<1>1. Init => Claims
  BY EndedLemma DEF Init, Claims, Held
<1>2. ASSUME Shape, Claims, NEW p \in Publishers, NEW q \in Publishers, NEW e \in Events,
             p # q, e \in run[p].batch, e \in run[q].batch
      PROVE  run[p].age > ClaimTTL \/ run[q].age > ClaimTTL
  <2>1. run[p].age \in Int /\ run[q].age \in Int /\ ClaimTTL \in Int
    BY <1>2, DeliveryAssumption DEF Shape, TypeOK, Runs, DeliveryAssumption
  <2>2. QED
    BY <1>2, <2>1 DEF Claims, Held
<1>3. Shape /\ Claims => TwoRunsNeedExpiredClaim
  BY <1>2 DEF TwoRunsNeedExpiredClaim
<1>4. QED
  BY <1>1, <1>3, ClaimsNext, ShapeInvariant, PTL DEF Spec

-----------------------------------------------------------------------------
(* Parked and published rows. *)

\* What no step but a replay does to a row.
Untouched(e) ==
  /\ outbox[e].state = "published" => outbox'[e] = outbox[e]
  /\ outbox[e].state = "unpublished" /\ Parked(e) /\ ~ Parked(e)' => replays' = replays + 1

LEMMA UntouchedNext == ASSUME Shape, [Next]_vars, NEW e \in Events PROVE Untouched(e)
<1>1. Row(e) /\ outbox[e] \in OutboxRows
  BY DEF Shape, TypeOK
<1>2. CASE outbox'[e] = outbox[e]
  BY <1>2 DEF Untouched, Parked
<1>3. CASE Tick
  <2>1. /\ outbox'[e].failed = outbox[e].failed /\ outbox'[e].retries = outbox[e].retries
        /\ outbox[e].holder = NoOne => outbox'[e] = outbox[e]
    BY <1>3, TickWrites DEF Shape
  <2>2. QED
    BY <1>1, <2>1 DEF Untouched, Row, Parked
<1>4. ASSUME NEW p \in Publishers, Finish(p)
      PROVE  Untouched(e)
  <2>1. outbox'[e] = outbox[e] \/ outbox[e].holder = p
    BY <1>4, FinishWrites DEF Owns
  <2>2. CASE outbox[e].holder = p
    <3>1. outbox[e].holder # NoOne
      BY <2>2, DeliveryAssumption DEF DeliveryAssumption
    <3>2. QED
      BY <1>1, <3>1 DEF Untouched, Row
  <2>3. QED
    BY <1>2, <2>1, <2>2
<1>5. ASSUME NEW p \in Publishers, ClaimRows(p)
      PROVE  Untouched(e)
  <2>1. Deliverable(e) \/ outbox'[e] = outbox[e]
    BY <1>5, ClaimWrites
  <2>2. CASE Deliverable(e)
    BY <2>2 DEF Untouched, Deliverable
  <2>3. QED
    BY <1>2, <2>1, <2>2
<1>6. ASSUME NEW given \in SUBSET Events, Replay(given)
      PROVE  Untouched(e)
  <2>1. replays' = replays + 1 /\ (outbox[e].state = "unpublished" \/ outbox'[e] = outbox[e])
    BY <1>6, ReplayWrites
  <2>2. QED
    BY <2>1 DEF Untouched
<1>7. ASSUME NEW f \in Events, Publish(f)
      PROVE  Untouched(e)
  <2>1. outbox[f].state = "absent" /\ (e # f => outbox'[e] = outbox[e])
    BY <1>7 DEF Publish, Shape, TypeOK
  <2>2. QED
    BY <1>2, <2>1 DEF Untouched
<1>8. ASSUME NEW p \in Publishers, NEW c \in Consumers, TaskStep(p, c)
      PROVE  Untouched(e)
  BY <1>2, <1>8, TaskStepWrites
<1>9. ASSUME NEW p \in Publishers, Crash(p)
      PROVE  Untouched(e)
  BY <1>2, <1>9 DEF Crash
<1>10. CASE UNCHANGED vars
  BY <1>2, <1>10 DEF vars
<1>11. QED
  BY <1>3, <1>4, <1>5, <1>6, <1>7, <1>8, <1>9, <1>10, NextCases

\* Only a replay brings a parked row back, and a published row is final: a late
\* run does not own what it would overwrite (WHERE claimed_by = token).
THEOREM ParkedStays == Spec => ParkedUntilReplay
<1>1. Shape /\ [Next]_vars => \A e \in Events : Untouched(e)
  BY UntouchedNext
<1>2. Shape /\ [Next]_vars =>
        \A e \in Events :
          /\ outbox[e].state = "published" => outbox'[e] = outbox[e]
          /\ outbox[e].state = "unpublished" /\ Parked(e) /\ ~ Parked(e)' => replays' = replays + 1
  BY <1>1 DEF Untouched
<1>3. QED
  BY <1>2, ShapeInvariant, PTL DEF Spec, ParkedUntilReplay

-----------------------------------------------------------------------------
(* The slots of the inbox. *)

LEMMA SetTaskWrites ==
  ASSUME TypeOK, NEW p \in Publishers, NEW c \in Consumers,
         NEW pc \in {"handling", "handled", "thrown", "ok", "failed"}, SetTask(p, c, pc)
  PROVE  run'[p].task[c].pc = pc /\ run'[p].task[c].age = run[p].task[c].age
<1> DEFINE t == [run[p].task[c] EXCEPT !.pc = pc]
<1>1. run[p].task[c] \in Tasks
  BY DEF TypeOK, Runs
<1>2. t \in Tasks /\ t.pc = pc /\ t.age = run[p].task[c].age
  BY <1>1 DEF Tasks
<1>3. Writes(p, c, t)
  BY DEF SetTask, Writes
<1> HIDE DEF t
<1>4. run'[p].task[c] = t
  BY <1>2, <1>3, TaskWrites
<1>5. QED
  BY <1>2, <1>4

LEMMA SlotLemma ==
  ASSUME TypeOK, NEW e \in Events, NEW c \in Consumers, NEW row
  PROVE  /\ Put(inbox, e, c, row)[e][c] = row
         /\ \A a \in Events : \A b \in Consumers : a # e \/ b # c => Put(inbox, e, c, row)[a][b] = inbox[a][b]
<1>1. inbox = [a \in Events |-> inbox[a]] /\ \A a \in Events : inbox[a] = [b \in Consumers |-> inbox[a][b]]
  BY DEF TypeOK
<1>2. QED
  BY <1>1, PutLemma

LEMMA CountLemma ==
  ASSUME TypeOK, NEW e \in Events, NEW c \in Consumers, CountEffect(e, c)
  PROVE  /\ effects'[e][c] > 0 /\ effects'[e][c] <= effects[e][c] + 1
         /\ \A a \in Events : \A b \in Consumers : a # e \/ b # c => effects'[a][b] = effects[a][b]
<1> DEFINE n == IF effects[e][c] < 2 THEN effects[e][c] + 1 ELSE effects[e][c]
<1>1. effects \in [Events -> [Consumers -> 0..2]] /\ effects[e][c] \in 0..2
  BY DEF TypeOK
<1>2. n \in 0..2 /\ n > 0 /\ n <= effects[e][c] + 1
  BY <1>1
<1>3. effects' = Put(effects, e, c, n)
  BY DEF CountEffect, Put
<1> HIDE DEF n
<1>4. /\ Put(effects, e, c, n)[e][c] = n
      /\ \A a \in Events : \A b \in Consumers : a # e \/ b # c => Put(effects, e, c, n)[a][b] = effects[a][b]
  <2>1. effects = [a \in Events |-> effects[a]] /\ \A a \in Events : effects[a] = [b \in Consumers |-> effects[a][b]]
    BY <1>1
  <2>2. QED
    BY <2>1, PutLemma
<1>5. QED
  BY <1>2, <1>3, <1>4

\* A part in the delivery touches the slot of its own event and consumer only.
LEMMA TaskElsewhere ==
  ASSUME Shape, NEW p \in Publishers, NEW d \in Consumers, TaskStep(p, d),
         NEW e \in Events, NEW c \in Consumers, e # Current(p) \/ c # d
  PROVE  /\ inbox'[e][c] = inbox[e][c] /\ effects'[e][c] = effects[e][c]
         /\ (c \in shared'[e]) <=> (c \in shared[e])
         /\ \A q \in Publishers : Handling(q, e, c)' =>
              Handling(q, e, c) /\ run'[q].task[c] = run[q].task[c]
<1> DEFINE x == Current(p)
<1>1. x \in Events /\ TypeOK
  BY TaskStepWrites DEF Shape
<1>2. inbox'[e][c] = inbox[e][c]
  <2>1. inbox' = inbox \/ \E row \in InboxRows : inbox' = Put(inbox, x, d, row)
    BY TaskStepWrites
  <2>2. ASSUME NEW row \in InboxRows
        PROVE  Put(inbox, x, d, row)[e][c] = inbox[e][c]
    BY <1>1, SlotLemma
  <2>3. QED
    BY <2>1, <2>2
<1>3. effects'[e][c] = effects[e][c]
  <2>1. effects' = effects \/ CountEffect(x, d)
    BY TaskStepWrites
  <2>2. QED
    BY <1>1, <2>1, CountLemma
<1>4. (c \in shared'[e]) <=> (c \in shared[e])
  <2>1. shared' = shared \/ shared' = [shared EXCEPT ![x] = @ \cup {d}]
    BY TaskStepWrites
  <2>2. QED
    BY <1>1, <2>1 DEF TypeOK
<1>5. ASSUME NEW q \in Publishers, Handling(q, e, c)'
      PROVE  Handling(q, e, c) /\ run'[q].task[c] = run[q].task[c]
  <2>1. PICK t \in Tasks : Writes(p, d, t)
    BY TaskStepWrites
  <2>2. /\ run'[p].batch = run[p].batch
        /\ \A b \in Consumers : b # d => run'[p].task[b] = run[p].task[b]
        /\ \A r \in Publishers : r # p => run'[r] = run[r]
    BY <1>1, <2>1, TaskWrites
  <2>3. CASE q # p
    BY <1>5, <2>2, <2>3 DEF Handling, Busy, Current
  <2>4. CASE q = p
    <3>1. Current(p)' = x /\ e = x
      BY <1>5, <2>2, <2>4 DEF Handling, Current
    <3>2. c # d
      BY <3>1
    <3>3. QED
      BY <1>5, <2>2, <2>4, <3>1, <3>2 DEF Handling, Busy
  <2>5. QED
    BY <2>3, <2>4
<1>6. QED
  BY <1>2, <1>3, <1>4, <1>5

\* What a part in the delivery makes of its slot.
LEMMA TaskHere ==
  ASSUME Shape, NEW p \in Publishers, NEW c \in Consumers, TaskStep(p, c)
  PROVE  LET e   == Current(p)
             old == run[p].task[c]
             new == run'[p].task[c]
         IN
         \/ /\ old.pc = "todo" /\ Takeable(e, c) /\ new = [pc |-> "handling", age |-> 0]
            /\ inbox'[e][c] = [status |-> "PROCESSING", age |-> 0] /\ effects' = effects
            /\ shared' = shared \/ (c \in shared'[e] /\ \E q \in Publishers : q # p /\ Handling(q, e, c))
            /\ c \notin shared'[e] => \A q \in Publishers : q # p => ~ Handling(q, e, c)
         \/ /\ new.pc \in {"ok", "failed"} /\ UNCHANGED <<inbox, effects, shared>>
            /\ new.pc = "ok" => inbox[e][c].status = "PROCESSED"
         \/ /\ Handling(p, e, c) /\ new.pc = "ok" /\ shared' = shared
            /\ inbox'[e][c] = [status |-> "PROCESSED", age |-> 0]
            /\ \/ effects'[e][c] > 0 /\ effects'[e][c] <= effects[e][c] + 1
               \/ old.pc = "handled" /\ effects' = effects
         \/ /\ Handling(p, e, c) /\ new.pc = "failed" /\ UNCHANGED <<effects, shared>>
            /\ inbox'[e][c] = [status |-> "FAILED", age |-> 0]
         \/ /\ Handling(p, e, c) /\ new.pc \in {"handled", "thrown"} /\ new.age = old.age
            /\ UNCHANGED <<inbox, shared>>
            /\ \/ c \notin Transactional /\ effects'[e][c] > 0
               \/ new.pc = "thrown" /\ effects' = effects
<1> DEFINE e   == Current(p)
           old == run[p].task[c]
           new == run'[p].task[c]
<1>1. TypeOK /\ e \in Events /\ Busy(p)
  BY TaskStepWrites DEF Shape
<1>2. \A pc \in {"handling", "handled", "thrown", "ok", "failed"} :
        SetTask(p, c, pc) => new.pc = pc /\ new.age = old.age
  BY <1>1, SetTaskWrites
<1>3. \A s \in {"PROCESSING", "PROCESSED", "FAILED"} :
        inbox' = Put(inbox, e, c, [status |-> s, age |-> 0]) => inbox'[e][c] = [status |-> s, age |-> 0]
  <2>1. \A s \in {"PROCESSING", "PROCESSED", "FAILED"} : [status |-> s, age |-> 0] \in InboxRows
    BY DeliveryAssumption DEF InboxRows, DeliveryAssumption
  <2>2. QED
    BY <1>1, <2>1, SlotLemma
<1>4. CountEffect(e, c) => effects'[e][c] > 0 /\ effects'[e][c] <= effects[e][c] + 1
  BY <1>1, CountLemma
<1>5. CASE InboxClaim(p, c)
  <2>1. CASE /\ Takeable(e, c)
             /\ inbox' = [inbox EXCEPT ![e][c] = [status |-> "PROCESSING", age |-> 0]]
             /\ run' = [run EXCEPT ![p].task[c] = [pc |-> "handling", age |-> 0]]
             /\ shared' = IF \E q \in Publishers \ {p} : Handling(q, e, c)
                          THEN [shared EXCEPT ![e] = @ \cup {c}] ELSE shared
    <3>1. new = [pc |-> "handling", age |-> 0]
      <4>1. [pc |-> "handling", age |-> 0] \in Tasks
        BY DeliveryAssumption DEF Tasks, DeliveryAssumption
      <4>2. Writes(p, c, [pc |-> "handling", age |-> 0])
        BY <2>1 DEF Writes
      <4>3. QED
        BY <1>1, <4>1, <4>2, TaskWrites
    <3>2. inbox'[e][c] = [status |-> "PROCESSING", age |-> 0]
      BY <1>3, <2>1 DEF Put
    <3>3. old.pc = "todo" /\ effects' = effects
      BY <1>5 DEF InboxClaim
    <3>4. /\ shared' = shared \/ (c \in shared'[e] /\ \E q \in Publishers : q # p /\ Handling(q, e, c))
          /\ c \notin shared'[e] => \A q \in Publishers : q # p => ~ Handling(q, e, c)
      <4>1. shared \in [Events -> SUBSET Consumers]
        BY <1>1 DEF TypeOK
      <4>2. CASE \E q \in Publishers \ {p} : Handling(q, e, c)
        <5>1. shared' = [shared EXCEPT ![e] = @ \cup {c}]
          BY <2>1, <4>2
        <5>2. c \in shared'[e]
          BY <1>1, <4>1, <5>1
        <5>3. \E q \in Publishers : q # p /\ Handling(q, e, c)
          BY <4>2
        <5>4. QED
          BY <5>2, <5>3
      <4>3. CASE ~ \E q \in Publishers \ {p} : Handling(q, e, c)
        <5>1. shared' = shared
          BY <2>1, <4>3
        <5>2. \A q \in Publishers : q # p => ~ Handling(q, e, c)
          BY <4>3
        <5>3. QED
          BY <5>1, <5>2
      <4>4. QED
        BY <4>2, <4>3
    <3>5. QED
      BY <2>1, <3>1, <3>2, <3>3, <3>4
  <2>2. CASE /\ SetTask(p, c, IF inbox[e][c].status = "PROCESSED" THEN "ok" ELSE "failed")
             /\ UNCHANGED <<inbox, shared>>
    BY <1>2, <1>5, <2>2 DEF InboxClaim
  <2>3. CASE SetTask(p, c, "failed") /\ UNCHANGED <<inbox, shared>>
    BY <1>2, <1>5, <2>3 DEF InboxClaim
  <2>4. QED
    BY <1>5, <2>1, <2>2, <2>3 DEF InboxClaim
<1>6. CASE HandleInTransaction(p, c)
  BY <1>1, <1>2, <1>3, <1>4, <1>6 DEF HandleInTransaction, Handling, Put
<1>7. CASE HandleOnItsOwn(p, c)
  BY <1>1, <1>2, <1>4, <1>7 DEF HandleOnItsOwn, Handling
<1>8. CASE MarkProcessed(p, c)
  BY <1>1, <1>2, <1>3, <1>8 DEF MarkProcessed, Handling, Put
<1>9. CASE HandleThrows(p, c)
  BY <1>1, <1>2, <1>9 DEF HandleThrows, Handling
<1>10. CASE RecordThrow(p, c)
  BY <1>1, <1>2, <1>3, <1>10 DEF RecordThrow, Handling, Put
<1>11. QED
  BY <1>5, <1>6, <1>7, <1>8, <1>9, <1>10 DEF TaskStep

\* A slot that no one was robbed of: its one worker holds the claim, as old as
\* the work, and a transactional effect is there exactly once it is marked.
Slot(e, c) ==
  c \notin shared[e] =>
    /\ \A p, q \in Publishers : Handling(p, e, c) /\ Handling(q, e, c) => p = q
    /\ \A p \in Publishers : Handling(p, e, c) =>
         inbox[e][c].status = "PROCESSING" /\ inbox[e][c].age = run[p].task[c].age
    /\ c \in Transactional /\ effects[e][c] > 0 =>
         effects[e][c] <= 1 /\ inbox[e][c].status = "PROCESSED"

Slots == \A e \in Events : \A c \in Consumers : Slot(e, c)

\* No one starts on the slot, and the slot stays as it is.
LEMMA SlotKept ==
  ASSUME NEW e \in Events, NEW c \in Consumers, Slot(e, c),
         inbox'[e][c] = inbox[e][c], effects'[e][c] = effects[e][c],
         (c \in shared'[e]) <=> (c \in shared[e]),
         \A q \in Publishers : Handling(q, e, c)' =>
           Handling(q, e, c) /\ run'[q].task[c].age = run[q].task[c].age
  PROVE  Slot(e, c)'
<1>1. SUFFICES ASSUME c \notin shared'[e]
               PROVE  /\ \A p, q \in Publishers : Handling(p, e, c)' /\ Handling(q, e, c)' => p = q
                      /\ \A p \in Publishers : Handling(p, e, c)' =>
                           inbox'[e][c].status = "PROCESSING" /\ inbox'[e][c].age = run'[p].task[c].age
                      /\ c \in Transactional /\ effects'[e][c] > 0 =>
                           effects'[e][c] <= 1 /\ inbox'[e][c].status = "PROCESSED"
  BY DEF Slot
<1>2. c \notin shared[e]
  BY <1>1
<1>3. \A p, q \in Publishers : Handling(p, e, c) /\ Handling(q, e, c) => p = q
  BY <1>2 DEF Slot
<1>4. \A p \in Publishers : Handling(p, e, c) =>
        inbox[e][c].status = "PROCESSING" /\ inbox[e][c].age = run[p].task[c].age
  BY <1>2 DEF Slot
<1>5. c \in Transactional /\ effects[e][c] > 0 =>
        effects[e][c] <= 1 /\ inbox[e][c].status = "PROCESSED"
  BY <1>2 DEF Slot
<1>6. QED
  BY <1>3, <1>4, <1>5

\* The slot a part in the delivery is about.
LEMMA SlotHere ==
  ASSUME Shape, Slots, NEW p \in Publishers, NEW c \in Consumers, TaskStep(p, c),
         NEW e \in Events, e = Current(p)
  PROVE  Slot(e, c)'
<1>1. TypeOK /\ Busy(p) /\ effects[e][c] \in 0..2
  BY TaskStepWrites DEF Shape, TypeOK
<1>2. Slot(e, c)
  BY <1>1 DEF Slots
<1>3. PICK t \in Tasks : Writes(p, c, t)
  BY TaskStepWrites
<1>4. /\ run'[p].batch = run[p].batch /\ \A q \in Publishers : q # p => run'[q] = run[q]
  BY <1>1, <1>3, TaskWrites
<1>5. /\ \A q \in Publishers : q # p => Handling(q, e, c)' = Handling(q, e, c)
      /\ Handling(p, e, c)' = (run'[p].task[c].pc \in {"handling", "handled", "thrown"})
      /\ Handling(p, e, c) = (run[p].task[c].pc \in {"handling", "handled", "thrown"})
  BY <1>1, <1>4 DEF Handling, Busy, Current
<1>6. CASE /\ run[p].task[c].pc = "todo" /\ Takeable(e, c)
           /\ run'[p].task[c] = [pc |-> "handling", age |-> 0]
           /\ inbox'[e][c] = [status |-> "PROCESSING", age |-> 0] /\ effects' = effects
           /\ shared' = shared \/ (c \in shared'[e] /\ \E q \in Publishers : q # p /\ Handling(q, e, c))
           /\ c \notin shared'[e] => \A q \in Publishers : q # p => ~ Handling(q, e, c)
  <2>1. SUFFICES ASSUME c \notin shared'[e] PROVE Slot(e, c)'
    BY DEF Slot
  <2>2. c \notin shared[e] /\ \A q \in Publishers : q # p => ~ Handling(q, e, c)'
    BY <1>5, <1>6, <2>1
  <2>3. ~ (c \in Transactional /\ effects'[e][c] > 0)
    BY <1>2, <1>6, <2>2 DEF Slot, Takeable
  <2>4. run'[p].task[c].age = 0 /\ inbox'[e][c].age = 0 /\ inbox'[e][c].status = "PROCESSING"
    BY <1>6
  <2>5. QED
    BY <2>2, <2>3, <2>4 DEF Slot
<1>7. CASE run'[p].task[c].pc \in {"ok", "failed"} /\ UNCHANGED <<inbox, effects, shared>>
  <2>1. ~ Handling(p, e, c)'
    BY <1>5, <1>7
  <2>2. \A q \in Publishers : Handling(q, e, c)' => Handling(q, e, c) /\ run'[q].task[c].age = run[q].task[c].age
    BY <1>4, <1>5, <2>1
  <2>3. QED
    BY <1>1, <1>2, <1>7, <2>2, SlotKept
<1>8. CASE /\ Handling(p, e, c) /\ run'[p].task[c].pc \in {"ok", "failed"} /\ shared' = shared
           /\ \/ /\ inbox'[e][c] = [status |-> "PROCESSED", age |-> 0]
                 /\ effects'[e][c] <= effects[e][c] + 1 \/ effects' = effects
              \/ effects' = effects /\ inbox'[e][c] = [status |-> "FAILED", age |-> 0]
  <2>1. SUFFICES ASSUME c \notin shared[e] PROVE Slot(e, c)'
    BY <1>8 DEF Slot
  <2>2. \A q \in Publishers : ~ Handling(q, e, c)'
    BY <1>2, <1>5, <1>8, <2>1 DEF Slot
  <2>3. ~ (c \in Transactional /\ effects[e][c] > 0)
    BY <1>2, <1>8, <2>1 DEF Slot
  <2>4. c \in Transactional /\ effects'[e][c] > 0 => effects'[e][c] <= 1 /\ inbox'[e][c].status = "PROCESSED"
    BY <1>1, <1>8, <2>3
  <2>5. QED
    BY <2>2, <2>4 DEF Slot
<1>9. CASE /\ Handling(p, e, c) /\ run'[p].task[c].age = run[p].task[c].age
           /\ UNCHANGED <<inbox, shared>>
           /\ c \notin Transactional \/ effects' = effects
  <2>1. \A q \in Publishers : Handling(q, e, c)' => Handling(q, e, c) /\ run'[q].task[c].age = run[q].task[c].age
    BY <1>4, <1>5, <1>9
  <2>2. CASE effects' = effects
    BY <1>1, <1>2, <1>9, <2>1, <2>2, SlotKept
  <2>3. CASE c \notin Transactional
    BY <1>2, <1>9, <2>1, <2>3 DEF Slot
  <2>4. QED
    BY <1>9, <2>2, <2>3
<1>10. QED
  BY <1>6, <1>7, <1>8, <1>9, TaskHere

LEMMA SlotsNext == Shape /\ Slots /\ [Next]_vars => Slots'
<1>1. SUFFICES ASSUME Shape, Slots, [Next]_vars, NEW e \in Events, NEW c \in Consumers
               PROVE  Slot(e, c)'
  BY DEF Slots
<1>2. Slot(e, c) /\ TypeOK
  BY <1>1 DEF Slots, Shape
<1>3. ASSUME UNCHANGED <<inbox, effects, shared>>,
             \A q \in Publishers : Handling(q, e, c)' =>
               Handling(q, e, c) /\ run'[q].task[c].age = run[q].task[c].age
      PROVE  Slot(e, c)'
  BY <1>2, <1>3, SlotKept
<1>4. ASSUME NEW p \in Publishers, UNCHANGED <<inbox, effects, shared>>, ~ Handling(p, e, c)',
             \A q \in Publishers : q # p => run'[q] = run[q]
      PROVE  Slot(e, c)'
  <2>1. \A q \in Publishers : Handling(q, e, c)' =>
          Handling(q, e, c) /\ run'[q].task[c].age = run[q].task[c].age
    BY <1>4 DEF Handling, Busy, Current
  <2>2. QED
    BY <1>3, <1>4, <2>1
<1>5. ASSUME NEW p \in Publishers, Finish(p)
      PROVE  Slot(e, c)'
  <2>1. Busy(p) /\ NextRow(p) /\ UNCHANGED <<inbox, effects, shared>>
    BY <1>1, <1>5, FinishWrites
  <2>2. run'[p].task[c] = Todo /\ \A q \in Publishers : q # p => run'[q] = run[q]
    BY <1>2, <2>1, NextRowWrites
  <2>3. ~ Handling(p, e, c)'
    BY <2>2 DEF Handling, Todo
  <2>4. QED
    BY <1>4, <2>1, <2>2, <2>3
<1>6. ASSUME NEW p \in Publishers, ClaimRows(p)
      PROVE  Slot(e, c)'
  <2>1. PICK claimed \in SUBSET Events :
          /\ run'[p] = [batch |-> claimed, retries |-> [x \in Events |-> outbox[x].retries],
                        age |-> 0, task |-> NoTasks]
          /\ \A q \in Publishers : q # p => run'[q] = run[q]
          /\ UNCHANGED <<inbox, effects, threw, shared, crashes, replays>>
    BY <1>1, <1>6, ClaimWrites
  <2>2. run'[p].task = NoTasks
    <3>1. run'[p] = [batch |-> claimed, retries |-> [x \in Events |-> outbox[x].retries],
                     age |-> 0, task |-> NoTasks]
      BY <2>1
    <3>2. QED
      BY <3>1
  <2>3. ~ Handling(p, e, c)'
    BY <2>2 DEF Handling, NoTasks, Todo
  <2>4. QED
    BY <1>4, <2>1, <2>3
<1>7. ASSUME NEW p \in Publishers, Crash(p)
      PROVE  Slot(e, c)'
  <2>1. /\ UNCHANGED <<inbox, effects, shared>> /\ run'[p] = EndedRun
        /\ \A q \in Publishers : q # p => run'[q] = run[q]
    BY <1>2, <1>7 DEF Crash, TypeOK
  <2>2. ~ Handling(p, e, c)'
    BY <2>1, EndedLemma DEF Handling, Busy
  <2>3. QED
    BY <1>4, <2>1, <2>2
<1>8. ASSUME NEW p \in Publishers, NEW d \in Consumers, TaskStep(p, d)
      PROVE  Slot(e, c)'
  <2>1. CASE e = Current(p) /\ c = d
    BY <1>1, <1>8, <2>1, SlotHere
  <2>2. CASE e # Current(p) \/ c # d
    BY <1>1, <1>2, <1>8, <2>2, TaskElsewhere, SlotKept
  <2>3. QED
    BY <2>1, <2>2
<1>9. CASE Tick
  <2>1. /\ inbox'[e][c].status = inbox[e][c].status
        /\ inbox[e][c].status = "PROCESSING" => inbox'[e][c].age = Older(inbox[e][c].age, StaleClaim)
        /\ UNCHANGED <<effects, shared>>
    BY <1>2, <1>9, TickWrites
  <2>2. ASSUME NEW q \in Publishers, Handling(q, e, c)'
        PROVE  Handling(q, e, c) /\ run'[q].task[c].age = Older(run[q].task[c].age, StaleClaim)
    <3>1. run'[q].batch = run[q].batch /\ run'[q].task[c].pc = run[q].task[c].pc
      BY <1>2, <1>9, TickWrites
    <3>2. Handling(q, e, c)
      BY <2>2, <3>1 DEF Handling, Busy, Current
    <3>3. Busy(q) /\ run[q].task[c].pc \in {"handling", "handled", "thrown"}
      BY <3>2 DEF Handling
    <3>4. QED
      BY <1>2, <1>9, <3>2, <3>3, TickWrites
  <2>3. QED
    BY <1>2, <2>1, <2>2 DEF Slot
<1>10. CASE \/ UNCHANGED vars \/ (\E f \in Events : Publish(f)) \/ \E given \in SUBSET Events : Replay(given)
  <2>1. UNCHANGED <<inbox, effects, shared, run>>
    BY <1>10 DEF vars, Publish, Replay
  <2>2. QED
    BY <1>3, <2>1 DEF Handling, Busy, Current
<1>11. QED
  BY <1>1, <1>5, <1>6, <1>7, <1>8, <1>9, <1>10, NextCases

LEMMA SlotsInvariant == Spec => []Slots
<1>1. Init => Slots
  BY EndedLemma DEF Init, Slots, Slot, Handling, Busy
<1>2. QED
  BY <1>1, SlotsNext, ShapeInvariant, PTL DEF Spec

\* A transactional consumer's effect happens once unless its slot was taken from
\* a worker that was still at it (STALE_CLAIM_MINUTES).
THEOREM EffectOnce == Spec => []TransactionalOnce
<1>1. ASSUME Shape, Slots, NEW e \in Events, NEW c \in Transactional, effects[e][c] > 1
      PROVE  c \in shared[e]
  <2>1. c \in Consumers /\ effects[e][c] \in 0..2
    BY <1>1, DeliveryAssumption DEF Shape, TypeOK, DeliveryAssumption
  <2>2. QED
    BY <1>1, <2>1 DEF Slots, Slot
<1>2. Shape /\ Slots => TransactionalOnce
  BY <1>1 DEF TransactionalOnce
<1>3. QED
  BY <1>2, ShapeInvariant, SlotsInvariant, PTL

\* What a step may do to a slot and to the history of takeovers.
Guarded(e, c) ==
  /\ c \in shared'[e] /\ c \notin shared[e] =>
       \E p \in Publishers : Handling(p, e, c) /\ run[p].task[c].age > StaleClaim
  /\ inbox[e][c].status = "PROCESSED" /\ inbox'[e][c].status # "PROCESSED" => c \in shared[e]

LEMMA GuardedNext ==
  ASSUME Shape, Slots, [Next]_vars, NEW e \in Events, NEW c \in Consumers
  PROVE  Guarded(e, c)
<1>1. Slot(e, c) /\ TypeOK
  BY DEF Slots, Shape
<1>2. CASE inbox' = inbox /\ shared' = shared
  BY <1>2 DEF Guarded
<1>3. ASSUME NEW p \in Publishers, NEW d \in Consumers, TaskStep(p, d)
      PROVE  Guarded(e, c)
  <2>1. CASE e # Current(p) \/ c # d
    <3>1. inbox'[e][c] = inbox[e][c] /\ ((c \in shared'[e]) <=> (c \in shared[e]))
      BY <1>3, <2>1, TaskElsewhere
    <3>2. QED
      BY <3>1 DEF Guarded
  <2>2. CASE e = Current(p) /\ c = d
    <3>1. CASE /\ Takeable(e, c)
               /\ shared' = shared \/ (c \in shared'[e] /\ \E q \in Publishers : q # p /\ Handling(q, e, c))
      <4>1. inbox[e][c].status # "PROCESSED"
        BY <3>1 DEF Takeable
      <4>2. ASSUME c \in shared'[e], c \notin shared[e]
            PROVE  \E q \in Publishers : Handling(q, e, c) /\ run[q].task[c].age > StaleClaim
        <5>1. PICK q \in Publishers : Handling(q, e, c)
          BY <3>1, <4>2
        <5>2. inbox[e][c].status = "PROCESSING" /\ inbox[e][c].age = run[q].task[c].age
          BY <1>1, <4>2, <5>1 DEF Slot
        <5>3. QED
          BY <3>1, <5>1, <5>2 DEF Takeable
      <4>3. QED
        BY <4>1, <4>2 DEF Guarded
    <3>2. CASE /\ shared' = shared
               /\ inbox' = inbox \/ Handling(p, e, c)
      <4>1. CASE inbox' = inbox
        BY <1>2, <3>2, <4>1
      <4>2. CASE Handling(p, e, c)
        BY <1>1, <3>2, <4>2 DEF Guarded, Slot
      <4>3. QED
        BY <3>2, <4>1, <4>2
    <3>3. QED
      BY <1>3, <2>2, <3>1, <3>2, TaskHere
  <2>3. QED
    BY <2>1, <2>2
<1>4. CASE Tick
  <2>1. inbox'[e][c].status = inbox[e][c].status /\ shared' = shared
    BY <1>1, <1>4, TickWrites
  <2>2. QED
    BY <2>1 DEF Guarded
<1>5. ASSUME NEW p \in Publishers, Finish(p)
      PROVE  Guarded(e, c)
  BY <1>2, <1>5, FinishWrites
<1>6. ASSUME NEW p \in Publishers, ClaimRows(p) \/ Crash(p)
      PROVE  Guarded(e, c)
  BY <1>2, <1>6 DEF ClaimRows, Crash
<1>7. CASE \/ UNCHANGED vars \/ (\E f \in Events : Publish(f)) \/ \E given \in SUBSET Events : Replay(given)
  BY <1>2, <1>7 DEF vars, Publish, Replay
<1>8. QED
  BY <1>3, <1>4, <1>5, <1>6, <1>7, NextCases

\* A slot is first taken from a worker still at it only after STALE_CLAIM_MINUTES,
\* and what was processed is opened again only after such a takeover.
THEOREM TakeoverIsLate == Spec => TakeoverNeedsStaleClaim
<1>1. ASSUME Shape, Slots, [Next]_vars, NEW e \in Events
      PROVE  /\ \A c \in shared'[e] \ shared[e] :
                  \E p \in Publishers : Handling(p, e, c) /\ run[p].task[c].age > StaleClaim
             /\ \A c \in Consumers :
                  inbox[e][c].status = "PROCESSED" /\ inbox'[e][c].status # "PROCESSED" => c \in shared[e]
  <2>1. shared'[e] \subseteq Consumers
    <3>1. Shape'
      BY <1>1, ShapeNext
    <3>2. QED
      BY <3>1 DEF Shape, TypeOK
  <2>2. \A c \in Consumers : Guarded(e, c)
    BY <1>1, GuardedNext
  <2>3. QED
    BY <2>1, <2>2 DEF Guarded
<1>2. Shape /\ Slots /\ [Next]_vars =>
        \A e \in Events :
          /\ \A c \in shared'[e] \ shared[e] :
               \E p \in Publishers : Handling(p, e, c) /\ run[p].task[c].age > StaleClaim
          /\ \A c \in Consumers :
               inbox[e][c].status = "PROCESSED" /\ inbox'[e][c].status # "PROCESSED" => c \in shared[e]
  BY <1>1
<1>3. QED
  BY <1>2, ShapeInvariant, SlotsInvariant, PTL DEF Spec, TakeoverNeedsStaleClaim

-----------------------------------------------------------------------------
(* The contract. *)

\* An effect is of a consumer of a recorded event; a processed mark, and a task
\* that is handled or settled as delivered, stand for an effect.
Credit(e, c) ==
  /\ effects[e][c] > 0 => c \in ConsumersOf[e] /\ outbox[e].state # "absent"
  /\ inbox[e][c].status = "PROCESSED" => effects[e][c] > 0

Earned(p) ==
  Busy(p) => \A c \in Consumers : run[p].task[c].pc \in {"handled", "ok"} => effects[Current(p)][c] > 0

Accounts ==
  /\ \A e \in Events : \A c \in Consumers : Credit(e, c)
  /\ \A p \in Publishers : Earned(p)

\* A recorded event stays recorded.
LEMMA Recorded ==
  ASSUME Shape, [Next]_vars, NEW e \in Events, outbox[e].state # "absent"
  PROVE  outbox'[e].state # "absent"
<1>1. CASE outbox' = outbox
  BY <1>1
<1>2. ASSUME NEW f \in Events, Publish(f)
      PROVE  outbox'[e].state # "absent"
  <2>1. e # f /\ outbox'[e] = outbox[e]
    BY <1>2 DEF Publish, Shape, TypeOK
  <2>2. QED
    BY <2>1
<1>3. CASE Tick
  BY <1>3, TickWrites DEF Shape
<1>4. ASSUME NEW p \in Publishers, Finish(p)
      PROVE  outbox'[e].state # "absent"
  BY <1>1, <1>4, FinishWrites
<1>5. ASSUME NEW p \in Publishers, ClaimRows(p)
      PROVE  outbox'[e].state # "absent"
  <2>1. outbox[e] \in OutboxRows
    BY DEF Shape, TypeOK
  <2>2. outbox'[e] = outbox[e] \/ outbox'[e] = [outbox[e] EXCEPT !.holder = p, !.age = 0]
    BY <1>5, ClaimWrites
  <2>3. QED
    BY <2>1, <2>2 DEF OutboxRows
<1>6. ASSUME NEW given \in SUBSET Events, Replay(given)
      PROVE  outbox'[e].state # "absent"
  <2>1. outbox[e] \in OutboxRows
    BY DEF Shape, TypeOK
  <2>2. outbox'[e] = outbox[e] \/ outbox'[e] = [outbox[e] EXCEPT !.retries = 0, !.failed = FALSE]
    BY <1>6, ReplayWrites
  <2>3. QED
    BY <2>1, <2>2 DEF OutboxRows
<1>7. ASSUME NEW p \in Publishers, NEW c \in Consumers, TaskStep(p, c)
      PROVE  outbox' = outbox
  BY <1>7, TaskStepWrites
<1>8. CASE UNCHANGED vars \/ \E p \in Publishers : Crash(p)
  BY <1>1, <1>8 DEF vars, Crash
<1>9. QED
  BY <1>1, <1>2, <1>3, <1>4, <1>5, <1>6, <1>7, <1>8, NextCases

\* Effects are never taken back, and come from the one part that is at work.
LEMMA EffectsGrow ==
  ASSUME Shape, NEW p \in Publishers, NEW d \in Consumers, TaskStep(p, d),
         NEW e \in Events, NEW c \in Consumers
  PROVE  /\ effects[e][c] > 0 => effects'[e][c] > 0
         /\ effects'[e][c] = effects[e][c] \/ (e = Current(p) /\ c = d)
<1>1. TypeOK /\ Current(p) \in Events /\ (effects' = effects \/ CountEffect(Current(p), d))
  BY TaskStepWrites DEF Shape
<1>2. CASE effects' = effects
  BY <1>2
<1>3. CASE CountEffect(Current(p), d)
  BY <1>1, <1>3, CountLemma
<1>4. QED
  BY <1>1, <1>2, <1>3

LEMMA AccountsOfTask ==
  ASSUME Shape, Accounts, NEW p \in Publishers, NEW d \in Consumers, TaskStep(p, d)
  PROVE  Accounts'
<1>1. /\ TypeOK /\ Busy(p) /\ Current(p) \in Events /\ d \in ConsumersOf[Current(p)]
      /\ outbox' = outbox /\ outbox[Current(p)].state # "absent"
  BY TaskStepWrites DEF Shape, Work
<1>2. PICK t \in Tasks : Writes(p, d, t)
  BY TaskStepWrites
<1>3. /\ run'[p].batch = run[p].batch
      /\ \A c \in Consumers : c # d => run'[p].task[c] = run[p].task[c]
      /\ \A q \in Publishers : q # p => run'[q] = run[q]
  BY <1>1, <1>2, TaskWrites
<1>4. PICK e \in Events : e = Current(p)
  BY <1>1
<1>5. Credit(e, d) /\ (run[p].task[d].pc \in {"handled", "ok"} => effects[e][d] > 0)
  BY <1>1, <1>4 DEF Accounts, Earned
<1>6. /\ inbox'[e][d].status = "PROCESSED" => effects'[e][d] > 0
      /\ run'[p].task[d].pc \in {"handled", "ok"} => effects'[e][d] > 0
  <2>1. CASE /\ run'[p].task[d] = [pc |-> "handling", age |-> 0]
             /\ inbox'[e][d] = [status |-> "PROCESSING", age |-> 0]
    BY <2>1
  <2>2. CASE /\ run'[p].task[d].pc \in {"ok", "failed"} /\ UNCHANGED <<inbox, effects, shared>>
             /\ run'[p].task[d].pc = "ok" => inbox[e][d].status = "PROCESSED"
    BY <1>5, <2>2 DEF Credit
  <2>3. CASE effects'[e][d] > 0
    BY <2>3
  <2>4. CASE run[p].task[d].pc = "handled" /\ effects' = effects
    BY <1>5, <2>4
  <2>5. CASE run'[p].task[d].pc = "failed" /\ inbox'[e][d] = [status |-> "FAILED", age |-> 0]
    BY <2>5
  <2>6. CASE run'[p].task[d].pc = "thrown" /\ effects' = effects /\ inbox' = inbox
    BY <1>5, <2>6 DEF Credit
  <2>7. QED
    BY <1>4, <2>1, <2>2, <2>3, <2>4, <2>5, <2>6, TaskHere
<1>7. ASSUME NEW x \in Events, NEW c \in Consumers
      PROVE  Credit(x, c)'
  <2>1. Credit(x, c)
    BY DEF Accounts
  <2>2. CASE x = e /\ c = d
    BY <1>1, <1>4, <1>6, <2>2 DEF Credit
  <2>3. CASE x # e \/ c # d
    <3>1. inbox'[x][c] = inbox[x][c] /\ effects'[x][c] = effects[x][c]
      BY <1>4, <2>3, TaskElsewhere
    <3>2. QED
      BY <1>1, <2>1, <3>1 DEF Credit
  <2>4. QED
    BY <2>2, <2>3
<1>8. ASSUME NEW q \in Publishers
      PROVE  Earned(q)'
  <2>1. run'[q].batch = run[q].batch
    BY <1>3
  <2>2. SUFFICES ASSUME Busy(q), NEW c \in Consumers, run'[q].task[c].pc \in {"handled", "ok"}
                 PROVE  effects'[Current(q)][c] > 0
    BY <2>1 DEF Earned, Busy, Current
  <2>3. CASE q = p /\ c = d
    BY <1>4, <1>6, <2>2, <2>3
  <2>4. CASE q # p \/ c # d
    <3>1. run'[q].task[c] = run[q].task[c]
      BY <1>3, <2>4
    <3>2. effects[Current(q)][c] > 0
      BY <2>2, <3>1 DEF Accounts, Earned
    <3>3. Current(q) \in Events
      BY <1>1, <2>2, CurrentLemma
    <3>4. QED
      BY <3>2, <3>3, EffectsGrow
  <2>5. QED
    BY <2>3, <2>4
<1>9. QED
  BY <1>7, <1>8 DEF Accounts

LEMMA AccountsNext == Shape /\ Accounts /\ [Next]_vars => Accounts'
<1>1. SUFFICES ASSUME Shape, Accounts, [Next]_vars PROVE Accounts'
  OBVIOUS
<1>2. TypeOK
  BY <1>1 DEF Shape
<1>3. ASSUME effects' = effects, \A e \in Events, c \in Consumers : inbox'[e][c].status = inbox[e][c].status
      PROVE  \A e \in Events : \A c \in Consumers : Credit(e, c)'
  BY <1>1, <1>3, Recorded DEF Accounts, Credit
<1>4. ASSUME NEW p \in Publishers, effects' = effects, inbox' = inbox,
             \A c \in Consumers : run'[p].task[c] = Todo,
             \A q \in Publishers : q # p => run'[q] = run[q]
      PROVE  Accounts'
  <2>1. Earned(p)'
    BY <1>4 DEF Earned, Todo
  <2>2. \A q \in Publishers : q # p => Earned(q)'
    BY <1>1, <1>4 DEF Accounts, Earned, Busy, Current
  <2>3. QED
    BY <1>3, <1>4, <2>1, <2>2 DEF Accounts
<1>5. ASSUME NEW p \in Publishers, Finish(p)
      PROVE  Accounts'
  <2>1. Busy(p) /\ NextRow(p) /\ effects' = effects /\ inbox' = inbox
    BY <1>1, <1>5, FinishWrites
  <2>2. /\ \A c \in Consumers : run'[p].task[c] = Todo
        /\ \A q \in Publishers : q # p => run'[q] = run[q]
    BY <1>2, <2>1, NextRowWrites
  <2>3. QED
    BY <1>4, <2>1, <2>2
<1>6. ASSUME NEW p \in Publishers, ClaimRows(p) \/ Crash(p)
      PROVE  Accounts'
  <2>1. effects' = effects /\ inbox' = inbox
    BY <1>6 DEF ClaimRows, Crash
  <2>2. \E r \in [batch : SUBSET Events, retries : {[x \in Events |-> outbox[x].retries], [x \in Events |-> 0]},
                  age : {0}, task : {NoTasks}] : run' = [run EXCEPT ![p] = r]
    BY <1>6 DEF ClaimRows, Crash, EndedRun
  <2>3. PICK r : r.task = NoTasks /\ run' = [run EXCEPT ![p] = r]
    BY <2>2
  <2>4. /\ \A c \in Consumers : run'[p].task[c] = Todo
        /\ \A q \in Publishers : q # p => run'[q] = run[q]
    BY <1>2, <2>3 DEF TypeOK, NoTasks
  <2>5. QED
    BY <1>4, <2>1, <2>4
<1>7. CASE Tick
  <2>1. /\ effects' = effects
        /\ \A e \in Events, c \in Consumers : inbox'[e][c].status = inbox[e][c].status
        /\ \A p \in Publishers :
             /\ run'[p].batch = run[p].batch
             /\ \A c \in Consumers : run'[p].task[c].pc = run[p].task[c].pc
    BY <1>2, <1>7, TickWrites
  <2>2. \A p \in Publishers : Earned(p)'
    BY <1>1, <2>1 DEF Accounts, Earned, Busy, Current
  <2>3. QED
    BY <1>3, <2>1, <2>2 DEF Accounts
<1>8. CASE \/ UNCHANGED vars \/ (\E f \in Events : Publish(f)) \/ \E given \in SUBSET Events : Replay(given)
  <2>1. effects' = effects /\ inbox' = inbox /\ run' = run
    BY <1>8 DEF vars, Publish, Replay
  <2>2. \A p \in Publishers : Earned(p)'
    BY <1>1, <2>1 DEF Accounts, Earned, Busy, Current
  <2>3. QED
    BY <1>3, <2>1, <2>2 DEF Accounts
<1>9. QED
  BY <1>1, <1>5, <1>6, <1>7, <1>8, AccountsOfTask, NextCases

LEMMA AccountsInvariant == Spec => []Accounts
<1>1. Init => Accounts
  BY EndedLemma DEF Init, Accounts, Credit, Earned, Busy
<1>2. QED
  BY <1>1, AccountsNext, ShapeInvariant, PTL DEF Spec

\* The contract's state, as Contract maps it.
StageAt(e) == IF outbox[e].state = "absent" THEN "absent"
              ELSE IF outbox[e].state = "published" THEN "acked"
              ELSE IF Parked(e) THEN "parked" ELSE "queued"
DoneAt(e)  == {c \in Consumers : effects[e][c] > 0}
Stages == [e \in Events |-> StageAt(e)]
Dones  == [e \in Events |-> DoneAt(e)]

LEMMA MapLemma == Contract!dvars = <<Stages, Dones>>
BY DEF Contract!dvars, Stages, Dones, StageAt, DoneAt

LEMMA StutterLemma ==
  ASSUME \A e \in Events : StageAt(e)' = StageAt(e), effects' = effects
  PROVE  UNCHANGED Contract!dvars
<1>1. Stages' = Stages
  BY DEF Stages
<1>2. Dones' = Dones
  BY DEF Dones, DoneAt
<1>3. QED
  BY <1>1, <1>2 DEF Contract!dvars, Stages, Dones, StageAt, DoneAt

LEMMA RecordLemma ==
  ASSUME NEW e \in Events, StageAt(e) = "absent", StageAt(e)' = "queued",
         \A f \in Events : f # e => StageAt(f)' = StageAt(f), effects' = effects
  PROVE  Contract!Record(e)
<1>1. Stages' = [Stages EXCEPT ![e] = "queued"] /\ Stages[e] = "absent"
  BY DEF Stages
<1>2. Dones' = Dones
  BY DEF Dones, DoneAt
<1>3. QED
  BY <1>1, <1>2 DEF Contract!Record, Stages, Dones, StageAt, DoneAt

LEMMA AcknowledgeLemma ==
  ASSUME NEW e \in Events, StageAt(e) = "queued", StageAt(e)' = "acked",
         DoneAt(e) = ConsumersOf[e], ConsumersOf[e] # {} \/ e \in RecordOnly,
         \A f \in Events : f # e => StageAt(f)' = StageAt(f), effects' = effects
  PROVE  Contract!Acknowledge(e)
<1>1. Stages' = [Stages EXCEPT ![e] = "acked"] /\ Stages[e] \in {"queued", "parked"}
  BY DEF Stages
<1>2. Dones' = Dones /\ Dones[e] = ConsumersOf[e]
  BY DEF Dones, DoneAt
<1>3. QED
  BY <1>1, <1>2 DEF Contract!Acknowledge, Stages, Dones, StageAt, DoneAt

LEMMA ParkLemma ==
  ASSUME NEW e \in Events, StageAt(e) = "queued", StageAt(e)' = "parked",
         \A f \in Events : f # e => StageAt(f)' = StageAt(f), effects' = effects
  PROVE  Contract!Park(e)
<1>1. Stages' = [Stages EXCEPT ![e] = "parked"] /\ Stages[e] = "queued"
  BY DEF Stages
<1>2. Dones' = Dones
  BY DEF Dones, DoneAt
<1>3. QED
  BY <1>1, <1>2 DEF Contract!Park, Stages, Dones, StageAt, DoneAt

LEMMA RequeueLemma ==
  ASSUME NEW S \in SUBSET Events, S # {}, \A e \in S : StageAt(e) = "parked" /\ StageAt(e)' = "queued",
         \A e \in Events \ S : StageAt(e)' = StageAt(e), effects' = effects
  PROVE  Contract!Requeue(S)
<1>1. Stages' = [e \in Events |-> IF e \in S THEN "queued" ELSE Stages[e]] /\ \A e \in S : Stages[e] = "parked"
  BY DEF Stages
<1>2. Dones' = Dones
  BY DEF Dones, DoneAt
<1>3. QED
  BY <1>1, <1>2 DEF Contract!Requeue, Stages, Dones, StageAt, DoneAt

LEMMA EffectLemma ==
  ASSUME NEW e \in Events, NEW c \in Consumers, StageAt(e) # "absent", c \in ConsumersOf[e],
         DoneAt(e)' = DoneAt(e) \cup {c}, \A f \in Events : f # e => DoneAt(f)' = DoneAt(f),
         outbox' = outbox
  PROVE  Contract!Effect(e, c)
<1>1. Dones' = [Dones EXCEPT ![e] = @ \cup {c}] /\ Stages[e] # "absent"
  BY DEF Dones, Stages
<1>2. Stages' = Stages
  BY DEF Stages, StageAt, Parked
<1>3. QED
  BY <1>1, <1>2 DEF Contract!Effect, Stages, Dones, StageAt, DoneAt

\* A run that is done with its row acknowledges it, parks it, or leaves the
\* stage as it is.
LEMMA FinishMaps ==
  ASSUME Shape, Accounts, NEW p \in Publishers, Finish(p)
  PROVE  [Contract!DNext]_(Contract!dvars)
<1>1. PICK e \in Events : e = Current(p)
  BY FinishWrites
<1>2. /\ Busy(p) /\ effects' = effects /\ \A f \in Events : f # e => outbox'[f] = outbox[f]
      /\ \/ outbox' = outbox
         \/ /\ Owns(p, e)
            /\ \/ outbox'[e].state = "published" /\ (AckRecordOnly(p) \/ MarkPublished(p))
               \/ outbox'[e].state = "unpublished" /\ outbox'[e].failed
  BY <1>1, FinishWrites
<1>3. \A f \in Events : f # e => StageAt(f)' = StageAt(f)
  BY <1>2 DEF StageAt, Parked
<1>4. CASE outbox' = outbox
  BY <1>2, <1>4, StutterLemma DEF StageAt, Parked
<1>5. Owns(p, e) => StageAt(e) = "queued"
  BY DeliveryAssumption DEF Owns, Shape, Row, StageAt, DeliveryAssumption
<1>6. CASE Owns(p, e) /\ outbox'[e].state = "published" /\ (AckRecordOnly(p) \/ MarkPublished(p))
  <2>1. DoneAt(e) \subseteq ConsumersOf[e] /\ ConsumersOf[e] \subseteq Consumers
    BY DeliveryAssumption DEF Accounts, Credit, DoneAt, DeliveryAssumption
  <2>2. ConsumersOf[e] \subseteq DoneAt(e) /\ (ConsumersOf[e] # {} \/ e \in RecordOnly)
    <3>1. CASE AckRecordOnly(p)
      BY <1>1, <3>1 DEF AckRecordOnly, ByDesign
    <3>2. CASE MarkPublished(p)
      BY <1>1, <1>2, <2>1, <3>2 DEF MarkPublished, AllDelivered, Accounts, Earned, DoneAt
    <3>3. QED
      BY <1>6, <3>1, <3>2
  <2>3. StageAt(e)' = "acked"
    BY <1>6 DEF StageAt
  <2>4. DoneAt(e) = ConsumersOf[e]
    BY <2>1, <2>2
  <2>5. Contract!Acknowledge(e)
    BY <1>2, <1>3, <1>5, <1>6, <2>2, <2>3, <2>4, AcknowledgeLemma
  <2>6. QED
    BY <2>5 DEF Contract!DNext
<1>7. CASE Owns(p, e) /\ outbox'[e].state = "unpublished"
  <2>1. StageAt(e)' = IF Parked(e)' THEN "parked" ELSE "queued"
    BY <1>7 DEF StageAt
  <2>2. CASE Parked(e)'
    <3>1. Contract!Park(e)
      BY <1>2, <1>3, <1>5, <1>7, <2>1, <2>2, ParkLemma
    <3>2. QED
      BY <3>1 DEF Contract!DNext
  <2>3. CASE ~ Parked(e)'
    <3>1. \A f \in Events : StageAt(f)' = StageAt(f)
      BY <1>3, <1>5, <1>7, <2>1, <2>3
    <3>2. QED
      BY <1>2, <3>1, StutterLemma
  <2>4. QED
    BY <2>2, <2>3
<1>8. QED
  BY <1>2, <1>4, <1>6, <1>7

\* A part in the delivery carries out an effect, or none that is new.
LEMMA TaskMaps ==
  ASSUME Shape, Accounts, NEW p \in Publishers, NEW c \in Consumers, TaskStep(p, c)
  PROVE  [Contract!DNext]_(Contract!dvars)
<1>1. PICK e \in Events : e = Current(p)
  BY TaskStepWrites
<1>2. /\ c \in ConsumersOf[e] /\ outbox' = outbox /\ outbox[e].state # "absent"
      /\ \A x \in Events : \A d \in Consumers :
           /\ effects[x][d] > 0 => effects'[x][d] > 0
           /\ effects'[x][d] = effects[x][d] \/ (x = e /\ d = c)
  BY <1>1, TaskStepWrites, EffectsGrow DEF Shape, Work
<1>3. \A f \in Events : f # e => DoneAt(f)' = DoneAt(f)
  BY <1>2 DEF DoneAt
<1>4. CASE effects'[e][c] > 0
  <2>1. DoneAt(e)' = DoneAt(e) \cup {c}
    BY <1>2, <1>4 DEF DoneAt
  <2>2. StageAt(e) # "absent"
    BY <1>2 DEF StageAt
  <2>3. Contract!Effect(e, c)
    BY <1>2, <1>3, <2>1, <2>2, EffectLemma
  <2>4. QED
    BY <2>3 DEF Contract!DNext
<1>5. CASE ~ (effects'[e][c] > 0)
  <2>1. DoneAt(e)' = DoneAt(e)
    BY <1>2, <1>5 DEF DoneAt
  <2>2. Dones' = Dones
    BY <1>3, <2>1 DEF Dones
  <2>3. Stages' = Stages
    BY <1>2 DEF Stages, StageAt, Parked
  <2>4. QED
    BY <2>2, <2>3 DEF Contract!dvars, Stages, Dones, StageAt, DoneAt
<1>6. QED
  BY <1>4, <1>5

\* A replay requeues the parked rows among those it resets.
LEMMA ReplayMaps ==
  ASSUME Shape, NEW given \in SUBSET Events, Replay(given)
  PROVE  [Contract!DNext]_(Contract!dvars)
<1>1. PICK rows \in SUBSET Events :
         /\ \A e \in rows : outbox[e].state = "unpublished"
         /\ \A e \in rows : outbox'[e] = [outbox[e] EXCEPT !.retries = 0, !.failed = FALSE]
         /\ \A e \in Events \ rows : outbox'[e] = outbox[e]
         /\ effects' = effects
  BY ReplayWrites
<1>2. ASSUME NEW e \in rows
      PROVE  /\ StageAt(e)' = "queued"
             /\ StageAt(e) = IF Parked(e) THEN "parked" ELSE "queued"
  <2>1. outbox[e] \in OutboxRows /\ outbox[e].state = "unpublished"
    BY <1>1 DEF Shape, TypeOK
  <2>2. outbox'[e] = [outbox[e] EXCEPT !.retries = 0, !.failed = FALSE]
    BY <1>1
  <2>3. outbox'[e].state = "unpublished" /\ ~ outbox'[e].failed
    BY <2>1, <2>2 DEF OutboxRows
  <2>4. QED
    BY <2>1, <2>3 DEF StageAt, Parked
<1>3. \A e \in Events \ rows : StageAt(e)' = StageAt(e)
  BY <1>1 DEF StageAt, Parked
<1>4. PICK S \in SUBSET Events :
        /\ \A e \in S : StageAt(e) = "parked" /\ StageAt(e)' = "queued"
        /\ \A e \in Events \ S : StageAt(e)' = StageAt(e)
  <2> DEFINE parked == {e \in rows : Parked(e)}
  <2>1. /\ parked \in SUBSET Events
        /\ \A e \in parked : StageAt(e) = "parked" /\ StageAt(e)' = "queued"
        /\ \A e \in Events \ parked : StageAt(e)' = StageAt(e)
    BY <1>2, <1>3
  <2> HIDE DEF parked
  <2>2. QED
    BY <2>1
<1>5. CASE S = {}
  BY <1>1, <1>4, <1>5, StutterLemma
<1>6. CASE S # {}
  <2>1. Contract!Requeue(S)
    BY <1>1, <1>4, <1>6, RequeueLemma
  <2>2. QED
    BY <2>1 DEF Contract!DNext
<1>7. QED
  BY <1>5, <1>6

LEMMA StepMaps == Shape /\ Accounts /\ [Next]_vars => [Contract!DNext]_(Contract!dvars)
<1>1. SUFFICES ASSUME Shape, Accounts, [Next]_vars PROVE [Contract!DNext]_(Contract!dvars)
  OBVIOUS
<1>2. ASSUME effects' = effects,
             \A e \in Events : /\ outbox'[e].state = outbox[e].state /\ outbox'[e].failed = outbox[e].failed
                               /\ outbox'[e].retries = outbox[e].retries
      PROVE  [Contract!DNext]_(Contract!dvars)
  <2>1. \A e \in Events : StageAt(e)' = StageAt(e)
    BY <1>2 DEF StageAt, Parked
  <2>2. QED
    BY <1>2, <2>1, StutterLemma
<1>3. CASE Tick
  BY <1>1, <1>2, <1>3, TickWrites DEF Shape
<1>4. ASSUME NEW e \in Events, Publish(e)
      PROVE  [Contract!DNext]_(Contract!dvars)
  <2>1. Row(e) /\ outbox[e] \in OutboxRows /\ outbox[e].state = "absent"
    BY <1>1, <1>4 DEF Shape, TypeOK, Publish
  <2>2. /\ outbox'[e] = [outbox[e] EXCEPT !.state = "unpublished"]
        /\ \A f \in Events : f # e => outbox'[f] = outbox[f]
        /\ effects' = effects
    BY <1>1, <1>4 DEF Publish, Shape, TypeOK
  <2>3. outbox'[e].state = "unpublished" /\ ~ outbox'[e].failed
    BY <2>1, <2>2 DEF OutboxRows, Row
  <2>4. StageAt(e) = "absent" /\ StageAt(e)' = "queued"
    BY <2>1, <2>3 DEF StageAt, Parked
  <2>5. \A f \in Events : f # e => StageAt(f)' = StageAt(f)
    BY <2>2 DEF StageAt, Parked
  <2>6. Contract!Record(e)
    BY <2>2, <2>4, <2>5, RecordLemma
  <2>7. QED
    BY <2>6 DEF Contract!DNext
<1>5. ASSUME NEW p \in Publishers, ClaimRows(p)
      PROVE  [Contract!DNext]_(Contract!dvars)
  <2>1. effects' = effects
    BY <1>1, <1>5, ClaimWrites
  <2>2. ASSUME NEW e \in Events
        PROVE  /\ outbox'[e].state = outbox[e].state /\ outbox'[e].failed = outbox[e].failed
               /\ outbox'[e].retries = outbox[e].retries
    <3>1. outbox[e] \in OutboxRows
      BY <1>1 DEF Shape, TypeOK
    <3>2. outbox'[e] = outbox[e] \/ outbox'[e] = [outbox[e] EXCEPT !.holder = p, !.age = 0]
      BY <1>1, <1>5, ClaimWrites
    <3>3. QED
      BY <3>1, <3>2 DEF OutboxRows
  <2>3. QED
    BY <1>2, <2>1, <2>2
<1>6. CASE UNCHANGED vars \/ \E p \in Publishers : Crash(p)
  BY <1>2, <1>6 DEF vars, Crash
<1>7. QED
  BY <1>1, <1>3, <1>4, <1>5, <1>6, FinishMaps, TaskMaps, ReplayMaps, NextCases

\* The outbox and the inbox implement the contract: an event is acknowledged
\* only once all its consumers had their effect, or has none by design.
THEOREM ImplementsContract == Spec => Implements
<1>1. Init => Contract!DInit
  <2>1. ASSUME Init
        PROVE  Stages = [e \in Events |-> "absent"] /\ Dones = [e \in Events |-> {}]
    BY <2>1 DEF Init, Stages, Dones, StageAt, DoneAt
  <2>2. QED
    BY <2>1 DEF Contract!DInit, Stages, Dones, StageAt, DoneAt
<1>2. QED
  BY <1>1, StepMaps, ShapeInvariant, AccountsInvariant, PTL DEF Spec, Implements, Contract!DSpec

-----------------------------------------------------------------------------
(* What waiting for another worker does. *)

\* Where nothing of the event has thrown: a slot that is taken has its worker,
\* and no consumer's part has failed.
Calm(e, c) ==
  threw[e] = {} =>
    /\ inbox[e][c].status # "FAILED"
    /\ inbox[e][c].status = "PROCESSING" => \E p \in Publishers : Handling(p, e, c)
    /\ \A p \in Publishers : Busy(p) /\ Current(p) = e => run[p].task[c].pc \notin {"thrown", "failed"}

Unfailed(e) == threw[e] = {} /\ ConsumersOf[e] # {} => ~ outbox[e].failed

Undisturbed == \A e \in Events : Unfailed(e) /\ \A c \in Consumers : Calm(e, c)

\* No row is in two batches.
Apart == \A p, q \in Publishers : \A e \in Events : e \in run[p].batch /\ e \in run[q].batch => p = q

LEMMA ApartLemma == Shape /\ TwoRunsNeedExpiredClaim /\ Timely => Apart
<1>1. SUFFICES ASSUME Shape, TwoRunsNeedExpiredClaim, Timely,
                      NEW p \in Publishers, NEW q \in Publishers, NEW e \in Events,
                      e \in run[p].batch, e \in run[q].batch, p # q
               PROVE  FALSE
  BY DEF Apart
<1>2. run[p].age <= ClaimTTL /\ run[q].age <= ClaimTTL
  BY <1>1 DEF Timely, Busy
<1>3. run[p].age \in Int /\ run[q].age \in Int /\ ClaimTTL \in Int
  BY <1>1, DeliveryAssumption DEF Shape, TypeOK, Runs, DeliveryAssumption
<1>4. QED
  BY <1>1, <1>2, <1>3 DEF TwoRunsNeedExpiredClaim

\* How a part in the delivery comes to fail.
LEMMA FailedLemma ==
  ASSUME Shape, NEW p \in Publishers, NEW c \in Consumers, TaskStep(p, c),
         run'[p].task[c].pc \in {"thrown", "failed"}
  PROVE  LET e == Current(p) IN
         \/ threw'[e] # {}
         \/ run[p].task[c].pc = "thrown"
         \/ run[p].task[c].pc = "todo" /\ ~ Takeable(e, c) /\ inbox[e][c].status # "PROCESSED"
<1> DEFINE e == Current(p)
<1>1. TypeOK /\ e \in Events /\ threw \in [Events -> SUBSET Consumers]
  BY TaskStepWrites DEF Shape, TypeOK
<1>2. threw' = [threw EXCEPT ![e] = @ \cup {c}] => threw'[e] # {}
  BY <1>1
<1>3. \A pc \in {"handling", "handled", "thrown", "ok", "failed"} :
        SetTask(p, c, pc) => run'[p].task[c].pc = pc
  BY <1>1, SetTaskWrites
<1>4. CASE InboxClaim(p, c)
  <2>1. CASE run' = [run EXCEPT ![p].task[c] = [pc |-> "handling", age |-> 0]]
    <3>1. [pc |-> "handling", age |-> 0] \in Tasks
      BY DeliveryAssumption DEF Tasks, DeliveryAssumption
    <3>2. Writes(p, c, [pc |-> "handling", age |-> 0])
      BY <2>1 DEF Writes
    <3>3. run'[p].task[c] = [pc |-> "handling", age |-> 0]
      BY <1>1, <3>1, <3>2, TaskWrites
    <3>4. QED
      BY <3>3
  <2>2. CASE ~ Takeable(e, c) /\ SetTask(p, c, IF inbox[e][c].status = "PROCESSED" THEN "ok" ELSE "failed")
    <3>1. inbox[e][c].status # "PROCESSED"
      BY <1>3, <2>2
    <3>2. QED
      BY <1>4, <2>2, <3>1 DEF InboxClaim
  <2>3. CASE threw' = [threw EXCEPT ![e] = @ \cup {c}]
    BY <1>2, <2>3
  <2>4. QED
    BY <1>4, <2>1, <2>2, <2>3 DEF InboxClaim
<1>5. CASE HandleInTransaction(p, c) \/ HandleOnItsOwn(p, c) \/ MarkProcessed(p, c)
  BY <1>3, <1>5 DEF HandleInTransaction, HandleOnItsOwn, MarkProcessed
<1>6. CASE HandleThrows(p, c)
  BY <1>2, <1>6 DEF HandleThrows
<1>7. CASE RecordThrow(p, c)
  BY <1>7 DEF RecordThrow
<1>8. QED
  BY <1>4, <1>5, <1>6, <1>7 DEF TaskStep

\* A part in the delivery, seen from any slot.
LEMMA TaskCalm ==
  ASSUME Shape, Undisturbed, Apart, NEW p \in Publishers, NEW d \in Consumers, TaskStep(p, d),
         NEW e \in Events, NEW c \in Consumers, threw'[e] = {}
  PROVE  Unfailed(e)' /\ Calm(e, c)'
<1> DEFINE x == Current(p)
<1>1. TypeOK /\ Busy(p) /\ x \in Events /\ x \in run[p].batch /\ outbox' = outbox
  BY TaskStepWrites DEF Shape
<1>2. threw[e] = {}
  <2>1. threw' = threw \/ threw' = [threw EXCEPT ![x] = @ \cup {d}]
    BY TaskStepWrites
  <2>2. threw \in [Events -> SUBSET Consumers]
    BY <1>1 DEF TypeOK
  <2>3. QED
    BY <1>1, <2>1, <2>2
<1>3. /\ ConsumersOf[e] # {} => ~ outbox[e].failed
      /\ inbox[e][c].status # "FAILED"
      /\ inbox[e][c].status = "PROCESSING" => \E q \in Publishers : Handling(q, e, c)
      /\ \A q \in Publishers : Busy(q) /\ Current(q) = e => run[q].task[c].pc \notin {"thrown", "failed"}
  BY <1>2 DEF Undisturbed, Unfailed, Calm
<1>4. PICK t \in Tasks : Writes(p, d, t)
  BY TaskStepWrites
<1>5. /\ run'[p].batch = run[p].batch
      /\ \A b \in Consumers : b # d => run'[p].task[b] = run[p].task[b]
      /\ \A q \in Publishers : q # p => run'[q] = run[q]
  BY <1>1, <1>4, TaskWrites
<1>6. \A q \in Publishers : Busy(q)' = Busy(q) /\ Current(q)' = Current(q)
  BY <1>5 DEF Busy, Current
<1>7. CASE e # x \/ c # d
  <2>1. inbox'[e][c] = inbox[e][c]
    BY <1>7, TaskElsewhere
  <2>2. \A q \in Publishers : Busy(q) /\ Current(q) = e => run'[q].task[c] = run[q].task[c]
    BY <1>5, <1>7
  <2>3. \A q \in Publishers : Handling(q, e, c)' = Handling(q, e, c)
    BY <1>6, <2>2 DEF Handling
  <2>4. QED
    BY <1>1, <1>3, <1>6, <2>1, <2>2, <2>3 DEF Unfailed, Calm
<1>8. CASE e = x /\ c = d
  <2>1. run'[p].task[c].pc \notin {"thrown", "failed"}
    <3>1. SUFFICES ASSUME run'[p].task[c].pc \in {"thrown", "failed"} PROVE FALSE
      OBVIOUS
    <3>2. run[p].task[c].pc = "todo" /\ ~ Takeable(e, c) /\ inbox[e][c].status # "PROCESSED"
      BY <1>1, <1>3, <1>8, <3>1, FailedLemma
    <3>3. inbox[e][c].status \in {"NONE", "PROCESSING", "PROCESSED", "FAILED"}
      BY <1>1 DEF TypeOK, InboxRows
    <3>4. inbox[e][c].status = "PROCESSING"
      BY <3>2, <3>3 DEF Takeable
    <3>5. PICK q \in Publishers : Handling(q, e, c)
      BY <1>3, <3>4
    <3>6. e \in run[q].batch
      BY <1>1, <3>5, CurrentLemma DEF Handling
    <3>7. q = p
      BY <1>1, <1>8, <3>6 DEF Apart
    <3>8. QED
      BY <3>2, <3>5, <3>7 DEF Handling
  <2>2. \A q \in Publishers : Busy(q)' /\ Current(q)' = e => run'[q].task[c].pc \notin {"thrown", "failed"}
    BY <1>3, <1>5, <1>6, <2>1
  <2>3. /\ inbox'[e][c].status # "FAILED"
        /\ inbox'[e][c].status = "PROCESSING" => run'[p].task[c].pc \in {"handling", "handled"}
    BY <1>3, <1>8, <2>1, TaskHere
  <2>4. run'[p].task[c].pc \in {"handling", "handled"} => Handling(p, e, c)'
    BY <1>1, <1>6, <1>8 DEF Handling
  <2>5. inbox'[e][c].status = "PROCESSING" => \E q \in Publishers : Handling(q, e, c)'
    BY <2>3, <2>4
  <2>6. QED
    BY <1>1, <1>3, <2>2, <2>3, <2>5 DEF Unfailed, Calm
<1>9. QED
  BY <1>7, <1>8

\* Being done with a row leaves no slot behind, and fails no row without a throw.
LEMMA FinishCalm ==
  ASSUME Shape, Undisturbed, NEW p \in Publishers, Finish(p),
         NEW e \in Events, NEW c \in Consumers, threw'[e] = {}
  PROVE  Unfailed(e)' /\ Calm(e, c)'
<1> DEFINE x == Current(p)
<1>1. /\ TypeOK /\ Busy(p) /\ x \in Events /\ NextRow(p) /\ inbox' = inbox /\ threw' = threw
      /\ \A f \in Events : f # x => outbox'[f] = outbox[f]
      /\ outbox' = outbox \/ outbox'[x].state = "published" \/ outbox'[x].failed
  BY FinishWrites DEF Shape
<1>2. /\ ConsumersOf[e] # {} => ~ outbox[e].failed
      /\ inbox[e][c].status # "FAILED"
      /\ inbox[e][c].status = "PROCESSING" => \E q \in Publishers : Handling(q, e, c)
      /\ \A q \in Publishers, d \in Consumers :
           Busy(q) /\ Current(q) = e => run[q].task[d].pc \notin {"thrown", "failed"}
  BY <1>1 DEF Undisturbed, Unfailed, Calm
<1>3. /\ \A q \in Publishers : q # p => run'[q] = run[q]
      /\ run'[p].task[c] = Todo
  BY <1>1, NextRowWrites
<1>4. ~ Handling(p, e, c)
  <2>1. SUFFICES ASSUME Handling(p, e, c) PROVE FALSE
    OBVIOUS
  <2>2. e = x /\ c \in ConsumersOf[x] /\ run[p].task[c].pc \in {"handling", "handled", "thrown"}
    BY <2>1 DEF Handling, Shape, Work
  <2>3. Settled(p, x)
    BY <2>2 DEF Finish, AckRecordOnly, ParkUnrouted, MarkPublished, MarkFailed, ByDesign
  <2>4. QED
    BY <2>2, <2>3 DEF Settled
<1>5. inbox'[e][c].status = "PROCESSING" => \E q \in Publishers : Handling(q, e, c)'
  <2>1. SUFFICES ASSUME inbox[e][c].status = "PROCESSING"
                 PROVE  \E q \in Publishers : Handling(q, e, c)'
    BY <1>1
  <2>2. PICK q \in Publishers : Handling(q, e, c)
    BY <1>2, <2>1
  <2>3. run'[q] = run[q]
    BY <1>3, <1>4, <2>2
  <2>4. Handling(q, e, c)'
    BY <2>2, <2>3 DEF Handling, Busy, Current
  <2>5. QED
    BY <2>4
<1>6. \A q \in Publishers : Busy(q)' /\ Current(q)' = e => run'[q].task[c].pc \notin {"thrown", "failed"}
  BY <1>2, <1>3 DEF Busy, Current, Todo
<1>7. ConsumersOf[e] # {} => ~ outbox'[e].failed
  <2>1. CASE outbox'[e] = outbox[e]
    BY <1>2, <2>1
  <2>2. CASE outbox'[e] # outbox[e] /\ ConsumersOf[e] # {}
    <3>1. e = x /\ outbox[x] \in OutboxRows
      BY <1>1, <2>2 DEF TypeOK
    <3>2. ~ MarkFailed(p)
      <4>1. SUFFICES ASSUME MarkFailed(p) PROVE FALSE
        OBVIOUS
      <4>2. PICK d \in ConsumersOf[x] : run[p].task[d].pc = "failed"
        BY <4>1 DEF MarkFailed, Settled, AllDelivered
      <4>3. d \in Consumers
        BY <1>1, <4>2, DeliveryAssumption DEF DeliveryAssumption
      <4>4. QED
        BY <1>1, <1>2, <3>1, <4>2, <4>3
    <3>3. MarkPublished(p)
      BY <2>2, <3>1, <3>2 DEF Finish, AckRecordOnly, ParkUnrouted, ByDesign
    <3>4. outbox' = [outbox EXCEPT ![x] = [Released(outbox[x]) EXCEPT !.state = "published", !.failed = FALSE]]
      BY <2>2, <3>1, <3>3 DEF MarkPublished
    <3>5. outbox'[x] = [Released(outbox[x]) EXCEPT !.state = "published", !.failed = FALSE]
      BY <1>1, <3>4 DEF TypeOK
    <3>6. outbox'[x].failed = FALSE
      BY <3>1, <3>5 DEF Released, OutboxRows
    <3>7. QED
      BY <3>1, <3>6
  <2>3. QED
    BY <2>1, <2>2
<1>8. QED
  BY <1>1, <1>2, <1>5, <1>6, <1>7 DEF Unfailed, Calm

LEMMA UndisturbedNext ==
  ASSUME Shape, Undisturbed, Apart, [Next]_vars, [\A p \in Publishers : ~ Crash(p)]_vars
  PROVE  Undisturbed'
<1>1. SUFFICES ASSUME NEW e \in Events PROVE Unfailed(e)' /\ \A c \in Consumers : Calm(e, c)'
  BY DEF Undisturbed
<1>2. TypeOK /\ outbox[e] \in OutboxRows
  BY DEF Shape, TypeOK
<1>3. Unfailed(e) /\ \A c \in Consumers : Calm(e, c)
  BY DEF Undisturbed
<1>4. ASSUME threw' = threw, inbox' = inbox, run' = run, outbox'[e].failed => outbox[e].failed
      PROVE  Unfailed(e)' /\ \A c \in Consumers : Calm(e, c)'
  BY <1>3, <1>4 DEF Unfailed, Calm, Handling, Busy, Current
<1>5. ASSUME NEW p \in Publishers, NEW d \in Consumers, TaskStep(p, d)
      PROVE  Unfailed(e)' /\ \A c \in Consumers : Calm(e, c)'
  <2>1. CASE threw'[e] = {}
    BY <1>5, <2>1, TaskCalm
  <2>2. CASE threw'[e] # {}
    BY <2>2 DEF Unfailed, Calm
  <2>3. QED
    BY <2>1, <2>2
<1>6. ASSUME NEW p \in Publishers, Finish(p)
      PROVE  Unfailed(e)' /\ \A c \in Consumers : Calm(e, c)'
  <2>1. CASE threw'[e] # {}
    BY <2>1 DEF Unfailed, Calm
  <2>2. CASE threw'[e] = {} /\ Consumers # {}
    BY <1>6, <2>2, FinishCalm
  <2>3. CASE Consumers = {}
    <3>1. ConsumersOf[e] = {}
      BY <2>3, DeliveryAssumption DEF DeliveryAssumption
    <3>2. QED
      BY <2>3, <3>1 DEF Unfailed
  <2>4. QED
    BY <2>1, <2>2, <2>3
<1>7. ASSUME NEW p \in Publishers, ClaimRows(p)
      PROVE  Unfailed(e)' /\ \A c \in Consumers : Calm(e, c)'
  <2>1. PICK claimed \in SUBSET Events :
          /\ \A f \in claimed : outbox'[f] = [outbox[f] EXCEPT !.holder = p, !.age = 0]
          /\ \A f \in Events \ claimed : outbox'[f] = outbox[f]
          /\ run'[p] = [batch |-> claimed, retries |-> [f \in Events |-> outbox[f].retries],
                        age |-> 0, task |-> NoTasks]
          /\ \A q \in Publishers : q # p => run'[q] = run[q]
          /\ UNCHANGED <<inbox, effects, threw, shared, crashes, replays>>
    BY <1>7, ClaimWrites
  <2>2. outbox'[e].failed = outbox[e].failed
    <3>1. CASE e \in claimed
      <4>1. outbox'[e] = [outbox[e] EXCEPT !.holder = p, !.age = 0]
        BY <2>1, <3>1
      <4>2. QED
        BY <1>2, <4>1 DEF OutboxRows
    <3>2. CASE e \notin claimed
      BY <2>1, <3>2
    <3>3. QED
      BY <3>1, <3>2
  <2>3. run'[p].task = NoTasks
    <3>1. run'[p] = [batch |-> claimed, retries |-> [f \in Events |-> outbox[f].retries],
                     age |-> 0, task |-> NoTasks]
      BY <2>1
    <3>2. QED
      BY <3>1
  <2>4. \A c \in Consumers : run'[p].task[c].pc = "todo"
    BY <2>3 DEF NoTasks, Todo
  <2>5. ~ Busy(p)
    BY <1>7 DEF ClaimRows
  <2>6. \A q \in Publishers, c \in Consumers : Handling(q, e, c) => Handling(q, e, c)'
    BY <2>1, <2>5 DEF Handling, Busy, Current
  <2>7. \A q \in Publishers, c \in Consumers : Busy(q)' /\ Current(q)' = e =>
          \/ run'[q].task[c].pc = "todo"
          \/ Busy(q) /\ Current(q) = e /\ run'[q] = run[q]
    BY <2>1, <2>4 DEF Busy, Current
  <2>8. QED
    BY <1>3, <2>1, <2>2, <2>6, <2>7 DEF Unfailed, Calm
<1>8. CASE Tick
  <2>1. /\ outbox'[e].failed = outbox[e].failed /\ threw' = threw
        /\ \A c \in Consumers : inbox'[e][c].status = inbox[e][c].status
        /\ \A q \in Publishers : run'[q].batch = run[q].batch /\
             \A c \in Consumers : run'[q].task[c].pc = run[q].task[c].pc
    BY <1>2, <1>8, TickWrites
  <2>2. \A q \in Publishers : Busy(q)' = Busy(q) /\ Current(q)' = Current(q)
    BY <2>1 DEF Busy, Current
  <2>3. \A q \in Publishers, c \in Consumers : Handling(q, e, c)' = Handling(q, e, c)
    BY <2>1, <2>2 DEF Handling
  <2>4. QED
    BY <1>3, <2>1, <2>2, <2>3 DEF Unfailed, Calm
<1>9. CASE \/ UNCHANGED vars \/ \E p \in Publishers : Crash(p)
  BY <1>4, <1>9 DEF vars
<1>10. ASSUME NEW f \in Events, Publish(f)
       PROVE  Unfailed(e)' /\ \A c \in Consumers : Calm(e, c)'
  <2>1. outbox'[e].failed = outbox[e].failed
    BY <1>2, <1>10 DEF Publish, TypeOK, OutboxRows
  <2>2. QED
    BY <1>4, <1>10, <2>1 DEF Publish
<1>11. ASSUME NEW given \in SUBSET Events, Replay(given)
       PROVE  Unfailed(e)' /\ \A c \in Consumers : Calm(e, c)'
  <2>1. PICK rows \in SUBSET Events :
          /\ \A f \in rows : outbox'[f] = [outbox[f] EXCEPT !.retries = 0, !.failed = FALSE]
          /\ \A f \in Events \ rows : outbox'[f] = outbox[f]
          /\ UNCHANGED <<inbox, run, effects, threw, shared, crashes>>
    BY <1>11, ReplayWrites
  <2>2. outbox'[e].failed => outbox[e].failed
    BY <1>2, <2>1 DEF OutboxRows
  <2>3. QED
    BY <1>4, <2>1, <2>2
<1>12. QED
  BY <1>5, <1>6, <1>7, <1>8, <1>9, <1>10, <1>11, NextCases

\* Where no run dies and none outlives its claims, an event is parked only after
\* a consumer of it threw: as consumer-base.ts:105 says, waiting for another
\* worker parks nothing.  It takes a crash or an expired claim to wait for a
\* worker that will not answer.
THEOREM WaitingParksNothing ==
  Spec /\ [][\A p \in Publishers : ~ Crash(p)]_vars /\ []Timely => []ParkedOnlyAfterThrow
<1>1. Init => Undisturbed
  BY EndedLemma DEF Init, Undisturbed, Unfailed, Calm, Busy
<1>2. Shape /\ TwoRunsNeedExpiredClaim /\ Timely /\ Undisturbed /\ [Next]_vars
        /\ [\A p \in Publishers : ~ Crash(p)]_vars => Undisturbed'
  BY ApartLemma, UndisturbedNext
<1>3. Undisturbed => ParkedOnlyAfterThrow
  BY DEF Undisturbed, Unfailed, Parked, ParkedOnlyAfterThrow
<1>4. QED
  BY <1>1, <1>2, <1>3, ShapeInvariant, SharedRowExpired, PTL DEF Spec

-----------------------------------------------------------------------------
(* What brings a row to its end. *)

\* A run read no smaller retry counts than its rows have: only a replay has
\* changed one since.
Counted(p) == \A e \in run[p].batch : outbox[e].holder = p => outbox[e].retries <= run[p].retries[e]

AllCounted == \A p \in Publishers : Counted(p)

\* A run and the counts of the rows it holds stay as they are, or fall.
LEMMA CountedKept ==
  ASSUME Shape, NEW p \in Publishers, Counted(p), run'[p].batch = run[p].batch, run'[p].retries = run[p].retries,
         \A e \in run[p].batch : outbox'[e].holder = p =>
           outbox[e].holder = p /\ (outbox'[e].retries = outbox[e].retries \/ outbox'[e].retries = 0)
  PROVE  Counted(p)'
<1>1. \A e \in run[p].batch : run[p].retries[e] \in Nat
  BY DEF Shape, TypeOK, Runs
<1>2. QED
  BY <1>1 DEF Counted

LEMMA CountedNext == Shape /\ AllCounted /\ [Next]_vars => AllCounted'
<1>1. SUFFICES ASSUME Shape, AllCounted, [Next]_vars, NEW q \in Publishers PROVE Counted(q)'
  BY DEF AllCounted
<1>2. /\ TypeOK /\ Counted(q) /\ run[q] \in Runs /\ run[q].batch \subseteq Events /\ q # NoOne
      /\ \A e \in Events : outbox[e] \in OutboxRows
  BY <1>1, DeliveryAssumption DEF Shape, TypeOK, AllCounted, Runs, DeliveryAssumption
<1>3. ASSUME NEW p \in Publishers, Finish(p)
      PROVE  Counted(q)'
  <2> DEFINE x == Current(p)
  <2>1. /\ Busy(p) /\ x \in Events /\ NextRow(p)
        /\ \A f \in Events : f # x => outbox'[f] = outbox[f]
        /\ outbox' = outbox \/ outbox'[x].holder = NoOne
    BY <1>1, <1>3, FinishWrites
  <2>2. /\ \A r \in Publishers : r # p => run'[r] = run[r]
        /\ run'[p].batch = run[p].batch \ {x}
        /\ run'[p].batch # {} => run'[p].retries = run[p].retries
    BY <1>2, <2>1, NextRowWrites
  <2>3. \A f \in Events : outbox'[f].holder = q => outbox'[f] = outbox[f]
    BY <1>2, <2>1
  <2>4. run'[q].batch \subseteq run[q].batch /\ (run'[q].batch # {} => run'[q].retries = run[q].retries)
    BY <2>2
  <2>5. QED
    BY <1>2, <2>3, <2>4 DEF Counted
<1>4. ASSUME NEW p \in Publishers, ClaimRows(p)
      PROVE  Counted(q)'
  <2>1. PICK claimed \in SUBSET Events :
          /\ \A e \in claimed : outbox'[e] = [outbox[e] EXCEPT !.holder = p, !.age = 0]
          /\ \A e \in Events \ claimed : outbox'[e] = outbox[e]
          /\ run'[p] = [batch |-> claimed, retries |-> [e \in Events |-> outbox[e].retries],
                        age |-> 0, task |-> NoTasks]
          /\ \A r \in Publishers : r # p => run'[r] = run[r]
    BY <1>1, <1>4, ClaimWrites
  <2>2. \A e \in claimed : outbox'[e].holder = p /\ outbox'[e].retries = outbox[e].retries
    <3>1. SUFFICES ASSUME NEW e \in claimed PROVE outbox'[e].holder = p /\ outbox'[e].retries = outbox[e].retries
      OBVIOUS
    <3>2. outbox'[e] = [outbox[e] EXCEPT !.holder = p, !.age = 0] /\ outbox[e] \in OutboxRows
      BY <1>2, <2>1
    <3>3. QED
      BY <3>2 DEF OutboxRows
  <2>3. CASE q = p
    <3>1. run'[q].batch = claimed /\ run'[q].retries = [e \in Events |-> outbox[e].retries]
      <4>1. run'[p] = [batch |-> claimed, retries |-> [e \in Events |-> outbox[e].retries],
                       age |-> 0, task |-> NoTasks]
        BY <2>1
      <4>2. QED
        BY <2>3, <4>1
    <3>2. \A e \in claimed : outbox[e].retries \in Int
      BY <1>2 DEF OutboxRows
    <3>3. QED
      BY <2>2, <3>1, <3>2 DEF Counted
  <2>4. CASE q # p
    <3>1. run'[q] = run[q]
      BY <2>1, <2>4
    <3>2. \A e \in run[q].batch : outbox'[e].holder = q => outbox'[e] = outbox[e]
      BY <1>2, <2>1, <2>2, <2>4
    <3>3. QED
      BY <1>1, <1>2, <3>1, <3>2, CountedKept
  <2>5. QED
    BY <2>3, <2>4
<1>5. CASE Tick
  <2>1. /\ run'[q].batch = run[q].batch /\ run'[q].retries = run[q].retries
        /\ \A e \in Events : outbox'[e].holder = outbox[e].holder /\ outbox'[e].retries = outbox[e].retries
    BY <1>2, <1>5, TickWrites
  <2>2. QED
    BY <1>1, <1>2, <2>1, CountedKept
<1>6. ASSUME NEW f \in Events, Publish(f)
      PROVE  Counted(q)'
  <2>1. /\ run' = run
        /\ \A e \in Events : outbox'[e].holder = outbox[e].holder /\ outbox'[e].retries = outbox[e].retries
    BY <1>2, <1>6 DEF Publish, TypeOK, OutboxRows
  <2>2. QED
    BY <1>1, <1>2, <2>1, CountedKept
<1>7. ASSUME NEW given \in SUBSET Events, Replay(given)
      PROVE  Counted(q)'
  <2>1. PICK rows \in SUBSET Events :
          /\ \A e \in rows : outbox'[e] = [outbox[e] EXCEPT !.retries = 0, !.failed = FALSE]
          /\ \A e \in Events \ rows : outbox'[e] = outbox[e]
          /\ run' = run
    BY <1>1, <1>7, ReplayWrites
  <2>2. ASSUME NEW e \in Events
        PROVE  /\ outbox'[e].holder = outbox[e].holder
               /\ outbox'[e].retries = outbox[e].retries \/ outbox'[e].retries = 0
    <3>1. CASE e \in rows
      <4>1. outbox'[e] = [outbox[e] EXCEPT !.retries = 0, !.failed = FALSE] /\ outbox[e] \in OutboxRows
        BY <1>2, <2>1, <3>1
      <4>2. QED
        BY <4>1 DEF OutboxRows
    <3>2. CASE e \notin rows
      BY <2>1, <3>2
    <3>3. QED
      BY <3>1, <3>2
  <2>3. QED
    BY <1>1, <1>2, <2>1, <2>2, CountedKept
<1>8. ASSUME NEW p \in Publishers, NEW c \in Consumers, TaskStep(p, c)
      PROVE  Counted(q)'
  <2>1. PICK t \in Tasks : Writes(p, c, t)
    BY <1>1, <1>8, TaskStepWrites
  <2>2. outbox' = outbox
    BY <1>1, <1>8, TaskStepWrites
  <2>3. run'[q].batch = run[q].batch /\ run'[q].retries = run[q].retries
    BY <1>2, <2>1, TaskWrites
  <2>4. QED
    BY <1>1, <1>2, <2>2, <2>3, CountedKept
<1>9. ASSUME NEW p \in Publishers, Crash(p)
      PROVE  Counted(q)'
  <2>1. outbox' = outbox /\ run'[p] = EndedRun /\ (q # p => run'[q] = run[q])
    BY <1>2, <1>9 DEF Crash, TypeOK
  <2>2. QED
    BY <1>2, <2>1, EndedLemma DEF Counted
<1>10. CASE UNCHANGED vars
  BY <1>2, <1>10 DEF vars, Counted
<1>11. QED
  BY <1>1, <1>3, <1>4, <1>5, <1>6, <1>7, <1>8, <1>9, <1>10, NextCases

\* What a step does to the retry count of a row.
Rising(e) ==
  /\ outbox'[e].retries < outbox[e].retries => replays' = replays + 1
  /\ \A p \in Publishers : MarkFailed(p) /\ Current(p) = e /\ Owns(p, e) =>
       outbox'[e].retries > outbox[e].retries

LEMMA RisingNext ==
  ASSUME Shape, AllCounted, [Next]_vars, NEW e \in Events
  PROVE  Rising(e)
<1>1. TypeOK /\ outbox[e] \in OutboxRows /\ outbox[e].retries \in 0..MaxRetries /\ MaxRetries \in Nat
  BY DeliveryAssumption DEF Shape, TypeOK, OutboxRows, DeliveryAssumption
<1>2. ASSUME NEW p \in Publishers, MarkFailed(p), Current(p) = e, Owns(p, e)
      PROVE  outbox'[e].retries > outbox[e].retries
  <2>1. e \in run[p].batch
    BY <1>2, CurrentLemma DEF Shape, MarkFailed
  <2>2. outbox[e].retries <= run[p].retries[e] /\ run[p].retries[e] \in Int
    BY <1>2, <2>1, <1>1 DEF AllCounted, Counted, Owns, TypeOK, Runs
  <2>3. outbox' = [outbox EXCEPT ![e] = [Released(outbox[e]) EXCEPT !.retries = run[p].retries[e] + 1, !.failed = TRUE]]
    BY <1>2 DEF MarkFailed, FailedOnce
  <2>4. outbox'[e] = [Released(outbox[e]) EXCEPT !.retries = run[p].retries[e] + 1, !.failed = TRUE]
    BY <1>1, <2>3 DEF TypeOK
  <2>5. outbox'[e].retries = run[p].retries[e] + 1
    BY <1>1, <2>4 DEF Released, OutboxRows
  <2>6. QED
    BY <1>1, <2>2, <2>5
<1>3. outbox'[e].retries \in Int
  <2>1. Shape'
    BY ShapeNext
  <2>2. QED
    BY <2>1 DEF Shape, TypeOK, OutboxRows
<1> SUFFICES outbox'[e].retries >= outbox[e].retries \/ replays' = replays + 1
  BY <1>1, <1>2, <1>3 DEF Rising
<1>4. CASE outbox'[e].retries = outbox[e].retries
  BY <1>1, <1>4
<1>5. ASSUME NEW p \in Publishers, Finish(p), outbox'[e] # outbox[e]
      PROVE  outbox'[e].retries >= outbox[e].retries
  <2>1. Current(p) = e /\ Owns(p, e)
    BY <1>5, FinishWrites
  <2>2. CASE MarkFailed(p)
    <3>1. outbox'[e].retries > outbox[e].retries
      BY <1>2, <2>1, <2>2
    <3>2. QED
      BY <1>1, <1>3, <3>1
  <2>3. CASE AckRecordOnly(p)
    <3>1. outbox'[e] = [Released(outbox[e]) EXCEPT !.state = "published"]
      BY <1>1, <2>1, <2>3 DEF AckRecordOnly, TypeOK
    <3>2. QED
      BY <1>1, <3>1 DEF Released, OutboxRows
  <2>4. CASE MarkPublished(p)
    <3>1. outbox'[e] = [Released(outbox[e]) EXCEPT !.state = "published", !.failed = FALSE]
      BY <1>1, <2>1, <2>4 DEF MarkPublished, TypeOK
    <3>2. QED
      BY <1>1, <3>1 DEF Released, OutboxRows
  <2>5. CASE ParkUnrouted(p)
    <3>1. outbox'[e] = [Released(outbox[e]) EXCEPT !.retries = MaxRetries, !.failed = TRUE]
      BY <1>1, <2>1, <2>5 DEF ParkUnrouted, TypeOK
    <3>2. QED
      BY <1>1, <3>1 DEF Released, OutboxRows
  <2>6. QED
    BY <1>5, <2>2, <2>3, <2>4, <2>5 DEF Finish
<1>6. ASSUME NEW p \in Publishers, ClaimRows(p)
      PROVE  outbox'[e].retries = outbox[e].retries
  <2>1. PICK claimed \in SUBSET Events :
          /\ \A f \in claimed : outbox'[f] = [outbox[f] EXCEPT !.holder = p, !.age = 0]
          /\ \A f \in Events \ claimed : outbox'[f] = outbox[f]
    BY <1>6, ClaimWrites
  <2>2. outbox'[e] = [outbox[e] EXCEPT !.holder = p, !.age = 0] \/ outbox'[e] = outbox[e]
    BY <2>1
  <2>3. QED
    BY <1>1, <2>2 DEF OutboxRows
<1>7. CASE Tick
  BY <1>1, <1>4, <1>7, TickWrites
<1>8. ASSUME NEW f \in Events, Publish(f)
      PROVE  outbox'[e].retries = outbox[e].retries
  BY <1>1, <1>8 DEF Publish, TypeOK, OutboxRows
<1>9. ASSUME NEW given \in SUBSET Events, Replay(given)
      PROVE  replays' = replays + 1
  BY <1>9 DEF Replay
<1>10. CASE \/ UNCHANGED vars \/ (\E p \in Publishers : Crash(p))
            \/ \E p \in Publishers, c \in Consumers : TaskStep(p, c)
  <2>1. outbox' = outbox
    BY <1>10, TaskStepWrites DEF vars, Crash
  <2>2. QED
    BY <1>4, <2>1
<1>11. QED
  BY <1>1, <1>4, <1>5, <1>6, <1>7, <1>8, <1>9, <1>10, NextCases

\* The retry count of a row falls only by an operator's replay, and a failure
\* that the holder of the row records raises it, also when the row was replayed
\* under its claim: retry_count is what was read at the claim plus one, and no
\* one else counts in between.  It is what brings a row that keeps failing to
\* MAX_RETRIES.
THEOREM FailuresAddUp == Spec => [][\A e \in Events : Rising(e)]_vars
<1>1. Init => AllCounted
  BY EndedLemma DEF Init, AllCounted, Counted
<1>2. Shape /\ AllCounted /\ [Next]_vars => \A e \in Events : Rising(e)
  BY RisingNext
<1>3. QED
  BY <1>1, <1>2, CountedNext, ShapeInvariant, PTL DEF Spec

=============================================================================
